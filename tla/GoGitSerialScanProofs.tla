----------------------- MODULE GoGitSerialScanProofs -----------------------
(***************************************************************************)
(* Proofs about a scan fed by the gogit backend with one reader, for any   *)
(* store, any number of matchers and any size of the batch.                *)
(*                                                                         *)
(* The argument: what the feeder has in hand or in its batch is owed a     *)
(* match (Routed); it returns without an error only when the enumeration   *)
(* has ended and hand and batch are empty (Control); and a blob leaves one *)
(* of the places it can be in only for the next, or for its answer         *)
(* (Accounted).                                                            *)
(***************************************************************************)
EXTENDS GoGitSerialScan, ScanCoreProofs

(* What is known of a blob where it is.                                    *)
Routed ==
  /\ \A b \in unlisted : store[b].type = "blob"
  /\ hand # NoBlob => ToMatch(hand)
  /\ \A b \in Blobs : In(b, batch) => ToMatch(b)

(* When the feeder returns, and what it leaves behind.                     *)
Control ==
  /\ main = "open" => hand = NoBlob
  /\ eof => unlisted = {} /\ hand = NoBlob
  /\ main \in {"return", "returned"} /\ ~err => eof /\ batch = <<>>
  /\ jobsClosed <=> main = "returned"
  /\ main = "returned" => feedErr = err

(* b is on its way to an answer.                                           *)
Pending(b) ==
  \/ b \in unlisted
  \/ hand = b
  \/ In(b, batch)
  \/ InMatching(b)

Accounted == ~err => \A b \in Blobs : Pending(b) \/ Lookup(b) = Reference(b)

(* The batch and its running count; the enumeration goes on while there is *)
(* room for another job.                                                   *)
Batched ==
  /\ IsFiniteSet(Bytes(batch))
  /\ Len(batch) <= JobBatchSize
  /\ Len(batch) > 1 => Weight(batch) <= JobBatchBytes
  /\ main \in {"list", "read"} => batchBytes = Weight(batch) /\ Len(batch) < JobBatchSize
  /\ main = "open" => batch = <<>> /\ batchBytes = 0

Inv == TypeOK /\ CoreInv /\ Routed /\ Control /\ Accounted /\ Batched

-----------------------------------------------------------------------------
(* Where the library serves what it listed, a blob within its limit is     *)
(* matched.                                                                *)
LEMMA ListedIsServed ==
  ASSUME TypeOK, NEW b \in Blobs, ToRead(b)
  PROVE  ToMatch(b)
<1>1. store[b].servedType = store[b].type /\ store[b].servedSize = store[b].size
  BY SerialAssumption DEF TypeOK, CoreTypeOK
<1> QED BY <1>1, Routes DEF ToRead

(* A step that does not concern the shared part.                           *)
FeedOnly == Open \/ Fails \/ Read \/ ListEnd \/ FlushEnd \/ Done \/ UNCHANGED vars

(* The kinds of steps there are.                                           *)
LEMMA StepKinds ==
  ASSUME [Next]_vars
  PROVE  \/ FeedOnly
         \/ \E b \in Blobs : List(b)
         \/ FlushOne
         \/ FeedReturn
         \/ ScanReturn /\ UNCHANGED feedVars
         \/ \E w \in Workers : WorkerStep(w) /\ UNCHANGED feedVars
BY DEF Next, MainStep, Matchers, FeedOnly

(* To the shared part each step is one of those that keep it.              *)
LEMMA StepOfCore ==
  ASSUME TypeOK, CoreInv, Routed, Control, [Next]_vars
  PROVE  CoreStep
<1>1. CASE FeedOnly
  BY <1>1 DEF FeedOnly, Open, Fails, Read, ListEnd, FlushEnd, Done, vars, CoreStep
<1>2. ASSUME NEW b \in Blobs, List(b) PROVE CoreStep
  <2>1. /\ store[b].type = "blob" /\ ~jobsClosed
        /\ UNCHANGED <<store, jobs, workerVars, returnVars>>
    BY <1>2 DEF List, Routed, Control
  <2>2. {"total"} \in SUBSET Counters /\ {"total", "skipSize"} \in SUBSET Counters
    BY DEF Counters
  <2>3. CASE store[b].size > Limit(b)
    <3>1. Records(b)
      BY <1>2, <2>1, <2>2, <2>3, Routes DEF List, Records
    <3> QED BY <3>1 DEF CoreStep
  <2>4. CASE ~(store[b].size > Limit(b))
    BY <1>2, <2>1, <2>2, <2>4 DEF List, CoreStep, Counts
  <2> QED BY <2>3, <2>4
<1>3. CASE FlushOne
  <2>1. Head(batch) \in Blobs /\ ToMatch(Head(batch))
    BY <1>3, HeadTailType DEF FlushOne, TypeOK, Routed
  <2>2. Sends(Head(batch))
    BY <1>3, <2>1 DEF FlushOne, Sends, Control
  <2> QED BY <2>1, <2>2 DEF CoreStep
<1>4. CASE FeedReturn
  BY <1>4 DEF FeedReturn, CoreStep, Closes, TypeOK
<1>5. CASE ScanReturn
  BY <1>5 DEF CoreStep
<1>6. ASSUME NEW w \in Workers, WorkerStep(w) PROVE CoreStep
  BY <1>6 DEF CoreStep
<1> QED BY <1>1, <1>2, <1>3, <1>4, <1>5, <1>6, StepKinds

-----------------------------------------------------------------------------
(* The blob in hand joins the batch: what the batch then holds.            *)
LEMMA Added ==
  ASSUME NEW held \in Seq(Blobs), NEW bytes \in Nat, hand \in Blobs,
         store \in [Blobs -> Entries], AddTo(held, bytes)
  PROVE  /\ batch' \in Seq(Blobs) /\ batchBytes' \in Nat
         /\ hand' = NoBlob /\ main' \in {"flush", "list"}
         /\ \A b : In(b, batch') <=> In(b, held) \/ b = hand
<1>1. batch' = Append(held, hand)
  BY DEF AddTo
<1>2. store[hand] \in EntryType
  BY ScanAssumption
<1>3. store[hand].size \in Nat
  BY <1>2 DEF EntryType
<1> QED BY <1>1, <1>3, InAppend DEF AddTo

(* The feeder's own state stays well-typed, and what is known of a blob    *)
(* stays known.                                                            *)
LEMMA FeedStep ==
  ASSUME TypeOK, CoreInv, Routed, Control, [Next]_vars
  PROVE  /\ TypeOK' /\ Routed'
<1>0. CoreTypeOK'
  BY StepOfCore, CoreKeeps DEF TypeOK
<1>a. \A b : (ToMatch(b)' <=> ToMatch(b)) /\ store' = store
  BY StepOfCore, CoreKeeps, ReferenceFixed DEF TypeOK
<1> USE DEF TypeOK
<1> DEFINE Known(rest, h, s) ==
      /\ \A b \in rest : store[b].type = "blob"
      /\ h # NoBlob => ToMatch(h)
      /\ \A b \in Blobs : In(b, s) => ToMatch(b)
<1>b. Known(unlisted, hand, batch)
  BY DEF Routed
<1> DEFINE Goal ==
      /\ unlisted' \subseteq Blobs
      /\ main' \in {"open", "list", "read", "flush", "return", "returned"}
      /\ hand' \in Blobs \cup {NoBlob}
      /\ main' = "read" => hand' # NoBlob
      /\ main' = "list" => hand' = NoBlob
      /\ batch' \in Seq(Blobs)
      /\ batchBytes' \in Nat
      /\ eof' \in BOOLEAN
      /\ err' \in BOOLEAN
      /\ Known(unlisted', hand', batch')
<1>c. SUFFICES Goal
  BY <1>0, <1>a DEF Routed
<1>1. CASE Open
  <2>1. main = "open" /\ main' = "list" /\ UNCHANGED <<unlisted, hand, batch, batchBytes, eof, err>>
    BY <1>1 DEF Open
  <2>2. hand = NoBlob
    BY <2>1 DEF Control
  <2> QED BY <2>1, <2>2, <1>b
<1>2. CASE Fails
  BY <1>2, <1>b, InEmpty DEF Fails
<1>3. ASSUME NEW b \in Blobs, List(b) PROVE Goal
  <2>1. CASE store[b].size > Limit(b)
    BY <1>3, <2>1, <1>b DEF List
  <2>2. CASE ~(store[b].size > Limit(b))
    <3>1. ToRead(b)
      BY <1>3, <2>2 DEF List, Routed, ToRead
    <3>2. ToMatch(b) /\ b # NoBlob
      BY <3>1, ListedIsServed, ScanAssumption
    <3>3. /\ unlisted' = unlisted \ {b} /\ main' = "read" /\ hand' = b
          /\ UNCHANGED <<batch, batchBytes, eof, err>>
      BY <1>3, <2>2 DEF List
    <3> QED BY <3>2, <3>3, <1>b
  <2> QED BY <2>1, <2>2
<1>4. CASE Read
  <2>1. hand \in Blobs /\ ToMatch(hand)
    BY <1>4, <1>b DEF Read
  <2>2. CASE AddTo(batch, batchBytes)
    BY <1>4, <2>1, <2>2, <1>b, Added DEF Read, CoreTypeOK
  <2>3. CASE ~AddTo(batch, batchBytes)
    BY <1>4, <2>3, <1>b DEF Read
  <2> QED BY <2>2, <2>3
<1>5. CASE ListEnd
  BY <1>5, <1>b DEF ListEnd
<1>6. CASE FlushOne
  <2>1. Tail(batch) \in Seq(Blobs) /\ \A b \in Blobs : In(b, Tail(batch)) => In(b, batch)
    BY <1>6, HeadTailType, InTail DEF FlushOne
  <2> QED BY <1>6, <2>1, <1>b DEF FlushOne
<1>7. CASE FlushEnd
  <2>1. CASE hand # NoBlob
    <3>1. <<>> \in Seq(Blobs) /\ hand \in Blobs
      BY <2>1
    <3> QED BY <1>7, <2>1, <3>1, <1>b, Added, InEmpty DEF FlushEnd, CoreTypeOK
  <2>2. CASE hand = NoBlob
    BY <1>7, <2>2, <1>b DEF FlushEnd
  <2> QED BY <2>1, <2>2
<1>8. CASE FeedReturn
  BY <1>8, <1>b DEF FeedReturn
<1>9. CASE UNCHANGED feedVars
  BY <1>9, <1>b DEF feedVars
<1> QED
  BY <1>1, <1>2, <1>3, <1>4, <1>5, <1>6, <1>7, <1>8, <1>9, StepKinds
     DEF FeedOnly, Done, vars

(* The feeder returns only after an error or with everything sent.         *)
LEMMA ControlStep ==
  ASSUME TypeOK, CoreInv, Routed, Control, [Next]_vars
  PROVE  Control'
<1> USE DEF TypeOK, Control
<1>1. CASE Open \/ Fails
  BY <1>1 DEF Open, Fails, coreVars, returnVars
<1>2. ASSUME NEW b \in Blobs, List(b) PROVE Control'
  BY <1>2 DEF List, returnVars
<1>3. CASE Read
  BY <1>3 DEF Read, AddTo, coreVars, returnVars
<1>4. CASE ListEnd
  BY <1>4 DEF ListEnd, coreVars, returnVars
<1>5. CASE FlushOne
  BY <1>5 DEF FlushOne, returnVars
<1>6. CASE FlushEnd
  BY <1>6 DEF FlushEnd, AddTo, coreVars, returnVars
<1>7. CASE FeedReturn
  BY <1>7 DEF FeedReturn, CloseJobs
<1>8. CASE UNCHANGED <<feedVars, jobsClosed, feedErr>>
  BY <1>8 DEF feedVars
<1>9. ASSUME NEW w \in Workers, WorkerStep(w)
      PROVE  UNCHANGED <<jobsClosed, feedErr>>
  BY <1>9 DEF WorkerStep, WorkerTake, WorkerMatch, WorkerExit, returnVars
<1>10. ScanReturn => UNCHANGED <<jobsClosed, feedErr>>
  BY DEF ScanReturn
<1>11. Done \/ UNCHANGED vars => UNCHANGED <<feedVars, jobsClosed, feedErr>>
  BY DEF Done, vars, coreVars, returnVars
<1> QED
  BY <1>1, <1>2, <1>3, <1>4, <1>5, <1>6, <1>7, <1>8, <1>9, <1>10, <1>11, StepKinds
     DEF FeedOnly

(* No blob goes missing.                                                   *)
LEMMA AccountedStep ==
  ASSUME Inv, [Next]_vars
  PROVE  Accounted'
<1> USE DEF Inv, TypeOK
<1>0. \A b : Reference(b)' = Reference(b)
  BY StepOfCore, CoreKeeps, ReferenceFixed
<1>a. SUFFICES ASSUME ~err', NEW b \in Blobs
               PROVE  Pending(b)' \/ Lookup(b)' = Reference(b)
  BY <1>0 DEF Accounted
<1>b. ~err => Pending(b) \/ Lookup(b) = Reference(b)
  BY DEF Accounted
<1> DEFINE Goal == Pending(b)' \/ Lookup(b)' = Reference(b)
<1>c. /\ InMatching(b) => InMatching(b)' \/ Lookup(b)' = Reference(b)
      /\ Lookup(b) = Reference(b) => Lookup(b)' = Reference(b)
  BY StepOfCore, CoreKeeps
<1>1. CASE Fails
  BY <1>1, <1>a DEF Fails
<1>2. ASSUME NEW x \in Blobs, List(x) PROVE Goal
  <2>1. ~err /\ hand = NoBlob
    BY <1>2, <1>a DEF List
  <2>2. CASE b = x
    <3>1. CASE store[x].size > Limit(x)
      <4>1. Put(x, Reference(x)) /\ UNCHANGED store
        BY <1>2, <3>1, Routes DEF List, Routed
      <4>2. Lookup(x)' = Reference(x)
        BY <4>1, PutReference DEF CoreTypeOK, CoreInv, IndexTypeOK
      <4> QED BY <2>2, <4>2
    <3>2. CASE ~(store[x].size > Limit(x))
      BY <1>2, <2>2, <3>2 DEF List, Pending
    <3> QED BY <3>1, <3>2
  <2>3. CASE b # x
    <3>1. b \in unlisted => b \in unlisted'
      BY <1>2, <2>3 DEF List
    <3> QED BY <1>2, <1>b, <1>c, <2>1, <3>1, ScanAssumption DEF List, Pending
  <2> QED BY <2>2, <2>3
<1>3. CASE Read \/ FlushEnd
  <2>1. ~err /\ UNCHANGED unlisted
    BY <1>3, <1>a DEF Read, FlushEnd
  <2>2. In(b, batch) \/ hand = b => In(b, batch') \/ hand' = b
    <3>1. ASSUME NEW held \in Seq(Blobs), NEW bytes \in Nat, hand \in Blobs,
                 AddTo(held, bytes), In(b, batch) => In(b, held)
          PROVE  In(b, batch) \/ hand = b => In(b, batch') \/ hand' = b
      BY <3>1, Added DEF CoreTypeOK
    <3>2. CASE UNCHANGED <<hand, batch>>
      BY <3>2
    <3>3. CASE Read
      BY <1>a, <3>1, <3>2, <3>3 DEF Read
    <3>4. CASE FlushEnd
      <4>1. <<>> \in Seq(Blobs) /\ (In(b, batch) => In(b, <<>>))
        BY <3>4 DEF FlushEnd
      <4> QED BY <1>a, <3>1, <3>2, <3>4, <4>1, ScanAssumption DEF FlushEnd
    <3> QED BY <1>3, <3>3, <3>4
  <2> QED BY <1>b, <1>c, <2>1, <2>2 DEF Pending
<1>4. CASE FlushOne
  <2>1. /\ ~err /\ UNCHANGED <<unlisted, hand>>
        /\ batch # <<>> /\ batch' = Tail(batch) /\ SendJob(Head(batch))
        /\ UNCHANGED workerVars
    BY <1>4, <1>a DEF FlushOne
  <2>2. Head(batch) \in Blobs /\ (In(b, batch) <=> b = Head(batch) \/ In(b, batch'))
    BY <2>1, InTail, HeadTailType
  <2>3. In(b, jobs') <=> In(b, jobs) \/ b = Head(batch)
    BY <2>1, <2>2, InAppend DEF SendJob, CoreTypeOK
  <2>4. b = Head(batch) => InMatching(b)'
    BY <2>3 DEF InMatching
  <2> QED BY <1>b, <1>c, <2>1, <2>2, <2>4 DEF Pending
<1>5. CASE UNCHANGED <<unlisted, hand, batch, err>>
  BY <1>5, <1>a, <1>b, <1>c DEF Pending
<1> QED
  BY <1>1, <1>2, <1>3, <1>4, <1>5, StepKinds
     DEF FeedOnly, Open, ListEnd, FeedReturn, Done, feedVars, vars

-----------------------------------------------------------------------------
(* The weight of a batch.                                                  *)

(* An empty batch weighs nothing.                                          *)
LEMMA WeightEmpty == Bytes(<<>>) = {} /\ IsFiniteSet(Bytes(<<>>)) /\ Weight(<<>>) = 0
<1>1. Bytes(<<>>) = {}
  BY DEF Bytes
<1> QED BY <1>1, FS_EmptySet DEF Weight

(* The bytes of one blob.                                                  *)
LEMMA RowSize ==
  ASSUME NEW n, NEW m \in Nat
  PROVE  IsFiniteSet({n} \X (1..m)) /\ Cardinality({n} \X (1..m)) = m
<1>1. IsFiniteSet({n}) /\ Cardinality({n}) = 1
  BY FS_Singleton
<1>2. IsFiniteSet(1..m) /\ Cardinality(1..m) = m
  BY FS_Interval
<1>3. /\ IsFiniteSet({n} \X (1..m))
      /\ Cardinality({n} \X (1..m)) = Cardinality({n}) * Cardinality(1..m)
  BY ONLY <1>1, <1>2, FS_Product
<1> QED BY <1>1, <1>2, <1>3

(* One more blob adds its size.                                            *)
LEMMA WeightAppend ==
  ASSUME store \in [Blobs -> Entries], NEW held \in Seq(Blobs), NEW b \in Blobs,
         IsFiniteSet(Bytes(held))
  PROVE  /\ IsFiniteSet(Bytes(Append(held, b)))
         /\ Weight(Append(held, b)) = Weight(held) + store[b].size
         /\ Weight(held) \in Nat /\ store[b].size \in Nat
<1> DEFINE n == Len(held) + 1
           more == Append(held, b)
           New == {n} \X (1..store[b].size)
<1>1. store[b] \in EntryType
  BY ScanAssumption
<1>2. store[b].size \in Nat
  BY <1>1 DEF EntryType
<1>3. /\ Len(held) \in Nat /\ DOMAIN held = 1..Len(held) /\ DOMAIN more = 1..n
      /\ more[n] = b /\ \A i \in 1..Len(held) : more[i] = held[i]
  OBVIOUS
<1>4. \A i \in 1..n : i \in 1..Len(held) \/ i = n
  BY <1>3
<1>5. n \in 1..n /\ n \notin 1..Len(held) /\ \A i \in 1..Len(held) : i \in 1..n
  BY <1>3
<1> HIDE DEF more, n
<1>6. Bytes(more) = Bytes(held) \cup New
  <2>1. ASSUME NEW p \in Bytes(more) PROVE p \in Bytes(held) \cup New
    <3>1. PICK i \in 1..n : p \in {i} \X (1..store[more[i]].size)
      BY <1>3, <2>1 DEF Bytes
    <3>2. CASE i = n
      BY <1>3, <3>1, <3>2
    <3>3. CASE i \in 1..Len(held)
      BY <1>3, <3>1, <3>3 DEF Bytes
    <3> QED BY <1>4, <3>2, <3>3
  <2>2. ASSUME NEW p \in Bytes(held) PROVE p \in Bytes(more)
    BY <1>3, <1>5, <2>2 DEF Bytes
  <2>3. ASSUME NEW p \in New PROVE p \in Bytes(more)
    BY <1>3, <1>5, <2>3 DEF Bytes
  <2> QED BY <2>1, <2>2, <2>3
<1>7. Bytes(held) \cap New = {}
  BY <1>3, <1>5 DEF Bytes
<1>8. IsFiniteSet(New) /\ Cardinality(New) = store[b].size
  BY <1>2, RowSize
<1> HIDE DEF New
<1>9. /\ IsFiniteSet(Bytes(held) \cup New)
      /\ Cardinality(Bytes(held) \cup New) = Cardinality(Bytes(held)) + Cardinality(New)
                                            - Cardinality(Bytes(held) \cap New)
  BY ONLY <1>8, IsFiniteSet(Bytes(held)), FS_Union
<1>10. Cardinality(Bytes(held)) \in Nat
  BY FS_CardinalityType
<1>11. Cardinality(Bytes(held) \cap New) = 0
  BY <1>7, FS_EmptySet
<1>12. IsFiniteSet(Bytes(more)) /\ Cardinality(Bytes(more)) = Cardinality(Bytes(held)) + store[b].size
  BY <1>2, <1>6, <1>8, <1>9, <1>10, <1>11
<1> QED BY <1>2, <1>10, <1>12 DEF Weight, more

(* What is left of a batch weighs no more.                                 *)
LEMMA WeightTail ==
  ASSUME NEW held \in Seq(Blobs), held # <<>>, IsFiniteSet(Bytes(held))
  PROVE  /\ IsFiniteSet(Bytes(Tail(held))) /\ Weight(Tail(held)) <= Weight(held)
         /\ Weight(Tail(held)) \in Nat /\ Weight(held) \in Nat
<1>1. PICK rest : rest = Tail(held)
  OBVIOUS
<1>2. /\ Len(held) \in Nat \ {0} /\ DOMAIN held = 1..Len(held)
      /\ DOMAIN rest = 1..(Len(held) - 1)
      /\ \A i \in 1..(Len(held) - 1) : rest[i] = held[i + 1]
  BY <1>1
<1>3. \A i \in 1..(Len(held) - 1) : i + 1 \in 1..Len(held) /\ i \in Int
  BY <1>2
<1> DEFINE moved == [p \in Bytes(rest) |-> <<p[1] + 1, p[2]>>]
<1>4. \A p \in Bytes(rest) : \E i \in 1..(Len(held) - 1) : \E k :
        /\ p = <<i, k>>
        /\ k \in 1..store[held[i + 1]].size
  BY <1>2 DEF Bytes
<1>5. \A i \in 1..(Len(held) - 1) : \A k \in 1..store[held[i + 1]].size :
        <<i + 1, k>> \in Bytes(held)
  BY <1>2, <1>3 DEF Bytes
<1>6. moved \in Injection(Bytes(rest), Bytes(held))
  <2>1. \A p \in Bytes(rest) : <<p[1] + 1, p[2]>> \in Bytes(held)
    BY <1>4, <1>5
  <2>2. ASSUME NEW p \in Bytes(rest), NEW q \in Bytes(rest),
               <<p[1] + 1, p[2]>> = <<q[1] + 1, q[2]>>
        PROVE  p = q
    <3>1. p[1] + 1 = q[1] + 1 /\ p[2] = q[2]
      BY <2>2
    <3>2. p[1] \in Int /\ q[1] \in Int /\ p = <<p[1], p[2]>> /\ q = <<q[1], q[2]>>
      BY <1>3, <1>4
    <3>3. p[1] = q[1]
      BY <3>1, <3>2
    <3> QED BY <3>1, <3>2, <3>3
  <2> QED BY <2>1, <2>2 DEF Injection, IsInjective
<1> HIDE DEF moved
<1>7. IsFiniteSet(Bytes(rest)) /\ Cardinality(Bytes(rest)) <= Cardinality(Bytes(held))
  BY <1>6, FS_Injection
<1> QED BY <1>1, <1>7, FS_CardinalityType DEF Weight

(* No batch outgrows its bounds, and the count is the weight whenever the  *)
(* next blob is compared with it.                                          *)
LEMMA BatchedStep ==
  ASSUME Inv, [Next]_vars, store' = store
  PROVE  Batched'
<1> USE DEF Inv, TypeOK
<1>s. \A s : Bytes(s)' = Bytes(s) /\ Weight(s)' = Weight(s)
  BY DEF Bytes, Weight
<1> DEFINE Bounds(s, bytes, pc) ==
      /\ IsFiniteSet(Bytes(s))
      /\ Len(s) <= JobBatchSize
      /\ Len(s) > 1 => Weight(s) <= JobBatchBytes
      /\ pc \in {"list", "read"} => bytes = Weight(s) /\ Len(s) < JobBatchSize
      /\ pc = "open" => s = <<>> /\ bytes = 0
<1>a. Bounds(batch, batchBytes, main) /\ batch \in Seq(Blobs) /\ Len(batch) \in Nat
  BY DEF Batched
<1>e. Len(<<>>) = 0 /\ JobBatchSize \in Nat \ {0} /\ <<>> \in Seq(Blobs)
  BY SerialAssumption
<1>b. SUFFICES Bounds(batch', batchBytes', main')
  BY <1>b, <1>s DEF Batched, Bytes, Weight
<1>1. CASE Open
  BY <1>1, <1>a, <1>e, WeightEmpty DEF Open
<1>2. CASE Fails
  BY <1>2, <1>e, WeightEmpty DEF Fails
<1>3. ASSUME NEW held \in Seq(Blobs), NEW bytes, hand \in Blobs, AddTo(held, bytes),
             IsFiniteSet(Bytes(held)), bytes = Weight(held), Len(held) < JobBatchSize,
             held # <<>> => bytes + store[hand].size <= JobBatchBytes
      PROVE  Bounds(batch', batchBytes', main')
  <2>1. /\ batch' = Append(held, hand) /\ batchBytes' = bytes + store[hand].size
        /\ main' = IF Len(held) + 1 = JobBatchSize THEN "flush" ELSE "list"
    BY <1>3 DEF AddTo
  <2>2. /\ IsFiniteSet(Bytes(batch')) /\ Weight(batch') = Weight(held) + store[hand].size
        /\ Weight(held) \in Nat /\ store[hand].size \in Nat
    BY <1>3, <2>1, WeightAppend DEF CoreTypeOK
  <2>3. Len(batch') = Len(held) + 1 /\ Len(held) \in Nat
    BY <2>1
  <2>4. Len(batch') > 1 => held # <<>>
    BY <1>e, <2>3
  <2> QED BY <1>e, <1>3, <2>1, <2>2, <2>3, <2>4
<1>4. CASE Read
  <2>1. main = "read" /\ hand \in Blobs
    BY <1>4 DEF Read
  <2>2. CASE batch # <<>> /\ batchBytes + store[hand].size > JobBatchBytes
    BY <1>4, <1>a, <2>2 DEF Read
  <2>3. CASE ~(batch # <<>> /\ batchBytes + store[hand].size > JobBatchBytes)
    <3>1. store[hand].size \in Nat
      BY <1>a, <2>1, WeightAppend DEF CoreTypeOK
    <3>2. batch # <<>> => batchBytes + store[hand].size <= JobBatchBytes
      BY <2>3, <3>1, SerialAssumption
    <3>3. AddTo(batch, batchBytes)
      BY <1>4, <2>3 DEF Read
    <3> QED BY <1>3, <1>a, <2>1, <3>2, <3>3
  <2> QED BY <2>2, <2>3
<1>5. CASE FlushOne
  <2>1. batch # <<>> /\ batch' = Tail(batch) /\ main = "flush" /\ UNCHANGED <<main, batchBytes>>
    BY <1>5 DEF FlushOne
  <2>2. /\ IsFiniteSet(Bytes(batch')) /\ Weight(batch') <= Weight(batch)
        /\ Weight(batch') \in Nat /\ Weight(batch) \in Nat
    BY <1>a, <2>1, WeightTail
  <2>3. Len(batch') = Len(batch) - 1
    BY <1>a, <2>1
  <2> QED BY <1>a, <1>e, <2>1, <2>2, <2>3, SerialAssumption
<1>6. CASE FlushEnd
  <2>1. CASE hand # NoBlob
    <3>1. AddTo(<<>>, 0) /\ hand \in Blobs
      BY <1>6, <2>1 DEF FlushEnd
    <3>2. PICK held \in Seq(Blobs) : held = <<>>
      BY <1>e
    <3>3. /\ AddTo(held, 0) /\ IsFiniteSet(Bytes(held)) /\ 0 = Weight(held)
          /\ Len(held) < JobBatchSize
      BY <1>e, <3>1, <3>2, WeightEmpty
    <3> QED BY <1>3, <3>1, <3>2, <3>3
  <2>2. CASE hand = NoBlob
    <3>1. batch' = <<>> /\ batchBytes' = 0 /\ main' \in {"return", "list"}
      BY <1>6, <2>2 DEF FlushEnd
    <3> QED BY <1>e, <3>1, WeightEmpty
  <2> QED BY <2>1, <2>2
<1>7. CASE UNCHANGED <<batch, batchBytes>> /\ main' \notin {"open"} /\ (main' \in {"list", "read"} => main = "list")
  BY <1>7, <1>a
<1>8. CASE UNCHANGED feedVars
  BY <1>8, <1>a DEF feedVars
<1>9. ASSUME NEW b \in Blobs, List(b) PROVE Bounds(batch', batchBytes', main')
  BY <1>7, <1>9 DEF List
<1>10. CASE ListEnd \/ FeedReturn
  BY <1>7, <1>10 DEF ListEnd, FeedReturn
<1> QED
  BY <1>1, <1>2, <1>4, <1>5, <1>6, <1>8, <1>9, <1>10, StepKinds DEF FeedOnly, Done, vars

-----------------------------------------------------------------------------
(* The invariant and what follows from it.                                 *)

(* The invariant holds at the start; what is no blob has its answer.       *)
LEMMA InitInv ==
  ASSUME Init
  PROVE  Inv
<1> USE DEF Init
<1>1. CoreTypeOK /\ CoreInv
  BY CoreStart
<1>2. TypeOK
  <2>1. <<>> \in Seq(Blobs) /\ unlisted \subseteq Blobs
    OBVIOUS
  <2> QED BY <1>1, <2>1 DEF TypeOK
<1>3. Routed
  BY InEmpty DEF Routed
<1>4. Control
  BY DEF Control, CoreInit
<1>5. Accounted
  <2>1. ASSUME NEW b \in Blobs, b \notin unlisted PROVE Lookup(b) = Reference(b)
    BY <1>1, <2>1, Routes, EmptySettled
  <2> QED BY <2>1 DEF Accounted, Pending
<1>6. Batched
  BY WeightEmpty, SerialAssumption DEF Batched
<1> QED BY <1>1, <1>2, <1>3, <1>4, <1>5, <1>6 DEF Inv

(* Every step keeps it.                                                    *)
LEMMA StepInv ==
  ASSUME Inv, [Next]_vars
  PROVE  Inv'
<1>1. CoreInv' /\ store' = store
  BY StepOfCore, CoreKeeps DEF Inv, TypeOK
<1> QED BY <1>1, FeedStep, ControlStep, AccountedStep, BatchedStep DEF Inv

(* The invariant holds in every state of a scan.                           *)
THEOREM Invariance == Spec => []Inv
<1>1. Init => Inv
  BY InitInv
<1>2. Inv /\ [Next]_vars => Inv'
  BY StepInv
<1> QED BY <1>1, <1>2, PTL DEF Spec, Safety

(* Every variable keeps its type; above all, the enumeration goes on only  *)
(* with an empty hand, so no blob that waits for a flush is overwritten.   *)
THEOREM TypeCorrect == Spec => []TypeOK
<1>1. Inv => TypeOK
  BY DEF Inv
<1> QED BY <1>1, Invariance, PTL

(* Until there is an error a blob is on its way or has its answer: neither *)
(* a flush nor the end of the enumeration drops one.                       *)
THEOREM NoBlobLost == Spec => []NothingLost
<1>1. ASSUME NEW b \in Blobs, Pending(b)
      PROVE  Places(b) # {}
  <2>1. CASE b \in unlisted
    <3>1. b \in {b} \cap unlisted
      BY <2>1
    <3>2. <<"unlisted", 0>> \in {<<"unlisted", 0>> : x \in {b} \cap unlisted}
      BY <3>1
    <3> QED BY <3>2 DEF Places
  <2>2. CASE hand = b
    <3>1. b \in {b} \cap {hand}
      BY <2>2
    <3>2. <<"hand", 0>> \in {<<"hand", 0>> : x \in {b} \cap {hand}}
      BY <3>1
    <3> QED BY <3>2 DEF Places
  <2>3. CASE In(b, batch)
    <3>1. PICK i \in DOMAIN batch : batch[i] = b
      BY <2>3 DEF In
    <3>2. <<"batch", i>> \in {<<"batch", k>> : k \in {k \in DOMAIN batch : batch[k] = b}}
      BY <3>1
    <3> QED BY <3>2 DEF Places
  <2>4. CASE InMatching(b)
    BY <2>4, InMatchingPlace DEF Places
  <2> QED BY <1>1, <2>1, <2>2, <2>3, <2>4 DEF Pending
<1>2. Inv => NothingLost
  BY <1>1 DEF Inv, Accounted, NothingLost
<1> QED BY <1>2, Invariance, PTL

(* What the feeder holds in memory is bounded, whatever the blobs: a batch *)
(* is heavier than JobBatchBytes only if one blob alone is, and no flush   *)
(* leaves a count behind that would break up later batches.                *)
THEOREM HeldInBounds == Spec => []BatchBounded
<1>1. Inv => BatchBounded
  BY DEF Inv, Batched, BatchBounded
<1> QED BY <1>1, Invariance, PTL

(* When the scan is through without an error, hand, batch and channel are  *)
(* empty, and so every answer is in place.                                 *)
LEMMA ThroughIsComplete ==
  ASSUME Inv, Through, NEW b \in Blobs
  PROVE  Lookup(b) = Reference(b)
<1> USE DEF Inv
<1>1. main = "returned" /\ ~err
  BY DEF Through, Control
<1>2. unlisted = {} /\ hand = NoBlob /\ batch = <<>>
  BY <1>1 DEF Control
<1>3. jobs = <<>> /\ \A w \in Workers : matching[w] = NoBlob
  BY ScanAssumption DEF Through, CoreInv
<1>4. ~Pending(b)
  BY <1>2, <1>3, InEmpty, ScanAssumption DEF Pending, InMatching
<1> QED BY <1>1, <1>4 DEF Accounted

(* A scan with the gogit backend and one reader does only what BlobScan    *)
(* promises: each answer appears once, and success only when all have.     *)
(* That it returns at all is model-checked (ImplementsPromise).            *)
THEOREM Refinement == Spec => Promise!Safety
<1>1. Init => Promise!Init
  BY PromiseInit DEF Init
<1>2. Inv /\ [Next]_vars => [Promise!Next]_(Promise!vars)
  BY StepOfCore, ThroughIsComplete, PromiseStep DEF Inv, TypeOK
<1> QED BY <1>1, <1>2, Invariance, PTL DEF Spec, Safety, Promise!Safety
=============================================================================
