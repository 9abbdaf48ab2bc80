-------------------------- MODULE GoGitScanProofs --------------------------
(***************************************************************************)
(* Proofs about a scan fed by the gogit backend with several readers, for  *)
(* any store, any number of readers and matchers, any size of the batches  *)
(* and of the buffer, with and without object infos.                       *)
(*                                                                         *)
(* The argument is that for the git feeder with two differences.  A blob   *)
(* travels in batches; and the context is enough to make a goroutine drop  *)
(* what it holds, so the invariant says that whoever cancelled it has put  *)
(* the error on record before (Control).                                   *)
(***************************************************************************)
EXTENDS GoGitScan, ScanCoreProofs

-----------------------------------------------------------------------------
(* A channel of batches: b is in one of them.                              *)
InSome(b, batches) == \E i \in DOMAIN batches : In(b, batches[i])

(* Sending a batch adds its elements.                                      *)
LEMMA SomeAppend ==
  ASSUME NEW S, NEW s \in Seq(Seq(S)), NEW x \in Seq(S), NEW b
  PROVE  InSome(b, Append(s, x)) <=> InSome(b, s) \/ In(b, x)
<1>1. \A y : In(y, Append(s, x)) <=> In(y, s) \/ y = x
  BY InAppend
<1>2. \A q : InSome(b, q) <=> \E i \in DOMAIN q : In(b, q[i])
  BY DEF InSome
<1>3. \A q : InSome(b, q) <=> \E y : In(y, q) /\ In(b, y)
  BY <1>2 DEF In
<1> QED BY <1>1, <1>3

(* Receiving one takes its elements out.                                   *)
LEMMA SomeTail ==
  ASSUME NEW S, NEW s \in Seq(Seq(S)), s # <<>>, NEW b
  PROVE  InSome(b, s) <=> In(b, Head(s)) \/ InSome(b, Tail(s))
<1>1. \A y : In(y, s) <=> y = Head(s) \/ In(y, Tail(s))
  BY InTail
<1>2. \A q : InSome(b, q) <=> \E i \in DOMAIN q : In(b, q[i])
  BY DEF InSome
<1>3. \A q : InSome(b, q) <=> \E y : In(y, q) /\ In(b, y)
  BY <1>2 DEF In
<1> QED BY <1>1, <1>3

(* Nothing is in a channel without batches.                                *)
LEMMA SomeEmpty == \A b : ~InSome(b, <<>>)
BY DEF InSome

(* Nothing is twice in a batch, or in two batches.                         *)
Separate(batches) ==
  \A i \in DOMAIN batches :
    /\ Once(batches[i])
    /\ \A k \in DOMAIN batches : i # k => \A b : ~(In(b, batches[i]) /\ In(b, batches[k]))

(* A batch that has nothing of the others can be sent,                     *)
LEMMA SeparateAppend ==
  ASSUME NEW S, NEW s \in Seq(Seq(S)), NEW x \in Seq(S), Separate(s), Once(x),
         \A b : In(b, x) => ~InSome(b, s)
  PROVE  Separate(Append(s, x))
<1>1. /\ DOMAIN Append(s, x) = 1..(Len(s) + 1) /\ DOMAIN s = 1..Len(s) /\ Len(s) \in Nat
      /\ \A i \in 1..Len(s) : Append(s, x)[i] = s[i]
      /\ Append(s, x)[Len(s) + 1] = x
  OBVIOUS
<1>2. \A i \in 1..(Len(s) + 1) : i \in 1..Len(s) \/ i = Len(s) + 1
  BY <1>1
<1>3. \A b : In(b, x) => \A i \in 1..Len(s) : ~In(b, s[i])
  BY <1>1 DEF InSome
<1> QED BY <1>1, <1>2, <1>3 DEF Separate

(* and one that is received has nothing of those left.                     *)
LEMMA SeparateTail ==
  ASSUME NEW S, NEW s \in Seq(Seq(S)), s # <<>>, Separate(s)
  PROVE  /\ Separate(Tail(s)) /\ Once(Head(s))
         /\ \A b : In(b, Head(s)) => ~InSome(b, Tail(s))
<1>1. Len(s) \in Nat \ {0} /\ DOMAIN s = 1..Len(s) /\ Head(s) = s[1]
  OBVIOUS
<1>2. /\ DOMAIN Tail(s) = 1..(Len(s) - 1)
      /\ \A j \in 1..(Len(s) - 1) : Tail(s)[j] = s[j + 1]
  OBVIOUS
<1>3. \A j \in 1..(Len(s) - 1) : j + 1 \in 1..Len(s) /\ j + 1 # 1
  BY <1>1
<1>4. 1 \in 1..Len(s)
  BY <1>1
<1>5. \A j, k \in 1..(Len(s) - 1) : j # k => j + 1 # k + 1
  BY <1>1
<1>6. /\ \A i \in 1..Len(s) : Once(s[i])
      /\ \A i, k \in 1..Len(s) : i # k => \A b : ~(In(b, s[i]) /\ In(b, s[k]))
  BY <1>1 DEF Separate
<1>7. PICK t : t = Tail(s)
  OBVIOUS
<1>8. DOMAIN t = 1..(Len(s) - 1) /\ \A j \in 1..(Len(s) - 1) : t[j] = s[j + 1]
  BY <1>2, <1>7
<1>9. Separate(t)
  BY <1>3, <1>5, <1>6, <1>8 DEF Separate
<1>10. \A b : In(b, s[1]) => ~InSome(b, t)
  BY <1>3, <1>4, <1>6, <1>8 DEF InSome
<1> QED BY <1>1, <1>4, <1>6, <1>7, <1>9, <1>10

(* A reader may be given a batch that has nothing but what it had before,  *)
(* or what nobody has.                                                     *)
LEMMA SeparatePut ==
  ASSUME NEW f, NEW r \in DOMAIN f, NEW x, Separate(f), Once(x),
         \A b : In(b, x) => In(b, f[r]) \/ ~InSome(b, f),
         NEW g, g = [f EXCEPT ![r] = x]
  PROVE  Separate(g) /\ \A b : InSome(b, g) => InSome(b, f) \/ In(b, x)
<1>1. DOMAIN g = DOMAIN f /\ \A q \in DOMAIN f : g[q] = IF q = r THEN x ELSE f[q]
  OBVIOUS
<1>2. \A q \in DOMAIN f : q # r => \A b : ~(In(b, x) /\ In(b, f[q]))
  BY DEF Separate, InSome
<1> QED BY <1>1, <1>2 DEF Separate, InSome

(* What is left of a sequence after its first element.                     *)
LEMMA TailLen ==
  ASSUME NEW S, NEW s \in Seq(S), s # <<>>
  PROVE  Len(s) \in Nat \ {0} /\ (Tail(s) = <<>> <=> Len(s) = 1)
<1>1. Len(s) \in Nat \ {0} /\ Len(Tail(s)) = Len(s) - 1 /\ Tail(s) \in Seq(S)
  OBVIOUS
<1>2. Tail(s) = <<>> <=> Len(Tail(s)) = 0
  BY <1>1, EmptySeq
<1> QED BY <1>1, <1>2

-----------------------------------------------------------------------------
(* The invariant.                                                          *)

(* What is known of a blob where it is.                                    *)
Routed ==
  /\ \A b \in unlisted : store[b].type = "blob"
  /\ \A b \in Blobs :
       /\ In(b, batch) => ToRead(b)
       /\ InSome(b, objects) => ToRead(b)
       /\ \A r \in Readers : In(b, todo[r]) => ToRead(b)
  /\ \A r \in Readers : reader[r] = "send" => ToMatch(Head(todo[r]))

(* When the channels are closed and the goroutines end.                    *)
Control ==
  /\ main = "open" => batch = <<>> /\ \A r \in Readers : reader[r] = "none"
  /\ main = "list" => Len(batch) < options.batch
  /\ main = "last" => unlisted = {} \/ readErr
  /\ main \in {"close", "wait", "returned"} =>
       (unlisted = {} /\ batch = <<>>) \/ readErr \/ listErr
  /\ main = "open" \/ listErr \/ \A r \in Readers : reader[r] # "none"
  /\ objectsClosed => main \in {"wait", "returned"}
  /\ \A r \in Readers :
       reader[r] \in {"close", "done"} => readErr \/ (objects = <<>> /\ objectsClosed)
  /\ cancelled => readErr
  /\ jobsClosed <=> main = "returned"
  /\ main = "returned" =>
       /\ \A r \in Readers : reader[r] \in {"none", "done"}
       /\ feedErr <=> readErr \/ listErr

(* b is on its way to an answer.                                           *)
Pending(b) ==
  \/ b \in unlisted
  \/ In(b, batch)
  \/ InSome(b, objects)
  \/ \E r \in Readers : In(b, todo[r])
  \/ InMatching(b)

NoError == ~readErr /\ ~listErr

Accounted == NoError => \A b \in Blobs : Pending(b) \/ Lookup(b) = Reference(b)

(* b is with the lister or the readers, or on its way between them.        *)
Fed(b) ==
  \/ b \in unlisted
  \/ In(b, batch)
  \/ InSome(b, objects)
  \/ InSome(b, todo)

(* No blob is there twice.                                                 *)
FeedApart(u, s, sent, taken) ==
  /\ Once(s)
  /\ Separate(sent)
  /\ Separate(taken)
  /\ \A b \in u : ~In(b, s) /\ ~InSome(b, sent) /\ ~InSome(b, taken)
  /\ \A b : In(b, s) => ~InSome(b, sent) /\ ~InSome(b, taken)
  /\ \A b : InSome(b, sent) => ~InSome(b, taken)

(* Nor with the matchers, or in the index, before it has left the feeder.  *)
Apart ==
  /\ FeedApart(unlisted, batch, objects, todo)
  /\ CoreApart
  /\ \A b \in Blobs : Fed(b) => ~Handed(b)

(* The counters of the blobs listed and answered so far.                   *)
Tallies == NoError => Tallied(unlisted, {b \in Blobs : Pending(b)})

Inv == TypeOK /\ CoreInv /\ Routed /\ Control /\ Accounted /\ Apart /\ Tallies

(* b is fed, or with the matchers.                                         *)
LEMMA PendingIsFed ==
  ASSUME TypeOK, NEW b
  PROVE  /\ InSome(b, todo) <=> \E r \in Readers : In(b, todo[r])
         /\ Pending(b) <=> Fed(b) \/ InMatching(b)
BY DEF TypeOK, InSome, Fed, Pending

-----------------------------------------------------------------------------
(* Lemmas about readers.                                                   *)

(* The blob a reader has in hand is one of its batch.                      *)
LEMMA InHand ==
  ASSUME TypeOK, NEW r \in Readers, reader[r] \in {"read", "send"}
  PROVE  /\ todo[r] # <<>> /\ Head(todo[r]) \in Blobs /\ Tail(todo[r]) \in Seq(Blobs)
         /\ \A b : In(b, todo[r]) <=> b = Head(todo[r]) \/ In(b, Tail(todo[r]))
<1>1. todo[r] # <<>> /\ todo[r] \in Seq(Blobs)
  BY DEF TypeOK
<1> QED BY <1>1, HeadTailType, InTail

(* A reader goes on to the matchers with a blob whose size is the one      *)
(* announced.                                                              *)
LEMMA ReadIsMatched ==
  ASSUME TypeOK, Routed, NEW r \in Readers, ReaderRead(r)
  PROVE  ToMatch(Head(todo[r]))
<1>1. Head(todo[r]) \in Blobs /\ ToRead(Head(todo[r]))
  BY InHand DEF ReaderRead, Routed
<1>2. store[Head(todo[r])].servedType = store[Head(todo[r])].type
  BY <1>1, GoGitAssumption DEF TypeOK, CoreTypeOK
<1>3. store[Head(todo[r])].servedSize = store[Head(todo[r])].size
  BY DEF ReaderRead
<1> QED BY <1>1, <1>2, <1>3, Routes DEF ToRead

-----------------------------------------------------------------------------
(* What a step is to the shared part.                                      *)

(* A step that does not concern it.                                        *)
FeedOnly ==
  \/ Open \/ OpenFails \/ Offer \/ OfferCancelled \/ ListEnd \/ ListFails \/ CloseObjects
  \/ \E r \in Readers : \/ ReaderTake(r) \/ ReaderExit(r) \/ ReaderRead(r) \/ ReaderFails(r)
                        \/ ReaderCancelled(r) \/ ReaderClose(r) \/ ReaderCloseFails(r)
  \/ Done
  \/ UNCHANGED vars

(* It does not.                                                            *)
LEMMA FeedOnlyCore ==
  ASSUME FeedOnly
  PROVE  UNCHANGED coreVars
BY DEF FeedOnly, Open, OpenFails, Offer, OfferCancelled, ListEnd, ListFails, CloseObjects,
       ReaderTake, ReaderExit, ReaderRead, ReaderFails, ReaderCancelled, ReaderClose,
       ReaderCloseFails, Done, vars

(* The kinds of steps there are.                                           *)
LEMMA StepKinds ==
  ASSUME [Next]_vars
  PROVE  \/ FeedOnly
         \/ \E b \in Blobs : List(b)
         \/ \E r \in Readers : ReaderSend(r)
         \/ FeedReturn
         \/ ScanReturn /\ UNCHANGED feedVars
         \/ \E w \in Workers : WorkerStep(w) /\ UNCHANGED feedVars
BY DEF Next, MainStep, ReaderStep, SizeChanged, Matchers, FeedOnly

(* Each step is one of those that keep it.                                 *)
LEMMA StepOfCore ==
  ASSUME TypeOK, CoreInv, Routed, Control, [Next]_vars
  PROVE  CoreStep
<1>1. CASE FeedOnly
  BY <1>1, FeedOnlyCore DEF CoreStep
<1>2. ASSUME NEW b \in Blobs, List(b) PROVE CoreStep
  <2>1. /\ store[b].type = "blob" /\ ~jobsClosed
        /\ UNCHANGED <<store, jobs, workerVars, returnVars>>
    BY <1>2 DEF List, Routed, Control
  <2>2. {"total"} \in SUBSET Counters /\ {"total", "skipSize"} \in SUBSET Counters
    BY DEF Counters
  <2>3. CASE store[b].size > Limit(b)
    <3>1. Records(b)
      BY <1>2, <2>1, <2>2, <2>3, Routes DEF List, Records
    <3> QED BY <3>1 DEF CoreStep
  <2>4. CASE ~(store[b].size > Limit(b))
    BY <1>2, <2>1, <2>2, <2>4 DEF List, CoreStep, Counts
  <2> QED BY <2>3, <2>4
<1>3. ASSUME NEW r \in Readers, ReaderSend(r) PROVE CoreStep
  <2>1. /\ Head(todo[r]) \in Blobs /\ ToMatch(Head(todo[r])) /\ ~jobsClosed
        /\ SendJob(Head(todo[r]))
        /\ UNCHANGED <<store, workerVars, indexVars, returnVars>>
    BY <1>3, InHand DEF ReaderSend, Routed, Control
  <2>2. Sends(Head(todo[r]))
    BY <2>1 DEF Sends
  <2> QED BY <2>1, <2>2 DEF CoreStep
<1>4. CASE FeedReturn
  <2>1. (readErr \/ listErr) \in BOOLEAN
    OBVIOUS
  <2> QED BY <1>4, <2>1 DEF FeedReturn, CoreStep, Closes
<1>5. CASE ScanReturn
  BY <1>5 DEF CoreStep
<1>6. ASSUME NEW w \in Workers, WorkerStep(w) PROVE CoreStep
  BY <1>6 DEF CoreStep
<1> QED BY <1>1, <1>2, <1>3, <1>4, <1>5, <1>6, StepKinds

-----------------------------------------------------------------------------
(* The feeder's own state.                                                 *)

(* A batch and its way to the readers.                                     *)
BatchTypeOK ==
  /\ options \in Options
  /\ unlisted \subseteq Blobs
  /\ main \in {"open", "list", "offer", "last", "close", "wait", "returned"}
  /\ batch \in Seq(Blobs)
  /\ main \in {"offer", "last"} => batch # <<>>
  /\ Len(batch) <= options.batch
  /\ listErr \in BOOLEAN
  /\ objects \in Seq(Seq(Blobs))
  /\ \A i \in DOMAIN objects : objects[i] # <<>>
  /\ objectsClosed \in BOOLEAN

ReaderTypeOK ==
  /\ reader \in [Readers -> {"none", "idle", "read", "send", "close", "done"}]
  /\ todo \in [Readers -> Seq(Blobs)]
  /\ \A r \in Readers : reader[r] \in {"read", "send"} <=> todo[r] # <<>>
  /\ readErr \in BOOLEAN
  /\ cancelled \in BOOLEAN

(* Options are what they are assumed to be.                                *)
LEMMA OptionsType ==
  ASSUME options \in Options
  PROVE  options.infos \in BOOLEAN /\ options.batch \in Nat \ {0} /\ options.buffered \in Nat
BY GoGitAssumption

(* It stays well-typed.                                                    *)
LEMMA FeedType ==
  ASSUME TypeOK, Control, [Next]_vars
  PROVE  BatchTypeOK' /\ ReaderTypeOK'
<1> USE DEF BatchTypeOK, ReaderTypeOK, readerVars, listVars
<1>a. BatchTypeOK /\ ReaderTypeOK
  BY DEF TypeOK
<1>b. options.batch \in Nat \ {0} /\ Len(batch) \in Nat
  BY <1>a, OptionsType
<1> DEFINE Goal == BatchTypeOK' /\ ReaderTypeOK'
<1>1. CASE Open
  <2>1. \A r \in Readers : todo[r] = <<>>
    BY <1>1, <1>a DEF Open, Control
  <2> QED BY <1>1, <1>a, <2>1 DEF Open
<1>2. CASE OpenFails \/ ListEnd \/ CloseObjects \/ FeedReturn
  BY <1>2, <1>a DEF OpenFails, ListEnd, CloseObjects, FeedReturn
<1>3. CASE ListFails
  BY <1>3, <1>a, <1>b DEF ListFails
<1>4. ASSUME NEW b \in Blobs, List(b) PROVE Goal
  <2>1. Len(batch) < options.batch /\ UNCHANGED <<options, objects, objectsClosed, listErr>>
        /\ UNCHANGED readerVars /\ unlisted' \subseteq Blobs /\ main = "list"
    BY <1>4, <1>a DEF List, Control
  <2>2. CASE UNCHANGED <<main, batch>>
    BY <2>1, <2>2, <1>a
  <2>3. CASE batch' = Append(batch, b) /\ main' \in {"offer", "list"}
    <3>1. Append(batch, b) \in Seq(Blobs) /\ Len(Append(batch, b)) = Len(batch) + 1
      BY <1>a
    <3>2. Append(batch, b) # <<>>
      BY <3>1, <1>b
    <3> QED BY <2>1, <2>3, <3>1, <3>2, <1>a, <1>b
  <2> QED BY <1>4, <2>2, <2>3 DEF List
<1>5. CASE Offer
  <2>1. batch # <<>> /\ batch' = <<>> /\ main' \in {"list", "close"}
        /\ UNCHANGED <<options, unlisted, listErr, objectsClosed, readErr, cancelled>>
    BY <1>5, <1>a DEF Offer
  <2>2. CASE objects' = Append(objects, batch) /\ UNCHANGED <<reader, todo>>
    <3>1. objects' \in Seq(Seq(Blobs))
      BY <2>2, <1>a
    <3>2. \A i \in DOMAIN objects' : objects'[i] # <<>>
      <4>1. DOMAIN objects' = 1..(Len(objects) + 1) /\ DOMAIN objects = 1..Len(objects)
        BY <2>2, <1>a
      <4>2. \A i \in 1..(Len(objects) + 1) :
              objects'[i] = IF i = Len(objects) + 1 THEN batch ELSE objects[i]
        BY <2>2, <1>a
      <4>3. \A i \in 1..(Len(objects) + 1) : i = Len(objects) + 1 \/ i \in 1..Len(objects)
        BY <1>a
      <4> QED BY <4>1, <4>2, <4>3, <2>1, <1>a
    <3> QED BY <2>1, <2>2, <3>1, <3>2, <1>a, <1>b
  <2>3. ASSUME NEW r \in Readers, reader[r] = "idle",
               reader' = [reader EXCEPT ![r] = "read"],
               todo' = [todo EXCEPT ![r] = batch], UNCHANGED objects
        PROVE  Goal
    BY <2>1, <2>3, <1>a, <1>b
  <2> QED BY <1>5, <2>2, <2>3 DEF Offer, Deliver
<1>6. CASE OfferCancelled
  <2>1. batch # <<>> /\ UNCHANGED <<options, unlisted, listErr, objects, objectsClosed, readerVars>>
    BY <1>6, <1>a DEF OfferCancelled
  <2>2. CASE main' = "last" /\ UNCHANGED batch
    BY <2>1, <2>2, <1>a
  <2>3. CASE main' = "close" /\ batch' = <<>>
    BY <2>1, <2>3, <1>a, <1>b
  <2> QED BY <1>6, <2>2, <2>3 DEF OfferCancelled
<1>7. ASSUME NEW r \in Readers, ReaderTake(r) PROVE Goal
  <2>1. /\ objects # <<>> /\ objects' = Tail(objects)
        /\ reader' = [reader EXCEPT ![r] = "read"]
        /\ todo' = [todo EXCEPT ![r] = Head(objects)]
        /\ UNCHANGED <<options, listVars, objectsClosed, readErr, cancelled>>
    BY <1>7 DEF ReaderTake
  <2>2. Head(objects) \in Seq(Blobs) /\ Tail(objects) \in Seq(Seq(Blobs))
    BY <2>1, <1>a
  <2>3. Head(objects) # <<>>
    BY <2>1, <1>a
  <2>4. \A i \in DOMAIN Tail(objects) : Tail(objects)[i] # <<>>
    BY <2>1, <1>a
  <2> QED BY <2>1, <2>2, <2>3, <2>4, <1>a
<1>8. ASSUME NEW r \in Readers, ReaderExit(r) \/ ReaderClose(r) \/ ReaderCloseFails(r)
      PROVE  Goal
  BY <1>8, <1>a DEF ReaderExit, ReaderClose, ReaderCloseFails, Leaving, RecordError
<1>9. ASSUME NEW r \in Readers, ReaderFails(r) \/ ReaderCancelled(r) PROVE Goal
  <2>1. \E to \in {"close", "done"} : /\ reader' = [reader EXCEPT ![r] = to]
                                      /\ todo' = [todo EXCEPT ![r] = <<>>]
    BY <1>9 DEF ReaderFails, ReaderCancelled, Leaving
  <2>2. /\ readErr' \in BOOLEAN /\ cancelled' \in BOOLEAN
        /\ UNCHANGED <<options, listVars, objects, objectsClosed>>
    BY <1>9, <1>a DEF ReaderFails, ReaderCancelled, RecordError
  <2> QED BY <2>1, <2>2, <1>a
<1>10. ASSUME NEW r \in Readers, ReaderRead(r) PROVE Goal
  BY <1>10, <1>a DEF ReaderRead
<1>11. ASSUME NEW r \in Readers, ReaderSend(r) PROVE Goal
  <2>1. Tail(todo[r]) \in Seq(Blobs) /\ (Tail(todo[r]) = <<>> <=> Len(todo[r]) = 1)
    BY <1>11, <1>a, TailLen DEF ReaderSend
  <2> QED BY <1>11, <1>a, <2>1 DEF ReaderSend
<1>12. CASE UNCHANGED feedVars
  BY <1>12, <1>a DEF feedVars
<1> QED
  BY <1>1, <1>2, <1>3, <1>4, <1>5, <1>6, <1>7, <1>8, <1>9, <1>10, <1>11, <1>12, StepKinds
     DEF FeedOnly, Done, vars

(* What is known of a blob stays known.                                    *)
LEMMA RoutedStep ==
  ASSUME TypeOK, CoreInv, Routed, Control, [Next]_vars
  PROVE  Routed'
<1>a. \A b : /\ ToRead(b)' <=> ToRead(b)
             /\ ToMatch(b)' <=> ToMatch(b)
             /\ store' = store
  BY StepOfCore, CoreKeeps, ReferenceFixed DEF TypeOK
<1>t. /\ batch \in Seq(Blobs) /\ objects \in Seq(Seq(Blobs))
      /\ todo \in [Readers -> Seq(Blobs)] /\ DOMAIN reader = Readers
  BY DEF TypeOK
<1>d. DOMAIN todo = Readers /\ DOMAIN reader = Readers
  BY <1>t
<1> USE DEF readerVars, listVars
<1> DEFINE Known(u, s, ss, td, rd) ==
      /\ \A b \in u : store[b].type = "blob"
      /\ \A b \in Blobs :
           /\ In(b, s) => ToRead(b)
           /\ InSome(b, ss) => ToRead(b)
           /\ \A r \in Readers : In(b, td[r]) => ToRead(b)
      /\ \A r \in Readers : rd[r] = "send" => ToMatch(Head(td[r]))
<1>b. Known(unlisted, batch, objects, todo, reader)
  BY DEF Routed
<1> DEFINE Goal == Known(unlisted', batch', objects', todo', reader')
<1>c. SUFFICES Goal
  BY <1>a DEF Routed
<1>1. CASE Open \/ OpenFails \/ ListEnd \/ CloseObjects \/ FeedReturn
  BY <1>1, <1>b DEF Open, OpenFails, ListEnd, CloseObjects, FeedReturn
<1>2. CASE ListFails
  BY <1>2, <1>b, InEmpty DEF ListFails
<1>3. ASSUME NEW b \in Blobs, List(b) PROVE Goal
  <2>1. /\ unlisted' \subseteq unlisted /\ UNCHANGED <<objects, todo, reader>>
        /\ store[b].type = "blob"
    BY <1>3, <1>b DEF List
  <2>2. CASE UNCHANGED batch
    BY <2>1, <2>2, <1>b
  <2>3. CASE batch' = Append(batch, b) /\ ~(store[b].size > Limit(b))
    <3>1. ToRead(b)
      BY <2>1, <2>3 DEF ToRead
    <3>2. \A x : In(x, batch') <=> In(x, batch) \/ x = b
      BY <2>3, <1>t, InAppend
    <3> QED BY <2>1, <3>1, <3>2, <1>b
  <2> QED BY <1>3, <2>2, <2>3 DEF List
<1>4. CASE Offer
  <2>1. UNCHANGED unlisted /\ batch' = <<>>
    BY <1>4 DEF Offer
  <2>2. CASE objects' = Append(objects, batch) /\ UNCHANGED <<reader, todo>>
    <3>1. \A x : InSome(x, objects') <=> InSome(x, objects) \/ In(x, batch)
      BY <2>2, <1>t, SomeAppend
    <3> QED BY <2>1, <2>2, <3>1, <1>b, InEmpty
  <2>3. ASSUME NEW r \in Readers, reader[r] = "idle",
               reader' = [reader EXCEPT ![r] = "read"],
               todo' = [todo EXCEPT ![r] = batch], UNCHANGED objects
        PROVE  Goal
    <3>1. \A q \in Readers : /\ todo'[q] = IF q = r THEN batch ELSE todo[q]
                             /\ reader'[q] = IF q = r THEN "read" ELSE reader[q]
      BY <2>3, <1>d
    <3>2. \A b \in Blobs, q \in Readers : In(b, todo'[q]) => ToRead(b)
      BY <3>1, <1>b
    <3>3. \A q \in Readers : reader'[q] = "send" => ToMatch(Head(todo'[q]))
      BY <3>1, <1>b
    <3> QED BY <2>1, <2>3, <3>2, <3>3, <1>b, InEmpty
  <2> QED BY <1>4, <2>2, <2>3 DEF Offer, Deliver
<1>5. CASE OfferCancelled
  BY <1>5, <1>b, InEmpty DEF OfferCancelled
<1>6. ASSUME NEW r \in Readers, ReaderTake(r) PROVE Goal
  <2>1. /\ objects # <<>> /\ objects' = Tail(objects)
        /\ reader' = [reader EXCEPT ![r] = "read"]
        /\ todo' = [todo EXCEPT ![r] = Head(objects)]
        /\ UNCHANGED listVars
    BY <1>6 DEF ReaderTake
  <2>2. \A x : InSome(x, objects) <=> In(x, Head(objects)) \/ InSome(x, objects')
    BY <2>1, <1>t, SomeTail
  <2>3. \A q \in Readers : /\ todo'[q] = IF q = r THEN Head(objects) ELSE todo[q]
                           /\ reader'[q] = IF q = r THEN "read" ELSE reader[q]
    BY <2>1, <1>d
  <2>4. \A b \in Blobs, q \in Readers : In(b, todo'[q]) => ToRead(b)
    BY <2>2, <2>3, <1>b
  <2>5. \A q \in Readers : reader'[q] = "send" => ToMatch(Head(todo'[q]))
    BY <2>3, <1>b
  <2> QED BY <2>1, <2>2, <2>4, <2>5, <1>b
<1>7. ASSUME NEW r \in Readers, ReaderExit(r) \/ ReaderClose(r) \/ ReaderCloseFails(r)
      PROVE  Goal
  <2>1. UNCHANGED <<listVars, objects, todo>> /\ \E to \in {"close", "done"} :
          reader' = [reader EXCEPT ![r] = to]
    BY <1>7 DEF ReaderExit, ReaderClose, ReaderCloseFails, Leaving
  <2> QED BY <2>1, <1>b, <1>d
<1>8. ASSUME NEW r \in Readers, ReaderFails(r) \/ ReaderCancelled(r) PROVE Goal
  <2>1. UNCHANGED <<listVars, objects>> /\ \E to \in {"close", "done"} :
          /\ reader' = [reader EXCEPT ![r] = to]
          /\ todo' = [todo EXCEPT ![r] = <<>>]
    BY <1>8 DEF ReaderFails, ReaderCancelled, Leaving
  <2> QED BY <2>1, <1>b, <1>d, InEmpty
<1>9. ASSUME NEW r \in Readers, ReaderRead(r) PROVE Goal
  <2>1. ToMatch(Head(todo[r]))
    BY <1>9, ReadIsMatched
  <2> QED BY <1>9, <2>1, <1>b, <1>d DEF ReaderRead
<1>10. ASSUME NEW r \in Readers, ReaderSend(r) PROVE Goal
  <2>1. /\ todo' = [todo EXCEPT ![r] = Tail(todo[r])]
        /\ \E to \in {"idle", "read"} : reader' = [reader EXCEPT ![r] = to]
        /\ UNCHANGED <<listVars, objects>>
    BY <1>10 DEF ReaderSend
  <2>2. \A b : In(b, Tail(todo[r])) => In(b, todo[r])
    BY <1>10, InHand DEF ReaderSend
  <2> QED BY <2>1, <2>2, <1>b, <1>d
<1>11. CASE UNCHANGED feedVars
  BY <1>11, <1>b DEF feedVars
<1> QED
  BY <1>1, <1>2, <1>3, <1>4, <1>5, <1>6, <1>7, <1>8, <1>9, <1>10, <1>11, StepKinds
     DEF FeedOnly, Done, vars

(* The channels close, and the goroutines end, in the order of Control.    *)
LEMMA ControlStep ==
  ASSUME TypeOK, Control, [Next]_vars
  PROVE  Control'
<1> USE DEF TypeOK, Control, readerVars, listVars, returnVars, coreVars
<1>b. options.batch \in Nat \ {0} /\ Len(batch) \in Nat
  BY OptionsType
<1>1. CASE Open
  <2>1. batch = <<>> /\ Len(<<>>) = 0
    BY <1>1 DEF Open
  <2> QED BY <1>1, <1>b, <2>1 DEF Open
<1>2. CASE OpenFails
  BY <1>2 DEF OpenFails
<1>3. ASSUME NEW b \in Blobs, List(b) PROVE Control'
  <2>1. CASE UNCHANGED <<main, batch>>
    BY <1>3, <2>1 DEF List
  <2>2. CASE /\ batch' = Append(batch, b)
             /\ main' = IF Len(batch) + 1 = options.batch THEN "offer" ELSE "list"
    <3>1. Len(batch') = Len(batch) + 1
      BY <2>2
    <3> QED BY <1>3, <1>b, <2>2, <3>1 DEF List
  <2> QED BY <1>3, <2>1, <2>2 DEF List
<1>4. CASE Offer
  <2>1. CASE objects' = Append(objects, batch) /\ UNCHANGED <<reader, todo>>
    <3>1. Len(<<>>) = 0
      OBVIOUS
    <3> QED BY <1>4, <1>b, <2>1, <3>1 DEF Offer
  <2>2. ASSUME NEW r \in Readers, reader[r] = "idle",
               reader' = [reader EXCEPT ![r] = "read"], UNCHANGED objects
        PROVE  Control'
    <3>1. Len(<<>>) = 0
      OBVIOUS
    <3> QED BY <1>4, <1>b, <2>2, <3>1 DEF Offer
  <2> QED BY <1>4, <2>1, <2>2 DEF Offer, Deliver
<1>5. CASE OfferCancelled
  BY <1>5 DEF OfferCancelled
<1>6. CASE ListEnd
  BY <1>6 DEF ListEnd
<1>7. CASE ListFails \/ CloseObjects
  BY <1>7 DEF ListFails, CloseObjects
<1>8. CASE FeedReturn
  BY <1>8 DEF FeedReturn, CloseJobs
<1>9. ASSUME NEW r \in Readers, ReaderTake(r) PROVE Control'
  BY <1>9 DEF ReaderTake
<1>10. ASSUME NEW r \in Readers, ReaderExit(r) PROVE Control'
  BY <1>10 DEF ReaderExit, Leaving
<1>11. ASSUME NEW r \in Readers, ReaderFails(r) PROVE Control'
  BY <1>11 DEF ReaderFails, RecordError, Leaving
<1>12. ASSUME NEW r \in Readers, ReaderCancelled(r) PROVE Control'
  BY <1>12 DEF ReaderCancelled, Leaving
<1>13. ASSUME NEW r \in Readers, ReaderRead(r) PROVE Control'
  BY <1>13 DEF ReaderRead
<1>14. ASSUME NEW r \in Readers, ReaderSend(r) PROVE Control'
  BY <1>14 DEF ReaderSend
<1>15. ASSUME NEW r \in Readers, ReaderClose(r) PROVE Control'
  BY <1>15 DEF ReaderClose
<1>16. ASSUME NEW r \in Readers, ReaderCloseFails(r) PROVE Control'
  BY <1>16 DEF ReaderCloseFails, RecordError
<1>17. CASE UNCHANGED <<feedVars, jobsClosed, feedErr>>
  BY <1>17 DEF feedVars
<1>18. ASSUME NEW w \in Workers, WorkerStep(w)
       PROVE  UNCHANGED <<jobsClosed, feedErr>>
  BY <1>18 DEF WorkerStep, WorkerTake, WorkerMatch, WorkerExit
<1>19. ScanReturn => UNCHANGED <<jobsClosed, feedErr>>
  BY DEF ScanReturn
<1>20. Done \/ UNCHANGED vars => UNCHANGED <<feedVars, jobsClosed, feedErr>>
  BY DEF Done, vars
<1> QED
  BY <1>1, <1>2, <1>3, <1>4, <1>5, <1>6, <1>7, <1>8, <1>9, <1>10, <1>11, <1>12, <1>13, <1>14,
     <1>15, <1>16, <1>17, <1>18, <1>19, <1>20, StepKinds DEF FeedOnly

-----------------------------------------------------------------------------
(* No blob goes missing.                                                   *)

(* An error stays on record.                                               *)
LEMMA ErrorStays ==
  ASSUME [Next]_vars, NoError'
  PROVE  NoError
<1> USE DEF NoError, listVars, readerVars, feedVars
<1>1. CASE FeedOnly
  <2>1. CASE Open \/ OpenFails \/ Offer \/ OfferCancelled \/ ListEnd \/ ListFails \/ CloseObjects
    BY <2>1 DEF Open, OpenFails, Offer, OfferCancelled, ListEnd, ListFails, CloseObjects
  <2>2. CASE \E r \in Readers : \/ ReaderTake(r) \/ ReaderExit(r) \/ ReaderRead(r) \/ ReaderFails(r)
                               \/ ReaderCancelled(r) \/ ReaderClose(r) \/ ReaderCloseFails(r)
    BY <2>2 DEF ReaderTake, ReaderExit, ReaderRead, ReaderFails, ReaderCancelled, ReaderClose,
                ReaderCloseFails, RecordError
  <2>3. CASE Done \/ UNCHANGED vars
    BY <2>3 DEF Done, vars
  <2> QED BY <1>1, <2>1, <2>2, <2>3 DEF FeedOnly
<1>2. ASSUME NEW b \in Blobs, List(b) PROVE NoError
  BY <1>2 DEF List
<1>3. CASE FeedReturn \/ UNCHANGED feedVars \/ \E r \in Readers : ReaderSend(r)
  BY <1>3 DEF FeedReturn, ReaderSend
<1> QED BY <1>1, <1>2, <1>3, StepKinds

(* A step of the feeder alone leaves every blob on its way, unless it puts *)
(* an error on record: whoever drops a blob has done so, or finds it done. *)
LEMMA FeedOnlyFed ==
  ASSUME TypeOK, Control, FeedOnly, NoError, NoError'
  PROVE  unlisted' = unlisted /\ \A b : Fed(b) => Fed(b)'
<1> USE DEF listVars, readerVars
<1> DEFINE Goal == unlisted' = unlisted /\ \A b : Fed(b) => Fed(b)'
<1>t. /\ batch \in Seq(Blobs) /\ objects \in Seq(Seq(Blobs)) /\ DOMAIN todo = Readers
  BY DEF TypeOK
<1>1. /\ ~OpenFails /\ ~ListFails /\ ~OfferCancelled
      /\ \A r \in Readers : ~ReaderFails(r) /\ ~ReaderCancelled(r) /\ ~ReaderCloseFails(r)
  BY DEF OpenFails, ListFails, OfferCancelled, ReaderFails, ReaderCancelled,
         ReaderCloseFails, RecordError, Control, NoError
<1>2. CASE Offer
  <2>1. UNCHANGED unlisted
    BY <1>2 DEF Offer
  <2>2. CASE objects' = Append(objects, batch) /\ UNCHANGED todo
    <3>1. \A b : InSome(b, objects') <=> InSome(b, objects) \/ In(b, batch)
      BY <2>2, <1>t, SomeAppend
    <3> QED BY <2>1, <2>2, <3>1 DEF Fed
  <2>3. ASSUME NEW r \in Readers, reader[r] = "idle",
               todo' = [todo EXCEPT ![r] = batch], UNCHANGED objects
        PROVE  Goal
    <3>1. todo[r] = <<>>
      BY <2>3 DEF TypeOK
    <3>2. \A b : ~In(b, todo[r])
      BY <3>1, InEmpty
    <3>3. DOMAIN todo' = Readers /\ \A q \in Readers : todo'[q] = IF q = r THEN batch ELSE todo[q]
      BY <2>3, <1>t
    <3>4. \A b : InSome(b, todo) \/ In(b, batch) => InSome(b, todo')
      BY <1>t, <3>2, <3>3 DEF InSome
    <3> QED BY <2>1, <2>3, <3>4 DEF Fed
  <2> QED BY <1>2, <2>2, <2>3 DEF Offer, Deliver
<1>3. ASSUME NEW r \in Readers, ReaderTake(r) PROVE Goal
  <2>1. /\ objects # <<>> /\ objects' = Tail(objects)
        /\ todo' = [todo EXCEPT ![r] = Head(objects)]
        /\ UNCHANGED listVars /\ reader[r] = "idle"
    BY <1>3 DEF ReaderTake
  <2>2. \A b : InSome(b, objects) <=> In(b, Head(objects)) \/ InSome(b, objects')
    BY <2>1, <1>t, SomeTail
  <2>3. todo[r] = <<>>
    BY <2>1 DEF TypeOK
  <2>4. \A b : ~In(b, todo[r])
    BY <2>3, InEmpty
  <2>5. DOMAIN todo' = Readers
        /\ \A q \in Readers : todo'[q] = IF q = r THEN Head(objects) ELSE todo[q]
    BY <2>1, <1>t
  <2>6. \A b : InSome(b, todo) \/ In(b, Head(objects)) => InSome(b, todo')
    BY <1>t, <2>4, <2>5 DEF InSome
  <2> QED BY <2>1, <2>2, <2>6 DEF Fed
<1>4. CASE UNCHANGED <<unlisted, batch, objects, todo>>
  BY <1>4 DEF Fed
<1> QED
  BY <1>1, <1>2, <1>3, <1>4
     DEF FeedOnly, Open, ListEnd, CloseObjects, ReaderExit, ReaderRead, ReaderClose, Done,
         feedVars, vars

(* A blob a reader sends goes over to the matchers.                        *)
LEMMA SendMoves ==
  ASSUME TypeOK, NEW r \in Readers, ReaderSend(r)
  PROVE  /\ Head(todo[r]) \in Blobs /\ In(Head(todo[r]), todo[r])
         /\ \A b : InMatching(b)' <=> InMatching(b) \/ b = Head(todo[r])
         /\ \A b : b # Head(todo[r]) => (InSome(b, todo)' <=> InSome(b, todo))
<1>1. /\ todo' = [todo EXCEPT ![r] = Tail(todo[r])] /\ SendJob(Head(todo[r]))
      /\ UNCHANGED workerVars /\ reader[r] = "send"
  BY DEF ReaderSend
<1>2. /\ Head(todo[r]) \in Blobs
      /\ \A b : In(b, todo[r]) <=> b = Head(todo[r]) \/ In(b, Tail(todo[r]))
  BY <1>1, InHand
<1>3. \A b : In(b, jobs') <=> In(b, jobs) \/ b = Head(todo[r])
  BY <1>1, <1>2, InAppend DEF SendJob, TypeOK, CoreTypeOK
<1>4. \A b : InMatching(b)' <=> InMatching(b) \/ b = Head(todo[r])
  BY <1>1, <1>3 DEF InMatching, workerVars
<1>5. /\ DOMAIN todo = Readers /\ DOMAIN todo' = Readers
      /\ \A q \in Readers : todo'[q] = IF q = r THEN Tail(todo[r]) ELSE todo[q]
  BY <1>1 DEF TypeOK
<1>6. \A b : b # Head(todo[r]) => (InSome(b, todo') <=> InSome(b, todo))
  BY <1>2, <1>5 DEF InSome
<1> QED BY <1>2, <1>4, <1>6

(* No blob goes missing: whoever drops one has put an error on record.     *)
LEMMA AccountedStep ==
  ASSUME TypeOK, CoreInv, Routed, Control, Accounted, [Next]_vars, TypeOK'
  PROVE  Accounted'
<1> USE DEF listVars, readerVars
<1>0. \A b : Reference(b)' = Reference(b)
  BY StepOfCore, CoreKeeps, ReferenceFixed DEF TypeOK
<1>a. SUFFICES ASSUME NoError', NEW b \in Blobs
               PROVE  Pending(b)' \/ Lookup(b)' = Reference(b)
  BY <1>0 DEF Accounted
<1>b. /\ NoError /\ (Pending(b) \/ Lookup(b) = Reference(b))
      /\ Pending(b) <=> Fed(b) \/ InMatching(b)
      /\ Pending(b)' <=> Fed(b)' \/ InMatching(b)'
  BY <1>a, ErrorStays, PendingIsFed DEF Accounted, Fed, Pending, TypeOK, InSome
<1>c. /\ InMatching(b) => InMatching(b)' \/ Lookup(b)' = Reference(b)
      /\ Lookup(b) = Reference(b) => Lookup(b)' = Reference(b)
  BY StepOfCore, CoreKeeps DEF TypeOK
<1> DEFINE Kept == Fed(b) => Fed(b)' \/ InMatching(b)' \/ Lookup(b)' = Reference(b)
<1>d. SUFFICES Kept
  BY <1>b, <1>c
<1>1. CASE FeedOnly
  BY <1>1, <1>a, <1>b, FeedOnlyFed
<1>2. ASSUME NEW x \in Blobs, List(x) PROVE Kept
  <2>1. unlisted' = unlisted \ {x} /\ UNCHANGED <<objects, todo>>
    BY <1>2 DEF List
  <2>2. CASE batch' = Append(batch, x)
    <3>1. \A y : In(y, batch') <=> In(y, batch) \/ y = x
      BY <2>2, InAppend DEF TypeOK
    <3> QED BY <2>1, <3>1 DEF Fed
  <2>3. CASE Put(x, Skipped("size")) /\ UNCHANGED batch /\ store[x].size > Limit(x)
    <3>1. Put(x, Reference(x)) /\ UNCHANGED store
      BY <1>2, <2>3, Routes DEF List, Routed
    <3>2. Lookup(x)' = Reference(x)
      BY <3>1, PutReference DEF TypeOK, CoreTypeOK, CoreInv, IndexTypeOK
    <3> QED BY <2>1, <2>3, <3>2 DEF Fed
  <2> QED BY <1>2, <2>2, <2>3 DEF List
<1>3. ASSUME NEW r \in Readers, ReaderSend(r) PROVE Kept
  <2>1. UNCHANGED <<unlisted, batch, objects>>
    BY <1>3 DEF ReaderSend
  <2> QED BY <1>3, <2>1, SendMoves DEF Fed
<1>4. CASE UNCHANGED <<unlisted, batch, objects, todo>>
  BY <1>4 DEF Fed
<1> QED BY <1>1, <1>2, <1>3, <1>4, StepKinds DEF FeedReturn, feedVars

-----------------------------------------------------------------------------
(* One place at a time.                                                    *)

(* The lister, its batch, the channel and the readers hold each blob once. *)
LEMMA FeedApartStep ==
  ASSUME TypeOK, Apart, [Next]_vars
  PROVE  /\ FeedApart(unlisted', batch', objects', todo')
         /\ \A b : Fed(b)' => Fed(b)
<1> USE DEF listVars, readerVars
<1> DEFINE Goal == /\ FeedApart(unlisted', batch', objects', todo')
                   /\ \A b : Fed(b)' => Fed(b)
<1>a. FeedApart(unlisted, batch, objects, todo)
  BY DEF Apart
<1>t. /\ batch \in Seq(Blobs) /\ objects \in Seq(Seq(Blobs))
      /\ todo \in [Readers -> Seq(Blobs)] /\ DOMAIN todo = Readers
  BY DEF TypeOK
<1>e. Once(<<>>) /\ \A b : ~In(b, <<>>)
  BY InEmpty DEF Once
<1>1. ASSUME NEW b \in Blobs, List(b) PROVE Goal
  <2>1. /\ b \in unlisted /\ unlisted' = unlisted \ {b} /\ UNCHANGED <<objects, todo>>
        /\ batch' = batch \/ batch' = Append(batch, b)
    BY <1>1 DEF List
  <2>2. CASE batch' = batch
    BY <1>a, <2>1, <2>2 DEF FeedApart, Fed
  <2>3. CASE batch' = Append(batch, b)
    <3>1. \A x : In(x, batch') <=> In(x, batch) \/ x = b
      BY <1>t, <2>3, InAppend
    <3>2. Once(batch')
      BY <1>a, <1>t, <2>1, <2>3, OnceAppend DEF FeedApart
    <3> QED BY <1>a, <2>1, <3>1, <3>2 DEF FeedApart, Fed
  <2> QED BY <2>1, <2>2, <2>3
<1>2. CASE Offer
  <2>1. UNCHANGED unlisted /\ batch' = <<>>
    BY <1>2 DEF Offer
  <2>2. CASE objects' = Append(objects, batch) /\ UNCHANGED todo
    <3>1. \A x : InSome(x, objects') <=> InSome(x, objects) \/ In(x, batch)
      BY <2>2, <1>t, SomeAppend
    <3>2. Separate(objects')
      BY <1>a, <1>t, <2>2, SeparateAppend DEF FeedApart
    <3> QED BY <1>a, <1>e, <2>1, <2>2, <3>1, <3>2 DEF FeedApart, Fed
  <2>3. ASSUME NEW r \in Readers, todo' = [todo EXCEPT ![r] = batch], UNCHANGED objects
        PROVE  Goal
    <3>1. Separate(todo') /\ \A b : InSome(b, todo') => InSome(b, todo) \/ In(b, batch)
      BY <1>a, <1>t, <2>3, SeparatePut DEF FeedApart
    <3> QED BY <1>a, <1>e, <2>1, <2>3, <3>1 DEF FeedApart, Fed
  <2> QED BY <1>2, <2>2, <2>3 DEF Offer, Deliver
<1>3. CASE OfferCancelled \/ ListFails
  <2>1. UNCHANGED <<unlisted, objects, todo>> /\ (batch' = batch \/ batch' = <<>>)
    BY <1>3 DEF OfferCancelled, ListFails
  <2> QED BY <1>a, <1>e, <2>1 DEF FeedApart, Fed
<1>4. ASSUME NEW r \in Readers, ReaderTake(r) PROVE Goal
  <2>1. /\ objects # <<>> /\ objects' = Tail(objects)
        /\ todo' = [todo EXCEPT ![r] = Head(objects)]
        /\ UNCHANGED <<unlisted, batch>>
    BY <1>4 DEF ReaderTake
  <2>2. \A x : InSome(x, objects) <=> In(x, Head(objects)) \/ InSome(x, objects')
    BY <2>1, <1>t, SomeTail
  <2>3. /\ Separate(objects') /\ Once(Head(objects))
        /\ \A b : In(b, Head(objects)) => ~InSome(b, objects')
    BY <1>a, <1>t, <2>1, SeparateTail DEF FeedApart
  <2>4. \A b : In(b, Head(objects)) => ~InSome(b, todo)
    BY <1>a, <2>2 DEF FeedApart
  <2>5. Separate(todo') /\ \A b : InSome(b, todo') => InSome(b, todo) \/ In(b, Head(objects))
    BY <1>a, <1>t, <2>1, <2>3, <2>4, SeparatePut DEF FeedApart
  <2> QED BY <1>a, <2>1, <2>2, <2>3, <2>5 DEF FeedApart, Fed
<1>5. ASSUME NEW r \in Readers, NEW x, todo' = [todo EXCEPT ![r] = x], Once(x),
             \A b : In(b, x) => In(b, todo[r]), UNCHANGED <<unlisted, batch, objects>>
      PROVE  Goal
  <2>1. Separate(todo') /\ \A b : InSome(b, todo') => InSome(b, todo) \/ In(b, x)
    BY <1>a, <1>t, <1>5, SeparatePut DEF FeedApart
  <2>2. \A b : In(b, x) => InSome(b, todo)
    BY <1>t, <1>5 DEF InSome
  <2> QED BY <1>a, <1>5, <2>1, <2>2 DEF FeedApart, Fed
<1>6. ASSUME NEW r \in Readers, ReaderFails(r) \/ ReaderCancelled(r) PROVE Goal
  <2>1. todo' = [todo EXCEPT ![r] = <<>>] /\ UNCHANGED <<unlisted, batch, objects>>
    BY <1>6 DEF ReaderFails, ReaderCancelled
  <2> QED BY <1>5, <1>e, <2>1
<1>7. ASSUME NEW r \in Readers, ReaderSend(r) PROVE Goal
  <2>1. /\ todo' = [todo EXCEPT ![r] = Tail(todo[r])] /\ UNCHANGED <<unlisted, batch, objects>>
        /\ reader[r] = "send"
    BY <1>7 DEF ReaderSend
  <2>2. todo[r] # <<>> /\ \A b : In(b, Tail(todo[r])) => In(b, todo[r])
    BY <2>1, InHand
  <2>3. Once(todo[r])
    BY <1>a, <1>t DEF FeedApart, Separate
  <2>4. Once(Tail(todo[r]))
    BY <1>t, <2>2, <2>3, OnceTail
  <2> QED BY <1>5, <2>1, <2>2, <2>4
<1>8. CASE UNCHANGED <<unlisted, batch, objects, todo>>
  BY <1>8, <1>a DEF Fed
<1> QED
  BY <1>1, <1>2, <1>3, <1>4, <1>6, <1>7, <1>8, StepKinds
     DEF FeedOnly, Open, OpenFails, ListEnd, CloseObjects, ReaderExit, ReaderRead, ReaderClose,
         ReaderCloseFails, Done, FeedReturn, feedVars, vars

(* The blob that leaves the lister or a reader is nowhere else with them.  *)
LEMMA Leaves ==
  ASSUME TypeOK, Apart
  PROVE  /\ \A b \in Blobs : List(b) /\ UNCHANGED batch => ~Fed(b)'
         /\ \A r \in Readers, b \in Blobs : ReaderSend(r) /\ b = Head(todo[r]) => ~Fed(b)'
<1>a. FeedApart(unlisted, batch, objects, todo)
  BY DEF Apart
<1>1. ASSUME NEW b \in Blobs, List(b), UNCHANGED batch PROVE ~Fed(b)'
  <2>1. b \in unlisted /\ unlisted' = unlisted \ {b} /\ UNCHANGED <<objects, todo>>
    BY <1>1 DEF List, readerVars
  <2> QED BY <1>a, <1>1, <2>1 DEF FeedApart, Fed
<1>2. ASSUME NEW r \in Readers, ReaderSend(r), NEW b, b = Head(todo[r]) PROVE ~Fed(b)'
  <2>1. /\ todo' = [todo EXCEPT ![r] = Tail(todo[r])] /\ UNCHANGED <<unlisted, batch, objects>>
        /\ reader[r] = "send" /\ DOMAIN todo = Readers /\ todo[r] \in Seq(Blobs)
    BY <1>2 DEF ReaderSend, TypeOK, listVars
  <2>2. todo[r] # <<>> /\ In(b, todo[r])
    BY <1>2, <2>1, InHand
  <2>3. InSome(b, todo)
    BY <2>1, <2>2 DEF InSome
  <2>4. ~In(b, Tail(todo[r]))
    BY <1>a, <1>2, <2>1, <2>2, OnceTail DEF FeedApart, Separate
  <2>5. \A q \in Readers : q # r => ~In(b, todo[q])
    BY <1>a, <2>1, <2>2 DEF FeedApart, Separate
  <2>6. ~InSome(b, todo')
    BY <2>1, <2>4, <2>5 DEF InSome
  <2> QED BY <1>a, <2>1, <2>3, <2>6 DEF FeedApart, Fed
<1> QED BY <1>1, <1>2

(* What comes to the matchers or gets its entry was with the feeder and is *)
(* no more.                                                                *)
LEMMA ApartStep ==
  ASSUME TypeOK, CoreInv, Routed, Control, Apart, [Next]_vars
  PROVE  Apart'
<1> DEFINE Moves == /\ CoreApart'
                    /\ \A b \in Blobs : Handed(b)' => Handed(b) \/ ~Fed(b)'
<1>a. /\ CoreApart /\ CoreTypeOK
      /\ \A b \in Blobs : Fed(b) => ~Handed(b)
  BY DEF Apart, TypeOK
<1>b. SUFFICES Moves
  <2>1. \A b \in Blobs : Fed(b)' => ~Handed(b)'
    BY <1>a, <1>b, FeedApartStep
  <2> QED BY <1>b, <2>1, FeedApartStep DEF Apart
<1>1. CASE FeedOnly \/ FeedReturn \/ (ScanReturn /\ UNCHANGED feedVars)
  BY <1>1, <1>a, FeedOnlyCore, ApartUnchanged
     DEF FeedReturn, ScanReturn, coreVars, indexVars, workerVars
<1>2. ASSUME NEW b \in Blobs, List(b) PROVE Moves
  <2>1. b \in unlisted /\ UNCHANGED <<jobs, workerVars>>
    BY <1>2 DEF List
  <2>2. ~Handed(b)
    BY <1>a, <2>1 DEF Fed
  <2>3. CASE UNCHANGED index
    BY <1>a, <2>1, <2>3, ApartUnchanged
  <2>4. CASE ~UNCHANGED index
    <3>1. Put(b, Skipped("size")) /\ UNCHANGED batch
      BY <1>2, <2>4 DEF List
    <3>2. ~Fed(b)'
      BY <1>2, <3>1, Leaves
    <3>3. CoreApart' /\ \A x : Handed(x)' => Handed(x) \/ x = b
      BY <1>a, <2>1, <2>2, <3>1, ApartRecords DEF Handed
    <3> QED BY <3>2, <3>3
  <2> QED BY <2>3, <2>4
<1>3. ASSUME NEW r \in Readers, ReaderSend(r) PROVE Moves
  <2>1. PICK b : b = Head(todo[r])
    OBVIOUS
  <2>2. b \in Blobs /\ In(b, todo[r])
    BY <1>3, <2>1, SendMoves
  <2>3. Fed(b)
    BY <2>2 DEF Fed, InSome, TypeOK
  <2>4. UNCHANGED <<workerVars, index>> /\ SendJob(b)
    BY <1>3, <2>1 DEF ReaderSend, indexVars
  <2>5. CoreApart' /\ \A x : Handed(x)' <=> Handed(x) \/ x = b
    BY <1>a, <2>2, <2>3, <2>4, ApartSends
  <2>6. ~Fed(b)'
    BY <1>3, <2>1, <2>2, Leaves
  <2> QED BY <2>5, <2>6
<1>4. ASSUME NEW w \in Workers, WorkerStep(w), UNCHANGED feedVars PROVE Moves
  BY <1>a, <1>4, ApartWorker
<1> QED BY <1>1, <1>2, <1>3, <1>4, StepKinds

-----------------------------------------------------------------------------
(* The counters.                                                           *)

(* Without an error on record they are those of the blobs listed and       *)
(* answered so far.                                                        *)
LEMMA TalliesStep ==
  ASSUME TypeOK, CoreInv, Routed, Control, Apart, Tallies, [Next]_vars, TypeOK'
  PROVE  Tallies'
<1>1. PICK U, P, V, Q : /\ U = unlisted /\ P = {b \in Blobs : Pending(b)}
                        /\ V = unlisted' /\ Q = {b \in Blobs : Pending(b)'}
  OBVIOUS
<1>2. SUFFICES ASSUME NoError' PROVE Tallied(V, Q)'
  BY <1>1 DEF Tallies, Tallied
<1>3. store' = store /\ CoreTypeOK
  BY StepOfCore, CoreKeeps DEF TypeOK
<1>4. NoError
  BY <1>2, ErrorStays
<1>5. Tallied(U, P)
  BY <1>1, <1>4 DEF Tallies
<1>6. \A b \in Blobs : /\ Pending(b) <=> Fed(b) \/ InMatching(b)
                       /\ Pending(b)' <=> Fed(b)' \/ InMatching(b)'
                       /\ Fed(b) => ~InMatching(b)
                       /\ Fed(b)' => Fed(b)
  BY FeedApartStep DEF Pending, Fed, Apart, Handed, TypeOK, InSome
<1>7. CASE FeedOnly \/ FeedReturn \/ (ScanReturn /\ UNCHANGED feedVars)
  <2>1. UNCHANGED <<jobs, workerVars, index, stats, skippedEntries>>
    BY <1>7, FeedOnlyCore DEF FeedReturn, ScanReturn, coreVars, indexVars
  <2>2. \A b : InMatching(b)' <=> InMatching(b)
    BY <2>1, ApartUnchanged DEF Apart
  <2>3. FeedOnly => unlisted' = unlisted /\ \A b : Fed(b) => Fed(b)'
    BY <1>2, <1>4, FeedOnlyFed
  <2>4. ~FeedOnly => UNCHANGED <<unlisted, batch, objects, todo>>
    BY <1>7 DEF FeedReturn, feedVars, listVars, readerVars
  <2>5. V = U /\ \A b \in Blobs : Fed(b)' <=> Fed(b)
    BY <1>1, <1>6, <2>3, <2>4 DEF Fed
  <2>6. Q = P
    BY <1>1, <1>6, <2>2, <2>5
  <2> QED BY <1>3, <1>5, <2>1, <2>5, <2>6, TallyQuiet
<1>8. ASSUME NEW b \in Blobs, List(b) PROVE Tallied(V, Q)'
  <2>1. /\ b \in U /\ b \in P /\ V = U \ {b} /\ store[b].type = "blob"
        /\ UNCHANGED <<jobs, workerVars, objects, todo>>
    BY <1>1, <1>8 DEF List, Routed, Pending, readerVars
  <2>2. \A x : InMatching(x)' <=> InMatching(x)
    BY <2>1 DEF InMatching, workerVars
  <2>3. CASE store[b].size > Limit(b)
    <3>1. /\ Put(b, Reference(b)) /\ Count({"total", "skipSize"}) /\ UNCHANGED batch
          /\ Reference(b) = Skipped("size") /\ ~ToMatch(b)
      BY <1>8, <2>1, <2>3, Routes DEF List, ToMatch, ToRead
    <3>2. ~Pending(b)'
      BY <1>1, <1>6, <1>8, <2>1, <2>2, <3>1, Leaves DEF Fed
    <3>3. \A x \in Blobs \ {b} : Fed(x)' <=> Fed(x)
      BY <1>1, <2>1, <3>1 DEF Fed
    <3>4. Q = P \ {b}
      BY <1>1, <1>6, <2>2, <3>2, <3>3
    <3>5. \A c \in Counters \ {"total"} : c \in {"total", "skipSize"} <=> b \in Owed(c)
      BY <3>1, OwedBy
    <3>6. "total" \in {"total", "skipSize"} <=> b \in U \ V /\ store[b].type = "blob"
      BY <2>1
    <3>7. V = U \/ V = U \ {b}
      BY <2>1
    <3>8. Tallied(V, P \ {b})'
      BY ONLY <1>3, <1>5, <1>8, <2>1, <3>1, <3>5, <3>6, <3>7, TallySettled
    <3> QED BY <3>4, <3>8
  <2>4. CASE ~(store[b].size > Limit(b))
    <3>1. Count({"total"}) /\ batch' = Append(batch, b) /\ UNCHANGED skippedEntries
      BY <1>8, <2>4 DEF List
    <3>2. \A x : In(x, batch') <=> In(x, batch) \/ x = b
      BY <3>1, InAppend DEF TypeOK
    <3>3. \A x \in Blobs : Fed(x)' <=> Fed(x)
      BY <1>1, <2>1, <3>2 DEF Fed
    <3>4. Q = P
      BY <1>1, <1>6, <2>2, <3>3
    <3>5. Tallied(U \ {b}, P)'
      BY <1>3, <1>5, <2>1, <3>1, TallyListed
    <3> QED BY <2>1, <3>4, <3>5
  <2> QED BY <2>3, <2>4
<1>9. ASSUME NEW r \in Readers, ReaderSend(r) PROVE Tallied(V, Q)'
  <2>1. UNCHANGED <<unlisted, batch, objects, indexVars>>
    BY <1>9 DEF ReaderSend, listVars
  <2>2. PICK h : h = Head(todo[r])
    OBVIOUS
  <2>3. /\ \A b : InMatching(b)' <=> InMatching(b) \/ b = h
        /\ \A b : b # h => (InSome(b, todo)' <=> InSome(b, todo))
        /\ In(h, todo[r])
    BY <1>9, <2>2, SendMoves
  <2>4. Fed(h)
    BY <2>3 DEF Fed, InSome, TypeOK
  <2>5. V = U /\ Q = P
    BY <1>1, <1>6, <2>1, <2>3, <2>4 DEF Fed
  <2> QED BY <1>3, <1>5, <2>1, <2>5, TallyQuiet DEF indexVars
<1>10. ASSUME NEW w \in Workers, WorkerStep(w), UNCHANGED feedVars PROVE Tallied(V, Q)'
  <2>1. V = U /\ \A b \in Blobs : Fed(b)' <=> Fed(b)
    BY <1>1, <1>10 DEF feedVars, listVars, readerVars, Fed
  <2>2. CoreApart
    BY DEF Apart
  <2>3. \A b \in Blobs : InMatching(b)' => InMatching(b)
    BY <1>3, <1>10, <2>2, ApartWorker
  <2>4. Q = {b \in P : InMatching(b) => InMatching(b)'}
    BY <1>1, <1>6, <2>1, <2>3
  <2>5. (\A b \in Blobs : InMatching(b) => b \in P) /\ P \subseteq Blobs
    BY <1>1, <1>6
  <2>6. Tallied(U, Q)'
    BY <1>3, <1>5, <1>10, <2>2, <2>4, <2>5, TallyWorker
  <2> QED BY <2>1, <2>6
<1> QED BY <1>7, <1>8, <1>9, <1>10, StepKinds

-----------------------------------------------------------------------------
(* The invariant and what follows from it.                                 *)

(* The invariant holds at the start; what is no blob has its answer.       *)
LEMMA InitInv ==
  ASSUME Init
  PROVE  Inv
<1> USE DEF Init
<1>1. CoreTypeOK /\ CoreInv
  BY CoreStart
<1>2. TypeOK
  <2>1. <<>> \in Seq(Blobs) /\ <<>> \in Seq(Seq(Blobs)) /\ Len(<<>>) = 0 /\ DOMAIN <<>> = {}
    OBVIOUS
  <2>2. options.batch \in Nat \ {0}
    BY OptionsType
  <2>3. unlisted \subseteq Blobs
    OBVIOUS
  <2>4. ReaderTypeOK
    BY <2>1 DEF ReaderTypeOK
  <2>5. BatchTypeOK
    <3>1. batch \in Seq(Blobs) /\ Len(batch) <= options.batch
      BY <2>1, <2>2
    <3>2. objects \in Seq(Seq(Blobs)) /\ \A i \in DOMAIN objects : objects[i] # <<>>
      BY <2>1
    <3> QED BY <2>3, <3>1, <3>2 DEF BatchTypeOK
  <2> QED BY <1>1, <2>4, <2>5 DEF TypeOK, BatchTypeOK, ReaderTypeOK
<1>3. Routed
  BY InEmpty, SomeEmpty DEF Routed
<1>4. Control
  BY DEF Control, CoreInit
<1>5. Accounted
  <2>1. ASSUME NEW b \in Blobs, b \notin unlisted PROVE Lookup(b) = Reference(b)
    BY <1>1, <2>1, Routes, EmptySettled
  <2> QED BY <2>1 DEF Accounted, Pending
<1>6. Apart
  <2>1. Once(<<>>) /\ Separate(<<>>)
    BY DEF Once, Separate
  <2>2. Separate(todo) /\ \A b : ~InSome(b, todo)
    BY <2>1, InEmpty DEF Separate, InSome
  <2> QED BY <2>1, <2>2, ApartStart, InEmpty, SomeEmpty DEF Apart, FeedApart
<1>7. Tallies
  <2>1. \A b \in Blobs : store[b].type = "blob" =>
          b \in unlisted /\ b \in {x \in Blobs : Pending(x)}
    BY DEF Pending
  <2> QED BY <2>1, TallyStart DEF Tallies
<1> QED BY <1>1, <1>2, <1>3, <1>4, <1>5, <1>6, <1>7 DEF Inv

(* Every step keeps it.                                                    *)
LEMMA StepInv ==
  ASSUME Inv, [Next]_vars
  PROVE  Inv'
<1>1. CoreTypeOK' /\ CoreInv'
  BY StepOfCore, CoreKeeps DEF Inv, TypeOK
<1>2. TypeOK'
  BY <1>1, FeedType DEF Inv, TypeOK, BatchTypeOK, ReaderTypeOK
<1> QED BY <1>1, <1>2, RoutedStep, ControlStep, AccountedStep, ApartStep, TalliesStep DEF Inv

(* The invariant holds in every state of a scan.                           *)
THEOREM Invariance == Spec => []Inv
<1>1. Init => Inv
  BY InitInv
<1>2. Inv /\ [Next]_vars => Inv'
  BY StepInv
<1> QED BY <1>1, <1>2, PTL DEF Spec, Safety

(* Every variable keeps its type; above all, no empty batch is offered and *)
(* no batch outgrows its size.                                             *)
THEOREM TypeCorrect == Spec => []TypeOK
<1>1. Inv => TypeOK
  BY DEF Inv
<1> QED BY <1>1, Invariance, PTL

(* When the jobs channel is closed no reader can send to it any more.      *)
THEOREM NoSendAfterClose == Spec => []ClosedAfterSenders
<1>1. Inv => ClosedAfterSenders
  BY DEF Inv, Control, ClosedAfterSenders
<1> QED BY <1>1, Invariance, PTL

(* Until there is an error on record a blob is on its way or has its       *)
(* answer: no reader that leaves, and no end of the enumeration, drops one *)
(* silently.                                                               *)
THEOREM NoBlobLost == Spec => []NothingLost
<1>1. ASSUME NEW b \in Blobs, Pending(b)
      PROVE  Places(b) # {}
  <2> DEFINE Listed == {<<"unlisted", 0>> : x \in {b} \cap unlisted}
             Batched == {<<"batch", i>> : i \in {i \in DOMAIN batch : batch[i] = b}}
             Sent == UNION {{<<"objects", i, j>> : j \in {j \in DOMAIN objects[i] : objects[i][j] = b}} :
                            i \in DOMAIN objects}
             Taken == UNION {{<<"todo", r, j>> : j \in {j \in DOMAIN todo[r] : todo[r][j] = b}} :
                             r \in Readers}
  <2>a. Places(b) = Listed \cup Batched \cup Sent \cup Taken \cup MatchingPlaces(b)
    BY DEF Places
  <2>1. CASE b \in unlisted
    <3>1. b \in {b} \cap unlisted
      BY <2>1
    <3>2. <<"unlisted", 0>> \in {<<"unlisted", 0>> : x \in {b} \cap unlisted}
      BY <3>1
    <3> QED BY <3>2 DEF Places
  <2>2. CASE In(b, batch)
    <3>1. PICK i \in DOMAIN batch : batch[i] = b
      BY <2>2 DEF In
    <3>2. <<"batch", i>> \in {<<"batch", k>> : k \in {k \in DOMAIN batch : batch[k] = b}}
      BY <3>1
    <3> QED BY <3>2 DEF Places
  <2>3. CASE InSome(b, objects)
    <3>1. PICK i \in DOMAIN objects : In(b, objects[i])
      BY <2>3 DEF InSome
    <3>2. PICK j \in DOMAIN objects[i] : objects[i][j] = b
      BY <3>1 DEF In
    <3>3. <<"objects", i, j>> \in
            {<<"objects", i, k>> : k \in {k \in DOMAIN objects[i] : objects[i][k] = b}}
      BY <3>2
    <3>4. <<"objects", i, j>> \in
            UNION {{<<"objects", h, k>> : k \in {k \in DOMAIN objects[h] : objects[h][k] = b}} :
                   h \in DOMAIN objects}
      BY <3>1, <3>3
    <3> QED BY <3>4 DEF Places
  <2>4. CASE \E r \in Readers : In(b, todo[r])
    <3>1. PICK r \in Readers : In(b, todo[r])
      BY <2>4
    <3>2. PICK j \in DOMAIN todo[r] : todo[r][j] = b
      BY <3>1 DEF In
    <3>3. <<"todo", r, j>> \in {<<"todo", r, k>> : k \in {k \in DOMAIN todo[r] : todo[r][k] = b}}
      BY <3>2
    <3>4. <<"todo", r, j>> \in
            UNION {{<<"todo", q, k>> : k \in {k \in DOMAIN todo[q] : todo[q][k] = b}} :
                   q \in Readers}
      BY <3>1, <3>3
    <3> HIDE DEF Taken
    <3>5. Taken # {}
      BY <3>4 DEF Taken
    <3> HIDE DEF Listed, Batched, Sent
    <3> QED BY <3>5, <2>a
  <2>5. CASE InMatching(b)
    <3> HIDE DEF Listed, Batched, Sent, Taken
    <3> QED BY <2>5, <2>a, InMatchingPlace
  <2> QED BY <1>1, <2>1, <2>2, <2>3, <2>4, <2>5 DEF Pending
<1>2. Inv => NothingLost
  BY <1>1 DEF Inv, Accounted, NoError, NothingLost
<1> QED BY <1>2, Invariance, PTL

(* No blob is in two batches, hands or channels at a time, or in one after *)
(* it was answered, whether or not the scan fails.                         *)
THEOREM OneHandAtATime == Spec => []OnePlace
<1>1. ASSUME Inv, NEW b \in Blobs
      PROVE  /\ \A p, q \in Places(b) : p = q
             /\ b \in DOMAIN index => Places(b) = {}
  <2> DEFINE Listed == {<<"unlisted", 0>> : x \in {b} \cap unlisted}
             Batched == {<<"batch", i>> : i \in {i \in DOMAIN batch : batch[i] = b}}
             Sent == UNION {{<<"objects", i, j>> : j \in {j \in DOMAIN objects[i] : objects[i][j] = b}} :
                            i \in DOMAIN objects}
             Taken == UNION {{<<"todo", r, j>> : j \in {j \in DOMAIN todo[r] : todo[r][j] = b}} :
                             r \in Readers}
  <2>1. Places(b) = Listed \cup Batched \cup Sent \cup Taken \cup MatchingPlaces(b)
    BY DEF Places
  <2>2. /\ FeedApart(unlisted, batch, objects, todo) /\ CoreApart /\ CoreTypeOK
        /\ Fed(b) => ~Handed(b)
        /\ DOMAIN todo = Readers
    BY <1>1 DEF Inv, Apart, TypeOK
  <2>3. \A p, q \in Listed : p = q
    OBVIOUS
  <2>4. \A p, q \in Batched : p = q
    BY <2>2 DEF FeedApart, Once
  <2>5. \A p \in Sent : \E i \in DOMAIN objects : \E j \in DOMAIN objects[i] :
                          p = <<"objects", i, j>> /\ objects[i][j] = b
    OBVIOUS
  <2>6. \A p, q \in Sent : p = q
    BY <2>2, <2>5 DEF FeedApart, Separate, Once, In
  <2>7. \A p \in Taken : \E r \in Readers : \E j \in DOMAIN todo[r] :
                           p = <<"todo", r, j>> /\ todo[r][j] = b
    OBVIOUS
  <2>8. \A p, q \in Taken : p = q
    BY <2>2, <2>7 DEF FeedApart, Separate, Once, In
  <2>9. Listed # {} => b \in unlisted
    OBVIOUS
  <2>10. Batched # {} => In(b, batch)
    BY DEF In
  <2>11. Sent # {} => InSome(b, objects)
    BY <2>5 DEF In, InSome
  <2>12. Taken # {} => InSome(b, todo)
    BY <2>2, <2>7 DEF In, InSome
  <2>13. /\ \A p, q \in MatchingPlaces(b) : p = q
         /\ MatchingPlaces(b) # {} => InMatching(b)
    BY <2>2, MatchingPlace
  <2> HIDE DEF Listed, Batched, Sent, Taken
  <2>14. /\ b \in unlisted => ~In(b, batch) /\ ~InSome(b, objects) /\ ~InSome(b, todo)
         /\ In(b, batch) => ~InSome(b, objects) /\ ~InSome(b, todo)
         /\ InSome(b, objects) => ~InSome(b, todo)
    BY <2>2 DEF FeedApart
  <2>15. Listed # {} \/ Batched # {} \/ Sent # {} \/ Taken # {} => MatchingPlaces(b) = {}
    BY <2>2, <2>9, <2>10, <2>11, <2>12, <2>13 DEF Fed, Handed
  <2>16. \A p, q \in Places(b) : p = q
    BY <2>1, <2>3, <2>4, <2>6, <2>8, <2>9, <2>10, <2>11, <2>12, <2>13, <2>14, <2>15
  <2>17. b \in DOMAIN index => Places(b) = {}
    <3>1. b \in DOMAIN index => ~Fed(b) /\ ~InMatching(b)
      BY <2>2 DEF Handed, CoreApart
    <3> QED BY <2>1, <2>9, <2>10, <2>11, <2>12, <2>13, <3>1 DEF Fed
  <2> QED BY <2>16, <2>17
<1>2. Inv => OnePlace
  BY <1>1 DEF OnePlace
<1> QED BY <1>2, Invariance, PTL

(* When the scan is through without an error, every hand, batch and        *)
(* channel is empty.                                                       *)
LEMMA ThroughIsEmpty ==
  ASSUME Inv, Through
  PROVE  NoError /\ unlisted = {} /\ \A b \in Blobs : ~Pending(b)
<1> USE DEF Inv
<1>1. main = "returned" /\ ~readErr /\ ~listErr
  BY DEF Through, Control
<1>2. unlisted = {} /\ batch = <<>>
  BY <1>1 DEF Control
<1>3. \A r \in Readers : reader[r] = "done"
  BY <1>1 DEF Control
<1>4. objects = <<>>
  BY <1>1, <1>3, GoGitAssumption DEF Control
<1>5. \A r \in Readers : todo[r] = <<>>
  BY <1>3 DEF TypeOK
<1>6. jobs = <<>> /\ \A w \in Workers : matching[w] = NoBlob
  BY ScanAssumption DEF Through, CoreInv
<1>7. \A b \in Blobs : ~Pending(b)
  BY <1>2, <1>4, <1>5, <1>6, InEmpty, SomeEmpty, ScanAssumption DEF Pending, InMatching
<1> QED BY <1>1, <1>2, <1>7 DEF NoError

(* So every answer is in place.                                            *)
LEMMA ThroughIsComplete ==
  ASSUME Inv, Through, NEW b \in Blobs
  PROVE  Lookup(b) = Reference(b)
BY ThroughIsEmpty DEF Inv, Accounted

(* When the scan reports success its counters agree with the store: every  *)
(* blob was matched or skipped, and counted, exactly once.                 *)
THEOREM CountedScan == Spec => []TallyOnSuccess
<1>1. ASSUME Inv, outcome = "ok"
      PROVE  Tally
  <2>1. Through
    BY <1>1 DEF Through, Inv, CoreInv
  <2>2. NoError /\ unlisted = {} /\ {b \in Blobs : Pending(b)} = {}
    BY <1>1, <2>1, ThroughIsEmpty
  <2>3. Tallied({}, {})
    BY <1>1, <2>2 DEF Inv, Tallies
  <2> QED BY <1>1, <2>3, TallyEnd DEF Inv, TypeOK
<1>2. Inv => TallyOnSuccess
  BY <1>1 DEF TallyOnSuccess
<1> QED BY <1>2, Invariance, PTL

(* A scan with the gogit backend and several readers does only what        *)
(* BlobScan promises: each answer appears once, and success only when all  *)
(* have.  That it returns at all is model-checked (ImplementsPromise).     *)
THEOREM Refinement == Spec => Promise!Safety
<1>1. Init => Promise!Init
  BY PromiseInit DEF Init
<1>2. Inv /\ [Next]_vars => [Promise!Next]_(Promise!vars)
  BY StepOfCore, ThroughIsComplete, PromiseStep DEF Inv, TypeOK
<1> QED BY <1>1, <1>2, Invariance, PTL DEF Spec, Safety, Promise!Safety
=============================================================================
