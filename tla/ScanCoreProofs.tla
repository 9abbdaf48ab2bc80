--------------------------- MODULE ScanCoreProofs ---------------------------
(***************************************************************************)
(* Lemmas about the shared part of a scan, for the proofs about a scan     *)
(* with a feeder: what the operators of ScanCore return, and the part of   *)
(* the inductive invariant that the matcher goroutines keep.               *)
(***************************************************************************)
EXTENDS ScanCore, FiniteSetTheorems, SequenceTheorems, TLAPS

-----------------------------------------------------------------------------
(* What sending to and receiving from a channel do to the elements in it.  *)

(* Membership in a sequence.                                                *)
In(b, s) == \E i \in DOMAIN s : s[i] = b

(* Sending adds one element to a sequence.                                  *)
LEMMA InAppend ==
  ASSUME NEW S, NEW s \in Seq(S), NEW x \in S, NEW b
  PROVE  In(b, Append(s, x)) <=> In(b, s) \/ b = x
<1>1. DOMAIN Append(s, x) = 1..(Len(s) + 1) /\ DOMAIN s = 1..Len(s)
  OBVIOUS
<1>2. \A i \in 1..Len(s) : Append(s, x)[i] = s[i]
  OBVIOUS
<1>3. Append(s, x)[Len(s) + 1] = x
  OBVIOUS
<1>4. Len(s) \in Nat
  OBVIOUS
<1>5. \A i \in 1..(Len(s) + 1) : i \in 1..Len(s) \/ i = Len(s) + 1
  BY <1>4
<1> QED BY <1>1, <1>2, <1>3, <1>4, <1>5 DEF In

(* Receiving removes the head of a sequence and keeps the rest.             *)
LEMMA InTail ==
  ASSUME NEW S, NEW s \in Seq(S), s # <<>>, NEW b
  PROVE  In(b, s) <=> b = Head(s) \/ In(b, Tail(s))
<1>1. Len(s) \in Nat \ {0} /\ DOMAIN s = 1..Len(s) /\ Head(s) = s[1]
  OBVIOUS
<1>2. DOMAIN Tail(s) = 1..(Len(s) - 1)
  OBVIOUS
<1>3. \A j \in 1..(Len(s) - 1) : Tail(s)[j] = s[j + 1]
  OBVIOUS
<1>4. ASSUME In(b, s) PROVE b = Head(s) \/ In(b, Tail(s))
  <2>1. PICK i \in 1..Len(s) : s[i] = b
    BY <1>1, <1>4 DEF In
  <2>2. CASE i = 1
    BY <2>1, <2>2, <1>1
  <2>3. CASE i # 1
    <3>1. i - 1 \in 1..(Len(s) - 1) /\ (i - 1) + 1 = i
      BY <2>1, <2>3, <1>1
    <3>2. Tail(s)[i - 1] = b
      BY <3>1, <1>3, <2>1
    <3> QED BY <3>1, <3>2, <1>2 DEF In
  <2> QED BY <2>2, <2>3
<1>5. ASSUME b = Head(s) PROVE In(b, s)
  BY <1>1, <1>5 DEF In
<1>6. ASSUME In(b, Tail(s)) PROVE In(b, s)
  <2>1. PICK j \in 1..(Len(s) - 1) : Tail(s)[j] = b
    BY <1>2, <1>6 DEF In
  <2>2. j + 1 \in 1..Len(s) /\ s[j + 1] = b
    BY <2>1, <1>1, <1>3
  <2> QED BY <2>2, <1>1 DEF In
<1> QED BY <1>4, <1>5, <1>6

(* Nothing is in an empty sequence.                                         *)
LEMMA InEmpty == \A b : ~In(b, <<>>)
BY DEF In

(* The head of a sequence is of the sequence's type, and so is the rest.     *)
LEMMA HeadTailType ==
  ASSUME NEW S, NEW s \in Seq(S), s # <<>>
  PROVE  Head(s) \in S /\ Tail(s) \in Seq(S) /\ In(Head(s), s)
BY InTail


-----------------------------------------------------------------------------
(* Results.                                                                *)

(* The zero result and the skipped ones are results.                       *)
LEMMA SkippedType ==
  /\ Empty \in Results
  /\ \A why \in {"size", "binary", "error"} :
       Skipped(why) \in Results /\ Skipped(why) # Empty
<1>1. <<>> \in Seq(STRING)
  OBVIOUS
<1>2. \A why : Skipped(why) = [expressions |-> <<>>, skipped |-> why, spdx |-> FALSE]
  BY DEF Skipped
<1>3. Empty \in Results
  BY <1>1 DEF Empty, Results
<1>4. ASSUME NEW why \in {"size", "binary", "error"}
      PROVE  Skipped(why) \in Results
  BY <1>1, <1>2 DEF Results
<1>5. ASSUME NEW why \in {"size", "binary", "error"}
      PROVE  Skipped(why) # Empty
  <2>1. Skipped(why).skipped = why /\ Empty.skipped = "not"
    BY <1>2 DEF Empty
  <2>2. why # "not"
    OBVIOUS
  <2> QED BY <2>1, <2>2
<1> QED BY <1>3, <1>4, <1>5

(* Matching any content gives a result.                                    *)
LEMMA MatchType ==
  ASSUME NEW c \in Contents
  PROVE  MatchBlob(c) \in Results
BY SkippedType DEF MatchBlob, Contents, Results

(* The reference answer is a result.                                       *)
LEMMA ReferenceType ==
  ASSUME store \in [Blobs -> Entries], NEW b \in Blobs
  PROVE  Reference(b) \in Results
<1>1. store[b] \in EntryType
  BY ScanAssumption
<1>2. store[b].content \in Contents
  BY <1>1 DEF EntryType
<1> QED BY <1>2, MatchType, SkippedType DEF Reference

(* The blobs the lister offers to the readers.                             *)
ToRead(b) ==
  /\ b \in Blobs
  /\ store[b].type = "blob"
  /\ ~(store[b].size > Limit(b))

(* The blobs that reach the matchers.                                      *)
ToMatch(b) ==
  /\ ToRead(b)
  /\ store[b].servedType = "blob"
  /\ ~(store[b].servedSize > Limit(b))

(* Their reference answer is that of the matcher.                          *)
LEMMA ToMatchAnswer ==
  ASSUME NEW b, ToMatch(b)
  PROVE  b \in Blobs /\ Reference(b) = MatchBlob(store[b].content)
BY DEF ToMatch, ToRead, Reference

(* Every entry of the index is the reference answer of its blob.           *)
IndexOK == \A b \in DOMAIN index : index[b] = Reference(b)

IndexTypeOK ==
  /\ DOMAIN index \subseteq Blobs
  /\ index \in [DOMAIN index -> Results]
  /\ skippedEntries \in Nat

(* Putting the reference answer of b makes it the answer of lookup and     *)
(* changes no other answer, although an empty result is not stored.        *)
LEMMA PutReference ==
  ASSUME store \in [Blobs -> Entries], store' = store,
         IndexTypeOK, IndexOK,
         NEW b \in Blobs, Put(b, Reference(b))
  PROVE  /\ IndexTypeOK' /\ IndexOK'
         /\ \A x \in Blobs : Lookup(x)' = IF x = b THEN Reference(b) ELSE Lookup(x)
<1>1. \A x : Reference(x)' = Reference(x)
  BY DEF Reference, Limit
<1>2. Reference(b) \in Results
  BY ReferenceType
<1>3. CASE Reference(b) = Empty
  BY <1>1, <1>3 DEF Put, IndexTypeOK, IndexOK, Lookup
<1>4. CASE Reference(b) # Empty
  <2>1. index' = [x \in DOMAIN index \cup {b} |-> IF x = b THEN Reference(b) ELSE index[x]]
    BY <1>4 DEF Put
  <2>2. skippedEntries' \in Nat
    BY <1>4 DEF Put, IndexTypeOK
  <2>3. DOMAIN index' = DOMAIN index \cup {b}
    BY <2>1
  <2>4. \A x \in DOMAIN index' : index'[x] = IF x = b THEN Reference(b) ELSE index[x]
    BY <2>1
  <2>5. IndexTypeOK'
    <3>1. \A x \in DOMAIN index : index[x] \in Results
      BY DEF IndexTypeOK
    <3>2. index' \in [DOMAIN index' -> Results]
      BY <2>1, <3>1, <1>2
    <3> QED BY <3>2, <2>2, <2>3 DEF IndexTypeOK
  <2>6. IndexOK'
    BY <2>3, <2>4, <1>1 DEF IndexOK
  <2>7. \A x \in Blobs : Lookup(x)' = IF x = b THEN Reference(b) ELSE Lookup(x)
    BY <2>3, <2>4 DEF Lookup
  <2> QED BY <2>5, <2>6, <2>7
<1> QED BY <1>3, <1>4

(* What is fixed with the store.                                           *)
LEMMA ReferenceFixed ==
  ASSUME store' = store, NEW b
  PROVE  /\ Reference(b)' = Reference(b)
         /\ ToRead(b)' <=> ToRead(b)
         /\ ToMatch(b)' <=> ToMatch(b)
BY DEF Reference, Limit, ToRead, ToMatch

(* Counting keeps the counters natural numbers.                            *)
LEMMA CountType ==
  ASSUME stats \in [Counters -> Nat], NEW cs, Count(cs)
  PROVE  stats' \in [Counters -> Nat]
BY DEF Count

-----------------------------------------------------------------------------
(* The matchers.                                                           *)

(* b is in the jobs channel or in the hands of a matcher.                  *)
InMatching(b) == In(b, jobs) \/ \E w \in Workers : matching[w] = b

CoreInv ==
  /\ \A w \in Workers : worker[w] = "matching" <=> matching[w] # NoBlob
  /\ \A b \in Blobs : InMatching(b) => ToMatch(b)
  /\ IndexOK
  /\ \A w \in Workers : worker[w] = "done" => jobs = <<>> /\ jobsClosed
  /\ outcome # "running" => jobsClosed /\ \A w \in Workers : worker[w] = "done"
  /\ outcome = "ok" => ~feedErr

(* A matcher's step keeps the types.                                       *)
LEMMA WorkerType ==
  ASSUME CoreTypeOK, CoreInv, NEW w \in Workers, WorkerStep(w)
  PROVE  CoreTypeOK'
<1> USE DEF CoreTypeOK
<1>1. CASE WorkerTake(w)
  BY <1>1, HeadTailType DEF WorkerTake, indexVars, returnVars
<1>2. CASE WorkerMatch(w)
  <2> DEFINE b == matching[w]
             m == MatchBlob(store[b].content)
  <2>1. b \in Blobs
    BY <1>2 DEF WorkerMatch, CoreInv
  <2>2. m = Reference(b)
    BY <2>1, <1>2, ToMatchAnswer DEF WorkerMatch, CoreInv, InMatching
  <2>3. Put(b, Reference(b)) /\ store' = store
    BY <2>2, <1>2 DEF WorkerMatch
  <2>4. IndexTypeOK'
    BY <2>1, <2>3, PutReference DEF IndexTypeOK, CoreInv
  <2>5. stats' \in [Counters -> Nat]
    BY <1>2, CountType DEF WorkerMatch
  <2> QED BY <1>2, <2>4, <2>5 DEF WorkerMatch, IndexTypeOK, returnVars
<1>3. CASE WorkerExit(w)
  BY <1>3 DEF WorkerExit, indexVars, returnVars
<1> QED BY <1>1, <1>2, <1>3 DEF WorkerStep

(* A matcher's step keeps the invariant; a blob on its way through the     *)
(* matchers stays there or gets its reference answer, and no answer but    *)
(* that of one blob changes, to its reference.                             *)
LEMMA WorkerKeeps ==
  ASSUME CoreTypeOK, CoreInv, NEW w \in Workers, WorkerStep(w)
  PROVE  /\ CoreInv'
         /\ \A b \in Blobs : InMatching(b) => InMatching(b)' \/ Lookup(b)' = Reference(b)
         /\ \/ \A x \in Blobs : Lookup(x)' = Lookup(x)
            \/ \E b \in Blobs : \A x \in Blobs :
                 Lookup(x)' = IF x = b THEN Reference(b) ELSE Lookup(x)
<1> USE DEF CoreTypeOK
<1>0. store' = store
  BY DEF WorkerStep, WorkerTake, WorkerMatch, WorkerExit
<1>a. \A x : Reference(x)' = Reference(x) /\ (ToMatch(x)' <=> ToMatch(x))
  BY <1>0, ReferenceFixed
<1>1. CASE WorkerTake(w)
  <2>1. /\ Head(jobs) \in Blobs /\ jobs' = Tail(jobs)
        /\ matching' = [matching EXCEPT ![w] = Head(jobs)]
        /\ worker' = [worker EXCEPT ![w] = "matching"]
        /\ UNCHANGED <<index, jobsClosed, feedErr, outcome>>
        /\ worker[w] = "idle"
    BY <1>1, HeadTailType DEF WorkerTake, indexVars, returnVars
  <2>2. \A b \in Blobs : In(b, jobs) <=> b = Head(jobs) \/ In(b, jobs')
    BY <1>1, <2>1, InTail DEF WorkerTake
  <2>3. matching[w] = NoBlob
    BY <2>1 DEF CoreInv
  <2>4. \A b \in Blobs : InMatching(b)' <=> InMatching(b)
    BY <2>1, <2>2, <2>3, ScanAssumption DEF InMatching
  <2>5. CoreInv'
    <3>1. (\A v \in Workers : worker[v] = "matching" <=> matching[v] # NoBlob)'
      BY <2>1, ScanAssumption DEF CoreInv
    <3>2. (\A b \in Blobs : InMatching(b) => ToMatch(b))'
      BY <2>4, <1>a DEF CoreInv
    <3>3. IndexOK'
      BY <2>1, <1>a DEF CoreInv, IndexOK
    <3>4. (\A v \in Workers : worker[v] = "done" => jobs = <<>> /\ jobsClosed)'
      <4>1. jobs # <<>>
        BY <1>1 DEF WorkerTake
      <4>2. \A v \in Workers : worker[v] # "done"
        BY <4>1 DEF CoreInv
      <4> QED BY <4>2, <2>1
    <3>5. outcome = "running"
      <4>1. jobs # <<>>
        BY <1>1 DEF WorkerTake
      <4> QED BY <4>1, <2>1 DEF CoreInv
    <3> QED BY <3>1, <3>2, <3>3, <3>4, <3>5, <2>1 DEF CoreInv
  <2>6. \A x : Lookup(x)' = Lookup(x)
    BY <2>1 DEF Lookup
  <2> QED BY <2>1, <2>4, <2>5, <2>6
<1>2. CASE WorkerMatch(w)
  <2> DEFINE b == matching[w]
  <2>1. /\ b \in Blobs
        /\ matching' = [matching EXCEPT ![w] = NoBlob]
        /\ worker' = [worker EXCEPT ![w] = "idle"]
        /\ UNCHANGED <<jobs, jobsClosed, feedErr, outcome>>
        /\ worker[w] = "matching"
    BY <1>2 DEF WorkerMatch, CoreInv, returnVars
  <2>2. MatchBlob(store[b].content) = Reference(b)
    BY <2>1, ToMatchAnswer DEF CoreInv, InMatching
  <2>3. Put(b, Reference(b))
    BY <2>2, <1>2 DEF WorkerMatch
  <2>4. /\ IndexOK'
        /\ \A x \in Blobs : Lookup(x)' = IF x = b THEN Reference(b) ELSE Lookup(x)
    BY <2>1, <2>3, <1>0, PutReference DEF IndexTypeOK, CoreInv
  <2>5. \A x \in Blobs : InMatching(x)' => InMatching(x)
    BY <2>1, ScanAssumption DEF InMatching
  <2>6. \A x \in Blobs : InMatching(x) => InMatching(x)' \/ x = b
    BY <2>1 DEF InMatching
  <2>7. CoreInv'
    <3>1. (\A v \in Workers : worker[v] = "matching" <=> matching[v] # NoBlob)'
      BY <2>1 DEF CoreInv
    <3>2. (\A x \in Blobs : InMatching(x) => ToMatch(x))'
      BY <2>5, <1>a DEF CoreInv
    <3>3. (\A v \in Workers : worker[v] = "done" => jobs = <<>> /\ jobsClosed)'
      BY <2>1 DEF CoreInv
    <3>4. outcome = "running"
      BY <2>1 DEF CoreInv
    <3> QED BY <3>1, <3>2, <3>3, <3>4, <2>1, <2>4 DEF CoreInv
  <2> QED BY <2>1, <2>4, <2>6, <2>7
<1>3. CASE WorkerExit(w)
  <2>1. /\ worker' = [worker EXCEPT ![w] = "done"]
        /\ jobs = <<>> /\ jobsClosed
        /\ UNCHANGED <<jobs, jobsClosed, matching, index, feedErr, outcome>>
        /\ worker[w] = "idle"
    BY <1>3 DEF WorkerExit, indexVars, returnVars
  <2>2. \A x : InMatching(x)' <=> InMatching(x)
    BY <2>1 DEF InMatching
  <2>3. \A x : Lookup(x)' = Lookup(x)
    BY <2>1 DEF Lookup
  <2>4. CoreInv'
    <3>1. (\A v \in Workers : worker[v] = "matching" <=> matching[v] # NoBlob)'
      BY <2>1 DEF CoreInv
    <3>2. (\A x \in Blobs : InMatching(x) => ToMatch(x))'
      BY <2>2, <1>a DEF CoreInv
    <3>3. IndexOK'
      BY <2>1, <1>a DEF CoreInv, IndexOK
    <3> QED BY <3>1, <3>2, <3>3, <2>1 DEF CoreInv
  <2> QED BY <2>2, <2>3, <2>4
<1> QED BY <1>1, <1>2, <1>3 DEF WorkerStep

-----------------------------------------------------------------------------
(* The steps of a feeder.                                                  *)

(* What the lister and the readers find out about a blob decides its       *)
(* reference answer.                                                       *)
LEMMA Routes ==
  ASSUME NEW b \in Blobs
  PROVE  /\ store[b].type # "blob" => Reference(b) = Empty
         /\ store[b].type = "blob" /\ store[b].size > Limit(b)
              => Reference(b) = Skipped("size")
         /\ ToRead(b) /\ store[b].servedType # "blob" => Reference(b) = Empty
         /\ ToRead(b) /\ store[b].servedType = "blob" /\ store[b].servedSize > Limit(b)
              => Reference(b) = Skipped("size")
         /\ ToRead(b) /\ store[b].servedType = "blob" /\ ~(store[b].servedSize > Limit(b))
              => ToMatch(b)
BY DEF Reference, ToRead, ToMatch

(* A blob in which nothing is found has its answer from the start.         *)
LEMMA EmptySettled ==
  ASSUME CoreInv, NEW b \in Blobs, Reference(b) = Empty
  PROVE  Lookup(b) = Reference(b)
BY DEF CoreInv, IndexOK, Lookup

(* A step outside the shared part keeps its types and its invariant.       *)
LEMMA CoreUnchanged ==
  ASSUME CoreTypeOK, CoreInv, UNCHANGED coreVars
  PROVE  /\ CoreTypeOK' /\ CoreInv'
         /\ \A b : /\ Lookup(b)' = Lookup(b)
                   /\ InMatching(b)' <=> InMatching(b)
<1> USE DEF coreVars, workerVars, indexVars, returnVars
<1>1. CoreTypeOK'
  BY DEF CoreTypeOK
<1>2. \A b : InMatching(b)' <=> InMatching(b)
  BY DEF InMatching
<1>3. \A b : Lookup(b)' = Lookup(b)
  BY DEF Lookup
<1>4. IndexOK'
  BY ReferenceFixed DEF CoreInv, IndexOK
<1>5. \A b \in Blobs : InMatching(b)' => ToMatch(b)'
  BY <1>2, ReferenceFixed DEF CoreInv
<1>6. CoreInv'
  BY <1>4, <1>5 DEF CoreInv
<1> QED BY <1>1, <1>2, <1>3, <1>6

(* A step that only gives b its reference answer, counting it.             *)
LEMMA CoreRecords ==
  ASSUME CoreTypeOK, CoreInv, NEW b \in Blobs, Put(b, Reference(b)), NEW cs, Count(cs),
         UNCHANGED <<store, jobs, workerVars, returnVars>>
  PROVE  /\ CoreTypeOK' /\ CoreInv'
         /\ \A x \in Blobs : Lookup(x)' = IF x = b THEN Reference(b) ELSE Lookup(x)
         /\ \A x : InMatching(x)' <=> InMatching(x)
<1> USE DEF workerVars, returnVars
<1>1. /\ IndexTypeOK' /\ IndexOK'
      /\ \A x \in Blobs : Lookup(x)' = IF x = b THEN Reference(b) ELSE Lookup(x)
  BY PutReference DEF CoreTypeOK, CoreInv, IndexTypeOK
<1>2. CoreTypeOK'
  BY <1>1, CountType DEF CoreTypeOK, IndexTypeOK
<1>3. \A x : InMatching(x)' <=> InMatching(x)
  BY DEF InMatching
<1>4. \A x \in Blobs : InMatching(x)' => ToMatch(x)'
  BY <1>3, ReferenceFixed DEF CoreInv
<1>5. CoreInv'
  BY <1>1, <1>4 DEF CoreInv
<1> QED BY <1>1, <1>2, <1>3, <1>5


(* A step that only counts.                                                *)
LEMMA CoreCounts ==
  ASSUME CoreTypeOK, CoreInv, NEW cs, Count(cs),
         UNCHANGED <<store, jobs, workerVars, returnVars, index, skippedEntries>>
  PROVE  /\ CoreTypeOK' /\ CoreInv'
         /\ \A b : /\ Lookup(b)' = Lookup(b)
                   /\ InMatching(b)' <=> InMatching(b)
<1> USE DEF workerVars, returnVars
<1>1. CoreTypeOK'
  BY CountType DEF CoreTypeOK
<1>2. \A b : Lookup(b)' = Lookup(b)
  BY DEF Lookup
<1>3. \A b : InMatching(b)' <=> InMatching(b)
  BY DEF InMatching
<1>4. IndexOK' /\ \A b \in Blobs : InMatching(b)' => ToMatch(b)'
  BY <1>3, ReferenceFixed DEF CoreInv, IndexOK
<1>5. CoreInv'
  BY <1>4 DEF CoreInv
<1> QED BY <1>1, <1>2, <1>3, <1>5

(* A step that only sends a job.                                           *)
LEMMA CoreSends ==
  ASSUME CoreTypeOK, CoreInv, ~jobsClosed, NEW b \in Blobs, ToMatch(b), SendJob(b),
         UNCHANGED <<store, workerVars, indexVars, returnVars>>
  PROVE  /\ CoreTypeOK' /\ CoreInv'
         /\ \A x : Lookup(x)' = Lookup(x)
         /\ \A x \in Blobs : InMatching(x)' <=> InMatching(x) \/ x = b
<1> USE DEF workerVars, indexVars, returnVars
<1>1. jobs' = Append(jobs, b)
  BY DEF SendJob
<1>2. CoreTypeOK'
  <2>1. jobs' \in Seq(Blobs)
    BY <1>1 DEF CoreTypeOK
  <2> QED BY <2>1 DEF CoreTypeOK
<1>3. \A w \in Workers : worker[w] # "done"
  BY DEF CoreInv
<1>4. \A x \in Blobs : InMatching(x)' <=> InMatching(x) \/ x = b
  <2>1. \A x : In(x, jobs') <=> In(x, jobs) \/ x = b
    BY <1>1, InAppend DEF CoreTypeOK
  <2> QED BY <2>1 DEF InMatching
<1>5. \A x : Lookup(x)' = Lookup(x)
  BY DEF Lookup
<1>6. IndexOK' /\ \A x \in Blobs : InMatching(x)' => ToMatch(x)'
  BY <1>4, ReferenceFixed DEF CoreInv, IndexOK
<1>7. CoreInv'
  BY <1>3, <1>6 DEF CoreInv
<1> QED BY <1>2, <1>4, <1>5, <1>7

(* The return of the feeder, which closes the channel, and that of the     *)
(* scan.                                                                   *)
LEMMA CoreCloses ==
  ASSUME CoreTypeOK, CoreInv,
         \/ /\ \E err \in BOOLEAN : CloseJobs(err)
            /\ UNCHANGED <<store, jobs, workerVars, indexVars>>
         \/ ScanReturn
  PROVE  /\ CoreTypeOK' /\ CoreInv'
         /\ \A x : /\ Lookup(x)' = Lookup(x)
                   /\ InMatching(x)' <=> InMatching(x)
<1>1. UNCHANGED <<store, jobs, workerVars, indexVars>>
  BY DEF ScanReturn
<1>2. CoreTypeOK'
  BY <1>1 DEF CoreTypeOK, CloseJobs, ScanReturn, workerVars, indexVars
<1>3. \A x : Lookup(x)' = Lookup(x) /\ (InMatching(x)' <=> InMatching(x))
  BY <1>1 DEF Lookup, InMatching, workerVars, indexVars
<1>4. IndexOK' /\ \A x \in Blobs : InMatching(x)' => ToMatch(x)'
  BY <1>1, <1>3, ReferenceFixed DEF CoreInv, IndexOK, indexVars
<1>5. ASSUME NEW err \in BOOLEAN, CloseJobs(err) PROVE CoreInv'
  <2>1. jobsClosed' /\ ~jobsClosed /\ outcome' = outcome
    BY <1>5 DEF CloseJobs
  <2>2. outcome = "running"
    BY <2>1 DEF CoreInv
  <2>3. \A w \in Workers : worker'[w] = "done" => jobs' = <<>> /\ jobsClosed'
    BY <1>1, <2>1 DEF CoreInv, workerVars
  <2> QED BY <1>1, <1>4, <2>1, <2>2, <2>3 DEF CoreInv, workerVars
<1>6. CASE ScanReturn
  <2>1. /\ jobsClosed' = jobsClosed /\ jobsClosed /\ feedErr' = feedErr
        /\ \A w \in Workers : worker[w] = "done"
        /\ outcome' = IF feedErr THEN "failed" ELSE "ok"
    BY <1>6 DEF ScanReturn
  <2>2. outcome' = "ok" => ~feedErr'
    BY <2>1
  <2>3. jobsClosed'
    BY <2>1
  <2> QED BY <1>1, <1>2, <1>3, <1>4, <2>1, <2>2, <2>3 DEF CoreInv, workerVars
<1> QED BY <1>2, <1>3, <1>5, <1>6

(* A blob on its way through the matchers is in one of their places.       *)
LEMMA InMatchingPlace ==
  ASSUME NEW b, InMatching(b)
  PROVE  MatchingPlaces(b) # {}
<1>1. CASE In(b, jobs)
  <2>1. PICK i \in DOMAIN jobs : jobs[i] = b
    BY <1>1 DEF In
  <2>2. <<"jobs", i>> \in {<<"jobs", k>> : k \in {k \in DOMAIN jobs : jobs[k] = b}}
    BY <2>1
  <2> QED BY <2>2 DEF MatchingPlaces
<1>2. CASE \E w \in Workers : matching[w] = b
  <2>1. PICK w \in Workers : matching[w] = b
    BY <1>2
  <2>2. <<"matching", w>> \in {<<"matching", v>> : v \in {v \in Workers : matching[v] = b}}
    BY <2>1
  <2> QED BY <2>2 DEF MatchingPlaces
<1> QED BY <1>1, <1>2 DEF InMatching

-----------------------------------------------------------------------------
(* Every step of a scan, whatever feeds it, is one of these to the shared  *)
(* part.                                                                   *)
Records(b) ==
  /\ b \in Blobs
  /\ Put(b, Reference(b))
  /\ \E cs \in SUBSET Counters : Count(cs)
  /\ ~jobsClosed
  /\ UNCHANGED <<store, jobs, workerVars, returnVars>>

Counts ==
  /\ \E cs \in SUBSET Counters : Count(cs)
  /\ UNCHANGED <<store, jobs, workerVars, returnVars, index, skippedEntries>>

Sends(b) ==
  /\ b \in Blobs
  /\ ToMatch(b)
  /\ ~jobsClosed
  /\ SendJob(b)
  /\ UNCHANGED <<store, workerVars, indexVars, returnVars>>

Closes ==
  /\ \E err \in BOOLEAN : CloseJobs(err)
  /\ UNCHANGED <<store, jobs, workerVars, indexVars>>

CoreStep ==
  \/ UNCHANGED coreVars
  \/ Counts
  \/ \E b \in Blobs : Records(b) \/ Sends(b)
  \/ Closes
  \/ ScanReturn
  \/ \E w \in Workers : WorkerStep(w)

(* What a caller sees of a step: no answer changes, or that of one blob,   *)
(* to its reference.                                                       *)
Quiet == \A x \in Blobs : Lookup(x)' = Lookup(x)
Answers(b) == \A x \in Blobs : Lookup(x)' = IF x = b THEN Reference(b) ELSE Lookup(x)

(* Such a step keeps the invariant of the shared part; no blob gets lost   *)
(* in it; and an answer changes only while the scan runs.                  *)
LEMMA CoreKeeps ==
  ASSUME CoreTypeOK, CoreInv, CoreStep
  PROVE  /\ CoreTypeOK' /\ CoreInv'
         /\ store' = store
         /\ \A b \in Blobs : InMatching(b) => InMatching(b)' \/ Lookup(b)' = Reference(b)
         /\ \A b \in Blobs : Lookup(b)' \in {Lookup(b), Reference(b)}
         /\ \/ Quiet
            \/ outcome = "running" /\ outcome' = outcome /\ \E b \in Blobs : Answers(b)
<1> USE DEF Quiet, Answers
<1> DEFINE Goal ==
      /\ CoreTypeOK' /\ CoreInv'
      /\ store' = store
      /\ \A b \in Blobs : InMatching(b) => InMatching(b)' \/ Lookup(b)' = Reference(b)
      /\ \A b \in Blobs : Lookup(b)' \in {Lookup(b), Reference(b)}
      /\ \/ Quiet
         \/ outcome = "running" /\ outcome' = outcome /\ \E b \in Blobs : Answers(b)
<1>1. CASE UNCHANGED coreVars
  BY <1>1, CoreUnchanged DEF coreVars
<1>2. CASE Counts
  BY <1>2, CoreCounts DEF Counts
<1>3. ASSUME NEW b \in Blobs, Records(b) PROVE Goal
  <2>1. outcome = "running" /\ outcome' = outcome /\ store' = store
    BY <1>3 DEF Records, CoreInv, returnVars
  <2>2. PICK cs \in SUBSET Counters : Count(cs)
    BY <1>3 DEF Records
  <2> QED BY <1>3, <2>1, <2>2, CoreRecords DEF Records
<1>4. ASSUME NEW b \in Blobs, Sends(b) PROVE Goal
  BY <1>4, CoreSends DEF Sends
<1>5. CASE Closes \/ ScanReturn
  BY <1>5, CoreCloses DEF Closes, ScanReturn
<1>6. ASSUME NEW w \in Workers, WorkerStep(w) PROVE Goal
  <2>1. worker[w] # "done"
    BY <1>6 DEF WorkerStep, WorkerTake, WorkerMatch, WorkerExit
  <2>2. outcome = "running" /\ outcome' = outcome /\ store' = store
    BY <1>6, <2>1 DEF CoreInv, WorkerStep, WorkerTake, WorkerMatch, WorkerExit, returnVars
  <2> QED BY <1>6, <2>2, WorkerKeeps, WorkerType
<1> QED BY <1>1, <1>2, <1>3, <1>4, <1>5, <1>6 DEF CoreStep

(* The matchers are done, and the feeder left no error.                    *)
Through == ~feedErr /\ jobsClosed /\ \A w \in Workers : worker[w] = "done"

(* The outcome changes once; success needs the scan to be through.         *)
LEMMA CoreOutcome ==
  ASSUME CoreTypeOK, CoreInv, CoreStep
  PROVE  \/ outcome' = outcome
         \/ /\ outcome = "running" /\ Quiet
            /\ outcome' = "failed" \/ (outcome' = "ok" /\ Through)
<1>1. CASE ScanReturn
  <2>1. Quiet
    BY <1>1, CoreCloses DEF Quiet
  <2> QED BY <1>1, <2>1 DEF ScanReturn, Through
<1>2. CASE ~ScanReturn
  BY <1>2 DEF CoreStep, Counts, Records, Sends, Closes, CloseJobs, WorkerStep, WorkerTake,
              WorkerMatch, WorkerExit, coreVars, returnVars
<1> QED BY <1>1, <1>2

-----------------------------------------------------------------------------
(* The promise of BlobScan.                                                *)

(* The shared part starts well.                                            *)
LEMMA CoreStart ==
  ASSUME CoreInit
  PROVE  CoreTypeOK /\ CoreInv /\ \A b \in Blobs : ~InMatching(b)
<1> USE DEF CoreInit
<1>1. CoreTypeOK
  <2>1. jobs \in Seq(Blobs)
    OBVIOUS
  <2>2. DOMAIN index = {} /\ index \in [DOMAIN index -> Results]
    OBVIOUS
  <2>3. stats \in [Counters -> Nat]
    OBVIOUS
  <2> QED BY <2>1, <2>2, <2>3 DEF CoreTypeOK
<1>2. \A b \in Blobs : ~InMatching(b)
  BY InEmpty, ScanAssumption DEF InMatching
<1>3. CoreInv
  BY <1>2, ScanAssumption DEF CoreInv, IndexOK
<1> QED BY <1>1, <1>2, <1>3

(* The initial state is one of the promise's.                              *)
LEMMA PromiseInit ==
  ASSUME CoreInit
  PROVE  Promise!Init
<1>1. store \in [Blobs -> Entries] /\ outcome = "running" /\ DOMAIN index = {}
  BY DEF CoreInit
<1>2. \A b \in Blobs : Reference(b) \in Results /\ Lookup(b) = Empty
  BY <1>1, ReferenceType DEF Lookup
<1>3. [b \in Blobs |-> Reference(b)] \in [Blobs -> Results]
  BY <1>2
<1>4. [b \in Blobs |-> Lookup(b)] = [b \in Blobs |-> Empty]
  BY <1>2
<1> QED BY <1>1, <1>3, <1>4 DEF Promise!Init

(* A step is one of the promise, or changes nothing that it sees, if all   *)
(* answers are there when the scan is through.                             *)
LEMMA PromiseStep ==
  ASSUME CoreTypeOK, CoreInv, CoreStep,
         Through => \A b \in Blobs : Lookup(b) = Reference(b)
  PROVE  [Promise!Next]_(Promise!vars)
<1> USE DEF Promise!vars, Promise!Next, Promise!Record, Promise!Succeed, Promise!Fail
<1> DEFINE answer == [b \in Blobs |-> Lookup(b)]
           reference == [b \in Blobs |-> Reference(b)]
<1>1. reference' = reference
  BY CoreKeeps, ReferenceFixed
<1>2. CASE outcome' # outcome
  <2>1. /\ outcome = "running" /\ answer' = answer
        /\ outcome' = "failed" \/ (outcome' = "ok" /\ Through)
    BY <1>2, CoreOutcome DEF Quiet
  <2>2. CASE outcome' = "failed"
    BY <1>1, <2>1, <2>2
  <2>3. CASE outcome' = "ok" /\ Through
    <3>1. answer = reference
      BY <2>3
    <3> QED BY <1>1, <2>1, <2>3, <3>1
  <2> QED BY <2>1, <2>2, <2>3
<1>3. CASE outcome' = outcome
  <2>1. CASE Quiet
    <3>1. answer' = answer
      BY <2>1 DEF Quiet
    <3> QED BY <1>1, <1>3, <3>1
  <2>2. CASE ~Quiet
    <3>1. outcome = "running"
      BY <2>2, CoreKeeps
    <3>2. PICK b \in Blobs : Answers(b)
      BY <2>2, CoreKeeps
    <3>3. answer' = [answer EXCEPT ![b] = reference[b]]
      BY <3>2 DEF Answers
    <3>4. Lookup(b) # Reference(b)
      BY <2>2, <3>2 DEF Quiet, Answers
    <3>5. answer[b] = Empty
      BY <3>4 DEF CoreInv, IndexOK, Lookup
    <3> QED BY <1>1, <1>3, <3>1, <3>3, <3>5
  <2> QED BY <2>1, <2>2
<1> QED BY <1>2, <1>3
-----------------------------------------------------------------------------
(* One place at a time.                                                    *)

(* No element is twice in a sequence.                                      *)
Once(s) == \A i, j \in DOMAIN s : s[i] = s[j] => i = j

(* No blob is in two hands.                                                *)
OneHand(hand) == \A x, y \in DOMAIN hand : hand[x] = hand[y] /\ hand[x] # NoBlob => x = y

(* Sending what is not in a sequence keeps its elements apart.             *)
LEMMA OnceAppend ==
  ASSUME NEW S, NEW s \in Seq(S), NEW x \in S, Once(s), ~In(x, s)
  PROVE  Once(Append(s, x))
<1>1. /\ DOMAIN Append(s, x) = 1..(Len(s) + 1) /\ DOMAIN s = 1..Len(s) /\ Len(s) \in Nat
      /\ \A i \in 1..Len(s) : Append(s, x)[i] = s[i]
      /\ Append(s, x)[Len(s) + 1] = x
  OBVIOUS
<1>2. \A i \in 1..(Len(s) + 1) : i \in 1..Len(s) \/ i = Len(s) + 1
  BY <1>1
<1> QED BY <1>1, <1>2 DEF Once, In

(* Receiving does, and what is received is not in the rest.                *)
LEMMA OnceTail ==
  ASSUME NEW S, NEW s \in Seq(S), s # <<>>, Once(s)
  PROVE  Once(Tail(s)) /\ ~In(Head(s), Tail(s))
<1>1. Len(s) \in Nat \ {0} /\ DOMAIN s = 1..Len(s) /\ Head(s) = s[1]
  OBVIOUS
<1>2. /\ DOMAIN Tail(s) = 1..(Len(s) - 1)
      /\ \A j \in 1..(Len(s) - 1) : Tail(s)[j] = s[j + 1]
  OBVIOUS
<1>3. \A j \in 1..(Len(s) - 1) : j + 1 \in 1..Len(s) /\ j + 1 # 1
  BY <1>1
<1>4. Once(Tail(s))
  <2>1. ASSUME NEW i \in 1..(Len(s) - 1), NEW j \in 1..(Len(s) - 1), Tail(s)[i] = Tail(s)[j]
        PROVE  i = j
    <3>1. i + 1 = j + 1
      BY <1>1, <1>2, <1>3, <2>1 DEF Once
    <3> QED BY <3>1
  <2> QED BY <1>2, <2>1 DEF Once
<1>5. ~In(Head(s), Tail(s))
  <2>1. 1 \in 1..Len(s)
    BY <1>1
  <2> QED BY <1>1, <1>2, <1>3, <2>1 DEF Once, In
<1> QED BY <1>4, <1>5

(* b went to the matchers, or has its entry.                               *)
Handed(b) == InMatching(b) \/ b \in DOMAIN index

(* A blob is with the matchers once, and not after it has its entry.       *)
CoreApart ==
  /\ Once(jobs)
  /\ OneHand(matching)
  /\ \A w \in Workers : ~In(matching[w], jobs)
  /\ \A b \in DOMAIN index : ~InMatching(b)

(* It is so at the start.                                                  *)
LEMMA ApartStart ==
  ASSUME CoreInit
  PROVE  CoreApart /\ \A b \in Blobs : ~Handed(b)
<1>1. Once(<<>>)
  BY DEF Once
<1> QED BY <1>1, CoreStart, InEmpty DEF CoreInit, CoreApart, OneHand, Handed

(* A step that leaves the matchers and the index alone keeps it.           *)
LEMMA ApartUnchanged ==
  ASSUME CoreApart, UNCHANGED <<jobs, workerVars, index>>
  PROVE  CoreApart' /\ \A b : (Handed(b)' <=> Handed(b)) /\ (InMatching(b)' <=> InMatching(b))
<1>1. \A b : InMatching(b)' <=> InMatching(b)
  BY DEF InMatching, workerVars
<1> QED BY <1>1 DEF CoreApart, Handed, workerVars

(* Sending a blob that was not there before keeps it.                      *)
LEMMA ApartSends ==
  ASSUME CoreTypeOK, CoreApart, NEW b \in Blobs, SendJob(b), ~Handed(b),
         UNCHANGED <<workerVars, index>>
  PROVE  /\ CoreApart'
         /\ \A x : Handed(x)' <=> Handed(x) \/ x = b
<1>1. jobs' = Append(jobs, b) /\ jobs \in Seq(Blobs)
  BY DEF SendJob, CoreTypeOK
<1>2. \A x : In(x, jobs') <=> In(x, jobs) \/ x = b
  BY <1>1, InAppend
<1>3. Once(jobs')
  BY <1>1, OnceAppend DEF CoreApart, Handed, InMatching
<1>4. \A x : InMatching(x)' <=> InMatching(x) \/ x = b
  BY <1>2 DEF InMatching, workerVars
<1> QED BY <1>2, <1>3, <1>4 DEF CoreApart, Handed, InMatching, workerVars

(* So does an entry for a blob that is not with the matchers.              *)
LEMMA ApartRecords ==
  ASSUME CoreApart, NEW b \in Blobs, NEW r, Put(b, r), ~InMatching(b),
         UNCHANGED <<jobs, workerVars>>
  PROVE  /\ CoreApart'
         /\ \A x : InMatching(x)' <=> InMatching(x)
         /\ \A x : Handed(x)' => Handed(x) \/ x = b
<1>1. \A x : InMatching(x)' <=> InMatching(x)
  BY DEF InMatching, workerVars
<1>2. \A x \in DOMAIN index' : x \in DOMAIN index \/ x = b
  BY DEF Put
<1> QED BY <1>1, <1>2 DEF CoreApart, Handed, workerVars

(* The steps of the matchers: a blob is taken and stays with them, or      *)
(* leaves them when it is matched.                                         *)
LEMMA ApartWorker ==
  ASSUME CoreTypeOK, CoreInv, CoreApart, NEW w \in Workers, WorkerStep(w)
  PROVE  /\ CoreApart'
         /\ \A x \in Blobs : Handed(x)' => Handed(x)
         /\ \/ /\ UNCHANGED indexVars
               /\ \A x \in Blobs : InMatching(x)' <=> InMatching(x)
            \/ /\ WorkerMatch(w)
               /\ \A x \in Blobs : InMatching(x)' <=> InMatching(x) /\ x # matching[w]
<1> USE DEF CoreTypeOK
<1>d. DOMAIN matching = Workers /\ \A b \in DOMAIN index : b \in Blobs
  OBVIOUS
<1>1. CASE WorkerTake(w)
  <2>1. /\ jobs # <<>> /\ jobs' = Tail(jobs) /\ Head(jobs) \in Blobs
        /\ matching' = [matching EXCEPT ![w] = Head(jobs)]
        /\ worker[w] = "idle" /\ UNCHANGED indexVars
    BY <1>1, HeadTailType DEF WorkerTake
  <2>2. matching[w] = NoBlob
    BY <2>1 DEF CoreInv
  <2>3. \A x : In(x, jobs) <=> x = Head(jobs) \/ In(x, jobs')
    BY <2>1, InTail
  <2>4. Once(jobs') /\ ~In(Head(jobs), jobs')
    BY <2>1, OnceTail DEF CoreApart
  <2>5. \A x \in Blobs : InMatching(x)' <=> InMatching(x)
    BY <2>1, <2>2, <2>3, ScanAssumption DEF InMatching
  <2>6. \A v \in Workers : matching[v] # Head(jobs)
    BY <2>3 DEF CoreApart
  <2>7. OneHand(matching')
    BY <2>1, <2>6 DEF CoreApart, OneHand
  <2>8. \A v \in Workers : ~In(matching'[v], jobs')
    BY <2>1, <2>3, <2>4 DEF CoreApart
  <2>9. CoreApart'
    BY <2>1, <2>4, <2>5, <2>7, <2>8, <1>d DEF CoreApart, indexVars
  <2> QED BY <2>1, <2>5, <2>9 DEF Handed, indexVars
<1>2. CASE WorkerMatch(w)
  <2> DEFINE b == matching[w]
  <2>1. /\ b \in Blobs /\ UNCHANGED jobs
        /\ matching' = [matching EXCEPT ![w] = NoBlob]
        /\ \A x \in DOMAIN index' : x \in DOMAIN index \/ x = b
    BY <1>2 DEF WorkerMatch, CoreInv, Put
  <2>2. ~In(b, jobs) /\ \A v \in Workers : matching[v] = b => v = w
    BY <2>1, ScanAssumption DEF CoreApart, OneHand
  <2>3. \A x \in Blobs : InMatching(x)' <=> InMatching(x) /\ x # b
    BY <2>1, <2>2, ScanAssumption DEF InMatching
  <2>4. OneHand(matching')
    BY <2>1 DEF CoreApart, OneHand
  <2>5. \A v \in Workers : ~In(matching'[v], jobs')
    <3>1. ~In(NoBlob, jobs)
      BY ScanAssumption DEF In
    <3> QED BY <2>1, <3>1 DEF CoreApart
  <2>6. \A x \in DOMAIN index' : ~InMatching(x)'
    BY <2>1, <2>3, <1>d DEF CoreApart
  <2>7. CoreApart'
    BY <2>1, <2>4, <2>5, <2>6 DEF CoreApart
  <2>8. InMatching(b)
    BY <2>1 DEF InMatching
  <2>9. \A x \in Blobs : Handed(x)' => Handed(x)
    BY <2>1, <2>3, <2>8 DEF Handed
  <2> QED BY <1>2, <2>3, <2>7, <2>9
<1>3. CASE WorkerExit(w)
  <2>1. UNCHANGED <<jobs, matching, index, indexVars>>
    BY <1>3 DEF WorkerExit, indexVars
  <2>2. \A x : InMatching(x)' <=> InMatching(x)
    BY <2>1 DEF InMatching
  <2> QED BY <2>1, <2>2 DEF CoreApart, Handed
<1> QED BY <1>1, <1>2, <1>3 DEF WorkerStep

(* The places of a blob with the matchers are one, or none.                *)
LEMMA MatchingPlace ==
  ASSUME CoreTypeOK, CoreApart, NEW b \in Blobs
  PROVE  /\ \A p, q \in MatchingPlaces(b) : p = q
         /\ MatchingPlaces(b) # {} => InMatching(b)
<1> DEFINE Queued == {<<"jobs", i>> : i \in {i \in DOMAIN jobs : jobs[i] = b}}
           Taken == {<<"matching", w>> : w \in {w \in Workers : matching[w] = b}}
<1>1. MatchingPlaces(b) = Queued \cup Taken
  BY DEF MatchingPlaces
<1>2. \A p, q \in Queued : p = q
  BY DEF CoreApart, Once
<1>3. \A p, q \in Taken : p = q
  BY ScanAssumption DEF CoreApart, OneHand, CoreTypeOK
<1>4. Queued # {} => In(b, jobs)
  BY DEF In
<1>5. Taken # {} => \E w \in Workers : matching[w] = b
  OBVIOUS
<1>6. Queued = {} \/ Taken = {}
  BY <1>4, <1>5 DEF CoreApart
<1> HIDE DEF Queued, Taken
<1> QED BY <1>1, <1>2, <1>3, <1>4, <1>5, <1>6 DEF InMatching
-----------------------------------------------------------------------------
(* The counters.                                                           *)

(* The blobs that a complete scan counts under c, and the entries it skips. *)
Owed(c) ==
  {b \in Blobs :
     \/ c = "total" /\ store[b].type = "blob"
     \/ c = "matched" /\ ToMatch(b)
     \/ c = "skipSize" /\ Reference(b).skipped = "size"
     \/ c = "skipBinary" /\ Reference(b).skipped = "binary"
     \/ c = "skipError" /\ Reference(b).skipped = "error"
     \/ c = "hits" /\ Reference(b).expressions # <<>>}

SkipsOwed == {b \in Blobs : Reference(b).skipped # "not"}

(* The counters are those of a scan with U yet to be listed and P yet to   *)
(* be answered.                                                            *)
Tallied(U, P) ==
  /\ \A c \in Counters : stats[c] = Cardinality(Owed(c) \ (IF c = "total" THEN U ELSE P))
  /\ skippedEntries = Cardinality(SkipsOwed \ P)

(* At the start nothing is counted.                                        *)
LEMMA TallyStart ==
  ASSUME CoreInit, NEW U, NEW P,
         \A b \in Blobs : store[b].type = "blob" => b \in U /\ b \in P
  PROVE  Tallied(U, P)
<1>1. \A b \in Blobs : store[b].type # "blob" => Reference(b) = Empty /\ ~ToMatch(b)
  BY DEF Reference, ToMatch, ToRead
<1>2. \A c \in Counters : Owed(c) \ (IF c = "total" THEN U ELSE P) = {}
  BY <1>1 DEF Owed, Empty
<1>3. SkipsOwed \ P = {}
  BY <1>1 DEF SkipsOwed, Empty
<1> QED BY <1>2, <1>3, FS_EmptySet DEF Tallied, CoreInit

(* With nothing left the counters are those of the store.                  *)
LEMMA TallyEnd ==
  ASSUME CoreTypeOK, Tallied({}, {})
  PROVE  Tally
<1>1. \A b \in Blobs : ToMatch(b) <=> b \in Scanned
  <2>1. \A b \in Blobs : store[b].size \in Nat /\ store[b].servedSize \in Nat
    <3>1. \A b \in Blobs : store[b] \in EntryType
      BY ScanAssumption DEF CoreTypeOK
    <3> QED BY <3>1 DEF EntryType
  <2>2. \A b \in Blobs : Limit(b) \in Nat
    BY ScanAssumption DEF Limit
  <2> QED BY <2>1, <2>2 DEF Scanned, ToMatch, ToRead
<1>2. /\ Owed("total") = {b \in Blobs : store[b].type = "blob"}
      /\ Owed("matched") = Scanned
      /\ Owed("skipSize") = Oversize
      /\ Owed("skipBinary") = {b \in Blobs : Reference(b).skipped = "binary"}
      /\ Owed("skipError") = {b \in Blobs : Reference(b).skipped = "error"}
      /\ Owed("hits") = {b \in Blobs : Reference(b).expressions # <<>>}
      /\ SkipsOwed = {b \in Blobs : Reference(b).skipped # "not"}
  <2>1. Owed("matched") = {b \in Blobs : ToMatch(b)}
    BY DEF Owed
  <2>2. {b \in Blobs : ToMatch(b)} = Scanned
    BY <1>1 DEF Scanned
  <2> QED BY <2>1, <2>2 DEF Owed, Oversize, SkipsOwed
<1>3. \A c \in Counters : stats[c] = Cardinality(Owed(c))
  BY DEF Tallied
<1>4. skippedEntries = Cardinality(SkipsOwed)
  BY DEF Tallied
<1> QED BY <1>2, <1>3, <1>4 DEF Tally, Counters

(* The sets of blobs that are counted, when something was settled: one     *)
(* blob more, if it was not there before.                                  *)
LEMMA OneMore ==
  ASSUME NEW S \in SUBSET Blobs, NEW P, NEW b
  PROVE  /\ Cardinality(S \ P) \in Nat
         /\ Cardinality(S \ (P \ {b})) =
              IF b \in S /\ b \in P THEN Cardinality(S \ P) + 1 ELSE Cardinality(S \ P)
<1>1. IsFiniteSet(S \ P) /\ Cardinality(S \ P) \in Nat
  BY ScanAssumption, FS_Subset, FS_CardinalityType
<1>2. CASE b \in S /\ b \in P
  <2>1. S \ (P \ {b}) = (S \ P) \cup {b} /\ b \notin S \ P
    BY <1>2
  <2> QED BY <1>1, <1>2, <2>1, FS_AddElement
<1>3. CASE ~(b \in S /\ b \in P)
  <2>1. S \ (P \ {b}) = S \ P
    BY <1>3
  <2> QED BY <1>1, <1>3, <2>1
<1> QED BY <1>2, <1>3

(* What a step settles is counted, and nothing else.                       *)
LEMMA TallyStep ==
  ASSUME CoreTypeOK, store' = store, NEW U, NEW P, Tallied(U, P),
         NEW b \in Blobs, NEW V, V = U \/ V = U \ {b}, NEW Q, Q = P \/ Q = P \ {b},
         NEW cs, Count(cs),
         "total" \in cs <=> b \in U \ V /\ b \in Owed("total"),
         \A c \in Counters \ {"total"} : c \in cs <=> b \in P \ Q /\ b \in Owed(c),
         skippedEntries' = IF b \in P \ Q /\ b \in SkipsOwed
                           THEN skippedEntries + 1 ELSE skippedEntries
  PROVE  Tallied(V, Q)'
<1>1. \A x : Reference(x)' = Reference(x) /\ (ToMatch(x)' <=> ToMatch(x))
  BY ReferenceFixed
<1>2. \A c : Owed(c)' = Owed(c) /\ Owed(c) \subseteq Blobs
  BY <1>1 DEF Owed
<1>3. SkipsOwed' = SkipsOwed /\ SkipsOwed \subseteq Blobs
  BY <1>1 DEF SkipsOwed
<1>4. ASSUME NEW c \in Counters
      PROVE  stats'[c] = Cardinality(Owed(c) \ (IF c = "total" THEN V ELSE Q))
  <2>1. stats'[c] = IF c \in cs THEN stats[c] + 1 ELSE stats[c]
    BY DEF Count
  <2>2. stats[c] = Cardinality(Owed(c) \ (IF c = "total" THEN U ELSE P))
    BY DEF Tallied
  <2>3. Owed(c) \in SUBSET Blobs
    BY <1>2
  <2>4. CASE c = "total"
    <3>1. stats[c] = Cardinality(Owed(c) \ U)
      BY <2>2, <2>4
    <3>2. CASE V = U
      BY <2>1, <2>4, <3>1, <3>2
    <3>3. CASE V = U \ {b}
      <4>1. Cardinality(Owed(c) \ V) = IF b \in Owed(c) /\ b \in U
                                       THEN Cardinality(Owed(c) \ U) + 1
                                       ELSE Cardinality(Owed(c) \ U)
        BY <2>3, <3>3, OneMore
      <4> QED BY <2>1, <2>4, <3>1, <3>3, <4>1
    <3> QED BY <3>2, <3>3
  <2>5. CASE c # "total"
    <3>1. stats[c] = Cardinality(Owed(c) \ P)
      BY <2>2, <2>5
    <3>2. c \in cs <=> b \in P \ Q /\ b \in Owed(c)
      BY <2>5
    <3>3. CASE Q = P
      BY <2>1, <2>5, <3>1, <3>2, <3>3
    <3>4. CASE Q = P \ {b}
      <4>1. Cardinality(Owed(c) \ Q) = IF b \in Owed(c) /\ b \in P
                                       THEN Cardinality(Owed(c) \ P) + 1
                                       ELSE Cardinality(Owed(c) \ P)
        BY <2>3, <3>4, OneMore
      <4> QED BY <2>1, <2>5, <3>1, <3>2, <3>4, <4>1
    <3> QED BY <3>3, <3>4
  <2> QED BY <2>4, <2>5
<1>5. skippedEntries' = Cardinality(SkipsOwed \ Q)
  <2>1. skippedEntries = Cardinality(SkipsOwed \ P)
    BY DEF Tallied
  <2>2. CASE Q = P
    BY <2>1, <2>2
  <2>3. CASE Q = P \ {b}
    BY <1>3, <2>1, <2>3, OneMore
  <2> QED BY <2>2, <2>3
<1> QED BY <1>2, <1>3, <1>4, <1>5 DEF Tallied

(* A step that counts nothing may settle what owes nothing.                *)
LEMMA TallyQuiet ==
  ASSUME store' = store, UNCHANGED <<stats, skippedEntries>>, NEW U, NEW P, Tallied(U, P),
         NEW V, NEW Q,
         \A b \in Blobs : store[b].type = "blob" => (b \in U <=> b \in V),
         \A b \in Blobs : (b \in P <=> b \in Q) \/ (Reference(b) = Empty /\ ~ToMatch(b))
  PROVE  Tallied(V, Q)'
<1>1. \A x : Reference(x)' = Reference(x) /\ (ToMatch(x)' <=> ToMatch(x))
  BY ReferenceFixed
<1>2. \A c : Owed(c)' = Owed(c)
  BY <1>1 DEF Owed
<1>3. SkipsOwed' = SkipsOwed
  BY <1>1 DEF SkipsOwed
<1>4. \A c \in Counters : Owed(c) \ (IF c = "total" THEN V ELSE Q)
                          = Owed(c) \ (IF c = "total" THEN U ELSE P)
  <2>1. Owed("total") \ V = Owed("total") \ U
    BY DEF Owed
  <2>2. \A c \in Counters \ {"total"} : Owed(c) \ Q = Owed(c) \ P
    BY DEF Owed, Empty
  <2> QED BY <2>1, <2>2
<1>5. SkipsOwed \ Q = SkipsOwed \ P
  BY DEF SkipsOwed, Empty
<1> QED BY <1>2, <1>3, <1>4, <1>5 DEF Tallied

(* A blob is listed and goes on.                                           *)
LEMMA TallyListed ==
  ASSUME CoreTypeOK, store' = store, NEW U, NEW P, Tallied(U, P),
         NEW b \in Blobs, b \in U, store[b].type = "blob",
         Count({"total"}), UNCHANGED skippedEntries
  PROVE  Tallied(U \ {b}, P)'
<1>1. b \in Owed("total")
  BY DEF Owed
<1>2. b \in U \ (U \ {b})
  OBVIOUS
<1>3. \A c \in Counters \ {"total"} : c \in {"total"} <=> b \in P \ P /\ b \in Owed(c)
  OBVIOUS
<1>4. skippedEntries' = IF b \in P \ P /\ b \in SkipsOwed THEN skippedEntries + 1
                        ELSE skippedEntries
  OBVIOUS
<1> QED BY <1>1, <1>2, <1>3, <1>4, TallyStep

(* A blob gets its answer, and with it all that it owes is counted; if it  *)
(* was not listed before, it is now.                                       *)
LEMMA TallySettled ==
  ASSUME CoreTypeOK, store' = store, NEW U, NEW P, Tallied(U, P),
         NEW b \in Blobs, b \in P, NEW V, V = U \/ V = U \ {b}, NEW cs, Count(cs),
         "total" \in cs <=> b \in U \ V /\ store[b].type = "blob",
         \A c \in Counters \ {"total"} : c \in cs <=> b \in Owed(c),
         Put(b, Reference(b))
  PROVE  Tallied(V, P \ {b})'
<1>1. "total" \in cs <=> b \in U \ V /\ b \in Owed("total")
  BY DEF Owed
<1>2. PICK Q : Q = P \ {b}
  OBVIOUS
<1>3. b \in P \ Q
  BY <1>2
<1>4. skippedEntries' = IF b \in P \ Q /\ b \in SkipsOwed
                        THEN skippedEntries + 1 ELSE skippedEntries
  BY <1>3 DEF Put, SkipsOwed, Empty
<1>5. \A c \in Counters \ {"total"} : c \in cs <=> b \in P \ Q /\ b \in Owed(c)
  BY <1>3
<1>6. CoreTypeOK /\ store' = store /\ Tallied(U, P) /\ Count(cs)
  OBVIOUS
<1>7. b \in Blobs /\ (V = U \/ V = U \ {b}) /\ (Q = P \/ Q = P \ {b})
  BY <1>2
<1>8. Tallied(V, Q)'
  BY ONLY <1>1, <1>4, <1>5, <1>6, <1>7, TallyStep
<1> QED BY <1>2, <1>8

(* What a blob owes that is over its limit, and one that is matched.       *)
LEMMA OwedBy ==
  ASSUME NEW b \in Blobs
  PROVE  /\ Reference(b) = Skipped("size") /\ ~ToMatch(b) =>
              \A c \in Counters \ {"total"} : b \in Owed(c) <=> c = "skipSize"
         /\ ToMatch(b) =>
              \A c \in Counters \ {"total"} : b \in Owed(c) <=> c \in Counted(Reference(b))
<1>1. Skipped("size").skipped = "size" /\ Skipped("size").expressions = <<>>
  BY DEF Skipped
<1>2. ASSUME Reference(b) = Skipped("size"), ~ToMatch(b), NEW c \in Counters \ {"total"}
      PROVE  b \in Owed(c) <=> c = "skipSize"
  BY <1>1, <1>2 DEF Owed
<1>3. ASSUME ToMatch(b), NEW c \in Counters \ {"total"}
      PROVE  b \in Owed(c) <=> c \in Counted(Reference(b))
  <2>1. Reference(b).skipped # "size"
    BY <1>3, ToMatchAnswer DEF MatchBlob, Skipped
  <2> QED BY <1>3, <2>1 DEF Owed, Counted, Counters
<1> QED BY <1>2, <1>3

(* A matcher settles the blob it matches.                                  *)
LEMMA TallyWorker ==
  ASSUME CoreTypeOK, CoreInv, CoreApart, NEW w \in Workers, WorkerStep(w),
         NEW U, NEW P, NEW Q, Tallied(U, P),
         \A b \in Blobs : InMatching(b) => b \in P,
         Q = {b \in P : InMatching(b) => InMatching(b)'}, P \subseteq Blobs
  PROVE  Tallied(U, Q)'
<1>0. store' = store
  BY DEF WorkerStep, WorkerTake, WorkerMatch, WorkerExit
<1>1. CASE UNCHANGED indexVars /\ \A x \in Blobs : InMatching(x)' <=> InMatching(x)
  <2>1. Q = P
    BY <1>1
  <2> QED BY <1>0, <1>1, <2>1, TallyQuiet DEF indexVars
<1>2. CASE /\ WorkerMatch(w)
           /\ \A x \in Blobs : InMatching(x)' <=> InMatching(x) /\ x # matching[w]
  <2>1. PICK b : b = matching[w]
    OBVIOUS
  <2>2. b \in Blobs /\ InMatching(b)
    BY <1>2, <2>1 DEF WorkerMatch, CoreInv, CoreTypeOK, InMatching
  <2>3. ToMatch(b) /\ Reference(b) = MatchBlob(store[b].content) /\ b \in P
    BY <2>2, ToMatchAnswer DEF CoreInv
  <2>4. Put(b, Reference(b)) /\ Count(Counted(Reference(b)))
    BY <1>2, <2>1, <2>3 DEF WorkerMatch
  <2>5. \A c \in Counters \ {"total"} : c \in Counted(Reference(b)) <=> b \in Owed(c)
    BY <2>2, <2>3, OwedBy
  <2>6. "total" \notin Counted(Reference(b))
    BY DEF Counted
  <2>7. Q = P \ {b}
    BY <1>2, <2>1, <2>2
  <2>8. Tallied(U, P \ {b})'
    BY <1>0, <2>2, <2>3, <2>4, <2>5, <2>6, TallySettled
  <2> QED BY <2>7, <2>8
<1> QED BY <1>1, <1>2, ApartWorker
=============================================================================
