------------------------- MODULE CatFileScanProofs -------------------------
(***************************************************************************)
(* Proofs about a scan fed by the git backend, for any store, any number   *)
(* of readers and matchers and any channel capacities.                     *)
(*                                                                         *)
(* The argument: a blob is followed from the listing through the channels  *)
(* and hands to the index (Routed, Accounted), and whatever closes a       *)
(* channel or ends a goroutine does so only when nothing more can come     *)
(* (Control).  When the scan succeeds there was no error, every hand and   *)
(* channel is empty, and so every blob has its answer.                     *)
(***************************************************************************)
EXTENDS CatFileScan, ScanCoreProofs

(* Who holds a blob, and what is known of it there.                        *)
Routed ==
  /\ main = "offer" <=> offered # NoBlob
  /\ offered # NoBlob => ToRead(offered)
  /\ \A b \in Blobs : In(b, blobs) => ToRead(b)
  /\ \A r \in Readers :
       /\ reader[r] \in {"read", "send"} <=> reading[r] # NoBlob
       /\ reading[r] # NoBlob => ToRead(reading[r])
       /\ reader[r] = "send" => ToMatch(reading[r])

(* When the channels are closed and the goroutines end.                    *)
Control ==
  /\ main \in {"close", "wait", "returned"} /\ ~listErr => unlisted = {}
  /\ blobsClosed <=> main \in {"wait", "returned"}
  /\ \A r \in Readers : reader[r] = "done" => errs > 0 \/ (blobs = <<>> /\ blobsClosed)
  /\ jobsClosed <=> main = "returned"
  /\ main = "returned" =>
       /\ \A r \in Readers : reader[r] = "done"
       /\ feedErr <=> errs > 0 \/ listErr

NoError == errs = 0 /\ (\A r \in Readers : reader[r] # "report") /\ ~listErr

(* b is on its way to an answer.                                           *)
Pending(b) ==
  \/ b \in unlisted
  \/ offered = b
  \/ In(b, blobs)
  \/ \E r \in Readers : reading[r] = b
  \/ InMatching(b)

Accounted == NoError => \A b \in Blobs : Pending(b) \/ Lookup(b) = Reference(b)

(* b is with the lister or the readers, or on its way between them.        *)
Fed(b) ==
  \/ b \in unlisted
  \/ offered = b
  \/ In(b, blobs)
  \/ \E r \in Readers : reading[r] = b

(* No blob is there twice.                                                 *)
FeedApart(u, o, s, hand) ==
  /\ Once(s)
  /\ OneHand(hand)
  /\ o \notin u
  /\ ~In(o, s)
  /\ \A b \in u : ~In(b, s)
  /\ \A r \in Readers :
       /\ hand[r] \notin u
       /\ ~In(hand[r], s)
       /\ hand[r] # NoBlob => hand[r] # o

(* Nor with the matchers, or in the index, before it has left the feeder.  *)
Apart ==
  /\ FeedApart(unlisted, offered, blobs, reading)
  /\ CoreApart
  /\ \A b \in Blobs : Fed(b) => ~Handed(b)

(* The counters of the blobs listed and answered so far.                   *)
Tallies == NoError => Tallied(unlisted, {b \in Blobs : Pending(b)})

Inv == TypeOK /\ CoreInv /\ Routed /\ Control /\ Accounted /\ Apart /\ Tallies

-----------------------------------------------------------------------------
(* The store does not change, and with it neither does what it determines. *)
LEMMA StoreFixed ==
  ASSUME [Next]_vars
  PROVE  store' = store
BY DEF Next, vars, coreVars, MainStep, List, Offer, OfferCancelled, ListEnd, ListFails,
       CloseBlobs, FeedReturn, ScanReturn, ReaderStep, ReaderStart, ReaderFails,
       ReaderReports, ReaderTake, ReaderExit, ReaderRead, ReaderSend, Matchers,
       WorkerStep, WorkerTake, WorkerMatch, WorkerExit, Done

-----------------------------------------------------------------------------
(* The steps that touch the shared part, one lemma each.                   *)

(* The lister's step keeps the shared part; the blob it names gets its     *)
(* answer or is offered, and no other blob is affected.                    *)
LEMMA ListCore ==
  ASSUME TypeOK, CoreInv, NEW b \in Blobs, List(b)
  PROVE  /\ CoreTypeOK' /\ CoreInv'
         /\ \/ Lookup(b)' = Reference(b)
            \/ Lookup(b)' = Lookup(b) /\ main' = "offer" /\ offered' = b
         /\ \A x \in Blobs \ {b} : Lookup(x)' = Lookup(x)
         /\ \A x : InMatching(x)' <=> InMatching(x)
         /\ \/ UNCHANGED <<main, offered>>
            \/ ToRead(b) /\ main' = "offer" /\ offered' = b
<1>0. CoreTypeOK /\ UNCHANGED <<store, jobs, workerVars, returnVars>>
  BY DEF TypeOK, List
<1>1. CASE store[b].type # "blob"
  <2>1. UNCHANGED <<coreVars, main, offered>>
    BY <1>0, <1>1 DEF List, coreVars, indexVars
  <2> QED BY <1>0, <1>1, <2>1, CoreUnchanged, Routes, EmptySettled
<1>2. CASE store[b].type = "blob" /\ store[b].size > Limit(b)
  <2>1. Put(b, Reference(b)) /\ Count({"total", "skipSize"}) /\ UNCHANGED <<main, offered>>
    BY <1>2, Routes DEF List
  <2> QED BY <1>0, <2>1, CoreRecords
<1>3. CASE ToRead(b)
  <2>1. /\ Count({"total"}) /\ main' = "offer" /\ offered' = b
        /\ UNCHANGED <<index, skippedEntries>>
    BY <1>3 DEF List, ToRead
  <2>2. CoreTypeOK'
    BY <1>0, <2>1, CountType DEF CoreTypeOK, workerVars, returnVars
  <2>3. \A x : Lookup(x)' = Lookup(x)
    BY <2>1 DEF Lookup
  <2>4. \A x : InMatching(x)' <=> InMatching(x)
    BY <1>0 DEF InMatching, workerVars
  <2>5. IndexOK'
    BY <1>0, <2>1, ReferenceFixed DEF CoreInv, IndexOK
  <2>6. \A x \in Blobs : InMatching(x)' => ToMatch(x)'
    BY <1>0, <2>4, ReferenceFixed DEF CoreInv
  <2>7. CoreInv'
    BY <1>0, <2>5, <2>6 DEF CoreInv, workerVars, returnVars
  <2> QED BY <1>3, <2>1, <2>2, <2>3, <2>4, <2>7
<1> QED BY <1>1, <1>2, <1>3 DEF ToRead

(* A reader's read keeps the shared part; the blob gets its answer or goes *)
(* on to the matchers.                                                     *)
LEMMA ReadCore ==
  ASSUME TypeOK, CoreInv, Routed, NEW r \in Readers, ReaderRead(r),
         NEW b \in Blobs, b = reading[r]
  PROVE  /\ CoreTypeOK' /\ CoreInv'
         /\ \/ /\ reader' = [reader EXCEPT ![r] = "idle"]
               /\ reading' = [reading EXCEPT ![r] = NoBlob]
               /\ Lookup(b)' = Reference(b)
            \/ /\ reader' = [reader EXCEPT ![r] = "send"]
               /\ reading' = reading
               /\ ToMatch(b) /\ Lookup(b)' = Lookup(b)
         /\ \A x \in Blobs \ {b} : Lookup(x)' = Lookup(x)
         /\ \A x : InMatching(x)' <=> InMatching(x)
<1>0. /\ CoreTypeOK /\ UNCHANGED <<store, jobs, workerVars, returnVars>>
      /\ ToRead(b)
  BY DEF TypeOK, ReaderRead, Routed
<1>1. CASE store[b].servedType # "blob"
  <2>1. /\ UNCHANGED coreVars
        /\ reader' = [reader EXCEPT ![r] = "idle"]
        /\ reading' = [reading EXCEPT ![r] = NoBlob]
    BY <1>0, <1>1 DEF ReaderRead, coreVars, indexVars
  <2>2. Lookup(b) = Reference(b)
    BY <1>0, <1>1, Routes, EmptySettled
  <2> QED BY <1>0, <2>1, <2>2, CoreUnchanged
<1>2. CASE store[b].servedType = "blob" /\ store[b].servedSize > Limit(b)
  <2>1. /\ Put(b, Reference(b)) /\ Count({"skipSize"})
        /\ reader' = [reader EXCEPT ![r] = "idle"]
        /\ reading' = [reading EXCEPT ![r] = NoBlob]
    BY <1>0, <1>2, Routes DEF ReaderRead, Skip
  <2> QED BY <1>0, <2>1, CoreRecords
<1>3. CASE store[b].servedType = "blob" /\ ~(store[b].servedSize > Limit(b))
  <2>1. /\ UNCHANGED coreVars /\ reading' = reading
        /\ reader' = [reader EXCEPT ![r] = "send"]
    BY <1>0, <1>3 DEF ReaderRead, coreVars, indexVars
  <2> QED BY <1>0, <1>3, <2>1, CoreUnchanged, Routes
<1> QED BY <1>1, <1>2, <1>3

(* A send keeps the shared part: the channel is still open, for a reader   *)
(* is still there, and so no matcher has left.                             *)
LEMMA SendCore ==
  ASSUME TypeOK, CoreInv, Routed, Control, NEW r \in Readers, ReaderSend(r)
  PROVE  /\ CoreTypeOK' /\ CoreInv'
         /\ reading[r] \in Blobs
         /\ \A x : Lookup(x)' = Lookup(x)
         /\ \A x \in Blobs : InMatching(x)' <=> InMatching(x) \/ x = reading[r]
<1>1. ToMatch(reading[r]) /\ reading[r] \in Blobs /\ ~jobsClosed
  BY ToMatchAnswer DEF ReaderSend, Routed, Control
<1> QED BY <1>1, CoreSends DEF TypeOK, ReaderSend

-----------------------------------------------------------------------------
(* What a step is to the shared part.                                      *)

(* A step of the lister, the feeder or a reader that leaves the shared     *)
(* part alone.                                                             *)
FeedOnly ==
  \/ Offer \/ OfferCancelled \/ ListEnd \/ ListFails \/ CloseBlobs
  \/ \E r \in Readers : \/ ReaderStart(r) \/ ReaderFails(r) \/ ReaderReports(r)
                        \/ ReaderTake(r) \/ ReaderExit(r)
  \/ Done
  \/ UNCHANGED vars

(* It does.                                                                *)
LEMMA FeedOnlyCore ==
  ASSUME FeedOnly
  PROVE  UNCHANGED coreVars
BY DEF FeedOnly, Offer, OfferCancelled, ListEnd, ListFails, CloseBlobs, ReaderStart,
       ReaderFails, ReaderReports, ReaderTake, ReaderExit, Done, vars

(* The kinds of steps there are.                                           *)
LEMMA StepKinds ==
  ASSUME [Next]_vars
  PROVE  \/ FeedOnly
         \/ \E b \in Blobs : List(b)
         \/ \E r \in Readers : ReaderRead(r) \/ ReaderSend(r)
         \/ FeedReturn
         \/ ScanReturn /\ UNCHANGED feedVars
         \/ \E w \in Workers : WorkerStep(w) /\ UNCHANGED feedVars
BY DEF Next, MainStep, ReaderStep, Matchers, FeedOnly

(* To the shared part each step is one of those that keep it.              *)
LEMMA StepOfCore ==
  ASSUME TypeOK, CoreInv, Routed, Control, [Next]_vars
  PROVE  CoreStep
<1>1. CASE FeedOnly
  BY <1>1, FeedOnlyCore DEF CoreStep
<1>2. ASSUME NEW b \in Blobs, List(b) PROVE CoreStep
  <2>1. ~jobsClosed /\ UNCHANGED <<store, jobs, workerVars, returnVars>>
    BY <1>2 DEF List, Control
  <2>2. {"total"} \in SUBSET Counters /\ {"total", "skipSize"} \in SUBSET Counters
    BY DEF Counters
  <2>3. CASE store[b].type # "blob"
    BY <1>2, <2>1, <2>3 DEF List, CoreStep, coreVars, indexVars
  <2>4. CASE store[b].type = "blob" /\ store[b].size > Limit(b)
    <3>1. Records(b)
      BY <1>2, <2>1, <2>2, <2>4, Routes DEF List, Records
    <3> QED BY <3>1 DEF CoreStep
  <2>5. CASE store[b].type = "blob" /\ ~(store[b].size > Limit(b))
    BY <1>2, <2>1, <2>2, <2>5 DEF List, CoreStep, Counts
  <2> QED BY <2>3, <2>4, <2>5
<1>3. ASSUME NEW r \in Readers, ReaderRead(r) PROVE CoreStep
  <2>1. reading[r] \in Blobs
    BY <1>3 DEF TypeOK, Routed, ReaderRead
  <2>2. PICK b \in Blobs : b = reading[r]
    BY <2>1
  <2>3. /\ ~jobsClosed /\ UNCHANGED <<store, jobs, workerVars, returnVars>>
        /\ ToRead(b)
    BY <1>3, <2>2 DEF ReaderRead, Routed, Control
  <2>4. CASE store[b].servedType = "blob" /\ store[b].servedSize > Limit(b)
    <3>1. Put(b, Reference(b)) /\ Count({"skipSize"})
      BY <1>3, <2>2, <2>3, <2>4, Routes DEF ReaderRead, Skip
    <3>2. {"skipSize"} \in SUBSET Counters
      BY DEF Counters
    <3>3. Records(b)
      BY <2>3, <3>1, <3>2 DEF Records
    <3> QED BY <3>3 DEF CoreStep
  <2>5. CASE ~(store[b].servedType = "blob" /\ store[b].servedSize > Limit(b))
    BY <1>3, <2>2, <2>3, <2>5 DEF ReaderRead, CoreStep, coreVars, indexVars
  <2> QED BY <2>4, <2>5
<1>4. ASSUME NEW r \in Readers, ReaderSend(r) PROVE CoreStep
  <2>1. Sends(reading[r])
    BY <1>4, ToMatchAnswer DEF ReaderSend, Routed, Control, Sends
  <2> QED BY <2>1 DEF CoreStep, Sends
<1>5. CASE FeedReturn
  <2>1. (errs > 0 \/ listErr) \in BOOLEAN
    OBVIOUS
  <2> QED BY <1>5, <2>1 DEF FeedReturn, CoreStep, Closes
<1>6. CASE ScanReturn
  BY <1>6 DEF CoreStep
<1>7. ASSUME NEW w \in Workers, WorkerStep(w) PROVE CoreStep
  BY <1>7 DEF CoreStep
<1> QED BY <1>1, <1>2, <1>3, <1>4, <1>5, <1>6, <1>7, StepKinds

-----------------------------------------------------------------------------
(* The feeder's own state stays well-typed.                                *)
LEMMA FeedType ==
  ASSUME TypeOK, CoreInv, Routed, [Next]_vars
  PROVE  /\ unlisted' \subseteq Blobs
         /\ main' \in {"list", "offer", "close", "wait", "returned"}
         /\ offered' \in Blobs \cup {NoBlob}
         /\ listErr' \in BOOLEAN
         /\ blobs' \in Seq(Blobs)
         /\ blobsClosed' \in BOOLEAN
         /\ reader' \in [Readers -> {"start", "idle", "read", "send", "report", "done"}]
         /\ reading' \in [Readers -> Blobs \cup {NoBlob}]
         /\ errs' \in Nat
         /\ cancelled' \in BOOLEAN
<1> DEFINE Goal ==
      /\ unlisted' \subseteq Blobs
      /\ main' \in {"list", "offer", "close", "wait", "returned"}
      /\ offered' \in Blobs \cup {NoBlob}
      /\ listErr' \in BOOLEAN
      /\ blobs' \in Seq(Blobs)
      /\ blobsClosed' \in BOOLEAN
      /\ reader' \in [Readers -> {"start", "idle", "read", "send", "report", "done"}]
      /\ reading' \in [Readers -> Blobs \cup {NoBlob}]
      /\ errs' \in Nat
      /\ cancelled' \in BOOLEAN
<1> USE DEF TypeOK, readerVars, listVars
<1>1. ASSUME NEW b \in Blobs, List(b) PROVE Goal
  BY <1>1, ListCore DEF List
<1>2. CASE Offer
  <2>1. offered \in Blobs
    BY <1>2 DEF Offer, Routed
  <2> QED BY <1>2, <2>1 DEF Offer
<1>3. CASE OfferCancelled \/ ListEnd \/ ListFails \/ CloseBlobs \/ FeedReturn
  BY <1>3 DEF OfferCancelled, ListEnd, ListFails, CloseBlobs, FeedReturn
<1>4. ASSUME NEW r \in Readers, ReaderTake(r) PROVE Goal
  BY <1>4, HeadTailType DEF ReaderTake
<1>5. ASSUME NEW r \in Readers,
             ReaderStart(r) \/ ReaderFails(r) \/ ReaderReports(r) \/ ReaderExit(r)
      PROVE  Goal
  <2>1. CASE ReaderStart(r)
    BY <2>1 DEF ReaderStart
  <2>2. CASE ReaderFails(r)
    BY <2>2 DEF ReaderFails
  <2>3. CASE ReaderReports(r)
    BY <2>3 DEF ReaderReports
  <2>4. CASE ReaderExit(r)
    BY <2>4 DEF ReaderExit
  <2> QED BY <1>5, <2>1, <2>2, <2>3, <2>4
<1>6. ASSUME NEW r \in Readers, ReaderRead(r) \/ ReaderSend(r) PROVE Goal
  BY <1>6 DEF ReaderRead, ReaderSend
<1>7. CASE UNCHANGED feedVars
  BY <1>7 DEF feedVars
<1>8. CASE Done \/ UNCHANGED vars
  BY <1>8 DEF Done, vars
<1> QED
  BY <1>1, <1>2, <1>3, <1>4, <1>5, <1>6, <1>7, <1>8
     DEF Next, MainStep, ReaderStep, Matchers

-----------------------------------------------------------------------------
(* What was known of a blob where it is stays known.                       *)
LEMMA RoutedStep ==
  ASSUME TypeOK, CoreInv, Routed, [Next]_vars
  PROVE  Routed'
<1> USE DEF TypeOK, readerVars, listVars
<1>0. \A b : (ToRead(b)' <=> ToRead(b)) /\ (ToMatch(b)' <=> ToMatch(b))
  BY StoreFixed, ReferenceFixed
<1> DEFINE Hand(m, o) == (m = "offer" <=> o # NoBlob) /\ (o # NoBlob => ToRead(o))
           Chan(s) == \A b \in Blobs : In(b, s) => ToRead(b)
           Held(pc, x) == /\ pc \in {"read", "send"} <=> x # NoBlob
                          /\ x # NoBlob => ToRead(x)
                          /\ pc = "send" => ToMatch(x)
<1>a. Hand(main, offered) /\ Chan(blobs) /\ \A r \in Readers : Held(reader[r], reading[r])
  BY DEF Routed
<1>b. SUFFICES /\ Hand(main', offered') /\ Chan(blobs')
               /\ \A r \in Readers : Held(reader'[r], reading'[r])
  BY <1>0 DEF Routed
<1>1. ASSUME NEW b \in Blobs, List(b)
      PROVE  Hand(main', offered') /\ UNCHANGED <<blobs, reader, reading>>
  BY <1>1, <1>a, ListCore, ScanAssumption DEF List
<1>2. CASE Offer
  <2>1. offered \in Blobs /\ ToRead(offered)
    BY <1>2 DEF Offer, Routed
  <2>2. \A b : In(b, blobs') <=> In(b, blobs) \/ b = offered
    BY <1>2, <2>1, InAppend DEF Offer
  <2> QED BY <1>2, <1>a, <2>1, <2>2 DEF Offer
<1>3. CASE OfferCancelled \/ ListEnd \/ ListFails \/ CloseBlobs \/ FeedReturn
  BY <1>3, <1>a DEF OfferCancelled, ListEnd, ListFails, CloseBlobs, FeedReturn
<1>4. ASSUME NEW r \in Readers, ReaderTake(r)
      PROVE  /\ Chan(blobs') /\ \A q \in Readers : Held(reader'[q], reading'[q])
             /\ UNCHANGED <<main, offered>>
  <2>1. Head(blobs) \in Blobs /\ ToRead(Head(blobs))
    BY <1>4, <1>a, HeadTailType DEF ReaderTake
  <2>2. \A b : In(b, Tail(blobs)) => In(b, blobs)
    BY <1>4, InTail DEF ReaderTake
  <2> QED BY <1>4, <1>a, <2>1, <2>2, ScanAssumption DEF ReaderTake
<1>5. ASSUME NEW r \in Readers,
             ReaderStart(r) \/ ReaderFails(r) \/ ReaderReports(r) \/ ReaderExit(r) \/ ReaderSend(r)
      PROVE  /\ \A q \in Readers : Held(reader'[q], reading'[q])
             /\ UNCHANGED <<main, offered, blobs>>
  BY <1>5, <1>a DEF ReaderStart, ReaderFails, ReaderReports, ReaderExit, ReaderSend
<1>6. ASSUME NEW r \in Readers, ReaderRead(r)
      PROVE  /\ \A q \in Readers : Held(reader'[q], reading'[q])
             /\ UNCHANGED <<main, offered, blobs>>
  <2>1. reader[r] = "read" /\ reading[r] \in Blobs
    BY <1>6, <1>a DEF ReaderRead
  <2>2. PICK b \in Blobs : b = reading[r]
    BY <2>1
  <2>3. \/ /\ reader' = [reader EXCEPT ![r] = "idle"]
           /\ reading' = [reading EXCEPT ![r] = NoBlob]
        \/ /\ reader' = [reader EXCEPT ![r] = "send"]
           /\ reading' = reading
           /\ ToMatch(b)
    BY <1>6, <2>2, ReadCore
  <2> QED BY <1>6, <1>a, <2>1, <2>2, <2>3 DEF ReaderRead
<1>7. CASE UNCHANGED feedVars
  BY <1>7, <1>a DEF feedVars
<1>8. CASE Done \/ UNCHANGED vars
  BY <1>8, <1>a DEF Done, vars
<1> QED
  BY <1>a, <1>1, <1>2, <1>3, <1>4, <1>5, <1>6, <1>7, <1>8
     DEF Next, MainStep, ReaderStep, Matchers

-----------------------------------------------------------------------------
(* Channels are closed, and goroutines end, only when nothing more comes.  *)
LEMMA ControlStep ==
  ASSUME TypeOK, CoreInv, Routed, Control, [Next]_vars
  PROVE  Control'
<1> USE DEF TypeOK, readerVars, listVars, returnVars
<1>1. ASSUME NEW b \in Blobs, List(b) PROVE Control'
  <2>1. main = "list" /\ main' \in {"list", "offer"}
    BY <1>1, ListCore DEF List
  <2> QED BY <1>1, <2>1 DEF List, Control
<1>2. CASE Offer
  <2>1. ~blobsClosed /\ main = "offer" /\ main' = "list"
    BY <1>2 DEF Offer, Control
  <2>2. \A r \in Readers : reader'[r] = "done" => errs' > 0
    BY <1>2, <2>1 DEF Offer, Control
  <2> QED BY <1>2, <2>1, <2>2 DEF Offer, Control, coreVars
<1>3. CASE OfferCancelled \/ ListEnd \/ ListFails
  BY <1>3 DEF OfferCancelled, ListEnd, ListFails, Control, coreVars
<1>4. CASE CloseBlobs
  <2>1. \A r \in Readers : reader'[r] = "done" => errs' > 0 \/ (blobs' = <<>> /\ blobsClosed')
    BY <1>4 DEF CloseBlobs, Control
  <2>2. blobsClosed' /\ main = "close" /\ main' = "wait"
    BY <1>4 DEF CloseBlobs
  <2> QED BY <1>4, <2>1, <2>2 DEF CloseBlobs, Control, coreVars
<1>5. CASE FeedReturn
  <2>1. /\ main = "wait" /\ main' = "returned" /\ jobsClosed'
        /\ \A r \in Readers : reader'[r] = "done"
        /\ feedErr' = (errs > 0 \/ listErr)
    BY <1>5 DEF FeedReturn, CloseJobs
  <2>2. UNCHANGED <<unlisted, listErr, blobs, blobsClosed, reader, errs>>
    BY <1>5 DEF FeedReturn
  <2> QED BY <2>1, <2>2 DEF Control
<1>6. ASSUME NEW r \in Readers, ReaderReports(r) PROVE Control'
  <2>1. errs' > 0 /\ reader[r] # "done"
    BY <1>6 DEF ReaderReports
  <2>2. main # "returned"
    BY <2>1 DEF Control
  <2> QED BY <1>6, <2>1, <2>2 DEF ReaderReports, Control, coreVars
<1>7. ASSUME NEW r \in Readers, ReaderExit(r) PROVE Control'
  <2>1. main # "returned"
    BY <1>7 DEF ReaderExit, Control
  <2> QED BY <1>7, <2>1 DEF ReaderExit, Control, coreVars
<1>8. ASSUME NEW r \in Readers, ReaderStart(r) \/ ReaderFails(r) \/ ReaderTake(r)
      PROVE  Control'
  <2>1. /\ reader[r] # "done" /\ reader'[r] # "done"
        /\ \A q \in Readers \ {r} : reader'[q] = reader[q]
        /\ UNCHANGED <<unlisted, main, listErr, blobsClosed, errs, jobsClosed, feedErr>>
        /\ blobs' \in {blobs, Tail(blobs)} /\ (blobs' = blobs \/ blobs # <<>>)
    BY <1>8 DEF ReaderStart, ReaderFails, ReaderTake, coreVars
  <2>2. main # "returned"
    BY <2>1 DEF Control
  <2> QED BY <2>1, <2>2 DEF Control
<1>9. ASSUME NEW r \in Readers, ReaderRead(r) \/ ReaderSend(r) PROVE Control'
  <2>1. /\ reader[r] # "done" /\ reader'[r] # "done"
        /\ \A q \in Readers \ {r} : reader'[q] = reader[q]
        /\ UNCHANGED <<unlisted, main, listErr, blobs, blobsClosed, errs, jobsClosed, feedErr>>
    BY <1>9 DEF ReaderRead, ReaderSend
  <2>2. main # "returned"
    BY <2>1 DEF Control
  <2> QED BY <2>1, <2>2 DEF Control
<1>10. CASE Matchers \/ (ScanReturn /\ UNCHANGED feedVars)
  <2>1. UNCHANGED <<unlisted, main, listErr, blobs, blobsClosed, reader, errs, jobsClosed, feedErr>>
    BY <1>10 DEF Matchers, feedVars, ScanReturn, WorkerStep, WorkerTake, WorkerMatch, WorkerExit
  <2> QED BY <2>1 DEF Control
<1>11. CASE Done \/ UNCHANGED vars
  <2>1. UNCHANGED <<unlisted, main, listErr, blobs, blobsClosed, reader, errs, jobsClosed, feedErr>>
    BY <1>11 DEF Done, vars, coreVars
  <2> QED BY <2>1 DEF Control
<1> QED
  BY <1>1, <1>2, <1>3, <1>4, <1>5, <1>6, <1>7, <1>8, <1>9, <1>10, <1>11
     DEF Next, MainStep, ReaderStep

-----------------------------------------------------------------------------
(* No blob goes missing.                                                   *)

(* An error, once there, stays: it is in a reader that is about to report  *)
(* it, in the channel, or with the lister.                                 *)
LEMMA ErrorStays ==
  ASSUME TypeOK, [Next]_vars, NoError'
  PROVE  NoError
<1> USE DEF TypeOK, NoError, readerVars, listVars
<1>1. ASSUME NEW b \in Blobs, List(b) PROVE NoError
  BY <1>1 DEF List
<1>2. CASE Offer \/ OfferCancelled \/ ListEnd \/ ListFails \/ CloseBlobs \/ FeedReturn
  BY <1>2 DEF Offer, OfferCancelled, ListEnd, ListFails, CloseBlobs, FeedReturn
<1>3. ASSUME NEW r \in Readers, ReaderReports(r) PROVE NoError
  BY <1>3 DEF ReaderReports
<1>4. ASSUME NEW r \in Readers, ReaderStart(r) \/ ReaderFails(r) \/ ReaderTake(r) \/ ReaderExit(r)
      PROVE  NoError
  <2>1. /\ reader[r] # "report" /\ UNCHANGED <<errs, listErr>>
        /\ \A q \in Readers \ {r} : reader'[q] = reader[q]
    BY <1>4 DEF ReaderStart, ReaderFails, ReaderTake, ReaderExit
  <2> QED BY <2>1
<1>5. ASSUME NEW r \in Readers, ReaderRead(r) \/ ReaderSend(r) PROVE NoError
  <2>1. /\ reader[r] # "report" /\ UNCHANGED <<errs, listErr>>
        /\ \A q \in Readers \ {r} : reader'[q] = reader[q]
    BY <1>5 DEF ReaderRead, ReaderSend
  <2> QED BY <2>1
<1>6. CASE UNCHANGED feedVars
  BY <1>6 DEF feedVars
<1>7. CASE Done \/ UNCHANGED vars
  BY <1>7 DEF Done, vars
<1> QED
  BY <1>1, <1>2, <1>3, <1>4, <1>5, <1>6, <1>7 DEF Next, MainStep, ReaderStep, Matchers

(* As long as there is no error, a blob on its way stays on its way or     *)
(* gets its answer, and an answer stays.                                   *)
LEMMA AccountedStep ==
  ASSUME Inv, [Next]_vars
  PROVE  Accounted'
<1> USE DEF Inv, TypeOK, readerVars, listVars
<1>0. store' = store /\ \A b : Reference(b)' = Reference(b)
  BY StoreFixed, ReferenceFixed
<1>a. SUFFICES ASSUME NoError', NEW b \in Blobs
               PROVE  Pending(b)' \/ Lookup(b)' = Reference(b)
  BY <1>0 DEF Accounted
<1>b. NoError /\ (Pending(b) \/ Lookup(b) = Reference(b))
  BY <1>a, ErrorStays DEF Accounted
<1> DEFINE Goal == Pending(b)' \/ Lookup(b)' = Reference(b)
<1>1. ASSUME NEW x \in Blobs, List(x) PROVE Goal
  <2>1. /\ \A y \in Blobs \ {x} : Lookup(y)' = Lookup(y)
        /\ InMatching(b)' <=> InMatching(b)
        /\ UNCHANGED <<blobs, reading>> /\ unlisted' = unlisted \ {x}
        /\ Lookup(x)' = Reference(x) \/ offered' = x
        /\ main = "list"
    BY <1>1, ListCore DEF List
  <2>2. offered = NoBlob
    BY <2>1 DEF Routed
  <2>3. CASE b = x
    BY <2>1, <2>3 DEF Pending
  <2>4. CASE b # x
    BY <1>b, <2>1, <2>2, <2>4, ScanAssumption DEF Pending
  <2> QED BY <2>3, <2>4
<1>2. CASE Offer
  <2>1. UNCHANGED coreVars
    BY <1>2 DEF Offer
  <2>2. Lookup(b)' = Lookup(b) /\ (InMatching(b)' <=> InMatching(b))
    BY <2>1, CoreUnchanged
  <2>3. offered \in Blobs
    BY <1>2 DEF Offer, Routed
  <2>4. In(b, blobs') <=> In(b, blobs) \/ b = offered
    BY <1>2, <2>3, InAppend DEF Offer
  <2> QED BY <1>2, <1>b, <2>2, <2>4 DEF Offer, Pending
<1>3. CASE OfferCancelled \/ ListFails
  BY <1>3, <1>a DEF OfferCancelled, ListFails, NoError
<1>4. CASE ListEnd \/ CloseBlobs
  <2>1. UNCHANGED coreVars
    BY <1>4 DEF ListEnd, CloseBlobs
  <2>2. Lookup(b)' = Lookup(b) /\ (InMatching(b)' <=> InMatching(b))
    BY <2>1, CoreUnchanged
  <2> QED BY <1>4, <1>b, <2>2 DEF ListEnd, CloseBlobs, Pending
<1>5. CASE FeedReturn \/ (ScanReturn /\ UNCHANGED feedVars)
  <2>1. Lookup(b)' = Lookup(b) /\ (InMatching(b)' <=> InMatching(b))
    BY <1>5, CoreCloses DEF FeedReturn
  <2>2. UNCHANGED <<unlisted, offered, blobs, reading>>
    BY <1>5 DEF FeedReturn, feedVars
  <2> QED BY <1>b, <2>1, <2>2 DEF Pending
<1>6. ASSUME NEW r \in Readers, ReaderFails(r) PROVE Goal
  BY <1>6, <1>a DEF ReaderFails, NoError
<1>7. ASSUME NEW r \in Readers, ReaderReports(r) PROVE Goal
  <2>1. errs' > 0
    BY <1>7 DEF ReaderReports
  <2> QED BY <2>1, <1>a DEF NoError
<1>8. ASSUME NEW r \in Readers, ReaderStart(r) \/ ReaderExit(r) PROVE Goal
  <2>1. UNCHANGED coreVars
    BY <1>8 DEF ReaderStart, ReaderExit
  <2>2. Lookup(b)' = Lookup(b) /\ (InMatching(b)' <=> InMatching(b))
    BY <2>1, CoreUnchanged
  <2> QED BY <1>8, <1>b, <2>2 DEF ReaderStart, ReaderExit, Pending
<1>9. ASSUME NEW r \in Readers, ReaderTake(r) PROVE Goal
  <2>1. UNCHANGED coreVars
    BY <1>9 DEF ReaderTake
  <2>2. Lookup(b)' = Lookup(b) /\ (InMatching(b)' <=> InMatching(b))
    BY <2>1, CoreUnchanged
  <2>3. /\ blobs # <<>> /\ blobs' = Tail(blobs)
        /\ reading' = [reading EXCEPT ![r] = Head(blobs)]
        /\ UNCHANGED <<unlisted, offered>> /\ reader[r] = "idle"
    BY <1>9 DEF ReaderTake
  <2>4. In(b, blobs) => In(b, blobs') \/ reading'[r] = b
    BY <2>3, InTail
  <2>5. reading[r] = NoBlob
    BY <2>3 DEF Routed
  <2>6. \A q \in Readers : reading[q] = b => reading'[q] = b
    BY <2>3, <2>5, ScanAssumption
  <2> QED BY <1>b, <2>2, <2>3, <2>4, <2>6 DEF Pending
<1>10. ASSUME NEW r \in Readers, ReaderRead(r) PROVE Goal
  <2>1. reading[r] \in Blobs
    BY <1>10 DEF Routed, ReaderRead
  <2>2. PICK x \in Blobs : x = reading[r]
    BY <2>1
  <2>3. UNCHANGED <<unlisted, offered, blobs>>
    BY <1>10 DEF ReaderRead
  <2>4. /\ \/ /\ reading' = [reading EXCEPT ![r] = NoBlob]
              /\ Lookup(x)' = Reference(x)
           \/ reading' = reading /\ Lookup(x)' = Lookup(x)
        /\ \A y \in Blobs \ {x} : Lookup(y)' = Lookup(y)
        /\ InMatching(b)' <=> InMatching(b)
    BY <1>10, <2>2, ReadCore
  <2>5. \A q \in Readers : reading[q] = b => reading'[q] = b \/ (b = x /\ Lookup(x)' = Reference(x))
    BY <2>2, <2>4
  <2> QED BY <1>b, <2>3, <2>4, <2>5 DEF Pending
<1>11. ASSUME NEW r \in Readers, ReaderSend(r) PROVE Goal
  <2>1. /\ Lookup(b)' = Lookup(b)
        /\ InMatching(b)' <=> InMatching(b) \/ b = reading[r]
    BY <1>11, SendCore
  <2>2. /\ UNCHANGED <<unlisted, offered, blobs>>
        /\ reading' = [reading EXCEPT ![r] = NoBlob]
    BY <1>11 DEF ReaderSend
  <2> QED BY <1>b, <2>1, <2>2 DEF Pending
<1>12. ASSUME NEW w \in Workers, WorkerStep(w), UNCHANGED feedVars PROVE Goal
  <2>1. /\ InMatching(b) => InMatching(b)' \/ Lookup(b)' = Reference(b)
        /\ Lookup(b)' \in {Lookup(b), Reference(b)}
    BY <1>12, WorkerKeeps
  <2> QED BY <1>b, <1>12, <2>1 DEF Pending, feedVars
<1>13. CASE Done \/ UNCHANGED vars
  <2>1. Lookup(b)' = Lookup(b) /\ (InMatching(b)' <=> InMatching(b))
    BY <1>13, CoreUnchanged DEF Done, vars
  <2> QED BY <1>13, <1>b, <2>1 DEF Done, vars, Pending
<1> QED
  BY <1>1, <1>2, <1>3, <1>4, <1>5, <1>6, <1>7, <1>8, <1>9, <1>10, <1>11, <1>12, <1>13
     DEF Next, MainStep, ReaderStep, Matchers

-----------------------------------------------------------------------------
(* One place at a time.                                                    *)

(* The lister's and the readers' hands and the channel between them hold   *)
(* each blob once.                                                         *)
LEMMA FeedApartStep ==
  ASSUME TypeOK, CoreInv, Routed, Apart, [Next]_vars
  PROVE  /\ FeedApart(unlisted', offered', blobs', reading')
         /\ \A b \in Blobs : Fed(b)' => Fed(b)
<1> DEFINE Goal == /\ FeedApart(unlisted', offered', blobs', reading')
                   /\ \A b \in Blobs : Fed(b)' => Fed(b)
<1> USE DEF TypeOK
<1>a. FeedApart(unlisted, offered, blobs, reading)
  BY DEF Apart
<1>1. ASSUME NEW b \in Blobs, List(b) PROVE Goal
  <2>1. /\ b \in unlisted /\ unlisted' = unlisted \ {b} /\ UNCHANGED <<blobs, reading>>
        /\ offered' = offered \/ offered' = b
    BY <1>1 DEF List, readerVars
  <2> QED BY <1>a, <2>1 DEF FeedApart, Fed
<1>2. CASE Offer
  <2>1. /\ offered \in Blobs /\ blobs' = Append(blobs, offered) /\ offered' = NoBlob
        /\ UNCHANGED <<unlisted, reading>>
    BY <1>2 DEF Offer, Routed, readerVars
  <2>2. \A b : In(b, blobs') <=> In(b, blobs) \/ b = offered
    BY <2>1, InAppend
  <2>3. ~In(offered, blobs)
    BY <1>a, <2>1 DEF FeedApart
  <2>4. Once(blobs')
    BY <1>a, <2>1, <2>3, OnceAppend DEF FeedApart
  <2>5. \A r \in Readers : reading[r] # offered
    BY <1>a, <2>1, ScanAssumption DEF FeedApart
  <2>6. NoBlob \notin unlisted /\ ~In(NoBlob, blobs')
    BY <2>1, <2>2, ScanAssumption DEF In
  <2> QED BY <1>a, <2>1, <2>2, <2>4, <2>5, <2>6, ScanAssumption DEF FeedApart, Fed
<1>3. CASE OfferCancelled
  <2>1. offered' = NoBlob /\ UNCHANGED <<unlisted, blobs, reading>>
    BY <1>3 DEF OfferCancelled, readerVars
  <2>2. NoBlob \notin unlisted /\ ~In(NoBlob, blobs)
    BY ScanAssumption DEF In
  <2> QED BY <1>a, <2>1, <2>2, ScanAssumption DEF FeedApart, Fed
<1>4. ASSUME NEW r \in Readers, ReaderTake(r) PROVE Goal
  <2>1. /\ blobs # <<>> /\ blobs' = Tail(blobs) /\ Head(blobs) \in Blobs
        /\ reading' = [reading EXCEPT ![r] = Head(blobs)]
        /\ reader[r] = "idle" /\ UNCHANGED <<unlisted, offered>>
    BY <1>4, HeadTailType DEF ReaderTake, listVars
  <2>2. reading[r] = NoBlob
    BY <2>1 DEF Routed
  <2>3. \A b : In(b, blobs) <=> b = Head(blobs) \/ In(b, blobs')
    BY <2>1, InTail
  <2>4. Once(blobs') /\ ~In(Head(blobs), blobs')
    BY <1>a, <2>1, OnceTail DEF FeedApart
  <2>5. OneHand(reading')
    BY <1>a, <2>1, <2>3 DEF FeedApart, OneHand
  <2>6. FeedApart(unlisted', offered', blobs', reading')
    BY <1>a, <2>1, <2>3, <2>4, <2>5 DEF FeedApart
  <2>7. \A b \in Blobs : Fed(b)' => Fed(b)
    BY <2>1, <2>3 DEF Fed
  <2> QED BY <2>6, <2>7
<1>5. ASSUME NEW r \in Readers, ReaderFails(r) \/ ReaderRead(r) \/ ReaderSend(r) PROVE Goal
  <2>1. /\ UNCHANGED <<unlisted, offered, blobs>>
        /\ reading' = [reading EXCEPT ![r] = NoBlob] \/ reading' = reading
    BY <1>5 DEF ReaderFails, ReaderRead, ReaderSend, listVars
  <2>2. NoBlob \notin unlisted /\ ~In(NoBlob, blobs)
    BY ScanAssumption DEF In
  <2>3. OneHand(reading')
    BY <1>a, <2>1 DEF FeedApart, OneHand
  <2> QED BY <1>a, <2>1, <2>2, <2>3, ScanAssumption DEF FeedApart, Fed
<1>6. CASE UNCHANGED <<unlisted, offered, blobs, reading>>
  BY <1>6, <1>a DEF Fed
<1> QED
  BY <1>1, <1>2, <1>3, <1>4, <1>5, <1>6
     DEF Next, MainStep, ReaderStep, Matchers, ListEnd, ListFails, CloseBlobs, FeedReturn,
         ReaderStart, ReaderReports, ReaderExit, Done, feedVars, vars, listVars, readerVars

(* A blob has left the feeder before the matchers have it, and what comes  *)
(* to the matchers or gets its entry was with the feeder and is no more.   *)
LEMMA ApartStep ==
  ASSUME TypeOK, CoreInv, Routed, Control, Apart, [Next]_vars
  PROVE  Apart'
<1> DEFINE Moves == /\ CoreApart'
                    /\ \A b \in Blobs : Handed(b)' => Handed(b) \/ ~Fed(b)'
<1> USE DEF TypeOK
<1>a. /\ FeedApart(unlisted, offered, blobs, reading) /\ CoreApart
      /\ \A b \in Blobs : Fed(b) => ~Handed(b)
  BY DEF Apart
<1>b. SUFFICES Moves
  <2>1. \A b \in Blobs : Fed(b)' => ~Handed(b)'
    BY <1>a, <1>b, FeedApartStep
  <2> QED BY <1>b, <2>1, FeedApartStep DEF Apart
<1>c. FeedApart(unlisted', offered', blobs', reading')
  BY FeedApartStep
<1>1. CASE FeedOnly \/ FeedReturn \/ (ScanReturn /\ UNCHANGED feedVars)
  BY <1>1, <1>a, FeedOnlyCore, ApartUnchanged
     DEF FeedReturn, ScanReturn, coreVars, indexVars, workerVars
<1>2. ASSUME NEW b \in Blobs, List(b) PROVE Moves
  <2>1. b \in unlisted /\ UNCHANGED <<jobs, workerVars>>
    BY <1>2 DEF List
  <2>2. ~Handed(b)
    BY <1>a, <2>1 DEF Fed
  <2>3. CASE UNCHANGED index
    BY <1>a, <2>1, <2>3, ApartUnchanged
  <2>4. CASE ~UNCHANGED index
    <3>1. /\ Put(b, Skipped("size")) /\ UNCHANGED <<main, offered, blobs, reading>>
          /\ unlisted' = unlisted \ {b} /\ main = "list"
      BY <1>2, <2>4 DEF List, indexVars, readerVars
    <3>2. offered = NoBlob
      BY <3>1 DEF Routed
    <3>3. ~Fed(b)'
      BY <1>a, <2>1, <3>1, <3>2, ScanAssumption DEF Fed, FeedApart
    <3>4. CoreApart' /\ \A x : Handed(x)' => Handed(x) \/ x = b
      BY <1>a, <2>1, <2>2, <3>1, ApartRecords DEF Handed
    <3> QED BY <3>3, <3>4
  <2> QED BY <2>3, <2>4
<1>3. ASSUME NEW r \in Readers, ReaderRead(r) PROVE Moves
  <2>1. reading[r] \in Blobs /\ UNCHANGED <<jobs, workerVars>>
    BY <1>3 DEF ReaderRead, Routed
  <2>2. PICK b \in Blobs : b = reading[r]
    BY <2>1
  <2>3. ~Handed(b)
    BY <1>a, <2>2 DEF Fed
  <2>4. CASE UNCHANGED index
    BY <1>a, <2>1, <2>4, ApartUnchanged
  <2>5. CASE ~UNCHANGED index
    <3>1. /\ Put(b, Skipped("size")) /\ UNCHANGED <<unlisted, offered, blobs>>
          /\ reading' = [reading EXCEPT ![r] = NoBlob]
      BY <1>3, <2>2, <2>5 DEF ReaderRead, Skip, indexVars, listVars
    <3>2. ~Fed(b)'
      BY <1>a, <2>2, <3>1, ScanAssumption DEF Fed, FeedApart, OneHand
    <3>3. CoreApart' /\ \A x : Handed(x)' => Handed(x) \/ x = b
      BY <1>a, <2>1, <2>3, <3>1, ApartRecords DEF Handed
    <3> QED BY <3>2, <3>3
  <2> QED BY <2>4, <2>5
<1>4. ASSUME NEW r \in Readers, ReaderSend(r) PROVE Moves
  <2>1. /\ reading[r] \in Blobs /\ UNCHANGED <<workerVars, indexVars>>
        /\ reading' = [reading EXCEPT ![r] = NoBlob] /\ SendJob(reading[r])
        /\ UNCHANGED <<unlisted, offered, blobs>>
    BY <1>4 DEF ReaderSend, Routed, listVars
  <2>2. PICK b \in Blobs : b = reading[r]
    BY <2>1
  <2>3. ~Handed(b)
    BY <1>a, <2>2 DEF Fed
  <2>4. CoreApart' /\ \A x : Handed(x)' <=> Handed(x) \/ x = b
    BY <1>a, <2>1, <2>2, <2>3, ApartSends DEF indexVars
  <2>5. ~Fed(b)'
    BY <1>a, <2>1, <2>2, ScanAssumption DEF Fed, FeedApart, OneHand
  <2> QED BY <2>4, <2>5
<1>5. ASSUME NEW w \in Workers, WorkerStep(w), UNCHANGED feedVars PROVE Moves
  BY <1>a, <1>5, ApartWorker
<1> QED BY <1>1, <1>2, <1>3, <1>4, <1>5, StepKinds

-----------------------------------------------------------------------------
(* The counters.                                                           *)

(* A step of the feeder that leaves the shared part alone and puts no      *)
(* error on record leaves each blob on its way.                            *)
LEMMA FeedOnlyPending ==
  ASSUME TypeOK, Routed, FeedOnly, NoError'
  PROVE  unlisted' = unlisted /\ \A b \in Blobs : Fed(b) => Fed(b)'
<1> DEFINE Goal == unlisted' = unlisted /\ \A b \in Blobs : Fed(b) => Fed(b)'
<1> USE DEF TypeOK
<1>1. CASE Offer
  <2>1. /\ offered \in Blobs /\ blobs' = Append(blobs, offered)
        /\ UNCHANGED <<unlisted, reading>>
    BY <1>1 DEF Offer, Routed, readerVars
  <2>2. \A b : In(b, blobs') <=> In(b, blobs) \/ b = offered
    BY <2>1, InAppend
  <2> QED BY <2>1, <2>2 DEF Fed
<1>2. ASSUME NEW r \in Readers, ReaderTake(r) PROVE Goal
  <2>1. /\ blobs # <<>> /\ blobs' = Tail(blobs)
        /\ reading' = [reading EXCEPT ![r] = Head(blobs)]
        /\ reader[r] = "idle" /\ UNCHANGED <<unlisted, offered>>
    BY <1>2 DEF ReaderTake, listVars
  <2>2. reading[r] = NoBlob
    BY <2>1 DEF Routed
  <2>3. \A b : In(b, blobs) <=> b = Head(blobs) \/ In(b, blobs')
    BY <2>1, InTail
  <2> QED BY <2>1, <2>2, <2>3, ScanAssumption DEF Fed
<1>3. CASE UNCHANGED <<unlisted, offered, blobs, reading>>
  BY <1>3 DEF Fed
<1>4. ~OfferCancelled /\ ~ListFails
  BY DEF NoError, OfferCancelled, ListFails
<1>5. \A r \in Readers : ~ReaderFails(r)
  BY DEF NoError, ReaderFails
<1>6. \A r \in Readers : ~ReaderReports(r)
  BY DEF NoError, ReaderReports
<1> QED BY <1>1, <1>2, <1>3, <1>4, <1>5, <1>6 DEF FeedOnly, ListEnd, CloseBlobs, ReaderStart,
           ReaderExit, Done, vars, listVars, readerVars

(* Without an error on record the counters are those of the blobs listed   *)
(* and answered so far.                                                    *)
LEMMA TalliesStep ==
  ASSUME TypeOK, CoreInv, Routed, Control, Apart, Tallies, [Next]_vars
  PROVE  Tallies'
<1> USE DEF TypeOK
<1>1. PICK U, P, V, Q : /\ U = unlisted /\ P = {b \in Blobs : Pending(b)}
                        /\ V = unlisted' /\ Q = {b \in Blobs : Pending(b)'}
  OBVIOUS
<1>2. SUFFICES ASSUME NoError' PROVE Tallied(V, Q)'
  BY <1>1 DEF Tallies, Tallied
<1>3. store' = store
  BY StoreFixed
<1>4. NoError
  BY <1>2 DEF NoError, Next, MainStep, List, Offer, OfferCancelled, ListEnd, ListFails,
     CloseBlobs, FeedReturn, ScanReturn, ReaderStep, ReaderStart, ReaderFails, ReaderReports,
     ReaderTake, ReaderExit, ReaderRead, ReaderSend, Matchers, Done, feedVars, vars,
     listVars, readerVars
<1>5. Tallied(U, P)
  BY <1>1, <1>4 DEF Tallies
<1>6. \A b \in Blobs : /\ Pending(b) <=> Fed(b) \/ InMatching(b)
                       /\ Pending(b)' <=> Fed(b)' \/ InMatching(b)'
                       /\ Fed(b) => ~InMatching(b)
                       /\ Fed(b)' => Fed(b)
  BY FeedApartStep DEF Pending, Fed, Apart, Handed
<1>7. CASE FeedOnly \/ FeedReturn \/ (ScanReturn /\ UNCHANGED feedVars)
  <2>1. UNCHANGED <<jobs, workerVars, index, stats, skippedEntries>>
    BY <1>7, FeedOnlyCore DEF FeedReturn, ScanReturn, coreVars, indexVars
  <2>2. \A b : InMatching(b)' <=> InMatching(b)
    BY <2>1, ApartUnchanged DEF Apart
  <2>3. FeedOnly => unlisted' = unlisted /\ \A b \in Blobs : Fed(b) => Fed(b)'
    BY <1>2, FeedOnlyPending
  <2>4. ~FeedOnly => UNCHANGED <<unlisted, offered, blobs, reading>>
    BY <1>7 DEF FeedReturn, feedVars, listVars, readerVars
  <2>5. V = U /\ \A b \in Blobs : Fed(b)' <=> Fed(b)
    BY <1>1, <1>6, <2>3, <2>4 DEF Fed
  <2>6. Q = P
    BY <1>1, <1>6, <2>2, <2>5
  <2> QED BY <1>3, <1>5, <2>1, <2>5, <2>6, TallyQuiet
<1>8. ASSUME NEW b \in Blobs, List(b) PROVE Tallied(V, Q)'
  <2>1. /\ b \in U /\ V = U \ {b} /\ UNCHANGED <<jobs, workerVars, blobs, reading>>
        /\ main = "list"
    BY <1>1, <1>8 DEF List, readerVars
  <2>2. \A x : InMatching(x)' <=> InMatching(x)
    BY <2>1 DEF InMatching, workerVars
  <2>3. b \in P
    BY <1>1, <2>1 DEF Pending
  <2>4. \A x \in Blobs \ {b} : Fed(x)' <=> Fed(x)
    <3>1. offered = NoBlob /\ offered' \in {NoBlob, b}
      BY <1>8, <2>1 DEF List, Routed
    <3> QED BY <1>1, <2>1, <3>1, ScanAssumption DEF Fed
  <2>5. ASSUME UNCHANGED offered PROVE Q = P \ {b}
    <3>1. offered = NoBlob
      BY <2>1 DEF Routed
    <3>2. ~Fed(b)'
      BY <1>1, <2>1, <2>5, <3>1, ScanAssumption DEF Fed, FeedApart, Apart
    <3>3. ~InMatching(b)'
      BY <1>1, <1>6, <2>1, <2>2 DEF Fed
    <3> QED BY <1>1, <1>6, <2>2, <2>4, <3>2, <3>3
  <2>6. CASE store[b].type # "blob"
    <3>1. UNCHANGED <<offered, stats, skippedEntries>>
      BY <1>8, <2>6 DEF List, indexVars
    <3>2. Reference(b) = Empty /\ ~ToMatch(b)
      BY <2>6 DEF Reference, ToMatch, ToRead
    <3>3. Q = P \ {b}
      BY <2>5, <3>1
    <3> QED BY <1>3, <1>5, <2>1, <2>6, <3>1, <3>2, <3>3, TallyQuiet
  <2>7. CASE store[b].type = "blob" /\ store[b].size > Limit(b)
    <3>1. /\ Put(b, Reference(b)) /\ Count({"total", "skipSize"}) /\ UNCHANGED offered
          /\ Reference(b) = Skipped("size") /\ ~ToMatch(b)
      BY <1>8, <2>7, Routes DEF List, ToMatch, ToRead
    <3>2. \A c \in Counters \ {"total"} : b \in Owed(c) <=> c = "skipSize"
      BY <3>1, OwedBy
    <3>3. \A c \in Counters \ {"total"} : c \in {"total", "skipSize"} <=> b \in Owed(c)
      BY <3>2
    <3>4. "total" \in {"total", "skipSize"} <=> b \in U \ V /\ store[b].type = "blob"
      BY <2>1, <2>7
    <3>5. CoreTypeOK /\ (V = U \/ V = U \ {b})
      BY <2>1
    <3>6. Tallied(V, P \ {b})'
      BY ONLY <1>3, <1>5, <2>3, <1>8, <3>1, <3>3, <3>4, <3>5, TallySettled
    <3>7. Q = P \ {b}
      BY <2>5, <3>1
    <3> QED BY <3>6, <3>7
  <2>8. CASE ToRead(b)
    <3>1. /\ Count({"total"}) /\ offered' = b /\ UNCHANGED skippedEntries
          /\ store[b].type = "blob"
      BY <1>8, <2>8 DEF List, ToRead
    <3>2. Q = P
      BY <1>1, <1>6, <2>1, <2>2, <2>4, <3>1 DEF Fed
    <3>3. Tallied(U \ {b}, P)'
      BY <1>3, <1>5, <2>1, <3>1, TallyListed
    <3> QED BY <2>1, <3>2, <3>3
  <2> QED BY <2>6, <2>7, <2>8 DEF ToRead
<1>9. ASSUME NEW r \in Readers, ReaderRead(r) PROVE Tallied(V, Q)'
  <2>1. /\ reading[r] \in Blobs
        /\ UNCHANGED <<jobs, workerVars, unlisted, offered, blobs>>
    BY <1>9 DEF ReaderRead, Routed, listVars
  <2>2. PICK b \in Blobs : b = reading[r]
    BY <2>1
  <2>3. V = U /\ \A x : InMatching(x)' <=> InMatching(x)
    BY <1>1, <2>1 DEF InMatching, workerVars
  <2>4. b \in P /\ ToRead(b)
    BY <1>1, <1>9, <2>2 DEF Pending, ReaderRead, Routed
  <2>5. ASSUME reading' = [reading EXCEPT ![r] = NoBlob]
        PROVE  Q = P \ {b}
    <3>1. ~Fed(b)'
      BY <2>1, <2>2, <2>5, ScanAssumption DEF Fed, FeedApart, Apart, OneHand
    <3>2. ~InMatching(b)'
      BY <1>6, <2>2, <2>3 DEF Fed
    <3>3. \A x \in Blobs \ {b} : Fed(x)' <=> Fed(x)
      BY <2>1, <2>2, <2>5, ScanAssumption DEF Fed
    <3> QED BY <1>1, <1>6, <2>3, <3>1, <3>2, <3>3
  <2>6. CASE store[b].servedType # "blob"
    <3>1. UNCHANGED indexVars /\ reading' = [reading EXCEPT ![r] = NoBlob]
      BY <1>9, <2>2, <2>6 DEF ReaderRead
    <3>2. Reference(b) = Empty /\ ~ToMatch(b)
      BY <2>4, <2>6, Routes DEF ToMatch
    <3>3. Q = P \ {b}
      BY <2>5, <3>1
    <3> QED BY <1>3, <1>5, <2>3, <3>1, <3>2, <3>3, TallyQuiet DEF indexVars
  <2>7. CASE store[b].servedType = "blob" /\ store[b].servedSize > Limit(b)
    <3>1. /\ Put(b, Reference(b)) /\ Count({"skipSize"})
          /\ reading' = [reading EXCEPT ![r] = NoBlob]
          /\ Reference(b) = Skipped("size") /\ ~ToMatch(b)
      BY <1>9, <2>2, <2>4, <2>7, Routes DEF ReaderRead, Skip, ToMatch
    <3>2. \A c \in Counters \ {"total"} : c \in {"skipSize"} <=> b \in Owed(c)
      BY <3>1, OwedBy
    <3>3. "total" \in {"skipSize"} <=> b \in U \ V /\ store[b].type = "blob"
      BY <2>3
    <3>4. b \in Blobs /\ CoreTypeOK /\ (V = U \/ V = U \ {b})
      BY <2>3
    <3>5. Tallied(V, P \ {b})'
      BY ONLY <1>3, <1>5, <2>4, <3>1, <3>2, <3>3, <3>4, TallySettled
    <3>6. Q = P \ {b}
      BY <2>5, <3>1
    <3> QED BY <3>5, <3>6
  <2>8. CASE store[b].servedType = "blob" /\ ~(store[b].servedSize > Limit(b))
    <3>1. UNCHANGED <<reading, indexVars>>
      BY <1>9, <2>2, <2>8 DEF ReaderRead
    <3>2. Q = P
      BY <1>1, <1>6, <2>1, <2>3, <3>1 DEF Fed
    <3> QED BY <1>3, <1>5, <2>3, <3>1, <3>2, TallyQuiet DEF indexVars
  <2> QED BY <2>6, <2>7, <2>8
<1>10. ASSUME NEW r \in Readers, ReaderSend(r) PROVE Tallied(V, Q)'
  <2>1. /\ reading[r] \in Blobs /\ UNCHANGED <<unlisted, offered, blobs, indexVars>>
        /\ reading' = [reading EXCEPT ![r] = NoBlob]
    BY <1>10 DEF ReaderSend, Routed, listVars
  <2>2. \A x \in Blobs : InMatching(x)' <=> InMatching(x) \/ x = reading[r]
    BY <1>10, SendCore
  <2>3. \A x \in Blobs : x # reading[r] => (Fed(x)' <=> Fed(x))
    BY <2>1, ScanAssumption DEF Fed
  <2>4. Fed(reading[r])
    BY DEF Fed
  <2>5. V = U /\ Q = P
    BY <1>1, <1>6, <2>1, <2>2, <2>3, <2>4
  <2> QED BY <1>3, <1>5, <2>1, <2>5, TallyQuiet DEF indexVars
<1>11. ASSUME NEW w \in Workers, WorkerStep(w), UNCHANGED feedVars PROVE Tallied(V, Q)'
  <2>1. V = U /\ \A b \in Blobs : Fed(b)' <=> Fed(b)
    BY <1>1, <1>11 DEF feedVars, listVars, readerVars, Fed
  <2>2. \A b \in Blobs : InMatching(b)' => InMatching(b)
    BY <1>11, ApartWorker DEF Apart
  <2>3. Q = {b \in P : InMatching(b) => InMatching(b)'}
    BY <1>1, <1>6, <2>1, <2>2
  <2>4. (\A b \in Blobs : InMatching(b) => b \in P) /\ P \subseteq Blobs
    BY <1>1, <1>6
  <2>5. CoreApart
    BY DEF Apart
  <2>6. Tallied(U, Q)'
    BY <1>5, <1>11, <2>3, <2>4, <2>5, TallyWorker
  <2> QED BY <2>1, <2>6
<1> QED BY <1>7, <1>8, <1>9, <1>10, <1>11, StepKinds

-----------------------------------------------------------------------------
(* The invariant and what follows from it.                                 *)

(* The invariant holds at the start: every blob is still to be listed.     *)
LEMMA InitInv ==
  ASSUME Init
  PROVE  Inv
<1> USE DEF Init, CoreInit
<1>1. TypeOK
  <2>1. jobs \in Seq(Blobs) /\ blobs \in Seq(Blobs)
    OBVIOUS
  <2>2. DOMAIN index = {} /\ index \in [DOMAIN index -> Results]
    OBVIOUS
  <2>3. stats \in [Counters -> Nat]
    OBVIOUS
  <2> QED BY <2>1, <2>2, <2>3 DEF TypeOK, CoreTypeOK
<1>2. \A b \in Blobs : ~InMatching(b)
  BY InEmpty, ScanAssumption DEF InMatching
<1>3. CoreInv
  BY <1>2, ScanAssumption DEF CoreInv, IndexOK
<1>4. Routed
  BY InEmpty DEF Routed
<1>5. Control
  BY DEF Control
<1>6. Accounted
  BY DEF Accounted, Pending
<1>7. Apart
  <2>1. Once(<<>>)
    BY DEF Once
  <2> QED BY <2>1, ApartStart, InEmpty, ScanAssumption DEF Apart, FeedApart, OneHand, Handed
<1>8. Tallies
  <2>1. \A b \in Blobs : b \in unlisted /\ b \in {x \in Blobs : Pending(x)}
    BY DEF Pending
  <2> QED BY <2>1, TallyStart DEF Tallies
<1> QED BY <1>1, <1>3, <1>4, <1>5, <1>6, <1>7, <1>8 DEF Inv

(* Every step keeps it.                                                    *)
LEMMA StepInv ==
  ASSUME Inv, [Next]_vars
  PROVE  Inv'
<1> USE DEF Inv
<1>1. CoreTypeOK' /\ CoreInv'
  BY StepOfCore, CoreKeeps DEF TypeOK
<1>2. TypeOK'
  BY <1>1, FeedType DEF TypeOK
<1> QED BY <1>1, <1>2, RoutedStep, ControlStep, AccountedStep, ApartStep, TalliesStep

(* The invariant holds in every state of a scan.                           *)
THEOREM Invariance == Spec => []Inv
<1>1. Init => Inv
  BY InitInv
<1>2. Inv /\ [Next]_vars => Inv'
  BY StepInv
<1> QED BY <1>1, <1>2, PTL DEF Spec, Safety

(* Every variable keeps its type: in particular nothing but a blob that    *)
(* was listed is ever sent, read or matched.                               *)
THEOREM TypeCorrect == Spec => []TypeOK
<1>1. Inv => TypeOK
  BY DEF Inv
<1> QED BY <1>1, Invariance, PTL

(* The jobs channel is closed behind the last reader: no reader sends on a *)
(* closed channel, which would panic.                                      *)
THEOREM NoSendAfterClose == Spec => []ClosedAfterSenders
<1>1. Inv => ClosedAfterSenders
  BY DEF Inv, Control, ClosedAfterSenders
<1> QED BY <1>1, Invariance, PTL

(* While no error is on record a blob is on its way or has its answer.     *)
THEOREM NoBlobLost == Spec => []NothingLost
<1>1. ASSUME NEW b \in Blobs, Pending(b)
      PROVE  Places(b) # {}
  <2>1. CASE b \in unlisted
    <3>1. b \in {b} \cap unlisted
      BY <2>1
    <3>2. <<"unlisted", 0>> \in {<<"unlisted", 0>> : x \in {b} \cap unlisted}
      BY <3>1
    <3> QED BY <3>2 DEF Places
  <2>2. CASE offered = b
    <3>1. b \in {b} \cap {offered}
      BY <2>2
    <3>2. <<"offered", 0>> \in {<<"offered", 0>> : x \in {b} \cap {offered}}
      BY <3>1
    <3> QED BY <3>2 DEF Places
  <2>3. CASE In(b, blobs)
    <3>1. PICK i \in DOMAIN blobs : blobs[i] = b
      BY <2>3 DEF In
    <3>2. <<"blobs", i>> \in {<<"blobs", k>> : k \in {k \in DOMAIN blobs : blobs[k] = b}}
      BY <3>1
    <3> QED BY <3>2 DEF Places
  <2>4. CASE \E r \in Readers : reading[r] = b
    <3>1. PICK r \in Readers : reading[r] = b
      BY <2>4
    <3>2. <<"reading", r>> \in {<<"reading", q>> : q \in {q \in Readers : reading[q] = b}}
      BY <3>1
    <3> QED BY <3>2 DEF Places
  <2>5. CASE InMatching(b)
    BY <2>5, InMatchingPlace DEF Places
  <2> QED BY <1>1, <2>1, <2>2, <2>3, <2>4, <2>5 DEF Pending
<1>2. Inv => NothingLost
  BY <1>1 DEF Inv, Accounted, NoError, NothingLost
<1> QED BY <1>2, Invariance, PTL

(* No blob is in two hands or channels at a time, or in one after it was   *)
(* answered, whether or not the scan fails.                                *)
THEOREM OneHandAtATime == Spec => []OnePlace
<1>1. ASSUME Inv, NEW b \in Blobs
      PROVE  /\ \A p, q \in Places(b) : p = q
             /\ b \in DOMAIN index => Places(b) = {}
  <2> DEFINE Listed == {<<"unlisted", 0>> : x \in {b} \cap unlisted}
             Offered == {<<"offered", 0>> : x \in {b} \cap {offered}}
             Queued == {<<"blobs", i>> : i \in {i \in DOMAIN blobs : blobs[i] = b}}
             Taken == {<<"reading", r>> : r \in {r \in Readers : reading[r] = b}}
  <2>1. Places(b) = Listed \cup Offered \cup Queued \cup Taken \cup MatchingPlaces(b)
    BY DEF Places
  <2>2. /\ FeedApart(unlisted, offered, blobs, reading) /\ CoreApart /\ CoreTypeOK
        /\ Fed(b) => ~Handed(b)
        /\ reading \in [Readers -> Blobs \cup {NoBlob}]
    BY <1>1 DEF Inv, Apart, TypeOK
  <2>3. \A p, q \in Listed : p = q
    OBVIOUS
  <2>4. \A p, q \in Offered : p = q
    OBVIOUS
  <2>5. \A p, q \in Queued : p = q
    BY <2>2 DEF FeedApart, Once
  <2>6. \A p, q \in Taken : p = q
    BY <2>2, ScanAssumption DEF FeedApart, OneHand
  <2>7. Listed # {} => b \in unlisted
    OBVIOUS
  <2>8. Offered # {} => b = offered
    OBVIOUS
  <2>9. Queued # {} => In(b, blobs)
    BY DEF In
  <2>10. Taken # {} => \E r \in Readers : reading[r] = b
    OBVIOUS
  <2>11. /\ \A p, q \in MatchingPlaces(b) : p = q
         /\ MatchingPlaces(b) # {} => InMatching(b)
    BY <2>2, MatchingPlace
  <2> HIDE DEF Listed, Offered, Queued, Taken
  <2>12. b \in unlisted => b # offered /\ ~In(b, blobs) /\ ~\E r \in Readers : reading[r] = b
    BY <2>2 DEF FeedApart
  <2>13. b = offered => ~In(b, blobs) /\ ~\E r \in Readers : reading[r] = b
    BY <2>2, ScanAssumption DEF FeedApart
  <2>14. In(b, blobs) => ~\E r \in Readers : reading[r] = b
    BY <2>2 DEF FeedApart
  <2>15. Listed # {} \/ Offered # {} \/ Queued # {} \/ Taken # {} => MatchingPlaces(b) = {}
    BY <2>2, <2>7, <2>8, <2>9, <2>10, <2>11 DEF Fed, Handed
  <2>16. \A p, q \in Places(b) : p = q
    BY <2>1, <2>3, <2>4, <2>5, <2>6, <2>7, <2>8, <2>9, <2>10, <2>11, <2>12, <2>13, <2>14, <2>15
  <2>17. b \in DOMAIN index => Places(b) = {}
    <3>1. b \in DOMAIN index => ~Fed(b) /\ ~InMatching(b)
      BY <2>2 DEF Handed, CoreApart
    <3> QED BY <2>1, <2>7, <2>8, <2>9, <2>10, <2>11, <3>1 DEF Fed
  <2> QED BY <2>16, <2>17
<1>2. Inv => OnePlace
  BY <1>1 DEF OnePlace
<1> QED BY <1>2, Invariance, PTL

(* When the scan is through without an error, every hand and channel is    *)
(* empty.                                                                  *)
LEMMA ThroughIsEmpty ==
  ASSUME Inv, Through, NEW b \in Blobs
  PROVE  NoError /\ unlisted = {} /\ ~Pending(b)
<1> USE DEF Inv
<1>1. ~feedErr /\ jobsClosed /\ \A w \in Workers : worker[w] = "done"
  BY DEF Through
<1>2. main = "returned" /\ blobsClosed /\ errs = 0 /\ ~listErr
      /\ \A r \in Readers : reader[r] = "done"
  BY <1>1 DEF Control, TypeOK
<1>3. unlisted = {} /\ offered = NoBlob
  BY <1>2 DEF Control, Routed
<1>4. blobs = <<>> /\ \A r \in Readers : reading[r] = NoBlob
  BY <1>2, CatFileAssumption DEF Control, Routed
<1>5. jobs = <<>> /\ \A w \in Workers : matching[w] = NoBlob
  BY <1>1, ScanAssumption DEF CoreInv
<1>6. ~Pending(b)
  BY <1>3, <1>4, <1>5, InEmpty, ScanAssumption DEF Pending, InMatching
<1> QED BY <1>2, <1>3, <1>6 DEF NoError

(* So every answer is in place.                                            *)
LEMMA ThroughIsComplete ==
  ASSUME Inv, Through, NEW b \in Blobs
  PROVE  Lookup(b) = Reference(b)
BY ThroughIsEmpty DEF Inv, Accounted

(* When the scan reports success each blob has its reference answer: an    *)
(* absent entry of the index does mean that the blob was examined and      *)
(* nothing was found.                                                      *)
THEOREM CompleteScan == Spec => []CompleteOnSuccess
<1>1. Inv => CompleteOnSuccess
  BY ThroughIsComplete DEF CompleteOnSuccess, Through, Inv, CoreInv
<1> QED BY <1>1, Invariance, PTL

(* When the scan reports success its counters agree with the store: every  *)
(* blob was matched or skipped, and counted, exactly once.                 *)
THEOREM CountedScan == Spec => []TallyOnSuccess
<1>1. ASSUME Inv, outcome = "ok"
      PROVE  Tally
  <2>1. Through
    BY <1>1 DEF Through, Inv, CoreInv
  <2>2. NoError
    BY <1>1, <2>1 DEF Through, Inv, Control, TypeOK, NoError
  <2>3. unlisted = {}
    BY <1>1, <2>1, <2>2 DEF Through, Inv, Control, NoError
  <2>4. {b \in Blobs : Pending(b)} = {}
    BY <1>1, <2>1, ThroughIsEmpty
  <2>5. Tallied({}, {})
    BY <1>1, <2>2, <2>3, <2>4 DEF Inv, Tallies
  <2> QED BY <1>1, <2>5, TallyEnd DEF Inv, TypeOK
<1>2. Inv => TallyOnSuccess
  BY <1>1 DEF TallyOnSuccess
<1> QED BY <1>2, Invariance, PTL

-----------------------------------------------------------------------------
(* The scan implements the promise.                                        *)

(* A scan with the git backend does only what BlobScan promises: whatever  *)
(* the interleaving of its goroutines and the failures of its children, a  *)
(* caller sees each answer appear once, and success only when all have.    *)
(* That it returns at all is model-checked (ImplementsPromise).            *)
THEOREM Refinement == Spec => Promise!Safety
<1>1. Init => Promise!Init
  BY PromiseInit DEF Init
<1>2. Inv /\ [Next]_vars => [Promise!Next]_(Promise!vars)
  BY StepOfCore, ThroughIsComplete, PromiseStep DEF Inv, TypeOK
<1> QED BY <1>1, <1>2, Invariance, PTL DEF Spec, Safety, Promise!Safety
=============================================================================
