---------------------------- MODULE CatFileScan ----------------------------
(***************************************************************************)
(* A scan fed by the git backend, feedBlobsCatFile of main.go.             *)
(*                                                                         *)
(* The calling goroutine lists the object store with one git child and     *)
(* offers the blobs to a bounded channel; several readers, each with a git *)
(* cat-file child of its own, load them and pass them to the matchers.     *)
(* Any child may fail to start, die, or answer with something unusable.  A *)
(* reader that fails leaves its error in a channel, cancels the context    *)
(* and goes, with the blob it had in hand; cancelling wakes a lister that  *)
(* would otherwise wait on a channel nobody reads, and kills its child.    *)
(***************************************************************************)
EXTENDS ScanCore

CONSTANTS
  Readers,     (* The reader goroutines: --readers, or GOMAXPROCS.         *)
  BlobsCap     (* Capacity of the blobs channel (jobQueueSize).            *)

ASSUME CatFileAssumption ==
  /\ IsFiniteSet(Readers)
  /\ Readers # {}
  /\ BlobsCap \in Nat \ {0}

VARIABLES
  unlisted,    (* Objects the listing child has yet to name.               *)
  main,        (* Program counter of the calling goroutine.                *)
  offered,     (* The blob it offers to the channel, or NoBlob.            *)
  listErr,     (* listBlobs returned an error.                             *)
  blobs,       (* The channel from the lister to the readers.              *)
  blobsClosed,
  reader,      (* Program counter of each reader.                          *)
  reading,     (* The blob it has in hand, or NoBlob.                      *)
  errs,        (* Number of errors in the errs channel.                    *)
  cancelled    (* The context is done.                                     *)

listVars == <<unlisted, main, offered, listErr>>
readerVars == <<reader, reading, errs, cancelled>>
vars == <<coreVars, listVars, blobs, blobsClosed, readerVars>>

(* Mutant of ErrsCap: room for the first error only.                       *)
ErrsCapOne == 1

(* errs := make(chan error, shards)                                        *)
ErrsCap == Cardinality(Readers)

Init ==
  /\ CoreInit
  /\ unlisted = Blobs
  /\ main = "list"
  /\ offered = NoBlob
  /\ listErr = FALSE
  /\ blobs = <<>>
  /\ blobsClosed = FALSE
  /\ reader = [r \in Readers |-> "start"]
  /\ reading = [r \in Readers |-> NoBlob]
  /\ errs = 0
  /\ cancelled = FALSE

-----------------------------------------------------------------------------
(* The calling goroutine.                                                  *)

(* The child names the next object, in no particular order.  What is not a *)
(* blob is passed over; a blob above its limit is skipped at once; any     *)
(* other is offered to the readers.                                        *)
List(b) ==
  /\ main = "list"
  /\ b \in unlisted
  /\ unlisted' = unlisted \ {b}
  /\ IF store[b].type # "blob"
     THEN UNCHANGED <<main, offered, indexVars>>
     ELSE IF store[b].size > Limit(b)
     THEN /\ Put(b, Skipped("size"))
          /\ Count({"total", "skipSize"})
          /\ UNCHANGED <<main, offered>>
     ELSE /\ Count({"total"})
          /\ main' = "offer"
          /\ offered' = b
          /\ UNCHANGED <<index, skippedEntries>>
  /\ UNCHANGED <<store, jobs, workerVars, returnVars, listErr, blobs, blobsClosed, readerVars>>

(* Mutant of Offer: the blob is let go of before it is sent.               *)
OfferTooLate ==
  /\ main = "offer"
  /\ Len(blobs) < BlobsCap
  /\ offered' = NoBlob
  /\ blobs' = Append(blobs, offered')
  /\ main' = "list"
  /\ UNCHANGED <<coreVars, unlisted, listErr, blobsClosed, readerVars>>

(* select, case blobs <- blob                                              *)
Offer ==
  /\ main = "offer"
  /\ Len(blobs) < BlobsCap
  /\ blobs' = Append(blobs, offered)
  /\ main' = "list"
  /\ offered' = NoBlob
  /\ UNCHANGED <<coreVars, unlisted, listErr, blobsClosed, readerVars>>

(* select, case <-ctx.Done: listBlobs kills its child and returns.         *)
OfferCancelled ==
  /\ main = "offer"
  /\ cancelled
  /\ main' = "close"
  /\ offered' = NoBlob
  /\ listErr' = TRUE
  /\ UNCHANGED <<coreVars, unlisted, blobs, blobsClosed, readerVars>>

(* The child has named everything and exited well.                         *)
ListEnd ==
  /\ main = "list"
  /\ unlisted = {}
  /\ main' = "close"
  /\ UNCHANGED <<coreVars, unlisted, offered, listErr, blobs, blobsClosed, readerVars>>

(* The child did not start, printed a line that does not parse, exited     *)
(* badly, or was killed because the context is done.                       *)
ListFails ==
  /\ main = "list"
  /\ main' = "close"
  /\ listErr' = TRUE
  /\ UNCHANGED <<coreVars, unlisted, offered, blobs, blobsClosed, readerVars>>

(* close(blobs), after which the readers drain what is left.               *)
CloseBlobs ==
  /\ main = "close"
  /\ blobsClosed' = TRUE
  /\ main' = "wait"
  /\ UNCHANGED <<coreVars, unlisted, offered, listErr, blobs, readerVars>>

(* Mutant of FeedReturn: the readers are not waited for.                   *)
FeedReturnEarly ==
  /\ main = "wait"
  /\ CloseJobs(errs > 0 \/ listErr)
  /\ main' = "returned"
  /\ UNCHANGED <<store, jobs, workerVars, indexVars, unlisted, offered, listErr,
                 blobs, blobsClosed, readerVars>>

(* wg.Wait over the readers; an error of theirs, else the lister's, is     *)
(* what feed returns.                                                      *)
FeedReturn ==
  /\ main = "wait"
  /\ \A r \in Readers : reader[r] = "done"
  /\ CloseJobs(errs > 0 \/ listErr)
  /\ main' = "returned"
  /\ UNCHANGED <<store, jobs, workerVars, indexVars, unlisted, offered, listErr,
                 blobs, blobsClosed, readerVars>>

-----------------------------------------------------------------------------
(* A reader.                                                               *)

ReaderStart(r) ==
  /\ reader[r] = "start"
  /\ reader' = [reader EXCEPT ![r] = "idle"]
  /\ UNCHANGED <<coreVars, listVars, blobs, blobsClosed, reading, errs, cancelled>>

(* newCatFile, or a read of the child, fails; the blob in hand is lost.    *)
ReaderFails(r) ==
  /\ reader[r] \in {"start", "read"}
  /\ reader' = [reader EXCEPT ![r] = "report"]
  /\ reading' = [reading EXCEPT ![r] = NoBlob]
  /\ UNCHANGED <<coreVars, listVars, blobs, blobsClosed, errs, cancelled>>

(* Mutant of ReaderReports: the error is not put into the channel.         *)
ReaderReportsNothing(r) ==
  /\ reader[r] = "report"
  /\ cancelled' = TRUE
  /\ reader' = [reader EXCEPT ![r] = "done"]
  /\ UNCHANGED <<coreVars, listVars, blobs, blobsClosed, reading, errs>>

(* errs <- err, which would block if the channel had no room, then cancel. *)
(* The channel is read only when every reader is done, so nobody sees the  *)
(* one without the other.                                                  *)
ReaderReports(r) ==
  /\ reader[r] = "report"
  /\ errs < ErrsCap
  /\ errs' = errs + 1
  /\ cancelled' = TRUE
  /\ reader' = [reader EXCEPT ![r] = "done"]
  /\ UNCHANGED <<coreVars, listVars, blobs, blobsClosed, reading>>

(* for blob := range blobs                                                 *)
ReaderTake(r) ==
  /\ reader[r] = "idle"
  /\ blobs # <<>>
  /\ blobs' = Tail(blobs)
  /\ reader' = [reader EXCEPT ![r] = "read"]
  /\ reading' = [reading EXCEPT ![r] = Head(blobs)]
  /\ UNCHANGED <<coreVars, listVars, blobsClosed, errs, cancelled>>

ReaderExit(r) ==
  /\ reader[r] = "idle"
  /\ blobs = <<>>
  /\ blobsClosed
  /\ reader' = [reader EXCEPT ![r] = "done"]
  /\ UNCHANGED <<coreVars, listVars, blobs, blobsClosed, reading, errs, cancelled>>

(* Mutant of ReaderRead: no continue after the skip.                       *)
ReaderReadOn(r) ==
  LET b == reading[r] IN
  /\ reader[r] = "read"
  /\ store[b].servedType = "blob"
  /\ IF store[b].servedSize > Limit(b) THEN Skip(b) ELSE UNCHANGED indexVars
  /\ reader' = [reader EXCEPT ![r] = "send"]
  /\ UNCHANGED <<store, jobs, workerVars, returnVars, listVars, blobs, blobsClosed,
                 reading, errs, cancelled>>

(* The child answers.  What it serves may be of another type or size than  *)
(* the listing said: not a blob, it is passed over; too large, skipped.    *)
ReaderRead(r) ==
  LET b == reading[r] IN
  /\ reader[r] = "read"
  /\ IF store[b].servedType # "blob"
     THEN /\ reader' = [reader EXCEPT ![r] = "idle"]
          /\ reading' = [reading EXCEPT ![r] = NoBlob]
          /\ UNCHANGED indexVars
     ELSE IF store[b].servedSize > Limit(b)
     THEN /\ Skip(b)
          /\ reader' = [reader EXCEPT ![r] = "idle"]
          /\ reading' = [reading EXCEPT ![r] = NoBlob]
     ELSE /\ reader' = [reader EXCEPT ![r] = "send"]
          /\ UNCHANGED <<reading, indexVars>>
  /\ UNCHANGED <<store, jobs, workerVars, returnVars, listVars, blobs, blobsClosed,
                 errs, cancelled>>

(* jobs <- job, which no cancellation interrupts.                          *)
ReaderSend(r) ==
  /\ reader[r] = "send"
  /\ SendJob(reading[r])
  /\ reader' = [reader EXCEPT ![r] = "idle"]
  /\ reading' = [reading EXCEPT ![r] = NoBlob]
  /\ UNCHANGED <<store, workerVars, indexVars, returnVars, listVars, blobs, blobsClosed,
                 errs, cancelled>>

ReaderStep(r) ==
  \/ ReaderStart(r)
  \/ ReaderReports(r)
  \/ ReaderTake(r)
  \/ ReaderExit(r)
  \/ ReaderRead(r)
  \/ ReaderSend(r)

-----------------------------------------------------------------------------
feedVars == <<listVars, blobs, blobsClosed, readerVars>>

Matchers ==
  /\ \E w \in Workers : WorkerStep(w)
  /\ UNCHANGED feedVars

MainStep ==
  \/ \E b \in Blobs : List(b)
  \/ Offer
  \/ OfferCancelled
  \/ ListEnd
  \/ CloseBlobs
  \/ FeedReturn
  \/ ScanReturn /\ UNCHANGED feedVars

(* The scan has returned; the process goes on to print.                    *)
Done ==
  /\ outcome # "running"
  /\ UNCHANGED vars

Next ==
  \/ MainStep
  \/ ListFails
  \/ \E r \in Readers : ReaderStep(r) \/ ReaderFails(r)
  \/ Matchers
  \/ Done

(* Every goroutine keeps running; a child asked for something answers or   *)
(* dies.  Nothing obliges a child to fail.                                 *)
Fairness ==
  /\ WF_vars(MainStep)
  /\ \A r \in Readers : WF_vars(ReaderStep(r))
  /\ \A w \in Workers : WF_vars(WorkerStep(w) /\ UNCHANGED feedVars)

Safety == Init /\ [][Next]_vars

Spec == Safety /\ Fairness

-----------------------------------------------------------------------------
(* Types; in particular only blobs that were listed are sent and read.     *)
TypeOK ==
  /\ CoreTypeOK
  /\ unlisted \subseteq Blobs
  /\ main \in {"list", "offer", "close", "wait", "returned"}
  /\ offered \in Blobs \cup {NoBlob}
  /\ listErr \in BOOLEAN
  /\ blobs \in Seq(Blobs)
  /\ blobsClosed \in BOOLEAN
  /\ reader \in [Readers -> {"start", "idle", "read", "send", "report", "done"}]
  /\ reading \in [Readers -> Blobs \cup {NoBlob}]
  /\ errs \in Nat
  /\ cancelled \in BOOLEAN

(* The hands and channels a blob is in before it has its answer.           *)
Places(b) ==
  {<<"unlisted", 0>> : x \in {b} \cap unlisted}
  \cup {<<"offered", 0>> : x \in {b} \cap {offered}}
  \cup {<<"blobs", i>> : i \in {i \in DOMAIN blobs : blobs[i] = b}}
  \cup {<<"reading", r>> : r \in {r \in Readers : reading[r] = b}}
  \cup MatchingPlaces(b)

(* The jobs channel is closed only when no reader can send to it any more: *)
(* a send on a closed channel panics.                                      *)
ClosedAfterSenders == jobsClosed => \A r \in Readers : reader[r] = "done"

(* As long as no error is on record, every blob has its reference answer   *)
(* or is on its way to one, through whichever hands and channels.          *)
NothingLost ==
  errs = 0 /\ (\A r \in Readers : reader[r] # "report") /\ ~listErr =>
    \A b \in Blobs : Places(b) # {} \/ Lookup(b) = Reference(b)

(* No blob is in two hands or channels at a time, or in one after it was   *)
(* answered: a unique blob costs one match even if the scan later fails.   *)
OnePlace ==
  \A b \in Blobs :
    /\ \A p, q \in Places(b) : p = q
    /\ b \in DOMAIN index => Places(b) = {}
=============================================================================
