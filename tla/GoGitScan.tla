----------------------------- MODULE GoGitScan -----------------------------
(***************************************************************************)
(* A scan fed by the gogit backend with several readers,                   *)
(* feedBlobsGoGitParallelObjectInfos and feedBlobsGoGitParallelObjects of  *)
(* gogit_tuning.go.                                                        *)
(*                                                                         *)
(* The calling goroutine enumerates the store, collects blobs in batches   *)
(* and offers each full batch, and the last partial one, to the readers.   *)
(* The first reader to fail records its error and cancels the context;     *)
(* the others then leave with whatever they had in hand.                   *)
(*                                                                         *)
(* options.infos tells the two functions apart.  Without it there is no    *)
(* batch, or one of a single object; the channel is unbuffered, an         *)
(* interrupted offer is dropped at once, and a reader has nothing to check *)
(* the size against and nothing to close.                                  *)
(***************************************************************************)
EXTENDS ScanCore, SequencesExt

CONSTANTS
  Readers,     (* The reader goroutines, --readers of them.                *)
  Options      (* The values to consider of --gogit-object-infos,          *)
               (* --gogit-object-batch and --gogit-object-buffer, the last *)
               (* in batches, rounded up.                                  *)

ASSUME GoGitAssumption ==
  /\ IsFiniteSet(Readers)
  /\ Readers # {}
  /\ Options \subseteq [infos: BOOLEAN, batch: Nat \ {0}, buffered: Nat]
  /\ \A o \in Options : ~o.infos => o.batch = 1 /\ o.buffered = 0
  (* The library reads an object by the name and type it enumerated.       *)
  /\ \A e \in Entries : e.servedType = e.type

VARIABLES
  options,     (* Fixed for the run.                                       *)
  unlisted,    (* Blobs the iterator has yet to yield.                     *)
  main,        (* Program counter of the calling goroutine.                *)
  batch,       (* The batch it fills or offers.                            *)
  listErr,     (* The repository did not open, or the iterator failed.     *)
  objects,     (* The channel of batches.                                  *)
  objectsClosed,
  reader,      (* Program counter of each reader.                          *)
  todo,        (* What is left of its batch, the blob in hand first.       *)
  readErr,     (* once.Do has recorded an error and cancelled the context. *)
  cancelled

listVars == <<unlisted, main, batch, listErr>>
readerVars == <<reader, todo, readErr, cancelled>>
feedVars == <<options, listVars, objects, objectsClosed, readerVars>>
vars == <<coreVars, feedVars>>

(* Without object infos the object read is the one enumerated.             *)
Init ==
  /\ CoreInit
  /\ options \in Options
  /\ options.infos \/ \A b \in Blobs : store[b].servedSize = store[b].size
  /\ unlisted = {b \in Blobs : store[b].type = "blob"}
  /\ main = "open"
  /\ batch = <<>>
  /\ listErr = FALSE
  /\ objects = <<>>
  /\ objectsClosed = FALSE
  /\ reader = [r \in Readers |-> "none"]
  /\ todo = [r \in Readers |-> <<>>]
  /\ readErr = FALSE
  /\ cancelled = FALSE

-----------------------------------------------------------------------------
(* The calling goroutine.                                                  *)

(* openGoGit and the iterator succeed, and the readers are started.        *)
Open ==
  /\ main = "open"
  /\ main' = "list"
  /\ reader' = [r \in Readers |-> "idle"]
  /\ UNCHANGED <<options, coreVars, unlisted, batch, listErr, objects, objectsClosed, todo,
                 readErr, cancelled>>

OpenFails ==
  /\ main = "open"
  /\ main' = "wait"
  /\ listErr' = TRUE
  /\ UNCHANGED <<options, coreVars, unlisted, batch, objects, objectsClosed, readerVars>>

List(b) ==
  /\ main = "list"
  /\ b \in unlisted
  /\ unlisted' = unlisted \ {b}
  /\ IF store[b].size > Limit(b)
     THEN /\ Put(b, Skipped("size"))
          /\ Count({"total", "skipSize"})
          /\ UNCHANGED <<main, batch>>
     ELSE /\ Count({"total"})
          /\ batch' = Append(batch, b)
          /\ main' = IF Len(batch) + 1 = options.batch THEN "offer" ELSE "list"
          /\ UNCHANGED <<index, skippedEntries>>
  /\ UNCHANGED <<options, store, jobs, workerVars, returnVars, listErr, objects, objectsClosed,
                 readerVars>>

(* The batch goes into the buffer; or, the channel having none, into the   *)
(* hands of a reader that waits for it.                                    *)
Deliver ==
  \/ /\ Len(objects) < options.buffered
     /\ objects' = Append(objects, batch)
     /\ UNCHANGED <<reader, todo>>
  \/ /\ options.buffered = 0
     /\ \E r \in Readers :
          /\ reader[r] = "idle"
          /\ reader' = [reader EXCEPT ![r] = "read"]
          /\ todo' = [todo EXCEPT ![r] = batch]
     /\ UNCHANGED objects

(* Mutant of Offer: the batch is not replaced once it is sent.             *)
OfferKeepsBatch ==
  /\ main \in {"offer", "last"}
  /\ Deliver
  /\ main' = IF main = "offer" THEN "list" ELSE "close"
  /\ UNCHANGED <<options, coreVars, unlisted, batch, listErr, objectsClosed, readErr, cancelled>>

(* select, case objects <- batch: a full batch while enumerating, or the   *)
(* last one after it.                                                      *)
Offer ==
  /\ main \in {"offer", "last"}
  /\ Deliver
  /\ batch' = <<>>
  /\ main' = IF main = "offer" THEN "list" ELSE "close"
  /\ UNCHANGED <<options, coreVars, unlisted, listErr, objectsClosed, readErr, cancelled>>

(* Mutant of OfferCancelled: the last send is not in a select.             *)
OfferCancelledOnce ==
  /\ main = "offer"
  /\ cancelled
  /\ main' = "last"
  /\ UNCHANGED <<options, coreVars, unlisted, batch, listErr, objects, objectsClosed, readerVars>>

(* select, case <-ctx.Done.  Breaking off the enumeration leaves err nil   *)
(* and the batch full, so the batch is offered once more as the last one.  *)
OfferCancelled ==
  /\ main \in {"offer", "last"}
  /\ cancelled
  /\ IF main = "offer" /\ options.infos
     THEN main' = "last" /\ UNCHANGED batch
     ELSE main' = "close" /\ batch' = <<>>
  /\ UNCHANGED <<options, coreVars, unlisted, listErr, objects, objectsClosed, readerVars>>

(* Mutant of ListEnd: the partial batch is forgotten.                      *)
ListEndDropsBatch ==
  /\ main = "list"
  /\ unlisted = {}
  /\ main' = "close"
  /\ batch' = <<>>
  /\ UNCHANGED <<options, coreVars, unlisted, listErr, objects, objectsClosed, readerVars>>

(* io.EOF                                                                  *)
ListEnd ==
  /\ main = "list"
  /\ unlisted = {}
  /\ main' = IF batch # <<>> THEN "last" ELSE "close"
  /\ UNCHANGED <<options, coreVars, unlisted, batch, listErr, objects, objectsClosed, readerVars>>

(* iter.Next fails: the batch that is being filled is dropped.             *)
ListFails ==
  /\ main = "list"
  /\ main' = "close"
  /\ listErr' = TRUE
  /\ batch' = <<>>
  /\ UNCHANGED <<options, coreVars, unlisted, objects, objectsClosed, readerVars>>

CloseObjects ==
  /\ main = "close"
  /\ main' = "wait"
  /\ objectsClosed' = TRUE
  /\ UNCHANGED <<options, coreVars, unlisted, batch, listErr, objects, readerVars>>

(* Mutant of FeedReturn: the readers are not waited for.                   *)
FeedReturnEarly ==
  /\ main = "wait"
  /\ CloseJobs(readErr \/ listErr)
  /\ main' = "returned"
  /\ UNCHANGED <<options, store, jobs, workerVars, indexVars, unlisted, batch, listErr, objects,
                 objectsClosed, readerVars>>

(* wg.Wait; readErr comes before the enumeration's error.                  *)
FeedReturn ==
  /\ main = "wait"
  /\ \A r \in Readers : reader[r] \in {"none", "done"}
  /\ CloseJobs(readErr \/ listErr)
  /\ main' = "returned"
  /\ UNCHANGED <<options, store, jobs, workerVars, indexVars, unlisted, batch, listErr, objects,
                 objectsClosed, readerVars>>

-----------------------------------------------------------------------------
(* A reader.                                                               *)

(* A return from the loop runs the deferred reader.Close.                  *)
Leaving == IF options.infos THEN "close" ELSE "done"

(* Mutant of RecordError: the context is cancelled, the error lost.        *)
CancelOnly ==
  /\ cancelled' = TRUE
  /\ UNCHANGED readErr

(* once.Do(func() { readErr = err; cancel() })                             *)
RecordError ==
  /\ readErr' = TRUE
  /\ cancelled' = TRUE

ReaderTake(r) ==
  /\ reader[r] = "idle"
  /\ objects # <<>>
  /\ objects' = Tail(objects)
  /\ reader' = [reader EXCEPT ![r] = "read"]
  /\ todo' = [todo EXCEPT ![r] = Head(objects)]
  /\ UNCHANGED <<options, coreVars, listVars, objectsClosed, readErr, cancelled>>

ReaderExit(r) ==
  /\ reader[r] = "idle"
  /\ objects = <<>>
  /\ objectsClosed
  /\ reader' = [reader EXCEPT ![r] = Leaving]
  /\ UNCHANGED <<options, coreVars, listVars, objects, objectsClosed, todo, readErr, cancelled>>

(* The object cannot be loaded, its size is not the enumerated one, or its *)
(* bytes cannot be read.                                                   *)
ReaderFails(r) ==
  /\ reader[r] = "read"
  /\ RecordError
  /\ reader' = [reader EXCEPT ![r] = Leaving]
  /\ todo' = [todo EXCEPT ![r] = <<>>]
  /\ UNCHANGED <<options, coreVars, listVars, objects, objectsClosed>>

ReaderRead(r) ==
  /\ reader[r] = "read"
  /\ store[Head(todo[r])].servedSize = store[Head(todo[r])].size
  /\ reader' = [reader EXCEPT ![r] = "send"]
  /\ UNCHANGED <<options, coreVars, listVars, objects, objectsClosed, todo, readErr, cancelled>>

SizeChanged(r) ==
  /\ ReaderFails(r)
  /\ store[Head(todo[r])].servedSize # store[Head(todo[r])].size

(* Mutant of ReaderSend: the loop runs once more than the batch has tasks. *)
ReaderSendPastEnd(r) ==
  /\ reader[r] = "send"
  /\ SendJob(Head(todo[r]))
  /\ todo' = [todo EXCEPT ![r] = Tail(@)]
  /\ reader' = [reader EXCEPT ![r] = IF Len(todo[r]) = 0 THEN "idle" ELSE "read"]
  /\ UNCHANGED <<options, store, workerVars, indexVars, returnVars, listVars, objects,
                 objectsClosed, readErr, cancelled>>

(* select, case jobs <- job                                                *)
ReaderSend(r) ==
  /\ reader[r] = "send"
  /\ SendJob(Head(todo[r]))
  /\ todo' = [todo EXCEPT ![r] = Tail(@)]
  /\ reader' = [reader EXCEPT ![r] = IF Len(todo[r]) = 1 THEN "idle" ELSE "read"]
  /\ UNCHANGED <<options, store, workerVars, indexVars, returnVars, listVars, objects,
                 objectsClosed, readErr, cancelled>>

(* select, case <-ctx.Done                                                 *)
ReaderCancelled(r) ==
  /\ reader[r] = "send"
  /\ cancelled
  /\ reader' = [reader EXCEPT ![r] = Leaving]
  /\ todo' = [todo EXCEPT ![r] = <<>>]
  /\ UNCHANGED <<options, coreVars, listVars, objects, objectsClosed, readErr, cancelled>>

ReaderClose(r) ==
  /\ reader[r] = "close"
  /\ reader' = [reader EXCEPT ![r] = "done"]
  /\ UNCHANGED <<options, coreVars, listVars, objects, objectsClosed, todo, readErr, cancelled>>

ReaderCloseFails(r) ==
  /\ reader[r] = "close"
  /\ RecordError
  /\ reader' = [reader EXCEPT ![r] = "done"]
  /\ UNCHANGED <<options, coreVars, listVars, objects, objectsClosed, todo>>

ReaderStep(r) ==
  \/ ReaderTake(r)
  \/ ReaderExit(r)
  \/ ReaderRead(r)
  \/ SizeChanged(r)
  \/ ReaderSend(r)
  \/ ReaderCancelled(r)
  \/ ReaderClose(r)

-----------------------------------------------------------------------------
Matchers ==
  /\ \E w \in Workers : WorkerStep(w)
  /\ UNCHANGED feedVars

MainStep ==
  \/ Open
  \/ \E b \in Blobs : List(b)
  \/ Offer
  \/ OfferCancelled
  \/ ListEnd
  \/ CloseObjects
  \/ FeedReturn
  \/ ScanReturn /\ UNCHANGED feedVars

Done ==
  /\ outcome # "running"
  /\ UNCHANGED vars

Next ==
  \/ MainStep
  \/ OpenFails
  \/ ListFails
  \/ \E r \in Readers : ReaderStep(r) \/ ReaderFails(r) \/ ReaderCloseFails(r)
  \/ Matchers
  \/ Done

(* Every goroutine keeps running; nothing obliges the library to fail.     *)
Fairness ==
  /\ WF_vars(MainStep)
  /\ \A r \in Readers : WF_vars(ReaderStep(r))
  /\ \A w \in Workers : WF_vars(WorkerStep(w) /\ UNCHANGED feedVars)

Safety == Init /\ [][Next]_vars

Spec == Safety /\ Fairness

-----------------------------------------------------------------------------
(* Types; a batch that is offered, buffered or read is never empty, and    *)
(* none outgrows its size.                                                 *)
TypeOK ==
  /\ CoreTypeOK
  /\ options \in Options
  /\ unlisted \subseteq Blobs
  /\ main \in {"open", "list", "offer", "last", "close", "wait", "returned"}
  /\ batch \in Seq(Blobs)
  /\ main \in {"offer", "last"} => batch # <<>>
  /\ Len(batch) <= options.batch
  /\ listErr \in BOOLEAN
  /\ objects \in Seq(Seq(Blobs))
  /\ \A i \in DOMAIN objects : objects[i] # <<>>
  /\ objectsClosed \in BOOLEAN
  /\ reader \in [Readers -> {"none", "idle", "read", "send", "close", "done"}]
  /\ todo \in [Readers -> Seq(Blobs)]
  /\ \A r \in Readers : reader[r] \in {"read", "send"} <=> todo[r] # <<>>
  /\ readErr \in BOOLEAN
  /\ cancelled \in BOOLEAN

(* The hands, batches and channels a blob is in before it has its answer.  *)
Places(b) ==
  {<<"unlisted", 0>> : x \in {b} \cap unlisted}
  \cup {<<"batch", i>> : i \in {i \in DOMAIN batch : batch[i] = b}}
  \cup (UNION {{<<"objects", i, j>> : j \in {j \in DOMAIN objects[i] : objects[i][j] = b}} :
               i \in DOMAIN objects})
  \cup (UNION {{<<"todo", r, j>> : j \in {j \in DOMAIN todo[r] : todo[r][j] = b}} :
               r \in Readers})
  \cup MatchingPlaces(b)

(* The jobs channel is closed only when no reader can send to it any more: *)
(* a send on a closed channel panics.                                      *)
ClosedAfterSenders ==
  jobsClosed => \A r \in Readers : reader[r] \in {"none", "done"}

(* As long as no error is on record, every blob has its reference answer   *)
(* or is on its way to one: a cancelled context is never the only trace of *)
(* a dropped batch, and the last partial batch is not forgotten.           *)
NothingLost ==
  ~readErr /\ ~listErr => \A b \in Blobs : Places(b) # {} \/ Lookup(b) = Reference(b)

(* No blob is in two batches, hands or channels at a time, or in one after *)
(* it was answered.                                                        *)
OnePlace ==
  \A b \in Blobs :
    /\ \A p, q \in Places(b) : p = q
    /\ b \in DOMAIN index => Places(b) = {}
=============================================================================
