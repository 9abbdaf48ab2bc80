-------------------------- MODULE GoGitSerialScan --------------------------
(***************************************************************************)
(* A scan fed by the gogit backend with one reader, feedBlobsGoGitSerial   *)
(* of main.go: the calling goroutine enumerates, reads and collects jobs,  *)
(* and flushes the batch to the matchers when it is full, when the next    *)
(* blob would make it too heavy, and at the end of the enumeration.        *)
(***************************************************************************)
EXTENDS ScanCore

CONSTANTS
  JobBatchSize,  (* Jobs in a batch.                                       *)
  JobBatchBytes  (* Bytes in a batch, unless one blob alone exceeds it.    *)

ASSUME SerialAssumption ==
  /\ JobBatchSize \in Nat \ {0}
  /\ JobBatchBytes \in Nat
  /\ \A e \in Entries : e.servedType = e.type /\ e.servedSize = e.size

VARIABLES
  unlisted,    (* Blobs the iterator has yet to yield.                     *)
  main,        (* Program counter of the calling goroutine.                *)
  hand,        (* The blob it reads or is about to add, or NoBlob.         *)
  batch,       (* Jobs not yet sent.                                       *)
  batchBytes,
  eof,         (* The iterator is through.                                 *)
  err          (* feed is to return an error.                              *)

feedVars == <<unlisted, main, hand, batch, batchBytes, eof, err>>
vars == <<coreVars, feedVars>>

Init ==
  /\ CoreInit
  /\ unlisted = {b \in Blobs : store[b].type = "blob"}
  /\ main = "open"
  /\ hand = NoBlob
  /\ batch = <<>>
  /\ batchBytes = 0
  /\ eof = FALSE
  /\ err = FALSE

Open ==
  /\ main = "open"
  /\ main' = "list"
  /\ UNCHANGED <<coreVars, unlisted, hand, batch, batchBytes, eof, err>>

(* Mutant of Fails: the error is dropped.                                  *)
FailsQuietly ==
  /\ main \in {"open", "list", "read"}
  /\ main' = "return"
  /\ hand' = NoBlob
  /\ batch' = <<>>
  /\ UNCHANGED <<coreVars, unlisted, batchBytes, eof, err>>

(* The repository does not open, the iterator fails, or a blob cannot be   *)
(* read: feed returns at once, and the jobs it still holds are dropped.    *)
Fails ==
  /\ main \in {"open", "list", "read"}
  /\ main' = "return"
  /\ err' = TRUE
  /\ hand' = NoBlob
  /\ batch' = <<>>
  /\ UNCHANGED <<coreVars, unlisted, batchBytes, eof>>

List(b) ==
  /\ main = "list"
  /\ b \in unlisted
  /\ unlisted' = unlisted \ {b}
  /\ IF store[b].size > Limit(b)
     THEN /\ Put(b, Skipped("size"))
          /\ Count({"total", "skipSize"})
          /\ UNCHANGED <<main, hand>>
     ELSE /\ Count({"total"})
          /\ main' = "read"
          /\ hand' = b
          /\ UNCHANGED <<index, skippedEntries>>
  /\ UNCHANGED <<store, jobs, workerVars, returnVars, batch, batchBytes, eof, err>>

(* The blob in hand joins the batch, which is flushed when it is full.     *)
AddTo(jobsHeld, bytesHeld) ==
  /\ batch' = Append(jobsHeld, hand)
  /\ batchBytes' = bytesHeld + store[hand].size
  /\ hand' = NoBlob
  /\ main' = IF Len(jobsHeld) + 1 = JobBatchSize THEN "flush" ELSE "list"

(* Mutant of Read: the batch may take any number of bytes.                 *)
ReadUnbounded ==
  /\ main = "read"
  /\ AddTo(batch, batchBytes)
  /\ UNCHANGED <<coreVars, unlisted, eof, err>>

(* Mutant of Read: the blob that does not fit waits, but nothing is sent.  *)
ReadNoFlush ==
  /\ main = "read"
  /\ IF batch # <<>> /\ batchBytes + store[hand].size > JobBatchBytes
     THEN main' = "list" /\ UNCHANGED <<hand, batch, batchBytes>>
     ELSE AddTo(batch, batchBytes)
  /\ UNCHANGED <<coreVars, unlisted, eof, err>>

(* io.ReadFull; a batch that would become too heavy is flushed first.      *)
Read ==
  /\ main = "read"
  /\ IF batch # <<>> /\ batchBytes + store[hand].size > JobBatchBytes
     THEN main' = "flush" /\ UNCHANGED <<hand, batch, batchBytes>>
     ELSE AddTo(batch, batchBytes)
  /\ UNCHANGED <<coreVars, unlisted, eof, err>>

ListEnd ==
  /\ main = "list"
  /\ unlisted = {}
  /\ main' = "flush"
  /\ eof' = TRUE
  /\ UNCHANGED <<coreVars, unlisted, hand, batch, batchBytes, err>>

(* for _, j := range batch { jobs <- j }                                   *)
FlushOne ==
  /\ main = "flush"
  /\ batch # <<>>
  /\ SendJob(Head(batch))
  /\ batch' = Tail(batch)
  /\ UNCHANGED <<store, workerVars, indexVars, returnVars, unlisted, main, hand,
                 batchBytes, eof, err>>

(* Mutant of FlushEnd: the blob that waited is dropped with the batch.     *)
FlushEndDropsHand ==
  /\ main = "flush"
  /\ batch = <<>>
  /\ main' = IF eof THEN "return" ELSE "list"
  /\ batchBytes' = 0
  /\ hand' = NoBlob
  /\ UNCHANGED <<coreVars, unlisted, batch, eof, err>>

(* The batch is empty again; a blob that had to wait for it is added.      *)
FlushEnd ==
  /\ main = "flush"
  /\ batch = <<>>
  /\ IF hand # NoBlob
     THEN AddTo(<<>>, 0)
     ELSE /\ main' = IF eof THEN "return" ELSE "list"
          /\ batchBytes' = 0
          /\ UNCHANGED <<hand, batch>>
  /\ UNCHANGED <<coreVars, unlisted, eof, err>>

FeedReturn ==
  /\ main = "return"
  /\ CloseJobs(err)
  /\ main' = "returned"
  /\ UNCHANGED <<store, jobs, workerVars, indexVars, unlisted, hand, batch, batchBytes,
                 eof, err>>

-----------------------------------------------------------------------------
Matchers ==
  /\ \E w \in Workers : WorkerStep(w)
  /\ UNCHANGED feedVars

MainStep ==
  \/ Open
  \/ \E b \in Blobs : List(b)
  \/ Read
  \/ ListEnd
  \/ FlushOne
  \/ FlushEnd
  \/ FeedReturn
  \/ ScanReturn /\ UNCHANGED feedVars

Done ==
  /\ outcome # "running"
  /\ UNCHANGED vars

Next ==
  \/ MainStep
  \/ Fails
  \/ Matchers
  \/ Done

Fairness ==
  /\ WF_vars(MainStep)
  /\ \A w \in Workers : WF_vars(WorkerStep(w) /\ UNCHANGED feedVars)

Safety == Init /\ [][Next]_vars

Spec == Safety /\ Fairness

-----------------------------------------------------------------------------
(* Types; the enumeration goes on only with an empty hand, so the blob     *)
(* that waits for a flush is never overwritten by the next one.            *)
TypeOK ==
  /\ CoreTypeOK
  /\ unlisted \subseteq Blobs
  /\ main \in {"open", "list", "read", "flush", "return", "returned"}
  /\ hand \in Blobs \cup {NoBlob}
  /\ main = "read" => hand # NoBlob
  /\ main = "list" => hand = NoBlob
  /\ batch \in Seq(Blobs)
  /\ batchBytes \in Nat
  /\ eof \in BOOLEAN
  /\ err \in BOOLEAN

(* The hands and channels a blob is in before it has its answer.           *)
Places(b) ==
  {<<"unlisted", 0>> : x \in {b} \cap unlisted}
  \cup {<<"hand", 0>> : x \in {b} \cap {hand}}
  \cup {<<"batch", i>> : i \in {i \in DOMAIN batch : batch[i] = b}}
  \cup MatchingPlaces(b)

(* Until an error is met, every blob has its reference answer or is on its *)
(* way to one: no flush forgets a job, nor the blob that waits for it.     *)
NothingLost == ~err => \A b \in Blobs : Places(b) # {} \/ Lookup(b) = Reference(b)

(* The bytes of the blobs in held, one by one.                             *)
Bytes(held) == UNION {{i} \X (1..store[held[i]].size) : i \in DOMAIN held}

Weight(held) == Cardinality(Bytes(held))

(* What the feeder holds in memory is bounded: a batch is heavier than     *)
(* JobBatchBytes only if one blob alone is, and the running count is the   *)
(* weight of the batch whenever the next blob is compared with it, so no   *)
(* flush leaves a count behind that would break up later batches.          *)
BatchBounded ==
  /\ Len(batch) <= JobBatchSize
  /\ Len(batch) > 1 => Weight(batch) <= JobBatchBytes
  /\ main \in {"list", "read"} => batchBytes = Weight(batch)
=============================================================================
