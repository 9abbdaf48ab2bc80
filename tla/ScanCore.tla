------------------------------ MODULE ScanCore ------------------------------
(***************************************************************************)
(* The part of a blob scan that both backends share, scanBlobsWithLegal of *)
(* main.go: a bounded channel of jobs, the matcher goroutines that drain   *)
(* it, the index they fill and the counters they keep.  A feeder (the      *)
(* modules CatFileScan and GoGitScan) puts jobs into the channel, skips    *)
(* blobs that are too large, and closes the channel when it is through.    *)
(*                                                                         *)
(* A blob stands for its object name and its bytes; what the program does  *)
(* with it depends on the few facts of an Entry.  A channel is a sequence  *)
(* of blobs with a capacity.                                               *)
(***************************************************************************)
EXTENDS Naturals, Sequences, FiniteSets

CONSTANTS
  Blobs,        (* Objects of the store, by name.                          *)
  NoBlob,       (* "No blob in hand."                                      *)
  Entries,      (* What the store may hold under a name.                   *)
  Workers,      (* The matcher goroutines, GOMAXPROCS of them.             *)
  JobsCap,      (* Capacity of the jobs channel (jobQueueSize).            *)
  MaxBlobSize,  (* --max-blob-size.                                        *)
  LegalBlobSize (* --max-legal-blob-size.                                  *)

Contents == [nul: BOOLEAN, garbled: BOOLEAN, expressions: Seq(STRING), spdx: BOOLEAN]

(* type and size are what the listing of the store says of an object;      *)
(* servedType and servedSize what reading it yields.  They differ when     *)
(* refs/replace substitutes another object, or the store changes between   *)
(* the two.                                                                *)
EntryType ==
  [type: {"blob", "other"}, size: Nat,
   servedType: {"blob", "other"}, servedSize: Nat,
   legal: BOOLEAN, content: Contents]

ASSUME ScanAssumption ==
  /\ NoBlob \notin Blobs
  /\ IsFiniteSet(Blobs)
  /\ Workers # {}
  /\ Entries \subseteq EntryType
  /\ JobsCap \in Nat \ {0}
  /\ MaxBlobSize \in Nat
  /\ LegalBlobSize \in Nat

VARIABLES
  store,       (* [Blobs -> Entries], fixed for the run.                   *)
  jobs,        (* The channel from the feeder to the workers.              *)
  jobsClosed,
  worker,      (* Program counter of each matcher goroutine.               *)
  matching,    (* The job it has in hand, or NoBlob.                       *)
  index,       (* index.blobs: a function on the blobs put so far.         *)
  skippedEntries, (* index.skipped.                                        *)
  stats,       (* scanStats.                                               *)
  feedErr,     (* The error feed returned, reduced to whether there is one.*)
  outcome      (* "running", then what scanBlobsWithLegal returns.         *)

indexVars == <<index, skippedEntries, stats>>
workerVars == <<worker, matching>>
returnVars == <<jobsClosed, feedErr, outcome>>
coreVars == <<store, jobs, workerVars, indexVars, returnVars>>

-----------------------------------------------------------------------------
(* The result of one blob.                                                 *)

Results ==
  [expressions: Seq(STRING), skipped: {"not", "size", "binary", "error"}, spdx: BOOLEAN]

Empty == [expressions |-> <<>>, skipped |-> "not", spdx |-> FALSE]

Skipped(why) == [expressions |-> <<>>, skipped |-> why, spdx |-> FALSE]

(* The bytes decide in this order: a NUL makes the blob binary, then the   *)
(* matcher may fail, else its detections (sorted) and declarations count.  *)
MatchBlob(c) ==
  IF c.nul THEN Skipped("binary")
  ELSE IF c.garbled THEN Skipped("error")
  ELSE [expressions |-> c.expressions, skipped |-> "not", spdx |-> c.spdx]

Limit(b) ==
  IF store[b].legal /\ LegalBlobSize > MaxBlobSize THEN LegalBlobSize ELSE MaxBlobSize

(* The answer the scan owes for b: an object the listing does not call a   *)
(* blob is not scanned; one over its limit, as listed or as read, is       *)
(* skipped; one that reads as something else is passed over.               *)
Reference(b) ==
  LET e == store[b] IN
  IF e.type # "blob" THEN Empty
  ELSE IF e.size > Limit(b) THEN Skipped("size")
  ELSE IF e.servedType # "blob" THEN Empty
  ELSE IF e.servedSize > Limit(b) THEN Skipped("size")
  ELSE MatchBlob(e.content)

(* The caller's view of the index: an absent name has an empty result.     *)
Lookup(b) == IF b \in DOMAIN index THEN index[b] ELSE Empty

-----------------------------------------------------------------------------
(* Writes to the index and the counters.  Each takes its own mutex, but    *)
(* nobody reads either before every goroutine has been waited for, so one  *)
(* step does both.                                                         *)

(* Mutant of Put: only hits are kept.                                      *)
PutHitsOnly(b, r) ==
  IF r.expressions = <<>>
  THEN UNCHANGED <<index, skippedEntries>>
  ELSE /\ index' = [x \in DOMAIN index \cup {b} |-> IF x = b THEN r ELSE index[x]]
       /\ UNCHANGED skippedEntries

(* index.put keeps nothing for an empty success.                           *)
Put(b, r) ==
  IF r = Empty
  THEN UNCHANGED <<index, skippedEntries>>
  ELSE /\ index' = [x \in DOMAIN index \cup {b} |-> IF x = b THEN r ELSE index[x]]
       /\ skippedEntries' = IF r.skipped # "not" THEN skippedEntries + 1 ELSE skippedEntries

Counters == {"total", "matched", "hits", "skipBinary", "skipError", "skipSize"}

(* The counters in cs go up by one.                                        *)
Count(cs) == stats' = [c \in Counters |-> IF c \in cs THEN stats[c] + 1 ELSE stats[c]]

(* Mutant of Skip: the counter is forgotten.                               *)
SkipUncounted(b) ==
  /\ Put(b, Skipped("size"))
  /\ UNCHANGED stats

(* A feeder drops b as too large.                                          *)
Skip(b) ==
  /\ Put(b, Skipped("size"))
  /\ Count({"skipSize"})

(* Mutant of Counted: whatever was not matched counts as an error.         *)
CountedAsError(r) ==
  {"matched"} \cup {c \in {"hits"} : r.expressions # <<>>}
              \cup {c \in {"skipError"} : r.skipped # "not"}

(* The counters a match with result r moves.                               *)
Counted(r) ==
  {"matched"} \cup {c \in {"hits"} : r.expressions # <<>>}
              \cup {c \in {"skipBinary"} : r.skipped = "binary"}
              \cup {c \in {"skipError"} : r.skipped = "error"}

-----------------------------------------------------------------------------
CoreInit ==
  /\ store \in [Blobs -> Entries]
  /\ jobs = <<>>
  /\ jobsClosed = FALSE
  /\ worker = [w \in Workers |-> "idle"]
  /\ matching = [w \in Workers |-> NoBlob]
  /\ index = [b \in {} |-> Empty]
  /\ skippedEntries = 0
  /\ stats = [c \in Counters |-> 0]
  /\ feedErr = FALSE
  /\ outcome = "running"

(* for j := range jobs                                                     *)
WorkerTake(w) ==
  /\ worker[w] = "idle"
  /\ jobs # <<>>
  /\ jobs' = Tail(jobs)
  /\ worker' = [worker EXCEPT ![w] = "matching"]
  /\ matching' = [matching EXCEPT ![w] = Head(jobs)]
  /\ UNCHANGED <<store, indexVars, returnVars>>

WorkerMatch(w) ==
  /\ worker[w] = "matching"
  /\ LET r == MatchBlob(store[matching[w]].content) IN
       /\ Put(matching[w], r)
       /\ Count(Counted(r))
  /\ worker' = [worker EXCEPT ![w] = "idle"]
  /\ matching' = [matching EXCEPT ![w] = NoBlob]
  /\ UNCHANGED <<store, jobs, returnVars>>

(* The channel is closed and drained: the range loop ends, wg.Done.        *)
WorkerExit(w) ==
  /\ worker[w] = "idle"
  /\ jobs = <<>>
  /\ jobsClosed
  /\ worker' = [worker EXCEPT ![w] = "done"]
  /\ UNCHANGED <<store, jobs, matching, indexVars, returnVars>>

WorkerStep(w) == WorkerTake(w) \/ WorkerMatch(w) \/ WorkerExit(w)

(* A feeder's goroutine puts b into the jobs channel; it blocks while the  *)
(* channel is full.                                                        *)
SendJob(b) ==
  /\ Len(jobs) < JobsCap
  /\ jobs' = Append(jobs, b)

(* feed returns, and the channel is closed behind it.                      *)
CloseJobs(err) ==
  /\ ~jobsClosed
  /\ jobsClosed' = TRUE
  /\ feedErr' = err
  /\ UNCHANGED outcome

(* wg.Wait, then the return: the feeder's error comes before success.      *)
ScanReturn ==
  /\ outcome = "running"
  /\ jobsClosed
  /\ \A w \in Workers : worker[w] = "done"
  /\ outcome' = IF feedErr THEN "failed" ELSE "ok"
  /\ UNCHANGED <<store, jobs, workerVars, indexVars, jobsClosed, feedErr>>

-----------------------------------------------------------------------------
(* The types of the shared variables.                                      *)
CoreTypeOK ==
  /\ store \in [Blobs -> Entries]
  /\ jobs \in Seq(Blobs)
  /\ jobsClosed \in BOOLEAN
  /\ worker \in [Workers -> {"idle", "matching", "done"}]
  /\ matching \in [Workers -> Blobs \cup {NoBlob}]
  /\ DOMAIN index \subseteq Blobs
  /\ index \in [DOMAIN index -> Results]
  /\ skippedEntries \in Nat
  /\ stats \in [Counters -> Nat]
  /\ feedErr \in BOOLEAN
  /\ outcome \in {"running", "ok", "failed"}

(* Where a blob is from the moment its job is sent until it is matched.    *)
MatchingPlaces(b) ==
  {<<"jobs", i>> : i \in {i \in DOMAIN jobs : jobs[i] = b}}
  \cup {<<"matching", w>> : w \in {w \in Workers : matching[w] = b}}

(* The blobs the scan matches, and those it drops for their size.          *)
Scanned ==
  {b \in Blobs : /\ store[b].type = "blob" /\ store[b].size <= Limit(b)
                 /\ store[b].servedType = "blob" /\ store[b].servedSize <= Limit(b)}

Oversize == {b \in Blobs : Reference(b).skipped = "size"}

(* What the counters of a complete scan must say of the store.             *)
Tally ==
  /\ stats["total"] = Cardinality({b \in Blobs : store[b].type = "blob"})
  /\ stats["matched"] = Cardinality(Scanned)
  /\ stats["skipSize"] = Cardinality(Oversize)
  /\ stats["skipBinary"] = Cardinality({b \in Blobs : Reference(b).skipped = "binary"})
  /\ stats["skipError"] = Cardinality({b \in Blobs : Reference(b).skipped = "error"})
  /\ stats["hits"] = Cardinality({b \in Blobs : Reference(b).expressions # <<>>})
  /\ skippedEntries = Cardinality({b \in Blobs : Reference(b).skipped # "not"})

(* A scan that returns success has the reference answer for every blob,    *)
(* the implicit empty ones included: lookup cannot tell a blob that was    *)
(* never matched from one in which nothing was found, so no blob may be    *)
(* missing by accident.                                                    *)
CompleteOnSuccess == outcome = "ok" => \A b \in Blobs : Lookup(b) = Reference(b)

(* Success means the counters agree with the store: each blob was matched  *)
(* or skipped once, whichever reader and matcher handled it.               *)
TallyOnSuccess == outcome = "ok" => Tally

(* The promise to the caller, with the index seen through lookup.          *)
Promise == INSTANCE BlobScan WITH
  reference <- [b \in Blobs |-> Reference(b)],
  answer <- [b \in Blobs |-> Lookup(b)]

(* The scan is a BlobScan: each answer appears once and is the reference   *)
(* answer, success comes only when all have, nothing moves after the       *)
(* return, and the scan does return, whatever fails and whoever waits.     *)
ImplementsPromise == Promise!Spec
=============================================================================
