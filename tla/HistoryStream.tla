--------------------------- MODULE HistoryStream ---------------------------
(***************************************************************************)
(* The gogit history walk with several workers, visitHistoryStreamParallel *)
(* of gogit_history_stream.go, and the tree cache it shares.               *)
(*                                                                         *)
(* The calling goroutine takes commits from an iterator, keeps a window of *)
(* them pending, hands each to the workers through a bounded channel, and  *)
(* visits the changes of the oldest as soon as its own result channel has  *)
(* them.  A worker diffs the commit's tree with that of its first parent;  *)
(* the trees come from a cache in which the first to ask for one loads it  *)
(* while the others wait, and from which the caller removes a commit's     *)
(* tree once it has visited the commit.                                    *)
(*                                                                         *)
(* A commit is its position in the walk.  The library's date-order         *)
(* iterator yields a commit before its parents, so parents are larger.     *)
(***************************************************************************)
EXTENDS Naturals, Sequences, FiniteSets, SequencesExt

CONSTANTS
  N,           (* Commits of the walk.                                     *)
  Workers,     (* The goroutines, --history-workers of them.               *)
  Lookahead,   (* historyLookahead                                         *)
  Merges       (* Whether merge commits are diffed.                        *)

(* The commits, by their position in the walk.                             *)
Positions == 1..N

(* 0 stands for no parent, "none" for no task.                             *)
ASSUME StreamAssumption ==
  /\ N \in Nat
  /\ IsFiniteSet(Workers)
  /\ Workers # {}
  /\ Lookahead \in Nat \ {0}
  /\ Merges \in BOOLEAN

VARIABLES
  firstParent, (* ParentHashes()[0] of each commit; fixed for the walk.    *)
  merge,       (* NumParents() >= 2; fixed for the walk.                   *)
  next,        (* The commit the iterator yields next.                     *)
  eof,         (* fill has met the end of the iterator.                    *)
  main,        (* Program counter of the calling goroutine.                *)
  pending,     (* The window: commits not yet visited, oldest first.       *)
  tasks,       (* The channel to the workers.                              *)
  tasksClosed,
  result,      (* What the result channel of each commit holds.            *)
  visited,     (* Commits whose changes were visited, in order.            *)
  failed,      (* The walk is to return an error.                          *)
  outcome,     (* "running", then what the walk returned.                  *)
  worker,      (* Program counter of each worker.                          *)
  task,        (* The commit it works on, or 0.                            *)
  want,        (* The tree it asks the cache for, or 0.                    *)
  entry,       (* The load it waits for or does, or 0.                     *)
  trees,       (* The cache: the current load of each commit's tree, or 0. *)
  loads        (* Every load of each commit's tree so far, by outcome.     *)

graphVars == <<firstParent, merge>>
mainVars == <<next, eof, main, pending, visited, failed, outcome>>
workerVars == <<worker, task, want, entry>>
cacheVars == <<trees, loads>>
vars == <<graphVars, mainVars, tasks, tasksClosed, result, workerVars, cacheVars>>

Window == Lookahead * Cardinality(Workers)

Skipped(c) == ~Merges /\ merge[c]

(* A parent comes later in the walk; a merge has at least two.             *)
GraphOK ==
  \A c \in Positions :
    /\ firstParent[c] = 0 \/ firstParent[c] > c
    /\ merge[c] => firstParent[c] # 0 /\ N - c >= 2

Init ==
  /\ firstParent \in [Positions -> 0..N]
  /\ merge \in [Positions -> BOOLEAN]
  /\ GraphOK
  /\ next = 1
  /\ eof = FALSE
  /\ main = "fill"
  /\ pending = <<>>
  /\ tasks = <<>>
  /\ tasksClosed = FALSE
  /\ result = [c \in Positions |-> "none"]
  /\ visited = <<>>
  /\ failed = FALSE
  /\ outcome = "running"
  /\ worker = [w \in Workers |-> "idle"]
  /\ task = [w \in Workers |-> 0]
  /\ want = [w \in Workers |-> 0]
  /\ entry = [w \in Workers |-> 0]
  /\ trees = [c \in Positions |-> 0]
  /\ loads = [c \in Positions |-> <<>>]

-----------------------------------------------------------------------------
(* The calling goroutine.                                                  *)

Filling == main = "fill" /\ Len(pending) < Window /\ ~eof

NextCommit ==
  /\ Filling
  /\ next <= N
  /\ next' = next + 1
  /\ pending' = Append(pending, next)
  /\ main' = "send"
  /\ UNCHANGED <<graphVars, eof, visited, failed, outcome, tasks, tasksClosed, result,
                 workerVars, cacheVars>>

StreamEnd ==
  /\ Filling
  /\ next > N
  /\ eof' = TRUE
  /\ UNCHANGED <<graphVars, next, main, pending, visited, failed, outcome, tasks,
                 tasksClosed, result, workerVars, cacheVars>>

StreamFails ==
  /\ Filling
  /\ main' = "leave"
  /\ failed' = TRUE
  /\ UNCHANGED <<graphVars, next, eof, pending, visited, outcome, tasks, tasksClosed,
                 result, workerVars, cacheVars>>

(* tasks <- task blocks while the channel is full.                         *)
SendTask ==
  /\ main = "send"
  /\ Len(tasks) < Cardinality(Workers)
  /\ tasks' = Append(tasks, Last(pending))
  /\ main' = "fill"
  /\ UNCHANGED <<graphVars, next, eof, pending, visited, failed, outcome, tasksClosed,
                 result, workerVars, cacheVars>>

(* Mutant of Filled: a result is expected even if nothing is pending.      *)
FilledBlindly ==
  /\ main = "fill"
  /\ ~Filling
  /\ main' = "receive"
  /\ UNCHANGED <<graphVars, next, eof, pending, visited, failed, outcome, tasks,
                 tasksClosed, result, workerVars, cacheVars>>

(* fill returns: the window is full or the iterator exhausted.             *)
Filled ==
  /\ main = "fill"
  /\ ~Filling
  /\ main' = IF pending = <<>> THEN "leave" ELSE "receive"
  /\ UNCHANGED <<graphVars, next, eof, pending, visited, failed, outcome, tasks,
                 tasksClosed, result, workerVars, cacheVars>>

(* Mutants of Release: nothing leaves the cache; the parent's tree does    *)
(* too.                                                                    *)
ReleaseNothing(c) == trees
ReleaseBoth(c) == [d \in Positions |-> IF d \in {c, firstParent[c]} THEN 0 ELSE trees[d]]

(* historyTreeCache.release                                                *)
Release(c) == [trees EXCEPT ![c] = 0]

(* Mutant of Abort: the walk ends as if it were complete.                  *)
AbortQuietly ==
  /\ main' = "leave"
  /\ UNCHANGED <<failed, pending, visited, trees>>

(* The walk ends with the error of the oldest commit.                      *)
Abort ==
  /\ main' = "leave"
  /\ failed' = TRUE
  /\ UNCHANGED <<pending, visited, trees>>

(* <-task.result of the oldest commit: its changes are visited, its tree   *)
(* leaves the cache and the window moves on; an error ends the walk.       *)
Receive ==
  LET c == Head(pending) IN
  /\ main = "receive"
  /\ result[c] # "none"
  /\ result' = [result EXCEPT ![c] = "none"]
  /\ IF result[c] = "err"
     THEN Abort
     ELSE /\ main' = "fill"
          /\ pending' = Tail(pending)
          /\ visited' = IF Skipped(c) THEN visited ELSE Append(visited, c)
          /\ trees' = Release(c)
          /\ UNCHANGED failed
  /\ UNCHANGED <<graphVars, next, eof, outcome, tasks, tasksClosed, workerVars, loads>>

(* The deferred function: cancel, close(tasks), and wg.Wait.               *)
CloseTasks ==
  /\ main = "leave"
  /\ tasksClosed' = TRUE
  /\ main' = "wait"
  /\ UNCHANGED <<graphVars, next, eof, pending, visited, failed, outcome, tasks, result,
                 workerVars, cacheVars>>

Return ==
  /\ main = "wait"
  /\ \A w \in Workers : worker[w] = "done"
  /\ main' = "returned"
  /\ outcome' = IF failed THEN "failed" ELSE "ok"
  /\ UNCHANGED <<graphVars, next, eof, pending, visited, failed, tasks, tasksClosed,
                 result, workerVars, cacheVars>>

-----------------------------------------------------------------------------
(* A worker.                                                               *)

(* task.result <- result never blocks: the channel holds one result and    *)
(* receives one.                                                           *)
Finish(w, r) ==
  /\ result' = [result EXCEPT ![task[w]] = r]
  /\ worker' = [worker EXCEPT ![w] = "idle"]
  /\ task' = [task EXCEPT ![w] = 0]
  /\ want' = [want EXCEPT ![w] = 0]
  /\ entry' = [entry EXCEPT ![w] = 0]

Take(w) ==
  /\ worker[w] = "idle"
  /\ tasks # <<>>
  /\ tasks' = Tail(tasks)
  /\ worker' = [worker EXCEPT ![w] = "commit"]
  /\ task' = [task EXCEPT ![w] = Head(tasks)]
  /\ UNCHANGED <<graphVars, mainVars, tasksClosed, result, want, entry, cacheVars>>

WorkerExit(w) ==
  /\ worker[w] = "idle"
  /\ tasks = <<>>
  /\ tasksClosed
  /\ worker' = [worker EXCEPT ![w] = "done"]
  /\ UNCHANGED <<graphVars, mainVars, tasks, tasksClosed, result, task, want, entry,
                 cacheVars>>

(* A merge that is not wanted has an empty result; for any other commit    *)
(* the worker reads the commit object and turns to its tree.               *)
LookUpCommit(w) ==
  /\ worker[w] = "commit"
  /\ IF Skipped(task[w])
     THEN Finish(w, "ok")
     ELSE /\ worker' = [worker EXCEPT ![w] = "lookup"]
          /\ want' = [want EXCEPT ![w] = task[w]]
          /\ UNCHANGED <<result, task, entry>>
  /\ UNCHANGED <<graphVars, mainVars, tasks, tasksClosed, cacheVars>>

(* historyTreeCache.load under its mutex: the first to ask makes an entry  *)
(* and loads the tree, the others wait for that entry to be ready.         *)
CacheLookup(w) ==
  /\ worker[w] = "lookup"
  /\ IF trees[want[w]] = 0
     THEN LET n == Len(loads[want[w]]) + 1 IN
          /\ loads' = [loads EXCEPT ![want[w]] = Append(@, "loading")]
          /\ trees' = [trees EXCEPT ![want[w]] = n]
          /\ entry' = [entry EXCEPT ![w] = n]
          /\ worker' = [worker EXCEPT ![w] = "load"]
     ELSE /\ entry' = [entry EXCEPT ![w] = trees[want[w]]]
          /\ worker' = [worker EXCEPT ![w] = "await"]
          /\ UNCHANGED cacheVars
  /\ UNCHANGED <<graphVars, mainVars, tasks, tasksClosed, result, task, want>>

(* With the tree in hand the worker asks for the first parent's, if there  *)
(* is one it has not asked for yet, and then diffs; an error that the      *)
(* entry holds is its own.                                                 *)
Loaded(w, status) ==
  IF status = "err"
  THEN Finish(w, "err")
  ELSE /\ IF want[w] = task[w] /\ firstParent[task[w]] # 0
          THEN /\ worker' = [worker EXCEPT ![w] = "lookup"]
               /\ want' = [want EXCEPT ![w] = firstParent[task[w]]]
          ELSE /\ worker' = [worker EXCEPT ![w] = "diff"]
               /\ want' = [want EXCEPT ![w] = 0]
       /\ entry' = [entry EXCEPT ![w] = 0]
       /\ UNCHANGED <<result, task>>

(* Mutant of LoadTree: a load that fails leaves its channel open.          *)
LoadTreeNoClose(w, status) ==
  /\ worker[w] = "load"
  /\ loads' = IF status = "err" THEN loads
              ELSE [loads EXCEPT ![want[w]][entry[w]] = status]
  /\ Loaded(w, status)
  /\ UNCHANGED <<graphVars, mainVars, tasks, tasksClosed, trees>>

(* The entry is filled and its channel closed.                             *)
LoadTree(w, status) ==
  /\ worker[w] = "load"
  /\ loads' = [loads EXCEPT ![want[w]][entry[w]] = status]
  /\ Loaded(w, status)
  /\ UNCHANGED <<graphVars, mainVars, tasks, tasksClosed, trees>>

(* <-entry.ready                                                           *)
Await(w) ==
  LET status == loads[want[w]][entry[w]] IN
  /\ worker[w] = "await"
  /\ status # "loading"
  /\ Loaded(w, status)
  /\ UNCHANGED <<graphVars, mainVars, tasks, tasksClosed, cacheVars>>

DiffTrees(w) ==
  /\ worker[w] = "diff"
  /\ Finish(w, "ok")
  /\ UNCHANGED <<graphVars, mainVars, tasks, tasksClosed, cacheVars>>

(* The commit or its first parent cannot be read, or the diff fails, or is *)
(* interrupted by the cancelled context.                                   *)
WorkFails(w) ==
  /\ worker[w] \in {"commit", "diff"} \/ (worker[w] = "lookup" /\ want[w] # task[w])
  /\ ~Skipped(task[w])
  /\ Finish(w, "err")
  /\ UNCHANGED <<graphVars, mainVars, tasks, tasksClosed, cacheVars>>

WorkerStep(w) ==
  \/ Take(w)
  \/ WorkerExit(w)
  \/ LookUpCommit(w)
  \/ CacheLookup(w)
  \/ LoadTree(w, "ok")
  \/ Await(w)
  \/ DiffTrees(w)

-----------------------------------------------------------------------------
MainStep ==
  \/ NextCommit
  \/ StreamEnd
  \/ SendTask
  \/ Filled
  \/ Receive
  \/ CloseTasks
  \/ Return

Done ==
  /\ outcome # "running"
  /\ UNCHANGED vars

Next ==
  \/ MainStep
  \/ StreamFails
  \/ \E w \in Workers : WorkerStep(w) \/ LoadTree(w, "err") \/ WorkFails(w)
  \/ Done

(* As long as a goroutine can run, one of them does, and the store answers *)
(* at some time; which of them runs is left open, and nothing obliges the  *)
(* store to fail.                                                          *)
Fairness == WF_vars(MainStep \/ \E w \in Workers : WorkerStep(w))

Safety == Init /\ [][Next]_vars

Spec == Safety /\ Fairness

-----------------------------------------------------------------------------
(* Types; the caller sends and receives only with a commit pending, whose  *)
(* result channel it then waits on.                                        *)
TypeOK ==
  /\ firstParent \in [Positions -> 0..N]
  /\ merge \in [Positions -> BOOLEAN]
  /\ GraphOK
  /\ next \in 1..(N + 1)
  /\ eof \in BOOLEAN
  /\ main \in {"fill", "send", "receive", "leave", "wait", "returned"}
  /\ pending \in Seq(Positions)
  /\ main \in {"send", "receive"} => pending # <<>>
  /\ tasks \in Seq(Positions)
  /\ tasksClosed \in BOOLEAN
  /\ result \in [Positions -> {"none", "ok", "err"}]
  /\ visited \in Seq(Positions)
  /\ failed \in BOOLEAN
  /\ outcome \in {"running", "ok", "failed"}
  /\ worker \in [Workers -> {"idle", "commit", "lookup", "load", "await", "diff", "done"}]
  /\ task \in [Workers -> 0..N]
  /\ want \in [Workers -> 0..N]
  /\ entry \in [Workers -> Nat]
  /\ trees \in [Positions -> Nat]
  /\ loads \in [Positions -> Seq({"loading", "ok", "err"})]

(* A commit's tree is loaded once in the whole walk, although its own diff *)
(* and those of all its children need it and run in any order: it is in    *)
(* the cache from the first of them to the last, and is removed only when  *)
(* no commit that is still to be diffed can want it.                       *)
LoadedOnce == \A c \in Positions : Len(loads[c]) <= 1

(* The cache forgets: a tree in it is that of a commit not yet visited,    *)
(* and a walk that succeeds leaves it empty.                               *)
CacheIsFrontier ==
  /\ \A c \in Positions :
       trees[c] # 0 => c >= next \/ \E i \in DOMAIN pending : pending[i] = c
  /\ outcome = "ok" => \A c \in Positions : trees[c] = 0

(* A worker that waits for a tree waits for an entry that another worker   *)
(* is loading, or that is ready: no worker waits for its own load, none    *)
(* for one that was given up.                                              *)
AwaitHasLoader ==
  \A w \in Workers : worker[w] = "await" =>
    \/ loads[want[w]][entry[w]] # "loading"
    \/ \E v \in Workers : worker[v] = "load" /\ want[v] = want[w] /\ entry[v] = entry[w]

(* The commits that are visited: all of them but for unwanted merges, in   *)
(* the order of the walk, which is that of their numbers.                  *)
Kept(m) == {c \in Positions : Merges \/ ~m[c]}
Rank(kept, c) == Cardinality({d \in kept : d <= c})
Walk(m) ==
  LET kept == Kept(m)
  IN [i \in 1..Cardinality(kept) |-> CHOOSE c \in kept : Rank(kept, c) = i]

(* The changes come out as a walk by a single goroutine visits them.       *)
WalkOrder == INSTANCE HistoryWalk WITH walk <- Walk(merge)

(* The walk visits the commits in order, each once, stops at an error, and *)
(* reports success only after the last: pending results are received in    *)
(* the order of the window, whichever worker finishes first.  And it       *)
(* returns, also when workers still have tasks at an early error.          *)
ImplementsWalk == WalkOrder!Spec
=============================================================================
