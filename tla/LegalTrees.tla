----------------------------- MODULE LegalTrees -----------------------------
(***************************************************************************)
(* How the gogit backend finds the blobs that have, or had, a legal path:  *)
(* collectLegalTreesParallel, visitCommitTrees and collectLegalTreeRaw of  *)
(* gogit_history_stream.go.                                                *)
(*                                                                         *)
(* The calling goroutine walks the commits depth first and sends their     *)
(* trees in batches to the workers.  A worker descends into a tree unless  *)
(* someone has claimed it; the claim tells a tree reached through a legal  *)
(* directory from the same tree reached otherwise, since every file is     *)
(* legal in the one and only the files with a legal name in the other.     *)
(* The first error stops everyone.                                         *)
(***************************************************************************)
EXTENDS Naturals, Sequences, FiniteSets, SequencesExt

CONSTANTS
  Commits, Trees, Blobs,
  Repos,       (* The repositories to consider.                            *)
  Workers,     (* Names of goroutines.                                     *)
  Crews,       (* Those of a run: one less than --history-workers.         *)
  Caller,      (* The calling goroutine, where it descends into trees.     *)
  BatchSizes   (* Values for legalTreeBatchSize.                           *)

(* An entry of a tree; legal says whether its name is that of a legal      *)
(* directory or of a legal file, as the kind requires.                     *)
EntryType ==
  [kind: {"dir"}, object: Trees, legal: BOOLEAN]
  \cup [kind: {"file"}, object: Blobs, legal: BOOLEAN]
  \cup [kind: {"link"}, object: Blobs, legal: BOOLEAN]

RepoType ==
  [roots: Seq(Commits), parents: [Commits -> Seq(Commits)], boundary: SUBSET Commits,
   tree: [Commits -> Trees], entries: [Trees -> Seq(EntryType)]]

ASSUME LegalAssumption ==
  /\ Repos \subseteq RepoType
  /\ IsFiniteSet(Workers)
  /\ Crews \subseteq SUBSET Workers
  /\ Caller \notin Workers
  /\ BatchSizes \subseteq Nat \ {0}

VARIABLES
  repo,        (* Fixed for the run, as are the next two.                  *)
  crew,        (* The workers; without any the caller descends itself.     *)
  batchSize,
  main,        (* Program counter of the calling goroutine.                *)
  stack,       (* Commits to visit, the next one last.                     *)
  seen,        (* Commits visited.                                         *)
  batch,       (* Trees to be sent.                                        *)
  visitErr,    (* visitCommitTrees or the last enqueue returned an error.  *)
  tasks,       (* The channel of batches.                                  *)
  tasksClosed,
  worker,      (* Program counter of each worker.                          *)
  todo,        (* What it has left of its batch, innermost tree first.     *)
  claimed,     (* collector.seen: pairs of a tree and "inherited".         *)
  legal,       (* collector.legal                                          *)
  firstErr,    (* firstErr # nil                                           *)
  cancelled,
  outcome      (* "running", then what the collection returned.            *)

fixedVars == <<repo, crew, batchSize>>
mainVars == <<main, stack, seen, batch, visitErr, outcome>>
vars == <<fixedVars, mainVars, tasks, tasksClosed, worker, todo, claimed, legal, firstErr,
          cancelled>>

Descenders == Workers \cup {Caller}
Keys == Trees \X BOOLEAN

Init ==
  /\ repo \in Repos
  /\ crew \in Crews
  /\ batchSize \in BatchSizes
  /\ main = "walk"
  /\ stack = repo.roots
  /\ seen = {}
  /\ batch = <<>>
  /\ visitErr = FALSE
  /\ tasks = <<>>
  /\ tasksClosed = FALSE
  /\ worker = [w \in Descenders |-> IF w \in crew \cup {Caller} THEN "idle" ELSE "done"]
  /\ todo = [w \in Descenders |-> <<>>]
  /\ claimed = {}
  /\ legal = {}
  /\ firstErr = FALSE
  /\ cancelled = FALSE
  /\ outcome = "running"

-----------------------------------------------------------------------------
(* The calling goroutine.                                                  *)

ParentsOf(c) == IF c \in repo.boundary THEN <<>> ELSE repo.parents[c]

Job(kind, object, isLegal) == [kind |-> kind, object |-> object, legal |-> isLegal]

(* With workers the tree goes into the batch; without, the caller has it   *)
(* to descend into before it goes on.                                      *)
PassOn(t) ==
  IF crew = {}
  THEN /\ todo' = [todo EXCEPT ![Caller] = <<Job("dir", t, FALSE)>>]
       /\ worker' = [worker EXCEPT ![Caller] = "work"]
       /\ main' = "descend"
       /\ UNCHANGED batch
  ELSE /\ batch' = Append(batch, t)
       /\ main' = IF Len(batch) + 1 = batchSize THEN "enqueue" ELSE "walk"
       /\ UNCHANGED <<worker, todo>>

(* One round of visitCommitTrees: a commit met before is dropped; another  *)
(* leaves its parents on the stack and passes its tree on.                 *)
VisitCommit ==
  LET c == Last(stack) IN
  /\ main = "walk"
  /\ stack # <<>>
  /\ IF c \in seen
     THEN /\ stack' = Front(stack)
          /\ UNCHANGED <<seen, batch, main, worker, todo>>
     ELSE /\ stack' = Front(stack) \o ParentsOf(c)
          /\ seen' = seen \cup {c}
          /\ PassOn(repo.tree[c])
  /\ UNCHANGED <<fixedVars, visitErr, outcome, tasks, tasksClosed, claimed, legal, firstErr,
                 cancelled>>

(* collectLegalTreeRaw returns to visitCommitTrees, with or without error. *)
Descended ==
  /\ main = "descend"
  /\ worker[Caller] = "idle"
  /\ main' = "walk"
  /\ UNCHANGED <<fixedVars, stack, seen, batch, visitErr, outcome, tasks, tasksClosed,
                 worker, todo, claimed, legal, firstErr, cancelled>>

DescendFails ==
  /\ main = "descend"
  /\ worker[Caller] = "read"
  /\ worker' = [worker EXCEPT ![Caller] = "idle"]
  /\ todo' = [todo EXCEPT ![Caller] = <<>>]
  /\ visitErr' = TRUE
  /\ main' = "close"
  /\ UNCHANGED <<fixedVars, stack, seen, batch, outcome, tasks, tasksClosed, claimed, legal,
                 firstErr, cancelled>>

(* The commit cannot be read or parsed.                                    *)
CommitFails ==
  /\ main = "walk"
  /\ stack # <<>>
  /\ Last(stack) \notin seen
  /\ visitErr' = TRUE
  /\ main' = "close"
  /\ UNCHANGED <<fixedVars, stack, seen, batch, outcome, tasks, tasksClosed, worker, todo,
                 claimed, legal, firstErr, cancelled>>

WalkEnd ==
  /\ main = "walk"
  /\ stack = <<>>
  /\ main' = IF batch # <<>> THEN "last" ELSE "close"
  /\ UNCHANGED <<fixedVars, stack, seen, batch, visitErr, outcome, tasks, tasksClosed, worker,
                 todo, claimed, legal, firstErr, cancelled>>

(* select, case tasks <- batch                                             *)
Enqueue ==
  /\ main \in {"enqueue", "last"}
  /\ Len(tasks) < 2 * Cardinality(crew)
  /\ tasks' = Append(tasks, batch)
  /\ batch' = <<>>
  /\ main' = IF main = "last" THEN "close" ELSE "walk"
  /\ UNCHANGED <<fixedVars, stack, seen, visitErr, outcome, tasksClosed, worker, todo, claimed,
                 legal, firstErr, cancelled>>

(* select, case <-ctx.Done: what enqueue returns is firstErr; were that    *)
(* nil, the walk would go on with a batch that is still full.              *)
EnqueueCancelled ==
  /\ main \in {"enqueue", "last"}
  /\ cancelled
  /\ visitErr' = firstErr
  /\ main' = IF firstErr \/ main = "last" THEN "close" ELSE "walk"
  /\ UNCHANGED <<fixedVars, stack, seen, batch, outcome, tasks, tasksClosed, worker, todo,
                 claimed, legal, firstErr, cancelled>>

CloseTasks ==
  /\ main = "close"
  /\ tasksClosed' = TRUE
  /\ main' = "wait"
  /\ UNCHANGED <<fixedVars, stack, seen, batch, visitErr, outcome, tasks, worker, todo, claimed,
                 legal, firstErr, cancelled>>

(* wg.Wait, cancel, return.                                                *)
Return ==
  /\ main = "wait"
  /\ \A w \in crew : worker[w] = "done"
  /\ main' = "returned"
  /\ cancelled' = TRUE
  /\ outcome' = IF visitErr \/ firstErr THEN "failed" ELSE "ok"
  /\ UNCHANGED <<fixedVars, stack, seen, batch, visitErr, tasks, tasksClosed, worker, todo,
                 claimed, legal, firstErr>>

-----------------------------------------------------------------------------
(* A worker, or the caller without workers.  collectLegalTreeRaw calls     *)
(* itself; todo is what its pending calls have left to do.                 *)

(* The tree's entries as work: in a legal directory everything is legal.   *)
Children(key) ==
  [i \in DOMAIN repo.entries[key[1]] |->
     LET e == repo.entries[key[1]][i] IN Job(e.kind, e.object, key[2] \/ e.legal)]

WorkerTake(w) ==
  /\ worker[w] = "idle"
  /\ tasks # <<>>
  /\ tasks' = Tail(tasks)
  /\ worker' = [worker EXCEPT ![w] = "work"]
  /\ todo' = [todo EXCEPT ![w] =
                [i \in DOMAIN Head(tasks) |-> Job("dir", Head(tasks)[i], FALSE)]]
  /\ UNCHANGED <<fixedVars, mainVars, tasksClosed, claimed, legal, firstErr, cancelled>>

(* The channel is closed and empty, or the context is done.                *)
WorkerExit(w) ==
  /\ worker[w] = "idle"
  /\ cancelled \/ (tasks = <<>> /\ tasksClosed)
  /\ worker' = [worker EXCEPT ![w] = "done"]
  /\ UNCHANGED <<fixedVars, mainVars, tasks, tasksClosed, todo, claimed, legal, firstErr,
                 cancelled>>

(* Mutant of Advance: the loop runs once more than there are jobs.         *)
AdvancePastEnd(w) ==
  /\ todo' = [todo EXCEPT ![w] = Tail(@)]
  /\ worker' = [worker EXCEPT ![w] = IF Len(todo[w]) = 0 THEN "idle" ELSE "work"]

(* The worker is through with its head job.                                *)
Advance(w) ==
  /\ todo' = [todo EXCEPT ![w] = Tail(@)]
  /\ worker' = [worker EXCEPT ![w] = IF Len(todo[w]) = 1 THEN "idle" ELSE "work"]

(* Mutant of Collected: symbolic links are taken for files.                *)
CollectedAny(j) == j.legal

Collected(j) == j.kind = "file" /\ j.legal

(* A file with a legal name, or below a legal directory, is collected;     *)
(* symbolic links and submodules are not.                                  *)
VisitFile(w) ==
  LET j == Head(todo[w]) IN
  /\ worker[w] = "work"
  /\ j.kind # "dir"
  /\ legal' = IF Collected(j) THEN legal \cup {j.object} ELSE legal
  /\ Advance(w)
  /\ UNCHANGED <<fixedVars, mainVars, tasks, tasksClosed, claimed, firstErr, cancelled>>

(* Mutant of Claimed: a tree is claimed whatever its role.                 *)
ClaimedInAnyRole(key) == \E inherited \in BOOLEAN : <<key[1], inherited>> \in claimed

Claimed(key) == key \in claimed

(* collector.claim, and an early return if somebody has the tree already.  *)
Claim(w) ==
  LET key == <<Head(todo[w]).object, Head(todo[w]).legal>> IN
  /\ worker[w] = "work"
  /\ Head(todo[w]).kind = "dir"
  /\ IF Claimed(key)
     THEN Advance(w) /\ UNCHANGED claimed
     ELSE /\ claimed' = claimed \cup {key}
          /\ worker' = [worker EXCEPT ![w] = "read"]
          /\ UNCHANGED todo
  /\ UNCHANGED <<fixedVars, mainVars, tasks, tasksClosed, legal, firstErr, cancelled>>

ReadTree(w) ==
  LET rest == Children(<<Head(todo[w]).object, Head(todo[w]).legal>>) \o Tail(todo[w]) IN
  /\ worker[w] = "read"
  /\ todo' = [todo EXCEPT ![w] = rest]
  /\ worker' = [worker EXCEPT ![w] = IF rest = <<>> THEN "idle" ELSE "work"]
  /\ UNCHANGED <<fixedVars, mainVars, tasks, tasksClosed, claimed, legal, firstErr, cancelled>>

(* Mutants of ReadFails: the context is cancelled and no error kept; the   *)
(* error is kept and nobody told.                                          *)
ReadFailsNoError(w) ==
  /\ worker[w] = "read"
  /\ cancelled' = TRUE
  /\ worker' = [worker EXCEPT ![w] = "done"]
  /\ todo' = [todo EXCEPT ![w] = <<>>]
  /\ UNCHANGED <<fixedVars, mainVars, tasks, tasksClosed, claimed, legal, firstErr>>

ReadFailsNoCancel(w) ==
  /\ worker[w] = "read"
  /\ firstErr' = TRUE
  /\ worker' = [worker EXCEPT ![w] = "done"]
  /\ todo' = [todo EXCEPT ![w] = <<>>]
  /\ UNCHANGED <<fixedVars, mainVars, tasks, tasksClosed, claimed, legal, cancelled>>

(* The tree is missing or malformed.  Under errMu the first error is kept  *)
(* and the context cancelled; the worker drops its batch and leaves.       *)
ReadFails(w) ==
  /\ worker[w] = "read"
  /\ firstErr' = TRUE
  /\ cancelled' = TRUE
  /\ worker' = [worker EXCEPT ![w] = "done"]
  /\ todo' = [todo EXCEPT ![w] = <<>>]
  /\ UNCHANGED <<fixedVars, mainVars, tasks, tasksClosed, claimed, legal>>

WorkerStep(w) ==
  \/ WorkerTake(w)
  \/ WorkerExit(w)

DescendStep(w) ==
  \/ VisitFile(w)
  \/ Claim(w)
  \/ ReadTree(w)

-----------------------------------------------------------------------------
MainStep ==
  \/ VisitCommit
  \/ Descended
  \/ WalkEnd
  \/ Enqueue
  \/ EnqueueCancelled
  \/ CloseTasks
  \/ Return

Done ==
  /\ outcome # "running"
  /\ UNCHANGED vars

Next ==
  \/ MainStep
  \/ CommitFails
  \/ DescendFails
  \/ \E w \in crew : WorkerStep(w) \/ ReadFails(w)
  \/ \E w \in Descenders : DescendStep(w)
  \/ Done

(* As long as a goroutine can run, one of them does; which of them is left *)
(* open, and nothing obliges the store to fail.                            *)
Fairness ==
  WF_vars(\/ MainStep
          \/ \E w \in crew : WorkerStep(w)
          \/ \E w \in Descenders : DescendStep(w))

Safety == Init /\ [][Next]_vars

Spec == Safety /\ Fairness

-----------------------------------------------------------------------------
(* Types; a batch in the channel is never empty, and a worker at work has  *)
(* something to do.                                                        *)
TypeOK ==
  /\ repo \in Repos
  /\ crew \in Crews
  /\ batchSize \in BatchSizes
  /\ main \in {"walk", "descend", "enqueue", "last", "close", "wait", "returned"}
  /\ stack \in Seq(Commits)
  /\ seen \subseteq Commits
  /\ batch \in Seq(Trees)
  /\ visitErr \in BOOLEAN
  /\ tasks \in Seq(Seq(Trees))
  /\ \A i \in DOMAIN tasks : tasks[i] # <<>>
  /\ main \in {"enqueue", "last"} => batch # <<>>
  /\ tasksClosed \in BOOLEAN
  /\ worker \in [Descenders -> {"idle", "work", "read", "done"}]
  /\ todo \in [Descenders -> Seq(EntryType)]
  /\ \A w \in Descenders : worker[w] \in {"work", "read"} <=> todo[w] # <<>>
  /\ \A w \in Descenders : worker[w] = "read" => Head(todo[w]).kind = "dir"
  /\ claimed \subseteq Keys
  /\ legal \subseteq Blobs
  /\ firstErr \in BOOLEAN
  /\ cancelled \in BOOLEAN
  /\ outcome \in {"running", "ok", "failed"}

-----------------------------------------------------------------------------
(* What is to be found, without the order in which it is.                  *)

CommitClosed(S) ==
  /\ ToSet(repo.roots) \subseteq S
  /\ \A c \in S : ToSet(ParentsOf(c)) \subseteq S

Reachable == {c \in Commits : \A S \in SUBSET Commits : CommitClosed(S) => c \in S}

DirKeys(jobs) ==
  {<<j.object, j.legal>> : j \in {j \in ToSet(jobs) : j.kind = "dir"}}

ReachableKeys ==
  LET start == {<<repo.tree[c], FALSE>> : c \in Reachable}
      below == [k \in Keys |-> DirKeys(Children(k))]
      closed == {K \in SUBSET Keys : start \subseteq K /\ \A k \in K : below[k] \subseteq K}
  IN {k \in Keys : \A K \in closed : k \in K}

LegalFiles(jobs) ==
  {j.object : j \in {j \in ToSet(jobs) : j.kind = "file" /\ j.legal}}

LegalBlobs == UNION {LegalFiles(Children(k)) : k \in ReachableKeys}

(* A collection that succeeds has found every blob that some commit holds  *)
(* under a legal path, and no other.  A tree that one worker has claimed   *)
(* and not finished is passed over by the others, so none may return       *)
(* before its claims are worked off; and claiming a tree in one role must  *)
(* not hide it in the other.                                               *)
CompleteLegal == outcome = "ok" => legal = LegalBlobs

(* The batch is an array of batchSize hashes: a cancelled enqueue that     *)
(* returned no error would let the walk write past its end.                *)
BatchFits == main = "walk" => Len(batch) < batchSize

(* Success or failure, the collection returns.                             *)
Returns == <>(outcome # "running")
=============================================================================
