----------------------------- MODULE WalkProofs -----------------------------
(***************************************************************************)
(* Proofs about the two ways to walk a history: with several workers       *)
(* (HistoryStream), and with git log or with one worker (WalkChanges).     *)
(*                                                                         *)
(* The parallel walk and its tree cache, for a history of any length and   *)
(* shape, any number of workers and any window.  The window and the        *)
(* channel hold consecutive commits (Ordered), so that "not yet visited"   *)
(* and "already taken" are comparisons with two numbers, and each commit   *)
(* between the two is with one worker or has its result (Assigned).  A     *)
(* worker wants the tree of its commit or of a later one (Wanting); as     *)
(* none works on a commit that was visited, no tree is asked for after it  *)
(* was released, and the cache has just what was loaded of the commits     *)
(* that are not yet visited (Cached).  What was visited is the walk up to  *)
(* the oldest commit (Visiting), which makes each visit the next one of    *)
(* module HistoryWalk.                                                     *)
(*                                                                         *)
(* walkChanges, for any set of repositories whose commits have no cycle.   *)
(* With git, the pipe and what the child is yet to print are the rest of   *)
(* one output (InStream), or its beginning if the child died, and the      *)
(* parser knows how far it is (Place): so many fields read, the k-th       *)
(* commit, j of its changes passed.  The end of the history is where no    *)
(* field is left (AtField), and only a child that exited is believed.      *)
(*                                                                         *)
(* With gogit, historyRoots has found what HEAD and the references begun   *)
(* lead to, or is on its way there (RootsFound).  The nodes that are ready *)
(* are those of the commits met whose children are all yielded and that    *)
(* are not (Frontier), and the walk is in order (InOrder).  When none is   *)
(* ready, all are yielded: the oldest one that is not would be.  If the    *)
(* boundary is cut off, each node yielded has the parents that git shows   *)
(* (Fit), so that the commits met are those of the history.                *)
(*                                                                         *)
(* Either way the changes passed are those of the commits of an order of   *)
(* the history.  A legal file of a commit was added by the oldest commit   *)
(* of the history, upward along first parents, that has it.                *)
(***************************************************************************)
EXTENDS HistoryStream, WalkChanges, SequenceTheorems, FiniteSetTheorems,
        WellFoundedInduction, TLAPS

(* The oldest commit not yet visited; the last that was sent, and taken.   *)
Oldest == next - Len(pending)
LastSent == IF main = "send" THEN next - 2 ELSE next - 1
LastTaken == LastSent - Len(tasks)

Ordered ==
  /\ \A i \in 1..Len(pending) : pending[i] = Oldest + i - 1
  /\ \A i \in 1..Len(tasks) : tasks[i] = LastTaken + i
  /\ Oldest >= 1
  /\ LastTaken + 1 >= Oldest

Assigned ==
  /\ \A w \in Workers : task[w] = 0 <=> worker[w] \in {"idle", "done"}
  /\ \A w \in Workers : task[w] # 0 =>
       task[w] >= Oldest /\ task[w] <= LastTaken /\ result[task[w]] = "none"
  /\ \A v, w \in Workers : task[v] = task[w] /\ task[v] # 0 => v = w
  /\ \A c \in Positions : result[c] # "none" => c >= Oldest /\ c <= LastTaken

Wanting ==
  /\ \A w \in Workers :
       /\ worker[w] \in {"lookup", "load", "await"} =>
            want[w] # 0 /\ want[w] \in {task[w], firstParent[task[w]]}
       /\ worker[w] \in {"load", "await"} => entry[w] = 1 /\ Len(loads[want[w]]) = 1
       /\ worker[w] = "load" => loads[want[w]][1] = "loading"
  /\ \A v, w \in Workers :
       worker[v] = "load" /\ worker[w] = "load" /\ want[v] = want[w] => v = w
  /\ \A c \in Positions : Len(loads[c]) = 1 /\ loads[c][1] = "loading" =>
       \E w \in Workers : worker[w] = "load" /\ want[w] = c

Cached ==
  \A c \in Positions :
    Len(loads[c]) <= 1 /\ trees[c] = IF c >= Oldest THEN Len(loads[c]) ELSE 0

Closing ==
  /\ eof => next = N + 1
  /\ main \in {"leave", "wait", "returned"} /\ ~failed => eof /\ pending = <<>>
  /\ outcome = "ok" => main = "returned" /\ ~failed

Inv == TypeOK /\ Ordered /\ Assigned /\ Wanting /\ Cached /\ Closing

-----------------------------------------------------------------------------
(* There is a worker, and room for one commit in the window.               *)
LEMMA WindowFacts == Cardinality(Workers) \in Nat /\ Window \in Nat /\ Window >= 1
<1>1. Cardinality(Workers) \in Nat /\ Cardinality(Workers) # 0
  BY StreamAssumption, FS_CardinalityType, FS_EmptySet
<1>2. \A a, b \in Nat : a # 0 /\ b # 0 => a * b \in Nat /\ a * b >= 1
  OBVIOUS
<1> QED BY <1>1, <1>2, StreamAssumption DEF Window

(* What the counters are.                                                  *)
LEMMA CountFacts ==
  ASSUME TypeOK
  PROVE  /\ N \in Nat /\ next \in Nat /\ Positions \subseteq Nat
         /\ Len(pending) \in Nat /\ Len(tasks) \in Nat
         /\ Oldest \in Int /\ LastSent \in Int /\ LastTaken \in Int
<1>1. N \in Nat /\ Positions \subseteq Nat /\ next \in Nat
  BY StreamAssumption DEF TypeOK, Positions
<1>2. Len(pending) \in Nat /\ Len(tasks) \in Nat
  BY DEF TypeOK
<1> QED BY <1>1, <1>2 DEF Oldest, LastSent, LastTaken

(* The last of a sequence.                                                 *)
LEMMA LastFacts ==
  ASSUME NEW S, NEW s \in Seq(S), s # <<>>
  PROVE  Len(s) \in Nat \ {0} /\ Last(s) = s[Len(s)] /\ Last(s) \in S
<1>1. Len(s) \in Nat \ {0}
  BY EmptySeq
<1> QED BY <1>1 DEF Last

-----------------------------------------------------------------------------
(* Types.                                                                  *)

(* A worker that is through with its commit.                               *)
LEMMA FinishType ==
  ASSUME TypeOK, NEW w \in Workers, task[w] \in Positions, NEW r \in {"ok", "err"}, Finish(w, r)
  PROVE  /\ result' \in [Positions -> {"none", "ok", "err"}]
         /\ worker' \in [Workers -> {"idle", "commit", "lookup", "load", "await", "diff", "done"}]
         /\ task' \in [Workers -> 0..N]
         /\ want' \in [Workers -> 0..N]
         /\ entry' \in [Workers -> Nat]
<1>1. 0 \in 0..N /\ 0 \in Nat
  BY StreamAssumption
<1> QED BY <1>1 DEF TypeOK, Finish

(* A worker that has a tree.                                               *)
LEMMA LoadedType ==
  ASSUME TypeOK, NEW w \in Workers, task[w] \in Positions, NEW r \in {"ok", "err"}, Loaded(w, r)
  PROVE  /\ result' \in [Positions -> {"none", "ok", "err"}]
         /\ worker' \in [Workers -> {"idle", "commit", "lookup", "load", "await", "diff", "done"}]
         /\ task' \in [Workers -> 0..N]
         /\ want' \in [Workers -> 0..N]
         /\ entry' \in [Workers -> Nat]
<1>1. CASE Finish(w, r)
  BY <1>1, FinishType
<1>2. CASE UNCHANGED <<result, task>>
  <2>2. firstParent[task[w]] \in 0..N
    BY DEF TypeOK
  <2>3. r = "ok" \/ Finish(w, r)
    BY DEF Loaded
  <2>4. CASE r = "ok"
    <3>1. 0 \in 0..N /\ 0 \in Nat
      BY StreamAssumption
    <3>2. /\ result' = result /\ task' = task
          /\ \E p \in {"lookup", "diff"} : worker' = [worker EXCEPT ![w] = p]
          /\ \E c \in 0..N : want' = [want EXCEPT ![w] = c]
          /\ entry' = [entry EXCEPT ![w] = 0]
      BY <1>2, <2>2, <2>4, <3>1 DEF Loaded
    <3> QED BY <3>1, <3>2 DEF TypeOK
  <2> QED BY <1>1, <2>3, <2>4
<1> QED BY <1>1, <1>2 DEF Loaded

(* The only load of a tree has an outcome, and gets one.                   *)
LEMMA OneStatus ==
  ASSUME NEW S, NEW s \in Seq(S), Len(s) = 1
  PROVE  /\ s[1] \in S /\ \A r \in S : [s EXCEPT ![1] = r] \in Seq(S)
         /\ \A r \in S : Len([s EXCEPT ![1] = r]) = 1 /\ [s EXCEPT ![1] = r][1] = r
<1>1. s \in [1..1 -> S] /\ 1 \in 1..1
  <2>1. s \in [1..Len(s) -> S]
    BY LenProperties
  <2> QED BY <2>1
<1>2. \A r \in S : [s EXCEPT ![1] = r] \in [1..1 -> S] /\ [s EXCEPT ![1] = r][1] = r
  BY <1>1
<1>3. \A f \in [1..1 -> S] : f \in Seq(S) /\ Len(f) = 1
  <2>1. \A n \in Nat : \A f \in [1..n -> S] : f \in Seq(S) /\ Len(f) = n
    OBVIOUS
  <2> QED BY <2>1
<1> QED BY <1>1, <1>2, <1>3

(* Every variable keeps its type.                                          *)
LEMMA TypeStep ==
  ASSUME Inv, [Next]_vars
  PROVE  TypeOK'
<1> USE DEF graphVars, mainVars, workerVars, cacheVars
<1>a. TypeOK /\ N \in Nat /\ Positions = 1..N
  BY StreamAssumption DEF Inv, Positions
<1>b. UNCHANGED graphVars => GraphOK'
  BY <1>a DEF TypeOK, GraphOK, Skipped
<1>c. \A w \in Workers : worker[w] \notin {"idle", "done"} => task[w] \in Positions
  BY <1>a DEF TypeOK, Inv, Assigned
<1>d. \A w \in Workers : worker[w] \in {"lookup", "load", "await"} => want[w] \in Positions
  BY <1>a DEF TypeOK, Inv, Wanting
<1>e. \A w \in Workers : worker[w] \in {"load", "await"} =>
        entry[w] = 1 /\ Len(loads[want[w]]) = 1
  BY DEF Inv, Wanting
<1>f. ASSUME NEW c \in Positions, Len(loads[c]) = 1
      PROVE  /\ loads[c][1] \in {"loading", "ok", "err"}
             /\ \A r \in {"ok", "err"} :
                  [loads[c] EXCEPT ![1] = r] \in Seq({"loading", "ok", "err"})
  BY <1>a, <1>f, OneStatus DEF TypeOK
<1>1. CASE NextCommit
  <2>1. next \in Positions
    BY <1>1, <1>a DEF NextCommit, TypeOK
  <2>2. pending' \in Seq(Positions) /\ pending' # <<>>
    <3>1. pending \in Seq(Positions) /\ pending' = Append(pending, next)
      BY <1>1, <1>a DEF NextCommit, TypeOK
    <3> QED BY <2>1, <3>1
  <2>3. next' \in 1..(N + 1)
    BY <1>1, <1>a, <2>1 DEF NextCommit
  <2> QED BY <1>1, <1>a, <1>b, <2>2, <2>3 DEF NextCommit, TypeOK
<1>2. CASE StreamEnd \/ StreamFails \/ Filled \/ CloseTasks \/ Return
  BY <1>2, <1>a, <1>b DEF StreamEnd, StreamFails, Filling, Filled, CloseTasks, Return, TypeOK
<1>3. CASE SendTask
  <2>1. Last(pending) \in Positions
    BY <1>3, <1>a, <1>b, LastFacts DEF SendTask, TypeOK
  <2>2. tasks' \in Seq(Positions)
    BY <1>3, <1>a, <1>b, <2>1 DEF SendTask, TypeOK
  <2> QED BY <1>3, <1>a, <1>b, <2>2 DEF SendTask, TypeOK
<1>4. CASE Receive
  <2>1. pending # <<>> /\ Head(pending) \in Positions /\ Tail(pending) \in Seq(Positions)
    BY <1>4, <1>a, <1>b, HeadTailProperties DEF Receive, TypeOK
  <2>2. Append(visited, Head(pending)) \in Seq(Positions)
    BY <1>a, <2>1 DEF TypeOK
  <2>3. /\ pending' \in Seq(Positions) /\ visited' \in Seq(Positions) /\ failed' \in BOOLEAN
        /\ main' \in {"leave", "fill"} /\ trees' \in [Positions -> Nat]
    <3> DEFINE c == Head(pending)
    <3>1. CASE result[c] = "err"
      BY <1>4, <1>a, <3>1 DEF Receive, Abort, TypeOK
    <3>2. CASE result[c] # "err"
      <4>1. /\ main' = "fill" /\ pending' = Tail(pending) /\ UNCHANGED failed
            /\ visited' = IF Skipped(c) THEN visited ELSE Append(visited, c)
            /\ trees' = [trees EXCEPT ![c] = 0]
        BY <1>4, <3>2 DEF Receive, Release
      <4> QED BY <1>a, <2>1, <2>2, <4>1 DEF TypeOK
    <3> QED BY <3>1, <3>2
  <2>4. result' \in [Positions -> {"none", "ok", "err"}]
    BY <1>4, <1>a, <1>b, <2>1 DEF Receive, TypeOK
  <2> QED BY <1>4, <1>a, <1>b, <2>3, <2>4 DEF Receive, TypeOK
<1>5. ASSUME NEW w \in Workers, Take(w) PROVE TypeOK'
  <2>0. tasks # <<>> /\ tasks \in Seq(Positions) /\ tasks' = Tail(tasks)
    BY <1>5, <1>a DEF Take, TypeOK
  <2>1. Head(tasks) \in Positions /\ tasks' \in Seq(Positions) /\ Head(tasks) \in 0..N
    BY <1>a, <2>0, HeadTailProperties
  <2> QED BY <1>5, <1>a, <1>b, <2>1 DEF Take, TypeOK
<1>6. ASSUME NEW w \in Workers, WorkerExit(w) PROVE TypeOK'
  BY <1>6, <1>a, <1>b DEF WorkerExit, TypeOK
<1>7. ASSUME NEW w \in Workers, LookUpCommit(w) PROVE TypeOK'
  <2>1. task[w] \in Positions
    BY <1>7, <1>c DEF LookUpCommit
  <2>2. CASE Finish(w, "ok")
    BY <1>7, <1>a, <1>b, <2>1, <2>2, FinishType DEF LookUpCommit, TypeOK
  <2>3. CASE ~Finish(w, "ok")
    BY <1>7, <1>a, <1>b, <2>3 DEF LookUpCommit, TypeOK
  <2> QED BY <2>2, <2>3
<1>8. ASSUME NEW w \in Workers, CacheLookup(w) PROVE TypeOK'
  <2>1. want[w] \in Positions
    BY <1>8, <1>d DEF CacheLookup
  <2>2. Len(loads[want[w]]) + 1 \in Nat /\ trees[want[w]] \in Nat
        /\ Append(loads[want[w]], "loading") \in Seq({"loading", "ok", "err"})
    BY <1>a, <2>1 DEF TypeOK
  <2>3. loads' \in [Positions -> Seq({"loading", "ok", "err"})] /\ trees' \in [Positions -> Nat]
        /\ entry' \in [Workers -> Nat]
    BY <1>8, <1>a, <1>b, <2>2 DEF CacheLookup, TypeOK
  <2>4. worker' \in [Workers -> {"idle", "commit", "lookup", "load", "await", "diff", "done"}]
    BY <1>8, <1>a, <1>b DEF CacheLookup, TypeOK
  <2> QED BY <1>8, <1>a, <1>b, <2>3, <2>4 DEF CacheLookup, TypeOK
<1>9. ASSUME NEW w \in Workers, NEW r \in {"ok", "err"}, LoadTree(w, r) PROVE TypeOK'
  <2>1. task[w] \in Positions /\ want[w] \in Positions /\ entry[w] = 1 /\ Len(loads[want[w]]) = 1
    BY <1>9, <1>c, <1>d, <1>e DEF LoadTree
  <2>2. [loads[want[w]] EXCEPT ![1] = r] \in Seq({"loading", "ok", "err"})
    BY <2>1, <1>f
  <2>3. loads' = [loads EXCEPT ![want[w]] = [loads[want[w]] EXCEPT ![1] = r]]
    BY <1>9, <1>a, <1>b, <2>1 DEF LoadTree, TypeOK
  <2>4. loads' \in [Positions -> Seq({"loading", "ok", "err"})]
    BY <1>a, <2>2, <2>3 DEF TypeOK
  <2> QED BY <1>9, <1>a, <1>b, <2>1, <2>4, LoadedType DEF LoadTree, TypeOK
<1>10. ASSUME NEW w \in Workers, Await(w) PROVE TypeOK'
  <2>1. task[w] \in Positions /\ want[w] \in Positions /\ entry[w] = 1 /\ Len(loads[want[w]]) = 1
    BY <1>10, <1>c, <1>d, <1>e DEF Await
  <2>2. loads[want[w]][entry[w]] \in {"ok", "err"}
    BY <1>10, <2>1, <1>f DEF Await
  <2> QED BY <1>10, <1>a, <1>b, <2>1, <2>2, LoadedType DEF Await, TypeOK
<1>11. ASSUME NEW w \in Workers, DiffTrees(w) \/ WorkFails(w) PROVE TypeOK'
  <2>1. task[w] \in Positions
    BY <1>11, <1>c DEF DiffTrees, WorkFails
  <2>2. \E r \in {"ok", "err"} : Finish(w, r)
    BY <1>11 DEF DiffTrees, WorkFails
  <2> QED BY <1>11, <1>a, <1>b, <2>1, <2>2, FinishType DEF DiffTrees, WorkFails, TypeOK
<1>12. CASE UNCHANGED vars
  BY <1>12, <1>a, <1>b DEF vars, TypeOK
<1> QED
  BY <1>1, <1>2, <1>3, <1>4, <1>5, <1>6, <1>7, <1>8, <1>9, <1>10, <1>11, <1>12
     DEF Next, MainStep, WorkerStep, Done

-----------------------------------------------------------------------------
(* Order.                                                                  *)

(* How each step moves the counters, and keeps both sequences in order.    *)
LEMMA NextOrder ==
  ASSUME Inv, NextCommit
  PROVE  Oldest' = Oldest /\ LastTaken' = LastTaken /\ Ordered'
<1>a. /\ N \in Nat /\ next \in Nat /\ Len(pending) \in Nat /\ Len(tasks) \in Nat
      /\ Oldest \in Int /\ LastTaken \in Int
  BY CountFacts DEF Inv
<1>1. /\ next' = next + 1 /\ tasks' = tasks /\ main = "fill" /\ main' = "send"
      /\ pending' = Append(pending, next) /\ next \in Positions
  BY StreamAssumption DEF NextCommit, Filling, Inv, TypeOK, Positions
<1>2. /\ Len(pending') = Len(pending) + 1
      /\ \A i \in 1..Len(pending') : pending'[i] = IF i = Len(pending) + 1 THEN next ELSE pending[i]
  BY <1>1 DEF Inv, TypeOK
<1>3. Oldest' = Oldest /\ LastTaken' = LastTaken
  BY <1>a, <1>1, <1>2 DEF Oldest, LastTaken, LastSent
<1>4. Len(pending) + 1 = next + 1 - Oldest
  BY <1>a DEF Oldest
<1>5. \A i \in 1..Len(pending') : pending'[i] = Oldest + i - 1
  <2> TAKE i \in 1..Len(pending')
  <2>1. CASE i = Len(pending) + 1
    BY <1>a, <1>2, <1>4, <2>1
  <2>2. CASE i # Len(pending) + 1
    <3>1. i \in 1..Len(pending)
      BY <1>a, <1>2, <2>2
    <3> QED BY <1>2, <2>2, <3>1 DEF Inv, Ordered
  <2> QED BY <2>1, <2>2
<1> QED BY <1>1, <1>3, <1>5 DEF Inv, Ordered

(* SendTask sends the commit that is last in the window.                   *)
LEMMA SendOrder ==
  ASSUME Inv, SendTask
  PROVE  Oldest' = Oldest /\ LastTaken' = LastTaken /\ Ordered'
<1>a. /\ N \in Nat /\ next \in Nat /\ Len(pending) \in Nat /\ Len(tasks) \in Nat
      /\ Oldest \in Int /\ LastTaken \in Int
  BY CountFacts DEF Inv
<1>1. /\ UNCHANGED <<next, pending>> /\ main = "send" /\ main' = "fill" /\ pending # <<>>
      /\ tasks' = Append(tasks, Last(pending)) /\ pending \in Seq(Positions) /\ tasks \in Seq(Positions)
  BY DEF SendTask, mainVars, Inv, TypeOK
<1>2. Len(pending) \in Nat \ {0} /\ Last(pending) = pending[Len(pending)] /\ Last(pending) \in Positions
  BY <1>1, LastFacts
<1>3. Last(pending) = next - 1
  <2>1. Last(pending) = Oldest + Len(pending) - 1
    BY <1>2 DEF Inv, Ordered
  <2> QED BY <1>a, <2>1 DEF Oldest
<1>4. /\ Len(tasks') = Len(tasks) + 1
      /\ \A i \in 1..Len(tasks') : tasks'[i] = IF i = Len(tasks) + 1 THEN next - 1 ELSE tasks[i]
  BY <1>1, <1>2, <1>3
<1>5. Oldest' = Oldest /\ LastTaken' = LastTaken
  BY <1>a, <1>1, <1>4 DEF Oldest, LastTaken, LastSent
<1>6. LastTaken + Len(tasks) + 1 = next - 1
  BY <1>a, <1>1 DEF LastTaken, LastSent
<1>7. \A i \in 1..Len(tasks') : tasks'[i] = LastTaken + i
  <2> TAKE i \in 1..Len(tasks')
  <2>1. CASE i = Len(tasks) + 1
    BY <1>a, <1>4, <1>6, <2>1
  <2>2. CASE i # Len(tasks) + 1
    <3>1. i \in 1..Len(tasks)
      BY <1>a, <1>4, <2>2
    <3> QED BY <1>4, <2>2, <3>1 DEF Inv, Ordered
  <2> QED BY <2>1, <2>2
<1> QED BY <1>1, <1>5, <1>7 DEF Inv, Ordered

(* What Receive does.                                                      *)
LEMMA ReceiveFacts ==
  ASSUME Inv, Receive
  PROVE  /\ pending # <<>> /\ Head(pending) = Oldest /\ Oldest \in Positions
         /\ result[Oldest] # "none" /\ Oldest <= LastTaken
         /\ result' = [result EXCEPT ![Oldest] = "none"]
         /\ IF result[Oldest] = "err"
            THEN main' = "leave" /\ failed' /\ UNCHANGED <<pending, trees>>
            ELSE /\ main' = "fill" /\ pending' = Tail(pending) /\ UNCHANGED failed
                 /\ trees' = [trees EXCEPT ![Oldest] = 0]
         /\ main = "receive" /\ UNCHANGED <<next, eof, outcome, tasks, workerVars, loads>>
<1>1. main = "receive" /\ pending # <<>> /\ pending \in Seq(Positions)
  BY DEF Inv, TypeOK, Receive
<1>2. Len(pending) \in Nat \ {0} /\ Head(pending) = pending[1] /\ Head(pending) \in Positions
  BY <1>1, EmptySeq, HeadTailProperties
<1>3. Oldest \in Int
  BY CountFacts DEF Inv
<1>4. Head(pending) = Oldest
  <2>1. pending[1] = Oldest + 1 - 1
    BY <1>2 DEF Inv, Ordered
  <2> QED BY <1>2, <1>3, <2>1
<1>5. result[Oldest] # "none" /\ Oldest \in Positions
  BY <1>2, <1>4 DEF Receive
<1>6. Oldest <= LastTaken
  BY <1>5 DEF Inv, Assigned
<1> QED BY <1>1, <1>4, <1>5, <1>6 DEF Receive, Abort, Release

(* Receive leaves the window, or takes its oldest commit off it.           *)
LEMMA ReceiveOrder ==
  ASSUME Inv, Receive
  PROVE  /\ Oldest' = IF result[Oldest] = "err" THEN Oldest ELSE Oldest + 1
         /\ LastTaken' = LastTaken /\ Ordered'
<1>a. /\ N \in Nat /\ next \in Nat /\ Len(pending) \in Nat /\ Len(tasks) \in Nat
      /\ Oldest \in Int /\ LastTaken \in Int
  BY CountFacts DEF Inv
<1>1. LastTaken' = LastTaken
  BY ReceiveFacts DEF LastTaken, LastSent
<1>2. CASE result[Oldest] = "err"
  <2>1. Oldest' = Oldest
    BY <1>2, ReceiveFacts DEF Oldest
  <2>2. UNCHANGED <<pending, tasks>>
    BY <1>2, ReceiveFacts
  <2> QED BY <1>1, <1>2, <2>1, <2>2 DEF Inv, Ordered
<1>3. CASE result[Oldest] # "err"
  <2>1. pending \in Seq(Positions) /\ pending # <<>> /\ pending' = Tail(pending) /\ next' = next
    BY <1>3, ReceiveFacts DEF Inv, TypeOK
  <2>2. /\ Len(pending') = Len(pending) - 1
        /\ \A i \in 1..Len(pending') : pending'[i] = pending[i + 1]
    BY <2>1, EmptySeq
  <2>3. Oldest' = Oldest + 1
    BY <1>a, <2>1, <2>2 DEF Oldest
  <2>4. \A i \in 1..Len(pending') : pending'[i] = Oldest' + i - 1
    <3> TAKE i \in 1..Len(pending')
    <3>1. i \in Nat /\ i + 1 \in 1..Len(pending)
      BY <1>a, <2>2
    <3>2. pending[i + 1] = Oldest + (i + 1) - 1
      BY <3>1 DEF Inv, Ordered
    <3> QED BY <1>a, <2>2, <2>3, <3>1, <3>2
  <2>5. Oldest' >= 1 /\ LastTaken' + 1 >= Oldest'
    BY <1>a, <1>1, <2>3, ReceiveFacts DEF Inv, Ordered
  <2>6. \A i \in 1..Len(tasks') : tasks'[i] = LastTaken' + i
    BY <1>1, ReceiveFacts DEF Inv, Ordered
  <2> QED BY <1>1, <1>3, <2>3, <2>4, <2>5, <2>6 DEF Ordered
<1> QED BY <1>2, <1>3

(* A worker takes the commit after the last one taken.                     *)
LEMMA TakeOrder ==
  ASSUME Inv, NEW w \in Workers, Take(w)
  PROVE  /\ Oldest' = Oldest /\ LastTaken' = LastTaken + 1 /\ Ordered'
         /\ Head(tasks) = LastTaken + 1
<1>a. /\ N \in Nat /\ next \in Nat /\ Len(pending) \in Nat /\ Len(tasks) \in Nat
      /\ Oldest \in Int /\ LastTaken \in Int
  BY CountFacts DEF Inv
<1>1. /\ tasks \in Seq(Positions) /\ tasks # <<>> /\ tasks' = Tail(tasks)
      /\ UNCHANGED <<next, pending, main>>
  BY DEF Take, mainVars, Inv, TypeOK
<1>2. /\ Len(tasks) \in Nat \ {0} /\ Len(tasks') = Len(tasks) - 1 /\ Head(tasks) = tasks[1]
      /\ \A i \in 1..Len(tasks') : tasks'[i] = tasks[i + 1]
  BY <1>1, EmptySeq
<1>3. Oldest' = Oldest
  BY <1>1 DEF Oldest
<1>4. LastTaken' = LastTaken + 1
  BY <1>a, <1>1, <1>2 DEF LastTaken, LastSent
<1>5. \A i \in 1..Len(tasks') : tasks'[i] = LastTaken' + i
  <2> TAKE i \in 1..Len(tasks')
  <2>1. i \in Nat /\ i + 1 \in 1..Len(tasks)
    BY <1>a, <1>2
  <2>2. tasks[i + 1] = LastTaken + (i + 1)
    BY <2>1 DEF Inv, Ordered
  <2> QED BY <1>a, <1>2, <1>4, <2>1, <2>2
<1>6. Head(tasks) = LastTaken + 1
  BY <1>2 DEF Inv, Ordered
<1>7. Oldest >= 1 /\ LastTaken' + 1 >= Oldest
  BY <1>a, <1>4 DEF Inv, Ordered
<1> QED BY <1>1, <1>3, <1>4, <1>5, <1>6, <1>7 DEF Inv, Ordered

(* The other steps leave them alone.                                       *)
LEMMA OtherOrder ==
  ASSUME Inv, UNCHANGED <<next, pending, tasks>>, main = "send" <=> main' = "send"
  PROVE  Oldest' = Oldest /\ LastTaken' = LastTaken /\ Ordered'
<1>1. Oldest' = Oldest /\ LastTaken' = LastTaken
  BY DEF Oldest, LastTaken, LastSent
<1> QED BY <1>1 DEF Inv, Ordered

-----------------------------------------------------------------------------
(* Who works on what.                                                      *)

(* A worker's step, but for Take, finishes its commit or goes on with it.  *)
GoesOn(w) ==
  /\ UNCHANGED <<task, result>>
  /\ \A v \in Workers : worker'[v] \in {"idle", "done"} <=> worker[v] \in {"idle", "done"}

(* One or the other.                                                       *)
LEMMA WorkerKinds ==
  ASSUME Inv, NEW w \in Workers,
         \/ WorkerExit(w) \/ LookUpCommit(w) \/ CacheLookup(w) \/ LoadTree(w, "ok") \/ LoadTree(w, "err")
         \/ Await(w) \/ DiffTrees(w) \/ WorkFails(w)
  PROVE  /\ GoesOn(w) \/ (worker[w] \notin {"idle", "done"} /\ \E r \in {"ok", "err"} : Finish(w, r))
         /\ UNCHANGED <<graphVars, mainVars, tasks, tasksClosed>>
<1>a. worker \in [Workers -> {"idle", "commit", "lookup", "load", "await", "diff", "done"}]
  BY DEF Inv, TypeOK
<1>1. ASSUME NEW r, Loaded(w, r), worker[w] \in {"load", "await"}
      PROVE  GoesOn(w) \/ Finish(w, "err")
  BY <1>1, <1>a DEF Loaded, GoesOn
<1>2. CASE WorkerExit(w)
  BY <1>2, <1>a DEF WorkerExit, GoesOn
<1>3. CASE LookUpCommit(w)
  <2>1. CASE Finish(w, "ok")
    BY <1>3, <2>1 DEF LookUpCommit
  <2>2. CASE ~Finish(w, "ok")
    BY <1>3, <2>2, <1>a DEF LookUpCommit, GoesOn
  <2> QED BY <2>1, <2>2
<1>4. CASE CacheLookup(w)
  BY <1>4, <1>a DEF CacheLookup, GoesOn
<1>5. CASE LoadTree(w, "ok") \/ LoadTree(w, "err") \/ Await(w)
  <2>1. worker[w] \in {"load", "await"} /\ \E r : Loaded(w, r)
    BY <1>5 DEF LoadTree, Await
  <2>2. UNCHANGED <<graphVars, mainVars, tasks, tasksClosed>>
    BY <1>5 DEF LoadTree, Await
  <2> QED BY <1>1, <2>1, <2>2
<1>6. CASE DiffTrees(w) \/ WorkFails(w)
  BY <1>6 DEF DiffTrees, WorkFails
<1> QED BY <1>2, <1>3, <1>4, <1>5, <1>6

(* Each commit between the oldest and the last taken stays in one place.   *)
LEMMA TakeAssigns ==
  ASSUME Inv, NEW w \in Workers, Take(w)
  PROVE  Assigned'
<1>a. TypeOK /\ Assigned /\ Ordered /\ Oldest \in Int /\ LastTaken \in Int
  BY CountFacts DEF Inv
<1>1. Oldest' = Oldest /\ LastTaken' = LastTaken + 1 /\ Head(tasks) = LastTaken + 1
  BY TakeOrder
<1>2. /\ worker[w] = "idle" /\ worker' = [worker EXCEPT ![w] = "commit"]
      /\ task' = [task EXCEPT ![w] = LastTaken + 1] /\ result' = result
  BY <1>1 DEF Take
<1>3. LastTaken + 1 \in Positions
  <2>1. tasks # <<>> /\ tasks \in Seq(Positions)
    BY <1>a DEF Take, TypeOK
  <2> QED BY <1>1, <2>1, HeadTailProperties
<1>4. LastTaken + 1 >= Oldest /\ LastTaken + 1 # 0 /\ result[LastTaken + 1] = "none"
  BY <1>3, <1>a DEF Ordered, Assigned, Positions
<1>5. \A v \in Workers : task[v] # 0 => task[v] # LastTaken + 1 /\ task[v] <= LastTaken + 1
  <2> TAKE v \in Workers
  <2> HAVE task[v] # 0
  <2>1. task[v] \in Int /\ task[v] <= LastTaken
    BY <1>a DEF TypeOK, Assigned
  <2> QED BY <2>1, <1>a
<1>6. /\ worker'[w] = "commit" /\ task'[w] = LastTaken + 1
      /\ \A v \in Workers \ {w} : worker'[v] = worker[v] /\ task'[v] = task[v]
  BY <1>2, <1>a DEF TypeOK
<1>7. \A v \in Workers : task'[v] = 0 <=> worker'[v] \in {"idle", "done"}
  BY <1>4, <1>6, <1>a DEF Assigned
<1>8. \A v \in Workers : task'[v] # 0 =>
        task'[v] >= Oldest /\ task'[v] <= LastTaken + 1 /\ result[task'[v]] = "none"
  BY <1>4, <1>5, <1>6, <1>a DEF Assigned
<1>9. \A u, v \in Workers : task'[u] = task'[v] /\ task'[u] # 0 => u = v
  BY <1>4, <1>5, <1>6, <1>a DEF Assigned
<1>10. \A c \in Positions : result[c] # "none" => c >= Oldest /\ c <= LastTaken + 1
  <2> TAKE c \in Positions
  <2> HAVE result[c] # "none"
  <2>1. c \in Int /\ c >= Oldest /\ c <= LastTaken
    BY <1>a DEF Assigned, Positions
  <2> QED BY <2>1, <1>a
<1> QED BY <1>1, <1>2, <1>7, <1>8, <1>9, <1>10 DEF Assigned

(* A commit that is finished has its result instead of its worker.         *)
LEMMA FinishAssigns ==
  ASSUME Inv, NEW w \in Workers, task[w] # 0, NEW r \in {"ok", "err"}, Finish(w, r),
         Oldest' = Oldest, LastTaken' = LastTaken
  PROVE  Assigned'
<1>a. TypeOK /\ Assigned
  BY DEF Inv
<1>1. task[w] \in Positions
  BY <1>a DEF TypeOK, Positions
<1>2. /\ worker'[w] = "idle" /\ task'[w] = 0
      /\ \A v \in Workers \ {w} : worker'[v] = worker[v] /\ task'[v] = task[v]
      /\ \A c \in Positions : result'[c] = IF c = task[w] THEN r ELSE result[c]
  BY <1>a, <1>1 DEF Finish, TypeOK
<1>3. \A v \in Workers : task'[v] # 0 => v # w /\ task'[v] = task[v] /\ task[v] # task[w]
                                        /\ task[v] \in Positions
  BY <1>2, <1>a DEF Assigned, TypeOK, Positions
<1>4. \A v \in Workers : task'[v] # 0 =>
        task'[v] >= Oldest /\ task'[v] <= LastTaken /\ result'[task'[v]] = "none"
  BY <1>2, <1>3, <1>a DEF Assigned
<1>5. \A c \in Positions : result'[c] # "none" => c >= Oldest /\ c <= LastTaken
  BY <1>2, <1>a DEF Assigned
<1> QED BY <1>2, <1>3, <1>4, <1>5, <1>a DEF Assigned

(* The oldest commit is with nobody once its result is received.           *)
LEMMA ReceiveAssigns ==
  ASSUME Inv, Receive
  PROVE  Assigned'
<1>a. TypeOK /\ Assigned /\ Oldest \in Int /\ LastTaken \in Int
  BY CountFacts DEF Inv
<1>1. /\ LastTaken' = LastTaken /\ Oldest' \in {Oldest, Oldest + 1}
      /\ UNCHANGED <<worker, task>> /\ Oldest \in Positions
      /\ \A c \in Positions : result'[c] = IF c = Oldest THEN "none" ELSE result[c]
  BY <1>a, ReceiveFacts, ReceiveOrder DEF TypeOK, workerVars
<1>2. \A v \in Workers : task[v] # 0 => task[v] \in Positions /\ task[v] > Oldest
  <2> TAKE v \in Workers
  <2> HAVE task[v] # 0
  <2>1. task[v] \in Positions /\ task[v] \in Int /\ task[v] >= Oldest /\ result[task[v]] = "none"
    BY <1>a DEF TypeOK, Assigned, Positions
  <2>2. task[v] # Oldest
    BY <2>1, ReceiveFacts
  <2> QED BY <2>1, <2>2, <1>a
<1>3. \A v \in Workers : task[v] # 0 =>
        task[v] >= Oldest' /\ task[v] <= LastTaken /\ result'[task[v]] = "none"
  <2> TAKE v \in Workers
  <2> HAVE task[v] # 0
  <2>1. task[v] \in Positions /\ task[v] \in Int /\ task[v] > Oldest
    BY <1>2 DEF Positions
  <2>2. task[v] >= Oldest'
    BY <1>1, <2>1, <1>a
  <2> QED BY <1>1, <2>1, <2>2, <1>a DEF Assigned
<1>4. \A c \in Positions : result'[c] # "none" => c >= Oldest' /\ c <= LastTaken
  <2> TAKE c \in Positions
  <2> HAVE result'[c] # "none"
  <2>1. c \in Int /\ c # Oldest /\ c >= Oldest /\ c <= LastTaken
    BY <1>1, <1>a DEF Assigned, Positions
  <2> QED BY <1>1, <2>1, <1>a
<1> QED BY <1>1, <1>3, <1>4, <1>a DEF Assigned

(* The other steps leave commits where they are.                           *)
LEMMA OtherAssigns ==
  ASSUME Inv, UNCHANGED <<task, result>>, Oldest' = Oldest, LastTaken' = LastTaken,
         \A v \in Workers : worker'[v] \in {"idle", "done"} <=> worker[v] \in {"idle", "done"}
  PROVE  Assigned'
BY DEF Inv, Assigned

(* Every step keeps the order and the assignment.                          *)
LEMMA ShapeStep ==
  ASSUME Inv, [Next]_vars
  PROVE  Ordered' /\ Assigned'
<1>1. CASE NextCommit
  BY <1>1, NextOrder, OtherAssigns DEF NextCommit, workerVars
<1>2. CASE SendTask
  BY <1>2, SendOrder, OtherAssigns DEF SendTask, workerVars
<1>3. CASE Receive
  BY <1>3, ReceiveOrder, ReceiveAssigns
<1>4. CASE StreamEnd \/ StreamFails \/ Filled \/ CloseTasks \/ Return
  <2>1. UNCHANGED <<next, pending, tasks, result, workerVars>> /\ main # "send" /\ main' # "send"
    BY <1>4 DEF StreamEnd, StreamFails, Filling, Filled, CloseTasks, Return, mainVars
  <2> QED BY <2>1, OtherOrder, OtherAssigns DEF workerVars
<1>5. ASSUME NEW w \in Workers, Take(w) PROVE Ordered' /\ Assigned'
  BY <1>5, TakeOrder, TakeAssigns
<1>6. ASSUME NEW w \in Workers,
             \/ WorkerExit(w) \/ LookUpCommit(w) \/ CacheLookup(w) \/ LoadTree(w, "ok")
             \/ LoadTree(w, "err") \/ Await(w) \/ DiffTrees(w) \/ WorkFails(w)
      PROVE  Ordered' /\ Assigned'
  <2>1. /\ GoesOn(w) \/ (worker[w] \notin {"idle", "done"} /\ \E r \in {"ok", "err"} : Finish(w, r))
        /\ UNCHANGED <<graphVars, mainVars, tasks, tasksClosed>>
    BY <1>6, WorkerKinds
  <2>2. Oldest' = Oldest /\ LastTaken' = LastTaken /\ Ordered'
    BY <2>1, OtherOrder DEF mainVars
  <2>3. CASE GoesOn(w)
    BY <2>2, <2>3, OtherAssigns DEF GoesOn
  <2>4. ASSUME worker[w] \notin {"idle", "done"}, NEW r \in {"ok", "err"}, Finish(w, r)
        PROVE  Assigned'
    <3>1. task[w] # 0
      BY <2>4 DEF Inv, Assigned
    <3> QED BY <2>2, <2>4, <3>1, FinishAssigns
  <2> QED BY <2>1, <2>2, <2>3, <2>4
<1>7. CASE UNCHANGED vars
  BY <1>7, OtherOrder, OtherAssigns DEF vars, mainVars, workerVars
<1> QED
  BY <1>1, <1>2, <1>3, <1>4, <1>5, <1>6, <1>7 DEF Next, MainStep, WorkerStep, Done

-----------------------------------------------------------------------------
(* The cache.                                                              *)

(* A worker wants the tree of a commit that is not yet visited.            *)
LEMMA WantFacts ==
  ASSUME Inv, NEW w \in Workers, worker[w] \in {"lookup", "load", "await"}
  PROVE  /\ want[w] \in Positions /\ want[w] >= Oldest
         /\ trees[want[w]] = Len(loads[want[w]]) /\ Len(loads[want[w]]) \in {0, 1}
         /\ task[w] \in Positions /\ firstParent[task[w]] \in 0..N
<1>1. task[w] \in Positions /\ task[w] >= Oldest
  <2>1. task[w] # 0 /\ task[w] \in 0..N
    BY DEF Inv, TypeOK, Assigned
  <2> QED BY <2>1 DEF Inv, Assigned, Positions
<1>2. want[w] # 0 /\ want[w] \in {task[w], firstParent[task[w]]}
  BY DEF Inv, Wanting
<1>3. firstParent[task[w]] \in 0..N /\ (firstParent[task[w]] # 0 => firstParent[task[w]] > task[w])
  BY <1>1 DEF Inv, TypeOK, GraphOK
<1>4. want[w] \in Positions /\ want[w] >= task[w]
  BY <1>1, <1>2, <1>3 DEF Positions
<1>5. want[w] >= Oldest
  <2>1. Oldest \in Int /\ want[w] \in Int /\ task[w] \in Int
    BY <1>1, <1>4, CountFacts DEF Inv, Positions
  <2> QED BY <1>1, <1>4, <2>1
<1>6. trees[want[w]] = Len(loads[want[w]]) /\ Len(loads[want[w]]) <= 1
  BY <1>4, <1>5 DEF Inv, Cached
<1>7. Len(loads[want[w]]) \in Nat
  BY <1>4 DEF Inv, TypeOK
<1>8. Len(loads[want[w]]) \in {0, 1}
  <2>1. \A n \in Nat : n <= 1 => n \in {0, 1}
    OBVIOUS
  <2> QED BY <2>1, <1>6, <1>7
<1> QED BY <1>1, <1>3, <1>4, <1>5, <1>6, <1>8

(* A worker's step that neither begins nor ends a load.                    *)
LEMMA QuietWorker ==
  ASSUME Inv, NEW w \in Workers, worker[w] # "load", worker'[w] # "load",
         UNCHANGED <<loads, trees, firstParent>>, Oldest' = Oldest,
         \A v \in Workers \ {w} : /\ worker'[v] = worker[v] /\ task'[v] = task[v]
                                  /\ want'[v] = want[v] /\ entry'[v] = entry[v],
         worker'[w] \in {"lookup", "await"} =>
           want'[w] # 0 /\ want'[w] \in {task'[w], firstParent[task'[w]]},
         worker'[w] = "await" => entry'[w] = 1 /\ Len(loads[want'[w]]) = 1
  PROVE  Wanting' /\ Cached'
<1>1. Cached'
  BY DEF Inv, Cached
<1>2. \A v \in Workers :
        /\ worker'[v] \in {"lookup", "load", "await"} =>
             want'[v] # 0 /\ want'[v] \in {task'[v], firstParent'[task'[v]]}
        /\ worker'[v] \in {"load", "await"} => entry'[v] = 1 /\ Len(loads'[want'[v]]) = 1
        /\ worker'[v] = "load" => loads'[want'[v]][1] = "loading"
  <2> TAKE v \in Workers
  <2>1. CASE v = w
    BY <2>1
  <2>2. CASE v # w
    BY <2>2 DEF Inv, Wanting
  <2> QED BY <2>1, <2>2
<1>3. \A u, v \in Workers :
        worker'[u] = "load" /\ worker'[v] = "load" /\ want'[u] = want'[v] => u = v
  BY DEF Inv, Wanting
<1>4. \A c \in Positions : Len(loads'[c]) = 1 /\ loads'[c][1] = "loading" =>
        \E v \in Workers : worker'[v] = "load" /\ want'[v] = c
  BY DEF Inv, Wanting
<1> QED BY <1>1, <1>2, <1>3, <1>4 DEF Wanting

(* A step of the calling goroutine that visits nothing.                    *)
LEMMA QuietMain ==
  ASSUME Inv, UNCHANGED <<workerVars, cacheVars, firstParent>>, Oldest' = Oldest
  PROVE  Wanting' /\ Cached'
BY DEF Inv, Wanting, Cached, workerVars, cacheVars

(* A visit removes the oldest commit's tree.                               *)
LEMMA ReceiveCache ==
  ASSUME Inv, Receive
  PROVE  Wanting' /\ Cached'
<1>1. UNCHANGED <<worker, task, want, entry, loads, firstParent>>
  BY ReceiveFacts DEF workerVars, Receive, graphVars
<1>2. Wanting'
  BY <1>1 DEF Inv, Wanting
<1>3. CASE result[Oldest] = "err"
  BY <1>1, <1>2, <1>3, QuietMain, ReceiveFacts, ReceiveOrder DEF workerVars, cacheVars
<1>4. CASE result[Oldest] # "err"
  <2>1. Oldest \in Int /\ Oldest' = Oldest + 1 /\ trees' = [trees EXCEPT ![Oldest] = 0]
    BY <1>4, ReceiveFacts, ReceiveOrder, CountFacts DEF Inv
  <2>2. \A c \in Positions : trees'[c] = IF c = Oldest THEN 0 ELSE trees[c]
    BY <2>1 DEF Inv, TypeOK
  <2>3. \A c \in Positions : c \in Int
    BY DEF Positions
  <2>4. \A c \in Positions : c >= Oldest + 1 <=> c >= Oldest /\ c # Oldest
    BY <2>1, <2>3
  <2>5. \A c \in Positions :
          Len(loads[c]) <= 1 /\ trees'[c] = IF c >= Oldest + 1 THEN Len(loads[c]) ELSE 0
    BY <2>2, <2>4 DEF Inv, Cached
  <2> QED BY <1>1, <1>2, <2>1, <2>5 DEF Cached
<1> QED BY <1>3, <1>4

(* A tree that is asked for is in the cache, or was never asked for.       *)
LEMMA LookupCache ==
  ASSUME Inv, NEW w \in Workers, CacheLookup(w), Oldest' = Oldest
  PROVE  Wanting' /\ Cached'
<1>a. TypeOK /\ Wanting /\ Cached
  BY DEF Inv
<1>b. worker[w] = "lookup" /\ UNCHANGED <<firstParent, task, want>>
  BY DEF CacheLookup, graphVars
<1>c. PICK c \in Positions : c = want[w]
  BY <1>b, WantFacts
<1>d. c >= Oldest /\ trees[c] = Len(loads[c]) /\ Len(loads[c]) \in {0, 1}
  BY <1>b, <1>c, WantFacts
<1>1. CASE trees[c] # 0
  <2>1. entry' = [entry EXCEPT ![w] = 1] /\ worker' = [worker EXCEPT ![w] = "await"]
        /\ UNCHANGED cacheVars
    BY <1>1, <1>c, <1>d DEF CacheLookup
  <2>2. /\ \A v \in Workers \ {w} : worker'[v] = worker[v] /\ entry'[v] = entry[v]
        /\ worker'[w] = "await" /\ entry'[w] = 1
    BY <2>1, <1>a DEF TypeOK
  <2>3. want[w] # 0 /\ want[w] \in {task[w], firstParent[task[w]]} /\ Len(loads[want[w]]) = 1
    BY <1>a, <1>b, <1>1, <1>c, <1>d DEF Wanting
  <2> QED BY <1>b, <2>1, <2>2, <2>3, QuietWorker DEF cacheVars
<1>2. CASE trees[c] = 0
  <2>1. Len(loads[c]) = 0 /\ Append(loads[c], "loading") = <<"loading">>
    <3>1. Len(loads[c]) = 0 /\ loads[c] \in Seq({"loading", "ok", "err"})
      BY <1>2, <1>d, <1>a DEF TypeOK
    <3>2. loads[c] = <<>>
      BY <3>1, EmptySeq
    <3> QED BY <3>1, <3>2
  <2>2. /\ loads' = [loads EXCEPT ![c] = <<"loading">>] /\ trees' = [trees EXCEPT ![c] = 1]
        /\ entry' = [entry EXCEPT ![w] = 1] /\ worker' = [worker EXCEPT ![w] = "load"]
    BY <1>2, <1>c, <2>1 DEF CacheLookup
  <2>3. /\ \A v \in Workers \ {w} : worker'[v] = worker[v] /\ entry'[v] = entry[v]
        /\ worker'[w] = "load" /\ entry'[w] = 1
        /\ loads'[c] = <<"loading">> /\ trees'[c] = 1
        /\ \A d \in Positions \ {c} : loads'[d] = loads[d] /\ trees'[d] = trees[d]
    BY <2>2, <1>a DEF TypeOK
  <2>4. Len(<<"loading">>) = 1 /\ <<"loading">>[1] = "loading"
    OBVIOUS
  <2>5. Cached'
    <3>1. \A d \in Positions :
            Len(loads'[d]) <= 1 /\ trees'[d] = IF d >= Oldest THEN Len(loads'[d]) ELSE 0
      <4> TAKE d \in Positions
      <4>1. CASE d = c
        BY <4>1, <1>d, <2>3, <2>4
      <4>2. CASE d # c
        BY <4>2, <1>a, <2>3 DEF Cached
      <4> QED BY <4>1, <4>2
    <3> QED BY <3>1 DEF Cached
  <2>6. \A v \in Workers : worker[v] \in {"load", "await"} => want[v] # c /\ want[v] \in Positions
    BY <1>a, <2>1, WantFacts DEF Wanting
  <2>7. \A v \in Workers :
          /\ worker'[v] \in {"lookup", "load", "await"} =>
               want[v] # 0 /\ want[v] \in {task[v], firstParent[task[v]]}
          /\ worker'[v] \in {"load", "await"} => entry'[v] = 1 /\ Len(loads'[want[v]]) = 1
          /\ worker'[v] = "load" => loads'[want[v]][1] = "loading"
    <3> TAKE v \in Workers
    <3>1. CASE v = w
      BY <3>1, <1>a, <1>b, <1>c, <2>3, <2>4 DEF Wanting
    <3>2. CASE v # w
      BY <3>2, <1>a, <2>3, <2>6 DEF Wanting
    <3> QED BY <3>1, <3>2
  <2>8. \A u, v \in Workers :
          worker'[u] = "load" /\ worker'[v] = "load" /\ want[u] = want[v] => u = v
    BY <1>a, <1>c, <2>3, <2>6 DEF Wanting
  <2>9. \A d \in Positions : Len(loads'[d]) = 1 /\ loads'[d][1] = "loading" =>
          \E v \in Workers : worker'[v] = "load" /\ want[v] = d
    <3> TAKE d \in Positions
    <3>1. CASE d = c
      BY <3>1, <1>c, <2>3
    <3>2. CASE d # c
      BY <3>2, <1>a, <1>b, <2>3 DEF Wanting
    <3> QED BY <3>1, <3>2
  <2> QED BY <1>b, <2>5, <2>7, <2>8, <2>9 DEF Wanting
<1> QED BY <1>1, <1>2

(* After the last of a worker's own steps with a tree.                     *)
LEMMA LoadedWants ==
  ASSUME Inv, NEW w \in Workers, worker[w] \in {"load", "await"}, NEW r, Loaded(w, r)
  PROVE  /\ \A v \in Workers \ {w} : /\ worker'[v] = worker[v] /\ task'[v] = task[v]
                                     /\ want'[v] = want[v] /\ entry'[v] = entry[v]
         /\ worker'[w] \in {"idle", "lookup", "diff"}
         /\ worker'[w] = "lookup" => want'[w] # 0 /\ want'[w] \in {task'[w], firstParent[task'[w]]}
<1>1. CASE r = "err"
  BY <1>1 DEF Loaded, Finish, Inv, TypeOK
<1>2. CASE r # "err"
  BY <1>2 DEF Loaded, Inv, TypeOK
<1> QED BY <1>1, <1>2

(* The loader leaves, and with it the mark of its load.                    *)
LEMMA LoadCache ==
  ASSUME Inv, NEW w \in Workers, NEW r \in {"ok", "err"}, LoadTree(w, r), Oldest' = Oldest
  PROVE  Wanting' /\ Cached'
<1>a. TypeOK /\ Wanting /\ Cached
  BY DEF Inv
<1>b. /\ worker[w] = "load" /\ UNCHANGED <<firstParent, trees>>
      /\ loads' = [loads EXCEPT ![want[w]][entry[w]] = r]
  BY DEF LoadTree, graphVars
<1>c. PICK c \in Positions : c = want[w]
  BY <1>b, WantFacts
<1>d. Len(loads[c]) = 1 /\ entry[w] = 1 /\ loads[c] \in Seq({"loading", "ok", "err"})
  BY <1>a, <1>b, <1>c DEF Wanting, TypeOK
<1>1. Len([loads[c] EXCEPT ![1] = r]) = 1 /\ [loads[c] EXCEPT ![1] = r][1] = r
  BY <1>d, OneStatus
<1>2. /\ Len(loads'[c]) = 1 /\ loads'[c][1] = r
      /\ \A d \in Positions \ {c} : loads'[d] = loads[d]
  BY <1>a, <1>b, <1>c, <1>d, <1>1 DEF TypeOK
<1>3. /\ \A v \in Workers \ {w} : /\ worker'[v] = worker[v] /\ task'[v] = task[v]
                                  /\ want'[v] = want[v] /\ entry'[v] = entry[v]
      /\ worker'[w] \in {"idle", "lookup", "diff"}
      /\ worker'[w] = "lookup" => want'[w] # 0 /\ want'[w] \in {task'[w], firstParent[task'[w]]}
  BY <1>b, LoadedWants DEF LoadTree
<1>4. Cached'
  BY <1>a, <1>b, <1>d, <1>2 DEF Cached
<1>5. \A v \in Workers \ {w} : worker[v] = "load" => want[v] # c
  BY <1>a, <1>b, <1>c DEF Wanting
<1>6. \A v \in Workers : worker[v] \in {"load", "await"} => want[v] \in Positions
  BY WantFacts
<1>7. \A v \in Workers :
        /\ worker'[v] \in {"lookup", "load", "await"} =>
             want'[v] # 0 /\ want'[v] \in {task'[v], firstParent[task'[v]]}
        /\ worker'[v] \in {"load", "await"} => entry'[v] = 1 /\ Len(loads'[want'[v]]) = 1
        /\ worker'[v] = "load" => loads'[want'[v]][1] = "loading"
  <2> TAKE v \in Workers
  <2>1. CASE v = w
    BY <2>1, <1>3
  <2>2. CASE v # w
    BY <2>2, <1>a, <1>2, <1>3, <1>5, <1>6 DEF Wanting
  <2> QED BY <2>1, <2>2
<1>8. \A u, v \in Workers :
        worker'[u] = "load" /\ worker'[v] = "load" /\ want'[u] = want'[v] => u = v
  BY <1>a, <1>3 DEF Wanting
<1>9. \A d \in Positions : Len(loads'[d]) = 1 /\ loads'[d][1] = "loading" =>
        \E v \in Workers : worker'[v] = "load" /\ want'[v] = d
  <2> TAKE d \in Positions
  <2>1. CASE d = c
    BY <2>1, <1>2
  <2>2. CASE d # c
    <3> HAVE Len(loads'[d]) = 1 /\ loads'[d][1] = "loading"
    <3>1. PICK v \in Workers : worker[v] = "load" /\ want[v] = d
      BY <2>2, <1>a, <1>2 DEF Wanting
    <3>2. v # w
      BY <3>1, <2>2, <1>c
    <3> QED BY <3>1, <3>2, <1>3
  <2> QED BY <2>1, <2>2
<1> QED BY <1>b, <1>4, <1>7, <1>8, <1>9 DEF Wanting


(* No tree is asked for after its release, and none is waited for that     *)
(* nobody loads.                                                           *)
LEMMA CacheStep ==
  ASSUME Inv, [Next]_vars
  PROVE  Wanting' /\ Cached'
<1>a. TypeOK
  BY DEF Inv
<1>1. CASE NextCommit \/ SendTask
  <2>1. UNCHANGED <<workerVars, cacheVars, firstParent>>
    BY <1>1 DEF NextCommit, SendTask, graphVars
  <2>2. Oldest' = Oldest
    BY <1>1, NextOrder, SendOrder
  <2> QED BY <2>1, <2>2, QuietMain
<1>2. CASE Receive
  BY <1>2, ReceiveCache
<1>3. CASE StreamEnd \/ StreamFails \/ Filled \/ CloseTasks \/ Return \/ UNCHANGED vars
  <2>1. UNCHANGED <<next, pending, workerVars, cacheVars, firstParent>>
    BY <1>3 DEF StreamEnd, StreamFails, Filled, CloseTasks, Return, mainVars, graphVars, vars
  <2> QED BY <2>1, QuietMain DEF Oldest
<1>4. ASSUME NEW w \in Workers, WorkerStep(w) \/ LoadTree(w, "err") \/ WorkFails(w)
      PROVE  Wanting' /\ Cached'
  <2>1. Oldest' = Oldest /\ firstParent' = firstParent
    BY <1>4 DEF WorkerStep, Take, WorkerExit, LookUpCommit, CacheLookup, LoadTree, Await, DiffTrees, WorkFails,
                Oldest, mainVars, graphVars
  <2>2. CASE CacheLookup(w)
    BY <2>1, <2>2, LookupCache
  <2>3. CASE LoadTree(w, "ok") \/ LoadTree(w, "err")
    BY <2>1, <2>3, LoadCache
  <2>4. CASE Await(w)
    <3>1. worker[w] = "await" /\ Loaded(w, loads[want[w]][entry[w]]) /\ UNCHANGED cacheVars
      BY <2>4 DEF Await
    <3> QED BY <2>1, <3>1, LoadedWants, QuietWorker DEF cacheVars
  <2>5. CASE Take(w) \/ WorkerExit(w)
    <3>1. /\ worker[w] = "idle" /\ UNCHANGED <<want, entry, cacheVars>>
          /\ worker'[w] \in {"commit", "done"}
          /\ \A v \in Workers \ {w} : worker'[v] = worker[v] /\ task'[v] = task[v]
      BY <1>a, <2>5 DEF Take, WorkerExit, TypeOK
    <3> QED BY <2>1, <3>1, QuietWorker DEF cacheVars
  <2>6. ASSUME NEW r, Finish(w, r), UNCHANGED cacheVars, worker[w] # "load"
        PROVE  Wanting' /\ Cached'
    <3>1. /\ worker'[w] = "idle"
          /\ \A v \in Workers \ {w} : /\ worker'[v] = worker[v] /\ task'[v] = task[v]
                                      /\ want'[v] = want[v] /\ entry'[v] = entry[v]
      BY <1>a, <2>6 DEF Finish, TypeOK
    <3> QED BY <2>1, <2>6, <3>1, QuietWorker DEF cacheVars
  <2>7. CASE LookUpCommit(w)
    <3>1. CASE Finish(w, "ok")
      BY <2>6, <2>7, <3>1 DEF LookUpCommit
    <3>2. CASE ~Finish(w, "ok")
      <4>1. /\ worker[w] = "commit" /\ worker' = [worker EXCEPT ![w] = "lookup"]
            /\ want' = [want EXCEPT ![w] = task[w]] /\ UNCHANGED <<task, entry, cacheVars>>
        BY <2>7, <3>2 DEF LookUpCommit
      <4>2. /\ worker'[w] = "lookup" /\ want'[w] = task[w]
            /\ \A v \in Workers \ {w} : worker'[v] = worker[v] /\ want'[v] = want[v]
        BY <1>a, <4>1 DEF TypeOK
      <4>3. task[w] # 0
        BY <4>1 DEF Inv, Assigned
      <4> QED BY <2>1, <4>1, <4>2, <4>3, QuietWorker DEF cacheVars
    <3> QED BY <3>1, <3>2
  <2>8. CASE DiffTrees(w) \/ WorkFails(w)
    BY <2>6, <2>8 DEF DiffTrees, WorkFails
  <2> QED BY <1>4, <2>2, <2>3, <2>4, <2>5, <2>7, <2>8 DEF WorkerStep
<1> QED BY <1>1, <1>2, <1>3, <1>4 DEF Next, MainStep, Done

(* A walk that ends without an error has met the end of the iterator and   *)
(* emptied its window.                                                     *)
LEMMA ClosingStep ==
  ASSUME Inv, [Next]_vars
  PROVE  Closing'
<1>a. TypeOK /\ Closing /\ N \in Nat
  BY StreamAssumption DEF Inv
<1>1. CASE NextCommit
  BY <1>1, <1>a DEF NextCommit, Filling, Closing
<1>2. CASE StreamEnd
  <2>1. next' = N + 1
    BY <1>2, <1>a DEF StreamEnd, Filling, TypeOK
  <2> QED BY <1>2, <1>a, <2>1 DEF StreamEnd, Filling, Closing
<1>3. CASE Filled
  <2>1. pending = <<>> => eof
    <3> HAVE pending = <<>>
    <3>1. Len(pending) < Window
      BY WindowFacts, EmptySeq
    <3> QED BY <1>3, <3>1 DEF Filled, Filling
  <2> QED BY <1>3, <1>a, <2>1 DEF Filled, Closing
<1>4. CASE Receive
  BY <1>4, <1>a, ReceiveFacts DEF Closing
<1>5. CASE StreamFails \/ SendTask \/ CloseTasks \/ Return
  BY <1>5, <1>a DEF StreamFails, Filling, SendTask, CloseTasks, Return, Closing
<1>6. CASE UNCHANGED mainVars
  BY <1>6, <1>a DEF mainVars, Closing
<1>7. ASSUME NEW w \in Workers, WorkerStep(w) \/ LoadTree(w, "err") \/ WorkFails(w)
      PROVE  UNCHANGED mainVars
  BY <1>7 DEF WorkerStep, Take, WorkerExit, LookUpCommit, CacheLookup, LoadTree, Await, DiffTrees, WorkFails
<1> QED BY <1>1, <1>2, <1>3, <1>4, <1>5, <1>6, <1>7 DEF Next, MainStep, Done, vars

-----------------------------------------------------------------------------
(* The walk as a sequence.                                                 *)

(* Of several numbers one is the least.                                    *)
LEMMA LeastOf ==
  ASSUME NEW S \in SUBSET Nat, S # {}
  PROVE  \E m \in S : \A k \in S : m <= k
<1>1. PICK m \in S : \A k \in S : ~(<<k, m>> \in OpToRel(<, Nat))
  BY NatLessThanWellFounded, WFMin
<1>2. \A k \in S : ~(k < m)
  BY <1>1 DEF OpToRel
<1> QED BY <1>2

(* Finitely many commits are visited, and up to any of them.               *)
LEMMA KeptIsFinite ==
  ASSUME NEW kept, kept \in SUBSET Positions
  PROVE  IsFiniteSet(kept) /\ \A n : IsFiniteSet({d \in kept : d <= n})
<1>1. IsFiniteSet(1..N)
  <2>1. 1 \in Int /\ N \in Int
    BY StreamAssumption
  <2> QED BY <2>1, FS_Interval
<1>2. kept \in SUBSET (1..N) /\ \A n : {d \in kept : d <= n} \in SUBSET (1..N)
  BY DEF Positions
<1> QED BY <1>1, <1>2, FS_Subset

(* A commit that is visited has a rank one above that of the commits       *)
(* before it, any other has the same.                                      *)
LEMMA RankFacts ==
  ASSUME NEW kept, kept \in SUBSET Positions
  PROVE  /\ Cardinality(kept) \in Nat
         /\ \A n \in Nat : Rank(kept, n) \in Nat /\ Rank(kept, n) <= Cardinality(kept)
         /\ \A c \in Positions : Rank(kept, c) = Rank(kept, c - 1) + (IF c \in kept THEN 1 ELSE 0)
         /\ Rank(kept, 0) = 0 /\ Rank(kept, N) = Cardinality(kept)
<1>a. N \in Nat /\ \A d \in kept : d \in Nat /\ 1 <= d /\ d <= N
  BY StreamAssumption DEF Positions
<1>1. IsFiniteSet(kept) /\ Cardinality(kept) \in Nat
  BY KeptIsFinite, FS_CardinalityType
<1>2. ASSUME NEW n \in Nat
      PROVE  /\ IsFiniteSet({d \in kept : d <= n})
             /\ Rank(kept, n) \in Nat /\ Rank(kept, n) <= Cardinality(kept)
  <2>1. {d \in kept : d <= n} \in SUBSET kept
    OBVIOUS
  <2> QED BY <1>1, <2>1, FS_Subset, FS_CardinalityType DEF Rank
<1>3. ASSUME NEW c \in Positions
      PROVE  Rank(kept, c) = Rank(kept, c - 1) + (IF c \in kept THEN 1 ELSE 0)
  <2>1. PICK n \in Nat : n = c - 1
    BY <1>a DEF Positions
  <2>2. \A d \in kept : (d <= c <=> d <= n \/ d = c) /\ ~(c <= n)
    BY <1>a, <2>1 DEF Positions
  <2>3. IsFiniteSet({d \in kept : d <= n}) /\ Rank(kept, n) \in Nat
    BY <1>2
  <2>4. CASE c \in kept
    <3>1. {d \in kept : d <= c} = {d \in kept : d <= n} \cup {c}
      BY ONLY <2>2, <2>4
    <3>2. c \notin {d \in kept : d <= n}
      BY ONLY <2>2, <2>4
    <3> QED BY <2>1, <2>3, <2>4, <3>1, <3>2, FS_AddElement DEF Rank
  <2>5. CASE c \notin kept
    <3>1. {d \in kept : d <= c} = {d \in kept : d <= n}
      BY ONLY <2>2, <2>5
    <3> QED BY <2>1, <2>3, <2>5, <3>1 DEF Rank
  <2> QED BY <2>4, <2>5
<1>4. Rank(kept, 0) = 0
  <2>1. {d \in kept : d <= 0} = {}
    BY <1>a
  <2> QED BY <2>1, FS_EmptySet DEF Rank
<1>5. Rank(kept, N) = Cardinality(kept)
  <2>1. {d \in kept : d <= N} = kept
    BY <1>a
  <2> QED BY <2>1 DEF Rank
<1> QED BY <1>1, <1>2, <1>3, <1>4, <1>5

(* No two commits that are visited have the same rank.                     *)
LEMMA RankIsOneToOne ==
  ASSUME NEW kept, kept \in SUBSET Positions, NEW a \in kept, NEW b \in kept,
         Rank(kept, a) = Rank(kept, b)
  PROVE  a = b
<1>a. a \in Nat /\ b \in Nat /\ \A d \in kept : d \in Nat
  BY StreamAssumption DEF Positions
<1>1. ASSUME NEW x \in kept, NEW y \in kept, x < y
      PROVE  Rank(kept, x) # Rank(kept, y)
  <2>0. (\A d \in kept : d <= x => d <= y) /\ y <= y /\ ~(y <= x)
    BY <1>1, <1>a
  <2>1. /\ {d \in kept : d <= x} \subseteq {d \in kept : d <= y}
        /\ y \in {d \in kept : d <= y} /\ y \notin {d \in kept : d <= x}
    BY ONLY <1>1, <2>0
  <2>2. IsFiniteSet({d \in kept : d <= y})
    BY KeptIsFinite
  <2> QED BY <2>1, <2>2, FS_Subset DEF Rank
<1> QED BY <1>1, <1>a

(* Every commit that is visited is at its rank in the walk.                *)
LEMMA WalkAt ==
  ASSUME NEW m, NEW c \in Kept(m)
  PROVE  Rank(Kept(m), c) \in 1..Cardinality(Kept(m)) /\ Walk(m)[Rank(Kept(m), c)] = c
<1> DEFINE kept == Kept(m)
<1>1. kept \in SUBSET Positions /\ c \in Positions /\ c \in Nat /\ c - 1 \in Nat
  BY StreamAssumption DEF Kept, Positions
<1> HIDE DEF kept
<1>2. /\ Rank(kept, c) = Rank(kept, c - 1) + (IF c \in kept THEN 1 ELSE 0)
      /\ Rank(kept, c - 1) \in Nat /\ Rank(kept, c) <= Cardinality(kept)
      /\ Cardinality(kept) \in Nat
  BY <1>1, RankFacts
<1>3. c \in kept
  BY DEF kept
<1>4. Rank(kept, c) \in 1..Cardinality(kept)
  BY <1>2, <1>3
<1>5. \A d \in kept : Rank(kept, d) = Rank(kept, c) => d = c
  BY <1>1, <1>3, RankIsOneToOne
<1>6. (CHOOSE d \in kept : Rank(kept, d) = Rank(kept, c)) = c
  BY <1>3, <1>5
<1> QED BY <1>4, <1>6 DEF Walk, kept

(* There is a commit of each rank.                                         *)
LEMMA RankIsOnto ==
  ASSUME NEW kept, kept \in SUBSET Positions, NEW i \in 1..Cardinality(kept)
  PROVE  \E c \in kept : Rank(kept, c) = i
<1>a. N \in Nat /\ i \in Nat /\ i >= 1 /\ Rank(kept, 0) = 0 /\ Rank(kept, N) >= i
  BY StreamAssumption, RankFacts
<1> DEFINE Reached == {n \in Nat : Rank(kept, n) >= i}
<1>1. PICK c \in Reached : \A k \in Reached : c <= k
  <2>1. Reached \in SUBSET Nat /\ N \in Reached
    BY <1>a
  <2> QED BY <2>1, LeastOf
<1>2. c \in Positions /\ c - 1 \in Nat
  BY <1>1, <1>a DEF Positions
<1>3. Rank(kept, c) >= i /\ ~(Rank(kept, c - 1) >= i)
  BY <1>1, <1>2
<1>4. /\ Rank(kept, c) = Rank(kept, c - 1) + (IF c \in kept THEN 1 ELSE 0)
      /\ Rank(kept, c - 1) \in Nat
  BY <1>2, RankFacts
<1>5. c \in kept /\ Rank(kept, c) = i
  <2> HIDE DEF Reached
  <2> QED BY <1>a, <1>3, <1>4
<1> QED BY <1>5

(* The walk is a sequence of commits.                                      *)
LEMMA WalkType ==
  ASSUME NEW m
  PROVE  Walk(m) \in Seq(Nat) /\ Len(Walk(m)) = Cardinality(Kept(m))
<1>0. Kept(m) \in SUBSET Positions
  BY DEF Kept
<1>1. Cardinality(Kept(m)) \in Nat /\ Kept(m) \subseteq Nat
  BY <1>0, RankFacts DEF Positions
<1>2. \A i \in 1..Cardinality(Kept(m)) : Walk(m)[i] \in Nat
  <2> TAKE i \in 1..Cardinality(Kept(m))
  <2>1. PICK c \in Kept(m) : Rank(Kept(m), c) = i
    BY <1>0, RankIsOnto
  <2> QED BY <1>1, <2>1, WalkAt
<1>3. Walk(m) \in [1..Cardinality(Kept(m)) -> Nat]
  BY <1>2 DEF Walk
<1>4. \A n \in Nat : \A f \in [1..n -> Nat] : f \in Seq(Nat) /\ Len(f) = n
  OBVIOUS
<1> QED BY <1>1, <1>3, <1>4

-----------------------------------------------------------------------------
(* The refinement of HistoryWalk.                                          *)

(* How far a walk is that has visited all commits before c.                *)
UpTo(m, c, done) ==
  /\ Len(done) = Rank(Kept(m), c - 1)
  /\ \A i \in 1..Len(done) : done[i] = Walk(m)[i]

(* What was visited is the walk up to the oldest commit, and the walk has  *)
(* no outcome before it returns.                                           *)
Visiting ==
  /\ UpTo(merge, Oldest, visited)
  /\ main # "returned" => outcome = "running"

(* The next commit of the walk is appended, or left out.                   *)
LEMMA UpToNext ==
  ASSUME NEW m, NEW c \in Positions, NEW done \in Seq(Positions), UpTo(m, c, done)
  PROVE  /\ c \in Kept(m) => /\ Len(done) < Len(Walk(m)) /\ c = Walk(m)[Len(done) + 1]
                             /\ UpTo(m, c + 1, Append(done, c))
         /\ c \notin Kept(m) => UpTo(m, c + 1, done)
<1>a. c \in Nat /\ c - 1 \in Nat /\ (c - 1) + 1 = c /\ (c + 1) - 1 = c /\ Len(done) \in Nat
  BY StreamAssumption DEF Positions
<1>1. Rank(Kept(m), c) = Len(done) + (IF c \in Kept(m) THEN 1 ELSE 0)
  <2>1. Kept(m) \in SUBSET Positions
    BY DEF Kept
  <2>2. Rank(Kept(m), c) = Rank(Kept(m), c - 1) + (IF c \in Kept(m) THEN 1 ELSE 0)
    BY <2>1, RankFacts
  <2> QED BY <2>2 DEF UpTo
<1>2. CASE c \in Kept(m)
  <2>1. Rank(Kept(m), c) = Len(done) + 1
    BY <1>1, <1>2, <1>a
  <2>2. Len(done) + 1 \in 1..Len(Walk(m)) /\ Walk(m)[Len(done) + 1] = c
    BY <1>2, <2>1, WalkAt, WalkType
  <2>3. /\ Len(Append(done, c)) = Len(done) + 1
        /\ \A i \in 1..(Len(done) + 1) :
             Append(done, c)[i] = IF i = Len(done) + 1 THEN c ELSE done[i]
    OBVIOUS
  <2>4. \A i \in 1..(Len(done) + 1) : Append(done, c)[i] = Walk(m)[i]
    <3> TAKE i \in 1..(Len(done) + 1)
    <3>1. CASE i = Len(done) + 1
      BY <2>2, <2>3, <3>1
    <3>2. CASE i # Len(done) + 1
      <4>1. i \in 1..Len(done)
        BY <1>a, <3>2
      <4> QED BY <2>3, <3>2, <4>1 DEF UpTo
    <3> QED BY <3>1, <3>2
  <2>5. Len(done) < Len(Walk(m))
    <3>1. Len(Walk(m)) \in Nat
      BY WalkType
    <3> QED BY <1>a, <2>2, <3>1
  <2> QED BY <1>a, <1>2, <2>1, <2>2, <2>3, <2>4, <2>5 DEF UpTo
<1>3. CASE c \notin Kept(m)
  <2>1. Rank(Kept(m), c) = Len(done)
    BY <1>1, <1>3, <1>a
  <2> QED BY <1>a, <1>3, <2>1 DEF UpTo
<1> QED BY <1>2, <1>3

(* With all commits visited the walk is complete.                          *)
LEMMA UpToEnd ==
  ASSUME NEW m, NEW done \in Seq(Positions), UpTo(m, N + 1, done)
  PROVE  done = Walk(m)
<1>1. N \in Nat /\ (N + 1) - 1 = N
  BY StreamAssumption
<1>2. Len(done) = Len(Walk(m)) /\ Walk(m) \in Seq(Nat)
  <2>1. Kept(m) \in SUBSET Positions
    BY DEF Kept
  <2> QED BY <1>1, <2>1, RankFacts, WalkType DEF UpTo
<1>3. done \in Seq(Nat)
  <2>1. Len(done) \in Nat /\ done \in [1..Len(done) -> Positions]
    BY LenProperties
  <2>2. done \in [1..Len(done) -> Nat]
    BY <2>1 DEF Positions
  <2>3. \A n \in Nat : \A f \in [1..n -> Nat] : f \in Seq(Nat)
    OBVIOUS
  <2> QED BY <2>1, <2>2, <2>3
<1>4. \A i \in 1..Len(done) : done[i] = Walk(m)[i]
  BY DEF UpTo
<1> QED BY <1>2, <1>3, <1>4, SeqEqual

(* The visit of a commit is one of HistoryWalk, unless it is a merge that  *)
(* is left out, or ends the walk.                                          *)
LEMMA ReceiveVisits ==
  ASSUME Inv, Visiting, Receive
  PROVE  Visiting' /\ [WalkOrder!Next]_(WalkOrder!vars)
<1>1. /\ Head(pending) = Oldest /\ Oldest \in Positions /\ main = "receive" /\ main' # "returned"
      /\ merge' = merge /\ outcome' = outcome /\ outcome = "running"
  BY ReceiveFacts DEF Receive, graphVars, Visiting
<1>2. visited \in Seq(Positions) /\ UpTo(merge, Oldest, visited)
  BY DEF Inv, TypeOK, Visiting
<1>3. Oldest \in Kept(merge) <=> ~Skipped(Oldest)
  BY <1>1 DEF Kept, Skipped
<1>4. CASE result[Oldest] = "err"
  <2>1. visited' = visited /\ Oldest' = Oldest
    BY <1>1, <1>4, ReceiveOrder DEF Receive, Abort
  <2> QED BY <1>1, <1>2, <2>1 DEF Visiting, WalkOrder!vars
<1>5. CASE result[Oldest] # "err"
  <2>1. /\ visited' = IF Skipped(Oldest) THEN visited ELSE Append(visited, Oldest)
        /\ Oldest' = Oldest + 1
    BY <1>1, <1>5, ReceiveOrder DEF Receive
  <2>2. UpTo(merge, Oldest + 1, visited')
    BY <1>1, <1>2, <1>3, <2>1, UpToNext
  <2>3. Visiting'
    BY <1>1, <2>1, <2>2 DEF Visiting
  <2>4. CASE Skipped(Oldest)
    BY <1>1, <2>1, <2>3, <2>4 DEF WalkOrder!vars
  <2>5. CASE ~Skipped(Oldest)
    <3>1. /\ Len(visited) < Len(Walk(merge))
          /\ visited' = Append(visited, Walk(merge)[Len(visited) + 1])
      BY <1>1, <1>2, <1>3, <2>1, <2>5, UpToNext
    <3> QED BY <1>1, <2>3, <3>1 DEF WalkOrder!Next, WalkOrder!Visit
  <2> QED BY <2>4, <2>5
<1> QED BY <1>4, <1>5

(* The walk returns with success after the last commit only.               *)
LEMMA ReturnEnds ==
  ASSUME Inv, Visiting, Return
  PROVE  Visiting' /\ [WalkOrder!Next]_(WalkOrder!vars)
<1>1. /\ main = "wait" /\ main' = "returned" /\ outcome = "running"
      /\ outcome' = IF failed THEN "failed" ELSE "ok"
      /\ merge' = merge /\ UNCHANGED <<next, pending, visited>>
  BY DEF Return, graphVars, Visiting
<1>2. Visiting'
  <2>1. Oldest' = Oldest
    BY <1>1 DEF Oldest
  <2> QED BY <1>1, <2>1 DEF Visiting
<1>3. CASE failed
  BY <1>1, <1>2, <1>3 DEF WalkOrder!Next, WalkOrder!Fail
<1>4. CASE ~failed
  <2>1. next = N + 1 /\ pending = <<>> /\ visited \in Seq(Positions)
    BY <1>1, <1>4 DEF Inv, Closing, TypeOK
  <2>2. Oldest = N + 1
    BY <2>1, StreamAssumption, EmptySeq DEF Oldest
  <2>3. visited = Walk(merge)
    BY <2>1, <2>2, UpToEnd DEF Visiting
  <2> QED BY <1>1, <1>2, <1>4, <2>3 DEF WalkOrder!Next, WalkOrder!Succeed
<1> QED BY <1>3, <1>4

(* The other steps visit nothing.                                          *)
LEMMA OthersVisitNothing ==
  ASSUME Visiting, UNCHANGED <<merge, visited, outcome>>, Oldest' = Oldest,
         main = "returned" => main' = "returned"
  PROVE  Visiting' /\ [WalkOrder!Next]_(WalkOrder!vars)
<1>1. Visiting'
  <2>1. UpTo(merge', Oldest', visited')
    BY DEF Visiting
  <2> QED BY <2>1 DEF Visiting
<1>2. Walk(merge)' = Walk(merge)
  OBVIOUS
<1> QED BY <1>1, <1>2 DEF WalkOrder!vars

(* Every step maps to a step of HistoryWalk, or to none.                   *)
LEMMA VisitStep ==
  ASSUME Inv, Visiting, [Next]_vars
  PROVE  Visiting' /\ [WalkOrder!Next]_(WalkOrder!vars)
<1>1. CASE Receive
  BY <1>1, ReceiveVisits
<1>2. CASE Return
  BY <1>2, ReturnEnds
<1>3. CASE NextCommit \/ SendTask
  <2>1. Oldest' = Oldest
    BY <1>3, NextOrder, SendOrder
  <2>2. UNCHANGED <<merge, visited, outcome>> /\ main # "returned"
    BY <1>3 DEF NextCommit, Filling, SendTask, graphVars
  <2> QED BY <2>1, <2>2, OthersVisitNothing
<1>4. CASE StreamEnd \/ StreamFails \/ Filled \/ CloseTasks
  <2>1. UNCHANGED <<merge, visited, outcome>> /\ main # "returned" /\ Oldest' = Oldest
    BY <1>4 DEF StreamEnd, StreamFails, Filling, Filled, CloseTasks, graphVars, Oldest
  <2> QED BY <2>1, OthersVisitNothing
<1>5. CASE UNCHANGED <<graphVars, mainVars>>
  BY <1>5, OthersVisitNothing DEF graphVars, mainVars, Oldest
<1>6. ASSUME NEW w \in Workers, WorkerStep(w) \/ LoadTree(w, "err") \/ WorkFails(w)
      PROVE  UNCHANGED <<graphVars, mainVars>>
  BY <1>6 DEF WorkerStep, Take, WorkerExit, LookUpCommit, CacheLookup, LoadTree, Await, DiffTrees, WorkFails
<1> QED BY <1>1, <1>2, <1>3, <1>4, <1>5, <1>6 DEF Next, MainStep, Done, vars

(* Nothing is visited at the start.                                        *)
LEMMA VisitInit ==
  ASSUME Init
  PROVE  Visiting /\ WalkOrder!Init
<1>1. Oldest = 1 /\ visited = <<>> /\ outcome = "running"
  BY EmptySeq DEF Init, Oldest
<1>2. UpTo(merge, 1, <<>>)
  <2>1. Kept(merge) \in SUBSET Positions
    BY DEF Kept
  <2>2. Len(<<>>) = 0 /\ Rank(Kept(merge), 1 - 1) = 0
    BY <2>1, RankFacts
  <2> QED BY <2>2 DEF UpTo
<1> QED BY <1>1, <1>2, WalkType DEF Visiting, WalkOrder!Init

-----------------------------------------------------------------------------
(* The theorems.                                                           *)

(* At the start everything is still to come.                               *)
LEMMA InitInv ==
  ASSUME Init
  PROVE  Inv
<1>a. N \in Nat /\ Len(<<>>) = 0 /\ <<>> \in Seq(Positions)
      /\ <<>> \in Seq({"loading", "ok", "err"}) /\ Positions = 1..N
  BY StreamAssumption DEF Positions
<1>1. TypeOK
  <2>1. 0 \in 0..N /\ 1 \in 1..(N + 1)
    BY <1>a
  <2> QED BY <1>a, <2>1 DEF Init, TypeOK
<1>2. Oldest = 1 /\ LastTaken = 0
  <2>1. next = 1 /\ main = "fill" /\ Len(pending) = 0 /\ Len(tasks) = 0
    BY <1>a DEF Init
  <2> QED BY <2>1 DEF Oldest, LastTaken, LastSent
<1>3. Ordered
  BY <1>a, <1>2 DEF Init, Ordered
<1>4. Assigned
  BY DEF Init, Assigned
<1>5. Wanting
  BY <1>a DEF Init, Wanting
<1>6. Cached
  BY <1>a DEF Init, Cached
<1>7. Closing
  BY DEF Init, Closing
<1> QED BY <1>1, <1>3, <1>4, <1>5, <1>6, <1>7 DEF Inv

(* The invariant of visitHistoryStreamParallel and its tree cache.         *)
THEOREM Invariance == Spec => []Inv
<1>1. Init => Inv
  BY InitInv
<1>2. Inv /\ [Next]_vars => Inv'
  BY TypeStep, ShapeStep, CacheStep, ClosingStep DEF Inv
<1> QED BY <1>1, <1>2, PTL DEF Spec, Safety

(* The calling goroutine sends and receives only with a commit pending.    *)
THEOREM TypeCorrect == Spec => []TypeOK
<1>1. Inv => TypeOK
  BY DEF Inv
<1> QED BY <1>1, Invariance, PTL

(* However many commits share a tree, and in whatever order they are       *)
(* diffed, it is read from the store once.                                 *)
THEOREM NoSecondLoad == Spec => []LoadedOnce
<1>1. Inv => LoadedOnce
  BY DEF Inv, Cached, LoadedOnce
<1> QED BY <1>1, Invariance, PTL

(* No worker waits for a tree that nobody is going to load.                *)
THEOREM NoOrphanedWait == Spec => []AwaitHasLoader
<1>1. ASSUME Inv PROVE AwaitHasLoader
  <2> SUFFICES ASSUME NEW w \in Workers, worker[w] = "await", loads[want[w]][entry[w]] = "loading"
               PROVE  \E v \in Workers :
                        worker[v] = "load" /\ want[v] = want[w] /\ entry[v] = entry[w]
    BY DEF AwaitHasLoader
  <2>1. want[w] \in Positions /\ entry[w] = 1 /\ Len(loads[want[w]]) = 1
    BY <1>1, WantFacts DEF Inv, Wanting
  <2>2. PICK v \in Workers : worker[v] = "load" /\ want[v] = want[w]
    BY <1>1, <2>1 DEF Inv, Wanting
  <2>3. entry[v] = 1
    BY <1>1, <2>2 DEF Inv, Wanting
  <2> QED BY <2>1, <2>2, <2>3
<1> QED BY <1>1, Invariance, PTL

(* The cache holds trees of the window only, and none after a success.     *)
THEOREM CacheForgets == Spec => []CacheIsFrontier
<1>1. ASSUME Inv PROVE CacheIsFrontier
  <2>a. Oldest \in Int /\ next \in Nat /\ Len(pending) \in Nat /\ N \in Nat
        /\ pending \in Seq(Positions)
    BY <1>1, CountFacts DEF Inv, TypeOK
  <2>1. ASSUME NEW c \in Positions, trees[c] # 0
        PROVE  c >= next \/ \E i \in DOMAIN pending : pending[i] = c
    <3>1. c \in Int /\ c >= Oldest
      BY <1>1, <2>1 DEF Inv, Cached, Positions
    <3>2. CASE c < next
      <4> DEFINE i == c - Oldest + 1
      <4>1. i \in 1..Len(pending) /\ Oldest + i - 1 = c
        BY <2>a, <3>1, <3>2 DEF Oldest
      <4> HIDE DEF i
      <4>2. pending[i] = c
        BY <1>1, <4>1 DEF Inv, Ordered
      <4> QED BY <2>a, <4>1, <4>2
    <3> QED BY <2>a, <3>1, <3>2
  <2>2. ASSUME outcome = "ok", NEW c \in Positions
        PROVE  trees[c] = 0
    <3>1. next = N + 1 /\ pending = <<>>
      BY <1>1, <2>2 DEF Inv, Closing
    <3>2. Oldest = N + 1
      BY <2>a, <3>1, EmptySeq DEF Oldest
    <3>3. ~(c >= Oldest)
      BY <2>a, <3>2 DEF Positions
    <3> QED BY <1>1, <3>3 DEF Inv, Cached
  <2> QED BY <2>1, <2>2 DEF CacheIsFrontier
<1> QED BY <1>1, Invariance, PTL

(* However the workers' results arrive, the changes are visited in the     *)
(* order of the walk, each commit once, and success is reported after the  *)
(* last: the safety part of ImplementsWalk.                                *)
THEOREM Refinement == Spec => WalkOrder!Safety
<1>1. Init => Visiting /\ WalkOrder!Init
  BY VisitInit
<1>2. Inv /\ Visiting /\ [Next]_vars => Visiting' /\ [WalkOrder!Next]_(WalkOrder!vars)
  BY VisitStep
<1> QED BY <1>1, <1>2, Invariance, PTL DEF Spec, Safety, WalkOrder!Safety

-----------------------------------------------------------------------------
(* Of several numbers one is the least.                                    *)
LEMMA LeastNumber ==
  ASSUME NEW S \in SUBSET Nat, S # {}
  PROVE  \E m \in S : \A k \in S : m <= k
<1>1. PICK m \in S : \A k \in S : ~(<<k, m>> \in OpToRel(<, Nat))
  BY NatLessThanWellFounded, WFMin
<1>2. \A k \in S : ~(k < m)
  BY <1>1 DEF OpToRel
<1> QED BY <1>2

-----------------------------------------------------------------------------
(* Sequences put one after the other.                                      *)

(* The first k of them, put together.                                      *)
Upto(ss, k) == FlattenSeq(SubSeq(ss, 1, k))

(* The function that FlattenSeq is defined by, as far as n.                *)
Joining(ss, n, g) == g = [i \in 1..n |-> IF i = 1 THEN ss[i] ELSE g[i - 1] \o ss[i]]

(* There is only one such function.                                        *)
LEMMA JoiningUnique ==
  ASSUME NEW ss, NEW n \in Nat, NEW g, NEW h, Joining(ss, n, g), Joining(ss, n, h)
  PROVE  g = h
<1> DEFINE D == {i \in 1..n : g[i] # h[i]}
<1>1. \A i \in 1..n : g[i] = IF i = 1 THEN ss[i] ELSE g[i - 1] \o ss[i]
  BY DEF Joining
<1>2. \A i \in 1..n : h[i] = IF i = 1 THEN ss[i] ELSE h[i - 1] \o ss[i]
  BY DEF Joining
<1>3. D = {}
  <2> SUFFICES ASSUME D # {} PROVE FALSE
    OBVIOUS
  <2>1. PICK m \in D : \A k \in D : m <= k
    <3>1. D \in SUBSET Nat
      OBVIOUS
    <3> QED BY <3>1, LeastNumber
  <2>2. m # 1
    BY <2>1, <1>1, <1>2
  <2>3. m - 1 \in 1..n /\ ~(m <= m - 1)
    BY <2>1, <2>2
  <2>4. g[m - 1] = h[m - 1]
    BY <2>1, <2>3
  <2> QED BY <2>1, <2>2, <2>4, <1>1, <1>2
<1>4. \A i \in 1..n : g[i] = h[i]
  BY <1>3
<1>5. g = [i \in 1..n |-> g[i]] /\ h = [i \in 1..n |-> h[i]]
  BY DEF Joining
<1> QED BY <1>4, <1>5

(* There is one.                                                           *)
LEMMA JoiningExists ==
  ASSUME NEW S, NEW ss \in Seq(Seq(S)), NEW n \in 0..Len(ss)
  PROVE  \E g \in [1..n -> Seq(S)] : Joining(ss, n, g)
<1> DEFINE D == {k \in 0..Len(ss) : ~\E g \in [1..k -> Seq(S)] : Joining(ss, k, g)}
<1>0. Len(ss) \in Nat /\ \A i \in 1..Len(ss) : ss[i] \in Seq(S)
  OBVIOUS
<1>1. D = {}
  <2> SUFFICES ASSUME D # {} PROVE FALSE
    OBVIOUS
  <2>1. PICK m \in D : \A k \in D : m <= k
    <3>1. D \in SUBSET Nat
      BY <1>0
    <3> QED BY <3>1, LeastNumber
  <2>2. CASE m = 0
    <3>1. [i \in 1..0 |-> <<>>] \in [1..0 -> Seq(S)]
      OBVIOUS
    <3>2. Joining(ss, 0, [i \in 1..0 |-> <<>>])
      BY DEF Joining
    <3> QED BY <2>1, <2>2, <3>1, <3>2
  <2>3. CASE m # 0
    <3>1. m - 1 \in 0..Len(ss) /\ ~(m <= m - 1) /\ m \in 1..Len(ss)
      BY <2>1, <2>3, <1>0
    <3>2. PICK g \in [1..(m - 1) -> Seq(S)] : Joining(ss, m - 1, g)
      BY <3>1, <2>1
    <3> DEFINE h == [i \in 1..m |-> IF i = m THEN (IF m = 1 THEN ss[1] ELSE g[m - 1] \o ss[m])
                                    ELSE g[i]]
    <3>3. \A i \in 1..m : i = m \/ i \in 1..(m - 1)
      BY <3>1
    <3>4. \A a, b \in Seq(S) : a \o b \in Seq(S)
      OBVIOUS
    <3>5. h \in [1..m -> Seq(S)]
      <4>1. m # 1 => m - 1 \in 1..(m - 1)
        BY <3>1
      <4> QED BY <3>1, <3>2, <3>3, <3>4, <4>1, <1>0
    <3>6. \A i \in 1..(m - 1) : g[i] = IF i = 1 THEN ss[i] ELSE g[i - 1] \o ss[i]
      BY <3>2 DEF Joining
    <3>7. \A i \in 1..m : h[i] = IF i = 1 THEN ss[i] ELSE h[i - 1] \o ss[i]
      <4> SUFFICES ASSUME NEW i \in 1..m
                   PROVE  h[i] = IF i = 1 THEN ss[i] ELSE h[i - 1] \o ss[i]
        OBVIOUS
      <4>1. CASE i = 1
        <5>1. m = 1 => h[1] = ss[1]
          BY <4>1
        <5>2. m # 1 => h[1] = g[1] /\ 1 \in 1..(m - 1)
          BY <3>1, <4>1
        <5> QED BY <5>1, <5>2, <4>1, <3>6
      <4>2. CASE i # 1
        <5>1. i - 1 \in 1..m /\ i - 1 # m /\ m # 1
          BY <4>2, <3>1
        <5>2. h[i - 1] = g[i - 1]
          BY <5>1
        <5>3. CASE i = m
          BY <5>1, <5>2, <5>3, <4>2
        <5>4. CASE i # m
          <6>1. i \in 1..(m - 1)
            BY <5>4, <3>3
          <6>2. h[i] = g[i]
            BY <5>4
          <6> QED BY <6>1, <6>2, <5>2, <4>2, <3>6
        <5> QED BY <5>3, <5>4
      <4> QED BY <4>1, <4>2
    <3>8. Joining(ss, m, h)
      <4> DEFINE e == [i \in 1..m |-> IF i = 1 THEN ss[i] ELSE h[i - 1] \o ss[i]]
      <4>1. \A i \in 1..m : e[i] = h[i]
        BY <3>7
      <4>2. h = [i \in 1..m |-> h[i]] /\ e = [i \in 1..m |-> e[i]]
        OBVIOUS
      <4>3. h = e
        BY <4>1, <4>2
      <4> QED BY <4>3 DEF Joining
    <3> QED BY <3>5, <3>8, <2>1
  <2> QED BY <2>2, <2>3
<1> QED BY <1>1

(* What FlattenSeq makes is the last value of the function.                *)
LEMMA FlattenIs ==
  ASSUME NEW S, NEW ss \in Seq(Seq(S)), NEW n \in Nat \ {0}, n = Len(ss), NEW g, Joining(ss, n, g)
  PROVE  FlattenSeq(ss) = g[n]
<1> DEFINE J(f) == f = [i \in 1..Len(ss) |-> IF i = 1 THEN ss[i] ELSE f[i - 1] \o ss[i]]
<1>1. J(g) /\ n \in Nat
  BY DEF Joining
<1>2. \A f : J(f) => f = g
  <2> SUFFICES ASSUME NEW f, J(f) PROVE f = g
    OBVIOUS
  <2>1. Joining(ss, n, f)
    BY DEF Joining
  <2> QED BY <2>1, <1>1, JoiningUnique
<1>3. (CHOOSE f : J(f)) = g
  BY <1>1, <1>2
<1>4. FlattenSeq(ss) = (CHOOSE f : J(f))[Len(ss)]
  BY DEF FlattenSeq
<1> QED BY <1>3, <1>4

(* Two sequences put together.                                             *)
LEMMA JoinFacts ==
  ASSUME NEW S, NEW s \in Seq(S), NEW t \in Seq(S)
  PROVE  /\ s \o t \in Seq(S) /\ Len(s \o t) = Len(s) + Len(t)
         /\ \A i \in 1..Len(s) : (s \o t)[i] = s[i]
         /\ \A i \in 1..Len(t) : (s \o t)[Len(s) + i] = t[i]
OBVIOUS

(* The first part of a sequence.                                           *)
LEMMA FirstPart ==
  ASSUME NEW S, NEW s \in Seq(S), NEW k \in 0..Len(s)
  PROVE  /\ SubSeq(s, 1, k) \in Seq(S) /\ Len(SubSeq(s, 1, k)) = k
         /\ \A i \in 1..k : SubSeq(s, 1, k)[i] = s[i]
OBVIOUS

(* The first k of some sequences together are the k-th value of any such   *)
(* function for more of them.                                              *)
LEMMA UptoIs ==
  ASSUME NEW S, NEW ss \in Seq(Seq(S)), NEW n \in 0..Len(ss), NEW g, Joining(ss, n, g),
         NEW k \in 1..n
  PROVE  Upto(ss, k) = g[k]
<1> DEFINE h == [i \in 1..k |-> g[i]]
<1>0. Len(ss) \in Nat /\ k \in 0..Len(ss) /\ k \in Nat \ {0} /\ 1..k \subseteq 1..n
  OBVIOUS
<1>1. PICK sk : sk = SubSeq(ss, 1, k)
  OBVIOUS
<1>2. sk \in Seq(Seq(S)) /\ Len(sk) = k /\ \A i \in 1..k : sk[i] = ss[i]
  BY <1>0, <1>1, FirstPart
<1>3. \A i \in 1..n : g[i] = IF i = 1 THEN ss[i] ELSE g[i - 1] \o ss[i]
  BY DEF Joining
<1>4. \A i \in 1..k : h[i] = IF i = 1 THEN sk[i] ELSE h[i - 1] \o sk[i]
  <2>1. \A i \in 1..k : i # 1 => i - 1 \in 1..k
    BY <1>0
  <2> QED BY <2>1, <1>0, <1>2, <1>3
<1>5. Joining(sk, k, h)
  <2> DEFINE e == [i \in 1..k |-> IF i = 1 THEN sk[i] ELSE h[i - 1] \o sk[i]]
  <2>1. \A i \in 1..k : e[i] = h[i]
    BY <1>4
  <2>2. h = [i \in 1..k |-> h[i]] /\ e = [i \in 1..k |-> e[i]]
    OBVIOUS
  <2>3. h = e
    BY <2>1, <2>2
  <2> QED BY <2>3 DEF Joining
<1>6. k = Len(sk)
  BY <1>2
<1>7. FlattenSeq(sk) = h[k]
  BY <1>0, <1>2, <1>5, <1>6, FlattenIs
<1> QED BY <1>0, <1>1, <1>7 DEF Upto

(* Joining what comes first with what is next.                             *)
LEMMA UptoFacts ==
  ASSUME NEW S, NEW ss \in Seq(Seq(S))
  PROVE  /\ Upto(ss, 0) = <<>>
         /\ \A k \in 0..Len(ss) : Upto(ss, k) \in Seq(S)
         /\ \A k \in 1..Len(ss) : Upto(ss, k) = Upto(ss, k - 1) \o ss[k]
         /\ Upto(ss, Len(ss)) = FlattenSeq(ss)
<1>0. Len(ss) \in Nat /\ \A i \in 1..Len(ss) : ss[i] \in Seq(S)
  OBVIOUS
<1>1. PICK n \in 0..Len(ss) : n = Len(ss)
  BY <1>0
<1>2. PICK g \in [1..n -> Seq(S)] : Joining(ss, n, g)
  BY <1>1, JoiningExists
<1>3. \A k \in 1..n : Upto(ss, k) = g[k]
  BY <1>2, UptoIs
<1>4. SubSeq(ss, 1, 0) = <<>>
  OBVIOUS
<1>5. Upto(ss, 0) = <<>>
  BY <1>4 DEF Upto, FlattenSeq
<1>6. \A k \in 0..Len(ss) : Upto(ss, k) \in Seq(S)
  <2>1. \A k \in 0..Len(ss) : k = 0 \/ k \in 1..n
    BY <1>0, <1>1
  <2>2. <<>> \in Seq(S)
    OBVIOUS
  <2> QED BY <2>1, <2>2, <1>2, <1>3, <1>5
<1>7. \A k \in 1..n : g[k] = IF k = 1 THEN ss[k] ELSE g[k - 1] \o ss[k]
  BY <1>2 DEF Joining
<1>8. \A k \in 1..Len(ss) : Upto(ss, k) = Upto(ss, k - 1) \o ss[k]
  <2> SUFFICES ASSUME NEW k \in 1..Len(ss) PROVE Upto(ss, k) = Upto(ss, k - 1) \o ss[k]
    OBVIOUS
  <2>1. CASE k = 1
    <3>1. <<>> \o ss[1] = ss[1]
      <4>1. \A a \in Seq(S) : <<>> \o a = a
        OBVIOUS
      <4> QED BY <4>1, <2>1, <1>0
    <3>2. Upto(ss, 1) = ss[1]
      BY <2>1, <1>1, <1>3, <1>7
    <3>3. k - 1 = 0
      BY <2>1
    <3> QED BY <2>1, <3>1, <3>2, <3>3, <1>5
  <2>2. CASE k # 1
    <3>1. k \in 1..n /\ k - 1 \in 1..n
      BY <2>2, <1>0, <1>1
    <3> QED BY <2>2, <3>1, <1>3, <1>7
  <2> QED BY <2>1, <2>2
<1>9. Upto(ss, Len(ss)) = FlattenSeq(ss)
  <2>1. \A i \in 1..Len(ss) : SubSeq(ss, 1, Len(ss))[i] = ss[i]
    BY <1>0
  <2>2. SubSeq(ss, 1, Len(ss)) = ss
    OBVIOUS
  <2> QED BY <2>2 DEF Upto
<1> QED BY <1>5, <1>6, <1>8, <1>9

(* How long the first k are, and that they are the beginning of all.       *)
LEMMA UptoLengths ==
  ASSUME NEW S, NEW ss \in Seq(Seq(S))
  PROVE  /\ Len(Upto(ss, 0)) = 0
         /\ \A k \in 1..Len(ss) : /\ Len(Upto(ss, k)) = Len(Upto(ss, k - 1)) + Len(ss[k])
                                  /\ Len(Upto(ss, k - 1)) \in Nat
                                  /\ Len(ss[k]) \in Nat
<1>1. \A k \in 1..Len(ss) : k - 1 \in 0..Len(ss) /\ k \in 0..Len(ss) /\ ss[k] \in Seq(S)
  OBVIOUS
<1>2. \A a, b \in Seq(S) : Len(a \o b) = Len(a) + Len(b) /\ Len(a) \in Nat /\ Len(b) \in Nat
  OBVIOUS
<1>3. \A k \in 1..Len(ss) : /\ Upto(ss, k - 1) \in Seq(S)
                            /\ Upto(ss, k) = Upto(ss, k - 1) \o ss[k]
  BY <1>1, UptoFacts
<1>4. \A k \in 1..Len(ss) : /\ Len(Upto(ss, k)) = Len(Upto(ss, k - 1)) + Len(ss[k])
                            /\ Len(Upto(ss, k - 1)) \in Nat
                            /\ Len(ss[k]) \in Nat
  BY <1>1, <1>2, <1>3
<1>5. Upto(ss, 0) = <<>>
  BY UptoFacts
<1>6. Len(<<>>) = 0
  OBVIOUS
<1> QED BY <1>4, <1>5, <1>6

(* A longer beginning of the sequences begins with a shorter one.          *)
LEMMA UptoBegins ==
  ASSUME NEW S, NEW ss \in Seq(Seq(S)), NEW k \in 0..Len(ss), NEW m \in k..Len(ss)
  PROVE  /\ Len(Upto(ss, k)) \in Nat /\ Len(Upto(ss, m)) \in Nat
         /\ Len(Upto(ss, k)) <= Len(Upto(ss, m))
         /\ \A i \in 1..Len(Upto(ss, k)) : Upto(ss, m)[i] = Upto(ss, k)[i]
<1> DEFINE B(n) == /\ Len(Upto(ss, k)) <= Len(Upto(ss, n))
                   /\ \A i \in 1..Len(Upto(ss, k)) : Upto(ss, n)[i] = Upto(ss, k)[i]
           D == {n \in k..Len(ss) : ~B(n)}
<1>0. Len(ss) \in Nat /\ k \in Nat
  OBVIOUS
<1>1. \A n \in 0..Len(ss) : Upto(ss, n) \in Seq(S)
  BY UptoFacts
<1>2. \A n \in 0..Len(ss) : Len(Upto(ss, n)) \in Nat
  BY <1>1
<1>3. D = {}
  <2> SUFFICES ASSUME D # {} PROVE FALSE
    OBVIOUS
  <2>1. PICK n \in D : \A j \in D : n <= j
    <3>1. D \in SUBSET Nat
      BY <1>0
    <3> QED BY <3>1, LeastNumber
  <2>2. n # k
    BY <2>1, <1>2
  <2>3. n - 1 \in k..Len(ss) /\ ~(n <= n - 1) /\ n \in 1..Len(ss) /\ n - 1 \in 0..Len(ss)
    BY <2>1, <2>2, <1>0
  <2>4. B(n - 1)
    BY <2>1, <2>3
  <2>5. PICK u \in Seq(S) : u = Upto(ss, n - 1)
    BY <1>1, <2>3
  <2>6. PICK v \in Seq(S) : v = ss[n]
    BY <2>3
  <2>7. Upto(ss, n) = u \o v
    BY <2>3, <2>5, <2>6, UptoFacts
  <2>8. Len(u \o v) = Len(u) + Len(v) /\ \A i \in 1..Len(u) : (u \o v)[i] = u[i]
    OBVIOUS
  <2>9. Len(u) \in Nat /\ Len(v) \in Nat /\ Len(Upto(ss, k)) \in Nat
    BY <1>2
  <2>10. Len(Upto(ss, k)) <= Len(u) /\ \A i \in 1..Len(Upto(ss, k)) : u[i] = Upto(ss, k)[i]
    BY <2>4, <2>5
  <2>11. B(n)
    BY <2>7, <2>8, <2>9, <2>10
  <2> QED BY <2>1, <2>11
<1>4. B(m)
  BY <1>3
<1> QED BY <1>0, <1>2, <1>4

(* Where the elements of the k-th are found.                               *)
LEMMA UptoAt ==
  ASSUME NEW S, NEW ss \in Seq(Seq(S)), NEW k \in 1..Len(ss)
  PROVE  /\ Len(Upto(ss, k)) <= Len(FlattenSeq(ss)) /\ Len(FlattenSeq(ss)) \in Nat
         /\ \A i \in 1..Len(ss[k]) :
              /\ Len(Upto(ss, k - 1)) + i \in 1..Len(FlattenSeq(ss))
              /\ FlattenSeq(ss)[Len(Upto(ss, k - 1)) + i] = ss[k][i]
<1>0. Len(ss) \in Nat /\ k - 1 \in 0..Len(ss) /\ k \in 0..Len(ss) /\ ss[k] \in Seq(S)
  OBVIOUS
<1>1. PICK u \in Seq(S) : u = Upto(ss, k - 1)
  BY <1>0, UptoFacts
<1>2. PICK v \in Seq(S) : v = ss[k]
  BY <1>0
<1>3. Upto(ss, k) = u \o v
  BY <1>1, <1>2, UptoFacts
<1>4. Len(u \o v) = Len(u) + Len(v) /\ Len(u) \in Nat /\ Len(v) \in Nat
      /\ \A j \in 1..Len(v) : (u \o v)[Len(u) + j] = v[j]
  OBVIOUS
<1>5. Len(ss) \in k..Len(ss)
  BY <1>0
<1>6. FlattenSeq(ss) = Upto(ss, Len(ss))
  BY UptoFacts
<1>7. PICK w : w = FlattenSeq(ss)
  OBVIOUS
<1>8. Len(u \o v) <= Len(w) /\ Len(w) \in Nat
      /\ \A j \in 1..Len(u \o v) : w[j] = (u \o v)[j]
  <2>1. /\ Len(Upto(ss, k)) <= Len(Upto(ss, Len(ss))) /\ Len(Upto(ss, Len(ss))) \in Nat
        /\ \A j \in 1..Len(Upto(ss, k)) : Upto(ss, Len(ss))[j] = Upto(ss, k)[j]
    BY <1>0, <1>5, UptoBegins
  <2>2. w = Upto(ss, Len(ss))
    BY <1>6, <1>7
  <2> QED BY ONLY <2>1, <2>2, <1>3
<1>9. \A i \in 1..Len(v) : Len(u) + i \in 1..Len(u \o v) /\ Len(u) + i \in 1..Len(w)
  BY <1>4, <1>8
<1>10. \A i \in 1..Len(v) : w[Len(u) + i] = v[i]
  BY <1>4, <1>8, <1>9
<1> QED BY <1>1, <1>2, <1>3, <1>7, <1>8, <1>9, <1>10

(* Each element is one of one of them.                                     *)
OneOf(ss, n, x) == \E k \in 1..n : \E i \in 1..Len(ss[k]) : x = ss[k][i]

(* What a beginning holds comes from one of the sequences it joins.        *)
LEMMA UptoFrom ==
  ASSUME NEW S, NEW ss \in Seq(Seq(S)), NEW m \in 0..Len(ss)
  PROVE  \A p \in 1..Len(Upto(ss, m)) : OneOf(ss, m, Upto(ss, m)[p])
<1> DEFINE From(n, x) == \E k \in 1..n : \E i \in 1..Len(ss[k]) : x = ss[k][i]
           D == {n \in 0..Len(ss) : \E q \in 1..Len(Upto(ss, n)) : ~From(n, Upto(ss, n)[q])}
<1>0. Len(ss) \in Nat
  OBVIOUS
<1>1. \A n \in 0..Len(ss) : Upto(ss, n) \in Seq(S)
  BY UptoFacts
<1>2. D = {}
  <2> SUFFICES ASSUME D # {} PROVE FALSE
    OBVIOUS
  <2>1. PICK n \in D : \A j \in D : n <= j
    <3>1. D \in SUBSET Nat
      BY <1>0
    <3> QED BY <3>1, LeastNumber
  <2>2. PICK q \in 1..Len(Upto(ss, n)) : ~From(n, Upto(ss, n)[q])
    BY <2>1
  <2>3. n # 0
    <3>1. Len(Upto(ss, 0)) = 0
      BY UptoLengths
    <3> QED BY <3>1, <2>2
  <2>4. n - 1 \in 0..Len(ss) /\ ~(n <= n - 1) /\ n \in 1..Len(ss) /\ 1..(n - 1) \subseteq 1..n /\ n \in 1..n
    BY <2>1, <2>3, <1>0
  <2>5. \A r \in 1..Len(Upto(ss, n - 1)) : From(n - 1, Upto(ss, n - 1)[r])
    BY <2>1, <2>4
  <2>6. PICK u \in Seq(S) : u = Upto(ss, n - 1)
    BY <1>1, <2>4
  <2>7. PICK v \in Seq(S) : v = ss[n]
    BY <2>4
  <2>8. Upto(ss, n) = u \o v
    BY <2>4, <2>6, <2>7, UptoFacts
  <2>9. /\ Len(u \o v) = Len(u) + Len(v) /\ Len(u) \in Nat /\ Len(v) \in Nat
        /\ \A j \in 1..Len(u) : (u \o v)[j] = u[j]
        /\ \A j \in 1..Len(v) : (u \o v)[Len(u) + j] = v[j]
    OBVIOUS
  <2>10. q \in 1..Len(u \o v)
    BY <2>2, <2>8
  <2>11. CASE q <= Len(u)
    <3>1. q \in 1..Len(u)
      BY <2>9, <2>10, <2>11
    <3>2. (u \o v)[q] = u[q]
      BY <3>1, <2>9
    <3>3. From(n - 1, u[q])
      BY <3>1, <2>5, <2>6
    <3>4. From(n, u[q])
      BY <3>3, <2>4
    <3> QED BY <3>2, <3>4, <2>2, <2>8
  <2>12. CASE ~(q <= Len(u))
    <3>1. q - Len(u) \in 1..Len(v) /\ q = Len(u) + (q - Len(u))
      BY <2>9, <2>10, <2>12
    <3>2. (u \o v)[q] = v[q - Len(u)]
      BY <3>1, <2>9
    <3>3. From(n, v[q - Len(u)])
      BY <3>1, <2>4, <2>7
    <3> QED BY <3>2, <3>3, <2>2, <2>8
  <2> QED BY <2>11, <2>12
<1>3. \A p \in 1..Len(Upto(ss, m)) : From(m, Upto(ss, m)[p])
  BY <1>2
<1> QED BY <1>3 DEF OneOf

(* Only the first k matter.                                                *)
LEMMA UptoSame ==
  ASSUME NEW S, NEW ss \in Seq(Seq(S)), NEW tt \in Seq(Seq(S)),
         NEW k \in 0..Len(ss), k \in 0..Len(tt), \A i \in 1..k : ss[i] = tt[i]
  PROVE  Upto(ss, k) = Upto(tt, k)
<1>1. PICK a : a = SubSeq(ss, 1, k)
  OBVIOUS
<1>2. PICK b : b = SubSeq(tt, 1, k)
  OBVIOUS
<1>3. a \in Seq(Seq(S)) /\ Len(a) = k /\ \A i \in 1..k : a[i] = ss[i]
  BY <1>1, FirstPart
<1>4. b \in Seq(Seq(S)) /\ Len(b) = k /\ \A i \in 1..k : b[i] = tt[i]
  BY <1>2, FirstPart
<1>5. a = b
  BY <1>3, <1>4, SeqEqual
<1> QED BY <1>1, <1>2, <1>5 DEF Upto

-----------------------------------------------------------------------------
(* The changes of a commit.                                                *)

(* What is known of a repository.                                          *)
LEMMA RepoFacts ==
  ASSUME repo \in Repos
  PROVE  /\ repo.tree \in [Commits -> TreeType] /\ repo.parents \in [Commits -> Seq(Commits)]
         /\ repo.tag \in [Tags -> Names] /\ repo.refs \in Seq(RefType)
         /\ repo.head \in Names \cup {None} /\ repo.boundary \in SUBSET Commits
         /\ \A r \in RefType : r.object \in Names
<1>1. repo \in RepoType
  BY HistoryAssumption
<1> QED BY <1>1 DEF RepoType, RefType

(* A commit's parents, as git has them, are commits.                       *)
LEMMA ParentsType ==
  ASSUME repo \in Repos, NEW c \in Commits
  PROVE  ParentsOf(c) \in Seq(Commits) /\ Len(ParentsOf(c)) \in Nat
<1>1. <<>> \in Seq(Commits) /\ repo.parents[c] \in Seq(Commits)
  BY RepoFacts
<1> QED BY <1>1 DEF ParentsOf

(* What a commit is diffed against is a tree.                              *)
LEMMA BaseType ==
  ASSUME repo \in Repos, NEW parents \in Seq(Commits)
  PROVE  Base(parents) \in TreeType
<1>1. Nothing \in TreeType
  BY DEF Nothing, TreeType, Side
<1>2. parents # <<>> => parents[1] \in Commits
  OBVIOUS
<1> QED BY <1>1, <1>2, RepoFacts DEF Base

(* What the walk makes of a path that differs is a change.                 *)
LEMMA ChangeIsOne ==
  ASSUME NEW c \in Commits, NEW p \in ToSet(Paths), NEW a \in Side, NEW b \in Side, NEW m \in BOOLEAN
  PROVE  Change(c, p, a, b, m) \in ChangeType
BY DEF Change, ChangeType

(* A diff has the change of each path that differs, and no other.          *)
Differs(c, base, p) == base[p] # repo.tree[c][p]
ChangeAt(c, base, m, p) == Change(c, p, base[p], repo.tree[c][p], m)

(* The diff of two trees has the paths that differ, all of them and no     *)
(* other.                                                                  *)
LEMMA DiffFacts ==
  ASSUME repo \in Repos, NEW c \in Commits, NEW base \in TreeType, NEW m \in BOOLEAN
  PROVE  /\ Diff(c, base, m) \in Seq(ChangeType)
         /\ \A j \in 1..Len(Diff(c, base, m)) :
              \E p \in ToSet(Paths) : /\ Differs(c, base, p)
                                      /\ Diff(c, base, m)[j] = ChangeAt(c, base, m, p)
         /\ \A p \in ToSet(Paths) : Differs(c, base, p) =>
              \E j \in 1..Len(Diff(c, base, m)) : Diff(c, base, m)[j] = ChangeAt(c, base, m, p)
<1> DEFINE at(p) == IF base[p] = repo.tree[c][p] THEN <<>> ELSE <<ChangeAt(c, base, m, p)>>
<1>0. PICK dd : dd = [i \in DOMAIN Paths |-> at(Paths[i])]
  OBVIOUS
<1>1. /\ Paths \in Seq(ToSet(Paths)) /\ DOMAIN Paths = 1..Len(Paths) /\ Len(Paths) \in Nat
      /\ \A i \in 1..Len(Paths) : Paths[i] \in ToSet(Paths)
  BY HistoryAssumption
<1>2. \A p \in ToSet(Paths) : base[p] \in Side /\ repo.tree[c][p] \in Side
  BY RepoFacts DEF TreeType
<1>3. \A p \in ToSet(Paths) : ChangeAt(c, base, m, p) \in ChangeType
  BY <1>2, ChangeIsOne DEF ChangeAt
<1>4. \A x \in ChangeType : <<x>> \in Seq(ChangeType) /\ Len(<<x>>) = 1 /\ <<x>>[1] = x
  OBVIOUS
<1>5. <<>> \in Seq(ChangeType) /\ Len(<<>>) = 0
  OBVIOUS
<1>6. \A i \in 1..Len(Paths) : dd[i] = at(Paths[i]) /\ dd[i] \in Seq(ChangeType)
  BY <1>0, <1>1, <1>3, <1>4, <1>5
<1>7. dd \in Seq(Seq(ChangeType)) /\ Len(dd) = Len(Paths)
  <2>1. dd = [i \in 1..Len(Paths) |-> dd[i]]
    BY <1>0, <1>1
  <2> QED BY <2>1, <1>1, <1>6
<1>8. Diff(c, base, m) = FlattenSeq(dd)
  BY <1>0 DEF Diff, ChangeAt
<1>9. PICK d : d = Diff(c, base, m)
  OBVIOUS
<1>10. PICK n \in Nat : n = Len(Paths)
  BY <1>1
<1>11. n \in 0..Len(dd) /\ d = Upto(dd, n)
  <2>1. n = Len(dd) /\ n \in 0..n
    BY <1>7, <1>10
  <2>2. Upto(dd, Len(dd)) = FlattenSeq(dd)
    BY <1>7, UptoFacts
  <2> QED BY <2>1, <2>2, <1>8, <1>9
<1>12. d \in Seq(ChangeType)
  BY <1>7, <1>11, UptoFacts
<1>13. \A j \in 1..Len(d) : \E k \in 1..n : \E i \in 1..Len(dd[k]) : d[j] = dd[k][i]
  <2>1. \A p \in 1..Len(Upto(dd, n)) : OneOf(dd, n, Upto(dd, n)[p])
    BY <1>7, <1>11, UptoFrom
  <2> QED BY <2>1, <1>11 DEF OneOf
<1>14. \A j \in 1..Len(d) : \E p \in ToSet(Paths) : Differs(c, base, p) /\ d[j] = ChangeAt(c, base, m, p)
  <2> SUFFICES ASSUME NEW j \in 1..Len(d)
               PROVE  \E p \in ToSet(Paths) : Differs(c, base, p) /\ d[j] = ChangeAt(c, base, m, p)
    OBVIOUS
  <2>1. PICK k \in 1..n : \E i \in 1..Len(dd[k]) : d[j] = dd[k][i]
    BY <1>13
  <2>2. PICK i \in 1..Len(dd[k]) : d[j] = dd[k][i]
    BY <2>1
  <2>3. dd[k] = at(Paths[k]) /\ Paths[k] \in ToSet(Paths)
    BY <1>1, <1>6, <1>10
  <2>4. CASE base[Paths[k]] = repo.tree[c][Paths[k]]
    BY <2>2, <2>3, <2>4, <1>5
  <2>5. CASE base[Paths[k]] # repo.tree[c][Paths[k]]
    <3>1. dd[k] = <<ChangeAt(c, base, m, Paths[k])>>
      BY <2>3, <2>5
    <3>2. i = 1 /\ d[j] = ChangeAt(c, base, m, Paths[k])
      BY <3>1, <2>2, <2>3, <1>3, <1>4
    <3> QED BY <3>2, <2>3, <2>5 DEF Differs
  <2> QED BY <2>4, <2>5
<1>15. \A p \in ToSet(Paths) : Differs(c, base, p) => \E j \in 1..Len(d) : d[j] = ChangeAt(c, base, m, p)
  <2> SUFFICES ASSUME NEW p \in ToSet(Paths), Differs(c, base, p)
               PROVE  \E j \in 1..Len(d) : d[j] = ChangeAt(c, base, m, p)
    OBVIOUS
  <2>1. PICK k \in 1..Len(Paths) : p = Paths[k]
    BY <1>1 DEF ToSet
  <2>2. dd[k] = <<ChangeAt(c, base, m, p)>>
    BY <2>1, <1>1, <1>6 DEF Differs
  <2>3. 1 \in 1..Len(dd[k]) /\ dd[k][1] = ChangeAt(c, base, m, p)
    BY <2>2, <1>3, <1>4
  <2>4. k \in 1..Len(dd)
    BY <1>7
  <2>5. /\ Len(Upto(dd, k - 1)) + 1 \in 1..Len(FlattenSeq(dd))
        /\ FlattenSeq(dd)[Len(Upto(dd, k - 1)) + 1] = dd[k][1]
    BY <1>7, <2>3, <2>4, UptoAt
  <2> QED BY <2>3, <2>5, <1>8, <1>9
<1> QED BY <1>9, <1>12, <1>14, <1>15

(* The changes of a commit carry its name, and say whether it is a merge.  *)
OwnChange(c, x) ==
  /\ x \in ChangeType
  /\ x.commit = c /\ x.date = c /\ x.subject = c
  /\ x.merge = (Len(ParentsOf(c)) > 1)

(* The changes of a commit carry its own hash, date and subject.           *)
LEMMA ChangesFacts ==
  ASSUME repo \in Repos, NEW c \in Commits
  PROVE  /\ ChangesOf(c) \in Seq(ChangeType)
         /\ \A j \in 1..Len(ChangesOf(c)) : OwnChange(c, ChangesOf(c)[j])
<1>1. PICK pp : pp = ParentsOf(c)
  OBVIOUS
<1>2. PICK m \in BOOLEAN : m = (Len(pp) > 1)
  <2>1. (Len(pp) > 1) \in BOOLEAN
    OBVIOUS
  <2> QED BY <2>1, Zenon
<1>3. Base(pp) \in TreeType
  BY <1>1, ParentsType, BaseType
<1>4. ChangesOf(c) = IF LeftOut(pp) THEN <<>> ELSE Diff(c, Base(pp), m)
  BY <1>1, <1>2 DEF ChangesOf
<1>5. Diff(c, Base(pp), m) \in Seq(ChangeType)
  BY <1>3, DiffFacts
<1>6. \A j \in 1..Len(Diff(c, Base(pp), m)) :
        \E p \in ToSet(Paths) : Diff(c, Base(pp), m)[j] = ChangeAt(c, Base(pp), m, p)
  BY <1>3, DiffFacts
<1>7. \A j \in 1..Len(Diff(c, Base(pp), m)) : OwnChange(c, Diff(c, Base(pp), m)[j])
  <2> SUFFICES ASSUME NEW j \in 1..Len(Diff(c, Base(pp), m))
               PROVE  OwnChange(c, Diff(c, Base(pp), m)[j])
    OBVIOUS
  <2>1. Diff(c, Base(pp), m)[j] \in ChangeType
    BY <1>5
  <2>2. PICK p \in ToSet(Paths) : Diff(c, Base(pp), m)[j] = ChangeAt(c, Base(pp), m, p)
    BY <1>6
  <2> QED BY <2>1, <2>2, <1>1, <1>2 DEF OwnChange, ChangeAt, Change
<1>8. <<>> \in Seq(ChangeType) /\ Len(<<>>) = 0
  OBVIOUS
<1> QED BY <1>4, <1>5, <1>7, <1>8

-----------------------------------------------------------------------------
(* As long as the repository stays what it is, so do its changes.          *)

(* The repository does not change while it is walked, and so neither do    *)
(* the parents of a commit, as git has them;                               *)
LEMMA ParentsKept ==
  ASSUME repo' = repo, NEW c
  PROVE  ParentsOf(c)' = ParentsOf(c)
BY DEF ParentsOf

(* nor the tree that a commit is diffed against;                           *)
LEMMA BaseKept ==
  ASSUME repo' = repo, NEW parents
  PROVE  Base(parents)' = Base(parents)
BY DEF Base, Nothing, Absent

(* nor the diff of two trees;                                              *)
LEMMA DiffKept ==
  ASSUME repo' = repo, NEW c, NEW base, NEW m
  PROVE  Diff(c, base, m)' = Diff(c, base, m)
<1>1. PICK e : e = [i \in DOMAIN Paths |->
                      IF base[Paths[i]] = repo.tree[c][Paths[i]] THEN <<>>
                      ELSE <<Change(c, Paths[i], base[Paths[i]], repo.tree[c][Paths[i]], m)>>]
  OBVIOUS
<1>2. Diff(c, base, m) = FlattenSeq(e)
  BY <1>1 DEF Diff
<1>3. Diff(c, base, m)' = FlattenSeq(e)
  BY <1>1 DEF Diff
<1> QED BY <1>2, <1>3

(* nor, as --merges does not change either, the changes of a commit;       *)
LEMMA ChangesKept ==
  ASSUME repo' = repo, merges' = merges, NEW c
  PROVE  ChangesOf(c)' = ChangesOf(c)
<1>1. PICK pp : pp = ParentsOf(c)
  OBVIOUS
<1>2. ParentsOf(c)' = pp
  BY <1>1, ParentsKept
<1>3. PICK b : b = Base(pp)
  OBVIOUS
<1>4. Base(pp)' = b
  BY <1>3, BaseKept
<1>5. Diff(c, b, Len(pp) > 1)' = Diff(c, b, Len(pp) > 1)
  BY DiffKept
<1>6. ChangesOf(c) = IF LeftOut(pp) THEN <<>> ELSE Diff(c, b, Len(pp) > 1)
  BY <1>1, <1>3 DEF ChangesOf
<1>7. ChangesOf(c)' = IF LeftOut(pp)' THEN <<>> ELSE Diff(c, b, Len(pp) > 1)'
  BY <1>2, <1>4 DEF ChangesOf
<1>8. LeftOut(pp)' = LeftOut(pp)
  BY DEF LeftOut
<1> QED BY <1>5, <1>6, <1>7, <1>8

(* nor what an object leads to;                                            *)
LEMMA LeadsKept ==
  ASSUME repo' = repo, NEW o
  PROVE  Leads(o)' = Leads(o)
<1>1. \A S : TagClosed(S)' = TagClosed(S)
  BY DEF TagClosed
<1>2. \A x : x \in Leads(o)' <=> x \in Leads(o)
  BY <1>1 DEF Leads
<1> QED BY <1>2

(* nor the commits that HEAD and the references lead to;                   *)
LEMMA RootsKept ==
  ASSUME repo' = repo
  PROVE  Roots' = Roots
<1>1. Named' = Named
  BY DEF Named
<1>2. \A o : Leads(o)' = Leads(o)
  BY LeadsKept
<1>3. \A x : x \in Roots' <=> x \in Roots
  BY <1>1, <1>2 DEF Roots
<1> QED BY <1>3

(* A set that the walk cannot leave.                                       *)
ClosedUp(S) == Roots \subseteq S /\ \A c \in S : ToSet(ParentsOf(c)) \subseteq S

(* Reachable with its local definition named.                              *)
LEMMA ReachableIs == Reachable = {c \in Commits : \A S \in SUBSET Commits : ClosedUp(S) => c \in S}
BY DEF Reachable, ClosedUp

(* The history that git shows does not change during the walk.             *)
LEMMA ReachableKept ==
  ASSUME repo' = repo
  PROVE  Reachable' = Reachable
<1>1. \A S : ClosedUp(S)' <=> ClosedUp(S)
  <2>1. \A c : ParentsOf(c)' = ParentsOf(c)
    BY ParentsKept
  <2>2. Roots' = Roots
    BY RootsKept
  <2> QED BY <2>1, <2>2 DEF ClosedUp
<1>2. Reachable' = {c \in Commits : \A S \in SUBSET Commits : ClosedUp(S)' => c \in S}
  BY DEF Reachable, ClosedUp
<1>3. Reachable = {c \in Commits : \A S \in SUBSET Commits : ClosedUp(S) => c \in S}
  BY ReachableIs
<1> QED BY <1>1, <1>2, <1>3

(* s lists the history, children before parents.                           *)
Ranked(s) == \A i, j \in DOMAIN s : s[j] \in ToSet(ParentsOf(s[i])) => i < j

(* Nor do the orders in which a walk may show it.                          *)
LEMMA OrdersKept ==
  ASSUME repo' = repo
  PROVE  Orders' = Orders
<1>1. Reachable' = Reachable
  BY ReachableKept
<1>2. \A c : ParentsOf(c)' = ParentsOf(c)
  BY ParentsKept
<1>3. \A s : Ranked(s)' <=> Ranked(s)
  BY <1>2 DEF Ranked
<1>4. Orders = {s \in SetToSeqs(Reachable) : Ranked(s)}
  BY DEF Orders, Ranked
<1>5. Orders' = {s \in SetToSeqs(Reachable') : Ranked(s)'}
  BY DEF Orders, Ranked
<1> QED BY <1>1, <1>3, <1>4, <1>5

-----------------------------------------------------------------------------
(* What git log prints.                                                    *)

CutTokens == {Cut("cut"), Cut("blank")}

Token ==
  [kind: {"commit", "date", "subject"}, value: Commits]
  \cup [kind: {"parents"}, value: Nat]
  \cup [kind: {"raw"}, value: Side \X Side]
  \cup [kind: {"path"}, value: ToSet(Paths)]
  \cup CutTokens

RawOf(x) == Field("raw", <<x.old, x.new>>)
PathOf(x) == Field("path", x.path)

(* git log prints a change as two fields, the raw line and the path.       *)
LEMMA ChangeFieldsFacts ==
  ASSUME NEW x \in ChangeType
  PROVE  /\ ChangeFields(x) \in Seq(Token) /\ Len(ChangeFields(x)) = 2
         /\ ChangeFields(x)[1] = RawOf(x) /\ ChangeFields(x)[2] = PathOf(x)
<1>1. RawOf(x) \in Token /\ PathOf(x) \in Token
  BY DEF RawOf, PathOf, Field, Token, ChangeType
<1>2. ChangeFields(x) = <<RawOf(x), PathOf(x)>>
  BY DEF ChangeFields, RawOf, PathOf
<1>3. \A a, b \in Token : <<a, b>> \in Seq(Token) /\ Len(<<a, b>>) = 2 /\ <<a, b>>[1] = a /\ <<a, b>>[2] = b
  OBVIOUS
<1> QED BY <1>1, <1>2, <1>3

(* The fields of some changes.                                             *)
Shown(v) == FlattenSeq([i \in DOMAIN v |-> ChangeFields(v[i])])

(* The changes of a commit are printed one after the other, two fields     *)
(* each.                                                                   *)
LEMMA ShownFacts ==
  ASSUME NEW v \in Seq(ChangeType)
  PROVE  /\ Shown(v) \in Seq(Token) /\ Len(Shown(v)) = 2 * Len(v)
         /\ \A j \in 1..Len(v) : /\ Shown(v)[(j - 1) * 2 + 1] = RawOf(v[j])
                                 /\ Shown(v)[(j - 1) * 2 + 2] = PathOf(v[j])
<1>1. PICK n \in Nat : n = Len(v)
  OBVIOUS
<1>2. DOMAIN v = 1..n /\ \A i \in 1..n : v[i] \in ChangeType
  BY <1>1
<1>3. PICK ff : ff = [i \in 1..n |-> ChangeFields(v[i])]
  OBVIOUS
<1>4. \A i \in 1..n : /\ ff[i] \in Seq(Token) /\ Len(ff[i]) = 2
                      /\ ff[i][1] = RawOf(v[i]) /\ ff[i][2] = PathOf(v[i])
  BY <1>2, <1>3, ChangeFieldsFacts
<1>5. ff \in Seq(Seq(Token)) /\ Len(ff) = n
  <2>1. ff = [i \in 1..n |-> ff[i]]
    BY <1>3
  <2> QED BY <2>1, <1>1, <1>4
<1>6. Shown(v) = FlattenSeq(ff)
  BY <1>2, <1>3 DEF Shown
<1>7. \A k \in 1..n : /\ Len(Upto(ff, k)) = Len(Upto(ff, k - 1)) + 2
                      /\ Len(Upto(ff, k - 1)) \in Nat
  BY <1>4, <1>5, UptoLengths
<1>8. Len(Upto(ff, 0)) = 0
  BY <1>5, UptoLengths
<1> DEFINE D == {k \in 0..n : Len(Upto(ff, k)) # 2 * k}
<1>9. D = {}
  <2> SUFFICES ASSUME D # {} PROVE FALSE
    OBVIOUS
  <2>1. PICK m \in D : \A k \in D : m <= k
    <3>1. D \in SUBSET Nat
      BY <1>1
    <3> QED BY <3>1, LeastNumber
  <2>2. m # 0
    BY <2>1, <1>8
  <2>3. m - 1 \in 0..n /\ m \in 1..n /\ ~(m <= m - 1)
    BY <2>1, <2>2, <1>1
  <2>4. Len(Upto(ff, m - 1)) = 2 * (m - 1)
    BY <2>1, <2>3
  <2>5. 2 * (m - 1) + 2 = 2 * m
    BY <2>3
  <2> QED BY <2>1, <2>3, <2>4, <2>5, <1>7
<1>10. \A k \in 0..n : Len(Upto(ff, k)) = 2 * k
  BY <1>9
<1>11. Len(Shown(v)) = 2 * n /\ Shown(v) \in Seq(Token)
  <2>1. n \in 0..n /\ n \in 0..Len(ff)
    BY <1>5
  <2>2. Upto(ff, n) = FlattenSeq(ff) /\ Upto(ff, n) \in Seq(Token)
    BY <2>1, <1>5, UptoFacts
  <2> QED BY <2>1, <2>2, <1>6, <1>10
<1>12. \A j \in 1..n : /\ Shown(v)[(j - 1) * 2 + 1] = RawOf(v[j])
                       /\ Shown(v)[(j - 1) * 2 + 2] = PathOf(v[j])
  <2> SUFFICES ASSUME NEW j \in 1..n
               PROVE  /\ Shown(v)[(j - 1) * 2 + 1] = RawOf(v[j])
                      /\ Shown(v)[(j - 1) * 2 + 2] = PathOf(v[j])
    OBVIOUS
  <2>1. j \in 1..Len(ff) /\ 1 \in 1..Len(ff[j]) /\ 2 \in 1..Len(ff[j]) /\ j - 1 \in 0..n
    <3>1. Len(ff) = n /\ Len(ff[j]) = 2
      BY <1>4, <1>5
    <3>2. n \in Nat /\ j \in 1..n /\ j - 1 \in 0..n
      BY ONLY <1>1, j \in 1..n
    <3>3. 1 \in 1..2 /\ 2 \in 1..2
      OBVIOUS
    <3> QED BY ONLY <3>1, <3>2, <3>3
  <2>2. /\ FlattenSeq(ff)[Len(Upto(ff, j - 1)) + 1] = ff[j][1]
        /\ FlattenSeq(ff)[Len(Upto(ff, j - 1)) + 2] = ff[j][2]
    <3>1. \A i \in 1..Len(ff[j]) : FlattenSeq(ff)[Len(Upto(ff, j - 1)) + i] = ff[j][i]
      BY <2>1, <1>5, UptoAt
    <3> QED BY ONLY <3>1, <2>1
  <2>3. Len(Upto(ff, j - 1)) = (j - 1) * 2
    BY <2>1, <1>10
  <2> QED BY <2>2, <2>3, <1>4, <1>6
<1> QED BY <1>1, <1>11, <1>12

(* The record of a commit c with changes v, of which mm parents are told.  *)
RecordOf(r, c, v) ==
  /\ r \in Seq(Token) /\ Len(r) = 4 + 2 * Len(v)
  /\ r[1] = Field("commit", c) /\ r[2] = Field("date", c) /\ r[4] = Field("subject", c)
  /\ r[3].kind = "parents"
  /\ \A j \in 1..Len(v) : /\ v[j] \in ChangeType
                          /\ v[j].commit = c /\ v[j].date = c /\ v[j].subject = c
                          /\ v[j].merge = (r[3].value > 1)
                          /\ r[4 + ((j - 1) * 2 + 1)] = RawOf(v[j])
                          /\ r[4 + ((j - 1) * 2 + 2)] = PathOf(v[j])

(* The record of a commit that git log prints has the form that            *)
(* readChanges takes apart: four fields, of which only the first is        *)
(* marked, and the changes.                                                *)
LEMMA RecordFacts ==
  ASSUME repo \in Repos, NEW c \in Commits
  PROVE  RecordOf(CommitFields(c), c, ChangesOf(c))
<1>1. PICK v \in Seq(ChangeType) : v = ChangesOf(c)
  BY ChangesFacts
<1>2. PICK m \in Nat : m = Len(ParentsOf(c))
  BY ParentsType
<1>3. \A j \in 1..Len(v) : /\ v[j] \in ChangeType
                           /\ v[j].commit = c /\ v[j].date = c /\ v[j].subject = c
                           /\ v[j].merge = (m > 1)
  BY <1>1, <1>2, ChangesFacts DEF OwnChange
<1>4. PICK h : h = <<Field("commit", c), Field("date", c), Field("parents", m), Field("subject", c)>>
  OBVIOUS
<1>5. /\ Field("commit", c) \in Token /\ Field("date", c) \in Token
      /\ Field("parents", m) \in Token /\ Field("subject", c) \in Token
  BY DEF Field, Token
<1>6. h \in Seq(Token) /\ Len(h) = 4
      /\ h[1] = Field("commit", c) /\ h[2] = Field("date", c) /\ h[3] = Field("parents", m)
      /\ h[4] = Field("subject", c)
  BY <1>4, <1>5
<1>7. PICK w \in Seq(Token) : w = Shown(v)
  BY ShownFacts
<1>8. CommitFields(c) = h \o w
  BY <1>1, <1>2, <1>4, <1>7 DEF CommitFields, Shown
<1>9. Len(w) = 2 * Len(v) /\ \A j \in 1..Len(v) : /\ w[(j - 1) * 2 + 1] = RawOf(v[j])
                                                  /\ w[(j - 1) * 2 + 2] = PathOf(v[j])
  BY <1>7, ShownFacts
<1>10. /\ h \o w \in Seq(Token) /\ Len(h \o w) = 4 + Len(w)
       /\ \A i \in 1..4 : (h \o w)[i] = h[i]
       /\ \A i \in 1..Len(w) : (h \o w)[4 + i] = w[i]
  <2>0. Len(h) = 4
    BY <1>6
  <2>1. h \in Seq(Token) /\ w \in Seq(Token)
    BY <1>6
  <2>2. /\ h \o w \in Seq(Token) /\ Len(h \o w) = Len(h) + Len(w)
        /\ \A i \in 1..Len(h) : (h \o w)[i] = h[i]
        /\ \A i \in 1..Len(w) : (h \o w)[Len(h) + i] = w[i]
    BY <2>1, JoinFacts
  <2> QED BY ONLY <2>0, <2>2
<1>11. \A j \in 1..Len(v) : (j - 1) * 2 + 1 \in 1..Len(w) /\ (j - 1) * 2 + 2 \in 1..Len(w)
  <2>1. Len(v) \in Nat
    OBVIOUS
  <2> QED BY <2>1, <1>9
<1>12. /\ (h \o w)[1] = Field("commit", c) /\ (h \o w)[2] = Field("date", c)
       /\ (h \o w)[3] = Field("parents", m) /\ (h \o w)[4] = Field("subject", c)
  BY <1>6, <1>10
<1>13. \A j \in 1..Len(v) : /\ (h \o w)[4 + ((j - 1) * 2 + 1)] = RawOf(v[j])
                            /\ (h \o w)[4 + ((j - 1) * 2 + 2)] = PathOf(v[j])
  BY <1>9, <1>10, <1>11
<1>14. Field("parents", m).kind = "parents" /\ Field("parents", m).value = m
  BY DEF Field
<1>15. RecordOf(h \o w, c, v)
  BY ONLY <1>3, <1>9, <1>10, <1>12, <1>13, <1>14 DEF RecordOf
<1> QED BY <1>1, <1>8, <1>15

-----------------------------------------------------------------------------
(* The output for a whole history.                                         *)

Output(s) == FlattenSeq([i \in DOMAIN s |-> CommitFields(s[i])])

(* The commits of the history in an order, and the changes of each.        *)
Plan(s, v) == s \in Orders /\ v = [k \in DOMAIN s |-> ChangesOf(s[k])]

(* From place a + 1 on the output o has the record of commit c with        *)
(* changes v.                                                              *)
RecordAt(o, a, c, v) ==
  /\ o[a + 1] = Field("commit", c) /\ o[a + 2] = Field("date", c)
  /\ o[a + 3].kind = "parents" /\ o[a + 4] = Field("subject", c)
  /\ \A j \in 0..(Len(v) - 1) :
       /\ o[a + 4 + 2 * j + 1] = RawOf(v[j + 1])
       /\ o[a + 4 + 2 * j + 2] = PathOf(v[j + 1])
       /\ v[j + 1].commit = c /\ v[j + 1].date = c /\ v[j + 1].subject = c
       /\ v[j + 1].merge = (o[a + 3].value > 1)

(* The output o has the commits s with the changes v, that of the k-th     *)
(* from place at[k] + 1 on.                                                *)
Printed(s, v, o, at) ==
  /\ s \in Seq(Commits) /\ v \in Seq(Seq(ChangeType)) /\ Len(v) = Len(s) /\ o \in Seq(Token)
  /\ at \in [1..(Len(s) + 1) -> Nat] /\ at[1] = 0 /\ at[Len(s) + 1] = Len(o)
  /\ \A k \in 1..Len(s) : /\ at[k + 1] = at[k] + (4 + 2 * Len(v[k]))
                          /\ at[k + 1] <= Len(o)
                          /\ RecordAt(o, at[k], s[k], v[k])

(* An order of the history has each of its commits once.                   *)
LEMMA OrderType ==
  ASSUME NEW s \in Orders
  PROVE  /\ s \in Seq(Commits) /\ \A i \in 1..Len(s) : s[i] \in Reachable
         /\ Len(s) = Cardinality(Reachable) /\ Len(s) \in Nat /\ DOMAIN s = 1..Len(s)
<1>1. Reachable \subseteq Commits
  BY DEF Reachable
<1>2. Cardinality(Reachable) \in Nat
  <2>1. IsFiniteSet(Reachable)
    BY <1>1, HistoryAssumption, FS_Subset
  <2> QED BY <2>1, FS_CardinalityType
<1>3. PICK n \in Nat : n = Cardinality(Reachable)
  BY <1>2
<1>4. s \in [1..n -> Reachable]
  BY <1>3 DEF Orders, SetToSeqs
<1>5. s \in Seq(Reachable) /\ Len(s) = n
  BY <1>3, <1>4
<1>6. s \in Seq(Commits)
  BY <1>1, <1>5
<1> QED BY <1>3, <1>4, <1>5, <1>6

(* A record that lies in the output from some place has its fields there.  *)
LEMMA RecordPlaced ==
  ASSUME NEW o, NEW a \in Nat, NEW c, NEW v, NEW r, Len(v) \in Nat, RecordOf(r, c, v),
         \A i \in 1..Len(r) : o[a + i] = r[i]
  PROVE  RecordAt(o, a, c, v)
<1>1. Len(r) = 4 + 2 * Len(v)
  BY DEF RecordOf
<1>2. 1 \in 1..Len(r) /\ 2 \in 1..Len(r) /\ 3 \in 1..Len(r) /\ 4 \in 1..Len(r)
  BY <1>1
<1>3. o[a + 1] = r[1] /\ o[a + 2] = r[2] /\ o[a + 3] = r[3] /\ o[a + 4] = r[4]
  BY <1>2
<1>4. \A j \in 0..(Len(v) - 1) :
        /\ o[a + 4 + 2 * j + 1] = RawOf(v[j + 1])
        /\ o[a + 4 + 2 * j + 2] = PathOf(v[j + 1])
        /\ v[j + 1].commit = c /\ v[j + 1].date = c /\ v[j + 1].subject = c
        /\ v[j + 1].merge = (r[3].value > 1)
  <2> SUFFICES ASSUME NEW j \in 0..(Len(v) - 1)
               PROVE  /\ o[a + 4 + 2 * j + 1] = RawOf(v[j + 1])
                      /\ o[a + 4 + 2 * j + 2] = PathOf(v[j + 1])
                      /\ v[j + 1].commit = c /\ v[j + 1].date = c /\ v[j + 1].subject = c
                      /\ v[j + 1].merge = (r[3].value > 1)
    OBVIOUS
  <2>1. PICK k \in 1..Len(v) : k = j + 1
    OBVIOUS
  <2>2. PICK p \in 1..Len(r) : p = 4 + ((k - 1) * 2 + 1)
    BY <2>1, <1>1
  <2>3. PICK q \in 1..Len(r) : q = 4 + ((k - 1) * 2 + 2)
    BY <2>1, <1>1
  <2>4. a + p = a + 4 + 2 * j + 1 /\ a + q = a + 4 + 2 * j + 2
    BY <2>1, <2>2, <2>3
  <2>5. /\ r[p] = RawOf(v[k]) /\ r[q] = PathOf(v[k])
        /\ v[k].commit = c /\ v[k].date = c /\ v[k].subject = c
        /\ v[k].merge = (r[3].value > 1)
    BY <2>2, <2>3 DEF RecordOf
  <2>6. o[a + p] = r[p] /\ o[a + q] = r[q]
    OBVIOUS
  <2> QED BY ONLY <2>1, <2>4, <2>5, <2>6
<1> QED BY <1>3, <1>4 DEF RecordOf, RecordAt

(* The whole output of git log is the records of the commits, in an order  *)
(* of the history, with nothing between them.                              *)
LEMMA OutputIsPrinted ==
  ASSUME repo \in Repos, NEW s \in Orders
  PROVE  \E v, at : Plan(s, v) /\ Printed(s, v, Output(s), at)
<1>1. PICK n \in Nat : n = Len(s)
  BY OrderType
<1>2. s \in Seq(Commits) /\ DOMAIN s = 1..n /\ \A k \in 1..n : s[k] \in Commits
  <2>1. \A t \in Seq(Commits) : \A k \in 1..Len(t) : t[k] \in Commits
    OBVIOUS
  <2> QED BY <2>1, <1>1, OrderType
<1>3. PICK v : v = [k \in 1..n |-> ChangesOf(s[k])]
  OBVIOUS
<1>4. PICK rr : rr = [k \in 1..n |-> CommitFields(s[k])]
  OBVIOUS
<1>5. \A k \in 1..n : v[k] \in Seq(ChangeType) /\ RecordOf(rr[k], s[k], v[k])
  BY <1>2, <1>3, <1>4, ChangesFacts, RecordFacts
<1>6. \A k \in 1..n : rr[k] \in Seq(Token) /\ Len(rr[k]) = 4 + 2 * Len(v[k])
  BY <1>5 DEF RecordOf
<1>7. v \in Seq(Seq(ChangeType)) /\ Len(v) = n
  <2>1. v = [k \in 1..n |-> v[k]]
    BY <1>3
  <2> QED BY <2>1, <1>5
<1>8. rr \in Seq(Seq(Token)) /\ Len(rr) = n
  <2>1. rr = [k \in 1..n |-> rr[k]]
    BY <1>4
  <2> QED BY <2>1, <1>6
<1>9. Output(s) = FlattenSeq(rr)
  BY <1>2, <1>4 DEF Output
<1>10. PICK o : o = Output(s)
  OBVIOUS
<1>11. o = Upto(rr, n) /\ o \in Seq(Token)
  <2>1. n \in 0..Len(rr)
    BY <1>8
  <2>2. Upto(rr, Len(rr)) = FlattenSeq(rr) /\ \A k \in 0..Len(rr) : Upto(rr, k) \in Seq(Token)
    BY <1>8, UptoFacts
  <2> QED BY <2>1, <2>2, <1>8, <1>9, <1>10
<1>12. PICK at : at = [k \in 1..(n + 1) |-> Len(Upto(rr, k - 1))]
  OBVIOUS
<1>13. \A k \in 1..(n + 1) : Len(Upto(rr, k - 1)) \in Nat
  <2>1. \A k \in 1..(n + 1) : k - 1 \in 0..Len(rr)
    BY <1>8
  <2>2. \A k \in 0..Len(rr) : Upto(rr, k) \in Seq(Token)
    BY <1>8, UptoFacts
  <2>3. \A t \in Seq(Token) : Len(t) \in Nat
    OBVIOUS
  <2> QED BY <2>1, <2>2, <2>3
<1>14. at \in [1..(n + 1) -> Nat] /\ at[1] = 0 /\ at[n + 1] = Len(o)
  <2>1. at[1] = Len(Upto(rr, 0))
    <3>1. 1 \in 1..(n + 1) /\ 1 - 1 = 0
      OBVIOUS
    <3> QED BY <3>1, <1>12
  <2>2. Len(Upto(rr, 0)) = 0
    BY <1>8, UptoLengths
  <2>3. at[n + 1] = Len(Upto(rr, n))
    <3>1. n + 1 \in 1..(n + 1) /\ (n + 1) - 1 = n
      OBVIOUS
    <3> QED BY <3>1, <1>12
  <2> QED BY <2>1, <2>2, <2>3, <1>11, <1>12, <1>13
<1>15. ASSUME NEW k \in 1..n
       PROVE  /\ at[k + 1] = at[k] + (4 + 2 * Len(v[k])) /\ at[k + 1] <= Len(o)
              /\ RecordAt(o, at[k], s[k], v[k])
  <2>1. at[k] = Len(Upto(rr, k - 1)) /\ at[k + 1] = Len(Upto(rr, k)) /\ at[k] \in Nat
    <3>1. k \in 1..(n + 1) /\ k + 1 \in 1..(n + 1) /\ (k + 1) - 1 = k
      OBVIOUS
    <3> QED BY <3>1, <1>12, <1>13
  <2>2. k \in 1..Len(rr)
    BY <1>8
  <2>3. Len(Upto(rr, k)) = Len(Upto(rr, k - 1)) + Len(rr[k])
    BY <1>8, <2>2, UptoLengths
  <2>4. /\ Len(Upto(rr, k)) <= Len(FlattenSeq(rr))
        /\ \A i \in 1..Len(rr[k]) : FlattenSeq(rr)[Len(Upto(rr, k - 1)) + i] = rr[k][i]
    BY <1>8, <2>2, UptoAt
  <2>5. \A i \in 1..Len(rr[k]) : o[at[k] + i] = rr[k][i]
    BY ONLY <2>1, <2>4, <1>9, <1>10
  <2>6. Len(v[k]) \in Nat
    BY <1>5
  <2>7. RecordAt(o, at[k], s[k], v[k])
    BY <2>1, <2>5, <2>6, <1>5, RecordPlaced
  <2> QED BY <2>1, <2>3, <2>4, <2>7, <1>6, <1>9, <1>10
<1>16. Plan(s, v)
  BY <1>2, <1>3 DEF Plan
<1>17. Printed(s, v, o, at)
  BY <1>1, <1>2, <1>7, <1>11, <1>14, <1>15 DEF Printed
<1> QED BY <1>10, <1>16, <1>17

-----------------------------------------------------------------------------
(* The git backend.  Where readChanges is in the output.                   *)

(* n tokens of the output o have been read; the others are in the pipe, or *)
(* the child has still to print them, or they are lost as it died.         *)
InStream(o, n) ==
  /\ n \in Nat
  /\ child[Log] \in {"running", "exited", "died"}
  /\ \A i \in 1..Len(pipe[Log]) :
       \/ n + i <= Len(o) /\ pipe[Log][i] = o[n + i]
       \/ child[Log] = "died" /\ pipe[Log][i] \in CutTokens
  /\ child[Log] = "running" =>
       /\ n + Len(pipe[Log]) + Len(script[Log]) = Len(o)
       /\ \A i \in 1..Len(script[Log]) : script[Log][i] = o[n + Len(pipe[Log]) + i]
  /\ child[Log] = "exited" => n + Len(pipe[Log]) = Len(o)

(* A field says by its kind whether it is whole, and of a commit or a raw  *)
(* line what it holds.                                                     *)
LEMMA TokensAre ==
  ASSUME NEW t \in Token
  PROVE  /\ t.kind = "commit" => t.value \in Commits
         /\ t.kind \in {"cut", "blank"} <=> t \in CutTokens
         /\ t.kind = "raw" => t.value[1] \in Side /\ t.value[2] \in Side
BY DEF Token, CutTokens, Cut, Field

(* The git log child is the only one, and what it is yet to print or has   *)
(* printed are fields.                                                     *)
LEMMA LogAlone ==
  ASSUME ChildTypeOK(Token)
  PROVE  /\ Log \in Children /\ Children = {Log}
         /\ pipe[Log] \in Seq(Token) /\ script[Log] \in Seq(Token)
         /\ Len(pipe[Log]) \in Nat /\ Len(script[Log]) \in Nat
         /\ child[Log] \in {"none", "running", "exited", "died"}
         /\ child[Log] # "running" => script[Log] = <<>>
BY GitLogAssumption DEF ChildTypeOK

(* A read takes the next token.                                            *)
LEMMA ReadStep ==
  ASSUME ChildTypeOK(Token), NEW o \in Seq(Token), NEW n, InStream(o, n), NEW pc, NEW f, Reads(pc, f)
  PROVE  /\ f \in Token /\ n + 1 <= Len(o) /\ f = o[n + 1]
         /\ InStream(o, n + 1)' /\ ChildTypeOK(Token)'
<1>1. /\ Log \in Children /\ Children = {Log}
      /\ pipe[Log] \in Seq(Token) /\ script[Log] \in Seq(Token)
      /\ Len(pipe[Log]) \in Nat /\ Len(script[Log]) \in Nat
  BY LogAlone
<1>2. PICK q \in Seq(Token) : q = pipe[Log]
  BY <1>1
<1>3. q # <<>> /\ f = Head(q) /\ f.kind \notin {"cut", "blank"}
      /\ child' = child /\ script' = script /\ pipe' = [pipe EXCEPT ![Log] = Tail(q)]
  BY <1>2 DEF Reads, ReadFrom
<1>4. /\ Tail(q) \in Seq(Token) /\ Len(q) \in Nat /\ Len(Tail(q)) = Len(q) - 1 /\ Len(q) >= 1
      /\ Head(q) = q[1] /\ Head(q) \in Token
      /\ \A i \in 1..Len(Tail(q)) : Tail(q)[i] = q[i + 1]
  BY <1>3
<1>5. f \notin CutTokens
  BY <1>3, <1>4, TokensAre
<1>6. n \in Nat /\ Len(o) \in Nat
  BY DEF InStream
<1>7. \A i \in 1..Len(q) : \/ n + i <= Len(o) /\ q[i] = o[n + i]
                           \/ child[Log] = "died" /\ q[i] \in CutTokens
  BY <1>2 DEF InStream
<1>8. n + 1 <= Len(o) /\ f = o[n + 1]
  <2>1. 1 \in 1..Len(q) /\ f = q[1]
    BY <1>3, <1>4
  <2> QED BY <2>1, <1>5, <1>7
<1>9. pipe'[Log] = Tail(q) /\ script'[Log] = script[Log] /\ child'[Log] = child[Log]
  BY <1>1, <1>3 DEF ChildTypeOK
<1>10. ChildTypeOK(Token)'
  <2>1. pipe' \in [Children -> Seq(Token)]
    BY <1>1, <1>3, <1>4 DEF ChildTypeOK
  <2>2. Len(q) <= PipeCap /\ PipeCap \in Nat
    BY <1>1, <1>2, ChildAssumption DEF ChildTypeOK
  <2>3. \A c \in Children : Len(pipe'[c]) <= PipeCap
    BY <2>2, <1>1, <1>4, <1>9
  <2> QED BY <2>1, <2>3, <1>3 DEF ChildTypeOK
<1>11. InStream(o, n + 1)'
  <2>1. \A i \in 1..Len(Tail(q)) : \/ n + 1 + i <= Len(o) /\ Tail(q)[i] = o[n + 1 + i]
                                   \/ child[Log] = "died" /\ Tail(q)[i] \in CutTokens
    <3> SUFFICES ASSUME NEW i \in 1..Len(Tail(q))
                 PROVE  \/ n + 1 + i <= Len(o) /\ Tail(q)[i] = o[n + 1 + i]
                        \/ child[Log] = "died" /\ Tail(q)[i] \in CutTokens
      OBVIOUS
    <3>1. i + 1 \in 1..Len(q) /\ n + (i + 1) = n + 1 + i
      BY <1>4, <1>6
    <3>2. \/ n + (i + 1) <= Len(o) /\ q[i + 1] = o[n + (i + 1)]
          \/ child[Log] = "died" /\ q[i + 1] \in CutTokens
      BY <3>1, <1>7
    <3> QED BY <3>1, <3>2, <1>4
  <2>2. child[Log] = "running" =>
          /\ n + Len(q) + Len(script[Log]) = Len(o)
          /\ \A i \in 1..Len(script[Log]) : script[Log][i] = o[n + Len(q) + i]
    BY <1>2 DEF InStream
  <2>3. child[Log] = "exited" => n + Len(q) = Len(o)
    BY <1>2 DEF InStream
  <2>4. n + 1 + Len(Tail(q)) = n + Len(q)
    BY <1>4, <1>6
  <2>5. child[Log] \in {"running", "exited", "died"} /\ n + 1 \in Nat
    BY <1>6 DEF InStream
  <2> QED BY ONLY <1>9, <2>1, <2>2, <2>3, <2>4, <2>5 DEF InStream
<1> QED BY <1>3, <1>4, <1>8, <1>10, <1>11

(* The child prints, and what is printed stays in order.                   *)
LEMMA PrintStep ==
  ASSUME ChildTypeOK(Token), Prints(Log)
  PROVE  /\ ChildTypeOK(Token)'
         /\ \A o \in Seq(Token) : \A n : InStream(o, n) => InStream(o, n)'
<1>1. /\ Log \in Children /\ Children = {Log}
      /\ pipe[Log] \in Seq(Token) /\ script[Log] \in Seq(Token)
  BY LogAlone
<1>2. PICK q \in Seq(Token) : q = pipe[Log]
  BY <1>1
<1>3. PICK t \in Seq(Token) : t = script[Log]
  BY <1>1
<1>4. /\ t # <<>> /\ Len(q) < PipeCap /\ child[Log] = "running" /\ child' = child
      /\ pipe' = [pipe EXCEPT ![Log] = Append(q, Head(t))]
      /\ script' = [script EXCEPT ![Log] = Tail(t)]
  BY <1>2, <1>3 DEF Prints
<1>5. /\ Tail(t) \in Seq(Token) /\ Len(t) \in Nat /\ Len(Tail(t)) = Len(t) - 1 /\ Len(t) >= 1
      /\ Head(t) = t[1] /\ Head(t) \in Token
      /\ \A i \in 1..Len(Tail(t)) : Tail(t)[i] = t[i + 1]
  BY <1>4
<1>6. PICK u : u = Append(q, Head(t))
  OBVIOUS
<1>7. /\ u \in Seq(Token) /\ Len(q) \in Nat /\ Len(u) = Len(q) + 1
      /\ \A i \in 1..Len(q) : u[i] = q[i]
      /\ u[Len(q) + 1] = t[1]
  BY <1>5, <1>6
<1>8. pipe'[Log] = u /\ script'[Log] = Tail(t) /\ child'[Log] = child[Log]
  BY <1>1, <1>4, <1>6 DEF ChildTypeOK
<1>9. ChildTypeOK(Token)'
  <2>1. pipe' \in [Children -> Seq(Token)] /\ script' \in [Children -> Seq(Token)]
    BY <1>1, <1>4, <1>5, <1>6, <1>7 DEF ChildTypeOK
  <2>2. \A c \in Children : Len(pipe'[c]) <= PipeCap
    BY <1>1, <1>4, <1>7, <1>8, ChildAssumption
  <2>3. \A c \in Children : child'[c] # "running" => script'[c] = <<>>
    BY <1>1, <1>4
  <2> QED BY <2>1, <2>2, <2>3, <1>4 DEF ChildTypeOK
<1>10. ASSUME NEW o \in Seq(Token), NEW n, InStream(o, n)
       PROVE  InStream(o, n)'
  <2>1. /\ n \in Nat /\ n + Len(q) + Len(t) = Len(o)
        /\ \A i \in 1..Len(t) : t[i] = o[n + Len(q) + i]
        /\ \A i \in 1..Len(q) : n + i <= Len(o) /\ q[i] = o[n + i]
    BY <1>2, <1>3, <1>4, <1>10 DEF InStream
  <2>2. Len(o) \in Nat
    OBVIOUS
  <2>3. \A i \in 1..Len(u) : n + i <= Len(o) /\ u[i] = o[n + i]
    <3> SUFFICES ASSUME NEW i \in 1..Len(u) PROVE n + i <= Len(o) /\ u[i] = o[n + i]
      OBVIOUS
    <3>1. CASE i \in 1..Len(q)
      BY <3>1, <2>1, <1>7
    <3>2. CASE i = Len(q) + 1
      <4>1. t[1] = o[n + Len(q) + 1] /\ n + Len(q) + 1 = n + i /\ n + i <= Len(o)
        BY <3>2, <2>1, <1>5, <1>7
      <4> QED BY <4>1, <3>2, <1>7
    <3> QED BY <3>1, <3>2, <1>7
  <2>4. n + Len(u) + Len(Tail(t)) = Len(o)
    BY <2>1, <1>5, <1>7
  <2>5. \A i \in 1..Len(Tail(t)) : Tail(t)[i] = o[n + Len(u) + i]
    <3> SUFFICES ASSUME NEW i \in 1..Len(Tail(t)) PROVE Tail(t)[i] = o[n + Len(u) + i]
      OBVIOUS
    <3>1. i + 1 \in 1..Len(t) /\ n + Len(q) + (i + 1) = n + Len(u) + i
      BY <2>1, <1>5, <1>7
    <3> QED BY <3>1, <2>1, <1>5
  <2> QED BY ONLY <2>1, <2>3, <2>4, <2>5, <1>4, <1>8 DEF InStream
<1> QED BY <1>9, <1>10

(* A child that exits, dies or is killed loses the rest of the output, but *)
(* the pipe still begins with the fields that follow those read.           *)
LEMMA EndStep ==
  ASSUME ChildTypeOK(Token),
         \/ Exit(Log)
         \/ Kill(Log)
         \/ \E part \in {<<>>, <<Cut("cut")>>, <<Cut("blank")>>} : Die(Log, part)
  PROVE  /\ ChildTypeOK(Token)'
         /\ \A o \in Seq(Token) : \A n : InStream(o, n) => InStream(o, n)'
<1>1. /\ Log \in Children /\ Children = {Log}
      /\ pipe[Log] \in Seq(Token) /\ script[Log] \in Seq(Token)
      /\ child[Log] \in {"none", "running", "exited", "died"}
      /\ child[Log] # "running" => script[Log] = <<>>
  BY LogAlone
<1>2. PICK q \in Seq(Token) : q = pipe[Log]
  BY <1>1
<1>3. <<>> \in Seq(Token) /\ Len(<<>>) = 0 /\ Len(q) \in Nat
  OBVIOUS
<1>4. CASE Exit(Log)
  <2>1. /\ child[Log] = "running" /\ script[Log] = <<>> /\ pipe' = pipe /\ script' = script
        /\ child' = [child EXCEPT ![Log] = "exited"]
    BY <1>4 DEF Exit
  <2>2. child'[Log] = "exited"
    BY <2>1, <1>1 DEF ChildTypeOK
  <2>3. ChildTypeOK(Token)'
    BY <2>1, <1>1 DEF ChildTypeOK
  <2>4. ASSUME NEW o \in Seq(Token), NEW n, InStream(o, n)
        PROVE  InStream(o, n)'
    <3>1. /\ n \in Nat /\ n + Len(q) + 0 = Len(o)
          /\ \A i \in 1..Len(q) : n + i <= Len(o) /\ q[i] = o[n + i]
      BY <1>2, <1>3, <2>1, <2>4 DEF InStream
    <3>2. n + Len(q) = Len(o)
      BY <3>1, <1>3
    <3> QED BY <3>1, <3>2, <2>1, <2>2, <1>2 DEF InStream
  <2> QED BY <2>3, <2>4
<1>5. CASE Kill(Log)
  <2>1. /\ child' = [child EXCEPT ![Log] = IF child[Log] = "running" THEN "died" ELSE child[Log]]
        /\ script' = [script EXCEPT ![Log] = <<>>] /\ pipe' = pipe
    BY <1>5 DEF Kill
  <2>2. /\ child'[Log] = (IF child[Log] = "running" THEN "died" ELSE child[Log])
        /\ script'[Log] = <<>>
    BY <2>1, <1>1 DEF ChildTypeOK
  <2>3. ChildTypeOK(Token)'
    BY <2>1, <1>1, <1>3 DEF ChildTypeOK
  <2>4. ASSUME NEW o \in Seq(Token), NEW n, InStream(o, n)
        PROVE  InStream(o, n)'
    <3>1. pipe'[Log] = pipe[Log] /\ child'[Log] # "running"
      BY <2>1, <2>2
    <3>2. (child[Log] = "died" => child'[Log] = "died") /\ (child'[Log] = "exited" => child[Log] = "exited")
      BY <2>2
    <3>3. child'[Log] \in {"running", "exited", "died"}
      BY <2>2, <2>4 DEF InStream
    <3>4. n \in Nat /\ (child[Log] = "exited" => n + Len(pipe[Log]) = Len(o))
          /\ \A i \in 1..Len(pipe[Log]) :
               \/ n + i <= Len(o) /\ pipe[Log][i] = o[n + i]
               \/ child[Log] = "died" /\ pipe[Log][i] \in CutTokens
      BY <2>4 DEF InStream
    <3> QED BY ONLY <3>1, <3>2, <3>3, <3>4 DEF InStream
  <2> QED BY <2>3, <2>4
<1>6. CASE \E part \in {<<>>, <<Cut("cut")>>, <<Cut("blank")>>} : Die(Log, part)
  <2>1. PICK part \in {<<>>, <<Cut("cut")>>, <<Cut("blank")>>} : Die(Log, part)
    BY <1>6
  <2>2. Cut("cut") \in CutTokens /\ Cut("blank") \in CutTokens /\ CutTokens \subseteq Token
    BY DEF CutTokens, Token
  <2>3. part \in Seq(CutTokens) /\ Len(part) \in {0, 1} /\ (Len(part) = 1 => part # <<>>)
    <3>1. \A x \in CutTokens : <<x>> \in Seq(CutTokens) /\ Len(<<x>>) = 1
      OBVIOUS
    <3>2. <<>> \in Seq(CutTokens) /\ Len(<<>>) = 0
      OBVIOUS
    <3>3. part # <<>> => \E x \in CutTokens : part = <<x>>
      BY <2>1, <2>2
    <3>4. CASE part = <<>>
      BY <3>2, <3>4
    <3>5. CASE part # <<>>
      BY <3>1, <3>3, <3>5
    <3> QED BY <3>4, <3>5
  <2>4. /\ child[Log] = "running" /\ (part # <<>> => Len(q) < PipeCap)
        /\ child' = [child EXCEPT ![Log] = "died"]
        /\ script' = [script EXCEPT ![Log] = <<>>]
        /\ pipe' = [pipe EXCEPT ![Log] = q \o part]
    BY <2>1, <1>2 DEF Die
  <2>5. PICK u : u = q \o part
    OBVIOUS
  <2>6. /\ u \in Seq(Token) /\ Len(u) = Len(q) + Len(part)
        /\ \A i \in 1..Len(q) : u[i] = q[i]
        /\ \A i \in 1..Len(part) : u[Len(q) + i] = part[i]
    <3>1. part \in Seq(Token)
      BY <2>2, <2>3
    <3> QED BY <3>1, <2>5, JoinFacts
  <2>7. pipe'[Log] = u /\ child'[Log] = "died"
    BY <2>4, <2>5, <1>1 DEF ChildTypeOK
  <2>8. ChildTypeOK(Token)'
    <3>1. Len(q) <= PipeCap
      BY <1>1, <1>2 DEF ChildTypeOK
    <3>2. Len(u) <= PipeCap
      <4>1. Len(part) = 1 => Len(q) < PipeCap
        BY <2>3, <2>4
      <4>2. Len(u) = Len(q) + Len(part) /\ Len(part) \in {0, 1} /\ PipeCap \in Nat
        BY <2>3, <2>6, ChildAssumption
      <4>3. PICK p \in {0, 1} : p = Len(part)
        BY <4>2
      <4>4. PICK m \in Nat : m = Len(q)
        BY <1>3
      <4>5. (p = 1 => m < PipeCap) /\ Len(u) = m + p /\ m <= PipeCap /\ PipeCap \in Nat
        BY ONLY <4>1, <4>2, <4>3, <4>4, <3>1
      <4> QED BY ONLY <4>3, <4>4, <4>5
    <3>3. pipe' \in [Children -> Seq(Token)] /\ script' \in [Children -> Seq(Token)]
      BY <2>4, <2>5, <2>6, <1>1, <1>3 DEF ChildTypeOK
    <3>4. \A c \in Children : Len(pipe'[c]) <= PipeCap /\ script'[c] = <<>>
      BY <3>2, <2>4, <2>7, <1>1 DEF ChildTypeOK
    <3>5. child' \in [Children -> {"none", "running", "exited", "died"}]
      BY <2>4 DEF ChildTypeOK
    <3> QED BY <3>3, <3>4, <3>5 DEF ChildTypeOK
  <2>9. ASSUME NEW o \in Seq(Token), NEW n, InStream(o, n)
        PROVE  InStream(o, n)'
    <3>1. n \in Nat /\ \A i \in 1..Len(q) : n + i <= Len(o) /\ q[i] = o[n + i]
      BY <1>2, <2>4, <2>9 DEF InStream
    <3>2. \A i \in 1..Len(u) : i \in 1..Len(q) \/ (i - Len(q) \in 1..Len(part) /\ i = Len(q) + (i - Len(q)))
      BY <2>3, <2>6, <1>3
    <3>3. \A i \in 1..Len(part) : part[i] \in CutTokens
      BY <2>3
    <3>4. \A i \in 1..Len(u) : (n + i <= Len(o) /\ u[i] = o[n + i]) \/ u[i] \in CutTokens
      <4> SUFFICES ASSUME NEW i \in 1..Len(u)
                   PROVE  (n + i <= Len(o) /\ u[i] = o[n + i]) \/ u[i] \in CutTokens
        OBVIOUS
      <4>1. CASE i \in 1..Len(q)
        BY <4>1, <3>1, <2>6
      <4>2. CASE i \notin 1..Len(q)
        <5>1. PICK j \in 1..Len(part) : i = Len(q) + j
          BY <4>2, <3>2
        <5>2. u[i] = part[j] /\ part[j] \in CutTokens
          BY <5>1, <3>3, <2>6
        <5> QED BY <5>2
      <4> QED BY <4>1, <4>2
    <3> QED BY <3>1, <3>4, <2>7 DEF InStream
  <2> QED BY <2>8, <2>9
<1> QED BY <1>4, <1>5, <1>6

(* What has been passed when j changes of the k-th commit have been.       *)
Gone(v, k, j) == Upto(v, k - 1) \o SubSeq(v[k], 1, j)

One(x) == <<x>>

Longer(q, b, x) == Len(q) = Len(b) + 1 /\ (\A i \in 1..Len(b) : q[i] = b[i]) /\ q[Len(b) + 1] = x

Together(a, b, x, q) == (a \o b) \o One(x) = a \o q

(* Joining one more element at the end is joining a longer sequence.       *)
LEMMA OneMore ==
  ASSUME NEW S, NEW a \in Seq(S), NEW b \in Seq(S), NEW x \in S, NEW q \in Seq(S), Longer(q, b, x)
  PROVE  Together(a, b, x, q)
<1>1. PICK l : l = a \o b
  OBVIOUS
<1>2. PICK u : u = l \o One(x)
  OBVIOUS
<1>3. PICK r : r = a \o q
  OBVIOUS
<1>4. /\ l \in Seq(S) /\ Len(l) = Len(a) + Len(b) /\ Len(a) \in Nat /\ Len(b) \in Nat
      /\ \A i \in 1..Len(a) : l[i] = a[i]
      /\ \A i \in 1..Len(b) : l[Len(a) + i] = b[i]
  BY <1>1, JoinFacts
<1>5. One(x) \in Seq(S) /\ Len(One(x)) = 1 /\ One(x)[1] = x
  BY DEF One
<1>6. /\ u \in Seq(S) /\ Len(u) = Len(l) + Len(One(x))
      /\ \A i \in 1..Len(l) : u[i] = l[i]
      /\ \A i \in 1..Len(One(x)) : u[Len(l) + i] = One(x)[i]
  <2>1. l \in Seq(S) /\ One(x) \in Seq(S)
    BY <1>4, <1>5
  <2> QED BY <2>1, <1>2, JoinFacts
<1>7. /\ r \in Seq(S) /\ Len(r) = Len(a) + Len(q)
      /\ \A i \in 1..Len(a) : r[i] = a[i]
      /\ \A i \in 1..Len(q) : r[Len(a) + i] = q[i]
  BY <1>3, JoinFacts
<1>8. /\ Len(q) = Len(b) + 1 /\ (\A i \in 1..Len(b) : q[i] = b[i]) /\ q[Len(b) + 1] = x
      /\ Len(u) = Len(r) /\ Len(u) = Len(a) + Len(b) + 1
  BY <1>4, <1>5, <1>6, <1>7 DEF Longer
<1>9. ASSUME NEW i \in 1..Len(u)
      PROVE  u[i] = r[i]
  <2>1. CASE i <= Len(a)
    <3>1. i \in 1..Len(a) /\ i \in 1..Len(l)
      BY <2>1, <1>4
    <3> QED BY <3>1, <1>4, <1>6, <1>7
  <2>2. CASE i > Len(a) /\ i <= Len(a) + Len(b)
    <3>1. PICK t \in 1..Len(b) : i = Len(a) + t
      <4>1. i - Len(a) \in 1..Len(b) /\ i = Len(a) + (i - Len(a))
        BY <2>2, <1>4, <1>8
      <4> QED BY <4>1
    <3>2. t \in 1..Len(q) /\ i \in 1..Len(l)
      BY <3>1, <1>4, <1>8
    <3>3. u[i] = b[t]
      <4>1. u[i] = l[i] /\ l[i] = b[t]
        BY ONLY <3>1, <3>2, <1>4, <1>6
      <4> QED BY ONLY <4>1
    <3>4. r[i] = q[t] /\ q[t] = b[t]
      BY ONLY <3>1, <3>2, <1>7, <1>8
    <3> QED BY ONLY <3>3, <3>4
  <2>3. CASE i = Len(a) + Len(b) + 1
    <3>1. i = Len(l) + 1 /\ 1 \in 1..Len(One(x))
      BY <2>3, <1>4, <1>5
    <3>2. u[i] = x
      BY <3>1, <1>5, <1>6
    <3>3. i = Len(a) + (Len(b) + 1) /\ Len(b) + 1 \in 1..Len(q)
      BY <2>3, <1>4, <1>8
    <3>4. r[i] = x
      BY <3>3, <1>7, <1>8
    <3> QED BY <3>2, <3>4
  <2>4. i \in Nat /\ i <= Len(a) + Len(b) + 1 /\ Len(a) \in Nat /\ Len(b) \in Nat
    BY ONLY <1>4, <1>8, i \in 1..Len(u)
  <2>5. i <= Len(a) \/ (i > Len(a) /\ i <= Len(a) + Len(b)) \/ i = Len(a) + Len(b) + 1
    BY ONLY <2>4
  <2> QED BY <2>1, <2>2, <2>3, <2>5
<1>10. u = r
  BY <1>6, <1>7, <1>8, <1>9, SeqEqual
<1> QED BY <1>1, <1>2, <1>3, <1>10 DEF Together

(* The changes that were passed grow by one change at a time, from commit  *)
(* to commit.                                                              *)
LEMMA GoneFacts ==
  ASSUME NEW S, NEW v \in Seq(Seq(S)), NEW k \in 1..Len(v)
  PROVE  /\ Len(v[k]) \in Nat
         /\ Gone(v, k, 0) = Upto(v, k - 1)
         /\ Gone(v, k, Len(v[k])) = Upto(v, k)
         /\ \A j \in 0..(Len(v[k]) - 1) : Gone(v, k, j) \o One(v[k][j + 1]) = Gone(v, k, j + 1)
<1>1. PICK a \in Seq(S) : a = Upto(v, k - 1)
  <2>1. k - 1 \in 0..Len(v)
    OBVIOUS
  <2> QED BY <2>1, UptoFacts
<1>2. PICK b \in Seq(S) : b = v[k]
  OBVIOUS
<1>3. Len(b) \in Nat /\ a \o SubSeq(b, 1, 0) = a
  OBVIOUS
<1>4. SubSeq(b, 1, Len(b)) = b
  OBVIOUS
<1>5. Upto(v, k) = a \o b
  BY <1>1, <1>2, UptoFacts
<1>6. ASSUME NEW j \in 0..(Len(b) - 1)
      PROVE  (a \o SubSeq(b, 1, j)) \o One(b[j + 1]) = a \o SubSeq(b, 1, j + 1)
  <2>1. j \in 0..Len(b) /\ j + 1 \in 0..Len(b) /\ j + 1 \in 1..Len(b)
    OBVIOUS
  <2>2. PICK p \in Seq(S) : p = SubSeq(b, 1, j)
    BY <2>1, FirstPart
  <2>3. PICK q : q = SubSeq(b, 1, j + 1)
    OBVIOUS
  <2>4. p \in Seq(S) /\ Len(p) = j /\ \A i \in 1..j : p[i] = b[i]
    BY <2>1, <2>2, FirstPart
  <2>5. q \in Seq(S) /\ Len(q) = j + 1 /\ \A i \in 1..(j + 1) : q[i] = b[i]
    BY <2>1, <2>3, FirstPart
  <2>6. PICK x \in S : x = b[j + 1]
    BY <2>1
  <2>7. Longer(q, p, x) /\ q \in Seq(S)
    <3>1. \A i \in 1..j : i \in 1..(j + 1)
      BY <2>1
    <3>2. j + 1 \in 1..(j + 1)
      BY <2>1
    <3>3. \A i \in 1..j : q[i] = p[i]
      BY <3>1, <2>4, <2>5
    <3>4. q[j + 1] = x
      BY <3>2, <2>5, <2>6
    <3> QED BY <3>3, <3>4, <2>4, <2>5 DEF Longer
  <2>8. (a \o p) \o One(x) = a \o q
    <3>1. Together(a, p, x, q)
      BY <2>7, OneMore
    <3> QED BY <3>1 DEF Together
  <2> QED BY <2>2, <2>3, <2>6, <2>8
<1> QED BY <1>1, <1>2, <1>3, <1>4, <1>5, <1>6 DEF Gone

(* In the output, n tokens on, the parser has come to commit k, and to its *)
(* change j if it is past the subject.                                     *)
Place(s, v, o, at, n, k, j) ==
  /\ k \in 0..Len(s) /\ Len(walked) = k /\ \A i \in 1..k : walked[i] = s[i]
  /\ k = 0 => parser = "field" /\ n = 0 /\ passed = <<>>
  /\ k > 0 =>
       /\ j \in 0..Len(v[k]) /\ passed = Gone(v, k, j)
       /\ current.commit = s[k]
       /\ parser = "date" => j = 0 /\ n = at[k] + 1
       /\ parser = "parents" => j = 0 /\ n = at[k] + 2
       /\ parser = "subject" => j = 0 /\ n = at[k] + 3
       /\ parser = "field" => n = at[k] + 4 + 2 * j
       /\ parser = "path" => /\ j < Len(v[k]) /\ n = at[k] + 4 + 2 * j + 1
                             /\ current.old = v[k][j + 1].old /\ current.new = v[k][j + 1].new
       /\ parser # "date" => current.date = s[k]
       /\ parser \in {"subject", "field", "path"} => current.merge = (o[at[k] + 3].value > 1)
       /\ parser \in {"field", "path"} => current.subject = s[k]

(* Where a commit or a change may begin, one or the other does.            *)
ChangeNext(v, o, n, k, j) == k > 0 /\ j < Len(v[k]) /\ o[n + 1] = RawOf(v[k][j + 1])

CommitNext(s, v, o, at, n, k, j) ==
  /\ k < Len(s) /\ (k > 0 => j = Len(v[k])) /\ n = at[k + 1]
  /\ o[n + 1] = Field("commit", s[k + 1])

BeforeField(s, v, at, n, k, j) ==
  /\ k \in 0..Len(s)
  /\ k = 0 => n = 0
  /\ k > 0 => j \in 0..Len(v[k]) /\ n = at[k] + 4 + 2 * j

(* Where the parser looks for a commit or a change, the next field is the  *)
(* raw line of the next change or the marked field of the next commit, and *)
(* there is none after the last change of the last commit.                 *)
LEMMA AtField ==
  ASSUME NEW s, NEW v, NEW o, NEW at, Printed(s, v, o, at),
         NEW n, NEW k, NEW j, BeforeField(s, v, at, n, k, j)
  PROVE  /\ n + 1 <= Len(o) => ChangeNext(v, o, n, k, j) \/ CommitNext(s, v, o, at, n, k, j)
         /\ n = Len(o) => k = Len(s) /\ (k > 0 => j = Len(v[k]))
<1>1. /\ Len(s) \in Nat /\ Len(o) \in Nat /\ at[1] = 0 /\ at[Len(s) + 1] = Len(o)
      /\ v \in Seq(Seq(ChangeType)) /\ Len(v) = Len(s)
      /\ \A i \in 1..(Len(s) + 1) : at[i] \in Nat
      /\ \A i \in 1..Len(s) : /\ at[i + 1] = at[i] + (4 + 2 * Len(v[i])) /\ at[i + 1] <= Len(o)
                              /\ RecordAt(o, at[i], s[i], v[i])
  <2>1. s \in Seq(Commits) /\ o \in Seq(Token) /\ at \in [1..(Len(s) + 1) -> Nat]
    BY DEF Printed
  <2>2. Len(s) \in Nat /\ Len(o) \in Nat /\ \A i \in 1..(Len(s) + 1) : at[i] \in Nat
    BY <2>1
  <2>3. /\ at[1] = 0 /\ at[Len(s) + 1] = Len(o)
        /\ v \in Seq(Seq(ChangeType)) /\ Len(v) = Len(s)
        /\ \A i \in 1..Len(s) : /\ at[i + 1] = at[i] + (4 + 2 * Len(v[i])) /\ at[i + 1] <= Len(o)
                                /\ RecordAt(o, at[i], s[i], v[i])
    BY DEF Printed
  <2> QED BY <2>2, <2>3
<1>2. \A i \in 1..Len(s) : Len(v[i]) \in Nat
  BY <1>1, GoneFacts
<1> k \in 0..Len(s) /\ (k = 0 => n = 0) /\ (k > 0 => j \in 0..Len(v[k]) /\ n = at[k] + 4 + 2 * j)
  BY DEF BeforeField
<1>3. \A i \in 1..Len(s) : at[i] \in Nat /\ at[i + 1] \in Nat
  BY <1>1
<1>4. CASE k > 0 /\ j < Len(v[k])
  <2>1. k \in 1..Len(s)
    BY <1>1, <1>4
  <2>2. j \in 0..(Len(v[k]) - 1) /\ n = at[k] + 4 + 2 * j
    BY <1>2, <1>4, <2>1
  <2>3. o[n + 1] = RawOf(v[k][j + 1])
    BY <1>1, <2>1, <2>2 DEF RecordAt
  <2>4. n < Len(o)
    <3>1. PICK a \in Nat : a = at[k]
      BY <2>1, <1>3
    <3>2. PICK l \in Nat : l = Len(v[k])
      BY <2>1, <1>2
    <3>3. PICK m \in Nat : m = Len(o)
      BY <1>1
    <3>4. a + (4 + 2 * l) <= m /\ n = a + 4 + 2 * j /\ j \in 0..(l - 1)
      BY <3>1, <3>2, <3>3, <2>1, <2>2, <1>1
    <3> QED BY ONLY <3>1, <3>2, <3>3, <3>4
  <2> QED BY <1>1, <1>4, <2>3, <2>4 DEF ChangeNext
<1>5. CASE ~(k > 0 /\ j < Len(v[k]))
  <2>1. (k > 0 => j = Len(v[k])) /\ n = at[k + 1]
    <3>1. CASE k = 0
      BY <3>1, <1>1
    <3>2. CASE k > 0
      <4>1. k \in 1..Len(s)
        BY <1>1, <3>2
      <4>2. j = Len(v[k])
        BY <4>1, <1>2, <1>5, <3>2
      <4>3. at[k + 1] = at[k] + (4 + 2 * Len(v[k]))
        BY <4>1, <1>1
      <4>4. n = at[k] + 4 + 2 * Len(v[k]) /\ at[k] \in Nat /\ Len(v[k]) \in Nat
        BY <4>1, <4>2, <1>2, <1>3, <3>2
      <4>5. n = at[k + 1]
        BY ONLY <4>3, <4>4
      <4> QED BY <4>2, <4>5
    <3> QED BY <3>1, <3>2
  <2>2. CASE k = Len(s)
    BY <1>1, <2>1, <2>2
  <2>3. CASE k < Len(s)
    <3>1. k + 1 \in 1..Len(s)
      BY <1>1, <2>3
    <3>2. RecordAt(o, at[k + 1], s[k + 1], v[k + 1])
      BY <3>1, <1>1
    <3>3. o[n + 1] = Field("commit", s[k + 1])
      BY <3>2, <2>1 DEF RecordAt
    <3>4. n < Len(o)
      <4>1. at[(k + 1) + 1] = at[k + 1] + (4 + 2 * Len(v[k + 1])) /\ at[(k + 1) + 1] <= Len(o)
        BY <3>1, <1>1
      <4>2. at[k + 1] \in Nat /\ Len(v[k + 1]) \in Nat /\ Len(o) \in Nat
        BY <3>1, <1>1, <1>2, <1>3
      <4> QED BY ONLY <4>1, <4>2, <2>1
    <3> QED BY <2>1, <2>3, <3>3, <3>4, <1>1 DEF CommitNext
  <2> QED BY <2>2, <2>3, <1>1
<1> QED BY <1>4, <1>5

-----------------------------------------------------------------------------
(* What visiting changes does.                                             *)

Recorded == legal = UNION {LegalSides(c) : c \in ToSet(passed)}

(* What recordLegalChange records are objects.                             *)
LEMMA LegalSidesType ==
  ASSUME NEW x \in ChangeType
  PROVE  LegalSides(x) \subseteq Objects
BY DEF LegalSides, ChangeType, Side, Absent

(* Passing changes to visit keeps the recorded blobs those of the changes  *)
(* passed.                                                                 *)
LEMMA ChangesVisited ==
  ASSUME passed \in Seq(ChangeType), Recorded, NEW cs \in Seq(ChangeType), Visit(cs)
  PROVE  /\ passed' = passed \o cs /\ passed' \in Seq(ChangeType)
         /\ Recorded' /\ legal' \subseteq Objects
<1>1. PICK p \in Seq(ChangeType) : p = passed
  OBVIOUS
<1>2. passed' = p \o cs /\ legal' = legal \cup UNION {LegalSides(c) : c \in ToSet(cs)}
  BY <1>1 DEF Visit
<1>3. PICK u : u = p \o cs
  OBVIOUS
<1>4. /\ u \in Seq(ChangeType) /\ Len(u) = Len(p) + Len(cs) /\ Len(p) \in Nat /\ Len(cs) \in Nat
      /\ \A i \in 1..Len(p) : u[i] = p[i]
      /\ \A i \in 1..Len(cs) : u[Len(p) + i] = cs[i]
  BY <1>3, JoinFacts
<1>5. ToSet(u) = ToSet(p) \cup ToSet(cs)
  <2>1. DOMAIN u = 1..Len(u) /\ DOMAIN p = 1..Len(p) /\ DOMAIN cs = 1..Len(cs)
    BY <1>4
  <2>2. \A i \in 1..Len(u) : u[i] \in ToSet(p) \cup ToSet(cs)
    <3> SUFFICES ASSUME NEW i \in 1..Len(u) PROVE u[i] \in ToSet(p) \cup ToSet(cs)
      OBVIOUS
    <3>1. CASE i \in 1..Len(p)
      BY <3>1, <1>4, <2>1 DEF ToSet
    <3>2. CASE i \notin 1..Len(p)
      <4>1. i - Len(p) \in 1..Len(cs) /\ i = Len(p) + (i - Len(p))
        BY <3>2, <1>4
      <4>2. u[i] = cs[i - Len(p)]
        BY <4>1, <1>4
      <4> QED BY <4>1, <4>2, <2>1 DEF ToSet
    <3> QED BY <3>1, <3>2
  <2>3. \A i \in 1..Len(p) : p[i] \in ToSet(u)
    <3>1. \A i \in 1..Len(p) : i \in 1..Len(u) /\ u[i] = p[i]
      BY <1>4
    <3> QED BY <3>1, <2>1 DEF ToSet
  <2>4. \A i \in 1..Len(cs) : cs[i] \in ToSet(u)
    <3>1. \A i \in 1..Len(cs) : Len(p) + i \in 1..Len(u) /\ u[Len(p) + i] = cs[i]
      BY <1>4
    <3> QED BY <3>1, <2>1 DEF ToSet
  <2> QED BY <2>1, <2>2, <2>3, <2>4 DEF ToSet
<1>6. legal = UNION {LegalSides(c) : c \in ToSet(p)}
  BY <1>1 DEF Recorded
<1>7. legal' = UNION {LegalSides(c) : c \in ToSet(u)}
  BY <1>2, <1>5, <1>6
<1>8. \A c \in ToSet(u) : c \in ChangeType
  BY <1>4 DEF ToSet
<1>9. legal' \subseteq Objects
  BY <1>7, <1>8, LegalSidesType
<1>10. Recorded'
  BY <1>2, <1>3, <1>7 DEF Recorded
<1> QED BY <1>1, <1>2, <1>3, <1>4, <1>9, <1>10

-----------------------------------------------------------------------------
(* The change that readChanges fills in.                                   *)

CurrentType ==
  [commit: Commits \cup {None}, date: Commits \cup {None}, subject: Commits \cup {None},
   path: ToSet(Paths) \cup {None}, old: Side, new: Side, merge: BOOLEAN]

(* With the path in, it is the change.                                     *)
LEMMA CurrentDone ==
  ASSUME NEW cur \in CurrentType, NEW x \in ChangeType,
         cur.commit = x.commit, cur.date = x.date, cur.subject = x.subject,
         cur.old = x.old, cur.new = x.new, cur.merge = x.merge
  PROVE  /\ [cur EXCEPT !.path = x.path] = x /\ x \in CurrentType
<1>1. PICK y : y = [cur EXCEPT !.path = x.path]
  OBVIOUS
<1>2. y \in CurrentType /\ y.path = x.path /\ y.commit = x.commit /\ y.date = x.date
      /\ y.subject = x.subject /\ y.old = x.old /\ y.new = x.new /\ y.merge = x.merge
  <2>1. x.path \in ToSet(Paths)
    BY DEF ChangeType
  <2> QED BY <1>1, <2>1 DEF CurrentType
<1>3. x \in CurrentType
  BY DEF ChangeType, CurrentType
<1>4. \A a, b \in CurrentType :
        /\ a.path = b.path /\ a.commit = b.commit /\ a.date = b.date
        /\ a.subject = b.subject /\ a.old = b.old /\ a.new = b.new /\ a.merge = b.merge
        => a = b
  BY DEF CurrentType
<1>5. y = x
  BY <1>2, <1>3, <1>4
<1> QED BY <1>1, <1>3, <1>5

-----------------------------------------------------------------------------
(* The invariant of the git backend.                                       *)

Parsing == {"date", "parents", "subject", "field", "path"}

(* Types, and that the blobs are those of the changes passed.              *)
HistoryState ==
  /\ repo \in Repos /\ merges \in BOOLEAN
  /\ walked \in Seq(Commits) /\ passed \in Seq(ChangeType) /\ Recorded

ParserState ==
  /\ ChildTypeOK(Token)
  /\ parser \in Parsing \cup {"start", "reap", "returned"}
  /\ current \in CurrentType /\ readErr \in BOOLEAN

UnderWay(s, v, o, at, n, k, j) ==
  /\ Plan(s, v) /\ Printed(s, v, o, at) /\ InStream(o, n) /\ Place(s, v, o, at, n, k, j)

(* The commits that the child prints and their changes are settled when it *)
(* starts.                                                                 *)
LEMMA PlanKept ==
  ASSUME repo' = repo, merges' = merges, NEW s, NEW v, Plan(s, v)
  PROVE  Plan(s, v)'
<1>1. Orders' = Orders
  BY OrdersKept
<1>2. \A c : ChangesOf(c)' = ChangesOf(c)
  BY ChangesKept
<1> QED BY <1>1, <1>2 DEF Plan

(* A field that is read whole is the next of the output of git log.        *)
LEMMA WholeRead ==
  ASSUME HistoryState, ParserState, NEW s, NEW v, NEW o, NEW at, NEW n, NEW k, NEW j,
         UnderWay(s, v, o, at, n, k, j), NEW pc, NEW f, Reads(pc, f)
  PROVE  /\ f \in Token /\ n + 1 <= Len(o) /\ f = o[n + 1] /\ parser = pc
         /\ InStream(o, n + 1)' /\ ChildTypeOK(Token)' /\ Plan(s, v)' /\ n \in Nat
         /\ repo' = repo /\ merges' = merges /\ readErr' = readErr
<1>1. o \in Seq(Token) /\ InStream(o, n) /\ Plan(s, v)
  BY DEF UnderWay, Printed
<1>2. ChildTypeOK(Token)
  BY DEF ParserState
<1>3. f \in Token /\ n + 1 <= Len(o) /\ f = o[n + 1] /\ InStream(o, n + 1)' /\ ChildTypeOK(Token)'
  BY <1>1, <1>2, ReadStep
<1>4. repo' = repo /\ merges' = merges /\ readErr' = readErr /\ parser = pc
  BY DEF Reads, fixedVars
<1>5. Plan(s, v)'
  BY <1>1, <1>4, PlanKept
<1>6. n \in Nat
  BY <1>1 DEF InStream
<1> QED BY <1>3, <1>4, <1>5, <1>6

(* What Printed says of one commit.                                        *)
LEMMA PrintedCommit ==
  ASSUME NEW s, NEW v, NEW o, NEW at, Printed(s, v, o, at), NEW k \in 1..Len(s)
  PROVE  /\ RecordAt(o, at[k], s[k], v[k]) /\ at[k] \in Nat /\ s[k] \in Commits
         /\ Len(v[k]) \in Nat /\ v[k] \in Seq(ChangeType) /\ Len(s) \in Nat
         /\ k \in 1..Len(v)
<1>1. /\ s \in Seq(Commits) /\ v \in Seq(Seq(ChangeType)) /\ Len(v) = Len(s)
      /\ at \in [1..(Len(s) + 1) -> Nat]
  BY DEF Printed
<1>2. Len(s) \in Nat /\ k \in 1..(Len(s) + 1) /\ k \in 1..Len(v)
  BY <1>1
<1>3. s[k] \in Commits
  BY <1>1
<1>4. v[k] \in Seq(ChangeType)
  BY <1>1, <1>2
<1>5. RecordAt(o, at[k], s[k], v[k])
  BY DEF Printed
<1>6. at[k] \in Nat
  BY <1>1, <1>2
<1>7. Len(v[k]) \in Nat
  BY <1>4
<1> QED BY <1>2, <1>3, <1>4, <1>5, <1>6, <1>7

(* The reading of a commit keeps the parser at its place in the output: it *)
(* has begun with the next commit.                                         *)
LEMMA CommitRead ==
  ASSUME HistoryState, ParserState, NEW s, NEW v, NEW o, NEW at, NEW n, NEW k, NEW j,
         UnderWay(s, v, o, at, n, k, j), NEW f, ReadCommit(f)
  PROVE  HistoryState' /\ ParserState' /\ UnderWay(s, v, o, at, n + 1, k + 1, 0)'
<1>1. Reads("field", f) /\ f.kind = "commit" /\ parser' = "date"
      /\ current' = [current EXCEPT !.commit = f.value] /\ walked' = Append(walked, f.value)
      /\ passed' = passed /\ legal' = legal
  BY DEF ReadCommit, visitVars
<1>2. /\ f \in Token /\ n + 1 <= Len(o) /\ f = o[n + 1] /\ parser = "field"
      /\ InStream(o, n + 1)' /\ ChildTypeOK(Token)' /\ Plan(s, v)' /\ n \in Nat
      /\ repo' = repo /\ merges' = merges /\ readErr' = readErr
  BY <1>1, WholeRead
<1>3. Printed(s, v, o, at) /\ Place(s, v, o, at, n, k, j)
  BY DEF UnderWay
<1>4. /\ k \in 0..Len(s) /\ (k = 0 => n = 0)
      /\ (k > 0 => j \in 0..Len(v[k]) /\ n = at[k] + 4 + 2 * j)
      /\ Len(walked) = k /\ \A i \in 1..k : walked[i] = s[i]
  BY <1>2, <1>3 DEF Place
<1>5. /\ k < Len(s) /\ (k > 0 => j = Len(v[k])) /\ n = at[k + 1]
      /\ f = Field("commit", s[k + 1])
  <2>1. BeforeField(s, v, at, n, k, j)
    BY <1>4 DEF BeforeField
  <2>2. ChangeNext(v, o, n, k, j) \/ CommitNext(s, v, o, at, n, k, j)
    BY <1>2, <1>3, <2>1, AtField
  <2>3. ~ChangeNext(v, o, n, k, j)
    BY <1>1, <1>2 DEF ChangeNext, RawOf, Field
  <2> QED BY <2>2, <2>3, <1>2 DEF CommitNext
<1>6. f.value = s[k + 1] /\ k + 1 \in 1..Len(s) /\ k \in Nat /\ Len(s) \in Nat
  <2>1. s \in Seq(Commits)
    BY <1>3 DEF Printed
  <2>2. Len(s) \in Nat
    BY <2>1
  <2> QED BY <2>2, <1>4, <1>5 DEF Field
<1>7. s[k + 1] \in Commits
  BY <1>3, <1>6, PrintedCommit
<1>8. /\ walked' \in Seq(Commits) /\ Len(walked') = k + 1
      /\ \A i \in 1..(k + 1) : walked'[i] = s[i]
  <2>1. PICK w \in Seq(Commits) : w = walked
    BY DEF HistoryState
  <2>2. walked' = Append(w, s[k + 1]) /\ Len(w) = k /\ \A i \in 1..k : w[i] = s[i]
    BY <2>1, <1>1, <1>4, <1>6
  <2>3. PICK u : u = Append(w, s[k + 1])
    OBVIOUS
  <2>4. u \in Seq(Commits) /\ Len(u) = k + 1 /\ (\A i \in 1..k : u[i] = w[i]) /\ u[k + 1] = s[k + 1]
    BY <2>2, <2>3, <1>7
  <2>5. \A i \in 1..(k + 1) : i \in 1..k \/ i = k + 1
    BY <1>6
  <2> QED BY <2>2, <2>3, <2>4, <2>5
<1>9. /\ current \in CurrentType /\ parser' \in Parsing
      /\ HistoryState
  BY <1>1 DEF ParserState, Parsing
<1>10. current' \in CurrentType /\ current'.commit = s[k + 1]
  <2>1. current' = [current EXCEPT !.commit = s[k + 1]]
    BY <1>1, <1>6
  <2> QED BY <2>1, <1>7, <1>9 DEF CurrentType
<1>11. passed = Gone(v, k + 1, 0)
  <2>1. v \in Seq(Seq(ChangeType)) /\ k + 1 \in 1..Len(v)
    BY <1>3, <1>6 DEF Printed
  <2>2. Gone(v, k + 1, 0) = Upto(v, (k + 1) - 1) /\ (k + 1) - 1 = k
    BY <2>1, <1>6, GoneFacts
  <2>3. CASE k = 0
    <3>1. passed = <<>>
      BY <2>3, <1>3 DEF Place
    <3>2. Upto(v, 0) = <<>>
      BY <2>1, UptoFacts
    <3> QED BY <3>1, <3>2, <2>2, <2>3
  <2>4. CASE k > 0
    <3>1. passed = Gone(v, k, Len(v[k]))
      BY <2>4, <1>3, <1>5 DEF Place
    <3>2. k \in 1..Len(v)
      BY <2>1, <2>4, <1>6
    <3>3. Gone(v, k, Len(v[k])) = Upto(v, k)
      BY <2>1, <3>2, GoneFacts
    <3> QED BY <3>1, <3>3, <2>2
  <2> QED BY <2>3, <2>4, <1>6
<1>12. Place(s, v, o, at, n + 1, k + 1, 0)'
  <2>1. 0 \in 0..Len(v[k + 1]) /\ k + 1 \in 0..Len(s)
    <3>1. Len(v[k + 1]) \in Nat
      BY <1>3, <1>6, PrintedCommit
    <3> QED BY <3>1, <1>6
  <2> QED BY <2>1, <1>1, <1>5, <1>6, <1>8, <1>10, <1>11 DEF Place
<1>13. HistoryState'
  BY <1>1, <1>2, <1>8, <1>9 DEF HistoryState, Recorded
<1>14. ParserState'
  BY <1>2, <1>9, <1>10 DEF ParserState
<1> QED BY <1>2, <1>3, <1>12, <1>13, <1>14 DEF UnderWay

(* Past its first field the parser is within a commit.                     *)
LEMMA WithinCommit ==
  ASSUME NEW s, NEW v, NEW o, NEW at, NEW n, NEW k, NEW j,
         UnderWay(s, v, o, at, n, k, j), parser # "field" \/ k > 0
  PROVE  /\ k \in 1..Len(s) /\ Printed(s, v, o, at) /\ Place(s, v, o, at, n, k, j)
         /\ RecordAt(o, at[k], s[k], v[k]) /\ at[k] \in Nat /\ s[k] \in Commits
         /\ Len(v[k]) \in Nat /\ v[k] \in Seq(ChangeType) /\ k \in 1..Len(v) /\ v \in Seq(Seq(ChangeType))
<1>1. Printed(s, v, o, at) /\ Place(s, v, o, at, n, k, j)
  BY DEF UnderWay
<1>2. k \in 0..Len(s) /\ k # 0
  BY <1>1 DEF Place
<1>3. s \in Seq(Commits) /\ v \in Seq(Seq(ChangeType))
  BY <1>1 DEF Printed
<1>4. Len(s) \in Nat
  BY <1>3
<1>5. k \in 1..Len(s)
  BY <1>2, <1>4
<1>6. /\ RecordAt(o, at[k], s[k], v[k]) /\ at[k] \in Nat /\ s[k] \in Commits
      /\ Len(v[k]) \in Nat /\ v[k] \in Seq(ChangeType) /\ k \in 1..Len(v)
  BY <1>1, <1>5, PrintedCommit
<1> QED BY <1>1, <1>3, <1>5, <1>6

(* So does that of the date of this commit,                                *)
LEMMA DateRead ==
  ASSUME HistoryState, ParserState, NEW s, NEW v, NEW o, NEW at, NEW n, NEW k, NEW j,
         UnderWay(s, v, o, at, n, k, j), NEW f, ReadDate(f)
  PROVE  HistoryState' /\ ParserState' /\ UnderWay(s, v, o, at, n + 1, k, j)'
<1>1. Reads("date", f) /\ parser' = "parents"
      /\ current' = [current EXCEPT !.date = f.value] /\ walked' = walked
      /\ passed' = passed /\ legal' = legal
  BY DEF ReadDate, visitVars
<1>2. /\ f \in Token /\ n + 1 <= Len(o) /\ f = o[n + 1] /\ parser = "date"
      /\ InStream(o, n + 1)' /\ ChildTypeOK(Token)' /\ Plan(s, v)' /\ n \in Nat
      /\ repo' = repo /\ merges' = merges /\ readErr' = readErr
  BY <1>1, WholeRead
<1>3. /\ k \in 1..Len(s) /\ Printed(s, v, o, at) /\ Place(s, v, o, at, n, k, j)
      /\ RecordAt(o, at[k], s[k], v[k]) /\ at[k] \in Nat /\ s[k] \in Commits
  BY <1>2, WithinCommit
<1>4. n = at[k] + 1 /\ j = 0 /\ k > 0
  BY <1>2, <1>3 DEF Place
<1>5. f.value = s[k]
  <2>1. n + 1 = at[k] + 2 /\ o[at[k] + 2] = Field("date", s[k])
    BY <1>3, <1>4 DEF RecordAt
  <2> QED BY <2>1, <1>2 DEF Field
<1>6. /\ current \in CurrentType /\ current.commit = s[k] /\ parser' \in Parsing
  BY <1>1, <1>2, <1>3, <1>4 DEF ParserState, Parsing, Place
<1>7. current' \in CurrentType /\ current'.date = s[k] /\ current'.commit = s[k]
  <2>1. current' = [current EXCEPT !.date = s[k]]
    BY <1>1, <1>5
  <2> QED BY <2>1, <1>3, <1>6 DEF CurrentType
<1>8. Place(s, v, o, at, n + 1, k, j)'
  BY <1>1, <1>2, <1>3, <1>4, <1>7 DEF Place
<1>9. HistoryState'
  BY <1>1, <1>2 DEF HistoryState, Recorded
<1>10. ParserState'
  BY <1>2, <1>6, <1>7 DEF ParserState
<1> QED BY <1>2, <1>3, <1>8, <1>9, <1>10 DEF UnderWay

(* that of its parents, which say whether its changes are those of a       *)
(* merge,                                                                  *)
LEMMA ParentsRead ==
  ASSUME HistoryState, ParserState, NEW s, NEW v, NEW o, NEW at, NEW n, NEW k, NEW j,
         UnderWay(s, v, o, at, n, k, j), NEW f, ReadParents(f)
  PROVE  HistoryState' /\ ParserState' /\ UnderWay(s, v, o, at, n + 1, k, j)'
<1>1. Reads("parents", f) /\ parser' = "subject"
      /\ current' = [current EXCEPT !.merge = (f.value > 1)] /\ walked' = walked
      /\ passed' = passed /\ legal' = legal
  BY DEF ReadParents, visitVars
<1>2. /\ f \in Token /\ n + 1 <= Len(o) /\ f = o[n + 1] /\ parser = "parents"
      /\ InStream(o, n + 1)' /\ ChildTypeOK(Token)' /\ Plan(s, v)' /\ n \in Nat
      /\ repo' = repo /\ merges' = merges /\ readErr' = readErr
  BY <1>1, WholeRead
<1>3. /\ k \in 1..Len(s) /\ Printed(s, v, o, at) /\ Place(s, v, o, at, n, k, j)
      /\ at[k] \in Nat
  BY <1>2, WithinCommit
<1>4. n = at[k] + 2 /\ j = 0 /\ k > 0
  BY <1>2, <1>3 DEF Place
<1>5. f = o[at[k] + 3]
  <2>1. n + 1 = at[k] + 3
    BY <1>3, <1>4
  <2> QED BY <2>1, <1>2
<1>6. /\ current \in CurrentType /\ current.commit = s[k] /\ current.date = s[k]
      /\ parser' \in Parsing
  BY <1>1, <1>2, <1>3, <1>4 DEF ParserState, Parsing, Place
<1>7. PICK m \in BOOLEAN : m = (f.value > 1)
  <2>1. (f.value > 1) \in BOOLEAN
    OBVIOUS
  <2> QED BY <2>1, Zenon
<1>8. /\ current' \in CurrentType /\ current'.merge = m
      /\ current'.date = s[k] /\ current'.commit = s[k]
  <2>1. current' = [current EXCEPT !.merge = m]
    BY <1>1, <1>7
  <2> QED BY <2>1, <1>3, <1>6 DEF CurrentType
<1>9. current'.merge = (o[at[k] + 3].value > 1)
  BY <1>5, <1>7, <1>8
<1>10. Place(s, v, o, at, n + 1, k, j)'
  <2>1. n + 1 = at[k] + 3
    BY <1>3, <1>4
  <2> QED BY <2>1, <1>1, <1>2, <1>3, <1>4, <1>8, <1>9 DEF Place
<1>11. HistoryState'
  BY <1>1, <1>2 DEF HistoryState, Recorded
<1>12. ParserState'
  BY <1>2, <1>6, <1>8 DEF ParserState
<1> QED BY <1>2, <1>3, <1>10, <1>11, <1>12 DEF UnderWay

(* that of its subject,                                                    *)
LEMMA SubjectRead ==
  ASSUME HistoryState, ParserState, NEW s, NEW v, NEW o, NEW at, NEW n, NEW k, NEW j,
         UnderWay(s, v, o, at, n, k, j), NEW f, ReadSubject(f)
  PROVE  HistoryState' /\ ParserState' /\ UnderWay(s, v, o, at, n + 1, k, j)'
<1>1. Reads("subject", f) /\ parser' = "field"
      /\ current' = [current EXCEPT !.subject = f.value] /\ walked' = walked
      /\ passed' = passed /\ legal' = legal
  BY DEF ReadSubject, visitVars
<1>2. /\ f \in Token /\ n + 1 <= Len(o) /\ f = o[n + 1] /\ parser = "subject"
      /\ InStream(o, n + 1)' /\ ChildTypeOK(Token)' /\ Plan(s, v)' /\ n \in Nat
      /\ repo' = repo /\ merges' = merges /\ readErr' = readErr
  BY <1>1, WholeRead
<1>3. /\ k \in 1..Len(s) /\ Printed(s, v, o, at) /\ Place(s, v, o, at, n, k, j)
      /\ RecordAt(o, at[k], s[k], v[k]) /\ at[k] \in Nat /\ s[k] \in Commits
  BY <1>2, WithinCommit
<1>4. n = at[k] + 3 /\ j = 0 /\ k > 0
  BY <1>2, <1>3 DEF Place
<1>5. f.value = s[k]
  <2>1. n + 1 = at[k] + 4 /\ o[at[k] + 4] = Field("subject", s[k])
    BY <1>3, <1>4 DEF RecordAt
  <2> QED BY <2>1, <1>2 DEF Field
<1>6. /\ current \in CurrentType /\ current.commit = s[k] /\ current.date = s[k]
      /\ current.merge = (o[at[k] + 3].value > 1) /\ parser' \in Parsing
  BY <1>1, <1>2, <1>3, <1>4 DEF ParserState, Parsing, Place
<1>7. /\ current' \in CurrentType /\ current'.subject = s[k] /\ current'.merge = current.merge
      /\ current'.date = s[k] /\ current'.commit = s[k]
  <2>1. current' = [current EXCEPT !.subject = s[k]]
    BY <1>1, <1>5
  <2> QED BY <2>1, <1>3, <1>6 DEF CurrentType
<1>8. current'.merge = (o[at[k] + 3].value > 1)
  BY <1>6, <1>7
<1>9. Place(s, v, o, at, n + 1, k, j)'
  <2>1. n + 1 = at[k] + 4 + 2 * j
    BY <1>3, <1>4
  <2> QED BY <2>1, <1>1, <1>2, <1>3, <1>4, <1>7, <1>8 DEF Place
<1>10. HistoryState'
  BY <1>1, <1>2 DEF HistoryState, Recorded
<1>11. ParserState'
  BY <1>2, <1>6, <1>7 DEF ParserState
<1> QED BY <1>2, <1>3, <1>9, <1>10, <1>11 DEF UnderWay

(* that of the raw line of its next change                                 *)
LEMMA RawRead ==
  ASSUME HistoryState, ParserState, NEW s, NEW v, NEW o, NEW at, NEW n, NEW k, NEW j,
         UnderWay(s, v, o, at, n, k, j), NEW f, ReadRaw(f)
  PROVE  HistoryState' /\ ParserState' /\ UnderWay(s, v, o, at, n + 1, k, j)'
<1>1. Reads("field", f) /\ f.kind = "raw" /\ parser' = "path"
      /\ current' = [current EXCEPT !.old = f.value[1], !.new = f.value[2]] /\ walked' = walked
      /\ passed' = passed /\ legal' = legal
  BY DEF ReadRaw, visitVars
<1>2. /\ f \in Token /\ n + 1 <= Len(o) /\ f = o[n + 1] /\ parser = "field"
      /\ InStream(o, n + 1)' /\ ChildTypeOK(Token)' /\ Plan(s, v)' /\ n \in Nat
      /\ repo' = repo /\ merges' = merges /\ readErr' = readErr
  BY <1>1, WholeRead
<1>3. Printed(s, v, o, at) /\ Place(s, v, o, at, n, k, j)
  BY DEF UnderWay
<1>4. k > 0 /\ j < Len(v[k]) /\ f = RawOf(v[k][j + 1])
  <2>1. BeforeField(s, v, at, n, k, j)
    BY <1>2, <1>3 DEF BeforeField, Place
  <2>2. ChangeNext(v, o, n, k, j) \/ CommitNext(s, v, o, at, n, k, j)
    BY <1>2, <1>3, <2>1, AtField
  <2>3. ~CommitNext(s, v, o, at, n, k, j)
    BY <1>1, <1>2 DEF CommitNext, Field
  <2> QED BY <2>2, <2>3, <1>2 DEF ChangeNext
<1>5. /\ k \in 1..Len(s) /\ at[k] \in Nat /\ s[k] \in Commits
      /\ Len(v[k]) \in Nat /\ v[k] \in Seq(ChangeType)
  BY <1>4, WithinCommit
<1>6. n = at[k] + 4 + 2 * j /\ j \in 0..Len(v[k])
  BY <1>2, <1>3, <1>4 DEF Place
<1>7. PICK x \in ChangeType : x = v[k][j + 1]
  <2>1. j + 1 \in 1..Len(v[k])
    BY <1>4, <1>5, <1>6
  <2> QED BY <2>1, <1>5
<1>8. f.value[1] = x.old /\ f.value[2] = x.new /\ x.old \in Side /\ x.new \in Side
  BY <1>4, <1>7 DEF RawOf, Field, ChangeType
<1>9. /\ current \in CurrentType /\ current.commit = s[k] /\ current.date = s[k]
      /\ current.subject = s[k]
      /\ current.merge = (o[at[k] + 3].value > 1) /\ parser' \in Parsing
  BY <1>1, <1>2, <1>3, <1>4 DEF ParserState, Parsing, Place
<1>10. /\ current' \in CurrentType /\ current'.old = x.old /\ current'.new = x.new
       /\ current'.merge = current.merge
       /\ current'.date = s[k] /\ current'.commit = s[k] /\ current'.subject = s[k]
  <2>1. current' = [current EXCEPT !.old = x.old, !.new = x.new]
    BY <1>1, <1>8
  <2> QED BY <2>1, <1>8, <1>9 DEF CurrentType
<1>11. current'.merge = (o[at[k] + 3].value > 1)
  BY <1>9, <1>10
<1>12. Place(s, v, o, at, n + 1, k, j)'
  <2>1. n + 1 = at[k] + 4 + 2 * j + 1
    BY <1>5, <1>6
  <2> QED BY <2>1, <1>1, <1>2, <1>3, <1>4, <1>7, <1>10, <1>11 DEF Place
<1>13. HistoryState'
  BY <1>1, <1>2 DEF HistoryState, Recorded
<1>14. ParserState'
  BY <1>2, <1>9, <1>10 DEF ParserState
<1> QED BY <1>2, <1>3, <1>12, <1>13, <1>14 DEF UnderWay

(* and that of the path, after which the change is passed to visit with    *)
(* the commit, date, subject and merge flag that were read for it.         *)
LEMMA PathRead ==
  ASSUME HistoryState, ParserState, NEW s, NEW v, NEW o, NEW at, NEW n, NEW k, NEW j,
         UnderWay(s, v, o, at, n, k, j), NEW f, ReadPath(f)
  PROVE  HistoryState' /\ ParserState' /\ UnderWay(s, v, o, at, n + 1, k, j + 1)'
<1>1. Reads("path", f) /\ parser' = "field"
      /\ current' = [current EXCEPT !.path = f.value] /\ walked' = walked
      /\ Visit(<<current'>>)
  BY DEF ReadPath
<1>2. /\ f \in Token /\ n + 1 <= Len(o) /\ f = o[n + 1] /\ parser = "path"
      /\ InStream(o, n + 1)' /\ ChildTypeOK(Token)' /\ Plan(s, v)' /\ n \in Nat
      /\ repo' = repo /\ merges' = merges /\ readErr' = readErr
  BY <1>1, WholeRead
<1>3. /\ k \in 1..Len(s) /\ Printed(s, v, o, at) /\ Place(s, v, o, at, n, k, j)
      /\ RecordAt(o, at[k], s[k], v[k]) /\ at[k] \in Nat /\ s[k] \in Commits
      /\ Len(v[k]) \in Nat /\ v[k] \in Seq(ChangeType) /\ k \in 1..Len(v)
      /\ v \in Seq(Seq(ChangeType))
  BY <1>2, WithinCommit
<1>4. /\ j \in 0..Len(v[k]) /\ j < Len(v[k]) /\ n = at[k] + 4 + 2 * j + 1 /\ k > 0
      /\ passed = Gone(v, k, j)
  BY <1>2, <1>3 DEF Place
<1>5. j \in 0..(Len(v[k]) - 1) /\ j + 1 \in 1..Len(v[k]) /\ j + 1 \in 0..Len(v[k])
  BY <1>3, <1>4
<1>6. PICK x \in ChangeType : x = v[k][j + 1]
  BY <1>3, <1>5
<1>7. /\ f = PathOf(x)
      /\ x.commit = s[k] /\ x.date = s[k] /\ x.subject = s[k]
      /\ x.merge = (o[at[k] + 3].value > 1)
  <2>1. n + 1 = at[k] + 4 + 2 * j + 2
    <3>1. PICK a \in Nat : a = at[k]
      BY <1>3
    <3>2. n = a + 4 + 2 * j + 1 /\ j \in Nat
      BY <3>1, <1>4, <1>5
    <3> QED BY ONLY <3>1, <3>2
  <2>2. /\ o[at[k] + 4 + 2 * j + 2] = PathOf(v[k][j + 1])
        /\ v[k][j + 1].commit = s[k] /\ v[k][j + 1].date = s[k] /\ v[k][j + 1].subject = s[k]
        /\ v[k][j + 1].merge = (o[at[k] + 3].value > 1)
    BY <1>3, <1>5 DEF RecordAt
  <2> QED BY <2>1, <2>2, <1>2, <1>6
<1>8. /\ current \in CurrentType /\ current.commit = s[k] /\ current.date = s[k]
      /\ current.subject = s[k] /\ current.old = x.old /\ current.new = x.new
      /\ current.merge = (o[at[k] + 3].value > 1) /\ parser' \in Parsing
  BY <1>1, <1>2, <1>3, <1>4, <1>6 DEF ParserState, Parsing, Place
<1>9. current' = x /\ x \in CurrentType
  <2>1. current' = [current EXCEPT !.path = x.path]
    BY <1>1, <1>7 DEF PathOf, Field
  <2>2. [current EXCEPT !.path = x.path] = x /\ x \in CurrentType
    BY <1>7, <1>8, CurrentDone
  <2> QED BY <2>1, <2>2
<1>10. Visit(One(x)) /\ One(x) \in Seq(ChangeType)
  BY <1>1, <1>9 DEF One
<1>11. /\ passed' = passed \o One(x) /\ passed' \in Seq(ChangeType) /\ Recorded'
  <2>1. passed \in Seq(ChangeType) /\ Recorded
    BY DEF HistoryState
  <2> QED BY <2>1, <1>10, ChangesVisited
<1>12. passed' = Gone(v, k, j + 1)
  <2>1. \A i \in 0..(Len(v[k]) - 1) : Gone(v, k, i) \o One(v[k][i + 1]) = Gone(v, k, i + 1)
    BY <1>3, GoneFacts
  <2> QED BY <2>1, <1>4, <1>5, <1>6, <1>11
<1>13. Place(s, v, o, at, n + 1, k, j + 1)'
  <2>1. n + 1 = at[k] + 4 + 2 * (j + 1)
    <3>1. PICK a \in Nat : a = at[k]
      BY <1>3
    <3>2. n = a + 4 + 2 * j + 1 /\ j \in Nat
      BY <3>1, <1>4, <1>5
    <3> QED BY ONLY <3>1, <3>2
  <2>2. k \in 0..Len(s) /\ Len(walked') = k /\ \A i \in 1..k : walked'[i] = s[i]
    BY <1>1, <1>3 DEF Place
  <2>3. PICK q : q = j + 1
    OBVIOUS
  <2>4. /\ q \in 0..Len(v[k]) /\ passed' = Gone(v, k, q) /\ parser' = "field"
        /\ n + 1 = at[k] + 4 + 2 * q /\ k > 0
    BY <2>1, <2>3, <1>1, <1>4, <1>5, <1>12
  <2>5. /\ current'.commit = s[k] /\ current'.date = s[k] /\ current'.subject = s[k]
        /\ current'.merge = (o[at[k] + 3].value > 1)
    BY <1>7, <1>9
  <2>6. Place(s, v, o, at, n + 1, k, q)'
    BY ONLY <2>2, <2>4, <2>5 DEF Place
  <2> QED BY <2>3, <2>6
<1>14. HistoryState'
  BY <1>1, <1>2, <1>11 DEF HistoryState
<1>15. ParserState'
  BY <1>2, <1>8, <1>9 DEF ParserState
<1> QED BY <1>2, <1>3, <1>13, <1>14, <1>15 DEF UnderWay

(* All has been read: the commits s have been walked, and the changes v of *)
(* each of them passed.                                                    *)
Told(s, v) == Plan(s, v) /\ walked = s /\ passed = FlattenSeq(v)

GitInv ==
  /\ HistoryState /\ ParserState
  /\ readErr => parser \in {"reap", "returned"}
  /\ parser = "start" =>
       walked = <<>> /\ passed = <<>> /\ pipe[Log] = <<>> /\ child[Log] = "none"
  /\ parser \in Parsing => \E s, v, o, at : \E n, k, j : UnderWay(s, v, o, at, n, k, j)
  /\ parser = "reap" /\ ~readErr /\ child[Log] # "died" => \E s, v : Told(s, v)
  /\ parser = "returned" /\ ~readErr => \E s, v : Told(s, v)

(* A history that was told in full stays so.                               *)
LEMMA ToldKept ==
  ASSUME NEW s, NEW v, Told(s, v), UNCHANGED historyVars
  PROVE  Told(s, v)'
<1>1. repo' = repo /\ merges' = merges /\ walked' = walked /\ passed' = passed
  BY DEF historyVars, fixedVars, visitVars
<1>2. Plan(s, v)'
  BY <1>1, PlanKept DEF Told
<1> QED BY <1>1, <1>2 DEF Told

(* A step that leaves the history alone leaves each part of it alone.      *)
LEMMA HistoryKept ==
  ASSUME HistoryState, UNCHANGED historyVars
  PROVE  /\ HistoryState' /\ repo' = repo /\ merges' = merges /\ walked' = walked
         /\ passed' = passed /\ legal' = legal
BY DEF HistoryState, historyVars, fixedVars, visitVars, Recorded

(* The invariant of the git backend survives the start of the child;       *)
LEMMA LogStarts ==
  ASSUME GitInv, LogStart
  PROVE  GitInv'
<1>1. /\ parser = "start" /\ parser' = "field" /\ UNCHANGED historyVars
      /\ current' = current /\ readErr' = readErr
  BY DEF LogStart
<1>2. PICK s \in Orders : Start(Log, Output(s))
  BY DEF LogStart, Output
<1>3. /\ HistoryState /\ ParserState /\ walked = <<>> /\ passed = <<>> /\ pipe[Log] = <<>>
      /\ readErr = FALSE
  BY <1>1 DEF GitInv, ParserState
<1>4. /\ HistoryState' /\ repo' = repo /\ merges' = merges /\ walked' = walked
      /\ passed' = passed
  BY <1>1, <1>3, HistoryKept
<1>5. repo \in Repos
  BY <1>3 DEF HistoryState
<1>6. PICK v, at : Plan(s, v) /\ Printed(s, v, Output(s), at)
  BY <1>5, OutputIsPrinted
<1>7. PICK o : o = Output(s)
  OBVIOUS
<1>8. o \in Seq(Token) /\ Plan(s, v)' /\ s \in Seq(Commits) /\ Printed(s, v, o, at)
  BY <1>4, <1>6, <1>7, PlanKept DEF Printed
<1>9. ChildTypeOK(Token) /\ Log \in Children /\ Children = {Log}
  BY <1>3, LogAlone DEF ParserState
<1>10. /\ child' = [child EXCEPT ![Log] = "running"]
       /\ script' = [script EXCEPT ![Log] = o] /\ pipe' = pipe
  BY <1>2, <1>7 DEF Start
<1>11. ChildTypeOK(Token)'
  BY <1>8, <1>9, <1>10 DEF ChildTypeOK
<1>12. child'[Log] = "running" /\ script'[Log] = o /\ pipe'[Log] = <<>>
  BY <1>3, <1>9, <1>10 DEF ChildTypeOK
<1>13. InStream(o, 0)'
  <2>1. Len(<<>>) = 0 /\ Len(o) \in Nat /\ 0 + Len(<<>>) + Len(o) = Len(o)
    BY <1>8
  <2>2. \A i \in 1..Len(o) : o[0 + Len(<<>>) + i] = o[i]
    BY <2>1
  <2>3. \A i : i \notin 1..Len(<<>>)
    BY <2>1
  <2> QED BY <1>12, <2>1, <2>2, <2>3 DEF InStream
<1>14. Place(s, v, o, at, 0, 0, 0)'
  <2>1. Len(s) \in Nat /\ Len(walked') = 0 /\ walked' = <<>> /\ passed' = <<>>
    BY <1>3, <1>4, <1>8
  <2> QED BY <2>1, <1>1 DEF Place
<1>15. UnderWay(s, v, o, at, 0, 0, 0)'
  BY <1>8, <1>13, <1>14 DEF UnderWay
<1>16. ParserState'
  BY <1>1, <1>3, <1>11 DEF ParserState, Parsing
<1> QED BY <1>1, <1>3, <1>4, <1>15, <1>16 DEF GitInv

(* A field is read.                                                        *)
LEMMA FieldRead ==
  ASSUME GitInv, NEW f,
         \/ ReadCommit(f) \/ ReadDate(f) \/ ReadParents(f)
         \/ ReadSubject(f) \/ ReadRaw(f) \/ ReadPath(f)
  PROVE  GitInv'
<1>1. parser \in Parsing /\ parser' \in Parsing /\ readErr' = readErr
  BY DEF Parsing, ReadCommit, ReadDate, ReadParents, ReadSubject, ReadRaw, ReadPath, Reads
<1>2. readErr = FALSE /\ HistoryState /\ ParserState
  BY <1>1 DEF GitInv, Parsing, ParserState
<1>3. PICK s, v, o, at : \E n, k, j : UnderWay(s, v, o, at, n, k, j)
  BY <1>1 DEF GitInv
<1>4. PICK n, k, j : UnderWay(s, v, o, at, n, k, j)
  BY <1>3
<1>5. \/ HistoryState' /\ ParserState' /\ UnderWay(s, v, o, at, n + 1, k + 1, 0)'
      \/ HistoryState' /\ ParserState' /\ UnderWay(s, v, o, at, n + 1, k, j)'
      \/ HistoryState' /\ ParserState' /\ UnderWay(s, v, o, at, n + 1, k, j + 1)'
  <2>1. CASE ReadCommit(f)
    BY <1>2, <1>4, <2>1, CommitRead
  <2>2. CASE ReadDate(f)
    BY <1>2, <1>4, <2>2, DateRead
  <2>3. CASE ReadParents(f)
    BY <1>2, <1>4, <2>3, ParentsRead
  <2>4. CASE ReadSubject(f)
    BY <1>2, <1>4, <2>4, SubjectRead
  <2>5. CASE ReadRaw(f)
    BY <1>2, <1>4, <2>5, RawRead
  <2>6. CASE ReadPath(f)
    BY <1>2, <1>4, <2>6, PathRead
  <2> QED BY <2>1, <2>2, <2>3, <2>4, <2>5, <2>6
<1>6. HistoryState' /\ ParserState' /\ \E ss, vv, oo, aa : \E nn, kk, jj : UnderWay(ss, vv, oo, aa, nn, kk, jj)'
  BY <1>5
<1>7. parser' # "start" /\ parser' # "reap" /\ parser' # "returned" /\ readErr' = FALSE
  BY <1>1, <1>2 DEF Parsing
<1> QED BY <1>6, <1>7 DEF GitInv

(* Where readChanges finds the end of the output of a child that did not   *)
(* die, it has read all.                                                   *)
LEMMA EndFound ==
  ASSUME HistoryState, ParserState, NEW s, NEW v, NEW o, NEW at, NEW n, NEW k, NEW j,
         UnderWay(s, v, o, at, n, k, j), parser = "field", child[Log] = "exited",
         Unread \in {<<>>, <<"blank">>}
  PROVE  Told(s, v)
<1>1. Plan(s, v) /\ Printed(s, v, o, at) /\ InStream(o, n) /\ Place(s, v, o, at, n, k, j)
  BY DEF UnderWay
<1>2. pipe[Log] \in Seq(Token) /\ Len(pipe[Log]) \in Nat
  BY LogAlone DEF ParserState
<1>3. PICK q \in Seq(Token) : q = pipe[Log]
  BY <1>2
<1>4. /\ n \in Nat /\ n + Len(q) = Len(o) /\ \A i \in 1..Len(q) : n + i <= Len(o) /\ q[i] = o[n + i]
  BY <1>1, <1>3 DEF InStream
<1>5. BeforeField(s, v, at, n, k, j)
  BY <1>1 DEF BeforeField, Place
<1>6. q = <<>>
  <2> SUFFICES ASSUME q # <<>> PROVE FALSE
    OBVIOUS
  <2>1. Len(q) \in Nat /\ Len(q) >= 1 /\ DOMAIN q = 1..Len(q)
    OBVIOUS
  <2>2. PICK u : u = [i \in 1..Len(q) |-> q[i].kind]
    OBVIOUS
  <2>3. u = Unread
    BY <2>1, <2>2, <1>3 DEF Unread
  <2>4. 1 \in DOMAIN u /\ u[1] = q[1].kind
    BY <2>1, <2>2
  <2>5. u # <<>>
    BY <2>4
  <2>6. u = <<"blank">>
    BY <2>3, <2>5
  <2>7. u[1] = "blank"
    BY <2>6
  <2>8. n + 1 <= Len(o) /\ q[1] = o[n + 1]
    BY <2>1, <1>4
  <2>9. ChangeNext(v, o, n, k, j) \/ CommitNext(s, v, o, at, n, k, j)
    BY <2>8, <1>1, <1>5, AtField
  <2>10. o[n + 1].kind \in {"raw", "commit"}
    BY <2>9 DEF ChangeNext, CommitNext, RawOf, Field
  <2> QED BY <2>4, <2>7, <2>8, <2>10
<1>7. n = Len(o)
  <2>1. Len(<<>>) = 0
    OBVIOUS
  <2> QED BY <2>1, <1>4, <1>6
<1>8. k = Len(s) /\ (k > 0 => j = Len(v[k]))
  BY <1>1, <1>5, <1>7, AtField
<1>9. s \in Seq(Commits) /\ v \in Seq(Seq(ChangeType)) /\ Len(v) = Len(s)
  BY <1>1 DEF Printed
<1>10. walked = s
  <2>1. walked \in Seq(Commits) /\ Len(walked) = Len(s) /\ \A i \in 1..Len(s) : walked[i] = s[i]
    BY <1>1, <1>8 DEF HistoryState, Place
  <2> QED BY <2>1, <1>9, SeqEqual
<1>11. passed = FlattenSeq(v)
  <2>1. Len(s) \in Nat
    BY <1>9
  <2>2. CASE k = 0
    <3>1. passed = <<>> /\ Len(v) = 0
      BY <1>1, <1>8, <1>9, <2>2 DEF Place
    <3>2. Upto(v, 0) = <<>> /\ Upto(v, Len(v)) = FlattenSeq(v)
      BY <1>9, UptoFacts
    <3> QED BY <3>1, <3>2
  <2>3. CASE k # 0
    <3>1. k > 0 /\ k \in 1..Len(v) /\ k = Len(v)
      BY <1>8, <1>9, <2>1, <2>3
    <3>2. passed = Gone(v, k, Len(v[k]))
      BY <3>1, <1>1, <1>8 DEF Place
    <3>3. Gone(v, k, Len(v[k])) = Upto(v, k)
      BY <3>1, <1>9, GoneFacts
    <3>4. Upto(v, Len(v)) = FlattenSeq(v)
      BY <1>9, UptoFacts
    <3> QED BY <3>1, <3>2, <3>3, <3>4
  <2> QED BY <2>2, <2>3
<1> QED BY <1>1, <1>10, <1>11 DEF Told

(* and every step of the parser and of the child, the failing ones         *)
(* included.                                                               *)
LEMMA GitStepKeeps ==
  ASSUME GitInv, GitLogStep \/ GitLogFault
  PROVE  GitInv'
<1>1. HistoryState /\ ParserState /\ ChildTypeOK(Token)
  BY DEF GitInv, ParserState
<1>2. CASE LogStart
  BY <1>2, LogStarts
<1>3. CASE \E f \in ToSet(pipe[Log]) :
             \/ ReadCommit(f) \/ ReadDate(f) \/ ReadParents(f)
             \/ ReadSubject(f) \/ ReadRaw(f) \/ ReadPath(f)
  BY <1>3, FieldRead
<1>4. CASE ReadEnd
  <2>1. /\ parser = "field" /\ Ended(Log) /\ Unread \in {<<>>, <<"blank">>} /\ parser' = "reap"
        /\ UNCHANGED historyVars /\ child' = child /\ script' = script /\ pipe' = pipe
        /\ current' = current /\ readErr' = readErr
    BY <1>4 DEF ReadEnd, childVars
  <2>2. readErr = FALSE
    BY <2>1, <1>1 DEF GitInv, ParserState
  <2>3. HistoryState'
    BY <1>1, <2>1, HistoryKept
  <2>4. ParserState'
    BY <1>1, <2>1 DEF ParserState, Parsing, ChildTypeOK
  <2>5. child[Log] # "died" => \E s, v : Told(s, v)'
    <3> SUFFICES ASSUME child[Log] # "died" PROVE \E s, v : Told(s, v)'
      OBVIOUS
    <3>1. child[Log] = "exited"
      BY <2>1 DEF Ended
    <3>2. PICK s, v, o, at : \E n, k, j : UnderWay(s, v, o, at, n, k, j)
      BY <2>1 DEF GitInv, Parsing
    <3>3. PICK n, k, j : UnderWay(s, v, o, at, n, k, j)
      BY <3>2
    <3>4. Told(s, v)
      BY <3>1, <3>3, <2>1, <1>1, EndFound
    <3>5. Told(s, v)'
      BY <3>4, <2>1, ToldKept
    <3> QED BY <3>5
  <2> QED BY <2>1, <2>2, <2>3, <2>4, <2>5 DEF GitInv, Parsing
<1>5. CASE StopLog
  <2>1. /\ readErr' = TRUE /\ Kill(Log) /\ parser' = "reap" /\ UNCHANGED historyVars
        /\ current' = current
    BY <1>5 DEF StopLog
  <2>2. HistoryState'
    BY <1>1, <2>1, HistoryKept
  <2>3. ChildTypeOK(Token)'
    BY <1>1, <2>1, EndStep
  <2>4. ParserState'
    BY <1>1, <2>1, <2>3 DEF ParserState
  <2> QED BY <2>1, <2>2, <2>4 DEF GitInv, Parsing
<1>6. CASE LogReap
  <2>1. /\ parser = "reap" /\ parser' = "returned" /\ readErr' = (readErr \/ child[Log] = "died")
        /\ UNCHANGED historyVars /\ child' = child /\ script' = script /\ pipe' = pipe
        /\ current' = current
    BY <1>6 DEF LogReap, childVars
  <2>2. HistoryState'
    BY <1>1, <2>1, HistoryKept
  <2>3. readErr' \in BOOLEAN
    BY <2>1
  <2>4. ParserState'
    BY <1>1, <2>1, <2>3 DEF ParserState, Parsing, ChildTypeOK
  <2>5. ~readErr' => \E s, v : Told(s, v)'
    <3> SUFFICES ASSUME ~readErr' PROVE \E s, v : Told(s, v)'
      OBVIOUS
    <3>1. ~readErr /\ child[Log] # "died"
      BY <2>1
    <3>2. PICK s, v : Told(s, v)
      BY <3>1, <2>1 DEF GitInv
    <3>3. Told(s, v)'
      BY <3>2, <2>1, ToldKept
    <3> QED BY <3>3
  <2> QED BY <2>1, <2>2, <2>4, <2>5 DEF GitInv, Parsing
<1>7. CASE LogStartFails
  <2>1. /\ readErr' = TRUE /\ parser' = "returned" /\ UNCHANGED historyVars
        /\ child' = child /\ script' = script /\ pipe' = pipe /\ current' = current
    BY <1>7 DEF LogStartFails, childVars
  <2>2. HistoryState'
    BY <1>1, <2>1, HistoryKept
  <2>3. ParserState'
    BY <1>1, <2>1 DEF ParserState, ChildTypeOK
  <2> QED BY <2>1, <2>2, <2>3 DEF GitInv, Parsing
<1>8. CASE LogChildStep \/ LogChildDies
  <2>1. /\ UNCHANGED historyVars /\ parser' = parser /\ current' = current /\ readErr' = readErr
    BY <1>8 DEF LogChildStep, LogChildDies, parserVars
  <2>2. /\ ChildTypeOK(Token)'
        /\ \A o \in Seq(Token) : \A n : InStream(o, n) => InStream(o, n)'
    <3>1. \/ Prints(Log)
          \/ \/ Exit(Log)
             \/ Kill(Log)
             \/ \E part \in {<<>>, <<Cut("cut")>>, <<Cut("blank")>>} : Die(Log, part)
      BY <1>8 DEF LogChildStep, LogChildDies
    <3> QED BY <3>1, <1>1, PrintStep, EndStep
  <2>3. /\ HistoryState' /\ repo' = repo /\ merges' = merges /\ walked' = walked
        /\ passed' = passed
    BY <1>1, <2>1, HistoryKept
  <2>4. ParserState'
    BY <1>1, <2>1, <2>2 DEF ParserState
  <2>5. child[Log] = "running"
    BY <1>8 DEF LogChildStep, LogChildDies, Prints, Exit, Die
  <2>6. parser \in Parsing => \E s, v, o, at : \E n, k, j : UnderWay(s, v, o, at, n, k, j)'
    <3> SUFFICES ASSUME parser \in Parsing
                 PROVE  \E s, v, o, at : \E n, k, j : UnderWay(s, v, o, at, n, k, j)'
      OBVIOUS
    <3>1. PICK s, v, o, at : \E n, k, j : UnderWay(s, v, o, at, n, k, j)
      BY DEF GitInv
    <3>2. PICK n, k, j : UnderWay(s, v, o, at, n, k, j)
      BY <3>1
    <3>3. /\ Plan(s, v) /\ Printed(s, v, o, at) /\ InStream(o, n)
          /\ Place(s, v, o, at, n, k, j) /\ o \in Seq(Token)
      BY <3>2 DEF UnderWay, Printed
    <3>4. Plan(s, v)'
      BY <3>3, <2>3, PlanKept
    <3>5. Place(s, v, o, at, n, k, j)'
      BY <3>3, <2>1, <2>3 DEF Place
    <3>6. UnderWay(s, v, o, at, n, k, j)'
      BY <3>3, <3>4, <3>5, <2>2 DEF UnderWay
    <3> QED BY <3>6
  <2>7. (\E s, v : Told(s, v)) => \E s, v : Told(s, v)'
    <3> SUFFICES ASSUME NEW s, NEW v, Told(s, v) PROVE \E ss, vv : Told(ss, vv)'
      OBVIOUS
    <3>1. Told(s, v)'
      BY <2>1, ToldKept
    <3> QED BY <3>1
  <2>8. parser = "reap" /\ ~readErr => \E s, v : Told(s, v)
    BY <2>5 DEF GitInv
  <2>9. parser # "start"
    BY <2>5 DEF GitInv
  <2>10. /\ readErr => parser \in {"reap", "returned"}
         /\ parser = "returned" /\ ~readErr => \E s, v : Told(s, v)
    BY DEF GitInv
  <2> QED BY <2>1, <2>3, <2>4, <2>6, <2>7, <2>8, <2>9, <2>10 DEF GitInv
<1>9. GitLogStep \/ GitLogFault =>
        \/ LogStart \/ ReadEnd \/ StopLog \/ LogReap \/ LogStartFails
        \/ LogChildStep \/ LogChildDies
        \/ \E f \in ToSet(pipe[Log]) :
             \/ ReadCommit(f) \/ ReadDate(f) \/ ReadParents(f)
             \/ ReadSubject(f) \/ ReadRaw(f) \/ ReadPath(f)
  BY DEF GitLogStep, GitLogFault, ParserStep, ReadCut, ReadFails
<1> QED BY <1>2, <1>3, <1>4, <1>5, <1>6, <1>7, <1>8, <1>9

-----------------------------------------------------------------------------
(* The gogit backend.  What the references lead to.                        *)

(* A tag leads to the commits to which its target leads;                   *)
LEMMA LeadsTag ==
  ASSUME repo \in Repos, NEW p \in Tags
  PROVE  Leads(p) \cap Commits = Leads(repo.tag[p]) \cap Commits
<1>1. repo.tag[p] \in Names /\ p \in Names /\ Tags \cap Commits = {}
  BY RepoFacts, HistoryAssumption DEF Names
<1>2. ASSUME NEW x \in Leads(repo.tag[p])
      PROVE  x \in Leads(p)
  <2>1. \A S \in SUBSET Names : p \in S /\ TagClosed(S) => repo.tag[p] \in S
    BY DEF TagClosed
  <2> QED BY <2>1 DEF Leads
<1>3. ASSUME NEW x \in Leads(p), x \in Commits
      PROVE  x \in Leads(repo.tag[p])
  <2>1. x \in Names /\ x # p
    BY <1>1, <1>3 DEF Leads
  <2>2. ASSUME NEW S \in SUBSET Names, repo.tag[p] \in S, TagClosed(S)
        PROVE  x \in S
    <3>1. PICK T : T = S \cup {p}
      OBVIOUS
    <3>2. T \in SUBSET Names /\ p \in T /\ TagClosed(T)
      BY <3>1, <2>2, <1>1 DEF TagClosed
    <3>3. x \in T
      BY <3>2 DEF Leads
    <3> QED BY <3>1, <3>3, <2>1
  <2> QED BY <2>1, <2>2 DEF Leads
<1> QED BY <1>2, <1>3

(* an object that is no tag, to itself.                                    *)
LEMMA LeadsOther ==
  ASSUME NEW p \in Names, p \notin Tags
  PROVE  Leads(p) = {p}
<1>1. {p} \in SUBSET Names /\ TagClosed({p})
  BY DEF TagClosed
<1>2. \A x \in Leads(p) : x \in {p}
  BY <1>1 DEF Leads
<1>3. p \in Leads(p)
  BY DEF Leads
<1> QED BY <1>2, <1>3

(* The objects that historyRoots has begun to follow, and the commits that *)
(* it has found or is to find from the one it follows now.                 *)
RefsBegun(n) ==
  {repo.refs[i].object : i \in {i \in 1..(n - 1) : repo.refs[i].space = "refs"}}

Begun ==
  IF walker = "head" THEN {}
  ELSE RefsBegun(nextRef) \cup ({repo.head} \ {None})

Finding(x) == x \in ToSet(roots) \/ (walker = "peel" /\ x \in Leads(peeling))

RootsFound == \A x \in Commits : Finding(x) <=> \E o \in Begun : x \in Leads(o)

RootsState ==
  /\ walker \in {"head", "refs", "peel", "iter", "visit", "returned"}
  /\ nextRef \in 1..(Len(repo.refs) + 1)
  /\ peeling \in Names \cup {None}
  /\ walker = "peel" => peeling \in Names
  /\ roots \in Seq(Commits)
  /\ walker = "head" => nextRef = 1 /\ roots = <<>>
  /\ walker \in {"iter", "visit"} \/ (walker = "returned" /\ ~walkErr) => nextRef > Len(repo.refs)

(* historyRoots follows HEAD without losing or adding a root.              *)
LEMMA HeadFollowed ==
  ASSUME repo \in Repos, RootsState, RootsFound, ReadHead
  PROVE  RootsState' /\ RootsFound' /\ UNCHANGED historyVars
<1>1. /\ walker = "head" /\ peeling' = repo.head /\ repo' = repo /\ nextRef' = nextRef
      /\ walker' = (IF repo.head = None THEN "refs" ELSE "peel") /\ roots' = roots
      /\ UNCHANGED historyVars
  BY DEF ReadHead, historyVars, fixedVars
<1>2. repo.head \in Names \cup {None} /\ None \notin Names
  BY RepoFacts, HistoryAssumption
<1>3. nextRef = 1 /\ roots = <<>>
  BY <1>1 DEF RootsState
<1>4. RootsState'
  BY <1>1, <1>2, <1>3 DEF RootsState
<1>5. Begun' = {repo.head} \ {None}
  BY <1>1, <1>3 DEF Begun, RefsBegun
<1>6. \A x : x \notin ToSet(roots)
  BY <1>3 DEF ToSet
<1>7. \A o : Leads(o)' = Leads(o)
  BY <1>1, LeadsKept
<1>8. \A x \in Commits : (x \in ToSet(roots)' \/ (walker' = "peel" /\ x \in Leads(repo.head))) <=>
                           \E o \in Begun' : x \in Leads(o)
  BY <1>1, <1>2, <1>5, <1>6
<1>9. \A x : Finding(x)' <=> x \in ToSet(roots)' \/ (walker' = "peel" /\ x \in Leads(repo.head))
  <2>1. Leads(peeling)' = Leads(repo.head)
    BY <1>1 DEF Leads, TagClosed
  <2> QED BY <2>1 DEF Finding
<1>10. RootsFound'
  BY <1>7, <1>8, <1>9 DEF RootsFound
<1> QED BY <1>1, <1>4, <1>10

(* The references that were begun are the same as long as the repository   *)
(* is.                                                                     *)
LEMMA RefsBegunKept ==
  ASSUME repo' = repo, NEW n
  PROVE  RefsBegun(n)' = RefsBegun(n)
BY DEF RefsBegun

(* Each call of refs.Next begins one more reference, if it is under refs/. *)
LEMMA RefsBegunNext ==
  ASSUME repo \in Repos, NEW n \in 1..Len(repo.refs)
  PROVE  /\ repo.refs[n].object \in Names /\ repo.refs[n].space \in {"refs", "replace", "outside"}
         /\ RefsBegun(n + 1) = RefsBegun(n) \cup
              (IF repo.refs[n].space = "refs" THEN {repo.refs[n].object} ELSE {})
<1>1. repo.refs \in Seq(RefType) /\ Len(repo.refs) \in Nat /\ n \in Nat
  BY RepoFacts
<1>2. repo.refs[n] \in RefType
  BY <1>1
<1>3. \A i : i \in 1..((n + 1) - 1) <=> i \in 1..(n - 1) \/ i = n
  BY <1>1
<1>4. \A o : o \in RefsBegun(n + 1) <=>
              \E i \in 1..((n + 1) - 1) : repo.refs[i].space = "refs" /\ o = repo.refs[i].object
  BY DEF RefsBegun
<1>5. \A o : o \in RefsBegun(n) <=>
              \E i \in 1..(n - 1) : repo.refs[i].space = "refs" /\ o = repo.refs[i].object
  BY DEF RefsBegun
<1>6. \A o : o \in RefsBegun(n + 1) <=>
              o \in RefsBegun(n) \/ (repo.refs[n].space = "refs" /\ o = repo.refs[n].object)
  BY ONLY <1>3, <1>4, <1>5
<1> QED BY <1>2, <1>6 DEF RefType

(* historyRoots follows a reference without losing or adding a root.       *)
LEMMA RefFollowed ==
  ASSUME repo \in Repos, RootsState, RootsFound, NextRef
  PROVE  RootsState' /\ RootsFound' /\ UNCHANGED historyVars
<1>1. /\ walker = "refs" /\ repo' = repo /\ nextRef' = nextRef + 1 /\ roots' = roots
      /\ nextRef <= Len(repo.refs) /\ repo.refs[nextRef].space # "replace"
      /\ UNCHANGED historyVars
      /\ IF repo.refs[nextRef].space = "outside"
         THEN peeling' = peeling /\ walker' = walker
         ELSE peeling' = repo.refs[nextRef].object /\ walker' = "peel"
  BY DEF NextRef, historyVars, fixedVars
<1>2. PICK n \in 1..Len(repo.refs) : n = nextRef /\ n + 1 \in 1..(Len(repo.refs) + 1)
  <2>1. Len(repo.refs) \in Nat
    BY RepoFacts
  <2> QED BY <2>1, <1>1 DEF RootsState
<1>3. repo.refs[n].object \in Names /\ repo.refs[n].space \in {"refs", "outside"}
  BY <1>1, <1>2, RefsBegunNext
<1>4. RefsBegun(n + 1) = RefsBegun(n) \cup
        (IF repo.refs[n].space = "refs" THEN {repo.refs[n].object} ELSE {})
  BY <1>2, RefsBegunNext
<1>5. RootsState'
  BY <1>1, <1>2, <1>3 DEF RootsState
<1>6. RefsBegun(n + 1)' = RefsBegun(n + 1)
  BY <1>1, RefsBegunKept
<1>7. Begun' = RefsBegun(n + 1) \cup ({repo.head} \ {None})
  <2>1. walker' # "head"
    BY <1>1
  <2>2. RefsBegun(nextRef)' = RefsBegun(n + 1)'
    BY <1>1, <1>2 DEF RefsBegun
  <2> QED BY <2>1, <2>2, <1>1, <1>6 DEF Begun
<1>8. Begun = RefsBegun(n) \cup ({repo.head} \ {None})
  BY <1>1, <1>2 DEF Begun
<1>9. \A o : Leads(o)' = Leads(o)
  BY <1>1, LeadsKept
<1>10. \A x : Finding(x) <=> x \in ToSet(roots)
  BY <1>1 DEF Finding
<1>11. \A x \in Commits : x \in ToSet(roots) <=> \E o \in Begun : x \in Leads(o)
  BY <1>10 DEF RootsFound
<1>12. ToSet(roots)' = ToSet(roots)
  BY <1>1 DEF ToSet
<1>13. CASE repo.refs[n].space = "outside"
  <2>1. Begun' = Begun
    BY <1>4, <1>7, <1>8, <1>13
  <2>2. \A x : Finding(x)' <=> x \in ToSet(roots)
    BY <1>1, <1>2, <1>12, <1>13 DEF Finding
  <2> QED BY <2>1, <2>2, <1>1, <1>5, <1>9, <1>11 DEF RootsFound
<1>14. CASE repo.refs[n].space = "refs"
  <2>1. PICK q : q = repo.refs[n].object
    OBVIOUS
  <2>2. Begun' = Begun \cup {q}
    BY <2>1, <1>4, <1>7, <1>8, <1>14
  <2>3. walker' = "peel" /\ peeling' = q
    BY <2>1, <1>1, <1>2, <1>14
  <2>4. Leads(peeling)' = Leads(q)
    <3>1. Leads(peeling)' = Leads(q)'
      BY <2>3 DEF Leads, TagClosed
    <3> QED BY <3>1, <1>9
  <2>5. \A x : Finding(x)' <=> x \in ToSet(roots) \/ x \in Leads(q)
    BY <2>3, <2>4, <1>12 DEF Finding
  <2>6. \A x \in Commits : (x \in ToSet(roots) \/ x \in Leads(q)) <=>
                            \E o \in Begun' : x \in Leads(o)
    BY ONLY <2>2, <1>11
  <2>7. RootsFound'
    BY <2>5, <2>6, <1>9 DEF RootsFound
  <2> QED BY <2>7, <1>1, <1>5
<1> QED BY <1>3, <1>13, <1>14

(* commitAtReference goes from a tag to its target, or ends, without       *)
(* losing or adding a root.                                                *)
LEMMA ObjectPeeled ==
  ASSUME repo \in Repos, RootsState, RootsFound, Peel
  PROVE  RootsState' /\ RootsFound' /\ UNCHANGED historyVars
<1>1. /\ walker = "peel" /\ repo' = repo /\ nextRef' = nextRef /\ UNCHANGED historyVars
      /\ IF peeling \in Tags
         THEN peeling' = repo.tag[peeling] /\ walker' = walker /\ roots' = roots
         ELSE /\ roots' = IF peeling \in Commits THEN Append(roots, peeling) ELSE roots
              /\ peeling' = None
              /\ walker' = "refs"
  BY DEF Peel, historyVars, fixedVars
<1>2. PICK p \in Names : p = peeling
  BY <1>1 DEF RootsState
<1>3. p \in Tags => repo.tag[p] \in Names
  BY RepoFacts
<1>4. roots' \in Seq(Commits)
  <2>1. roots \in Seq(Commits)
    BY DEF RootsState
  <2>2. p \in Commits => Append(roots, p) \in Seq(Commits)
    BY <2>1
  <2> QED BY <2>1, <2>2, <1>1, <1>2
<1>5. RootsState'
  BY <1>1, <1>2, <1>3, <1>4 DEF RootsState
<1>6. Begun' = Begun
  <2>1. RefsBegun(nextRef)' = RefsBegun(nextRef)
    BY <1>1 DEF RefsBegun
  <2> QED BY <2>1, <1>1 DEF Begun
<1>7. \A o : Leads(o)' = Leads(o)
  BY <1>1, LeadsKept
<1>8. \A x : Finding(x) <=> x \in ToSet(roots) \/ x \in Leads(p)
  BY <1>1, <1>2 DEF Finding
<1>9. \A x \in Commits : Finding(x)' <=> Finding(x)
  <2>1. CASE p \in Tags
    <3>1. PICK q : q = repo.tag[p]
      OBVIOUS
    <3>2. Leads(peeling)' = Leads(q)
      <4>1. peeling' = q
        BY <1>1, <1>2, <2>1, <3>1
      <4>2. Leads(peeling)' = Leads(q)'
        BY <4>1 DEF Leads, TagClosed
      <4> QED BY <4>2, <1>7
    <3>3. ToSet(roots)' = ToSet(roots)
      BY <1>1, <1>2, <2>1 DEF ToSet
    <3>4. \A x : Finding(x)' <=> x \in ToSet(roots) \/ x \in Leads(q)
      BY <1>1, <1>2, <2>1, <3>2, <3>3 DEF Finding
    <3>5. Leads(p) \cap Commits = Leads(q) \cap Commits
      BY <2>1, <3>1, LeadsTag
    <3> QED BY <3>4, <3>5, <1>8
  <2>2. CASE p \notin Tags
    <3>1. Leads(p) = {p}
      BY <2>2, LeadsOther
    <3>2. \A x : Finding(x)' <=> x \in ToSet(roots')
      BY <1>1, <1>2, <2>2 DEF Finding
    <3>3. \A x \in Commits : x \in ToSet(roots') <=> x \in ToSet(roots) \/ x = p
      <4>1. roots \in Seq(Commits)
        BY DEF RootsState
      <4>2. CASE p \in Commits
        <5>1. roots' = Append(roots, p)
          BY <1>1, <1>2, <2>2, <4>2
        <5>2. /\ Len(roots') = Len(roots) + 1 /\ Len(roots) \in Nat
              /\ roots'[Len(roots) + 1] = p
              /\ \A i \in 1..Len(roots) : roots'[i] = roots[i]
          BY <5>1, <4>1, <4>2
        <5>3. DOMAIN roots = 1..Len(roots) /\ DOMAIN roots' = 1..Len(roots')
          BY <4>1, <1>4
        <5> QED BY <5>2, <5>3 DEF ToSet
      <4>3. CASE p \notin Commits
        BY <1>1, <1>2, <2>2, <4>3
      <4> QED BY <4>2, <4>3
    <3> QED BY <3>1, <3>2, <3>3, <1>8
  <2> QED BY <2>1, <2>2
<1>10. RootsFound'
  BY <1>6, <1>7, <1>9 DEF RootsFound
<1> QED BY <1>1, <1>5, <1>10

(* All the references passed, the roots found are those of the history.    *)
LEMMA AllRootsFound ==
  ASSUME repo \in Repos, RootsState, RootsFound, walker \notin {"head", "peel"},
         nextRef > Len(repo.refs)
  PROVE  ToSet(roots) = Roots
<1>1. PICK n \in Nat : n = Len(repo.refs) /\ nextRef = n + 1
  <2>1. Len(repo.refs) \in Nat
    BY RepoFacts
  <2> QED BY <2>1 DEF RootsState
<1>2. Begun = Named
  <2>1. DOMAIN repo.refs = 1..n /\ (n + 1) - 1 = n
    BY <1>1, RepoFacts
  <2>2. \A o : o \in RefsBegun(nextRef) <=>
                \E i \in 1..n : repo.refs[i].space = "refs" /\ o = repo.refs[i].object
    BY <1>1, <2>1 DEF RefsBegun
  <2>3. \A o : o \in {r.object : r \in {r \in ToSet(repo.refs) : r.space = "refs"}} <=>
                \E i \in 1..n : repo.refs[i].space = "refs" /\ o = repo.refs[i].object
    BY <2>1 DEF ToSet
  <2> QED BY <2>2, <2>3 DEF Begun, Named
<1>3. \A x \in Commits : x \in ToSet(roots) <=> \E o \in Named : x \in Leads(o)
  BY <1>2 DEF Finding, RootsFound
<1>4. ToSet(roots) \subseteq Commits
  BY DEF RootsState, ToSet
<1> QED BY <1>3, <1>4 DEF Roots

-----------------------------------------------------------------------------
(* What the iterator meets.                                                *)

MetClosed(S) == ToSet(roots) \subseteq S /\ \A c \in S : ParentsMet(c) \subseteq S

(* Met with its local definition named.                                    *)
LEMMA MetIs == Met = {c \in Commits : \A S \in SUBSET Commits : MetClosed(S) => c \in S}
BY DEF Met, MetClosed

(* The parents that the iterator knows are some of those in the store.     *)
LEMMA ParentsMetFacts ==
  ASSUME repo \in Repos, NEW c \in Commits
  PROVE  /\ ParentsMet(c) \subseteq Commits
         /\ \A p \in ParentsMet(c) : p \in ToSet(repo.parents[c])
         /\ \A x \in {Get(c), Node(c, FALSE)} :
              NodeParents(x) \in Seq(Commits) /\ ToSet(NodeParents(x)) \subseteq Commits
<1>1. repo.parents[c] \in Seq(Commits) /\ <<>> \in Seq(Commits)
  BY RepoFacts
<1>2. \A s \in Seq(Commits) : ToSet(s) \subseteq Commits
  BY DEF ToSet
<1>3. ToSet(<<>>) = {}
  BY DEF ToSet
<1>4. \A x \in {Get(c), Node(c, FALSE)} : x.commit = c /\ (NodeParents(x) = <<>> \/ NodeParents(x) = repo.parents[c])
  BY DEF Get, Node, NodeParents
<1>5. \E x \in {Get(c), Node(c, FALSE)} : ParentsMet(c) = ToSet(NodeParents(x))
  BY DEF ParentsMet
<1> QED BY <1>1, <1>2, <1>3, <1>4, <1>5

(* What the iterator meets is the least set with the roots and the parents *)
(* of its nodes.                                                           *)
LEMMA MetFacts ==
  ASSUME repo \in Repos, roots \in Seq(Commits)
  PROVE  /\ Met \subseteq Commits
         /\ MetClosed(Met)
         /\ \A S \in SUBSET Commits : MetClosed(S) => Met \subseteq S
<1>1. ToSet(roots) \subseteq Commits
  BY DEF ToSet
<1>2. Met \subseteq Commits
  BY MetIs
<1>3. ToSet(roots) \subseteq Met
  BY <1>1, MetIs DEF MetClosed
<1>4. ASSUME NEW c \in Met, NEW p \in ParentsMet(c) PROVE p \in Met
  <2>1. p \in Commits /\ c \in Commits
    BY <1>2, ParentsMetFacts
  <2>2. ASSUME NEW S \in SUBSET Commits, MetClosed(S) PROVE p \in S
    <3>1. c \in S
      BY <2>2, MetIs
    <3> QED BY <3>1, <2>2 DEF MetClosed
  <2> QED BY <2>1, <2>2, MetIs
<1>5. \A S \in SUBSET Commits : MetClosed(S) => Met \subseteq S
  BY MetIs
<1>6. MetClosed(Met)
  BY <1>3, <1>4 DEF MetClosed
<1> QED BY <1>2, <1>5, <1>6

(* What no commit leads to has been got by a reference.                    *)
LEMMA MetRoot ==
  ASSUME repo \in Repos, roots \in Seq(Commits), NEW c \in Met, ChildrenMet(c) = {}
  PROVE  c \in ToSet(roots)
<1> SUFFICES ASSUME c \notin ToSet(roots) PROVE FALSE
  OBVIOUS
<1>1. PICK S : S = Met \ {c}
  OBVIOUS
<1>2. S \in SUBSET Commits /\ MetClosed(Met)
  BY <1>1, MetFacts
<1>3. \A d \in S : c \notin ParentsMet(d)
  BY <1>1 DEF ChildrenMet
<1>4. MetClosed(S)
  BY <1>1, <1>2, <1>3 DEF MetClosed
<1>5. Met \subseteq S
  BY <1>2, <1>4, MetFacts
<1> QED BY <1>1, <1>5

(* It is settled by the repository and the roots.                          *)
LEMMA MetKept ==
  ASSUME repo' = repo, roots' = roots
  PROVE  /\ Met' = Met
         /\ \A c : ParentsMet(c)' = ParentsMet(c)
         /\ \A c : ChildrenMet(c)' = ChildrenMet(c)
<1>1. \A x : NodeParents(x)' = NodeParents(x)
  BY DEF NodeParents
<1>2. \A c : Get(c)' = Get(c)
  BY DEF Get, Node
<1>3. ToSet(roots)' = ToSet(roots)
  BY DEF ToSet
<1>4. \A c : ParentsMet(c)' = ParentsMet(c)
  <2> SUFFICES ASSUME NEW c PROVE ParentsMet(c)' = ParentsMet(c)
    OBVIOUS
  <2>1. PICK x : x = IF c \in ToSet(roots) THEN Get(c) ELSE Node(c, FALSE)
    OBVIOUS
  <2>2. ParentsMet(c) = ToSet(NodeParents(x))
    BY <2>1 DEF ParentsMet
  <2>3. (IF c \in ToSet(roots) THEN Get(c) ELSE Node(c, FALSE))' = x
    BY <2>1, <1>2, <1>3 DEF Node
  <2>4. ParentsMet(c)' = ToSet(NodeParents(x)')
    BY <2>3 DEF ParentsMet, NodeParents, ToSet
  <2> QED BY <2>2, <2>4, <1>1
<1>5. \A S : MetClosed(S)' <=> MetClosed(S)
  BY <1>3, <1>4 DEF MetClosed
<1>6. Met' = {c \in Commits : \A S \in SUBSET Commits : MetClosed(S)' => c \in S}
  BY DEF Met, MetClosed
<1>7. Met = {c \in Commits : \A S \in SUBSET Commits : MetClosed(S) => c \in S}
  BY MetIs
<1>8. Met' = Met
  BY <1>5, <1>6, <1>7
<1>9. \A c : ChildrenMet(c)' = ChildrenMet(c)
  BY <1>4, <1>8 DEF ChildrenMet
<1> QED BY <1>4, <1>8, <1>9

-----------------------------------------------------------------------------
(* What the iterator has yielded, and what it may yield next.              *)

NodeType == [commit: Commits, wrapped: BOOLEAN]

(* A commit is wrapped only as a root; one of the boundary that is not     *)
(* wrapped has been come to from a child.                                  *)
Led(c) == \E d \in Reachable : c \in ToSet(ParentsOf(d))

Fit(n) ==
  /\ n \in NodeType /\ n.commit \in Reachable
  /\ n.wrapped => n.commit \in repo.boundary /\ n.commit \in ToSet(roots)
  /\ ~n.wrapped => n.commit \notin repo.boundary \/ Led(n.commit)

(* The history is closed under the parents that git shows.                 *)
LEMMA ReachableFacts ==
  ASSUME repo \in Repos
  PROVE  /\ Reachable \subseteq Commits
         /\ \A c \in Reachable : ToSet(ParentsOf(c)) \subseteq Reachable
<1>1. Reachable \subseteq Commits
  BY ReachableIs
<1>2. ASSUME NEW c \in Reachable, NEW p \in ToSet(ParentsOf(c)) PROVE p \in Reachable
  <2>1. p \in Commits
    BY <1>1, <1>2, ParentsType DEF ToSet
  <2>2. \A S \in SUBSET Commits : ClosedUp(S) => p \in S
    BY <1>2, ReachableIs DEF ClosedUp
  <2> QED BY <2>1, <2>2, ReachableIs
<1> QED BY <1>1, <1>2

(* A node that can be yielded has the parents that git shows.              *)
LEMMA NodeIsRight ==
  ASSUME repo \in Repos, CutOff, NEW n, Fit(n), ToSet(NodeParents(n)) \cap repo.missing = {}
  PROVE  /\ NodeParents(n) = ParentsOf(n.commit)
         /\ ParentsMet(n.commit) = ToSet(ParentsOf(n.commit))
<1>1. PICK c \in Commits : c = n.commit
  BY DEF Fit, NodeType
<1>2. NodeParents(n) = ParentsOf(c)
  <2>1. CASE n.wrapped
    BY <2>1, <1>1 DEF Fit, NodeParents, ParentsOf
  <2>2. CASE ~n.wrapped
    <3>1. NodeParents(n) = repo.parents[c]
      BY <2>2, <1>1 DEF NodeParents
    <3>2. c \in repo.boundary => repo.parents[c] = <<>>
      <4>1. c \in repo.boundary => Led(c)
        BY <2>2, <1>1 DEF Fit
      <4> QED BY <4>1, <3>1 DEF CutOff, Led
    <3> QED BY <3>1, <3>2 DEF ParentsOf
  <2> QED BY <2>1, <2>2
<1>3. ParentsMet(c) = ToSet(ParentsOf(c))
  <2>1. CASE c \in ToSet(roots)
    <3>1. ParentsMet(c) = ToSet(NodeParents(Get(c)))
      BY <2>1 DEF ParentsMet
    <3>2. NodeParents(Get(c)) = ParentsOf(c)
      BY DEF Get, Node, NodeParents, ParentsOf
    <3> QED BY <3>1, <3>2
  <2>2. CASE c \notin ToSet(roots)
    <3>1. ParentsMet(c) = ToSet(NodeParents(Node(c, FALSE)))
      BY <2>2 DEF ParentsMet
    <3>2. NodeParents(Node(c, FALSE)) = repo.parents[c]
      BY DEF Node, NodeParents
    <3>3. ~n.wrapped
      BY <2>2, <1>1 DEF Fit
    <3>4. NodeParents(n) = repo.parents[c]
      BY <3>3, <1>1 DEF NodeParents
    <3> QED BY <3>1, <3>2, <3>4, <1>2
  <2> QED BY <2>1, <2>2
<1> QED BY <1>1, <1>2, <1>3

(* W has been yielded, R may be yielded.                                   *)
Frontier(W, R) ==
  /\ W \subseteq Met
  /\ \A c \in W : ChildrenMet(c) \subseteq W /\ ParentsMet(c) = ToSet(ParentsOf(c))
  /\ \A n \in R : n.commit \in Met \ W /\ ChildrenMet(n.commit) \subseteq W
  /\ \A c \in Met \ W : ChildrenMet(c) \subseteq W => \E n \in R : n.commit = c
  /\ \A n, m \in R : n.commit = m.commit => n = m

(* The nodes made of the roots are a frontier with nothing yielded before  *)
(* it, and each is wrapped if git cuts the history there.                  *)
LEMMA FrontierBegins ==
  ASSUME repo \in Repos, roots \in Seq(Commits), ToSet(roots) = Roots
  PROVE  /\ Frontier({}, {Get(c) : c \in {c \in ToSet(roots) : ChildrenMet(c) = {}}})
         /\ \A n \in {Get(c) : c \in {c \in ToSet(roots) : ChildrenMet(c) = {}}} : Fit(n)
<1>1. PICK R : R = {Get(c) : c \in {c \in ToSet(roots) : ChildrenMet(c) = {}}}
  OBVIOUS
<1>2. /\ ToSet(roots) \subseteq Met /\ Met \subseteq Commits
      /\ \A c \in Met : ChildrenMet(c) = {} => c \in ToSet(roots)
  BY MetFacts, MetRoot DEF MetClosed
<1>3. \A c : Get(c).commit = c
  BY DEF Get, Node
<1>4. \A n \in R : \E c \in ToSet(roots) : n = Get(c) /\ ChildrenMet(c) = {}
  BY <1>1
<1>5. \A c \in ToSet(roots) : Fit(Get(c))
  <2> SUFFICES ASSUME NEW c \in ToSet(roots) PROVE Fit(Get(c))
    OBVIOUS
  <2>1. c \in Commits /\ (c \in repo.boundary) \in BOOLEAN
    BY <1>2
  <2>2. PICK w \in BOOLEAN : w = (c \in repo.boundary)
    BY <2>1, Zenon
  <2>3. Get(c) = [commit |-> c, wrapped |-> w]
    BY <2>2 DEF Get, Node
  <2>4. Get(c) \in NodeType /\ Get(c).commit = c /\ Get(c).wrapped = w
    BY <2>1, <2>3 DEF NodeType
  <2>5. w <=> c \in repo.boundary
    BY <2>2
  <2>6. c \in Reachable
    BY <2>1, ReachableIs DEF ClosedUp
  <2> QED BY <2>4, <2>5, <2>6 DEF Fit
<1>6. \A n \in R : Fit(n) /\ n.commit \in Met /\ ChildrenMet(n.commit) = {}
  BY <1>2, <1>3, <1>4, <1>5
<1>7. \A c \in Met : ChildrenMet(c) \subseteq {} => \E n \in R : n.commit = c
  BY <1>1, <1>2, <1>3
<1>8. \A n, m \in R : n.commit = m.commit => n = m
  BY <1>3, <1>4
<1>9. Frontier({}, R)
  BY <1>6, <1>7, <1>8 DEF Frontier
<1> QED BY <1>1, <1>6, <1>9

(* What is ready after n has been yielded.                                 *)
ReadyAfter(W, R, n) ==
  (R \ {n}) \cup {Node(p, FALSE) :
    p \in {p \in (ToSet(NodeParents(n)) \cap Met) \ (W \cup {n.commit}) :
             ChildrenMet(p) \subseteq W \cup {n.commit}}}

(* Yielding a node moves the frontier on by one commit.                    *)
LEMMA FrontierMoves ==
  ASSUME repo \in Repos, roots \in Seq(Commits), CutOff, NEW W, NEW R, Frontier(W, R),
         NEW n \in R, Fit(n), ToSet(NodeParents(n)) \cap repo.missing = {}
  PROVE  Frontier(W \cup {n.commit}, ReadyAfter(W, R, n))
<1>1. PICK c \in Met : c = n.commit /\ c \notin W /\ ChildrenMet(c) \subseteq W
  BY DEF Frontier
<1>2. PICK V : V = W \cup {c}
  OBVIOUS
<1>3. PICK Q : Q = ReadyAfter(W, R, n)
  OBVIOUS
<1>4. ToSet(NodeParents(n)) = ParentsMet(c) /\ ParentsMet(c) = ToSet(ParentsOf(c))
  BY <1>1, NodeIsRight
<1>5. \A x : x \in Q <=> \/ x \in R /\ x # n
                         \/ \E p \in ParentsMet(c) \cap Met :
                              p \notin V /\ ChildrenMet(p) \subseteq V /\ x = Node(p, FALSE)
  BY <1>1, <1>2, <1>3, <1>4 DEF ReadyAfter
<1>6. \A p : p \in ParentsMet(c) <=> c \in ChildrenMet(p)
  BY <1>1 DEF ChildrenMet
<1>7. \A p : Node(p, FALSE).commit = p
  BY DEF Node
<1>8. V \subseteq Met
  BY <1>1, <1>2 DEF Frontier
<1>9. \A d \in V : ChildrenMet(d) \subseteq V /\ ParentsMet(d) = ToSet(ParentsOf(d))
  BY <1>1, <1>2, <1>4 DEF Frontier
<1>10. \A x \in R : x.commit \in Met \ W /\ ChildrenMet(x.commit) \subseteq W
  BY DEF Frontier
<1>11. \A x, y \in R : x.commit = y.commit => x = y
  BY DEF Frontier
<1>12. \A x \in Q : x.commit \in Met \ V /\ ChildrenMet(x.commit) \subseteq V
  <2> SUFFICES ASSUME NEW x \in Q PROVE x.commit \in Met \ V /\ ChildrenMet(x.commit) \subseteq V
    OBVIOUS
  <2>1. CASE x \in R /\ x # n
    <3>1. x.commit # c
      BY <2>1, <1>1, <1>11
    <3> QED BY <3>1, <2>1, <1>2, <1>10
  <2>2. CASE x \notin R \/ x = n
    <3>1. PICK p \in ParentsMet(c) \cap Met :
            p \notin V /\ ChildrenMet(p) \subseteq V /\ x = Node(p, FALSE)
      BY <2>2, <1>5
    <3>2. x.commit = p
      BY <3>1, <1>7
    <3> QED BY <3>1, <3>2
  <2> QED BY <2>1, <2>2
<1>13. \A d \in Met \ V : ChildrenMet(d) \subseteq V => \E x \in Q : x.commit = d
  <2> SUFFICES ASSUME NEW d \in Met \ V, ChildrenMet(d) \subseteq V PROVE \E x \in Q : x.commit = d
    OBVIOUS
  <2>1. CASE c \in ChildrenMet(d)
    <3>1. Node(d, FALSE) \in Q
      BY <2>1, <1>5, <1>6
    <3> QED BY <3>1, <1>7
  <2>2. CASE c \notin ChildrenMet(d)
    <3>1. ChildrenMet(d) \subseteq W /\ d \in Met \ W /\ d # c
      BY <2>2, <1>2
    <3>2. PICK x \in R : x.commit = d
      BY <3>1 DEF Frontier
    <3>3. x # n
      BY <3>1, <3>2, <1>1
    <3> QED BY <3>2, <3>3, <1>5
  <2> QED BY <2>1, <2>2
<1>14. \A x, y \in Q : x.commit = y.commit => x = y
  <2>1. \A x \in Q : x \in R => c \notin ChildrenMet(x.commit)
    BY <1>1, <1>10
  <2>2. \A x \in Q : x \notin R \/ x = n => c \in ChildrenMet(x.commit) /\ x = Node(x.commit, FALSE)
    <3> SUFFICES ASSUME NEW x \in Q, x \notin R \/ x = n
                 PROVE  c \in ChildrenMet(x.commit) /\ x = Node(x.commit, FALSE)
      OBVIOUS
    <3>1. PICK p \in ParentsMet(c) \cap Met : x = Node(p, FALSE)
      BY <1>5
    <3>2. x.commit = p
      BY <3>1, <1>7
    <3> QED BY <3>1, <3>2, <1>6
  <2>3. \A x \in Q : x = n => x.commit \notin V
    BY <1>12
  <2>4. \A x \in Q : x # n
    BY <2>3, <1>1, <1>2
  <2>5. ASSUME NEW x \in Q, NEW y \in Q, x.commit = y.commit PROVE x = y
    <3>1. CASE x \in R /\ y \in R
      BY <3>1, <2>5, <1>11
    <3>2. CASE x \notin R /\ y \notin R
      BY <3>2, <2>2, <2>5
    <3>3. CASE x \in R /\ y \notin R
      <4>1. c \notin ChildrenMet(x.commit) /\ c \in ChildrenMet(y.commit)
        BY <3>3, <2>1, <2>2
      <4> QED BY <4>1, <2>5
    <3>4. CASE x \notin R /\ y \in R
      <4>1. c \in ChildrenMet(x.commit) /\ c \notin ChildrenMet(y.commit)
        BY <3>4, <2>1, <2>2
      <4> QED BY <4>1, <2>5
    <3> QED BY <3>1, <3>2, <3>3, <3>4
  <2> QED BY <2>5
<1>15. Frontier(V, Q)
  BY <1>8, <1>9, <1>12, <1>13, <1>14 DEF Frontier
<1> QED BY <1>1, <1>2, <1>3, <1>15

(* With nothing ready, everything met has been yielded.                    *)
LEMMA FrontierEnds ==
  ASSUME repo \in Repos, roots \in Seq(Commits), NEW W, Frontier(W, {})
  PROVE  W = Met
<1> SUFFICES ASSUME W # Met PROVE FALSE
  OBVIOUS
<1>1. PICK age \in [Commits -> 1..Cardinality(Commits)] :
        \A c \in Commits : \A p \in ToSet(repo.parents[c]) : age[c] < age[p]
  BY HistoryAssumption
<1>2. PICK U : U = Met \ W
  OBVIOUS
<1>3. U # {} /\ U \subseteq Commits /\ Met \subseteq Commits
  BY <1>2, MetFacts DEF Frontier
<1>4. PICK A : A = {age[c] : c \in U}
  OBVIOUS
<1>5. A \in SUBSET Nat /\ A # {}
  <2>1. \A c \in U : age[c] \in Nat
    <3>1. Cardinality(Commits) \in Nat
      BY HistoryAssumption, FS_CardinalityType
    <3> QED BY <3>1, <1>1, <1>3
  <2> QED BY <2>1, <1>3, <1>4
<1>6. PICK m \in A : \A k \in A : m <= k
  BY <1>5, LeastNumber
<1>7. PICK c \in U : age[c] = m
  BY <1>4, <1>6
<1>8. \A d \in ChildrenMet(c) : d \in Met /\ d \in Commits /\ c \in ToSet(repo.parents[d])
  BY <1>3, ParentsMetFacts DEF ChildrenMet
<1>9. \A d \in ChildrenMet(c) : age[d] < age[c]
  BY <1>1, <1>8
<1>10. \A d \in ChildrenMet(c) : d \notin U
  <2> SUFFICES ASSUME NEW d \in ChildrenMet(c), d \in U PROVE FALSE
    OBVIOUS
  <2>1. age[d] \in A /\ m \in Nat /\ age[d] \in Nat
    BY <1>4, <1>5
  <2>2. m <= age[d] /\ age[d] < m
    BY <2>1, <1>6, <1>7, <1>9
  <2> QED BY <2>1, <2>2
<1>11. ChildrenMet(c) \subseteq W
  BY <1>2, <1>8, <1>10
<1> QED BY <1>2, <1>7, <1>11 DEF Frontier

(* What it meets is then the history.                                      *)
LEMMA MetIsReachable ==
  ASSUME repo \in Repos, roots \in Seq(Commits), ToSet(roots) = Roots,
         \A c \in Met : ParentsMet(c) = ToSet(ParentsOf(c))
  PROVE  Met = Reachable
<1>1. MetClosed(Met) /\ Met \subseteq Commits
  BY MetFacts
<1>2. ClosedUp(Met)
  BY <1>1 DEF ClosedUp, MetClosed
<1>3. Reachable \subseteq Met
  BY <1>1, <1>2, ReachableIs
<1>4. Roots \subseteq Reachable
  BY ReachableIs DEF ClosedUp, Roots
<1>5. \A c \in Reachable : ToSet(ParentsOf(c)) \subseteq Reachable
  <2> SUFFICES ASSUME NEW c \in Reachable, NEW p \in ToSet(ParentsOf(c)) PROVE p \in Reachable
    OBVIOUS
  <2>1. c \in Commits
    BY ReachableIs
  <2>2. p \in Commits
    BY <2>1, ParentsType DEF ToSet
  <2>3. \A S \in SUBSET Commits : ClosedUp(S) => p \in S
    BY ReachableIs DEF ClosedUp
  <2> QED BY <2>2, <2>3, ReachableIs
<1>6. MetClosed(Reachable)
  BY <1>3, <1>4, <1>5 DEF MetClosed
<1>7. Reachable \in SUBSET Commits
  BY ReachableIs
<1>8. Met \subseteq Reachable
  BY <1>6, <1>7, MetFacts
<1> QED BY <1>3, <1>8

-----------------------------------------------------------------------------
(* The invariant of the gogit backend.                                     *)

(* The changes of the commits, one after the other.                        *)
Chs(s) == [i \in DOMAIN s |-> ChangesOf(s[i])]

(* The changes of the commits of a walk, one sequence for each.            *)
LEMMA ChsFacts ==
  ASSUME repo \in Repos, NEW s \in Seq(Commits)
  PROVE  /\ Chs(s) \in Seq(Seq(ChangeType)) /\ Len(Chs(s)) = Len(s) /\ Len(s) \in Nat
         /\ \A i \in 1..Len(s) : Chs(s)[i] = ChangesOf(s[i])
<1>1. PICK n \in Nat : n = Len(s) /\ DOMAIN s = 1..n
  OBVIOUS
<1>2. Chs(s) = [i \in 1..n |-> ChangesOf(s[i])]
  BY <1>1 DEF Chs
<1>3. \A i \in 1..n : ChangesOf(s[i]) \in Seq(ChangeType)
  BY <1>1, ChangesFacts
<1>4. PICK v : v = [i \in 1..n |-> ChangesOf(s[i])]
  OBVIOUS
<1>5. v \in [1..n -> Seq(ChangeType)]
  BY <1>3, <1>4
<1>6. v \in Seq(Seq(ChangeType)) /\ Len(v) = n
  BY <1>1, <1>5
<1> QED BY <1>1, <1>2, <1>4, <1>6

(* They are settled by the repository and --merges.                        *)
LEMMA ChsKept ==
  ASSUME repo' = repo, merges' = merges, NEW s
  PROVE  Chs(s)' = Chs(s)
<1>1. \A c : ChangesOf(c)' = ChangesOf(c)
  BY ChangesKept
<1> QED BY <1>1 DEF Chs

(* One more commit adds its changes at the end.                            *)
LEMMA ChsLonger ==
  ASSUME repo \in Repos, NEW s \in Seq(Commits), NEW c \in Commits
  PROVE  /\ Append(s, c) \in Seq(Commits) /\ Len(Append(s, c)) = Len(s) + 1
         /\ Upto(Chs(Append(s, c)), Len(s)) = FlattenSeq(Chs(s))
<1>0. Append(s, c) \in Seq(Commits)
  OBVIOUS
<1>1. PICK t \in Seq(Commits) : t = Append(s, c)
  BY <1>0
<1>2. PICK n \in Nat : n = Len(s) /\ Len(t) = n + 1 /\ \A i \in 1..n : t[i] = s[i]
  BY <1>1
<1>3. PICK u : u = Chs(s)
  OBVIOUS
<1>4. PICK v : v = Chs(t)
  OBVIOUS
<1>5. u \in Seq(Seq(ChangeType)) /\ Len(u) = n /\ \A i \in 1..n : u[i] = ChangesOf(s[i])
  BY <1>2, <1>3, ChsFacts
<1>6. v \in Seq(Seq(ChangeType)) /\ Len(v) = n + 1 /\ \A i \in 1..(n + 1) : v[i] = ChangesOf(t[i])
  BY <1>2, <1>4, ChsFacts
<1>7. n \in 0..Len(u) /\ n \in 0..Len(v) /\ \A i \in 1..n : u[i] = v[i]
  BY <1>2, <1>5, <1>6
<1>8. Upto(u, n) = Upto(v, n)
  BY <1>5, <1>6, <1>7, UptoSame
<1>9. Upto(u, Len(u)) = FlattenSeq(u)
  BY <1>5, UptoFacts
<1> QED BY <1>1, <1>2, <1>3, <1>4, <1>5, <1>8, <1>9

(* No commit twice, and no parent before a child.                          *)
InOrder(s) ==
  /\ \A i, j \in 1..Len(s) : s[i] = s[j] => i = j
  /\ \A i, j \in 1..Len(s) : s[j] \in ParentsMet(s[i]) => i < j

(* A walk that is in order stays so by a commit whose children were all    *)
(* yielded.                                                                *)
LEMMA InOrderLonger ==
  ASSUME NEW s \in Seq(Commits), NEW c \in Commits, InOrder(s), c \notin ToSet(s),
         ChildrenMet(c) \subseteq ToSet(s), c \in Met,
         \A d \in ToSet(s) : ChildrenMet(d) \subseteq ToSet(s)
  PROVE  InOrder(Append(s, c)) /\ ToSet(Append(s, c)) = ToSet(s) \cup {c}
<1>0. Append(s, c) \in Seq(Commits)
  OBVIOUS
<1>1. PICK t \in Seq(Commits) : t = Append(s, c)
  BY <1>0
<1>2. PICK n \in Nat : n = Len(s) /\ Len(t) = n + 1 /\ t[n + 1] = c /\ \A i \in 1..n : t[i] = s[i]
  BY <1>1
<1>3. DOMAIN s = 1..n /\ DOMAIN t = 1..(n + 1) /\ \A i \in 1..(n + 1) : i \in 1..n \/ i = n + 1
  BY <1>1, <1>2
<1>4. \A i \in 1..n : s[i] \in ToSet(s) /\ s[i] # c
  BY <1>3 DEF ToSet
<1>5. \A i, j \in 1..(n + 1) : t[i] = t[j] => i = j
  BY <1>2, <1>3, <1>4 DEF InOrder
<1>6. c \notin ParentsMet(c)
  BY DEF ChildrenMet
<1>7. \A i \in 1..n : s[i] \notin ParentsMet(c)
  BY <1>4 DEF ChildrenMet
<1>8. \A i, j \in 1..(n + 1) : t[j] \in ParentsMet(t[i]) => i < j
  <2> SUFFICES ASSUME NEW i \in 1..(n + 1), NEW j \in 1..(n + 1), t[j] \in ParentsMet(t[i])
               PROVE  i < j
    OBVIOUS
  <2>1. i # n + 1
    BY <1>2, <1>3, <1>6, <1>7
  <2>2. i \in 1..n /\ t[i] = s[i]
    BY <2>1, <1>2, <1>3
  <2>3. CASE j = n + 1
    BY <2>2, <2>3
  <2>4. CASE j \in 1..n
    BY <2>2, <2>4, <1>2 DEF InOrder
  <2> QED BY <2>3, <2>4, <1>3
<1>9. ToSet(t) = ToSet(s) \cup {c}
  <2>1. n + 1 \in 1..(n + 1) /\ \A i \in 1..n : i \in 1..(n + 1)
    OBVIOUS
  <2> QED BY <2>1, <1>2, <1>3 DEF ToSet
<1> QED BY <1>1, <1>2, <1>5, <1>8, <1>9 DEF InOrder

(* Types.                                                                  *)
WalkState ==
  /\ HistoryState /\ RootsState
  /\ ready \subseteq NodeType /\ cached \subseteq Commits /\ walkErr \in BOOLEAN
  /\ walker = "visit" => node \in NodeType
  /\ walkErr => walker = "returned"

(* The iterator has the history before it, in order.                       *)
Iterating ==
  /\ \A n \in ready : Fit(n)
  /\ Frontier(ToSet(walked), ready)
  /\ InOrder(walked)

(* All that was yielded has been visited, or all but the last.             *)
AllVisited == passed = FlattenSeq(Chs(walked)) /\ cached \subseteq Met \ ToSet(walked)

OneToVisit(k) ==
  /\ k = Len(walked) /\ k > 0
  /\ node.commit = walked[k] /\ NodeParents(node) = ParentsOf(walked[k])
  /\ passed = Upto(Chs(walked), k - 1)
  /\ cached \subseteq (Met \ ToSet(walked)) \cup {walked[k]}

GoGitInv ==
  /\ WalkState
  /\ walker \in {"head", "refs", "peel"} => walked = <<>> /\ passed = <<>> /\ cached = {}
  /\ ~walkErr => RootsFound
  /\ CutOff /\ ~walkErr =>
       /\ walker \in {"iter", "visit", "returned"} => Iterating
       /\ walker \in {"iter", "returned"} => AllVisited
       /\ walker = "visit" => \E k \in Nat : OneToVisit(k)
       /\ walker = "returned" => ready = {}

(* Whether a boundary is cut off does not change during the walk,          *)
LEMMA CutOffKept ==
  ASSUME repo' = repo
  PROVE  CutOff' <=> CutOff
<1>1. Reachable' = Reachable
  BY ReachableKept
<1>2. \A c : ParentsOf(c)' = ParentsOf(c)
  BY ParentsKept
<1> QED BY <1>1, <1>2 DEF CutOff, ToSet

(* nor whether a node has the parents that git shows,                      *)
LEMMA FitKept ==
  ASSUME repo' = repo, roots' = roots, NEW n
  PROVE  Fit(n)' <=> Fit(n)
<1>1. Reachable' = Reachable
  BY ReachableKept
<1>2. \A c : ParentsOf(c)' = ParentsOf(c)
  BY ParentsKept
<1>3. Led(n.commit)' <=> Led(n.commit)
  BY <1>1, <1>2 DEF Led, ToSet
<1>4. ToSet(roots)' = ToSet(roots)
  BY DEF ToSet
<1> QED BY <1>1, <1>3, <1>4 DEF Fit, NodeType

(* nor what a frontier is,                                                 *)
LEMMA FrontierKept ==
  ASSUME repo' = repo, roots' = roots, NEW W, NEW R
  PROVE  Frontier(W, R)' <=> Frontier(W, R)
<1>1. \A c : ParentsOf(c)' = ParentsOf(c)
  BY ParentsKept
<1>2. \A c : ToSet(ParentsOf(c))' = ToSet(ParentsOf(c))
  BY <1>1 DEF ToSet
<1> QED BY <1>2, MetKept DEF Frontier

(* nor whether a walk is in order.                                         *)
LEMMA InOrderKept ==
  ASSUME repo' = repo, roots' = roots, NEW s
  PROVE  InOrder(s)' <=> InOrder(s)
BY MetKept DEF InOrder

(* The parts that make the iterator's invariant after a step.              *)
LEMMA IteratingThen ==
  ASSUME NEW W, NEW R, NEW s, W = ToSet(s), walked' = s, ready' = R,
         Frontier(W, R)', InOrder(s)', \A n \in R : Fit(n)'
  PROVE  Iterating'
<1>1. ToSet(walked)' = W
  BY DEF ToSet
<1>2. Frontier(ToSet(walked), ready)'
  BY <1>1 DEF Frontier
<1>3. InOrder(walked)'
  BY DEF InOrder
<1>4. \A n \in ready' : Fit(n)'
  OBVIOUS
<1> QED BY <1>2, <1>3, <1>4 DEF Iterating

(* What fails leaves nothing to be shown.                                  *)
LEMMA StopKeeps ==
  ASSUME GoGitInv, Stop
  PROVE  GoGitInv'
<1>1. /\ walker' = "returned" /\ walkErr' = TRUE /\ UNCHANGED historyVars /\ nextRef' = nextRef
      /\ peeling' = peeling /\ roots' = roots /\ ready' = ready /\ cached' = cached
  BY DEF Stop, rootVars, iterVars
<1>2. HistoryState' /\ repo' = repo
  BY <1>1, HistoryKept DEF GoGitInv, WalkState
<1>3. RootsState'
  BY <1>1, <1>2 DEF GoGitInv, WalkState, RootsState
<1>4. WalkState'
  BY <1>1, <1>2, <1>3 DEF GoGitInv, WalkState, NodeType
<1> QED BY <1>1, <1>4 DEF GoGitInv

(* The invariant of the gogit backend survives the steps of historyRoots,  *)
LEMMA RootsStepKeeps ==
  ASSUME GoGitInv, ReadHead \/ NextRef \/ Peel
  PROVE  GoGitInv'
<1>1. /\ WalkState /\ HistoryState /\ RootsState /\ repo \in Repos /\ walkErr = FALSE /\ RootsFound
      /\ walker \in {"head", "refs", "peel"} /\ walked = <<>> /\ passed = <<>> /\ cached = {}
  BY DEF GoGitInv, WalkState, HistoryState, ReadHead, NextRef, Peel
<1>2. RootsState' /\ RootsFound' /\ UNCHANGED historyVars
  BY <1>1, HeadFollowed, RefFollowed, ObjectPeeled
<1>3. /\ ready' = ready /\ cached' = cached /\ walkErr' = walkErr
      /\ walker' \in {"refs", "peel"}
  BY <1>1 DEF ReadHead, NextRef, Peel, iterVars
<1>4. HistoryState' /\ walked' = walked /\ passed' = passed
  BY <1>1, <1>2, HistoryKept
<1>5. WalkState'
  BY <1>1, <1>2, <1>3, <1>4 DEF WalkState, NodeType
<1> QED BY <1>1, <1>2, <1>3, <1>4, <1>5 DEF GoGitInv

(* the making of the nodes,                                                *)
LEMMA NodesMade ==
  ASSUME GoGitInv, MakeNodes
  PROVE  GoGitInv'
<1>1. /\ WalkState /\ HistoryState /\ RootsState /\ repo \in Repos /\ walkErr = FALSE /\ RootsFound
      /\ walker = "refs" /\ walked = <<>> /\ passed = <<>> /\ cached = {} /\ nextRef > Len(repo.refs)
      /\ roots \in Seq(Commits)
  BY DEF GoGitInv, WalkState, HistoryState, RootsState, MakeNodes
<1>2. /\ UNCHANGED historyVars /\ nextRef' = nextRef /\ peeling' = peeling /\ roots' = roots
      /\ node' = node /\ cached' = cached /\ walkErr' = walkErr
      /\ walker' = IF roots = <<>> THEN "returned" ELSE "iter"
  BY DEF MakeNodes, rootVars
<1>3. PICK R : R = {Get(c) : c \in {c \in ToSet(roots) : ChildrenMet(c) = {}}}
  OBVIOUS
<1>4. ready' = R
  BY <1>3 DEF MakeNodes
<1>5. Frontier({}, R) /\ \A n \in R : Fit(n)
  <2>1. ToSet(roots) = Roots
    BY <1>1, AllRootsFound
  <2> QED BY <2>1, <1>1, <1>3, FrontierBegins
<1>6. HistoryState' /\ repo' = repo /\ walked' = walked /\ passed' = passed
  BY <1>1, <1>2, HistoryKept
<1>7. RootsState'
  BY <1>1, <1>2, <1>6 DEF RootsState
<1>8. WalkState'
  <2>1. \A n \in R : n \in NodeType
    BY <1>5 DEF Fit
  <2> QED BY <2>1, <1>1, <1>2, <1>4, <1>6, <1>7 DEF WalkState, NodeType
<1>9. RootsFound'
  <2>1. \A o : Leads(o)' = Leads(o)
    BY <1>6, LeadsKept
  <2>2. Begun' = Begun
    <3>1. RefsBegun(nextRef)' = RefsBegun(nextRef)
      BY <1>2, <1>6 DEF RefsBegun
    <3> QED BY <3>1, <1>1, <1>2, <1>6 DEF Begun
  <2>3. \A x : Finding(x)' <=> Finding(x)
    <3>1. ToSet(roots)' = ToSet(roots)
      BY <1>2 DEF ToSet
    <3> QED BY <3>1, <1>1, <1>2 DEF Finding
  <2> QED BY <2>1, <2>2, <2>3, <1>1 DEF RootsFound
<1>10. walked' = <<>> /\ ToSet(<<>>) = {} /\ Len(<<>>) = 0
  BY <1>1, <1>6 DEF ToSet
<1>11. Iterating'
  <2>1. \A n \in R : Fit(n)'
    BY <1>2, <1>5, <1>6, FitKept
  <2>2. Frontier({}, R)'
    BY <1>2, <1>5, <1>6, FrontierKept
  <2>3. InOrder(<<>>)'
    BY <1>10 DEF InOrder
  <2> QED BY <2>1, <2>2, <2>3, <1>4, <1>10, IteratingThen
<1>12. AllVisited'
  <2>1. Chs(<<>>)' = Chs(<<>>)
    BY <1>2, ChsKept DEF historyVars, fixedVars
  <2>2. Chs(<<>>) = <<>>
    <3>1. <<>> \in Seq(Commits)
      OBVIOUS
    <3>2. Chs(<<>>) \in Seq(Seq(ChangeType)) /\ Len(Chs(<<>>)) = Len(<<>>)
      BY <3>1, <1>1, ChsFacts
    <3> QED BY <3>2, <1>10
  <2>3. FlattenSeq(<<>>) = <<>>
    BY DEF FlattenSeq
  <2>4. Chs(walked)' = <<>>
    BY <2>1, <2>2, <1>10 DEF Chs, ChangesOf, ParentsOf, LeftOut, Diff, Base
  <2> QED BY <2>3, <2>4, <1>1, <1>2, <1>6 DEF AllVisited
<1>13. walker' = "returned" => ready' = {}
  <2>1. ToSet(<<>>) = {}
    BY DEF ToSet
  <2> QED BY <2>1, <1>2, <1>3, <1>4
<1> QED BY <1>1, <1>2, <1>8, <1>9, <1>11, <1>12, <1>13 DEF GoGitInv

(* Whatever the shallow boundary is, the types are right.                  *)
LEMMA NodeParentsType ==
  ASSUME repo \in Repos, NEW n \in NodeType
  PROVE  /\ NodeParents(n) \in Seq(Commits) /\ ToSet(NodeParents(n)) \subseteq Commits
         /\ n.commit \in Commits
<1>1. n.commit \in Commits
  BY DEF NodeType
<1>2. repo.parents[n.commit] \in Seq(Commits) /\ <<>> \in Seq(Commits)
  BY <1>1, RepoFacts
<1>3. NodeParents(n) \in Seq(Commits)
  BY <1>2 DEF NodeParents
<1> QED BY <1>1, <1>3 DEF ToSet

(* (the roots found are not touched by the iteration)                      *)
LEMMA RootsFoundKept ==
  ASSUME RootsFound, walker \in {"iter", "visit"}, walker' \in {"iter", "visit", "returned"},
         repo' = repo, roots' = roots, nextRef' = nextRef
  PROVE  RootsFound'
<1>1. \A o : Leads(o)' = Leads(o)
  BY LeadsKept
<1>2. RefsBegun(nextRef)' = RefsBegun(nextRef)
  BY DEF RefsBegun
<1>3. Begun' = Begun
  BY <1>2 DEF Begun
<1>4. ToSet(roots)' = ToSet(roots)
  BY DEF ToSet
<1>5. \A x : Finding(x)' <=> Finding(x)
  BY <1>4 DEF Finding
<1> QED BY <1>1, <1>3, <1>5 DEF RootsFound

(* a node yielded by the iterator,                                         *)
LEMMA YieldKeeps ==
  ASSUME GoGitInv, NEW n \in ready, Yield(n)
  PROVE  GoGitInv'
<1>1. /\ WalkState /\ HistoryState /\ RootsState /\ repo \in Repos /\ walkErr = FALSE /\ RootsFound
      /\ walker = "iter" /\ roots \in Seq(Commits) /\ n \in NodeType /\ walked \in Seq(Commits)
      /\ nextRef > Len(repo.refs)
  BY DEF GoGitInv, WalkState, HistoryState, RootsState, Yield
<1>2. PICK s \in Seq(Commits) : s = walked
  BY <1>1
<1>3. PICK R : R = ready
  OBVIOUS
<1>4. PICK c \in Commits : c = n.commit
  BY <1>1, NodeParentsType
<1>5. /\ walked' = Append(s, c) /\ node' = n /\ walker' = "visit"
      /\ ready' = ReadyAfter(ToSet(s), R, n)
      /\ ToSet(NodeParents(n)) \cap repo.missing = {}
      /\ repo' = repo /\ merges' = merges /\ passed' = passed /\ legal' = legal
      /\ nextRef' = nextRef /\ peeling' = peeling /\ roots' = roots /\ cached' = cached
      /\ walkErr' = walkErr
  BY <1>2, <1>3, <1>4 DEF Yield, ReadyAfter, fixedVars, visitVars, rootVars
<1>6. PICK t : t = Append(s, c)
  OBVIOUS
<1>7. t \in Seq(Commits) /\ Len(t) = Len(s) + 1 /\ Upto(Chs(t), Len(s)) = FlattenSeq(Chs(s))
      /\ t[Len(t)] = c /\ Len(s) \in Nat
  <2>1. t \in Seq(Commits) /\ Len(t) = Len(s) + 1 /\ Upto(Chs(t), Len(s)) = FlattenSeq(Chs(s))
    BY <1>1, <1>6, ChsLonger
  <2>2. Len(s) \in Nat /\ t[Len(s) + 1] = c
    BY <1>6
  <2> QED BY <2>1, <2>2
<1>8. HistoryState'
  BY <1>1, <1>5, <1>6, <1>7 DEF HistoryState, Recorded
<1>9. RootsState'
  BY <1>1, <1>5 DEF RootsState
<1>10. \A x \in ReadyAfter(ToSet(s), R, n) :
         x \in R \/ \E p \in ToSet(NodeParents(n)) \cap Met : x = Node(p, FALSE)
  BY DEF ReadyAfter
<1>11. \A p \in Commits : Node(p, FALSE) \in NodeType /\ ~Node(p, FALSE).wrapped
  BY DEF Node, NodeType
<1>12. \A x \in ReadyAfter(ToSet(s), R, n) : x \in NodeType /\ (x \in R \/ ~x.wrapped)
  <2>1. \A p \in ToSet(NodeParents(n)) : p \in Commits
    BY <1>1, NodeParentsType
  <2>2. R \subseteq NodeType
    BY <1>1, <1>3 DEF WalkState
  <2> QED BY <2>1, <2>2, <1>10, <1>11
<1>13. WalkState'
  BY <1>1, <1>5, <1>8, <1>9, <1>12 DEF WalkState, NodeType
<1>14. RootsFound'
  BY <1>1, <1>5, RootsFoundKept
<1>15. ASSUME CutOff
       PROVE  Iterating' /\ \E k \in Nat : OneToVisit(k)'
  <2>1. /\ Iterating /\ AllVisited
        /\ Frontier(ToSet(s), R) /\ InOrder(s) /\ \A x \in R : Fit(x)
    BY <1>1, <1>2, <1>3, <1>15 DEF GoGitInv, Iterating
  <2>2. Fit(n)
    BY <2>1, <1>3
  <2>3. PICK Q : Q = ReadyAfter(ToSet(s), R, n)
    OBVIOUS
  <2>4. Frontier(ToSet(s) \cup {c}, Q)
    BY <1>1, <1>3, <1>4, <1>5, <1>15, <2>1, <2>2, <2>3, FrontierMoves
  <2>5. c \in Met /\ c \notin ToSet(s) /\ ChildrenMet(c) \subseteq ToSet(s)
    BY <2>1, <1>3, <1>4 DEF Frontier
  <2>6. InOrder(t) /\ ToSet(t) = ToSet(s) \cup {c}
    <3>1. \A d \in ToSet(s) : ChildrenMet(d) \subseteq ToSet(s)
      BY <2>1 DEF Frontier
    <3> QED BY <3>1, <2>1, <2>5, <1>6, InOrderLonger
  <2>7. \A x \in Q : Fit(x)
    <3>1. NodeParents(n) = ParentsOf(c)
      BY <1>1, <1>4, <1>5, <1>15, <2>2, NodeIsRight
    <3>2. c \in Reachable
      BY <2>2, <1>4 DEF Fit
    <3>3. \A p \in ToSet(NodeParents(n)) : p \in Reachable /\ Led(p) /\ p \in Commits
      BY <1>1, <3>1, <3>2, ReachableFacts DEF Led
    <3>4. \A p \in ToSet(NodeParents(n)) : Fit(Node(p, FALSE))
      <4>1. \A p : Node(p, FALSE).commit = p
        BY DEF Node
      <4> QED BY <3>3, <4>1, <1>11 DEF Fit
    <3> QED BY <3>4, <1>10, <2>1, <2>3
  <2>8. Iterating'
    <3>1. \A x \in Q : Fit(x)'
      BY <1>5, <2>7, FitKept
    <3>2. Frontier(ToSet(t), Q)
      BY <2>4, <2>6
    <3>3. Frontier(ToSet(t), Q)'
      BY <1>5, <3>2, FrontierKept
    <3>4. InOrder(t)'
      BY <1>5, <2>6, InOrderKept
    <3>5. PICK V : V = ToSet(t)
      OBVIOUS
    <3>6. Frontier(V, Q)'
      BY <3>3, <3>5 DEF Frontier
    <3>7. walked' = t /\ ready' = Q
      BY <1>5, <1>6, <2>3
    <3> QED BY ONLY <3>1, <3>4, <3>5, <3>6, <3>7, IteratingThen
  <2>9. PICK k \in Nat : k = Len(t) /\ k > 0 /\ k - 1 = Len(s)
    BY <1>7
  <2>10. Chs(t)' = Chs(t)
    BY <1>5, ChsKept
  <2>11. passed = FlattenSeq(Chs(s)) /\ cached \subseteq Met \ ToSet(s)
    BY <1>2, <2>1 DEF AllVisited
  <2>12. walked' = t /\ t[k] = c
    BY <1>5, <1>6, <1>7, <2>9
  <2>13. node'.commit = walked'[k] /\ NodeParents(node)' = ParentsOf(walked[k])'
    <3>1. NodeParents(n) = ParentsOf(c)
      BY <1>1, <1>4, <1>5, <1>15, <2>2, NodeIsRight
    <3>2. NodeParents(node)' = NodeParents(n)
      BY <1>5 DEF NodeParents
    <3>3. ParentsOf(walked[k])' = ParentsOf(c)
      BY <1>5, <2>12 DEF ParentsOf
    <3> QED BY <3>1, <3>2, <3>3, <1>4, <1>5, <2>12
  <2>14. passed' = Upto(Chs(walked), k - 1)'
    <3>1. Upto(Chs(t), k - 1) = FlattenSeq(Chs(s))
      BY <1>7, <2>9
    <3>2. Chs(walked)' = Chs(t)
      <4>1. Chs(walked)' = Chs(t)'
        BY <2>12 DEF Chs, ChangesOf, ParentsOf, LeftOut
      <4> QED BY <4>1, <2>10
    <3>3. Upto(Chs(walked), k - 1)' = Upto(Chs(t), k - 1)
      BY <3>2 DEF Upto
    <3> QED BY <3>1, <3>3, <2>11, <1>5
  <2>15. cached' \subseteq (Met' \ ToSet(walked)') \cup {walked'[k]}
    <3>1. Met' = Met
      BY <1>5, MetKept
    <3>2. ToSet(walked)' = ToSet(s) \cup {c}
      <4>1. ToSet(walked)' = ToSet(t)
        BY <2>12 DEF ToSet
      <4> QED BY <4>1, <2>6
    <3> QED BY <3>1, <3>2, <2>11, <2>12, <1>5
  <2>16. OneToVisit(k)'
    BY <2>9, <2>12, <2>13, <2>14, <2>15 DEF OneToVisit
  <2> QED BY <2>8, <2>16
<1>16. CutOff' <=> CutOff
  BY <1>5, CutOffKept
<1> QED BY <1>1, <1>5, <1>13, <1>14, <1>15, <1>16 DEF GoGitInv

(* the diff of its commit, which is passed to visit as git shows it,       *)
LEMMA VisitKeeps ==
  ASSUME GoGitInv, VisitNode
  PROVE  GoGitInv'
<1>1. /\ WalkState /\ HistoryState /\ RootsState /\ repo \in Repos /\ walkErr = FALSE /\ RootsFound
      /\ walker = "visit" /\ roots \in Seq(Commits) /\ node \in NodeType /\ walked \in Seq(Commits)
      /\ nextRef > Len(repo.refs) /\ passed \in Seq(ChangeType) /\ Recorded
  BY DEF GoGitInv, WalkState, HistoryState, RootsState, VisitNode
<1>2. PICK c \in Commits : c = node.commit
  BY <1>1, NodeParentsType
<1>3. PICK pp \in Seq(Commits) : pp = NodeParents(node)
  BY <1>1, NodeParentsType
<1>4. PICK m \in BOOLEAN : m = (Len(pp) > 1)
  <2>1. (Len(pp) > 1) \in BOOLEAN
    OBVIOUS
  <2> QED BY <2>1, Zenon
<1>5. PICK cs : cs = IF LeftOut(pp) THEN <<>> ELSE Diff(c, Base(pp), Len(pp) > 1)
  OBVIOUS
<1>6. PICK B : B = {pp[i] : i \in DOMAIN pp \cap {1}}
  OBVIOUS
<1>7. /\ Visit(cs) /\ node' = NoNode /\ walker' = "iter"
      /\ cached' = (cached \cup IF LeftOut(pp) THEN {} ELSE B) \ {c}
      /\ repo' = repo /\ merges' = merges /\ walked' = walked
      /\ nextRef' = nextRef /\ peeling' = peeling /\ roots' = roots /\ ready' = ready
      /\ walkErr' = walkErr
  BY <1>2, <1>3, <1>5, <1>6 DEF VisitNode, fixedVars, rootVars
<1>8. cs \in Seq(ChangeType)
  <2>1. Base(pp) \in TreeType
    BY <1>1, BaseType
  <2>2. Diff(c, Base(pp), m) \in Seq(ChangeType)
    BY <1>1, <2>1, DiffFacts
  <2>3. <<>> \in Seq(ChangeType)
    OBVIOUS
  <2> QED BY <2>2, <2>3, <1>4, <1>5
<1>9. passed' = passed \o cs /\ passed' \in Seq(ChangeType) /\ Recorded'
  BY <1>1, <1>7, <1>8, ChangesVisited
<1>10. HistoryState'
  BY <1>1, <1>7, <1>9 DEF HistoryState
<1>11. RootsState'
  BY <1>1, <1>7 DEF RootsState
<1>12. B \subseteq ToSet(pp) /\ ToSet(pp) \subseteq Commits
  BY <1>6 DEF ToSet
<1>13. WalkState'
  BY <1>1, <1>7, <1>10, <1>11, <1>12 DEF WalkState, NodeType
<1>14. RootsFound'
  BY <1>1, <1>7, RootsFoundKept
<1>15. ASSUME CutOff
       PROVE  Iterating' /\ AllVisited'
  <2>1. Iterating /\ \E k \in Nat : OneToVisit(k)
    BY <1>1, <1>15 DEF GoGitInv
  <2>2. PICK k \in Nat : OneToVisit(k)
    BY <2>1
  <2>3. PICK s \in Seq(Commits) : s = walked
    BY <1>1
  <2>4. PICK R : R = ready
    OBVIOUS
  <2>5. Frontier(ToSet(s), R) /\ InOrder(s) /\ \A x \in R : Fit(x)
    BY <2>1, <2>3, <2>4 DEF Iterating
  <2>6. Iterating'
    <3>1. \A x \in R : Fit(x)'
      BY <1>7, <2>5, FitKept
    <3>2. Frontier(ToSet(s), R)'
      BY <1>7, <2>5, FrontierKept
    <3>3. InOrder(s)'
      BY <1>7, <2>5, InOrderKept
    <3>4. PICK V : V = ToSet(s)
      OBVIOUS
    <3>5. Frontier(V, R)'
      BY <3>2, <3>4 DEF Frontier
    <3>6. walked' = s /\ ready' = R
      BY <1>7, <2>3, <2>4
    <3> QED BY ONLY <3>1, <3>3, <3>4, <3>5, <3>6, IteratingThen
  <2>7. /\ k = Len(s) /\ k > 0 /\ c = s[k] /\ pp = ParentsOf(c)
        /\ passed = Upto(Chs(s), k - 1) /\ cached \subseteq (Met \ ToSet(s)) \cup {c}
    BY <2>2, <2>3, <1>2, <1>3 DEF OneToVisit
  <2>8. cs = ChangesOf(c)
    BY <2>7, <1>5 DEF ChangesOf
  <2>9. PICK v : v = Chs(s)
    OBVIOUS
  <2>10. v \in Seq(Seq(ChangeType)) /\ Len(v) = k /\ k \in 1..k /\ v[k] = cs
    BY <1>1, <2>7, <2>8, <2>9, ChsFacts
  <2>11. passed' = FlattenSeq(v)
    <3>1. Upto(v, k) = Upto(v, k - 1) \o v[k]
      BY <2>10, UptoFacts
    <3>2. Upto(v, Len(v)) = FlattenSeq(v)
      BY <2>10, UptoFacts
    <3> QED BY <3>1, <3>2, <2>7, <2>9, <2>10, <1>9
  <2>12. Chs(walked)' = v
    <3>1. Chs(s)' = Chs(s)
      BY <1>7, ChsKept
    <3>2. Chs(walked)' = Chs(s)'
      BY <1>7, <2>3 DEF Chs, ChangesOf, ParentsOf, LeftOut
    <3> QED BY <3>1, <3>2, <2>9
  <2>13. ToSet(pp) \cap ToSet(s) = {} /\ ToSet(pp) \subseteq Met /\ c \in ToSet(s)
    <3>1. DOMAIN s = 1..k /\ k \in 1..k
      BY <2>7
    <3>2. c \in ToSet(s)
      BY <3>1, <2>7 DEF ToSet
    <3>3. ParentsMet(c) = ToSet(pp) /\ c \in Met
      BY <3>2, <2>5, <2>7 DEF Frontier
    <3>4. \A j \in 1..k : s[j] \notin ToSet(pp)
      <4> SUFFICES ASSUME NEW j \in 1..k, s[j] \in ToSet(pp) PROVE FALSE
        OBVIOUS
      <4>1. s[j] \in ParentsMet(s[k])
        BY <3>3, <2>7
      <4>2. k < j
        BY <4>1, <3>1, <2>5, <2>7 DEF InOrder
      <4> QED BY <4>2
    <3>5. \A p \in ParentsMet(c) : p \in Met
      BY <3>3, <1>1, MetFacts DEF MetClosed
    <3> QED BY <3>1, <3>2, <3>3, <3>4, <3>5 DEF ToSet
  <2>14. cached' \subseteq Met \ ToSet(s)
    BY <2>7, <2>13, <1>7, <1>12
  <2>15. Met' = Met /\ ToSet(walked)' = ToSet(s)
    <3>1. Met' = Met
      BY <1>7, MetKept
    <3> QED BY <3>1, <1>7, <2>3 DEF ToSet
  <2>16. AllVisited'
    BY <2>11, <2>12, <2>14, <2>15 DEF AllVisited
  <2> QED BY <2>6, <2>16
<1>16. CutOff' <=> CutOff
  BY <1>7, CutOffKept
<1> QED BY <1>1, <1>7, <1>13, <1>14, <1>15, <1>16 DEF GoGitInv

(* and the end of the iterator;                                            *)
LEMMA IterEnds ==
  ASSUME GoGitInv, IterEnd
  PROVE  GoGitInv'
<1>1. /\ WalkState /\ HistoryState /\ RootsState /\ repo \in Repos /\ walkErr = FALSE /\ RootsFound
      /\ walker = "iter" /\ ready = {} /\ roots \in Seq(Commits) /\ nextRef > Len(repo.refs)
  BY DEF GoGitInv, WalkState, HistoryState, RootsState, IterEnd
<1>2. /\ walker' = "returned" /\ UNCHANGED historyVars /\ nextRef' = nextRef
      /\ peeling' = peeling /\ roots' = roots /\ ready' = ready /\ cached' = cached
      /\ walkErr' = walkErr
  BY DEF IterEnd, rootVars, iterVars
<1>3. /\ HistoryState' /\ repo' = repo /\ merges' = merges /\ walked' = walked
      /\ passed' = passed
  BY <1>1, <1>2, HistoryKept
<1>4. RootsState'
  BY <1>1, <1>2, <1>3 DEF RootsState
<1>5. WalkState'
  BY <1>1, <1>2, <1>3, <1>4 DEF WalkState, NodeType
<1>6. RootsFound'
  BY <1>1, <1>2, <1>3, RootsFoundKept
<1>7. ASSUME CutOff
      PROVE  Iterating' /\ AllVisited'
  <2>1. Iterating /\ AllVisited
    BY <1>1, <1>7 DEF GoGitInv
  <2>2. PICK s, R, V : s = walked /\ R = ready /\ V = ToSet(s)
    OBVIOUS
  <2>3. Frontier(V, R) /\ InOrder(s) /\ \A x \in R : Fit(x)
    BY <2>1, <2>2 DEF Iterating
  <2>4. Frontier(V, R)' /\ InOrder(s)' /\ \A x \in R : Fit(x)'
    BY <1>2, <1>3, <2>3, FitKept, FrontierKept, InOrderKept
  <2>5. walked' = s /\ ready' = R
    BY <1>2, <1>3, <2>2
  <2>6. Iterating'
    BY ONLY <2>2, <2>4, <2>5, IteratingThen
  <2>7. Chs(walked)' = Chs(walked)
    <3>1. Chs(s)' = Chs(s)
      BY <1>3, ChsKept
    <3>2. Chs(walked)' = Chs(s)'
      BY <2>5 DEF Chs, ChangesOf, ParentsOf, LeftOut
    <3> QED BY <3>1, <3>2, <2>2
  <2>8. Met' = Met /\ ToSet(walked)' = ToSet(walked)
    <3>1. Met' = Met
      BY <1>2, <1>3, MetKept
    <3> QED BY <3>1, <1>3 DEF ToSet
  <2>9. AllVisited'
    BY <2>1, <2>7, <2>8, <1>2, <1>3 DEF AllVisited
  <2> QED BY <2>6, <2>9
<1>8. CutOff' <=> CutOff
  BY <1>3, CutOffKept
<1> QED BY <1>1, <1>2, <1>5, <1>6, <1>7, <1>8 DEF GoGitInv

(* so it survives every step, the failing ones included.                   *)
LEMMA GoGitStepKeeps ==
  ASSUME GoGitInv, CommitWalkStep \/ CommitWalkFault
  PROVE  GoGitInv'
<1>1. \/ ReadHead \/ NextRef \/ Peel \/ MakeNodes \/ IterEnd \/ VisitNode \/ Stop
      \/ \E n \in ready : Yield(n)
  BY DEF CommitWalkStep, CommitWalkFault, RefuseReplace, IterMissing, RootsFail, IterFails, VisitFails
<1> QED BY <1>1, RootsStepKeeps, NodesMade, IterEnds, VisitKeeps, StopKeeps, YieldKeeps

(* A sequence that names the elements of a set once each is one of those   *)
(* that SetToSeqs gives.                                                   *)
LEMMA SeqOfSet ==
  ASSUME NEW S, NEW T, T \in SUBSET S, IsFiniteSet(S), NEW s \in Seq(S), ToSet(s) = T,
         \A i, j \in 1..Len(s) : s[i] = s[j] => i = j
  PROVE  s \in SetToSeqs(T)
<1>1. PICK n \in Nat : n = Len(s) /\ DOMAIN s = 1..n
  OBVIOUS
<1>2. \A i \in 1..n : s[i] \in T
  BY <1>1 DEF ToSet
<1>3. s \in [1..n -> T]
  BY <1>1, <1>2
<1>4. \A t \in T : \E i \in 1..n : s[i] = t
  BY <1>1 DEF ToSet
<1>5. s \in Bijection(1..n, T)
  BY <1>1, <1>3, <1>4 DEF Bijection, Injection, Surjection, IsInjective
<1>6. IsFiniteSet(1..n) /\ Cardinality(1..n) = n
  <2>1. 1 \in Int /\ n \in Int
    OBVIOUS
  <2>2. IsFiniteSet(1..n) /\ Cardinality(1..n) = IF 1 > n THEN 0 ELSE n - 1 + 1
    BY <2>1, FS_Interval
  <2> QED BY <2>2
<1>7. Cardinality(T) = n
  <2>1. Cardinality(T) = Cardinality(1..n)
    BY <1>5, <1>6, FS_Bijection DEF ExistsBijection
  <2> QED BY <2>1, <1>6
<1>8. \A i, j \in 1..n : i # j => s[i] # s[j]
  BY <1>1
<1> QED BY <1>3, <1>7, <1>8 DEF SetToSeqs

-----------------------------------------------------------------------------
(* What the walk has done when it ends.                                    *)

(* The history, in order, and its changes.                                 *)
WalkComplete == walked \in Orders /\ passed = FlattenSeq(Chs(walked)) /\ cached = {}

(* A gogit walk that succeeds has told the whole history, if the shallow   *)
(* boundary is cut off.                                                    *)
LEMMA GoGitWhole ==
  ASSUME GoGitInv, CutOff, walker = "returned", ~walkErr
  PROVE  WalkComplete
<1>1. /\ HistoryState /\ RootsState /\ RootsFound /\ repo \in Repos /\ roots \in Seq(Commits)
      /\ walked \in Seq(Commits) /\ Iterating /\ AllVisited /\ ready = {}
      /\ nextRef > Len(repo.refs)
  BY DEF GoGitInv, WalkState, HistoryState, RootsState
<1>2. PICK W : W = ToSet(walked)
  OBVIOUS
<1>3. Frontier(W, {}) /\ InOrder(walked)
  BY <1>1, <1>2 DEF Iterating
<1>4. W = Met
  BY <1>1, <1>3, FrontierEnds
<1>5. \A c \in Met : ParentsMet(c) = ToSet(ParentsOf(c))
  BY <1>3, <1>4 DEF Frontier
<1>6. ToSet(roots) = Roots
  BY <1>1, AllRootsFound
<1>7. Met = Reachable
  BY <1>1, <1>5, <1>6, MetIsReachable
<1>8. Reachable \in SUBSET Commits
  BY ReachableIs
<1>9. walked \in SetToSeqs(Reachable)
  <2>1. ToSet(walked) = Reachable /\ IsFiniteSet(Commits)
    BY <1>2, <1>4, <1>7, HistoryAssumption
  <2>2. \A i, j \in 1..Len(walked) : walked[i] = walked[j] => i = j
    BY <1>3 DEF InOrder
  <2> QED BY <1>1, <1>8, <2>1, <2>2, SeqOfSet
<1>10. Ranked(walked)
  <2>1. DOMAIN walked = 1..Len(walked)
    BY <1>1
  <2>2. \A i \in 1..Len(walked) : ParentsMet(walked[i]) = ToSet(ParentsOf(walked[i]))
    BY <2>1, <1>2, <1>4, <1>5 DEF ToSet
  <2> QED BY <2>1, <2>2, <1>3 DEF InOrder, Ranked
<1>11. walked \in Orders
  BY <1>9, <1>10 DEF Orders, Ranked
<1>12. cached = {} /\ passed = FlattenSeq(Chs(walked))
  BY <1>1, <1>2, <1>4 DEF AllVisited
<1> QED BY <1>11, <1>12 DEF WalkComplete

(* A git walk that succeeds has told the whole history.                    *)
LEMMA GitWhole ==
  ASSUME GitInv, parser = "returned", ~readErr, cached = {}
  PROVE  WalkComplete
<1>1. PICK s, v : Told(s, v)
  BY DEF GitInv
<1>2. s \in Orders /\ v = [k \in DOMAIN s |-> ChangesOf(s[k])] /\ walked = s /\ passed = FlattenSeq(v)
  BY <1>1 DEF Told, Plan
<1>3. v = Chs(walked)
  BY <1>2 DEF Chs
<1> QED BY <1>2, <1>3 DEF WalkComplete

-----------------------------------------------------------------------------
(* The blobs that are recorded on the way.                                 *)

(* An order of the history has every commit of it.                         *)
LEMMA OrderCovers ==
  ASSUME NEW s \in Orders
  PROVE  \A c \in Reachable : \E k \in 1..Len(s) : s[k] = c
<1>1. Len(s) = Cardinality(Reachable) /\ Len(s) \in Nat
  BY OrderType
<1>2. PICK n \in Nat : n = Len(s) /\ n = Cardinality(Reachable)
  BY <1>1
<1>3. s \in [1..n -> Reachable] /\ \A i, j \in 1..n : i # j => s[i] # s[j]
  BY <1>2 DEF Orders, SetToSeqs
<1>4. s \in Injection(1..n, Reachable)
  BY <1>3 DEF Injection, IsInjective
<1>5. IsFiniteSet(Reachable)
  <2>1. Reachable \subseteq Commits
    BY ReachableIs
  <2> QED BY <2>1, HistoryAssumption, FS_Subset
<1>6. Cardinality(1..n) = n
  <2>1. 1 \in Int /\ n \in Int
    OBVIOUS
  <2>2. Cardinality(1..n) = IF 1 > n THEN 0 ELSE n - 1 + 1
    BY <2>1, FS_Interval
  <2> QED BY <2>2
<1>7. s \in Surjection(1..n, Reachable)
  BY <1>2, <1>4, <1>5, <1>6, FS_Injection
<1> QED BY <1>2, <1>7 DEF Surjection

(* Every change passed is one of a commit of the history, and every one of *)
(* them has been passed.                                                   *)
LEMMA PassedFacts ==
  ASSUME repo \in Repos, walked \in Orders, passed = FlattenSeq(Chs(walked))
  PROVE  /\ \A y \in ToSet(passed) : \E c \in Reachable : \E i \in 1..Len(ChangesOf(c)) :
              y = ChangesOf(c)[i]
         /\ \A c \in Reachable : \A i \in 1..Len(ChangesOf(c)) : ChangesOf(c)[i] \in ToSet(passed)
<1>1. PICK s \in Orders : s = walked
  OBVIOUS
<1>2. s \in Seq(Commits) /\ \A k \in 1..Len(s) : s[k] \in Reachable
  BY OrderType
<1>3. \A c \in Reachable : \E k \in 1..Len(s) : s[k] = c
  BY OrderCovers
<1>4. PICK v : v = Chs(s)
  OBVIOUS
<1>5. v \in Seq(Seq(ChangeType)) /\ Len(v) = Len(s) /\ Len(s) \in Nat
      /\ \A k \in 1..Len(s) : v[k] = ChangesOf(s[k])
  BY <1>2, <1>4, ChsFacts
<1>6. PICK u : u = FlattenSeq(v)
  OBVIOUS
<1>7. u = passed
  BY <1>1, <1>4, <1>6
<1>8. u = Upto(v, Len(v)) /\ u \in Seq(ChangeType)
  <2>1. Len(v) \in 0..Len(v)
    BY <1>5
  <2> QED BY <2>1, <1>5, <1>6, UptoFacts
<1>9. DOMAIN u = 1..Len(u)
  BY <1>8
<1>10. \A q \in 1..Len(u) : OneOf(v, Len(v), u[q])
  <2>1. Len(v) \in 0..Len(v)
    BY <1>5
  <2>2. \A q \in 1..Len(Upto(v, Len(v))) : OneOf(v, Len(v), Upto(v, Len(v))[q])
    BY <2>1, <1>5, UptoFrom
  <2> QED BY <2>2, <1>8
<1>11. ASSUME NEW y \in ToSet(passed)
       PROVE  \E c \in Reachable : \E i \in 1..Len(ChangesOf(c)) : y = ChangesOf(c)[i]
  <2>1. PICK q \in 1..Len(u) : y = u[q]
    BY <1>7, <1>9 DEF ToSet
  <2>2. PICK k \in 1..Len(v) : \E i \in 1..Len(v[k]) : y = v[k][i]
    BY <2>1, <1>10 DEF OneOf
  <2>3. s[k] \in Reachable /\ v[k] = ChangesOf(s[k])
    BY <1>2, <1>5
  <2> QED BY <2>2, <2>3
<1>12. ASSUME NEW c \in Reachable, NEW i \in 1..Len(ChangesOf(c))
       PROVE  ChangesOf(c)[i] \in ToSet(passed)
  <2>1. PICK k \in 1..Len(s) : s[k] = c
    BY <1>3
  <2>2. k \in 1..Len(v) /\ v[k] = ChangesOf(c)
    BY <2>1, <1>5
  <2>3. \A j \in 1..Len(v[k]) : /\ Len(Upto(v, k - 1)) + j \in 1..Len(FlattenSeq(v))
                                /\ FlattenSeq(v)[Len(Upto(v, k - 1)) + j] = v[k][j]
    BY <2>2, <1>5, UptoAt
  <2>4. \E q \in 1..Len(u) : u[q] = ChangesOf(c)[i]
    BY <2>2, <2>3, <1>6
  <2> QED BY <2>4, <1>7, <1>9 DEF ToSet
<1> QED BY <1>11, <1>12

(* With the diffs of merges taken, the legal blobs are those of the trees. *)
LEMMA LegalIsInTrees ==
  ASSUME repo \in Repos, merges, walked \in Orders, passed = FlattenSeq(Chs(walked)), Recorded
  PROVE  legal = LegalFiles
<1>1. \A c \in Reachable : c \in Commits /\ ToSet(ParentsOf(c)) \subseteq Reachable
  BY ReachableFacts
<1>2. \A c \in Reachable : Base(ParentsOf(c)) \in TreeType /\ ParentsOf(c) \in Seq(Commits)
  BY <1>1, BaseType, ParentsType
<1>3. \A c \in Reachable : (Len(ParentsOf(c)) > 1) \in BOOLEAN
  OBVIOUS
<1>4. \A c : ChangesOf(c) = Diff(c, Base(ParentsOf(c)), Len(ParentsOf(c)) > 1)
  BY DEF ChangesOf, LeftOut
<1>5. \A c \in Reachable :
        /\ \A i \in 1..Len(ChangesOf(c)) : \E p \in ToSet(Paths) :
             ChangesOf(c)[i] = ChangeAt(c, Base(ParentsOf(c)), Len(ParentsOf(c)) > 1, p)
        /\ \A p \in ToSet(Paths) : Differs(c, Base(ParentsOf(c)), p) =>
             \E i \in 1..Len(ChangesOf(c)) :
               ChangesOf(c)[i] = ChangeAt(c, Base(ParentsOf(c)), Len(ParentsOf(c)) > 1, p)
  <2> SUFFICES ASSUME NEW c \in Reachable
               PROVE  /\ \A i \in 1..Len(ChangesOf(c)) : \E p \in ToSet(Paths) :
                           ChangesOf(c)[i] = ChangeAt(c, Base(ParentsOf(c)), Len(ParentsOf(c)) > 1, p)
                      /\ \A p \in ToSet(Paths) : Differs(c, Base(ParentsOf(c)), p) =>
                           \E i \in 1..Len(ChangesOf(c)) :
                             ChangesOf(c)[i] = ChangeAt(c, Base(ParentsOf(c)), Len(ParentsOf(c)) > 1, p)
    OBVIOUS
  <2>1. PICK m \in BOOLEAN : m = (Len(ParentsOf(c)) > 1)
    BY <1>3, Zenon
  <2>2. PICK b \in TreeType : b = Base(ParentsOf(c))
    BY <1>2
  <2>3. c \in Commits /\ ChangesOf(c) = Diff(c, b, m)
    BY <1>1, <1>4, <2>1, <2>2
  <2>4. /\ \A i \in 1..Len(Diff(c, b, m)) : \E p \in ToSet(Paths) : Diff(c, b, m)[i] = ChangeAt(c, b, m, p)
        /\ \A p \in ToSet(Paths) : Differs(c, b, p) =>
             \E i \in 1..Len(Diff(c, b, m)) : Diff(c, b, m)[i] = ChangeAt(c, b, m, p)
    BY <2>3, DiffFacts
  <2> QED BY <2>1, <2>2, <2>3, <2>4
<1>6. PICK tree : tree = repo.tree
  OBVIOUS
<1>7. \A c, p : \A b, m : /\ ChangeAt(c, b, m, p).path = p /\ ChangeAt(c, b, m, p).old = b[p]
                          /\ ChangeAt(c, b, m, p).new = tree[c][p]
  BY <1>6 DEF ChangeAt, Change
<1>8. \A p \in ToSet(Paths) : Nothing[p].mode # "file"
  BY DEF Nothing, Absent
<1>9. \A c \in Reachable : Base(ParentsOf(c)) = Nothing \/ \E d \in ToSet(ParentsOf(c)) : Base(ParentsOf(c)) = tree[d]
  <2> SUFFICES ASSUME NEW c \in Reachable, ParentsOf(c) # <<>>
               PROVE  \E d \in ToSet(ParentsOf(c)) : Base(ParentsOf(c)) = tree[d]
    BY DEF Base
  <2>1. 1 \in DOMAIN ParentsOf(c)
    BY <1>2
  <2> QED BY <2>1, <1>6 DEF Base, ToSet
<1>10. \A o : o \in LegalFiles <=> \E c \in Reachable : \E p \in LegalPaths : tree[c][p].mode = "file" /\ o = tree[c][p].object
  <2>1. ASSUME NEW o \in LegalFiles
        PROVE  \E c \in Reachable : \E p \in LegalPaths : tree[c][p].mode = "file" /\ o = tree[c][p].object
    <3>1. PICK x \in Reachable \X LegalPaths :
            tree[x[1]][x[2]].mode = "file" /\ o = tree[x[1]][x[2]].object
      BY <1>6 DEF LegalFiles
    <3> QED BY <3>1
  <2>2. ASSUME NEW o, NEW c \in Reachable, NEW p \in LegalPaths, tree[c][p].mode = "file",
               o = tree[c][p].object
        PROVE  o \in LegalFiles
    <3>1. PICK x \in Reachable \X LegalPaths : x[1] = c /\ x[2] = p
      <4>1. <<c, p>> \in Reachable \X LegalPaths /\ <<c, p>>[1] = c /\ <<c, p>>[2] = p
        OBVIOUS
      <4> QED BY <4>1
    <3> QED BY <3>1, <2>2, <1>6 DEF LegalFiles
  <2> QED BY <2>1, <2>2
<1>11. \A o : o \in legal <=> \E y \in ToSet(passed) : o \in LegalSides(y)
  BY DEF Recorded
<1>12. \A y, o : o \in LegalSides(y) <=>
         /\ y.path \in LegalPaths
         /\ \E s \in {y.old, y.new} : s.mode = "file" /\ o = s.object
  BY DEF LegalSides
<1>13. ASSUME NEW o \in legal PROVE o \in LegalFiles
  <2>1. PICK y \in ToSet(passed) : o \in LegalSides(y)
    BY <1>11
  <2>2. PICK c \in Reachable : \E i \in 1..Len(ChangesOf(c)) : y = ChangesOf(c)[i]
    BY PassedFacts
  <2>3. PICK p \in ToSet(Paths) : y = ChangeAt(c, Base(ParentsOf(c)), Len(ParentsOf(c)) > 1, p)
    BY <2>2, <1>5
  <2>4. p \in LegalPaths /\ y.old = Base(ParentsOf(c))[p] /\ y.new = tree[c][p]
    BY <2>1, <2>3, <1>7, <1>12
  <2>5. PICK s \in {y.old, y.new} : s.mode = "file" /\ o = s.object
    BY <2>1, <1>12
  <2>6. CASE s = y.new
    BY <2>4, <2>5, <2>6, <1>10
  <2>7. CASE s = y.old
    <3>1. Base(ParentsOf(c)) # Nothing
      BY <2>4, <2>5, <2>7, <1>8
    <3>2. PICK d \in ToSet(ParentsOf(c)) : Base(ParentsOf(c)) = tree[d]
      BY <3>1, <1>9
    <3>3. d \in Reachable
      BY <1>1
    <3> QED BY <3>2, <3>3, <2>4, <2>5, <2>7, <1>10
  <2> QED BY <2>6, <2>7
<1>14. ASSUME NEW o \in LegalFiles PROVE o \in legal
  <2>1. PICK e \in Reachable : \E p \in LegalPaths : tree[e][p].mode = "file" /\ o = tree[e][p].object
    BY <1>10
  <2>2. PICK p \in LegalPaths : tree[e][p].mode = "file" /\ o = tree[e][p].object
    BY <2>1
  <2>3. PICK val : val = tree[e][p]
    OBVIOUS
  <2>4. p \in ToSet(Paths)
    BY HistoryAssumption
  <2>5. PICK age \in [Commits -> 1..Cardinality(Commits)] :
          \A c \in Commits : \A d \in ToSet(repo.parents[c]) : age[c] < age[d]
    BY HistoryAssumption
  <2>6. PICK n \in Nat : n = Cardinality(Commits)
    BY HistoryAssumption, FS_CardinalityType
  <2>7. PICK X : X = {c \in Reachable : tree[c][p] = val}
    OBVIOUS
  <2>8. PICK A : A = {n - age[c] : c \in X}
    OBVIOUS
  <2>9. \A c \in X : age[c] \in 1..n /\ n - age[c] \in Nat
    BY <1>1, <2>5, <2>6, <2>7
  <2>10. A \in SUBSET Nat /\ A # {}
    BY <2>1, <2>3, <2>7, <2>8, <2>9
  <2>11. PICK low \in A : \A k \in A : low <= k
    BY <2>10, LeastNumber
  <2>12. PICK c \in X : low = n - age[c]
    BY <2>8, <2>11
  <2>13. c \in Reachable /\ tree[c][p] = val
    BY <2>7
  <2>14. Base(ParentsOf(c))[p] # val
    <3> SUFFICES ASSUME Base(ParentsOf(c))[p] = val PROVE FALSE
      OBVIOUS
    <3>1. Base(ParentsOf(c)) # Nothing
      BY <1>8, <2>2, <2>3, <2>4
    <3>2. PICK d \in ToSet(ParentsOf(c)) : Base(ParentsOf(c)) = tree[d]
      BY <3>1, <2>13, <1>9
    <3>3. d \in X
      BY <3>2, <2>7, <2>13, <1>1
    <3>4. age[c] < age[d]
      <4>1. ParentsOf(c) = <<>> \/ ParentsOf(c) = repo.parents[c]
        BY DEF ParentsOf
      <4>2. d \in ToSet(repo.parents[c])
        BY <4>1 DEF ToSet
      <4> QED BY <4>2, <2>5, <2>13, <1>1
    <3>5. n - age[c] <= n - age[d]
      BY <3>3, <2>8, <2>11, <2>12
    <3> QED BY <3>3, <3>4, <3>5, <2>9
  <2>15. Differs(c, Base(ParentsOf(c)), p)
    BY <2>13, <2>14, <1>6 DEF Differs
  <2>16. PICK i \in 1..Len(ChangesOf(c)) :
           ChangesOf(c)[i] = ChangeAt(c, Base(ParentsOf(c)), Len(ParentsOf(c)) > 1, p)
    BY <2>4, <2>13, <2>15, <1>5
  <2>17. PICK y \in ToSet(passed) : y = ChangeAt(c, Base(ParentsOf(c)), Len(ParentsOf(c)) > 1, p)
    BY <2>13, <2>16, PassedFacts
  <2>18. y.path \in LegalPaths /\ y.new.mode = "file" /\ o = y.new.object
    BY <2>2, <2>3, <2>13, <2>17, <1>7
  <2>19. o \in LegalSides(y)
    BY <2>18, <1>12
  <2> QED BY <2>19, <1>11
<1> QED BY <1>13, <1>14

-----------------------------------------------------------------------------
(* Both backends.                                                          *)

(* The type invariant of the parser,                                       *)
LEMMA GitTypes ==
  ASSUME ParserState
  PROVE  GitLogTypeOK
<1>1. ChildTypeOK(Token) /\ Log \in Children
  BY LogAlone DEF ParserState
<1>2. child[Log] \in {"none", "running", "exited", "died"} /\ Len(pipe[Log]) <= PipeCap
  BY <1>1 DEF ChildTypeOK
<1> QED BY <1>2 DEF ParserState, GitLogTypeOK, CurrentType, Parsing

(* of the history                                                          *)
LEMMA HistoryTypes ==
  ASSUME HistoryState
  PROVE  HistoryTypeOK
<1>1. passed \in Seq(ChangeType) /\ legal = UNION {LegalSides(c) : c \in ToSet(passed)}
  BY DEF HistoryState, Recorded
<1>2. \A c \in ToSet(passed) : c \in ChangeType
  BY <1>1 DEF ToSet
<1>3. legal \subseteq Objects
  BY <1>1, <1>2, LegalSidesType
<1> QED BY <1>3 DEF HistoryState, HistoryTypeOK

(* and of the gogit walk follow from the invariants.                       *)
LEMMA GoGitTypes ==
  ASSUME WalkState
  PROVE  CommitWalkTypeOK
<1>1. None \notin Names /\ Commits \subseteq Names
  BY HistoryAssumption DEF Names
<1>2. walker = "peel" => peeling # None
  BY <1>1 DEF WalkState, RootsState
<1>3. walker = "visit" => node # NoNode
  <2>1. node \in NodeType => node.commit \in Commits
    BY DEF NodeType
  <2>2. NoNode.commit = None
    BY DEF NoNode, Node
  <2> QED BY <1>1, <2>1, <2>2 DEF WalkState
<1> QED BY <1>2, <1>3 DEF WalkState, RootsState, NodeType, CommitWalkTypeOK

(* The backend that is not used rests in its initial state.                *)
WalkInv ==
  /\ backend \in Backends
  /\ backend = "git" => GitInv /\ CommitWalkInit
  /\ backend = "gogit" => GoGitInv /\ GitLogInit

(* The parser starts with an empty pipe and no child.                      *)
LEMMA ParserBegins ==
  ASSUME GitLogInit
  PROVE  ParserState /\ pipe[Log] = <<>> /\ child[Log] = "none"
<1>1. ChildTypeOK(Token) /\ pipe[Log] = <<>> /\ child[Log] = "none"
  <2>1. \A S : <<>> \in Seq(S)
    OBVIOUS
  <2>2. Len(<<>>) = 0 /\ PipeCap \in Nat \ {0}
    BY ChildAssumption
  <2>3. Children = {Log}
    BY GitLogAssumption
  <2> QED BY <2>1, <2>2, <2>3 DEF GitLogInit, ChildInit, ChildTypeOK
<1>2. current \in CurrentType
  <2>1. Absent \in Side
    BY DEF Side
  <2> QED BY <2>1 DEF GitLogInit, NoChange, Change, CurrentType
<1> QED BY <1>1, <1>2 DEF ParserState, GitLogInit

(* The invariant of the git backend holds at the start,                    *)
LEMMA GitBegins ==
  ASSUME HistoryInit, GitLogInit
  PROVE  GitInv
<1>1. /\ repo \in Repos /\ merges \in BOOLEAN /\ walked = <<>> /\ passed = <<>> /\ legal = {}
  BY DEF HistoryInit
<1>2. <<>> \in Seq(Commits) /\ <<>> \in Seq(ChangeType) /\ ToSet(<<>>) = {}
  BY DEF ToSet
<1>3. Recorded
  BY <1>1, <1>2 DEF Recorded
<1>4. HistoryState
  BY <1>1, <1>2, <1>3 DEF HistoryState
<1>5. ParserState /\ pipe[Log] = <<>> /\ child[Log] = "none"
  BY ParserBegins
<1>6. parser = "start" /\ parser \notin Parsing /\ readErr = FALSE
  BY DEF GitLogInit, Parsing
<1> QED BY <1>1, <1>4, <1>5, <1>6 DEF GitInv

(* and so does that of the gogit backend.                                  *)
LEMMA GoGitBegins ==
  ASSUME HistoryInit, CommitWalkInit
  PROVE  GoGitInv
<1>1. /\ repo \in Repos /\ merges \in BOOLEAN /\ walked = <<>> /\ passed = <<>> /\ legal = {}
  BY DEF HistoryInit
<1>2. /\ walker = "head" /\ nextRef = 1 /\ peeling = None /\ roots = <<>> /\ ready = {}
      /\ cached = {} /\ walkErr = FALSE
  BY DEF CommitWalkInit
<1>3. <<>> \in Seq(Commits) /\ <<>> \in Seq(ChangeType) /\ ToSet(<<>>) = {}
  BY DEF ToSet
<1>4. Recorded
  BY <1>1, <1>3 DEF Recorded
<1>5. HistoryState
  BY <1>1, <1>3, <1>4 DEF HistoryState
<1>6. RootsState
  <2>1. Len(repo.refs) \in Nat
    BY <1>1, RepoFacts
  <2>2. 1 \in 1..(Len(repo.refs) + 1)
    BY <2>1
  <2> QED BY <2>2, <1>2, <1>3 DEF RootsState
<1>7. RootsFound
  <2>1. Begun = {}
    BY <1>2 DEF Begun
  <2>2. \A x : ~Finding(x)
    BY <1>2, <1>3 DEF Finding
  <2> QED BY <2>1, <2>2 DEF RootsFound
<1>8. WalkState
  BY <1>2, <1>5, <1>6 DEF WalkState
<1> QED BY <1>1, <1>2, <1>7, <1>8 DEF GoGitInv

(* A step in which the backend does nothing.                               *)
LEMMA GitRests ==
  ASSUME GitInv, UNCHANGED historyVars, UNCHANGED logVars
  PROVE  GitInv'
<1>1. /\ child' = child /\ script' = script /\ pipe' = pipe /\ parser' = parser
      /\ current' = current /\ readErr' = readErr
  BY DEF logVars, childVars, parserVars
<1>2. HistoryState /\ ParserState
  BY DEF GitInv
<1>3. HistoryState' /\ repo' = repo /\ merges' = merges /\ walked' = walked /\ passed' = passed
  BY <1>2, HistoryKept
<1>4. ParserState'
  BY <1>1, <1>2 DEF ParserState, ChildTypeOK
<1>5. parser \in Parsing => \E s, v, o, at : \E n, k, j : UnderWay(s, v, o, at, n, k, j)'
  <2> SUFFICES ASSUME parser \in Parsing
               PROVE  \E s, v, o, at : \E n, k, j : UnderWay(s, v, o, at, n, k, j)'
    OBVIOUS
  <2>1. PICK s, v, o, at : \E n, k, j : UnderWay(s, v, o, at, n, k, j)
    BY DEF GitInv
  <2>2. PICK n, k, j : UnderWay(s, v, o, at, n, k, j)
    BY <2>1
  <2>3. Plan(s, v) /\ Printed(s, v, o, at) /\ InStream(o, n) /\ Place(s, v, o, at, n, k, j)
    BY <2>2 DEF UnderWay
  <2>4. Plan(s, v)'
    BY <2>3, <1>3, PlanKept
  <2>5. InStream(o, n)'
    BY <2>3, <1>1 DEF InStream
  <2>6. Place(s, v, o, at, n, k, j)'
    BY <2>3, <1>1, <1>3 DEF Place
  <2>7. UnderWay(s, v, o, at, n, k, j)'
    BY <2>3, <2>4, <2>5, <2>6 DEF UnderWay
  <2> QED BY <2>7
<1>6. (\E s, v : Told(s, v)) => \E s, v : Told(s, v)'
  <2> SUFFICES ASSUME NEW s, NEW v, Told(s, v) PROVE \E ss, vv : Told(ss, vv)'
    OBVIOUS
  <2>1. Told(s, v)'
    BY ToldKept
  <2> QED BY <2>1
<1> QED BY <1>1, <1>3, <1>4, <1>5, <1>6 DEF GitInv

(* The invariant of the gogit backend survives a step of nobody.           *)
LEMMA GoGitRests ==
  ASSUME GoGitInv, UNCHANGED historyVars, UNCHANGED walkerVars
  PROVE  GoGitInv'
<1>1. /\ walker' = walker /\ nextRef' = nextRef /\ peeling' = peeling /\ roots' = roots
      /\ ready' = ready /\ node' = node /\ cached' = cached /\ walkErr' = walkErr
  BY DEF walkerVars, rootVars, iterVars
<1>2. HistoryState' /\ repo' = repo /\ merges' = merges /\ walked' = walked /\ passed' = passed
  BY HistoryKept DEF GoGitInv, WalkState
<1>3. WalkState'
  BY <1>1, <1>2 DEF GoGitInv, WalkState, RootsState, NodeType
<1>4. RootsFound => RootsFound'
  <2>1. \A o : Leads(o)' = Leads(o)
    BY <1>2, LeadsKept
  <2>2. Begun' = Begun
    <3>1. RefsBegun(nextRef)' = RefsBegun(nextRef)
      BY <1>1, <1>2 DEF RefsBegun
    <3> QED BY <3>1, <1>1, <1>2 DEF Begun
  <2>3. \A x : Finding(x)' <=> Finding(x)
    <3>1. ToSet(roots)' = ToSet(roots)
      BY <1>1 DEF ToSet
    <3>2. Leads(peeling)' = Leads(peeling)
      BY <1>1, <1>2 DEF Leads, TagClosed
    <3> QED BY <3>1, <3>2, <1>1 DEF Finding
  <2> QED BY <2>1, <2>2, <2>3 DEF RootsFound
<1>5. PICK s, R, V : s = walked /\ R = ready /\ V = ToSet(s)
  OBVIOUS
<1>6. walked' = s /\ ready' = R
  BY <1>1, <1>2, <1>5
<1>7. Iterating => Iterating'
  <2> SUFFICES ASSUME Iterating PROVE Iterating'
    OBVIOUS
  <2>1. Frontier(V, R) /\ InOrder(s) /\ \A x \in R : Fit(x)
    BY <1>5 DEF Iterating
  <2>2. Frontier(V, R)' /\ InOrder(s)' /\ \A x \in R : Fit(x)'
    BY <1>1, <1>2, <2>1, FitKept, FrontierKept, InOrderKept
  <2> QED BY ONLY <1>5, <1>6, <2>2, IteratingThen
<1>8. Chs(walked)' = Chs(walked)
  <2>1. Chs(s)' = Chs(s)
    BY <1>2, ChsKept
  <2>2. Chs(walked)' = Chs(s)'
    BY <1>6 DEF Chs, ChangesOf, ParentsOf, LeftOut
  <2> QED BY <2>1, <2>2, <1>5
<1>9. Met' = Met /\ ToSet(walked)' = ToSet(walked)
  <2>1. Met' = Met
    BY <1>1, <1>2, MetKept
  <2> QED BY <2>1, <1>2 DEF ToSet
<1>10. AllVisited => AllVisited'
  BY <1>1, <1>2, <1>8, <1>9 DEF AllVisited
<1>11. ASSUME NEW k \in Nat, OneToVisit(k) PROVE OneToVisit(k)'
  <2>1. NodeParents(node)' = NodeParents(node)
    BY <1>1, <1>2 DEF NodeParents
  <2>2. ParentsOf(walked[k])' = ParentsOf(walked[k])
    BY <1>2 DEF ParentsOf
  <2>3. Upto(Chs(walked), k - 1)' = Upto(Chs(walked), k - 1)
    BY <1>8 DEF Upto
  <2> QED BY <1>1, <1>2, <1>9, <1>11, <2>1, <2>2, <2>3 DEF OneToVisit
<1>12. CutOff' <=> CutOff
  BY <1>2, CutOffKept
<1> QED BY <1>1, <1>2, <1>3, <1>4, <1>7, <1>10, <1>11, <1>12 DEF GoGitInv

-----------------------------------------------------------------------------
(* The invariant holds, and with it the properties of the walk.            *)

(* The invariant of the walk holds at the start.                           *)
LEMMA WalkBegins == WalkInit => WalkInv
BY GitBegins, GoGitBegins DEF WalkInit, WalkInv

(* Every step of either backend keeps it.                                  *)
LEMMA WalkStepKeeps ==
  ASSUME WalkInv, [WalkNext]_allVars
  PROVE  WalkInv'
<1>1. backend' = backend
  BY DEF WalkNext, Step, Fault, WalkDone, allVars
<1>2. ASSUME backend = "git"
      PROVE  GitInv' /\ CommitWalkInit'
  <2>1. GitInv /\ CommitWalkInit
    BY <1>2 DEF WalkInv
  <2>2. UNCHANGED walkerVars
    BY <1>2 DEF WalkNext, Step, Fault, WalkDone, allVars
  <2>3. CommitWalkInit'
    BY <2>1, <2>2 DEF CommitWalkInit, walkerVars, rootVars, iterVars, NoNode, Node
  <2>4. GitLogStep \/ GitLogFault \/ (UNCHANGED historyVars /\ UNCHANGED logVars)
    BY <1>2 DEF WalkNext, Step, Fault, WalkDone, allVars
  <2> QED BY <2>1, <2>3, <2>4, GitStepKeeps, GitRests
<1>3. ASSUME backend = "gogit"
      PROVE  GoGitInv' /\ GitLogInit'
  <2>1. GoGitInv /\ GitLogInit
    BY <1>3 DEF WalkInv
  <2>2. UNCHANGED logVars
    BY <1>3 DEF WalkNext, Step, Fault, WalkDone, allVars
  <2>3. GitLogInit'
    BY <2>1, <2>2 DEF GitLogInit, ChildInit, logVars, childVars, parserVars, NoChange, Change, Absent
  <2>4. CommitWalkStep \/ CommitWalkFault \/ (UNCHANGED historyVars /\ UNCHANGED walkerVars)
    BY <1>3 DEF WalkNext, Step, Fault, WalkDone, allVars
  <2> QED BY <2>1, <2>3, <2>4, GoGitStepKeeps, GoGitRests
<1> QED BY <1>1, <1>2, <1>3 DEF WalkInv

(* WalkInv is an invariant of walkChanges with either backend, whether or  *)
(* not the child, the store or a reference fails. For git, the fields      *)
(* still to read are the rest of one printed history, and the parser knows *)
(* its place in it. For gogit, historyRoots has found what HEAD and the    *)
(* references begun lead to, and the iterator's ready nodes are the        *)
(* frontier of what it has yielded.                                        *)
THEOREM WalkInvariance == WalkSpec => []WalkInv
<1>1. WalkInit => WalkInv
  BY WalkBegins
<1>2. WalkInv /\ [WalkNext]_allVars => WalkInv'
  BY WalkStepKeeps
<1> QED BY <1>1, <1>2, PTL DEF WalkSpec

(* The variables of the history, of the parser of readChanges and of the   *)
(* gogit walk keep their types, for every set of repositories.             *)
THEOREM WalkTypeCorrect == WalkSpec => []WalkTypeOK
<1>1. WalkInv => WalkTypeOK
  <2> SUFFICES ASSUME WalkInv PROVE WalkTypeOK
    OBVIOUS
  <2>1. backend \in Backends /\ (backend = "git" \/ backend = "gogit")
    BY BackendAssumption DEF WalkInv
  <2>2. CASE backend = "git"
    <3>1. GitInv /\ CommitWalkInit
      BY <2>2 DEF WalkInv
    <3>2. HistoryTypeOK /\ GitLogTypeOK
      BY <3>1, HistoryTypes, GitTypes DEF GitInv
    <3>3. CommitWalkTypeOK
      <4>1. Len(repo.refs) \in Nat /\ 1 \in 1..(Len(repo.refs) + 1)
        <5>1. Len(repo.refs) \in Nat
          BY <3>1, RepoFacts DEF GitInv, HistoryState
        <5> QED BY <5>1
      <4>2. <<>> \in Seq(Commits)
        OBVIOUS
      <4> QED BY <3>1, <4>1, <4>2 DEF CommitWalkInit, CommitWalkTypeOK
    <3> QED BY <2>1, <3>2, <3>3 DEF WalkTypeOK
  <2>3. CASE backend = "gogit"
    <3>1. GoGitInv /\ GitLogInit
      BY <2>3 DEF WalkInv
    <3>2. HistoryTypeOK /\ CommitWalkTypeOK
      BY <3>1, HistoryTypes, GoGitTypes DEF GoGitInv, WalkState
    <3>3. GitLogTypeOK
      BY <3>1, ParserBegins, GitTypes
    <3> QED BY <2>1, <3>2, <3>3 DEF WalkTypeOK
  <2> QED BY <2>1, <2>2, <2>3
<1> QED BY <1>1, WalkInvariance, PTL

(* What the two backends promise of a walk that succeeds.                  *)
LEMMA WalkSound ==
  ASSUME WalkInv, backend = "git" \/ CutOff, Outcome = "ok"
  PROVE  WalkComplete /\ HistoryState
<1>1. backend = "git" \/ backend = "gogit"
  BY BackendAssumption DEF WalkInv
<1>2. CASE backend = "git"
  <2>1. GitInv /\ CommitWalkInit
    BY <1>2 DEF WalkInv
  <2>2. parser = "returned" /\ ~readErr /\ cached = {}
    BY <1>2, <2>1 DEF Outcome, CommitWalkInit
  <2> QED BY <2>1, <2>2, GitWhole DEF GitInv
<1>3. CASE backend = "gogit"
  <2>1. GoGitInv
    BY <1>3 DEF WalkInv
  <2>2. walker = "returned" /\ ~walkErr
    BY <1>3 DEF Outcome
  <2>3. CutOff
    BY <1>3
  <2> QED BY <2>1, <2>2, <2>3, GoGitWhole DEF GoGitInv, WalkState
<1> QED BY <1>1, <1>2, <1>3

(* A call of walkChanges that returns without an error has come to every   *)
(* commit of the history once, children before parents, and has passed all *)
(* changes of each as its own; the cache has no tree left. With the gogit  *)
(* backend this needs a shallow boundary that is cut off:                  *)
(* walkChangesGoGitStream makes nodes without parents of the roots only,   *)
(* so that a boundary commit it meets as a parent is walked past if its    *)
(* parents are in the store.                                               *)
THEOREM HistoryWhole == WalkSpec => [](backend = "git" \/ CutOff => WholeHistory)
<1>1. WalkInv => (backend = "git" \/ CutOff => WholeHistory)
  <2> SUFFICES ASSUME WalkInv, backend = "git" \/ CutOff, Outcome = "ok"
               PROVE  /\ walked \in Orders
                      /\ passed = FlattenSeq([i \in DOMAIN walked |-> ChangesOf(walked[i])])
                      /\ cached = {}
    BY DEF WholeHistory
  <2>1. WalkComplete
    BY WalkSound
  <2> QED BY <2>1 DEF WalkComplete, Chs
<1> QED BY <1>1, WalkInvariance, PTL

(* The blobs that recordLegalChange collects from the changes of a walk    *)
(* that succeeds and diffs merges are those that some commit of the        *)
(* history has under a legal path, with the same restriction. A legal file *)
(* of a commit was added by the oldest commit that has it, whose changes   *)
(* were passed.                                                            *)
THEOREM LegalCollected == WalkSpec => [](backend = "git" \/ CutOff => LegalAsInTrees)
<1>1. WalkInv => (backend = "git" \/ CutOff => LegalAsInTrees)
  <2> SUFFICES ASSUME WalkInv, backend = "git" \/ CutOff, Outcome = "ok", merges
               PROVE  legal = LegalFiles
    BY DEF LegalAsInTrees
  <2>1. WalkComplete /\ HistoryState
    BY WalkSound
  <2> QED BY <2>1, LegalIsInTrees DEF WalkComplete, HistoryState
<1> QED BY <1>1, WalkInvariance, PTL
=============================================================================
