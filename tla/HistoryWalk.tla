---------------------------- MODULE HistoryWalk ----------------------------
(***************************************************************************)
(* What a walk of the history promises the function that visits its        *)
(* changes: commits are visited one after another, in the order of the     *)
(* walk, without a gap and without a repetition; an error may end the walk *)
(* after any of them, and success means that all were visited.             *)
(*                                                                         *)
(* historyTotals.record and the --details output of history.go depend on   *)
(* it: both count a commit once because its changes come in one run.       *)
(***************************************************************************)
EXTENDS Naturals, Sequences

VARIABLES
  walk,      (* The commits to visit, in order; fixed by the repository.   *)
  visited,   (* The commits visited so far.                                *)
  outcome    (* "running", "ok" or "failed".                               *)

vars == <<walk, visited, outcome>>

Init ==
  /\ walk \in Seq(Nat)
  /\ visited = <<>>
  /\ outcome = "running"

Visit ==
  /\ outcome = "running"
  /\ Len(visited) < Len(walk)
  /\ visited' = Append(visited, walk[Len(visited) + 1])
  /\ UNCHANGED <<walk, outcome>>

Succeed ==
  /\ outcome = "running"
  /\ visited = walk
  /\ outcome' = "ok"
  /\ UNCHANGED <<walk, visited>>

Fail ==
  /\ outcome = "running"
  /\ outcome' = "failed"
  /\ UNCHANGED <<walk, visited>>

Next == Visit \/ Succeed \/ Fail

Returns == <>(outcome # "running")

Safety == Init /\ [][Next]_vars

Spec == Safety /\ Returns
=============================================================================
