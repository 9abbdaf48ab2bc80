----------------------------- MODULE WalkChanges -----------------------------
(***************************************************************************)
(* walkChanges of history.go: the history comes from a git log child or    *)
(* from the go-git library, and whoever called it must not see which.      *)
(* legalBlobs and spoolLogHistory call it to record the legal blobs as     *)
(* they pass.                                                              *)
(***************************************************************************)
EXTENDS GitLog, CommitWalk

CONSTANTS
  Backends     (* The values of --backend to consider.                     *)

ASSUME BackendAssumption == Backends \subseteq {"git", "gogit"}

VARIABLES
  backend      (* Fixed for the run.                                       *)

allVars == <<backend, historyVars, logVars, walkerVars>>

(* What git makes of replaced objects is not modelled.                     *)
WalkInit ==
  /\ backend \in Backends
  /\ HistoryInit
  /\ backend = "git" => \A r \in ToSet(repo.refs) : r.space # "replace"
  /\ GitLogInit
  /\ CommitWalkInit

Outcome ==
  IF backend = "git"
  THEN IF parser # "returned" THEN "running" ELSE IF readErr THEN "failed" ELSE "ok"
  ELSE IF walker # "returned" THEN "running" ELSE IF walkErr THEN "failed" ELSE "ok"

Step ==
  \/ backend = "git" /\ GitLogStep /\ UNCHANGED <<backend, walkerVars>>
  \/ backend = "gogit" /\ CommitWalkStep /\ UNCHANGED <<backend, logVars>>

Fault ==
  \/ backend = "git" /\ GitLogFault /\ UNCHANGED <<backend, walkerVars>>
  \/ backend = "gogit" /\ CommitWalkFault /\ UNCHANGED <<backend, logVars>>

WalkDone ==
  /\ Outcome # "running"
  /\ UNCHANGED allVars

WalkNext ==
  \/ Step
  \/ Fault
  \/ WalkDone

(* The program goes on, and so does the child; neither has to fail.        *)
WalkSpec == WalkInit /\ [][WalkNext]_allVars /\ WF_allVars(Step)

-----------------------------------------------------------------------------
(* Types, of the history, the parser and the walk.                         *)
WalkTypeOK ==
  /\ backend \in Backends
  /\ HistoryTypeOK
  /\ GitLogTypeOK
  /\ CommitWalkTypeOK

(* A walk that succeeds has come to every commit of the history once,      *)
(* children before parents, and has passed the changes of each, in one     *)
(* run, as its own: none has a date, a subject or a merge flag left over   *)
(* from another commit, none is missing because git log died between two   *)
(* records, none is there because a reference was followed that git does   *)
(* not follow.  The cache of the gogit backend has let go of every tree.   *)
WholeHistory ==
  Outcome = "ok" =>
    /\ walked \in Orders
    /\ passed = FlattenSeq([i \in DOMAIN walked |-> ChangesOf(walked[i])])
    /\ cached = {}

(* What the parents of a commit of the shallow boundary must be for the    *)
(* gogit backend to show the history as git does, where a child leads to   *)
(* the commit: not all in the store, so that the walk fails, or none.  A   *)
(* commit of the boundary that no child leads to may have any.             *)
CutOff ==
  \A d \in Reachable : \A c \in ToSet(ParentsOf(d)) \cap repo.boundary :
    repo.parents[c] # <<>> => ToSet(repo.parents[c]) \cap repo.missing # {}

(* The blobs recorded from the changes are those that the trees of the     *)
(* history hold under a legal path, which is what legalBlobsGoGit collects *)
(* without looking at changes.  It takes the diffs of merges for it.       *)
LegalAsInTrees == Outcome = "ok" /\ merges => legal = LegalFiles

(* The walk returns, and leaves no child behind.                           *)
Returns == <>(Outcome # "running" /\ \A c \in Children : child[c] # "running")

(* In a shallow clone the commits of the boundary show every file as       *)
(* added, and a store without fault is walked to the end (the warning that *)
(* logCmd prints, history.go 168).                                         *)
GraftedShowAsAdded ==
  Outcome # "running" /\ ~Faults =>
    /\ Outcome = "ok"
    /\ \A c \in Reachable \cap repo.boundary :
         \A p \in {p \in ToSet(Paths) : repo.tree[c][p] # Absent} :
           Change(c, p, Absent, repo.tree[c][p], FALSE) \in ToSet(passed)
=============================================================================
