----------------------------- MODULE CommitWalk -----------------------------
(***************************************************************************)
(* walkChanges with the gogit backend and one worker:                      *)
(* historyRoots of gogit_history.go and walkChangesGoGitStream of          *)
(* gogit_history_stream.go.                                                *)
(*                                                                         *)
(* HEAD and every reference are followed through tags to commits.  They    *)
(* become the parents of an artificial root node, which is handed to the   *)
(* library's date-order iterator.  The nodes of the shallow boundary are   *)
(* wrapped so that they have no parents, but only the nodes that           *)
(* shallowCommitNodeIndex.Get makes: the iterator gets the parents of a    *)
(* node from the node, which knows the index embedded in that one only.    *)
(***************************************************************************)
EXTENDS HistoryChanges

VARIABLES
  walker,      (* Program counter: "head", "refs", "peel", "nodes",        *)
               (* "iter", "visit" or "returned".                           *)
  nextRef,     (* Reference that refs.Next returns next.                   *)
  peeling,     (* The object commitAtReference has come to, or None.       *)
  roots,       (* The commits found so far.                                *)
  ready,       (* Nodes the iterator may yield: all children are out.      *)
  node,        (* The node it has yielded, or NoNode.                      *)
  cached,      (* Commits whose tree the cache holds.                      *)
  walkErr

rootVars == <<nextRef, peeling, roots>>
iterVars == <<ready, node, cached>>
walkerVars == <<walker, rootVars, iterVars, walkErr>>

(* A commit as the iterator has it: with its parents or without.           *)
Node(c, wrapped) == [commit |-> c, wrapped |-> wrapped]
NoNode == Node(None, FALSE)

CommitWalkInit ==
  /\ walker = "head"
  /\ nextRef = 1
  /\ peeling = None
  /\ roots = <<>>
  /\ ready = {}
  /\ node = NoNode
  /\ cached = {}
  /\ walkErr = FALSE

-----------------------------------------------------------------------------
(* historyRoots                                                            *)

(* r.Head: a repository without commits has none.                          *)
ReadHead ==
  /\ walker = "head"
  /\ peeling' = repo.head
  /\ walker' = IF repo.head = None THEN "refs" ELSE "peel"
  /\ UNCHANGED <<historyVars, nextRef, roots, iterVars, walkErr>>

(* Mutant of NextRef: references outside refs/ are followed as well.       *)
NextRefAll ==
  /\ walker = "refs"
  /\ nextRef <= Len(repo.refs)
  /\ repo.refs[nextRef].space # "replace"
  /\ nextRef' = nextRef + 1
  /\ peeling' = repo.refs[nextRef].object
  /\ walker' = "peel"
  /\ UNCHANGED <<historyVars, roots, iterVars, walkErr>>

(* refs.Next: what is not under refs/ is passed over.                      *)
NextRef ==
  /\ walker = "refs"
  /\ nextRef <= Len(repo.refs)
  /\ repo.refs[nextRef].space # "replace"
  /\ nextRef' = nextRef + 1
  /\ IF repo.refs[nextRef].space = "outside"
     THEN UNCHANGED <<peeling, walker>>
     ELSE peeling' = repo.refs[nextRef].object /\ walker' = "peel"
  /\ UNCHANGED <<historyVars, roots, iterVars, walkErr>>

Stop ==
  /\ walker' = "returned"
  /\ walkErr' = TRUE
  /\ UNCHANGED <<historyVars, rootVars, iterVars>>

(* git would put another object in the place of the replaced one.          *)
RefuseReplace ==
  /\ walker = "refs"
  /\ nextRef <= Len(repo.refs)
  /\ repo.refs[nextRef].space = "replace"
  /\ Stop

(* Mutant of Peel: an object that is no tag does not end the loop.         *)
PeelOn ==
  /\ walker = "peel"
  /\ IF peeling \in Tags
     THEN peeling' = repo.tag[peeling] /\ UNCHANGED <<walker, roots>>
     ELSE /\ roots' = IF peeling \in Commits THEN Append(roots, peeling) ELSE roots
          /\ peeling' = None
          /\ UNCHANGED walker
  /\ UNCHANGED <<historyVars, nextRef, iterVars, walkErr>>

(* One round of commitAtReference: a tag leads on, a commit is a root, any *)
(* other object is none.  (A tag cannot lead back to itself, its name is   *)
(* the hash of what it holds; the test for that never fires.)              *)
Peel ==
  /\ walker = "peel"
  /\ IF peeling \in Tags
     THEN peeling' = repo.tag[peeling] /\ UNCHANGED <<walker, roots>>
     ELSE /\ roots' = IF peeling \in Commits THEN Append(roots, peeling) ELSE roots
          /\ peeling' = None
          /\ walker' = "refs"
  /\ UNCHANGED <<historyVars, nextRef, iterVars, walkErr>>

(* An object that is not there, an unreadable reference.                   *)
RootsFail ==
  /\ Faults
  /\ walker \in {"head", "refs", "peel"}
  /\ Stop

-----------------------------------------------------------------------------
(* The nodes and the iterator, which is not part of the source: it yields  *)
(* every node that it meets from the root, a node after all its children.  *)

(* shallowCommitNode has no parents.                                       *)
NodeParents(n) == IF n.wrapped THEN <<>> ELSE repo.parents[n.commit]

(* shallowCommitNodeIndex.Get, by which only the roots are got; what the   *)
(* iterator meets first of a commit is its root node if it has one.        *)
Get(c) == Node(c, c \in repo.boundary)
ParentsMet(c) ==
  ToSet(NodeParents(IF c \in ToSet(roots) THEN Get(c) ELSE Node(c, FALSE)))

(* What the iterator meets, and the commits it is to yield before another. *)
Met ==
  LET Closed(S) == ToSet(roots) \subseteq S /\ \A c \in S : ParentsMet(c) \subseteq S
  IN {c \in Commits : \A S \in SUBSET Commits : Closed(S) => c \in S}

ChildrenMet(c) == {d \in Met : c \in ParentsMet(d)}

(* The roots found, the shallow boundary read and a node made of each      *)
(* root, the iterator has the root node behind it.  Without roots the walk *)
(* is over.                                                                *)
MakeNodes ==
  /\ walker = "refs"
  /\ nextRef > Len(repo.refs)
  /\ walker' = IF roots = <<>> THEN "returned" ELSE "iter"
  /\ ready' = {Get(c) : c \in {c \in ToSet(roots) : ChildrenMet(c) = {}}}
  /\ UNCHANGED <<historyVars, rootVars, node, cached, walkErr>>

(* Mutant of Yield: a parent is yielded without waiting for its other      *)
(* children.                                                               *)
YieldAtOnce(n) ==
  LET out == ToSet(walked) \cup {n.commit}
      parents == ToSet(NodeParents(n)) IN
  /\ walker = "iter"
  /\ n \in ready
  /\ parents \cap repo.missing = {}
  /\ walked' = Append(walked, n.commit)
  /\ node' = n
  /\ ready' = (ready \ {n}) \cup {Node(p, FALSE) : p \in parents \ out}
  /\ walker' = "visit"
  /\ UNCHANGED <<fixedVars, visitVars, rootVars, cached, walkErr>>

(* iter.Next                                                               *)
Yield(n) ==
  LET out == ToSet(walked) \cup {n.commit}
      parents == ToSet(NodeParents(n)) IN
  /\ walker = "iter"
  /\ n \in ready
  /\ parents \cap repo.missing = {}
  /\ walked' = Append(walked, n.commit)
  /\ node' = n
  /\ ready' = (ready \ {n}) \cup
       {Node(p, FALSE) : p \in {p \in (parents \cap Met) \ out : ChildrenMet(p) \subseteq out}}
  /\ walker' = "visit"
  /\ UNCHANGED <<fixedVars, visitVars, rootVars, cached, walkErr>>

(* A parent is not in the store: iter.Next fails when it yields the child, *)
(* or earlier, as it looks ahead.                                          *)
IterMissing ==
  /\ walker = "iter"
  /\ \/ Met \cap repo.missing # {}
     \/ \E n \in ready : ToSet(NodeParents(n)) \cap repo.missing # {}
  /\ Stop

IterFails ==
  /\ Faults
  /\ walker = "iter"
  /\ Stop

IterEnd ==
  /\ walker = "iter"
  /\ ready = {}
  /\ walker' = "returned"
  /\ UNCHANGED <<historyVars, rootVars, iterVars, walkErr>>

-----------------------------------------------------------------------------
(* visitCommitNodeChanges loads the trees of the commit and of its first   *)
(* parent through the cache and diffs them; the commit's tree then leaves  *)
(* the cache, also if the commit was left out.                             *)
VisitNode ==
  LET c == node.commit
      parents == NodeParents(node)
      base == {parents[i] : i \in DOMAIN parents \cap {1}} IN
  /\ walker = "visit"
  /\ Visit(IF LeftOut(parents) THEN <<>> ELSE Diff(c, Base(parents), Len(parents) > 1))
  /\ cached' = (cached \cup IF LeftOut(parents) THEN {} ELSE base) \ {c}
  /\ node' = NoNode
  /\ walker' = "iter"
  /\ UNCHANGED <<fixedVars, walked, rootVars, ready, walkErr>>

VisitFails ==
  /\ Faults
  /\ walker = "visit"
  /\ ~LeftOut(NodeParents(node))
  /\ Stop

CommitWalkStep ==
  \/ ReadHead
  \/ NextRef
  \/ RefuseReplace
  \/ Peel
  \/ MakeNodes
  \/ \E n \in ready : Yield(n)
  \/ IterMissing
  \/ IterEnd
  \/ VisitNode

CommitWalkFault == RootsFail \/ IterFails \/ VisitFails

CommitWalkTypeOK ==
  /\ walker \in {"head", "refs", "peel", "iter", "visit", "returned"}
  /\ nextRef \in 1..(Len(repo.refs) + 1)
  /\ peeling \in Names \cup {None}
  /\ walker = "peel" => peeling # None
  /\ roots \in Seq(Commits)
  /\ ready \subseteq [commit: Commits, wrapped: BOOLEAN]
  /\ walker = "visit" => node # NoNode
  /\ cached \subseteq Commits
  /\ walkErr \in BOOLEAN
=============================================================================
