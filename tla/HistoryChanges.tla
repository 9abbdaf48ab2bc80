--------------------------- MODULE HistoryChanges ---------------------------
(***************************************************************************)
(* A history of commits with a few paths each, what a walk of it visits,   *)
(* and which blobs recordLegalChange of history.go collects on the way.    *)
(* Both backends of walkChanges are modelled over it.                      *)
(***************************************************************************)
EXTENDS Naturals, Sequences, FiniteSets, SequencesExt

CONSTANTS
  Commits, Tags,
  Objects,     (* Blobs, and the commits that submodules name.             *)
  Paths,       (* The paths of the trees, in the order diffs have them.    *)
  LegalPaths,  (* Those that licenses.IsLegalPath accepts.                 *)
  Repos,       (* The repositories to consider.                            *)
  Faults,      (* Whether children and the store may fail.                 *)
  None         (* No commit, no object, no path.                           *)

Names == Commits \cup Tags \cup Objects

(* What a tree has at a path.                                              *)
Absent == [mode |-> "none", object |-> None]
Side == [mode: {"file", "link", "module"}, object: Objects] \cup {Absent}

TreeType == [ToSet(Paths) -> Side]

(* head and refs are objects; a reference outside refs/ is one like        *)
(* ORIG_HEAD.  The parents of commits of the shallow boundary may be       *)
(* missing from the store.                                                 *)
RefType == [space: {"refs", "replace", "outside"}, object: Names]

RepoType ==
  [head: Names \cup {None}, refs: Seq(RefType), tag: [Tags -> Names],
   parents: [Commits -> Seq(Commits)], tree: [Commits -> TreeType],
   boundary: SUBSET Commits, missing: SUBSET Commits]

ASSUME HistoryAssumption ==
  /\ Repos \subseteq RepoType
  /\ IsFiniteSet(Commits)
  /\ None \notin Names
  /\ Tags \cap Commits = {}
  /\ Paths \in Seq(ToSet(Paths))
  /\ LegalPaths \subseteq ToSet(Paths)
  /\ Faults \in BOOLEAN
  /\ \A r \in Repos :
       \E age \in [Commits -> 1..Cardinality(Commits)] :
         \A c \in Commits : \A p \in ToSet(r.parents[c]) : age[c] < age[p]

VARIABLES
  repo,        (* Fixed for the run, as is the next.                       *)
  merges,      (* Whether merge commits are diffed.                        *)
  walked,      (* The commits the walk has come to, in order.              *)
  passed,      (* The changes passed to visit, in order.                   *)
  legal        (* The blobs recorded.                                      *)

fixedVars == <<repo, merges>>
visitVars == <<passed, legal>>
historyVars == <<fixedVars, walked, visitVars>>

HistoryInit ==
  /\ repo \in Repos
  /\ merges \in BOOLEAN
  /\ walked = <<>>
  /\ passed = <<>>
  /\ legal = {}

-----------------------------------------------------------------------------
(* A change and its commit; date and subject say whose they are.           *)
Change(c, path, old, new, isMerge) ==
  [commit |-> c, date |-> c, subject |-> c, path |-> path, old |-> old, new |-> new,
   merge |-> isMerge]

ChangeType ==
  [commit: Commits, date: Commits, subject: Commits, path: ToSet(Paths), old: Side,
   new: Side, merge: BOOLEAN]

Nothing == [p \in ToSet(Paths) |-> Absent]

(* The tree of the first of the parents, and nothing if there is none.     *)
Base(parents) == IF parents = <<>> THEN Nothing ELSE repo.tree[parents[1]]

(* What a commit changes against a base, path by path.                     *)
Diff(c, base, isMerge) ==
  LET tree == repo.tree[c]
      At(p) == IF base[p] = tree[p] THEN <<>> ELSE <<Change(c, p, base[p], tree[p], isMerge)>>
  IN FlattenSeq([i \in DOMAIN Paths |-> At(Paths[i])])

(* A commit with these parents is a merge that is not to be diffed.        *)
LeftOut(parents) == ~merges /\ Len(parents) > 1

(* Mutant of LegalSides: links count as files.                             *)
LegalSidesAny(c) ==
  IF c.path \notin LegalPaths THEN {}
  ELSE {s.object : s \in {c.old, c.new} \ {Absent}}

(* recordLegalChange: the files on either side of a legal path.            *)
LegalSides(c) ==
  IF c.path \notin LegalPaths THEN {}
  ELSE {s.object : s \in {s \in {c.old, c.new} : s.mode = "file"}}

(* The function that walkChanges calls, on some changes in turn.           *)
Visit(changes) ==
  /\ passed' = passed \o changes
  /\ legal' = legal \cup UNION {LegalSides(c) : c \in ToSet(changes)}

-----------------------------------------------------------------------------
(* The history as git shows it, the standard for both backends.            *)

(* What an object leads to, by way of tags: what is in every set that has  *)
(* the object, and the target of each tag in it.                           *)
TagClosed(S) == \A t \in S \cap Tags : repo.tag[t] \in S

Leads(o) == {x \in Names : \A S \in SUBSET Names : o \in S /\ TagClosed(S) => x \in S}

Named ==
  {r.object : r \in {r \in ToSet(repo.refs) : r.space = "refs"}} \cup ({repo.head} \ {None})

(* The commits that HEAD and the references lead to, and their ancestors   *)
(* up to the shallow boundary.                                             *)
Roots == {c \in Commits : \E o \in Named : c \in Leads(o)}

ParentsOf(c) == IF c \in repo.boundary THEN <<>> ELSE repo.parents[c]

Reachable ==
  LET roots == Roots
      Closed(S) == roots \subseteq S /\ \A c \in S : ToSet(ParentsOf(c)) \subseteq S
  IN {c \in Commits : \A S \in SUBSET Commits : Closed(S) => c \in S}

ChangesOf(c) ==
  LET parents == ParentsOf(c)
  IN IF LeftOut(parents) THEN <<>> ELSE Diff(c, Base(parents), Len(parents) > 1)

(* The commits of the history, children before parents.                    *)
Orders ==
  {s \in SetToSeqs(Reachable) :
     \A i, j \in DOMAIN s : s[j] \in ToSet(ParentsOf(s[i])) => i < j}

(* The files that some commit of the history has under a legal path.       *)
LegalFiles ==
  {repo.tree[x[1]][x[2]].object :
     x \in {x \in Reachable \X LegalPaths : repo.tree[x[1]][x[2]].mode = "file"}}

HistoryTypeOK ==
  /\ repo \in Repos
  /\ merges \in BOOLEAN
  /\ walked \in Seq(Commits)
  /\ passed \in Seq(ChangeType)
  /\ legal \subseteq Objects
=============================================================================
