--------------------------- MODULE MCWalkChanges ---------------------------
EXTENDS WalkChanges, TLC

File(o) == [mode |-> "file", object |-> o]
Link == [mode |-> "link", object |-> 22]
Module == [mode |-> "module", object |-> 22]

(* "L" is a legal path, "x" is none.                                       *)
PathOrder == <<"L", "x">>
Tree(l, x) == [p \in {"L", "x"} |-> IF p = "L" THEN l ELSE x]

Empty == Tree(Absent, Absent)
Plain == Tree(Absent, File(21))
Both == Tree(File(21), File(21))
Legal == Tree(File(22), Absent)
Linked == Tree(Link, Absent)
Nested == Tree(Module, Absent)

(* The trees of commits 1, 2 and 3.                                        *)
TreeLists ==
  {<<Legal, Both, Plain>>, <<Both, Plain, Both>>, <<Linked, Both, Linked>>,
   <<Nested, Legal, Both>>, <<Linked, Nested, Empty>>, <<Both, Both, Both>>}

(* Commit 3 is the oldest; 1 is a child of 2, a merge of 2 and 3, or knows *)
(* nothing of 2.                                                           *)
Line == <<<<2>>, <<3>>, <<>>>>
Joined == <<<<2, 3>>, <<3>>, <<>>>>
Merge == <<<<2, 3>>, <<>>, <<>>>>
Fork == <<<<3>>, <<3>>, <<>>>>

Ref(o) == [space |-> "refs", object |-> o]

Repo(head, refs, parents, tree, boundary, missing) ==
  [head |-> head, refs |-> refs, tag |-> [t \in Tags |-> IF t = 11 THEN 12 ELSE 2],
   parents |-> parents, tree |-> tree, boundary |-> boundary, missing |-> missing]

(* HEAD alone; with a tag of a tag and a branch; no HEAD, but a branch, a  *)
(* reference to a blob and one that is not under refs/; one that replaces; *)
(* none.                                                                   *)
RefLists ==
  {<<1, <<>>>>, <<1, <<Ref(11), Ref(1)>>>>,
   <<None, <<Ref(2), Ref(21), [space |-> "outside", object |-> 1]>>>>,
   <<1, <<Ref(1), [space |-> "replace", object |-> 2]>>>>, <<None, <<>>>>}

Whole ==
  {Repo(r[1], r[2], p, t, {}, {}) :
     r \in RefLists, p \in {Line, Joined, Merge, Fork}, t \in TreeLists}

(* A clone of depth one, one of depth two, and one with a branch at its    *)
(* boundary.                                                               *)
ATree == <<Legal, Both, Linked>>
Depth1 == Repo(1, <<Ref(1)>>, Line, ATree, {1}, {2, 3})
Depth2 == Repo(1, <<Ref(1)>>, Line, ATree, {2}, {3})
Branch2 == Repo(1, <<Ref(2)>>, Line, ATree, {2}, {3})

SomeRepos == Whole \cup {Depth1, Depth2, Branch2}
ShallowRepos == {Depth2, Branch2}
=============================================================================
