--------------------------- MODULE MCLegalTrees ---------------------------
EXTENDS LegalTrees, TLC

Dir(t, isLegal) == [kind |-> "dir", object |-> t, legal |-> isLegal]
File(b, isLegal) == [kind |-> "file", object |-> b, legal |-> isLegal]
Link(b) == [kind |-> "link", object |-> b, legal |-> TRUE]

(* "t1" and "t2" are root trees; both hold "t3", the one as LICENSES/, the *)
(* other as a plain directory.  "t3" has a file of each kind of name.      *)
Entry ==
  [t \in Trees |->
     CASE t = "t1" -> <<File("b1", TRUE), Dir("t3", TRUE)>>
       [] t = "t2" -> <<Dir("t3", FALSE), Link("b4")>>
       [] OTHER -> <<File("b2", FALSE), File("b3", TRUE)>>]

Chain == [c \in Commits |-> IF c = 4 THEN <<>> ELSE <<c + 1>>]
Diamond ==
  [c \in Commits |-> CASE c = 1 -> <<2, 3>> [] c \in {2, 3} -> <<4>> [] OTHER -> <<>>]

(* A line of commits, two branches that merge, and a clone whose history   *)
(* ends at commit 3 and whose references overlap, so that what only commit *)
(* 4 holds is not there.                                                   *)
Shapes == {<<<<1>>, Chain, {}>>, <<<<1>>, Diamond, {}>>, <<<<2, 1>>, Chain, {3}>>}

SomeRepos ==
  {[roots |-> s[1], parents |-> s[2], boundary |-> s[3], tree |-> <<"t2">> \o t,
    entries |-> Entry] : s \in Shapes, t \in {<<"t3", "t1", "t2">>, <<"t2", "t2", "t1">>,
                                              <<"t1", "t3", "t3">>, <<"t2", "t3", "t1">>}}

SomeCrews == {{}, {1}, {1, 2}}
=============================================================================
