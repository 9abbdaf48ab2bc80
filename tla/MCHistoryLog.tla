--------------------------- MODULE MCHistoryLog ---------------------------
EXTENDS HistoryLog

Result(exprs, why, spdx) == [expressions |-> exprs, skipped |-> why, spdx |-> spdx]

WhatIsHeld ==
  [o \in Objects |->
     CASE o = "mit" -> Result(<<"MIT">>, "not", FALSE)
       [] o = "tagged" -> Result(<<"MIT">>, "not", TRUE)
       [] o = "apache" -> Result(<<"Apache-2.0">>, "not", FALSE)
       [] o = "huge" -> Result(<<>>, "size", FALSE)
       [] o = "plain" -> Empty
       [] OTHER -> Missing]

MonthOf == [c \in Commits |-> IF c = 1 THEN "2024-02" ELSE "2024-01"]

None == [kind |-> "none"]
File(o) == [kind |-> "file", object |-> o]

SomePairs ==
  {<<None, File("mit")>>, <<File("mit"), None>>,
   <<File("tagged"), File("mit")>>, <<File("mit"), File("apache")>>,
   <<File("huge"), File("plain")>>,
   <<[kind |-> "module", object |-> "sub"], File("mit")>>}

(* In a clone made with a blob filter the history names objects that the   *)
(* local store does not hold.                                              *)
PartialClonePairs == {<<File("gone"), File("mit")>>, <<None, File("gone")>>}
=============================================================================
