--------------------------- MODULE MCFeedChildren ---------------------------
EXTENDS FeedChildren

Object(type, body) ==
  [listed |-> [type |-> type, size |-> Len(body)], type |-> type, body |-> body,
   lost |-> FALSE]

(* With Limit = 1: a file that is one line like a header, an empty file, a *)
(* file above the limit.                                                   *)
Forged == Line("a", "blob", 1)
Small == {Object("blob", <<Forged>>), Object("blob", <<>>)}
Large == Object("blob", <<Byte, Forged>>)
Tree == Object("tree", <<LF>>)
(* refs/replace makes a file larger, or a tree; one is lost.               *)
Grown == [Object("blob", <<LF, Forged>>) EXCEPT !.listed.size = 1]
Turned == [Object("tree", <<Byte>>) EXCEPT !.listed.type = "blob"]
Lost == [Object("blob", <<Byte>>) EXCEPT !.lost = TRUE]

SomeStores ==
  {s \in [Objects -> Small \cup {Large, Tree, Grown, Turned, Lost}] : s["a"] \in Small}
=============================================================================
