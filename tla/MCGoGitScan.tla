---------------------------- MODULE MCGoGitScan ----------------------------
EXTENDS GoGitScan, MCScan

(* The library serves an object under the type it enumerated it with; the  *)
(* size it announced may turn out wrong when the objects are read later.   *)
StoreEntries == {License, BigLegal, BigOther, Nothing, Tree, Grown}

(* Batches of two over a buffer of one; one batch for all objects, handed  *)
(* over without a buffer; and the variant without infos.                   *)
SomeOptions ==
  {[infos |-> TRUE, batch |-> 2, buffered |-> 1],
   [infos |-> TRUE, batch |-> 3, buffered |-> 0],
   [infos |-> FALSE, batch |-> 1, buffered |-> 0]}

SortedInit == Init /\ InKindOrder(store)

SortedSpec == SortedInit /\ [][Next]_vars /\ Fairness
=============================================================================
