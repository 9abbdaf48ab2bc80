--------------------------- MODULE MCCatFileScan ---------------------------
EXTENDS CatFileScan, MCScan

StoreEntries == {License, BigLegal, BigOther, Nothing, Tree, Grown, Replaced}

SortedInit == Init /\ InKindOrder(store)

SortedSpec == SortedInit /\ [][Next]_vars /\ Fairness
=============================================================================
