SPECIFICATION Spec
CONSTANTS
  Commits = {1, 2, 3}
  Merges = {2}
  Month <- MonthOf
  Objects = {"mit", "tagged", "apache", "huge", "plain", "sub"}
  Holds <- WhatIsHeld
  Missing = Missing
  Pairs <- SomePairs
  MaxChanges = 3
  Group = "all"
INVARIANTS
  TypeOK
  ReportIsComplete
  MonthsAddUp
  HeadersOnce
