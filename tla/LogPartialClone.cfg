SPECIFICATION Spec
CONSTANTS
  Commits = {1, 2, 3}
  Merges = {2}
  Month <- MonthOf
  Objects = {"mit", "gone"}
  Holds <- WhatIsHeld
  Missing = Missing
  Pairs <- PartialClonePairs
  MaxChanges = 2
  Group = "all"
INVARIANTS
  AbsentMeansEmpty
