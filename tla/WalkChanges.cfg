SPECIFICATION WalkSpec
CONSTANTS
  Commits = {1, 2, 3}
  Tags = {11, 12}
  Objects = {21, 22}
  Paths <- PathOrder
  LegalPaths = {"L"}
  Repos <- SomeRepos
  None = None
  Log = "log"
  Children = {"log"}
  PipeCap = 2
  Faults = TRUE
  Backends = {"git", "gogit"}
INVARIANTS
  WalkTypeOK
  WholeHistory
  LegalAsInTrees
PROPERTIES
  Returns
