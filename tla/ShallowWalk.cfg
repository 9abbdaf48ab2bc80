SPECIFICATION WalkSpec
CONSTANTS
  Commits = {1, 2, 3}
  Tags = {11, 12}
  Objects = {21, 22}
  Paths <- PathOrder
  LegalPaths = {"L"}
  Repos <- ShallowRepos
  None = None
  Log = "log"
  Children = {"log"}
  PipeCap = 2
  Faults = FALSE
  Backends = {"gogit"}
INVARIANTS
  GraftedShowAsAdded
