SPECIFICATION Spec
CONSTANTS
  Commits = {1, 2, 3, 4}
  Trees = {"t1", "t2", "t3"}
  Blobs = {"b1", "b2", "b3", "b4"}
  Repos <- SomeRepos
  Workers = {1, 2}
  Crews <- SomeCrews
  Caller = 0
  BatchSizes = {1, 2}
INVARIANTS
  TypeOK
  CompleteLegal
  BatchFits
PROPERTIES
  Returns
