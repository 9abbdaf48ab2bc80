SPECIFICATION Spec
CONSTANTS
  N = 4
  Workers = {w1, w2}
  Lookahead = 2
  Merges = FALSE
INVARIANTS
  TypeOK
  LoadedOnce
  CacheIsFrontier
  AwaitHasLoader
PROPERTIES
  ImplementsWalk
