SPECIFICATION Spec
CONSTANTS
  Objects = {"a", "b"}
  NoObject = "none"
  Stores <- SomeStores
  Readers = {"r1", "r2"}
  Lister = "ls"
  Children = {"r1", "r2", "ls"}
  PipeCap = 1
  BlobsCap = 1
  Limit = 1
INVARIANTS
  TypeOK
  AnswersWhatWasAsked
  FeedIsComplete
PROPERTIES
  Returns
