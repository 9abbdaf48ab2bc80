SPECIFICATION ReaderSpec
CONSTANTS
  Bytes <- SomeBytes
  StoredTrees <- SomeTrees
  LegalNames <- LegalOnes
  HashSize = 2
  BufferSize = 8
INVARIANTS
  CollectsLegal
