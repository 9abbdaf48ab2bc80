SPECIFICATION Spec
CONSTANTS
  Blobs = {b1, b2, b3}
  NoBlob = NoBlob
  Entries <- SerialEntries
  Workers = {w1}
  JobsCap = 1
  JobBatchSize = 2
  JobBatchBytes = 1
  MaxBlobSize = 1
  LegalBlobSize = 2
INVARIANTS
  TypeOK
  NothingLost
  BatchBounded
PROPERTIES
  ImplementsPromise
