SPECIFICATION SortedSpec
CONSTANTS
  Blobs = {1, 2, 3}
  NoBlob = 0
  Entries <- StoreEntries
  Readers = {"r1", "r2"}
  Workers = {"w1"}
  JobsCap = 1
  Options <- SomeOptions
  MaxBlobSize = 1
  LegalBlobSize = 2
INVARIANTS
  TypeOK
  NothingLost
  TallyOnSuccess
  OnePlace
  ClosedAfterSenders
PROPERTIES
  ImplementsPromise
