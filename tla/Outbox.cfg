SPECIFICATION FairSpec
CONSTANTS
  Rows = {1, 2, 3}
  Instances = {i1, i2}
  None = None
  kMaxRetry = 2
  kBatchSize = 2
  ConfirmedPublish = TRUE
  MaxFaults = 1
INVARIANTS
  OneScanner
  SentReachedBroker
  DeadExactlyAtLimit
  DuplicatesAccounted
PROPERTIES
  Settled
  KeepsPromise
