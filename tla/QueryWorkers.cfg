SPECIFICATION FairSpec
CONSTANTS
  WorkerCount = 3
  QueryCount = 4
  Order <- MCOrder
  WarmupQueries = 4
  NoResult = NoResult
INVARIANTS
  NoResultMissing
  NoWorkerLeftBehind
PROPERTIES
  BatchSpec
  Returns
CHECK_DEADLOCK FALSE
