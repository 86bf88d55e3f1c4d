SPECIFICATION FairSpec
CONSTANTS
  PageCount = 5
  PageLimit = 6
  MaxInflight = 2
  MaxCoalesce = 2
  MaxReads = 2
INVARIANTS
  NothingOutlivesItsRead
  BlocksPartitionRequest
  SuccessDeliversEveryPage
PROPERTIES
  StoreSpec
  EveryReadReturns
