SPECIFICATION Spec
CONSTANTS
  R = 2
  AlphaLevels <- MCLevels
  NodeCount = 5
  L = 3
  BeamWidth = 1
  EarlyStopHops = 0
  PruneCap = 0
  BatchSize = 2
  Passes = 1
  Tables <- MCTables
INVARIANTS
  ListsFit
  SearchedPrefixIsClosed
  OrderDoesNotMatter
  ListsArePruned
CHECK_DEADLOCK FALSE
