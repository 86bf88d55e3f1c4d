SPECIFICATION FairSoundSpec
CONSTANTS
  NodeCount = 5
  L = 3
  BeamWidth = 2
  EarlyStopHops = 0
  Start = 0
  Graphs <- MCGraphs
  Distances <- MCDistances
  Bounds <- MCBounds
INVARIANTS
  PoolSorted
  EachNodeOnce
  Closed
PROPERTIES
  RanksNeverWorsen
  SameAsPlainSearch
  Terminates
CHECK_DEADLOCK FALSE
