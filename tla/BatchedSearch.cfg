SPECIFICATION BSpec
CONSTANTS
  NodeCount = 4
  L = 2
  BeamWidth = 2
  EarlyStopHops = 1
  Start = 0
  BatchSize = 2
  Graphs <- MCGraphs
  Distances <- MCDistances
  Bounds <- MCBounds
PROPERTY ParityWithLegacy
CHECK_DEADLOCK FALSE
