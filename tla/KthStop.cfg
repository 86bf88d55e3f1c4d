SPECIFICATION KSpec
CONSTANTS
  NodeCount = 3
  L = 2
  K = 1
  BeamWidth = 1
  EarlyStopHops = 0
  Start = 0
  Graphs <- MCGraphs
  Distances <- MCDistances
  Bounds <- MCBounds
INVARIANT TopKCannotChange
CHECK_DEADLOCK FALSE
