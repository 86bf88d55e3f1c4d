SPECIFICATION MCSpec
CONSTANTS
  PageSize = 4
  Layouts <- MCLayouts
  PageLimit = 8
  IdLimit = 4
  BatchLimit = 2
  NodeCount = 4
  L = 2
  BeamWidth = 2
  ChunkSize = 2
  K = 1
  Rerank = 2
  Graphs <- MCGraphs
  Distances <- MCDistances
  Bounds <- MCBounds
INVARIANTS
  RecordsAreTheirOwn
  ErrorsHaveACause
  EachPageReadOnce
  PoolPagesHeld
PROPERTIES
  SameAsGatedSearch
  SearchReturns
CHECK_DEADLOCK FALSE
