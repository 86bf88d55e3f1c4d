SPECIFICATION FairSpec
CONSTANTS
  NodeCount = 5
  NodesPerPage = 2
  MaxDegree = 2
  Graph <- MCGraph
  IdLimit = 6
  BeamLimit = 2
  MaxVisits = 5
INVARIANTS
  EachPageReadOnce
PROPERTIES
  StoreSpec
  ReadsReturn
