SPECIFICATION Spec
CONSTANTS
  Binaries = {A, B}
  Graphs = {g1, g2}
  Points <- MCPoints
  Required <- MCRequired
  Roles = {"shared_baseline", "ours_native"}
  MaxMeasured = 2
  NoFile = NoFile
  Partial = Partial
INVARIANTS
  MixedIndexRefused
  OneBinaryUnlessSwitched
  ListedRowsAreVerified
SYMMETRY Symmetry
