SPECIFICATION SharedSpec
CONSTANTS
  Configs <- MCConfigs
  Stem <- MCStem
  NoFile = NoFile
  Partial = Partial
INVARIANTS
  UsesOwnGraphUnlessTorn
  CompletedBuildIsReused
