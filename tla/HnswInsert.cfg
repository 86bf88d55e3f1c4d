SPECIFICATION Spec
CONSTANTS
  Threads = {t1, t2}
  NoThread = none
  MaxElements = 4
  M = 2
  EfConstruction = 2
  MaxLevel = 1
SYMMETRY ThreadSymmetry
INVARIANTS
  NoCircularWait
  NothingThrows
  AppendsOnce
  EntryIsHighest
  InsertedIsReached
CHECK_DEADLOCK FALSE
