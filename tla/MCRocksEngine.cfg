SPECIFICATION Spec
CONSTANTS
  Oplog = oplog
  Idents = {c, oplog}
  Units = {u1, u2}
  kSyncEvery = 2
  MaxPrefix = 5
  MaxLog = 3
  MaxRestarts = 2
SYMMETRY UnitSymmetry
INVARIANTS
  PrefixesAreOwn
  FilterSparesLive
  DroppedIsMarked
  CountersAreRight
CHECK_DEADLOCK FALSE
