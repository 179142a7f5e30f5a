SPECIFICATION Spec
CONSTANTS
  Units = {u1, u2, u3}
  Keys = {k1, r1}
  RecordKeys = {r1}
  MaxWrites = 2
  NoUnit = NoUnit
SYMMETRY UnitSymmetry
INVARIANTS
  NoLostUpdate
  CommitInvariants
  ActiveSnapshotsSorted
PROPERTY
  ImplementsSnapshotIsolation
