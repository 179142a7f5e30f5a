CONSTANTS
  Txns = {t1, t2, t3}
  Readers = {}
  Waiters = {}
  MaxBatch = 2
  MaxRecord = 4
  SizeOf <- MCSizeOf
  CappedMaxSize = 2
  MaxDocs = 1
  MaxDeletes = 2
  Background = Background
SPECIFICATION DeleteSpec
SYMMETRY DeleteSymmetry
INVARIANTS DeletesOnlyVisible CounterIsExact KeepsUpToCap
