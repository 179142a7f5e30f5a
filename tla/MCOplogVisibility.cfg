CONSTANTS
  Txns = {t1, t2}
  Readers = {r1}
  Waiters = {w1}
  MaxBatch = 2
  MaxRecord = 4
SPECIFICATION LiveSpec
INVARIANTS ReaderSeesNoHole SurvivesInOrder ErasedOnce WaitedForIsVisible
PROPERTIES EveryWaitEnds
