SPECIFICATION Spec
CONSTANTS
  l1 = l1
  l2 = l2
  l3 = l3
  p1 = p1
  p2 = p2
  Lockers = {l1, l2, l3}
  Partitions = {p1, p2}
  PartitionOf <- MCPartitionOf
  Globals = {TRUE, FALSE}
  MaxRecursive = 2
  MaxWrap = 1
  TimedConversions = FALSE
SYMMETRY PartnerSymmetry
INVARIANTS
  MutualExclusion
  QueuesAgree
  PartitionedIsIntentOnly
  NoneForgotten
