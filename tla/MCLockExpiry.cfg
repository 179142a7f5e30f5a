SPECIFICATION Spec
CONSTANTS
  p1 = p1
  s1 = s1
  s2 = s2
  Threads = {t1, t2}
  Sessions = {s1, s2}
  Processes = {p1}
  ProcessOf <- MCProcessOf
  NoEntry = NoEntry
  Expiration = 3
  MaxTrip = 2
  Skews <- MCSkews
  MaxTime = 3
  MaxElections = 1
SYMMETRY ExpirySymmetry
INVARIANTS
  ExpiredOnlyIfSilent
PROPERTY SilentOwnerExpires
CHECK_DEADLOCK FALSE
