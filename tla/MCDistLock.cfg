SPECIFICATION Spec
CONSTANTS
  a = a
  m = m
  k = k
  n1 = n1
  n2 = n2
  p1 = p1
  p2 = p2
  s1 = s1
  s2 = s2
  Client = {a, m, k}
  Name = {n1, n2}
  Process = {p1, p2}
  Session = {s1, s2}
  NameOf <- MCNameOf
  SessionOf <- MCSessionOf
  ProcessOf <- MCProcessOf
  Reusing = {m, k}
  NoSession = NoSession
  AnyName = AnyName
  kMaxNumLockAcquireRetries = 1
  MaxCalls = 2
  MaxFaults = 2
INVARIANTS
  HolderIsOwner
  NothingLeftBehind
PROPERTY EventuallyReleased
CHECK_DEADLOCK FALSE
