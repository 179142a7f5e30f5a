CONSTANTS
  r1 = r1
  r2 = r2
  r3 = r3
  Requests = {r1, r2, r3}
  Namespaces = {n1}
  Versions = {1, 2, 3}
  MaxWaiters = 2
  MaxVersionGap = 1
  NoRequest = NoRequest
SPECIFICATION MCLiveSpec
INVARIANTS WaiterTracked NoDefaultAnswer AnswerFromOwnGroup OneLeader
PROPERTIES DeliveredIsFinal FollowerServed EveryCallReturns
