SPECIFICATION MCFairFindSpec
CONSTANTS
  r1 = r1
  r2 = r2
  Requests = {r1, r2}
  Namespaces <- MCNamespaces
  Versions <- MCVersions
  MaxWaiters = 2
  MaxVersionGap = 1
  NoRequest = NoRequest
  Collections = {c1}
  Operators = {"$gt", "$gte"}
  Bounds = {1, 2, 3}
  MaxWrites = 1
INVARIANTS
  StaleOnlyBehindScan
  RecognisedGapBounded
PROPERTY EveryFindReplies
