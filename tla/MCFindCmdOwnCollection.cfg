SPECIFICATION FindSpec
CONSTANTS
  r1 = r1
  r2 = r2
  Requests = {r1, r2}
  Namespaces <- MCNamespaces
  Versions <- MCVersions
  MaxWaiters = 2
  MaxVersionGap = 1
  NoRequest = NoRequest
  Collections = {c1, c2}
  Operators = {"$gt"}
  Bounds = {1}
  MaxWrites = 0
INVARIANT ReplyOwnCollection
