SPECIFICATION Spec
CONSTANTS
  c1 = c1
  c2 = c2
  path1 = path1
  path2 = path2
  a1 = a1
  a2 = a2
  None = None
  Clients = {c1, c2}
  Paths = {path1, path2}
  Addresses = {a1, a2}
  Configs <- MCConfigs
  Requests <- MCRequests
  Conns = {k1, k2}
  MaxUpstreams = 2
  MaxUpdates = 1
  MaxRequests = 3
INVARIANTS
  FairShare
  AnsweredByRoute
  ConnectionsFit
PROPERTIES
  RequestsAnswered
