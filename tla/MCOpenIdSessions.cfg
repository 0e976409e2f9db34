SPECIFICATION Spec
CONSTANTS
  None = None
  Requests = {r1, r2}
  Workers = {w1, w2}
  Codes <- MCCodes
  MaxSessions = 2
  MaxRestarts = 1
INVARIANTS
  BlocksOnlyOnForeign
  ServedLoggedIn
PROPERTIES
  SessionsKept
  RequestsAnswered
CHECK_DEADLOCK FALSE
