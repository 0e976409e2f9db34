SPECIFICATION Spec
CONSTANTS
  Clients = {c1, c2}
  Links = {i1, i2}
  None = none
  KeepTimeout = TRUE
  MessageTimeout = TRUE
  MaxRequests = 2
INVARIANTS
  ResponsesMatch
  PooledLinksIdle
PROPERTIES
  RequestsAnswered
  HangupEnds
