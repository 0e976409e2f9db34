SPECIFICATION Spec
CONSTANTS
  Requests <- MCRequests
  HeaderTimeout = TRUE
  KeepTimeout = TRUE
  BodyTimeout = TRUE
  MaxRequests = 3
  MaxWire = 3
INVARIANTS
  RequestsFramed
  AccompanyPolledOnce
PROPERTIES
  PersistenceAgreed
  RequestsAnswered
  HangupEnds
