SPECIFICATION H2Spec
CONSTANTS
  Streams = {s1, s2, s3}
  Error = error
  MaxErrors = 2
INVARIANTS
  NobodyStarved
  NoRequestAbandoned
PROPERTIES
  StreamsAnswered
  ConnectionEnds
