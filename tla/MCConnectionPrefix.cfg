SPECIFICATION Spec
CONSTANTS
  Streams <- MCStreams
  Max = 8
  Preface = 3
INVARIANTS
  HeaderTakenOff
  VersionDetected
  RefusedOnlyWhenFull
PROPERTIES
  ConnectionsDecided
