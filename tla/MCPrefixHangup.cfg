SPECIFICATION Spec
CONSTANTS
  Streams <- MCStreams
  Max = 8
  Preface = 3
PROPERTIES
  PassedThrough
