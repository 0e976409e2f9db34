SPECIFICATION Spec
CONSTANTS
  Names = {a, b}
  Services = {s1, s2, s3, s4}
  Slots = {l1, l2, l3}
  Conns = {c1}
  None = None
INVARIANTS
  LoopsMatchSites
  StagedFromCurrent
PROPERTIES
  ImplementsCommands
  StoppedLoopsEnd
  NewConnectionsUseLatest
