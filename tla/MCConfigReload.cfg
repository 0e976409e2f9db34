SPECIFICATION Spec
CONSTANTS
  NumWorkers = 2
  a = a
  b = b
  s1 = s1
  s2 = s2
  bad = bad
  vacant = vacant
  crash = crash
  flaky = flaky
  heavy = heavy
  p = p
  q = q
  Paths = {p, q}
  Malformed = {}
  Clashes <- MCClashes
  WeightMax = 4
  OverflowChecks = FALSE
  None = None
  Header = Header
  Garbage = Garbage
  Names = {a, b}
  Services = {s1, s2, bad, vacant, crash, flaky, heavy}
  BuildOutcomes <- MCBuildOutcomes
  ListenerOutcomes <- MCListenerOutcomes
  Files <- MCFiles
  MaxWrites = 3
INVARIANTS
  StableAgreement
  CommitReady
PROPERTIES
  ImplementsRolling
  ReloadConverges
  ServesWithAllWorkers
  FailsForCause
