SPECIFICATION Spec
CONSTANTS
  None = None
  Gone = Gone
  Runtimes = {r1}
  Operations <- WithoutReacquisition
  Faults = {"read", "bridge", "lease", "release"}
  ExternalBinding = FALSE
  LocalProvider = FALSE
  InitialRow = None
  MaxToken = 4
  MaxGeneration = 1
CHECK_DEADLOCK FALSE
INVARIANTS
  GrantsAccounted
PROPERTIES
  ResumeFirst
