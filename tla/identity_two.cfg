SPECIFICATION Spec
CONSTANTS
  None = None
  Gone = Gone
  Runtimes = {r1, r2}
  Operations <- HandoverOperations
  Faults = {"store", "bridge", "attach"}
  ExternalBinding = FALSE
  LocalProvider = FALSE
  InitialRow <- FirstRow
  MaxToken = 3
  MaxGeneration = 1
CHECK_DEADLOCK FALSE
SYMMETRY Symmetric
INVARIANTS
  OneAuthority
