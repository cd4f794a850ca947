SPECIFICATION Spec
CONSTANTS
  None = None
  Gone = Gone
  Runtimes = {r1}
  Operations <- AllOperations
  Faults = {"store", "ack", "bridge", "lease", "release"}
  ExternalBinding = TRUE
  LocalProvider = TRUE
  InitialRow = None
  MaxToken = 4
  MaxGeneration = 2
CHECK_DEADLOCK FALSE
INVARIANTS
  TypeOK
  NoInvisibleOwner
  HolderIsCurrent
  CommittedGenerationKept
  DeletedStaysDeleted
