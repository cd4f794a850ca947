SPECIFICATION FairSpec
CONSTANTS
  None = None
  actor = actor  boss = boss  deputy = deputy
  People <- Everyone
  Routes <- BossToDeputy
  DefaultRoute = None
  Requests <- SomeRequests
  Deciders <- SomeDeciders
  TimeoutMin = 1
  TimeoutMax = 2
  PendingMax = 2
  AuditMax = 2
  SequenceLimit = 7
  MaxTime = 2
  MaxOwners = 2
CHECK_DEADLOCK FALSE
INVARIANTS
  TablesAgree
  SnapshotRestorable
PROPERTIES
  ImplementsGates
  GatesResolve
