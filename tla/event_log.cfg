SPECIFICATION FairSpec
CHECK_DEADLOCK FALSE
CONSTANTS
  Skipped <- TheSecond
  BatchSize = 2
  ChannelCapacity = 2
  RetryCap = 3
  PageSize = 2
  MaxEvents = 6
  MaxFailures = 3
INVARIANTS
  LogSound
  CursorMissesNothing
PROPERTIES
  EventuallyStored
