SPECIFICATION Spec
CONSTANTS
  None = None
  MaxLength = 2
  MaxGeneration = 1
  MaxToken = 2
  MaxVersion = 6
  Consumers <- OneChannel
CHECK_DEADLOCK FALSE
INVARIANTS
  TypeOK
  AcknowledgedWriteHeld
  ParkedRowsCompletable
  AgreesWithStore
PROPERTIES
  LateWritesChangeNothing
