SPECIFICATION FairSpec
CONSTANTS
  r = r
  p = p
  q = q
  Steward = steward
  Operator = operator
  Nobody = nobody
  Records <- JustR
  Proposals <- BothProposals
  Tainted <- JustQ
  Partitions <- RealmOnly
  Faults <- AllFaults
  Expiry = 2
  Timeouts <- OneTick
  Capacity = 1
  MaxStages = 2
  MaxGates = 2
  MaxDirect = 1
  MaxMishaps = 1
  MaxLive = 1
  Horizon = 0
INVARIANTS
  RowsSound
  OneOutcome
  PublishedWasApproved
PROPERTIES
  PromotionsSettle
