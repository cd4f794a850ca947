SPECIFICATION Spec
CONSTANTS
  r = r
  p = p
  q = q
  Steward = steward
  Operator = operator
  Nobody = nobody
  Records <- None
  Proposals <- JustP
  Tainted <- None
  Partitions <- PerMob
  Faults <- None
  Expiry = 2
  Timeouts <- OneTick
  Capacity = 1
  MaxLive = 1
  MaxStages = 1
  MaxGates = 1
  MaxDirect = 1
  MaxMishaps = 0
  Horizon = 0
PROPERTY GatedNotReverdicted
