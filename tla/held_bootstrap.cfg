SPECIFICATION FairSpec
CONSTANTS
  m1 = m1  m2 = m2  p1 = p1  p2 = p2
  Roster <- TwoMembers
  Guests <- OneMember
  OwedBefore <- Second
  Slots = 1
  StallPoints <- TwoPoints
  MaxConsecutive = 2
  TotalPerConsecutive = 2
CHECK_DEADLOCK FALSE
INVARIANTS
  PassSound
  NoneBeforeAllHeld
PROPERTIES
  DecisionBinds
  SetupEnds
  SlotsNeverBlock
