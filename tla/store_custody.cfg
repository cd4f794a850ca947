SPECIFICATION Spec
CONSTANTS
  i1 = i1  i2 = i2  s1 = s1  s2 = s2  d1 = d1  d2 = d2  x1 = x1
  NoRow = NoRow
  Identities <- TwoIdentities
  Sessions <- TwoSessions
  Docs <- TwoDocs
  OpaqueDocs <- OneOpaque
  MaxGeneration = 1
  MaxVersion = 1
  MaxToken = 0
SYMMETRY Symmetry
CHECK_DEADLOCK FALSE
INVARIANTS
  TypeOK
  OneOwner
  CrossingLosesNoSession
