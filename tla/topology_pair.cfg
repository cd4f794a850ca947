SPECIFICATION Spec
CONSTANTS
  None = None
  First = A
  Second = B
  Edges = {e1}
  Keys = {k1, k2}
  Faults = {"persist", "actuate", "abort"}
  ReceiptLimit = 1
  HistoryLimit = 1
  MaxRevision = 2
  MaxCrashes = 1
  MaxRewires = 1
SYMMETRY KeySymmetry
INVARIANTS
  JournalSound
  PairAgrees
  OncePerKey
  RoutesIntent
PROPERTIES
  DecisionIrrevocable
