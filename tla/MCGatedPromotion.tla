------------------------- MODULE MCGatedPromotion -------------------------
EXTENDS GatedPromotion

CONSTANTS r, p, q

JustR == {r}
JustP == {p}
JustQ == {q}
BothProposals == {p, q}
None == {}
OneTick == {1}
RealmOnly == {"realm"}
PerMob == {"mob", "remainder"}
AllFaults ==
  {"settle", "status", "gate", "row", "lookup", "commit", "rekey"}
=============================================================================
