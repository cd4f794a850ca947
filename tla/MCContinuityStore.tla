------------------------- MODULE MCContinuityStore -------------------------
(* Small instances of ContinuityStore. *)
EXTENDS ContinuityStore, TLC

CONSTANTS i1, i2, s1, s2, d1, d2, x1

OneIdentity == {i1}
TwoIdentities == {i1, i2}
OneSession == {s1}
TwoSessions == {s1, s2}
OneDoc == {d1}
TwoDocs == {d1, d2}
NoOpaque == {}
OneOpaque == {x1}

Symmetry == Permutations(Docs) \cup Permutations(Identities)
            \cup Permutations(Sessions)
=============================================================================
