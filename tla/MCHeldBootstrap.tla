-------------------------- MODULE MCHeldBootstrap --------------------------
(* Small instances of HeldBootstrap. *)
EXTENDS HeldBootstrap

CONSTANTS m1, m2, p1, p2

OneMember == {m1}
TwoMembers == {m1, m2}
Second == {m2}
None == {}
TwoPoints == {p1, p2}
=============================================================================
