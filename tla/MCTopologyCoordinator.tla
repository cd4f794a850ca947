----------------------- MODULE MCTopologyCoordinator -----------------------
(* Small instances of TopologyCoordinator. *)
EXTENDS TopologyCoordinator, TLC

(* Keys are only compared.  The action property is checked step by step,   *)
(* and a permutation of the keys maps the steps that satisfy it to one     *)
(* another, so that the reduction is sound for it as for the invariants.   *)
KeySymmetry == Permutations(Keys)
=============================================================================
