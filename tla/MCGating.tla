------------------------------ MODULE MCGating ------------------------------
(* Small instances of Gating. *)
EXTENDS Gating

CONSTANTS actor, boss, deputy

Everyone == {actor, boss, deputy}
BossToDeputy == boss :> deputy

Ask(tier, finding, requested, timeout, notified) ==
  [tier |-> tier, finding |-> finding, actor |-> actor,
   requested |-> requested, timeout |-> timeout, notified |-> notified]

(* A request of the boss with a window below the minimum, one of anybody    *)
(* with a window above the maximum, and an evaluation that only uses up an  *)
(* identity.                                                                *)
SomeRequests ==
  {Ask("R3", "clear", boss, 0, TRUE), Ask("R3", "clear", None, 9, FALSE),
   Ask("R1", "invalid_origin", None, 0, FALSE)}

(* The boss vouched for by the host, a deputy who holds the boss's          *)
(* identity, and one who also holds the actor's.                            *)
SomeDeciders ==
  {[principal |-> boss, held |-> {}, local |-> TRUE],
   [principal |-> deputy, held |-> {boss}, local |-> FALSE],
   [principal |-> deputy, held |-> {boss, actor}, local |-> FALSE]}
=============================================================================
