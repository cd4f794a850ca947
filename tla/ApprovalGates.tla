--------------------------- MODULE ApprovalGates ---------------------------
(***************************************************************************)
(* What the gating owner of runtime/gating.rs promises to everybody who    *)
(* waits behind a gate, without its audit log, its identity sequence and   *)
(* its snapshots: a gate identity names one gate for ever, a gate is       *)
(* closed by one decision of an entitled approver before its deadline or   *)
(* by the deadline, every closing is announced once, an escalation moves   *)
(* the gate to a successor that keeps its deadline, and a full table drops *)
(* a gate without a word.  Gating implements this specification;           *)
(* GatedPromotion uses its actions as the gates of the memory steward.     *)
(*                                                                         *)
(* One call of the owner first lapses what is overdue and then does its    *)
(* own work, so every action takes the set of gates it lapses.             *)
(***************************************************************************)
EXTENDS Integers, FiniteSets

CONSTANTS
  Ids,         \* gate identities
  People,      \* actors, principals and approver identities
  Nobody,      \* no requested approver, no decider
  Timeouts,    \* the durations a gate may be given
  Capacity     \* GATING_PENDING_MAX_RETAINED

VARIABLES
  now,         \* the wall clock, taken to be monotone
  open,        \* the gates in force
  minted,      \* every gate ever opened, whatever became of it
  issued       \* every resolution notice ever produced

gates == <<now, open, minted, issued>>

Gate == [actor : People, requested : People \cup {Nobody}, deadline : Nat]

Closing(id, cause, next, by, person) ==
  [gate |-> id, cause |-> cause, approved |-> cause = "approval_decided",
   next |-> next, by |-> by, person |-> person]

Lapse(id) == Closing(id, "timeout_fallback", Nobody, Nobody, Nobody)

Without(f, S) == [id \in DOMAIN f \ S |-> f[id]]

With(f, id, gate) ==
  [x \in DOMAIN f \cup {id} |-> IF x = id THEN gate ELSE f[x]]

Overdue == {id \in DOMAIN open : now >= open[id].deadline}

(* An overdue gate lapses with the next call, and so is never decided.      *)
InForce(id, lapsed) ==
  id \in DOMAIN open \ lapsed /\ now < open[id].deadline

(* Who may decide: the requested approver if there is one, and for an       *)
(* approval nobody who is, or speaks for, the actor.                        *)
Entitled(gate, cause, by, person) ==
  /\ gate.requested \in {Nobody, by}
  /\ cause = "approval_decided" => gate.actor \notin {by, person}

Dropped(full) ==
  IF Cardinality(DOMAIN full) > Capacity
  THEN {{id} : id \in DOMAIN full} ELSE {{}}

Init ==
  /\ now = 0
  /\ minted = <<>>
  /\ open = <<>>
  /\ issued = {}

Tick == now' = now + 1 /\ UNCHANGED <<open, minted, issued>>

Poll(lapsed) ==
  /\ lapsed \subseteq Overdue
  /\ open' = Without(open, lapsed)
  /\ issued' = issued \cup {Lapse(id) : id \in lapsed}
  /\ UNCHANGED <<now, minted>>

(* A gate is opened under an identity no gate ever had.                     *)
Create(lapsed, id, gate) ==
  /\ lapsed \subseteq Overdue
  /\ id \in Ids \ DOMAIN minted
  /\ gate \in Gate
  /\ gate.deadline - now \in Timeouts
  /\ LET full == With(Without(open, lapsed), id, gate)
     IN \E gone \in Dropped(full) :
          id \notin gone /\ open' = Without(full, gone)
  /\ minted' = With(minted, id, gate)
  /\ issued' = issued \cup {Lapse(x) : x \in lapsed}
  /\ UNCHANGED now

Decide(lapsed, id, cause, by, person) ==
  /\ lapsed \subseteq Overdue
  /\ InForce(id, lapsed)
  /\ cause \in {"approval_decided", "rejection_decided"}
  /\ Entitled(open[id], cause, by, person)
  /\ open' = Without(open, lapsed \cup {id})
  /\ issued' = issued \cup {Lapse(x) : x \in lapsed}
                      \cup {Closing(id, cause, Nobody, by, person)}
  /\ UNCHANGED <<now, minted>>

(* The successor differs from the gate it replaces in its identity and in   *)
(* whom it asks: the actor and the deadline are inherited.                  *)
Escalate(lapsed, id, next, successor, by, person) ==
  /\ lapsed \subseteq Overdue
  /\ InForce(id, lapsed)
  /\ next \in Ids \ DOMAIN minted
  /\ successor \in People
  /\ Entitled(open[id], "escalation_decided", by, person)
  /\ LET gate == [open[id] EXCEPT !.requested = successor]
     IN /\ minted' = With(minted, next, gate)
        /\ open' = With(Without(open, lapsed \cup {id}), next, gate)
  /\ issued' = issued \cup {Lapse(x) : x \in lapsed}
       \cup {Closing(id, "escalation_decided", next, by, person)}
  /\ UNCHANGED now

(* A new owner process begins with nothing.                                 *)
Restart == open' = <<>> /\ UNCHANGED <<now, minted, issued>>

(* The host may give it the gates of a snapshot it kept, which may be older *)
(* than the last decisions: what is overdue lapses at once.                 *)
Restore ==
  /\ open = <<>>
  /\ \E kept \in SUBSET DOMAIN minted :
     \E lapsed \in SUBSET {id \in kept : now >= minted[id].deadline} :
       /\ open' = [id \in kept \ lapsed |-> minted[id]]
       /\ issued' = issued \cup {Lapse(id) : id \in lapsed}
  /\ UNCHANGED <<now, minted>>

(* The gates a step opens.                                                  *)
Opened == DOMAIN minted' \ DOMAIN minted

Call ==
  \E lapsed \in SUBSET Overdue :
    \/ Poll(lapsed)
    \/ \E id \in Opened : Create(lapsed, id, minted'[id])
    \/ \E id \in DOMAIN open, by, person \in People :
       \/ \E cause \in {"approval_decided", "rejection_decided"} :
            Decide(lapsed, id, cause, by, person)
       \/ \E next \in Opened :
            Escalate(lapsed, id, next, minted'[next].requested, by, person)

Next == Tick \/ Call \/ Restart \/ Restore

Spec == Init /\ [][Next]_gates
=============================================================================
