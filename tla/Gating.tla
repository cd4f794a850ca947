------------------------------- MODULE Gating -------------------------------
(***************************************************************************)
(* The gating owner of runtime/gating.rs: pending approvals with their     *)
(* deadlines and escalations, the bounded audit log, the identities minted *)
(* under the owner's epoch, and the snapshot a trusted host saves and      *)
(* gives to the next owner process.                                        *)
(*                                                                         *)
(* Every call holds the owner exclusively and is one action.  It first     *)
(* applies the timeouts, then does its own work, and its notices leave     *)
(* when it ends: delivered by the call itself, or handed to the caller by  *)
(* decide_gating_action_authorized, which may deliver them after those of  *)
(* later calls.  `issued' therefore keeps them without an order.           *)
(*                                                                         *)
(* An identity is <<epoch, sequence>>; the kinds (action, pending, audit)  *)
(* share the sequence.  Routing and delivery of the approval request are   *)
(* reduced to whether a notification was attempted: what the delivery      *)
(* owner answers changes only the text of one audit entry.  The wall clock *)
(* is taken to be monotone.  Version 1 snapshots are left out.             *)
(***************************************************************************)
EXTENDS Integers, Sequences, FiniteSets, SequencesExt

CONSTANTS
  None,            \* no requested approver, no identity, no snapshot
  People,          \* actors, principals and approver identities
  Routes,          \* GatingEscalationRoutes.routes: approver -> successor
  DefaultRoute,    \* GatingEscalationRoutes.default, or None
  Requests,        \* the evaluations callers ask for
  Deciders,        \* the deciders that present themselves
  TimeoutMin,      \* GATING_APPROVAL_TIMEOUT_MIN_MS
  TimeoutMax,      \* GATING_APPROVAL_TIMEOUT_MAX_MS
  PendingMax,      \* GATING_PENDING_MAX_RETAINED
  AuditMax,        \* GATING_AUDIT_MAX_RETAINED
  SequenceLimit,   \* u64::MAX
  MaxTime,         \* bound: the last instant of the clock
  MaxOwners        \* bound: owner processes in a behaviour

IdsPerEvaluation == 4
IdsPerDecision == 3

(* <<epoch, sequence>>; the n-th owner process has epoch n.                 *)
Ids == (1 .. MaxOwners) \X (0 .. SequenceLimit)

ASSUME GatingAssumption ==
  /\ {TimeoutMin, TimeoutMax, PendingMax, AuditMax, MaxOwners} \subseteq Nat \ {0}
  /\ TimeoutMin <= TimeoutMax
  /\ {SequenceLimit, MaxTime} \subseteq Nat
  /\ None \notin People \cup Nat \cup Ids
  /\ \A person \in DOMAIN Routes : Routes[person] \in People
  /\ DefaultRoute \in People \cup {None}
  /\ Requests \subseteq
       [tier : {"R1", "R2", "R3"},
        finding : {"clear", "invalid_origin", "conflict"},
        actor : People, requested : People \cup {None}, timeout : Nat,
        notified : BOOLEAN]
  /\ Deciders \subseteq
       [principal : People, held : SUBSET People, local : BOOLEAN]

VARIABLES
  now,       \* current_time_ms
  owner,     \* how many owner processes have started
  epoch,     \* gating_epoch of this owner; None without entropy at boot
  seq,       \* gating_sequence
  pending,   \* gating_pending
  order,     \* gating_pending_order
  audit,     \* gating_audit
  issued,    \* history: every resolution notice produced
  minted,    \* history: every gate ever opened
  saved      \* the snapshot the host keeps, or None

clock == <<now, owner, epoch>>
vars == <<now, owner, epoch, seq, pending, order, audit, issued, minted,
          saved>>

(***************************************************************************)
(* The owner's state as one value, threaded through a call.  `ok' turns    *)
(* false when an identity could not be minted: the call stops there.       *)
(***************************************************************************)
Owner ==
  [seq |-> seq, pending |-> pending, order |-> order, audit |-> audit,
   issued |-> issued, minted |-> minted, ok |-> TRUE]

Becomes(s) ==
  /\ seq' = s.seq
  /\ pending' = s.pending
  /\ order' = s.order
  /\ audit' = s.audit
  /\ issued' = s.issued
  /\ minted' = s.minted

IdsAvailable(s, n) == epoch # None /\ s.seq + n <= SequenceLimit

NextId(s) == <<epoch, s.seq>>

Mint(s) ==
  IF s.ok /\ IdsAvailable(s, 1)
  THEN [s EXCEPT !.seq = @ + 1]
  ELSE [s EXCEPT !.ok = FALSE]

(* One entry too many kept.                                                 *)
NewestPlusOne(log) ==
  IF Len(log) > AuditMax + 1
  THEN SubSeq(log, Len(log) - AuditMax, Len(log)) ELSE log

Newest(log) ==
  IF Len(log) > AuditMax
  THEN SubSeq(log, Len(log) - AuditMax + 1, Len(log)) ELSE log

AppendAudit(s, event, gate) ==
  LET entry == [id |-> NextId(s), event |-> event, gate |-> gate]
      m == Mint(s)
  IN IF m.ok THEN [m EXCEPT !.audit = Newest(Append(@, entry))] ELSE m

Drop(f, S) == [id \in DOMAIN f \ S |-> f[id]]

(* retain: the members of queue that are in S, in their order.              *)
Retain(queue, S) ==
  LET places == {i \in DOMAIN queue : queue[i] \in S}
      Rank(i) == Cardinality({j \in places : j <= i})
  IN [k \in 1 .. Cardinality(places) |->
        queue[CHOOSE i \in places : Rank(i) = k]]

Discard(queue, S) == Retain(queue, ToSet(queue) \ S)

Close(s, id) ==
  [s EXCEPT !.pending = Drop(@, {id}), !.order = Discard(@, {id})]

Closing(id, cause, next, by, person) ==
  [gate |-> id, cause |-> cause, approved |-> cause = "approval_decided",
   next |-> next, by |-> by, person |-> person]

Announce(s, notice) ==
  IF s.ok THEN [s EXCEPT !.issued = @ \cup {notice}] ELSE s

-----------------------------------------------------------------------------
(* Timeouts                                                                 *)

Overdue(s) == {id \in DOMAIN s.pending : now >= s.pending[id].deadline}

Smaller(a, b) == IF a <= b THEN a ELSE b

(* Each lapse takes an audit identity: without one the entry stays pending  *)
(* and the sweep ends.                                                      *)
Lapses(s) ==
  IF epoch = None THEN 0
  ELSE Smaller(Cardinality(Overdue(s)), SequenceLimit - s.seq)

(* The gates of `lapsed', a sequence, fall back one after the other.        *)
Sweep(s, lapsed) ==
  LET Logged(k) == [id |-> <<epoch, s.seq + k - 1>>,
                    event |-> "timeout_fallback", gate |-> lapsed[k]]
  IN [s EXCEPT !.seq = @ + Len(lapsed),
               !.pending = Drop(@, ToSet(lapsed)),
               !.order = Discard(@, ToSet(lapsed)),
               !.audit = Newest(@ \o [k \in DOMAIN lapsed |-> Logged(k)]),
               !.issued = @ \cup {Closing(id, "timeout_fallback", None, None, None) :
                                     id \in ToSet(lapsed)}]

(* Mutant: no call applies the timeouts.                                    *)
RefreshNothing(s) == {s}

(* What refresh_gating_timeouts can leave of s: the sweep goes through the  *)
(* map by the text of the identities, whose epochs are random, hence in     *)
(* some order.                                                              *)
Refresh(s) ==
  {Sweep(s, lapsed) : lapsed \in Injection(1 .. Lapses(s), Overdue(s))}

(* A full table drops its oldest gate: no audit entry, no notice.           *)
Upsert(s, id, entry) ==
  LET queue == Append(Discard(s.order, {id}), id)
      kept == IF Len(queue) > PendingMax
              THEN SubSeq(queue, Len(queue) - PendingMax + 1, Len(queue))
              ELSE queue
      With(f) == [x \in DOMAIN f \cup {id} |-> IF x = id THEN entry ELSE f[x]]
  IN [s EXCEPT !.order = kept,
               !.pending = Drop(With(@), ToSet(queue) \ ToSet(kept)),
               !.minted = With(@)]

-----------------------------------------------------------------------------
(* Evaluation                                                               *)

Clamp(asked) ==
  IF asked < TimeoutMin THEN TimeoutMin
  ELSE IF asked > TimeoutMax THEN TimeoutMax ELSE asked

Entry(r) ==
  [actor |-> r.actor, requested |-> r.requested, created |-> now,
   deadline |-> now + Clamp(r.timeout)]

(* The R3 branch: the gate and its audit are committed before anything is   *)
(* published, and the notification adds an audit entry of its own.          *)
OpenGate(s, r) ==
  LET id == NextId(s)
      named == Mint(s)
      held == IF named.ok THEN Upsert(named, id, Entry(r)) ELSE named
      logged == AppendAudit(held, "pending_created", id)
  IN IF r.notified THEN AppendAudit(logged, "approval_notification", id)
     ELSE logged

(* finding: what the checks before the tier decide.  A malformed origin is  *)
(* refused without an audit entry, a memory conflict or a failed conflict   *)
(* lookup (R2 and R3 only) with one.                                        *)
Evaluation(s, r) ==
  LET named == Mint(s)
  IN CASE r.finding = "invalid_origin" -> named
       [] r.finding = "conflict" /\ r.tier # "R1" ->
            AppendAudit(named, "conflict_blocked", None)
       [] r.tier = "R3" -> OpenGate(named, r)
       [] OTHER -> AppendAudit(named, "evaluated", None)

(* No identities reserved before the evaluation begins.                     *)
EvaluateUnreserved(r) ==
  /\ r.tier = "R3" => now + Clamp(r.timeout) <= MaxTime
  /\ \E s \in Refresh(Owner) : Becomes(Evaluation(s, r))
  /\ UNCHANGED <<clock, saved>>

Evaluate(r) ==
  /\ r.tier = "R3" => now + Clamp(r.timeout) <= MaxTime
  /\ \E s \in Refresh(Owner) :
       Becomes(IF IdsAvailable(s, IdsPerEvaluation) THEN Evaluation(s, r) ELSE s)
  /\ UNCHANGED <<clock, saved>>

-----------------------------------------------------------------------------
(* Decisions                                                                *)

(* decider is [principal, held], or [principal, held = {}] with local TRUE  *)
(* for a host that vouches for the approver id it names.                    *)
ApproverId(entry, decider) ==
  IF ~decider.local /\ entry.requested \in decider.held
  THEN entry.requested ELSE decider.principal

ActorDecides(entry, decider) ==
  entry.actor = decider.principal
    \/ (~decider.local /\ entry.actor \in decider.held)

SuccessorFor(requested) ==
  IF requested \in DOMAIN Routes THEN Routes[requested] ELSE DefaultRoute

Refused(entry, decision, decider) ==
  \/ decision = "approve" /\ ActorDecides(entry, decider)
  \/ entry.requested # None /\ entry.requested # ApproverId(entry, decider)
  \/ decision = "escalate" /\ SuccessorFor(entry.requested) = None

(* A successor with a full approval window of its own.                      *)
SuccessorRenewed(entry) ==
  [entry EXCEPT !.requested = SuccessorFor(entry.requested),
                !.created = now,
                !.deadline = IF now + TimeoutMax > MaxTime THEN MaxTime
                             ELSE now + TimeoutMax]

Successor(entry) ==
  [entry EXCEPT !.requested = SuccessorFor(entry.requested), !.created = now]

EventOf(decision) ==
  CASE decision = "approve" -> "approval_decided"
    [] decision = "reject" -> "rejection_decided"
    [] OTHER -> "escalation_decided"

Decision(s, id, decision, decider) ==
  LET entry == s.pending[id]
      taken == Close(s, id)
      next == NextId(taken)
      named == Mint(taken)
      moved == IF named.ok
               THEN AppendAudit(Upsert(named, next, Successor(entry)),
                                "pending_created", next)
               ELSE named
      settled == IF decision = "escalate" THEN moved ELSE taken
  IN Announce(AppendAudit(settled, EventOf(decision), id),
              Closing(id, EventOf(decision),
                      IF decision = "escalate" THEN next ELSE None,
                      ApproverId(entry, decider), decider.principal))

(* decide_gating_action, its authenticated form, and the form under a       *)
(* caller's authorization fence, whose refusal is a Poll.                   *)
Decide(id, decision, decider) ==
  /\ id \in DOMAIN minted
  /\ \E s \in Refresh(Owner) :
       Becomes(IF /\ IdsAvailable(s, IdsPerDecision)
                  /\ id \in DOMAIN s.pending
                  /\ ~Refused(s.pending[id], decision, decider)
               THEN Decision(s, id, decision, decider) ELSE s)
  /\ UNCHANGED <<clock, saved>>

(* Listing, reading the audit, a refused authorization.                     *)
Poll ==
  /\ \E s \in Refresh(Owner) : Becomes(s)
  /\ UNCHANGED <<clock, saved>>

-----------------------------------------------------------------------------
(* Persistence by the host                                                  *)

Snapshot(s) ==
  [epoch |-> epoch, next |-> s.seq,
   pending |-> LET listed == Retain(s.order, DOMAIN s.pending)
               IN [i \in DOMAIN listed |->
                     [id |-> listed[i], entry |-> s.pending[listed[i]]]],
   audit |-> s.audit]

Save ==
  /\ \E s \in Refresh(Owner) : Becomes(s) /\ saved' = Snapshot(s)
  /\ UNCHANGED clock

(* Only the exporting owner's identities have a frontier.                   *)
ValidId(snapshot, id) == id[1] = snapshot.epoch => id[2] < snapshot.next

Resolutions == {"approval_decided", "rejection_decided",
                "escalation_decided", "timeout_fallback"}

Valid(snapshot) ==
  LET ids == {snapshot.pending[i].id : i \in DOMAIN snapshot.pending}
      logs == {snapshot.audit[i].id : i \in DOMAIN snapshot.audit}
  IN /\ Len(snapshot.pending) <= PendingMax
     /\ Len(snapshot.audit) <= AuditMax
     /\ Cardinality(ids) = Len(snapshot.pending)
     /\ Cardinality(logs) = Len(snapshot.audit)
     /\ \A id \in ids \cup logs : ValidId(snapshot, id)
     /\ \A i \in DOMAIN snapshot.pending :
          snapshot.pending[i].entry.deadline
            >= snapshot.pending[i].entry.created
     /\ \A i \in DOMAIN snapshot.audit :
          snapshot.audit[i].event \in Resolutions =>
            snapshot.audit[i].gate \notin ids

Pristine == seq = 0 /\ pending = <<>> /\ order = <<>> /\ audit = <<>>

Restored(snapshot) ==
  LET ids == {snapshot.pending[i].id : i \in DOMAIN snapshot.pending}
      Of(id) == CHOOSE p \in ToSet(snapshot.pending) : p.id = id
  IN [Owner EXCEPT
        !.order = [i \in DOMAIN snapshot.pending |-> snapshot.pending[i].id],
        !.pending = [id \in ids |-> Of(id).entry],
        !.audit = snapshot.audit]

Restore ==
  /\ saved # None
  /\ Pristine
  /\ \E s \in (IF Valid(saved) THEN Refresh(Restored(saved)) ELSE {Owner}) :
       Becomes(s)
  /\ UNCHANGED <<clock, saved>>

(* A new process: a fresh random epoch, or none when entropy failed.        *)
Restart ==
  /\ owner < MaxOwners
  /\ owner' = owner + 1
  /\ epoch' \in {owner + 1, None}
  /\ Becomes([Owner EXCEPT !.seq = 0, !.pending = <<>>, !.order = <<>>,
                           !.audit = <<>>])
  /\ UNCHANGED <<now, saved>>

Tick == now < MaxTime /\ now' = now + 1 /\ UNCHANGED
          <<owner, epoch, seq, pending, order, audit, issued, minted, saved>>

-----------------------------------------------------------------------------
Init ==
  /\ now = 0
  /\ owner = 1
  /\ epoch = 1
  /\ seq = 0
  /\ pending = <<>>
  /\ order = <<>>
  /\ audit = <<>>
  /\ issued = {}
  /\ minted = <<>>
  /\ saved = None

Next ==
  \/ \E r \in Requests : Evaluate(r)
  \/ \E id \in DOMAIN minted, decision \in {"approve", "reject", "escalate"},
        decider \in Deciders :
       Decide(id, decision, decider)
  \/ Poll
  \/ Save
  \/ Restore
  \/ Restart
  \/ Tick

Spec == Init /\ [][Next]_vars

(* Somebody keeps calling: a connected console stream re-reads the audit    *)
(* every GATING_STREAM_RECHECK, and the clock does not stop.                *)
FairSpec == Spec /\ WF_vars(Poll) /\ WF_vars(Tick)

-----------------------------------------------------------------------------
(* Properties                                                               *)

EntryType ==
  [actor : People, requested : People \cup {None}, created : 0 .. MaxTime,
   deadline : 0 .. MaxTime]

(* The state is well formed, and the table and its order list the same      *)
(* gates (gating_pending and gating_pending_order are updated side by side  *)
(* in five places).                                                         *)
TypeOK ==
  /\ now \in 0 .. MaxTime
  /\ owner \in 1 .. MaxOwners
  /\ epoch \in (1 .. MaxOwners) \cup {None}
  /\ seq \in 0 .. SequenceLimit
  /\ DOMAIN minted \subseteq Ids
  /\ \A id \in DOMAIN minted : minted[id] \in EntryType
  /\ \A id \in DOMAIN pending : pending[id] \in EntryType
  /\ ToSet(order) = DOMAIN pending
  /\ Len(order) = Cardinality(DOMAIN pending)
  /\ Len(order) <= PendingMax
  /\ Len(audit) <= AuditMax

(* An evaluation or a decision is never cut off half way by an exhausted    *)
(* sequence: a gate this owner opened has its pending_created entry, unless *)
(* the bounded audit has since dropped it.  Otherwise the caller would be   *)
(* told safe_draft while the gate it asked for stands.                      *)
NoUnloggedGate ==
  \A id \in DOMAIN pending :
    \/ id[1] # epoch
    \/ Len(audit) = AuditMax
    \/ \E e \in ToSet(audit) : e.event = "pending_created" /\ e.gate = id

(* Whatever calls, expiries, escalations and earlier restores came before,  *)
(* the snapshot the owner would export now passes the validation of         *)
(* restore_gating_state: a host that saves can always bring its gates back. *)
SnapshotRestorable == \A s \in Refresh(Owner) : Valid(Snapshot(s))

(* Again and again no gate is overdue, so that each is decided or falls     *)
(* back in time, while somebody keeps polling and the owner can mint the    *)
(* identity to record it ("the timeout-fallback guarantee must stay         *)
(* reachable").                                                             *)
GatesResolve == []<>(Overdue(Owner) = {} \/ ~IdsAvailable(Owner, 1))

GateOf(entry) ==
  [actor |-> entry.actor, requested |-> entry.requested,
   deadline |-> entry.deadline]

Gates ==
  INSTANCE ApprovalGates WITH
    Nobody <- None,
    Timeouts <- TimeoutMin .. TimeoutMax,
    Capacity <- PendingMax,
    open <- [id \in DOMAIN pending |-> GateOf(pending[id])],
    minted <- [id \in DOMAIN minted |-> GateOf(minted[id])]

(* The owner keeps what ApprovalGates promises: through restarts and        *)
(* restored snapshots an identity never names two gates, a gate is decided  *)
(* only before its deadline and by somebody entitled to, an escalation      *)
(* extends nothing, and every closing but an eviction is announced.         *)
ImplementsGates == Gates!Spec

(* The owner's tables agree: the map and the order list the same gates,     *)
(* within their limits, and the audit log knows every gate.                 *)
TablesAgree == TypeOK /\ NoUnloggedGate
=============================================================================
