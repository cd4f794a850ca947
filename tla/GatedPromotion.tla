--------------------------- MODULE GatedPromotion ---------------------------
(***************************************************************************)
(* The gated promotions of agent memory: the steward's dream               *)
(* (memory/steward.rs), the store it stages into (memory/sqlite_store.rs), *)
(* the gates an operator decides (ApprovalGates) and the operator's own    *)
(* review of quarantined records.  A source is a quarantined record or a   *)
(* mob proposal; a promotion stages a batch that publishes it, opens a     *)
(* gate and keeps a durable row from the gate to the batch, and the        *)
(* gate's resolution commits or discards the batch in a task of its own.   *)
(*                                                                         *)
(* One dream runs at a time (the budget's concurrency ceiling).  A step is *)
(* what happens between two awaits: one transaction of the store, or one   *)
(* call of the gating owner.  The model of the language model is a free    *)
(* choice: any verdict, on any gathered source, any number of times.       *)
(***************************************************************************)
EXTENDS Integers, FiniteSets

CONSTANTS
  Records,     \* quarantined records
  Proposals,   \* mob proposals
  Tainted,     \* the proposals that carried taint: never plainly accepted
  Partitions,  \* "realm"; with per_mob "mob" for every mob and "remainder"
  Faults,      \* the calls that may fail
  Expiry,      \* GATED_PROMOTION_EXPIRY_MS
  Timeouts,    \* the approval timeout of the bridge's gates
  Capacity,    \* GATING_PENDING_MAX_RETAINED
  Steward, Operator, Nobody,
  MaxLive, MaxStages, MaxGates, MaxDirect, MaxMishaps, Horizon   \* bounds

Sources == Records \cup Proposals
Tokens == 1 .. MaxStages
GateIds == 1 .. MaxGates
MaxTime == Horizon + Expiry

ASSUME GatedPromotionAssumption ==
  /\ Records \cap Proposals = {}
  /\ Tainted \subseteq Proposals
  /\ Partitions \subseteq {"realm", "mob", "remainder"}
  /\ Expiry \in Nat /\ Horizon \in Nat
  /\ MaxStages \in Nat /\ MaxGates \in Nat
  /\ Nobody \notin {Steward, Operator} \cup GateIds

VARIABLES
  now, open, minted, issued,   \* the gates: see ApprovalGates
  status,      \* of a record and of a proposal
  published,   \* how often the content of a source became active memory
  batch,       \* the source every batch ever staged would publish
  staged,      \* the batches in the stage table
  rows,        \* pending_promotions, by batch: gate, status and age
  dream,       \* where the dream is, and what it has gathered
  tasks,       \* resolve_gating_notice in flight, one per notice
  committed,   \* history: the batches committed
  buried,      \* history: the records a review or a dream tombstoned
  purpose,     \* history: the batch every gate was opened for
  mishaps      \* failed calls and crashes so far

gateVars == <<now, open, minted, issued>>
store == <<status, published, batch, staged, rows, committed, buried>>
vars == <<gateVars, store, dream, tasks, purpose, mishaps>>

Gates == INSTANCE ApprovalGates
  WITH Ids <- GateIds, People <- {Steward, Operator}

(***************************************************************************)
(* The store.                                                              *)
(***************************************************************************)
Pending(s) == {k \in DOMAIN rows : batch[k] = s /\ rows[k].status = "pending"}

Gated == {s \in Sources : Pending(s) # {}}

Stale(k) == now - rows[k].created >= Expiry

(* The row a gate leads to, if it is still pending: at most one.            *)
RowOf(gate) ==
  {k \in DOMAIN rows : rows[k].gate = gate /\ rows[k].status = "pending"}

Settled(K, outcome) ==
  [k \in DOMAIN rows |->
     IF k \in K THEN [rows[k] EXCEPT !.status = outcome] ELSE rows[k]]

(* Mutant: the validator does not look at the origin again.                 *)
ValidatesAlways(s) == TRUE

(* The validator runs again inside the commit: a batch that tombstones its  *)
(* origin is refused once the origin is tombstoned.                         *)
Validates(s) == s \in Records => status[s] # "tombstoned"

Publishing(s) ==
  /\ published' = [published EXCEPT ![s] = @ + 1]
  /\ status' = IF s \in Records
               THEN [status EXCEPT ![s] = "tombstoned"] ELSE status

(* commit: publish the batch and burn its token.                            *)
Commit(k) ==
  /\ k \in staged
  /\ Validates(batch[k])
  /\ Publishing(batch[k])
  /\ staged' = staged \ {k}
  /\ committed' = committed \cup {k}

(* review_in_tx.  A live promotion refuses everything but an operator's     *)
(* tombstone, which invalidates it; an expired one is expired here.         *)
Review(s, decision, reviewer) ==
  /\ s \in Records
  /\ status[s] = "quarantined"
  /\ \A k \in Pending(s) :
       Stale(k) \/ (decision = "tombstone" /\ reviewer = Operator)
  /\ staged' = staged \ Pending(s)
  /\ rows' = Settled(Pending(s), "expired")
  /\ \/ /\ decision = "release"
        /\ Publishing(s)
        /\ UNCHANGED buried
     \/ /\ decision = "tombstone"
        /\ status' = [status EXCEPT ![s] = "tombstoned"]
        /\ buried' = buried \cup {s}
        /\ UNCHANGED published
  /\ UNCHANGED <<batch, committed>>

(* One call of the store or the owner fails.                                *)
Fails(call) ==
  /\ call \in Faults
  /\ mishaps < MaxMishaps
  /\ mishaps' = mishaps + 1

Works == UNCHANGED mishaps

(***************************************************************************)
(* The dream.                                                              *)
(***************************************************************************)
Idle == [pc |-> "idle", partition |-> "realm", stale |-> {}, seen |-> {},
         gated |-> {}, source |-> Nobody, token |-> 0, gate |-> 0]

At(pc) == dream.pc = pc

Goto(pc) == dream' = [dream EXCEPT !.pc = pc]

(* Proposal verdicts are applied before quarantine verdicts.                *)
Phase(s) == IF s \in Proposals THEN "proposals" ELSE "records"

(* Back to the verdicts with nothing carried over.                          *)
Return ==
  dream' = [dream EXCEPT !.pc = Phase(dream.source), !.source = Nobody,
                         !.token = 0, !.gate = 0]

DreamOnly == UNCHANGED <<gateVars, tasks, purpose>>

(* The sources lie in the scopes of one mob: its run and the whole-realm    *)
(* run see them, the remainder run does not.  Only the latter two look at   *)
(* the pending rows.                                                        *)
Covers(S) == IF dream.partition = "remainder" THEN {} ELSE S

CoversOperatorReview(partition) == partition # "mob"

(* Mutant: no backstop expiry.                                              *)
StartDreamUnexpiring(partition) ==
  /\ At("idle")
  /\ dream' = [Idle EXCEPT !.pc = "expire", !.partition = partition]
  /\ DreamOnly /\ Works /\ UNCHANGED store

(* The dream reads the pending rows and keeps the overdue ones.             *)
StartDream(partition) ==
  /\ At("idle")
  /\ dream' = [Idle EXCEPT
       !.pc = "expire", !.partition = partition,
       !.stale = IF CoversOperatorReview(partition)
                 THEN {[gate |-> rows[k].gate, token |-> k] :
                         k \in {x \in DOMAIN rows :
                                  rows[x].status = "pending" /\ Stale(x)}}
                 ELSE {}]
  /\ DreamOnly /\ Works /\ UNCHANGED store

DiscardStale ==
  /\ At("expire")
  /\ \E old \in dream.stale :
       /\ staged' = staged \ {old.token}
       /\ dream' = [dream EXCEPT !.pc = "settle", !.gate = old.gate,
                                 !.stale = @ \ {old}]
  /\ DreamOnly /\ Works
  /\ UNCHANGED <<status, published, batch, rows, committed, buried>>

SettleStale ==
  /\ At("settle")
  /\ \/ rows' = Settled(RowOf(dream.gate), "expired") /\ Works
     \/ Fails("settle") /\ UNCHANGED rows
  /\ dream' = [dream EXCEPT !.pc = "expire", !.gate = 0]
  /\ DreamOnly
  /\ UNCHANGED <<status, published, batch, staged, committed, buried>>

ReadProposals ==
  /\ At("expire")
  /\ dream.stale = {}
  /\ dream' = [dream EXCEPT
       !.pc = "quarantine",
       !.seen = Covers({p \in Proposals : status[p] \in {"pending", "held"}})]
  /\ DreamOnly /\ Works /\ UNCHANGED store

ReadQuarantine ==
  /\ At("quarantine")
  /\ dream' = [dream EXCEPT
       !.pc = "gates",
       !.seen = @ \cup Covers({r \in Records : status[r] = "quarantined"})]
  /\ DreamOnly /\ Works /\ UNCHANGED store

ReadGates ==
  /\ At("gates")
  /\ dream' = [dream EXCEPT
       !.pc = "consolidate",
       !.gated = IF CoversOperatorReview(dream.partition) THEN Gated ELSE {}]
  /\ DreamOnly /\ Works /\ UNCHANGED store

(* The consolidate group may tombstone any gathered record, gated or not;   *)
(* it lands as a whole or not at all.                                       *)
Consolidate ==
  /\ At("consolidate")
  /\ Goto("proposals")
  /\ \E S \in SUBSET (dream.seen \cap Records) :
       IF \A s \in S : Validates(s)
       THEN /\ status' = [s \in Sources |->
                            IF s \in S THEN "tombstoned" ELSE status[s]]
            /\ buried' = buried \cup S
       ELSE UNCHANGED <<status, buried>>
  /\ DreamOnly /\ Works
  /\ UNCHANGED <<published, batch, staged, rows, committed>>

(* A verdict on a source with a gate in the packet is dropped.              *)
Judged(s) ==
  /\ At(Phase(s))
  /\ s \in dream.seen \ dream.gated

Accept(p) ==
  /\ Judged(p)
  /\ p \in Proposals \ Tainted
  /\ published[p] < MaxDirect
  /\ Publishing(p)
  /\ dream' = [dream EXCEPT !.pc = "accepted", !.source = p]
  /\ DreamOnly /\ Works
  /\ UNCHANGED <<batch, staged, rows, committed, buried>>

(* set_proposal_status is unconditional: whatever was written meanwhile     *)
(* is overwritten.                                                          *)
Mark ==
  /\ dream.pc \in {"accepted", "held"}
  /\ \/ status' = [status EXCEPT ![dream.source] = dream.pc] /\ Works
     \/ Fails("status") /\ UNCHANGED status
  /\ Return
  /\ DreamOnly
  /\ UNCHANGED <<published, batch, staged, rows, committed, buried>>

RejectOrHold(p, verdict) ==
  /\ Judged(p)
  /\ p \in Proposals
  /\ status' = [status EXCEPT ![p] = verdict]
  /\ DreamOnly /\ Works
  /\ UNCHANGED <<published, batch, staged, rows, committed, buried, dream>>

StewardReview(r, decision) ==
  /\ Judged(r)
  /\ Review(r, decision, Steward)
  /\ DreamOnly /\ Works
  /\ UNCHANGED dream

NextGate == Cardinality(DOMAIN minted) + 1

(* The bounds: a promotion that starts finds a token, a gate and the time   *)
(* for its row to expire.                                                   *)
RoomToPromote ==
  /\ Cardinality(DOMAIN batch) < MaxStages
  /\ NextGate <= MaxGates
  /\ now <= Horizon

(* stage_gated_promotion, first await: one pending gate per source; a       *)
(* failed read is taken for "none".                                         *)
Promote(s) ==
  /\ Judged(s)
  /\ RoomToPromote
  /\ IF s \in Gated THEN Fails("dedup") ELSE Works
  /\ dream' = [dream EXCEPT !.pc = "stage", !.source = s]
  /\ DreamOnly
  /\ UNCHANGED store

Stage ==
  /\ At("stage")
  /\ LET s == dream.source
         k == Cardinality(DOMAIN batch) + 1
     IN \/ /\ Validates(s)
           /\ batch' = Gates!With(batch, k, s)
           /\ staged' = staged \cup {k}
           /\ dream' = [dream EXCEPT !.pc = "gate", !.token = k]
        \/ /\ ~Validates(s)
           /\ Return
           /\ UNCHANGED <<batch, staged>>
  /\ DreamOnly /\ Works
  /\ UNCHANGED <<status, published, rows, committed, buried>>

(* The resolutions a call of the gating owner produces, each handed to a    *)
(* task of its own: their order is nobody's promise.                        *)
Task(notice) ==
  [notice |-> notice, pc |-> "lookup", token |-> 0, outcome |-> "none"]

Spawn(notices) == tasks' = tasks \cup {Task(n) : n \in notices}

Lapses == {Gates!Lapse(id) : id \in Gates!Overdue}


(* The bridge: tier R3, no requested approver.  The owner may refuse or     *)
(* answer without a gate.                                                   *)
Enqueue ==
  /\ At("gate")
  /\ \/ /\ \E timeout \in Timeouts :
             Gates!Create(Gates!Overdue, NextGate,
               [actor |-> Steward, requested |-> Nobody,
                deadline |-> now + timeout])
        /\ Spawn(Lapses)
        /\ purpose' = Gates!With(purpose, NextGate, dream.token)
        /\ dream' = [dream EXCEPT !.pc = "row", !.gate = NextGate]
        /\ Works
     \/ /\ Fails("gate")
        /\ Goto("unstage")
        /\ UNCHANGED <<gateVars, tasks, purpose>>
  /\ UNCHANGED store

(* record_pending_promotion: the gate is already open.                      *)
RecordRow ==
  /\ At("row")
  /\ \/ /\ rows' = Gates!With(rows, dream.token,
             [gate |-> dream.gate, status |-> "pending", created |-> now])
        /\ IF dream.source \in Proposals THEN Goto("held") ELSE Return
        /\ Works
     \/ /\ Fails("row")
        /\ Goto("unstage")
        /\ UNCHANGED rows
  /\ DreamOnly
  /\ UNCHANGED <<status, published, batch, staged, committed, buried>>

Unstage ==
  /\ At("unstage")
  /\ staged' = staged \ {dream.token}
  /\ Return
  /\ DreamOnly /\ Works
  /\ UNCHANGED <<status, published, batch, rows, committed, buried>>

(* The reply is finite, and any reply may be empty or fail to parse.        *)
EndVerdicts ==
  /\ \/ At("proposals") /\ Goto("records")
     \/ At("records") /\ dream' = Idle
  /\ DreamOnly /\ Works /\ UNCHANGED store

(***************************************************************************)
(* resolve_gating_notice, one task per notice.                             *)
(***************************************************************************)
Becomes(t, u) == tasks' = (tasks \ {t}) \cup {u}

Ends(t) == tasks' = tasks \ {t}

TaskOnly == UNCHANGED <<gateVars, dream, purpose>>

(* Mutant: whatever was not escalated is committed.                         *)
RouteUnapproved(notice) == IF notice.next # Nobody THEN "rekey" ELSE "commit"

Route(notice) ==
  IF notice.approved THEN "commit"
  ELSE IF notice.next # Nobody THEN "rekey" ELSE "discard"

Lookup(t) ==
  /\ t.pc = "lookup"
  /\ \/ /\ \E k \in RowOf(t.notice.gate) :
             Becomes(t, [t EXCEPT !.pc = Route(t.notice), !.token = k])
        /\ Works
     \/ RowOf(t.notice.gate) = {} /\ Ends(t) /\ Works
     \/ Fails("lookup") /\ Ends(t)
  /\ TaskOnly /\ UNCHANGED store

(* Mutant: a refused commit is settled like an accepted one.                *)
CommittingAnyway(t) ==
  /\ t.pc = "commit"
  /\ Becomes(t, [t EXCEPT !.pc = "settle", !.outcome = "committed"])
  /\ \/ Commit(t.token)
     \/ /\ ~(t.token \in staged /\ Validates(batch[t.token]))
        /\ UNCHANGED <<status, published, staged, committed>>
  /\ TaskOnly /\ Works
  /\ UNCHANGED <<batch, rows, buried>>

Committing(t) ==
  /\ t.pc = "commit"
  /\ \/ /\ Commit(t.token)
        /\ Becomes(t, [t EXCEPT !.pc = "settle", !.outcome = "committed"])
        /\ Works
     \/ /\ \/ ~(t.token \in staged /\ Validates(batch[t.token])) /\ Works
           \/ Fails("commit")
        /\ Becomes(t, [t EXCEPT !.pc = "settle", !.outcome = "expired"])
        /\ UNCHANGED <<status, published, staged, committed>>
  /\ TaskOnly
  /\ UNCHANGED <<batch, rows, buried>>

(* An escalation moves the row to the successor, if it is still pending.    *)
Rekey(t) ==
  /\ t.pc = "rekey"
  /\ \/ /\ rows' = [k \in DOMAIN rows |->
              IF k \in RowOf(t.notice.gate)
              THEN [rows[k] EXCEPT !.gate = t.notice.next] ELSE rows[k]]
        /\ Works
     \/ Fails("rekey") /\ UNCHANGED rows
  /\ Ends(t)
  /\ TaskOnly
  /\ UNCHANGED <<status, published, batch, staged, committed, buried>>

Discard(t) ==
  /\ t.pc = "discard"
  /\ staged' = staged \ {t.token}
  /\ Becomes(t, [t EXCEPT !.pc = "settle",
       !.outcome = IF t.notice.cause = "timeout_fallback"
                   THEN "expired" ELSE "denied"])
  /\ TaskOnly /\ Works
  /\ UNCHANGED <<status, published, batch, rows, committed, buried>>

(* A commit resolves its proposal whether or not the row could be settled;  *)
(* a denial only if it settled the row.                                     *)
ResolvesProposal(t, settled) ==
  /\ batch[t.token] \in Proposals
  /\ \/ t.outcome = "committed"
     \/ t.outcome = "denied" /\ settled

Settle(t) ==
  /\ t.pc = "settle"
  /\ \E settled \in BOOLEAN :
       /\ \/ /\ settled = (RowOf(t.notice.gate) # {})
             /\ rows' = Settled(RowOf(t.notice.gate), t.outcome)
             /\ Works
          \/ Fails("settle") /\ ~settled /\ UNCHANGED rows
       /\ IF ResolvesProposal(t, settled)
          THEN Becomes(t, [t EXCEPT !.pc = "proposal"]) ELSE Ends(t)
  /\ TaskOnly
  /\ UNCHANGED <<status, published, batch, staged, committed, buried>>

ResolveProposal(t) ==
  /\ t.pc = "proposal"
  /\ \/ /\ status' = [status EXCEPT ![batch[t.token]] =
              IF t.outcome = "committed" THEN "accepted" ELSE "rejected"]
        /\ Works
     \/ Fails("status") /\ UNCHANGED status
  /\ Ends(t)
  /\ TaskOnly
  /\ UNCHANGED <<published, batch, staged, rows, committed, buried>>

TaskStep(t) ==
  \/ Lookup(t)
  \/ Committing(t)
  \/ Rekey(t)
  \/ Discard(t)
  \/ Settle(t)
  \/ ResolveProposal(t)

(***************************************************************************)
(* The operator, the clock, the gating owner and the process.              *)
(***************************************************************************)
OperatorReview(r, decision) ==
  /\ Review(r, decision, Operator)
  /\ UNCHANGED <<gateVars, dream, tasks, purpose, mishaps>>

OperatorDecides(id, cause) ==
  /\ Gates!Decide(Gates!Overdue, id, cause, Operator, Operator)
  /\ Spawn(Lapses \cup {Gates!Closing(id, cause, Nobody, Operator, Operator)})
  /\ UNCHANGED <<store, dream, purpose, mishaps>>

OperatorEscalates(id) ==
  /\ dream.pc \in {"stage", "gate"} => NextGate < MaxGates
  /\ Gates!Escalate(Gates!Overdue, id, NextGate, Operator, Operator, Operator)
  /\ Spawn(Lapses \cup {Gates!Closing(id, "escalation_decided", NextGate,
                                      Operator, Operator)})
  /\ purpose' = Gates!With(purpose, NextGate, purpose[id])
  /\ UNCHANGED <<store, dream, mishaps>>

Poll ==
  /\ Gates!Overdue # {}
  /\ Gates!Poll(Gates!Overdue)
  /\ Spawn(Lapses)
  /\ UNCHANGED <<store, dream, purpose, mishaps>>

(* Time is bounded so that every row created can still expire.              *)
Tick ==
  /\ now < MaxTime
  /\ dream.pc \in {"stage", "gate", "row"} => now < Horizon
  /\ Gates!Tick
  /\ UNCHANGED <<store, dream, tasks, purpose, mishaps>>

(* The process dies and comes back: the dream and the tasks are gone, the   *)
(* store drops stages no pending row points to once they are old, and the   *)
(* host may hand the new owner a snapshot of the gates it once saw open.    *)
Crash(kept, swept) ==
  /\ mishaps < MaxMishaps
  /\ mishaps' = mishaps + 1
  /\ kept \subseteq DOMAIN minted
  /\ Cardinality(kept) <= Capacity
  /\ \A n \in issued : ~({n.gate, n.next} \subseteq kept)
  /\ open' = [id \in kept |-> minted[id]]
  /\ staged' = staged \ swept
  /\ \A k \in swept : k \in DOMAIN rows => rows[k].status # "pending"
  /\ dream' = Idle
  /\ tasks' = {}
  /\ UNCHANGED <<now, minted, issued, status, published, batch, rows,
                 committed, buried, purpose>>

Init ==
  /\ Gates!Init
  /\ \E live \in SUBSET Sources :
       /\ Cardinality(live) <= MaxLive
       /\ status = [s \in Sources |->
                      IF s \in live
                      THEN IF s \in Records THEN "quarantined" ELSE "pending"
                      ELSE IF s \in Records THEN "tombstoned" ELSE "rejected"]
  /\ published = [s \in Sources |-> 0]
  /\ batch = <<>> /\ staged = {} /\ rows = <<>>
  /\ dream = Idle /\ tasks = {}
  /\ committed = {} /\ buried = {} /\ purpose = <<>>
  /\ mishaps = 0

Verdict ==
  \/ \E p \in Proposals :
       \/ Accept(p)
       \/ \E verdict \in {"rejected", "held"} : RejectOrHold(p, verdict)
  \/ \E r \in Records, decision \in {"release", "tombstone"} :
       StewardReview(r, decision)
  \/ \E s \in Sources : Promote(s)

(* What the dream does whatever the reply says.                             *)
DreamStep ==
  \/ DiscardStale
  \/ SettleStale
  \/ ReadProposals
  \/ ReadQuarantine
  \/ ReadGates
  \/ Consolidate
  \/ Mark
  \/ Stage
  \/ Enqueue
  \/ RecordRow
  \/ Unstage

Next ==
  \/ \E partition \in Partitions : StartDream(partition)
  \/ DreamStep
  \/ Verdict
  \/ EndVerdicts
  \/ \E t \in tasks : TaskStep(t)
  \/ \E r \in Records, decision \in {"release", "tombstone"} :
       OperatorReview(r, decision)
  \/ \E id \in DOMAIN open :
       \/ \E cause \in {"approval_decided", "rejection_decided"} :
            OperatorDecides(id, cause)
       \/ OperatorEscalates(id)
  \/ Poll
  \/ Tick
  \/ \E kept \in SUBSET DOMAIN minted, swept \in SUBSET staged :
       Crash(kept, swept)

Spec == Init /\ [][Next]_vars

(* A realm that keeps receiving signals keeps dreaming, among others the    *)
(* runs that own promotion review, a started dream runs to its end, and     *)
(* time passes.  Nothing is assumed of the tasks, the gates or the          *)
(* operator: the backstop alone must settle every row.                      *)
FairSpec ==
  /\ Spec
  /\ WF_vars(Tick)
  /\ WF_vars(DreamStep)
  /\ WF_vars(EndVerdicts)
  /\ SF_vars(\E partition \in {x \in Partitions : CoversOperatorReview(x)} :
               StartDream(partition))

(***************************************************************************)
(* Properties.                                                             *)
(***************************************************************************)
Row == [gate : GateIds, status : {"pending", "committed", "denied", "expired"},
        created : 0 .. MaxTime]

(* Types, and the references between the tables: a row points to a batch    *)
(* that was staged and to a gate opened for that very batch, a live stage   *)
(* is a batch that was not committed, and no two pending rows share a gate. *)
TypeOK ==
  /\ now \in 0 .. MaxTime
  /\ DOMAIN open \subseteq DOMAIN minted /\ DOMAIN minted \subseteq GateIds
  /\ DOMAIN status = Sources
  /\ \A r \in Records : status[r] \in {"quarantined", "tombstoned"}
  /\ \A p \in Proposals :
       status[p] \in {"pending", "held", "accepted", "rejected"}
  /\ DOMAIN batch \subseteq Tokens
  /\ staged \subseteq DOMAIN batch \ committed
  /\ DOMAIN rows \subseteq DOMAIN batch
  /\ \A k \in DOMAIN rows : rows[k] \in Row /\ purpose[rows[k].gate] = k
  /\ \A t \in tasks : t.pc # "lookup" => t.token \in DOMAIN rows

(* A quarantined record is decided once: its content is published at most   *)
(* once, by a release or by an approved promotion, and never after a review *)
(* or a dream tombstoned it, however late the approval's task runs.         *)
OneOutcome ==
  \A r \in Records :
    /\ published[r] <= 1
    /\ r \in buried => published[r] = 0
    /\ published[r] = 1 => status[r] = "tombstoned"

(* Nothing staged behind a gate is published without an approval of a gate  *)
(* opened for that batch, through escalations, expiries, restarts and the   *)
(* reuse of a stale gate snapshot, and the content of a tainted proposal is *)
(* published in no other way.                                               *)
PublishedWasApproved ==
  /\ \A k \in committed :
       \E n \in issued : n.approved /\ purpose[n.gate] = k
  /\ \A p \in Tainted :
       published[p] = Cardinality({k \in committed : batch[k] = p})

(* What a row says was decided is what happened: a row is committed only if *)
(* its batch was published, and a denied batch was published only if one of *)
(* its gates was resolved twice, which takes a restart with a snapshot older *)
(* than the approval.                                                       *)
ResolvedTwice(k) ==
  \E n, m \in issued : n # m /\ n.gate = m.gate /\ purpose[n.gate] = k

RowsTellTheTruth ==
  \A k \in DOMAIN rows :
    /\ rows[k].status = "committed" => k \in committed
    /\ rows[k].status = "denied" /\ k \in committed => ResolvedTwice(k)

(* "One pending gate per source, ever": the dedup read of                   *)
(* stage_gated_promotion keeps it across dreams, escalations and restarts,  *)
(* while that read works.                                                   *)
OneGatePerSource == \A s \in Sources : Cardinality(Pending(s)) <= 1

(* The backstop: no promotion stays pending for ever, whether its gate was  *)
(* evicted, its notice lost or its process restarted.                       *)
PromotionsSettle ==
  \A k \in Tokens :
    k \in DOMAIN rows /\ rows[k].status = "pending"
      ~> k \in DOMAIN rows /\ rows[k].status # "pending"

(* "A proposal with an in-flight operator gate is never re-verdicted": no   *)
(* step of a dream publishes a proposal that waits behind a gate.           *)
GatedNotReverdicted ==
  [][\A p \in Proposals :
       p \in Gated /\ published'[p] # published[p] => committed' # committed]_vars

(* The tables of a realm refer to each other correctly, their rows tell     *)
(* what was published, and a source has one pending row at most.            *)
RowsSound == TypeOK /\ RowsTellTheTruth /\ OneGatePerSource
=============================================================================
