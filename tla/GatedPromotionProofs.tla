------------------------ MODULE GatedPromotionProofs ------------------------
(***************************************************************************)
(* What GatedPromotion promises for any number of sources, batches, gates, *)
(* failures and restarts: a quarantined record has one outcome, nothing    *)
(* staged is published without an approval of a gate opened for it, and    *)
(* the rows tell what happened.                                            *)
(*                                                                         *)
(* The three invariants are not inductive.  What a task may do with its    *)
(* batch was decided by a notice long gone and a row it read steps ago, so *)
(* Inv says where a task and the dream stand (TasksAt, DreamAt), ties      *)
(* every gate, row, notice and task to one batch through the history       *)
(* variable purpose (Tables, Noticed), and describes the gates opened for  *)
(* one batch by escalations and restarts (Chained).                        *)
(***************************************************************************)
EXTENDS GatedPromotion, FiniteSetTheorems, TLAPS

(***************************************************************************)
(* The inductive invariant.                                                *)
(***************************************************************************)
Verdicts == {"quarantined", "tombstoned", "pending", "held", "accepted",
             "rejected"}

(* The tables and their references.  Tokens are handed out in order, which  *)
(* is what makes a new one fresh.                                           *)
Tables ==
  /\ now \in 0 .. MaxTime
  /\ DOMAIN open \subseteq DOMAIN minted
  /\ DOMAIN minted \subseteq GateIds
  /\ DOMAIN purpose = DOMAIN minted
  /\ \A g \in DOMAIN purpose : purpose[g] \in DOMAIN batch
  /\ Cardinality(DOMAIN batch) \in Nat
  /\ DOMAIN batch = 1 .. Cardinality(DOMAIN batch)
  /\ DOMAIN batch \subseteq Tokens
  /\ \A k \in DOMAIN batch : batch[k] \in Sources
  /\ committed \subseteq DOMAIN batch
  /\ staged \subseteq DOMAIN batch \ committed

RowsAt ==
  /\ DOMAIN rows \subseteq DOMAIN batch
  /\ \A k \in DOMAIN rows :
       /\ rows[k] \in Row
       /\ rows[k].gate \in DOMAIN purpose
       /\ purpose[rows[k].gate] = k

(* A record is decided at most once, and decided for good.                  *)
Decided ==
  /\ status \in [Sources -> Verdicts]
  /\ published \in [Sources -> Nat]
  /\ buried \subseteq Records
  /\ \A p \in Proposals :
       status[p] \in {"pending", "held", "accepted", "rejected"}
  /\ \A r \in Records :
       /\ status[r] \in {"quarantined", "tombstoned"}
       /\ published[r] # 0 => published[r] = 1 /\ status[r] = "tombstoned"
       /\ r \in buried => published[r] = 0 /\ status[r] = "tombstoned"

Dreams ==
  [pc : {"idle", "expire", "settle", "quarantine", "gates", "consolidate",
         "proposals", "records", "accepted", "held", "stage", "gate", "row",
         "unstage"},
   partition : {"realm", "mob", "remainder"},
   stale : SUBSET [gate : GateIds, token : Tokens],
   seen : SUBSET Sources, gated : SUBSET Sources,
   source : Sources \cup {Nobody}, token : Nat, gate : GateIds \cup {0}]

(* What the dream carries from one await to the next.                       *)
DreamAt ==
  /\ dream \in Dreams
  /\ dream.pc \in {"accepted", "held"} => dream.source \in Proposals
  /\ dream.pc \in {"stage", "gate", "row", "unstage"} =>
       dream.source \in Sources
  /\ dream.pc = "stage" => Cardinality(DOMAIN batch) < MaxStages
  /\ dream.pc \in {"gate", "row"} =>
       /\ dream.token \in DOMAIN batch
       /\ dream.token \notin DOMAIN rows
       /\ batch[dream.token] = dream.source
  /\ dream.pc = "gate" =>
       \A g \in DOMAIN purpose : purpose[g] # dream.token
  /\ dream.pc = "row" =>
       dream.gate \in DOMAIN purpose /\ purpose[dream.gate] = dream.token

Notices ==
  [gate : DOMAIN minted,
   cause : {"timeout_fallback", "approval_decided", "rejection_decided",
            "escalation_decided"},
   approved : BOOLEAN, next : DOMAIN minted \cup {Nobody},
   by : {Steward, Operator, Nobody}, person : {Steward, Operator, Nobody}]

(* An escalation leads to a gate of the same batch and approves nothing.    *)
Noticed ==
  /\ issued \subseteq Notices
  /\ \A n \in issued :
       /\ n.approved => n.next = Nobody
       /\ n.next # Nobody => purpose[n.next] = purpose[n.gate]

Escalated(g) == \E n \in issued : n.gate = g /\ n.next # Nobody

(* Of two gates opened for one batch one was escalated, unless a restart    *)
(* brought back a gate that was already resolved.                           *)
Chained ==
  \A g, h \in DOMAIN purpose :
    g # h /\ purpose[g] = purpose[h] =>
      \/ Escalated(g)
      \/ Escalated(h)
      \/ ResolvedTwice(purpose[g])

Approved(k) == \E n \in issued : n.approved /\ purpose[n.gate] = k

Refused(k) ==
  \E n \in issued : ~n.approved /\ n.next = Nobody /\ purpose[n.gate] = k

TaskStates ==
  [notice : issued,
   pc : {"lookup", "commit", "rekey", "discard", "settle", "proposal"},
   token : Nat, outcome : {"none", "committed", "denied", "expired"}]

(* A task past its lookup works on the batch its gate was opened for, as    *)
(* its notice tells it to.                                                  *)
TaskAt(t) ==
  /\ t.pc # "lookup" =>
       t.token \in DOMAIN rows /\ purpose[t.notice.gate] = t.token
  /\ t.pc = "commit" => t.notice.approved
  /\ t.pc = "rekey" => t.notice.next # Nobody
  /\ t.pc = "discard" => ~t.notice.approved /\ t.notice.next = Nobody
  /\ t.pc \in {"settle", "proposal"} =>
       /\ t.outcome # "none"
       /\ t.outcome = "committed" => t.token \in committed
       /\ t.outcome = "denied" =>
            ~t.notice.approved /\ t.notice.next = Nobody
  /\ t.pc = "proposal" => batch[t.token] \in Proposals

TasksAt == tasks \subseteq TaskStates /\ \A t \in tasks : TaskAt(t)

(* Every outcome on record goes back to a notice.                           *)
Traced ==
  /\ \A k \in committed : Approved(k)
  /\ \A k \in DOMAIN rows :
       /\ rows[k].status = "committed" => k \in committed
       /\ rows[k].status = "denied" => Refused(k)

(* A tainted proposal is published by commits alone.                        *)
Counted ==
  \A p \in Tainted : published[p] = Cardinality({k \in committed : batch[k] = p})

Inv ==
  /\ Tables
  /\ RowsAt
  /\ Decided
  /\ DreamAt
  /\ Noticed
  /\ Chained
  /\ TasksAt
  /\ Traced
  /\ Counted

(* While the read that looks for a pending row never fails: no two pending  *)
(* rows share a source, and none has the source being promoted.             *)
Alone ==
  /\ \A j, k \in DOMAIN rows :
       /\ rows[j].status = "pending" /\ rows[k].status = "pending"
       /\ batch[j] = batch[k]
       => j = k
  /\ dream.pc \in {"stage", "gate", "row"} => Pending(dream.source) = {}

USE GatedPromotionAssumption DEF Sources, Tokens, GateIds, MaxTime

(***************************************************************************)
(* What the operators do.                                                  *)
(***************************************************************************)
(* Settling rows changes the status of those rows and nothing else.         *)
LEMMA SettledFacts ==
  ASSUME \A k \in DOMAIN rows : rows[k] \in Row,
         NEW K, NEW o \in {"committed", "denied", "expired"}
  PROVE  /\ DOMAIN Settled(K, o) = DOMAIN rows
         /\ \A k \in DOMAIN rows :
              /\ Settled(K, o)[k] \in Row
              /\ Settled(K, o)[k].gate = rows[k].gate
              /\ Settled(K, o)[k].status = IF k \in K THEN o ELSE rows[k].status
  BY DEF Settled, Row

(* A gate leads to the batch it was opened for.                             *)
LEMMA RowOfGate ==
  ASSUME RowsAt, NEW g, NEW k \in RowOf(g)
  PROVE  k \in DOMAIN rows /\ purpose[g] = k
  BY DEF RowsAt, RowOf

(***************************************************************************)
(* The histories only grow, and what was read from them stays true.        *)
(***************************************************************************)
Grows ==
  /\ DOMAIN batch \subseteq DOMAIN batch'
  /\ \A k \in DOMAIN batch : batch'[k] = batch[k]
  /\ DOMAIN minted \subseteq DOMAIN minted'
  /\ DOMAIN purpose \subseteq DOMAIN purpose'
  /\ \A g \in DOMAIN purpose : purpose'[g] = purpose[g]
  /\ issued \subseteq issued'
  /\ committed \subseteq committed'
  /\ DOMAIN rows \subseteq DOMAIN rows'

LEMMA NoticeFacts ==
  ASSUME Tables, Noticed, NEW n \in issued
  PROVE  /\ n.gate \in DOMAIN purpose
         /\ n.approved \in BOOLEAN
         /\ n.next \in DOMAIN purpose \cup {Nobody}
         /\ n.approved => n.next = Nobody
         /\ n.next # Nobody => purpose[n.next] = purpose[n.gate]
  BY DEF Tables, Noticed, Notices

LEMMA FoundStays ==
  ASSUME Tables, Noticed, Grows, NEW k
  PROVE  /\ Approved(k) => Approved(k)'
         /\ Refused(k) => Refused(k)'
         /\ ResolvedTwice(k) => ResolvedTwice(k)'
         /\ Escalated(k) => Escalated(k)'
  <1>1. \A n \in issued : n \in issued' /\ purpose'[n.gate] = purpose[n.gate]
    BY NoticeFacts DEF Grows
  <1>2. Approved(k) => Approved(k)'
    BY <1>1 DEF Approved
  <1>3. Refused(k) => Refused(k)'
    BY <1>1 DEF Refused
  <1>4. ResolvedTwice(k) => ResolvedTwice(k)'
    BY <1>1 DEF ResolvedTwice
  <1>5. Escalated(k) => Escalated(k)'
    BY <1>1 DEF Escalated
  <1> QED
    BY <1>2, <1>3, <1>4, <1>5

LEMMA TaskStays ==
  ASSUME Inv, Grows, NEW t \in tasks
  PROVE  t \in TaskStates' /\ TaskAt(t)'
  <1>1. t \in TaskStates /\ TaskAt(t)
    BY DEF Inv, TasksAt
  <1>2. t \in TaskStates'
    BY <1>1 DEF Grows, TaskStates
  <1>3. t.notice \in issued
    BY <1>1 DEF TaskStates
  <1>4. t.notice.gate \in DOMAIN purpose
    BY <1>3, NoticeFacts DEF Inv
  <1>5. t.pc # "lookup" => t.token \in DOMAIN batch
    BY <1>1 DEF TaskAt, Inv, RowsAt
  <1> QED
    BY <1>1, <1>2, <1>4, <1>5 DEF TaskAt, Grows

(***************************************************************************)
(* Steps that move the dream or a task and leave the record alone.         *)
(***************************************************************************)
Recorded == <<now, minted, issued, status, published, batch, rows, committed,
              buried, purpose>>

LEMMA QuietStep ==
  ASSUME Inv, UNCHANGED Recorded, staged' \subseteq staged,
         DOMAIN open' \subseteq DOMAIN minted, DreamAt', TasksAt'
  PROVE  Inv'
  <1> USE DEF Recorded
  <1>1. Tables'
    BY DEF Inv, Tables
  <1>2. RowsAt' /\ Decided' /\ Counted'
    BY DEF Inv, RowsAt, Decided, Counted, Row
  <1>3. Noticed' /\ Chained'
    BY DEF Inv, Noticed, Notices, Chained, Escalated, ResolvedTwice
  <1>4. Traced'
    BY DEF Inv, Traced, Approved, Refused
  <1> QED
    BY <1>1, <1>2, <1>3, <1>4 DEF Inv

LEMMA QuietGrows ==
  ASSUME UNCHANGED Recorded
  PROVE  Grows
  BY DEF Grows, Recorded

(* Tasks that only end, or become others that are where they should be.     *)
LEMMA TasksKept ==
  ASSUME Inv, Grows, NEW S, tasks' \subseteq tasks \cup S,
         \A u \in S : u \in TaskStates' /\ TaskAt(u)'
  PROVE  TasksAt'
  BY TaskStays DEF TasksAt

(* The dream's steps that only read.                                        *)
LEMMA DreamReads ==
  ASSUME Inv, UNCHANGED Recorded, UNCHANGED <<open, tasks>>,
         staged' \subseteq staged, DreamAt'
  PROVE  Inv'
  <1>1. TasksAt'
    <2>1. Grows
      BY QuietGrows
    <2>2. tasks' \subseteq tasks \cup {}
      OBVIOUS
    <2> QED
      BY <2>1, <2>2, TasksKept
  <1>2. DOMAIN open' \subseteq DOMAIN minted
    BY DEF Inv, Tables
  <1> QED
    BY <1>1, <1>2, QuietStep

(* Back to the verdicts: nothing is carried over.                           *)
LEMMA ReturnAt ==
  ASSUME DreamAt, Return
  PROVE  DreamAt'
  <1> DEFINE pc == Phase(dream.source)
  <1>1. pc \in {"proposals", "records"}
    BY DEF Phase
  <1>2. dream' = [dream EXCEPT !.pc = pc, !.source = Nobody, !.token = 0,
                               !.gate = 0]
    BY DEF Return
  <1> HIDE DEF pc
  <1>3. dream' \in Dreams /\ dream'.pc = pc
    BY <1>1, <1>2 DEF DreamAt, Dreams
  <1> QED
    BY <1>1, <1>3 DEF DreamAt, Dreams

LEMMA IdleAt ==
  ASSUME dream' = Idle
  PROVE  DreamAt'
  <1>1. dream' \in Dreams /\ dream'.pc = "idle"
    BY DEF Idle, Dreams
  <1> QED
    BY <1>1 DEF DreamAt, Dreams

(* A step to a place where nothing is carried.                              *)
LEMMA PlainAt ==
  ASSUME dream' \in Dreams,
         dream'.pc \notin {"accepted", "held", "stage", "gate", "row",
                           "unstage"}
  PROVE  DreamAt'
  BY DEF DreamAt, Dreams

LEMMA StepStartDream ==
  ASSUME Inv, NEW partition \in Partitions, StartDream(partition)
  PROVE  Inv'
  <1>1. \A k \in DOMAIN rows :
          [gate |-> rows[k].gate, token |-> k] \in [gate : GateIds, token : Tokens]
    BY DEF Inv, RowsAt, Tables, Row
  <1> DEFINE S == {x \in DOMAIN rows : rows[x].status = "pending" /\ Stale(x)}
             T == {[gate |-> rows[k].gate, token |-> k] : k \in S}
             stale == IF CoversOperatorReview(partition) THEN T ELSE {}
  <1>2. stale \in SUBSET [gate : GateIds, token : Tokens]
    BY <1>1
  <1>3. dream' = [Idle EXCEPT !.pc = "expire", !.partition = partition,
                              !.stale = stale]
    BY DEF StartDream
  <1>4. dream' \in Dreams /\ dream'.pc = "expire"
    <2> HIDE DEF stale
    <2> QED
      BY <1>2, <1>3 DEF Dreams, Idle
  <1>5. DreamAt'
    BY <1>4, PlainAt
  <1> QED
    BY <1>5, DreamReads DEF StartDream, Recorded, DreamOnly, store, gateVars

LEMMA StepDiscardStale ==
  ASSUME Inv, DiscardStale
  PROVE  Inv'
  <1>1. PICK old \in dream.stale :
          /\ staged' = staged \ {old.token}
          /\ dream' = [dream EXCEPT !.pc = "settle", !.gate = old.gate,
                                    !.stale = @ \ {old}]
    BY Zenon DEF DiscardStale
  <1>2. dream \in Dreams
    BY DEF Inv, DreamAt
  <1>3. old.gate \in GateIds
    BY <1>2 DEF Dreams
  <1>4. dream' \in Dreams /\ dream'.pc = "settle"
    BY <1>1, <1>2, <1>3 DEF Dreams
  <1>5. DreamAt'
    BY <1>4, PlainAt
  <1> QED
    BY <1>1, <1>5, DreamReads DEF DiscardStale, Recorded, DreamOnly, gateVars

LEMMA StepReads ==
  ASSUME Inv, ReadProposals \/ ReadQuarantine \/ ReadGates
  PROVE  Inv'
  <1>1. dream \in Dreams
    BY DEF Inv, DreamAt
  <1>2. dream' \in Dreams /\ dream'.pc \in {"quarantine", "gates", "consolidate"}
    <2>1. CASE ReadProposals
      <3> DEFINE S == Covers({p \in Proposals : status[p] \in {"pending", "held"}})
      <3>1. S \subseteq Sources
        BY DEF Covers
      <3>2. dream' = [dream EXCEPT !.pc = "quarantine", !.seen = S]
        BY <2>1 DEF ReadProposals
      <3> HIDE DEF S
      <3> QED
        BY <1>1, <3>1, <3>2 DEF Dreams
    <2>2. CASE ReadQuarantine
      <3> DEFINE S == Covers({r \in Records : status[r] = "quarantined"})
      <3>1. S \subseteq Sources
        BY DEF Covers
      <3>2. dream' = [dream EXCEPT !.pc = "gates", !.seen = dream.seen \cup S]
        BY <2>2 DEF ReadQuarantine
      <3> HIDE DEF S
      <3> QED
        BY <1>1, <3>1, <3>2 DEF Dreams
    <2>3. CASE ReadGates
      <3> DEFINE S == IF CoversOperatorReview(dream.partition) THEN Gated ELSE {}
      <3>1. S \subseteq Sources
        BY DEF Gated
      <3>2. dream' = [dream EXCEPT !.pc = "consolidate", !.gated = S]
        BY <2>3 DEF ReadGates
      <3> HIDE DEF S
      <3> QED
        BY <1>1, <3>1, <3>2 DEF Dreams
    <2> QED
      BY <2>1, <2>2, <2>3
  <1>3. DreamAt'
    BY <1>2, PlainAt
  <1> QED
    BY <1>3, DreamReads
    DEF ReadProposals, ReadQuarantine, ReadGates, Recorded, DreamOnly, store,
        gateVars

LEMMA StepPromote ==
  ASSUME Inv, NEW s \in Sources, Promote(s)
  PROVE  Inv'
  <1>1. dream' \in Dreams /\ dream'.pc = "stage" /\ dream'.source = s
    BY DEF Inv, DreamAt, Dreams, Promote
  <1>2. UNCHANGED batch /\ Cardinality(DOMAIN batch) < MaxStages
    BY DEF Promote, RoomToPromote, store
  <1>3. DreamAt'
    BY <1>1, <1>2 DEF DreamAt
  <1> QED
    BY <1>3, DreamReads DEF Promote, Recorded, DreamOnly, store, gateVars

LEMMA StepUnstage ==
  ASSUME Inv, Unstage
  PROVE  Inv'
  <1>1. DreamAt'
    BY ReturnAt DEF Inv, Unstage
  <1> QED
    BY <1>1, DreamReads DEF Unstage, Recorded, DreamOnly, gateVars

LEMMA StepEndVerdicts ==
  ASSUME Inv, EndVerdicts
  PROVE  Inv'
  <1>1. DreamAt'
    <2>1. CASE At("proposals") /\ Goto("records")
      <3>1. dream' \in Dreams /\ dream'.pc = "records"
        BY <2>1 DEF Inv, DreamAt, Dreams, Goto
      <3> QED
        BY <3>1, PlainAt
    <2>2. CASE dream' = Idle
      BY <2>2, IdleAt
    <2> QED
      BY <2>1, <2>2 DEF EndVerdicts
  <1> QED
    BY <1>1, DreamReads DEF EndVerdicts, Recorded, DreamOnly, store, gateVars

LEMMA StepCrash ==
  ASSUME Inv, NEW kept, NEW swept, Crash(kept, swept)
  PROVE  Inv'
  <1>1. DreamAt'
    BY IdleAt DEF Crash
  <1>2. TasksAt'
    BY DEF Crash, TasksAt
  <1>3. DOMAIN open' \subseteq DOMAIN minted
    BY DEF Crash
  <1> QED
    BY <1>1, <1>2, <1>3, QuietStep DEF Crash, Recorded

(***************************************************************************)
(* Steps that write the store and leave the gates alone.                   *)
(***************************************************************************)
LEMMA StoreStep ==
  ASSUME Inv, UNCHANGED <<gateVars, batch, purpose>>,
         staged' \subseteq staged \ (committed' \ committed),
         committed' \subseteq DOMAIN batch, committed \subseteq committed',
         RowsAt', Decided', DreamAt', TasksAt', Traced', Counted'
  PROVE  Inv'
  <1>1. Tables'
    BY DEF Inv, Tables, gateVars
  <1>2. Noticed' /\ Chained'
    BY DEF Inv, Noticed, Notices, Chained, Escalated, ResolvedTwice, gateVars
  <1> QED
    BY <1>1, <1>2 DEF Inv

LEMMA StoreGrows ==
  ASSUME UNCHANGED <<gateVars, batch, purpose>>, committed \subseteq committed',
         DOMAIN rows' = DOMAIN rows
  PROVE  Grows
  BY DEF Grows, gateVars

LEMMA DreamStays ==
  ASSUME DreamAt, UNCHANGED <<dream, batch, purpose>>, DOMAIN rows' = DOMAIN rows
  PROVE  DreamAt'
  BY DEF DreamAt

LEMMA TasksStay ==
  ASSUME Inv, Grows, tasks' \subseteq tasks
  PROVE  TasksAt'
  <1>1. tasks' \subseteq tasks \cup {}
    OBVIOUS
  <1> QED
    BY <1>1, TasksKept

LEMMA CountStays ==
  ASSUME Inv, UNCHANGED <<batch, committed>>,
         \A p \in Tainted : published'[p] = published[p]
  PROVE  Counted'
  BY DEF Inv, Counted

(* Rows settled with an outcome that happened.                              *)
LEMMA RowsSettled ==
  ASSUME Inv, UNCHANGED <<gateVars, batch, purpose, committed>>,
         NEW K, NEW o \in {"committed", "denied", "expired"},
         rows' = Settled(K, o),
         \A k \in K \cap DOMAIN rows :
           /\ o = "committed" => k \in committed
           /\ o = "denied" => Refused(k)
  PROVE  DOMAIN rows' = DOMAIN rows /\ RowsAt' /\ Traced'
  <1>1. /\ DOMAIN rows' = DOMAIN rows
        /\ \A k \in DOMAIN rows :
             /\ rows'[k] \in Row
             /\ rows'[k].gate = rows[k].gate
             /\ rows'[k].status = IF k \in K THEN o ELSE rows[k].status
    BY SettledFacts DEF Inv, RowsAt
  <1>2. RowsAt'
    BY <1>1 DEF Inv, RowsAt, Row
  <1>3. \A k : /\ Approved(k) => Approved(k)'
               /\ Refused(k) => Refused(k)'
    BY DEF Approved, Refused, gateVars
  <1>4. \A k \in committed' : Approved(k)'
    BY <1>3 DEF Inv, Traced
  <1>5. ASSUME NEW k \in DOMAIN rows'
        PROVE  /\ rows'[k].status = "committed" => k \in committed'
               /\ rows'[k].status = "denied" => Refused(k)'
    <2>1. CASE k \in K
      BY <1>1, <1>3, <2>1
    <2>2. CASE k \notin K
      BY <1>1, <1>3, <2>2 DEF Inv, Traced
    <2> QED
      BY <2>1, <2>2
  <1> QED
    BY <1>1, <1>2, <1>4, <1>5 DEF Traced

LEMMA RowsStay ==
  ASSUME Inv, UNCHANGED <<gateVars, batch, purpose, committed, rows>>
  PROVE  RowsAt' /\ Traced'
  BY DEF Inv, RowsAt, Row, Traced, Approved, Refused, gateVars

LEMMA StepSettleStale ==
  ASSUME Inv, SettleStale
  PROVE  Inv'
  <1> USE DEF SettleStale, DreamOnly
  <1>1. DOMAIN rows' = DOMAIN rows /\ RowsAt' /\ Traced'
    <2>1. CASE rows' = Settled(RowOf(dream.gate), "expired")
      BY <2>1, RowsSettled
    <2>2. CASE UNCHANGED rows
      BY <2>2, RowsStay
    <2> QED
      BY <2>1, <2>2
  <1>2. DreamAt'
    <2>1. dream' \in Dreams /\ dream'.pc = "expire"
      BY DEF Inv, DreamAt, Dreams
    <2> QED
      BY <2>1, PlainAt
  <1>3. TasksAt'
    BY <1>1, StoreGrows, TasksStay
  <1>4. Decided' /\ Counted'
    BY CountStays DEF Inv, Decided
  <1> QED
    BY <1>1, <1>2, <1>3, <1>4, StoreStep DEF Inv, Tables

LEMMA StepConsolidate ==
  ASSUME Inv, Consolidate
  PROVE  Inv'
  <1> USE DEF Consolidate, DreamOnly
  <1>1. DreamAt'
    <2>1. dream' \in Dreams /\ dream'.pc = "proposals"
      BY DEF Inv, DreamAt, Dreams, Goto
    <2> QED
      BY <2>1, PlainAt
  <1>2. Decided'
    <2>1. PICK S \in SUBSET (dream.seen \cap Records) :
            IF \A s \in S : Validates(s)
            THEN /\ status' = [s \in Sources |->
                                 IF s \in S THEN "tombstoned" ELSE status[s]]
                 /\ buried' = buried \cup S
            ELSE UNCHANGED <<status, buried>>
      OBVIOUS
    <2>2. CASE UNCHANGED <<status, buried>>
      BY <2>2 DEF Inv, Decided
    <2>3. CASE /\ \A s \in S : Validates(s)
               /\ status' = [s \in Sources |->
                               IF s \in S THEN "tombstoned" ELSE status[s]]
               /\ buried' = buried \cup S
      <3>1. \A s \in S : s \in Records /\ published[s] = 0
        BY <2>3 DEF Inv, Decided, Validates
      <3> QED
        BY <2>3, <3>1 DEF Inv, Decided, Verdicts
    <2> QED
      BY <2>1, <2>2, <2>3
  <1>3. RowsAt' /\ Traced'
    BY RowsStay
  <1>4. TasksAt'
    BY StoreGrows, TasksStay
  <1>5. Counted'
    BY CountStays
  <1> QED
    BY <1>1, <1>2, <1>3, <1>4, <1>5, StoreStep DEF Inv, Tables

LEMMA StepAccept ==
  ASSUME Inv, NEW p \in Proposals, Accept(p)
  PROVE  Inv'
  <1> USE DEF Accept, DreamOnly
  <1>1. DreamAt'
    <2>1. dream' \in Dreams /\ dream'.pc = "accepted" /\ dream'.source = p
      BY DEF Inv, DreamAt, Dreams
    <2> QED
      BY <2>1 DEF DreamAt
  <1>2. /\ published' = [published EXCEPT ![p] = published[p] + 1]
        /\ UNCHANGED status
    BY DEF Publishing
  <1>3. Decided'
    BY <1>2 DEF Inv, Decided
  <1>4. Counted'
    <2>1. \A q \in Tainted : published'[q] = published[q]
      BY <1>2 DEF Inv, Decided
    <2> QED
      BY <2>1, CountStays
  <1>5. RowsAt' /\ Traced'
    BY RowsStay
  <1>6. TasksAt'
    BY StoreGrows, TasksStay
  <1> QED
    BY <1>1, <1>3, <1>4, <1>5, <1>6, StoreStep DEF Inv, Tables

(* The status of a proposal may be overwritten at any time.                 *)
LEMMA ProposalMarked ==
  ASSUME Inv, NEW p \in Proposals,
         NEW v \in {"pending", "held", "accepted", "rejected"},
         status' = [status EXCEPT ![p] = v], UNCHANGED <<published, buried>>
  PROVE  Decided'
  BY DEF Inv, Decided, Verdicts

LEMMA StepMark ==
  ASSUME Inv, Mark
  PROVE  Inv'
  <1> USE DEF Mark, DreamOnly
  <1>1. DreamAt'
    BY ReturnAt DEF Inv
  <1>2. Decided'
    <2>1. dream.source \in Proposals /\ dream.pc \in {"accepted", "held"}
      BY DEF Inv, DreamAt
    <2>2. CASE status' = [status EXCEPT ![dream.source] = dream.pc]
      BY <2>1, <2>2, ProposalMarked
    <2>3. CASE UNCHANGED status
      BY <2>3 DEF Inv, Decided
    <2> QED
      BY <2>2, <2>3
  <1>3. RowsAt' /\ Traced'
    BY RowsStay
  <1>4. TasksAt'
    BY StoreGrows, TasksStay
  <1>5. Counted'
    BY CountStays
  <1> QED
    BY <1>1, <1>2, <1>3, <1>4, <1>5, StoreStep DEF Inv, Tables

LEMMA StepRejectOrHold ==
  ASSUME Inv, NEW p \in Proposals, NEW v \in {"rejected", "held"},
         RejectOrHold(p, v)
  PROVE  Inv'
  <1> USE DEF RejectOrHold, DreamOnly
  <1>1. DreamAt'
    BY DreamStays DEF Inv
  <1>2. Decided'
    BY ProposalMarked
  <1>3. RowsAt' /\ Traced'
    BY RowsStay
  <1>4. TasksAt'
    BY StoreGrows, TasksStay
  <1>5. Counted'
    BY CountStays
  <1> QED
    BY <1>1, <1>2, <1>3, <1>4, <1>5, StoreStep DEF Inv, Tables

(* A review decides a quarantined record, which was never published.        *)
LEMMA StepReview ==
  ASSUME Inv, NEW r \in Records, NEW decision, NEW reviewer,
         Review(r, decision, reviewer), UNCHANGED <<gateVars, purpose, dream, tasks>>
  PROVE  Inv'
  <1>1. DOMAIN rows' = DOMAIN rows /\ RowsAt' /\ Traced'
    BY RowsSettled DEF Review
  <1>2. Decided' /\ \A p \in Tainted : published'[p] = published[p]
    <2>1. published[r] = 0 /\ status[r] = "quarantined" /\ r \notin buried
      BY DEF Review, Inv, Decided
    <2>2. CASE /\ Publishing(r)
               /\ UNCHANGED buried
      BY <2>1, <2>2 DEF Inv, Decided, Verdicts, Publishing
    <2>3. CASE /\ status' = [status EXCEPT ![r] = "tombstoned"]
               /\ buried' = buried \cup {r}
               /\ UNCHANGED published
      BY <2>1, <2>3 DEF Inv, Decided, Verdicts
    <2> QED
      BY <2>2, <2>3 DEF Review
  <1>3. Counted'
    BY <1>2, CountStays DEF Review
  <1>4. DreamAt'
    BY <1>1, DreamStays DEF Review, Inv
  <1>5. TasksAt'
    BY <1>1, StoreGrows, TasksStay DEF Review
  <1> QED
    BY <1>1, <1>2, <1>3, <1>4, <1>5, StoreStep DEF Inv, Tables, Review

(***************************************************************************)
(* The tasks.                                                              *)
(***************************************************************************)
LEMMA TaskFacts ==
  ASSUME Inv, NEW t \in tasks
  PROVE  /\ t \in TaskStates /\ TaskAt(t)
         /\ t.notice \in issued
         /\ t.notice.gate \in DOMAIN purpose
         /\ t.notice.approved \in BOOLEAN
  <1>1. t \in TaskStates /\ TaskAt(t)
    BY DEF Inv, TasksAt
  <1>2. t.notice \in issued
    BY <1>1 DEF TaskStates
  <1> QED
    BY <1>1, <1>2, NoticeFacts DEF Inv

(* The tasks after one of them moved on.                                    *)
LEMMA TaskBecomes ==
  ASSUME Inv, Grows, NEW t \in tasks, NEW u, Becomes(t, u),
         u \in TaskStates', TaskAt(u)'
  PROVE  TasksAt'
  <1>1. tasks' \subseteq tasks \cup {u}
    BY DEF Becomes
  <1>2. \A x \in {u} : x \in TaskStates' /\ TaskAt(x)'
    BY DEF TaskStates, TaskAt
  <1> QED
    BY <1>1, <1>2, TaskStays DEF TasksAt

LEMMA TaskEnds ==
  ASSUME Inv, Grows, NEW t \in tasks, Ends(t)
  PROVE  TasksAt'
  BY TasksStay DEF Ends

LEMMA StepLookup ==
  ASSUME Inv, NEW t \in tasks, Lookup(t)
  PROVE  Inv'
  <1>0. TaskOnly /\ UNCHANGED store
    BY Zenon DEF Lookup
  <1> USE DEF Recorded
  <1>1. UNCHANGED Recorded /\ UNCHANGED <<open, staged, dream>>
    BY <1>0 DEF TaskOnly, store, gateVars
  <1>2. Grows
    BY <1>1, QuietGrows
  <1>3. TasksAt'
    <2>1. CASE Ends(t)
      BY <1>2, <2>1, TaskEnds
    <2>2. ASSUME NEW k \in RowOf(t.notice.gate),
                 Becomes(t, [t EXCEPT !.pc = Route(t.notice), !.token = k])
          PROVE  TasksAt'
      <3> DEFINE pc == Route(t.notice)
                 u == [t EXCEPT !.pc = pc, !.token = k]
      <3>1. /\ pc \in {"commit", "rekey", "discard"}
            /\ pc = "commit" => t.notice.approved
            /\ pc = "rekey" => t.notice.next # Nobody
            /\ pc = "discard" => ~t.notice.approved /\ t.notice.next = Nobody
        BY DEF Route
      <3>2. k \in DOMAIN rows /\ purpose[t.notice.gate] = k
        BY RowOfGate DEF Inv
      <3>3. k \in Nat
        BY <3>2 DEF Inv, RowsAt, Tables
      <3> HIDE DEF pc
      <3>4. /\ u \in TaskStates
            /\ u.pc = pc /\ u.token = k /\ u.notice = t.notice
        BY <3>1, <3>3, TaskFacts DEF TaskStates
      <3> HIDE DEF u
      <3>5. TaskAt(u)
        BY <3>1, <3>2, <3>4 DEF TaskAt
      <3>6. u \in TaskStates' /\ TaskAt(u)'
        BY <1>1, <3>4, <3>5 DEF TaskStates, TaskAt
      <3>7. Becomes(t, u)
        BY <2>2 DEF u, pc
      <3> QED
        BY <1>2, <3>6, <3>7, TaskBecomes
    <2> QED
      BY Zenon, <2>1, <2>2 DEF Lookup
  <1>4. DreamAt'
    BY <1>1, DreamStays DEF Inv
  <1> QED
    BY <1>1, <1>3, <1>4, QuietStep DEF Inv, Tables

(* A batch is published once, and only if its record is still undecided.    *)
LEMMA CommitFacts ==
  ASSUME Inv, NEW k, Commit(k), UNCHANGED <<batch, buried>>
  PROVE  /\ Decided' /\ Counted'
         /\ k \in DOMAIN batch
         /\ committed' = committed \cup {k}
         /\ staged' = staged \ {k}
  <1>1. k \in DOMAIN batch /\ k \notin committed /\ batch[k] \in Sources
    BY DEF Commit, Inv, Tables
  <1> DEFINE s == batch[k]
  <1>2. /\ published' = [published EXCEPT ![s] = published[s] + 1]
        /\ s \in Records => status' = [status EXCEPT ![s] = "tombstoned"]
        /\ s \notin Records => status' = status
        /\ s \in Records => status[s] # "tombstoned"
    BY DEF Commit, Publishing, Validates
  <1>3. Decided'
    <2> HIDE DEF s
    <2>1. CASE s \in Records
      <3>1. published[s] = 0 /\ s \notin buried
        BY <1>2, <2>1 DEF Inv, Decided
      <3> QED
        BY <1>2, <2>1, <3>1 DEF Inv, Decided, Verdicts
    <2>2. CASE s \in Proposals
      BY <1>2, <2>2 DEF Inv, Decided, Verdicts
    <2> QED
      BY <1>1, <2>1, <2>2 DEF s
  <1>4. ASSUME NEW p \in Tainted
        PROVE  published'[p] = Cardinality({x \in committed' : batch'[x] = p})
    <2> DEFINE C == {x \in committed : batch[x] = p}
    <2>1. IsFiniteSet(C) /\ Cardinality(C) \in Nat
      <3>1. IsFiniteSet(1 .. Cardinality(DOMAIN batch))
        BY FS_Interval DEF Inv, Tables
      <3>2. C \subseteq 1 .. Cardinality(DOMAIN batch)
        BY DEF Inv, Tables
      <3> QED
        BY <3>1, <3>2, FS_Subset, FS_CardinalityType
    <2>2. published[p] = Cardinality(C)
      BY DEF Inv, Counted
    <2>3. CASE s = p
      <3>1. {x \in committed' : batch'[x] = p} = C \cup {k}
        BY <2>3 DEF Commit
      <3>2. k \notin C
        BY <1>1
      <3>3. Cardinality(C \cup {k}) = Cardinality(C) + 1
        BY <2>1, <3>2, FS_AddElement
      <3> QED
        BY <1>1, <1>2, <2>2, <2>3, <3>1, <3>3 DEF Inv, Decided
    <2>4. CASE s # p
      <3>1. {x \in committed' : batch'[x] = p} = C
        BY <2>4 DEF Commit
      <3>2. published'[p] = published[p]
        BY <1>1, <1>2, <2>4 DEF Inv, Decided
      <3> QED
        BY <2>2, <3>1, <3>2
    <2> QED
      BY <2>3, <2>4
  <1>5. Counted'
    BY <1>4 DEF Counted
  <1> QED
    BY <1>1, <1>3, <1>5 DEF Commit

LEMMA StepCommitting ==
  ASSUME Inv, NEW t \in tasks, Committing(t)
  PROVE  Inv'
  <1> USE DEF TaskOnly
  <1>1. /\ UNCHANGED <<gateVars, dream, purpose, batch, rows, buried>>
        /\ t.pc = "commit"
    BY DEF Committing
  <1>2. TaskAt(t) /\ t \in TaskStates /\ t.notice \in issued
    BY TaskFacts
  <1>3. Approved(t.token)
    BY <1>1, <1>2 DEF TaskAt, Approved
  <1>4. RowsAt' /\ DreamAt'
    BY <1>1, DreamStays DEF Inv, RowsAt, Row
  <1>5. CASE /\ Commit(t.token)
             /\ Becomes(t, [t EXCEPT !.pc = "settle", !.outcome = "committed"])
    <2>1. /\ Decided' /\ Counted'
          /\ committed' = committed \cup {t.token}
          /\ staged' = staged \ {t.token}
          /\ t.token \in DOMAIN batch
      BY <1>1, <1>5, CommitFacts
    <2>2. Grows
      BY <1>1, <2>1, StoreGrows
    <2>3. TasksAt'
      <3> DEFINE u == [t EXCEPT !.pc = "settle", !.outcome = "committed"]
      <3>1. /\ u \in TaskStates
            /\ u.pc = "settle" /\ u.outcome = "committed"
            /\ u.token = t.token /\ u.notice = t.notice
        BY <1>2 DEF TaskStates
      <3> HIDE DEF u
      <3>2. u \in TaskStates' /\ TaskAt(u)'
        BY <1>1, <1>2, <2>1, <3>1 DEF TaskAt, TaskStates, gateVars
      <3> QED
        BY <1>5, <2>2, <3>2, TaskBecomes DEF u
    <2>4. Traced'
      <3>1. \A k : /\ Approved(k) => Approved(k)'
                   /\ Refused(k) => Refused(k)'
        BY <1>1 DEF Approved, Refused, gateVars
      <3>2. \A k \in committed' : Approved(k)'
        BY <1>3, <2>1, <3>1 DEF Inv, Traced
      <3> QED
        BY <1>1, <2>1, <3>1, <3>2 DEF Inv, Traced
    <2> QED
      BY <1>1, <1>4, <2>1, <2>3, <2>4, StoreStep DEF Inv, Tables
  <1>6. CASE /\ UNCHANGED <<status, published, staged, committed>>
             /\ Becomes(t, [t EXCEPT !.pc = "settle", !.outcome = "expired"])
    <2>1. UNCHANGED Recorded
      BY <1>1, <1>6 DEF Recorded, gateVars
    <2>2. TasksAt'
      <3> DEFINE u == [t EXCEPT !.pc = "settle", !.outcome = "expired"]
      <3>1. /\ u \in TaskStates
            /\ u.pc = "settle" /\ u.outcome = "expired"
            /\ u.token = t.token /\ u.notice = t.notice
        BY <1>2 DEF TaskStates
      <3> HIDE DEF u
      <3>2. u \in TaskStates' /\ TaskAt(u)'
        BY <1>1, <1>2, <2>1, <3>1 DEF TaskAt, TaskStates, Recorded
      <3> QED
        BY <1>6, <2>1, <3>2, TaskBecomes, QuietGrows DEF u
    <2> QED
      BY <1>1, <1>4, <1>6, <2>1, <2>2, QuietStep DEF Inv, Tables, gateVars
  <1> QED
    BY <1>5, <1>6 DEF Committing

(* An escalation leads the row to another gate of the same batch.           *)
LEMMA StepRekey ==
  ASSUME Inv, NEW t \in tasks, Rekey(t)
  PROVE  Inv'
  <1> USE DEF TaskOnly, Rekey
  <1>1. t.notice.next \in DOMAIN purpose
        /\ purpose[t.notice.next] = purpose[t.notice.gate]
    BY TaskFacts, NoticeFacts DEF Inv, TaskAt
  <1>2. /\ DOMAIN rows' = DOMAIN rows
        /\ \A k \in DOMAIN rows :
             /\ rows'[k] \in Row
             /\ rows'[k].status = rows[k].status
             /\ rows'[k].gate # rows[k].gate =>
                  k \in RowOf(t.notice.gate) /\ rows'[k].gate = t.notice.next
    <2>1. t.notice.next \in GateIds
      BY <1>1 DEF Inv, Tables
    <2>2. \A k \in DOMAIN rows : rows[k] \in Row
      BY DEF Inv, RowsAt
    <2>3. CASE UNCHANGED rows
      BY <2>2, <2>3
    <2>4. CASE rows' = [k \in DOMAIN rows |->
                          IF k \in RowOf(t.notice.gate)
                          THEN [rows[k] EXCEPT !.gate = t.notice.next]
                          ELSE rows[k]]
      BY <2>1, <2>2, <2>4 DEF Row
    <2> QED
      BY <2>3, <2>4
  <1>3. RowsAt'
    <2>1. \A k \in RowOf(t.notice.gate) : purpose[t.notice.gate] = k
      BY RowOfGate DEF Inv
    <2> QED
      BY <1>1, <1>2, <2>1 DEF Inv, RowsAt, Row
  <1>4. Traced'
    <2>1. \A k : /\ Approved(k) => Approved(k)'
                 /\ Refused(k) => Refused(k)'
      BY DEF Approved, Refused, gateVars
    <2> QED
      BY <1>2, <2>1 DEF Inv, Traced
  <1>5. Grows
    BY <1>2, StoreGrows
  <1>6. TasksAt'
    BY <1>5, TaskEnds
  <1>7. DreamAt'
    BY <1>2, DreamStays DEF Inv
  <1>8. Decided' /\ Counted'
    BY CountStays DEF Inv, Decided
  <1> QED
    BY <1>3, <1>4, <1>6, <1>7, <1>8, StoreStep DEF Inv, Tables

LEMMA StepDiscard ==
  ASSUME Inv, NEW t \in tasks, Discard(t)
  PROVE  Inv'
  <1> USE DEF TaskOnly, Discard
  <1>1. UNCHANGED Recorded /\ UNCHANGED <<open, dream>> /\ staged' \subseteq staged
    BY DEF Recorded, gateVars
  <1>2. TaskAt(t) /\ t \in TaskStates
    BY TaskFacts
  <1>3. TasksAt'
    <2> DEFINE o == IF t.notice.cause = "timeout_fallback"
                    THEN "expired" ELSE "denied"
               u == [t EXCEPT !.pc = "settle", !.outcome = o]
    <2>1. o \in {"expired", "denied"}
      OBVIOUS
    <2> HIDE DEF o
    <2>2. /\ u \in TaskStates
          /\ u.pc = "settle" /\ u.outcome = o
          /\ u.token = t.token /\ u.notice = t.notice
      BY <1>2, <2>1 DEF TaskStates
    <2> HIDE DEF u
    <2>3. u \in TaskStates' /\ TaskAt(u)'
      BY <1>1, <1>2, <2>1, <2>2 DEF TaskAt, TaskStates, Recorded
    <2>4. Becomes(t, u)
      BY DEF u, o
    <2> QED
      BY <1>1, <2>3, <2>4, TaskBecomes, QuietGrows
  <1>4. DreamAt'
    BY <1>1, DreamStays DEF Inv, Recorded
  <1> QED
    BY <1>1, <1>3, <1>4, QuietStep DEF Inv, Tables

LEMMA StepSettle ==
  ASSUME Inv, NEW t \in tasks, Settle(t)
  PROVE  Inv'
  <1> USE DEF TaskOnly, Settle
  <1>1. TaskAt(t) /\ t \in TaskStates /\ t.notice \in issued
    BY TaskFacts
  <1>2. t.outcome \in {"committed", "denied", "expired"}
    BY <1>1 DEF TaskAt, TaskStates
  <1>3. DOMAIN rows' = DOMAIN rows /\ RowsAt' /\ Traced'
    <2>1. CASE UNCHANGED rows
      BY <2>1, RowsStay
    <2>2. CASE rows' = Settled(RowOf(t.notice.gate), t.outcome)
      <3>1. ASSUME NEW k \in RowOf(t.notice.gate)
            PROVE  k = t.token
        BY <1>1, RowOfGate DEF Inv, TaskAt
      <3>2. /\ t.outcome = "committed" => t.token \in committed
            /\ t.outcome = "denied" => Refused(t.token)
        BY <1>1 DEF TaskAt, Refused
      <3> QED
        BY <1>2, <2>2, <3>1, <3>2, RowsSettled
    <2> QED
      BY <2>1, <2>2
  <1>4. Grows
    BY <1>3, StoreGrows
  <1>5. TasksAt'
    <2>1. CASE Ends(t)
      BY <1>4, <2>1, TaskEnds
    <2>2. CASE /\ batch[t.token] \in Proposals
               /\ Becomes(t, [t EXCEPT !.pc = "proposal"])
      <3> DEFINE u == [t EXCEPT !.pc = "proposal"]
      <3>1. /\ u \in TaskStates
            /\ u.pc = "proposal" /\ u.outcome = t.outcome
            /\ u.token = t.token /\ u.notice = t.notice
        BY <1>1 DEF TaskStates
      <3> HIDE DEF u
      <3>2. u \in TaskStates' /\ TaskAt(u)'
        BY <1>1, <1>3, <2>2, <3>1 DEF TaskAt, TaskStates, gateVars
      <3> QED
        BY <1>4, <2>2, <3>2, TaskBecomes DEF u
    <2> QED
      BY <2>1, <2>2 DEF ResolvesProposal
  <1>6. DreamAt'
    BY <1>3, DreamStays DEF Inv
  <1>7. Decided' /\ Counted'
    BY CountStays DEF Inv, Decided
  <1> QED
    BY <1>3, <1>5, <1>6, <1>7, StoreStep DEF Inv, Tables

LEMMA StepResolveProposal ==
  ASSUME Inv, NEW t \in tasks, ResolveProposal(t)
  PROVE  Inv'
  <1> USE DEF TaskOnly, ResolveProposal
  <1>1. batch[t.token] \in Proposals
    BY TaskFacts DEF TaskAt
  <1>2. Decided'
    <2> DEFINE v == IF t.outcome = "committed" THEN "accepted" ELSE "rejected"
    <2>1. CASE UNCHANGED status
      BY <2>1 DEF Inv, Decided
    <2>2. CASE status' = [status EXCEPT ![batch[t.token]] = v]
      BY <1>1, <2>2, ProposalMarked
    <2> QED
      BY <2>1, <2>2
  <1>3. RowsAt' /\ Traced'
    BY RowsStay
  <1>4. TasksAt'
    BY StoreGrows, TaskEnds
  <1>5. Counted'
    BY CountStays
  <1>6. DreamAt'
    BY DreamStays DEF Inv
  <1> QED
    BY <1>2, <1>3, <1>4, <1>5, <1>6, StoreStep DEF Inv, Tables

(***************************************************************************)
(* A promotion: stage, open the gate, record the row.                      *)
(***************************************************************************)
LEMMA FreshToken ==
  ASSUME Tables, NEW k, k = Cardinality(DOMAIN batch) + 1
  PROVE  /\ k \in Nat \ DOMAIN batch
         /\ Cardinality(DOMAIN batch \cup {k}) = k
         /\ DOMAIN batch \cup {k} = 1 .. k
  <1>1. k \in Nat \ DOMAIN batch /\ DOMAIN batch \cup {k} = 1 .. k /\ k >= 1
    BY DEF Tables
  <1>2. Cardinality(1 .. k) = k
    BY <1>1, FS_Interval
  <1> QED
    BY <1>1, <1>2

LEMMA StepStage ==
  ASSUME Inv, Stage
  PROVE  Inv'
  <1> USE DEF Stage, DreamOnly
  <1>1. CASE Return /\ UNCHANGED <<batch, staged>>
    <2>1. DreamAt'
      BY <1>1, ReturnAt DEF Inv
    <2> QED
      BY <1>1, <2>1, DreamReads DEF Recorded, gateVars
  <1> DEFINE s == dream.source
             k == Cardinality(DOMAIN batch) + 1
  <1>2. CASE /\ batch' = Gates!With(batch, k, s)
             /\ staged' = staged \cup {k}
             /\ dream' = [dream EXCEPT !.pc = "gate", !.token = k]
    <2>1. /\ k \in Nat \ DOMAIN batch
          /\ Cardinality(DOMAIN batch \cup {k}) = k
          /\ DOMAIN batch \cup {k} = 1 .. k
      BY FreshToken DEF Inv
    <2>2. dream.pc = "stage" /\ s \in Sources /\ k <= MaxStages
      BY DEF At, Inv, DreamAt, Tables
    <2>3. /\ dream' \in Dreams /\ dream'.pc = "gate"
          /\ dream'.source = s /\ dream'.token = k
      BY <1>2, <2>1 DEF Inv, DreamAt, Dreams
    <2> HIDE DEF k, s
    <2>4. /\ DOMAIN batch' = DOMAIN batch \cup {k}
          /\ batch'[k] = s
          /\ \A x \in DOMAIN batch : batch'[x] = batch[x]
      BY <1>2, <2>1 DEF Gates!With
    <2>5. Tables'
      <3>1. Cardinality(DOMAIN batch') \in Nat
            /\ DOMAIN batch' = 1 .. Cardinality(DOMAIN batch')
        BY <2>1, <2>4
      <3>2. DOMAIN batch' \subseteq Tokens
        BY <2>1, <2>2, <2>4
      <3>3. staged' \subseteq DOMAIN batch' \ committed'
        BY <1>2, <2>1, <2>4 DEF Inv, Tables
      <3> QED
        BY <2>2, <2>4, <3>1, <3>2, <3>3 DEF Inv, Tables, gateVars
    <2>6. Grows
      BY <2>4 DEF Grows, gateVars
    <2>7. RowsAt' /\ Decided' /\ Traced'
      BY <2>4 DEF Inv, RowsAt, Row, Decided, Traced, Approved, Refused, gateVars
    <2>8. Noticed' /\ Chained'
      BY DEF Inv, Noticed, Notices, Chained, Escalated, ResolvedTwice, gateVars
    <2>9. DreamAt'
      <3>1. k \in DOMAIN batch' /\ k \notin DOMAIN rows' /\ batch'[k] = s
        BY <2>1, <2>4 DEF Inv, RowsAt
      <3>2. \A g \in DOMAIN purpose' : purpose'[g] # k
        BY <2>1 DEF Inv, Tables
      <3> QED
        BY <2>2, <2>3, <3>1, <3>2 DEF DreamAt
    <2>10. TasksAt'
      BY <2>6, TasksStay
    <2>11. Counted'
      <3>1. \A x \in committed : batch'[x] = batch[x]
        BY <2>4 DEF Inv, Tables
      <3>2. \A p : {x \in committed' : batch'[x] = p}
                     = {x \in committed : batch[x] = p}
        BY <3>1
      <3> QED
        BY <3>2 DEF Inv, Counted
    <2> QED
      BY <2>5, <2>7, <2>8, <2>9, <2>10, <2>11 DEF Inv
  <1> QED
    BY <1>1, <1>2

LEMMA StepRecordRow ==
  ASSUME Inv, RecordRow
  PROVE  Inv'
  <1> USE DEF RecordRow, DreamOnly
  <1>1. /\ dream.pc = "row" /\ dream.source \in Sources
        /\ dream.token \in DOMAIN batch \ DOMAIN rows
        /\ dream.gate \in DOMAIN purpose /\ purpose[dream.gate] = dream.token
    BY DEF At, Inv, DreamAt
  <1>2. CASE Goto("unstage") /\ UNCHANGED rows
    <2>1. dream' \in Dreams /\ dream'.pc = "unstage" /\ dream'.source = dream.source
      BY <1>2 DEF Goto, Inv, DreamAt, Dreams
    <2>2. DreamAt'
      BY <1>1, <2>1 DEF DreamAt
    <2> QED
      BY <1>2, <2>2, DreamReads DEF Recorded, gateVars
  <1> DEFINE row == [gate |-> dream.gate, status |-> "pending", created |-> now]
  <1>3. CASE /\ rows' = Gates!With(rows, dream.token, row)
             /\ IF dream.source \in Proposals THEN Goto("held") ELSE Return
    <2>1. row \in Row /\ row.gate = dream.gate /\ row.status = "pending"
      BY <1>1 DEF Row, Inv, Tables
    <2> HIDE DEF row
    <2>2. /\ DOMAIN rows' = DOMAIN rows \cup {dream.token}
          /\ rows'[dream.token] = row
          /\ \A k \in DOMAIN rows : rows'[k] = rows[k]
      BY <1>1, <1>3 DEF Gates!With
    <2>3. RowsAt'
      BY <1>1, <2>1, <2>2 DEF Inv, RowsAt, Row
    <2>4. Grows
      BY <2>2 DEF Grows, gateVars
    <2>5. Traced'
      <3>1. \A k : /\ Approved(k) => Approved(k)'
                   /\ Refused(k) => Refused(k)'
        BY DEF Approved, Refused, gateVars
      <3> QED
        BY <2>1, <2>2, <3>1 DEF Inv, Traced
    <2>6. DreamAt'
      <3>1. CASE Return
        BY <3>1, ReturnAt DEF Inv
      <3>2. CASE dream.source \in Proposals /\ Goto("held")
        <4>1. dream' \in Dreams /\ dream'.pc = "held" /\ dream'.source = dream.source
          BY <3>2 DEF Goto, Inv, DreamAt, Dreams
        <4> QED
          BY <3>2, <4>1 DEF DreamAt
      <3> QED
        BY <1>3, <3>1, <3>2
    <2>7. TasksAt'
      BY <2>4, TasksStay
    <2>8. Decided' /\ Counted'
      BY CountStays DEF Inv, Decided
    <2> QED
      BY <2>3, <2>5, <2>6, <2>7, <2>8, StoreStep DEF Inv, Tables
  <1> QED
    BY <1>2, <1>3

(***************************************************************************)
(* The gates.                                                              *)
(***************************************************************************)
LEMMA TaskStarts ==
  ASSUME NEW n
  PROVE  /\ Task(n).notice = n
         /\ Task(n).pc = "lookup"
         /\ Task(n) \in [notice : {n}, pc : {"lookup"}, token : {0},
                         outcome : {"none"}]
  BY DEF Task

LEMMA GateStep ==
  ASSUME Inv, Grows, UNCHANGED store, now' \in 0 .. MaxTime,
         DOMAIN open' \subseteq DOMAIN minted', DOMAIN minted' \subseteq GateIds,
         DOMAIN purpose' = DOMAIN minted',
         \A g \in DOMAIN purpose' : purpose'[g] \in DOMAIN batch,
         Noticed', Chained', DreamAt',
         NEW N \in SUBSET issued', Spawn(N)
  PROVE  Inv'
  <1> USE DEF store
  <1>1. Tables'
    BY DEF Inv, Tables
  <1>2. RowsAt' /\ Decided' /\ Counted'
    BY DEF Inv, RowsAt, Row, Decided, Counted, Grows
  <1>3. Traced'
    BY FoundStays DEF Inv, Traced
  <1>4. TasksAt'
    <2>1. ASSUME NEW n \in N
          PROVE  Task(n) \in TaskStates' /\ TaskAt(Task(n))'
      BY TaskStarts DEF TaskStates, TaskAt
    <2> QED
      BY <2>1, TaskStays DEF TasksAt, Spawn
  <1> QED
    BY <1>1, <1>2, <1>3, <1>4 DEF Inv

LEMMA LapseFacts ==
  ASSUME NEW n \in Lapses, Tables
  PROVE  /\ n \in Notices
         /\ ~n.approved /\ n.next = Nobody
  <1>1. PICK id \in DOMAIN open : n = Gates!Lapse(id)
    BY DEF Lapses, Gates!Overdue
  <1>2. id \in DOMAIN minted
    BY DEF Tables
  <1>3. n = [gate |-> id, cause |-> "timeout_fallback", approved |-> FALSE,
             next |-> Nobody, by |-> Nobody, person |-> Nobody]
    BY <1>1 DEF Gates!Lapse, Gates!Closing
  <1> QED
    BY <1>2, <1>3 DEF Notices

(* Notices of the gates that lapse, beside others that are in order.        *)
LEMMA NoticedMore ==
  ASSUME Inv, Grows, NEW N, issued' = issued \cup N,
         \A n \in N : /\ n \in Notices'
                      /\ n.approved => n.next = Nobody
                      /\ n.next # Nobody => purpose'[n.next] = purpose'[n.gate]
  PROVE  Noticed'
  <1>1. \A n \in issued : n \in Notices'
    BY DEF Inv, Noticed, Notices, Grows
  <1>2. \A n \in issued :
          /\ n.approved => n.next = Nobody
          /\ n.next # Nobody => purpose'[n.next] = purpose'[n.gate]
    BY NoticeFacts DEF Inv, Grows
  <1> QED
    BY <1>1, <1>2 DEF Noticed

LEMMA LapsesNoticed ==
  ASSUME Inv, DOMAIN minted \subseteq DOMAIN minted', NEW n \in Lapses
  PROVE  /\ n \in Notices'
         /\ ~n.approved /\ n.next = Nobody
  <1>1. n \in Notices /\ ~n.approved /\ n.next = Nobody
    BY LapseFacts DEF Inv
  <1> QED
    BY <1>1 DEF Notices

LEMMA ChainStays ==
  ASSUME Inv, Grows, UNCHANGED purpose
  PROVE  Chained'
  <1> SUFFICES ASSUME NEW g \in DOMAIN purpose, NEW h \in DOMAIN purpose,
                      g # h, purpose[g] = purpose[h]
               PROVE  Escalated(g)' \/ Escalated(h)' \/ ResolvedTwice(purpose[g])'
    BY DEF Chained
  <1>1. Escalated(g) \/ Escalated(h) \/ ResolvedTwice(purpose[g])
    BY DEF Inv, Chained
  <1>2. PICK k : k = purpose[g] /\ k = purpose'[g]
    OBVIOUS
  <1>3. ResolvedTwice(k) => ResolvedTwice(k)'
    BY FoundStays DEF Inv
  <1>4. ResolvedTwice(purpose[g]) => ResolvedTwice(purpose[g])'
    BY <1>2, <1>3 DEF ResolvedTwice
  <1>5. /\ Escalated(g) => Escalated(g)'
        /\ Escalated(h) => Escalated(h)'
    BY FoundStays DEF Inv
  <1> QED
    BY <1>1, <1>4, <1>5

LEMMA StepTick ==
  ASSUME Inv, Tick
  PROVE  Inv'
  <1> USE DEF Tick, Gates!Tick
  <1>1. Grows
    BY DEF Grows, store
  <1>2. now' \in 0 .. MaxTime
    BY DEF Inv, Tables
  <1>3. Noticed' /\ Chained'
    BY DEF Inv, Noticed, Notices, Chained, Escalated, ResolvedTwice
  <1>4. DreamAt'
    BY DreamStays DEF Inv, store
  <1>5. {} \in SUBSET issued' /\ Spawn({})
    BY DEF Spawn
  <1> QED
    BY <1>1, <1>2, <1>3, <1>4, <1>5, GateStep DEF Inv, Tables

LEMMA StepPoll ==
  ASSUME Inv, Poll
  PROVE  Inv'
  <1> USE DEF Poll, Gates!Poll, Gates!Without
  <1>1. issued' = issued \cup Lapses
    BY DEF Lapses
  <1>2. Grows
    BY <1>1 DEF Grows, store
  <1>3. Noticed'
    BY <1>1, <1>2, LapsesNoticed, NoticedMore
  <1>4. Chained'
    BY <1>2, ChainStays
  <1>5. DreamAt'
    BY DreamStays DEF Inv, store
  <1>6. Lapses \in SUBSET issued' /\ Spawn(Lapses)
    BY <1>1
  <1>7. DOMAIN open' \subseteq DOMAIN minted'
    BY DEF Inv, Tables
  <1> QED
    BY <1>2, <1>3, <1>4, <1>5, <1>6, <1>7, GateStep DEF Inv, Tables

LEMMA StepOperatorDecides ==
  ASSUME Inv, NEW id \in DOMAIN open,
         NEW cause \in {"approval_decided", "rejection_decided"},
         OperatorDecides(id, cause)
  PROVE  Inv'
  <1> DEFINE n == Gates!Closing(id, cause, Nobody, Operator, Operator)
             N == Lapses \cup {n}
  <1>1. n \in Notices' /\ n.next = Nobody
    <2>1. id \in DOMAIN minted'
      BY DEF OperatorDecides, Gates!Decide, Inv, Tables
    <2> QED
      BY <2>1 DEF Notices, Gates!Closing
  <1>2. /\ issued' = issued \cup N
        /\ DOMAIN open' \subseteq DOMAIN open
        /\ UNCHANGED <<now, minted>>
    BY DEF OperatorDecides, Gates!Decide, Gates!Without, Lapses
  <1>3. UNCHANGED <<store, dream, purpose>> /\ Spawn(N)
    BY DEF OperatorDecides
  <1> HIDE DEF n
  <1>4. Grows
    BY <1>2, <1>3 DEF Grows, store
  <1>5. Noticed'
    <2>1. \A x \in N : /\ x \in Notices'
                       /\ x.next = Nobody
      BY <1>1, <1>2, LapsesNoticed
    <2> HIDE DEF N
    <2> QED
      BY <1>2, <1>4, <2>1, NoticedMore
  <1>6. Chained'
    BY <1>3, <1>4, ChainStays
  <1>7. DreamAt'
    BY <1>3, DreamStays DEF Inv, store
  <1>8. N \in SUBSET issued'
    BY <1>2
  <1> HIDE DEF N
  <1> QED
    BY <1>2, <1>3, <1>4, <1>5, <1>6, <1>7, <1>8, GateStep DEF Inv, Tables

(* The gate of a new batch stands alone.                                    *)
LEMMA StepEnqueue ==
  ASSUME Inv, Enqueue
  PROVE  Inv'
  <1>1. /\ dream.pc = "gate" /\ dream.source \in Sources
        /\ dream.token \in DOMAIN batch \ DOMAIN rows
        /\ batch[dream.token] = dream.source
        /\ \A g \in DOMAIN purpose : purpose[g] # dream.token
    BY DEF Enqueue, At, Inv, DreamAt
  <1>2. UNCHANGED store
    BY DEF Enqueue
  <1>3. CASE Goto("unstage") /\ UNCHANGED <<gateVars, tasks, purpose>>
    <2>1. dream' \in Dreams /\ dream'.pc = "unstage" /\ dream'.source = dream.source
      BY <1>3 DEF Goto, Inv, DreamAt, Dreams
    <2>2. DreamAt'
      BY <1>1, <2>1 DEF DreamAt
    <2> QED
      BY <1>2, <1>3, <2>2, DreamReads DEF Recorded, gateVars, store
  <1> DEFINE g == NextGate
             gate(timeout) == [actor |-> Steward, requested |-> Nobody,
                               deadline |-> now + timeout]
  <1>4. ASSUME NEW timeout \in Timeouts,
               Gates!Create(Gates!Overdue, g, gate(timeout)),
               Spawn(Lapses), purpose' = Gates!With(purpose, g, dream.token),
               dream' = [dream EXCEPT !.pc = "row", !.gate = g]
        PROVE  Inv'
    <2> HIDE DEF gate, g
    <2>1. /\ g \in GateIds \ DOMAIN minted
          /\ DOMAIN minted' = DOMAIN minted \cup {g}
          /\ DOMAIN open' \subseteq DOMAIN open \cup {g}
          /\ issued' = issued \cup Lapses
          /\ UNCHANGED now
      BY <1>4 DEF Gates!Create, Gates!With, Gates!Without, Lapses
    <2>2. /\ DOMAIN purpose' = DOMAIN purpose \cup {g}
          /\ purpose'[g] = dream.token
          /\ \A x \in DOMAIN purpose : purpose'[x] = purpose[x]
      BY <1>4, <2>1 DEF Gates!With, Inv, Tables
    <2>3. Grows
      BY <1>2, <2>1, <2>2 DEF Grows, store
    <2>4. Noticed'
      BY <2>1, <2>3, LapsesNoticed, NoticedMore
    <2>5. Chained'
      <3> SUFFICES ASSUME NEW x \in DOMAIN purpose', NEW y \in DOMAIN purpose',
                          x # y, purpose'[x] = purpose'[y]
                   PROVE  Escalated(x)' \/ Escalated(y)' \/ ResolvedTwice(purpose[x])'
        BY DEF Chained
      <3>1. x \in DOMAIN purpose /\ y \in DOMAIN purpose /\ purpose[x] = purpose[y]
        BY <1>1, <2>2
      <3>2. Escalated(x) \/ Escalated(y) \/ ResolvedTwice(purpose[x])
        BY <3>1 DEF Inv, Chained
      <3>3. PICK k : k = purpose[x] /\ k = purpose'[x]
        BY <2>2, <3>1
      <3>4. ResolvedTwice(k) => ResolvedTwice(k)'
        BY <2>3, FoundStays DEF Inv
      <3>5. ResolvedTwice(purpose[x]) => ResolvedTwice(purpose[x])'
        BY <3>3, <3>4 DEF ResolvedTwice
      <3>6. /\ Escalated(x) => Escalated(x)'
            /\ Escalated(y) => Escalated(y)'
        BY <2>3, FoundStays DEF Inv
      <3> QED
        BY <3>2, <3>5, <3>6
    <2>6. DreamAt'
      <3>1. /\ dream' \in Dreams /\ dream'.pc = "row"
            /\ dream'.source = dream.source /\ dream'.token = dream.token
            /\ dream'.gate = g
        BY <1>4, <2>1 DEF Inv, DreamAt, Dreams
      <3> QED
        BY <1>1, <1>2, <2>2, <3>1 DEF DreamAt, store
    <2>7. \A x \in DOMAIN purpose' : purpose'[x] \in DOMAIN batch
      BY <1>1, <2>2 DEF Inv, Tables
    <2>8. Lapses \in SUBSET issued'
      BY <2>1
    <2> QED
      BY <1>2, <1>4, <2>1, <2>2, <2>3, <2>4, <2>5, <2>6, <2>7, <2>8, GateStep
      DEF Inv, Tables
  <1> QED
    BY Zenon, <1>3, <1>4 DEF Enqueue

(* The successor joins the gates of its batch: the gate it replaces is now  *)
(* escalated, and if it was before, it has been resolved twice.             *)
LEMMA StepOperatorEscalates ==
  ASSUME Inv, NEW id \in DOMAIN open, OperatorEscalates(id)
  PROVE  Inv'
  <1> DEFINE g == NextGate
             n == Gates!Closing(id, "escalation_decided", g, Operator, Operator)
             N == Lapses \cup {n}
  <1>1. UNCHANGED <<store, dream>> /\ Spawn(N)
        /\ purpose' = Gates!With(purpose, g, purpose[id])
    BY DEF OperatorEscalates
  <1>2. Gates!Escalate(Gates!Overdue, id, g, Operator, Operator, Operator)
    BY DEF OperatorEscalates
  <1> HIDE DEF g
  <1>3. /\ g \in GateIds \ DOMAIN minted
        /\ DOMAIN minted' = DOMAIN minted \cup {g}
        /\ DOMAIN open' \subseteq DOMAIN open \cup {g}
        /\ issued' = issued \cup N
        /\ UNCHANGED now
    BY <1>2 DEF Gates!Escalate, Gates!With, Gates!Without, Lapses
  <1>4. id \in DOMAIN purpose /\ id # g /\ g # Nobody
    BY <1>3 DEF Inv, Tables
  <1>5. /\ n \in Notices' /\ n.next = g /\ n.gate = id
        /\ ~n.approved
    BY <1>3, <1>4 DEF Gates!Closing, Notices, Inv, Tables
  <1> HIDE DEF n
  <1>6. /\ DOMAIN purpose' = DOMAIN purpose \cup {g}
        /\ purpose'[g] = purpose[id]
        /\ \A x \in DOMAIN purpose : purpose'[x] = purpose[x]
    BY <1>1, <1>3 DEF Gates!With, Inv, Tables
  <1>7. Grows
    BY <1>1, <1>3, <1>6 DEF Grows, store
  <1>8. Noticed'
    <2>1. \A x \in N : /\ x \in Notices'
                       /\ x.approved => x.next = Nobody
                       /\ x.next # Nobody => purpose'[x.next] = purpose'[x.gate]
      BY <1>3, <1>4, <1>5, <1>6, LapsesNoticed
    <2> HIDE DEF N
    <2> QED
      BY <1>3, <1>7, <2>1, NoticedMore
  <1>9. Chained'
    <2>1. n \in issued' /\ Escalated(id)'
      BY <1>3, <1>4, <1>5 DEF Escalated
    <2> SUFFICES ASSUME NEW x \in DOMAIN purpose', NEW y \in DOMAIN purpose',
                        x # y, purpose'[x] = purpose'[y]
                 PROVE  Escalated(x)' \/ Escalated(y)' \/ ResolvedTwice(purpose[x])'
      BY DEF Chained
    <2>2. ASSUME NEW h \in DOMAIN purpose, purpose[h] = purpose[id]
          PROVE  Escalated(h)' \/ ResolvedTwice(purpose[id])'
      <3>1. CASE h = id
        BY <2>1, <3>1
      <3>2. CASE Escalated(h)
        BY <1>7, <3>2, FoundStays DEF Inv
      <3>3. CASE ResolvedTwice(purpose[id])
        <4>1. PICK k : k = purpose[id] /\ k = purpose'[id]
          BY <1>4, <1>6
        <4>2. ResolvedTwice(k)'
          BY <1>7, <3>3, <4>1, FoundStays DEF Inv
        <4> QED
          BY <4>1, <4>2 DEF ResolvedTwice
      <3>4. CASE Escalated(id)
        <4>1. PICK m \in issued : m.gate = id /\ m.next # Nobody
          BY <3>4 DEF Escalated
        <4>2. m.next # g
          BY <1>3, <4>1, NoticeFacts DEF Inv, Tables
        <4>3. m # n /\ m \in issued' /\ n \in issued' /\ n.gate = m.gate
          BY <1>5, <1>3, <2>1, <4>1, <4>2
        <4> QED
          BY <4>1, <4>3 DEF ResolvedTwice
      <3> QED
        BY <1>4, <2>2, <3>1, <3>2, <3>3, <3>4 DEF Inv, Chained
    <2>3. CASE x = g
      <3>1. y \in DOMAIN purpose /\ purpose[y] = purpose[id]
        BY <1>6, <2>3
      <3>2. Escalated(y)' \/ ResolvedTwice(purpose[id])'
        BY <2>2, <3>1
      <3>3. purpose'[x] = purpose'[id]
        BY <1>4, <1>6, <2>3
      <3> QED
        BY <3>2, <3>3 DEF ResolvedTwice
    <2>4. CASE y = g
      <3>1. x \in DOMAIN purpose /\ purpose[x] = purpose[id]
        BY <1>6, <2>4
      <3>2. Escalated(x)' \/ ResolvedTwice(purpose[id])'
        BY <2>2, <3>1
      <3>3. purpose'[x] = purpose'[id]
        BY <1>4, <1>6, <2>4
      <3> QED
        BY <3>2, <3>3 DEF ResolvedTwice
    <2>5. CASE x # g /\ y # g
      <3>1. x \in DOMAIN purpose /\ y \in DOMAIN purpose /\ purpose[x] = purpose[y]
        BY <1>6, <2>5
      <3>2. Escalated(x) \/ Escalated(y) \/ ResolvedTwice(purpose[x])
        BY <3>1 DEF Inv, Chained
      <3>3. PICK k : k = purpose[x] /\ k = purpose'[x]
        BY <1>6, <3>1
      <3>4. ResolvedTwice(k) => ResolvedTwice(k)'
        BY <1>7, FoundStays DEF Inv
      <3>5. ResolvedTwice(purpose[x]) => ResolvedTwice(purpose[x])'
        BY <3>3, <3>4 DEF ResolvedTwice
      <3>6. /\ Escalated(x) => Escalated(x)'
            /\ Escalated(y) => Escalated(y)'
        BY <1>7, FoundStays DEF Inv
      <3> QED
        BY <3>2, <3>5, <3>6
    <2> QED
      BY <2>3, <2>4, <2>5
  <1>10. DreamAt'
    <2>1. dream.pc = "gate" => purpose[id] # dream.token
      BY <1>4 DEF Inv, DreamAt
    <2> QED
      BY <1>1, <1>4, <1>6, <2>1 DEF Inv, DreamAt, store
  <1>11. \A x \in DOMAIN purpose' : purpose'[x] \in DOMAIN batch
    BY <1>4, <1>6 DEF Inv, Tables
  <1>12. N \in SUBSET issued'
    BY <1>3
  <1> HIDE DEF N
  <1> QED
    BY <1>1, <1>3, <1>6, <1>7, <1>8, <1>9, <1>10, <1>11, <1>12, GateStep
    DEF Inv, Tables

(***************************************************************************)
(* Inv is inductive.                                                       *)
(***************************************************************************)
LEMMA InitInv ==
  ASSUME Init
  PROVE  Inv
  <1> USE DEF Init, Gates!Init
  <1>1. DOMAIN batch = {} /\ DOMAIN rows = {} /\ DOMAIN purpose = {}
        /\ DOMAIN minted = {} /\ DOMAIN open = {}
    OBVIOUS
  <1>2. Cardinality({}) = 0
    BY FS_EmptySet
  <1>3. Tables /\ RowsAt
    BY <1>1, <1>2 DEF Tables, RowsAt
  <1>4. Decided
    BY DEF Decided, Verdicts
  <1>5. DreamAt
    <2>1. dream \in Dreams /\ dream.pc = "idle"
      BY DEF Idle, Dreams
    <2> QED
      BY <2>1 DEF DreamAt
  <1>6. Noticed /\ Chained /\ TasksAt /\ Traced
    BY <1>1 DEF Noticed, Chained, TasksAt, Traced
  <1>7. Counted
    <2>1. \A p : {k \in committed : batch[k] = p} = {}
      OBVIOUS
    <2> QED
      BY <1>2, <2>1 DEF Counted
  <1> QED
    BY <1>3, <1>4, <1>5, <1>6, <1>7 DEF Inv

LEMMA StepInv ==
  ASSUME Inv, [Next]_vars
  PROVE  Inv'
  <1>1. CASE UNCHANGED vars
    <2>1. UNCHANGED <<Recorded, open, tasks, dream>> /\ staged' \subseteq staged
      BY <1>1 DEF vars, store, gateVars, Recorded
    <2>2. DreamAt'
      BY <2>1, DreamStays DEF Inv, Recorded
    <2> QED
      BY <2>1, <2>2, DreamReads
  <1>2. ASSUME NEW partition \in Partitions, StartDream(partition)
        PROVE  Inv'
    BY <1>2, StepStartDream
  <1>3. CASE DreamStep
    BY <1>3, StepDiscardStale, StepSettleStale, StepReads, StepConsolidate,
       StepMark, StepStage, StepEnqueue, StepRecordRow, StepUnstage
    DEF DreamStep
  <1>4. CASE Verdict
    <2>1. ASSUME NEW p \in Proposals, Accept(p)
          PROVE  Inv'
      BY <2>1, StepAccept
    <2>2. ASSUME NEW p \in Proposals, NEW verdict \in {"rejected", "held"},
                 RejectOrHold(p, verdict)
          PROVE  Inv'
      BY <2>2, StepRejectOrHold
    <2>3. ASSUME NEW r \in Records, NEW decision \in {"release", "tombstone"},
                 StewardReview(r, decision)
          PROVE  Inv'
      BY <2>3, StepReview DEF StewardReview, DreamOnly
    <2>4. ASSUME NEW s \in Sources, Promote(s)
          PROVE  Inv'
      BY <2>4, StepPromote
    <2> QED
      BY <1>4, <2>1, <2>2, <2>3, <2>4 DEF Verdict
  <1>5. CASE EndVerdicts
    BY <1>5, StepEndVerdicts
  <1>6. ASSUME NEW t \in tasks, TaskStep(t)
        PROVE  Inv'
    BY <1>6, StepLookup, StepCommitting, StepRekey, StepDiscard, StepSettle,
       StepResolveProposal
    DEF TaskStep
  <1>7. ASSUME NEW r \in Records, NEW decision \in {"release", "tombstone"},
               OperatorReview(r, decision)
        PROVE  Inv'
    BY <1>7, StepReview DEF OperatorReview
  <1>8. ASSUME NEW id \in DOMAIN open,
               NEW cause \in {"approval_decided", "rejection_decided"},
               OperatorDecides(id, cause)
        PROVE  Inv'
    BY <1>8, StepOperatorDecides
  <1>9. ASSUME NEW id \in DOMAIN open, OperatorEscalates(id)
        PROVE  Inv'
    BY <1>9, StepOperatorEscalates
  <1>10. CASE Poll
    BY <1>10, StepPoll
  <1>11. CASE Tick
    BY <1>11, StepTick
  <1>12. ASSUME NEW kept, NEW swept, Crash(kept, swept)
         PROVE  Inv'
    BY <1>12, StepCrash
  <1> QED
    BY <1>1, <1>2, <1>3, <1>4, <1>5, <1>6, <1>7, <1>8, <1>9, <1>10, <1>11, <1>12
    DEF Next

(* The invariant holds in every behaviour of the specification.             *)
THEOREM Invariance == Spec => []Inv
  <1>1. Init => Inv
    BY InitInv
  <1>2. Inv /\ [Next]_vars => Inv'
    BY StepInv
  <1> QED
    BY <1>1, <1>2, PTL DEF Spec

(* A quarantined record has one outcome.  The validator runs inside the     *)
(* commit, so an approval that comes after a review finds the record        *)
(* tombstoned, whatever notices, tasks and restarts brought it there.       *)
THEOREM RecordsDecidedOnce == Spec => []OneOutcome
  <1>1. Inv => OneOutcome
    BY DEF Inv, Decided, OneOutcome
  <1> QED
    BY <1>1, Invariance, PTL

(* Nothing staged becomes memory without an approval of a gate opened for   *)
(* that batch, and nothing tainted in any other way, for any number of      *)
(* gates, escalations, failures and restarts.                               *)
THEOREM ApprovalPrecedesPublication == Spec => []PublishedWasApproved
  <1>1. Inv => PublishedWasApproved
    BY DEF Inv, Traced, Approved, Counted, PublishedWasApproved
  <1> QED
    BY <1>1, Invariance, PTL

LEMMA InvTyped ==
  ASSUME Inv
  PROVE  TypeOK
  <1>1. \A t \in tasks : t.pc # "lookup" => t.token \in DOMAIN rows
    BY TaskFacts DEF TaskAt
  <1> QED
    BY <1>1 DEF TypeOK, Inv, Tables, RowsAt, Decided

(* Two notices for one batch, one that approves and one that refuses, mean  *)
(* that some gate of the batch was resolved twice: they close the same gate *)
(* or one of their gates was escalated before.                              *)
LEMMA InvTruthful ==
  ASSUME Inv
  PROVE  RowsTellTheTruth
  <1> SUFFICES ASSUME NEW k \in DOMAIN rows, rows[k].status = "denied",
                      k \in committed
               PROVE  ResolvedTwice(k)
    BY DEF RowsTellTheTruth, Inv, Traced
  <1>1. PICK n \in issued : ~n.approved /\ n.next = Nobody /\ purpose[n.gate] = k
    BY DEF Inv, Traced, Refused
  <1>2. PICK m \in issued : m.approved /\ purpose[m.gate] = k
    BY DEF Inv, Traced, Approved
  <1>3. m.next = Nobody /\ m # n
    BY <1>1, <1>2, NoticeFacts DEF Inv
  <1>4. CASE n.gate = m.gate
    BY <1>1, <1>3, <1>4 DEF ResolvedTwice
  <1>5. CASE Escalated(n.gate)
    BY <1>1, <1>5 DEF Escalated, ResolvedTwice
  <1>6. CASE Escalated(m.gate)
    BY <1>2, <1>3, <1>6 DEF Escalated, ResolvedTwice
  <1>7. n.gate \in DOMAIN purpose /\ m.gate \in DOMAIN purpose
    BY NoticeFacts DEF Inv
  <1>8. n.gate # m.gate =>
          Escalated(n.gate) \/ Escalated(m.gate) \/ ResolvedTwice(k)
    BY <1>1, <1>2, <1>7 DEF Inv, Chained
  <1> QED
    BY <1>4, <1>5, <1>6, <1>8

(***************************************************************************)
(* One pending gate per source, while the read that looks for one works.   *)
(***************************************************************************)
Promoting == {"stage", "gate", "row"}

(* No row becomes pending and no promotion starts.                          *)
Subsides ==
  /\ DOMAIN rows' \subseteq DOMAIN rows
  /\ \A k \in DOMAIN rows' :
       rows'[k].status = "pending" => rows[k].status = "pending"
  /\ dream'.pc \in Promoting =>
       dream.pc \in Promoting /\ dream'.source = dream.source

LEMMA AloneStays ==
  ASSUME Inv, Alone, Grows, Subsides
  PROVE  Alone'
  <1>1. \A k \in DOMAIN rows' :
          k \in DOMAIN rows /\ batch'[k] = batch[k]
    BY DEF Inv, RowsAt, Grows, Subsides
  <1>2. ASSUME NEW j \in DOMAIN rows', NEW k \in DOMAIN rows',
               rows'[j].status = "pending", rows'[k].status = "pending",
               batch'[j] = batch'[k]
        PROVE  j = k
    BY <1>1, <1>2 DEF Alone, Subsides
  <1>3. ASSUME dream'.pc \in Promoting
        PROVE  Pending(dream.source)' = {}
    <2>1. dream.pc \in Promoting /\ dream'.source = dream.source
      BY <1>3 DEF Subsides
    <2>2. Pending(dream.source) = {}
      BY <2>1 DEF Alone, Promoting
    <2> QED
      BY <1>1, <2>1, <2>2 DEF Pending, Subsides
  <1> QED
    BY <1>2, <1>3 DEF Alone, Promoting

LEMMA QuietSubsides ==
  ASSUME UNCHANGED rows,
         dream'.pc \in Promoting =>
           dream.pc \in Promoting /\ dream'.source = dream.source
  PROVE  Subsides
  BY DEF Subsides

LEMMA SettlingSubsides ==
  ASSUME Inv, NEW K, NEW o \in {"committed", "denied", "expired"},
         rows' = Settled(K, o),
         dream'.pc \in Promoting =>
           dream.pc \in Promoting /\ dream'.source = dream.source
  PROVE  Subsides /\ DOMAIN rows' = DOMAIN rows
  <1>1. /\ DOMAIN rows' = DOMAIN rows
        /\ \A k \in DOMAIN rows :
             rows'[k].status = IF k \in K THEN o ELSE rows[k].status
    BY SettledFacts DEF Inv, RowsAt
  <1> QED
    BY <1>1 DEF Subsides

LEMMA ReturnPlain ==
  ASSUME dream \in Dreams, Return
  PROVE  dream'.pc \notin Promoting
  <1> DEFINE pc == Phase(dream.source)
  <1>1. pc \notin Promoting
    BY DEF Phase, Promoting
  <1>2. dream' = [dream EXCEPT !.pc = pc, !.source = Nobody, !.token = 0,
                               !.gate = 0]
    BY DEF Return
  <1> HIDE DEF pc
  <1> QED
    BY <1>1, <1>2 DEF Dreams

LEMMA AloneDream ==
  ASSUME Inv, Alone, DreamStep
  PROVE  Alone'
  <1> USE DEF DreamOnly, Promoting
  <1>0. dream \in Dreams
    BY DEF Inv, DreamAt
  <1>1. CASE DiscardStale
    <2>1. UNCHANGED <<rows, batch, gateVars, purpose, committed>>
      BY Zenon, <1>1 DEF DiscardStale
    <2>2. PICK old \in dream.stale :
            dream' = [dream EXCEPT !.pc = "settle", !.gate = old.gate,
                                   !.stale = @ \ {old}]
      BY Zenon, <1>1 DEF DiscardStale
    <2>3. dream'.pc = "settle"
      BY <1>0, <2>2 DEF Dreams
    <2>4. Grows
      BY <2>1 DEF Grows, gateVars
    <2> QED
      BY <2>1, <2>3, <2>4, QuietSubsides, AloneStays
  <1>7. CASE ReadProposals \/ ReadQuarantine \/ ReadGates
    <2>1. dream'.pc \in {"quarantine", "gates", "consolidate"}
      BY <1>0, <1>7 DEF ReadProposals, ReadQuarantine, ReadGates, Dreams
    <2>2. Grows /\ UNCHANGED rows
      BY <1>7
      DEF Grows, ReadProposals, ReadQuarantine, ReadGates, store, gateVars
    <2> QED
      BY <2>1, <2>2, QuietSubsides, AloneStays
  <1>2. CASE SettleStale
    <2>1. dream'.pc \notin Promoting
      BY <1>0, <1>2 DEF SettleStale, Dreams
    <2>2. Subsides /\ DOMAIN rows' = DOMAIN rows
      BY <1>2, <2>1, QuietSubsides, SettlingSubsides DEF SettleStale
    <2>3. Grows
      BY <1>2, <2>2 DEF Grows, SettleStale, gateVars
    <2> QED
      BY <2>2, <2>3, AloneStays
  <1>3. CASE Consolidate \/ Mark \/ Unstage
    <2>1. dream'.pc \notin Promoting
      <3>1. CASE Consolidate
        BY <1>0, <3>1 DEF Consolidate, Goto, Dreams
      <3> QED
        BY <1>0, <1>3, <3>1, ReturnPlain DEF Mark, Unstage
    <2>2. Grows /\ UNCHANGED rows
      BY <1>3 DEF Grows, Consolidate, Mark, Unstage, gateVars
    <2> QED
      BY <2>1, <2>2, QuietSubsides, AloneStays
  <1>4. CASE Stage
    <2>1. UNCHANGED rows /\ dream.pc = "stage"
      BY <1>4 DEF Stage, At
    <2>2. dream'.pc \in Promoting => dream'.source = dream.source
      <3>1. CASE Return
        BY <1>0, <3>1, ReturnPlain
      <3>2. CASE dream' = [dream EXCEPT !.pc = "gate",
                                        !.token = Cardinality(DOMAIN batch) + 1]
        BY <1>0, <3>2 DEF Dreams
      <3> QED
        BY <1>4, <3>1, <3>2 DEF Stage
    <2>3. Grows
      <3> DEFINE k == Cardinality(DOMAIN batch) + 1
      <3>1. k \notin DOMAIN batch
        BY FreshToken DEF Inv
      <3>2. batch' = Gates!With(batch, k, dream.source) \/ UNCHANGED batch
        BY <1>4 DEF Stage
      <3> HIDE DEF k
      <3>3. DOMAIN batch \subseteq DOMAIN batch'
            /\ \A x \in DOMAIN batch : batch'[x] = batch[x]
        BY <3>1, <3>2 DEF Gates!With
      <3> QED
        BY <1>4, <3>3 DEF Stage, Grows, gateVars
    <2> QED
      BY <2>1, <2>2, <2>3, QuietSubsides, AloneStays
  <1>5. CASE Enqueue
    <2>1. UNCHANGED store /\ dream.pc = "gate"
      BY <1>5 DEF Enqueue, At
    <2>2. dream'.source = dream.source
      BY <1>0, <1>5 DEF Enqueue, Goto, Dreams
    <2> QED
      BY <2>1, <2>2 DEF Alone, Pending, store
  <1>6. CASE RecordRow
    <2>1. /\ dream.pc = "row" /\ Pending(dream.source) = {}
          /\ dream.token \notin DOMAIN rows /\ batch[dream.token] = dream.source
      BY <1>6 DEF RecordRow, At, Inv, DreamAt, Alone
    <2>2. dream'.pc \notin Promoting
      <3>1. CASE Return
        BY <1>0, <3>1, ReturnPlain
      <3>2. CASE Goto("held") \/ Goto("unstage")
        BY <1>0, <3>2 DEF Goto, Dreams
      <3> QED
        BY <1>6, <3>1, <3>2 DEF RecordRow
    <2>3. UNCHANGED batch
      BY <1>6 DEF RecordRow
    <2>4. ASSUME NEW j \in DOMAIN rows', NEW k \in DOMAIN rows',
                 rows'[j].status = "pending", rows'[k].status = "pending",
                 batch'[j] = batch'[k]
          PROVE  j = k
      <3>1. \A x \in DOMAIN rows' : x # dream.token =>
              x \in DOMAIN rows /\ rows'[x] = rows[x]
        BY <1>6 DEF RecordRow, Gates!With
      <3>2. CASE j # dream.token /\ k # dream.token
        BY <2>3, <2>4, <3>1, <3>2 DEF Alone
      <3>3. CASE j = dream.token /\ k # dream.token
        BY <2>1, <2>3, <2>4, <3>1, <3>3 DEF Pending
      <3>4. CASE j # dream.token /\ k = dream.token
        BY <2>1, <2>3, <2>4, <3>1, <3>4 DEF Pending
      <3> QED
        BY <3>2, <3>3, <3>4
    <2> QED
      BY <2>2, <2>4 DEF Alone
  <1> QED
    BY <1>1, <1>2, <1>3, <1>4, <1>5, <1>6, <1>7 DEF DreamStep

LEMMA AloneTask ==
  ASSUME Inv, Alone, NEW t \in tasks, TaskStep(t)
  PROVE  Alone'
  <1> USE DEF TaskOnly
  <1>1. UNCHANGED <<gateVars, dream, purpose, batch>> /\ committed \subseteq committed'
    <2>1. CASE Lookup(t)
      BY Zenon, <2>1 DEF Lookup, store
    <2>2. CASE Committing(t) \/ Rekey(t) \/ Discard(t) \/ Settle(t) \/ ResolveProposal(t)
      BY <2>2 DEF Committing, Commit, Rekey, Discard, Settle, ResolveProposal
    <2> QED
      BY <2>1, <2>2 DEF TaskStep
  <1>2. Subsides /\ DOMAIN rows' = DOMAIN rows
    <2>1. CASE UNCHANGED rows
      BY <1>1, <2>1, QuietSubsides
    <2>2. CASE Rekey(t)
      <3>1. \A k \in DOMAIN rows : rows[k] \in Row
        BY DEF Inv, RowsAt
      <3>2. /\ DOMAIN rows' = DOMAIN rows
            /\ \A k \in DOMAIN rows : rows'[k].status = rows[k].status
        BY <2>2, <3>1 DEF Rekey, Row
      <3> QED
        BY <1>1, <3>2 DEF Subsides
    <2>3. CASE t.pc = "settle" /\ rows' = Settled(RowOf(t.notice.gate), t.outcome)
      <3>1. t.outcome \in {"committed", "denied", "expired"}
        BY <2>3, TaskFacts DEF TaskAt, TaskStates
      <3> QED
        BY <1>1, <2>3, <3>1, SettlingSubsides
    <2>4. Rekey(t) \/ UNCHANGED rows
            \/ (t.pc = "settle" /\ rows' = Settled(RowOf(t.notice.gate), t.outcome))
      <3>1. CASE Lookup(t)
        BY Zenon, <3>1 DEF Lookup, store
      <3>2. CASE Committing(t) \/ Discard(t) \/ Settle(t) \/ ResolveProposal(t)
        BY <3>2 DEF Committing, Discard, Settle, ResolveProposal
      <3> QED
        BY <3>1, <3>2 DEF TaskStep
    <2> QED
      BY <2>1, <2>2, <2>3, <2>4
  <1>3. Grows
    BY <1>1, <1>2, StoreGrows
  <1> QED
    BY <1>2, <1>3, AloneStays

LEMMA AloneReview ==
  ASSUME Inv, Alone, NEW r, NEW decision, NEW reviewer,
         Review(r, decision, reviewer), UNCHANGED <<gateVars, purpose, dream>>
  PROVE  Alone'
  <1>1. Subsides /\ DOMAIN rows' = DOMAIN rows
    BY SettlingSubsides DEF Review
  <1>2. Grows
    BY <1>1, StoreGrows DEF Review
  <1> QED
    BY <1>1, <1>2, AloneStays

(* Steps that change neither a row nor a batch, nor where the dream is.     *)
LEMMA AloneElsewhere ==
  ASSUME Alone, UNCHANGED <<rows, batch>>,
         dream'.pc \in Promoting =>
           dream.pc \in Promoting /\ dream'.source = dream.source
  PROVE  Alone'
  BY DEF Alone, Pending, Promoting

LEMMA StepAlone ==
  ASSUME "dedup" \notin Faults, Inv, Alone, [Next]_vars
  PROVE  Alone'
  <1> USE DEF DreamOnly
  <1>0. dream \in Dreams
    BY DEF Inv, DreamAt
  <1>1. CASE UNCHANGED vars
    BY <1>1, AloneElsewhere DEF vars, store
  <1>2. ASSUME NEW partition \in Partitions, StartDream(partition)
        PROVE  Alone'
    <2>1. dream'.pc = "expire"
      BY <1>2 DEF StartDream, Idle
    <2> QED
      BY <1>2, <2>1, AloneElsewhere DEF StartDream, store, Promoting
  <1>3. CASE DreamStep
    BY <1>3, AloneDream
  <1>4. CASE Verdict
    <2>1. ASSUME NEW p \in Proposals, Accept(p)
          PROVE  Alone'
      <3>1. dream'.pc = "accepted"
        BY <1>0, <2>1 DEF Accept, Dreams
      <3> QED
        BY <2>1, <3>1, AloneElsewhere DEF Accept, Promoting
    <2>2. ASSUME NEW p \in Proposals, NEW verdict \in {"rejected", "held"},
                 RejectOrHold(p, verdict)
          PROVE  Alone'
      BY <2>2, AloneElsewhere DEF RejectOrHold
    <2>3. ASSUME NEW r \in Records, NEW decision \in {"release", "tombstone"},
                 StewardReview(r, decision)
          PROVE  Alone'
      BY <2>3, AloneReview DEF StewardReview
    <2>4. ASSUME NEW s \in Sources, Promote(s)
          PROVE  Alone'
      <3>1. Pending(s) = {}
        BY <2>4 DEF Promote, Fails, Gated
      <3>2. dream'.source = s
        BY <1>0, <2>4 DEF Promote, Dreams
      <3> QED
        BY <2>4, <3>1, <3>2 DEF Promote, store, Alone, Pending
    <2> QED
      BY <1>4, <2>1, <2>2, <2>3, <2>4 DEF Verdict
  <1>5. CASE EndVerdicts
    <2>1. dream'.pc \in {"records", "idle"}
      BY <1>0, <1>5 DEF EndVerdicts, Goto, Idle, Dreams
    <2> QED
      BY <1>5, <2>1, AloneElsewhere DEF EndVerdicts, store, Promoting
  <1>6. ASSUME NEW t \in tasks, TaskStep(t)
        PROVE  Alone'
    BY <1>6, AloneTask
  <1>7. ASSUME NEW r \in Records, NEW decision \in {"release", "tombstone"},
               OperatorReview(r, decision)
        PROVE  Alone'
    BY <1>7, AloneReview DEF OperatorReview
  <1>8. ASSUME NEW id \in DOMAIN open,
               NEW cause \in {"approval_decided", "rejection_decided"},
               OperatorDecides(id, cause) \/ OperatorEscalates(id)
        PROVE  Alone'
    BY <1>8, AloneElsewhere DEF OperatorDecides, OperatorEscalates, store
  <1>9. CASE Poll \/ Tick
    BY <1>9, AloneElsewhere DEF Poll, Tick, store
  <1>10. ASSUME NEW kept, NEW swept, Crash(kept, swept)
         PROVE  Alone'
    <2>1. dream'.pc = "idle"
      BY <1>10 DEF Crash, Idle
    <2> QED
      BY <1>10, <2>1, AloneElsewhere DEF Crash, Promoting
  <1> QED
    BY <1>1, <1>2, <1>3, <1>4, <1>5, <1>6, <1>7, <1>8, <1>9, <1>10 DEF Next

LEMMA AloneCounts ==
  ASSUME Inv, Alone
  PROVE  OneGatePerSource
  <1> SUFFICES ASSUME NEW s \in Sources
               PROVE  Cardinality(Pending(s)) <= 1
    BY DEF OneGatePerSource
  <1>1. CASE Pending(s) = {}
    BY <1>1, FS_EmptySet
  <1>2. CASE Pending(s) # {}
    <2>1. PICK k : k \in Pending(s)
      BY <1>2
    <2>2. Pending(s) = {k}
      BY <2>1 DEF Pending, Alone
    <2> QED
      BY <2>2, FS_Singleton
  <1> QED
    BY <1>1, <1>2

(* The tables of a realm refer to each other correctly, a row says what     *)
(* happened to its batch, and while the dedup read works no source has two  *)
(* pending rows.  A failed dedup read is taken for "none" in the code and   *)
(* does open a second gate, hence the hypothesis.                           *)
THEOREM RowsAreSound ==
  ASSUME "dedup" \notin Faults
  PROVE  Spec => []RowsSound
  <1>1. Init => Inv /\ Alone
    BY InitInv DEF Init, Alone, Idle
  <1>2. Inv /\ Alone /\ [Next]_vars => (Inv /\ Alone)'
    BY StepInv, StepAlone
  <1>3. Inv /\ Alone => RowsSound
    BY InvTyped, InvTruthful, AloneCounts DEF RowsSound
  <1> QED
    BY <1>1, <1>2, <1>3, PTL DEF Spec
=============================================================================
