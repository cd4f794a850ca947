--------------------------- MODULE HeldBootstrap ---------------------------
(***************************************************************************)
(* The held identity bootstrap: identity_first/held_bootstrap.rs, with the *)
(* tracked operation that runs it (runtime.rs, bootstrap_roster_held), the *)
(* roster pass (orchestrator.rs), the prepared mob's activation before it  *)
(* (unified_runtime/mod.rs, mob_activation_retry.rs) and the host's        *)
(* completion callback.                                                    *)
(*                                                                         *)
(* A setup creates every roster member held, asks the host once all are,   *)
(* and then activates or aborts them all by ONE terminal decision shared   *)
(* by five parties: the caller of the start, the tracked operation, its    *)
(* producer, the members and the host.  The clock may pass the setup's     *)
(* deadline at any moment; whoever looks at an undecided terminal after    *)
(* that records an Abort.                                                  *)
(*                                                                         *)
(* Meanwhile a guest (a send or a materialize of the same identity) may    *)
(* embody a roster member through the same lifecycle lock.                 *)
(*                                                                         *)
(* An action is the code between two awaits that other parties can         *)
(* observe.  Meerkat Core (spawning, activating and aborting a member) is  *)
(* external: each call succeeds or fails.                                  *)
(***************************************************************************)
EXTENDS Integers, FiniteSets

CONSTANTS
  Roster,           \* identities of the roster
  Guests,           \* roster identities that are also materialized outside
  OwedBefore,       \* identities an earlier pass may have left owing
  Slots,            \* identity_restore_concurrency
  StallPoints,      \* (member, stage) pairs a stalled resume reports
  MaxConsecutive,   \* ActivationStallPolicy.max_consecutive_stalls
  TotalPerConsecutive \* TOTAL_STALLS_PER_CONSECUTIVE_BOUND (20 in the code)

ASSUME ConstantsAssumption ==
  /\ Guests \subseteq Roster /\ OwedBefore \subseteq Roster
  /\ IsFiniteSet(Roster)
  /\ Slots \in Nat \ {0}
  /\ MaxConsecutive \in Nat \ {0} /\ TotalPerConsecutive \in Nat \ {0}

VARIABLES
  expired,    \* the clock has reached the deadline
  decision,   \* HeldTerminal.decision
  abandoned,  \* HeldTerminal.abandoned
  cause,      \* history: what recorded the Abort
  report,     \* the refusal the producer returned
  closed,     \* foreground operations are closed by a shutdown
  caller,     \* the public start
  op,         \* the tracked operation
  stall,      \* resume_joining_stalled_operation's counters
  installed,  \* held_create_pass holds this pass
  ended,      \* PassState.ended
  held,       \* PassState.held
  settled,    \* PassState.settled
  slots,      \* PassState.slots
  producer,   \* the producer half of the operation
  host,       \* the host's completion callback
  pc,         \* per actor and member: its embodiment transaction
  lock,       \* lifecycle_lock_for
  entry,      \* IdentityEntry.state
  out,        \* RestoreOutcome of the pass
  owed,       \* held_completion_owed
  via         \* history: how a member was published

terminalVars == <<decision, abandoned, cause>>
callVars == <<closed, caller>>
opVars == <<op, stall>>
passVars == <<installed, ended, held, settled, slots>>
hostVars == <<producer, host, report>>
memberVars == <<pc, lock, entry, out, owed, via>>
vars == <<expired, terminalVars, callVars, opVars, passVars, hostVars, memberVars>>

Actors == {"pass", "guest"}

Prelude == {"entered", "register", "publish", "prewarm", "lift"}
Stages == {"queued", "start", "controller", "fresh", "install", "registering",
           "members", "ended", "done"} \cup Prelude

NoStall == [point |-> "none", consecutive |-> 0, total |-> 0]

-----------------------------------------------------------------------------
(* HeldTerminal *)

\* The terminal decision as an observer sees it: a deadline that has passed
\* undecided is an Abort.
Current == IF decision = "None" /\ expired THEN "Abort" ELSE decision

\* ... which the observer records.
Observe ==
  /\ decision' = Current
  /\ cause' = IF decision = "None" /\ expired THEN "deadline" ELSE cause
  /\ UNCHANGED abandoned

Record(d, why, gone) ==
  /\ decision' = d
  /\ cause' = IF d = "Abort" THEN why ELSE cause
  /\ abandoned' = gone

\* The caller's loss, deadline first.
Abandon ==
  IF Current = "None" THEN Record("Abort", "abandoned", TRUE) ELSE Observe

AbortRefusal == IF abandoned THEN "abandoned" ELSE "deadline"

\* Record an Abort unless decided; the refusal reported is the actual cause.
AbortWith(why) ==
  IF decision = "None"
  THEN Record("Abort", why, abandoned) /\ report' = why
  ELSE UNCHANGED terminalVars /\ report' = AbortRefusal

\* Mutant of SettleOk: the clock is not looked at again.
SettleOkLate ==
  /\ IF decision = "None" THEN Record("Activate", "none", abandoned)
                          ELSE UNCHANGED terminalVars
  /\ report' = IF decision = "Abort" THEN AbortRefusal ELSE report

\* The host answered Ok: Activate, or Abort at or after the deadline.
SettleOk ==
  /\ IF decision # "None" THEN UNCHANGED terminalVars
     ELSE IF expired THEN Record("Abort", "deadline", abandoned)
     ELSE Record("Activate", "none", abandoned)
  /\ report' = IF decision' = "Abort" THEN AbortRefusal ELSE report

-----------------------------------------------------------------------------
(* The clock, the caller and the shutdown. *)

DeadlinePasses ==
  /\ ~expired
  /\ expired' = TRUE
  /\ UNCHANGED <<terminalVars, callVars, opVars, passVars, hostVars, memberVars>>

\* A shutdown closes the foreground operations; an admitted one still runs, so
\* a later closure changes nothing here.
Close ==
  /\ caller = "admission"
  /\ ~closed
  /\ closed' = TRUE
  /\ UNCHANGED <<expired, terminalVars, caller, opVars, passVars, hostVars, memberVars>>

\* Waiting for admission ends at the closure or at the terminal Abort.  The
\* error return drops the guard, which abandons the setup.
RefuseAdmission ==
  /\ caller = "admission"
  /\ closed \/ Current = "Abort"
  /\ Abandon
  /\ caller' = "failed"
  /\ op' = "done"
  /\ UNCHANGED <<expired, closed, stall, passVars, hostVars, memberVars>>

\* With a prepared mob the operation starts with its activation, whose own
\* first look at the decision is another step.
Admit ==
  /\ caller = "admission"
  /\ ~closed
  /\ Current = "None"
  /\ caller' = "waiting"
  /\ op' \in {"entered", "start"}
  /\ UNCHANGED <<expired, terminalVars, closed, stall, passVars, hostVars, memberVars>>

\* Dropping the start's future before it returns.
CallerGone ==
  /\ caller \in {"admission", "waiting"}
  /\ Abandon
  /\ op' = IF caller = "admission" THEN "done" ELSE op
  /\ caller' = "gone"
  /\ UNCHANGED <<expired, closed, stall, passVars, hostVars, memberVars>>

\* At an Abort the start returns Unsettled at once; otherwise with the result,
\* an error also when the pass failed after its members were decided.
StartReturns ==
  /\ caller = "waiting"
  /\ Observe
  /\ \/ Current = "Abort" /\ caller' = "unsettled"
     \/ /\ Current # "Abort" /\ op = "done"
        /\ caller' \in IF Current = "Activate" THEN {"activated", "failed"} ELSE {"failed"}
  /\ UNCHANGED <<expired, closed, opVars, passVars, hostVars, memberVars>>

-----------------------------------------------------------------------------
(* The tracked operation before its roster pass. *)

NextStage(s) ==
  CASE s = "entered" -> "register"
    [] s = "register" -> "publish" [] s = "publish" -> "prewarm"
    [] s = "prewarm" -> "lift" [] s = "start" -> "controller"

\* No step starts once the terminal decision is Abort.
EnterAfter(s) == Observe /\ op' = IF Current = "Abort" THEN "done" ELSE NextStage(s)

\* An entered step runs to its end, and only a failed one ends the setup.
PreludeStep(s) ==
  /\ op = s
  /\ s # "lift"
  /\ \/ EnterAfter(s)
     \/ s = "register" /\ op' = "done" /\ UNCHANGED terminalVars
  /\ UNCHANGED <<expired, callVars, stall, passVars, hostVars, memberVars>>

Exhausted(st) ==
  \/ st.consecutive >= MaxConsecutive
  \/ st.total >= MaxConsecutive * TotalPerConsecutive

Stalled(p) ==
  [point |-> p, total |-> stall.total + 1,
   consecutive |-> IF stall.point = p THEN stall.consecutive + 1 ELSE 1]

\* The explicit resume stalls at p and is joined again until the policy is
\* exhausted.
LiftStalls(p) ==
  /\ op = "lift"
  /\ IF Exhausted(Stalled(p)) THEN op' = "done" /\ stall' = NoStall
                             ELSE stall' = Stalled(p) /\ UNCHANGED op
  /\ UNCHANGED <<expired, terminalVars, callVars, passVars, hostVars, memberVars>>

LiftReturns ==
  /\ op = "lift"
  /\ op' \in {"start", "done"}
  /\ stall' = NoStall
  /\ UNCHANGED <<expired, terminalVars, callVars, passVars, hostVars, memberVars>>

\* A roster that cannot be held (lazy mode, a placed, bound or messaged
\* member) is refused before anything is decided.
StartPass ==
  /\ op = "start"
  /\ \/ EnterAfter("start")
     \/ op' = "done" /\ UNCHANGED terminalVars
  /\ UNCHANGED <<expired, callVars, stall, passVars, hostVars, memberVars>>

\* The bootstrap controller is taken and the generation begun; preparing the
\* controlled bootstrap may fail.
BeginGeneration ==
  /\ op = "controller"
  /\ op' \in {"fresh", "done"}
  /\ UNCHANGED <<expired, terminalVars, callVars, stall, passVars, hostVars, memberVars>>

\* No continuity record, tentative or not, for any roster identity.
Fresh == \A m \in Roster : entry[m] # "Active" /\ pc["guest"][m] # "creating"

\* resolve_many over the roster; a store error refuses the setup too.
ReadFreshness ==
  /\ op = "fresh"
  /\ \/ Fresh /\ op' = "install"
     \/ op' = "done"
  /\ UNCHANGED <<expired, terminalVars, callVars, stall, passVars, hostVars, memberVars>>

Install ==
  /\ op = "install"
  /\ Observe
  /\ op' = IF Current = "Abort" THEN "done" ELSE "registering"
  /\ installed' = (Current # "Abort")
  /\ producer' = IF Current = "Abort" THEN producer ELSE "waiting"
  /\ UNCHANGED <<expired, callVars, stall, ended, held, settled, slots,
                 host, report, memberVars>>

\* Registration reserves every roster identity's lifecycle lock, re-registers
\* the Broken ones Dormant and starts the members; it may fail as a whole.
RegisterRoster ==
  /\ op = "registering"
  /\ \A m \in Roster : lock[m] = "free"
  /\ \/ /\ op' = "members"
        /\ entry' = [m \in Roster |-> IF entry[m] = "Broken" THEN "Dormant" ELSE entry[m]]
        /\ pc' = [pc EXCEPT !["pass"] = [m \in Roster |-> "slot"]]
        /\ UNCHANGED ended
     \/ op' = "ended" /\ ended' = TRUE /\ UNCHANGED <<entry, pc>>
  /\ UNCHANGED <<expired, terminalVars, callVars, stall, installed, held, settled,
                 slots, hostVars, lock, out, owed, via>>

\* The roster stream is exhausted: topology is reconciled and the pass ends.
EndPass ==
  /\ op = "members"
  /\ \A m \in Roster : pc["pass"][m] = "done"
  /\ op' = "ended"
  /\ ended' = TRUE
  /\ UNCHANGED <<expired, terminalVars, callVars, stall, installed, held, settled,
                 slots, hostVars, memberVars>>

\* Both halves joined: the pass slot is cleared and the result is sent.
Finish ==
  /\ op = "ended"
  /\ producer = "done"
  /\ op' = "done"
  /\ installed' = FALSE
  /\ UNCHANGED <<expired, terminalVars, callVars, stall, ended, held, settled,
                 slots, hostVars, memberVars>>

-----------------------------------------------------------------------------
(* The producer and the host's callback. *)

NotHeld == \E m \in Roster : m \in settled /\ m \notin held

\* Mutant of HeldAnswer: one held member is enough.
HeldAnswerAny ==
  CASE expired -> "deadline" [] NotHeld -> "notheld"
    [] held # {} -> "held" [] ended -> "ended"
    [] caller = "gone" -> "abandoned" [] OTHER -> "wait"

\* What wait_held, then the caller's loss, answers: deadline, a member
\* settled unheld, all held, the pass ended, abandoned.
HeldAnswer ==
  CASE expired -> "deadline" [] NotHeld -> "notheld"
    [] held = Roster -> "held" [] ended -> "ended"
    [] caller = "gone" -> "abandoned" [] OTHER -> "wait"

WaitHeld ==
  /\ producer = "waiting"
  /\ HeldAnswer # "wait"
  /\ \/ /\ HeldAnswer = "held" /\ decision # "Abort"
        /\ producer' = "asking" /\ host' = "running"
        /\ UNCHANGED <<terminalVars, report>>
     \/ /\ HeldAnswer = "held" /\ decision = "Abort"
        /\ producer' = "done"
        /\ report' = AbortRefusal
        /\ UNCHANGED <<terminalVars, host>>
     \/ /\ HeldAnswer # "held"
        /\ AbortWith(HeldAnswer)
        /\ producer' = "done"
        /\ UNCHANGED host
  /\ UNCHANGED <<expired, callVars, opVars, passVars, memberVars>>

\* The application answers, or never does.
HostAnswers ==
  /\ host = "running"
  /\ host' \in {"ok", "refused"}
  /\ UNCHANGED <<expired, terminalVars, callVars, opVars, passVars, producer,
                 report, memberVars>>

\* Deadline, then the caller's loss, then the answer; either of the first two
\* may still come true between its poll and the answer's.  A callback that is
\* still running is joined.
AwaitHost ==
  /\ producer = "asking"
  /\ \/ /\ expired \/ caller = "gone"
        /\ AbortWith(IF expired THEN "deadline" ELSE "abandoned")
        /\ producer' = "joining"
     \/ /\ host # "running"
        /\ IF host = "ok" THEN SettleOk ELSE AbortWith("host")
        /\ producer' = "done"
  /\ UNCHANGED <<expired, callVars, opVars, passVars, host, memberVars>>

JoinHost ==
  /\ producer = "joining"
  /\ host # "running"
  /\ producer' = "done"
  /\ UNCHANGED <<expired, terminalVars, callVars, opVars, passVars, host,
                 report, memberVars>>

-----------------------------------------------------------------------------
(* The members: one embodiment transaction, run by the pass or by a guest. *)

\* A member's task takes a construction slot, or is refused at an Abort and
\* is then never constructed.
TakeConstructionSlot(m) ==
  /\ pc["pass"][m] = "slot"
  /\ Observe
  /\ \/ /\ Current = "Abort"
        /\ pc' = [pc EXCEPT !["pass"][m] = "park"]
        /\ UNCHANGED slots
     \/ /\ Current # "Abort"
        /\ Cardinality(slots) < Slots
        /\ slots' = slots \cup {m}
        /\ pc' = [pc EXCEPT !["pass"][m] = "lock"]
  /\ UNCHANGED <<expired, callVars, opVars, installed, ended, held, settled,
                 hostVars, lock, entry, out, owed, via>>

GuestArrives(m) ==
  /\ m \in Guests
  /\ pc["guest"][m] = "idle"
  /\ pc' = [pc EXCEPT !["guest"][m] = "lock"]
  /\ UNCHANGED <<expired, terminalVars, callVars, opVars, passVars, hostVars,
                 lock, entry, out, owed, via>>

\* Where an actor goes when its transaction returns: a guest is done, the
\* pass parks a failure and records the rest.
Returned(a, o) ==
  CASE a = "guest" -> "done" [] a = "pass" /\ o = "Broken" -> "park"
    [] OTHER -> "record"

Outcome(a, m, o) ==
  out' = IF a = "pass" THEN [out EXCEPT ![m] = o] ELSE out

\* Mutant of Fail: the lifecycle guard outlives a failed transaction.
FailKeepsLock(a, m) ==
  /\ pc' = [pc EXCEPT ![a][m] = Returned(a, "Broken")]
  /\ Outcome(a, m, "Broken")
  /\ UNCHANGED <<lock, entry, owed, via>>

\* The transaction fails: its uninstalled cleanup runs and the lifecycle lock
\* is released; the entry keeps its state.
Fail(a, m) ==
  /\ pc' = [pc EXCEPT ![a][m] = Returned(a, "Broken")]
  /\ lock' = [lock EXCEPT ![m] = "free"]
  /\ Outcome(a, m, "Broken")
  /\ UNCHANGED <<entry, owed, via>>

OwedRefused(m) == m \in owed /\ ~installed

\* The lifecycle lock is taken and the entry read under it; an Active member's
\* lease is validated, which may fail.
Enter(a, m) ==
  /\ pc[a][m] = "lock"
  /\ lock[m] = "free"
  /\ \/ /\ entry[m] = "Active"
        /\ pc' = [pc EXCEPT ![a][m] = Returned(a, "Resumed")]
        /\ Outcome(a, m, "Resumed")
        /\ UNCHANGED <<lock, entry, owed, via>>
     \/ /\ OwedRefused(m) \/ entry[m] \in {"Active", "Broken"}
        /\ Fail(a, m)
     \/ /\ entry[m] = "Dormant"
        /\ ~OwedRefused(m)
        /\ pc' = [pc EXCEPT ![a][m] = "building"]
        /\ lock' = [lock EXCEPT ![m] = a]
        /\ UNCHANGED <<entry, out, owed, via>>
  /\ UNCHANGED <<expired, terminalVars, callVars, opVars, passVars, hostVars>>

\* Lease, customizer and tentative record; then the create step, which holds
\* the member when a pass that covers it is installed at that moment.
Build(a, m) ==
  /\ pc[a][m] = "building"
  /\ \/ Fail(a, m)
     \/ /\ pc' = [pc EXCEPT ![a][m] = IF installed THEN "spawning" ELSE "creating"]
        /\ UNCHANGED <<lock, entry, out, owed, via>>
  /\ UNCHANGED <<expired, terminalVars, callVars, opVars, passVars, hostVars>>

\* Mutant of Arrive: the construction slot is kept until the member settles.
ArriveKeepsSlot(m) == held' = held \cup {m} /\ UNCHANGED slots

\* Reporting held gives the member's construction slot back.
Arrive(m) == held' = held \cup {m} /\ slots' = slots \ {m}

SpawnHeld(a, m) ==
  /\ pc[a][m] = "spawning"
  /\ \/ Fail(a, m) /\ UNCHANGED <<held, slots>>
     \/ /\ Arrive(m)
        /\ pc' = [pc EXCEPT ![a][m] = "atHold"]
        /\ UNCHANGED <<lock, entry, out, owed, via>>
  /\ UNCHANGED <<expired, terminalVars, callVars, opVars, installed, ended,
                 settled, hostVars>>

WaitDecision(a, m) ==
  /\ pc[a][m] = "atHold"
  /\ Current # "None"
  /\ Observe
  /\ pc' = [pc EXCEPT ![a][m] = IF Current = "Activate" THEN "activating" ELSE "aborting"]
  /\ UNCHANGED <<expired, callVars, opVars, passVars, hostVars, lock, entry, out,
                 owed, via>>

\* Core accepts an activation first polled before the deadline, and expires
\* one polled at or after it.
Activate(a, m) ==
  /\ pc[a][m] = "activating"
  /\ \/ Fail(a, m)
     \/ /\ ~expired
        /\ pc' = [pc EXCEPT ![a][m] = "publishing"]
        /\ UNCHANGED <<lock, entry, out, owed, via>>
  /\ UNCHANGED <<expired, terminalVars, callVars, opVars, passVars, hostVars>>

Abort(a, m) ==
  /\ pc[a][m] = "aborting"
  /\ Fail(a, m)
  /\ UNCHANGED <<expired, terminalVars, callVars, opVars, passVars, hostVars>>

\* The final record and registration; the entry becomes Active whatever its
\* state meanwhile.
Publish(a, m, from, how) ==
  /\ pc[a][m] = from
  /\ \/ Fail(a, m)
     \/ /\ entry' = [entry EXCEPT ![m] = "Active"]
        /\ via' = [via EXCEPT ![m] = how]
        /\ lock' = [lock EXCEPT ![m] = "free"]
        /\ pc' = [pc EXCEPT ![a][m] = Returned(a, "Created")]
        /\ Outcome(a, m, "Created")
        /\ UNCHANGED owed
  /\ UNCHANGED <<expired, terminalVars, callVars, opVars, passVars, hostVars>>

\* park_embodiment_failure: no lifecycle lock is taken.
Park(m) ==
  /\ pc["pass"][m] = "park"
  /\ entry' = [entry EXCEPT ![m] = "Broken"]
  /\ out' = [out EXCEPT ![m] = "Broken"]
  /\ pc' = [pc EXCEPT !["pass"][m] = "record"]
  /\ UNCHANGED <<expired, terminalVars, callVars, opVars, passVars, hostVars,
                 lock, owed, via>>

\* Mutant of OwedAfter: only a member that was held owes a completion.
OwedAfterHeldOnly(m) ==
  CASE out[m] = "Created" -> owed \ {m}
    [] out[m] = "Broken" /\ m \in held -> owed \cup {m}
    [] OTHER -> owed

OwedAfter(m) ==
  CASE out[m] = "Created" -> owed \ {m}
    [] out[m] = "Broken" -> owed \cup {m}
    [] OTHER -> owed

Settle(m) ==
  /\ pc["pass"][m] = "record"
  /\ owed' = OwedAfter(m)
  /\ settled' = settled \cup {m}
  /\ slots' = slots \ {m}
  /\ pc' = [pc EXCEPT !["pass"][m] = "done"]
  /\ UNCHANGED <<expired, terminalVars, callVars, opVars, installed, ended, held,
                 hostVars, lock, entry, out, via>>

-----------------------------------------------------------------------------
Init ==
  /\ expired = FALSE
  /\ decision = "None" /\ abandoned = FALSE /\ cause = "none"
  /\ report = "none"
  /\ closed = FALSE /\ caller = "admission"
  /\ op = "queued" /\ stall = NoStall
  /\ installed = FALSE /\ ended = FALSE
  /\ held = {} /\ settled = {} /\ slots = {}
  /\ producer = "idle" /\ host = "notAsked"
  /\ pc = [a \in Actors |-> [m \in Roster |-> "idle"]]
  /\ lock = [m \in Roster |-> "free"]
  /\ owed \in SUBSET OwedBefore
  /\ entry = [m \in Roster |-> IF m \in owed THEN "Broken" ELSE "Dormant"]
  /\ out = [m \in Roster |-> "none"]
  /\ via = [m \in Roster |-> "none"]

Transaction(a, m) ==
  \/ Enter(a, m)
  \/ Build(a, m)
  \/ SpawnHeld(a, m)
  \/ WaitDecision(a, m)
  \/ Activate(a, m)
  \/ Abort(a, m)
  \/ Publish(a, m, "publishing", "held")

\* What the runtime itself runs once it can.
RuntimeStep ==
  \/ RefuseAdmission \/ Admit \/ StartReturns
  \/ \E s \in Prelude : PreludeStep(s)
  \/ \E p \in StallPoints : LiftStalls(p)
  \/ LiftReturns \/ StartPass
  \/ BeginGeneration \/ ReadFreshness \/ Install \/ RegisterRoster
  \/ EndPass \/ Finish
  \/ WaitHeld \/ AwaitHost \/ JoinHost
  \/ \E m \in Roster :
       \/ TakeConstructionSlot(m) \/ Park(m) \/ Settle(m)
       \/ \E a \in Actors : Transaction(a, m)
       \/ Publish("guest", m, "creating", "unheld")

\* What the world around it may do.
EnvironmentStep ==
  \/ DeadlinePasses \/ Close \/ CallerGone \/ HostAnswers
  \/ \E m \in Guests : GuestArrives(m)

Next == RuntimeStep \/ EnvironmentStep

Spec == Init /\ [][Next]_vars

\* The executor keeps polling what is ready and Core settles every call; the
\* deadline, the host, the caller and the guests promise nothing.
FairSpec == Spec /\ WF_vars(RuntimeStep)

-----------------------------------------------------------------------------
(* Properties. *)

\* The points of a member's transaction between taking its lifecycle lock and
\* giving it back, and all of them.
Embodying == {"building", "creating", "spawning", "atHold", "activating",
              "aborting", "publishing"}
Points == {"idle", "slot", "lock", "park", "record", "done"} \cup Embodying

TerminalTyped ==
  /\ expired \in BOOLEAN /\ abandoned \in BOOLEAN /\ closed \in BOOLEAN
  /\ decision \in {"None", "Activate", "Abort"}
  /\ {cause, report} \subseteq
       {"none", "deadline", "abandoned", "notheld", "ended", "host"}
  /\ caller \in {"admission", "waiting", "gone", "unsettled", "activated", "failed"}
  /\ producer \in {"idle", "waiting", "asking", "joining", "done"}
  /\ host \in {"notAsked", "running", "ok", "refused"}

OperationTyped ==
  /\ op \in Stages
  /\ stall.consecutive \in 0..(MaxConsecutive - 1)
  /\ stall.total \in 0..(MaxConsecutive * TotalPerConsecutive - 1)

PassTyped ==
  /\ installed \in BOOLEAN /\ ended \in BOOLEAN
  /\ held \subseteq Roster /\ settled \subseteq Roster /\ slots \subseteq Roster
  /\ Cardinality(slots) <= Slots

MembersTyped ==
  /\ pc \in [Actors -> [Roster -> Points]]
  /\ lock \in [Roster -> Actors \cup {"free"}]
  /\ entry \in [Roster -> {"Dormant", "Active", "Broken"}]
  /\ out \in [Roster -> {"none", "Created", "Resumed", "Broken"}]
  /\ owed \subseteq Roster
  /\ via \in [Roster -> {"none", "held", "unheld"}]

TypeOK == TerminalTyped /\ OperationTyped /\ PassTyped /\ MembersTyped

\* A held member's native activation was asked for, or its publication made.
Released(m) ==
  \/ via[m] = "held"
  \/ \E a \in Actors : pc[a][m] \in {"activating", "publishing"}

\* No member's activation is even asked for, let alone its publication made,
\* before every roster member was held, the host completed from all of their
\* finished surfaces and the pass chose Activate.  From there on each member
\* goes its own way (held_bootstrap.rs: activation is never atomic across
\* members): a sibling that fails or expires takes nothing back.
NoneBeforeAllHeld ==
  \A m \in Roster :
    Released(m) => decision = "Activate" /\ host = "ok" /\ held = Roster

\* The refusal a setup reports is what recorded its Abort, also when the
\* deadline, a lost caller and the host's refusal race each other.
RefusalNamesCause == report # "none" => report = cause

\* When the operation is over no roster member is left between two owners:
\* each one is published or owes its host a fresh held completion, and no
\* lifecycle lock or construction slot is left taken by the pass.
EveryMemberAccounted ==
  op = "done" /\ ended /\ settled # {} =>
    /\ \A m \in Roster : entry[m] = "Active" \/ m \in owed
    /\ \A m \in Roster : lock[m] # "pass"
    /\ slots = {}

\* A step that starts no step of the prepared mob's activation, no pass, no
\* member that still waited for a construction slot, no host callback and no
\* native activation.
StartsNothing ==
  /\ op' # op => op' \notin Prelude \cup {"controller", "registering"}
  /\ host = "notAsked" => host' = "notAsked"
  /\ \A m \in Roster : pc["pass"][m] = "slot" => pc'["pass"][m] # "lock"
  /\ \A a \in Actors, m \in Roster :
       pc'[a][m] = "activating" => pc[a][m] = "activating"

\* After an Abort nothing more is started.
NothingStartsAfterAbort == [][decision = "Abort" => StartsNothing]_vars

\* A step that keeps a decision, and decides to activate only before the
\* deadline and for a caller that is still there.
ChoosesInTimeAndOnce ==
  /\ decision # "None" => decision' = decision
  /\ decision = "None" /\ decision' = "Activate" => ~expired /\ caller # "gone"

\* The pass's choice is made before the deadline and once.
ChosenInTimeAndOnce == [][ChoosesInTimeAndOnce]_vars

\* The public start returns once the deadline has passed, even when the host's
\* callback, the members' aborts or the prepared mob's activation go on.
StartIsBounded ==
  (caller \in {"admission", "waiting"} /\ expired) ~>
    caller \notin {"admission", "waiting"}

\* The tracked operation ends as soon as the host's callback does: no member,
\* lock, slot or stalled resume keeps it open for ever.
Settles ==
  []<>(host # "running") /\ <>expired => <>(op = "done")

\* Fewer construction slots than members never block the pass: without a
\* deadline it still reaches its decision or asks the host, as long as no
\* guest is itself waiting at the hold.
SlotsNeverBlock ==
  [](~expired /\ \A m \in Guests : pc["guest"][m] # "atHold") =>
    <>(op = "done" \/ decision # "None" \/ host # "notAsked")

\* Nothing outside a held pass that covers it embodies a member that owes its
\* host a held completion (module documentation of held_bootstrap.rs).
OwedIsNotEmbodied == \A m \in Roster : m \in owed => entry[m] # "Active"

\* A pass is sound at every moment: its counters and slots stay within their
\* limits, its refusal names what aborted it, and when it is over every member
\* is published or owes a completion, with no lock or slot left behind.
PassSound == TypeOK /\ RefusalNamesCause /\ EveryMemberAccounted

\* The terminal decision is made once and in time, and binds everybody: after
\* an Abort nothing more is started.
DecisionBinds == ChosenInTimeAndOnce /\ NothingStartsAfterAbort

\* A held setup ends: for its caller by the deadline, for the tracked operation
\* once the host's callback does.
SetupEnds == StartIsBounded /\ Settles
=============================================================================
