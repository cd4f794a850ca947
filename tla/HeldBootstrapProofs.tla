------------------------ MODULE HeldBootstrapProofs ------------------------
(***************************************************************************)
(* Proofs about HeldBootstrap, for every roster, every set of guests and   *)
(* every number of construction slots.                                     *)
(***************************************************************************)
EXTENDS HeldBootstrap, FiniteSetTheorems, TLAPS

(***************************************************************************)
(* The inductive invariant, in three parts.                                *)
(***************************************************************************)
Idle == {"idle", "slot"}

Before == {"queued", "entered", "register", "publish", "prewarm", "lift", "start",
           "controller", "fresh", "install"}

(* Who may still speak for the setup: the producer does not exist before    *)
(* the pass is installed and reports once, an Activate is the producer's    *)
(* last word after the host's Ok, and an Abort nobody reported yet was      *)
(* recorded by a lost caller or by the deadline.                            *)
TerminalSound ==
  /\ caller = "admission" => op = "queued"
  /\ caller = "gone" => decision # "None"
  /\ op \in Before => producer = "idle"
  /\ producer \in {"idle", "waiting"} => host = "notAsked"
  /\ producer \in {"idle", "waiting", "asking"} => report = "none"
  /\ producer \in {"asking", "joining"} => held = Roster
  /\ decision = "Activate" =>
       producer = "done" /\ host = "ok" /\ held = Roster /\ report = "none"
  /\ abandoned => decision = "Abort" /\ cause = "abandoned"
  /\ report # "none" => decision = "Abort" /\ report = cause
  /\ decision = "Abort" /\ report = "none" => cause = AbortRefusal

(* An activation that was started, and a held member that was published,    *)
(* rest on the decision to activate.                                        *)
ActivationDecided ==
  \A m \in Roster :
    /\ via[m] = "held" => decision = "Activate"
    /\ \A a \in Actors :
         pc[a][m] \in {"activating", "publishing"} => decision = "Activate"

(* What a member's transaction holds and leaves behind at every point.      *)
MembersSound ==
  /\ op \in Before \cup {"registering"} =>
       ~ended /\ \A m \in Roster : pc["pass"][m] = "idle"
  /\ ended => \/ \A m \in Roster : pc["pass"][m] = "idle"
              \/ \A m \in Roster : pc["pass"][m] = "done"
  /\ \A m \in Roster :
       /\ m \in settled => pc["pass"][m] = "done"
       /\ m \in slots => pc["pass"][m] \notin Idle \cup {"done"}
       /\ lock[m] = "pass" => pc["pass"][m] \in Embodying
       /\ pc["pass"][m] = "record" => out[m] # "none"
       /\ pc["pass"][m] = "record" /\ out[m] # "Broken" => entry[m] = "Active"
       /\ pc["pass"][m] = "done" => entry[m] = "Active" \/ m \in owed

Inv == TypeOK /\ TerminalSound /\ ActivationDecided /\ MembersSound

-----------------------------------------------------------------------------
(* The limits of a pass. *)

\* Both limits of the stall policy leave room for a first stall.
LEMMA StallLimits ==
  /\ 0 \in 0 .. (MaxConsecutive - 1)
  /\ 0 \in 0 .. (MaxConsecutive * TotalPerConsecutive - 1)
  /\ MaxConsecutive * TotalPerConsecutive \in Nat
  <1>1. \A a, b \in Nat \ {0} : a * b \in Nat /\ a * b >= 1
    OBVIOUS
  <1> QED
    BY <1>1, ConstantsAssumption

\* The construction slots can be counted.
LEMMA SlotsCounted ==
  ASSUME PassTyped
  PROVE  IsFiniteSet(slots) /\ Cardinality(slots) \in Nat
  BY ConstantsAssumption, FS_Subset, FS_CardinalityType DEF PassTyped

\* A slot given back leaves no more slots taken.
LEMMA SlotGivenBack ==
  ASSUME PassTyped, NEW m \in Roster
  PROVE  Cardinality(slots \ {m}) <= Slots
  <1>1. IsFiniteSet(slots) /\ Cardinality(slots) \in Nat
    BY SlotsCounted
  <1>2. /\ Cardinality(slots \ {m}) \in Nat
        /\ Cardinality(slots \ {m}) <= Cardinality(slots)
    BY <1>1, FS_RemoveElement, FS_CardinalityType
  <1> QED
    BY <1>1, <1>2, ConstantsAssumption DEF PassTyped

-----------------------------------------------------------------------------
(* Every step keeps the invariant: one step per action that changes the part *)
(* at hand, and one for those that leave it alone.                           *)

\* The terminal, the caller, the producer and the host.
LEMMA TerminalTypeStep ==
  ASSUME TypeOK, [Next]_vars
  PROVE  TerminalTyped'
  <1> USE DEF TypeOK, TerminalTyped, Observe, Record, Current, AbortRefusal,
      terminalVars, callVars, opVars, passVars, hostVars, memberVars
  <1>1. CASE RefuseAdmission
    BY <1>1 DEF RefuseAdmission, Abandon
  <1>2. CASE Admit
    BY <1>2 DEF Admit
  <1>3. CASE StartReturns
    BY <1>3 DEF StartReturns
  <1>4. ASSUME NEW s \in Prelude, PreludeStep(s)
        PROVE  TerminalTyped'
    BY <1>4 DEF PreludeStep, EnterAfter, NextStage
  <1>5. CASE StartPass
    BY <1>5 DEF StartPass, EnterAfter, NextStage
  <1>6. CASE Install
    BY <1>6 DEF Install
  <1>7. CASE WaitHeld
    BY <1>7 DEF WaitHeld, HeldAnswer, AbortWith
  <1>8. CASE AwaitHost
    BY <1>8 DEF AwaitHost, AbortWith, SettleOk
  <1>9. CASE JoinHost
    BY <1>9 DEF JoinHost
  <1>10. ASSUME NEW m \in Roster, TakeConstructionSlot(m)
        PROVE  TerminalTyped'
    BY <1>10 DEF TakeConstructionSlot
  <1>11. ASSUME NEW a \in Actors, NEW m \in Roster, WaitDecision(a, m)
        PROVE  TerminalTyped'
    BY <1>11 DEF WaitDecision
  <1>12. CASE DeadlinePasses
    BY <1>12 DEF DeadlinePasses
  <1>13. CASE Close
    BY <1>13 DEF Close
  <1>14. CASE CallerGone
    BY <1>14 DEF CallerGone, Abandon
  <1>15. CASE HostAnswers
    BY <1>15 DEF HostAnswers
  <1>16. CASE \/ LiftReturns \/ BeginGeneration \/ ReadFreshness
              \/ RegisterRoster \/ EndPass \/ Finish
              \/ \E p \in StallPoints : LiftStalls(p)
              \/ \E m \in Roster :
                   \/ Park(m) \/ Settle(m)
                   \/ Publish("guest", m, "creating", "unheld")
                   \/ \E a \in Actors :
                        \/ Enter(a, m) \/ Build(a, m) \/ SpawnHeld(a, m)
                        \/ Activate(a, m) \/ Abort(a, m)
                        \/ Publish(a, m, "publishing", "held")
              \/ \E m \in Guests : GuestArrives(m)
    BY <1>16 DEF LiftStalls, LiftReturns, BeginGeneration, ReadFreshness,
      RegisterRoster, EndPass, Finish, Park, Settle, Enter, Fail, Outcome,
      Build, SpawnHeld, Activate, Abort, Publish, GuestArrives
  <1>17. CASE UNCHANGED vars
    BY <1>17 DEF vars
  <1> HIDE DEF TypeOK, TerminalTyped, Observe, Record, Current, AbortRefusal,
      terminalVars, callVars, opVars, passVars, hostVars, memberVars
  <1> QED
    BY <1>1, <1>2, <1>3, <1>4, <1>5, <1>6, <1>7, <1>8, <1>9, <1>10, <1>11,
      <1>12, <1>13, <1>14, <1>15, <1>16, <1>17
    DEF Next, RuntimeStep, EnvironmentStep, Transaction

\* The operation: a stalled resume counts up to its policy's two limits.
LEMMA OperationTypeStep ==
  ASSUME TypeOK, [Next]_vars
  PROVE  OperationTyped'
  <1> USE DEF TypeOK, OperationTyped, Stages, Prelude, Observe, Record,
      Current, AbortRefusal, terminalVars, callVars, opVars, passVars,
      hostVars, memberVars
  <1>1. CASE RefuseAdmission
    BY <1>1 DEF RefuseAdmission, Abandon
  <1>2. CASE Admit
    BY <1>2 DEF Admit
  <1>3. ASSUME NEW s \in Prelude, PreludeStep(s)
        PROVE  OperationTyped'
    BY <1>3 DEF PreludeStep, EnterAfter, NextStage
  <1>4. ASSUME NEW p \in StallPoints, LiftStalls(p)
        PROVE  OperationTyped'
    <2>1. stall.consecutive \in Nat /\ stall.total \in Nat
      OBVIOUS
    <2>2. /\ Stalled(p).consecutive \in Nat
          /\ Stalled(p).total \in Nat
      BY <2>1 DEF Stalled
    <2>3. CASE Exhausted(Stalled(p))
      BY <1>4, <2>3, StallLimits DEF LiftStalls, NoStall
    <2>4. CASE ~Exhausted(Stalled(p))
      BY <1>4, <2>2, <2>4, StallLimits, ConstantsAssumption
      DEF LiftStalls, Exhausted
    <2> QED
      BY <2>3, <2>4
  <1>5. CASE LiftReturns
    BY <1>5, StallLimits DEF LiftReturns, NoStall
  <1>6. CASE StartPass
    BY <1>6 DEF StartPass, EnterAfter, NextStage
  <1>7. CASE BeginGeneration
    BY <1>7 DEF BeginGeneration
  <1>8. CASE ReadFreshness
    BY <1>8 DEF ReadFreshness
  <1>9. CASE Install
    BY <1>9 DEF Install
  <1>10. CASE RegisterRoster
    BY <1>10 DEF RegisterRoster
  <1>11. CASE EndPass
    BY <1>11 DEF EndPass
  <1>12. CASE Finish
    BY <1>12 DEF Finish
  <1>13. CASE CallerGone
    BY <1>13 DEF CallerGone, Abandon
  <1>14. CASE \/ StartReturns \/ WaitHeld \/ AwaitHost \/ JoinHost
              \/ DeadlinePasses \/ Close \/ HostAnswers
              \/ \E m \in Roster :
                   \/ TakeConstructionSlot(m) \/ Park(m) \/ Settle(m)
                   \/ Publish("guest", m, "creating", "unheld")
                   \/ \E a \in Actors :
                        \/ Enter(a, m) \/ Build(a, m) \/ SpawnHeld(a, m)
                        \/ WaitDecision(a, m) \/ Activate(a, m)
                        \/ Abort(a, m)
                        \/ Publish(a, m, "publishing", "held")
              \/ \E m \in Guests : GuestArrives(m)
    BY <1>14 DEF StartReturns, WaitHeld, AwaitHost, JoinHost,
      TakeConstructionSlot, Park, Settle, Enter, Fail, Outcome, Build,
      SpawnHeld, WaitDecision, Activate, Abort, Publish, DeadlinePasses,
      Close, HostAnswers, GuestArrives
  <1>15. CASE UNCHANGED vars
    BY <1>15 DEF vars
  <1> HIDE DEF TypeOK, OperationTyped, Stages, Prelude, Observe, Record,
      Current, AbortRefusal, terminalVars, callVars, opVars, passVars,
      hostVars, memberVars
  <1> QED
    BY <1>1, <1>2, <1>3, <1>4, <1>5, <1>6, <1>7, <1>8, <1>9, <1>10, <1>11,
      <1>12, <1>13, <1>14, <1>15
    DEF Next, RuntimeStep, EnvironmentStep, Transaction

\* The pass: its construction slots stay within their number.
LEMMA PassTypeStep ==
  ASSUME TypeOK, [Next]_vars
  PROVE  PassTyped'
  <1> USE DEF TypeOK, PassTyped, Observe, Record, Current, AbortRefusal,
      terminalVars, callVars, opVars, passVars, hostVars, memberVars
  <1>1. CASE Install
    BY <1>1 DEF Install
  <1>2. CASE RegisterRoster
    BY <1>2 DEF RegisterRoster
  <1>3. CASE EndPass
    BY <1>3 DEF EndPass
  <1>4. CASE Finish
    BY <1>4 DEF Finish
  <1>5. ASSUME NEW m \in Roster, TakeConstructionSlot(m)
        PROVE  PassTyped'
    <2>1. IsFiniteSet(slots) /\ Cardinality(slots) \in Nat
      BY SlotsCounted
    <2>2. Cardinality(slots) < Slots => Cardinality(slots \cup {m}) <= Slots
      <3>1. \/ Cardinality(slots \cup {m}) = Cardinality(slots)
            \/ Cardinality(slots \cup {m}) = Cardinality(slots) + 1
        BY <2>1, FS_AddElement
      <3> QED
        BY <2>1, <3>1, ConstantsAssumption
    <2> QED
      BY <1>5, <2>2 DEF TakeConstructionSlot
  <1>6. ASSUME NEW m \in Roster, Settle(m)
        PROVE  PassTyped'
    <2>1. Cardinality(slots \ {m}) <= Slots
      BY SlotGivenBack
    <2> QED
      BY <1>6, <2>1 DEF Settle
  <1>7. ASSUME NEW a \in Actors, NEW m \in Roster, SpawnHeld(a, m)
        PROVE  PassTyped'
    <2>1. Cardinality(slots \ {m}) <= Slots
      BY SlotGivenBack
    <2> QED
      BY <1>7, <2>1 DEF SpawnHeld, Arrive
  <1>8. CASE \/ RefuseAdmission \/ Admit \/ StartReturns \/ LiftReturns
             \/ StartPass \/ BeginGeneration \/ ReadFreshness \/ WaitHeld
             \/ AwaitHost \/ JoinHost \/ DeadlinePasses \/ Close
             \/ CallerGone \/ HostAnswers
             \/ \E s \in Prelude : PreludeStep(s)
             \/ \E p \in StallPoints : LiftStalls(p)
             \/ \E m \in Roster :
                  \/ Park(m) \/ Publish("guest", m, "creating", "unheld")
                  \/ \E a \in Actors :
                       \/ Enter(a, m) \/ Build(a, m) \/ WaitDecision(a, m)
                       \/ Activate(a, m) \/ Abort(a, m)
                       \/ Publish(a, m, "publishing", "held")
             \/ \E m \in Guests : GuestArrives(m)
    BY <1>8 DEF RefuseAdmission, Admit, StartReturns, PreludeStep, LiftStalls,
      LiftReturns, StartPass, BeginGeneration, ReadFreshness, WaitHeld,
      AwaitHost, JoinHost, Park, Enter, Fail, Outcome, Build, WaitDecision,
      Activate, Abort, Publish, DeadlinePasses, Close, CallerGone,
      HostAnswers, GuestArrives
  <1>9. CASE UNCHANGED vars
    BY <1>9 DEF vars
  <1> HIDE DEF TypeOK, PassTyped, Observe, Record, Current, AbortRefusal,
      terminalVars, callVars, opVars, passVars, hostVars, memberVars
  <1> QED
    BY <1>1, <1>2, <1>3, <1>4, <1>5, <1>6, <1>7, <1>8, <1>9
    DEF Next, RuntimeStep, EnvironmentStep, Transaction

\* The members.
LEMMA MembersTypeStep ==
  ASSUME TypeOK, [Next]_vars
  PROVE  MembersTyped'
  <1> USE DEF TypeOK, MembersTyped, Actors, Points, Embodying, Observe,
      Record, Current, AbortRefusal, terminalVars, callVars, opVars, passVars,
      hostVars, memberVars
  <1>1. CASE RegisterRoster
    BY <1>1 DEF RegisterRoster
  <1>2. ASSUME NEW m \in Roster, TakeConstructionSlot(m)
        PROVE  MembersTyped'
    BY <1>2 DEF TakeConstructionSlot
  <1>3. ASSUME NEW m \in Roster, Park(m)
        PROVE  MembersTyped'
    BY <1>3 DEF Park
  <1>4. ASSUME NEW m \in Roster, Settle(m)
        PROVE  MembersTyped'
    BY <1>4 DEF Settle, OwedAfter
  <1>5. ASSUME NEW a \in Actors, NEW m \in Roster, Enter(a, m)
        PROVE  MembersTyped'
    BY <1>5 DEF Enter, Fail, Outcome, Returned
  <1>6. ASSUME NEW a \in Actors, NEW m \in Roster, Build(a, m)
        PROVE  MembersTyped'
    BY <1>6 DEF Build, Fail, Outcome, Returned
  <1>7. ASSUME NEW a \in Actors, NEW m \in Roster, SpawnHeld(a, m)
        PROVE  MembersTyped'
    BY <1>7 DEF SpawnHeld, Fail, Outcome, Returned, Arrive
  <1>8. ASSUME NEW a \in Actors, NEW m \in Roster, WaitDecision(a, m)
        PROVE  MembersTyped'
    BY <1>8 DEF WaitDecision
  <1>9. ASSUME NEW a \in Actors, NEW m \in Roster, Activate(a, m)
        PROVE  MembersTyped'
    BY <1>9 DEF Activate, Fail, Outcome, Returned
  <1>10. ASSUME NEW a \in Actors, NEW m \in Roster, Abort(a, m)
        PROVE  MembersTyped'
    BY <1>10 DEF Abort, Fail, Outcome, Returned
  <1>11. ASSUME NEW a \in Actors, NEW m \in Roster, Publish(a, m, "publishing", "held")
        PROVE  MembersTyped'
    BY <1>11 DEF Publish, Fail, Outcome, Returned
  <1>12. ASSUME NEW m \in Roster, Publish("guest", m, "creating", "unheld")
        PROVE  MembersTyped'
    BY <1>12 DEF Publish, Fail, Outcome, Returned
  <1>13. ASSUME NEW m \in Guests, GuestArrives(m)
        PROVE  MembersTyped'
    BY <1>13 DEF GuestArrives
  <1>14. CASE \/ RefuseAdmission \/ Admit \/ StartReturns \/ LiftReturns
              \/ StartPass \/ BeginGeneration \/ ReadFreshness \/ Install
              \/ EndPass \/ Finish \/ WaitHeld \/ AwaitHost \/ JoinHost
              \/ DeadlinePasses \/ Close \/ CallerGone \/ HostAnswers
              \/ \E s \in Prelude : PreludeStep(s)
              \/ \E p \in StallPoints : LiftStalls(p)
    BY <1>14 DEF RefuseAdmission, Admit, StartReturns, PreludeStep,
      LiftStalls, LiftReturns, StartPass, BeginGeneration, ReadFreshness,
      Install, EndPass, Finish, WaitHeld, AwaitHost, JoinHost, DeadlinePasses,
      Close, CallerGone, HostAnswers
  <1>15. CASE UNCHANGED vars
    BY <1>15 DEF vars
  <1> HIDE DEF TypeOK, MembersTyped, Actors, Points, Embodying, Observe,
      Record, Current, AbortRefusal, terminalVars, callVars, opVars, passVars,
      hostVars, memberVars
  <1> QED
    BY <1>1, <1>2, <1>3, <1>4, <1>5, <1>6, <1>7, <1>8, <1>9, <1>10, <1>11,
      <1>12, <1>13, <1>14, <1>15
    DEF Next, RuntimeStep, EnvironmentStep, Transaction

\* Every party keeps to its turn at the terminal decision.
LEMMA TerminalStep ==
  ASSUME Inv, [Next]_vars
  PROVE  TerminalSound'
  <1> USE DEF Inv, TypeOK, TerminalTyped, TerminalSound, Before, Prelude,
      Observe, Record, Current, AbortRefusal, terminalVars, callVars, opVars,
      passVars, hostVars, memberVars
  <1>1. CASE RefuseAdmission
    BY <1>1 DEF RefuseAdmission, Abandon
  <1>2. CASE Admit
    BY <1>2 DEF Admit
  <1>3. CASE StartReturns
    BY <1>3 DEF StartReturns
  <1>4. ASSUME NEW s \in Prelude, PreludeStep(s)
        PROVE  TerminalSound'
    BY <1>4 DEF PreludeStep, EnterAfter, NextStage
  <1>5. ASSUME NEW p \in StallPoints, LiftStalls(p)
        PROVE  TerminalSound'
    BY <1>5 DEF LiftStalls, Exhausted, Stalled, NoStall
  <1>6. CASE LiftReturns
    BY <1>6 DEF LiftReturns, NoStall
  <1>7. CASE StartPass
    BY <1>7 DEF StartPass, EnterAfter, NextStage
  <1>8. CASE BeginGeneration
    BY <1>8 DEF BeginGeneration
  <1>9. CASE ReadFreshness
    BY <1>9 DEF ReadFreshness
  <1>10. CASE Install
    BY <1>10 DEF Install
  <1>11. CASE RegisterRoster
    BY <1>11 DEF RegisterRoster
  <1>12. CASE EndPass
    BY <1>12 DEF EndPass
  <1>13. CASE Finish
    BY <1>13 DEF Finish
  <1>14. CASE WaitHeld
    BY <1>14 DEF WaitHeld, HeldAnswer, AbortWith
  <1>15. CASE AwaitHost
    BY <1>15 DEF AwaitHost, AbortWith, SettleOk
  <1>16. CASE JoinHost
    BY <1>16 DEF JoinHost
  <1>17. ASSUME NEW m \in Roster, TakeConstructionSlot(m)
        PROVE  TerminalSound'
    BY <1>17 DEF TakeConstructionSlot
  <1>18. ASSUME NEW a \in Actors, NEW m \in Roster, SpawnHeld(a, m)
        PROVE  TerminalSound'
    BY <1>18 DEF SpawnHeld, Fail, Outcome, Returned, Arrive
  <1>19. ASSUME NEW a \in Actors, NEW m \in Roster, WaitDecision(a, m)
        PROVE  TerminalSound'
    BY <1>19 DEF WaitDecision
  <1>20. CASE CallerGone
    BY <1>20 DEF CallerGone, Abandon
  <1>21. CASE HostAnswers
    BY <1>21 DEF HostAnswers
  <1>22. CASE \/ DeadlinePasses \/ Close
              \/ \E m \in Roster :
                   \/ Park(m) \/ Settle(m)
                   \/ Publish("guest", m, "creating", "unheld")
                   \/ \E a \in Actors :
                        \/ Enter(a, m) \/ Build(a, m) \/ Activate(a, m)
                        \/ Abort(a, m)
                        \/ Publish(a, m, "publishing", "held")
              \/ \E m \in Guests : GuestArrives(m)
    BY <1>22 DEF Park, Settle, Enter, Fail, Outcome, Build, Activate, Abort,
      Publish, DeadlinePasses, Close, GuestArrives
  <1>23. CASE UNCHANGED vars
    BY <1>23 DEF vars
  <1> HIDE DEF Inv, TypeOK, TerminalTyped, TerminalSound, Before, Prelude,
      Observe, Record, Current, AbortRefusal, terminalVars, callVars, opVars,
      passVars, hostVars, memberVars
  <1> QED
    BY <1>1, <1>2, <1>3, <1>4, <1>5, <1>6, <1>7, <1>8, <1>9, <1>10, <1>11,
      <1>12, <1>13, <1>14, <1>15, <1>16, <1>17, <1>18, <1>19, <1>20, <1>21,
      <1>22, <1>23
    DEF Next, RuntimeStep, EnvironmentStep, Transaction

\* Nothing is activated or published without the decision to.
LEMMA ActivationStep ==
  ASSUME Inv, [Next]_vars
  PROVE  ActivationDecided'
  <1> USE DEF Inv, TypeOK, MembersTyped, TerminalSound, ActivationDecided,
      Actors, Observe, Record, Current, AbortRefusal, terminalVars, callVars,
      opVars, passVars, hostVars, memberVars
  <1>1. CASE RefuseAdmission
    BY <1>1 DEF RefuseAdmission, Abandon
  <1>2. CASE StartReturns
    BY <1>2 DEF StartReturns
  <1>3. ASSUME NEW s \in Prelude, PreludeStep(s)
        PROVE  ActivationDecided'
    BY <1>3 DEF PreludeStep, EnterAfter, NextStage
  <1>4. CASE StartPass
    BY <1>4 DEF StartPass, EnterAfter, NextStage
  <1>5. CASE Install
    BY <1>5 DEF Install
  <1>6. CASE RegisterRoster
    BY <1>6 DEF RegisterRoster
  <1>7. CASE WaitHeld
    BY <1>7 DEF WaitHeld, HeldAnswer, AbortWith
  <1>8. CASE AwaitHost
    BY <1>8 DEF AwaitHost, AbortWith, SettleOk
  <1>9. ASSUME NEW m \in Roster, TakeConstructionSlot(m)
        PROVE  ActivationDecided'
    BY <1>9 DEF TakeConstructionSlot
  <1>10. ASSUME NEW m \in Roster, Park(m)
        PROVE  ActivationDecided'
    BY <1>10 DEF Park
  <1>11. ASSUME NEW m \in Roster, Settle(m)
        PROVE  ActivationDecided'
    BY <1>11 DEF Settle, OwedAfter
  <1>12. ASSUME NEW a \in Actors, NEW m \in Roster, Enter(a, m)
        PROVE  ActivationDecided'
    BY <1>12 DEF Enter, Fail, Outcome, Returned
  <1>13. ASSUME NEW a \in Actors, NEW m \in Roster, Build(a, m)
        PROVE  ActivationDecided'
    BY <1>13 DEF Build, Fail, Outcome, Returned
  <1>14. ASSUME NEW a \in Actors, NEW m \in Roster, SpawnHeld(a, m)
        PROVE  ActivationDecided'
    BY <1>14 DEF SpawnHeld, Fail, Outcome, Returned, Arrive
  <1>15. ASSUME NEW a \in Actors, NEW m \in Roster, WaitDecision(a, m)
        PROVE  ActivationDecided'
    BY <1>15 DEF WaitDecision
  <1>16. ASSUME NEW a \in Actors, NEW m \in Roster, Activate(a, m)
        PROVE  ActivationDecided'
    BY <1>16 DEF Activate, Fail, Outcome, Returned
  <1>17. ASSUME NEW a \in Actors, NEW m \in Roster, Abort(a, m)
        PROVE  ActivationDecided'
    BY <1>17 DEF Abort, Fail, Outcome, Returned
  <1>18. ASSUME NEW a \in Actors, NEW m \in Roster, Publish(a, m, "publishing", "held")
        PROVE  ActivationDecided'
    BY <1>18 DEF Publish, Fail, Outcome, Returned
  <1>19. ASSUME NEW m \in Roster, Publish("guest", m, "creating", "unheld")
        PROVE  ActivationDecided'
    BY <1>19 DEF Publish, Fail, Outcome, Returned
  <1>20. CASE CallerGone
    BY <1>20 DEF CallerGone, Abandon
  <1>21. ASSUME NEW m \in Guests, GuestArrives(m)
        PROVE  ActivationDecided'
    BY <1>21 DEF GuestArrives
  <1>22. CASE \/ Admit \/ LiftReturns \/ BeginGeneration \/ ReadFreshness
              \/ EndPass \/ Finish \/ JoinHost \/ DeadlinePasses \/ Close
              \/ HostAnswers
              \/ \E p \in StallPoints : LiftStalls(p)
    BY <1>22 DEF Admit, LiftStalls, LiftReturns, BeginGeneration,
      ReadFreshness, EndPass, Finish, JoinHost, DeadlinePasses, Close,
      HostAnswers
  <1>23. CASE UNCHANGED vars
    BY <1>23 DEF vars
  <1> HIDE DEF Inv, TypeOK, MembersTyped, TerminalSound, ActivationDecided,
      Actors, Observe, Record, Current, AbortRefusal, terminalVars, callVars,
      opVars, passVars, hostVars, memberVars
  <1> QED
    BY <1>1, <1>2, <1>3, <1>4, <1>5, <1>6, <1>7, <1>8, <1>9, <1>10, <1>11,
      <1>12, <1>13, <1>14, <1>15, <1>16, <1>17, <1>18, <1>19, <1>20, <1>21,
      <1>22, <1>23
    DEF Next, RuntimeStep, EnvironmentStep, Transaction

\* What the members' transactions hold and leave behind.
LEMMA MembersStep ==
  ASSUME Inv, [Next]_vars
  PROVE  MembersSound'
  <1> USE DEF Inv, TypeOK, MembersTyped, PassTyped, TerminalSound,
      MembersSound, Before, Prelude, Actors, Idle, Embodying, Observe, Record,
      Current, AbortRefusal, terminalVars, callVars, opVars, passVars,
      hostVars, memberVars
  <1>1. CASE RefuseAdmission
    BY <1>1 DEF RefuseAdmission, Abandon
  <1>2. CASE Admit
    BY <1>2 DEF Admit
  <1>3. ASSUME NEW s \in Prelude, PreludeStep(s)
        PROVE  MembersSound'
    BY <1>3 DEF PreludeStep, EnterAfter, NextStage
  <1>4. ASSUME NEW p \in StallPoints, LiftStalls(p)
        PROVE  MembersSound'
    BY <1>4 DEF LiftStalls, Exhausted, Stalled, NoStall
  <1>5. CASE LiftReturns
    BY <1>5 DEF LiftReturns, NoStall
  <1>6. CASE StartPass
    BY <1>6 DEF StartPass, EnterAfter, NextStage
  <1>7. CASE BeginGeneration
    BY <1>7 DEF BeginGeneration
  <1>8. CASE ReadFreshness
    BY <1>8 DEF ReadFreshness
  <1>9. CASE Install
    BY <1>9 DEF Install
  <1>10. CASE RegisterRoster
    BY <1>10 DEF RegisterRoster
  <1>11. CASE EndPass
    BY <1>11 DEF EndPass
  <1>12. CASE Finish
    BY <1>12 DEF Finish
  <1>13. ASSUME NEW m \in Roster, TakeConstructionSlot(m)
        PROVE  MembersSound'
    BY <1>13 DEF TakeConstructionSlot
  <1>14. ASSUME NEW m \in Roster, Park(m)
        PROVE  MembersSound'
    BY <1>14 DEF Park
  <1>15. ASSUME NEW m \in Roster, Settle(m)
        PROVE  MembersSound'
    BY <1>15 DEF Settle, OwedAfter
  <1>16. ASSUME NEW a \in Actors, NEW m \in Roster, Enter(a, m)
        PROVE  MembersSound'
    BY <1>16 DEF Enter, Fail, Outcome, Returned
  <1>17. ASSUME NEW a \in Actors, NEW m \in Roster, Build(a, m)
        PROVE  MembersSound'
    BY <1>17 DEF Build, Fail, Outcome, Returned
  <1>18. ASSUME NEW a \in Actors, NEW m \in Roster, SpawnHeld(a, m)
        PROVE  MembersSound'
    BY <1>18 DEF SpawnHeld, Fail, Outcome, Returned, Arrive
  <1>19. ASSUME NEW a \in Actors, NEW m \in Roster, WaitDecision(a, m)
        PROVE  MembersSound'
    BY <1>19 DEF WaitDecision
  <1>20. ASSUME NEW a \in Actors, NEW m \in Roster, Activate(a, m)
        PROVE  MembersSound'
    BY <1>20 DEF Activate, Fail, Outcome, Returned
  <1>21. ASSUME NEW a \in Actors, NEW m \in Roster, Abort(a, m)
        PROVE  MembersSound'
    BY <1>21 DEF Abort, Fail, Outcome, Returned
  <1>22. ASSUME NEW a \in Actors, NEW m \in Roster, Publish(a, m, "publishing", "held")
        PROVE  MembersSound'
    BY <1>22 DEF Publish, Fail, Outcome, Returned
  <1>23. ASSUME NEW m \in Roster, Publish("guest", m, "creating", "unheld")
        PROVE  MembersSound'
    BY <1>23 DEF Publish, Fail, Outcome, Returned
  <1>24. CASE CallerGone
    BY <1>24 DEF CallerGone, Abandon
  <1>25. ASSUME NEW m \in Guests, GuestArrives(m)
        PROVE  MembersSound'
    BY <1>25 DEF GuestArrives
  <1>26. CASE \/ StartReturns \/ WaitHeld \/ AwaitHost \/ JoinHost
              \/ DeadlinePasses \/ Close \/ HostAnswers
    BY <1>26 DEF StartReturns, WaitHeld, AwaitHost, JoinHost, DeadlinePasses,
      Close, HostAnswers
  <1>27. CASE UNCHANGED vars
    BY <1>27 DEF vars
  <1> HIDE DEF Inv, TypeOK, MembersTyped, PassTyped, TerminalSound,
      MembersSound, Before, Prelude, Actors, Idle, Embodying, Observe, Record,
      Current, AbortRefusal, terminalVars, callVars, opVars, passVars,
      hostVars, memberVars
  <1> QED
    BY <1>1, <1>2, <1>3, <1>4, <1>5, <1>6, <1>7, <1>8, <1>9, <1>10, <1>11,
      <1>12, <1>13, <1>14, <1>15, <1>16, <1>17, <1>18, <1>19, <1>20, <1>21,
      <1>22, <1>23, <1>24, <1>25, <1>26, <1>27
    DEF Next, RuntimeStep, EnvironmentStep, Transaction

\* The invariant holds before the setup is admitted ...
LEMMA InitInv == Init => Inv
  <1> SUFFICES ASSUME Init PROVE Inv
    OBVIOUS
  <1>1. TerminalTyped
    BY DEF Init, TerminalTyped
  <1>2. OperationTyped
    BY StallLimits DEF Init, OperationTyped, NoStall, Stages
  <1>3. PassTyped
    <2>1. Cardinality({}) = 0
      BY FS_EmptySet
    <2>2. Cardinality(slots) <= Slots
      BY <2>1, ConstantsAssumption DEF Init
    <2> QED
      BY <2>2 DEF Init, PassTyped
  <1>4. MembersTyped
    BY ConstantsAssumption DEF Init, MembersTyped, Points, Actors
  <1>5. TerminalSound /\ ActivationDecided /\ MembersSound
    BY DEF Init, TerminalSound, ActivationDecided, MembersSound, Before, Actors,
      Idle, Embodying
  <1> QED
    BY <1>1, <1>2, <1>3, <1>4, <1>5 DEF Inv, TypeOK

\* ... every step keeps it ...
LEMMA NextInv == Inv /\ [Next]_vars => Inv'
  BY TerminalTypeStep, OperationTypeStep, PassTypeStep, MembersTypeStep,
     TerminalStep, ActivationStep, MembersStep DEF Inv, TypeOK

\* ... and so it always holds.
LEMMA Invariant == Spec => []Inv
  BY InitInv, NextInv, PTL DEF Spec

-----------------------------------------------------------------------------
(* The theorems. *)

\* A pass is sound at every moment: its slots and stall counters stay within
\* their limits, the refusal it reports is what aborted it, and once it is over
\* every member is published or owes a held completion.
THEOREM PassIsSound == Spec => []PassSound
  <1>1. Inv => RefusalNamesCause
    BY DEF Inv, TypeOK, TerminalTyped, TerminalSound, RefusalNamesCause, AbortRefusal
  <1>2. Inv => EveryMemberAccounted
    BY DEF Inv, MembersSound, TypeOK, PassTyped, EveryMemberAccounted, Embodying, Idle
  <1>3. Inv => PassSound
    BY <1>1, <1>2 DEF Inv, PassSound
  <1> QED
    BY <1>3, Invariant, PTL

\* No member of the roster is activated or published before the pass chose
\* Activate, the host completed, and every roster member reached its hold.
THEOREM HeldUntilAllHeld == Spec => []NoneBeforeAllHeld
  <1>1. Inv => NoneBeforeAllHeld
    BY DEF Inv, ActivationDecided, TerminalSound, NoneBeforeAllHeld, Released
  <1> QED
    BY <1>1, Invariant, PTL

\* Only the producer chooses to activate, and only while nothing is decided.
LEMMA ChoosesStep ==
  ASSUME Inv, [Next]_vars
  PROVE  ChoosesInTimeAndOnce
  <1> USE DEF Inv, TypeOK, TerminalTyped, TerminalSound, ChoosesInTimeAndOnce,
      Observe, Record, Current, AbortRefusal, terminalVars, callVars, opVars,
      passVars, hostVars, memberVars
  <1>1. CASE RefuseAdmission
    BY <1>1 DEF RefuseAdmission, Abandon
  <1>2. CASE StartReturns
    BY <1>2 DEF StartReturns
  <1>3. ASSUME NEW s \in Prelude, PreludeStep(s)
        PROVE  ChoosesInTimeAndOnce
    BY <1>3 DEF PreludeStep, EnterAfter, NextStage
  <1>4. CASE StartPass
    BY <1>4 DEF StartPass, EnterAfter, NextStage
  <1>5. CASE Install
    BY <1>5 DEF Install
  <1>6. CASE WaitHeld
    BY <1>6 DEF WaitHeld, HeldAnswer, AbortWith
  <1>7. CASE AwaitHost
    BY <1>7 DEF AwaitHost, AbortWith, SettleOk
  <1>8. ASSUME NEW m \in Roster, TakeConstructionSlot(m)
        PROVE  ChoosesInTimeAndOnce
    BY <1>8 DEF TakeConstructionSlot
  <1>9. ASSUME NEW a \in Actors, NEW m \in Roster, WaitDecision(a, m)
        PROVE  ChoosesInTimeAndOnce
    BY <1>9 DEF WaitDecision
  <1>10. CASE CallerGone
    BY <1>10 DEF CallerGone, Abandon
  <1>11. CASE \/ Admit \/ LiftReturns \/ BeginGeneration \/ ReadFreshness
              \/ RegisterRoster \/ EndPass \/ Finish \/ JoinHost
              \/ DeadlinePasses \/ Close \/ HostAnswers
              \/ \E p \in StallPoints : LiftStalls(p)
              \/ \E m \in Roster :
                   \/ Park(m) \/ Settle(m)
                   \/ Publish("guest", m, "creating", "unheld")
                   \/ \E a \in Actors :
                        \/ Enter(a, m) \/ Build(a, m) \/ SpawnHeld(a, m)
                        \/ Activate(a, m) \/ Abort(a, m)
                        \/ Publish(a, m, "publishing", "held")
              \/ \E m \in Guests : GuestArrives(m)
    BY <1>11 DEF Admit, LiftStalls, LiftReturns, BeginGeneration,
      ReadFreshness, RegisterRoster, EndPass, Finish, JoinHost, Park, Settle,
      Enter, Fail, Outcome, Build, SpawnHeld, Activate, Abort, Publish,
      DeadlinePasses, Close, HostAnswers, GuestArrives
  <1>12. CASE UNCHANGED vars
    BY <1>12 DEF vars
  <1> HIDE DEF Inv, TypeOK, TerminalTyped, TerminalSound,
      ChoosesInTimeAndOnce, Observe, Record, Current, AbortRefusal,
      terminalVars, callVars, opVars, passVars, hostVars, memberVars
  <1> QED
    BY <1>1, <1>2, <1>3, <1>4, <1>5, <1>6, <1>7, <1>8, <1>9, <1>10, <1>11,
      <1>12
    DEF Next, RuntimeStep, EnvironmentStep, Transaction

\* Every start of something new looks at the decision first.
LEMMA StartsNothingStep ==
  ASSUME Inv, decision = "Abort", [Next]_vars
  PROVE  StartsNothing
  <1> USE DEF Inv, TypeOK, MembersTyped, TerminalSound, StartsNothing,
      Prelude, Actors, Observe, Record, Current, AbortRefusal, terminalVars,
      callVars, opVars, passVars, hostVars, memberVars
  <1>1. CASE RefuseAdmission
    BY <1>1 DEF RefuseAdmission, Abandon
  <1>2. CASE Admit
    BY <1>2 DEF Admit
  <1>3. ASSUME NEW s \in Prelude, PreludeStep(s)
        PROVE  StartsNothing
    BY <1>3 DEF PreludeStep, EnterAfter, NextStage
  <1>4. ASSUME NEW p \in StallPoints, LiftStalls(p)
        PROVE  StartsNothing
    BY <1>4 DEF LiftStalls, Exhausted, Stalled, NoStall
  <1>5. CASE LiftReturns
    BY <1>5 DEF LiftReturns, NoStall
  <1>6. CASE StartPass
    BY <1>6 DEF StartPass, EnterAfter, NextStage
  <1>7. CASE BeginGeneration
    BY <1>7 DEF BeginGeneration
  <1>8. CASE ReadFreshness
    BY <1>8 DEF ReadFreshness
  <1>9. CASE Install
    BY <1>9 DEF Install
  <1>10. CASE RegisterRoster
    BY <1>10 DEF RegisterRoster
  <1>11. CASE EndPass
    BY <1>11 DEF EndPass
  <1>12. CASE Finish
    BY <1>12 DEF Finish
  <1>13. CASE WaitHeld
    BY <1>13 DEF WaitHeld, HeldAnswer, AbortWith
  <1>14. ASSUME NEW m \in Roster, TakeConstructionSlot(m)
        PROVE  StartsNothing
    BY <1>14 DEF TakeConstructionSlot
  <1>15. ASSUME NEW m \in Roster, Park(m)
        PROVE  StartsNothing
    BY <1>15 DEF Park
  <1>16. ASSUME NEW m \in Roster, Settle(m)
        PROVE  StartsNothing
    BY <1>16 DEF Settle, OwedAfter
  <1>17. ASSUME NEW a \in Actors, NEW m \in Roster, Enter(a, m)
        PROVE  StartsNothing
    BY <1>17 DEF Enter, Fail, Outcome, Returned
  <1>18. ASSUME NEW a \in Actors, NEW m \in Roster, Build(a, m)
        PROVE  StartsNothing
    BY <1>18 DEF Build, Fail, Outcome, Returned
  <1>19. ASSUME NEW a \in Actors, NEW m \in Roster, SpawnHeld(a, m)
        PROVE  StartsNothing
    BY <1>19 DEF SpawnHeld, Fail, Outcome, Returned, Arrive
  <1>20. ASSUME NEW a \in Actors, NEW m \in Roster, WaitDecision(a, m)
        PROVE  StartsNothing
    BY <1>20 DEF WaitDecision
  <1>21. ASSUME NEW a \in Actors, NEW m \in Roster, Activate(a, m)
        PROVE  StartsNothing
    BY <1>21 DEF Activate, Fail, Outcome, Returned
  <1>22. ASSUME NEW a \in Actors, NEW m \in Roster, Abort(a, m)
        PROVE  StartsNothing
    BY <1>22 DEF Abort, Fail, Outcome, Returned
  <1>23. ASSUME NEW a \in Actors, NEW m \in Roster, Publish(a, m, "publishing", "held")
        PROVE  StartsNothing
    BY <1>23 DEF Publish, Fail, Outcome, Returned
  <1>24. ASSUME NEW m \in Roster, Publish("guest", m, "creating", "unheld")
        PROVE  StartsNothing
    BY <1>24 DEF Publish, Fail, Outcome, Returned
  <1>25. CASE CallerGone
    BY <1>25 DEF CallerGone, Abandon
  <1>26. CASE HostAnswers
    BY <1>26 DEF HostAnswers
  <1>27. ASSUME NEW m \in Guests, GuestArrives(m)
        PROVE  StartsNothing
    BY <1>27 DEF GuestArrives
  <1>28. CASE \/ StartReturns \/ AwaitHost \/ JoinHost \/ DeadlinePasses
              \/ Close
    BY <1>28 DEF StartReturns, AwaitHost, JoinHost, DeadlinePasses, Close
  <1>29. CASE UNCHANGED vars
    BY <1>29 DEF vars
  <1> HIDE DEF Inv, TypeOK, MembersTyped, TerminalSound, StartsNothing,
      Prelude, Actors, Observe, Record, Current, AbortRefusal, terminalVars,
      callVars, opVars, passVars, hostVars, memberVars
  <1> QED
    BY <1>1, <1>2, <1>3, <1>4, <1>5, <1>6, <1>7, <1>8, <1>9, <1>10, <1>11,
      <1>12, <1>13, <1>14, <1>15, <1>16, <1>17, <1>18, <1>19, <1>20, <1>21,
      <1>22, <1>23, <1>24, <1>25, <1>26, <1>27, <1>28, <1>29
    DEF Next, RuntimeStep, EnvironmentStep, Transaction

\* The terminal decision is made once, to activate only before the deadline
\* and for a caller that is still there, and after an Abort nothing more is
\* started.
THEOREM DecisionIsBinding == Spec => DecisionBinds
  <1>1. Inv /\ [Next]_vars => [ChoosesInTimeAndOnce]_vars
    BY ChoosesStep
  <1>2. Inv /\ [Next]_vars => [decision = "Abort" => StartsNothing]_vars
    BY StartsNothingStep
  <1>3. Spec => ChosenInTimeAndOnce
    BY <1>1, Invariant, PTL DEF Spec, ChosenInTimeAndOnce
  <1>4. Spec => NothingStartsAfterAbort
    BY <1>2, Invariant, PTL DEF Spec, NothingStartsAfterAbort
  <1> QED
    BY <1>3, <1>4 DEF DecisionBinds
=============================================================================
