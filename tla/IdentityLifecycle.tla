------------------------- MODULE IdentityLifecycle -------------------------
(***************************************************************************)
(* The lifecycle of one durable identity: IdentityRuntime of               *)
(* identity_first/runtime.rs in several processes, over one lease provider *)
(* and one continuity store.                                               *)
(*                                                                         *)
(* A runtime holds the identity's lifecycle lock for a whole operation, so *)
(* it runs one operation at a time; an operation is a sequence of calls to *)
(* the provider, the store and the session bridge, and the other runtimes, *)
(* a lease expiry or a crash may come between any two of them.  The        *)
(* variables from op to oldPending are the operation each runtime is in:   *)
(* its name, its next call (pc) and the locals of the Rust function, among *)
(* them the snapshot of the entry it started from.  The error branches,    *)
(* which the functions share, are the values of pc that undo something:    *)
(* park, undo, discard, rollback, restore, fenced, rebound, break.         *)
(*                                                                         *)
(* Session ids are fresh UUIDs in the code.  An operation mints at most    *)
(* two under one grant, so they are numbered from its fencing token.       *)
(***************************************************************************)
EXTENDS Integers, FiniteSets

CONSTANTS
  Runtimes,       \* the processes (runtime_instance_id)
  Gone,           \* the holder of a lease whose process has died
  Operations,     \* the operations the processes run
  Faults,         \* the calls that may fail: "store", "ack", "read",
                  \* "bridge", "attach", "lease", "release"
  ExternalBinding,\* TRUE: the roster may give the identity a spec with an
                  \* external backend or binding
  LocalProvider,  \* TRUE: LocalLeaseProvider; FALSE: an external one
  InitialRow,     \* the continuity row the processes start from, or None
  MaxToken,       \* bound on FencingToken
  MaxGeneration,  \* bound on ContinuityGeneration
  None            \* the absent entry, binding, row, lease

VARIABLES
  state, continuity,  \* entries[identity] of each runtime: its state,
  lease, pending,     \* record, lease and pending_lease_release
  orphans,    \* pending_unactivated_lease_releases of each runtime
  op, pc, grant, attempt, expected, broken,
  oldState, oldContinuity, oldLease, oldPending,
  up,         \* the process runs (shutdown has not completed)
  held,       \* the provider's lease: its holder and token
  nextToken,  \* the provider's next fencing token
  record,     \* the row of continuity_records
  tomb,       \* history: the token of the last completed delete_identity
  committed   \* history: the generation the last successful reset reported

entry == <<state, continuity, lease, pending>>
snapshot == <<oldState, oldContinuity, oldLease, oldPending>>
locals == <<op, grant, attempt, expected, broken, snapshot>>
txn == <<pc, locals>>
provider == <<held, nextToken>>
history == <<tomb, committed>>
vars == <<entry, orphans, txn, up, provider, record, history>>

Tokens == 1..MaxToken
Sessions == 0..(2 * MaxToken + 1)
Generations == 0..MaxGeneration
Bindings == [session : Sessions, gen : Generations]
Rows == [session : Sessions, gen : Generations, token : 0..MaxToken]
Leases == [holder : Runtimes \cup {Gone}, token : Tokens]
\* "Absent" is a missing entry, the others are IdentityLifecycleState; the code
\* admits "Uninitialized" in places and puts it into no entry.
EntryStates == {"Absent", "Uninitialized", "Dormant", "Active", "Suspended",
                "Retiring", "Broken"}
LifecycleOps == {"retire", "respawn", "rebind", "reset", "delete"}

ASSUME ConstantsAssumption ==
  /\ Operations \subseteq
       LifecycleOps \cup {"embody", "register", "remove", "renew"}
  /\ Faults \subseteq
       {"store", "ack", "read", "bridge", "attach", "lease", "release"}
  /\ LocalProvider \in BOOLEAN
  /\ ExternalBinding \in BOOLEAN
  /\ LocalProvider => \A r, s \in Runtimes : r = s
  /\ MaxToken \in Nat /\ MaxGeneration \in Nat
  /\ None \notin Nat /\ None \notin Bindings \cup Rows \cup Leases
  /\ Gone \notin Runtimes
  /\ InitialRow \in Rows \cup {None}

May(fault) == fault \in Faults

-----------------------------------------------------------------------------
(* The record verbs of the continuity store.  ok is what the caller sees:  *)
(* "store" is a failure before the commit, "ack" an error reported after   *)
(* the commit; "read" is a failed resolve_many.                            *)

Binding(row) ==
  IF row = None THEN None ELSE [session |-> row.session, gen |-> row.gen]
\* Mutant: the conflict clause leaves the stored token alone.
RowKeepsToken(b, t) ==
  [session |-> b.session, gen |-> b.gen,
   token |-> IF record = None THEN t ELSE record.token]
Row(b, t) == [session |-> b.session, gen |-> b.gen, token |-> t]

Write(admitted, row, ok) ==
  \/ ok /\ admitted /\ record' = row
  \/ ~ok /\ (~admitted \/ May("store")) /\ record' = record
  \/ ~ok /\ admitted /\ May("ack") /\ record' = row

UpsertAdmitted(b, t) ==
  record # None => t >= record.token /\ b.gen >= record.gen

Upsert(b, t, ok) == Write(UpsertAdmitted(b, t), Row(b, t), ok)

\* rollback_continuity_record: only the exact row the caller wrote.
RollbackAdmitted(wrote, t) ==
  /\ record # None
  /\ record.token = t
  /\ Binding(record) = wrote

\* Mutant: the previous row is not restored.
RollbackDeletes(wrote, previous, t, ok) ==
  Write(RollbackAdmitted(wrote, t), None, ok)

Rollback(wrote, previous, t, ok) ==
  Write(RollbackAdmitted(wrote, t),
        IF previous = None THEN None ELSE Row(previous, t), ok)

\* delete_continuity_record: the row goes, and the fence with it.
Delete(t, ok) == Write(record # None => t >= record.token, None, ok)

-----------------------------------------------------------------------------
(* The lease provider. *)

HeldAfterRelease(tokens) ==
  IF held # None /\ held.token \in tokens THEN None ELSE held

\* Releasing tokens; ok is what the caller sees.
Release(tokens, ok) ==
  \/ ok /\ held' = HeldAfterRelease(tokens)
  \/ ~ok /\ May("release") /\ UNCHANGED held

Grant(r) ==
  /\ nextToken <= MaxToken
  /\ held' = [holder |-> r, token |-> nextToken]
  /\ nextToken' = nextToken + 1

Acquirable(r) == held # None => held.holder = r

-----------------------------------------------------------------------------
(* Steps of an operation. *)

At(r, point) == up[r] /\ pc[r] = point

Jump(r, point) == pc' = [pc EXCEPT ![r] = point]
Goto(r, point) == Jump(r, point) /\ UNCHANGED locals

\* The operation, with nothing in its locals but perhaps a grant.
Operate(r, name, point, token) ==
  /\ op' = [op EXCEPT ![r] = name]
  /\ Jump(r, point)
  /\ grant' = [grant EXCEPT ![r] = token]
  /\ attempt' = [attempt EXCEPT ![r] = None]
  /\ expected' = [expected EXCEPT ![r] = None]
  /\ broken' = [broken EXCEPT ![r] = FALSE]

Snapshot(r, s, b, t, p) ==
  /\ oldState' = [oldState EXCEPT ![r] = s]
  /\ oldContinuity' = [oldContinuity EXCEPT ![r] = b]
  /\ oldLease' = [oldLease EXCEPT ![r] = t]
  /\ oldPending' = [oldPending EXCEPT ![r] = p]

SnapshotEntry(r) == Snapshot(r, state[r], continuity[r], lease[r], pending[r])

Begin(r, name, point) ==
  /\ name \in Operations
  /\ up[r]
  /\ pc[r] = "idle"
  /\ Operate(r, name, point, None)
  /\ SnapshotEntry(r)

Done(r) ==
  /\ Operate(r, "idle", "idle", None)
  /\ Snapshot(r, "Absent", None, None, None)

SetEntry(r, s, b, t, p) ==
  /\ state' = [state EXCEPT ![r] = s]
  /\ continuity' = [continuity EXCEPT ![r] = b]
  /\ lease' = [lease EXCEPT ![r] = t]
  /\ pending' = [pending EXCEPT ![r] = p]

RemoveEntry(r) == SetEntry(r, "Absent", None, None, None)

\* Publish Active authority for binding b under the operation's grant.
Activate(r, b) == SetEntry(r, "Active", b, grant[r], pending[r])

\* mark_lifecycle_in_progress.  retire first runs ensure_active_lease, which
\* answers Ok only for an entry with a lease.
MarkLifecycleInProgress(r, name) ==
  /\ state[r] # "Absent"
  /\ name = "retire" => lease[r] # None
  /\ Begin(r, name, "acquire")
  /\ SetEntry(r, IF name \in {"retire", "delete"} THEN "Retiring" ELSE "Suspended",
              continuity[r], None, pending[r])
  /\ UNCHANGED <<orphans, up, provider, record, history>>

\* A refused or failed acquire restores the entry it started from.
AcquireRefused(r) ==
  /\ At(r, "acquire")
  /\ ~Acquirable(r) \/ May("lease")
  /\ SetEntry(r, oldState[r], oldContinuity[r], oldLease[r], oldPending[r])
  /\ Done(r)
  /\ UNCHANGED <<orphans, up, provider, record, history>>

AcquireGranted(r) ==
  /\ At(r, "acquire")
  /\ Acquirable(r)
  /\ Grant(r)
  /\ Jump(r, "fence")
  /\ grant' = [grant EXCEPT ![r] = nextToken]
  /\ UNCHANGED <<entry, op, attempt, expected, broken, snapshot, orphans, up,
                 record, history>>

\* Where an operation goes once the new token fences the row, ...
AfterFence(name) ==
  CASE name = "embody" -> "build"
    [] name \in {"respawn", "reset"} -> "resolve"
    [] name \in {"retire", "delete"} -> "dispose"
    [] name = "rebind" -> "provisional"

\* ... and when the fence write is refused.
FenceFailed(name) == IF name = "embody" THEN "park" ELSE "break"

Rebound(r) == [session |-> 2 * grant[r] + 1, gen |-> oldContinuity[r].gen]

\* durable_spec_uses_external_binding: embody goes by no recorded continuity.
BoundExternally(r) == op[r] = "embody" /\ ExternalBinding

\* Where an operation goes that has no continuity to fence.
WithoutFence(name) ==
  CASE name = "embody" -> "create"
    [] name = "rebind" -> "restore"
    [] OTHER -> AfterFence(name)

\* advance_existing_continuity_fence: an entry without continuity writes
\* nothing (and cannot be rebound), nor does embody of an external spec.
AdvanceFence(r) ==
  /\ At(r, "fence")
  /\ \/ /\ oldContinuity[r] = None \/ BoundExternally(r)
        /\ Jump(r, WithoutFence(op[r]))
        /\ UNCHANGED <<record, attempt>>
     \/ /\ oldContinuity[r] # None
        /\ \E ok \in BOOLEAN :
             /\ Upsert(oldContinuity[r], grant[r], ok)
             /\ Jump(r, IF ok THEN AfterFence(op[r]) ELSE FenceFailed(op[r]))
        /\ attempt' = [attempt EXCEPT ![r] =
             IF op[r] = "rebind" THEN Rebound(r) ELSE None]
  /\ UNCHANGED <<entry, op, grant, expected, broken, snapshot, orphans, up,
                 provider, history>>

\* The middle of respawn: read the authoritative row and adopt it.
ResolveForRespawn(r) ==
  /\ At(r, "resolve") /\ op[r] = "respawn"
  /\ \/ /\ record = None \/ May("read") \/ May("bridge")
        /\ Goto(r, "restore")
        /\ UNCHANGED entry
     \/ /\ record # None
        /\ Activate(r, Binding(record))
        /\ Done(r)
  /\ UNCHANGED <<orphans, up, provider, record, history>>

\* Go on with the session and generation the operation wants to install.
Attempt(r, point, b) ==
  /\ Jump(r, point)
  /\ attempt' = [attempt EXCEPT ![r] = b]
  /\ UNCHANGED <<op, grant, expected, broken, snapshot>>

NextGeneration == IF record = None THEN 1 ELSE record.gen + 1

\* reset resolves the current generation and prepares its successor.
ResolveForReset(r) ==
  /\ At(r, "resolve") /\ op[r] = "reset"
  /\ \/ /\ May("read") \/ May("bridge")
        /\ Goto(r, "restore")
     \/ /\ NextGeneration <= MaxGeneration
        /\ Attempt(r, "provisional",
                   [session |-> 2 * grant[r], gen |-> NextGeneration])
  /\ UNCHANGED <<entry, orphans, up, provider, record, history>>

\* embody: the customizer and the resume of the recorded session, which may
\* keep it, fall back to a fresh one, or be rejected.
ResumeSession(r) ==
  /\ At(r, "build")
  /\ \/ /\ \E s \in {oldContinuity[r].session, 2 * grant[r] + 1} :
             Attempt(r, "actual", [session |-> s, gen |-> oldContinuity[r].gen])
        /\ UNCHANGED entry
     \/ /\ May("bridge")
        /\ Goto(r, "park")
        /\ \/ UNCHANGED entry
           \/ SetEntry(r, "Broken", continuity[r], None, pending[r])
     \/ /\ May("attach")   \* complete_attach_postcondition(..).await?
        /\ Done(r)
        /\ UNCHANGED entry
  /\ UNCHANGED <<orphans, up, provider, record, history>>

\* embody without a recorded session, or regardless of it: a fresh record of
\* generation 0.
PrepareCreate(r) ==
  /\ At(r, "create")
  /\ \/ May("bridge") /\ Goto(r, "park")
     \/ Attempt(r, "provisional", [session |-> 2 * grant[r], gen |-> 0])
  /\ UNCHANGED <<entry, orphans, up, provider, record, history>>

ProvisionalFailed(name) ==
  CASE name = "embody" -> "park"
    [] name = "reset" -> "restore"
    [] name = "rebind" -> "rebound"

\* The row of the session about to be installed.
UpsertProvisional(r) ==
  /\ At(r, "provisional")
  /\ \E ok \in BOOLEAN :
       /\ Upsert(attempt[r], grant[r], ok)
       /\ Jump(r, IF ok THEN "install" ELSE ProvisionalFailed(op[r]))
  /\ expected' = [expected EXCEPT ![r] = attempt[r]]
  /\ UNCHANGED <<entry, op, grant, attempt, broken, snapshot, orphans, up,
                 provider, history>>

\* bridge.create_session and reset_member_to_successor name the session that
\* was really created.
InstallSession(r) ==
  /\ At(r, "install") /\ op[r] \in {"embody", "reset"}
  /\ \/ \E s \in {2 * grant[r], 2 * grant[r] + 1} :
          /\ op[r] = "reset" => s = 2 * grant[r] + 1
          /\ Attempt(r, "actual", [session |-> s, gen |-> attempt[r].gen])
     \/ /\ May("bridge")
        /\ Goto(r, IF op[r] = "reset" THEN "rollback" ELSE "discard")
  /\ UNCHANGED <<entry, orphans, up, provider, record, history>>

\* rebind reads the row back before it registers the session.
ReadBackRebind(r) ==
  /\ At(r, "install") /\ op[r] = "rebind"
  /\ \/ /\ Binding(record) = attempt[r]
        /\ Goto(r, "final")
     \/ /\ Binding(record) # attempt[r] \/ May("read") \/ May("bridge")
        /\ Goto(r, "rebound")
  /\ UNCHANGED <<entry, orphans, up, provider, record, history>>

\* The last upsert of embody, then registration and publication.
UpsertEmbodied(r) ==
  /\ At(r, "actual") /\ op[r] = "embody"
  /\ \E ok \in BOOLEAN :
       /\ Upsert(attempt[r], grant[r], ok)
       /\ \/ ok /\ Activate(r, attempt[r]) /\ Done(r)
          \/ (~ok \/ May("bridge")) /\ Goto(r, "undo") /\ UNCHANGED entry
  /\ UNCHANGED <<orphans, up, provider, history>>

\* reset's upsert of the successor's session.  The failed write rolls back
\* the provisional row, a failed registration the row just written; either
\* is Broken if the clean-up of the lower plane failed too.
UpsertSuccessor(r) ==
  /\ At(r, "actual") /\ op[r] = "reset"
  /\ \E ok \in BOOLEAN :
       /\ Upsert(attempt[r], grant[r], ok)
       /\ \/ ok /\ Jump(r, "final") /\ UNCHANGED <<expected, broken>>
          \/ /\ ~ok \/ May("bridge")
             /\ Jump(r, "rollback")
             /\ expected' = [expected EXCEPT ![r] = IF ok THEN attempt[r] ELSE @]
             /\ \/ UNCHANGED broken
                \/ May("bridge") /\ broken' = [broken EXCEPT ![r] = TRUE]
  /\ UNCHANGED <<entry, op, grant, attempt, snapshot, orphans, up, provider,
                 history>>

\* The final upsert of reset and rebind, then publication.
UpsertFinal(r) ==
  /\ At(r, "final")
  /\ \E ok \in BOOLEAN :
       /\ Upsert(attempt[r], grant[r], ok)
       /\ \/ /\ ok
             /\ SetEntry(r, "Active", attempt[r], grant[r],
                         IF op[r] = "rebind" THEN None ELSE pending[r])
             /\ committed' = IF op[r] = "reset" THEN attempt[r].gen
                             ELSE committed
             /\ Done(r)
          \/ /\ ~ok
             /\ Jump(r, IF op[r] = "reset" THEN "rollback" ELSE "rebound")
             /\ broken' = [broken EXCEPT ![r] = TRUE]
             /\ expected' = [expected EXCEPT ![r] = attempt[r]]
             /\ UNCHANGED <<entry, op, grant, attempt, snapshot, committed>>
  /\ UNCHANGED <<orphans, up, provider, tomb>>

\* retire and delete dispose of the member and its session registration.
DisposeMember(r) ==
  /\ At(r, "dispose")
  /\ \/ Goto(r, IF op[r] = "delete" THEN "erase" ELSE "release")
     \/ /\ May("bridge") /\ oldContinuity[r] # None
        /\ \/ Goto(r, "fenced")
           \/ Goto(r, "restore")
           \/ op[r] = "retire" /\ Goto(r, "break")
  /\ UNCHANGED <<entry, orphans, up, provider, record, history>>

EraseRecord(r) ==
  /\ At(r, "erase")
  /\ \E ok \in BOOLEAN :
       /\ Delete(grant[r], ok)
       /\ Goto(r, IF ok THEN "release" ELSE "break")
       /\ tomb' = IF ok THEN grant[r] ELSE tomb
       /\ committed' = IF record' = None THEN 0 ELSE committed
  /\ UNCHANGED <<entry, orphans, up, provider>>

\* Mutant: a failed release after a delete takes the exit that upserts.
ReleaseAfterDisposalFenced(r) ==
  /\ At(r, "release")
  /\ \E ok \in BOOLEAN :
       /\ Release({grant[r]}, ok)
       /\ IF op[r] = "delete" /\ ~ok /\ oldContinuity[r] # None
          THEN Goto(r, "fenced") /\ UNCHANGED entry
          ELSE Done(r) /\ RemoveEntry(r)
  /\ UNCHANGED <<orphans, up, nextToken, record, history>>

\* The release that ends retire and delete; a failure keeps the exact grant.
ReleaseAfterDisposal(r) ==
  LET kept == IF op[r] = "delete" THEN None ELSE continuity[r] IN
  /\ At(r, "release")
  /\ \E ok \in BOOLEAN :
       /\ Release({grant[r]}, ok)
       /\ \/ ok /\ op[r] = "delete" /\ RemoveEntry(r)
          \/ ok /\ op[r] # "delete" /\ SetEntry(r, "Retiring", kept, None, None)
          \/ ~ok /\ SetEntry(r, "Broken", kept, None, grant[r])
  /\ Done(r)
  /\ UNCHANGED <<orphans, up, nextToken, record, history>>

-----------------------------------------------------------------------------
(* The error branches. *)

\* restore_continuity_after_materialize_failure, its own error ignored.  If the
\* session could not even be registered or created, embody deletes the row it
\* has just written, whatever row was there before.
UndoEmbodiment(r) ==
  /\ \E ok \in BOOLEAN :
       \/ /\ At(r, "undo") /\ oldContinuity[r] # None
          /\ Upsert(oldContinuity[r], grant[r], ok)
       \/ /\ (At(r, "undo") /\ oldContinuity[r] = None) \/ At(r, "discard")
          /\ Delete(grant[r], ok)
  /\ Goto(r, "park")
  /\ UNCHANGED <<entry, orphans, up, provider, history>>

\* Mutant: a failed release is only logged.
ReleaseOrForget(r) ==
  /\ At(r, "park")
  /\ \E ok \in BOOLEAN : Release({grant[r]}, ok)
  /\ Done(r)
  /\ UNCHANGED <<entry, orphans, up, nextToken, record, history>>

\* release_or_park_untracked_leases.
ReleaseOrPark(r) ==
  /\ At(r, "park")
  /\ \E ok \in BOOLEAN :
       /\ Release({grant[r]}, ok)
       /\ orphans' = [orphans EXCEPT
            ![r] = IF ok THEN @ ELSE @ \cup {grant[r]}]
  /\ Done(r)
  /\ UNCHANGED <<entry, up, nextToken, record, history>>

\* restore_entry_after_reset_bridge_failure.
RollbackReset(r) ==
  /\ At(r, "rollback")
  /\ \E ok \in BOOLEAN :
       /\ Rollback(expected[r], oldContinuity[r], grant[r], ok)
       /\ Goto(r, IF ~ok THEN "authoritative"
                  ELSE IF broken[r] THEN "break" ELSE "restore")
  /\ UNCHANGED <<entry, orphans, up, provider, history>>

\* Break the entry with binding b in it.
BreakWith(r, b) ==
  /\ Jump(r, "break")
  /\ oldContinuity' = [oldContinuity EXCEPT ![r] = b]
  /\ UNCHANGED <<op, grant, attempt, expected, broken,
                 oldState, oldLease, oldPending>>

\* restore_broken_entry_from_authoritative_continuity.
AdoptAuthoritative(r) ==
  /\ At(r, "authoritative")
  /\ \/ BreakWith(r, Binding(record))
     \/ May("read") /\ BreakWith(r, None)
  /\ UNCHANGED <<entry, orphans, up, provider, record, history>>

\* restore_entry_with_grant: the row and the registration move to the new
\* token; an Active entry keeps the grant, any other gives it back.
RestoreAs(r, s) ==
  \/ /\ oldState[r] = "Active"
     /\ SetEntry(r, s, oldContinuity[r], grant[r], oldPending[r])
     /\ Done(r)
  \/ /\ oldState[r] # "Active"
     /\ Jump(r, "restoreRelease")
     /\ oldState' = [oldState EXCEPT ![r] = s]
     /\ UNCHANGED <<entry, op, grant, attempt, expected, broken,
                    oldContinuity, oldLease, oldPending>>

RestoreWithGrant(r) ==
  /\ At(r, "restore")
  /\ \/ /\ oldContinuity[r] = None
        /\ RestoreAs(r, oldState[r])
        /\ UNCHANGED record
     \/ /\ oldContinuity[r] # None
        /\ \E ok \in BOOLEAN :
             /\ Upsert(oldContinuity[r], grant[r], ok)
             /\ \/ ok /\ RestoreAs(r, oldState[r])
                \/ (~ok \/ May("bridge")) /\ RestoreAs(r, "Broken")
  /\ UNCHANGED <<orphans, up, provider, history>>

RestoreRelease(r) ==
  /\ At(r, "restoreRelease")
  /\ \E ok \in BOOLEAN :
       /\ Release({grant[r]}, ok)
       /\ \/ ok /\ SetEntry(r, oldState[r], oldContinuity[r], None, None)
          \/ ~ok /\ SetEntry(r, "Broken", oldContinuity[r], None, grant[r])
  /\ Done(r)
  /\ UNCHANGED <<orphans, up, nextToken, record, history>>

\* restore_broken_entry_with_fenced_store and mark_rebind_failure_broken:
\* a best-effort upsert before the entry is broken.
UpsertBeforeBreak(r) ==
  /\ \E b \in {attempt[r], oldContinuity[r]}, ok \in BOOLEAN :
       /\ \/ At(r, "rebound") /\ b = attempt[r]
          \/ At(r, "fenced") /\ b = oldContinuity[r]
       /\ Upsert(b, grant[r], ok)
       /\ BreakWith(r, b)
  /\ UNCHANGED <<entry, orphans, up, provider, history>>

\* restore_broken_entry_and_release_grant: the grant is parked in the entry
\* before the provider is asked to take it back.
BreakEntry(r) ==
  /\ At(r, "break")
  /\ SetEntry(r, "Broken", oldContinuity[r], None, grant[r])
  /\ Goto(r, "breakRelease")
  /\ UNCHANGED <<orphans, up, provider, record, history>>

BreakRelease(r) ==
  /\ At(r, "breakRelease")
  /\ \E ok \in BOOLEAN :
       /\ Release({grant[r]}, ok)
       /\ pending' = [pending EXCEPT ![r] = IF ok THEN None ELSE @]
  /\ Done(r)
  /\ UNCHANGED <<state, continuity, lease, orphans, up, nextToken, record,
                 history>>

-----------------------------------------------------------------------------
(* Registration, embodiment and roster removal. *)

\* The states embody_identity_transaction admits.
BeginEmbody(r) ==
  /\ state[r] \in {"Dormant", "Uninitialized", "Retiring"}
  /\ Begin(r, "embody", "drain")
  /\ UNCHANGED <<entry, orphans, up, provider, record, history>>

\* register_roster_metadata for this identity.
BeginRegister(r) ==
  /\ Begin(r, "register", "drain")
  /\ UNCHANGED <<entry, orphans, up, provider, record, history>>

\* reconcile_roster_members for an identity no longer in the roster; an
\* Active one is retired first.
BeginRemove(r) ==
  /\ state[r] \notin {"Absent", "Active"}
  /\ Begin(r, "remove", "prepare")
  /\ UNCHANGED <<entry, orphans, up, provider, record, history>>

\* release_parked_unactivated_leases: all of the ledger or none of it.
DrainOrphans(r) ==
  /\ At(r, "drain")
  /\ \E ok \in BOOLEAN :
       /\ Release(orphans[r], ok)
       /\ IF ok \/ orphans[r] = {}
          THEN /\ orphans' = [orphans EXCEPT ![r] = {}]
               /\ Goto(r, IF op[r] = "embody" THEN "acquire" ELSE "lookup")
          ELSE Done(r) /\ UNCHANGED orphans
  /\ UNCHANGED <<entry, up, nextToken, record, history>>

\* resolve_many; an Active entry keeps its own projection.
LookupRecord(r) ==
  /\ At(r, "lookup")
  /\ \/ /\ May("read") \/ state[r] = "Active"
        /\ Done(r)
     \/ /\ state[r] # "Active"
        /\ Attempt(r, "prepare", Binding(record))
  /\ UNCHANGED <<entry, orphans, up, provider, record, history>>

\* Mutants: the pending grant outlives its entry, the resolved record dropped.
ProjectKeepingGrant(r) ==
  IF op[r] = "remove" THEN SetEntry(r, "Absent", None, None, pending[r])
  ELSE SetEntry(r, "Dormant", attempt[r], None, None)
ProjectBare(r) ==
  IF op[r] = "remove" THEN RemoveEntry(r)
  ELSE SetEntry(r, "Dormant", None, None, None)

\* register_locked with the resolved record, or removal of the entry.
Project(r) ==
  \/ op[r] = "remove" /\ RemoveEntry(r)
  \/ op[r] # "remove" /\ SetEntry(r, "Dormant", attempt[r], None, None)

\* The grant a Broken entry still retains.
Retained(r) == IF pending[r] # None THEN pending[r] ELSE lease[r]

NothingToPrepare(r) == state[r] = "Broken" => Retained(r) = None

Conflicting(r) == pending[r] # None /\ lease[r] # None /\ pending[r] # lease[r]

\* prepare_broken_identity_for_registration.
PrepareBroken(r) ==
  /\ At(r, "prepare")
  /\ \/ /\ NothingToPrepare(r)
        /\ Project(r)
        /\ Done(r)
     \/ /\ ~NothingToPrepare(r) /\ ~Conflicting(r)
        /\ SetEntry(r, state[r], continuity[r], None, Retained(r))
        /\ Jump(r, "prepareRelease")
        /\ grant' = [grant EXCEPT ![r] = Retained(r)]
        /\ UNCHANGED <<op, attempt, expected, broken, snapshot>>
     \/ /\ state[r] = "Broken"
        /\ Conflicting(r) \/ (May("bridge") /\ continuity[r] # None)
        /\ Done(r)
        /\ UNCHANGED entry
  /\ UNCHANGED <<orphans, up, provider, record, history>>

PrepareRelease(r) ==
  /\ At(r, "prepareRelease")
  /\ \E ok \in BOOLEAN :
       /\ Release({grant[r]}, ok)
       /\ \/ ok /\ Project(r)
          \/ ~ok /\ UNCHANGED entry
  /\ Done(r)
  /\ UNCHANGED <<orphans, up, nextToken, record, history>>

-----------------------------------------------------------------------------
(* Renewal (ensure_active_lease, when the lease is due). *)

Due(r) ==
  /\ "renew" \in Operations
  /\ up[r] /\ pc[r] = "idle"
  /\ lease[r] # None

HoldsLease(r) == held = [holder |-> r, token |-> lease[r]]

\* The provider no longer knows the grant: mark_lease_lost.
RenewLost(r) ==
  /\ Due(r)
  /\ ~HoldsLease(r)
  /\ SetEntry(r, "Broken", continuity[r], None, pending[r])
  /\ UNCHANGED <<orphans, txn, up, provider, record, history>>

\* The bridge could neither be suspended nor resumed, or the provider
\* failed and the bridge not be resumed: break_existing_active_grant.
RenewBroken(r) ==
  /\ Due(r)
  /\ May("bridge")
  /\ SetEntry(r, "Broken", continuity[r], None, lease[r])
  /\ UNCHANGED <<orphans, txn, up, provider, record, history>>

\* stage_active_grant: what it refuses goes back to the provider.
StageGrant(r, token) ==
  /\ \/ /\ state[r] = "Active" /\ pending[r] = None
        /\ SetEntry(r, "Broken", continuity[r], None, token)
        /\ Operate(r, "renew", "publish", token)
     \/ /\ ~(state[r] = "Active" /\ pending[r] = None)
        /\ UNCHANGED entry
        /\ Operate(r, "renew", "park", token)
  /\ SnapshotEntry(r)

\* A renewal keeps the token (the bundled provider) or rotates it.
RenewGranted(r) ==
  /\ Due(r)
  /\ HoldsLease(r)
  /\ \/ StageGrant(r, lease[r]) /\ UNCHANGED provider
     \/ ~LocalProvider /\ StageGrant(r, nextToken) /\ Grant(r)
  /\ UNCHANGED <<orphans, up, record, history>>

\* The rest of publish_active_grant.
PublishGrant(r) ==
  /\ At(r, "publish")
  /\ \/ /\ oldContinuity[r] = None
        /\ UNCHANGED record
        /\ SetEntry(r, "Active", continuity[r], grant[r], None)
     \/ /\ oldContinuity[r] # None
        /\ \E ok \in BOOLEAN :
             /\ Upsert(oldContinuity[r], grant[r], ok)
             /\ \/ ok /\ SetEntry(r, "Active", continuity[r], grant[r], None)
                \/ (~ok \/ May("bridge")) /\ UNCHANGED entry
  /\ Done(r)
  /\ UNCHANGED <<orphans, up, provider, history>>

-----------------------------------------------------------------------------
(* The process and its environment. *)

\* Mutant: the orphan ledger is not part of shutdown.
ShutdownGrantsEntryOnly(r) == {Retained(r)} \ {None}

ShutdownGrants(r) == orphans[r] \cup ({Retained(r)} \ {None})

\* release_all_leases_for_shutdown, after all identity work has joined; a
\* failure leaves everything for a retry.
Shutdown(r) ==
  /\ up[r] /\ pc[r] = "idle"
  /\ held' = HeldAfterRelease(ShutdownGrants(r))
  /\ up' = [up EXCEPT ![r] = FALSE]
  /\ state' = [state EXCEPT ![r] =
       IF @ \in {"Active", "Suspended"} /\ lease[r] \in ShutdownGrants(r)
       THEN "Dormant" ELSE @]
  /\ lease' = [lease EXCEPT ![r] = IF @ \in ShutdownGrants(r) THEN None ELSE @]
  /\ pending' = [pending EXCEPT ![r] = IF @ \in ShutdownGrants(r) THEN None ELSE @]
  /\ orphans' = [orphans EXCEPT ![r] = {}]
  /\ UNCHANGED <<continuity, txn, nextToken, record, history>>

\* The lease a process leaves behind belongs to nobody.
Abandoned(r) ==
  IF held # None /\ held.holder = r
  THEN [holder |-> Gone, token |-> held.token] ELSE held

\* Mutant: the provider starts from LocalLeaseProvider::new().
FloorZero == 0

\* with_floor(max_fencing_token): what a restarted local provider resumes
\* from.
Floor == IF record = None THEN 0 ELSE record.token

\* A crash, or the start after a shutdown: everything in memory is gone,
\* and with the bundled provider the leases too.
Restart(r) ==
  /\ RemoveEntry(r)
  /\ orphans' = [orphans EXCEPT ![r] = {}]
  /\ Done(r)
  /\ up' = [up EXCEPT ![r] = TRUE]
  /\ IF LocalProvider
     THEN held' = None /\ nextToken' = Floor + 1 /\ tomb' = 0
     ELSE held' = Abandoned(r) /\ UNCHANGED <<nextToken, tomb>>
  /\ UNCHANGED <<record, committed>>

\* The TTL of an external provider runs out; the holder is not told.
Expire ==
  /\ ~LocalProvider
  /\ held # None
  /\ held' = None
  /\ UNCHANGED <<entry, orphans, txn, up, nextToken, record, history>>

Init ==
  /\ state = [r \in Runtimes |-> "Absent"]
  /\ continuity = [r \in Runtimes |-> None]
  /\ lease = [r \in Runtimes |-> None]
  /\ pending = [r \in Runtimes |-> None]
  /\ orphans = [r \in Runtimes |-> {}]
  /\ op = [r \in Runtimes |-> "idle"]
  /\ pc = [r \in Runtimes |-> "idle"]
  /\ grant = [r \in Runtimes |-> None]
  /\ attempt = [r \in Runtimes |-> None]
  /\ expected = [r \in Runtimes |-> None]
  /\ broken = [r \in Runtimes |-> FALSE]
  /\ oldState = [r \in Runtimes |-> "Absent"]
  /\ oldContinuity = [r \in Runtimes |-> None]
  /\ oldLease = [r \in Runtimes |-> None]
  /\ oldPending = [r \in Runtimes |-> None]
  /\ up = [r \in Runtimes |-> TRUE]
  /\ held = None
  /\ record = InitialRow
  /\ nextToken = Floor + 1
  /\ tomb = 0
  /\ committed = 0

Step(r) ==
  \/ \E name \in LifecycleOps : MarkLifecycleInProgress(r, name)
  \/ BeginEmbody(r) \/ BeginRegister(r) \/ BeginRemove(r)
  \/ AcquireRefused(r) \/ AcquireGranted(r) \/ AdvanceFence(r)
  \/ ResolveForRespawn(r) \/ ResolveForReset(r)
  \/ ResumeSession(r) \/ PrepareCreate(r)
  \/ UpsertProvisional(r) \/ InstallSession(r) \/ ReadBackRebind(r)
  \/ UpsertEmbodied(r) \/ UpsertSuccessor(r) \/ UpsertFinal(r)
  \/ DisposeMember(r) \/ EraseRecord(r) \/ ReleaseAfterDisposal(r)
  \/ UndoEmbodiment(r) \/ ReleaseOrPark(r) \/ RollbackReset(r)
  \/ AdoptAuthoritative(r) \/ RestoreWithGrant(r) \/ RestoreRelease(r)
  \/ UpsertBeforeBreak(r) \/ BreakEntry(r) \/ BreakRelease(r)
  \/ DrainOrphans(r) \/ LookupRecord(r)
  \/ PrepareBroken(r) \/ PrepareRelease(r)
  \/ RenewLost(r) \/ RenewBroken(r) \/ RenewGranted(r) \/ PublishGrant(r)
  \/ Shutdown(r) \/ Restart(r)

Next == Expire \/ \E r \in Runtimes : Step(r)

Spec == Init /\ [][Next]_vars

-----------------------------------------------------------------------------
(* Properties. *)

\* The calls an operation may be about to make.
Points ==
  {"idle", "drain", "lookup", "prepare", "prepareRelease", "acquire", "fence",
   "resolve", "build", "create", "provisional", "install", "actual", "final",
   "dispose", "erase", "release", "undo", "discard", "park", "rollback", "authoritative", "restore",
   "restoreRelease", "fenced", "rebound", "break", "breakRelease", "publish"}

EntryTyped ==
  /\ state \in [Runtimes -> EntryStates]
  /\ continuity \in [Runtimes -> Bindings \cup {None}]
  /\ lease \in [Runtimes -> Tokens \cup {None}]
  /\ pending \in [Runtimes -> Tokens \cup {None}]

SnapshotTyped ==
  /\ oldState \in [Runtimes -> EntryStates]
  /\ oldContinuity \in [Runtimes -> Bindings \cup {None}]
  /\ oldLease \in [Runtimes -> Tokens \cup {None}]
  /\ oldPending \in [Runtimes -> Tokens \cup {None}]

OperationTyped ==
  /\ op \in [Runtimes -> LifecycleOps \cup
                {"idle", "embody", "register", "remove", "renew"}]
  /\ pc \in [Runtimes -> Points]
  /\ grant \in [Runtimes -> Tokens \cup {None}]
  /\ attempt \in [Runtimes -> Bindings \cup {None}]
  /\ expected \in [Runtimes -> Bindings \cup {None}]
  /\ broken \in [Runtimes -> BOOLEAN]

SharedTyped ==
  /\ orphans \in [Runtimes -> SUBSET Tokens]
  /\ up \in [Runtimes -> BOOLEAN]
  /\ held \in Leases \cup {None}
  /\ nextToken \in 1..(MaxToken + 1)
  /\ record \in Rows \cup {None}
  /\ tomb \in 0..MaxToken /\ committed \in Generations

\* An identity without an entry has no continuity, lease or pending grant.
AbsentIsBare ==
  \A r \in Runtimes : state[r] = "Absent" =>
    continuity[r] = None /\ lease[r] = None /\ pending[r] = None

\* Every variable holds a value of the Rust type it stands for, through
\* every error branch; an identity without an entry has nothing else.
TypeOK ==
  EntryTyped /\ AbsentIsBare /\ SnapshotTyped /\ OperationTyped /\ SharedTyped

\* The grants a runtime can still name: published, parked, or in the locals
\* of the operation under way.
Known(r) ==
  orphans[r] \cup
    {grant[r], lease[r], pending[r], oldLease[r], oldPending[r]}

\* No invisible owner: a lease the provider books on a running process is
\* one that process can still release (the reason for
\* pending_lease_release and the orphan ledger).
NoInvisibleOwner ==
  \A r \in Runtimes :
    held # None /\ held.holder = r /\ up[r] => held.token \in Known(r)

\* A completed shutdown leaves no lease behind.
ShutdownReleasesAll ==
  \A r \in Runtimes : ~up[r] /\ held # None => held.holder # r

\* An entry never pairs Active authority with an older grant still to be
\* released: pending_lease_release is retried before any reacquisition.
ActiveHasNoPending ==
  \A r \in Runtimes :
    state[r] = "Active" => pending[r] = None

\* An Active entry whose lease is the provider's current one names the
\* session and generation of the durable row.
ActiveMatchesRecord ==
  \A r \in Runtimes :
    state[r] = "Active" /\ HoldsLease(r)
      => record # None /\ Binding(record) = continuity[r]

\* At most one runtime's lease passes the store's fence: an owner that was
\* replaced cannot write the row.
OneWriter ==
  \A r, s \in Runtimes :
    record # None /\ r # s /\ lease[r] # None /\ lease[s] # None
      => lease[r] < record.token \/ lease[s] < record.token

\* The current holder is never refused as stale: its token is at least the
\* one in the row.
HolderNotFenced ==
  held # None /\ record # None => held.token >= record.token

\* A generation a reset reported as committed is not rolled back: only
\* delete_identity goes back below it.
CommittedGenerationKept ==
  committed > 0 => record # None /\ record.gen >= committed

\* Restore is resume-first: while an identity has a durable row, the writes
\* with which embody fences it and prepares a session leave the session and
\* generation of that row alone.
ResumeFirst ==
  [][\A r \in Runtimes :
       (/\ op[r] = "embody" /\ pc[r] \in {"fence", "provisional"}
        /\ pc'[r] # pc[r]
        /\ record # None /\ record' # record)
         => Binding(record') = Binding(record)]_vars

\* A deleted identity comes back only under a grant newer than the delete.
DeletedStaysDeleted ==
  record # None /\ tomb > 0 => record.token > tomb

\* The process the provider names as holder is current: its token passes the
\* fence of the row, and if it is Active it serves the session and generation
\* of the row, through lost acknowledgements and restarts of the provider.
HolderIsCurrent == HolderNotFenced /\ ActiveMatchesRecord

\* Of several processes one at most can write, and the one that is Active under
\* the current lease serves what the row binds.
OneAuthority == OneWriter /\ ActiveMatchesRecord

\* Shutdown leaves no lease behind, and no entry is Active beside an older
\* grant that would hide the live one from it.
GrantsAccounted == ShutdownReleasesAll /\ ActiveHasNoPending
=============================================================================
