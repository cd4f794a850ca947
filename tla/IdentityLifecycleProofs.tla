---------------------- MODULE IdentityLifecycleProofs ----------------------
(***************************************************************************)
(* Proofs about IdentityLifecycle, for every number of processes, grants   *)
(* and generations.  What holds in every configuration is proved from the  *)
(* first invariant alone; what the code promises only to one process, or   *)
(* without a certain fault, has the hypothesis in its statement.           *)
(***************************************************************************)
EXTENDS IdentityLifecycle, TLAPS

(***************************************************************************)
(* The inductive invariants.                                               *)
(***************************************************************************)

\* The types alone; that an absent entry is bare follows from EntryLawful.
Typing == EntryTyped /\ SnapshotTyped /\ OperationTyped /\ SharedTyped

\* The operations that can be at a point.
OperationsAt(r) ==
  /\ pc[r] = "idle" => op[r] = "idle"
  /\ pc[r] = "drain" => op[r] \in {"embody", "register"}
  /\ pc[r] = "lookup" => op[r] = "register"
  /\ pc[r] \in {"prepare", "prepareRelease"} => op[r] \in {"register", "remove"}
  /\ pc[r] \in {"acquire", "fence"} => op[r] \in LifecycleOps \cup {"embody"}
  /\ pc[r] \in {"build", "create", "undo", "discard"} => op[r] = "embody"
  /\ pc[r] = "park" => op[r] \in {"embody", "renew"}
  /\ pc[r] = "publish" => op[r] = "renew"
  /\ pc[r] = "resolve" => op[r] \in {"respawn", "reset"}
  /\ pc[r] \in {"provisional", "install"} =>
       op[r] \in {"embody", "reset", "rebind"}
  /\ pc[r] = "actual" => op[r] \in {"embody", "reset"}
  /\ pc[r] = "final" => op[r] \in {"reset", "rebind"}
  /\ pc[r] \in {"dispose", "release", "fenced"} => op[r] \in {"retire", "delete"}
  /\ pc[r] = "erase" => op[r] = "delete"
  /\ pc[r] \in {"rollback", "authoritative"} => op[r] = "reset"
  /\ pc[r] = "rebound" => op[r] = "rebind"
  /\ pc[r] \in {"restore", "restoreRelease", "break", "breakRelease"} =>
       op[r] \in LifecycleOps

\* Before an operation has a grant of its own.
Ungranted == {"idle", "drain", "lookup", "prepare", "prepareRelease", "acquire"}

\* The locals that are set at a point.
LocalsAt(r) ==
  /\ pc[r] \in Ungranted \ {"prepareRelease"} <=> grant[r] = None
  /\ pc[r] \in {"provisional", "install", "actual", "final", "rebound"} =>
       attempt[r] # None
  /\ pc[r] \in {"build", "fenced"} => oldContinuity[r] # None

Coherent(r) == OperationsAt(r) /\ LocalsAt(r)

\* The tokens a process may act under.
Owned(r) ==
  {grant[r], lease[r], pending[r], oldLease[r], oldPending[r]} \ {None}

\* Every token in use was granted by this provider, the lease in force is
\* the last one granted, and no two processes act under the same token.
SharedGranted ==
  /\ held # None => held.token = nextToken - 1
  /\ record # None => record.token < nextToken
  /\ tomb < nextToken
OwnedGranted(r) == \A t \in Owned(r) \cup orphans[r] : t < nextToken
TokensGranted ==
  /\ SharedGranted
  /\ \A r \in Runtimes : OwnedGranted(r)
  /\ \A r, s \in Runtimes : r # s => Owned(r) \cap Owned(s) = {}

\* An Active entry has a session and a lease; one that is neither Active nor
\* Broken has no token of its own.
Lawful(s, b, t, p) ==
  /\ s = "Active" => b # None /\ t # None
  /\ s \notin {"Active", "Broken"} => t = None /\ p = None
  /\ s = "Absent" => b = None

\* While an operation writes, its process's entry is not Active.
EntryLawful(r) ==
  /\ op[r] \notin LifecycleOps =>
       Lawful(state[r], continuity[r], lease[r], pending[r])
  /\ op[r] \in LifecycleOps \cup {"embody"} =>
       lease[r] = None /\ state[r] \notin {"Active", "Absent"}
  /\ pc[r] \notin {"authoritative", "break", "breakRelease"} =>
       Lawful(oldState[r], oldContinuity[r], oldLease[r], oldPending[r])
  /\ op[r] \in LifecycleOps \cup {"embody"} => oldState[r] # "Absent"
  /\ op[r] = "embody" /\ pc[r] \in {"drain", "acquire"} =>
       /\ oldState[r] = state[r] /\ oldContinuity[r] = continuity[r]
       /\ oldLease[r] = lease[r] /\ oldPending[r] = pending[r]
  /\ pc[r] = "publish" =>
       /\ state[r] = "Broken" /\ lease[r] = None /\ pending[r] = grant[r]
       /\ oldState[r] = "Active" /\ oldContinuity[r] = continuity[r]
  /\ pc[r] = "restoreRelease" => oldState[r] # "Active"
  /\ pc[r] = "breakRelease" => state[r] = "Broken" /\ pending[r] = grant[r]
  /\ pc[r] = "prepare" => state[r] # "Active"
  /\ pc[r] = "prepareRelease" =>
       state[r] = "Broken" /\ lease[r] = None /\ pending[r] = grant[r]

Inv ==
  /\ Typing
  /\ \A r \in Runtimes : Coherent(r) /\ EntryLawful(r)
  /\ TokensGranted

\* The lease and pending grant of the entry, as they were when the operation
\* began to look for a grant.
OwnLease(r) == IF pc[r] = "acquire" THEN oldLease[r] ELSE lease[r]
OwnPending(r) == IF pc[r] = "acquire" THEN oldPending[r] ELSE pending[r]

\* A lease the provider books on a running process is the operation's grant,
\* or one its entry or its orphan ledger names; beside a published lease only
\* an orphan can be the one in force.
Custody(r) ==
  held # None /\ held.holder = r /\ up[r] =>
    IF pc[r] \in Ungranted
    THEN /\ held.token \in orphans[r] \cup {OwnLease(r), OwnPending(r)}
         /\ OwnLease(r) # None => held.token \in orphans[r] \cup {OwnLease(r)}
    ELSE held.token = grant[r]

\* No token is hidden behind another one in an entry.
NoneHidden(r) ==
  /\ lease[r] # None => pending[r] = None
  /\ oldLease[r] # None => oldPending[r] = None
  /\ op[r] = "embody" => pending[r] = None
  /\ op[r] \notin {"respawn", "reset"}

-----------------------------------------------------------------------------
\* One process.
OneRuntime == \A r, s \in Runtimes : r = s

Serves(b) == record # None /\ Binding(record) = b

Writing == {"fence", "resolve", "build", "create", "provisional", "install",
            "actual", "final", "dispose", "erase", "undo", "discard",
            "rollback", "restore", "fenced", "rebound", "publish"}

\* The entry of the only process, if Active, is what the row says.
ServesRow(r) ==
  /\ state[r] = "Active" => Serves(continuity[r])
  /\ pc[r] = "acquire" /\ oldState[r] = "Active" => Serves(oldContinuity[r])

\* Whatever may still write does so under a grant newer than the delete.
NewerThanDelete(r) ==
  /\ pc[r] \in Writing => grant[r] > tomb
  /\ lease[r] # None => lease[r] > tomb
  /\ pc[r] = "acquire" /\ oldLease[r] # None => oldLease[r] > tomb

\* Once a reset has reported its generation, what the process remembers of
\* the row and what a rollback would restore are not older.
GenerationKept(r) ==
  committed > 0 =>
    /\ state[r] # "Absent" => continuity[r] # None
    /\ oldState[r] # "Absent" => oldContinuity[r] # None
    /\ pc[r] \in {"prepare", "prepareRelease"} /\ op[r] = "register" =>
         attempt[r] # None
    /\ op[r] = "reset"
         /\ pc[r] \in {"resolve", "provisional", "install", "actual", "final",
                       "rollback"} =>
         oldContinuity[r].gen >= committed
    /\ op[r] = "delete" => pc[r] # "release"
    /\ op[r] = "embody" => pc[r] \notin {"install", "discard"}
    /\ op[r] = "embody" /\ pc[r] = "provisional" => attempt[r].gen = 0

-----------------------------------------------------------------------------
\* Several processes.
\* Whoever has an entry remembers a binding, and embody goes by it.
Remembers(r) ==
  /\ state[r] # "Absent" => continuity[r] # None
  /\ oldState[r] # "Absent" => oldContinuity[r] # None
  /\ pc[r] \in {"prepare", "prepareRelease"} /\ op[r] = "register" =>
       attempt[r] # None
  /\ op[r] # "delete"
  /\ pc[r] # "create" /\ pc[r] # "discard"
  /\ op[r] = "embody" => pc[r] \notin {"provisional", "install"}

PastFence == {"resolve", "build", "provisional", "install", "actual", "final",
              "dispose", "rollback", "restore"}

\* A published lease is not newer than the row, and where they are equal the
\* row is what the process serves.
RowFenced(r) ==
  /\ pc[r] \in PastFence => record.token >= grant[r]
  /\ lease[r] # None => record.token >= lease[r]
  /\ oldLease[r] # None => record.token >= oldLease[r]
  /\ state[r] = "Active" /\ record.token = lease[r] =>
       Binding(record) = continuity[r]
  /\ pc[r] = "acquire" /\ oldState[r] = "Active" /\ record.token = oldLease[r] =>
       Binding(record) = oldContinuity[r]

-----------------------------------------------------------------------------
\* One process whose store answers every write.
StoreAnswers == "store" \notin Faults /\ "ack" \notin Faults

\* Where the entry, and where the snapshot of it, names the row.
EntryCurrent == {"idle", "drain", "lookup", "prepare", "prepareRelease",
                 "acquire", "park", "publish", "breakRelease"}
SnapshotCurrent == {"acquire", "fence", "resolve", "build", "create",
                    "provisional", "dispose", "erase", "restore", "restoreRelease", "fenced",
                    "break"}

\* What the process remembers of the row is the row.
RemembersRow(r) ==
  /\ pc[r] \in EntryCurrent /\ state[r] # "Absent" =>
       Binding(record) = continuity[r]
  /\ pc[r] \in SnapshotCurrent => Binding(record) = oldContinuity[r]
  /\ op[r] \in {"embody", "retire"} => continuity[r] = oldContinuity[r]
  /\ pc[r] \in {"prepare", "prepareRelease"} /\ op[r] = "register" =>
       Binding(record) = attempt[r]
  /\ pc[r] = "release" =>
       Binding(record) = IF op[r] = "delete" THEN None ELSE continuity[r]

\* The next write of the operation passes the checks of the store, and what a
\* rollback expects is there.
WritesPass(r) ==
  /\ pc[r] # "authoritative"
  /\ pc[r] \in Writing /\ record # None => grant[r] >= record.token
  /\ pc[r] = "provisional" =>
       /\ record # None => attempt[r].gen >= record.gen
       /\ op[r] = "embody" => oldContinuity[r] = None
  /\ pc[r] \in {"create", "discard"} => oldContinuity[r] = None
  /\ pc[r] = "install" /\ op[r] = "embody" => oldContinuity[r] = None
  /\ pc[r] \in {"install", "final", "rebound"} => Serves(attempt[r])
  /\ pc[r] = "actual" => record # None /\ attempt[r].gen = record.gen
  /\ pc[r] \in {"install", "actual", "undo"} /\ op[r] = "embody" =>
       \/ oldContinuity[r] = None
       \/ record # None /\ record.gen = oldContinuity[r].gen
  /\ pc[r] \in {"install", "actual", "rollback"} /\ op[r] = "reset" =>
       Serves(expected[r]) /\ record.token = grant[r]

-----------------------------------------------------------------------------
(* The tuples of variables and the building blocks of the actions are only *)
(* abbreviations: they are expanded throughout.                            *)
USE DEF entry, txn, locals, snapshot, provider, history, Jump, Goto, Operate,
    Snapshot, SnapshotEntry, Begin, Done, SetEntry, RemoveEntry, Activate,
    Attempt, BreakWith, BoundExternally

-----------------------------------------------------------------------------
(* Values. *)

\* None is none of the things it stands in for.
LEMMA NoneApart ==
  /\ \A n \in Nat : n # None
  /\ None \notin Bindings /\ None \notin Rows /\ None \notin Leases
  BY ConstantsAssumption

\* What an upsert writes is a row.
LEMMA RowType ==
  ASSUME NEW b \in Bindings, NEW t \in Tokens
  PROVE  Row(b, t) \in Rows
  BY ConstantsAssumption DEF Bindings, Rows, Row, Tokens

\* What a read answers is a binding, or none.
LEMMA BindingType ==
  ASSUME Typing
  PROVE  Binding(record) \in Bindings \cup {None}
  BY DEF Typing, SharedTyped, Binding, Bindings, Rows

\* A fresh session is numbered from the grant.
LEMMA SessionType ==
  ASSUME NEW t \in Tokens, NEW g \in Generations
  PROVE  /\ [session |-> 2 * t, gen |-> g] \in Bindings
         /\ [session |-> 2 * t + 1, gen |-> g] \in Bindings
  BY ConstantsAssumption DEF Tokens, Sessions, Bindings

\* An operation that has passed its acquire has a grant.
LEMMA GrantType ==
  ASSUME Typing, NEW r \in Runtimes, Coherent(r), pc[r] \notin Ungranted
  PROVE  grant[r] \in Tokens
  BY DEF Typing, OperationTyped, Coherent, LocalsAt, Ungranted

\* A token the provider may grant.
LEMMA NextType ==
  ASSUME Typing, nextToken <= MaxToken
  PROVE  nextToken \in Tokens
  BY ConstantsAssumption DEF Typing, SharedTyped, Tokens

\* The generation of a record is one, and so is its successor in bounds.
LEMMA GenerationType ==
  ASSUME Typing
  PROVE  /\ \A b \in Bindings : b.gen \in Generations /\ b.session \in Sessions
         /\ NextGeneration <= MaxGeneration => NextGeneration \in Generations
  <1>1. \A b \in Bindings : b.gen \in Generations /\ b.session \in Sessions
    BY DEF Bindings
  <1>2. record # None => record.gen \in Generations
    BY DEF Typing, SharedTyped, Rows
  <1>3. /\ 0 \in Generations
        /\ \A g \in Generations : g + 1 <= MaxGeneration => g + 1 \in Generations
    BY ConstantsAssumption DEF Generations
  <1>4. CASE record = None
    BY <1>1, <1>4, ConstantsAssumption DEF NextGeneration, Generations
  <1>5. CASE record # None
    BY <1>1, <1>2, <1>3, <1>5 DEF NextGeneration
  <1> QED
    BY <1>4, <1>5

\* The sessions an operation may want to install are well typed.
LEMMA AttemptTypes ==
  ASSUME Typing, NEW r \in Runtimes, Coherent(r), pc[r] \notin Ungranted
  PROVE  /\ oldContinuity[r] # None => Rebound(r) \in Bindings
         /\ \A s \in {oldContinuity[r].session, 2 * grant[r] + 1} :
              oldContinuity[r] # None =>
                [session |-> s, gen |-> oldContinuity[r].gen] \in Bindings
         /\ NextGeneration <= MaxGeneration =>
              [session |-> 2 * grant[r], gen |-> NextGeneration] \in Bindings
         /\ [session |-> 2 * grant[r], gen |-> 0] \in Bindings
         /\ \A s \in {2 * grant[r], 2 * grant[r] + 1} :
              attempt[r] # None =>
                [session |-> s, gen |-> attempt[r].gen] \in Bindings
  <1>1. grant[r] \in Tokens
    BY GrantType
  <1>2. oldContinuity[r] \in Bindings \cup {None}
        /\ attempt[r] \in Bindings \cup {None}
    BY DEF Typing, SnapshotTyped, OperationTyped
  <1>3. oldContinuity[r] # None => Rebound(r) \in Bindings
    BY <1>1, <1>2, SessionType, GenerationType DEF Rebound
  <1>4. \A s \in {oldContinuity[r].session, 2 * grant[r] + 1} :
          oldContinuity[r] # None =>
            [session |-> s, gen |-> oldContinuity[r].gen] \in Bindings
    BY <1>1, <1>2, SessionType, GenerationType DEF Bindings
  <1>5. NextGeneration <= MaxGeneration =>
          [session |-> 2 * grant[r], gen |-> NextGeneration] \in Bindings
    BY <1>1, SessionType, GenerationType
  <1>6. 0 \in Generations
    BY ConstantsAssumption DEF Generations
  <1>7. [session |-> 2 * grant[r], gen |-> 0] \in Bindings
    BY <1>1, <1>6, SessionType
  <1>8. \A s \in {2 * grant[r], 2 * grant[r] + 1} :
          attempt[r] # None => [session |-> s, gen |-> attempt[r].gen] \in Bindings
    BY <1>1, <1>2, SessionType, GenerationType
  <1> QED
    BY <1>3, <1>4, <1>5, <1>7, <1>8


\* The entries keep their types.
LEMMA EntryTypeStep ==
  ASSUME Typing, \A s \in Runtimes : Coherent(s), NEW r \in Runtimes, Step(r)
  PROVE  EntryTyped'
  <1> HIDE DEF Jump, Goto, Operate, Snapshot, SnapshotEntry, Begin, Done,
      Attempt, BreakWith
  <1> USE DEF Typing, EntryTyped, SnapshotTyped, OperationTyped, EntryStates
  <1>1. ASSUME NEW name \in LifecycleOps, MarkLifecycleInProgress(r, name)
        PROVE  EntryTyped'
    BY <1>1, BindingType DEF MarkLifecycleInProgress
  <1>2. CASE AcquireRefused(r)
    BY <1>2, BindingType DEF AcquireRefused
  <1>3. CASE ResolveForRespawn(r)
    BY <1>3, BindingType DEF ResolveForRespawn
  <1>4. CASE ResumeSession(r)
    BY <1>4, BindingType DEF ResumeSession
  <1>5. CASE UpsertEmbodied(r)
    BY <1>5, BindingType DEF UpsertEmbodied
  <1>6. CASE UpsertFinal(r)
    BY <1>6, BindingType DEF UpsertFinal
  <1>7. CASE ReleaseAfterDisposal(r)
    BY <1>7, BindingType DEF ReleaseAfterDisposal
  <1>8. CASE RestoreWithGrant(r)
    BY <1>8, BindingType DEF RestoreWithGrant, RestoreAs
  <1>9. CASE RestoreRelease(r)
    BY <1>9, BindingType DEF RestoreRelease
  <1>10. CASE BreakEntry(r)
    BY <1>10, BindingType DEF BreakEntry
  <1>11. CASE BreakRelease(r)
    BY <1>11, BindingType DEF BreakRelease
  <1>12. CASE PrepareBroken(r)
    BY <1>12, BindingType DEF PrepareBroken, NothingToPrepare, Conflicting,
      Retained, Project
  <1>13. CASE PrepareRelease(r)
    BY <1>13, BindingType DEF PrepareRelease, Project
  <1>14. CASE RenewLost(r)
    BY <1>14, BindingType DEF RenewLost, Due
  <1>15. CASE RenewBroken(r)
    BY <1>15, BindingType DEF RenewBroken, Due
  <1>16. CASE RenewGranted(r)
    <2>1. \E t \in Tokens : StageGrant(r, t)
      BY <1>16, NextType DEF RenewGranted, Due, Grant
    <2>2. \E t \in Tokens :
            UNCHANGED entry \/ SetEntry(r, "Broken", continuity[r], None, t)
      BY <2>1 DEF StageGrant
    <2> QED
      BY <2>2
  <1>17. CASE PublishGrant(r)
    BY <1>17, BindingType DEF PublishGrant
  <1>18. CASE Shutdown(r)
    BY <1>18, BindingType DEF Shutdown, ShutdownGrants, Retained
  <1>19. CASE Restart(r)
    BY <1>19, BindingType DEF Restart, Abandoned, Floor
  <1>20. CASE \/ BeginEmbody(r) \/ BeginRegister(r) \/ BeginRemove(r)
              \/ AcquireGranted(r) \/ AdvanceFence(r) \/ ResolveForReset(r)
              \/ PrepareCreate(r) \/ UpsertProvisional(r)
              \/ InstallSession(r) \/ ReadBackRebind(r)
              \/ UpsertSuccessor(r) \/ DisposeMember(r) \/ EraseRecord(r)
              \/ UndoEmbodiment(r) \/ ReleaseOrPark(r) \/ RollbackReset(r)
              \/ AdoptAuthoritative(r) \/ UpsertBeforeBreak(r)
              \/ DrainOrphans(r) \/ LookupRecord(r)
    BY <1>20 DEF BeginEmbody, BeginRegister, BeginRemove, AcquireGranted,
      AdvanceFence, ResolveForReset, PrepareCreate, UpsertProvisional,
      InstallSession, ReadBackRebind, UpsertSuccessor, DisposeMember,
      EraseRecord, UndoEmbodiment, ReleaseOrPark, RollbackReset,
      AdoptAuthoritative, UpsertBeforeBreak, DrainOrphans, LookupRecord, Grant
  <1> HIDE DEF Typing, EntryTyped, SnapshotTyped, OperationTyped, EntryStates
  <1> QED
    BY <1>1, <1>2, <1>3, <1>4, <1>5, <1>6, <1>7, <1>8, <1>9, <1>10, <1>11,
      <1>12, <1>13, <1>14, <1>15, <1>16, <1>17, <1>18, <1>19, <1>20 DEF Step

\* The snapshots keep their types.
LEMMA SnapshotTypeStep ==
  ASSUME Typing, \A s \in Runtimes : Coherent(s), NEW r \in Runtimes, Step(r)
  PROVE  SnapshotTyped'
  <1> HIDE DEF Jump, Operate, SetEntry, RemoveEntry, Activate
  <1> USE DEF Typing, EntryTyped, SnapshotTyped, OperationTyped, EntryStates
  <1>1. ASSUME NEW name \in LifecycleOps, MarkLifecycleInProgress(r, name)
        PROVE  SnapshotTyped'
    BY <1>1, BindingType DEF MarkLifecycleInProgress
  <1>2. CASE BeginEmbody(r)
    BY <1>2, BindingType DEF BeginEmbody
  <1>3. CASE BeginRegister(r)
    BY <1>3, BindingType DEF BeginRegister
  <1>4. CASE BeginRemove(r)
    BY <1>4, BindingType DEF BeginRemove
  <1>5. CASE AcquireRefused(r)
    BY <1>5, BindingType DEF AcquireRefused
  <1>6. CASE ResolveForRespawn(r)
    BY <1>6 DEF ResolveForRespawn
  <1>7. CASE ResumeSession(r)
    BY <1>7, BindingType DEF ResumeSession
  <1>8. CASE UpsertEmbodied(r)
    BY <1>8, BindingType DEF UpsertEmbodied
  <1>9. CASE UpsertFinal(r)
    BY <1>9, BindingType DEF UpsertFinal
  <1>10. CASE ReleaseAfterDisposal(r)
    BY <1>10, BindingType DEF ReleaseAfterDisposal
  <1>11. CASE ReleaseOrPark(r)
    BY <1>11, BindingType DEF ReleaseOrPark
  <1>12. CASE AdoptAuthoritative(r)
    BY <1>12, BindingType DEF AdoptAuthoritative
  <1>13. CASE RestoreWithGrant(r)
    BY <1>13, BindingType DEF RestoreWithGrant, RestoreAs
  <1>14. CASE RestoreRelease(r)
    BY <1>14, BindingType DEF RestoreRelease
  <1>15. CASE UpsertBeforeBreak(r)
    BY <1>15, BindingType DEF UpsertBeforeBreak
  <1>16. CASE BreakRelease(r)
    BY <1>16, BindingType DEF BreakRelease
  <1>17. CASE DrainOrphans(r)
    BY <1>17, BindingType DEF DrainOrphans
  <1>18. CASE LookupRecord(r)
    BY <1>18, BindingType DEF LookupRecord
  <1>19. CASE PrepareBroken(r)
    BY <1>19, BindingType DEF PrepareBroken, NothingToPrepare, Conflicting,
      Retained, Project
  <1>20. CASE PrepareRelease(r)
    BY <1>20, BindingType DEF PrepareRelease, Project
  <1>21. CASE RenewGranted(r)
    BY <1>21
    DEF RenewGranted, StageGrant
  <1>22. CASE PublishGrant(r)
    BY <1>22, BindingType DEF PublishGrant
  <1>23. CASE Restart(r)
    BY <1>23, BindingType DEF Restart, Abandoned, Floor
  <1>24. CASE \/ AcquireGranted(r) \/ AdvanceFence(r) \/ ResolveForReset(r)
              \/ PrepareCreate(r) \/ UpsertProvisional(r)
              \/ InstallSession(r) \/ ReadBackRebind(r)
              \/ UpsertSuccessor(r) \/ DisposeMember(r) \/ EraseRecord(r)
              \/ UndoEmbodiment(r) \/ RollbackReset(r) \/ BreakEntry(r)
              \/ RenewLost(r) \/ RenewBroken(r) \/ Shutdown(r)
    BY <1>24 DEF AcquireGranted, AdvanceFence, ResolveForReset, PrepareCreate,
      UpsertProvisional, InstallSession, ReadBackRebind, UpsertSuccessor,
      DisposeMember, EraseRecord, UndoEmbodiment, RollbackReset, BreakEntry,
      RenewLost, RenewBroken, Shutdown, Grant
  <1> HIDE DEF Typing, EntryTyped, SnapshotTyped, OperationTyped, EntryStates
  <1> QED
    BY <1>1, <1>2, <1>3, <1>4, <1>5, <1>6, <1>7, <1>8, <1>9, <1>10, <1>11,
      <1>12, <1>13, <1>14, <1>15, <1>16, <1>17, <1>18, <1>19, <1>20, <1>21,
      <1>22, <1>23, <1>24 DEF Step

\* The operations keep their types.
LEMMA OperationTypeStep ==
  ASSUME Typing, \A s \in Runtimes : Coherent(s), NEW r \in Runtimes, Step(r)
  PROVE  OperationTyped'
  <1> HIDE DEF Snapshot, SnapshotEntry, SetEntry, RemoveEntry, Activate
  <1> USE DEF Typing, EntryTyped, OperationTyped, Points, LifecycleOps
  <1>1. ASSUME NEW name \in LifecycleOps, MarkLifecycleInProgress(r, name)
        PROVE  OperationTyped'
    BY <1>1, ConstantsAssumption DEF MarkLifecycleInProgress
  <1>2. CASE BeginEmbody(r)
    BY <1>2, ConstantsAssumption DEF BeginEmbody
  <1>3. CASE BeginRegister(r)
    BY <1>3, ConstantsAssumption DEF BeginRegister
  <1>4. CASE BeginRemove(r)
    BY <1>4, ConstantsAssumption DEF BeginRemove
  <1>5. CASE AcquireRefused(r)
    BY <1>5 DEF AcquireRefused
  <1>6. CASE AcquireGranted(r)
    <2>1. nextToken \in Tokens
      BY <1>6, NextType DEF AcquireGranted, Grant
    <2> QED
      BY <1>6, <2>1 DEF AcquireGranted
  <1>7. CASE AdvanceFence(r)
    <2>1. pc[r] \notin Ungranted
      BY <1>7 DEF AdvanceFence, At, Ungranted
    <2>2. oldContinuity[r] # None => Rebound(r) \in Bindings
      BY <2>1, AttemptTypes
    <2>3. op[r] \in LifecycleOps \cup {"embody"}
      BY <1>7 DEF AdvanceFence, At, Coherent, OperationsAt
    <2> QED
      BY <1>7, <2>2, <2>3 DEF AdvanceFence, AfterFence, WithoutFence, FenceFailed
  <1>8. CASE ResolveForRespawn(r)
    BY <1>8, ZenonT(60) DEF ResolveForRespawn
  <1>9. CASE ResolveForReset(r)
    <2>1. pc[r] \notin Ungranted
      BY <1>9 DEF ResolveForReset, At, Ungranted
    <2>2. NextGeneration <= MaxGeneration =>
            [session |-> 2 * grant[r], gen |-> NextGeneration] \in Bindings
      BY <2>1, AttemptTypes
    <2> QED
      BY <1>9, <2>2 DEF ResolveForReset
  <1>10. CASE ResumeSession(r)
    <2>1. pc[r] \notin Ungranted
      BY <1>10 DEF ResumeSession, At, Ungranted
    <2>2. \A s \in {oldContinuity[r].session, 2 * grant[r] + 1} :
            oldContinuity[r] # None =>
              [session |-> s, gen |-> oldContinuity[r].gen] \in Bindings
      BY <2>1, AttemptTypes
    <2>3. CASE \E s \in {oldContinuity[r].session, 2 * grant[r] + 1} :
                 Attempt(r, "actual", [session |-> s, gen |-> oldContinuity[r].gen])
      <3>1. oldContinuity[r] # None
        BY <1>10 DEF ResumeSession, At, Coherent, LocalsAt
      <3>2. \E b \in Bindings : Attempt(r, "actual", b)
        BY <2>2, <2>3, <3>1
      <3> QED
        BY <1>10, <3>2 DEF ResumeSession
    <2>4. CASE Goto(r, "park")
      BY <2>4
    <2>5. CASE Done(r)
      BY <2>5
    <2> QED
      BY <1>10, <2>3, <2>4, <2>5 DEF ResumeSession
  <1>11. CASE PrepareCreate(r)
    <2>1. pc[r] \notin Ungranted
      BY <1>11 DEF PrepareCreate, At, Ungranted
    <2>2. [session |-> 2 * grant[r], gen |-> 0] \in Bindings
      BY <2>1, AttemptTypes
    <2> QED
      BY <1>11, <2>2 DEF PrepareCreate
  <1>12. CASE UpsertProvisional(r)
    <2>1. op[r] \in {"embody", "reset", "rebind"}
      BY <1>12 DEF UpsertProvisional, At, Coherent, OperationsAt
    <2> QED
      BY <1>12, <2>1 DEF UpsertProvisional, ProvisionalFailed
  <1>13. CASE InstallSession(r)
    <2>1. pc[r] \notin Ungranted
      BY <1>13 DEF InstallSession, At, Ungranted
    <2>2. \A s \in {2 * grant[r], 2 * grant[r] + 1} :
            attempt[r] # None =>
              [session |-> s, gen |-> attempt[r].gen] \in Bindings
      BY <2>1, AttemptTypes
    <2>3. attempt[r] # None
      BY <1>13 DEF InstallSession, At, Coherent, LocalsAt
    <2> QED
      BY <1>13, <2>2, <2>3 DEF InstallSession
  <1>14. CASE ReadBackRebind(r)
    BY <1>14 DEF ReadBackRebind
  <1>15. CASE UpsertEmbodied(r)
    BY <1>15, ZenonT(60) DEF UpsertEmbodied
  <1>16. CASE UpsertSuccessor(r)
    BY <1>16, ZenonT(60) DEF UpsertSuccessor
  <1>17. CASE UpsertFinal(r)
    BY <1>17, ZenonT(60) DEF UpsertFinal
  <1>18. CASE DisposeMember(r)
    BY <1>18 DEF DisposeMember
  <1>19. CASE EraseRecord(r)
    BY <1>19 DEF EraseRecord
  <1>20. CASE ReleaseAfterDisposal(r)
    BY <1>20 DEF ReleaseAfterDisposal
  <1>21. CASE UndoEmbodiment(r)
    BY <1>21 DEF UndoEmbodiment
  <1>22. CASE ReleaseOrPark(r)
    BY <1>22 DEF ReleaseOrPark
  <1>23. CASE RollbackReset(r)
    BY <1>23 DEF RollbackReset
  <1>24. CASE AdoptAuthoritative(r)
    BY <1>24 DEF AdoptAuthoritative
  <1>25. CASE RestoreWithGrant(r)
    BY <1>25, ZenonT(60) DEF RestoreWithGrant, RestoreAs
  <1>26. CASE RestoreRelease(r)
    BY <1>26 DEF RestoreRelease
  <1>27. CASE UpsertBeforeBreak(r)
    BY <1>27 DEF UpsertBeforeBreak
  <1>28. CASE BreakEntry(r)
    BY <1>28 DEF BreakEntry
  <1>29. CASE BreakRelease(r)
    BY <1>29 DEF BreakRelease
  <1>30. CASE DrainOrphans(r)
    <2>1. Goto(r, "acquire") \/ Goto(r, "lookup") \/ Done(r)
      BY <1>30 DEF DrainOrphans
    <2>2. CASE Goto(r, "acquire") \/ Goto(r, "lookup")
      BY <2>2
    <2>3. CASE Done(r)
      BY <2>3
    <2> QED
      BY <2>1, <2>2, <2>3
  <1>31. CASE LookupRecord(r)
    <2>1. Binding(record) \in Bindings \cup {None}
      BY BindingType
    <2>2. CASE Attempt(r, "prepare", Binding(record))
      BY <2>1, <2>2
    <2>3. CASE Done(r)
      BY <2>3
    <2> QED
      BY <1>31, <2>2, <2>3 DEF LookupRecord
  <1>32. CASE PrepareBroken(r)
    <2>1. \/ Done(r)
          \/ /\ Jump(r, "prepareRelease")
             /\ grant' = [grant EXCEPT ![r] = Retained(r)]
             /\ UNCHANGED <<op, attempt, expected, broken>>
      BY <1>32 DEF PrepareBroken
    <2>2. Retained(r) \in Tokens \cup {None}
      BY DEF Retained
    <2>3. CASE Done(r)
      BY <2>3
    <2>4. CASE ~Done(r)
      BY <2>1, <2>2, <2>4
    <2> QED
      BY <2>3, <2>4
  <1>33. CASE PrepareRelease(r)
    BY <1>33 DEF PrepareRelease, Project
  <1>34. CASE RenewGranted(r)
    <2>1. \E t \in {lease[r], nextToken} : StageGrant(r, t) /\ t \in Tokens
      BY <1>34, NextType DEF RenewGranted, Due, Grant
    <2>2. PICK t \in Tokens : StageGrant(r, t)
      BY <2>1
    <2>3. \E p \in {"publish", "park"} : Operate(r, "renew", p, t)
      BY <2>2 DEF StageGrant
    <2> QED
      BY <2>3
  <1>35. CASE PublishGrant(r)
    BY <1>35 DEF PublishGrant
  <1>36. CASE Restart(r)
    BY <1>36 DEF Restart, Abandoned, Floor
  <1>37. CASE \/ RenewLost(r) \/ RenewBroken(r) \/ Shutdown(r)
    BY <1>37 DEF RenewLost, RenewBroken, Shutdown
  <1> HIDE DEF Typing, EntryTyped, OperationTyped, Points, LifecycleOps
  <1> QED
    BY <1>1, <1>2, <1>3, <1>4, <1>5, <1>6, <1>7, <1>8, <1>9, <1>10, <1>11,
      <1>12, <1>13, <1>14, <1>15, <1>16, <1>17, <1>18, <1>19, <1>20, <1>21,
      <1>22, <1>23, <1>24, <1>25, <1>26, <1>27, <1>28, <1>29, <1>30, <1>31,
      <1>32, <1>33, <1>34, <1>35, <1>36, <1>37 DEF Step

\* Whatever an operation writes, it writes under its own grant.
LEMMA RecordStep ==
  ASSUME Typing, \A s \in Runtimes : Coherent(s), NEW r \in Runtimes, Step(r)
  PROVE  \/ UNCHANGED record
         \/ /\ pc[r] \in Writing
            /\ \/ record' = None
               \/ \E b \in Bindings : record' = Row(b, grant[r])
  <1> HIDE DEF Jump, Goto, Operate, Snapshot, SnapshotEntry, Begin, Done,
      SetEntry, RemoveEntry, Activate, Attempt, BreakWith
  <1> USE DEF At, Ungranted, Writing
  <1>1. CASE AdvanceFence(r)
    <2>1. grant[r] \in Tokens
      BY <1>1, GrantType DEF AdvanceFence, At, Ungranted
    <2>2. oldContinuity[r] \in Bindings \cup {None}
      BY DEF Typing, SnapshotTyped
    <2> QED
      BY <1>1, <2>1, <2>2 DEF AdvanceFence, Upsert, Write
  <1>2. CASE UpsertProvisional(r)
    <2>1. grant[r] \in Tokens
      BY <1>2, GrantType DEF UpsertProvisional, At, Ungranted
    <2>2. attempt[r] \in Bindings
      BY <1>2
      DEF UpsertProvisional, At, Typing, OperationTyped, Coherent, LocalsAt
    <2> QED
      BY <1>2, <2>1, <2>2 DEF UpsertProvisional, Upsert, Write
  <1>3. CASE UpsertEmbodied(r)
    <2>1. grant[r] \in Tokens
      BY <1>3, GrantType DEF UpsertEmbodied, At, Ungranted
    <2>2. attempt[r] \in Bindings
      BY <1>3 DEF UpsertEmbodied, At, Typing, OperationTyped, Coherent, LocalsAt
    <2> QED
      BY <1>3, <2>1, <2>2 DEF UpsertEmbodied, Upsert, Write
  <1>4. CASE UpsertSuccessor(r)
    <2>1. grant[r] \in Tokens
      BY <1>4, GrantType DEF UpsertSuccessor, At, Ungranted
    <2>2. attempt[r] \in Bindings
      BY <1>4
      DEF UpsertSuccessor, At, Typing, OperationTyped, Coherent, LocalsAt
    <2> QED
      BY <1>4, <2>1, <2>2 DEF UpsertSuccessor, Upsert, Write
  <1>5. CASE UpsertFinal(r)
    <2>1. grant[r] \in Tokens
      BY <1>5, GrantType DEF UpsertFinal, At, Ungranted
    <2>2. attempt[r] \in Bindings
      BY <1>5 DEF UpsertFinal, At, Typing, OperationTyped, Coherent, LocalsAt
    <2> QED
      BY <1>5, <2>1, <2>2 DEF UpsertFinal, Upsert, Write
  <1>6. CASE EraseRecord(r)
    <2>1. grant[r] \in Tokens
      BY <1>6, GrantType DEF EraseRecord, At, Ungranted
    <2> QED
      BY <1>6, <2>1 DEF EraseRecord, Delete, Write
  <1>7. CASE UndoEmbodiment(r)
    <2>1. grant[r] \in Tokens
      BY <1>7, GrantType DEF UndoEmbodiment, At, Ungranted
    <2>2. oldContinuity[r] \in Bindings \cup {None}
      BY DEF Typing, SnapshotTyped
    <2> QED
      BY <1>7, <2>1, <2>2 DEF UndoEmbodiment, Upsert, Delete, Write
  <1>8. CASE RollbackReset(r)
    <2>1. grant[r] \in Tokens
      BY <1>8, GrantType DEF RollbackReset, At, Ungranted
    <2>2. oldContinuity[r] \in Bindings \cup {None}
      BY DEF Typing, SnapshotTyped
    <2> QED
      BY <1>8, <2>1, <2>2 DEF RollbackReset, Rollback, Write
  <1>9. CASE RestoreWithGrant(r)
    <2>1. grant[r] \in Tokens
      BY <1>9, GrantType DEF RestoreWithGrant, At, Ungranted
    <2>2. oldContinuity[r] \in Bindings \cup {None}
      BY DEF Typing, SnapshotTyped
    <2> QED
      BY <1>9, <2>1, <2>2 DEF RestoreWithGrant, Upsert, Write
  <1>10. CASE UpsertBeforeBreak(r)
    <2>1. grant[r] \in Tokens
      BY <1>10, GrantType DEF UpsertBeforeBreak, At, Ungranted
    <2>2. PICK b \in {attempt[r], oldContinuity[r]}, ok \in BOOLEAN :
            /\ \/ At(r, "rebound") /\ b = attempt[r]
               \/ At(r, "fenced") /\ b = oldContinuity[r]
            /\ Upsert(b, grant[r], ok)
      BY <1>10 DEF UpsertBeforeBreak
    <2>3. b \in Bindings
      BY <2>2
      DEF At, Typing, OperationTyped, SnapshotTyped, Coherent, LocalsAt
    <2> QED
      BY <2>1, <2>2, <2>3 DEF Upsert, Write
  <1>11. CASE PublishGrant(r)
    <2>1. grant[r] \in Tokens
      BY <1>11, GrantType DEF PublishGrant, At, Ungranted
    <2>2. oldContinuity[r] \in Bindings \cup {None}
      BY DEF Typing, SnapshotTyped
    <2> QED
      BY <1>11, <2>1, <2>2 DEF PublishGrant, Upsert, Write
  <1>12. CASE \/ \E name \in LifecycleOps : MarkLifecycleInProgress(r, name)
              \/ BeginEmbody(r) \/ BeginRegister(r) \/ BeginRemove(r)
              \/ AcquireRefused(r) \/ AcquireGranted(r)
              \/ ResolveForRespawn(r) \/ ResolveForReset(r)
              \/ ResumeSession(r) \/ PrepareCreate(r) \/ InstallSession(r)
              \/ ReadBackRebind(r) \/ DisposeMember(r)
              \/ ReleaseAfterDisposal(r) \/ ReleaseOrPark(r)
              \/ AdoptAuthoritative(r) \/ RestoreRelease(r) \/ BreakEntry(r)
              \/ BreakRelease(r) \/ DrainOrphans(r) \/ LookupRecord(r)
              \/ PrepareBroken(r) \/ PrepareRelease(r) \/ RenewLost(r)
              \/ RenewBroken(r) \/ RenewGranted(r) \/ Shutdown(r)
              \/ Restart(r)
    BY <1>12 DEF MarkLifecycleInProgress, BeginEmbody, BeginRegister,
      BeginRemove, AcquireRefused, AcquireGranted, ResolveForRespawn,
      ResolveForReset, ResumeSession, PrepareCreate, InstallSession,
      ReadBackRebind, DisposeMember, ReleaseAfterDisposal, ReleaseOrPark,
      AdoptAuthoritative, RestoreRelease, BreakEntry, BreakRelease,
      DrainOrphans, LookupRecord, PrepareBroken, PrepareRelease, RenewLost,
      RenewBroken, RenewGranted, Shutdown, Restart, Grant
  <1> HIDE DEF At, Ungranted, Writing
  <1> QED
    BY <1>1, <1>2, <1>3, <1>4, <1>5, <1>6, <1>7, <1>8, <1>9, <1>10, <1>11,
      <1>12 DEF Step

\* The lease in force stays, is given back or abandoned, or is a new one.
LEMMA HeldStep ==
  ASSUME Typing, \A s \in Runtimes : Coherent(s), NEW r \in Runtimes, Step(r)
  PROVE  \/ UNCHANGED provider
         \/ held' = None /\ UNCHANGED nextToken
         \/ Grant(r) /\ up[r]
         \/ Restart(r)
  <1> HIDE DEF Jump, Goto, Operate, Snapshot, SnapshotEntry, Begin, Done,
      SetEntry, RemoveEntry, Activate, Attempt, BreakWith
  <1> USE DEF Release, HeldAfterRelease, At
  <1>1. CASE AcquireGranted(r)
    BY <1>1 DEF AcquireGranted, Acquirable, Grant
  <1>2. CASE ReleaseAfterDisposal(r)
    BY <1>2 DEF ReleaseAfterDisposal
  <1>3. CASE ReleaseOrPark(r)
    BY <1>3 DEF ReleaseOrPark
  <1>4. CASE RestoreRelease(r)
    BY <1>4 DEF RestoreRelease
  <1>5. CASE BreakRelease(r)
    BY <1>5 DEF BreakRelease
  <1>6. CASE DrainOrphans(r)
    BY <1>6 DEF DrainOrphans
  <1>7. CASE PrepareRelease(r)
    BY <1>7 DEF PrepareRelease, Project
  <1>8. CASE RenewGranted(r)
    BY <1>8 DEF RenewGranted, Due, HoldsLease, StageGrant, Grant
  <1>9. CASE Shutdown(r)
    BY <1>9 DEF Shutdown, ShutdownGrants, Retained
  <1>10. CASE Restart(r)
    BY <1>10 DEF Restart, Abandoned, Floor
  <1>11. CASE \/ \E name \in LifecycleOps : MarkLifecycleInProgress(r, name)
              \/ BeginEmbody(r) \/ BeginRegister(r) \/ BeginRemove(r)
              \/ AcquireRefused(r) \/ AdvanceFence(r)
              \/ ResolveForRespawn(r) \/ ResolveForReset(r)
              \/ ResumeSession(r) \/ PrepareCreate(r)
              \/ UpsertProvisional(r) \/ InstallSession(r)
              \/ ReadBackRebind(r) \/ UpsertEmbodied(r)
              \/ UpsertSuccessor(r) \/ UpsertFinal(r) \/ DisposeMember(r)
              \/ EraseRecord(r) \/ UndoEmbodiment(r) \/ RollbackReset(r)
              \/ AdoptAuthoritative(r) \/ RestoreWithGrant(r)
              \/ UpsertBeforeBreak(r) \/ BreakEntry(r) \/ LookupRecord(r)
              \/ PrepareBroken(r) \/ RenewLost(r) \/ RenewBroken(r)
              \/ PublishGrant(r)
    BY <1>11 DEF MarkLifecycleInProgress, BeginEmbody, BeginRegister,
      BeginRemove, AcquireRefused, AdvanceFence, ResolveForRespawn,
      ResolveForReset, ResumeSession, PrepareCreate, UpsertProvisional,
      InstallSession, ReadBackRebind, UpsertEmbodied, UpsertSuccessor,
      UpsertFinal, DisposeMember, EraseRecord, UndoEmbodiment, RollbackReset,
      AdoptAuthoritative, RestoreWithGrant, UpsertBeforeBreak, BreakEntry,
      LookupRecord, PrepareBroken, RenewLost, RenewBroken, PublishGrant
  <1> HIDE DEF Release, HeldAfterRelease, At
  <1> QED
    BY <1>1, <1>2, <1>3, <1>4, <1>5, <1>6, <1>7, <1>8, <1>9, <1>10,
      <1>11 DEF Step

\* The ledgers and the histories keep their types.
LEMMA LedgersTypeStep ==
  ASSUME Typing, \A s \in Runtimes : Coherent(s), NEW r \in Runtimes, Step(r)
  PROVE  /\ orphans' \in [Runtimes -> SUBSET Tokens]
         /\ up' \in [Runtimes -> BOOLEAN]
         /\ tomb' \in 0..MaxToken /\ committed' \in Generations
  <1> HIDE DEF Jump, Goto, Operate, Snapshot, SnapshotEntry, Begin, Done,
      SetEntry, RemoveEntry, Activate, Attempt, BreakWith
  <1> USE DEF Typing, SharedTyped
  <1>1. CASE UpsertFinal(r)
    <2>1. attempt[r] \in Bindings
      BY <1>1 DEF UpsertFinal, At, Typing, OperationTyped, Coherent, LocalsAt
    <2>2. attempt[r].gen \in Generations
      BY <2>1 DEF Bindings
    <2> QED
      BY <1>1, <2>2 DEF UpsertFinal
  <1>2. CASE EraseRecord(r)
    <2>1. grant[r] \in Tokens
      BY <1>2, GrantType DEF EraseRecord, At, Ungranted
    <2> QED
      BY <1>2, <2>1, ConstantsAssumption DEF EraseRecord, Tokens, Generations
  <1>3. CASE ReleaseOrPark(r)
    <2>1. grant[r] \in Tokens
      BY <1>3, GrantType DEF ReleaseOrPark, At, Ungranted
    <2> QED
      BY <1>3, <2>1 DEF ReleaseOrPark
  <1>4. CASE DrainOrphans(r)
    BY <1>4 DEF DrainOrphans
  <1>5. CASE Shutdown(r)
    BY <1>5 DEF Shutdown, ShutdownGrants, Retained
  <1>6. CASE Restart(r)
    <2>1. tomb' \in 0..MaxToken
      BY <1>6, ConstantsAssumption DEF Restart
    <2> QED
      BY <1>6, <2>1 DEF Restart
  <1>7. CASE \/ \E name \in LifecycleOps : MarkLifecycleInProgress(r, name)
             \/ BeginEmbody(r) \/ BeginRegister(r) \/ BeginRemove(r)
             \/ AcquireRefused(r) \/ AcquireGranted(r) \/ AdvanceFence(r)
             \/ ResolveForRespawn(r) \/ ResolveForReset(r)
             \/ ResumeSession(r) \/ PrepareCreate(r) \/ UpsertProvisional(r)
             \/ InstallSession(r) \/ ReadBackRebind(r) \/ UpsertEmbodied(r)
             \/ UpsertSuccessor(r) \/ DisposeMember(r)
             \/ ReleaseAfterDisposal(r) \/ UndoEmbodiment(r)
             \/ RollbackReset(r) \/ AdoptAuthoritative(r)
             \/ RestoreWithGrant(r) \/ RestoreRelease(r)
             \/ UpsertBeforeBreak(r) \/ BreakEntry(r) \/ BreakRelease(r)
             \/ LookupRecord(r) \/ PrepareBroken(r) \/ PrepareRelease(r)
             \/ RenewLost(r) \/ RenewBroken(r) \/ RenewGranted(r)
             \/ PublishGrant(r)
    BY <1>7 DEF MarkLifecycleInProgress, BeginEmbody, BeginRegister,
      BeginRemove, AcquireRefused, AcquireGranted, AdvanceFence,
      ResolveForRespawn, ResolveForReset, ResumeSession, PrepareCreate,
      UpsertProvisional, InstallSession, ReadBackRebind, UpsertEmbodied,
      UpsertSuccessor, DisposeMember, ReleaseAfterDisposal, UndoEmbodiment,
      RollbackReset, AdoptAuthoritative, RestoreWithGrant, RestoreRelease,
      UpsertBeforeBreak, BreakEntry, BreakRelease, LookupRecord,
      PrepareBroken, PrepareRelease, RenewLost, RenewBroken, RenewGranted,
      PublishGrant, Grant
  <1> HIDE DEF Typing, SharedTyped
  <1> QED
    BY <1>1, <1>2, <1>3, <1>4, <1>5, <1>6, <1>7 DEF Step

\* The provider keeps its types.
LEMMA ProviderTypeStep ==
  ASSUME Typing, NEW r \in Runtimes, Step(r), \A s \in Runtimes : Coherent(s)
  PROVE  /\ held' \in Leases \cup {None}
         /\ nextToken' \in 1..(MaxToken + 1)
  <1>1. held \in Leases \cup {None} /\ nextToken \in 1..(MaxToken + 1)
    BY DEF Typing, SharedTyped
  <1>2. CASE UNCHANGED provider
    BY <1>1, <1>2
  <1>3. CASE held' = None /\ UNCHANGED nextToken
    BY <1>1, <1>3
  <1>4. CASE Grant(r)
    BY <1>1, <1>4, ConstantsAssumption DEF Grant, Leases, Tokens
  <1>5. CASE Restart(r)
    <2>1. Floor \in 0..MaxToken
      BY ConstantsAssumption DEF Floor, Typing, SharedTyped, Rows
    <2>2. Abandoned(r) \in Leases \cup {None}
      BY <1>1 DEF Abandoned, Leases
    <2> QED
      BY <1>1, <1>5, <2>1, <2>2, ConstantsAssumption DEF Restart
  <1> QED
    BY <1>2, <1>3, <1>4, <1>5, HeldStep

\* A step keeps every type.
LEMMA TypeStep ==
  ASSUME Typing, NEW r \in Runtimes, Step(r), \A s \in Runtimes : Coherent(s)
  PROVE  Typing'
  <1>1. record' \in Rows \cup {None}
    <2>1. record \in Rows \cup {None}
      BY DEF Typing, SharedTyped
    <2>2. ASSUME pc[r] \in Writing, NEW b \in Bindings,
                 record' = Row(b, grant[r])
          PROVE  record' \in Rows
      <3>1. grant[r] \in Tokens
        BY <2>2, GrantType DEF Writing, Ungranted
      <3> QED
        BY <2>2, <3>1, RowType
    <2> QED
      BY <2>1, <2>2, RecordStep
  <1>2. SharedTyped'
    BY <1>1, LedgersTypeStep, ProviderTypeStep DEF SharedTyped
  <1> QED
    BY <1>2, EntryTypeStep, SnapshotTypeStep, OperationTypeStep DEF Typing


-----------------------------------------------------------------------------
(* What a step leaves alone, and where it goes. *)

EntryOf(r) == <<state[r], continuity[r], lease[r], pending[r]>>
OperationOf(r) ==
  <<op[r], pc[r], grant[r], attempt[r], expected[r], broken[r]>>
SnapshotOf(r) == <<oldState[r], oldContinuity[r], oldLease[r], oldPending[r]>>


\* A step of one process leaves the entries of the others alone, ...
LEMMA OtherEntries ==
  ASSUME Typing, NEW r \in Runtimes, Step(r)
  PROVE  \A s \in Runtimes \ {r} : UNCHANGED EntryOf(s)
  <1> HIDE DEF Jump, Goto, Operate, Snapshot, SnapshotEntry, Begin, Done,
      Attempt, BreakWith
  <1> USE DEF Typing, EntryTyped, EntryOf
  <1>1. ASSUME NEW name \in LifecycleOps, MarkLifecycleInProgress(r, name)
        PROVE  \A s \in Runtimes \ {r} : UNCHANGED EntryOf(s)
    BY <1>1 DEF MarkLifecycleInProgress
  <1>2. CASE AcquireRefused(r)
    BY <1>2 DEF AcquireRefused
  <1>3. CASE ResolveForRespawn(r)
    BY <1>3 DEF ResolveForRespawn
  <1>4. CASE ResumeSession(r)
    BY <1>4 DEF ResumeSession
  <1>5. CASE UpsertEmbodied(r)
    BY <1>5 DEF UpsertEmbodied
  <1>6. CASE UpsertFinal(r)
    BY <1>6 DEF UpsertFinal
  <1>7. CASE ReleaseAfterDisposal(r)
    BY <1>7 DEF ReleaseAfterDisposal
  <1>8. CASE RestoreWithGrant(r)
    BY <1>8 DEF RestoreWithGrant, RestoreAs
  <1>9. CASE RestoreRelease(r)
    BY <1>9 DEF RestoreRelease
  <1>10. CASE BreakEntry(r)
    BY <1>10 DEF BreakEntry
  <1>11. CASE BreakRelease(r)
    BY <1>11 DEF BreakRelease
  <1>12. CASE PrepareBroken(r)
    BY <1>12 DEF PrepareBroken, NothingToPrepare, Conflicting, Retained,
      Project
  <1>13. CASE PrepareRelease(r)
    BY <1>13 DEF PrepareRelease, Project
  <1>14. CASE RenewLost(r)
    BY <1>14 DEF RenewLost, Due
  <1>15. CASE RenewBroken(r)
    BY <1>15 DEF RenewBroken, Due
  <1>16. CASE RenewGranted(r)
    BY <1>16 DEF RenewGranted, Due, HoldsLease, StageGrant, Grant
  <1>17. CASE PublishGrant(r)
    BY <1>17 DEF PublishGrant
  <1>18. CASE Shutdown(r)
    BY <1>18 DEF Shutdown, ShutdownGrants, Retained
  <1>19. CASE Restart(r)
    BY <1>19 DEF Restart, Abandoned, Floor
  <1>20. CASE \/ BeginEmbody(r) \/ BeginRegister(r) \/ BeginRemove(r)
              \/ AcquireGranted(r) \/ AdvanceFence(r) \/ ResolveForReset(r)
              \/ PrepareCreate(r) \/ UpsertProvisional(r)
              \/ InstallSession(r) \/ ReadBackRebind(r)
              \/ UpsertSuccessor(r) \/ DisposeMember(r) \/ EraseRecord(r)
              \/ UndoEmbodiment(r) \/ ReleaseOrPark(r) \/ RollbackReset(r)
              \/ AdoptAuthoritative(r) \/ UpsertBeforeBreak(r)
              \/ DrainOrphans(r) \/ LookupRecord(r)
    BY <1>20 DEF BeginEmbody, BeginRegister, BeginRemove, AcquireGranted,
      AdvanceFence, ResolveForReset, PrepareCreate, UpsertProvisional,
      InstallSession, ReadBackRebind, UpsertSuccessor, DisposeMember,
      EraseRecord, UndoEmbodiment, ReleaseOrPark, RollbackReset,
      AdoptAuthoritative, UpsertBeforeBreak, DrainOrphans, LookupRecord, Grant
  <1> HIDE DEF Typing, EntryTyped, EntryOf
  <1> QED
    BY <1>1, <1>2, <1>3, <1>4, <1>5, <1>6, <1>7, <1>8, <1>9, <1>10, <1>11,
      <1>12, <1>13, <1>14, <1>15, <1>16, <1>17, <1>18, <1>19, <1>20 DEF Step

\* ... their operations, ...
LEMMA OtherOperations ==
  ASSUME Typing, NEW r \in Runtimes, Step(r)
  PROVE  \A s \in Runtimes \ {r} : UNCHANGED OperationOf(s)
  <1> HIDE DEF Snapshot, SnapshotEntry, SetEntry, RemoveEntry, Activate
  <1> USE DEF Typing, OperationTyped, OperationOf
  <1>1. ASSUME NEW name \in LifecycleOps, MarkLifecycleInProgress(r, name)
        PROVE  \A s \in Runtimes \ {r} : UNCHANGED OperationOf(s)
    BY <1>1 DEF MarkLifecycleInProgress
  <1>2. CASE BeginEmbody(r)
    BY <1>2 DEF BeginEmbody
  <1>3. CASE BeginRegister(r)
    BY <1>3 DEF BeginRegister
  <1>4. CASE BeginRemove(r)
    BY <1>4 DEF BeginRemove
  <1>5. CASE AcquireRefused(r)
    BY <1>5 DEF AcquireRefused
  <1>6. CASE AcquireGranted(r)
    BY <1>6 DEF AcquireGranted, Acquirable, Grant
  <1>7. CASE AdvanceFence(r)
    BY <1>7 DEF AdvanceFence, AfterFence, WithoutFence, FenceFailed, Rebound
  <1>8. CASE ResolveForRespawn(r)
    BY <1>8 DEF ResolveForRespawn
  <1>9. CASE ResolveForReset(r)
    BY <1>9 DEF ResolveForReset, NextGeneration
  <1>10. CASE ResumeSession(r)
    BY <1>10 DEF ResumeSession
  <1>11. CASE PrepareCreate(r)
    BY <1>11 DEF PrepareCreate
  <1>12. CASE UpsertProvisional(r)
    BY <1>12 DEF UpsertProvisional, ProvisionalFailed
  <1>13. CASE InstallSession(r)
    BY <1>13 DEF InstallSession
  <1>14. CASE ReadBackRebind(r)
    BY <1>14 DEF ReadBackRebind
  <1>15. CASE UpsertEmbodied(r)
    BY <1>15 DEF UpsertEmbodied
  <1>16. CASE UpsertSuccessor(r)
    BY <1>16 DEF UpsertSuccessor
  <1>17. CASE UpsertFinal(r)
    BY <1>17 DEF UpsertFinal
  <1>18. CASE DisposeMember(r)
    BY <1>18 DEF DisposeMember
  <1>19. CASE EraseRecord(r)
    BY <1>19 DEF EraseRecord
  <1>20. CASE ReleaseAfterDisposal(r)
    BY <1>20 DEF ReleaseAfterDisposal
  <1>21. CASE UndoEmbodiment(r)
    BY <1>21 DEF UndoEmbodiment
  <1>22. CASE ReleaseOrPark(r)
    BY <1>22 DEF ReleaseOrPark
  <1>23. CASE RollbackReset(r)
    BY <1>23 DEF RollbackReset
  <1>24. CASE AdoptAuthoritative(r)
    BY <1>24 DEF AdoptAuthoritative
  <1>25. CASE RestoreWithGrant(r)
    BY <1>25 DEF RestoreWithGrant, RestoreAs
  <1>26. CASE RestoreRelease(r)
    BY <1>26 DEF RestoreRelease
  <1>27. CASE UpsertBeforeBreak(r)
    BY <1>27 DEF UpsertBeforeBreak
  <1>28. CASE BreakEntry(r)
    BY <1>28 DEF BreakEntry
  <1>29. CASE BreakRelease(r)
    BY <1>29 DEF BreakRelease
  <1>30. CASE DrainOrphans(r)
    BY <1>30 DEF DrainOrphans
  <1>31. CASE LookupRecord(r)
    BY <1>31 DEF LookupRecord
  <1>32. CASE PrepareBroken(r)
    BY <1>32 DEF PrepareBroken, NothingToPrepare, Conflicting, Retained,
      Project
  <1>33. CASE PrepareRelease(r)
    BY <1>33 DEF PrepareRelease, Project
  <1>34. CASE RenewGranted(r)
    BY <1>34 DEF RenewGranted, Due, HoldsLease, StageGrant, Grant
  <1>35. CASE PublishGrant(r)
    BY <1>35 DEF PublishGrant
  <1>36. CASE Restart(r)
    BY <1>36 DEF Restart, Abandoned, Floor
  <1>37. CASE \/ RenewLost(r) \/ RenewBroken(r) \/ Shutdown(r)
    BY <1>37 DEF RenewLost, RenewBroken, Shutdown
  <1> HIDE DEF Typing, OperationTyped, OperationOf
  <1> QED
    BY <1>1, <1>2, <1>3, <1>4, <1>5, <1>6, <1>7, <1>8, <1>9, <1>10, <1>11,
      <1>12, <1>13, <1>14, <1>15, <1>16, <1>17, <1>18, <1>19, <1>20, <1>21,
      <1>22, <1>23, <1>24, <1>25, <1>26, <1>27, <1>28, <1>29, <1>30, <1>31,
      <1>32, <1>33, <1>34, <1>35, <1>36, <1>37 DEF Step

\* ... their snapshots ...
LEMMA OtherSnapshots ==
  ASSUME Typing, NEW r \in Runtimes, Step(r)
  PROVE  \A s \in Runtimes \ {r} : UNCHANGED SnapshotOf(s)
  <1> HIDE DEF Jump, Operate, SetEntry, RemoveEntry, Activate
  <1> USE DEF Typing, SnapshotTyped, SnapshotOf
  <1>1. ASSUME NEW name \in LifecycleOps, MarkLifecycleInProgress(r, name)
        PROVE  \A s \in Runtimes \ {r} : UNCHANGED SnapshotOf(s)
    BY <1>1 DEF MarkLifecycleInProgress
  <1>2. CASE BeginEmbody(r)
    BY <1>2 DEF BeginEmbody
  <1>3. CASE BeginRegister(r)
    BY <1>3 DEF BeginRegister
  <1>4. CASE BeginRemove(r)
    BY <1>4 DEF BeginRemove
  <1>5. CASE AcquireRefused(r)
    BY <1>5 DEF AcquireRefused
  <1>6. CASE ResolveForRespawn(r)
    BY <1>6 DEF ResolveForRespawn
  <1>7. CASE ResumeSession(r)
    BY <1>7 DEF ResumeSession
  <1>8. CASE UpsertEmbodied(r)
    BY <1>8 DEF UpsertEmbodied
  <1>9. CASE UpsertFinal(r)
    BY <1>9 DEF UpsertFinal
  <1>10. CASE ReleaseAfterDisposal(r)
    BY <1>10 DEF ReleaseAfterDisposal
  <1>11. CASE ReleaseOrPark(r)
    BY <1>11 DEF ReleaseOrPark
  <1>12. CASE AdoptAuthoritative(r)
    BY <1>12 DEF AdoptAuthoritative
  <1>13. CASE RestoreWithGrant(r)
    BY <1>13 DEF RestoreWithGrant, RestoreAs
  <1>14. CASE RestoreRelease(r)
    BY <1>14 DEF RestoreRelease
  <1>15. CASE UpsertBeforeBreak(r)
    BY <1>15 DEF UpsertBeforeBreak
  <1>16. CASE BreakRelease(r)
    BY <1>16 DEF BreakRelease
  <1>17. CASE DrainOrphans(r)
    BY <1>17 DEF DrainOrphans
  <1>18. CASE LookupRecord(r)
    BY <1>18 DEF LookupRecord
  <1>19. CASE PrepareBroken(r)
    BY <1>19 DEF PrepareBroken, NothingToPrepare, Conflicting, Retained,
      Project
  <1>20. CASE PrepareRelease(r)
    BY <1>20 DEF PrepareRelease, Project
  <1>21. CASE RenewGranted(r)
    BY <1>21 DEF RenewGranted, Due, HoldsLease, StageGrant, Grant
  <1>22. CASE PublishGrant(r)
    BY <1>22 DEF PublishGrant
  <1>23. CASE Restart(r)
    BY <1>23 DEF Restart, Abandoned, Floor
  <1>24. CASE \/ AcquireGranted(r) \/ AdvanceFence(r) \/ ResolveForReset(r)
              \/ PrepareCreate(r) \/ UpsertProvisional(r)
              \/ InstallSession(r) \/ ReadBackRebind(r)
              \/ UpsertSuccessor(r) \/ DisposeMember(r) \/ EraseRecord(r)
              \/ UndoEmbodiment(r) \/ RollbackReset(r) \/ BreakEntry(r)
              \/ RenewLost(r) \/ RenewBroken(r) \/ Shutdown(r)
    BY <1>24 DEF AcquireGranted, AdvanceFence, ResolveForReset, PrepareCreate,
      UpsertProvisional, InstallSession, ReadBackRebind, UpsertSuccessor,
      DisposeMember, EraseRecord, UndoEmbodiment, RollbackReset, BreakEntry,
      RenewLost, RenewBroken, Shutdown, Grant
  <1> HIDE DEF Typing, SnapshotTyped, SnapshotOf
  <1> QED
    BY <1>1, <1>2, <1>3, <1>4, <1>5, <1>6, <1>7, <1>8, <1>9, <1>10, <1>11,
      <1>12, <1>13, <1>14, <1>15, <1>16, <1>17, <1>18, <1>19, <1>20, <1>21,
      <1>22, <1>23, <1>24 DEF Step

\* ... and their ledgers.
LEMMA OtherLedgers ==
  ASSUME Typing, NEW r \in Runtimes, Step(r)
  PROVE  \A s \in Runtimes \ {r} : UNCHANGED <<orphans[s], up[s]>>
  <1> HIDE DEF Jump, Goto, Operate, Snapshot, SnapshotEntry, Begin, Done,
      SetEntry, RemoveEntry, Activate, Attempt, BreakWith
  <1> USE DEF Typing, SharedTyped
  <1>1. CASE ReleaseOrPark(r)
    BY <1>1 DEF ReleaseOrPark
  <1>2. CASE DrainOrphans(r)
    BY <1>2 DEF DrainOrphans
  <1>3. CASE Shutdown(r)
    BY <1>3 DEF Shutdown, ShutdownGrants, Retained
  <1>4. CASE Restart(r)
    BY <1>4 DEF Restart, Abandoned, Floor
  <1>5. CASE \/ \E name \in LifecycleOps : MarkLifecycleInProgress(r, name)
             \/ BeginEmbody(r) \/ BeginRegister(r) \/ BeginRemove(r)
             \/ AcquireRefused(r) \/ AcquireGranted(r) \/ AdvanceFence(r)
             \/ ResolveForRespawn(r) \/ ResolveForReset(r)
             \/ ResumeSession(r) \/ PrepareCreate(r) \/ UpsertProvisional(r)
             \/ InstallSession(r) \/ ReadBackRebind(r) \/ UpsertEmbodied(r)
             \/ UpsertSuccessor(r) \/ UpsertFinal(r) \/ DisposeMember(r)
             \/ EraseRecord(r) \/ ReleaseAfterDisposal(r)
             \/ UndoEmbodiment(r) \/ RollbackReset(r)
             \/ AdoptAuthoritative(r) \/ RestoreWithGrant(r)
             \/ RestoreRelease(r) \/ UpsertBeforeBreak(r) \/ BreakEntry(r)
             \/ BreakRelease(r) \/ LookupRecord(r) \/ PrepareBroken(r)
             \/ PrepareRelease(r) \/ RenewLost(r) \/ RenewBroken(r)
             \/ RenewGranted(r) \/ PublishGrant(r)
    BY <1>5 DEF MarkLifecycleInProgress, BeginEmbody, BeginRegister,
      BeginRemove, AcquireRefused, AcquireGranted, AdvanceFence,
      ResolveForRespawn, ResolveForReset, ResumeSession, PrepareCreate,
      UpsertProvisional, InstallSession, ReadBackRebind, UpsertEmbodied,
      UpsertSuccessor, UpsertFinal, DisposeMember, EraseRecord,
      ReleaseAfterDisposal, UndoEmbodiment, RollbackReset, AdoptAuthoritative,
      RestoreWithGrant, RestoreRelease, UpsertBeforeBreak, BreakEntry,
      BreakRelease, LookupRecord, PrepareBroken, PrepareRelease, RenewLost,
      RenewBroken, RenewGranted, PublishGrant, Grant
  <1> HIDE DEF Typing, SharedTyped
  <1> QED
    BY <1>1, <1>2, <1>3, <1>4, <1>5 DEF Step

\* An operation is where its kind can be.
LEMMA OperationsAtStep ==
  ASSUME Typing, NEW r \in Runtimes, Coherent(r), Step(r)
  PROVE  OperationsAt(r)'
  <1> HIDE DEF Snapshot, SnapshotEntry, SetEntry, RemoveEntry, Activate
  <1> USE DEF Typing, OperationTyped, Coherent, OperationsAt, LifecycleOps, At
  <1>1. ASSUME NEW name \in LifecycleOps, MarkLifecycleInProgress(r, name)
        PROVE  OperationsAt(r)'
    BY <1>1 DEF MarkLifecycleInProgress
  <1>2. CASE BeginEmbody(r)
    BY <1>2 DEF BeginEmbody
  <1>3. CASE BeginRegister(r)
    BY <1>3 DEF BeginRegister
  <1>4. CASE BeginRemove(r)
    BY <1>4 DEF BeginRemove
  <1>5. CASE AcquireRefused(r)
    BY <1>5 DEF AcquireRefused
  <1>6. CASE AcquireGranted(r)
    BY <1>6 DEF AcquireGranted, Acquirable, Grant
  <1>7. CASE AdvanceFence(r)
    BY <1>7 DEF AdvanceFence, AfterFence, WithoutFence, FenceFailed, Rebound
  <1>8. CASE ResolveForRespawn(r)
    BY <1>8 DEF ResolveForRespawn
  <1>9. CASE ResolveForReset(r)
    BY <1>9 DEF ResolveForReset, NextGeneration
  <1>10. CASE ResumeSession(r)
    BY <1>10 DEF ResumeSession
  <1>11. CASE PrepareCreate(r)
    BY <1>11 DEF PrepareCreate
  <1>12. CASE UpsertProvisional(r)
    BY <1>12 DEF UpsertProvisional, ProvisionalFailed
  <1>13. CASE InstallSession(r)
    BY <1>13 DEF InstallSession
  <1>14. CASE ReadBackRebind(r)
    BY <1>14 DEF ReadBackRebind
  <1>15. CASE UpsertEmbodied(r)
    BY <1>15 DEF UpsertEmbodied
  <1>16. CASE UpsertSuccessor(r)
    BY <1>16 DEF UpsertSuccessor
  <1>17. CASE UpsertFinal(r)
    BY <1>17 DEF UpsertFinal
  <1>18. CASE DisposeMember(r)
    BY <1>18 DEF DisposeMember
  <1>19. CASE EraseRecord(r)
    BY <1>19 DEF EraseRecord
  <1>20. CASE ReleaseAfterDisposal(r)
    BY <1>20 DEF ReleaseAfterDisposal
  <1>21. CASE UndoEmbodiment(r)
    BY <1>21 DEF UndoEmbodiment
  <1>22. CASE ReleaseOrPark(r)
    BY <1>22 DEF ReleaseOrPark
  <1>23. CASE RollbackReset(r)
    BY <1>23 DEF RollbackReset
  <1>24. CASE AdoptAuthoritative(r)
    BY <1>24 DEF AdoptAuthoritative
  <1>25. CASE RestoreWithGrant(r)
    BY <1>25 DEF RestoreWithGrant, RestoreAs
  <1>26. CASE RestoreRelease(r)
    BY <1>26 DEF RestoreRelease
  <1>27. CASE UpsertBeforeBreak(r)
    BY <1>27 DEF UpsertBeforeBreak
  <1>28. CASE BreakEntry(r)
    BY <1>28 DEF BreakEntry
  <1>29. CASE BreakRelease(r)
    BY <1>29 DEF BreakRelease
  <1>30. CASE DrainOrphans(r)
    BY <1>30 DEF DrainOrphans
  <1>31. CASE LookupRecord(r)
    BY <1>31 DEF LookupRecord
  <1>32. CASE PrepareBroken(r)
    BY <1>32 DEF PrepareBroken, NothingToPrepare, Conflicting, Retained,
      Project
  <1>33. CASE PrepareRelease(r)
    BY <1>33 DEF PrepareRelease, Project
  <1>34. CASE RenewGranted(r)
    BY <1>34 DEF RenewGranted, Due, HoldsLease, StageGrant, Grant
  <1>35. CASE PublishGrant(r)
    BY <1>35 DEF PublishGrant
  <1>36. CASE Restart(r)
    BY <1>36 DEF Restart, Abandoned, Floor
  <1>37. CASE \/ RenewLost(r) \/ RenewBroken(r) \/ Shutdown(r)
    BY <1>37 DEF RenewLost, RenewBroken, Shutdown
  <1> HIDE DEF Typing, OperationTyped, Coherent, OperationsAt, LifecycleOps,
      At
  <1> QED
    BY <1>1, <1>2, <1>3, <1>4, <1>5, <1>6, <1>7, <1>8, <1>9, <1>10, <1>11,
      <1>12, <1>13, <1>14, <1>15, <1>16, <1>17, <1>18, <1>19, <1>20, <1>21,
      <1>22, <1>23, <1>24, <1>25, <1>26, <1>27, <1>28, <1>29, <1>30, <1>31,
      <1>32, <1>33, <1>34, <1>35, <1>36, <1>37 DEF Step

\* An operation has the locals it needs.
LEMMA LocalsAtStep ==
  ASSUME Typing, NEW r \in Runtimes, Coherent(r), Step(r)
  PROVE  LocalsAt(r)'
  <1> HIDE DEF SetEntry, RemoveEntry, Activate
  <1> USE DEF Typing, OperationTyped, SnapshotTyped, EntryTyped, Coherent,
      LocalsAt, Ungranted, At
  <1>1. ASSUME NEW name \in LifecycleOps, MarkLifecycleInProgress(r, name)
        PROVE  LocalsAt(r)'
    BY <1>1 DEF MarkLifecycleInProgress
  <1>2. CASE BeginEmbody(r)
    BY <1>2 DEF BeginEmbody
  <1>3. CASE BeginRegister(r)
    BY <1>3 DEF BeginRegister
  <1>4. CASE BeginRemove(r)
    BY <1>4 DEF BeginRemove
  <1>5. CASE AcquireRefused(r)
    BY <1>5 DEF AcquireRefused
  <1>6. CASE AcquireGranted(r)
    <2>1. nextToken \in Nat /\ nextToken # None
      BY NoneApart DEF SharedTyped
    <2> QED
      BY <1>6, <2>1 DEF AcquireGranted, Grant
  <1>7. CASE AdvanceFence(r)
    <2>1. pc[r] \notin Ungranted
      BY <1>7 DEF AdvanceFence
    <2>2. oldContinuity[r] # None => Rebound(r) # None
      BY <2>1, AttemptTypes, NoneApart
    <2>3. op[r] \in LifecycleOps \cup {"embody"}
      BY <1>7 DEF AdvanceFence, OperationsAt
    <2> QED
      BY <1>7, <2>2, <2>3
      DEF AdvanceFence, AfterFence, WithoutFence, FenceFailed, LifecycleOps
  <1>8. CASE ResolveForRespawn(r)
    BY <1>8 DEF ResolveForRespawn
  <1>9. CASE ResolveForReset(r)
    <2>1. pc[r] \notin Ungranted
      BY <1>9 DEF ResolveForReset
    <2> None \notin Bindings
      BY NoneApart
    <2>2. NextGeneration <= MaxGeneration =>
            [session |-> 2 * grant[r], gen |-> NextGeneration] \in Bindings
      BY <2>1, AttemptTypes
    <2> QED
      BY <1>9, <2>2 DEF ResolveForReset
  <1>10. CASE ResumeSession(r)
    <2>1. pc[r] \notin Ungranted
      BY <1>10 DEF ResumeSession
    <2> None \notin Bindings
      BY NoneApart
    <2>2. \A s \in {oldContinuity[r].session, 2 * grant[r] + 1} :
            oldContinuity[r] # None =>
              [session |-> s, gen |-> oldContinuity[r].gen] \in Bindings
      BY <2>1, AttemptTypes
    <2>3. CASE \E s \in {oldContinuity[r].session, 2 * grant[r] + 1} :
                 Attempt(r, "actual", [session |-> s, gen |-> oldContinuity[r].gen])
      BY <1>10, <2>2, <2>3 DEF ResumeSession
    <2>4. CASE Goto(r, "park")
      BY <1>10, <2>4 DEF ResumeSession
    <2>5. CASE Done(r)
      BY <2>5
    <2> QED
      BY <1>10, <2>3, <2>4, <2>5 DEF ResumeSession
  <1>11. CASE PrepareCreate(r)
    <2>1. pc[r] \notin Ungranted
      BY <1>11 DEF PrepareCreate
    <2> None \notin Bindings
      BY NoneApart
    <2>2. [session |-> 2 * grant[r], gen |-> 0] \in Bindings
      BY <2>1, AttemptTypes
    <2> QED
      BY <1>11, <2>2 DEF PrepareCreate
  <1>12. CASE UpsertProvisional(r)
    <2>1. op[r] \in {"embody", "reset", "rebind"}
      BY <1>12 DEF UpsertProvisional, OperationsAt
    <2> QED
      BY <1>12, <2>1 DEF UpsertProvisional, ProvisionalFailed
  <1>13. CASE InstallSession(r)
    <2>1. pc[r] \notin Ungranted
      BY <1>13 DEF InstallSession
    <2> None \notin Bindings
      BY NoneApart
    <2>2. \A s \in {2 * grant[r], 2 * grant[r] + 1} :
            attempt[r] # None => [session |-> s, gen |-> attempt[r].gen] \in Bindings
      BY <2>1, AttemptTypes
    <2> QED
      BY <1>13, <2>2 DEF InstallSession
  <1>14. CASE ReadBackRebind(r)
    BY <1>14 DEF ReadBackRebind
  <1>15. CASE UpsertEmbodied(r)
    BY <1>15 DEF UpsertEmbodied
  <1>16. CASE UpsertSuccessor(r)
    BY <1>16 DEF UpsertSuccessor
  <1>17. CASE UpsertFinal(r)
    BY <1>17 DEF UpsertFinal
  <1>18. CASE DisposeMember(r)
    BY <1>18 DEF DisposeMember
  <1>19. CASE EraseRecord(r)
    BY <1>19 DEF EraseRecord
  <1>20. CASE ReleaseAfterDisposal(r)
    BY <1>20 DEF ReleaseAfterDisposal
  <1>21. CASE UndoEmbodiment(r)
    BY <1>21 DEF UndoEmbodiment
  <1>22. CASE ReleaseOrPark(r)
    BY <1>22 DEF ReleaseOrPark
  <1>23. CASE RollbackReset(r)
    BY <1>23 DEF RollbackReset
  <1>24. CASE AdoptAuthoritative(r)
    BY <1>24 DEF AdoptAuthoritative
  <1>25. CASE RestoreWithGrant(r)
    BY <1>25 DEF RestoreWithGrant, RestoreAs
  <1>26. CASE RestoreRelease(r)
    BY <1>26 DEF RestoreRelease
  <1>27. CASE UpsertBeforeBreak(r)
    BY <1>27 DEF UpsertBeforeBreak
  <1>28. CASE BreakEntry(r)
    BY <1>28 DEF BreakEntry
  <1>29. CASE BreakRelease(r)
    BY <1>29 DEF BreakRelease
  <1>30. CASE DrainOrphans(r)
    BY <1>30 DEF DrainOrphans
  <1>31. CASE LookupRecord(r)
    BY <1>31 DEF LookupRecord
  <1>32. CASE PrepareBroken(r)
    BY <1>32 DEF PrepareBroken, NothingToPrepare, Conflicting, Retained,
      Project
  <1>33. CASE PrepareRelease(r)
    BY <1>33 DEF PrepareRelease, Project
  <1>34. CASE RenewGranted(r)
    <2>1. \E t \in {lease[r], nextToken} : StageGrant(r, t) /\ t # None
      BY <1>34, NoneApart DEF RenewGranted, Due, SharedTyped
    <2>2. \E t \in {lease[r], nextToken}, p \in {"publish", "park"} :
            t # None /\ Operate(r, "renew", p, t)
      BY <2>1 DEF StageGrant
    <2> QED
      BY <2>2
  <1>35. CASE PublishGrant(r)
    BY <1>35 DEF PublishGrant
  <1>36. CASE Restart(r)
    BY <1>36 DEF Restart, Abandoned, Floor
  <1>37. CASE \/ RenewLost(r) \/ RenewBroken(r) \/ Shutdown(r)
    BY <1>37 DEF RenewLost, RenewBroken, Shutdown
  <1> HIDE DEF Typing, OperationTyped, SnapshotTyped, EntryTyped, Coherent,
      LocalsAt, Ungranted, At
  <1> QED
    BY <1>1, <1>2, <1>3, <1>4, <1>5, <1>6, <1>7, <1>8, <1>9, <1>10, <1>11,
      <1>12, <1>13, <1>14, <1>15, <1>16, <1>17, <1>18, <1>19, <1>20, <1>21,
      <1>22, <1>23, <1>24, <1>25, <1>26, <1>27, <1>28, <1>29, <1>30, <1>31,
      <1>32, <1>33, <1>34, <1>35, <1>36, <1>37 DEF Step

\* Entries and snapshots stay lawful.
LEMMA EntryLawfulStep ==
  ASSUME Typing, NEW r \in Runtimes, Coherent(r), EntryLawful(r), Step(r)
  PROVE  EntryLawful(r)'
  <1> USE DEF Typing, OperationTyped, SnapshotTyped, EntryTyped, Coherent,
      OperationsAt, LocalsAt, EntryLawful, Lawful, Ungranted, At, LifecycleOps
  <1>1. ASSUME NEW name \in LifecycleOps, MarkLifecycleInProgress(r, name)
        PROVE  EntryLawful(r)'
    BY <1>1 DEF MarkLifecycleInProgress
  <1>2. CASE BeginEmbody(r)
    BY <1>2 DEF BeginEmbody
  <1>3. CASE BeginRegister(r)
    BY <1>3 DEF BeginRegister
  <1>4. CASE BeginRemove(r)
    BY <1>4 DEF BeginRemove
  <1>5. CASE AcquireRefused(r)
    BY <1>5 DEF AcquireRefused
  <1>6. CASE AcquireGranted(r)
    BY <1>6 DEF AcquireGranted, Acquirable, Grant
  <1>7. CASE AdvanceFence(r)
    BY <1>7 DEF AdvanceFence, AfterFence, WithoutFence, FenceFailed, Rebound
  <1>8. CASE ResolveForRespawn(r)
    <2>1. CASE Goto(r, "restore") /\ UNCHANGED entry
      BY <1>8, <2>1 DEF ResolveForRespawn
    <2>2. CASE record # None /\ Activate(r, Binding(record)) /\ Done(r)
      <3>1. Binding(record) # None /\ grant[r] # None
        BY <1>8, <2>2, NoneApart
        DEF ResolveForRespawn, Binding, SharedTyped, Rows, Bindings
      <3> QED
        BY <1>8, <2>2, <3>1
        DEF ResolveForRespawn
    <2> QED
      BY <1>8, <2>1, <2>2 DEF ResolveForRespawn
  <1>9. CASE ResolveForReset(r)
    BY <1>9 DEF ResolveForReset, NextGeneration
  <1>10. CASE ResumeSession(r)
    BY <1>10 DEF ResumeSession
  <1>11. CASE PrepareCreate(r)
    BY <1>11 DEF PrepareCreate
  <1>12. CASE UpsertProvisional(r)
    BY <1>12 DEF UpsertProvisional, ProvisionalFailed
  <1>13. CASE InstallSession(r)
    BY <1>13 DEF InstallSession
  <1>14. CASE ReadBackRebind(r)
    BY <1>14 DEF ReadBackRebind
  <1>15. CASE UpsertEmbodied(r)
    BY <1>15 DEF UpsertEmbodied
  <1>16. CASE UpsertSuccessor(r)
    BY <1>16 DEF UpsertSuccessor
  <1>17. CASE UpsertFinal(r)
    BY <1>17 DEF UpsertFinal
  <1>18. CASE DisposeMember(r)
    BY <1>18 DEF DisposeMember
  <1>19. CASE EraseRecord(r)
    BY <1>19 DEF EraseRecord
  <1>20. CASE ReleaseAfterDisposal(r)
    BY <1>20 DEF ReleaseAfterDisposal
  <1>21. CASE UndoEmbodiment(r)
    BY <1>21 DEF UndoEmbodiment
  <1>22. CASE ReleaseOrPark(r)
    BY <1>22 DEF ReleaseOrPark
  <1>23. CASE RollbackReset(r)
    BY <1>23 DEF RollbackReset
  <1>24. CASE AdoptAuthoritative(r)
    BY <1>24 DEF AdoptAuthoritative
  <1>25. CASE RestoreWithGrant(r)
    BY <1>25 DEF RestoreWithGrant, RestoreAs
  <1>26. CASE RestoreRelease(r)
    BY <1>26 DEF RestoreRelease
  <1>27. CASE UpsertBeforeBreak(r)
    BY <1>27 DEF UpsertBeforeBreak
  <1>28. CASE BreakEntry(r)
    BY <1>28 DEF BreakEntry
  <1>29. CASE BreakRelease(r)
    BY <1>29 DEF BreakRelease
  <1>30. CASE DrainOrphans(r)
    BY <1>30 DEF DrainOrphans
  <1>31. CASE LookupRecord(r)
    BY <1>31 DEF LookupRecord
  <1>32. CASE PrepareBroken(r)
    BY <1>32 DEF PrepareBroken, NothingToPrepare, Conflicting, Retained,
      Project
  <1>33. CASE PrepareRelease(r)
    BY <1>33 DEF PrepareRelease, Project
  <1>34. CASE RenewLost(r)
    BY <1>34 DEF RenewLost, Due
  <1>35. CASE RenewBroken(r)
    BY <1>35 DEF RenewBroken, Due
  <1>36. CASE RenewGranted(r)
    BY <1>36 DEF RenewGranted, Due, HoldsLease, StageGrant, Grant
  <1>37. CASE PublishGrant(r)
    BY <1>37 DEF PublishGrant
  <1>38. CASE Shutdown(r)
    BY <1>38 DEF Shutdown, ShutdownGrants, Retained
  <1>39. CASE Restart(r)
    BY <1>39 DEF Restart, Abandoned, Floor
  <1> HIDE DEF Typing, OperationTyped, SnapshotTyped, EntryTyped, Coherent,
      OperationsAt, LocalsAt, EntryLawful, Lawful, Ungranted, At, LifecycleOps
  <1> QED
    BY <1>1, <1>2, <1>3, <1>4, <1>5, <1>6, <1>7, <1>8, <1>9, <1>10, <1>11,
      <1>12, <1>13, <1>14, <1>15, <1>16, <1>17, <1>18, <1>19, <1>20, <1>21,
      <1>22, <1>23, <1>24, <1>25, <1>26, <1>27, <1>28, <1>29, <1>30, <1>31,
      <1>32, <1>33, <1>34, <1>35, <1>36, <1>37, <1>38, <1>39 DEF Step

\* The tokens of r after the step are in O, or just granted.
TokensFrom(r, O) ==
  /\ grant'[r] \in O \/ (Grant(r) /\ grant'[r] = nextToken)
  /\ lease'[r] \in O
  /\ pending'[r] \in O \/ (Grant(r) /\ pending'[r] = nextToken)
  /\ oldLease'[r] \in O /\ oldPending'[r] \in O


\* A process acts under tokens it had, or the one it is granted.
LEMMA TokensMove ==
  ASSUME Typing, NEW r \in Runtimes, Step(r), NEW O,
         grant[r] \in O, lease[r] \in O, pending[r] \in O, oldLease[r] \in O,
         oldPending[r] \in O, None \in O
  PROVE  TokensFrom(r, O)
  <1> USE DEF Typing, OperationTyped, SnapshotTyped, EntryTyped, TokensFrom
  <1>1. ASSUME NEW name \in LifecycleOps, MarkLifecycleInProgress(r, name)
        PROVE  TokensFrom(r, O)
    BY <1>1 DEF MarkLifecycleInProgress
  <1>2. CASE BeginEmbody(r)
    BY <1>2 DEF BeginEmbody
  <1>3. CASE BeginRegister(r)
    BY <1>3 DEF BeginRegister
  <1>4. CASE BeginRemove(r)
    BY <1>4 DEF BeginRemove
  <1>5. CASE AcquireRefused(r)
    BY <1>5 DEF AcquireRefused
  <1>6. CASE AcquireGranted(r)
    BY <1>6 DEF AcquireGranted
  <1>7. CASE ResolveForRespawn(r)
    BY <1>7 DEF ResolveForRespawn
  <1>8. CASE ResumeSession(r)
    BY <1>8 DEF ResumeSession
  <1>9. CASE UpsertEmbodied(r)
    BY <1>9 DEF UpsertEmbodied
  <1>10. CASE UpsertFinal(r)
    BY <1>10 DEF UpsertFinal
  <1>11. CASE ReleaseAfterDisposal(r)
    BY <1>11 DEF ReleaseAfterDisposal
  <1>12. CASE ReleaseOrPark(r)
    BY <1>12 DEF ReleaseOrPark
  <1>13. CASE RestoreWithGrant(r)
    BY <1>13 DEF RestoreWithGrant, RestoreAs
  <1>14. CASE RestoreRelease(r)
    BY <1>14 DEF RestoreRelease
  <1>15. CASE BreakEntry(r)
    BY <1>15 DEF BreakEntry
  <1>16. CASE BreakRelease(r)
    BY <1>16 DEF BreakRelease
  <1>17. CASE DrainOrphans(r)
    BY <1>17 DEF DrainOrphans
  <1>18. CASE LookupRecord(r)
    BY <1>18 DEF LookupRecord
  <1>19. CASE PrepareBroken(r)
    BY <1>19 DEF PrepareBroken, NothingToPrepare, Conflicting, Retained,
      Project
  <1>20. CASE PrepareRelease(r)
    BY <1>20 DEF PrepareRelease, Project
  <1>21. CASE RenewLost(r)
    BY <1>21 DEF RenewLost, Due
  <1>22. CASE RenewBroken(r)
    BY <1>22 DEF RenewBroken, Due
  <1>23. CASE RenewGranted(r)
    BY <1>23 DEF RenewGranted, Due, StageGrant
  <1>24. CASE PublishGrant(r)
    BY <1>24 DEF PublishGrant
  <1>25. CASE Shutdown(r)
    BY <1>25 DEF Shutdown, ShutdownGrants, Retained
  <1>26. CASE Restart(r)
    BY <1>26 DEF Restart, Abandoned, Floor
  <1>27. CASE \/ AdvanceFence(r) \/ ResolveForReset(r) \/ PrepareCreate(r)
              \/ UpsertProvisional(r) \/ InstallSession(r)
              \/ ReadBackRebind(r) \/ UpsertSuccessor(r) \/ DisposeMember(r)
              \/ EraseRecord(r) \/ UndoEmbodiment(r) \/ RollbackReset(r)
              \/ AdoptAuthoritative(r) \/ UpsertBeforeBreak(r)
    BY <1>27 DEF AdvanceFence, ResolveForReset, PrepareCreate,
      UpsertProvisional, InstallSession, ReadBackRebind, UpsertSuccessor,
      DisposeMember, EraseRecord, UndoEmbodiment, RollbackReset,
      AdoptAuthoritative, UpsertBeforeBreak
  <1> HIDE DEF Typing, OperationTyped, SnapshotTyped, EntryTyped, TokensFrom
  <1> QED
    BY <1>1, <1>2, <1>3, <1>4, <1>5, <1>6, <1>7, <1>8, <1>9, <1>10, <1>11,
      <1>12, <1>13, <1>14, <1>15, <1>16, <1>17, <1>18, <1>19, <1>20, <1>21,
      <1>22, <1>23, <1>24, <1>25, <1>26, <1>27 DEF Step

\* The tokens a process acts under are the ones it had, or one just granted.
LEMMA OwnedStep ==
  ASSUME Typing, NEW r \in Runtimes, Step(r)
  PROVE  \A t \in Owned(r)' : t \in Owned(r) \/ (Grant(r) /\ t = nextToken)
  <1> DEFINE O == Owned(r) \cup {None}
  <1>1. /\ grant[r] \in O /\ lease[r] \in O /\ pending[r] \in O
        /\ oldLease[r] \in O /\ oldPending[r] \in O /\ None \in O
    BY DEF Owned
  <1> HIDE DEF O
  <1>2. /\ grant'[r] \in O \/ (Grant(r) /\ grant'[r] = nextToken)
        /\ lease'[r] \in O
        /\ pending'[r] \in O \/ (Grant(r) /\ pending'[r] = nextToken)
        /\ oldLease'[r] \in O /\ oldPending'[r] \in O
    BY <1>1, TokensMove DEF TokensFrom
  <1> QED
    BY <1>2 DEF O, Owned


-----------------------------------------------------------------------------
(* The invariant of every configuration. *)


\* Only the grant at hand joins the orphan ledger.
LEMMA OrphansStep ==
  ASSUME Typing, NEW r \in Runtimes, Coherent(r), Step(r)
  PROVE  orphans'[r] \subseteq orphans[r] \cup ({grant[r]} \ {None})
  <1> HIDE DEF Jump, Goto, Operate, Snapshot, SnapshotEntry, Begin, Done,
      SetEntry, RemoveEntry, Activate, Attempt, BreakWith
  <1> USE DEF Typing, SharedTyped
  <1>1. CASE ReleaseOrPark(r)
    <2>1. grant[r] # None
      BY <1>1 DEF ReleaseOrPark, At, Coherent, LocalsAt, Ungranted
    <2> QED
      BY <1>1, <2>1 DEF ReleaseOrPark
  <1>2. CASE DrainOrphans(r)
    BY <1>2 DEF DrainOrphans
  <1>3. CASE Shutdown(r)
    BY <1>3 DEF Shutdown, ShutdownGrants, Retained
  <1>4. CASE Restart(r)
    BY <1>4 DEF Restart, Abandoned, Floor
  <1>5. CASE \/ \E name \in LifecycleOps : MarkLifecycleInProgress(r, name)
             \/ BeginEmbody(r) \/ BeginRegister(r) \/ BeginRemove(r)
             \/ AcquireRefused(r) \/ AcquireGranted(r) \/ AdvanceFence(r)
             \/ ResolveForRespawn(r) \/ ResolveForReset(r)
             \/ ResumeSession(r) \/ PrepareCreate(r) \/ UpsertProvisional(r)
             \/ InstallSession(r) \/ ReadBackRebind(r) \/ UpsertEmbodied(r)
             \/ UpsertSuccessor(r) \/ UpsertFinal(r) \/ DisposeMember(r)
             \/ EraseRecord(r) \/ ReleaseAfterDisposal(r)
             \/ UndoEmbodiment(r) \/ RollbackReset(r)
             \/ AdoptAuthoritative(r) \/ RestoreWithGrant(r)
             \/ RestoreRelease(r) \/ UpsertBeforeBreak(r) \/ BreakEntry(r)
             \/ BreakRelease(r) \/ LookupRecord(r) \/ PrepareBroken(r)
             \/ PrepareRelease(r) \/ RenewLost(r) \/ RenewBroken(r)
             \/ RenewGranted(r) \/ PublishGrant(r)
    BY <1>5 DEF MarkLifecycleInProgress, BeginEmbody, BeginRegister,
      BeginRemove, AcquireRefused, AcquireGranted, AdvanceFence,
      ResolveForRespawn, ResolveForReset, ResumeSession, PrepareCreate,
      UpsertProvisional, InstallSession, ReadBackRebind, UpsertEmbodied,
      UpsertSuccessor, UpsertFinal, DisposeMember, EraseRecord,
      ReleaseAfterDisposal, UndoEmbodiment, RollbackReset, AdoptAuthoritative,
      RestoreWithGrant, RestoreRelease, UpsertBeforeBreak, BreakEntry,
      BreakRelease, LookupRecord, PrepareBroken, PrepareRelease, RenewLost,
      RenewBroken, RenewGranted, PublishGrant, Grant
  <1> HIDE DEF Typing, SharedTyped
  <1> QED
    BY <1>1, <1>2, <1>3, <1>4, <1>5 DEF Step

\* A delete leaves the token it ran under.
LEMMA TombStep ==
  ASSUME Typing, NEW r \in Runtimes, Coherent(r), Step(r)
  PROVE  \/ tomb' \in {tomb, 0}
         \/ tomb' = grant[r] /\ grant[r] \in Tokens /\ record' = None
  <1> HIDE DEF Jump, Goto, Operate, Snapshot, SnapshotEntry, Begin, Done,
      SetEntry, RemoveEntry, Activate, Attempt, BreakWith
  <1> USE DEF Typing, SharedTyped
  <1>1. CASE EraseRecord(r)
    <2>1. grant[r] \in Tokens
      BY <1>1, GrantType DEF EraseRecord, At, Ungranted
    <2> QED
      BY <1>1, <2>1 DEF EraseRecord, Delete, Write
  <1>2. CASE Restart(r)
    BY <1>2 DEF Restart, Abandoned, Floor
  <1>3. CASE \/ \E name \in LifecycleOps : MarkLifecycleInProgress(r, name)
             \/ BeginEmbody(r) \/ BeginRegister(r) \/ BeginRemove(r)
             \/ AcquireRefused(r) \/ AcquireGranted(r) \/ AdvanceFence(r)
             \/ ResolveForRespawn(r) \/ ResolveForReset(r)
             \/ ResumeSession(r) \/ PrepareCreate(r) \/ UpsertProvisional(r)
             \/ InstallSession(r) \/ ReadBackRebind(r) \/ UpsertEmbodied(r)
             \/ UpsertSuccessor(r) \/ UpsertFinal(r) \/ DisposeMember(r)
             \/ ReleaseAfterDisposal(r) \/ UndoEmbodiment(r)
             \/ ReleaseOrPark(r) \/ RollbackReset(r)
             \/ AdoptAuthoritative(r) \/ RestoreWithGrant(r)
             \/ RestoreRelease(r) \/ UpsertBeforeBreak(r) \/ BreakEntry(r)
             \/ BreakRelease(r) \/ DrainOrphans(r) \/ LookupRecord(r)
             \/ PrepareBroken(r) \/ PrepareRelease(r) \/ RenewLost(r)
             \/ RenewBroken(r) \/ RenewGranted(r) \/ PublishGrant(r)
             \/ Shutdown(r)
    BY <1>3 DEF MarkLifecycleInProgress, BeginEmbody, BeginRegister,
      BeginRemove, AcquireRefused, AcquireGranted, AdvanceFence,
      ResolveForRespawn, ResolveForReset, ResumeSession, PrepareCreate,
      UpsertProvisional, InstallSession, ReadBackRebind, UpsertEmbodied,
      UpsertSuccessor, UpsertFinal, DisposeMember, ReleaseAfterDisposal,
      UndoEmbodiment, ReleaseOrPark, RollbackReset, AdoptAuthoritative,
      RestoreWithGrant, RestoreRelease, UpsertBeforeBreak, BreakEntry,
      BreakRelease, DrainOrphans, LookupRecord, PrepareBroken, PrepareRelease,
      RenewLost, RenewBroken, RenewGranted, PublishGrant, Shutdown, Grant
  <1> HIDE DEF Typing, SharedTyped
  <1> QED
    BY <1>1, <1>2, <1>3 DEF Step

\* The other processes stay as they are.
LEMMA OthersStay ==
  ASSUME Typing, NEW r \in Runtimes, Step(r), NEW s \in Runtimes \ {r}
  PROVE  /\ Coherent(s) => Coherent(s)'
         /\ EntryLawful(s) => EntryLawful(s)'
         /\ Owned(s)' = Owned(s) /\ orphans'[s] = orphans[s]
  <1>1. UNCHANGED <<EntryOf(s), OperationOf(s), SnapshotOf(s), orphans[s]>>
    BY OtherEntries, OtherOperations, OtherSnapshots, OtherLedgers
  <1>2. Coherent(s) => Coherent(s)'
    BY <1>1 DEF Coherent, OperationsAt, LocalsAt, OperationOf, SnapshotOf
  <1>3. EntryLawful(s) => EntryLawful(s)'
    BY <1>1 DEF EntryLawful, Lawful, EntryOf, OperationOf, SnapshotOf
  <1> QED
    BY <1>1, <1>2, <1>3 DEF Owned, EntryOf, OperationOf, SnapshotOf

\* The lease in force stays the last one granted, and the row and the delete
\* carry granted tokens.
LEMMA SharedGrantedStep ==
  ASSUME Typing, TokensGranted, NEW r \in Runtimes, Step(r), Coherent(r),
         \A s \in Runtimes : Coherent(s)
  PROVE  SharedGranted'
  <1>1. /\ nextToken \in Nat /\ tomb \in Nat
        /\ held # None => held.token \in Nat
        /\ record # None => record.token \in Nat
    BY ConstantsAssumption DEF Typing, SharedTyped, Leases, Rows, Tokens
  <1>2. /\ held # None => held.token = nextToken - 1
        /\ record # None => record.token < nextToken
        /\ tomb < nextToken /\ nextToken > 0
    BY DEF TokensGranted, SharedGranted, Typing, SharedTyped
  <1>3. grant[r] \in Tokens => grant[r] < nextToken
    BY NoneApart DEF TokensGranted, OwnedGranted, Owned, Tokens
  <1>4. CASE Restart(r)
    <2>1. UNCHANGED record
      BY <1>4 DEF Restart
    <2>2. CASE LocalProvider
      BY <1>1, <1>4, <2>1, <2>2 DEF Restart, SharedGranted, Floor
    <2>3. CASE ~LocalProvider
      <3>1. held' # None => held # None /\ held'.token = held.token
        BY <1>4, <2>3 DEF Restart, Abandoned
      <3> QED
        BY <1>1, <1>2, <1>4, <2>1, <2>3, <3>1 DEF Restart, SharedGranted
    <2> QED
      BY <2>2, <2>3
  <1>5. CASE ~Restart(r)
    <2>1. /\ nextToken' \in Nat /\ nextToken <= nextToken'
          /\ held' # None => held'.token = nextToken' - 1
      <3>1. CASE UNCHANGED provider
        BY <1>1, <1>2, <3>1
      <3>2. CASE held' = None /\ UNCHANGED nextToken
        BY <1>1, <3>2
      <3>3. CASE Grant(r)
        BY <1>1, <3>3 DEF Grant
      <3> QED
        BY <1>5, <3>1, <3>2, <3>3, HeldStep
    <2>2. record' # None => record'.token < nextToken
      <3>1. ASSUME pc[r] \in Writing, NEW b \in Bindings,
                   record' = Row(b, grant[r])
            PROVE  record'.token < nextToken
        BY <3>1, <1>3, GrantType DEF Row, Writing, Ungranted
      <3> QED
        BY <1>2, <3>1, RecordStep
    <2>3. tomb' < nextToken
      BY <1>1, <1>2, <1>3, TombStep
    <2>4. /\ tomb' \in Nat
          /\ record' # None => record'.token \in Nat
      BY TypeStep, ConstantsAssumption DEF Typing, SharedTyped, Rows
    <2> QED
      BY <1>1, <2>1, <2>2, <2>3, <2>4 DEF SharedGranted
  <1> QED
    BY <1>4, <1>5

\* What a process holds was granted.
LEMMA OwnedGrantedStep ==
  ASSUME Typing, TokensGranted, NEW r \in Runtimes, Step(r), Coherent(r),
         \A s \in Runtimes : Coherent(s), NEW s \in Runtimes
  PROVE  OwnedGranted(s)'
  <1>1. /\ nextToken \in Nat
        /\ \A t \in Owned(s) \cup orphans[s] : t \in Nat /\ t < nextToken
    BY ConstantsAssumption
    DEF Typing, EntryTyped, SnapshotTyped, OperationTyped, SharedTyped, Tokens,
        TokensGranted, OwnedGranted, Owned
  <1>2. CASE Restart(r)
    <2>1. CASE r = s
      <3>1. Owned(s)' = {} /\ orphans'[s] = {}
        BY <1>2, <2>1
        DEF Restart, Owned, Typing, EntryTyped, SnapshotTyped, OperationTyped,
            SharedTyped
      <3> QED
        BY <3>1 DEF OwnedGranted
    <2>2. CASE r # s
      <3>1. nextToken' = nextToken
        BY <1>2, <2>2, ConstantsAssumption DEF Restart
      <3> QED
        BY <1>1, <2>2, <3>1, OthersStay DEF OwnedGranted
    <2> QED
      BY <2>1, <2>2
  <1>3. CASE ~Restart(r)
    <2>1. \/ nextToken' = nextToken
          \/ nextToken' = nextToken + 1
      BY <1>3, HeldStep DEF Grant
    <2>2. Grant(r) => nextToken' = nextToken + 1
      BY DEF Grant
    <2>3. ASSUME NEW t \in Owned(s)' \cup orphans'[s]
          PROVE  t \in Owned(s) \cup orphans[s] \/ (Grant(r) /\ t = nextToken)
      <3>1. CASE r # s
        BY <2>3, <3>1, OthersStay
      <3>2. CASE r = s
        BY <2>3, <3>2, OwnedStep, OrphansStep DEF Owned
      <3> QED
        BY <3>1, <3>2
    <2>4. ASSUME NEW t \in Owned(s)' \cup orphans'[s]
          PROVE  t < nextToken'
      BY <1>1, <2>1, <2>2, <2>3, <2>4
    <2> QED
      BY <2>4 DEF OwnedGranted
  <1> QED
    BY <1>2, <1>3

\* No two processes come to act under one token.
LEMMA TokensGrantedStep ==
  ASSUME Typing, TokensGranted, NEW r \in Runtimes, Step(r),
         \A s \in Runtimes : Coherent(s)
  PROVE  TokensGranted'
  <1>1. SharedGranted' /\ \A s \in Runtimes : OwnedGranted(s)'
    BY SharedGrantedStep, OwnedGrantedStep
  <1>2. nextToken \in Nat /\ \A s \in Runtimes : \A t \in Owned(s) : t < nextToken
    BY DEF Typing, SharedTyped, TokensGranted, OwnedGranted
  <1>3. ASSUME NEW s \in Runtimes \ {r}
        PROVE  Owned(r)' \cap Owned(s)' = {}
    <2>1. Owned(s)' = Owned(s)
      BY OthersStay
    <2>2. Owned(r) \cap Owned(s) = {}
      BY DEF TokensGranted
    <2>3. nextToken \notin Owned(s)
      BY <1>2
    <2> QED
      BY <2>1, <2>2, <2>3, OwnedStep
  <1>4. ASSUME NEW s \in Runtimes \ {r}, NEW u \in Runtimes \ {r}, s # u
        PROVE  Owned(u)' \cap Owned(s)' = {}
    BY <1>4, OthersStay DEF TokensGranted
  <1>5. \A s, u \in Runtimes : s # u => Owned(s)' \cap Owned(u)' = {}
    BY <1>3, <1>4
  <1> QED
    BY <1>1, <1>5 DEF TokensGranted

\* A step of a process keeps the invariant.
LEMMA InvStep ==
  ASSUME Inv, NEW r \in Runtimes, Step(r)
  PROVE  Inv'
  <1>1. Typing /\ TokensGranted /\ \A s \in Runtimes : Coherent(s) /\ EntryLawful(s)
    BY DEF Inv
  <1>2. Coherent(r)' /\ EntryLawful(r)'
    BY <1>1, OperationsAtStep, LocalsAtStep, EntryLawfulStep DEF Coherent
  <1>3. \A s \in Runtimes \ {r} : Coherent(s)' /\ EntryLawful(s)'
    BY <1>1, OthersStay
  <1> QED
    BY <1>1, <1>2, <1>3, TypeStep, TokensGrantedStep DEF Inv

\* An expiry only takes the lease away.
LEMMA ExpireKeepsInv ==
  ASSUME Inv, Expire
  PROVE  Inv'
  <1> USE DEF Inv, Expire, entry, txn, locals, snapshot, history
  <1>1. Typing'
    BY DEF Typing, EntryTyped, SnapshotTyped, OperationTyped, SharedTyped
  <1>2. \A s \in Runtimes : Coherent(s)' /\ EntryLawful(s)'
    BY DEF Coherent, OperationsAt, LocalsAt, EntryLawful, Lawful
  <1>3. TokensGranted'
    BY DEF TokensGranted, SharedGranted, OwnedGranted, Owned
  <1> QED
    BY <1>1, <1>2, <1>3

\* So does a stuttering step.
LEMMA InvStutters ==
  ASSUME Inv, UNCHANGED vars
  PROVE  Inv'
  <1> USE DEF Inv, vars, entry, txn, locals, snapshot, history, provider
  <1>1. Typing'
    BY DEF Typing, EntryTyped, SnapshotTyped, OperationTyped, SharedTyped
  <1>2. \A s \in Runtimes : Coherent(s)' /\ EntryLawful(s)'
    BY DEF Coherent, OperationsAt, LocalsAt, EntryLawful, Lawful
  <1>3. TokensGranted'
    BY DEF TokensGranted, SharedGranted, OwnedGranted, Owned
  <1> QED
    BY <1>1, <1>2, <1>3

\* The invariant holds at the start.
LEMMA InvInitially ==
  ASSUME Init
  PROVE  Inv
  <1>1. nextToken \in 1..(MaxToken + 1) /\ record \in Rows \cup {None}
    BY ConstantsAssumption DEF Init, Floor, Rows
  <1>2. Typing
    BY <1>1, ConstantsAssumption
    DEF Init, Typing, EntryTyped, SnapshotTyped, OperationTyped, SharedTyped,
        EntryStates, LifecycleOps, Points, Generations
  <1>3. \A r \in Runtimes : Coherent(r) /\ EntryLawful(r)
    BY DEF Init, Coherent, OperationsAt, LocalsAt, EntryLawful, Lawful,
       Ungranted,
           LifecycleOps
  <1>4. \A r \in Runtimes : Owned(r) = {} /\ orphans[r] = {}
    BY DEF Init, Owned
  <1>5. SharedGranted
    BY <1>1, ConstantsAssumption DEF Init, SharedGranted, Floor, Rows
  <1> QED
    BY <1>2, <1>3, <1>4, <1>5 DEF Inv, TokensGranted, OwnedGranted

\* The invariant of every configuration holds: an operation is where its kind
\* can be with the locals it needs, the entry agrees with the operation under
\* way, and every token in use was granted, to one process only.
THEOREM Invariance == Spec => []Inv
  <1>1. Inv /\ [Next]_vars => Inv'
    BY InvStep, ExpireKeepsInv, InvStutters DEF Next
  <1> QED
    BY <1>1, InvInitially, PTL DEF Spec

\* Every variable keeps its type through every error branch, in every
\* configuration: no number of processes, grants or generations and no set
\* of faults makes an operation leave a token, a session or a lifecycle state
\* that the Rust types have no value for.
THEOREM Typed == Spec => []TypeOK
  <1>1. Inv => TypeOK
    BY DEF Inv, Typing, TypeOK, AbsentIsBare, EntryLawful, Lawful, LifecycleOps
  <1> QED
    BY <1>1, Invariance, PTL

\* The current holder is never fenced out by the row, in every configuration.
THEOREM HolderPassesFence == Spec => []HolderNotFenced
  <1>1. Inv => HolderNotFenced
    BY ConstantsAssumption
    DEF Inv, Typing, SharedTyped, TokensGranted, SharedGranted, HolderNotFenced,
        Rows, Leases, Tokens
  <1> QED
    BY <1>1, Invariance, PTL


-----------------------------------------------------------------------------
(* One process: the holder is current. *)


\* An acknowledged upsert leaves the row it was given.
LEMMA UpsertServes ==
  ASSUME NEW b \in Bindings, NEW t \in Tokens, Upsert(b, t, TRUE)
  PROVE  record' # None /\ Binding(record') = b
  <1>1. record' = Row(b, t) /\ record' # None
    BY RowType, NoneApart DEF Upsert, Write
  <1>2. b = [session |-> b.session, gen |-> b.gen]
    BY DEF Bindings
  <1> QED
    BY <1>1, <1>2 DEF Binding, Row


\* A process that serves the row goes on serving it through its own steps.
LEMMA ServesRowStep ==
  ASSUME Typing, NEW r \in Runtimes, Coherent(r), EntryLawful(r),
         ServesRow(r), Step(r)
  PROVE  ServesRow(r)'
  <1> USE DEF Typing, OperationTyped, SnapshotTyped, EntryTyped, Coherent,
      OperationsAt, LocalsAt, EntryLawful, Lawful, Ungranted, At,
      LifecycleOps, ServesRow, Serves
  <1>1. ASSUME NEW name \in LifecycleOps, MarkLifecycleInProgress(r, name)
        PROVE  ServesRow(r)'
    BY <1>1 DEF MarkLifecycleInProgress
  <1>2. CASE BeginEmbody(r)
    BY <1>2 DEF BeginEmbody
  <1>3. CASE BeginRegister(r)
    BY <1>3 DEF BeginRegister
  <1>4. CASE BeginRemove(r)
    BY <1>4 DEF BeginRemove
  <1>5. CASE AcquireRefused(r)
    BY <1>5 DEF AcquireRefused
  <1>6. CASE AcquireGranted(r)
    BY <1>6 DEF AcquireGranted, Acquirable, Grant
  <1>7. CASE AdvanceFence(r)
    BY <1>7 DEF AdvanceFence, AfterFence, WithoutFence, FenceFailed, Rebound, Upsert, Write,
      Row, Binding
  <1>8. CASE ResolveForRespawn(r)
    BY <1>8 DEF ResolveForRespawn
  <1>9. CASE ResolveForReset(r)
    BY <1>9 DEF ResolveForReset, NextGeneration
  <1>10. CASE ResumeSession(r)
    BY <1>10 DEF ResumeSession
  <1>11. CASE PrepareCreate(r)
    BY <1>11 DEF PrepareCreate
  <1>12. CASE UpsertProvisional(r)
    BY <1>12 DEF UpsertProvisional, ProvisionalFailed, Upsert, Write, Row,
      Binding
  <1>13. CASE InstallSession(r)
    BY <1>13 DEF InstallSession
  <1>14. CASE ReadBackRebind(r)
    BY <1>14 DEF ReadBackRebind
  <1>15. CASE UpsertEmbodied(r)
    <2>1. grant[r] \in Tokens /\ attempt[r] \in Bindings \cup {None}
      BY <1>15, GrantType DEF UpsertEmbodied
    <2>2. attempt[r] \in Bindings
      BY <1>15, <2>1 DEF UpsertEmbodied
    <2>3. CASE Upsert(attempt[r], grant[r], TRUE) /\ Activate(r, attempt[r])
               /\ Done(r)
      <3>1. record' # None /\ Binding(record') = attempt[r]
        BY <2>1, <2>2, <2>3, UpsertServes
      <3>2. continuity'[r] = attempt[r] /\ pc'[r] = "idle"
        BY <2>3
      <3> QED
        BY <3>1, <3>2
    <2>4. CASE Goto(r, "undo") /\ UNCHANGED entry
      BY <1>15, <2>4 DEF UpsertEmbodied
    <2> QED
      BY <1>15, <2>3, <2>4 DEF UpsertEmbodied
  <1>16. CASE UpsertSuccessor(r)
    BY <1>16 DEF UpsertSuccessor, Upsert, Write, Row, Binding
  <1>17. CASE UpsertFinal(r)
    <2>1. grant[r] \in Tokens /\ attempt[r] \in Bindings \cup {None}
      BY <1>17, GrantType DEF UpsertFinal
    <2>2. attempt[r] \in Bindings
      BY <1>17, <2>1 DEF UpsertFinal
    <2>3. CASE Upsert(attempt[r], grant[r], TRUE) /\ Done(r)
               /\ \E p \in {pending[r], None} : SetEntry(r, "Active", attempt[r], grant[r], p)
      <3>1. record' # None /\ Binding(record') = attempt[r]
        BY <2>1, <2>2, <2>3, UpsertServes
      <3>2. continuity'[r] = attempt[r] /\ pc'[r] = "idle"
        BY <2>3
      <3> QED
        BY <3>1, <3>2
    <2>4. CASE UNCHANGED entry /\ pc'[r] # "acquire"
      BY <1>17, <2>4 DEF UpsertFinal
    <2> QED
      BY <1>17, <2>3, <2>4, ZenonT(60) DEF UpsertFinal
  <1>18. CASE DisposeMember(r)
    BY <1>18 DEF DisposeMember
  <1>19. CASE EraseRecord(r)
    BY <1>19 DEF EraseRecord
  <1>20. CASE ReleaseAfterDisposal(r)
    BY <1>20 DEF ReleaseAfterDisposal
  <1>21. CASE UndoEmbodiment(r)
    BY <1>21 DEF UndoEmbodiment
  <1>22. CASE ReleaseOrPark(r)
    BY <1>22 DEF ReleaseOrPark
  <1>23. CASE RollbackReset(r)
    BY <1>23 DEF RollbackReset
  <1>24. CASE AdoptAuthoritative(r)
    BY <1>24 DEF AdoptAuthoritative
  <1>25. CASE RestoreWithGrant(r)
    <2>1. grant[r] \in Tokens /\ oldContinuity[r] \in Bindings \cup {None}
      BY <1>25, GrantType DEF RestoreWithGrant
    <2>2. oldState[r] = "Active" => oldContinuity[r] # None
      BY <1>25 DEF RestoreWithGrant
    <2>3. CASE oldState[r] # "Active"
      BY <1>25, <2>3 DEF RestoreWithGrant, RestoreAs
    <2>4. CASE oldState[r] = "Active"
      <3>1. CASE Upsert(oldContinuity[r], grant[r], TRUE)
        <4>1. record' # None /\ Binding(record') = oldContinuity[r]
          BY <2>1, <2>2, <2>4, <3>1, UpsertServes
        <4>2. continuity'[r] = oldContinuity[r] /\ pc'[r] = "idle"
          BY <1>25, <2>4 DEF RestoreWithGrant, RestoreAs
        <4> QED
          BY <4>1, <4>2
      <3>2. CASE RestoreAs(r, "Broken")
        BY <2>4, <3>2 DEF RestoreAs
      <3> QED
        BY <1>25, <2>2, <2>4, <3>1, <3>2 DEF RestoreWithGrant
    <2> QED
      BY <2>3, <2>4
  <1>26. CASE RestoreRelease(r)
    BY <1>26 DEF RestoreRelease
  <1>27. CASE UpsertBeforeBreak(r)
    BY <1>27 DEF UpsertBeforeBreak
  <1>28. CASE BreakEntry(r)
    BY <1>28 DEF BreakEntry
  <1>29. CASE BreakRelease(r)
    BY <1>29 DEF BreakRelease
  <1>30. CASE DrainOrphans(r)
    BY <1>30 DEF DrainOrphans
  <1>31. CASE LookupRecord(r)
    BY <1>31 DEF LookupRecord
  <1>32. CASE PrepareBroken(r)
    BY <1>32 DEF PrepareBroken, NothingToPrepare, Conflicting, Retained,
      Project
  <1>33. CASE PrepareRelease(r)
    BY <1>33 DEF PrepareRelease, Project
  <1>34. CASE RenewLost(r)
    BY <1>34 DEF RenewLost, Due
  <1>35. CASE RenewBroken(r)
    BY <1>35 DEF RenewBroken, Due
  <1>36. CASE RenewGranted(r)
    BY <1>36 DEF RenewGranted, Due, HoldsLease, StageGrant, Grant
  <1>37. CASE PublishGrant(r)
    <2>1. grant[r] \in Tokens /\ oldContinuity[r] \in Bindings \cup {None}
      BY <1>37, GrantType DEF PublishGrant
    <2>2. pc'[r] = "idle"
      BY <1>37 DEF PublishGrant
    <2>3. CASE UNCHANGED entry
      BY <1>37, <2>2, <2>3 DEF PublishGrant
    <2>4. CASE oldContinuity[r] \in Bindings
               /\ Upsert(oldContinuity[r], grant[r], TRUE)
               /\ SetEntry(r, "Active", continuity[r], grant[r], None)
      <3>1. record' # None /\ Binding(record') = oldContinuity[r]
        BY <2>1, <2>4, UpsertServes
      <3>2. continuity'[r] = oldContinuity[r]
        BY <1>37, <2>4 DEF PublishGrant
      <3> QED
        BY <2>2, <3>1, <3>2
    <2>5. oldContinuity[r] # None
      BY <1>37 DEF PublishGrant
    <2> QED
      BY <1>37, <2>1, <2>3, <2>4, <2>5 DEF PublishGrant
  <1>38. CASE Shutdown(r)
    BY <1>38 DEF Shutdown, ShutdownGrants, Retained
  <1>39. CASE Restart(r)
    BY <1>39 DEF Restart, Abandoned, Floor
  <1> HIDE DEF Typing, OperationTyped, SnapshotTyped, EntryTyped, Coherent,
      OperationsAt, LocalsAt, EntryLawful, Lawful, Ungranted, At,
      LifecycleOps, ServesRow, Serves
  <1> QED
    BY <1>1, <1>2, <1>3, <1>4, <1>5, <1>6, <1>7, <1>8, <1>9, <1>10, <1>11,
      <1>12, <1>13, <1>14, <1>15, <1>16, <1>17, <1>18, <1>19, <1>20, <1>21,
      <1>22, <1>23, <1>24, <1>25, <1>26, <1>27, <1>28, <1>29, <1>30, <1>31,
      <1>32, <1>33, <1>34, <1>35, <1>36, <1>37, <1>38, <1>39 DEF Step

\* With one process, an Active entry is what the row says.
LEMMA ServesRowInvariance ==
  ASSUME OneRuntime
  PROVE  Spec => [](\A r \in Runtimes : ServesRow(r))
  <1> DEFINE J == \A r \in Runtimes : ServesRow(r)
  <1>1. Init => J
    BY DEF Init, ServesRow
  <1>2. Inv /\ J /\ [Next]_vars => J'
    <2> SUFFICES ASSUME Inv, J, [Next]_vars
                 PROVE  J'
      OBVIOUS
    <2>1. CASE UNCHANGED vars
      BY <2>1 DEF vars, ServesRow, Serves, Binding
    <2>2. CASE Expire
      BY <2>2 DEF Expire, ServesRow, Serves, Binding
    <2>3. ASSUME NEW r \in Runtimes, Step(r)
          PROVE  J'
      <3>1. ServesRow(r)'
        BY <2>3, ServesRowStep DEF Inv
      <3> QED
        BY <3>1 DEF OneRuntime
    <2> QED
      BY <2>1, <2>2, <2>3 DEF Next
  <1> QED
    BY <1>1, <1>2, Invariance, PTL DEF Spec

\* With one process, the holder of the lease is current: its token passes the
\* fence of the row, and if it is Active it serves the session and generation
\* of the row, whatever fails and however often it restarts.
THEOREM HolderStaysCurrent ==
  ASSUME OneRuntime
  PROVE  Spec => []HolderIsCurrent
  <1>1. (\A r \in Runtimes : ServesRow(r)) => ActiveMatchesRecord
    BY DEF ServesRow, Serves, ActiveMatchesRecord
  <1> QED
    BY <1>1, ServesRowInvariance, HolderPassesFence, PTL DEF HolderIsCurrent


-----------------------------------------------------------------------------
(* One process: a deleted identity stays deleted. *)


\* A process goes on acting under grants newer than the delete.
LEMMA NewerThanDeleteStep ==
  ASSUME Typing, NEW r \in Runtimes, TokensGranted, Coherent(r),
         EntryLawful(r), NewerThanDelete(r), Step(r)
  PROVE  NewerThanDelete(r)'
  <1>a. nextToken > tomb
    BY DEF TokensGranted, SharedGranted, Typing, SharedTyped
  <1> USE DEF Typing, OperationTyped, SnapshotTyped, EntryTyped, Coherent,
      OperationsAt, LocalsAt, EntryLawful, Ungranted, Writing, At,
      LifecycleOps, NewerThanDelete
  <1>1. ASSUME NEW name \in LifecycleOps, MarkLifecycleInProgress(r, name)
        PROVE  NewerThanDelete(r)'
    BY <1>1 DEF MarkLifecycleInProgress
  <1>2. CASE BeginEmbody(r)
    BY <1>2 DEF BeginEmbody
  <1>3. CASE BeginRegister(r)
    BY <1>3 DEF BeginRegister
  <1>4. CASE BeginRemove(r)
    BY <1>4 DEF BeginRemove
  <1>5. CASE AcquireRefused(r)
    BY <1>5 DEF AcquireRefused
  <1>6. CASE AcquireGranted(r)
    BY <1>6, <1>a DEF AcquireGranted, Acquirable, Grant
  <1>7. CASE AdvanceFence(r)
    BY <1>7 DEF AdvanceFence, AfterFence, WithoutFence, FenceFailed, Rebound
  <1>8. CASE ResolveForRespawn(r)
    BY <1>8 DEF ResolveForRespawn
  <1>9. CASE ResolveForReset(r)
    BY <1>9 DEF ResolveForReset, NextGeneration
  <1>10. CASE ResumeSession(r)
    BY <1>10 DEF ResumeSession
  <1>11. CASE PrepareCreate(r)
    BY <1>11 DEF PrepareCreate
  <1>12. CASE UpsertProvisional(r)
    BY <1>12 DEF UpsertProvisional, ProvisionalFailed
  <1>13. CASE InstallSession(r)
    BY <1>13 DEF InstallSession
  <1>14. CASE ReadBackRebind(r)
    BY <1>14 DEF ReadBackRebind
  <1>15. CASE UpsertEmbodied(r)
    BY <1>15 DEF UpsertEmbodied
  <1>16. CASE UpsertSuccessor(r)
    BY <1>16 DEF UpsertSuccessor
  <1>17. CASE UpsertFinal(r)
    BY <1>17 DEF UpsertFinal
  <1>18. CASE DisposeMember(r)
    BY <1>18 DEF DisposeMember
  <1>19. CASE EraseRecord(r)
    BY <1>19 DEF EraseRecord
  <1>20. CASE ReleaseAfterDisposal(r)
    BY <1>20 DEF ReleaseAfterDisposal
  <1>21. CASE UndoEmbodiment(r)
    BY <1>21 DEF UndoEmbodiment
  <1>22. CASE ReleaseOrPark(r)
    BY <1>22 DEF ReleaseOrPark
  <1>23. CASE RollbackReset(r)
    BY <1>23 DEF RollbackReset
  <1>24. CASE AdoptAuthoritative(r)
    BY <1>24 DEF AdoptAuthoritative
  <1>25. CASE RestoreWithGrant(r)
    BY <1>25 DEF RestoreWithGrant, RestoreAs
  <1>26. CASE RestoreRelease(r)
    BY <1>26 DEF RestoreRelease
  <1>27. CASE UpsertBeforeBreak(r)
    BY <1>27 DEF UpsertBeforeBreak
  <1>28. CASE BreakEntry(r)
    BY <1>28 DEF BreakEntry
  <1>29. CASE BreakRelease(r)
    BY <1>29 DEF BreakRelease
  <1>30. CASE DrainOrphans(r)
    BY <1>30 DEF DrainOrphans
  <1>31. CASE LookupRecord(r)
    BY <1>31 DEF LookupRecord
  <1>32. CASE PrepareBroken(r)
    BY <1>32 DEF PrepareBroken, NothingToPrepare, Conflicting, Retained,
      Project
  <1>33. CASE PrepareRelease(r)
    BY <1>33 DEF PrepareRelease, Project
  <1>34. CASE RenewLost(r)
    BY <1>34 DEF RenewLost, Due
  <1>35. CASE RenewBroken(r)
    BY <1>35 DEF RenewBroken, Due
  <1>36. CASE RenewGranted(r)
    BY <1>36, <1>a DEF RenewGranted, Due, HoldsLease, StageGrant, Grant
  <1>37. CASE PublishGrant(r)
    BY <1>37 DEF PublishGrant
  <1>38. CASE Shutdown(r)
    BY <1>38 DEF Shutdown, ShutdownGrants, Retained
  <1>39. CASE Restart(r)
    BY <1>39 DEF Restart, Abandoned, Floor
  <1> HIDE DEF Typing, OperationTyped, SnapshotTyped, EntryTyped, Coherent,
      OperationsAt, LocalsAt, EntryLawful, Ungranted, Writing, At,
      LifecycleOps, NewerThanDelete
  <1> QED
    BY <1>1, <1>2, <1>3, <1>4, <1>5, <1>6, <1>7, <1>8, <1>9, <1>10, <1>11,
      <1>12, <1>13, <1>14, <1>15, <1>16, <1>17, <1>18, <1>19, <1>20, <1>21,
      <1>22, <1>23, <1>24, <1>25, <1>26, <1>27, <1>28, <1>29, <1>30, <1>31,
      <1>32, <1>33, <1>34, <1>35, <1>36, <1>37, <1>38, <1>39 DEF Step

\* A step of a process keeps the delete.
LEMMA DeletedStep ==
  ASSUME Inv, DeletedStaysDeleted, NEW r \in Runtimes, Step(r),
         NewerThanDelete(r)
  PROVE  DeletedStaysDeleted'
  <1>1. Typing /\ Typing' /\ Coherent(r) /\ \A s \in Runtimes : Coherent(s)
    BY InvStep DEF Inv
  <1>2. CASE UNCHANGED record
    BY <1>1, <1>2, TombStep DEF DeletedStaysDeleted
  <1>3. CASE record' = None
    BY <1>3 DEF DeletedStaysDeleted
  <1>4. ASSUME pc[r] \in Writing, NEW b \in Bindings,
               record' = Row(b, grant[r]),
               record' # None
        PROVE  DeletedStaysDeleted'
    <2>1. record'.token > tomb
      BY <1>4 DEF Row, NewerThanDelete
    <2>2. tomb' \in {tomb, 0}
      BY <1>1, <1>4, TombStep
    <2> QED
      BY <2>1, <2>2 DEF DeletedStaysDeleted
  <1> QED
    BY <1>1, <1>2, <1>3, <1>4, RecordStep

\* With one process, a deleted identity comes back only under a grant newer
\* than the delete: no operation that began before it, and none of the error
\* branches, writes the row again under an older one.
THEOREM DeletedIsFinal ==
  ASSUME OneRuntime
  PROVE  Spec => []DeletedStaysDeleted
  <1> DEFINE J == DeletedStaysDeleted /\ \A r \in Runtimes : NewerThanDelete(r)
  <1>1. Init => J
    BY DEF Init, NewerThanDelete, DeletedStaysDeleted, Writing
  <1>2. Inv /\ J /\ [Next]_vars => J'
    <2> SUFFICES ASSUME Inv, J, [Next]_vars
                 PROVE  J'
      OBVIOUS
    <2>1. CASE UNCHANGED vars
      BY <2>1
      DEF vars, NewerThanDelete, DeletedStaysDeleted
    <2>2. CASE Expire
      BY <2>2
      DEF Expire, NewerThanDelete, DeletedStaysDeleted
    <2>3. ASSUME NEW r \in Runtimes, Step(r)
          PROVE  J'
      <3>1. NewerThanDelete(r)'
        BY <2>3, NewerThanDeleteStep DEF Inv
      <3>2. DeletedStaysDeleted'
        BY <2>3, DeletedStep
      <3> QED
        BY <3>1, <3>2 DEF OneRuntime
    <2> QED
      BY <2>1, <2>2, <2>3 DEF Next
  <1> QED
    BY <1>1, <1>2, Invariance, PTL DEF Spec


-----------------------------------------------------------------------------
(* One process: a committed generation is kept. *)


\* What the process remembers keeps up with the committed generation.
LEMMA GenerationKeptStep ==
  ASSUME Typing, NEW r \in Runtimes, Coherent(r), EntryLawful(r),
         "read" \notin Faults, CommittedGenerationKept, GenerationKept(r),
         Step(r)
  PROVE  GenerationKept(r)'
  <1>a. committed > 0 => record # None /\ Binding(record) # None
    BY NoneApart
    DEF CommittedGenerationKept, Binding, Bindings, SharedTyped, Rows, Typing
  <1> USE DEF Typing, OperationTyped, SnapshotTyped, EntryTyped, Coherent,
      OperationsAt, LocalsAt, EntryLawful, Lawful, Ungranted, At,
      LifecycleOps, GenerationKept, May
  <1>1. ASSUME NEW name \in LifecycleOps, MarkLifecycleInProgress(r, name)
        PROVE  GenerationKept(r)'
    BY <1>1 DEF MarkLifecycleInProgress
  <1>2. CASE BeginEmbody(r)
    BY <1>2 DEF BeginEmbody
  <1>3. CASE BeginRegister(r)
    BY <1>3 DEF BeginRegister
  <1>4. CASE BeginRemove(r)
    BY <1>4 DEF BeginRemove
  <1>5. CASE AcquireRefused(r)
    BY <1>5 DEF AcquireRefused
  <1>6. CASE AcquireGranted(r)
    BY <1>6 DEF AcquireGranted, Acquirable, Grant
  <1>7. CASE AdvanceFence(r)
    <2>1. pc'[r] \in Points /\ committed' = committed /\ op'[r] = op[r]
          /\ UNCHANGED <<entry, snapshot>>
          /\ pc'[r] \notin {"prepare", "prepareRelease", "release"}
      BY <1>7 DEF AdvanceFence, AfterFence, WithoutFence, FenceFailed, Points
    <2>2. ASSUME committed > 0, op[r] = "reset",
                 pc'[r] \notin {"break", "restore"}
          PROVE  oldContinuity[r].gen >= committed
      <3>1. oldContinuity[r] # None
        BY <2>2, <1>7 DEF AdvanceFence
      <3>2. UpsertAdmitted(oldContinuity[r], grant[r])
        BY <2>2, <3>1, <1>7 DEF AdvanceFence, FenceFailed, Upsert, Write
      <3>3. /\ record # None /\ record.gen >= committed
            /\ record.gen \in Nat /\ committed \in Nat
            /\ oldContinuity[r].gen \in Nat
        BY <2>2, <3>1
        DEF CommittedGenerationKept, SharedTyped, Rows, Bindings, Generations
      <3> QED
        BY <3>2, <3>3 DEF UpsertAdmitted
    <2>3. op[r] = "embody" => pc'[r] \in {"create", "build", "park"}
      BY <1>7 DEF AdvanceFence, AfterFence, WithoutFence, FenceFailed
    <2> QED
      BY <2>1, <2>2, <2>3
  <1>8. CASE ResolveForRespawn(r)
    <2>1. CASE Goto(r, "restore") /\ UNCHANGED entry
      BY <1>8, <2>1 DEF ResolveForRespawn
    <2>2. CASE Activate(r, Binding(record)) /\ Done(r)
      BY <1>8, <1>a, <2>2
      DEF ResolveForRespawn
    <2> QED
      BY <1>8, <2>1, <2>2 DEF ResolveForRespawn
  <1>9. CASE ResolveForReset(r)
    BY <1>9 DEF ResolveForReset, NextGeneration
  <1>10. CASE ResumeSession(r)
    BY <1>10 DEF ResumeSession
  <1>11. CASE PrepareCreate(r)
    BY <1>11 DEF PrepareCreate
  <1>12. CASE UpsertProvisional(r)
    \* The row of generation 0 is refused once a reset has been reported.
    <2>1. ASSUME committed > 0, op[r] = "embody"
          PROVE  ~UpsertAdmitted(attempt[r], grant[r])
      <3>1. /\ record # None /\ record.gen >= committed
            /\ record.gen \in Nat /\ committed \in Nat
        BY <2>1 DEF CommittedGenerationKept, SharedTyped, Rows, Generations
      <3>2. attempt[r].gen = 0
        BY <1>12, <2>1 DEF UpsertProvisional
      <3> QED
        BY <2>1, <3>1, <3>2 DEF UpsertAdmitted
    <2>2. committed > 0 /\ op[r] = "embody" => pc'[r] = "park"
      BY <1>12, <2>1
      DEF UpsertProvisional, ProvisionalFailed, Upsert, Write
    <2>3. pc'[r] \in {"install", "park", "restore", "rebound"}
      BY <1>12 DEF UpsertProvisional, ProvisionalFailed
    <2> QED
      BY <1>12, <2>2, <2>3 DEF UpsertProvisional
  <1>13. CASE InstallSession(r)
    BY <1>13 DEF InstallSession
  <1>14. CASE ReadBackRebind(r)
    BY <1>14 DEF ReadBackRebind
  <1>15. CASE UpsertEmbodied(r)
    BY <1>15 DEF UpsertEmbodied
  <1>16. CASE UpsertSuccessor(r)
    BY <1>16 DEF UpsertSuccessor
  <1>17. CASE UpsertFinal(r)
    BY <1>17 DEF UpsertFinal
  <1>18. CASE DisposeMember(r)
    BY <1>18 DEF DisposeMember
  <1>19. CASE EraseRecord(r)
    <2>1. committed' > 0 => committed' = committed
      BY <1>19 DEF EraseRecord
    <2>2. committed' > 0 => pc'[r] = "break"
      BY <1>19 DEF EraseRecord, Delete, Write
    <2> QED
      BY <1>19, <2>1, <2>2 DEF EraseRecord
  <1>20. CASE ReleaseAfterDisposal(r)
    BY <1>20 DEF ReleaseAfterDisposal
  <1>21. CASE UndoEmbodiment(r)
    BY <1>21 DEF UndoEmbodiment
  <1>22. CASE ReleaseOrPark(r)
    BY <1>22 DEF ReleaseOrPark
  <1>23. CASE RollbackReset(r)
    BY <1>23 DEF RollbackReset
  <1>24. CASE AdoptAuthoritative(r)
    <2>1. BreakWith(r, Binding(record)) /\ UNCHANGED entry
          /\ committed' = committed
      BY <1>24 DEF AdoptAuthoritative
    <2> QED
      BY <1>a, <2>1, <1>24 DEF AdoptAuthoritative
  <1>25. CASE RestoreWithGrant(r)
    BY <1>25 DEF RestoreWithGrant, RestoreAs
  <1>26. CASE RestoreRelease(r)
    BY <1>26 DEF RestoreRelease
  <1>27. CASE UpsertBeforeBreak(r)
    BY <1>27 DEF UpsertBeforeBreak
  <1>28. CASE BreakEntry(r)
    BY <1>28 DEF BreakEntry
  <1>29. CASE BreakRelease(r)
    BY <1>29 DEF BreakRelease
  <1>30. CASE DrainOrphans(r)
    BY <1>30 DEF DrainOrphans
  <1>31. CASE LookupRecord(r)
    <2>1. CASE Done(r)
      BY <1>31, <2>1 DEF LookupRecord
    <2>2. CASE Attempt(r, "prepare", Binding(record))
      BY <1>31, <1>a, <2>2 DEF LookupRecord
    <2> QED
      BY <1>31, <2>1, <2>2 DEF LookupRecord
  <1>32. CASE PrepareBroken(r)
    BY <1>32 DEF PrepareBroken, NothingToPrepare, Conflicting, Retained,
      Project
  <1>33. CASE PrepareRelease(r)
    BY <1>33 DEF PrepareRelease, Project
  <1>34. CASE RenewLost(r)
    BY <1>34 DEF RenewLost, Due
  <1>35. CASE RenewBroken(r)
    BY <1>35 DEF RenewBroken, Due
  <1>36. CASE RenewGranted(r)
    BY <1>36 DEF RenewGranted, Due, HoldsLease, StageGrant, Grant
  <1>37. CASE PublishGrant(r)
    BY <1>37 DEF PublishGrant
  <1>38. CASE Shutdown(r)
    BY <1>38 DEF Shutdown, ShutdownGrants, Retained
  <1>39. CASE Restart(r)
    BY <1>39 DEF Restart, Abandoned, Floor
  <1> HIDE DEF Typing, OperationTyped, SnapshotTyped, EntryTyped, Coherent,
      OperationsAt, LocalsAt, EntryLawful, Lawful, Ungranted, At,
      LifecycleOps, GenerationKept, May
  <1> QED
    BY <1>1, <1>2, <1>3, <1>4, <1>5, <1>6, <1>7, <1>8, <1>9, <1>10, <1>11,
      <1>12, <1>13, <1>14, <1>15, <1>16, <1>17, <1>18, <1>19, <1>20, <1>21,
      <1>22, <1>23, <1>24, <1>25, <1>26, <1>27, <1>28, <1>29, <1>30, <1>31,
      <1>32, <1>33, <1>34, <1>35, <1>36, <1>37, <1>38, <1>39 DEF Step

\* An upsert never goes back in the generation.
LEMMA UpsertKeepsGeneration ==
  ASSUME Typing, CommittedGenerationKept, NEW b \in Bindings, NEW t \in Tokens,
         NEW ok \in BOOLEAN, Upsert(b, t, ok), UNCHANGED committed
  PROVE  CommittedGenerationKept'
  <1>1. CASE UNCHANGED record
    BY <1>1 DEF CommittedGenerationKept
  <1>2. CASE record' = Row(b, t) /\ UpsertAdmitted(b, t)
    <2>1. record' # None /\ record'.gen = b.gen /\ b.gen \in Nat
      BY <1>2, RowType, NoneApart DEF Row, Bindings, Generations
    <2>2. record # None => record.gen \in Nat /\ b.gen >= record.gen
      BY <1>2 DEF UpsertAdmitted, Typing, SharedTyped, Rows, Generations
    <2>3. committed \in Nat
      BY DEF Typing, SharedTyped, Generations
    <2> QED
      BY <2>1, <2>2, <2>3 DEF CommittedGenerationKept
  <1> QED
    BY <1>1, <1>2 DEF Upsert, Write


\* The row keeps up with the committed generation.
LEMMA CommittedStep ==
  ASSUME Typing, NEW r \in Runtimes, Coherent(r), EntryLawful(r),
         "read" \notin Faults, CommittedGenerationKept, GenerationKept(r),
         Step(r)
  PROVE  CommittedGenerationKept'
  <1> HIDE DEF Jump, Goto, Operate, Snapshot, SnapshotEntry, Begin, Done,
      SetEntry, RemoveEntry, Activate, Attempt, BreakWith
  <1> USE DEF Typing, OperationTyped, SnapshotTyped, EntryTyped, Coherent,
      OperationsAt, LocalsAt, EntryLawful, Lawful, Ungranted, At,
      LifecycleOps, GenerationKept
  <1>1. CASE AdvanceFence(r)
    <2>1. CASE UNCHANGED record
      BY <1>1, <2>1 DEF AdvanceFence, CommittedGenerationKept
    <2>2. ASSUME NEW ok \in BOOLEAN, Upsert(oldContinuity[r], grant[r], ok),
                 oldContinuity[r] # None
          PROVE  CommittedGenerationKept'
      BY <1>1, <2>2, UpsertKeepsGeneration DEF AdvanceFence
    <2> QED
      BY <1>1, <2>1, <2>2 DEF AdvanceFence
  <1>2. CASE UpsertProvisional(r)
    <2>1. CASE UNCHANGED record
      BY <1>2, <2>1 DEF UpsertProvisional, CommittedGenerationKept
    <2>2. ASSUME NEW ok \in BOOLEAN, Upsert(attempt[r], grant[r], ok),
                 attempt[r] # None
          PROVE  CommittedGenerationKept'
      BY <1>2, <2>2, UpsertKeepsGeneration DEF UpsertProvisional
    <2> QED
      BY <1>2, <2>1, <2>2 DEF UpsertProvisional
  <1>3. CASE UpsertEmbodied(r)
    <2>1. CASE UNCHANGED record
      BY <1>3, <2>1 DEF UpsertEmbodied, CommittedGenerationKept
    <2>2. ASSUME NEW ok \in BOOLEAN, Upsert(attempt[r], grant[r], ok),
                 attempt[r] # None
          PROVE  CommittedGenerationKept'
      BY <1>3, <2>2, UpsertKeepsGeneration DEF UpsertEmbodied
    <2> QED
      BY <1>3, <2>1, <2>2 DEF UpsertEmbodied
  <1>4. CASE UpsertSuccessor(r)
    <2>1. CASE UNCHANGED record
      BY <1>4, <2>1 DEF UpsertSuccessor, CommittedGenerationKept
    <2>2. ASSUME NEW ok \in BOOLEAN, Upsert(attempt[r], grant[r], ok),
                 attempt[r] # None
          PROVE  CommittedGenerationKept'
      BY <1>4, <2>2, UpsertKeepsGeneration DEF UpsertSuccessor
    <2> QED
      BY <1>4, <2>1, <2>2 DEF UpsertSuccessor
  <1>5. CASE UpsertFinal(r)
    <2>1. grant[r] \in Tokens /\ attempt[r] \in Bindings
      BY <1>5, GrantType DEF UpsertFinal
    <2>2. CASE UNCHANGED committed
      BY <1>5, <2>1, <2>2, NoneApart, UpsertKeepsGeneration DEF UpsertFinal
    <2>3. CASE Upsert(attempt[r], grant[r], TRUE) /\ committed' = attempt[r].gen
      <3>1. record' = Row(attempt[r], grant[r])
        BY <2>3 DEF Upsert, Write
      <3>2. record' # None
        BY <2>1, <3>1, RowType, NoneApart
      <3>3. attempt[r].gen \in Nat
        BY <2>1 DEF Bindings, Generations
      <3> QED
        BY <2>3, <3>1, <3>2, <3>3 DEF CommittedGenerationKept, Row
    <2> QED
      BY <1>5, <2>2, <2>3 DEF UpsertFinal
  <1>6. CASE EraseRecord(r)
    <2>1. record' = None \/ record' = record
      BY <1>6 DEF EraseRecord, Delete, Write
    <2> QED
      BY <1>6, <2>1 DEF EraseRecord, CommittedGenerationKept
  <1>7. CASE UndoEmbodiment(r)
    <2>1. committed' > 0 => oldContinuity[r] # None
      BY <1>7 DEF UndoEmbodiment
    <2>2. committed' > 0 => \E ok \in BOOLEAN : Upsert(oldContinuity[r], grant[r], ok)
      BY <1>7, <2>1 DEF UndoEmbodiment
    <2> QED
      BY <1>7, <2>1, <2>2, UpsertKeepsGeneration
      DEF UndoEmbodiment, CommittedGenerationKept
  <1>8. CASE RollbackReset(r)
    <2>1. CASE UNCHANGED record
      BY <1>8, <2>1 DEF RollbackReset, CommittedGenerationKept
    <2>2. CASE record' = Row(oldContinuity[r], grant[r])
               /\ oldContinuity[r] # None
      <3>1. record' # None
        BY <1>8, <2>2, RowType, NoneApart, GrantType DEF RollbackReset
      <3> QED
        BY <1>8, <2>2, <3>1 DEF RollbackReset, CommittedGenerationKept, Row
    <2>3. committed > 0 => oldContinuity[r] # None
      BY <1>8 DEF RollbackReset
    <2> QED
      BY <1>8, <2>1, <2>2, <2>3
      DEF RollbackReset, Rollback, Write, CommittedGenerationKept
  <1>9. CASE RestoreWithGrant(r)
    <2>1. CASE UNCHANGED record
      BY <1>9, <2>1 DEF RestoreWithGrant, CommittedGenerationKept
    <2>2. ASSUME NEW ok \in BOOLEAN, Upsert(oldContinuity[r], grant[r], ok),
                 oldContinuity[r] # None
          PROVE  CommittedGenerationKept'
      BY <1>9, <2>2, UpsertKeepsGeneration DEF RestoreWithGrant
    <2> QED
      BY <1>9, <2>1, <2>2 DEF RestoreWithGrant
  <1>10. CASE UpsertBeforeBreak(r)
    <2>1. PICK b \in {attempt[r], oldContinuity[r]}, ok \in BOOLEAN :
            b # None /\ Upsert(b, grant[r], ok)
      BY <1>10 DEF UpsertBeforeBreak
    <2> QED
      BY <1>10, <2>1, UpsertKeepsGeneration DEF UpsertBeforeBreak
  <1>11. CASE PublishGrant(r)
    <2>1. CASE UNCHANGED record
      BY <1>11, <2>1 DEF PublishGrant, CommittedGenerationKept
    <2>2. ASSUME NEW ok \in BOOLEAN, Upsert(oldContinuity[r], grant[r], ok),
                 oldContinuity[r] # None
          PROVE  CommittedGenerationKept'
      BY <1>11, <2>2, UpsertKeepsGeneration DEF PublishGrant
    <2> QED
      BY <1>11, <2>1, <2>2 DEF PublishGrant
  <1>12. CASE \/ \E name \in LifecycleOps : MarkLifecycleInProgress(r, name)
              \/ BeginEmbody(r) \/ BeginRegister(r) \/ BeginRemove(r)
              \/ AcquireRefused(r) \/ AcquireGranted(r)
              \/ ResolveForRespawn(r) \/ ResolveForReset(r)
              \/ ResumeSession(r) \/ PrepareCreate(r) \/ InstallSession(r)
              \/ ReadBackRebind(r) \/ DisposeMember(r)
              \/ ReleaseAfterDisposal(r) \/ ReleaseOrPark(r)
              \/ AdoptAuthoritative(r) \/ RestoreRelease(r) \/ BreakEntry(r)
              \/ BreakRelease(r) \/ DrainOrphans(r) \/ LookupRecord(r)
              \/ PrepareBroken(r) \/ PrepareRelease(r) \/ RenewLost(r)
              \/ RenewBroken(r) \/ RenewGranted(r) \/ Shutdown(r)
              \/ Restart(r)
    BY <1>12 DEF MarkLifecycleInProgress, BeginEmbody, BeginRegister,
      BeginRemove, AcquireRefused, AcquireGranted, ResolveForRespawn,
      ResolveForReset, ResumeSession, PrepareCreate, InstallSession,
      ReadBackRebind, DisposeMember, ReleaseAfterDisposal, ReleaseOrPark,
      AdoptAuthoritative, RestoreRelease, BreakEntry, BreakRelease,
      DrainOrphans, LookupRecord, PrepareBroken, PrepareRelease, RenewLost,
      RenewBroken, RenewGranted, Shutdown, Restart, Grant,
      CommittedGenerationKept
  <1> HIDE DEF Typing, OperationTyped, SnapshotTyped, EntryTyped, Coherent,
      OperationsAt, LocalsAt, EntryLawful, Lawful, Ungranted, At,
      LifecycleOps, GenerationKept
  <1> QED
    BY <1>1, <1>2, <1>3, <1>4, <1>5, <1>6, <1>7, <1>8, <1>9, <1>10, <1>11,
      <1>12 DEF Step

\* With one process and a store that answers reads, a generation that a reset
\* reported is never rolled back, by its own error branches or by any later
\* operation; only delete_identity takes it away.
THEOREM CommittedIsKept ==
  ASSUME OneRuntime, "read" \notin Faults
  PROVE  Spec => []CommittedGenerationKept
  <1> DEFINE J == CommittedGenerationKept /\ \A r \in Runtimes : GenerationKept(r)
  <1>1. Init => J
    BY DEF Init, GenerationKept, CommittedGenerationKept
  <1>2. Inv /\ J /\ [Next]_vars => J'
    <2> SUFFICES ASSUME Inv, J, [Next]_vars
                 PROVE  J'
      OBVIOUS
    <2>1. CASE UNCHANGED vars
      BY <2>1
      DEF vars, GenerationKept, CommittedGenerationKept
    <2>2. CASE Expire
      BY <2>2
      DEF Expire, GenerationKept, CommittedGenerationKept
    <2>3. ASSUME NEW r \in Runtimes, Step(r)
          PROVE  J'
      <3>1. GenerationKept(r)'
        BY <2>3, GenerationKeptStep DEF Inv
      <3>2. CommittedGenerationKept'
        BY <2>3, CommittedStep DEF Inv
      <3> QED
        BY <3>1, <3>2 DEF OneRuntime
    <2> QED
      BY <2>1, <2>2, <2>3 DEF Next
  <1> QED
    BY <1>1, <1>2, Invariance, PTL DEF Spec


-----------------------------------------------------------------------------
(* Several processes: one authority. *)


\* A process that remembers a binding goes on remembering one.
LEMMA RemembersStep ==
  ASSUME Typing, NEW r \in Runtimes, Coherent(r), EntryLawful(r),
         "read" \notin Faults, "delete" \notin Operations, ~ExternalBinding,
         record # None, Remembers(r), Step(r)
  PROVE  Remembers(r)'
  <1>a. Binding(record) # None
    BY NoneApart DEF Binding, Bindings, SharedTyped, Rows, Typing
  <1> USE DEF Typing, OperationTyped, SnapshotTyped, EntryTyped, Coherent,
      OperationsAt, LocalsAt, EntryLawful, Lawful, Ungranted, At,
      LifecycleOps, Remembers, May
  <1>1. ASSUME NEW name \in LifecycleOps, MarkLifecycleInProgress(r, name)
        PROVE  Remembers(r)'
    BY <1>1 DEF MarkLifecycleInProgress
  <1>2. CASE BeginEmbody(r)
    BY <1>2 DEF BeginEmbody
  <1>3. CASE BeginRegister(r)
    BY <1>3 DEF BeginRegister
  <1>4. CASE BeginRemove(r)
    BY <1>4 DEF BeginRemove
  <1>5. CASE AcquireRefused(r)
    BY <1>5 DEF AcquireRefused
  <1>6. CASE AcquireGranted(r)
    BY <1>6 DEF AcquireGranted, Acquirable, Grant
  <1>7. CASE AdvanceFence(r)
    <2>1. pc'[r] \in {"build", "park", "resolve", "dispose", "provisional", "break"}
          /\ (op[r] = "embody" => pc'[r] \in {"build", "park"})
      BY <1>7 DEF AdvanceFence, AfterFence, FenceFailed
    <2> QED
      BY <1>7, <2>1 DEF AdvanceFence
  <1>8. CASE ResolveForRespawn(r)
    <2>1. CASE Goto(r, "restore") /\ UNCHANGED entry
      BY <1>8, <2>1 DEF ResolveForRespawn
    <2>2. CASE Activate(r, Binding(record)) /\ Done(r)
      BY <1>8, <1>a, <2>2
      DEF ResolveForRespawn
    <2> QED
      BY <1>8, <2>1, <2>2 DEF ResolveForRespawn
  <1>9. CASE ResolveForReset(r)
    BY <1>9 DEF ResolveForReset, NextGeneration
  <1>10. CASE ResumeSession(r)
    BY <1>10 DEF ResumeSession
  <1>11. CASE PrepareCreate(r)
    BY <1>11 DEF PrepareCreate
  <1>12. CASE UpsertProvisional(r)
    BY <1>12 DEF UpsertProvisional, ProvisionalFailed
  <1>13. CASE InstallSession(r)
    BY <1>13 DEF InstallSession
  <1>14. CASE ReadBackRebind(r)
    BY <1>14 DEF ReadBackRebind
  <1>15. CASE UpsertEmbodied(r)
    BY <1>15 DEF UpsertEmbodied
  <1>16. CASE UpsertSuccessor(r)
    BY <1>16 DEF UpsertSuccessor
  <1>17. CASE UpsertFinal(r)
    BY <1>17 DEF UpsertFinal
  <1>18. CASE DisposeMember(r)
    BY <1>18 DEF DisposeMember
  <1>19. CASE EraseRecord(r)
    BY <1>19 DEF EraseRecord
  <1>20. CASE ReleaseAfterDisposal(r)
    BY <1>20 DEF ReleaseAfterDisposal
  <1>21. CASE UndoEmbodiment(r)
    BY <1>21 DEF UndoEmbodiment
  <1>22. CASE ReleaseOrPark(r)
    BY <1>22 DEF ReleaseOrPark
  <1>23. CASE RollbackReset(r)
    BY <1>23 DEF RollbackReset
  <1>24. CASE AdoptAuthoritative(r)
    <2>1. BreakWith(r, Binding(record)) /\ UNCHANGED entry
      BY <1>24 DEF AdoptAuthoritative
    <2> QED
      BY <1>a, <2>1, <1>24 DEF AdoptAuthoritative
  <1>25. CASE RestoreWithGrant(r)
    BY <1>25 DEF RestoreWithGrant, RestoreAs
  <1>26. CASE RestoreRelease(r)
    BY <1>26 DEF RestoreRelease
  <1>27. CASE UpsertBeforeBreak(r)
    BY <1>27 DEF UpsertBeforeBreak
  <1>28. CASE BreakEntry(r)
    BY <1>28 DEF BreakEntry
  <1>29. CASE BreakRelease(r)
    BY <1>29 DEF BreakRelease
  <1>30. CASE DrainOrphans(r)
    BY <1>30 DEF DrainOrphans
  <1>31. CASE LookupRecord(r)
    <2>1. CASE Done(r)
      BY <1>31, <2>1 DEF LookupRecord
    <2>2. CASE Attempt(r, "prepare", Binding(record))
      BY <1>31, <1>a, <2>2 DEF LookupRecord
    <2> QED
      BY <1>31, <2>1, <2>2 DEF LookupRecord
  <1>32. CASE PrepareBroken(r)
    BY <1>32 DEF PrepareBroken, NothingToPrepare, Conflicting, Retained,
      Project
  <1>33. CASE PrepareRelease(r)
    BY <1>33 DEF PrepareRelease, Project
  <1>34. CASE RenewLost(r)
    BY <1>34 DEF RenewLost, Due
  <1>35. CASE RenewBroken(r)
    BY <1>35 DEF RenewBroken, Due
  <1>36. CASE RenewGranted(r)
    BY <1>36 DEF RenewGranted, Due, HoldsLease, StageGrant, Grant
  <1>37. CASE PublishGrant(r)
    BY <1>37 DEF PublishGrant
  <1>38. CASE Shutdown(r)
    BY <1>38 DEF Shutdown, ShutdownGrants, Retained
  <1>39. CASE Restart(r)
    BY <1>39 DEF Restart, Abandoned, Floor
  <1> HIDE DEF Typing, OperationTyped, SnapshotTyped, EntryTyped, Coherent,
      OperationsAt, LocalsAt, EntryLawful, Lawful, Ungranted, At,
      LifecycleOps, Remembers, May
  <1> QED
    BY <1>1, <1>2, <1>3, <1>4, <1>5, <1>6, <1>7, <1>8, <1>9, <1>10, <1>11,
      <1>12, <1>13, <1>14, <1>15, <1>16, <1>17, <1>18, <1>19, <1>20, <1>21,
      <1>22, <1>23, <1>24, <1>25, <1>26, <1>27, <1>28, <1>29, <1>30, <1>31,
      <1>32, <1>33, <1>34, <1>35, <1>36, <1>37, <1>38, <1>39 DEF Step

\* The fence of a row only rises.
LEMMA UpsertFences ==
  ASSUME Typing, NEW b \in Bindings, NEW t \in Tokens, NEW ok \in BOOLEAN,
         Upsert(b, t, ok), record # None
  PROVE  /\ record' # None
         /\ record'.token >= record.token
         /\ ok => record' = Row(b, t) /\ record'.token = t /\ Binding(record') = b
  <1>1. CASE UNCHANGED record /\ ~ok
    BY <1>1, ConstantsAssumption DEF Typing, SharedTyped, Rows
  <1>2. CASE record' = Row(b, t) /\ UpsertAdmitted(b, t)
    <2>1. record' # None
      BY <1>2, RowType, NoneApart
    <2>2. b = [session |-> b.session, gen |-> b.gen]
      BY DEF Bindings
    <2> QED
      BY <1>2, <2>1, <2>2 DEF Row, Binding, UpsertAdmitted
  <1> QED
    BY <1>1, <1>2 DEF Upsert, Write


\* The row stays, and its fence only rises.
LEMMA FenceRises ==
  ASSUME Typing, NEW r \in Runtimes, Coherent(r), EntryLawful(r),
         ~ExternalBinding, record # None, Remembers(r), Step(r)
  PROVE  /\ record' # None
         /\ record'.token >= record.token
  <1>a. record.token >= record.token
    BY ConstantsAssumption DEF Typing, SharedTyped, Rows
  <1> HIDE DEF Jump, Goto, Operate, Snapshot, SnapshotEntry, Begin, Done,
      SetEntry, RemoveEntry, Activate, Attempt, BreakWith
  <1> USE DEF Typing, OperationTyped, SnapshotTyped, EntryTyped, Coherent,
      OperationsAt, LocalsAt, EntryLawful, Lawful, Ungranted, At,
      LifecycleOps, Remembers
  <1>1. CASE AdvanceFence(r)
    <2>1. oldContinuity[r] \in Bindings /\ grant[r] \in Tokens
      BY <1>1, GrantType DEF AdvanceFence
    <2>2. \E ok \in BOOLEAN : Upsert(oldContinuity[r], grant[r], ok)
      BY <1>1, <2>1, NoneApart DEF AdvanceFence
    <2> QED
      BY <2>1, <2>2, UpsertFences
  <1>2. CASE UpsertProvisional(r)
    <2>1. attempt[r] \in Bindings /\ grant[r] \in Tokens
      BY <1>2, GrantType DEF UpsertProvisional
    <2>2. \E ok \in BOOLEAN : Upsert(attempt[r], grant[r], ok)
      BY <1>2, <2>1, NoneApart DEF UpsertProvisional
    <2> QED
      BY <2>1, <2>2, UpsertFences
  <1>3. CASE UpsertEmbodied(r)
    <2>1. attempt[r] \in Bindings /\ grant[r] \in Tokens
      BY <1>3, GrantType DEF UpsertEmbodied
    <2>2. \E ok \in BOOLEAN : Upsert(attempt[r], grant[r], ok)
      BY <1>3, <2>1, NoneApart DEF UpsertEmbodied
    <2> QED
      BY <2>1, <2>2, UpsertFences
  <1>4. CASE UpsertSuccessor(r)
    <2>1. attempt[r] \in Bindings /\ grant[r] \in Tokens
      BY <1>4, GrantType DEF UpsertSuccessor
    <2>2. \E ok \in BOOLEAN : Upsert(attempt[r], grant[r], ok)
      BY <1>4, <2>1, NoneApart DEF UpsertSuccessor
    <2> QED
      BY <2>1, <2>2, UpsertFences
  <1>5. CASE UpsertFinal(r)
    <2>1. attempt[r] \in Bindings /\ grant[r] \in Tokens
      BY <1>5, GrantType DEF UpsertFinal
    <2>2. \E ok \in BOOLEAN : Upsert(attempt[r], grant[r], ok)
      BY <1>5, <2>1, NoneApart DEF UpsertFinal
    <2> QED
      BY <2>1, <2>2, UpsertFences
  <1>6. CASE EraseRecord(r)
    BY <1>6 DEF EraseRecord, Remembers
  <1>7. CASE UndoEmbodiment(r)
    <2>1. oldContinuity[r] \in Bindings /\ grant[r] \in Tokens
      BY <1>7, GrantType DEF UndoEmbodiment
    <2>2. \E ok \in BOOLEAN : Upsert(oldContinuity[r], grant[r], ok)
      BY <1>7, <2>1, NoneApart DEF UndoEmbodiment
    <2> QED
      BY <2>1, <2>2, UpsertFences
  <1>8. CASE RollbackReset(r)
    <2>1. oldContinuity[r] \in Bindings /\ grant[r] \in Tokens
      BY <1>8, GrantType DEF RollbackReset
    <2>2. CASE UNCHANGED record
      BY <1>a, <2>2
    <2>3. CASE record' = Row(oldContinuity[r], grant[r])
               /\ record.token = grant[r]
      <3>1. record' # None
        BY <2>1, <2>3, RowType, NoneApart
      <3> QED
        BY <1>a, <2>3, <3>1 DEF Row
    <2> QED
      BY <1>8, <2>1, <2>2, <2>3, NoneApart
      DEF RollbackReset, Rollback, Write, RollbackAdmitted
  <1>9. CASE RestoreWithGrant(r)
    <2>1. oldContinuity[r] \in Bindings /\ grant[r] \in Tokens
      BY <1>9, GrantType DEF RestoreWithGrant
    <2>2. \E ok \in BOOLEAN : Upsert(oldContinuity[r], grant[r], ok)
      BY <1>9, <2>1, NoneApart DEF RestoreWithGrant
    <2> QED
      BY <2>1, <2>2, UpsertFences
  <1>10. CASE UpsertBeforeBreak(r)
    <2>1. PICK b \in {attempt[r], oldContinuity[r]}, ok \in BOOLEAN :
            b # None /\ Upsert(b, grant[r], ok)
      BY <1>10 DEF UpsertBeforeBreak
    <2>2. b \in Bindings /\ grant[r] \in Tokens
      BY <1>10, <2>1, GrantType DEF UpsertBeforeBreak
    <2> QED
      BY <2>1, <2>2, UpsertFences
  <1>11. CASE PublishGrant(r)
    <2>1. oldContinuity[r] \in Bindings /\ grant[r] \in Tokens
      BY <1>11, GrantType DEF PublishGrant
    <2>2. \E ok \in BOOLEAN : Upsert(oldContinuity[r], grant[r], ok)
      BY <1>11, <2>1, NoneApart DEF PublishGrant
    <2> QED
      BY <2>1, <2>2, UpsertFences
  <1>12. CASE \/ \E name \in LifecycleOps : MarkLifecycleInProgress(r, name)
              \/ BeginEmbody(r) \/ BeginRegister(r) \/ BeginRemove(r)
              \/ AcquireRefused(r) \/ AcquireGranted(r)
              \/ ResolveForRespawn(r) \/ ResolveForReset(r)
              \/ ResumeSession(r) \/ PrepareCreate(r) \/ InstallSession(r)
              \/ ReadBackRebind(r) \/ DisposeMember(r)
              \/ ReleaseAfterDisposal(r) \/ ReleaseOrPark(r)
              \/ AdoptAuthoritative(r) \/ RestoreRelease(r) \/ BreakEntry(r)
              \/ BreakRelease(r) \/ DrainOrphans(r) \/ LookupRecord(r)
              \/ PrepareBroken(r) \/ PrepareRelease(r) \/ RenewLost(r)
              \/ RenewBroken(r) \/ RenewGranted(r) \/ Shutdown(r)
              \/ Restart(r)
    BY <1>12, <1>a DEF MarkLifecycleInProgress, BeginEmbody, BeginRegister,
      BeginRemove, AcquireRefused, AcquireGranted, ResolveForRespawn,
      ResolveForReset, ResumeSession, PrepareCreate, InstallSession,
      ReadBackRebind, DisposeMember, ReleaseAfterDisposal, ReleaseOrPark,
      AdoptAuthoritative, RestoreRelease, BreakEntry, BreakRelease,
      DrainOrphans, LookupRecord, PrepareBroken, PrepareRelease, RenewLost,
      RenewBroken, RenewGranted, Shutdown, Restart, Grant
  <1> HIDE DEF Typing, OperationTyped, SnapshotTyped, EntryTyped, Coherent,
      OperationsAt, LocalsAt, EntryLawful, Lawful, Ungranted, At,
      LifecycleOps, Remembers
  <1> QED
    BY <1>1, <1>2, <1>3, <1>4, <1>5, <1>6, <1>7, <1>8, <1>9, <1>10, <1>11,
      <1>12 DEF Step

\* A process whose leases the row fences goes on that way.
LEMMA RowFencedStep ==
  ASSUME Inv, NEW r \in Runtimes, ~ExternalBinding, record # None,
         Remembers(r), Remembers(r)', RowFenced(r), Step(r)
  PROVE  RowFenced(r)'
  <1>a. Typing /\ Coherent(r) /\ EntryLawful(r)
    BY DEF Inv
  <1>c. /\ record.token \in Nat /\ grant[r] \in Nat \cup {None}
        /\ lease[r] \in Nat \cup {None} /\ oldLease[r] \in Nat \cup {None}
    BY <1>a, ConstantsAssumption
    DEF Typing, SharedTyped, Rows, EntryTyped, SnapshotTyped, OperationTyped, Tokens
  <1>d. record'.token \in Nat
    BY <1>a, FenceRises, InvStep DEF Inv, Typing, SharedTyped, Rows
  <1>e. record'.token >= record.token
    BY <1>a, FenceRises
  <1>b. /\ pc[r] \in PastFence => record'.token >= grant[r]
        /\ lease[r] # None => record'.token >= lease[r]
        /\ oldLease[r] # None => record'.token >= oldLease[r]
        /\ \A t \in Tokens : t >= t
    BY <1>a, <1>c, <1>d, <1>e, GrantType
    DEF RowFenced, PastFence, Ungranted, Tokens
  <1> USE <1>a
  <1> USE DEF Typing, OperationTyped, SnapshotTyped, EntryTyped, Coherent,
      OperationsAt, LocalsAt, EntryLawful, Lawful, Ungranted, At,
      LifecycleOps, RowFenced, Remembers, PastFence
  <1>1. ASSUME NEW name \in LifecycleOps, MarkLifecycleInProgress(r, name)
        PROVE  RowFenced(r)'
    BY <1>1 DEF MarkLifecycleInProgress
  <1>2. CASE BeginEmbody(r)
    BY <1>2 DEF BeginEmbody
  <1>3. CASE BeginRegister(r)
    BY <1>3 DEF BeginRegister
  <1>4. CASE BeginRemove(r)
    BY <1>4 DEF BeginRemove
  <1>5. CASE AcquireRefused(r)
    BY <1>5 DEF AcquireRefused
  <1>6. CASE AcquireGranted(r)
    BY <1>6 DEF AcquireGranted, Acquirable, Grant
  <1>7. CASE AdvanceFence(r)
    <2>1. oldContinuity[r] \in Bindings /\ grant[r] \in Tokens
      BY <1>7, GrantType DEF AdvanceFence
    <2>2. PICK ok \in BOOLEAN :
            /\ Upsert(oldContinuity[r], grant[r], ok)
            /\ ~ok => pc'[r] \in {"park", "break"}
      BY <1>7, <2>1, NoneApart DEF AdvanceFence, FenceFailed
    <2>3. pc'[r] \in PastFence => record'.token >= grant[r]
      BY <1>b, <2>1, <2>2, UpsertFences DEF PastFence
    <2>4. pc'[r] # "acquire" /\ state[r] # "Active"
      BY <1>7 DEF AdvanceFence, AfterFence, WithoutFence, FenceFailed
    <2> QED
      BY <1>7, <1>b, <2>3, <2>4 DEF AdvanceFence
  <1>8. CASE ResolveForRespawn(r)
    <2>1. CASE Goto(r, "restore") /\ UNCHANGED entry
      BY <1>8, <2>1 DEF ResolveForRespawn
    <2>2. CASE Activate(r, Binding(record)) /\ Done(r)
      BY <1>8, <2>2
      DEF ResolveForRespawn
    <2> QED
      BY <1>8, <2>1, <2>2 DEF ResolveForRespawn
  <1>9. CASE ResolveForReset(r)
    BY <1>9 DEF ResolveForReset, NextGeneration
  <1>10. CASE ResumeSession(r)
    BY <1>10 DEF ResumeSession
  <1>11. CASE PrepareCreate(r)
    BY <1>11 DEF PrepareCreate
  <1>12. CASE UpsertProvisional(r)
    <2>1. /\ state[r] # "Active" /\ pc'[r] # "acquire"
          /\ (pc'[r] \in PastFence => pc[r] \in PastFence)
      BY <1>12 DEF UpsertProvisional, ProvisionalFailed, PastFence
    <2>2. UNCHANGED <<entry, grant, snapshot>>
      BY <1>12 DEF UpsertProvisional
    <2> QED
      BY <2>1, <2>2, <1>b
  <1>13. CASE InstallSession(r)
    BY <1>13 DEF InstallSession
  <1>14. CASE ReadBackRebind(r)
    BY <1>14 DEF ReadBackRebind
  <1>15. CASE UpsertEmbodied(r)
    <2>1. grant[r] \in Tokens /\ state[r] # "Active" /\ attempt[r] \in Bindings
      BY <1>15, GrantType DEF UpsertEmbodied
    <2>2. CASE Upsert(attempt[r], grant[r], TRUE) /\ Done(r)
               /\ \E p \in {pending[r], None} : SetEntry(r, "Active", attempt[r], grant[r], p)
      <3>a. Upsert(attempt[r], grant[r], TRUE)
        BY <2>2
      <3>1. record'.token = grant[r] /\ Binding(record') = attempt[r]
        BY <2>1, <3>a, UpsertFences
      <3>2. /\ continuity'[r] = attempt[r] /\ lease'[r] = grant[r]
            /\ pc'[r] = "idle" /\ oldLease'[r] = None
        BY <2>2
      <3> QED
        BY <1>b, <2>1, <3>1, <3>2
    <2>3. CASE UNCHANGED <<entry, snapshot, grant>> /\ pc[r] \in PastFence
               /\ pc'[r] # "acquire"
      BY <2>3, <2>1, <1>b
    <2> QED
      BY <1>15, <2>2, <2>3, ZenonT(60) DEF UpsertEmbodied, PastFence
  <1>16. CASE UpsertSuccessor(r)
    <2>1. /\ state[r] # "Active" /\ pc'[r] # "acquire"
          /\ (pc'[r] \in PastFence => pc[r] \in PastFence)
      BY <1>16 DEF UpsertSuccessor, PastFence
    <2>2. UNCHANGED <<entry, grant, snapshot>>
      BY <1>16 DEF UpsertSuccessor
    <2> QED
      BY <2>1, <2>2, <1>b
  <1>17. CASE UpsertFinal(r)
    <2>1. grant[r] \in Tokens /\ state[r] # "Active" /\ attempt[r] \in Bindings
      BY <1>17, GrantType DEF UpsertFinal
    <2>2. CASE Upsert(attempt[r], grant[r], TRUE) /\ Done(r)
               /\ \E p \in {pending[r], None} : SetEntry(r, "Active", attempt[r], grant[r], p)
      <3>a. Upsert(attempt[r], grant[r], TRUE)
        BY <2>2
      <3>1. record'.token = grant[r] /\ Binding(record') = attempt[r]
        BY <2>1, <3>a, UpsertFences
      <3>2. /\ continuity'[r] = attempt[r] /\ lease'[r] = grant[r]
            /\ pc'[r] = "idle" /\ oldLease'[r] = None
        BY <2>2
      <3> QED
        BY <1>b, <2>1, <3>1, <3>2
    <2>3. CASE UNCHANGED <<entry, snapshot, grant>> /\ pc[r] \in PastFence
               /\ pc'[r] # "acquire"
      BY <2>3, <2>1, <1>b
    <2> QED
      BY <1>17, <2>2, <2>3, ZenonT(60) DEF UpsertFinal, PastFence
  <1>18. CASE DisposeMember(r)
    BY <1>18 DEF DisposeMember
  <1>19. CASE EraseRecord(r)
    BY <1>19 DEF EraseRecord, Remembers
  <1>20. CASE ReleaseAfterDisposal(r)
    BY <1>20 DEF ReleaseAfterDisposal
  <1>21. CASE UndoEmbodiment(r)
    <2>1. /\ state[r] # "Active" /\ pc'[r] # "acquire"
          /\ (pc'[r] \in PastFence => pc[r] \in PastFence)
      BY <1>21 DEF UndoEmbodiment, PastFence
    <2>2. UNCHANGED <<entry, grant, snapshot>>
      BY <1>21 DEF UndoEmbodiment
    <2> QED
      BY <2>1, <2>2, <1>b
  <1>22. CASE ReleaseOrPark(r)
    BY <1>22 DEF ReleaseOrPark
  <1>23. CASE RollbackReset(r)
    <2>1. /\ state[r] # "Active" /\ pc'[r] # "acquire"
          /\ (pc'[r] \in PastFence => pc[r] \in PastFence)
      BY <1>23 DEF RollbackReset, PastFence
    <2>2. UNCHANGED <<entry, grant, snapshot>>
      BY <1>23 DEF RollbackReset
    <2> QED
      BY <2>1, <2>2, <1>b
  <1>24. CASE AdoptAuthoritative(r)
    BY <1>24 DEF AdoptAuthoritative
  <1>25. CASE RestoreWithGrant(r)
    <2>1. oldContinuity[r] \in Bindings /\ grant[r] \in Tokens
          /\ state[r] # "Active"
      BY <1>25, GrantType DEF RestoreWithGrant
    <2>2. CASE oldState[r] # "Active"
      <3>1. UNCHANGED <<entry, grant, oldLease>> /\ pc'[r] = "restoreRelease"
        BY <1>25, <2>2 DEF RestoreWithGrant, RestoreAs
      <3> QED
        BY <1>b, <2>1, <3>1 DEF PastFence
    <2>3. CASE oldState[r] = "Active"
      <3>1. /\ lease'[r] = grant[r] /\ oldLease'[r] = None /\ pc'[r] = "idle"
            /\ continuity'[r] = oldContinuity[r]
        BY <1>25, <2>3 DEF RestoreWithGrant, RestoreAs
      <3>2. record'.token >= grant[r]
        BY <1>25, <1>b DEF RestoreWithGrant, PastFence
      <3>3. state'[r] = "Active" => Upsert(oldContinuity[r], grant[r], TRUE)
        BY <1>25, <2>1, <2>3, NoneApart DEF RestoreWithGrant, RestoreAs
      <3>4. state'[r] = "Active" => Binding(record') = oldContinuity[r]
        BY <2>1, <3>3, UpsertFences
      <3> QED
        BY <3>1, <3>2, <3>4 DEF PastFence
    <2> QED
      BY <2>2, <2>3
  <1>26. CASE RestoreRelease(r)
    BY <1>26 DEF RestoreRelease
  <1>27. CASE UpsertBeforeBreak(r)
    <2>1. /\ state[r] # "Active" /\ pc'[r] # "acquire"
          /\ (pc'[r] \in PastFence => pc[r] \in PastFence)
      BY <1>27 DEF UpsertBeforeBreak, PastFence
    <2>2. UNCHANGED <<entry, grant, oldState, oldLease>>
      BY <1>27 DEF UpsertBeforeBreak
    <2> QED
      BY <2>1, <2>2, <1>b
  <1>28. CASE BreakEntry(r)
    BY <1>28 DEF BreakEntry
  <1>29. CASE BreakRelease(r)
    BY <1>29 DEF BreakRelease
  <1>30. CASE DrainOrphans(r)
    BY <1>30 DEF DrainOrphans
  <1>31. CASE LookupRecord(r)
    BY <1>31 DEF LookupRecord
  <1>32. CASE PrepareBroken(r)
    BY <1>32 DEF PrepareBroken, NothingToPrepare, Conflicting, Retained,
      Project
  <1>33. CASE PrepareRelease(r)
    BY <1>33 DEF PrepareRelease, Project
  <1>34. CASE RenewLost(r)
    BY <1>34 DEF RenewLost, Due
  <1>35. CASE RenewBroken(r)
    BY <1>35 DEF RenewBroken, Due
  <1>36. CASE RenewGranted(r)
    BY <1>36 DEF RenewGranted, Due, HoldsLease, StageGrant, Grant
  <1>37. CASE PublishGrant(r)
    <2>1. /\ oldContinuity[r] \in Bindings /\ grant[r] \in Tokens
          /\ state[r] = "Broken" /\ lease[r] = None
          /\ continuity[r] = oldContinuity[r]
      BY <1>37, GrantType DEF PublishGrant
    <2>2. pc'[r] = "idle" /\ oldLease'[r] = None
      BY <1>37 DEF PublishGrant
    <2>3. CASE UNCHANGED entry
      BY <2>1, <2>2, <2>3 DEF PastFence
    <2>4. CASE Upsert(oldContinuity[r], grant[r], TRUE)
               /\ SetEntry(r, "Active", continuity[r], grant[r], None)
      <3>1. record'.token = grant[r] /\ Binding(record') = oldContinuity[r]
        BY <2>1, <2>4, UpsertFences
      <3>2. lease'[r] = grant[r] /\ continuity'[r] = oldContinuity[r]
        BY <2>1, <2>4
      <3> QED
        BY <1>b, <2>1, <2>2, <3>1, <3>2 DEF PastFence
    <2> QED
      BY <1>37, <2>1, <2>3, <2>4, NoneApart DEF PublishGrant
  <1>38. CASE Shutdown(r)
    BY <1>38 DEF Shutdown, ShutdownGrants, Retained
  <1>39. CASE Restart(r)
    BY <1>39 DEF Restart, Abandoned, Floor
  <1> HIDE DEF Typing, OperationTyped, SnapshotTyped, EntryTyped, Coherent,
      OperationsAt, LocalsAt, EntryLawful, Lawful, Ungranted, At,
      LifecycleOps, RowFenced, Remembers, PastFence
  <1> QED
    BY <1>1, <1>2, <1>3, <1>4, <1>5, <1>6, <1>7, <1>8, <1>9, <1>10, <1>11,
      <1>12, <1>13, <1>14, <1>15, <1>16, <1>17, <1>18, <1>19, <1>20, <1>21,
      <1>22, <1>23, <1>24, <1>25, <1>26, <1>27, <1>28, <1>29, <1>30, <1>31,
      <1>32, <1>33, <1>34, <1>35, <1>36, <1>37, <1>38, <1>39 DEF Step

\* The step of another process fences it out, or leaves the row alone.
LEMMA RowFencedByOthers ==
  ASSUME Inv, ~ExternalBinding, record # None, NEW r \in Runtimes,
         Remembers(r), Step(r), NEW s \in Runtimes \ {r}, RowFenced(s), Remembers(s)
  PROVE  RowFenced(s)' /\ Remembers(s)'
  <1>1. Typing /\ Typing' /\ Coherent(r) /\ EntryLawful(r) /\ Coherent(s)
    BY InvStep DEF Inv
  <1>2. UNCHANGED <<EntryOf(s), OperationOf(s), SnapshotOf(s)>>
    BY <1>1, OtherEntries, OtherOperations, OtherSnapshots
  <1>a. /\ state'[s] = state[s] /\ continuity'[s] = continuity[s]
        /\ lease'[s] = lease[s] /\ pc'[s] = pc[s] /\ grant'[s] = grant[s]
        /\ oldState'[s] = oldState[s] /\ oldContinuity'[s] = oldContinuity[s]
        /\ oldLease'[s] = oldLease[s]
    BY <1>2 DEF EntryOf, OperationOf, SnapshotOf
  <1>3. Remembers(s)'
    BY <1>2 DEF Remembers, EntryOf, OperationOf, SnapshotOf
  <1>4. record' # None /\ record'.token >= record.token
    BY <1>1, FenceRises
  <1>5. /\ record.token \in Nat /\ record'.token \in Nat
        /\ grant[s] \in Nat \cup {None}
        /\ lease[s] \in Nat \cup {None} /\ oldLease[s] \in Nat \cup {None}
        /\ pc[s] \in PastFence => grant[s] # None
    BY <1>1, <1>4, ConstantsAssumption
    DEF Typing, SharedTyped, Rows, EntryTyped, SnapshotTyped, OperationTyped,
        Tokens, Coherent, LocalsAt, PastFence, Ungranted
  <1>6. \/ UNCHANGED record
        \/ record'.token = grant[r] /\ grant[r] \in Owned(r)
    <2>1. ASSUME pc[r] \in Writing, NEW b \in Bindings,
                 record' = Row(b, grant[r])
          PROVE  record'.token = grant[r] /\ grant[r] \in Owned(r)
      BY <1>1, <2>1, GrantType, NoneApart
      DEF Row, Owned, Writing, Ungranted, Tokens, Coherent, LocalsAt
    <2> QED
      BY <1>1, <1>4, <2>1, RecordStep DEF Inv
  <1>7. /\ pc[s] \in PastFence => record'.token >= grant[s]
        /\ lease[s] # None => record'.token >= lease[s]
        /\ oldLease[s] # None => record'.token >= oldLease[s]
    BY <1>4, <1>5 DEF RowFenced
  <1>8. CASE UNCHANGED record
    BY <1>a, <1>3, <1>7, <1>8 DEF RowFenced, PastFence, Binding
  <1>9. CASE record'.token = grant[r] /\ grant[r] \in Owned(r)
    <2>1. Owned(r) \cap Owned(s) = {}
      BY DEF Inv, TokensGranted
    <2>2. record'.token # lease[s] /\ record'.token # oldLease[s]
      BY <1>9, <2>1 DEF Owned
    <2> QED
      BY <1>a, <1>3, <1>7, <2>2 DEF RowFenced, PastFence
  <1> QED
    BY <1>3, <1>6, <1>8, <1>9

\* Of any number of processes that share a row, whatever expires, fails or
\* restarts, one at most can write it, and the one that is Active under the
\* current lease serves what it binds.  The row must be there (it is absent
\* before the first embodiment and after a delete, and an absent row fences
\* nobody), and the store must answer reads.  No spec has an external binding:
\* embody of one does not fence the row, and removes it when it fails.
THEOREM OneAuthorityAtATime ==
  ASSUME InitialRow # None, "delete" \notin Operations, "read" \notin Faults,
         ~ExternalBinding
  PROVE  Spec => []OneAuthority
  <1> DEFINE J == record # None /\ \A r \in Runtimes : Remembers(r) /\ RowFenced(r)
  <1>1. Init => J
    BY DEF Init, Remembers, RowFenced, PastFence
  <1>2. Inv /\ J /\ [Next]_vars => J'
    <2> SUFFICES ASSUME Inv, J, [Next]_vars
                 PROVE  J'
      OBVIOUS
    <2>1. CASE UNCHANGED vars
      BY <2>1 DEF vars, Remembers, RowFenced, Binding
    <2>2. CASE Expire
      BY <2>2 DEF Expire, Remembers, RowFenced, Binding
    <2>3. ASSUME NEW r \in Runtimes, Step(r)
          PROVE  J'
      <3>1. Typing /\ Coherent(r) /\ EntryLawful(r)
        BY DEF Inv
      <3>2. record' # None
        BY <2>3, <3>1, FenceRises
      <3>3. Remembers(r)'
        BY <2>3, <3>1, RemembersStep
      <3>4. RowFenced(r)'
        BY <2>3, <3>3, RowFencedStep
      <3>5. \A s \in Runtimes \ {r} : RowFenced(s)' /\ Remembers(s)'
        BY <2>3, RowFencedByOthers
      <3> QED
        BY <3>2, <3>3, <3>4, <3>5
    <2> QED
      BY <2>1, <2>2, <2>3 DEF Next
  <1>3. Inv /\ J => OneAuthority
    <2> SUFFICES ASSUME Inv, J
                 PROVE  OneAuthority
      OBVIOUS
    <2>1. /\ record.token \in Nat /\ nextToken \in Nat
          /\ \A r \in Runtimes : lease[r] \in Nat \cup {None}
      BY ConstantsAssumption
      DEF Inv, Typing, SharedTyped, EntryTyped, Rows, Tokens
    <2>2. OneWriter
      <3> SUFFICES ASSUME NEW r \in Runtimes, NEW s \in Runtimes, r # s,
                          lease[r] # None, lease[s] # None
                   PROVE  lease[r] < record.token \/ lease[s] < record.token
        BY DEF OneWriter
      <3>1. lease[r] # lease[s]
        BY DEF Inv, TokensGranted, Owned
      <3> QED
        BY <2>1, <3>1 DEF RowFenced
    <2>3. ActiveMatchesRecord
      <3> SUFFICES ASSUME NEW r \in Runtimes, state[r] = "Active", HoldsLease(r)
                   PROVE  Binding(record) = continuity[r]
        BY DEF ActiveMatchesRecord
      <3>3. lease[r] # None
        BY DEF Inv, EntryLawful, Lawful, LifecycleOps
      <3>1. held # None /\ held.token = lease[r]
        BY <3>3, NoneApart DEF HoldsLease, Inv, Typing, EntryTyped, Leases
      <3>2. held.token = nextToken - 1 /\ record.token < nextToken
        BY <3>1 DEF Inv, TokensGranted, SharedGranted
      <3>5. lease[r] \in Nat /\ record.token \in Nat /\ record.token >= lease[r]
        BY <2>1, <3>3 DEF RowFenced
      <3>6. lease[r] = nextToken - 1 /\ record.token < nextToken
            /\ nextToken \in Nat
        BY <2>1, <3>1, <3>2
      <3>4. record.token = lease[r]
        BY <3>5, <3>6
      <3> QED
        BY <3>4 DEF RowFenced
    <2> QED
      BY <2>2, <2>3 DEF OneAuthority
  <1> QED
    BY <1>1, <1>2, <1>3, Invariance, PTL DEF Spec


-----------------------------------------------------------------------------
(* Custody: no invisible owner. *)


\* The steps of a process keep its lease in custody.
LEMMA CustodyStep ==
  ASSUME Typing, NEW r \in Runtimes, Coherent(r), EntryLawful(r),
         "attach" \notin Faults, Custody(r), Step(r)
  PROVE  Custody(r)'
  <1>a. held # None =>
          /\ held.token # None
          /\ held = [holder |-> held.holder, token |-> held.token]
    BY NoneApart DEF Typing, SharedTyped, Leases, Tokens
  <1> USE DEF Typing, OperationTyped, SnapshotTyped, EntryTyped, Coherent,
      OperationsAt, LocalsAt, EntryLawful, Lawful, Ungranted, At,
      LifecycleOps, Custody, OwnLease, OwnPending
  <1>1. ASSUME NEW name \in LifecycleOps, MarkLifecycleInProgress(r, name)
        PROVE  Custody(r)'
    BY <1>1, <1>a DEF MarkLifecycleInProgress
  <1>2. CASE BeginEmbody(r)
    BY <1>2, <1>a DEF BeginEmbody
  <1>3. CASE BeginRegister(r)
    BY <1>3, <1>a DEF BeginRegister
  <1>4. CASE BeginRemove(r)
    BY <1>4, <1>a DEF BeginRemove
  <1>5. CASE AcquireRefused(r)
    BY <1>5, <1>a DEF AcquireRefused
  <1>6. CASE AcquireGranted(r)
    BY <1>6, <1>a DEF AcquireGranted, Acquirable, Grant
  <1>7. CASE AdvanceFence(r)
    BY <1>7, <1>a DEF AdvanceFence, AfterFence, WithoutFence, FenceFailed, Rebound
  <1>8. CASE ResolveForRespawn(r)
    BY <1>8, <1>a DEF ResolveForRespawn
  <1>9. CASE ResolveForReset(r)
    BY <1>9, <1>a DEF ResolveForReset, NextGeneration
  <1>10. CASE ResumeSession(r)
    BY <1>10, <1>a DEF ResumeSession, May
  <1>11. CASE PrepareCreate(r)
    BY <1>11, <1>a DEF PrepareCreate
  <1>12. CASE UpsertProvisional(r)
    BY <1>12, <1>a DEF UpsertProvisional, ProvisionalFailed
  <1>13. CASE InstallSession(r)
    BY <1>13, <1>a DEF InstallSession
  <1>14. CASE ReadBackRebind(r)
    BY <1>14, <1>a DEF ReadBackRebind
  <1>15. CASE UpsertEmbodied(r)
    BY <1>15, <1>a DEF UpsertEmbodied
  <1>16. CASE UpsertSuccessor(r)
    BY <1>16, <1>a DEF UpsertSuccessor
  <1>17. CASE UpsertFinal(r)
    BY <1>17, <1>a DEF UpsertFinal
  <1>18. CASE DisposeMember(r)
    BY <1>18, <1>a DEF DisposeMember
  <1>19. CASE EraseRecord(r)
    BY <1>19, <1>a DEF EraseRecord
  <1>20. CASE ReleaseAfterDisposal(r)
    BY <1>20, <1>a DEF ReleaseAfterDisposal, Release, HeldAfterRelease
  <1>21. CASE UndoEmbodiment(r)
    BY <1>21, <1>a DEF UndoEmbodiment
  <1>22. CASE ReleaseOrPark(r)
    <2>1. \/ orphans'[r] = orphans[r] \cup {grant[r]}
          \/ held' = HeldAfterRelease({grant[r]})
      BY <1>22 DEF ReleaseOrPark, Release, SharedTyped
    <2>2. held' \in {held, None} /\ up' = up
      BY <1>22 DEF ReleaseOrPark, Release, HeldAfterRelease
    <2> QED
      BY <1>22, <2>1, <2>2, <1>a DEF ReleaseOrPark, Release, HeldAfterRelease
  <1>23. CASE RollbackReset(r)
    BY <1>23, <1>a DEF RollbackReset
  <1>24. CASE AdoptAuthoritative(r)
    BY <1>24, <1>a DEF AdoptAuthoritative
  <1>25. CASE RestoreWithGrant(r)
    BY <1>25, <1>a DEF RestoreWithGrant, RestoreAs
  <1>26. CASE RestoreRelease(r)
    BY <1>26, <1>a DEF RestoreRelease, Release, HeldAfterRelease
  <1>27. CASE UpsertBeforeBreak(r)
    BY <1>27, <1>a DEF UpsertBeforeBreak
  <1>28. CASE BreakEntry(r)
    BY <1>28, <1>a DEF BreakEntry
  <1>29. CASE BreakRelease(r)
    BY <1>29, <1>a DEF BreakRelease, Release, HeldAfterRelease
  <1>30. CASE DrainOrphans(r)
    BY <1>30, <1>a DEF DrainOrphans, Release, HeldAfterRelease
  <1>31. CASE LookupRecord(r)
    BY <1>31, <1>a DEF LookupRecord
  <1>32. CASE PrepareBroken(r)
    BY <1>32, <1>a DEF PrepareBroken, NothingToPrepare, Conflicting, Retained,
      Project
  <1>33. CASE PrepareRelease(r)
    BY <1>33, <1>a DEF PrepareRelease, Project, Release, HeldAfterRelease
  <1>34. CASE RenewLost(r)
    BY <1>34, <1>a DEF RenewLost, Due, HoldsLease
  <1>35. CASE RenewBroken(r)
    BY <1>35, <1>a DEF RenewBroken, Due
  <1>36. CASE RenewGranted(r)
    BY <1>36, <1>a DEF RenewGranted, Due, HoldsLease, StageGrant, Grant
  <1>37. CASE PublishGrant(r)
    BY <1>37, <1>a DEF PublishGrant
  <1>38. CASE Shutdown(r)
    <2>1. ~up'[r]
      BY <1>38 DEF Shutdown, SharedTyped
    <2> QED
      BY <2>1
  <1>39. CASE Restart(r)
    <2>1. held' # None => held'.holder # r
      BY <1>39, ConstantsAssumption DEF Restart, Abandoned
    <2> QED
      BY <2>1
  <1> HIDE DEF Typing, OperationTyped, SnapshotTyped, EntryTyped, Coherent,
      OperationsAt, LocalsAt, EntryLawful, Lawful, Ungranted, At,
      LifecycleOps, Custody, OwnLease, OwnPending
  <1> QED
    BY <1>1, <1>2, <1>3, <1>4, <1>5, <1>6, <1>7, <1>8, <1>9, <1>10, <1>11,
      <1>12, <1>13, <1>14, <1>15, <1>16, <1>17, <1>18, <1>19, <1>20, <1>21,
      <1>22, <1>23, <1>24, <1>25, <1>26, <1>27, <1>28, <1>29, <1>30, <1>31,
      <1>32, <1>33, <1>34, <1>35, <1>36, <1>37, <1>38, <1>39 DEF Step

\* A step of another process books nothing on it.
LEMMA CustodyOthers ==
  ASSUME Typing, \A s \in Runtimes : Coherent(s), NEW r \in Runtimes, Step(r),
         NEW s \in Runtimes \ {r}
  PROVE  /\ held' # None /\ held'.holder = s => held' = held
         /\ up'[s] = up[s]
         /\ Custody(s) => Custody(s)'
  <1>1. held' # None /\ held'.holder = s => held' = held
    <2>1. CASE Grant(r)
      BY <2>1 DEF Grant
    <2>2. CASE Restart(r)
      BY <2>2, ConstantsAssumption DEF Restart, Abandoned
    <2> QED
      BY <2>1, <2>2, HeldStep
  <1>2. UNCHANGED <<EntryOf(s), OperationOf(s), SnapshotOf(s), <<orphans[s], up[s]>> >>
    BY OtherEntries, OtherOperations, OtherSnapshots, OtherLedgers
  <1>3. /\ lease'[s] = lease[s] /\ pending'[s] = pending[s] /\ pc'[s] = pc[s]
        /\ grant'[s] = grant[s] /\ oldLease'[s] = oldLease[s]
        /\ oldPending'[s] = oldPending[s] /\ orphans'[s] = orphans[s]
        /\ up'[s] = up[s]
    BY <1>2 DEF EntryOf, OperationOf, SnapshotOf
  <1>4. Custody(s) => Custody(s)'
    BY <1>1, <1>3 DEF Custody, OwnLease, OwnPending, Ungranted
  <1> QED
    BY <1>1, <1>3, <1>4

\* Custody holds in every process.
LEMMA CustodyInvariance ==
  ASSUME "attach" \notin Faults
  PROVE  Spec => [](\A r \in Runtimes : Custody(r))
  <1> DEFINE J == \A r \in Runtimes : Custody(r)
  <1>1. Init => J
    BY DEF Init, Custody
  <1>2. Inv /\ J /\ [Next]_vars => J'
    <2> SUFFICES ASSUME Inv, J, [Next]_vars
                 PROVE  J'
      OBVIOUS
    <2>1. CASE UNCHANGED vars
      BY <2>1
      DEF vars, Custody, OwnLease, OwnPending, Ungranted
    <2>2. CASE Expire
      BY <2>2 DEF Expire, Custody
    <2>3. ASSUME NEW r \in Runtimes, Step(r)
          PROVE  J'
      <3>1. Custody(r)'
        BY <2>3, CustodyStep DEF Inv
      <3>2. \A s \in Runtimes \ {r} : Custody(s)'
        BY <2>3, CustodyOthers DEF Inv
      <3> QED
        BY <3>1, <3>2
    <2> QED
      BY <2>1, <2>2, <2>3 DEF Next
  <1> QED
    BY <1>1, <1>2, Invariance, PTL DEF Spec

\* No invisible owner, for any number of processes: through every error branch
\* a lease the provider books on a running process is one that process can
\* still name and release.  The one path that loses it is the attach
\* postcondition of embodiment, which returns without releasing the grant.
THEOREM NoOwnerIsInvisible ==
  ASSUME "attach" \notin Faults
  PROVE  Spec => []NoInvisibleOwner
  <1>1. (\A r \in Runtimes : Custody(r)) => NoInvisibleOwner
    BY DEF Custody, OwnLease, OwnPending, NoInvisibleOwner, Known
  <1> QED
    BY <1>1, CustodyInvariance, PTL


\* Without respawn and reset, no entry hides one grant behind another.
LEMMA NoneHiddenStep ==
  ASSUME Typing, NEW r \in Runtimes, Coherent(r), EntryLawful(r),
         "respawn" \notin Operations, "reset" \notin Operations,
         NoneHidden(r), Step(r)
  PROVE  NoneHidden(r)'
  <1> USE DEF Typing, OperationTyped, SnapshotTyped, EntryTyped, Coherent,
      OperationsAt, LocalsAt, EntryLawful, Lawful, Ungranted, At,
      LifecycleOps, NoneHidden
  <1>1. ASSUME NEW name \in LifecycleOps, MarkLifecycleInProgress(r, name)
        PROVE  NoneHidden(r)'
    BY <1>1 DEF MarkLifecycleInProgress
  <1>2. CASE BeginEmbody(r)
    BY <1>2 DEF BeginEmbody
  <1>3. CASE BeginRegister(r)
    BY <1>3 DEF BeginRegister
  <1>4. CASE BeginRemove(r)
    BY <1>4 DEF BeginRemove
  <1>5. CASE AcquireRefused(r)
    BY <1>5 DEF AcquireRefused
  <1>6. CASE ResolveForRespawn(r)
    BY <1>6 DEF ResolveForRespawn
  <1>7. CASE ResumeSession(r)
    BY <1>7 DEF ResumeSession
  <1>8. CASE UpsertEmbodied(r)
    BY <1>8 DEF UpsertEmbodied
  <1>9. CASE UpsertFinal(r)
    BY <1>9 DEF UpsertFinal
  <1>10. CASE ReleaseAfterDisposal(r)
    BY <1>10 DEF ReleaseAfterDisposal
  <1>11. CASE ReleaseOrPark(r)
    BY <1>11 DEF ReleaseOrPark
  <1>12. CASE AdoptAuthoritative(r)
    BY <1>12 DEF AdoptAuthoritative
  <1>13. CASE RestoreWithGrant(r)
    BY <1>13 DEF RestoreWithGrant, RestoreAs
  <1>14. CASE RestoreRelease(r)
    BY <1>14 DEF RestoreRelease
  <1>15. CASE UpsertBeforeBreak(r)
    BY <1>15 DEF UpsertBeforeBreak
  <1>16. CASE BreakEntry(r)
    BY <1>16 DEF BreakEntry
  <1>17. CASE BreakRelease(r)
    BY <1>17 DEF BreakRelease
  <1>18. CASE DrainOrphans(r)
    BY <1>18 DEF DrainOrphans
  <1>19. CASE LookupRecord(r)
    BY <1>19 DEF LookupRecord
  <1>20. CASE PrepareBroken(r)
    BY <1>20 DEF PrepareBroken, NothingToPrepare, Conflicting, Retained,
      Project
  <1>21. CASE PrepareRelease(r)
    BY <1>21 DEF PrepareRelease, Project
  <1>22. CASE RenewLost(r)
    BY <1>22 DEF RenewLost, Due
  <1>23. CASE RenewBroken(r)
    BY <1>23 DEF RenewBroken, Due
  <1>24. CASE RenewGranted(r)
    BY <1>24 DEF RenewGranted, Due, HoldsLease, StageGrant, Grant
  <1>25. CASE PublishGrant(r)
    BY <1>25 DEF PublishGrant
  <1>26. CASE Shutdown(r)
    BY <1>26 DEF Shutdown, ShutdownGrants, Retained
  <1>27. CASE Restart(r)
    BY <1>27 DEF Restart, Abandoned, Floor
  <1>28. CASE \/ AcquireGranted(r) \/ AdvanceFence(r) \/ ResolveForReset(r)
              \/ PrepareCreate(r) \/ UpsertProvisional(r)
              \/ InstallSession(r) \/ ReadBackRebind(r)
              \/ UpsertSuccessor(r) \/ DisposeMember(r) \/ EraseRecord(r)
              \/ UndoEmbodiment(r) \/ RollbackReset(r)
    BY <1>28 DEF AcquireGranted, AdvanceFence, ResolveForReset, PrepareCreate,
      UpsertProvisional, InstallSession, ReadBackRebind, UpsertSuccessor,
      DisposeMember, EraseRecord, UndoEmbodiment, RollbackReset, Grant
  <1> HIDE DEF Typing, OperationTyped, SnapshotTyped, EntryTyped, Coherent,
      OperationsAt, LocalsAt, EntryLawful, Lawful, Ungranted, At,
      LifecycleOps, NoneHidden
  <1> QED
    BY <1>1, <1>2, <1>3, <1>4, <1>5, <1>6, <1>7, <1>8, <1>9, <1>10, <1>11,
      <1>12, <1>13, <1>14, <1>15, <1>16, <1>17, <1>18, <1>19, <1>20, <1>21,
      <1>22, <1>23, <1>24, <1>25, <1>26, <1>27, <1>28 DEF Step

\* A process leaves only by a shutdown.
LEMMA UpStep ==
  ASSUME Typing, NEW r \in Runtimes, Typing, Step(r)
  PROVE  up'[r] = up[r] \/ up'[r] \/ Shutdown(r)
  <1> HIDE DEF Jump, Goto, Operate, Snapshot, SnapshotEntry, Begin, Done,
      SetEntry, RemoveEntry, Activate, Attempt, BreakWith
  <1> USE DEF Typing, SharedTyped
  <1>1. CASE Shutdown(r)
    BY <1>1 DEF Shutdown, ShutdownGrants, Retained
  <1>2. CASE Restart(r)
    BY <1>2 DEF Restart, Abandoned, Floor
  <1>3. CASE \/ \E name \in LifecycleOps : MarkLifecycleInProgress(r, name)
             \/ BeginEmbody(r) \/ BeginRegister(r) \/ BeginRemove(r)
             \/ AcquireRefused(r) \/ AcquireGranted(r) \/ AdvanceFence(r)
             \/ ResolveForRespawn(r) \/ ResolveForReset(r)
             \/ ResumeSession(r) \/ PrepareCreate(r) \/ UpsertProvisional(r)
             \/ InstallSession(r) \/ ReadBackRebind(r) \/ UpsertEmbodied(r)
             \/ UpsertSuccessor(r) \/ UpsertFinal(r) \/ DisposeMember(r)
             \/ EraseRecord(r) \/ ReleaseAfterDisposal(r)
             \/ UndoEmbodiment(r) \/ ReleaseOrPark(r) \/ RollbackReset(r)
             \/ AdoptAuthoritative(r) \/ RestoreWithGrant(r)
             \/ RestoreRelease(r) \/ UpsertBeforeBreak(r) \/ BreakEntry(r)
             \/ BreakRelease(r) \/ DrainOrphans(r) \/ LookupRecord(r)
             \/ PrepareBroken(r) \/ PrepareRelease(r) \/ RenewLost(r)
             \/ RenewBroken(r) \/ RenewGranted(r) \/ PublishGrant(r)
    BY <1>3 DEF MarkLifecycleInProgress, BeginEmbody, BeginRegister,
      BeginRemove, AcquireRefused, AcquireGranted, AdvanceFence,
      ResolveForRespawn, ResolveForReset, ResumeSession, PrepareCreate,
      UpsertProvisional, InstallSession, ReadBackRebind, UpsertEmbodied,
      UpsertSuccessor, UpsertFinal, DisposeMember, EraseRecord,
      ReleaseAfterDisposal, UndoEmbodiment, ReleaseOrPark, RollbackReset,
      AdoptAuthoritative, RestoreWithGrant, RestoreRelease, UpsertBeforeBreak,
      BreakEntry, BreakRelease, DrainOrphans, LookupRecord, PrepareBroken,
      PrepareRelease, RenewLost, RenewBroken, RenewGranted, PublishGrant,
      Grant
  <1> HIDE DEF Typing, SharedTyped
  <1> QED
    BY <1>1, <1>2, <1>3 DEF Step

\* A process that goes down leaves no lease behind.
LEMMA ShutdownStep ==
  ASSUME Inv, NEW r \in Runtimes, Step(r), Custody(r), NoneHidden(r),
         ~up[r] /\ held # None => held.holder # r
  PROVE  ~up'[r] /\ held' # None => held'.holder # r
  <1>1. Typing /\ \A s \in Runtimes : Coherent(s)
    BY DEF Inv
  <1>2. CASE Shutdown(r)
    <2>1. ASSUME held # None, held.holder = r, up[r], pc[r] = "idle"
          PROVE  held.token \in ShutdownGrants(r)
      <3>1. held.token # None
        BY <1>1, <2>1, NoneApart DEF Typing, SharedTyped, Leases, Tokens
      <3> QED
        BY <2>1, <3>1
        DEF Custody, OwnLease, OwnPending, Ungranted, NoneHidden, ShutdownGrants,
            Retained
    <2> QED
      BY <1>2, <2>1 DEF Shutdown, HeldAfterRelease
  <1>3. CASE Restart(r)
    BY <1>1, <1>3 DEF Restart, Typing, SharedTyped
  <1>4. CASE UNCHANGED provider /\ up'[r] = up[r]
    BY <1>4
  <1>5. CASE Grant(r) /\ up[r] /\ up'[r] = up[r]
    BY <1>5
  <1> QED
    BY <1>1, <1>2, <1>3, <1>4, <1>5, HeldStep, UpStep

\* Without the operations that reacquire over a parked grant (respawn and
\* reset), a shutdown leaves no lease behind and no entry is Active beside an
\* older grant, for any number of processes.
THEOREM GrantsStayAccounted ==
  ASSUME "attach" \notin Faults, "respawn" \notin Operations,
         "reset" \notin Operations
  PROVE  Spec => []GrantsAccounted
  <1> DEFINE J == ShutdownReleasesAll /\ \A r \in Runtimes : NoneHidden(r)
             C == \A r \in Runtimes : Custody(r)
  <1>1. Init => J
    BY DEF Init, NoneHidden, ShutdownReleasesAll
  <1>2. Inv /\ C /\ J /\ [Next]_vars => J'
    <2> SUFFICES ASSUME Inv, C, J, [Next]_vars
                 PROVE  J'
      OBVIOUS
    <2>1. CASE UNCHANGED vars
      BY <2>1
      DEF vars, NoneHidden, ShutdownReleasesAll
    <2>2. CASE Expire
      BY <2>2
      DEF Expire, NoneHidden, ShutdownReleasesAll
    <2>3. ASSUME NEW r \in Runtimes, Step(r)
          PROVE  J'
      <3>1. Typing /\ Coherent(r) /\ EntryLawful(r) /\ \A s \in Runtimes : Coherent(s)
        BY DEF Inv
      <3>2. NoneHidden(r)'
        BY <2>3, <3>1, NoneHiddenStep
      <3>3. ASSUME NEW s \in Runtimes \ {r}
            PROVE  NoneHidden(s)'
        <4>1. UNCHANGED <<EntryOf(s), OperationOf(s), SnapshotOf(s)>>
          BY <2>3, <3>1, OtherEntries, OtherOperations, OtherSnapshots
        <4> QED
          BY <4>1 DEF NoneHidden, EntryOf, OperationOf, SnapshotOf
      <3>4. ~up'[r] /\ held' # None => held'.holder # r
        BY <2>3, ShutdownStep DEF ShutdownReleasesAll
      <3>5. ASSUME NEW s \in Runtimes \ {r}
            PROVE  ~up'[s] /\ held' # None => held'.holder # s
        BY <2>3, <3>1, CustodyOthers DEF ShutdownReleasesAll
      <3> QED
        BY <3>2, <3>3, <3>4, <3>5 DEF ShutdownReleasesAll
    <2> QED
      BY <2>1, <2>2, <2>3 DEF Next
  <1>3. Inv /\ J => GrantsAccounted
    BY DEF Inv, EntryLawful, Lawful, NoneHidden, GrantsAccounted,
       ActiveHasNoPending
  <1>4. Spec => []C
    BY CustodyInvariance
  <1> HIDE DEF C
  <1> QED
    BY <1>1, <1>2, <1>3, <1>4, Invariance, PTL DEF Spec


-----------------------------------------------------------------------------
(* One process whose store answers every write: restore is resume-first. *)


\* A write that passes the checks of the store is acknowledged and leaves the
\* row it was given.
LEMMA UpsertAnswered ==
  ASSUME StoreAnswers, NEW b \in Bindings, NEW t \in Tokens,
         NEW ok \in BOOLEAN, Upsert(b, t, ok), UpsertAdmitted(b, t)
  PROVE  /\ ok = TRUE
         /\ record' # None /\ Binding(record') = b
         /\ record'.token = t /\ record'.gen = b.gen
  <1>1. ok = TRUE /\ record' = Row(b, t)
    BY DEF StoreAnswers, May, Upsert, Write
  <1>2. record' # None /\ Binding(record') = b
    BY <1>1, UpsertServes
  <1> QED
    BY <1>1, <1>2 DEF Row

\* The binding of a row has the generation of the row.
LEMMA BindingGeneration ==
  ASSUME Typing, NEW b \in Bindings, Binding(record) = b
  PROVE  record # None /\ record.gen = b.gen /\ record.gen \in Nat
  BY NoneApart DEF Binding, Bindings, Typing, SharedTyped, Rows, Generations

\* A process that remembers the row, and whose writes pass, goes on so.
LEMMA RemembersRowStep ==
  ASSUME Inv, StoreAnswers, ~ExternalBinding, NEW r \in Runtimes,
         RemembersRow(r), WritesPass(r), Step(r)
  PROVE  RemembersRow(r)' /\ WritesPass(r)'
  <1> DEFINE Goal == RemembersRow(r)' /\ WritesPass(r)'
  <1>a. Typing /\ Coherent(r) /\ EntryLawful(r)
    BY DEF Inv
  <1>b. /\ nextToken \in Nat
        /\ record # None => record.token \in Nat /\ record.token < nextToken
        /\ held # None => held.token = nextToken - 1
    BY DEF Inv, Typing, SharedTyped, TokensGranted, SharedGranted, Rows
  <1>c. /\ pc[r] \notin Ungranted => grant[r] \in Tokens
        /\ attempt[r] # None => attempt[r] \in Bindings
        /\ oldContinuity[r] # None => oldContinuity[r] \in Bindings
        /\ record # None => record.gen \in Nat
    BY <1>a, GrantType
    DEF Typing, OperationTyped, SnapshotTyped, SharedTyped, Rows, Generations
  <1>d. oldContinuity[r] # None /\ Binding(record) = oldContinuity[r] =>
          record # None /\ record.gen = oldContinuity[r].gen
    BY <1>a, <1>c, BindingGeneration
  <1>e. Binding(record) = None => record = None
    BY <1>a, NoneApart DEF Binding, Bindings, Typing, SharedTyped, Rows
  <1>f. Binding(None) = None
    BY DEF Binding
  <1>g. oldContinuity[r] # None /\ pc[r] \in SnapshotCurrent \cap Writing =>
          UpsertAdmitted(oldContinuity[r], grant[r])
    BY <1>c, <1>d DEF UpsertAdmitted, WritesPass, RemembersRow
  <1> USE DEF Typing, OperationTyped, SnapshotTyped, EntryTyped, Coherent,
      OperationsAt, LocalsAt, EntryLawful, Lawful, Ungranted, At,
      LifecycleOps, RemembersRow, WritesPass, EntryCurrent, SnapshotCurrent,
      Writing, Serves
  <1>1. ASSUME NEW name \in LifecycleOps, MarkLifecycleInProgress(r, name)
        PROVE  Goal
    BY <1>a, <1>1 DEF MarkLifecycleInProgress
  <1>2. CASE BeginEmbody(r)
    BY <1>a, <1>2 DEF BeginEmbody
  <1>3. CASE BeginRegister(r)
    BY <1>a, <1>3 DEF BeginRegister
  <1>4. CASE BeginRemove(r)
    BY <1>a, <1>4 DEF BeginRemove
  <1>5. CASE AcquireRefused(r)
    BY <1>a, <1>5 DEF AcquireRefused
  <1>6. CASE AcquireGranted(r)
    BY <1>a, <1>b, <1>6 DEF AcquireGranted, Acquirable, Grant
  <1>7. CASE AdvanceFence(r)
    <2>1. CASE oldContinuity[r] = None
      BY <1>a, <1>7, <1>e, <2>1 DEF AdvanceFence, AfterFence, WithoutFence
    <2>2. CASE oldContinuity[r] # None
      <3>1. PICK ok \in BOOLEAN :
              /\ Upsert(oldContinuity[r], grant[r], ok)
              /\ Jump(r, IF ok THEN AfterFence(op[r]) ELSE FenceFailed(op[r]))
        BY <1>7, <2>2 DEF AdvanceFence
      <3>2. /\ ok = TRUE
            /\ record' # None /\ Binding(record') = oldContinuity[r]
            /\ record'.token = grant[r] /\ record'.gen = oldContinuity[r].gen
        BY <1>7, <1>c, <1>g, <2>2, <3>1, UpsertAnswered DEF AdvanceFence
      <3>3. grant[r] \in Nat /\ oldContinuity[r].gen \in Nat
        BY <1>7, <1>c, <2>2 DEF AdvanceFence, Tokens, Bindings, Generations
      <3>4. op[r] = "rebind" => attempt'[r].gen = oldContinuity[r].gen
        BY <1>a, <1>7, <2>2 DEF AdvanceFence, Rebound
      <3> QED
        BY <1>a, <1>7, <3>1, <3>2, <3>3, <3>4 DEF AdvanceFence, AfterFence, WithoutFence
    <2> QED
      BY <2>1, <2>2
  <1>8. CASE ResolveForRespawn(r)
    BY <1>a, <1>8 DEF ResolveForRespawn
  <1>9. CASE ResolveForReset(r)
    <2>1. CASE Goto(r, "restore")
      BY <1>a, <1>9, <2>1 DEF ResolveForReset
    <2>2. CASE Attempt(r, "provisional",
                       [session |-> 2 * grant[r], gen |-> NextGeneration])
      <3>1. attempt'[r].gen = NextGeneration
        BY <1>a, <2>2
      <3>2. record # None => attempt'[r].gen >= record.gen
        BY <1>c, <3>1 DEF NextGeneration
      <3> QED
        BY <1>a, <1>9, <2>2, <3>2 DEF ResolveForReset
    <2> QED
      BY <1>9, <2>1, <2>2 DEF ResolveForReset
  <1>10. CASE ResumeSession(r)
    <2>1. oldContinuity[r] # None /\ Binding(record) = oldContinuity[r]
          /\ record # None /\ record.gen = oldContinuity[r].gen
      BY <1>a, <1>10, <1>d DEF ResumeSession
    <2>2. ASSUME NEW s,
                 Attempt(r, "actual", [session |-> s, gen |-> oldContinuity[r].gen]),
                 UNCHANGED entry
          PROVE  Goal
      <3>1. attempt'[r].gen = record.gen
        BY <1>a, <2>1, <2>2
      <3> QED
        BY <1>a, <1>10, <2>1, <2>2, <3>1 DEF ResumeSession
    <2>3. CASE Goto(r, "park")
      BY <1>a, <1>10, <2>1, <2>3 DEF ResumeSession
    <2>4. CASE Done(r) /\ UNCHANGED entry
      BY <1>a, <1>10, <2>1, <2>4 DEF ResumeSession
    <2> QED
      BY <1>10, <2>2, <2>3, <2>4 DEF ResumeSession
  <1>11. CASE PrepareCreate(r)
    BY <1>a, <1>e, <1>11 DEF PrepareCreate
  <1>12. CASE UpsertProvisional(r)
    <2>1. attempt[r] \in Bindings /\ grant[r] \in Tokens
      BY <1>a, <1>c, <1>12 DEF UpsertProvisional
    <2>2. UpsertAdmitted(attempt[r], grant[r])
      BY <1>12 DEF UpsertProvisional, UpsertAdmitted
    <2>3. PICK ok \in BOOLEAN :
            /\ Upsert(attempt[r], grant[r], ok)
            /\ Jump(r, IF ok THEN "install" ELSE ProvisionalFailed(op[r]))
      BY <1>12 DEF UpsertProvisional
    <2>4. /\ ok = TRUE
          /\ record' # None /\ Binding(record') = attempt[r]
          /\ record'.token = grant[r]
      BY <2>1, <2>2, <2>3, UpsertAnswered
    <2>5. grant[r] \in Nat
      BY <2>1 DEF Tokens
    <2> QED
      BY <1>a, <1>12, <2>3, <2>4, <2>5 DEF UpsertProvisional
  <1>13. CASE InstallSession(r)
    <2>1. record # None /\ attempt[r] \in Bindings /\ attempt[r].gen = record.gen
      BY <1>a, <1>c, <1>13, BindingGeneration DEF InstallSession
    <2>2. ASSUME NEW s,
                 Attempt(r, "actual", [session |-> s, gen |-> attempt[r].gen])
          PROVE  Goal
      <3>1. attempt'[r].gen = record.gen
        BY <1>a, <2>1, <2>2
      <3> QED
        BY <1>a, <1>13, <2>1, <2>2, <3>1 DEF InstallSession
    <2>3. CASE Goto(r, IF op[r] = "reset" THEN "rollback" ELSE "discard")
      BY <1>a, <1>13, <2>1, <2>3 DEF InstallSession
    <2> QED
      BY <1>13, <2>2, <2>3 DEF InstallSession
  <1>14. CASE ReadBackRebind(r)
    BY <1>a, <1>14 DEF ReadBackRebind
  <1>15. CASE UpsertEmbodied(r)
    <2>1. attempt[r] \in Bindings /\ grant[r] \in Tokens /\ grant[r] \in Nat
      BY <1>a, <1>c, <1>15 DEF UpsertEmbodied, Tokens
    <2>2. UpsertAdmitted(attempt[r], grant[r])
      BY <1>c, <1>15 DEF UpsertEmbodied, UpsertAdmitted
    <2>3. \A ok \in BOOLEAN : Upsert(attempt[r], grant[r], ok) =>
            /\ ok = TRUE
            /\ record' # None /\ Binding(record') = attempt[r]
            /\ record'.token = grant[r] /\ record'.gen = attempt[r].gen
      BY <2>1, <2>2, UpsertAnswered
    <2>4. /\ record' # None /\ Binding(record') = attempt[r]
          /\ record'.token = grant[r] /\ record'.gen = record.gen
      BY <1>15, <2>3 DEF UpsertEmbodied
    <2>5. CASE Activate(r, attempt[r]) /\ Done(r)
      BY <1>a, <1>15, <2>4, <2>5 DEF UpsertEmbodied
    <2>6. CASE Goto(r, "undo") /\ UNCHANGED entry
      BY <1>a, <1>15, <2>1, <2>4, <2>6 DEF UpsertEmbodied
    <2> QED
      BY <1>15, <2>5, <2>6 DEF UpsertEmbodied
  <1>16. CASE UpsertSuccessor(r)
    <2>1. attempt[r] \in Bindings /\ grant[r] \in Tokens /\ grant[r] \in Nat
      BY <1>a, <1>c, <1>16 DEF UpsertSuccessor, Tokens
    <2>2. UpsertAdmitted(attempt[r], grant[r])
      BY <1>c, <1>16 DEF UpsertSuccessor, UpsertAdmitted
    <2>3. \A ok \in BOOLEAN : Upsert(attempt[r], grant[r], ok) =>
            /\ ok = TRUE
            /\ record' # None /\ Binding(record') = attempt[r]
            /\ record'.token = grant[r] /\ record'.gen = attempt[r].gen
      BY <2>1, <2>2, UpsertAnswered
    <2>4. /\ record' # None /\ Binding(record') = attempt[r]
          /\ record'.token = grant[r]
      BY <1>16, <2>3 DEF UpsertSuccessor
    <2>5. CASE Jump(r, "final")
      BY <1>a, <1>16, <2>1, <2>4, <2>5 DEF UpsertSuccessor
    <2>6. CASE Jump(r, "rollback") /\ expected'[r] = attempt[r]
      BY <1>a, <1>16, <2>1, <2>4, <2>6 DEF UpsertSuccessor
    <2>7. PICK ok \in BOOLEAN :
            /\ Upsert(attempt[r], grant[r], ok)
            /\ \/ Jump(r, "final")
               \/ /\ Jump(r, "rollback")
                  /\ expected' = [expected EXCEPT ![r] = IF ok THEN attempt[r] ELSE @]
      BY <1>16 DEF UpsertSuccessor
    <2>8. ok = TRUE
      BY <2>3, <2>7
    <2> QED
      BY <1>a, <2>5, <2>6, <2>7, <2>8
  <1>17. CASE UpsertFinal(r)
    <2>1. attempt[r] \in Bindings /\ grant[r] \in Tokens
      BY <1>a, <1>c, <1>17 DEF UpsertFinal
    <2>2. UpsertAdmitted(attempt[r], grant[r])
      <3>1. record # None /\ record.gen = attempt[r].gen /\ record.gen \in Nat
        BY <1>a, <1>17, <2>1, BindingGeneration DEF UpsertFinal
      <3> QED
        BY <1>17, <3>1 DEF UpsertFinal, UpsertAdmitted
    <2>3. \A ok \in BOOLEAN : Upsert(attempt[r], grant[r], ok) =>
            ok = TRUE /\ record' # None /\ Binding(record') = attempt[r]
      BY <2>1, <2>2, UpsertAnswered
    <2>4. /\ Done(r)
          /\ \E p \in {pending[r], None} :
               SetEntry(r, "Active", attempt[r], grant[r], p)
          /\ Binding(record') = attempt[r]
      BY <1>17, <2>3 DEF UpsertFinal
    <2> QED
      BY <1>a, <1>17, <2>4 DEF UpsertFinal
  <1>18. CASE DisposeMember(r)
    BY <1>a, <1>18 DEF DisposeMember
  <1>19. CASE EraseRecord(r)
    <2>1. PICK ok \in BOOLEAN :
            Delete(grant[r], ok) /\ Goto(r, IF ok THEN "release" ELSE "break")
      BY <1>19 DEF EraseRecord
    <2>2. ok = TRUE /\ record' = None
      BY <1>19, <2>1 DEF EraseRecord, Delete, Write, StoreAnswers, May
    <2> QED
      BY <1>a, <1>f, <1>19, <2>1, <2>2 DEF EraseRecord
  <1>20. CASE ReleaseAfterDisposal(r)
    BY <1>a, <1>20 DEF ReleaseAfterDisposal
  <1>21. CASE UndoEmbodiment(r)
    <2>1. continuity[r] = oldContinuity[r] /\ op[r] = "embody"
      BY <1>a, <1>21 DEF UndoEmbodiment
    <2>2. Binding(record') = oldContinuity[r]
      <3>1. CASE oldContinuity[r] = None
        <4>1. record' = None
          BY <1>21, <3>1 DEF UndoEmbodiment, Delete, Write, StoreAnswers, May
        <4> QED
          BY <1>f, <3>1, <4>1
      <3>2. CASE oldContinuity[r] # None
        <4>1. UpsertAdmitted(oldContinuity[r], grant[r])
          BY <1>c, <1>21, <2>1, <3>2 DEF UndoEmbodiment, UpsertAdmitted
        <4>2. grant[r] \in Tokens /\ oldContinuity[r] \in Bindings
          BY <1>c, <1>21, <3>2 DEF UndoEmbodiment
        <4> QED
          BY <1>21, <3>2, <4>1, <4>2, UpsertAnswered DEF UndoEmbodiment
      <3> QED
        BY <3>1, <3>2
    <2> QED
      BY <1>a, <1>21, <2>1, <2>2 DEF UndoEmbodiment
  <1>22. CASE ReleaseOrPark(r)
    BY <1>a, <1>22 DEF ReleaseOrPark
  <1>23. CASE RollbackReset(r)
    <2>1. RollbackAdmitted(expected[r], grant[r])
      BY <1>a, <1>23 DEF RollbackReset, RollbackAdmitted
    <2>2. PICK ok \in BOOLEAN :
            /\ Rollback(expected[r], oldContinuity[r], grant[r], ok)
            /\ Goto(r, IF ~ok THEN "authoritative"
                       ELSE IF broken[r] THEN "break" ELSE "restore")
      BY <1>23 DEF RollbackReset
    <2>3. /\ ok = TRUE
          /\ record' = IF oldContinuity[r] = None THEN None
                       ELSE Row(oldContinuity[r], grant[r])
      BY <2>1, <2>2 DEF Rollback, Write, StoreAnswers, May
    <2>4. /\ Binding(record') = oldContinuity[r]
          /\ record' # None => record'.token = grant[r]
      <3>1. CASE oldContinuity[r] = None
        BY <1>f, <2>3, <3>1
      <3>2. CASE oldContinuity[r] # None
        <4>1. grant[r] \in Tokens /\ oldContinuity[r] \in Bindings
          BY <1>c, <1>23, <3>2 DEF RollbackReset
        <4>2. /\ record' # None
              /\ oldContinuity[r] = [session |-> oldContinuity[r].session,
                                     gen |-> oldContinuity[r].gen]
          BY <2>3, <3>2, <4>1, RowType, NoneApart DEF Bindings
        <4> QED
          BY <2>3, <3>2, <4>2 DEF Binding, Row
      <3> QED
        BY <3>1, <3>2
    <2>5. grant[r] \in Nat
      BY <1>c, <1>23 DEF RollbackReset, Tokens
    <2> QED
      BY <1>a, <1>23, <2>2, <2>3, <2>4, <2>5 DEF RollbackReset
  <1>24. CASE AdoptAuthoritative(r)
    BY <1>a, <1>24 DEF AdoptAuthoritative
  <1>25. CASE RestoreWithGrant(r)
    <2>1. Binding(record') = oldContinuity[r]
      <3>1. CASE oldContinuity[r] = None
        BY <1>25, <3>1 DEF RestoreWithGrant
      <3>2. CASE oldContinuity[r] # None
        <4>1. grant[r] \in Tokens /\ oldContinuity[r] \in Bindings
          BY <1>c, <1>25, <3>2 DEF RestoreWithGrant
        <4> QED
          BY <1>25, <1>g, <3>2, <4>1, UpsertAnswered DEF RestoreWithGrant
      <3> QED
        BY <3>1, <3>2
    <2>2. \E s \in {oldState[r], "Broken"} : RestoreAs(r, s)
      BY <1>25 DEF RestoreWithGrant
    <2>3. op[r] # "embody" /\ op[r] # "register"
      BY <1>a, <1>25 DEF RestoreWithGrant
    <2>4. CASE oldState[r] = "Active"
      BY <1>a, <2>1, <2>2, <2>4 DEF RestoreAs
    <2>5. CASE oldState[r] # "Active"
      BY <1>a, <1>25, <2>1, <2>2, <2>3, <2>5 DEF RestoreAs
    <2> QED
      BY <2>4, <2>5
  <1>26. CASE RestoreRelease(r)
    BY <1>a, <1>26 DEF RestoreRelease
  <1>27. CASE UpsertBeforeBreak(r)
    <2>1. PICK b \in {attempt[r], oldContinuity[r]}, ok \in BOOLEAN :
            /\ \/ At(r, "rebound") /\ b = attempt[r]
               \/ At(r, "fenced") /\ b = oldContinuity[r]
            /\ Upsert(b, grant[r], ok)
            /\ BreakWith(r, b)
      BY <1>27 DEF UpsertBeforeBreak
    <2>2. b \in Bindings /\ grant[r] \in Tokens /\ Binding(record) = b
      BY <1>a, <1>c, <2>1
    <2>3. UpsertAdmitted(b, grant[r])
      <3>1. record # None /\ record.gen = b.gen /\ record.gen \in Nat
        BY <1>a, <2>2, BindingGeneration
      <3> QED
        BY <2>1, <3>1 DEF UpsertAdmitted
    <2>4. Binding(record') = b
      BY <2>1, <2>2, <2>3, UpsertAnswered
    <2>5. op[r] = "retire" => b = oldContinuity[r]
      BY <1>a, <2>1
    <2>6. op[r] # "embody" /\ op[r] # "register"
      BY <1>a, <2>1
    <2> QED
      BY <1>a, <1>27, <2>1, <2>4, <2>5, <2>6 DEF UpsertBeforeBreak
  <1>28. CASE BreakEntry(r)
    BY <1>a, <1>28 DEF BreakEntry
  <1>29. CASE BreakRelease(r)
    BY <1>a, <1>29 DEF BreakRelease
  <1>30. CASE DrainOrphans(r)
    BY <1>a, <1>30 DEF DrainOrphans
  <1>31. CASE LookupRecord(r)
    BY <1>a, <1>31 DEF LookupRecord
  <1>32. CASE PrepareBroken(r)
    BY <1>a, <1>32 DEF PrepareBroken, NothingToPrepare, Conflicting, Retained, Project
  <1>33. CASE PrepareRelease(r)
    BY <1>a, <1>33 DEF PrepareRelease, Project
  <1>34. CASE RenewLost(r)
    BY <1>a, <1>34 DEF RenewLost, Due
  <1>35. CASE RenewBroken(r)
    BY <1>a, <1>35 DEF RenewBroken, Due
  <1>36. CASE RenewGranted(r)
    <2>1. PICK t \in {lease[r], nextToken} : StageGrant(r, t)
      BY <1>36 DEF RenewGranted
    <2>2. lease[r] # None /\ held # None /\ held.token = lease[r]
      BY <1>a, <1>36, NoneApart
      DEF RenewGranted, Due, HoldsLease, SharedTyped, Leases
    <2>3. record # None => t >= record.token
      BY <1>b, <2>1, <2>2
    <2>4. pc[r] = "idle" /\ state[r] # "Absent" /\ UNCHANGED record
      BY <1>a, <1>36, <2>2 DEF RenewGranted, Due
    <2>5. /\ op'[r] = "renew" /\ grant'[r] = t
          /\ pc'[r] \in {"publish", "park"}
          /\ continuity'[r] = continuity[r]
      BY <1>a, <2>1 DEF StageGrant
    <2> QED
      BY <2>3, <2>4, <2>5
  <1>37. CASE PublishGrant(r)
    <2>1. Binding(record') = oldContinuity[r]
      <3>1. oldContinuity[r] # None /\ Binding(record) = oldContinuity[r]
        BY <1>a, <1>37 DEF PublishGrant
      <3>2. grant[r] \in Tokens /\ oldContinuity[r] \in Bindings
        BY <1>c, <1>37, <3>1 DEF PublishGrant
      <3>3. UpsertAdmitted(oldContinuity[r], grant[r])
        BY <1>c, <1>d, <1>37, <3>1 DEF PublishGrant, UpsertAdmitted
      <3> QED
        BY <1>37, <3>1, <3>2, <3>3, UpsertAnswered DEF PublishGrant
    <2>2. continuity'[r] = oldContinuity[r]
      BY <1>a, <1>37 DEF PublishGrant
    <2> QED
      BY <1>a, <1>37, <2>1, <2>2 DEF PublishGrant
  <1>38. CASE Shutdown(r)
    BY <1>a, <1>38 DEF Shutdown, ShutdownGrants, Retained
  <1>39. CASE Restart(r)
    BY <1>a, <1>39 DEF Restart, Abandoned, Floor
  <1> HIDE DEF Typing, OperationTyped, SnapshotTyped, EntryTyped, Coherent,
      OperationsAt, LocalsAt, EntryLawful, Lawful, Ungranted, At,
      LifecycleOps, RemembersRow, WritesPass, EntryCurrent, SnapshotCurrent,
      Writing, Serves
  <1> QED
    BY <1>1, <1>2, <1>3, <1>4, <1>5, <1>6, <1>7, <1>8, <1>9, <1>10, <1>11,
      <1>12, <1>13, <1>14, <1>15, <1>16, <1>17, <1>18, <1>19, <1>20, <1>21,
      <1>22, <1>23, <1>24, <1>25, <1>26, <1>27, <1>28, <1>29, <1>30, <1>31,
      <1>32, <1>33, <1>34, <1>35, <1>36, <1>37, <1>38, <1>39 DEF Step

\* An embody that fences the row or prepares a session keeps its binding.
LEMMA EmbodyKeepsRow ==
  ASSUME Inv, StoreAnswers, ~ExternalBinding, NEW r \in Runtimes,
         RemembersRow(r), WritesPass(r), Step(r), op[r] = "embody", pc[r] \in {"fence", "provisional"},
         record # None, record' # record
  PROVE  Binding(record') = Binding(record)
  <1>1. Typing /\ Coherent(r)
    BY DEF Inv
  <1>2. Binding(record) = oldContinuity[r] /\ oldContinuity[r] # None
    BY <1>1, NoneApart
    DEF RemembersRow, SnapshotCurrent, Binding, Bindings, Typing, SharedTyped,
        Rows
  <1>3. pc[r] = "fence"
    BY <1>2 DEF WritesPass
  <1>4. CASE AdvanceFence(r)
    <2>1. oldContinuity[r] \in Bindings /\ grant[r] \in Tokens
      BY <1>1, <1>2, <1>3, GrantType DEF Typing, SnapshotTyped, Ungranted
    <2>2. record' = Row(oldContinuity[r], grant[r])
      BY <1>2, <1>4 DEF AdvanceFence, Upsert, Write
    <2>3. /\ record' # None
          /\ oldContinuity[r] = [session |-> oldContinuity[r].session,
                                 gen |-> oldContinuity[r].gen]
      BY <2>1, <2>2, RowType, NoneApart DEF Bindings
    <2> QED
      BY <1>2, <2>2, <2>3 DEF Binding, Row
  <1>5. AdvanceFence(r) \/ UNCHANGED record
    BY <1>3
    DEF Step, At, MarkLifecycleInProgress, BeginEmbody, BeginRegister,
        BeginRemove, AcquireRefused, AcquireGranted, ResolveForRespawn,
        ResolveForReset, ResumeSession, PrepareCreate, UpsertProvisional,
        InstallSession, ReadBackRebind, UpsertEmbodied, UpsertSuccessor,
        UpsertFinal, DisposeMember, EraseRecord, ReleaseAfterDisposal,
        UndoEmbodiment, ReleaseOrPark, RollbackReset, AdoptAuthoritative,
        RestoreWithGrant, RestoreRelease, UpsertBeforeBreak, BreakEntry,
        BreakRelease, DrainOrphans, LookupRecord, PrepareBroken,
        PrepareRelease, RenewLost, RenewBroken, RenewGranted, PublishGrant,
        Shutdown, Restart
  <1> QED
    BY <1>4, <1>5

\* With one process whose store answers its writes, restore is resume-first
\* through every operation and every failure of the bridge, the lease provider
\* and the reads: while there is a row, the writes with which embody fences it
\* and prepares a session leave its session and generation alone.  A spec with
\* an external binding is excepted, as the code excepts it: it starts afresh.
THEOREM RestoreResumesFirst ==
  ASSUME OneRuntime, StoreAnswers, ~ExternalBinding
  PROVE  Spec => ResumeFirst
  <1> DEFINE J == \A r \in Runtimes : RemembersRow(r) /\ WritesPass(r)
  <1> DEFINE Kept(r) ==
        (/\ op[r] = "embody" /\ pc[r] \in {"fence", "provisional"}
         /\ pc'[r] # pc[r]
         /\ record # None /\ record' # record)
          => Binding(record') = Binding(record)
  <1>1. Init => J
    BY DEF Init, RemembersRow, WritesPass, EntryCurrent, SnapshotCurrent, Writing
  <1>2. Inv /\ J /\ [Next]_vars => J'
    <2> SUFFICES ASSUME Inv, J, [Next]_vars
                 PROVE  J'
      OBVIOUS
    <2>1. CASE UNCHANGED vars
      BY <2>1 DEF vars, RemembersRow, WritesPass, Serves
    <2>2. CASE Expire
      BY <2>2 DEF Expire, RemembersRow, WritesPass, Serves
    <2>3. ASSUME NEW r \in Runtimes, Step(r)
          PROVE  J'
      <3>1. RemembersRow(r)' /\ WritesPass(r)'
        BY <2>3, RemembersRowStep
      <3> QED
        BY <3>1 DEF OneRuntime
    <2> QED
      BY <2>1, <2>2, <2>3 DEF Next
  <1>3. Inv /\ J /\ [Next]_vars => \A r \in Runtimes : Kept(r)
    <2> SUFFICES ASSUME Inv, J, [Next]_vars, NEW r \in Runtimes
                 PROVE  Kept(r)
      OBVIOUS
    <2>1. CASE UNCHANGED vars \/ Expire
      BY <2>1 DEF vars, Expire
    <2>2. CASE Step(r)
      BY <2>2, EmbodyKeepsRow
    <2> QED
      BY <2>1, <2>2 DEF Next, OneRuntime
  <1>4. Spec => []J
    BY <1>1, <1>2, Invariance, PTL DEF Spec
  <1> QED
    BY <1>3, <1>4, Invariance, PTL DEF Spec, ResumeFirst

=============================================================================
