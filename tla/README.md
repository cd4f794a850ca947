# A TLA+ verification of Meerkat Meta

Meerkat Meta composes agents into applications with lasting identities. This
directory holds TLA+ models of the part of it in which a mistake loses an
agent's memory or lets two processes speak for one agent: the *identity-first
continuity plane* (`src/crates/meerkat-meta/src/identity_first/`) with its held
bootstrap; of the *bilateral topology coordinator*, which changes the durable
intent of two mobs under one decision; of the *operator gates* and the memory
promotions that wait behind them; and of the *event log*. TLC checks the models
on small instances, and TLAPS proves the main safety results about each of them
for every value of their constants.

All paths below are relative to `src/crates/meerkat-meta/src/` unless they
start with `src/`.

## 1. The system

An *identity* is the stable name of an agent. At any time it has at most one
*embodiment*: a session of a running process. What survives the process is the
identity's *continuity*: a row naming its session, generation and checkpoint
version, and the session's document. A *lease* with a growing *fencing token*
says which process may act for it.

| Part | State | Operations | Interacts with |
|---|---|---|---|
| Continuity store `identity_first/local_store.rs` | `continuity_records`, `session_snapshots` (blob rows), `continuity_session_heads` (head rows), the schema ledger | record upsert, rollback, delete; whole-document save; append, rewrite, head save and adoption; revision-checked delete; lazy migration; offline backfill | called by the adapter, by the runtime and by `storage-migrate` |
| Session store adapter `identity_first/adapters.rs` | per session: registration (identity, generation, token, version counter), bytes pending and deltas parked before registration, lifecycle marks (durable, removed, superseded), suspension | register, suspend, unregister, abandon superseded, save, authoritative save, transcript rewrite, delete, append, commit rewrite, save head | the session service writes through it; the runtime registers and suspends; it writes to the store under the registered cursor |
| Identity runtime `identity_first/runtime.rs`, `orchestrator.rs` | one entry per identity: lifecycle state, continuity projection, lease, pending release; a ledger of orphan grants | register, embody, retire, respawn, rebind, reset, delete, remove, renew, shutdown | lease provider, continuity store, session bridge |
| Lease provider `identity_first/local_lease.rs`, `contracts.rs` | holder and token per identity, the token counter | acquire, renew, release; expiry of an external provider | called by the runtime |
| Topology control `topology_control.rs`, `topology_control/coordinator.rs` | durable intent per authority, a journal of one pending operation, receipts, idempotency keys | plan, apply, recover | two runtimes' intent stores and the physical peer edges |
| Held bootstrap `identity_first/held_bootstrap.rs`, with `runtime.rs`, `orchestrator.rs`, `bridge.rs`, `mob_activation_retry.rs` | one terminal decision, construction slots, members held and settled, members that owe a completion | start a pass, hold a member, ask the host, activate or abort all, settle; deadline, lost caller, shutdown | the host's completion callback, meerkat Core, guests that embody the same member |
| Gating `runtime/gating.rs` | pending approvals with their order, a bounded audit log, an identity sequence under an epoch | evaluate, decide, escalate, lapse, snapshot, restore | everybody who waits behind a gate; the host that saves the snapshot |
| Agent memory plane `memory/` | records, proposals, staged batches, pending promotions, taint marks | dream, stage, gate, resolve, commit, discard, expire, review; distil, curate | gating, the operator, model calls |
| Event log `unified_runtime/event_log.rs` | channel, batch, sequence, retry buffer | ingest, flush, retry, query | the event store, paging readers |
| Module runtime `runtime/` (routing, delivery, supervisor, memory ledger) | idempotency keys, rate windows, restart counters | one handler per RPC | module processes |
| Unified runtime, gateways, console, RPC, voice, SDKs | composition and projections | dispatch | everything above |

`PROJECT.json` lists every component, with the reason for each one that is not
modelled.

**What is hard here.** Several processes may believe they own one identity (a
lease expires without telling its holder). Every lifecycle operation is a
sequence of calls to three other parties, each of which can fail, or succeed
and lose its acknowledgement, and each failure has its own undo path, whose
calls can fail as well. The session service writes a session before the
runtime has registered it, so writes are parked and replayed. One document has
two durable representations, and files cross from the old to the new one
lazily, row by row, and by an offline tool that may die half-way. A held setup
is decided once for all its members while a clock, a caller, a host and a
shutdown race for the decision. A memory promotion is one row, one batch and
one gate in two owners, resolved by a task of its own, and the process may die
between any two of them. `hazards` in
`PROJECT.json` lists these places line by line with the properties that watch
them.

**What makes each part correct.** *Store*: a reader is served the last accepted
write; a stale writer is refused; one session has one owner in both
representations; an older release can never open a file in which the archived
blob is no longer the authority. *Adapter*: an acknowledged write is durable or
still parked; a removed session does not come back; a registration can always
be completed. *Runtime*: every grant the provider books on a process is one the
process can still release; one writer; a committed reset is not undone; a
deleted identity stays deleted; restore resumes. *Coordinator*: two files and a
set of in-process aliases follow one journalled decision: both authorities hold
the new intent or neither does, a key takes effect once, and a pair said to be
reconciled routes what it intends. *Held bootstrap*: no member of a pass is
activated before all are held and the host completed, the setup ends, and nobody
is left between two owners (activation itself is per member, never atomic).
*Gating*: an approval is one decision of somebody entitled to it before the
deadline, and no gate stays overdue. *Promotions*: a record has one outcome,
nothing is published without its approval, and every promotion settles. *Event
log*: order and cursor survive retries, and what is admitted is stored.

## 2. Modules

| Module | Models | Used by |
|---|---|---|
| `ContinuityStore` | the store's tables and every verb, the gateway and the offline backfill interleaved | `MCContinuityStore` |
| `SessionDocuments` | what the store promises: one table of documents behind one fence | refined by `ContinuityStore` |
| `SessionStoreAdapter` | the adapter in front of a store reduced to what one session sees of it | `MCSessionStoreAdapter` |
| `IdentityLifecycle` | the runtime in several processes, the lease provider, the record verbs of the store | `MCIdentityLifecycle` |
| `TopologyCoordinator` | the bilateral coordinator and its journal, beside the local controllers of the two authorities | `MCTopologyCoordinator` |
| `HeldBootstrap` | one held roster pass with all its parties | `MCHeldBootstrap` |
| `ApprovalGates` | what a gating owner promises to those who wait | refined by `Gating`, used by `GatedPromotion` |
| `Gating` | the gating owner and its restarted successor | `MCGating` |
| `GatedPromotion` | the steward's promotions, composed with the gates of `ApprovalGates` | `MCGatedPromotion` |
| `EventLog` | the flush loop, its store and a paging reader | `MCEventLog` |

The theorems are in a module per component, `<Module>Proofs`, which extends the
module and nothing else of the project; all eight components have one.

`ApprovalGates` is the joint between two components: `Gating` is proved to
implement it, and `GatedPromotion` performs its actions as the gates of the
steward, so what is shown of the promotions holds over the real owner.

The store's, the adapter's and the lifecycle's specifications overlap on purpose at the fence: `EnforceCursor` and
`UpsertContinuityRecord` of `ContinuityStore` reappear as `Admits` in the
adapter's module and as `UpsertAdmitted` in the lifecycle's, each reduced to
the columns its component can tell apart.

### ContinuityStore

Variables are the tables: `records` (identity to session, generation, token,
version), `blobs` and `heads` (session to owner stamp and document), the
`ledger` number, and the state of a maintenance run. A SQLite transaction is
one action; `DeltaWrite` is the common frame of the four delta verbs (cursor
check, migration of a blob that has no head yet, the write, the stamp, the
record's advance). Documents are numbers that grow with every accepted write,
kept in the history variable the properties compare with. The backfill is
three kinds of steps because the code commits one transaction per session:
begin, one session, finish; `InterruptBackfill` is the process dying between
two. Gateways keep running meanwhile only where the code lets them.
`upsert_continuity_record` is no transaction: it is a `SELECT` and an `INSERT`
in autocommit mode under the writer mutex of its process. It is taken as one
step, since the file has one writing process at a time; a second process between
the two statements is not modelled.

`SessionDocuments` is the store without its layout: one table of documents, one
record per identity, and each verb reduced to whom it admits and what it leaves
in the table. `ImplementsOneTable` maps a session to the row that is its
authority (the head row if there is one, else the blob row) and says that every
step of the two-table store is a step of the one-table store. A migration is
then a stuttering step inside the verb that triggers it, and rollback and delete
must take both rows of a document or neither. The fence and version rules, and
that an abandoned generation leaves nothing behind, are part of the abstract
actions, so the refinement covers them.

### SessionStoreAdapter

One session and the one identity it belongs to. `process` is the adapter's
memory (registration, pending bytes, parked deltas, lifecycle, suspension);
`store` is what the store holds for the session. Every verb is one action, for
the code holds the session's lock through it; the store's answer is chosen from
its possible outcomes: committed, refused, failed, or committed with the
acknowledgement lost. `Restart` clears `process`. The store is blob-only or
head-canonical, chosen in `Init`. The verbs with which the runtime moves the
record (`BindRecord`, `ResetRecord`, `RollbackReset`) are the environment.
An authoritative whole-document save has two more ends: an archived session
refuses it (`ProjectionRefused`), and a save the store refused because the
identity's record has advanced to another session or generation is *absorbed*
(`AbsorbedByIdentityAdvance`): the caller is told Ok and nothing is written.
Such a projection is no acknowledged write in the sense of
`AcknowledgedWriteHeld`, which speaks of the writes the adapter took over.

### IdentityLifecycle

One identity, several processes. `state`, `continuity`, `lease` and `pending`
are the fields of each runtime's `IdentityEntry` (a removed or unregistered
entry is in state `Absent`),
`orphans[r]` the ledger `pending_unactivated_lease_releases`, `held` and
`nextToken` the provider, `record` the continuity row. An operation holds the
identity's lifecycle lock, so a process is in at most one: `op` and `pc` say
which and where, `grant`, `attempt`, `expected` and `broken` are its locals, and
`oldState`, `oldContinuity`, `oldLease` and `oldPending` the snapshot of the
entry it may have to put back. **Every awaited call to the provider, to the
store or to the bridge is a step of its own**, between which other processes
step, leases expire and processes die. The Rust functions share their error
branches (`restore_entry_with_grant`, `restore_broken_entry_and_release_grant`
and so on) and so does the model: they are values of `pc`. Which calls may
fail is the constant `Faults`: `store` (before the commit), `ack` (after it),
`read`, `bridge`, `attach`, `lease`, `release`. `ExternalBinding` says whether
the member's spec may name an external session. An embody of such a spec takes
no notice of the continuity the entry remembers: it writes no fence, prepares a
fresh session of generation 0 over the row, and its undo deletes that row
(`BoundExternally`, `WithoutFence`).

Left out: two ways from Active to Broken that keep the lease
(`park_embodiment_failure` and `mark_active_runtime_broken`: an embody that fails
once the entry is published, a runtime found dead), which change no lease, grant
or row; a suspension that fails before the upsert of
`PublishGrant`, which appears as the store fault of that step;  the terminal holds of a Broken entry (unrecoverable checkpoint,
repair required, refused role migration, host-rejected build), which only keep
an entry from being registered again; `checkpoint`, deliveries and turn
tickets; `reload_member`, which is a prepare, a Dormant projection and an
embody; futures dropped by their caller (the RPC surface runs each operation
in a task of its own, `*_tracked`); the mode without a bridge.

### TopologyCoordinator

Two authorities of one process. `mem` and `disk` are each authority's intent
state in memory and in its file, `coord` and `journal` the coordinator's;
`wiring` is the physical state of each cross edge (both halves, none, one).
`reconciled` and `refused` are `pair_reconciled` and
`last_clean_reconcile_error`. A public call (`query`, `apply`, `recover`,
`operation`; `plan` changes nothing beyond `query`) holds the coordinator lock
and both authority locks; `call` is that call with its step, and **every write
of a file, every actuation of an edge and every publication to memory is a
step**, after which the call can be dropped or the process die. A write goes to
a temporary name, is renamed, and the directory is synced; when it fails the
file may hold the old or the new contents while memory keeps the old. The local
controller shares the authority's file: its apply journals a copy of the
*whole* previous intent, cross edges included, and its recovery restores that
copy, so `LocalBegin`, `LocalEnd`, `LocalInterrupted` and `LocalRecover` run
between the calls. `Restart` reloads all three files and loses the aliases; a
decision that only the file holds, because its write failed after the rename,
takes effect there and is counted by `commits` from then on. `Rewire` is
everything that changes an edge without the coordinator's locks: the public
`wire_cross_mob` and `unwire_cross_mob`, and the retire, reset or respawn of a
member, which unwires its edges first. The coordinator does not notice and
`pair_reconciled` stays true; `stray` remembers the edges concerned until the
coordinator actuates them again for good.

Left out: the pair lease and the binding of the coordinator to two mob names
(checked before anything changes); the audit ring (its writes are kept, for
they rewrite the journal file, its contents are not); access checks and
reasons; the local controllers' own edges and receipts. A receipt is its key,
its operations and its status, and the receipt limits of the policy are
constants. The request's expected revisions are the current ones or
the request is refused, so they are not a parameter.

### HeldBootstrap

One pass over a roster. The shared object is `decision`, the terminal choice of
the pass (`HeldTerminal`), which records an Abort for whoever looks at it after
the deadline; `expired` is the clock. `op` walks the tracked operation through
its prelude (the prepared mob's activation, with the retry counters of
`resume_joining_stalled_operation` in `stall`), registration, pass and end;
`producer` is its other half, which waits until all members are held and then
asks the `host`. `pc[a][m]` is the embodiment transaction of member `m` by the
pass or by a guest: slot, lifecycle lock, owed check, build, create step, hold,
activation or abort, publication. An action is the code between two awaits that
another party can observe. Spawning, activating and aborting a member are calls
of meerkat Core: each succeeds or fails. `cause` and `via` are history.

Left out: a later pass over what this one left owing (its beginning is covered
by `OwedBefore`), and the completion ledger's readers. Admission and registration
are one step (`Admit`): the second look at the closed flag in
`unified_runtime/mod.rs:594` is not a step of its own. Entering a member that is
already Active never fails (`reuse_active_restore_state` may), a prelude that
returns counts as activated even where the pass then reports an error for one of
its members, and a lease that is lost after publication is the lifecycle's
business.

### Gating and ApprovalGates

A call of the gating owner holds it exclusively, applies the time-outs and then
does its own work: one action. Identities are pairs of epoch and sequence; the
sequence ends (`SequenceLimit`, in the code the largest `u64`), entropy for an
epoch may fail, and the tables hold `PendingMax` gates and `AuditMax` entries.
`Save` and `Restore` are the host: it exports a snapshot at any time and gives
it to the next owner, possibly an old one, and `Valid` is the whole validation.
A call's sweep (`Refresh`) closes the overdue gates in some order, for the code
goes through the map by the text of the identities, whose epochs are random, and
it ends when the identities do, so it is a set of possible owners. Notices leave without an order, because the code
hands some of them to the caller. `ApprovalGates` keeps `now`, `open`, `minted` and `issued`.

Left out: snapshots of the first format, the cursor of the audit reader, and
what routing answers (it changes the text of one audit entry).

### GatedPromotion

One realm. A *source* is a quarantined record or a mob proposal; a promotion
stages a batch that would publish it, opens a gate, and keeps a row from gate to
batch. `dream` is the steward's run with what it gathered before the language
model was asked; the model's answer is a free choice of verdicts on whatever was
gathered, any number of times. `tasks` are the resolver tasks, one per notice,
each with its own program counter (lookup, commit, discard, settle, proposal
status). The operator reviews records directly, decides gates and escalates.
`Crash` loses tasks and dream and restores the gates from any earlier snapshot
or none. `Faults` are the calls that may fail, `MaxMishaps` of them together
with crashes. `published`, `committed`, `buried` and `purpose` are history.

Left out: harvesting, ranking, distilling, how taint is found (`Tainted` is
given), and the language-model phases that write nothing shared.

### EventLog

One process lifetime: producers that never block, a bounded channel, the
`select` loop with its batch, the batch in flight during `append_batch`, the
retry buffer with its cap, the final flush, and a reader that pages by
`after_seq`. An append writes the whole batch or nothing, and may fail before or
after it wrote. The configured store, chosen in `Init`, either ignores the
identities it has (`idempotent`, what the store contract asks for) or is the
gateway's in-memory store, a plain `extend` that keeps every copy of a batch that
is retried after a lost acknowledgement (`rpc_gateway.rs:666`). `stored` is
therefore a set of numbered copies, not of rows, and a copy is only admissible
for a row whose acknowledgement was lost (`StoredOnce`). A page is the
`PageSize` rows with the lowest sequence numbers above the cursor. The null store
is not modelled.

## 3. Runs

`tlc -config X.cfg M`. All runs finish well inside five minutes on two workers.

| Run | Instance | Shows |
|---|---|---|
| `store_custody` | 2 identities, 2 sessions, 2 documents, 1 opaque one, gateway and backfill runs; 1 692 612 states | one owner per session in both tables; a backfill, however often it is interrupted, loses no session and resurrects none |
| `store_sessions` | 1 identity, 2 sessions, 2 generations, the gateway alone | what is read is the last accepted write; heads are stamped; the two tables implement `SessionDocuments` |
| `adapter` | 1 session, both store kinds, failing and unacknowledged writes, restarts; 496 490 states | nothing acknowledged is lost, late writes change nothing, registration never wedges |
| `identity_one` | 1 process, bundled provider, a spec that may be bound externally, 4 tokens, 2 generations, no `read`/`attach` faults; 185 400 states | no invisible owner, the holder is current after every restart, committed resets and deletes stay |
| `identity_two` | 2 processes (symmetric), expiring provider, a first row, 3 tokens; 1 777 922 states | one writer through expiry and take-over, and it serves what the row binds |
| `identity_grants` | 1 process, failing releases, reads and bridge, without respawn and reset | shutdown leaves no lease; embodiment resumes |
| `topology_pair` | 1 cross edge, 2 keys, limits 1 and 1, 1 restart, 1 rewiring behind the coordinator, failing writes and actuators, dropped calls, keys symmetric; 5 057 189 states | both files agree at rest, receipts tell what is durable, a key commits once, a decision stands, a reconciled pair routes its intent wherever it was not rewired; no deadlock |
| `held_bootstrap` | 2 members, 1 slot, 1 guest, 1 member perhaps owing, 2 stall points, caps 2 and 4; 50 522 states | no member is released before all are held and the host completed; the decision binds; the setup ends (liveness); slots never block; everybody is accounted for |
| `gating` | 2 pending gates, 2 audit entries, 3 people, 7 identities, 2 owners; 201 089 states | the owner implements `ApprovalGates`; tables and log agree; any snapshot is restorable; overdue gates lapse (liveness) |
| `promotion` | 1 record, 1 plain and 1 tainted proposal, one of them in flight at a time, 2 batches, 2 gates, 1 mishap; 627 056 states | one outcome per record, nothing published unapproved, rows tell the truth, one gate per source, every promotion settles (liveness); no deadlock |
| `event_log` | both kinds of store, 6 events, one filtered, channel 2, batch 2, cap 3, pages of 2, 3 failures; 145 835 states | the log is in order, copied only where an acknowledgement was lost, bounded and complete; a cursor misses nothing; what is admitted is stored (liveness) |
| `promotion_reverdict` | 1 proposal, a realm dreamed per mob | the violation described below |

A property is one invariant or a conjunction of invariants about one thing, each
defined and explained under its own name in the module: `HolderIsCurrent`, for
instance, is `HolderNotFenced` and `ActiveMatchesRecord`. The type invariant of
a module is a property of its own or the first part of such a conjunction
(`PassSound`, `JournalSound`, `TablesAgree`, `RowsSound`, `LogSound`). Of the
store, `FenceNeverRegresses`, `VersionNeverRewinds`, `StaleWriterFenced` and
`FrozenArchive` are proved (section 4) and need no run.

**Bounds and why they are enough.** Tokens, generations and versions are capped
by guards named `Max...`; the values only enter comparisons, and each cap
leaves room for an owner, the owner that replaces it, and a retry of the first.
Two processes suffice because every rule compares a token with the row, never
three tokens with each other; two sessions because a rule speaks of a session
and the one it replaces. In `topology_pair` two keys fill a journal that
retains one receipt and remembers one evicted key, so eviction happens and is
exactly covered (a key older than both limits is forgotten by the code as well,
and `OncePerKey` claims nothing about it); revisions stop at 2, enough for an
operation, a local one, and the retry; one rewiring can fall between any two of
its steps. The two keys are interchangeable and the run's properties are
invariants and one action property, so the symmetry is sound. In `held_bootstrap` two members over one
slot are the smallest roster that can block itself, and the total cap is reached
by two points that stall alternately. In `gating` the third gate evicts the
oldest, two gates can lapse in one sweep, an escalation needs the third person, and seven identities run out inside
every kind of call. In `promotion` the second gate is either an escalation or
the gate of a second promotion after the first one expired; one mishap between
any two awaits is what an expiry or a retry has to repair. In `event_log` a
batch, the channel and one more event exceed the cap. Queries, ticks and dreams
stay possible in `topology_pair` and `promotion`, so those runs check deadlock.
The other instances stop when a counter is used up or the system has ended and
their configurations say `CHECK_DEADLOCK FALSE`: a used-up bound is not a state
of the program. The operations left out of a run are those for which the list
below shows the property false.

**Fairness.** Only what the scheduler, the clock or the code itself guarantees:

* `HeldBootstrap`: weak fairness of the runtime's own steps (`RuntimeStep`:
  spawned tasks are polled and calls of Core return). Nothing is assumed of the
  host's callback, the guests, the deadline or a shutdown; `SetupEnds` and
  `SlotsNeverBlock` name the hypotheses they need.
* `Gating`: weak fairness of `Tick` and `Poll`. The owner has no timer of its
  own, so somebody must keep calling it: a connected console stream re-reads the
  audit periodically. That is an assumption about the environment.
* `GatedPromotion`: the clock advances, a started dream runs to its end, and a
  dream that owns promotion review starts again and again (strong fairness, for
  dreams of other partitions may be running whenever it is due): a realm that
  keeps receiving signals keeps dreaming, again an assumption about the
  environment. Nothing is assumed of resolver tasks, gates or operator.
* `EventLog`: weak fairness of the loop and of its interval; the store fails a
  finite number of times.

The other specifications state no fairness and claim no liveness.

### What the code does otherwise than it says

`promotion_reverdict` is a run in which TLC finds a documented statement
violated, and `findings` in `PROJECT.json` quotes it: a proposal with an
operator gate in flight is accepted and published by a per-mob dream, because
that run gathers no pending promotions and the shield of
`apply_proposal_verdicts` only knows what was gathered.

The passing runs keep out the combinations for which their properties are known
to fail. Where constants are named, changing them in the run's configuration
reproduces the violation; the others say which hypothesis or exception of a
property is there for it, or what lies outside the model:

* `ReaderSeesLastCommit` in `store_sessions` with `SPECIFICATION Spec`, two
  documents and `MaxGeneration = 0`: a second `storage-migrate --apply` lays a
  head out again from the archive and loses everything written since
  (`local_store.rs:7572`; lines 1875-1878 call the archive "never read again").
* `AcknowledgedWriteHeld` in `adapter` with `Consumers <- BothChannels`: a
  creation window that uses both the delta verbs and the whole-document verbs
  loses the newer document (`adapters.rs:1092`; lines 231-234 say "a parked
  write is never silently dropped").
* `AcknowledgedWriteHeld` if an absorbed projection counted as acknowledged: the
  save reports Ok although nothing was written (`adapters.rs:2359`), and after
  `rollback_reset` the session whose document was absorbed lives on without it.
* Publication of a roster as a whole: after Activate each member is activated on
  its own, and one that fails or expires leaves its siblings published, as
  `held_bootstrap.rs:35` says.
* `ResumeFirst` in `identity_grants` and `OneAuthority` in `identity_two` with
  `ExternalBinding = TRUE`: an embody replaces the row by a fresh session of
  generation 0 (`runtime.rs:8023`, 8471).
* `RoutesIntent` without its exception `stray`: an edge that is rewired behind
  the coordinator stays so, with `pair_reconciled` true, until a reconcile or a
  committed operation wires it again (`cross_mob.rs:1658`, 2310).
* `NoInvisibleOwner` in `identity_one` with `Faults = {"attach"}`: embody
  returns without releasing its grant when the post-condition of an attached
  session fails (`runtime.rs:8286`).
* `ShutdownReleasesAll` in `identity_grants` with `Operations <-
  AllOperations`, `Faults = {"bridge", "release"}` and `MaxToken = 3`: respawn
  and reset of a Broken entry reacquire beside a pending grant; shutdown then
  releases the wrong one (`runtime.rs:14171`).
* `RoutesIntent` in `topology_pair` with two `Edges` and no `Faults`: recovery of
  a pending operation repairs that operation's edge, marks the pair reconciled,
  and leaves the other edge unrouted until a host calls `recover` again
  (`topology_control/coordinator.rs:1339`).
* `OwedIsNotEmbodied` in `held_bootstrap` with `SPECIFICATION Spec`, `Roster <-
  OneMember` and nobody owing: a pass is aborted while a guest is between the
  owed check and the create step of the same member (`runtime.rs:8014` and
  8554); the guest publishes it unheld although it now owes a held completion,
  which `held_bootstrap.rs:65-69` excludes.
* `SlotsNeverBlock` without its hypothesis about guests: a guest that waits at
  the hold keeps the lifecycle lock registration needs, and only the deadline
  ends the pass (`orchestrator.rs:562`).
* `OneGatePerSource` in `promotion` with `dedup` in `Faults`: a failed dedup read
  is taken for "no gate" (`memory/steward.rs:3215`).
* `published[p] <= 1` for a proposal: the dream's late "held" overwrites the
  status the gate's task wrote in between, for `set_proposal_status` is
  unconditional (`memory/sqlite_store.rs:1882`), and the proposal is dreamed and
  published again; likewise an approval after a re-verdict.
* `RowsTellTheTruth` without its exception `ResolvedTwice`: after a restart with
  a gate snapshot older than the approval the operator may deny what was already
  published. A row may also end "expired" although its batch was published, when
  the process dies or the expiry runs between commit and settlement.
* An approval is lost, and only the expiry ends its promotion, when its task
  runs before the row is recorded or before an escalation moved the row to the
  successor (`memory/steward.rs:3784`).
* `CursorMissesNothing` over two process lifetimes: the sequence restarts at 1
  (`unified_runtime/event_log.rs:204`) while a durable store keeps its rows.
* `HeadImpliesStamp` under `Spec` instead of `GatewaySpec`: an interrupted
  backfill leaves head rows in an unstamped file (`local_store.rs:3395` calls
  that impossible).
* `ParkedRowsCompletable` in `adapter` with `Consumers <- BothChannels`:
  the flushed bytes mark the session durable and the head write that would
  complete the parked rows is refused from then on.
* `DeletedStaysDeleted` with two processes and `delete` in `Operations`: a
  replaced owner's late write finds no row, hence no fence, and recreates the
  identity (`contracts.rs:329`).
* `OneWriter` with two processes and `InitialRow = None`: respawn of an entry
  registered before the first row existed becomes Active without fencing
  (`runtime.rs:14143`); `ResumeFirst` on the same instance: embody creates a
  fresh session over the row another process has committed meanwhile.
* `ResumeFirst` with one process and `ack` or `store` in `Faults`: the first
  embodiment's provisional write is committed and reported as failed, or a later
  write fails and the undo (`restore_continuity_after_materialize_failure`) fails
  with it. The entry still says that there is no row, so the next embody creates
  a fresh session over the one left behind.
* `CommittedGenerationKept` with one process, `read` added to `Faults` and
  `MaxGeneration = 3`: after a failed rollback whose re-read failed too, the
  next reset's rollback deletes the committed row.
* `PairAgrees` with `overlap` in `Faults`: a local operation is interrupted
  while a bilateral decision is pending; the later local recovery
  (`topology_control.rs:1126`) restores its stale copy of the cross intent and
  of the revision over the committed one. The authorities diverge, and after a
  restart every apply is refused.

## 4. Theorems

Proved by TLAPS (SMT, Zenon, PTL) for all values of the constants that satisfy
the modules' assumptions: any number of identities, sessions, processes,
members, edges, keys, sources, people and events, any bounds. Except for the names in
parentheses, every theorem states a property that a run also checks.

| Theorem | States | Hypotheses |
|---|---|---|
| **Store** `TypeCorrect`, `CustodyIsConsistent` | `TypeOK`, `OneOwner` | |
| `NoLostUpdate`, `HeadsAreStamped` | `ReaderSeesLastCommit`, `HeadImpliesStamp` | no maintenance run (`GatewaySpec`) |
| `TwoTablesAreOne` | `ImplementsOneTable`: the store refines `SessionDocuments` | no maintenance run |
| (`FenceIsMonotone`, `VersionIsMonotone`, `ArchivesAreFrozen`) | what no verb may do to a record or an archive | |
| (`StaleWritersAreFenced`) | every changed session row passed the cursor check | no maintenance run |
| `CrossingKeepsSessions` | `CrossingLosesNoSession`: gateways and interrupted backfills together | |
| **Adapter** `Typed`, `Agreement`, `LateWrites` | `TypeOK`, `AgreesWithStore`, `LateWritesChangeNothing` | |
| `AcknowledgedHeld`, `RowsCompletable` | `AcknowledgedWriteHeld`, `ParkedRowsCompletable` | no consumer mixes the two kinds of verbs |
| **Lifecycle** `Typed`, (`HolderPassesFence`) | `TypeOK`; the lease in force passes the row's fence | |
| `NoOwnerIsInvisible` | `NoInvisibleOwner` | no `attach` fault |
| `HolderStaysCurrent`, `DeletedIsFinal` | `HolderIsCurrent`, `DeletedStaysDeleted` | one process |
| `CommittedIsKept` | `CommittedGenerationKept` | one process, no `read` fault |
| `RestoreResumesFirst` | `ResumeFirst`: an action property of embody | one process, no `store` or `ack` fault, no external binding |
| `OneAuthorityAtATime` | `OneAuthority` | a first row exists, no `delete`, no `read` fault, no external binding |
| `GrantsStayAccounted` | `GrantsAccounted` | no `attach` fault, no `respawn` or `reset` |
| **Coordinator** `CommittedIsIrrevocable` | `DecisionIrrevocable` | |
| `DecidedOncePerKey` | `OncePerKey` | the keys fit `ReceiptLimit + HistoryLimit` |
| `PairAgreesAtRest`, `ReceiptsAreKept` | `PairAgrees`, `JournalSound` | no `overlap` |
| `ReconciledRoutes` | `RoutesIntent`, for every edge not rewired behind the coordinator | no `overlap`; one edge, or no restart |
| **Held bootstrap** `PassIsSound`, `HeldUntilAllHeld`, `DecisionIsBinding` | `PassSound`, `NoneBeforeAllHeld`, `DecisionBinds` | |
| **Gates** `Agreement`, `Restorable` | `TablesAgree`, `SnapshotRestorable` | |
| `Implementation` | `ImplementsGates`: the owner refines `ApprovalGates` | |
| **Promotions** `RecordsDecidedOnce`, `ApprovalPrecedesPublication` | `OneOutcome`, `PublishedWasApproved` | |
| `RowsAreSound` | `RowsSound` | no `dedup` fault |
| **Event log** `Sound`, `CursorComplete` | `LogSound`, `CursorMissesNothing` | |

Each hypothesis is necessary: TLC finds the property violated on a small
instance that drops it and keeps the others, most often by a behaviour of the
list in section 3. For `OneAuthority`, `GrantsAccounted` and `StaleWriterFenced`
that is adding `read` or `delete` to `identity_two`, `attach` to
`identity_grants`, and `SPECIFICATION Spec` to `store_sessions`; for
`HolderIsCurrent` it is `identity_two` with all operations and `InitialRow =
None`; for `CommittedGenerationKept` `identity_two` with all operations; for
`ResumeFirst` `identity_grants` with all operations and `store` or `ack`; for
`OncePerKey` `topology_pair` with `HistoryLimit = 0`; for `RoutesIntent` the same
run with `overlap`. One process is the
deployment of the bundled provider, which grants within one process. The code
retains 256 receipts and remembers 4096 evicted keys by default
(`topology_control.rs:28`); a key older than both is forgotten, and a client that
still retries it is served as a new one.

### The arguments

**Store.** `ReaderSeesLastCommit` alone is not inductive: a verb that
removes rows by owner could uncover an archived blob beneath a deleted head.
What excludes this is `OneOwner`: both representations of a session carry the
same owner stamp and the same generation, so the verbs that delete by owner
delete both or neither. `OneOwner` in turn needs the types and the ownership
check each write makes before it stamps. The refinement needs the same
invariant and nothing else: under it, each verb's effect on the authoritative
row of a session (`DocOf`) is the abstract verb's effect on its one row, and the
migration a delta verb begins with changes no authoritative document. The
monotonicity theorems are action properties proved verb by verb from
`EnforceCursor` and `UpsertedVersion`. With maintenance a reader may see an
archive instead of the last write (section 3), so `CrossingLosesNoSession` says
what remains true: existence is never in doubt, a session without a head reads
its last write, and any other answer is its own archive. Its induction needs
`OneOwner` for the verbs that delete and, for the backfill, that every session
of the census still has its blob row (`CensusHolds`): the census is taken once
and worked off over many transactions, between which only the fence keeps the
gateways out.

**Adapter.** `Inv` says what the adapter may hold at each stage of a session's
life, whatever the consumer calls and however the store ends a write: nothing is
parked beside a registration or after the session was unregistered, superseded
or removed (`Settled`), and the version allocator has passed every version the
record or the runtime has seen (`Allocated`). A registration flushes several
writes, each of which may commit without its acknowledgement; one lemma about
the ends of such a sequence (`Ended`) serves every verb. `Held` adds what needs
the hypothesis: what is parked keeps the session in its creation window, and the
last acknowledged document is the parked one if there is one and the durable one
otherwise. With both kinds of verbs in one window two documents are parked, and
no order of flushing them keeps both.

**Lifecycle.** All of them rest on `Inv`. Its part `Coherent` says which
operation can be at which `pc` and which of its locals are set there, the grant
above all. `EntryLawful` says which states of the entry, and of the snapshot an
undo branch puts back, go with a lease or a parked grant, and that an entry is
never Active while its operation writes. `TokensGranted` says that every token
in use was granted by this provider, that the lease in force is the last one
granted and that no two processes act under one token; it gives
`HolderPassesFence`. Each property adds its own assertions about a process:

* `ServesRow`: an Active entry agrees with the row, and so does the snapshot of
  an operation that may still put an Active entry back.
* `NewerThanDelete`: whatever may still write does so under a grant above the
  tombstone.
* `GenerationKept`: once a reset has reported its generation, the process
  remembers a binding, and what a reset would roll back to is not older.
* `RemembersRow` and `WritesPass`: the entry, the snapshot or the attempted
  binding, whichever the operation goes on with, is what the row binds, and the
  next write passes the checks of the store, so that without a `store` or `ack`
  fault it is acknowledged. The two need each other: the rollback of a reset
  restores what is remembered only because the row it expects is there.
* `Remembers` and `RowFenced`: with several processes, whoever has an entry
  remembers a binding; no published lease is newer than the row, and where the
  two are equal the row is what the process serves.
* `Custody`: the lease the provider books on a running process is the grant of
  the operation that runs, or one its entry or its orphan ledger names; it
  follows the grant through every error branch.
* `NoneHidden`: no entry names a lease beside a parked grant, so that releasing
  what the entry names releases everything.

**Coordinator.** `CallAt` says what the journal holds wherever a call is, and
`LocalAt` the same of a local operation. `DecisionKept` relates the
two copies of the journal: a failed write can leave the file ahead of memory,
but when memory holds a committed decision the file holds the same decision or
its applied receipt; that is what a restart needs. For `OncePerKey`, `KeysAt`
says that both copies name every key at most once and every committed key in the
pending operation, the receipts or the history; `Terminal` moves the key of an
evicted receipt to the history, which can drop a key only if there are more keys
than both hold. A restart can find a decision that memory never had, and counts
it then: `Behind` says that such a decision belongs to the operation memory still
holds undecided, so its key has not been counted before. `PairAt` speaks of four
copies of an intent, two in memory and two in files, and of the copies inside
interrupted local entries. Without a pending operation the authorities agree and are what the receipts
tell; with one they may differ on its edges only, and a file that already has
the receipt holds what the operation leaves. Memory and file may be on different
sides of this, which is why it is stated of each and of both together; `PairCall`
says what a call in progress has still to write. The condition on `overlap`
keeps a stale copy of the intent (`EntriesAt`) from standing beside an operation.
For `RoutesIntent`, `WiresAt` says that without an operation nothing routes beyond
the intent, and a reconciled pair follows it; with one, the edges outside it
follow the intent from before. An operation is only admitted over such a pair, so
what it recorded as wired is what was intended (`UndoAt`) and undoing it is again
right; `WiresCall` counts the edges a call is through with. All of this is said of
the wiring as far as the coordinator is answerable for it (`Seen`, which leaves
the stray edges out). An edge stops being astray when it is actuated, except
while an operation of either copy of the journal could still be rolled back, for
the rollback puts back what the operation found. A restart loses the
wiring of every edge while a recovery rewires those of the operation: hence the
hypothesis.

**Held bootstrap.** The invariant has three parts: who may still
speak for the setup (`TerminalSound`: an Activate is the producer's last word
after the host completed over a fully held roster, every Abort has its cause
and its reporter), the activation (`ActivationDecided`: an activation that was
started, and a held member that was published, rest on that choice), and the
members (`MembersSound`: what a transaction holds at every `pc`, down to "done
means Active or owing").

**Gates.** The difficulty is a restart from an old snapshot: it brings back
gates and log entries while a new owner mints identities. Every identity in the
table, the log, the history or the host's snapshot lies below the running
owner's frontier, its epoch and sequence (`Known`), so what is minted next is
new, even after the entropy or the sequence ran out. A pending entry is the
entry its gate was opened with (`TableOK`), a gate the log calls resolved is not
pending (`Settled`), and the host's snapshot is a valid one of gates that were
opened (`Keeps`). The invariant is stated of the record that a call threads
through its steps, so there is one lemma for each step of a call (mint, append,
close, sweep, upsert) rather than for each call. The refinement follows a call
the same way: the sweep, the eviction and the call's own resolution are each
accounted for as what they close, what they open, and which notices they send,
and their sum is one step of `ApprovalGates`.

**Promotions.** Row, batch, gate, notice and resolver task refer to each other
by identity and live in two owners, one of which may return to an old snapshot.
The history variable `purpose` fixes, for each gate ever opened, the batch and
source it was opened for; `Tables`, `RowsAt`, `Noticed`, `TasksAt` and `Chained`
say that row, notice, task and escalated successor agree with it forever.
`Decided` says that a record which was published or buried keeps its status for
good, `Traced` and `Counted` lead each publication back to an approval of a gate with
that purpose, `DreamAt` says what a dream that gathered earlier may still
assume, and `Alone`, the only part that needs the hypothesis, that one source has
one open promotion.

**Event log.** That the stored rows are in order is not inductive: a failed
append keeps its rows, which it may have written, and a later batch joins them;
a plain store then holds two copies of them. The invariant orders all rows the loop made, waiting or stored
(`RowsInOrder`), and says that a waiting row is newer than every stored one or is
stored itself (`WaitingNewest`); since an append takes all that waits, no row can
slip in behind a reader's cursor. `Phases` bounds what the loop holds at each
step, and with it the retry buffer.

### Only model-checked

Every safety property that a passing run checks has its theorem above. Liveness
under fairness (`SetupEnds`, `SlotsNeverBlock`, `GatesResolve`,
`PromotionsSettle`, `EventuallyStored`) and what recursive definitions compute
for every input stay with TLC.

Some specifications were rewritten for the proofs. The lifecycle keeps the
fields of an entry and the locals of an operation in variables of their own
rather than in records, and `GatedPromotion` updates its gates by `With`; neither
changed a state. `EventLog` keeps the store's rows as a set of numbered copies and pages by sequence
number, and `Gating` closes the overdue gates at once, in closed form, instead of
folding and filtering sequences: what `SelectSeq`, `SortSeq` or a fold returns for
every input is an induction over data. Bounds
are assumed to be natural numbers, and `None` to be no pending entry
(`NoneAssumption` of the coordinator).

## 5. Plan

Done: the store with its abstract specification, the adapter, the lifecycle, the
coordinator, the held bootstrap with the activation retry, the gates with their
abstract specification, the promotions over those gates, and the event log;
the theorems of section 4. Next:

1. `ContinuityProtocol`, the abstract specification the lifecycle should
   implement (one owner, a current generation, resume or advance), and the
   adapter's store shown to be `ContinuityStore` seen through one session.
2. Liveness of the coordinator (a pending operation is resolved once calls keep
   coming and writes succeed) and of the lifecycle (a Broken entry with a
   retained grant is repaired once releases succeed).
3. Routing and delivery: idempotency keys against bounded history, quota under a
   failing boundary, one-shot resolutions; the supervisor's restart budget.
4. Extension documents, the access engine against a reference definition, the
   shutdown order of the unified runtime.

**Not modelled.** Most of the repository is composition, parsing and projection
(gateways, RPC, console, mobpack, SDKs) around state machines that live in the
meerkat crates outside it; `PROJECT.json` gives the reason for each component.
