-------------------------- MODULE ContinuityStore --------------------------
(***************************************************************************)
(* The bundled continuity store: identity_first/local_store.rs.            *)
(*                                                                         *)
(* Three SQLite tables and one ledger row are modelled:                    *)
(*   records  continuity_records, at most one row per identity;            *)
(*   blobs    session_snapshots, the legacy whole-document row;            *)
(*   heads    continuity_session_heads, the head-canonical row.  The       *)
(*            strand and rewrite rows live and die with it, and are        *)
(*            covered by its document here;                                *)
(*   ledger   the meta-continuity schema version, 1 or 2 (2 locks          *)
(*            releases <= 0.8.5 out of the file).                          *)
(*                                                                         *)
(* Every verb but one runs in one transaction under the writer mutex, so   *)
(* it is one action.  upsert_continuity_record reads and then writes in    *)
(* two statements of their own; it too is one action here, which the mutex *)
(* makes exact for the verbs of one process only.  A refused call changes  *)
(* nothing and is a stuttering step.  A document is a value of Docs; its   *)
(* CAS token and its head revision are content digests, so they are the    *)
(* document itself.  Opaque documents are the byte strings that do not     *)
(* decode as a session.                                                    *)
(***************************************************************************)
EXTENDS Integers, FiniteSets

CONSTANTS
  Identities,     \* AgentIdentity
  Sessions,       \* SessionId
  Docs,           \* session documents that decode
  OpaqueDocs,     \* snapshot bytes that do not decode as a session
  MaxGeneration,  \* bound on ContinuityGeneration
  MaxVersion,     \* bound on CheckpointVersion
  MaxToken,       \* bound on FencingToken
  NoRow           \* the absent row, and the document of an absent session

VARIABLES
  records,   \* continuity_records
  blobs,     \* session_snapshots
  heads,     \* continuity_session_heads
  ledger,    \* meta-continuity schema version
  maint,     \* "on" while storage-migrate --apply holds the maintenance fence
  todo,      \* sessions of the running backfill's census not yet visited
  failures,  \* sessions the running backfill could not convert
  committed  \* history: the document of the last accepted write per session

tables == <<records, blobs, heads, ledger>>
maintVars == <<maint, todo, failures>>
vars == <<records, blobs, heads, ledger, maint, todo, failures, committed>>

Generations == 0..MaxGeneration
Versions == 0..MaxVersion
Tokens == 0..MaxToken
AnyDoc == Docs \cup OpaqueDocs

\* One row of continuity_records.  agent_runtime_id is left out: it is
\* derived from the identity and the generation.
Record == [session : Sessions, generation : Generations,
           version : Versions, token : Tokens]

\* One session row, of either representation, with its custody stamps.
Row == [identity : Identities, generation : Generations, version : Versions,
        token : Tokens, doc : AnyDoc]

\* The ContinuityWriteCursor a session write presents, with its session.
Cursor == [identity : Identities, session : Sessions,
           generation : Generations, version : Versions, token : Tokens]

ASSUME ConstantsAssumption ==
  /\ MaxGeneration \in Nat
  /\ MaxVersion \in Nat
  /\ MaxToken \in Nat
  /\ Docs \cap OpaqueDocs = {}
  /\ NoRow \notin Record
  /\ NoRow \notin Row
  /\ NoRow \notin AnyDoc
  /\ NoRow \notin [identity : Identities, generation : Generations, doc : AnyDoc]

-----------------------------------------------------------------------------
(* Guards and helpers of the transactions. *)

\* The session stamps and document a write under cursor c leaves in a row.
StampedRow(c, d) == [identity |-> c.identity, generation |-> c.generation,
                     version |-> c.version, token |-> c.token, doc |-> d]

\* An identity without a record is not fenced at all.
EnforceCursor(c) ==
  records[c.identity] # NoRow =>
    /\ records[c.identity].session = c.session
    /\ records[c.identity].generation = c.generation
    /\ c.token >= records[c.identity].token
    /\ c.version > records[c.identity].version

OwnedBy(row, c) ==
  row # NoRow => row.identity = c.identity /\ row.generation = c.generation

\* Mutant of EnsureSnapshotOwner: only the head row's owner is looked at.
EnsureSnapshotOwnerSkipped(c) == TRUE

EnsureSnapshotOwner(c) == OwnedBy(blobs[c.session], c)
EnsureHeadOwner(c) == OwnedBy(heads[c.session], c)

\* Advance the record a write was admitted under; absent stays absent.
AdvanceRecord(c) ==
  records' = [records EXCEPT ![c.identity] =
                IF @ = NoRow THEN NoRow
                ELSE [session |-> @.session, generation |-> @.generation,
                      version |-> c.version, token |-> c.token]]

\* Mutant of ReadDoc: the whole-document row is preferred.
ReadDocBlobFirst(s) == IF blobs[s] # NoRow THEN blobs[s].doc
                       ELSE IF heads[s] # NoRow THEN heads[s].doc
                       ELSE NoRow

\* What a reader is served: the head row is the sole authority when present.
ReadDoc(s) == IF heads[s] # NoRow THEN heads[s].doc
              ELSE IF blobs[s] # NoRow THEN blobs[s].doc
              ELSE NoRow

\* The head rows after "head row if present, otherwise migrate the blob".
MigratedHeads(c) ==
  IF heads[c.session] = NoRow /\ blobs[c.session] # NoRow
  THEN [heads EXCEPT ![c.session] = StampedRow(c, blobs[c.session].doc)]
  ELSE heads

\* A blob can be migrated only if it decodes.
Migratable(s) == heads[s] = NoRow /\ blobs[s] # NoRow => blobs[s].doc \in Docs

\* Mutant of StampIfHead: only a migrated session is stamped.
StampIfMigrated(s) == ledger' = IF blobs[s] # NoRow THEN 2 ELSE ledger

\* Mutant of StampIfHead: the version is bumped instead of set.
StampByIncrement(s) == ledger' = IF heads'[s] # NoRow THEN ledger + 1 ELSE ledger

\* The lockout stamp is earned by head state the transaction leaves behind.
StampIfHead(s) == ledger' = IF heads'[s] # NoRow THEN 2 ELSE ledger

\* Session rows of an identity, of one generation or of all of them.
OfGeneration(row, i, g) == row # NoRow /\ row.identity = i /\ row.generation = g
OfIdentity(row, i) == row # NoRow /\ row.identity = i

-----------------------------------------------------------------------------
(* The verbs of the running gateway. *)

SaveSessionSnapshot(c, d) ==
  /\ maint = "off"
  /\ EnforceCursor(c)
  /\ EnsureSnapshotOwner(c)
  /\ EnsureHeadOwner(c)
  /\ \/ /\ heads[c.session] # NoRow
        /\ d \in Docs
        /\ heads' = [heads EXCEPT ![c.session] = StampedRow(c, d)]
        /\ UNCHANGED blobs
     \/ /\ heads[c.session] = NoRow
        /\ blobs' = [blobs EXCEPT ![c.session] = StampedRow(c, d)]
        /\ UNCHANGED heads
  /\ AdvanceRecord(c)
  /\ committed' = [committed EXCEPT ![c.session] = d]
  /\ UNCHANGED <<ledger, maintVars>>

\* The frame every delta verb runs in; Op is its effect on the head rows.
DeltaWrite(c, Op) ==
  /\ maint = "off"
  /\ EnforceCursor(c)
  /\ EnsureSnapshotOwner(c)
  /\ EnsureHeadOwner(c)
  /\ Migratable(c.session)
  /\ Op
  /\ AdvanceRecord(c)
  /\ StampIfHead(c.session)
  /\ UNCHANGED <<blobs, maintVars>>

\* Strand rows are added; the head does not move.  With neither a head nor a
\* blob nothing becomes readable and the ledger is not stamped.
AppendMessages(c) ==
  DeltaWrite(c, /\ heads' = MigratedHeads(c)
                /\ UNCHANGED committed)

\* A rewrite is recorded beside the head, which must exist after migration.
CommitRewrite(c, expected) ==
  DeltaWrite(c, /\ expected # NoRow
                /\ ReadDoc(c.session) = expected
                /\ heads' = MigratedHeads(c)
                /\ UNCHANGED committed)

\* The adopting head write: a compare-and-set on the stored head's token.
SaveHead(c, expected, d) ==
  DeltaWrite(c, /\ ReadDoc(c.session) = expected
                /\ heads' = [heads EXCEPT ![c.session] = StampedRow(c, d)]
                /\ committed' = [committed EXCEPT ![c.session] = d])

\* Replaces a released-format head by the current spelling of a document that
\* extends it; only from a stored head.
AdoptReleasedHeadDocument(c, d) ==
  DeltaWrite(c, /\ heads[c.session] # NoRow
                /\ heads' = [heads EXCEPT ![c.session] = StampedRow(c, d)]
                /\ committed' = [committed EXCEPT ![c.session] = d])

\* Within a generation the stored checkpoint version is a floor.
UpsertedVersion(row, g, v) ==
  IF row # NoRow /\ row.generation = g /\ row.version > v THEN row.version ELSE v

UpsertContinuityRecord(i, s, g, v, t) ==
  /\ maint = "off"
  /\ records[i] # NoRow => t >= records[i].token /\ g >= records[i].generation
  /\ records' = [records EXCEPT ![i] =
       [session |-> s, generation |-> g, token |-> t,
        version |-> UpsertedVersion(@, g, v)]]
  /\ UNCHANGED <<blobs, heads, ledger, maintVars, committed>>

\* Delete blob rows bs and head rows hs; a session loses its document when
\* the row that was its authority goes.
DropRows(bs, hs) ==
  /\ blobs' = [s \in Sessions |-> IF s \in bs THEN NoRow ELSE blobs[s]]
  /\ heads' = [s \in Sessions |-> IF s \in hs THEN NoRow ELSE heads[s]]
  /\ committed' = [s \in Sessions |->
                     IF s \in (IF heads[s] # NoRow THEN hs ELSE bs)
                     THEN NoRow ELSE committed[s]]

\* Exact compare-and-set: the attempted (session, generation) under exactly
\* its own token.  previous is the row to restore, or NoRow.
RollbackContinuityRecord(i, s, g, previous, t) ==
  /\ maint = "off"
  /\ records[i] # NoRow
  /\ records[i].token = t
  /\ records[i].session = s
  /\ records[i].generation = g
  /\ DropRows({x \in Sessions : OfGeneration(blobs[x], i, g)},
              {x \in Sessions : OfGeneration(heads[x], i, g)})
  /\ records' = [records EXCEPT ![i] =
       IF previous = NoRow THEN NoRow ELSE [previous EXCEPT !.token = t]]
  /\ UNCHANGED <<ledger, maintVars>>

DeleteContinuityRecord(i, t) ==
  /\ maint = "off"
  /\ records[i] # NoRow => t >= records[i].token
  /\ DropRows({x \in Sessions : OfIdentity(blobs[x], i)},
              {x \in Sessions : OfIdentity(heads[x], i)})
  /\ records' = [records EXCEPT ![i] = NoRow]
  /\ UNCHANGED <<ledger, maintVars>>

\* Revision compare-and-set delete of one session; no fence is consulted.
\* A document that does not decode has no revision and is never deleted here.
DeleteSessionSnapshotIfCurrentRevision(s, d) ==
  /\ maint = "off"
  /\ ReadDoc(s) = d
  /\ d \in Docs
  /\ blobs' = [blobs EXCEPT ![s] = NoRow]
  /\ heads' = [heads EXCEPT ![s] = NoRow]
  /\ committed' = [committed EXCEPT ![s] = NoRow]
  /\ UNCHANGED <<records, ledger, maintVars>>

-----------------------------------------------------------------------------
(* storage-migrate --apply: the head-canonical backfill, one transaction    *)
(* per session, under the exclusive maintenance fence.  Rows whose session  *)
(* id or identity does not parse are set aside by the census; Sessions and  *)
(* Identities hold well-formed names only, so there are none here.          *)

BeginBackfill ==
  /\ maint = "off"
  /\ maint' = "on"
  /\ todo' = {s \in Sessions : blobs[s] # NoRow}
  /\ failures' = {}
  /\ UNCHANGED <<tables, committed>>

\* The head row one session has after its conversion transaction: kept when
\* its revision is the blob's, otherwise laid out anew from the blob.
ConvertedHead(s) ==
  IF heads[s] # NoRow /\ heads[s].doc = blobs[s].doc THEN heads[s] ELSE blobs[s]

\* Mutant of BackfillOneSession: the stale head goes in a transaction of its own.
BackfillOneSessionInTwo(s) ==
  /\ maint = "on"
  /\ s \in todo
  /\ todo' = todo \ {s}
  /\ \/ /\ blobs[s].doc \in Docs
        /\ heads' = [heads EXCEPT ![s] = ConvertedHead(s)]
        /\ UNCHANGED failures
     \/ /\ failures' = failures \cup {s}
        /\ heads' = [heads EXCEPT ![s] =
             IF @ # NoRow /\ @.doc # blobs[s].doc THEN NoRow ELSE @]
  /\ UNCHANGED <<records, blobs, ledger, maint, committed>>

\* The transaction converts the session or fails whole: always on a document
\* that does not decode, and on any other storage error.
BackfillOneSession(s) ==
  /\ maint = "on"
  /\ s \in todo
  /\ todo' = todo \ {s}
  /\ \/ /\ blobs[s].doc \in Docs
        /\ heads' = [heads EXCEPT ![s] = ConvertedHead(s)]
        /\ UNCHANGED failures
     \/ /\ failures' = failures \cup {s}
        /\ UNCHANGED heads
  /\ UNCHANGED <<records, blobs, ledger, maint, committed>>

BlobRowsWithoutHead == {s \in Sessions : blobs[s] # NoRow /\ heads[s] = NoRow}

FinishBackfill ==
  /\ maint = "on"
  /\ todo = {}
  /\ ledger' = IF failures = {} /\ BlobRowsWithoutHead = {} THEN 2 ELSE ledger
  /\ maint' = "off"
  /\ failures' = {}
  /\ UNCHANGED <<records, blobs, heads, todo, committed>>

\* The maintenance process dies between two session transactions.
InterruptBackfill ==
  /\ maint = "on"
  /\ maint' = "off"
  /\ todo' = {}
  /\ failures' = {}
  /\ UNCHANGED <<tables, committed>>

-----------------------------------------------------------------------------
Init ==
  /\ records = [i \in Identities |-> NoRow]
  /\ blobs = [s \in Sessions |-> NoRow]
  /\ heads = [s \in Sessions |-> NoRow]
  /\ ledger = 1
  /\ maint = "off"
  /\ todo = {}
  /\ failures = {}
  /\ committed = [s \in Sessions |-> NoRow]

\* reset's contract with rollback: the attempt is a later generation than the
\* row it restores.
Previous(g) == {NoRow} \cup {r \in Record : r.generation < g /\ r.token = 0}

SessionWrite(c) ==
  \/ \E d \in AnyDoc : SaveSessionSnapshot(c, d)
  \/ AppendMessages(c)
  \/ \E e \in Docs : CommitRewrite(c, e)
  \/ \E e \in Docs \cup {NoRow}, d \in Docs : SaveHead(c, e, d)
  \/ \E d \in Docs : AdoptReleasedHeadDocument(c, d)

RecordWrite(i) ==
  \/ \E s \in Sessions, g \in Generations, v \in Versions, t \in Tokens :
       UpsertContinuityRecord(i, s, g, v, t)
  \/ \E s \in Sessions, g \in Generations, t \in Tokens :
       \E p \in Previous(g) : RollbackContinuityRecord(i, s, g, p, t)
  \/ \E t \in Tokens : DeleteContinuityRecord(i, t)

GatewayNext ==
  \/ \E c \in Cursor : SessionWrite(c)
  \/ \E i \in Identities : RecordWrite(i)
  \/ \E s \in Sessions, d \in Docs : DeleteSessionSnapshotIfCurrentRevision(s, d)

MaintenanceNext ==
  \/ BeginBackfill
  \/ \E s \in Sessions : BackfillOneSession(s)
  \/ FinishBackfill
  \/ InterruptBackfill

\* The store as the gateway drives it, with no maintenance verb ever run.
GatewaySpec == Init /\ [][GatewayNext]_vars

\* The store over its whole life, maintenance runs included.
Spec == Init /\ [][GatewayNext \/ MaintenanceNext]_vars

-----------------------------------------------------------------------------
(* Refinement. *)

\* The row that speaks for a session, as a one-table store would hold it.
Authority(s) == IF heads[s] # NoRow THEN heads[s] ELSE blobs[s]
DocOf(s) ==
  IF Authority(s) = NoRow THEN NoRow
  ELSE [identity |-> Authority(s).identity,
        generation |-> Authority(s).generation, doc |-> Authority(s).doc]

OneTable == INSTANCE SessionDocuments WITH docs <- [s \in Sessions |-> DocOf(s)]

-----------------------------------------------------------------------------
(* Properties. *)

\* The two-table store implements the one-table store: migrating a document to
\* its head-canonical row, in the middle of whichever delta verb touches it
\* first, is invisible to readers, to the owner checks and to rollback and
\* delete.
ImplementsOneTable == OneTable!Spec

TypeOK ==
  /\ records \in [Identities -> Record \cup {NoRow}]
  /\ blobs \in [Sessions -> Row \cup {NoRow}]
  /\ heads \in [Sessions -> Row \cup {NoRow}]
  /\ ledger \in {1, 2}
  /\ maint \in {"on", "off"}
  /\ todo \subseteq Sessions
  /\ failures \subseteq Sessions
  /\ committed \in [Sessions -> AnyDoc \cup {NoRow}]

\* The two representations of one session always belong to the same identity
\* and generation, so the identity- and generation-scoped deletes of rollback
\* and delete_continuity_record take both rows or neither: a deleted head can
\* never let its frozen archive resurface.
OneOwner ==
  \A s \in Sessions : blobs[s] # NoRow /\ heads[s] # NoRow =>
    /\ blobs[s].identity = heads[s].identity
    /\ blobs[s].generation = heads[s].generation

\* A reader is served exactly the document of the last accepted write (or
\* nothing after a delete): migration, rebase, rollback and the two-table
\* deletes never lose an update and never resurrect an old document.
ReaderSeesLastCommit == \A s \in Sessions : ReadDoc(s) = committed[s]

\* Whenever a gateway may open the file, a head row with no ledger stamp is
\* impossible (comment of delta_write), so an older release can never take a
\* frozen archive for the authority.
HeadImpliesStamp ==
  maint = "off" /\ (\E s \in Sessions : heads[s] # NoRow) => ledger = 2

\* However often a backfill starts and wherever it dies, no session is lost
\* and none comes back from the dead; a session it has not converted reads its
\* last accepted write, and for one it has the worst it can do is to put back
\* the archive it was converted from.
CrossingLosesNoSession ==
  \A s \in Sessions :
    /\ ReadDoc(s) = NoRow <=> committed[s] = NoRow
    /\ heads[s] = NoRow => ReadDoc(s) = committed[s]
    /\ ReadDoc(s) # committed[s] =>
         blobs[s] # NoRow /\ ReadDoc(s) = blobs[s].doc

\* While an identity keeps a record its fence never goes down: upsert, delete,
\* rollback and every session write refuse a smaller token.
FenceNeverRegresses ==
  [][\A i \in Identities : records[i] # NoRow /\ records'[i] # NoRow =>
       records'[i].token >= records[i].token]_vars

\* Within one generation the record's checkpoint version never rewinds; only
\* a rollback to an earlier generation may carry an older one.
VersionNeverRewinds ==
  [][\A i \in Identities :
       /\ records[i] # NoRow
       /\ records'[i] # NoRow
       /\ records'[i].generation = records[i].generation
       => records'[i].version >= records[i].version]_vars

\* A fenced-out writer changes nothing: a session row that appears or changes
\* while its owner has a record carries a token no older than the fence and
\* belongs to the session and generation the record binds.
RowWriteFenced(row, old, s) ==
  row # old /\ row # NoRow /\ records[row.identity] # NoRow =>
    /\ row.token >= records[row.identity].token
    /\ row.generation = records[row.identity].generation
    /\ s = records[row.identity].session

StaleWriterFenced ==
  [][\A s \in Sessions : /\ RowWriteFenced(blobs'[s], blobs[s], s)
                         /\ RowWriteFenced(heads'[s], heads[s], s)]_vars

\* Once a session has a head row its blob is a frozen archive: no verb writes
\* it again, it can only be deleted.
FrozenArchive ==
  [][\A s \in Sessions : heads[s] # NoRow => blobs'[s] \in {blobs[s], NoRow}]_vars
=============================================================================
