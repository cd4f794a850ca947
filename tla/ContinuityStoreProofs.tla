----------------------- MODULE ContinuityStoreProofs -----------------------
(***************************************************************************)
(* Theorems about ContinuityStore for every number of identities, sessions *)
(* and documents, and every bound on generations, versions and tokens.     *)
(***************************************************************************)
EXTENDS ContinuityStore, TLAPS

-----------------------------------------------------------------------------
(* Lemmas about the helpers of the transactions. *)

\* The row a cursor stamps is a row, and its owner is the cursor's.
LEMMA StampedRowType ==
  ASSUME NEW c \in Cursor, NEW d \in AnyDoc
  PROVE  /\ StampedRow(c, d) \in Row
         /\ StampedRow(c, d) # NoRow
         /\ StampedRow(c, d).identity = c.identity
         /\ StampedRow(c, d).generation = c.generation
         /\ StampedRow(c, d).token = c.token
         /\ StampedRow(c, d).doc = d
  BY ConstantsAssumption DEF StampedRow, Row, Cursor

\* advance_continuity_record keeps the record table well typed.
LEMMA AdvanceRecordType ==
  ASSUME TypeOK, NEW c \in Cursor, AdvanceRecord(c)
  PROVE  records' \in [Identities -> Record \cup {NoRow}]
  BY DEF TypeOK, AdvanceRecord, Cursor, Record

\* Migration only ever installs a well-typed head row.
LEMMA MigratedHeadsType ==
  ASSUME TypeOK, NEW c \in Cursor
  PROVE  MigratedHeads(c) \in [Sessions -> Row \cup {NoRow}]
  <1>1. CASE heads[c.session] = NoRow /\ blobs[c.session] # NoRow
    <2>1. c.session \in Sessions
      BY DEF Cursor
    <2>2. blobs[c.session].doc \in AnyDoc
      BY <1>1, <2>1 DEF TypeOK, Row
    <2>3. StampedRow(c, blobs[c.session].doc) \in Row
      BY <2>2, StampedRowType
    <2> QED
      BY <1>1, <2>3 DEF TypeOK, MigratedHeads
  <1>2. CASE ~(heads[c.session] = NoRow /\ blobs[c.session] # NoRow)
    BY <1>2 DEF TypeOK, MigratedHeads
  <1> QED
    BY <1>1, <1>2

\* The two-table delete leaves well-typed tables.
LEMMA DropRowsType ==
  ASSUME TypeOK, NEW bs, NEW hs, DropRows(bs, hs)
  PROVE  /\ blobs' \in [Sessions -> Row \cup {NoRow}]
         /\ heads' \in [Sessions -> Row \cup {NoRow}]
         /\ committed' \in [Sessions -> AnyDoc \cup {NoRow}]
  BY DEF TypeOK, DropRows

-----------------------------------------------------------------------------
(* Type correctness. *)

LEMMA InitTypeOK == Init => TypeOK
  BY DEF Init, TypeOK

LEMMA SaveSessionSnapshotType ==
  ASSUME TypeOK, NEW c \in Cursor, NEW d \in AnyDoc, SaveSessionSnapshot(c, d)
  PROVE  TypeOK'
  <1>1. records' \in [Identities -> Record \cup {NoRow}]
    BY AdvanceRecordType DEF SaveSessionSnapshot
  <1>2. StampedRow(c, d) \in Row /\ c.session \in Sessions
    BY StampedRowType DEF Cursor
  <1>3. /\ blobs' \in [Sessions -> Row \cup {NoRow}]
        /\ heads' \in [Sessions -> Row \cup {NoRow}]
        /\ committed' \in [Sessions -> AnyDoc \cup {NoRow}]
    BY <1>2 DEF SaveSessionSnapshot, TypeOK
  <1> QED
    BY <1>1, <1>3 DEF SaveSessionSnapshot, TypeOK, maintVars

\* What the frame of the delta verbs leaves to its operation.
LEMMA DeltaWriteType ==
  ASSUME TypeOK, NEW c \in Cursor, DeltaWrite(c, TRUE),
         heads' \in [Sessions -> Row \cup {NoRow}],
         committed' \in [Sessions -> AnyDoc \cup {NoRow}]
  PROVE  TypeOK'
  <1>1. records' \in [Identities -> Record \cup {NoRow}]
    BY AdvanceRecordType DEF DeltaWrite
  <1>2. ledger' \in {1, 2}
    BY DEF DeltaWrite, StampIfHead, TypeOK
  <1> QED
    BY <1>1, <1>2 DEF DeltaWrite, TypeOK, maintVars

LEMMA AppendMessagesType ==
  ASSUME TypeOK, NEW c \in Cursor, AppendMessages(c)
  PROVE  TypeOK'
  <1>1. DeltaWrite(c, TRUE)
    BY DEF AppendMessages, DeltaWrite
  <1>2. heads' \in [Sessions -> Row \cup {NoRow}]
    BY MigratedHeadsType DEF AppendMessages, DeltaWrite
  <1>3. committed' \in [Sessions -> AnyDoc \cup {NoRow}]
    BY DEF AppendMessages, DeltaWrite, TypeOK
  <1> QED
    BY <1>1, <1>2, <1>3, DeltaWriteType

LEMMA CommitRewriteType ==
  ASSUME TypeOK, NEW c \in Cursor, NEW e \in Docs, CommitRewrite(c, e)
  PROVE  TypeOK'
  <1>1. DeltaWrite(c, TRUE)
    BY DEF CommitRewrite, DeltaWrite
  <1>2. heads' \in [Sessions -> Row \cup {NoRow}]
    BY MigratedHeadsType DEF CommitRewrite, DeltaWrite
  <1>3. committed' \in [Sessions -> AnyDoc \cup {NoRow}]
    BY DEF CommitRewrite, DeltaWrite, TypeOK
  <1> QED
    BY <1>1, <1>2, <1>3, DeltaWriteType

LEMMA SaveHeadType ==
  ASSUME TypeOK, NEW c \in Cursor, NEW e \in Docs \cup {NoRow}, NEW d \in Docs,
         SaveHead(c, e, d)
  PROVE  TypeOK'
  <1>1. DeltaWrite(c, TRUE)
    BY DEF SaveHead, DeltaWrite
  <1>2. d \in AnyDoc /\ StampedRow(c, d) \in Row /\ c.session \in Sessions
    BY StampedRowType DEF AnyDoc, Cursor
  <1>3. heads' \in [Sessions -> Row \cup {NoRow}]
    BY <1>2 DEF SaveHead, DeltaWrite, TypeOK
  <1>4. committed' \in [Sessions -> AnyDoc \cup {NoRow}]
    BY <1>2 DEF SaveHead, DeltaWrite, TypeOK
  <1> QED
    BY <1>1, <1>3, <1>4, DeltaWriteType

LEMMA AdoptReleasedHeadDocumentType ==
  ASSUME TypeOK, NEW c \in Cursor, NEW d \in Docs, AdoptReleasedHeadDocument(c, d)
  PROVE  TypeOK'
  <1>1. DeltaWrite(c, TRUE)
    BY DEF AdoptReleasedHeadDocument, DeltaWrite
  <1>2. d \in AnyDoc /\ StampedRow(c, d) \in Row /\ c.session \in Sessions
    BY StampedRowType DEF AnyDoc, Cursor
  <1>3. heads' \in [Sessions -> Row \cup {NoRow}]
    BY <1>2 DEF AdoptReleasedHeadDocument, DeltaWrite, TypeOK
  <1>4. committed' \in [Sessions -> AnyDoc \cup {NoRow}]
    BY <1>2 DEF AdoptReleasedHeadDocument, DeltaWrite, TypeOK
  <1> QED
    BY <1>1, <1>3, <1>4, DeltaWriteType

LEMMA RecordWriteType ==
  ASSUME TypeOK, NEW i \in Identities, RecordWrite(i)
  PROVE  TypeOK'
  <1>1. ASSUME NEW s \in Sessions, NEW g \in Generations, NEW v \in Versions,
               NEW t \in Tokens, UpsertContinuityRecord(i, s, g, v, t)
        PROVE  TypeOK'
    <2>1. UpsertedVersion(records[i], g, v) \in Versions
      BY DEF UpsertedVersion, TypeOK, Record
    <2>2. [session |-> s, generation |-> g, token |-> t,
           version |-> UpsertedVersion(records[i], g, v)] \in Record
      BY <2>1 DEF Record
    <2>3. records' \in [Identities -> Record \cup {NoRow}]
      BY <1>1, <2>2 DEF UpsertContinuityRecord, TypeOK
    <2> QED
      BY <1>1, <2>3 DEF UpsertContinuityRecord, TypeOK, maintVars
  <1>2. ASSUME NEW s \in Sessions, NEW g \in Generations, NEW t \in Tokens,
               NEW p \in Previous(g), RollbackContinuityRecord(i, s, g, p, t)
        PROVE  TypeOK'
    <2>1. p # NoRow => [p EXCEPT !.token = t] \in Record
      BY DEF Previous, Record
    <2>2. records' \in [Identities -> Record \cup {NoRow}]
      BY <1>2, <2>1 DEF RollbackContinuityRecord, TypeOK
    <2> QED
      BY <1>2, <2>2, DropRowsType DEF RollbackContinuityRecord, TypeOK, maintVars
  <1>3. ASSUME NEW t \in Tokens, DeleteContinuityRecord(i, t)
        PROVE  TypeOK'
    <2>1. records' \in [Identities -> Record \cup {NoRow}]
      BY <1>3 DEF DeleteContinuityRecord, TypeOK
    <2> QED
      BY <1>3, <2>1, DropRowsType DEF DeleteContinuityRecord, TypeOK, maintVars
  <1> QED
    BY <1>1, <1>2, <1>3 DEF RecordWrite

LEMMA DeleteSessionSnapshotType ==
  ASSUME TypeOK, NEW s \in Sessions, NEW d \in Docs,
         DeleteSessionSnapshotIfCurrentRevision(s, d)
  PROVE  TypeOK'
  BY DEF DeleteSessionSnapshotIfCurrentRevision, TypeOK, maintVars

LEMMA MaintenanceType ==
  ASSUME TypeOK, MaintenanceNext
  PROVE  TypeOK'
  <1>1. CASE BeginBackfill
    BY <1>1 DEF BeginBackfill, TypeOK, tables
  <1>2. ASSUME NEW s \in Sessions, BackfillOneSession(s)
        PROVE  TypeOK'
    <2>1. ConvertedHead(s) \in Row \cup {NoRow}
      BY DEF ConvertedHead, TypeOK
    <2>2. heads' \in [Sessions -> Row \cup {NoRow}]
      BY <1>2, <2>1 DEF BackfillOneSession, TypeOK
    <2> QED
      BY <1>2, <2>2 DEF BackfillOneSession, TypeOK
  <1>3. CASE FinishBackfill
    BY <1>3 DEF FinishBackfill, TypeOK
  <1>4. CASE InterruptBackfill
    BY <1>4 DEF InterruptBackfill, TypeOK, tables
  <1> QED
    BY <1>1, <1>2, <1>3, <1>4 DEF MaintenanceNext

LEMMA GatewayType ==
  ASSUME TypeOK, GatewayNext
  PROVE  TypeOK'
  <1>1. ASSUME NEW c \in Cursor, SessionWrite(c)
        PROVE  TypeOK'
    BY <1>1, SaveSessionSnapshotType, AppendMessagesType, CommitRewriteType,
       SaveHeadType, AdoptReleasedHeadDocumentType DEF SessionWrite
  <1> QED
    BY <1>1, RecordWriteType, DeleteSessionSnapshotType DEF GatewayNext

\* Every table, the ledger and the maintenance state of local_store.rs stay
\* well typed over the store's whole life, backfills and crashes included.
THEOREM TypeCorrect == Spec => []TypeOK
  <1>1. TypeOK /\ [GatewayNext \/ MaintenanceNext]_vars => TypeOK'
    <2>1. ASSUME TypeOK, UNCHANGED vars
          PROVE  TypeOK'
      BY <2>1 DEF vars, TypeOK
    <2> QED
      BY <2>1, GatewayType, MaintenanceType
  <1> QED
    BY <1>1, InitTypeOK, PTL DEF Spec

-----------------------------------------------------------------------------
(* Custody: the two representations of a session have one owner. *)

\* Every verb of the delta channel only ever replaces the head row of its own
\* session, by a row stamped with its cursor, and only over a blob it owns.
LEMMA DeltaVerbs ==
  ASSUME TypeOK, NEW c \in Cursor, SessionWrite(c)
  PROVE  \/ \E d \in AnyDoc : SaveSessionSnapshot(c, d)
         \/ /\ DeltaWrite(c, TRUE)
            /\ \A s \in Sessions \ {c.session} : heads'[s] = heads[s]
            /\ \/ heads' = heads
               \/ \E d \in Docs : heads' = [heads EXCEPT ![c.session] = StampedRow(c, d)]
            /\ \/ heads' = MigratedHeads(c) /\ committed' = committed
               \/ \E d \in Docs :
                    /\ heads' = [heads EXCEPT ![c.session] = StampedRow(c, d)]
                    /\ committed' = [committed EXCEPT ![c.session] = d]
  <1> DEFINE Moved == \E d \in Docs :
                        /\ heads' = [heads EXCEPT ![c.session] = StampedRow(c, d)]
                        /\ committed' = [committed EXCEPT ![c.session] = d]
             Kept == heads' = MigratedHeads(c) /\ committed' = committed
  <1>1. ASSUME Migratable(c.session)
        PROVE  MigratedHeads(c) = heads
               \/ \E d \in Docs :
                    MigratedHeads(c) = [heads EXCEPT ![c.session] = StampedRow(c, d)]
    BY <1>1 DEF Migratable, MigratedHeads
  <1>2. ASSUME DeltaWrite(c, TRUE), Kept \/ Moved
        PROVE  /\ \A s \in Sessions \ {c.session} : heads'[s] = heads[s]
               /\ \/ heads' = heads
                  \/ \E d \in Docs : heads' = [heads EXCEPT ![c.session] = StampedRow(c, d)]
    <2>1. heads' = heads
          \/ \E d \in Docs : heads' = [heads EXCEPT ![c.session] = StampedRow(c, d)]
      BY <1>1, <1>2 DEF DeltaWrite
    <2> QED
      BY <2>1 DEF TypeOK
  <1>3. CASE AppendMessages(c)
    <2>1. DeltaWrite(c, TRUE) /\ Kept
      BY <1>3 DEF AppendMessages, DeltaWrite
    <2> QED
      BY <1>2, <2>1
  <1>4. CASE \E e \in Docs : CommitRewrite(c, e)
    <2>1. DeltaWrite(c, TRUE) /\ Kept
      BY <1>4 DEF CommitRewrite, DeltaWrite
    <2> QED
      BY <1>2, <2>1
  <1>5. CASE \E e \in Docs \cup {NoRow}, d \in Docs : SaveHead(c, e, d)
    <2>1. DeltaWrite(c, TRUE) /\ Moved
      BY <1>5 DEF SaveHead, DeltaWrite
    <2> QED
      BY <1>2, <2>1
  <1>6. CASE \E d \in Docs : AdoptReleasedHeadDocument(c, d)
    <2>1. DeltaWrite(c, TRUE) /\ Moved
      BY <1>6 DEF AdoptReleasedHeadDocument, DeltaWrite
    <2> QED
      BY <1>2, <2>1
  <1> QED
    BY <1>3, <1>4, <1>5, <1>6 DEF SessionWrite

LEMMA SessionWriteOneOwner ==
  ASSUME TypeOK, OneOwner, NEW c \in Cursor, SessionWrite(c)
  PROVE  OneOwner'
  <1> c.session \in Sessions
    BY DEF Cursor
  <1>1. ASSUME NEW d \in AnyDoc, SaveSessionSnapshot(c, d)
        PROVE  OneOwner'
    BY <1>1, StampedRowType
       DEF SaveSessionSnapshot, OneOwner, TypeOK, EnsureSnapshotOwner, OwnedBy
  <1>2. ASSUME DeltaWrite(c, TRUE),
               \/ heads' = heads
               \/ \E d \in Docs : heads' = [heads EXCEPT ![c.session] = StampedRow(c, d)]
        PROVE  OneOwner'
    <2>1. CASE heads' = heads
      BY <1>2, <2>1 DEF DeltaWrite, OneOwner
    <2>2. ASSUME NEW d \in Docs, heads' = [heads EXCEPT ![c.session] = StampedRow(c, d)]
          PROVE  OneOwner'
      <3>1. d \in AnyDoc
        BY DEF AnyDoc
      <3> QED
        BY <1>2, <2>2, <3>1, StampedRowType
           DEF DeltaWrite, OneOwner, TypeOK, EnsureSnapshotOwner, OwnedBy
    <2> QED
      BY <1>2, <2>1, <2>2
  <1> QED
    BY <1>1, <1>2, DeltaVerbs

\* A two-table delete keeps what it does not remove.
LEMMA DropRowsOneOwner ==
  ASSUME OneOwner, NEW bs, NEW hs, DropRows(bs, hs)
  PROVE  OneOwner'
  BY DEF OneOwner, DropRows

LEMMA GatewayOneOwner ==
  ASSUME TypeOK, OneOwner, GatewayNext
  PROVE  OneOwner'
  <1>1. ASSUME NEW i \in Identities, RecordWrite(i)
        PROVE  OneOwner'
    <2>1. ASSUME NEW s, NEW g, NEW v, NEW t, UpsertContinuityRecord(i, s, g, v, t)
          PROVE  OneOwner'
      BY <2>1 DEF UpsertContinuityRecord, OneOwner
    <2>2. ASSUME NEW s, NEW g, NEW p, NEW t, RollbackContinuityRecord(i, s, g, p, t)
          PROVE  OneOwner'
      BY <2>2, DropRowsOneOwner DEF RollbackContinuityRecord
    <2>3. ASSUME NEW t, DeleteContinuityRecord(i, t)
          PROVE  OneOwner'
      BY <2>3, DropRowsOneOwner DEF DeleteContinuityRecord
    <2> QED
      BY <1>1, <2>1, <2>2, <2>3 DEF RecordWrite
  <1>2. ASSUME NEW s \in Sessions, NEW d, DeleteSessionSnapshotIfCurrentRevision(s, d)
        PROVE  OneOwner'
    BY <1>2 DEF DeleteSessionSnapshotIfCurrentRevision, OneOwner, TypeOK
  <1> QED
    BY <1>1, <1>2, SessionWriteOneOwner DEF GatewayNext

LEMMA MaintenanceOneOwner ==
  ASSUME TypeOK, OneOwner, MaintenanceNext
  PROVE  OneOwner'
  <1>1. ASSUME NEW s \in Sessions, BackfillOneSession(s)
        PROVE  OneOwner'
    BY <1>1 DEF BackfillOneSession, ConvertedHead, OneOwner, TypeOK
  <1> QED
    BY <1>1 DEF MaintenanceNext, BeginBackfill, FinishBackfill, InterruptBackfill,
                OneOwner, tables

\* Whatever order the verbs, backfills and crashes of local_store.rs come in,
\* both representations of a session belong to one identity and generation.
THEOREM CustodyIsConsistent == Spec => []OneOwner
  <1>1. Init => OneOwner
    BY DEF Init, OneOwner
  <1>2. TypeOK /\ OneOwner /\ [GatewayNext \/ MaintenanceNext]_vars => OneOwner'
    <2>1. ASSUME OneOwner, UNCHANGED vars
          PROVE  OneOwner'
      BY <2>1 DEF vars, OneOwner
    <2> QED
      BY <2>1, GatewayOneOwner, MaintenanceOneOwner
  <1> QED
    BY <1>1, <1>2, TypeCorrect, PTL DEF Spec

-----------------------------------------------------------------------------
(* Without a maintenance run a reader is always served the last commit.  The *)
(* induction needs OneOwner: a delete scoped to an identity or a generation  *)
(* that removes a head must remove the archive beneath it.                   *)

LEMMA SessionWriteReads ==
  ASSUME TypeOK, ReaderSeesLastCommit, NEW c \in Cursor, SessionWrite(c)
  PROVE  ReaderSeesLastCommit'
  <1> c.session \in Sessions
    BY DEF Cursor
  <1>1. ASSUME NEW d \in AnyDoc, SaveSessionSnapshot(c, d)
        PROVE  ReaderSeesLastCommit'
    BY <1>1, StampedRowType
       DEF SaveSessionSnapshot, ReaderSeesLastCommit, ReadDoc, TypeOK
  <1>2. ASSUME DeltaWrite(c, TRUE), heads' = MigratedHeads(c), committed' = committed
        PROVE  ReaderSeesLastCommit'
    <2>1. CASE heads[c.session] = NoRow /\ blobs[c.session] # NoRow
      <3>1. blobs[c.session].doc \in AnyDoc
        BY <2>1 DEF TypeOK, Row
      <3> QED
        BY <1>2, <2>1, <3>1, StampedRowType
           DEF MigratedHeads, DeltaWrite, ReaderSeesLastCommit, ReadDoc, TypeOK
    <2>2. CASE ~(heads[c.session] = NoRow /\ blobs[c.session] # NoRow)
      BY <1>2, <2>2 DEF MigratedHeads, DeltaWrite, ReaderSeesLastCommit, ReadDoc
    <2> QED
      BY <2>1, <2>2
  <1>3. ASSUME DeltaWrite(c, TRUE), NEW d \in Docs,
               heads' = [heads EXCEPT ![c.session] = StampedRow(c, d)],
               committed' = [committed EXCEPT ![c.session] = d]
        PROVE  ReaderSeesLastCommit'
    <2>1. d \in AnyDoc
      BY DEF AnyDoc
    <2> QED
      BY <1>3, <2>1, StampedRowType DEF DeltaWrite, ReaderSeesLastCommit, ReadDoc, TypeOK
  <1> QED
    BY <1>1, <1>2, <1>3, DeltaVerbs

LEMMA RecordWriteReads ==
  ASSUME TypeOK, OneOwner, ReaderSeesLastCommit, NEW i \in Identities, RecordWrite(i)
  PROVE  ReaderSeesLastCommit'
  <1>1. ASSUME NEW s, NEW g, NEW v, NEW t, UpsertContinuityRecord(i, s, g, v, t)
        PROVE  ReaderSeesLastCommit'
    BY <1>1 DEF UpsertContinuityRecord, ReaderSeesLastCommit, ReadDoc
  <1>2. ASSUME NEW s, NEW g, NEW p, NEW t, RollbackContinuityRecord(i, s, g, p, t)
        PROVE  ReaderSeesLastCommit'
    BY <1>2 DEF RollbackContinuityRecord, DropRows, OfGeneration, OneOwner,
                ReaderSeesLastCommit, ReadDoc
  <1>3. ASSUME NEW t, DeleteContinuityRecord(i, t)
        PROVE  ReaderSeesLastCommit'
    BY <1>3 DEF DeleteContinuityRecord, DropRows, OfIdentity, OneOwner,
                ReaderSeesLastCommit, ReadDoc
  <1> QED
    BY <1>1, <1>2, <1>3 DEF RecordWrite

LEMMA GatewayReads ==
  ASSUME TypeOK, OneOwner, ReaderSeesLastCommit, GatewayNext
  PROVE  ReaderSeesLastCommit'
  <1>1. ASSUME NEW s \in Sessions, NEW d, DeleteSessionSnapshotIfCurrentRevision(s, d)
        PROVE  ReaderSeesLastCommit'
    BY <1>1 DEF DeleteSessionSnapshotIfCurrentRevision, ReaderSeesLastCommit,
                ReadDoc, TypeOK
  <1> QED
    BY <1>1, SessionWriteReads, RecordWriteReads DEF GatewayNext

\* As long as storage-migrate never runs, no verb of local_store.rs loses an
\* accepted write or brings an older document back.
THEOREM NoLostUpdate == GatewaySpec => []ReaderSeesLastCommit
  <1> DEFINE Inv == TypeOK /\ OneOwner /\ ReaderSeesLastCommit
  <1>1. Init => Inv
    BY InitTypeOK DEF Init, OneOwner, ReaderSeesLastCommit, ReadDoc
  <1>2. Inv /\ [GatewayNext]_vars => Inv'
    <2>1. ASSUME Inv, UNCHANGED vars
          PROVE  Inv'
      BY <2>1 DEF vars, TypeOK, OneOwner, ReaderSeesLastCommit, ReadDoc
    <2> QED
      BY <2>1, GatewayType, GatewayOneOwner, GatewayReads
  <1>3. Inv => ReaderSeesLastCommit
    OBVIOUS
  <1> QED
    BY <1>1, <1>2, <1>3, PTL DEF GatewaySpec

-----------------------------------------------------------------------------
(* The lockout stamp. *)

LEMMA GatewayStamps ==
  ASSUME TypeOK, HeadImpliesStamp, GatewayNext
  PROVE  HeadImpliesStamp'
  <1>1. ASSUME NEW c \in Cursor, SessionWrite(c)
        PROVE  HeadImpliesStamp'
    <2> c.session \in Sessions
      BY <1>1 DEF Cursor
    <2>1. ASSUME NEW d \in AnyDoc, SaveSessionSnapshot(c, d)
          PROVE  HeadImpliesStamp'
      BY <2>1 DEF SaveSessionSnapshot, HeadImpliesStamp, TypeOK, maintVars
    <2>2. ASSUME DeltaWrite(c, TRUE),
                 \A s \in Sessions \ {c.session} : heads'[s] = heads[s]
          PROVE  HeadImpliesStamp'
      BY <2>2 DEF DeltaWrite, StampIfHead, HeadImpliesStamp, maintVars
    <2> QED
      BY <1>1, <2>1, <2>2, DeltaVerbs
  <1>2. ASSUME NEW i \in Identities, RecordWrite(i)
        PROVE  HeadImpliesStamp'
    BY <1>2 DEF RecordWrite, UpsertContinuityRecord, RollbackContinuityRecord,
                DeleteContinuityRecord, DropRows, HeadImpliesStamp, maintVars
  <1>3. ASSUME NEW s \in Sessions, NEW d, DeleteSessionSnapshotIfCurrentRevision(s, d)
        PROVE  HeadImpliesStamp'
    BY <1>3 DEF DeleteSessionSnapshotIfCurrentRevision, HeadImpliesStamp, TypeOK,
                maintVars
  <1> QED
    BY <1>1, <1>2, <1>3 DEF GatewayNext

\* As long as storage-migrate never runs, a file that holds a head row has
\* been stamped, so a release <= 0.8.5 refuses to open it.
THEOREM HeadsAreStamped == GatewaySpec => []HeadImpliesStamp
  <1> DEFINE Inv == TypeOK /\ HeadImpliesStamp
  <1>1. Init => Inv
    BY InitTypeOK DEF Init, HeadImpliesStamp
  <1>2. Inv /\ [GatewayNext]_vars => Inv'
    <2>1. ASSUME Inv, UNCHANGED vars
          PROVE  Inv'
      BY <2>1 DEF vars, TypeOK, HeadImpliesStamp
    <2> QED
      BY <2>1, GatewayType, GatewayStamps
  <1> QED
    BY <1>1, <1>2, PTL DEF GatewaySpec

-----------------------------------------------------------------------------
(* Action properties: what no single transaction may do. *)

LEMMA SessionWriteFence ==
  ASSUME TypeOK, NEW c \in Cursor, SessionWrite(c)
  PROVE  /\ EnforceCursor(c)
         /\ AdvanceRecord(c)
         /\ \A s \in Sessions \ {c.session} :
              heads'[s] = heads[s] /\ blobs'[s] = blobs[s]
         /\ blobs'[c.session] # blobs[c.session] =>
              \E d \in AnyDoc : blobs'[c.session] = StampedRow(c, d)
         /\ heads'[c.session] # heads[c.session] =>
              \E d \in AnyDoc : heads'[c.session] = StampedRow(c, d)
  <1> c.session \in Sessions
    BY DEF Cursor
  <1>1. CASE \E d \in AnyDoc : SaveSessionSnapshot(c, d)
    BY <1>1 DEF SaveSessionSnapshot, TypeOK
  <1> QED
    BY <1>1, DeltaVerbs DEF DeltaWrite, TypeOK, AnyDoc

\* The record an accepted session write leaves behind.
LEMMA AdvancedRecord ==
  ASSUME TypeOK, NEW c \in Cursor, AdvanceRecord(c), NEW i \in Identities,
         records[i] # NoRow
  PROVE  /\ i = c.identity => /\ records'[i].token = c.token
                              /\ records'[i].version = c.version
                              /\ records'[i].generation = records[i].generation
         /\ i # c.identity => records'[i] = records[i]
  BY DEF AdvanceRecord, TypeOK, Record, Cursor

\* What one verb may do to an identity's fence and to its version within a
\* generation.
RecordStep(i) ==
  records[i] # NoRow /\ records'[i] # NoRow =>
    /\ records'[i].token >= records[i].token
    /\ records'[i].generation = records[i].generation =>
         records'[i].version >= records[i].version

LEMMA GatewayRecordStep ==
  ASSUME TypeOK, GatewayNext, NEW i \in Identities
  PROVE  RecordStep(i)
  <1> SUFFICES ASSUME records[i] # NoRow, records'[i] # NoRow
               PROVE  /\ records'[i].token >= records[i].token
                      /\ records'[i].generation = records[i].generation =>
                           records'[i].version >= records[i].version
    BY DEF RecordStep
  <1>0. /\ records[i] \in Record
        /\ records[i].token \in Int
        /\ records[i].version \in Int
        /\ records[i].generation \in Int
    BY ConstantsAssumption DEF TypeOK, Record, Tokens, Versions, Generations
  <1>1. ASSUME NEW c \in Cursor, SessionWrite(c)
        PROVE  RecordStep(i)
    <2>1. EnforceCursor(c) /\ AdvanceRecord(c)
      BY <1>1, SessionWriteFence
    <2>2. c.token \in Int /\ c.version \in Int
      BY ConstantsAssumption DEF Cursor, Tokens, Versions
    <2>3. CASE i = c.identity
      BY <1>0, <2>1, <2>2, <2>3, AdvancedRecord DEF EnforceCursor, RecordStep
    <2>4. CASE i # c.identity
      BY <1>0, <2>1, <2>4, AdvancedRecord DEF RecordStep
    <2> QED
      BY <2>3, <2>4
  <1>2. ASSUME NEW j \in Identities, RecordWrite(j)
        PROVE  RecordStep(i)
    <2>1. ASSUME NEW s \in Sessions, NEW g \in Generations, NEW v \in Versions,
                 NEW t \in Tokens, UpsertContinuityRecord(j, s, g, v, t)
          PROVE  RecordStep(i)
      <3>1. g \in Int /\ v \in Int /\ t \in Int
        BY ConstantsAssumption DEF Generations, Versions, Tokens
      <3> QED
        BY <1>0, <2>1, <3>1
           DEF UpsertContinuityRecord, UpsertedVersion, RecordStep, TypeOK
    <2>2. ASSUME NEW s \in Sessions, NEW g \in Generations, NEW t \in Tokens,
                 NEW p \in Previous(g), RollbackContinuityRecord(j, s, g, p, t)
          PROVE  RecordStep(i)
      <3>1. CASE i # j
        BY <1>0, <2>2, <3>1 DEF RollbackContinuityRecord, RecordStep, TypeOK
      <3>2. CASE i = j
        <4>1. p \in Record /\ p.generation < g
          BY <2>2, <3>2 DEF RollbackContinuityRecord, Previous, TypeOK
        <4>2. records'[i] = [p EXCEPT !.token = t]
          BY <2>2, <3>2, <4>1, ConstantsAssumption DEF RollbackContinuityRecord, TypeOK
        <4>3. records'[i].token = t /\ records'[i].generation = p.generation
          BY <4>1, <4>2 DEF Record
        <4>4. records[i].token = t /\ records[i].generation = g
          BY <2>2, <3>2 DEF RollbackContinuityRecord
        <4>5. p.generation \in Int
          BY <4>1, ConstantsAssumption DEF Record, Generations
        <4> QED
          BY <1>0, <4>1, <4>3, <4>4, <4>5 DEF RecordStep
      <3> QED
        BY <3>1, <3>2
    <2>3. ASSUME NEW t \in Tokens, DeleteContinuityRecord(j, t)
          PROVE  RecordStep(i)
      BY <1>0, <2>3 DEF DeleteContinuityRecord, RecordStep, TypeOK
    <2> QED
      BY <1>2, <2>1, <2>2, <2>3 DEF RecordWrite
  <1>3. ASSUME NEW s, NEW d, DeleteSessionSnapshotIfCurrentRevision(s, d)
        PROVE  RecordStep(i)
    BY <1>0, <1>3 DEF DeleteSessionSnapshotIfCurrentRevision, RecordStep
  <1> QED
    BY <1>1, <1>2, <1>3 DEF GatewayNext, RecordStep

LEMMA StoreRecordStep ==
  ASSUME TypeOK, [GatewayNext \/ MaintenanceNext]_vars, NEW i \in Identities
  PROVE  RecordStep(i)
  <1>1. ASSUME records' = records
        PROVE  RecordStep(i)
    BY <1>1, ConstantsAssumption
       DEF RecordStep, TypeOK, Record, Tokens, Versions, Generations
  <1>2. CASE MaintenanceNext
    BY <1>1, <1>2 DEF MaintenanceNext, BeginBackfill, BackfillOneSession,
                      FinishBackfill, InterruptBackfill, tables
  <1>3. CASE UNCHANGED vars
    BY <1>1, <1>3 DEF vars
  <1> QED
    BY <1>2, <1>3, GatewayRecordStep

\* No verb accepted by local_store.rs lowers the fence of an identity that
\* keeps its record.
THEOREM FenceIsMonotone == Spec => FenceNeverRegresses
  <1>1. TypeOK /\ [GatewayNext \/ MaintenanceNext]_vars =>
          [\A i \in Identities : records[i] # NoRow /\ records'[i] # NoRow =>
             records'[i].token >= records[i].token]_vars
    BY StoreRecordStep DEF RecordStep
  <1> QED
    BY <1>1, TypeCorrect, PTL DEF Spec, FenceNeverRegresses

\* Within a generation no verb rewinds the checkpoint version; a rollback is
\* no exception because it leaves the generation.
THEOREM VersionIsMonotone == Spec => VersionNeverRewinds
  <1>1. TypeOK /\ [GatewayNext \/ MaintenanceNext]_vars =>
          [\A i \in Identities :
             /\ records[i] # NoRow
             /\ records'[i] # NoRow
             /\ records'[i].generation = records[i].generation
             => records'[i].version >= records[i].version]_vars
    BY StoreRecordStep DEF RecordStep
  <1> QED
    BY <1>1, TypeCorrect, PTL DEF Spec, VersionNeverRewinds

LEMMA GatewayWritesFenced ==
  ASSUME TypeOK, GatewayNext, NEW s \in Sessions
  PROVE  RowWriteFenced(blobs'[s], blobs[s], s) /\ RowWriteFenced(heads'[s], heads[s], s)
  <1> DEFINE Gone(x) == blobs'[x] \in {blobs[x], NoRow} /\ heads'[x] \in {heads[x], NoRow}
  <1>1. ASSUME Gone(s)
        PROVE  RowWriteFenced(blobs'[s], blobs[s], s) /\ RowWriteFenced(heads'[s], heads[s], s)
    BY <1>1 DEF RowWriteFenced
  <1>2. ASSUME NEW c \in Cursor, SessionWrite(c)
        PROVE  RowWriteFenced(blobs'[s], blobs[s], s) /\ RowWriteFenced(heads'[s], heads[s], s)
    <2>1. CASE s # c.session
      <3>1. Gone(s)
        BY <1>2, <2>1, SessionWriteFence
      <3> QED
        BY <1>1, <3>1
    <2>2. CASE s = c.session
      <3>1. EnforceCursor(c)
        BY <1>2, SessionWriteFence
      <3>2. ASSUME NEW d \in AnyDoc, NEW old
            PROVE  RowWriteFenced(StampedRow(c, d), old, s)
        BY <2>2, <3>1, StampedRowType DEF EnforceCursor, RowWriteFenced
      <3>3. ASSUME NEW row
            PROVE  RowWriteFenced(row, row, s)
        BY DEF RowWriteFenced
      <3>4. RowWriteFenced(blobs'[s], blobs[s], s)
        <4>1. CASE blobs'[s] = blobs[s]
          BY <3>3, <4>1
        <4>2. CASE blobs'[s] # blobs[s]
          <5>1. PICK d \in AnyDoc : blobs'[s] = StampedRow(c, d)
            BY <1>2, <2>2, <4>2, SessionWriteFence
          <5> QED
            BY <3>2, <5>1
        <4> QED
          BY <4>1, <4>2
      <3>5. RowWriteFenced(heads'[s], heads[s], s)
        <4>1. CASE heads'[s] = heads[s]
          BY <3>3, <4>1
        <4>2. CASE heads'[s] # heads[s]
          <5>1. PICK d \in AnyDoc : heads'[s] = StampedRow(c, d)
            BY <1>2, <2>2, <4>2, SessionWriteFence
          <5> QED
            BY <3>2, <5>1
        <4> QED
          BY <4>1, <4>2
      <3> QED
        BY <3>4, <3>5
    <2> QED
      BY <2>1, <2>2
  <1>3. ASSUME NEW i \in Identities, RecordWrite(i)
        PROVE  Gone(s)
    BY <1>3 DEF RecordWrite, UpsertContinuityRecord, RollbackContinuityRecord,
                DeleteContinuityRecord, DropRows
  <1>4. ASSUME NEW x \in Sessions, NEW d, DeleteSessionSnapshotIfCurrentRevision(x, d)
        PROVE  Gone(s)
    BY <1>4 DEF DeleteSessionSnapshotIfCurrentRevision, TypeOK
  <1> QED
    BY <1>1, <1>2, <1>3, <1>4 DEF GatewayNext

\* A writer that lost its lease or its session binding changes no row: every
\* row that appears or changes passed enforce_continuity_cursor.
THEOREM StaleWritersAreFenced == GatewaySpec => StaleWriterFenced
  <1>1. TypeOK /\ [GatewayNext]_vars =>
          [\A s \in Sessions : /\ RowWriteFenced(blobs'[s], blobs[s], s)
                               /\ RowWriteFenced(heads'[s], heads[s], s)]_vars
    BY GatewayWritesFenced
  <1>2. TypeOK /\ [GatewayNext]_vars => TypeOK'
    <2>1. ASSUME TypeOK, UNCHANGED vars
          PROVE  TypeOK'
      BY <2>1 DEF vars, TypeOK
    <2> QED
      BY <2>1, GatewayType
  <1> QED
    BY <1>1, <1>2, InitTypeOK, PTL DEF GatewaySpec, StaleWriterFenced

\* Neither the gateway nor a backfill ever writes a blob beneath a head row.
THEOREM ArchivesAreFrozen == Spec => FrozenArchive
  <1>1. ASSUME TypeOK, NEW s \in Sessions, heads[s] # NoRow, GatewayNext
        PROVE  blobs'[s] \in {blobs[s], NoRow}
    <2>1. ASSUME NEW c \in Cursor, SessionWrite(c)
          PROVE  blobs'[s] \in {blobs[s], NoRow}
      <3>1. ASSUME NEW d \in AnyDoc, SaveSessionSnapshot(c, d)
            PROVE  blobs'[s] = blobs[s]
        BY <1>1, <3>1 DEF SaveSessionSnapshot, TypeOK, Cursor
      <3>2. ASSUME DeltaWrite(c, TRUE)
            PROVE  blobs'[s] = blobs[s]
        BY <3>2 DEF DeltaWrite
      <3> QED
        BY <1>1, <2>1, <3>1, <3>2, DeltaVerbs
    <2>2. ASSUME NEW i \in Identities, RecordWrite(i)
          PROVE  blobs'[s] \in {blobs[s], NoRow}
      BY <2>2 DEF RecordWrite, UpsertContinuityRecord, RollbackContinuityRecord,
                  DeleteContinuityRecord, DropRows
    <2>3. ASSUME NEW x \in Sessions, NEW d, DeleteSessionSnapshotIfCurrentRevision(x, d)
          PROVE  blobs'[s] \in {blobs[s], NoRow}
      BY <1>1, <2>3 DEF DeleteSessionSnapshotIfCurrentRevision, TypeOK
    <2> QED
      BY <1>1, <2>1, <2>2, <2>3 DEF GatewayNext
  <1>2. ASSUME MaintenanceNext
        PROVE  blobs' = blobs
    BY <1>2 DEF MaintenanceNext, BeginBackfill, BackfillOneSession, FinishBackfill,
                InterruptBackfill, tables
  <1>3. TypeOK /\ [GatewayNext \/ MaintenanceNext]_vars =>
          [\A s \in Sessions : heads[s] # NoRow => blobs'[s] \in {blobs[s], NoRow}]_vars
    BY <1>1, <1>2
  <1> QED
    BY <1>3, TypeCorrect, PTL DEF Spec, FrozenArchive

-----------------------------------------------------------------------------
(* Through backfills and crashes.  A session write or a delete settles its    *)
(* session anew; a backfill step only ever installs the blob it converts, and *)
(* it converts only sessions of its census, whose blobs no verb can remove    *)
(* while the maintenance fence is up.                                         *)

\* What the census holds: sessions with a blob, while the fence is up.
CensusHolds == \A s \in todo : maint = "on" /\ blobs[s] # NoRow

\* The verbs run outside the maintenance fence and leave its state alone.
LEMMA GatewayOutsideFence ==
  ASSUME TypeOK, GatewayNext
  PROVE  maint = "off" /\ UNCHANGED maintVars
  <1>1. ASSUME NEW c \in Cursor, SessionWrite(c)
        PROVE  maint = "off" /\ UNCHANGED maintVars
    BY <1>1, DeltaVerbs DEF SaveSessionSnapshot, DeltaWrite
  <1>2. ASSUME NEW i \in Identities, RecordWrite(i)
        PROVE  maint = "off" /\ UNCHANGED maintVars
    BY <1>2 DEF RecordWrite, UpsertContinuityRecord, RollbackContinuityRecord,
                DeleteContinuityRecord
  <1>3. ASSUME NEW s \in Sessions, NEW d, DeleteSessionSnapshotIfCurrentRevision(s, d)
        PROVE  maint = "off" /\ UNCHANGED maintVars
    BY <1>3 DEF DeleteSessionSnapshotIfCurrentRevision
  <1> QED
    BY <1>1, <1>2, <1>3 DEF GatewayNext

LEMMA SessionWriteCrossing ==
  ASSUME TypeOK, CrossingLosesNoSession, NEW c \in Cursor, SessionWrite(c)
  PROVE  CrossingLosesNoSession'
  <1> c.session \in Sessions
    BY DEF Cursor
  <1>1. ASSUME NEW d \in AnyDoc, SaveSessionSnapshot(c, d)
        PROVE  CrossingLosesNoSession'
    BY <1>1, StampedRowType, ConstantsAssumption
       DEF SaveSessionSnapshot, CrossingLosesNoSession, ReadDoc, TypeOK
  <1>2. ASSUME DeltaWrite(c, TRUE), heads' = MigratedHeads(c), committed' = committed
        PROVE  CrossingLosesNoSession'
    <2>1. CASE heads[c.session] = NoRow /\ blobs[c.session] # NoRow
      <3>1. blobs[c.session].doc \in AnyDoc
        BY <2>1 DEF TypeOK, Row
      <3> QED
        BY <1>2, <2>1, <3>1, StampedRowType
           DEF MigratedHeads, DeltaWrite, CrossingLosesNoSession, ReadDoc, TypeOK
    <2>2. CASE ~(heads[c.session] = NoRow /\ blobs[c.session] # NoRow)
      BY <1>2, <2>2 DEF MigratedHeads, DeltaWrite, CrossingLosesNoSession, ReadDoc
    <2> QED
      BY <2>1, <2>2
  <1>3. ASSUME DeltaWrite(c, TRUE), NEW d \in Docs,
               heads' = [heads EXCEPT ![c.session] = StampedRow(c, d)],
               committed' = [committed EXCEPT ![c.session] = d]
        PROVE  CrossingLosesNoSession'
    <2>1. d \in AnyDoc
      BY DEF AnyDoc
    <2> QED
      BY <1>3, <2>1, StampedRowType, ConstantsAssumption
         DEF DeltaWrite, CrossingLosesNoSession, ReadDoc, TypeOK
  <1> QED
    BY <1>1, <1>2, <1>3, DeltaVerbs

LEMMA RecordWriteCrossing ==
  ASSUME TypeOK, OneOwner, CrossingLosesNoSession, NEW i \in Identities, RecordWrite(i)
  PROVE  CrossingLosesNoSession'
  <1>1. ASSUME NEW s, NEW g, NEW v, NEW t, UpsertContinuityRecord(i, s, g, v, t)
        PROVE  CrossingLosesNoSession'
    BY <1>1 DEF UpsertContinuityRecord, CrossingLosesNoSession, ReadDoc
  <1>2. ASSUME NEW s, NEW g, NEW p, NEW t, RollbackContinuityRecord(i, s, g, p, t)
        PROVE  CrossingLosesNoSession'
    BY <1>2 DEF RollbackContinuityRecord, DropRows, OfGeneration, OneOwner,
                CrossingLosesNoSession, ReadDoc
  <1>3. ASSUME NEW t, DeleteContinuityRecord(i, t)
        PROVE  CrossingLosesNoSession'
    BY <1>3 DEF DeleteContinuityRecord, DropRows, OfIdentity, OneOwner,
                CrossingLosesNoSession, ReadDoc
  <1> QED
    BY <1>1, <1>2, <1>3 DEF RecordWrite

LEMMA GatewayCrossing ==
  ASSUME TypeOK, OneOwner, CrossingLosesNoSession, GatewayNext
  PROVE  CrossingLosesNoSession'
  <1>1. ASSUME NEW s \in Sessions, NEW d, DeleteSessionSnapshotIfCurrentRevision(s, d)
        PROVE  CrossingLosesNoSession'
    BY <1>1 DEF DeleteSessionSnapshotIfCurrentRevision, CrossingLosesNoSession,
                ReadDoc, TypeOK
  <1> QED
    BY <1>1, SessionWriteCrossing, RecordWriteCrossing DEF GatewayNext

LEMMA BackfillCrossing ==
  ASSUME TypeOK, CensusHolds, CrossingLosesNoSession, NEW s \in Sessions,
         BackfillOneSession(s)
  PROVE  CrossingLosesNoSession'
  <1>1. blobs[s] \in Row /\ blobs[s].doc \in AnyDoc /\ blobs[s].doc # NoRow
    BY ConstantsAssumption DEF BackfillOneSession, CensusHolds, TypeOK, Row
  <1>2. ConvertedHead(s) # NoRow /\ ConvertedHead(s).doc = blobs[s].doc
    BY <1>1, ConstantsAssumption DEF ConvertedHead
  <1>3. ReadDoc(s) # NoRow
    BY <1>1, ConstantsAssumption DEF ReadDoc, TypeOK, Row
  <1>4. CASE heads' = [heads EXCEPT ![s] = ConvertedHead(s)]
    <2>1. /\ heads'[s] = ConvertedHead(s)
          /\ \A x \in Sessions \ {s} : heads'[x] = heads[x]
          /\ blobs' = blobs /\ committed' = committed
      BY <1>4 DEF BackfillOneSession, TypeOK
    <2>2. ReadDoc(s)' = blobs[s].doc
      BY <1>2, <2>1 DEF ReadDoc
    <2>3. committed[s] # NoRow
      BY <1>3 DEF CrossingLosesNoSession
    <2>4. \A x \in Sessions \ {s} : ReadDoc(x)' = ReadDoc(x)
      BY <2>1 DEF ReadDoc
    <2>5. ASSUME NEW x \in Sessions
          PROVE  /\ ReadDoc(x)' = NoRow <=> committed'[x] = NoRow
                 /\ heads'[x] = NoRow => ReadDoc(x)' = committed'[x]
                 /\ ReadDoc(x)' # committed'[x] =>
                      blobs'[x] # NoRow /\ ReadDoc(x)' = blobs'[x].doc
      <3>1. CASE x = s
        BY <1>1, <1>2, <2>1, <2>2, <2>3, <3>1, ConstantsAssumption
      <3>2. CASE x # s
        BY <2>1, <2>4, <3>2 DEF CrossingLosesNoSession
      <3> QED
        BY <3>1, <3>2
    <2> QED
      BY <2>5 DEF CrossingLosesNoSession
  <1>5. CASE heads' = heads
    BY <1>5 DEF BackfillOneSession, CrossingLosesNoSession, ReadDoc
  <1> QED
    BY <1>4, <1>5 DEF BackfillOneSession

LEMMA MaintenanceCrossing ==
  ASSUME TypeOK, CensusHolds, CrossingLosesNoSession, MaintenanceNext
  PROVE  CensusHolds' /\ CrossingLosesNoSession'
  <1>1. CASE BeginBackfill
    BY <1>1 DEF BeginBackfill, CensusHolds, CrossingLosesNoSession, ReadDoc, tables
  <1>2. ASSUME NEW s \in Sessions, BackfillOneSession(s)
        PROVE  CensusHolds' /\ CrossingLosesNoSession'
    BY <1>2, BackfillCrossing DEF BackfillOneSession, CensusHolds
  <1>3. CASE FinishBackfill
    BY <1>3 DEF FinishBackfill, CensusHolds, CrossingLosesNoSession, ReadDoc
  <1>4. CASE InterruptBackfill
    BY <1>4 DEF InterruptBackfill, CensusHolds, CrossingLosesNoSession, ReadDoc, tables
  <1> QED
    BY <1>1, <1>2, <1>3, <1>4 DEF MaintenanceNext

\* However often apply_head_canonical_backfill starts, and wherever it fails or
\* dies, no session of local_store.rs is lost or resurrected, and one without a
\* head row reads its last accepted write.
THEOREM CrossingKeepsSessions == Spec => []CrossingLosesNoSession
  <1> DEFINE Inv == CensusHolds /\ CrossingLosesNoSession
  <1>1. Init => Inv
    BY DEF Init, CensusHolds, CrossingLosesNoSession, ReadDoc
  <1>2. TypeOK /\ OneOwner /\ Inv /\ [GatewayNext \/ MaintenanceNext]_vars => Inv'
    <2>1. ASSUME TypeOK, OneOwner, Inv, GatewayNext
          PROVE  Inv'
      BY <2>1, GatewayOutsideFence, GatewayCrossing DEF CensusHolds, maintVars
    <2>2. ASSUME Inv, UNCHANGED vars
          PROVE  Inv'
      BY <2>2 DEF vars, CensusHolds, CrossingLosesNoSession, ReadDoc
    <2> QED
      BY <2>1, <2>2, MaintenanceCrossing
  <1>3. Inv => CrossingLosesNoSession
    OBVIOUS
  <1> QED
    BY <1>1, <1>2, <1>3, TypeCorrect, CustodyIsConsistent, PTL DEF Spec

-----------------------------------------------------------------------------
(* Refinement: the two tables are one.  Each verb is a step of              *)
(* SessionDocuments on the table of authorities; what makes the deletes     *)
(* agree is again OneOwner.                                                 *)

\* What a session's authority is, and the abstract table, entry by entry.
LEMMA AuthorityOwner ==
  ASSUME TypeOK, NEW s \in Sessions
  PROVE  /\ Authority(s) \in Row \cup {NoRow}
         /\ DocOf(s) # NoRow => /\ Authority(s) \in Row
                                /\ DocOf(s).identity = Authority(s).identity
                                /\ DocOf(s).generation = Authority(s).generation
                                /\ DocOf(s).doc = Authority(s).doc
         /\ DocOf(s) = NoRow => Authority(s) = NoRow
  BY ConstantsAssumption DEF TypeOK, Authority, DocOf, Row

\* A verb whose cursor passed the fence and both owner checks presents a
\* cursor the one-table store admits, and advances the record like it.
LEMMA CursorAdmitted ==
  ASSUME TypeOK, NEW c \in Cursor, EnforceCursor(c), EnsureSnapshotOwner(c),
         EnsureHeadOwner(c), AdvanceRecord(c)
  PROVE  OneTable!Admitted(c) /\ OneTable!Advance(c)
  <1>1. c.session \in Sessions /\ c.identity \in Identities
    BY DEF Cursor
  <1>2. OneTable!Admitted(c)
    <2>1. DocOf(c.session) # NoRow => /\ DocOf(c.session).identity = c.identity
                                      /\ DocOf(c.session).generation = c.generation
      BY <1>1, AuthorityOwner, ConstantsAssumption
         DEF EnsureSnapshotOwner, EnsureHeadOwner, OwnedBy, Authority
    <2> QED
      BY <1>1, <2>1 DEF OneTable!Admitted, EnforceCursor
  <1>3. OneTable!Advance(c)
    BY <1>1 DEF OneTable!Advance, AdvanceRecord, TypeOK, Record
  <1> QED
    BY <1>2, <1>3

\* A write of document d under cursor c, whichever table it lands in.
LEMMA WriteRefines ==
  ASSUME TypeOK, NEW c \in Cursor, NEW d \in AnyDoc,
         OneTable!Admitted(c), OneTable!Advance(c),
         \/ heads' = [heads EXCEPT ![c.session] = StampedRow(c, d)] /\ blobs' = blobs
         \/ /\ heads[c.session] = NoRow /\ heads' = heads
            /\ blobs' = [blobs EXCEPT ![c.session] = StampedRow(c, d)]
  PROVE  OneTable!Write(c, d)
  <1>1. c.session \in Sessions
    BY DEF Cursor
  <1>2. \A s \in Sessions : DocOf(s)' =
          IF s = c.session
          THEN [identity |-> c.identity, generation |-> c.generation, doc |-> d]
          ELSE DocOf(s)
    BY <1>1, StampedRowType DEF TypeOK, DocOf, Authority
  <1> QED
    BY <1>1, <1>2 DEF OneTable!Write

\* A delta verb that only migrates leaves the abstract table alone.
LEMMA MigrationRefines ==
  ASSUME TypeOK, NEW c \in Cursor, EnsureSnapshotOwner(c),
         OneTable!Admitted(c), OneTable!Advance(c),
         heads' = MigratedHeads(c), blobs' = blobs
  PROVE  OneTable!Touch(c)
  <1>1. c.session \in Sessions
    BY DEF Cursor
  <1>2. ASSUME NEW s \in Sessions
        PROVE  DocOf(s)' = DocOf(s)
    <2>1. CASE s = c.session /\ heads[s] = NoRow /\ blobs[s] # NoRow
      <3>1. blobs[s].doc \in AnyDoc
        BY <2>1 DEF TypeOK, Row
      <3>2. /\ heads'[s] = StampedRow(c, blobs[s].doc)
            /\ heads'[s] # NoRow
        BY <2>1, <3>1, StampedRowType DEF MigratedHeads, TypeOK
      <3> QED
        BY <2>1, <3>1, <3>2, StampedRowType
           DEF DocOf, Authority, EnsureSnapshotOwner, OwnedBy
    <2>2. CASE ~(s = c.session /\ heads[s] = NoRow /\ blobs[s] # NoRow)
      BY <1>1, <2>2 DEF MigratedHeads, TypeOK, DocOf, Authority
    <2> QED
      BY <2>1, <2>2
  <1> QED
    BY <1>2 DEF OneTable!Touch

LEMMA SessionWriteRefines ==
  ASSUME TypeOK, NEW c \in Cursor, SessionWrite(c)
  PROVE  OneTable!Touch(c) \/ (\E d \in AnyDoc : OneTable!Write(c, d))
  <1>1. ASSUME NEW d \in AnyDoc, SaveSessionSnapshot(c, d)
        PROVE  OneTable!Write(c, d)
    <2>1. OneTable!Admitted(c) /\ OneTable!Advance(c)
      BY <1>1, CursorAdmitted DEF SaveSessionSnapshot
    <2> QED
      BY <1>1, <2>1, WriteRefines DEF SaveSessionSnapshot
  <1>2. ASSUME DeltaWrite(c, TRUE), heads' = MigratedHeads(c)
        PROVE  OneTable!Touch(c)
    <2>1. OneTable!Admitted(c) /\ OneTable!Advance(c)
      BY <1>2, CursorAdmitted DEF DeltaWrite
    <2> QED
      BY <1>2, <2>1, MigrationRefines DEF DeltaWrite
  <1>3. ASSUME DeltaWrite(c, TRUE), NEW d \in Docs,
               heads' = [heads EXCEPT ![c.session] = StampedRow(c, d)]
        PROVE  \E e \in AnyDoc : OneTable!Write(c, e)
    <2>1. OneTable!Admitted(c) /\ OneTable!Advance(c)
      BY <1>3, CursorAdmitted DEF DeltaWrite
    <2>2. d \in AnyDoc
      BY DEF AnyDoc
    <2> QED
      BY <1>3, <2>1, <2>2, WriteRefines DEF DeltaWrite
  <1> QED
    BY <1>1, <1>2, <1>3, DeltaVerbs

\* The deletes take a document's rows in both tables, because both rows have
\* the same owner.
LEMMA DropRefines ==
  ASSUME TypeOK, OneOwner, NEW i, NEW G, NEW s \in Sessions,
         blobs'[s] = IF OfIdentity(blobs[s], i) /\ blobs[s].generation \in G
                     THEN NoRow ELSE blobs[s],
         heads'[s] = IF OfIdentity(heads[s], i) /\ heads[s].generation \in G
                     THEN NoRow ELSE heads[s]
  PROVE  DocOf(s)' = IF DocOf(s) # NoRow /\ DocOf(s).identity = i
                        /\ DocOf(s).generation \in G
                     THEN NoRow ELSE DocOf(s)
  <1>1. blobs[s] # NoRow /\ heads[s] # NoRow =>
          blobs[s].identity = heads[s].identity /\ blobs[s].generation = heads[s].generation
    BY DEF OneOwner
  <1> QED
    BY <1>1, AuthorityOwner DEF DocOf, Authority, OfIdentity

LEMMA RecordWriteRefines ==
  ASSUME TypeOK, OneOwner, NEW i \in Identities, RecordWrite(i)
  PROVE  OneTable!Next
  <1>1. ASSUME NEW s \in Sessions, NEW g \in Generations, NEW v \in Versions,
               NEW t \in Tokens, UpsertContinuityRecord(i, s, g, v, t)
        PROVE  \E w \in Versions : OneTable!Bind(i, s, g, w, t)
    <2> DEFINE w == UpsertedVersion(records[i], g, v)
    <2>1. /\ w \in Versions
          /\ records[i] # NoRow /\ g = records[i].generation => w >= records[i].version
      BY ConstantsAssumption DEF UpsertedVersion, TypeOK, Record, Versions
    <2>2. records' = [records EXCEPT ![i] = [session |-> s, generation |-> g,
                                             version |-> w, token |-> t]]
      BY <1>1 DEF UpsertContinuityRecord, TypeOK
    <2>3. \A x \in Sessions : DocOf(x)' = DocOf(x)
      BY <1>1 DEF UpsertContinuityRecord, DocOf, Authority
    <2>4. records[i] # NoRow => t >= records[i].token /\ g >= records[i].generation
      BY <1>1 DEF UpsertContinuityRecord
    <2> HIDE DEF w
    <2>5. OneTable!Bind(i, s, g, w, t)
      BY <2>1, <2>2, <2>3, <2>4 DEF OneTable!Bind
    <2> QED
      BY <2>1, <2>5
  <1>2. ASSUME NEW s \in Sessions, NEW g \in Generations, NEW t \in Tokens,
               NEW p \in Previous(g), RollbackContinuityRecord(i, s, g, p, t)
        PROVE  p \in Record \cup {NoRow} /\ OneTable!Abandon(i, g, p)
    <2>1. p \in Record \cup {NoRow}
      BY DEF Previous
    <2>2. ASSUME NEW x \in Sessions
          PROVE  /\ blobs'[x] = IF OfIdentity(blobs[x], i) /\ blobs[x].generation \in {g}
                                THEN NoRow ELSE blobs[x]
                 /\ heads'[x] = IF OfIdentity(heads[x], i) /\ heads[x].generation \in {g}
                                THEN NoRow ELSE heads[x]
      BY <1>2 DEF RollbackContinuityRecord, DropRows, OfIdentity, OfGeneration
    <2>3. \A x \in Sessions : DocOf(x)' =
            IF DocOf(x) # NoRow /\ DocOf(x).identity = i /\ DocOf(x).generation \in {g}
            THEN NoRow ELSE DocOf(x)
      BY <2>2, DropRefines
    <2>4. /\ records[i] # NoRow /\ records[i].generation = g
          /\ records' = [records EXCEPT ![i] =
               IF p = NoRow THEN NoRow ELSE [p EXCEPT !.token = records[i].token]]
      BY <1>2 DEF RollbackContinuityRecord
    <2> QED
      BY <2>1, <2>3, <2>4 DEF OneTable!Abandon
  <1>3. ASSUME NEW t \in Tokens, DeleteContinuityRecord(i, t)
        PROVE  OneTable!Forget(i, t)
    <2>1. ASSUME NEW x \in Sessions
          PROVE  /\ blobs'[x] = IF OfIdentity(blobs[x], i) /\ blobs[x].generation \in Generations
                                THEN NoRow ELSE blobs[x]
                 /\ heads'[x] = IF OfIdentity(heads[x], i) /\ heads[x].generation \in Generations
                                THEN NoRow ELSE heads[x]
      BY <1>3 DEF DeleteContinuityRecord, DropRows, OfIdentity, TypeOK, Row
    <2>2. \A x \in Sessions : DocOf(x)' =
            IF DocOf(x) # NoRow /\ DocOf(x).identity = i /\ DocOf(x).generation \in Generations
            THEN NoRow ELSE DocOf(x)
      BY <2>1, DropRefines
    <2>3. \A x \in Sessions : DocOf(x) # NoRow => DocOf(x).generation \in Generations
      BY AuthorityOwner DEF Row
    <2> QED
      BY <1>3, <2>2, <2>3 DEF OneTable!Forget, DeleteContinuityRecord
  <1> QED
    BY <1>1, <1>2, <1>3 DEF RecordWrite, OneTable!Next, OneTable!Generations,
         OneTable!Versions, OneTable!Tokens, OneTable!Record, Generations, Versions,
         Tokens, Record

\* As long as storage-migrate never runs, the two tables of local_store.rs
\* implement one table of documents: no reader, owner check, rollback or
\* delete can tell which of its two rows a document is in, or that a delta
\* verb has just moved it.
THEOREM TwoTablesAreOne == GatewaySpec => ImplementsOneTable
  <1> DEFINE Inv == TypeOK /\ OneOwner
  <1>1. Init => Inv /\ OneTable!Init
    <2>1. Init => \A s \in Sessions : DocOf(s) = NoRow
      BY DEF Init, DocOf, Authority
    <2> QED
      BY <2>1, InitTypeOK DEF Init, OneOwner, OneTable!Init
  <1>2. Inv /\ [GatewayNext]_vars => Inv'
    <2>1. ASSUME Inv, UNCHANGED vars
          PROVE  Inv'
      BY <2>1 DEF vars, TypeOK, OneOwner
    <2> QED
      BY <2>1, GatewayType, GatewayOneOwner
  <1>3. Inv /\ [GatewayNext]_vars => [OneTable!Next]_(OneTable!vars)
    <2>1. ASSUME UNCHANGED vars
          PROVE  UNCHANGED OneTable!vars
      BY <2>1 DEF vars, OneTable!vars, DocOf, Authority
    <2>2. ASSUME Inv, NEW c \in Cursor, SessionWrite(c)
          PROVE  OneTable!Next
      <3>1. c \in OneTable!Cursor /\ AnyDoc = OneTable!AnyDoc
        BY <2>2 DEF Cursor, OneTable!Cursor, Generations, OneTable!Generations,
             Versions, OneTable!Versions, Tokens, OneTable!Tokens, AnyDoc, OneTable!AnyDoc
      <3> QED
        BY <2>2, <3>1, SessionWriteRefines DEF OneTable!Next
    <2>3. ASSUME Inv, NEW s \in Sessions, NEW d \in Docs,
                 DeleteSessionSnapshotIfCurrentRevision(s, d)
          PROVE  OneTable!Next
      <3>1. DocOf(s) # NoRow /\ DocOf(s).doc = d
        BY <2>3, AuthorityOwner, ConstantsAssumption
           DEF DeleteSessionSnapshotIfCurrentRevision, ReadDoc, DocOf, Authority, AnyDoc
      <3>2. \A x \in Sessions : DocOf(x)' = IF x = s THEN NoRow ELSE DocOf(x)
        BY <2>3 DEF DeleteSessionSnapshotIfCurrentRevision, DocOf, Authority, TypeOK
      <3>3. OneTable!DropIfCurrent(s, d)
        BY <2>3, <3>1, <3>2 DEF OneTable!DropIfCurrent, DeleteSessionSnapshotIfCurrentRevision
      <3> QED
        BY <3>3 DEF OneTable!Next
    <2> QED
      BY <2>1, <2>2, <2>3, RecordWriteRefines DEF GatewayNext
  <1> QED
    BY <1>1, <1>2, <1>3, PTL DEF GatewaySpec, ImplementsOneTable, OneTable!Spec
=============================================================================
