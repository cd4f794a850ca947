--------------------- MODULE SessionStoreAdapterProofs ---------------------
(***************************************************************************)
(* Proofs about the session store adapter.  The invariant says what the    *)
(* adapter's process may hold in every stage of a session's life; it holds *)
(* for every consumer.  Held adds what is only true when one process does  *)
(* not mix the two kinds of verbs in one creation window.                  *)
(***************************************************************************)
EXTENDS SessionStoreAdapter, TLAPS

Stores == [rep : {"none", "blob", "head"}, doc : Docs \cup {None},
           generation : Generations]

(* The tables: a row holds a document, and only a reset unbinds a record.  *)
Shaped(db) ==
  /\ db.store \in Stores
  /\ db.store.rep = "none" <=> db.store = NoDocument
  /\ db.store.rep = "none" <=> db.store.doc = None
  /\ db.record \in Records \cup {None}
  /\ db.record # None /\ ~db.record.bound => db.record.generation > 0

NothingHeld == pending = None /\ parked = NothingParked

(* What is parked was routed there, and a rewrite needs a head.            *)
ParkedShape ==
  /\ parked.rows > 0 \/ parked.head # None => parked.mark
  /\ ~parked.mark => parked = NothingParked

(* Nothing is parked beside a registration, in a session that was          *)
(* unregistered or superseded, or after a removal.                         *)
Settled ==
  /\ Registered => NothingHeld
  /\ "unregistered" \in marks => NothingHeld /\ ~Registered
  /\ Superseded => NothingHeld /\ ~Registered /\ store.rep = "none"
  /\ removed => /\ NothingHeld
                /\ store.rep = "none"
                /\ lifecycle \in {"removed", "durable"}

(* The allocator of a registered session has passed what its runtime has   *)
(* learned.                                                                *)
Allocated == NextVersionIsFresh /\ (Registered => resolved <= counter)

Inv == TypeOK /\ Shaped(Db) /\ ParkedShape /\ Settled /\ Allocated

(* One kind of verbs: what is parked keeps the session in its creation     *)
(* window, and what was acknowledged is the parked document if there is    *)
(* one, the durable document otherwise.                                    *)
Held ==
  /\ consumer # "mixed"
  /\ ~Delta => parked = NothingParked
  /\ ~Whole => pending = None
  /\ ~NothingHeld => lifecycle = "creation"
  /\ live # {} =>
       /\ pending # None => pending \in live
       /\ parked.head # None => parked.head \in live
       /\ pending = None /\ parked.head = None => store.doc \in live

-----------------------------------------------------------------------------
(* The ends of a sequence of store writes.                                 *)

(* End e of writing d from tables db and counter c: nothing, or d, and the *)
(* record's version is one the counter has passed.                         *)
Ended(e, db, c, d) ==
  /\ Shaped(e.db)
  /\ e.ack \in BOOLEAN
  /\ e.counter \in Nat /\ c <= e.counter
  /\ e.db.store.doc \in {db.store.doc, d}
  /\ e.ack => e.db.store.doc = d
  /\ db.record = None <=> e.db.record = None
  /\ db.record # None =>
       /\ e.db.record.bound = db.record.bound
       /\ \/ e.db.record.version = db.record.version
          \/ e.db.record.version <= e.counter

LEMMA AdvancedFacts ==
  ASSUME NEW rec \in Records \cup {None}, NEW state \in State, NEW v \in Versions
  PROVE  /\ Advanced(rec, state, v) \in Records \cup {None}
         /\ rec = None <=> Advanced(rec, state, v) = None
         /\ rec # None => /\ Advanced(rec, state, v).bound = rec.bound
                          /\ Advanced(rec, state, v).generation = rec.generation
                          /\ Advanced(rec, state, v).version = v
  BY ConstantsAssumption DEF Advanced, Records, State

LEMMA WriteEnds ==
  ASSUME NEW db, NEW c, NEW after, NEW admitted,
         NEW e \in WriteOutcomes(db, c, after, admitted)
  PROVE  /\ e.counter = c + 1
         /\ e.ack \in BOOLEAN
         /\ (e.db = db /\ ~e.ack) \/ e.db = after
  <1>1. \/ e = End(db, c + 1, FALSE)
        \/ admitted /\ (e = End(after, c + 1, FALSE) \/ e = End(after, c + 1, TRUE))
    BY Zenon DEF WriteOutcomes
  <1>2. ASSUME NEW t, NEW a \in BOOLEAN, e = End(t, c + 1, a)
        PROVE  e.counter = c + 1 /\ e.ack = a /\ e.db = t
    BY <1>2 DEF End
  <1> QED
    BY <1>1, <1>2

LEMMA AppendEnds ==
  ASSUME NEW db, Shaped(db), NEW state \in State, NEW c \in Nat,
         c + 1 <= MaxVersion, NEW e \in AppendOutcomes(db, c, state)
  PROVE  Ended(e, db, c, db.store.doc) /\ e.counter = c + 1
  <1> DEFINE after == AfterAppend(db, state, c + 1)
  <1>1. c + 1 \in Versions /\ db.record \in Records \cup {None}
    BY ConstantsAssumption DEF Versions, Shaped
  <1>2. /\ after.record = Advanced(db.record, state, c + 1)
        /\ after.store.doc = db.store.doc
        /\ after.store \in Stores
        /\ after.store.rep = "none" <=> after.store = NoDocument
        /\ after.store.rep = "none" <=> after.store.doc = None
    BY DEF AfterAppend, Shaped, Stores, NoDocument
  <1>3. Shaped(after)
    BY <1>1, <1>2, AdvancedFacts DEF Shaped
  <1>4. /\ e.counter = c + 1
        /\ e.ack \in BOOLEAN
        /\ e.db = db \/ e.db = after
    BY WriteEnds DEF AppendOutcomes
  <1>5. Shaped(e.db) /\ e.db.store.doc = db.store.doc
    BY <1>2, <1>3, <1>4
  <1>6. /\ db.record = None <=> e.db.record = None
        /\ db.record # None =>
             /\ e.db.record.bound = db.record.bound
             /\ \/ e.db.record.version = db.record.version
                \/ e.db.record.version = c + 1
    BY <1>1, <1>2, <1>4, AdvancedFacts
  <1> QED
    BY <1>4, <1>5, <1>6 DEF Ended

LEMMA DocumentWritten ==
  ASSUME NEW db, Shaped(db), NEW state \in State, NEW c \in Nat,
         c + 1 <= MaxVersion, NEW d \in Docs, NEW rep \in {"blob", "head"},
         NEW after,
         after = [store |-> [rep |-> rep, doc |-> d, generation |-> state.generation],
                  record |-> Advanced(db.record, state, c + 1)],
         NEW admitted \in BOOLEAN,
         NEW e \in WriteOutcomes(db, c, after, admitted)
  PROVE  Ended(e, db, c, d) /\ e.counter = c + 1 /\ (e.ack => e.db.store.rep # "none")
  <1>1. c + 1 \in Versions /\ db.record \in Records \cup {None}
    BY ConstantsAssumption DEF Versions, Shaped
  <1>2. d # None /\ state.generation \in Generations
    BY ConstantsAssumption DEF Docs, State
  <1>3. /\ after.record = Advanced(db.record, state, c + 1)
        /\ after.store.doc = d /\ after.store.rep = rep
        /\ after.store \in Stores
        /\ after.store.rep = "none" <=> after.store = NoDocument
        /\ after.store.rep = "none" <=> after.store.doc = None
    BY <1>2 DEF Stores, NoDocument
  <1>4. Shaped(after)
    BY <1>1, <1>3, AdvancedFacts DEF Shaped
  <1>5. /\ e.counter = c + 1
        /\ e.ack \in BOOLEAN
        /\ (e.db = db /\ ~e.ack) \/ e.db = after
    BY WriteEnds
  <1>6. /\ Shaped(e.db) /\ e.db.store.doc \in {db.store.doc, d}
        /\ e.ack => e.db.store.doc = d /\ e.db.store.rep # "none"
    BY <1>3, <1>4, <1>5
  <1>7. /\ db.record = None <=> e.db.record = None
        /\ db.record # None =>
             /\ e.db.record.bound = db.record.bound
             /\ \/ e.db.record.version = db.record.version
                \/ e.db.record.version = c + 1
    BY <1>1, <1>3, <1>5, AdvancedFacts
  <1> QED
    BY <1>5, <1>6, <1>7 DEF Ended

LEMMA SnapshotEnds ==
  ASSUME NEW db, Shaped(db), NEW state \in State, NEW c \in Nat,
         c + 1 <= MaxVersion, NEW d \in Docs,
         NEW e \in SnapshotOutcomes(db, c, state, d)
  PROVE  Ended(e, db, c, d) /\ e.counter = c + 1 /\ (e.ack => e.db.store.rep # "none")
  <1>1. Admits(db, state, c + 1) \in BOOLEAN
    BY DEF Admits
  <1> QED
    BY <1>1, DocumentWritten DEF SnapshotOutcomes, AfterSnapshot

LEMMA HeadEnds ==
  ASSUME NEW db, Shaped(db), NEW state \in State, NEW c \in Nat,
         c + 1 <= MaxVersion, NEW d \in Docs, NEW create \in BOOLEAN,
         NEW e \in HeadOutcomes(db, c, state, d, create)
  PROVE  Ended(e, db, c, d) /\ e.counter = c + 1 /\ (e.ack => e.db.store.rep # "none")
  <1>1. (Admits(db, state, c + 1) /\ (create => db.store.rep = "none")) \in BOOLEAN
    BY DEF Admits
  <1> QED
    BY <1>1, DocumentWritten DEF HeadOutcomes, AfterHead

LEMMA AppendThenHeadEnds ==
  ASSUME NEW db, Shaped(db), NEW state \in State, NEW c \in Nat,
         c + 2 <= MaxVersion, NEW d \in Docs, NEW create \in BOOLEAN,
         NEW e \in AppendThenHead(db, c, state, d, create)
  PROVE  Ended(e, db, c, d) /\ e.counter <= c + 2 /\ (e.ack => e.db.store.rep # "none")
  <1>1. \/ e \in AppendOutcomes(db, c, state) /\ ~e.ack
        \/ \E x \in AppendOutcomes(db, c, state) :
             x.ack /\ e \in HeadOutcomes(x.db, x.counter, state, d, create)
    BY DEF AppendThenHead
  <1>2. c + 1 <= MaxVersion
    BY ConstantsAssumption
  <1>3. CASE e \in AppendOutcomes(db, c, state) /\ ~e.ack
    BY <1>2, <1>3, AppendEnds DEF Ended
  <1>4. ASSUME NEW x \in AppendOutcomes(db, c, state),
               e \in HeadOutcomes(x.db, x.counter, state, d, create)
        PROVE  Ended(e, db, c, d) /\ e.counter <= c + 2 /\ (e.ack => e.db.store.rep # "none")
    <2>1. Ended(x, db, c, db.store.doc) /\ x.counter = c + 1
      BY <1>2, AppendEnds
    <2>2. Shaped(x.db) /\ x.counter \in Nat /\ x.counter + 1 <= MaxVersion
      BY <2>1, ConstantsAssumption DEF Ended
    <2>3. Ended(e, x.db, x.counter, d) /\ e.counter = c + 2
            /\ (e.ack => e.db.store.rep # "none")
      BY <1>4, <2>1, <2>2, HeadEnds
    <2>4. db.record # None =>
            \/ e.db.record.version = db.record.version
            \/ e.db.record.version <= e.counter
      BY <2>1, <2>3 DEF Ended, Shaped, Records, Versions
    <2> QED
      BY <2>1, <2>3, <2>4 DEF Ended
  <1> QED
    BY <1>1, <1>3, <1>4

(* An exact resave writes nothing.                                         *)
LEMMA HeadDocumentEnds ==
  ASSUME Inv, NEW state \in State, NEW c \in Nat, c + 2 <= MaxVersion,
         NEW d \in Docs, NEW e \in HeadDocumentOutcomes(state, c, d)
  PROVE  Ended(e, Db, c, d) /\ e.counter <= c + 2 /\ (e.ack => e.db.store.rep # "none")
  <1>1. Shaped(Db) /\ Db.store = store
    BY DEF Inv, Db
  <1>2. CASE e \in AppendThenHead(Db, c, state, d, FALSE)
    BY <1>1, <1>2, AppendThenHeadEnds
  <1>3. CASE e = End(Db, c, TRUE) /\ d = store.doc /\ store.rep = "head"
    BY <1>1, <1>3 DEF End, Ended, Shaped, Records, Versions
  <1>4. CASE e \in HeadOutcomes(Db, c, state, d, FALSE)
    <2>1. c + 1 <= MaxVersion /\ c + 1 <= c + 2
      BY ConstantsAssumption
    <2> QED
      BY <1>1, <1>4, <2>1, HeadEnds
  <1>5. \/ e \in AppendThenHead(Db, c, state, d, FALSE)
        \/ e = End(Db, c, TRUE) /\ d = store.doc /\ store.rep = "head"
        \/ e \in HeadOutcomes(Db, c, state, d, FALSE)
    BY DEF HeadDocumentOutcomes
  <1> QED
    BY <1>2, <1>3, <1>4, <1>5

-----------------------------------------------------------------------------
(* The ways a verb of the session service ends.                            *)

LEMMA EndWriteKeeps ==
  ASSUME Inv, NEW d \in Docs, NEW c \in Nat, NEW e, Ended(e, Db, c, d),
         counter <= c, e.counter <= MaxVersion, NothingHeld, ~Superseded,
         EndWrite(e, d), UNCHANGED <<consumer, channel, resolved, dropped>>
  PROVE  Inv'
  <1>1. Shaped(Db)'
    BY DEF Ended, EndWrite, Shaped, Db
  <1>2. TypeOK'
    <2>1. counter' \in Versions
      BY ConstantsAssumption DEF Ended, EndWrite, Versions
    <2>2. store' \in Stores /\ record' \in Records \cup {None}
      BY <1>1 DEF Shaped, Db
    <2>3. live' \subseteq Docs
      BY DEF Inv, TypeOK, EndWrite
    <2>4. lifecycle' \in {"unknown", "creation", "durable", "removed"}
      BY DEF Inv, TypeOK, EndWrite
    <2> QED
      BY <2>1, <2>2, <2>3, <2>4 DEF Inv, TypeOK, EndWrite, Stores
  <1>3. ParkedShape'
    BY DEF Inv, ParkedShape, EndWrite
  <1>4. Settled'
    <2>1. NothingHeld' /\ ~Superseded' /\ (Registered' <=> Registered)
            /\ marks' = marks
      BY DEF NothingHeld, Superseded, EndWrite, Registered
    <2>2. removed' => store'.rep = "none" /\ lifecycle' \in {"removed", "durable"}
      BY DEF Inv, Settled, EndWrite
    <2> QED
      BY <2>1, <2>2 DEF Inv, Settled
  <1>5. Allocated'
    <2>1. counter \in Nat /\ counter' \in Nat /\ resolved \in Nat /\ counter <= counter'
      BY DEF Inv, TypeOK, Versions, Ended, EndWrite
    <2>2. ASSUME record' # None, record'.bound
          PROVE  /\ record # None /\ record.bound
                 /\ record'.version = record.version \/ record'.version <= counter'
      BY <2>2 DEF Ended, Db, EndWrite
    <2>3. /\ record # None => record.version \in Nat
          /\ record' # None => record'.version \in Nat
      BY <1>2 DEF Inv, TypeOK, Records, Versions
    <2>4. registry' = registry /\ resolved' = resolved /\ dropped' = dropped
      BY DEF EndWrite
    <2> QED
      BY <2>1, <2>2, <2>3, <2>4
         DEF Inv, Allocated, NextVersionIsFresh, Registered, Larger
  <1> QED
    BY <1>1, <1>2, <1>3, <1>4, <1>5 DEF Inv

(* Parking is refused outside the creation window.                         *)
LEMMA ParkKeeps ==
  ASSUME Inv, ~Registered, ~Superseded, "unregistered" \notin marks,
         Lifecycle = "creation", lifecycle' = "creation",
         TypeOK', ParkedShape',
         UNCHANGED <<registry, counter, marks, durable, removed, resolved, dropped>>
  PROVE  Inv'
  <1>1. ~removed
    BY DEF Inv, Settled, Lifecycle
  <1>2. Settled'
    BY <1>1 DEF Settled, Registered, Superseded
  <1>3. Shaped(Db)'
    BY DEF Inv, Shaped, Db, durable
  <1>4. Allocated'
    BY DEF Inv, Allocated, NextVersionIsFresh, Registered, Larger, durable
  <1> QED
    BY <1>2, <1>3, <1>4 DEF Inv

(* A refusal records at most what the substrate showed.                    *)
LEMMA ObservedKeeps ==
  ASSUME Inv, lifecycle' = Lifecycle,
         UNCHANGED <<registry, counter, pending, parked, marks, durable, live,
                     removed, consumer, channel, resolved, dropped>>
  PROVE  Inv'
  <1>1. TypeOK'
    BY DEF Inv, TypeOK, Lifecycle, durable
  <1>2. Settled'
    BY DEF Inv, Settled, Registered, Superseded, NothingHeld, Lifecycle, durable
  <1>3. Shaped(Db)'
    BY DEF Inv, Shaped, Db, durable
  <1>4. Allocated' /\ ParkedShape'
    BY DEF Inv, Allocated, NextVersionIsFresh, Registered, Larger, durable, ParkedShape
  <1> QED
    BY <1>1, <1>2, <1>3, <1>4 DEF Inv

-----------------------------------------------------------------------------
(* The whole-document verbs.                                               *)

LEMMA WriteAuthority ==
  ASSUME Inv, Capability \in {"head", "repair"}, VersionsLeft(2)
  PROVE  /\ NothingHeld
         /\ WriteState \in State
         /\ WriteCounter \in Nat /\ counter <= WriteCounter
         /\ WriteCounter + 2 <= MaxVersion
  <1>1. counter \in Nat /\ counter + 2 <= MaxVersion
    BY DEF Inv, TypeOK, Versions, VersionsLeft
  <1>2. CASE Registered
    <2>1. Capability # "repair"
      BY <1>2 DEF Capability
    <2> QED
      BY <1>1, <1>2, <2>1 DEF Inv, TypeOK, Settled, WriteState, WriteCounter, Registered
  <1>3. CASE ~Registered
    <2>1. Capability = "repair" /\ "unregistered" \in marks /\ record # None
      BY <1>3 DEF Capability
    <2>2. record \in Records /\ RecordVersion = record.version
      BY <2>1 DEF Inv, TypeOK, RecordVersion
    <2>3. record.version \in Nat /\ record.version + 2 <= MaxVersion
      BY <2>2 DEF Records, Versions, VersionsLeft
    <2>4. WriteState \in State
      BY <1>3, <2>2 DEF WriteState, State, Records
    <2> QED
      BY <1>1, <2>1, <2>3, <2>4 DEF Inv, Settled, WriteCounter, Larger
  <1> QED
    BY <1>2, <1>3

LEMMA WriteHeadCanonicalKeeps ==
  ASSUME Inv, NEW d \in Docs, ServiceFrame, ~Superseded, WriteHeadCanonical(d)
  PROVE  Inv'
  <1>1. VersionsLeft(2) /\ counter \in Nat /\ counter + 2 <= MaxVersion
          /\ UNCHANGED <<consumer, channel, resolved, dropped>>
    BY DEF ServiceFrame, VersionsLeft, Inv, TypeOK, Versions
  <1>2. CASE Capability \in {"head", "repair"}
    <2>1. PICK e \in HeadDocumentOutcomes(WriteState, WriteCounter, d) : EndWrite(e, d)
      BY <1>2 DEF WriteHeadCanonical
    <2>2. /\ NothingHeld
          /\ WriteState \in State
          /\ WriteCounter \in Nat /\ counter <= WriteCounter
          /\ WriteCounter + 2 <= MaxVersion
      BY <1>1, <1>2, WriteAuthority
    <2>3. Ended(e, Db, WriteCounter, d) /\ e.counter <= WriteCounter + 2
      BY <2>2, HeadDocumentEnds
    <2>4. e.counter <= MaxVersion
      BY <2>2, <2>3, ConstantsAssumption DEF Ended
    <2> QED
      BY <1>1, <2>1, <2>2, <2>3, <2>4, EndWriteKeeps
  <1>3. CASE Capability = "birth"
    <2>1. PICK e \in AppendThenHead(Db, counter, registry, d, TRUE) : EndWrite(e, d)
      BY <1>3 DEF WriteHeadCanonical
    <2>2. Registered
      BY <1>3 DEF Capability
    <2>3. NothingHeld /\ registry \in State /\ Shaped(Db)
      BY <2>2 DEF Inv, TypeOK, Settled, Registered
    <2>4. Ended(e, Db, counter, d) /\ e.counter <= counter + 2
      BY <1>1, <2>3, AppendThenHeadEnds
    <2>5. e.counter <= MaxVersion
      BY <1>1, <2>4, ConstantsAssumption DEF Ended
    <2> QED
      BY <1>1, <2>1, <2>3, <2>4, <2>5, EndWriteKeeps
  <1> QED
    BY <1>2, <1>3 DEF WriteHeadCanonical

LEMMA WriteBlobCanonicalKeeps ==
  ASSUME Inv, NEW d \in Docs, ServiceFrame, ~Superseded, ProjectionRepairAllowed,
         WriteBlobCanonical(d)
  PROVE  Inv'
  <1>1. VersionsLeft(2) /\ counter \in Nat /\ counter + 1 <= MaxVersion
          /\ UNCHANGED <<consumer, channel, resolved, dropped>>
    BY ConstantsAssumption DEF ServiceFrame, VersionsLeft, Inv, TypeOK, Versions
  <1>2. CASE Registered
    <2>1. PICK e \in SnapshotOutcomes(Db, counter, registry, d) : EndWrite(e, d)
      BY <1>2 DEF WriteBlobCanonical
    <2>2. NothingHeld /\ registry \in State /\ Shaped(Db)
      BY <1>2 DEF Inv, TypeOK, Settled, Registered
    <2>3. Ended(e, Db, counter, d) /\ e.counter = counter + 1
      BY <1>1, <2>2, SnapshotEnds
    <2> QED
      BY <1>1, <2>1, <2>2, <2>3, EndWriteKeeps
  <1>3. CASE ~Registered
    <2>1. ParkBytes(d)
      BY <1>3 DEF WriteBlobCanonical
    <2>2. "unregistered" \notin marks
      BY <2>1 DEF ParkBytes, ProjectionRepairAllowed
    <2>3. TypeOK'
      BY <1>1, <2>1 DEF Inv, TypeOK, ParkBytes, durable
    <2>4. ParkedShape'
      BY <2>1 DEF Inv, ParkedShape, ParkBytes
    <2> QED
      BY <1>1, <1>3, <2>1, <2>2, <2>3, <2>4, ParkKeeps DEF ParkBytes
  <1> QED
    BY <1>2, <1>3

LEMMA RefusedKeeps ==
  ASSUME Inv, ServiceFrame, RefusedButObserved
  PROVE  Inv'
  BY ObservedKeeps DEF ServiceFrame, RefusedButObserved

LEMMA ProjectionRefusedKeeps ==
  ASSUME Inv, ServiceFrame, ProjectionRefused
  PROVE  Inv'
  BY ObservedKeeps DEF ServiceFrame, ProjectionRefused

(* An absorbed write leaves nothing but a passed version.                  *)
LEMMA AbsorbedKeeps ==
  ASSUME Inv, ServiceFrame, AbsorbedByIdentityAdvance
  PROVE  Inv'
  <1>1. /\ counter \in Nat /\ counter' \in Nat /\ counter <= counter'
        /\ counter' <= MaxVersion
    BY ConstantsAssumption
       DEF AbsorbedByIdentityAdvance, ServiceFrame, VersionsLeft, Inv, TypeOK, Versions
  <1>2. UNCHANGED <<registry, pending, parked, marks, lifecycle, store, record, live,
                    removed, consumer, channel, resolved, dropped>>
    BY DEF AbsorbedByIdentityAdvance, ServiceFrame, durable
  <1>3. TypeOK'
    BY <1>1, <1>2, ConstantsAssumption DEF Inv, TypeOK, Versions
  <1>4. Settled'
    BY <1>2 DEF Inv, Settled, Registered, Superseded, NothingHeld
  <1>5. Shaped(Db)' /\ ParkedShape'
    BY <1>2 DEF Inv, Shaped, Db, ParkedShape
  <1>6. Registered /\ Registered'
    BY <1>2 DEF AbsorbedByIdentityAdvance, Registered
  <1>7. record # None => record.version \in Nat
    BY DEF Inv, TypeOK, Records, Versions
  <1>8. resolved \in Nat
    BY DEF Inv, TypeOK, Versions
  <1>9. Allocated'
    BY <1>1, <1>2, <1>6, <1>7, <1>8 DEF Inv, Allocated, NextVersionIsFresh
  <1> QED
    BY <1>3, <1>4, <1>5, <1>9 DEF Inv

LEMMA SaveKeeps ==
  ASSUME Inv, NEW d \in Docs, Save(d)
  PROVE  Inv'
  <1>1. MutationAllowed => ProjectionRepairAllowed
    BY DEF MutationAllowed, ProjectionRepairAllowed
  <1> QED
    BY <1>1, WriteHeadCanonicalKeeps, WriteBlobCanonicalKeeps, RefusedKeeps DEF Save

LEMMA SaveAuthoritativeKeeps ==
  ASSUME Inv, NEW d \in Docs, SaveAuthoritativeProjection(d)
  PROVE  Inv'
  BY WriteHeadCanonicalKeeps, WriteBlobCanonicalKeeps, RefusedKeeps, AbsorbedKeeps,
     ProjectionRefusedKeeps DEF SaveAuthoritativeProjection

LEMMA SaveTranscriptRewriteKeeps ==
  ASSUME Inv, NEW d \in Docs, SaveTranscriptRewrite(d)
  PROVE  Inv'
  <1>1. ServiceFrame /\ ~Superseded
    BY DEF SaveTranscriptRewrite
  <1>2. ASSUME Capability \in {"head", "repair"},
               NEW e \in AppendThenHead(Db, WriteCounter, WriteState, d, FALSE),
               EndWrite(e, d)
        PROVE  Inv'
    <2>1. VersionsLeft(2) /\ UNCHANGED <<consumer, channel, resolved, dropped>>
      BY <1>1 DEF ServiceFrame
    <2>2. /\ NothingHeld
          /\ WriteState \in State
          /\ WriteCounter \in Nat /\ counter <= WriteCounter
          /\ WriteCounter + 2 <= MaxVersion
      BY <1>2, <2>1, WriteAuthority
    <2>3. Ended(e, Db, WriteCounter, d) /\ e.counter <= WriteCounter + 2
      BY <2>2, AppendThenHeadEnds DEF Inv
    <2>4. e.counter <= MaxVersion
      BY <2>2, <2>3, ConstantsAssumption DEF Ended
    <2> QED
      BY <1>1, <1>2, <2>1, <2>2, <2>3, <2>4, EndWriteKeeps
  <1> QED
    BY <1>1, <1>2, WriteBlobCanonicalKeeps, RefusedKeeps, ProjectionRefusedKeeps
       DEF SaveTranscriptRewrite

-----------------------------------------------------------------------------
(* Registration: the pending bytes, then the parked deltas.                *)

LEMMA EndedTwice ==
  ASSUME NEW db, NEW c \in Nat, NEW d1, NEW d2, NEW x, NEW e,
         Shaped(db), Ended(x, db, c, d1), Ended(e, x.db, x.counter, d2)
  PROVE  Ended(e, db, c, e.db.store.doc)
  <1>1. db.record # None =>
          \/ e.db.record.version = db.record.version
          \/ e.db.record.version <= e.counter
    BY DEF Ended, Shaped, Records, Versions
  <1> QED
    BY <1>1 DEF Ended

LEMMA NothingWritten ==
  ASSUME NEW db, Shaped(db), NEW c \in Nat, NEW ack \in BOOLEAN
  PROVE  Ended(End(db, c, ack), db, c, db.store.doc)
  BY DEF Ended, End

LEMMA PendingFlushEnds ==
  ASSUME Inv, NEW state \in State, NEW c \in Nat, c + 1 <= MaxVersion,
         NEW e \in PendingFlush(Db, c, state)
  PROVE  /\ Ended(e, Db, c, IF pending = None THEN store.doc ELSE pending)
         /\ e.counter <= c + 1
         /\ pending = None => e.ack
  <1>1. Shaped(Db) /\ Db.store = store
    BY DEF Inv, Db
  <1>2. CASE pending = None
    <2>1. e = End(Db, c, TRUE)
      BY <1>2 DEF PendingFlush
    <2>2. e.ack = TRUE /\ e.counter = c
      BY <2>1 DEF End
    <2>3. Ended(End(Db, c, TRUE), Db, c, Db.store.doc)
      BY <1>1, NothingWritten
    <2>4. (IF pending = None THEN store.doc ELSE pending) = Db.store.doc
      BY <1>1, <1>2
    <2>5. e.ack /\ e.counter <= c + 1
      BY <2>2
    <2>6. Ended(e, Db, c, Db.store.doc)
      BY <2>1, <2>3
    <2> QED
      BY <2>4, <2>5, <2>6
  <1>3. CASE pending # None
    <2>1. e \in SnapshotOutcomes(Db, c, state, pending) /\ pending \in Docs
      BY <1>3 DEF PendingFlush, Inv, TypeOK
    <2> QED
      BY <1>1, <1>3, <2>1, SnapshotEnds
  <1> QED
    BY <1>2, <1>3

LEMMA ParkedFlushEnds ==
  ASSUME Inv, NEW db, Shaped(db), NEW state \in State, NEW c \in Nat,
         c + 2 <= MaxVersion, NEW e \in ParkedFlush(db, c, state)
  PROVE  /\ Ended(e, db, c, IF parked.head = None THEN db.store.doc ELSE parked.head)
         /\ e.counter <= c + 2
         /\ parked = NothingParked => e.ack
         /\ e.ack /\ parked.head = None => parked.rows = 0
  <1>0. c + 1 <= MaxVersion
    BY ConstantsAssumption
  <1>1. CASE parked.head = None /\ parked.rows = 0
    <2>1. e = End(db, c, TRUE)
      BY <1>1 DEF ParkedFlush
    <2>2. e.ack = TRUE /\ e.counter = c
      BY <2>1 DEF End
    <2>3. Ended(End(db, c, TRUE), db, c, db.store.doc)
      BY NothingWritten
    <2> QED
      <3>1. (IF parked.head = None THEN db.store.doc ELSE parked.head) = db.store.doc
        BY <1>1
      <3>2. e.ack /\ e.counter <= c + 2
        BY <2>2
      <3>3. Ended(e, db, c, db.store.doc)
        BY <2>1, <2>3
      <3> QED
        BY <1>1, <3>1, <3>2, <3>3
  <1>2. CASE /\ ~(parked.head = None /\ parked.rows = 0)
             /\ parked.head = None \/ parked.rewrite
    <2>1. e = End(db, c, FALSE)
      BY <1>2 DEF ParkedFlush
    <2>2. e.ack = FALSE /\ e.counter = c /\ e.db = db
      BY <2>1 DEF End
    <2>3. parked # NothingParked
      BY <1>2 DEF NothingParked
    <2>4. Ended(End(db, c, FALSE), db, c, db.store.doc)
      BY NothingWritten
    <2>5. Ended(e, db, c, parked.head)
      BY <2>1, <2>2, <2>4 DEF Ended
    <2>6. ~e.ack /\ e.counter <= c + 2
      BY <2>2
    <2>7. Ended(e, db, c, db.store.doc)
      BY <2>1, <2>4
    <2> QED
      BY <2>3, <2>5, <2>6, <2>7
  <1>3. CASE parked.head # None /\ ~parked.rewrite
    <2>1. parked.head \in Docs /\ parked # NothingParked
      BY <1>3 DEF Inv, TypeOK, NothingParked
    <2>2. \/ e \in SnapshotOutcomes(db, c, state, parked.head)
          \/ e \in AppendThenHead(db, c, state, parked.head, TRUE)
      BY <1>3 DEF ParkedFlush
    <2>3. Ended(e, db, c, parked.head) /\ e.counter <= c + 2
      <3>1. CASE e \in SnapshotOutcomes(db, c, state, parked.head)
        BY <1>0, <2>1, <3>1, SnapshotEnds
      <3>2. CASE e \in AppendThenHead(db, c, state, parked.head, TRUE)
        BY <2>1, <3>2, AppendThenHeadEnds
      <3> QED
        BY <2>2, <3>1, <3>2
    <2> QED
      BY <1>3, <2>1, <2>3
  <1> QED
    BY <1>1, <1>2, <1>3

(* The two flushes together, from the counter the registration starts at.  *)
LEMMA RegistrationEnds ==
  ASSUME Inv, NEW state \in State, VersionsLeft(3),
         NEW e1 \in PendingFlush(Db, Larger(counter, resolved), state),
         NEW e2 \in (IF e1.ack THEN ParkedFlush(e1.db, e1.counter, state) ELSE {e1})
  PROVE  /\ Ended(e1, Db, Larger(counter, resolved),
                  IF pending = None THEN store.doc ELSE pending)
         /\ e1.ack =>
              Ended(e2, e1.db, e1.counter,
                    IF parked.head = None THEN e1.db.store.doc ELSE parked.head)
         /\ ~e1.ack => e2 = e1
         /\ Ended(e2, Db, Larger(counter, resolved), e2.db.store.doc)
         /\ e2.counter <= MaxVersion
         /\ NothingHeld => e2.ack
         /\ pending = None => e1.ack
         /\ e1.ack /\ parked = NothingParked => e2.ack
  <1> DEFINE c == Larger(counter, resolved)
  <1>1. c \in Nat /\ c + 3 <= MaxVersion
    BY DEF Inv, TypeOK, Versions, VersionsLeft, Larger
  <1>2. c + 1 <= MaxVersion /\ Shaped(Db)
    BY <1>1, ConstantsAssumption DEF Inv
  <1> HIDE DEF c
  <1>3. /\ Ended(e1, Db, c, IF pending = None THEN store.doc ELSE pending)
        /\ e1.counter <= c + 1
        /\ pending = None => e1.ack
    BY <1>1, <1>2, PendingFlushEnds DEF c
  <1>4. /\ Shaped(e1.db) /\ e1.ack \in BOOLEAN
        /\ e1.counter \in Nat /\ e1.counter + 2 <= MaxVersion
        /\ e1.counter <= MaxVersion
    BY <1>1, <1>3, ConstantsAssumption DEF Ended
  <1>5. CASE e1.ack
    <2>1. e2 \in ParkedFlush(e1.db, e1.counter, state)
      BY <1>5
    <2>2. /\ Ended(e2, e1.db, e1.counter,
                   IF parked.head = None THEN e1.db.store.doc ELSE parked.head)
          /\ e2.counter <= e1.counter + 2
          /\ parked = NothingParked => e2.ack
          /\ e2.ack /\ parked.head = None => parked.rows = 0
      BY <1>4, <2>1, ParkedFlushEnds
    <2>3. Ended(e2, Db, c, e2.db.store.doc)
      BY <1>1, <1>2, <1>3, <2>2, EndedTwice
    <2>4. e2.counter <= MaxVersion
      BY <1>4, <2>2, ConstantsAssumption DEF Ended
    <2> QED
      BY <1>3, <1>5, <2>2, <2>3, <2>4 DEF c, NothingHeld
  <1>6. CASE ~e1.ack
    <2>1. e2 = e1
      BY <1>6
    <2>2. Ended(e2, Db, c, e2.db.store.doc)
      BY <1>3, <2>1 DEF Ended
    <2> QED
      BY <1>3, <1>4, <1>6, <2>1, <2>2 DEF c, NothingHeld
  <1> QED
    BY <1>5, <1>6

LEMMA RegisterKeeps ==
  ASSUME Inv, NEW state \in State, RegisterSession(state)
  PROVE  Inv'
  <1>1. PICK e1 \in PendingFlush(Db, Larger(counter, resolved), state) :
          \E e2 \in (IF e1.ack THEN ParkedFlush(e1.db, e1.counter, state) ELSE {e1}) :
            /\ store' = e2.db.store
            /\ record' = e2.db.record
            /\ pending' = PendingAfter(e1)
            /\ parked' = ParkedAfter(e2)
            /\ lifecycle' = LifecycleAfter(e1, e2)
            /\ removed' = (removed /\ e2.db.store.rep = "none")
            /\ \/ /\ e2.ack
                  /\ registry' = state
                  /\ counter' = e2.counter
                  /\ marks' = {}
                  /\ resolved' = e2.counter
               \/ /\ ~e2.ack
                  /\ counter' = FailedCounter(counter, e2)
                  /\ UNCHANGED <<registry, marks, resolved>>
    BY DEF RegisterSession
  <1>2. PICK e2 \in (IF e1.ack THEN ParkedFlush(e1.db, e1.counter, state) ELSE {e1}) :
            /\ store' = e2.db.store
            /\ record' = e2.db.record
            /\ pending' = PendingAfter(e1)
            /\ parked' = ParkedAfter(e2)
            /\ lifecycle' = LifecycleAfter(e1, e2)
            /\ removed' = (removed /\ e2.db.store.rep = "none")
            /\ \/ /\ e2.ack
                  /\ registry' = state
                  /\ counter' = e2.counter
                  /\ marks' = {}
                  /\ resolved' = e2.counter
               \/ /\ ~e2.ack
                  /\ counter' = FailedCounter(counter, e2)
                  /\ UNCHANGED <<registry, marks, resolved>>
    BY <1>1
  <1>3. VersionsLeft(3) /\ UNCHANGED <<consumer, channel, live, dropped>>
    BY DEF RegisterSession
  <1>4. /\ Ended(e2, Db, Larger(counter, resolved), e2.db.store.doc)
        /\ e2.counter <= MaxVersion
        /\ NothingHeld => e2.ack
        /\ ~e1.ack => e2 = e1
    BY <1>3, RegistrationEnds
  <1>5. /\ counter' = e2.counter /\ counter' \in Versions
        /\ counter \in Nat /\ resolved \in Nat /\ counter' \in Nat
        /\ counter <= counter' /\ resolved <= counter'
    BY <1>2, <1>4, ConstantsAssumption
       DEF Ended, Inv, TypeOK, Versions, Larger, FailedCounter
  <1>6. Shaped(Db)'
    BY <1>2, <1>4 DEF Ended, Shaped, Db
  <1>7. CASE e2.ack
    <2>1. registry' = state /\ marks' = {} /\ resolved' = e2.counter
      BY <1>2, <1>7
    <2>2. NothingHeld' /\ e1.ack
      BY <1>2, <1>4, <1>7 DEF NothingHeld, PendingAfter, ParkedAfter
    <2>3. state # None /\ Registered'
      BY <2>1, ConstantsAssumption DEF Registered
    <2>4. ParkedShape'
      BY <2>2 DEF NothingHeld, ParkedShape, NothingParked
    <2>5. Settled'
      <3>1. removed' => store'.rep = "none" /\ lifecycle' \in {"removed", "durable"}
        BY <1>2 DEF Inv, Settled, LifecycleAfter
      <3> QED
        BY <2>1, <2>2, <2>3, <3>1 DEF Settled, Superseded
    <2>6. TypeOK'
      <3>1. pending' = None /\ parked' = NothingParked
        BY <2>2 DEF NothingHeld
      <3>2. parked' \in [mark : BOOLEAN, rows : Lengths, head : Docs \cup {None},
                         rewrite : BOOLEAN]
        BY <3>1, ConstantsAssumption DEF NothingParked, Lengths
      <3>3. store' \in Stores /\ record' \in Records \cup {None}
        BY <1>6 DEF Shaped, Db
      <3>4. lifecycle' \in {"unknown", "creation", "durable", "removed"}
              /\ removed' \in BOOLEAN
        BY <1>2 DEF LifecycleAfter, Inv, TypeOK
      <3> QED
        BY <1>3, <1>5, <2>1, <3>1, <3>2, <3>3, <3>4 DEF Inv, TypeOK, Stores
    <2>7. Allocated'
      <3>1. ASSUME record' # None, record'.bound
            PROVE  /\ record # None /\ record.bound
                   /\ record'.version = record.version \/ record'.version <= counter'
        BY <1>2, <1>4, <1>5, <3>1 DEF Ended, Db
      <3>2. /\ record # None => record.version \in Nat
            /\ record' # None => record'.version \in Nat
        BY <2>6 DEF Inv, TypeOK, Records, Versions
      <3> QED
        BY <1>3, <1>5, <2>1, <2>3, <3>1, <3>2
           DEF Inv, Allocated, NextVersionIsFresh, Registered, Larger
    <2> QED
      BY <1>6, <2>4, <2>5, <2>6, <2>7 DEF Inv
  <1>8. CASE ~e2.ack
    <2>1. UNCHANGED <<registry, marks, resolved>> /\ parked' = parked
            /\ pending' \in {pending, None}
      BY <1>2, <1>8 DEF ParkedAfter, PendingAfter
    <2>2. ~NothingHeld
      BY <1>4, <1>8
    <2>3. ~Registered /\ "unregistered" \notin marks /\ ~Superseded /\ ~removed
      BY <2>2 DEF Inv, Settled
    <2>4. ParkedShape'
      BY <2>1 DEF Inv, ParkedShape
    <2>5. Settled'
      BY <1>2, <2>1, <2>3 DEF Settled, Registered, Superseded
    <2>6. TypeOK'
      <3>1. store' \in Stores /\ record' \in Records \cup {None}
        BY <1>6 DEF Shaped, Db
      <3>2. lifecycle' \in {"unknown", "creation", "durable", "removed"}
              /\ removed' \in BOOLEAN /\ pending' \in Docs \cup {None}
        BY <1>2, <2>1 DEF LifecycleAfter, Inv, TypeOK
      <3> QED
        BY <1>3, <1>5, <2>1, <3>1, <3>2 DEF Inv, TypeOK, Stores
    <2>7. Allocated'
      <3>1. ASSUME record' # None, record'.bound
            PROVE  /\ record # None /\ record.bound
                   /\ record'.version = record.version \/ record'.version <= counter'
        BY <1>2, <1>4, <1>5, <3>1 DEF Ended, Db
      <3>2. /\ record # None => record.version \in Nat
            /\ record' # None => record'.version \in Nat
        BY <2>6 DEF Inv, TypeOK, Records, Versions
      <3> QED
        BY <1>3, <1>5, <2>1, <2>3, <3>1, <3>2
           DEF Inv, Allocated, NextVersionIsFresh, Registered, Larger
    <2> QED
      BY <1>6, <2>4, <2>5, <2>6, <2>7 DEF Inv
  <1> QED
    BY <1>7, <1>8

-----------------------------------------------------------------------------
(* The other verbs of the identity runtime and of the session service.     *)

(* Forgetting a session leaves nothing held and no registration.           *)
LEMMA ForgetLeaves ==
  ASSUME Inv, NEW ms \in SUBSET {"unregistered", "suspended", "superseded"}, Forget(ms)
  PROVE  /\ NothingHeld' /\ ~Registered' /\ ParkedShape'
         /\ registry' \in State \cup {None}
         /\ counter' = 0 /\ counter' \in Versions
         /\ pending' \in Docs \cup {None}
         /\ parked' \in [mark : BOOLEAN, rows : Lengths, head : Docs \cup {None},
                         rewrite : BOOLEAN]
         /\ marks' \subseteq {"unregistered", "suspended", "superseded"}
  <1>1. parked' = NothingParked /\ pending' = None /\ registry' = None
          /\ counter' = 0 /\ marks' = ms \ {"suspended"}
    BY DEF Forget
  <1>2. 0 \in Versions /\ 0 \in Lengths
    BY ConstantsAssumption DEF Versions, Lengths
  <1>3. NothingParked \in [mark : BOOLEAN, rows : Lengths, head : Docs \cup {None},
                           rewrite : BOOLEAN]
    BY <1>2 DEF NothingParked
  <1>4. ParkedShape'
    BY <1>1 DEF ParkedShape, NothingParked
  <1>5. NothingHeld' /\ ~Registered'
    BY <1>1 DEF NothingHeld, Registered
  <1> QED
    BY <1>1, <1>2, <1>3, <1>4, <1>5

LEMMA NoDocumentShaped ==
  ASSUME Inv, store' \in {store, NoDocument}, record' = record
  PROVE  Shaped(Db)' /\ store' \in Stores
  <1>1. 0 \in Generations
    BY ConstantsAssumption DEF Generations
  <1>2. NoDocument \in Stores
    BY <1>1 DEF NoDocument, Stores
  <1> QED
    BY <1>2 DEF Inv, Shaped, Db, NoDocument

LEMMA SuspendKeeps ==
  ASSUME Inv, SuspendSession
  PROVE  Inv'
  <1>1. TypeOK'
    BY DEF Inv, TypeOK, SuspendSession, durable
  <1>2. Settled'
    BY DEF Inv, Settled, SuspendSession, durable, NothingHeld, Registered, Superseded
  <1>3. Shaped(Db)' /\ ParkedShape' /\ Allocated'
    BY DEF Inv, SuspendSession, durable, Shaped, Db, ParkedShape, Allocated,
           NextVersionIsFresh, Registered, Larger
  <1> QED
    BY <1>1, <1>2, <1>3 DEF Inv

LEMMA UnregisterKeeps ==
  ASSUME Inv, UnregisterSession
  PROVE  Inv'
  <1> DEFINE ms == (marks \ {"superseded"}) \cup {"unregistered"}
  <1>1. ms \in SUBSET {"unregistered", "suspended", "superseded"} /\ Forget(ms)
    BY DEF Inv, TypeOK, UnregisterSession
  <1>2. marks' = ms \ {"suspended"}
    BY <1>1 DEF Forget
  <1>3. ~Superseded'
    BY <1>2 DEF Superseded
  <1> HIDE DEF ms
  <1>4. /\ NothingHeld' /\ ~Registered' /\ ParkedShape'
        /\ registry' \in State \cup {None}
        /\ counter' = 0 /\ counter' \in Versions
        /\ pending' \in Docs \cup {None}
        /\ parked' \in [mark : BOOLEAN, rows : Lengths, head : Docs \cup {None},
                        rewrite : BOOLEAN]
        /\ marks' \subseteq {"unregistered", "suspended", "superseded"}
    BY <1>1, ForgetLeaves
  <1>5. resolved' = RecordVersion /\ RecordVersion \in Versions /\ dropped' = FALSE
          /\ live' \subseteq Docs
    BY ConstantsAssumption
       DEF UnregisterSession, RecordVersion, Inv, TypeOK, Records, Versions
  <1>6. UNCHANGED <<consumer, channel, lifecycle, store, record, removed>>
    BY DEF UnregisterSession, durable
  <1>7. TypeOK'
    BY <1>4, <1>5, <1>6 DEF Inv, TypeOK
  <1>8. Settled'
    BY <1>3, <1>4, <1>6 DEF Inv, Settled
  <1>9. Allocated'
    BY <1>4, <1>5, <1>6 DEF Allocated, NextVersionIsFresh, Larger, RecordVersion, Versions
  <1>10. Shaped(Db)'
    BY <1>6 DEF Inv, Shaped, Db
  <1> QED
    BY <1>4, <1>7, <1>8, <1>9, <1>10 DEF Inv

LEMMA AbandonKeeps ==
  ASSUME Inv, AbandonSupersededSession
  PROVE  Inv'
  <1>1. /\ UNCHANGED <<consumer, channel, record, resolved, dropped>>
        /\ record # None => ~record.bound
        /\ store' \in {store, NoDocument}
    BY DEF AbandonSupersededSession
  <1>2. Shaped(Db)' /\ store' \in Stores
    BY <1>1, NoDocumentShaped
  <1>3. ASSUME store' = NoDocument, Forget(marks \cup {"superseded"}), MarkRemoved,
               live' = {}, removed' = TRUE
        PROVE  Inv'
    <2>1. marks \cup {"superseded"} \in SUBSET {"unregistered", "suspended", "superseded"}
      BY DEF Inv, TypeOK
    <2>2. /\ NothingHeld' /\ ~Registered' /\ ParkedShape'
          /\ registry' \in State \cup {None}
          /\ counter' = 0 /\ counter' \in Versions
          /\ pending' \in Docs \cup {None}
          /\ parked' \in [mark : BOOLEAN, rows : Lengths, head : Docs \cup {None},
                          rewrite : BOOLEAN]
          /\ marks' \subseteq {"unregistered", "suspended", "superseded"}
      BY <1>3, <2>1, ForgetLeaves
    <2>3. TypeOK'
      BY <1>1, <1>2, <1>3, <2>2 DEF Inv, TypeOK, Stores, MarkRemoved
    <2>4. Settled'
      BY <1>3, <2>2 DEF Settled, MarkRemoved, NoDocument
    <2>5. Allocated'
      BY <1>1, <2>2 DEF Allocated, NextVersionIsFresh
    <2> QED
      BY <1>2, <2>2, <2>3, <2>4, <2>5 DEF Inv
  <1>4. ASSUME marks' = marks \cup {"suspended"}, live' = {},
               UNCHANGED <<registry, counter, pending, parked, lifecycle, removed>>
        PROVE  Inv'
    <2>1. TypeOK'
      BY <1>1, <1>2, <1>4 DEF Inv, TypeOK, Stores
    <2>2. Settled'
      <3>1. store.rep = "none" => store'.rep = "none"
        BY <1>1 DEF NoDocument
      <3> QED
        BY <1>4, <3>1 DEF Inv, Settled, NothingHeld, Registered, Superseded
    <2>3. Allocated' /\ ParkedShape'
      BY <1>1, <1>4 DEF Inv, Allocated, NextVersionIsFresh, ParkedShape, Registered
    <2> QED
      BY <1>2, <2>1, <2>2, <2>3 DEF Inv
  <1> QED
    BY <1>3, <1>4 DEF AbandonSupersededSession

LEMMA ForgottenDocument ==
  ASSUME Inv, ~Superseded, Forget(marks), live' = {}, dropped' = TRUE,
         store' \in {store, NoDocument}, removed' \in BOOLEAN,
         lifecycle' \in {lifecycle, "removed"},
         removed' => store'.rep = "none" /\ lifecycle' \in {"removed", "durable"},
         UNCHANGED <<record, consumer, channel, resolved>>
  PROVE  Inv'
  <1>1. /\ NothingHeld' /\ ~Registered' /\ ParkedShape'
        /\ registry' \in State \cup {None}
        /\ counter' = 0 /\ counter' \in Versions
        /\ pending' \in Docs \cup {None}
        /\ parked' \in [mark : BOOLEAN, rows : Lengths, head : Docs \cup {None},
                        rewrite : BOOLEAN]
        /\ marks' \subseteq {"unregistered", "suspended", "superseded"}
    BY ForgetLeaves DEF Inv, TypeOK
  <1>2. Shaped(Db)' /\ store' \in Stores
    BY NoDocumentShaped
  <1>3. ~Superseded'
    BY DEF Forget, Superseded
  <1>4. TypeOK'
    BY <1>1, <1>2 DEF Inv, TypeOK, Stores
  <1>5. Settled'
    BY <1>1, <1>3 DEF Settled
  <1>6. Allocated'
    BY <1>1 DEF Allocated, NextVersionIsFresh
  <1> QED
    BY <1>1, <1>2, <1>4, <1>5, <1>6 DEF Inv

LEMMA RemoveDocumentKeeps ==
  ASSUME Inv, ~Superseded, RemoveDocument
  PROVE  Inv'
  <1>1. ASSUME store' = NoDocument, Forget(marks), MarkRemoved, live' = {},
               removed' = TRUE, dropped' = TRUE,
               UNCHANGED <<record, consumer, channel, resolved>>
        PROVE  Inv'
    BY <1>1, ForgottenDocument DEF MarkRemoved, NoDocument
  <1>2. ASSUME store' = NoDocument, live' = {},
               UNCHANGED <<process, record, consumer, channel, resolved, removed, dropped>>
        PROVE  Inv'
    <2>1. Shaped(Db)' /\ store' \in Stores
      BY <1>2, NoDocumentShaped
    <2>2. TypeOK'
      BY <1>2, <2>1 DEF Inv, TypeOK, Stores, process
    <2>3. Settled'
      BY <1>2 DEF Inv, Settled, process, NothingHeld, Registered, Superseded, NoDocument
    <2>4. Allocated' /\ ParkedShape'
      BY <1>2 DEF Inv, Allocated, NextVersionIsFresh, ParkedShape, Registered, process,
                  Larger
    <2> QED
      BY <2>1, <2>2, <2>3, <2>4 DEF Inv
  <1> QED
    BY <1>1, <1>2 DEF RemoveDocument

LEMMA DeleteKeeps ==
  ASSUME Inv, Delete
  PROVE  Inv'
  BY RemoveDocumentKeeps DEF Delete

LEMMA DeleteIfCurrentRevisionKeeps ==
  ASSUME Inv, NEW d \in Docs, DeleteIfCurrentRevision(d)
  PROVE  Inv'
  <1>1. ASSUME store.rep = "none", Forget(marks), live' = {}, dropped' = TRUE, ~Superseded,
               UNCHANGED <<durable, lifecycle, removed, consumer, channel, resolved>>
        PROVE  Inv'
    <2>1. removed' \in BOOLEAN
            /\ (removed' => store'.rep = "none" /\ lifecycle' \in {"removed", "durable"})
      BY <1>1 DEF Inv, TypeOK, Settled, durable
    <2> QED
      BY <1>1, <2>1, ForgottenDocument DEF durable
  <1> QED
    BY <1>1, RemoveDocumentKeeps DEF DeleteIfCurrentRevision

-----------------------------------------------------------------------------
(* The delta verbs.                                                        *)

LEMMA ParkDeltaKeeps ==
  ASSUME Inv, DeltaRouted, NEW p, ParkDelta(p), live' \subseteq Docs,
         p \in [mark : BOOLEAN, rows : Lengths, head : Docs \cup {None},
                rewrite : BOOLEAN],
         p.mark
  PROVE  Inv'
  <1>1. /\ "unregistered" \notin marks /\ ~Superseded
        /\ UNCHANGED <<consumer, channel, resolved, dropped>>
    BY DEF DeltaRouted, MutationAllowed, ServiceFrame
  <1>2. TypeOK'
    BY <1>1 DEF ParkDelta, Inv, TypeOK, durable
  <1>3. ParkedShape'
    BY DEF ParkDelta, ParkedShape
  <1> QED
    BY <1>1, <1>2, <1>3, ParkKeeps DEF ParkDelta

LEMMA ParkRefusedKeeps ==
  ASSUME Inv, DeltaRouted, ParkRefused
  PROVE  Inv'
  BY ObservedKeeps DEF DeltaRouted, ServiceFrame, ParkRefused

LEMMA BesideHeadKeeps ==
  ASSUME Inv, DeltaRouted, DurableBesideHead
  PROVE  Inv'
  <1>1. /\ VersionsLeft(2) /\ ~Superseded
        /\ UNCHANGED <<consumer, channel, resolved, dropped>>
    BY DEF DeltaRouted, ServiceFrame
  <1>2. PICK e \in AppendOutcomes(Db, counter, registry) :
          /\ store' = e.db.store
          /\ record' = e.db.record
          /\ counter' = e.counter
          /\ lifecycle' = IF e.ack THEN "durable" ELSE lifecycle
    BY DEF DurableBesideHead
  <1>3. /\ Registered /\ UNCHANGED <<registry, pending, parked, marks, live, removed>>
        /\ NothingHeld /\ registry \in State /\ Shaped(Db) /\ Db.store = store
    BY DEF DurableBesideHead, Inv, TypeOK, Settled, Registered, Db
  <1>4. counter \in Nat /\ counter + 1 <= MaxVersion
    BY <1>1, ConstantsAssumption DEF Inv, TypeOK, Versions, VersionsLeft
  <1>5. Ended(e, Db, counter, store.doc) /\ e.counter = counter + 1
    BY <1>3, <1>4, AppendEnds
  <1>6. Shaped(Db)'
    BY <1>2, <1>5 DEF Ended, Shaped, Db
  <1>7. store'.doc = store.doc
    BY <1>2, <1>3, <1>5 DEF Ended
  <1>8. TypeOK'
    <2>1. counter' \in Versions
      BY <1>2, <1>4, <1>5, ConstantsAssumption DEF Versions
    <2>2. store' \in Stores /\ record' \in Records \cup {None}
      BY <1>6 DEF Shaped, Db
    <2>3. lifecycle' \in {"unknown", "creation", "durable", "removed"}
      BY <1>2 DEF Inv, TypeOK
    <2> QED
      BY <1>1, <1>3, <2>1, <2>2, <2>3 DEF Inv, TypeOK, Stores
  <1>9. Settled'
    <2>1. store.rep = "none" => store'.rep = "none"
      BY <1>6, <1>7 DEF Inv, Shaped, Db
    <2> QED
      BY <1>1, <1>2, <1>3, <2>1 DEF Inv, Settled, NothingHeld, Registered, Superseded
  <1>10. Allocated'
    <2>1. ASSUME record' # None, record'.bound
          PROVE  /\ record # None /\ record.bound
                 /\ record'.version = record.version \/ record'.version <= counter'
      BY <1>2, <1>5, <2>1 DEF Ended, Db
    <2>2. /\ record # None => record.version \in Nat
          /\ record' # None => record'.version \in Nat
          /\ resolved \in Nat /\ counter' = counter + 1
      BY <1>2, <1>5, <1>8 DEF Inv, TypeOK, Records, Versions
    <2> QED
      BY <1>1, <1>3, <1>4, <2>1, <2>2
         DEF Inv, Allocated, NextVersionIsFresh, Registered
  <1>11. ParkedShape'
    BY <1>3 DEF Inv, ParkedShape
  <1> QED
    BY <1>6, <1>8, <1>9, <1>10, <1>11 DEF Inv

LEMMA AppendMessagesKeeps ==
  ASSUME Inv, NEW n \in Lengths, AppendMessages(n)
  PROVE  Inv'
  <1>1. DeltaRouted
    BY DEF AppendMessages
  <1>2. ASSUME ParkDelta([parked EXCEPT !.mark = TRUE, !.rows = n]), UNCHANGED live
        PROVE  Inv'
    <2> DEFINE p == [parked EXCEPT !.mark = TRUE, !.rows = n]
    <2>1. p \in [mark : BOOLEAN, rows : Lengths, head : Docs \cup {None},
                 rewrite : BOOLEAN] /\ p.mark
      BY DEF Inv, TypeOK
    <2>2. live' \subseteq Docs
      BY <1>2 DEF Inv, TypeOK
    <2> HIDE DEF p
    <2> QED
      BY <1>1, <1>2, <2>1, <2>2, ParkDeltaKeeps DEF p
  <1> QED
    BY <1>1, <1>2, BesideHeadKeeps, ParkRefusedKeeps DEF AppendMessages

LEMMA CommitRewriteKeeps ==
  ASSUME Inv, CommitRewrite
  PROVE  Inv'
  <1>1. DeltaRouted
    BY DEF CommitRewrite
  <1>2. ASSUME parked.head # None, ParkDelta([parked EXCEPT !.rewrite = TRUE]),
               UNCHANGED live
        PROVE  Inv'
    <2> DEFINE p == [parked EXCEPT !.rewrite = TRUE]
    <2>1. p \in [mark : BOOLEAN, rows : Lengths, head : Docs \cup {None},
                 rewrite : BOOLEAN] /\ p.mark
      BY <1>2 DEF Inv, TypeOK, ParkedShape
    <2>2. live' \subseteq Docs
      BY <1>2 DEF Inv, TypeOK
    <2> HIDE DEF p
    <2> QED
      BY <1>1, <1>2, <2>1, <2>2, ParkDeltaKeeps DEF p
  <1> QED
    BY <1>1, <1>2, BesideHeadKeeps, ParkRefusedKeeps DEF CommitRewrite

LEMMA SaveHeadKeeps ==
  ASSUME Inv, NEW d \in Docs, SaveHead(d)
  PROVE  Inv'
  <1>1. DeltaRouted /\ ~Superseded /\ VersionsLeft(2)
          /\ UNCHANGED <<consumer, channel, resolved, dropped>>
    BY DEF SaveHead, DeltaRouted, ServiceFrame
  <1>2. ASSUME Registered,
               NEW e \in HeadOutcomes(Db, counter, registry, d, store.rep = "none"),
               EndWrite(e, d)
        PROVE  Inv'
    <2>1. counter \in Nat /\ counter + 1 <= MaxVersion
      BY <1>1, ConstantsAssumption DEF Inv, TypeOK, Versions, VersionsLeft
    <2>2. NothingHeld /\ registry \in State /\ Shaped(Db)
      BY <1>2 DEF Inv, TypeOK, Settled, Registered
    <2>3. PICK create \in BOOLEAN : create = (store.rep = "none")
      OBVIOUS
    <2>4. e \in HeadOutcomes(Db, counter, registry, d, create)
      BY <2>3
    <2>5. Ended(e, Db, counter, d) /\ e.counter = counter + 1
      BY <2>1, <2>2, <2>4, HeadEnds
    <2> QED
      BY <1>1, <1>2, <2>1, <2>2, <2>5, EndWriteKeeps
  <1>3. ASSUME ParkDelta([parked EXCEPT !.mark = TRUE, !.head = d]), live' = {d}
        PROVE  Inv'
    <2> DEFINE p == [parked EXCEPT !.mark = TRUE, !.head = d]
    <2>1. p \in [mark : BOOLEAN, rows : Lengths, head : Docs \cup {None},
                 rewrite : BOOLEAN] /\ p.mark
      BY DEF Inv, TypeOK
    <2> HIDE DEF p
    <2> QED
      BY <1>1, <1>3, <2>1, ParkDeltaKeeps DEF p
  <1> QED
    BY <1>1, <1>2, <1>3, ParkRefusedKeeps DEF SaveHead

-----------------------------------------------------------------------------
(* The record verbs and the end of the process.                            *)

LEMMA BindRecordKeeps ==
  ASSUME Inv, NEW g \in Generations, NEW t \in Tokens, BindRecord(g, t)
  PROVE  Inv'
  <1>1. UNCHANGED <<consumer, channel, registry, counter, pending, parked, marks,
                    lifecycle, store, resolved, live, removed, dropped>>
    BY DEF BindRecord, process
  <1>2. record' = [bound |-> TRUE, generation |-> g, token |-> t,
                   version |-> RecordVersion]
    BY DEF BindRecord
  <1>3. RecordVersion \in Versions /\ 0 \in Versions
    BY ConstantsAssumption DEF RecordVersion, Inv, TypeOK, Records, Versions
  <1>4. record' \in Records /\ record'.bound /\ record'.version = RecordVersion
    BY <1>2, <1>3 DEF Records
  <1>5. TypeOK'
    BY <1>1, <1>4 DEF Inv, TypeOK
  <1>6. Shaped(Db)'
    BY <1>1, <1>4 DEF Inv, Shaped, Db
  <1>7. Settled' /\ ParkedShape'
    BY <1>1 DEF Inv, Settled, ParkedShape, NothingHeld, Registered, Superseded
  <1>8. Allocated'
    <2>1. record # None => record.bound
      BY DEF BindRecord
    <2>2. counter \in Nat /\ resolved \in Nat
      BY DEF Inv, TypeOK, Versions
    <2> QED
      BY <1>1, <1>4, <2>1, <2>2
         DEF Inv, Allocated, NextVersionIsFresh, Registered, Larger, RecordVersion
  <1> QED
    BY <1>5, <1>6, <1>7, <1>8 DEF Inv

LEMMA ResetRecordKeeps ==
  ASSUME Inv, NEW t \in Tokens, ResetRecord(t)
  PROVE  Inv'
  <1>1. UNCHANGED <<consumer, channel, registry, counter, pending, parked, marks,
                    lifecycle, store, resolved, live, removed, dropped>>
    BY DEF ResetRecord, process
  <1>2. /\ record' = [bound |-> FALSE, generation |-> record.generation + 1,
                      token |-> t, version |-> 0]
        /\ record \in Records /\ record.generation < MaxGeneration
    BY DEF ResetRecord, Inv, TypeOK
  <1>3. record.generation + 1 \in Generations /\ record.generation + 1 > 0 /\ 0 \in Versions
    BY <1>2, ConstantsAssumption DEF Records, Generations, Versions
  <1>4. record' \in Records /\ ~record'.bound /\ record'.generation > 0
    BY <1>2, <1>3 DEF Records
  <1>5. TypeOK'
    BY <1>1, <1>4 DEF Inv, TypeOK
  <1>6. Shaped(Db)'
    BY <1>1, <1>4 DEF Inv, Shaped, Db
  <1>7. Settled' /\ ParkedShape'
    BY <1>1 DEF Inv, Settled, ParkedShape, NothingHeld, Registered, Superseded
  <1>8. Allocated'
    BY <1>1, <1>4 DEF Inv, Allocated, NextVersionIsFresh, Registered
  <1> QED
    BY <1>5, <1>6, <1>7, <1>8 DEF Inv

LEMMA RollbackResetKeeps ==
  ASSUME Inv, RollbackReset
  PROVE  Inv'
  <1>1. UNCHANGED <<consumer, channel, registry, counter, pending, parked, marks,
                    lifecycle, store, resolved, live, removed, dropped>>
    BY DEF RollbackReset, process
  <1>2. /\ record' = [bound |-> TRUE, generation |-> record.generation - 1,
                      token |-> record.token, version |-> resolved]
        /\ record \in Records /\ record.generation > 0 /\ resolved \in Versions
    BY DEF RollbackReset, Inv, TypeOK, Shaped, Db
  <1>3. record.generation - 1 \in Generations
    BY <1>2, ConstantsAssumption DEF Records, Generations
  <1>4. record' \in Records /\ record'.bound /\ record'.version = resolved
    BY <1>2, <1>3 DEF Records
  <1>5. TypeOK'
    BY <1>1, <1>4 DEF Inv, TypeOK
  <1>6. Shaped(Db)'
    BY <1>1, <1>4 DEF Inv, Shaped, Db
  <1>7. Settled' /\ ParkedShape'
    BY <1>1 DEF Inv, Settled, ParkedShape, NothingHeld, Registered, Superseded
  <1>8. Allocated'
    <2>1. counter \in Nat /\ resolved \in Nat
      BY DEF Inv, TypeOK, Versions
    <2> QED
      BY <1>1, <1>4, <2>1 DEF Inv, Allocated, NextVersionIsFresh, Registered, Larger
  <1> QED
    BY <1>5, <1>6, <1>7, <1>8 DEF Inv

LEMMA RestartKeeps ==
  ASSUME Inv, Restart
  PROVE  Inv'
  <1>1. /\ registry' = None /\ counter' = 0 /\ pending' = None
        /\ parked' = NothingParked /\ marks' = {} /\ lifecycle' = "unknown"
        /\ resolved' = RecordVersion /\ removed' = FALSE /\ dropped' = FALSE
        /\ live' = live \cap {store.doc}
        /\ UNCHANGED <<consumer, channel, store, record>>
    BY DEF Restart, durable
  <1>2. RecordVersion \in Versions /\ 0 \in Versions /\ 0 \in Lengths
    BY ConstantsAssumption DEF RecordVersion, Inv, TypeOK, Records, Versions, Lengths
  <1>3. NothingParked \in [mark : BOOLEAN, rows : Lengths, head : Docs \cup {None},
                           rewrite : BOOLEAN]
    BY <1>2 DEF NothingParked
  <1>4. TypeOK'
    BY <1>1, <1>2, <1>3 DEF Inv, TypeOK
  <1>5. Shaped(Db)'
    BY <1>1 DEF Inv, Shaped, Db
  <1>6. Settled' /\ ParkedShape'
    BY <1>1 DEF Settled, ParkedShape, NothingHeld, NothingParked, Registered, Superseded
  <1>7. Allocated'
    BY <1>1, <1>2 DEF Allocated, NextVersionIsFresh, Registered, Larger, RecordVersion,
                      Versions
  <1> QED
    BY <1>4, <1>5, <1>6, <1>7 DEF Inv

LEMMA InitInv == Init => Inv
  <1> SUFFICES ASSUME Init PROVE Inv
    OBVIOUS
  <1>1. 0 \in Versions /\ 0 \in Lengths /\ 0 \in Generations
    BY ConstantsAssumption DEF Versions, Lengths, Generations
  <1>2. NothingParked \in [mark : BOOLEAN, rows : Lengths, head : Docs \cup {None},
                           rewrite : BOOLEAN]
    BY <1>1 DEF NothingParked
  <1>3. NoDocument \in Stores /\ NoDocument.rep = "none" /\ NoDocument.doc = None
    BY <1>1 DEF NoDocument, Stores
  <1>4. TypeOK
    BY <1>1, <1>2, <1>3 DEF Init, TypeOK, Stores
  <1>5. Shaped(Db)
    BY <1>3 DEF Init, Shaped, Db
  <1>6. Settled /\ ParkedShape /\ Allocated
    BY DEF Init, Settled, ParkedShape, Allocated, NextVersionIsFresh, NothingHeld,
           NothingParked, Registered, Superseded
  <1> QED
    BY <1>4, <1>5, <1>6 DEF Inv

LEMMA InvInductive == Inv /\ [Next]_vars => Inv'
  <1> SUFFICES ASSUME Inv, [Next]_vars PROVE Inv'
    OBVIOUS
  <1>1. CASE Next
    <2>1. ASSUME NEW state \in State, RegisterSession(state) PROVE Inv'
      BY <2>1, RegisterKeeps
    <2>2. ASSUME NEW d \in Docs,
                 \/ Save(d) \/ SaveAuthoritativeProjection(d) \/ SaveTranscriptRewrite(d)
                 \/ DeleteIfCurrentRevision(d) \/ SaveHead(d)
          PROVE  Inv'
      BY <2>2, SaveKeeps, SaveAuthoritativeKeeps, SaveTranscriptRewriteKeeps,
         DeleteIfCurrentRevisionKeeps, SaveHeadKeeps
    <2>3. ASSUME NEW n \in Lengths, AppendMessages(n) PROVE Inv'
      BY <2>3, AppendMessagesKeeps
    <2>4. ASSUME NEW g \in Generations, NEW t \in Tokens, BindRecord(g, t) PROVE Inv'
      BY <2>4, BindRecordKeeps
    <2>5. ASSUME NEW t \in Tokens, ResetRecord(t) PROVE Inv'
      BY <2>5, ResetRecordKeeps
    <2> QED
      BY <1>1, <2>1, <2>2, <2>3, <2>4, <2>5, SuspendKeeps, UnregisterKeeps, AbandonKeeps,
         DeleteKeeps, CommitRewriteKeeps, RollbackResetKeeps, RestartKeeps DEF Next
  <1>2. CASE UNCHANGED vars
    BY <1>2 DEF vars, Inv, TypeOK, Shaped, Db, ParkedShape, Settled, Allocated,
                NextVersionIsFresh, NothingHeld, Registered, Superseded, Larger
  <1> QED
    BY <1>1, <1>2

THEOREM Invariance == Spec => []Inv
  BY InitInv, InvInductive, PTL DEF Spec

-----------------------------------------------------------------------------
(* What a step may not do.                                                 *)

(* A registration flushes only what was held.                              *)
LEMMA NothingHeldFlushesNothing ==
  ASSUME Inv, NothingHeld, NEW state \in State, RegisterSession(state)
  PROVE  store' = store
  <1>1. PICK e1 \in PendingFlush(Db, Larger(counter, resolved), state) :
          \E e2 \in (IF e1.ack THEN ParkedFlush(e1.db, e1.counter, state) ELSE {e1}) :
            store' = e2.db.store
    BY DEF RegisterSession
  <1>2. e1 = End(Db, Larger(counter, resolved), TRUE)
    BY DEF PendingFlush, NothingHeld
  <1>3. e1.ack /\ e1.db = Db
    BY <1>2 DEF End
  <1>4. PICK e2 \in ParkedFlush(e1.db, e1.counter, state) : store' = e2.db.store
    BY <1>1, <1>3
  <1>5. e2 = End(e1.db, e1.counter, TRUE)
    BY <1>4 DEF ParkedFlush, NothingHeld, NothingParked
  <1> QED
    BY <1>3, <1>4, <1>5 DEF End, Db

(* A verb of the session service changes the document of a registered      *)
(* session, or repairs the head of an unregistered one, under a lifted     *)
(* suspension.                                                             *)
LEMMA ServiceWrites ==
  ASSUME Inv, NEW d \in Docs,
         Save(d) \/ SaveAuthoritativeProjection(d) \/ SaveTranscriptRewrite(d)
  PROVE  "suspended" \notin marks /\ (store' = store \/ Registered \/ store.rep # "none")
  <1>1. "suspended" \notin marks
    BY DEF Save, SaveAuthoritativeProjection, SaveTranscriptRewrite, MutationAllowed,
           ProjectionRepairAllowed, ProjectionRefused
  <1>2. \/ WriteHeadCanonical(d) \/ WriteBlobCanonical(d) \/ RefusedButObserved
        \/ ProjectionRefused \/ AbsorbedByIdentityAdvance \/ Capability \in {"head", "repair"}
    BY DEF Save, SaveAuthoritativeProjection, SaveTranscriptRewrite
  <1>3. Capability \in {"head", "repair", "birth"} => Registered \/ store.rep # "none"
    BY DEF Capability
  <1>4. WriteHeadCanonical(d) => Capability \in {"head", "repair", "birth"}
    BY DEF WriteHeadCanonical
  <1>5. WriteBlobCanonical(d) => Registered \/ store' = store
    BY DEF WriteBlobCanonical, ParkBytes, durable
  <1>6. RefusedButObserved \/ ProjectionRefused \/ AbsorbedByIdentityAdvance => store' = store
    BY DEF RefusedButObserved, ProjectionRefused, AbsorbedByIdentityAdvance, durable
  <1> QED
    BY <1>1, <1>2, <1>3, <1>4, <1>5, <1>6

LEMMA DeltaWrites ==
  ASSUME \/ \E d \in Docs : SaveHead(d)
         \/ \E n \in Lengths : AppendMessages(n)
         \/ CommitRewrite
  PROVE  "suspended" \notin marks /\ (store' = store \/ Registered)
  <1>1. "suspended" \notin marks
    BY DEF SaveHead, AppendMessages, CommitRewrite, DeltaRouted, MutationAllowed
  <1>2. ParkRefused => store' = store
    BY DEF ParkRefused, durable
  <1>3. ASSUME NEW p, ParkDelta(p) PROVE store' = store
    BY <1>3 DEF ParkDelta, durable
  <1>4. DurableBesideHead => Registered
    BY DEF DurableBesideHead
  <1> QED
    BY <1>1, <1>2, <1>3, <1>4 DEF SaveHead, AppendMessages, CommitRewrite

LEMMA RemovalWrites ==
  ASSUME \/ AbandonSupersededSession \/ Delete
         \/ \E d \in Docs : DeleteIfCurrentRevision(d)
  PROVE  store' = store \/ store'.rep = "none"
  BY DEF AbandonSupersededSession, Delete, DeleteIfCurrentRevision, RemoveDocument,
         NoDocument, durable

LEMMA OtherWrites ==
  ASSUME \/ SuspendSession \/ UnregisterSession \/ RollbackReset \/ Restart
         \/ \E g \in Generations, t \in Tokens : BindRecord(g, t)
         \/ \E t \in Tokens : ResetRecord(t)
  PROVE  store' = store
  BY DEF SuspendSession, UnregisterSession, RollbackReset, Restart, BindRecord, ResetRecord,
         durable

LEMMA StepsWrite ==
  ASSUME Inv, Next
  PROVE  \/ store' = store
         \/ store'.rep = "none"
         \/ \E state \in State : RegisterSession(state) /\ ~NothingHeld
         \/ "suspended" \notin marks /\ (Registered \/ store.rep # "none")
  <1>1. CASE \E state \in State : RegisterSession(state)
    BY <1>1, NothingHeldFlushesNothing
  <1>2. CASE \E d \in Docs : Save(d) \/ SaveAuthoritativeProjection(d)
                               \/ SaveTranscriptRewrite(d)
    BY <1>2, ServiceWrites
  <1> QED
    BY <1>1, <1>2, DeltaWrites, RemovalWrites, OtherWrites DEF Next

(* Every reachable state is typed: no verb mints a version or a document   *)
(* outside the adapter's tables.                                           *)
THEOREM Typed == Spec => []TypeOK
  <1>1. Inv => TypeOK
    BY DEF Inv
  <1> QED
    BY <1>1, Invariance, PTL

(* Nothing is parked beside a registration, a superseded session left no   *)
(* document, and the next version of a bound session is one its record has *)
(* not seen, whatever acknowledgements were lost.                          *)
THEOREM Agreement == Spec => []AgreesWithStore
  <1>1. Inv => RegisteredHoldsNothingParked
    BY DEF Inv, Settled, RegisteredHoldsNothingParked, NothingHeld, NothingParked
  <1>2. Inv => SupersededHasNoDocument
    BY DEF Inv, Settled, SupersededHasNoDocument
  <1>3. Inv => AgreesWithStore
    BY <1>1, <1>2 DEF Inv, Allocated, AgreesWithStore
  <1> QED
    BY <1>3, Invariance, PTL

(* A removed document comes back only through a registered session, and a  *)
(* suspended session's document is at most removed.                        *)
THEOREM LateWrites == Spec => LateWritesChangeNothing
  <1>1. ASSUME Inv, Next
        PROVE  removed /\ store'.rep # "none" => Registered
    <2>1. removed => NothingHeld /\ store.rep = "none"
      BY <1>1 DEF Inv, Settled
    <2> QED
      BY <1>1, <2>1, StepsWrite
  <1>2. ASSUME Inv, Next, Registered, "suspended" \in marks
        PROVE  store'.rep = "none" \/ store' = store
    <2>1. NothingHeld
      BY <1>2 DEF Inv, Settled
    <2> QED
      BY <1>2, <2>1, StepsWrite
  <1>3. Inv /\ [Next]_vars => [removed /\ store'.rep # "none" => Registered]_vars
    BY <1>1
  <1>4. Inv /\ [Next]_vars =>
          [Registered /\ "suspended" \in marks /\ "suspended" \in marks' =>
             store'.rep = "none" \/ store' = store]_vars
    BY <1>2
  <1>5. Spec => NoResurrection
    BY <1>3, Invariance, PTL DEF Spec, NoResurrection
  <1>6. Spec => SuspendedIsQuiescent
    BY <1>4, Invariance, PTL DEF Spec, SuspendedIsQuiescent
  <1> QED
    BY <1>5, <1>6, PTL DEF LateWritesChangeNothing

-----------------------------------------------------------------------------
(* One kind of verbs: what was acknowledged is held.                       *)

LEMMA HeldFacts ==
  ASSUME Inv, Held
  PROVE  /\ Delta => pending = None
         /\ Whole => parked = NothingParked
         /\ parked = NothingParked => parked.head = None /\ parked.rows = 0
         /\ ~NothingHeld => lifecycle = "creation"
  BY DEF Held, Delta, Whole, NothingParked

LEMMA EndWriteHolds ==
  ASSUME Inv, Held, NEW d \in Docs, NEW c \in Nat, NEW e, Ended(e, Db, c, d),
         NothingHeld, EndWrite(e, d), UNCHANGED <<consumer, channel>>
  PROVE  Held'
  <1>1. pending' = None /\ parked' = NothingParked /\ NothingHeld' /\ parked'.head = None
    BY DEF EndWrite, NothingHeld, NothingParked
  <1>2. /\ store'.doc \in {store.doc, d}
        /\ e.ack => store'.doc = d
        /\ live' = IF e.ack THEN {d} ELSE IF live = {} THEN {} ELSE live \cup {d}
    BY DEF EndWrite, Ended, Db
  <1>3. live # {} => store.doc \in live
    BY DEF Held, NothingHeld, NothingParked
  <1>4. live' # {} => store'.doc \in live'
    BY <1>2, <1>3
  <1> QED
    BY <1>1, <1>4 DEF Held, Delta, Whole

LEMMA ObservedHolds ==
  ASSUME Inv, Held, lifecycle' = Lifecycle,
         UNCHANGED <<pending, parked, store, live, consumer, channel>>
  PROVE  Held'
  BY DEF Held, Delta, Whole, Lifecycle, NothingHeld

LEMMA WriteHeadCanonicalHolds ==
  ASSUME Inv, Held, NEW d \in Docs, ServiceFrame, WriteHeadCanonical(d)
  PROVE  Held'
  <1>1. VersionsLeft(2) /\ counter \in Nat /\ counter + 2 <= MaxVersion
          /\ UNCHANGED <<consumer, channel>>
    BY DEF ServiceFrame, VersionsLeft, Inv, TypeOK, Versions
  <1>2. CASE Capability \in {"head", "repair"}
    <2>1. PICK e \in HeadDocumentOutcomes(WriteState, WriteCounter, d) : EndWrite(e, d)
      BY <1>2 DEF WriteHeadCanonical
    <2>2. NothingHeld /\ Ended(e, Db, WriteCounter, d) /\ WriteCounter \in Nat
      BY <1>1, <1>2, WriteAuthority, HeadDocumentEnds
    <2> QED
      BY <1>1, <2>1, <2>2, EndWriteHolds
  <1>3. CASE Capability = "birth"
    <2>1. PICK e \in AppendThenHead(Db, counter, registry, d, TRUE) : EndWrite(e, d)
      BY <1>3 DEF WriteHeadCanonical
    <2>2. Registered
      BY <1>3 DEF Capability
    <2>3. NothingHeld /\ registry \in State /\ Shaped(Db)
      BY <2>2 DEF Inv, TypeOK, Settled, Registered
    <2>4. Ended(e, Db, counter, d)
      BY <1>1, <2>3, AppendThenHeadEnds
    <2> QED
      BY <1>1, <2>1, <2>3, <2>4, EndWriteHolds
  <1> QED
    BY <1>2, <1>3 DEF WriteHeadCanonical

LEMMA WriteBlobCanonicalHolds ==
  ASSUME Inv, Held, NEW d \in Docs, Whole, ServiceFrame, WriteBlobCanonical(d)
  PROVE  Held'
  <1>1. VersionsLeft(2) /\ counter \in Nat /\ counter + 1 <= MaxVersion
          /\ UNCHANGED <<consumer, channel>>
    BY ConstantsAssumption DEF ServiceFrame, VersionsLeft, Inv, TypeOK, Versions
  <1>2. CASE Registered
    <2>1. PICK e \in SnapshotOutcomes(Db, counter, registry, d) : EndWrite(e, d)
      BY <1>2 DEF WriteBlobCanonical
    <2>2. NothingHeld /\ registry \in State /\ Shaped(Db)
      BY <1>2 DEF Inv, TypeOK, Settled, Registered
    <2>3. Ended(e, Db, counter, d)
      BY <1>1, <2>2, SnapshotEnds
    <2> QED
      BY <1>1, <2>1, <2>2, <2>3, EndWriteHolds
  <1>3. CASE ~Registered
    <2>1. /\ pending' = d /\ lifecycle' = "creation" /\ live' = {d} /\ parked' = parked
          /\ d # None
      BY <1>3, ConstantsAssumption DEF WriteBlobCanonical, ParkBytes, Docs
    <2>2. parked'.head = None /\ parked' = NothingParked
      BY <2>1, HeldFacts
    <2>3. Whole' /\ consumer' # "mixed"
      BY <1>1 DEF Held, Whole
    <2> QED
      BY <2>1, <2>2, <2>3 DEF Held
  <1> QED
    BY <1>2, <1>3

LEMMA WholeHolds ==
  ASSUME Inv, Held, NEW d \in Docs,
         Save(d) \/ SaveAuthoritativeProjection(d) \/ SaveTranscriptRewrite(d)
  PROVE  Held'
  <1>1. /\ Whole /\ ServiceFrame /\ UNCHANGED <<consumer, channel>> /\ VersionsLeft(2)
        /\ \/ WriteHeadCanonical(d) \/ WriteBlobCanonical(d) \/ RefusedButObserved
           \/ ProjectionRefused \/ AbsorbedByIdentityAdvance
           \/ /\ Capability \in {"head", "repair"}
              /\ \E e \in AppendThenHead(Db, WriteCounter, WriteState, d, FALSE) :
                   EndWrite(e, d)
    BY DEF Save, SaveAuthoritativeProjection, SaveTranscriptRewrite, ServiceFrame
  <1>2. ASSUME Capability \in {"head", "repair"},
               NEW e \in AppendThenHead(Db, WriteCounter, WriteState, d, FALSE),
               EndWrite(e, d)
        PROVE  Held'
    <2>1. /\ NothingHeld
          /\ WriteState \in State
          /\ WriteCounter \in Nat /\ WriteCounter + 2 <= MaxVersion
      BY <1>1, <1>2, WriteAuthority
    <2>2. Ended(e, Db, WriteCounter, d)
      BY <2>1, AppendThenHeadEnds DEF Inv
    <2> QED
      BY <1>1, <1>2, <2>1, <2>2, EndWriteHolds
  <1>3. RefusedButObserved \/ ProjectionRefused => Held'
    BY <1>1, ObservedHolds DEF RefusedButObserved, ProjectionRefused, durable
  <1>4. AbsorbedByIdentityAdvance => Held'
    BY <1>1 DEF AbsorbedByIdentityAdvance, Held, Delta, Whole, NothingHeld, durable
  <1> QED
    BY <1>1, <1>2, <1>3, <1>4, WriteHeadCanonicalHolds, WriteBlobCanonicalHolds

(* The bytes leave memory only when the store acknowledged them.           *)
LEMMA RegisterHolds ==
  ASSUME Inv, Held, NEW state \in State, RegisterSession(state)
  PROVE  Held'
  <1>1. VersionsLeft(3) /\ UNCHANGED <<consumer, channel, live>>
    BY DEF RegisterSession
  <1>2. PICK e1 \in PendingFlush(Db, Larger(counter, resolved), state) :
          \E e2 \in (IF e1.ack THEN ParkedFlush(e1.db, e1.counter, state) ELSE {e1}) :
            /\ store' = e2.db.store
            /\ pending' = PendingAfter(e1)
            /\ parked' = ParkedAfter(e2)
            /\ lifecycle' = LifecycleAfter(e1, e2)
    BY DEF RegisterSession
  <1>3. PICK e2 \in (IF e1.ack THEN ParkedFlush(e1.db, e1.counter, state) ELSE {e1}) :
            /\ store' = e2.db.store
            /\ pending' = PendingAfter(e1)
            /\ parked' = ParkedAfter(e2)
            /\ lifecycle' = LifecycleAfter(e1, e2)
    BY <1>2
  <1>4. /\ Ended(e1, Db, Larger(counter, resolved),
                 IF pending = None THEN store.doc ELSE pending)
        /\ e1.ack =>
             Ended(e2, e1.db, e1.counter,
                   IF parked.head = None THEN e1.db.store.doc ELSE parked.head)
        /\ ~e1.ack => e2 = e1
        /\ pending = None => e1.ack
        /\ e2.ack => e1.ack
    BY <1>1, RegistrationEnds
  <1>5. /\ consumer' # "mixed" /\ (Delta' <=> Delta) /\ (Whole' <=> Whole)
        /\ Delta \/ parked = NothingParked
        /\ Whole \/ pending = None
    BY <1>1 DEF Held, Delta, Whole
  <1>6. pending = None \/ parked = NothingParked
    BY <1>5, HeldFacts
  <1>7. pending' \in {pending, None} /\ parked' \in {parked, NothingParked}
          /\ NothingParked.head = None
    BY <1>3 DEF PendingAfter, ParkedAfter, NothingParked
  <1>8. CASE ~e1.ack
    <2>1. pending # None /\ parked = NothingParked /\ pending' = pending
            /\ parked' = NothingParked /\ lifecycle' = lifecycle
      BY <1>3, <1>4, <1>6, <1>8 DEF PendingAfter, ParkedAfter, LifecycleAfter
    <2>2. lifecycle = "creation"
      BY <2>1, HeldFacts DEF NothingHeld
    <2>3. live # {} => pending \in live
      BY <2>1 DEF Held
    <2> QED
      BY <1>1, <1>5, <1>7, <2>1, <2>2, <2>3 DEF Held
  <1>9. CASE e1.ack /\ ~e2.ack
    <2>1. pending' = None /\ parked' = parked
      BY <1>3, <1>9 DEF PendingAfter, ParkedAfter
    <2>2. parked # NothingParked
      BY <1>1, <1>9, RegistrationEnds
    <2>3. pending = None /\ lifecycle = "creation" /\ lifecycle' = "creation"
      BY <1>3, <1>6, <1>9, <2>2, HeldFacts DEF NothingHeld, LifecycleAfter
    <2>4. parked.head = None => store'.doc = store.doc
      BY <1>3, <1>4, <1>9, <2>3 DEF Ended, Db
    <2> QED
      BY <1>1, <1>5, <2>1, <2>3, <2>4 DEF Held
  <1>10. CASE e2.ack
    <2>1. pending' = None /\ parked' = NothingParked /\ NothingHeld'
      BY <1>3, <1>4, <1>10 DEF PendingAfter, ParkedAfter, NothingHeld
    <2>2. /\ parked.head # None => store'.doc = parked.head
          /\ parked.head = None /\ pending # None => store'.doc = pending
          /\ parked.head = None /\ pending = None => store'.doc = store.doc
      BY <1>3, <1>4, <1>10 DEF Ended, Db
    <2>3. live # {} => store'.doc \in live
      BY <2>2 DEF Held
    <2> QED
      BY <1>1, <1>5, <1>7, <2>1, <2>3 DEF Held
  <1> QED
    BY <1>8, <1>9, <1>10

LEMMA ForgottenHolds ==
  ASSUME Held, NothingHeld', consumer' = consumer,
         live' \subseteq (IF store' = store THEN live \cap {store.doc} ELSE {})
  PROVE  Held'
  <1>1. pending' = None /\ parked' = NothingParked /\ parked'.head = None
    BY DEF NothingHeld, NothingParked
  <1>2. live' # {} => store'.doc \in live'
    OBVIOUS
  <1> QED
    BY <1>1, <1>2 DEF Held

(* Steps that forget the session, or leave what is held alone.             *)
LEMMA RuntimeHolds ==
  ASSUME Inv, Held,
         \/ SuspendSession \/ UnregisterSession \/ AbandonSupersededSession
         \/ RollbackReset \/ Restart \/ Delete
         \/ \E g \in Generations, t \in Tokens : BindRecord(g, t)
         \/ \E t \in Tokens : ResetRecord(t)
         \/ \E d \in Docs : DeleteIfCurrentRevision(d)
  PROVE  Held'
  <1>1. ASSUME UNCHANGED <<consumer, channel, pending, parked, lifecycle>>,
               live' = {} \/ (UNCHANGED <<live, store>>)
        PROVE  Held'
    BY <1>1 DEF Held, Delta, Whole, NothingHeld
  <1>2. CASE \/ SuspendSession \/ RollbackReset
             \/ \E g \in Generations, t \in Tokens : BindRecord(g, t)
             \/ \E t \in Tokens : ResetRecord(t)
    BY <1>1, <1>2 DEF SuspendSession, RollbackReset, BindRecord, ResetRecord, process, durable
  <1>3. CASE UnregisterSession \/ Restart
    BY <1>3, ForgottenHolds DEF UnregisterSession, Restart, Forget, NothingHeld, durable
  <1>4. CASE AbandonSupersededSession
    BY <1>1, <1>4, ForgottenHolds DEF AbandonSupersededSession, Forget, NothingHeld
  <1>5. CASE RemoveDocument
    BY <1>1, <1>5, ForgottenHolds DEF RemoveDocument, Forget, NothingHeld, process
  <1>6. ASSUME NEW d \in Docs, DeleteIfCurrentRevision(d)
        PROVE  Held'
    BY <1>5, <1>6, ForgottenHolds DEF DeleteIfCurrentRevision, Forget, NothingHeld, durable
  <1> QED
    BY <1>2, <1>3, <1>4, <1>5, <1>6 DEF Delete

LEMMA ParkDeltaHolds ==
  ASSUME Inv, Held, DeltaRouted, NEW p, ParkDelta(p),
         \/ p.head # None /\ live' = {p.head}
         \/ p.head = parked.head /\ live' = live
  PROVE  Held'
  <1>1. /\ Delta /\ pending = None /\ UNCHANGED <<consumer, channel>>
        /\ pending' = None /\ parked' = p /\ lifecycle' = "creation" /\ store' = store
    BY HeldFacts DEF DeltaRouted, ServiceFrame, ParkDelta, durable
  <1>2. Delta' /\ consumer' # "mixed"
    BY <1>1 DEF Held, Delta
  <1> QED
    BY <1>1, <1>2 DEF Held

LEMMA BesideHeadHolds ==
  ASSUME Inv, Held, DeltaRouted, DurableBesideHead
  PROVE  Held'
  <1>1. VersionsLeft(2) /\ UNCHANGED <<consumer, channel, pending, parked, live>>
    BY DEF DeltaRouted, ServiceFrame, DurableBesideHead
  <1>2. NothingHeld /\ NothingHeld' /\ registry \in State /\ Shaped(Db) /\ Db.store = store
    BY <1>1 DEF DurableBesideHead, Inv, TypeOK, Settled, Registered, Db, NothingHeld
  <1>3. counter \in Nat /\ counter + 1 <= MaxVersion
    BY <1>1, ConstantsAssumption DEF Inv, TypeOK, Versions, VersionsLeft
  <1>4. PICK e \in AppendOutcomes(Db, counter, registry) : store' = e.db.store
    BY DEF DurableBesideHead
  <1>5. store'.doc = store.doc
    BY <1>2, <1>3, <1>4, AppendEnds DEF Ended
  <1> QED
    BY <1>1, <1>2, <1>5 DEF Held, Delta, Whole

LEMMA DeltaHolds ==
  ASSUME Inv, Held,
         \/ \E d \in Docs : SaveHead(d)
         \/ \E n \in Lengths : AppendMessages(n)
         \/ CommitRewrite
  PROVE  Held'
  <1>1. DeltaRouted /\ VersionsLeft(2) /\ UNCHANGED <<consumer, channel>>
    BY DEF SaveHead, AppendMessages, CommitRewrite, DeltaRouted, ServiceFrame
  <1>2. ParkRefused => Held'
    BY <1>1, ObservedHolds DEF ParkRefused, durable
  <1>4. ASSUME NEW d \in Docs, SaveHead(d) PROVE Held'
    <2>1. ASSUME Registered,
                 NEW e \in HeadOutcomes(Db, counter, registry, d, store.rep = "none"),
                 EndWrite(e, d)
          PROVE  Held'
      <3>1. counter \in Nat /\ counter + 1 <= MaxVersion
        BY <1>1, ConstantsAssumption DEF Inv, TypeOK, Versions, VersionsLeft
      <3>2. NothingHeld /\ registry \in State /\ Shaped(Db)
        BY <2>1 DEF Inv, TypeOK, Settled, Registered
      <3>3. PICK create \in BOOLEAN : create = (store.rep = "none")
        OBVIOUS
      <3>4. e \in HeadOutcomes(Db, counter, registry, d, create)
        BY <3>3
      <3>5. Ended(e, Db, counter, d)
        BY <3>1, <3>2, <3>4, HeadEnds
      <3> QED
        BY <1>1, <2>1, <3>1, <3>2, <3>5, EndWriteHolds
    <2>2. ASSUME ParkDelta([parked EXCEPT !.mark = TRUE, !.head = d]), live' = {d}
          PROVE  Held'
      <3> DEFINE p == [parked EXCEPT !.mark = TRUE, !.head = d]
      <3>1. p.head = d /\ d # None
        BY ConstantsAssumption DEF Inv, TypeOK, Docs
      <3> HIDE DEF p
      <3>2. ParkDelta(p)
        BY <2>2 DEF p
      <3> QED
        BY <1>1, <2>2, <3>1, <3>2, ParkDeltaHolds
    <2> QED
      BY <1>2, <1>4, <2>1, <2>2 DEF SaveHead
  <1>5. ASSUME NEW n \in Lengths, AppendMessages(n) PROVE Held'
    <2>1. ASSUME ParkDelta([parked EXCEPT !.mark = TRUE, !.rows = n]), UNCHANGED live
          PROVE  Held'
      <3> DEFINE p == [parked EXCEPT !.mark = TRUE, !.rows = n]
      <3>1. p.head = parked.head
        BY DEF Inv, TypeOK
      <3> HIDE DEF p
      <3>2. ParkDelta(p)
        BY <2>1 DEF p
      <3> QED
        BY <1>1, <2>1, <3>1, <3>2, ParkDeltaHolds
    <2> QED
      BY <1>1, <1>2, <1>5, <2>1, BesideHeadHolds DEF AppendMessages
  <1>6. CASE CommitRewrite
    <2>1. ASSUME ParkDelta([parked EXCEPT !.rewrite = TRUE]), UNCHANGED live
          PROVE  Held'
      <3> DEFINE p == [parked EXCEPT !.rewrite = TRUE]
      <3>1. p.head = parked.head
        BY DEF Inv, TypeOK
      <3> HIDE DEF p
      <3>2. ParkDelta(p)
        BY <2>1 DEF p
      <3> QED
        BY <1>1, <2>1, <3>1, <3>2, ParkDeltaHolds
    <2> QED
      BY <1>1, <1>2, <1>6, <2>1, BesideHeadHolds DEF CommitRewrite
  <1> QED
    BY <1>4, <1>5, <1>6

LEMMA HeldInductive == Inv /\ Held /\ [Next]_vars => Held'
  <1> SUFFICES ASSUME Inv, Held, [Next]_vars PROVE Held'
    OBVIOUS
  <1>1. CASE UNCHANGED vars
    BY <1>1 DEF vars, Held, Delta, Whole, NothingHeld
  <1>2. CASE Next
    BY <1>2, RegisterHolds, WholeHolds, RuntimeHolds, DeltaHolds DEF Next
  <1> QED
    BY <1>1, <1>2

THEOREM OneKindHolds ==
  ASSUME "mixed" \notin Consumers
  PROVE  Spec => []Held
  <1>1. Init => Held
    BY DEF Init, Held, NothingHeld, NothingParked
  <1> QED
    BY <1>1, HeldInductive, Invariance, PTL DEF Spec

(* With one kind of verbs per process, an acknowledged write is durable or *)
(* still in memory until its session is deleted, abandoned or unregistered *)
(* or the process ends; a projection the adapter absorbs because the       *)
(* identity's record has moved on never displaces one acknowledged before. *)
THEOREM AcknowledgedHeld ==
  ASSUME "mixed" \notin Consumers
  PROVE  Spec => []AcknowledgedWriteHeld
  <1>1. Held => AcknowledgedWriteHeld
    BY DEF Held, AcknowledgedWriteHeld
  <1> QED
    BY <1>1, OneKindHolds, PTL

(* Under the same condition, rows parked without their head can always be  *)
(* completed: nothing closes the creation window over them.                *)
THEOREM RowsCompletable ==
  ASSUME "mixed" \notin Consumers
  PROVE  Spec => []ParkedRowsCompletable
  <1>1. Inv /\ Held => ParkedRowsCompletable
    <2> SUFFICES ASSUME Inv, Held, parked.rows > 0 PROVE Lifecycle = "creation"
      BY DEF ParkedRowsCompletable
    <2>1. parked # NothingParked
      BY DEF NothingParked
    <2> QED
      BY <2>1 DEF Held, NothingHeld, Lifecycle
  <1> QED
    BY <1>1, OneKindHolds, Invariance, PTL
=============================================================================
