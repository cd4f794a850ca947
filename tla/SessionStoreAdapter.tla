------------------------ MODULE SessionStoreAdapter ------------------------
(***************************************************************************)
(* ContinuitySessionStoreAdapter of identity_first/adapters.rs, seen from  *)
(* one session: the layer between the session service, which saves         *)
(* documents, and the continuity store, which only accepts a write under   *)
(* an identity's generation, fencing token and checkpoint version.         *)
(*                                                                         *)
(* Every verb holds the session's lock from entry to return, so a verb is  *)
(* one action; the store transactions inside it are separate, each may be  *)
(* refused, fail, or be applied while its acknowledgement is lost, and a   *)
(* verb stops at the first one that does not answer Ok.  The operators     *)
(* that end in Outcomes are the sets of possible ends of such a sequence.  *)
(*                                                                         *)
(* A document is the length of its transcript: it extends another exactly  *)
(* when it is at least as long.  Module ContinuityStore models the store   *)
(* itself; here it is one row and the continuity record that fences it.    *)
(***************************************************************************)
EXTENDS Integers, FiniteSets

CONSTANTS
  MaxLength,      \* bound on the length of a transcript
  MaxGeneration,  \* bound on ContinuityGeneration
  MaxToken,       \* bound on FencingToken
  MaxVersion,     \* bound on CheckpointVersion
  Consumers,      \* which verbs the process drives: "whole", "delta", "mixed"
  None            \* the absent document, registration or record

VARIABLES
  consumer,   \* the member of Consumers this process is
  channel,    \* incremental: the store advertises the delta channel
  registry,   \* session_registry
  counter,    \* versions; an absent counter is 0
  pending,    \* pending_unregistered
  parked,     \* parked_deltas: routing mark, rows, adopting head, rewrite
  marks,      \* unregistered_, suspended_ and superseded_sessions
  lifecycle,  \* session_lifecycle; "unknown" is the absent entry
  store,      \* the durable row: representation, document, owner generation
  record,     \* the identity's continuity record
  resolved,   \* the checkpoint version the identity runtime last learned
  live,       \* history: acknowledged document, and unacknowledged later ones
  removed,    \* history: the document was removed and not written since
  dropped     \* history: a delete dropped the allocator of a live owner

process == <<registry, counter, pending, parked, marks, lifecycle>>
durable == <<store, record>>
vars == <<consumer, channel, registry, counter, pending, parked, marks,
          lifecycle, store, record, resolved, live, removed, dropped>>

Lengths == 0..MaxLength
Docs == 1..MaxLength
Generations == 0..MaxGeneration
Tokens == 1..MaxToken
Versions == 0..MaxVersion
State == [generation : Generations, token : Tokens]
Records == [bound : BOOLEAN, generation : Generations, token : Tokens,
            version : Versions]
NothingParked == [mark |-> FALSE, rows |-> 0, head |-> None, rewrite |-> FALSE]
NoDocument == [rep |-> "none", doc |-> None, generation |-> 0]

ASSUME ConstantsAssumption ==
  /\ {MaxLength, MaxGeneration, MaxToken, MaxVersion} \subseteq Nat
  /\ Consumers \subseteq {"whole", "delta", "mixed"}
  /\ None \notin Nat
  /\ None \notin State \cup Records

-----------------------------------------------------------------------------
(* The continuity store as its client sees it. *)

\* The pair of tables a transaction works on.
Db == [store |-> store, record |-> record]

\* enforce_continuity_cursor and the row owner check, for version v.
Admits(db, state, v) ==
  /\ db.record # None =>
       /\ db.record.bound
       /\ db.record.generation = state.generation
       /\ state.token >= db.record.token
       /\ v > db.record.version
  /\ db.store.rep # "none" => db.store.generation = state.generation

Advanced(rec, state, v) ==
  IF rec = None THEN None
  ELSE [rec EXCEPT !.version = v, !.token = state.token]

\* Strand rows alone: a blob is migrated, nothing readable changes.
AfterAppend(db, state, v) ==
  [store |-> IF db.store.rep = "blob" THEN [db.store EXCEPT !.rep = "head"]
             ELSE db.store,
   record |-> Advanced(db.record, state, v)]

AfterHead(db, state, v, d) ==
  [store |-> [rep |-> "head", doc |-> d, generation |-> state.generation],
   record |-> Advanced(db.record, state, v)]

\* The whole-document verb writes the head when there is one.
AfterSnapshot(db, state, v, d) ==
  [store |-> [rep |-> IF db.store.rep = "head" THEN "head" ELSE "blob",
              doc |-> d, generation |-> state.generation],
   record |-> Advanced(db.record, state, v)]

-----------------------------------------------------------------------------
(* Sequences of store writes.  An end is the tables, the version counter and *)
(* whether every write was acknowledged.                                     *)

End(db, c, ack) == [db |-> db, counter |-> c, ack |-> ack]

\* One transaction under the next version: fails, or is applied, with or
\* without its acknowledgement.
WriteOutcomes(db, c, after, admitted) ==
  {End(db, c + 1, FALSE)}
    \cup (IF admitted THEN {End(after, c + 1, FALSE), End(after, c + 1, TRUE)} ELSE {})

SnapshotOutcomes(db, c, state, d) ==
  WriteOutcomes(db, c, AfterSnapshot(db, state, c + 1, d), Admits(db, state, c + 1))

AppendOutcomes(db, c, state) ==
  WriteOutcomes(db, c, AfterAppend(db, state, c + 1), Admits(db, state, c + 1))

\* save_head; create is SessionHeadCas::Create, which needs that no head row
\* and no migratable blob exists.
HeadOutcomes(db, c, state, d, create) ==
  WriteOutcomes(db, c, AfterHead(db, state, c + 1, d),
                Admits(db, state, c + 1) /\ (create => db.store.rep = "none"))

\* append_messages, then save_head only if the append was acknowledged.
AppendThenHead(db, c, state, d, create) ==
  LET first == AppendOutcomes(db, c, state)
  IN  {e \in first : ~e.ack}
        \cup UNION {HeadOutcomes(e.db, e.counter, state, d, create) :
                      e \in {x \in first : x.ack}}

-----------------------------------------------------------------------------
(* Admission. *)

Registered == registry # None
Superseded == "superseded" \in marks

\* ensure_session_mutation_allowed.
MutationAllowed == marks \cap {"unregistered", "suspended"} = {}

\* resolve_session_lifecycle: the recorded state, or the probe's verdict.
Lifecycle ==
  IF lifecycle # "unknown" THEN lifecycle
  ELSE IF store.rep # "none" THEN "durable" ELSE "creation"

\* A parked member's torn head may be repaired through the projection doors.
ProjectionRepairAllowed ==
  /\ "suspended" \notin marks
  /\ "unregistered" \in marks => Lifecycle = "durable"

\* What forget_session drops; lifecycle and the other marks stay.
Forget(newMarks) ==
  /\ registry' = None
  /\ counter' = 0
  /\ pending' = None
  /\ parked' = NothingParked
  /\ marks' = newMarks \ {"suspended"}

\* Mutant of MarkRemoved: a removal leaves no trace.
MarkRemovedForgotten == lifecycle' = "unknown"

MarkRemoved == lifecycle' = "removed"

\* A verb of the session service ends with end e of writing d.
EndWrite(e, d) ==
  /\ store' = e.db.store
  /\ record' = e.db.record
  /\ counter' = e.counter
  /\ lifecycle' = IF e.ack THEN "durable" ELSE lifecycle
  /\ live' = IF e.ack THEN {d} ELSE IF live = {} THEN {} ELSE live \cup {d}
  /\ removed' = (removed /\ e.db.store.rep = "none")
  /\ UNCHANGED <<registry, pending, parked, marks>>

\* The write is held in memory until the owner is registered.
ParkBytes(d) ==
  /\ Lifecycle = "creation"
  /\ pending' = d
  /\ lifecycle' = "creation"
  /\ live' = {d}
  /\ UNCHANGED <<registry, counter, parked, marks, durable, removed>>

RecordVersion == IF record = None THEN 0 ELSE record.version

\* Bound: room for the versions a verb may mint.
VersionsLeft(n) ==
  \A v \in {counter, RecordVersion, resolved} : v + n <= MaxVersion

Whole == consumer \in {"whole", "mixed"}
Delta == channel /\ consumer \in {"delta", "mixed"}

-----------------------------------------------------------------------------
(* register_session and the other verbs of the identity runtime. *)

\* Mutant of Larger: fetch_add in place of fetch_max.
LargerAsSum(a, b) == a + b

\* fetch_max of the version counter.
Larger(a, b) == IF a >= b THEN a ELSE b

\* Mutant of FailedCounter: a refused registration rewinds the allocator.
FailedCounterRewound(before, e) == before

\* The counter a refused registration leaves: never rewound, the store may
\* have committed the attempted version and lost only the acknowledgement.
FailedCounter(before, e) == e.counter

PendingFlush(db, c, state) ==
  IF pending = None THEN {End(db, c, TRUE)} ELSE SnapshotOutcomes(db, c, state, pending)

\* flush_parked_deltas after the pending bytes left tables db and counter c.
ParkedFlush(db, c, state) ==
  IF parked.head = None /\ parked.rows = 0 THEN {End(db, c, TRUE)}
  ELSE IF parked.head = None \/ parked.rewrite THEN {End(db, c, FALSE)}
  ELSE IF db.store.rep = "head" THEN SnapshotOutcomes(db, c, state, parked.head)
  ELSE AppendThenHead(db, c, state, parked.head, TRUE)

\* Mutant of PendingAfter: the bytes are taken out before they are flushed.
PendingAfterTaken(e1) == None

PendingAfter(e1) == IF e1.ack THEN None ELSE pending

\* The purge is in the success arms only.
ParkedAfter(e2) == IF e2.ack THEN NothingParked ELSE parked

\* Mutant of LifecycleAfter: a flush with nothing to write marks the session.
LifecycleAfterAnyFlush(e1, e2) == IF e1.ack THEN "durable" ELSE lifecycle

\* mark_session_durably_written, for the flushes that wrote something.
LifecycleAfter(e1, e2) ==
  IF (e1.ack /\ pending # None) \/ (e2.ack /\ parked.head # None)
  THEN "durable" ELSE lifecycle

RegisterSession(state) ==
  /\ Registered => /\ registry.generation = state.generation
                   /\ state.token >= registry.token
  /\ VersionsLeft(3)
  /\ \E e1 \in PendingFlush(Db, Larger(counter, resolved), state) :
       \E e2 \in (IF e1.ack THEN ParkedFlush(e1.db, e1.counter, state) ELSE {e1}) :
         /\ store' = e2.db.store
         /\ record' = e2.db.record
         /\ pending' = PendingAfter(e1)
         /\ parked' = ParkedAfter(e2)
         /\ lifecycle' = LifecycleAfter(e1, e2)
         /\ removed' = (removed /\ e2.db.store.rep = "none")
         /\ \/ /\ e2.ack
               /\ registry' = state
               /\ counter' = e2.counter
               /\ marks' = {}
               /\ resolved' = e2.counter
            \/ /\ ~e2.ack
               /\ counter' = FailedCounter(counter, e2)
               /\ UNCHANGED <<registry, marks, resolved>>
  /\ UNCHANGED <<consumer, channel, live, dropped>>

SuspendSession ==
  /\ marks' = marks \cup {"suspended"}
  /\ UNCHANGED <<consumer, channel, registry, counter, pending, parked,
                 lifecycle, durable, resolved, live, removed, dropped>>

\* Permanent: what was parked is abandoned with the session.  A later
\* registration starts from a freshly resolved record.
UnregisterSession ==
  /\ Forget((marks \ {"superseded"}) \cup {"unregistered"})
  /\ live' = live \cap {store.doc}
  /\ resolved' = RecordVersion
  /\ dropped' = FALSE
  /\ UNCHANGED <<consumer, channel, lifecycle, durable, removed>>

\* Called by reset once the replacement generation has committed.  The read or
\* the delete may fail, or the delete be applied and not acknowledged; the
\* session then stays suspended for the retry.
AbandonSupersededSession ==
  /\ record # None => ~record.bound
  /\ \/ /\ store' = NoDocument
        /\ Forget(marks \cup {"superseded"})
        /\ MarkRemoved
        /\ live' = {}
        /\ removed' = TRUE
     \/ /\ store' \in {store, NoDocument}
        /\ marks' = marks \cup {"suspended"}
        /\ live' = {}
        /\ UNCHANGED <<registry, counter, pending, parked, lifecycle, removed>>
  /\ UNCHANGED <<consumer, channel, record, resolved, dropped>>

-----------------------------------------------------------------------------
(* The whole-document verbs of the session service. *)

\* resolve_persistence_capability.
Capability ==
  IF ~channel THEN "blob"
  ELSE IF parked.mark THEN (IF store.rep = "head" THEN "refuse" ELSE "blob")
  ELSE IF Registered THEN (IF store.rep = "none" THEN "birth" ELSE "head")
  ELSE IF store.rep # "head" THEN "blob"
  ELSE IF "unregistered" \in marks /\ record # None /\ record.bound THEN "repair"
  ELSE "refuse"

\* Parked repair writes under the durable record's own authority.
WriteState == IF Registered THEN registry
              ELSE [generation |-> record.generation, token |-> record.token]
WriteCounter == IF Capability = "repair" THEN Larger(counter, record.version)
                ELSE counter

FenceCurrent(state) ==
  /\ record # None
  /\ record.bound
  /\ record.generation = state.generation
  /\ record.token = state.token

\* write_head_canonical_document: nothing for an exact resave, otherwise the
\* appended or rebased rows and the adopting head.
HeadDocumentOutcomes(state, c, d) ==
  IF d # store.doc THEN AppendThenHead(Db, c, state, d, FALSE)
  ELSE IF store.rep = "head" /\ FenceCurrent(state) THEN {End(Db, c, TRUE)}
  ELSE HeadOutcomes(Db, c, state, d, FALSE)

\* The document lands on the delta channel.
WriteHeadCanonical(d) ==
  \/ /\ Capability \in {"head", "repair"}
     /\ \E e \in HeadDocumentOutcomes(WriteState, WriteCounter, d) : EndWrite(e, d)
  \/ /\ Capability = "birth"
     /\ \E e \in AppendThenHead(Db, counter, registry, d, TRUE) : EndWrite(e, d)

\* The document is the unit of persistence: written, or parked before the
\* registration.
WriteBlobCanonical(d) ==
  /\ Capability = "blob"
  /\ \/ /\ Registered
        /\ \E e \in SnapshotOutcomes(Db, counter, registry, d) : EndWrite(e, d)
     \/ /\ ~Registered
        /\ ParkBytes(d)

\* A refusal that nevertheless records what the substrate showed: the head row
\* just read, or the probe of the parking guard.
RefusedButObserved ==
  /\ \/ Capability = "refuse" /\ ~parked.mark
     \/ Capability = "blob" /\ ~Registered /\ Lifecycle # "creation"
  /\ lifecycle' = Lifecycle
  /\ UNCHANGED <<registry, counter, pending, parked, marks, durable, live, removed>>

\* What a plain save is compared with: the durable document, else the parked.
Previous == IF store.rep # "none" THEN store.doc ELSE pending

ServiceFrame == VersionsLeft(2) /\ UNCHANGED <<consumer, channel, resolved, dropped>>

Save(d) ==
  /\ Whole /\ ServiceFrame
  /\ ~Superseded
  /\ MutationAllowed
  /\ \/ /\ Previous # None => d >= Previous
        /\ WriteHeadCanonical(d) \/ WriteBlobCanonical(d)
     \/ RefusedButObserved

\* absorb_projection_superseded_by_identity_advance: the store refused the write
\* because the identity's record names a newer generation or another session.
\* The write is acknowledged and dropped, and no mark is left behind: should the
\* reset be rolled back, the session goes on without that write.  The record
\* is taken to have advanced before the write, so nothing of it was applied.
AbsorbedByIdentityAdvance ==
  /\ Registered
  /\ record # None
  /\ ~record.bound \/ record.generation > registry.generation
  /\ counter' \in {counter, counter + 1}
  /\ UNCHANGED <<registry, pending, parked, marks, lifecycle, durable, live, removed>>

\* An unregistered session's repair is refused for an archived document, or for
\* none; the probe's verdict is recorded.
ProjectionRefused ==
  /\ "unregistered" \in marks
  /\ "suspended" \notin marks
  /\ lifecycle' = Lifecycle
  /\ UNCHANGED <<registry, counter, pending, parked, marks, durable, live, removed>>

\* The caller's document is the truth: no append-only guard.  The variant with
\* an expected revision only adds a guard, and surfaces what this one absorbs.
SaveAuthoritativeProjection(d) ==
  /\ Whole /\ ServiceFrame
  /\ ~Superseded
  /\ \/ /\ ProjectionRepairAllowed
        /\ \/ WriteHeadCanonical(d)
           \/ WriteBlobCanonical(d)
           \/ RefusedButObserved
           \/ AbsorbedByIdentityAdvance
     \/ ProjectionRefused

\* commit_rewrite and the adopting head on a head-canonical session, a
\* whole-document write over an existing document otherwise.
SaveTranscriptRewrite(d) ==
  /\ Whole /\ ServiceFrame
  /\ ~Superseded
  /\ \/ /\ ProjectionRepairAllowed
        /\ \/ /\ Capability \in {"head", "repair"}
              /\ \E e \in AppendThenHead(Db, WriteCounter, WriteState, d, FALSE) :
                   EndWrite(e, d)
           \/ /\ Previous # None
              /\ WriteBlobCanonical(d)
           \/ RefusedButObserved
     \/ ProjectionRefused

\* The durable document goes with everything the process knows about it, or
\* the delete fails, applied or not.
RemoveDocument ==
  \/ /\ store' = NoDocument
     /\ Forget(marks)
     /\ MarkRemoved
     /\ live' = {}
     /\ removed' = TRUE
     /\ dropped' = TRUE
     /\ UNCHANGED <<record, consumer, channel, resolved>>
  \/ /\ store.rep # "none"
     /\ store' = NoDocument
     /\ live' = {}
     /\ UNCHANGED <<process, record, consumer, channel, resolved, removed, dropped>>

Delete ==
  /\ ~Superseded
  /\ MutationAllowed
  /\ RemoveDocument

DeleteIfCurrentRevision(d) ==
  /\ ~Superseded
  /\ MutationAllowed
  /\ \/ /\ store.rep = "none"
        /\ Forget(marks)
        /\ live' = {}
        /\ dropped' = TRUE
        /\ UNCHANGED <<durable, lifecycle, removed, consumer, channel, resolved>>
     \/ /\ store.doc = d
        /\ RemoveDocument

-----------------------------------------------------------------------------
(* The delta verbs (ContinuityIncrementalSessionStore). *)

\* The lifecycle gate of route_delta_write.
DeltaRouted == Delta /\ ServiceFrame /\ ~Superseded /\ MutationAllowed

ParkDelta(newParked) ==
  /\ ~Registered
  /\ Lifecycle = "creation"
  /\ parked' = newParked
  /\ lifecycle' = "creation"
  /\ UNCHANGED <<registry, counter, pending, marks, durable, removed>>

ParkRefused ==
  /\ ~Registered
  /\ Lifecycle # "creation"
  /\ lifecycle' = Lifecycle
  /\ UNCHANGED <<registry, counter, pending, parked, marks, durable, live, removed>>

\* Rows or a rewrite record beside the head: the readable document stays.
DurableBesideHead ==
  /\ Registered
  /\ \E e \in AppendOutcomes(Db, counter, registry) :
       /\ store' = e.db.store
       /\ record' = e.db.record
       /\ counter' = e.counter
       /\ lifecycle' = IF e.ack THEN "durable" ELSE lifecycle
  /\ UNCHANGED <<registry, pending, parked, marks, live, removed>>

\* Rows up to length n; an empty append only seeds the routing mark.
AppendMessages(n) ==
  /\ DeltaRouted
  /\ \/ DurableBesideHead
     \/ /\ n >= parked.rows
        /\ ParkDelta([parked EXCEPT !.mark = TRUE, !.rows = n])
        /\ UNCHANGED live
     \/ ParkRefused

CommitRewrite ==
  /\ DeltaRouted
  /\ \/ store.rep # "none" /\ DurableBesideHead
     \/ /\ parked.head # None
        /\ ParkDelta([parked EXCEPT !.rewrite = TRUE])
        /\ UNCHANGED live
     \/ ParkRefused

\* The rows a head adopts are in place; the caller's compare-and-set is exact.
SaveHead(d) ==
  /\ DeltaRouted
  /\ \/ /\ Registered
        /\ \E e \in HeadOutcomes(Db, counter, registry, d, store.rep = "none") :
             EndWrite(e, d)
     \/ /\ d <= parked.rows
        /\ ParkDelta([parked EXCEPT !.mark = TRUE, !.head = d])
        /\ live' = {d}
     \/ ParkRefused

-----------------------------------------------------------------------------
(* The identity runtime's record verbs and the end of the process. *)

\* The record of a new or rebound identity, or the advance of its fence.
BindRecord(g, t) ==
  /\ record # None => g = record.generation /\ record.bound /\ t >= record.token
  /\ record' = [bound |-> TRUE, generation |-> g, token |-> t,
                version |-> RecordVersion]
  /\ UNCHANGED <<consumer, channel, process, store, resolved, live, removed, dropped>>

\* A reset commits a newer generation on another session, or is rolled back.
ResetRecord(t) ==
  /\ record # None
  /\ record.bound
  /\ record.generation < MaxGeneration
  /\ t >= record.token
  /\ record' = [bound |-> FALSE, generation |-> record.generation + 1,
                token |-> t, version |-> 0]
  /\ UNCHANGED <<consumer, channel, process, store, resolved, live, removed, dropped>>

RollbackReset ==
  /\ record # None
  /\ ~record.bound
  /\ record' = [bound |-> TRUE, generation |-> record.generation - 1,
                token |-> record.token, version |-> resolved]
  /\ UNCHANGED <<consumer, channel, process, store, resolved, live, removed, dropped>>

\* Parked writes are process memory and die with it.
Restart ==
  /\ registry' = None
  /\ counter' = 0
  /\ pending' = None
  /\ parked' = NothingParked
  /\ marks' = {}
  /\ lifecycle' = "unknown"
  /\ resolved' = RecordVersion
  /\ live' = live \cap {store.doc}
  /\ removed' = FALSE
  /\ dropped' = FALSE
  /\ UNCHANGED <<consumer, channel, durable>>

Init ==
  /\ consumer \in Consumers
  /\ channel \in BOOLEAN
  /\ registry = None
  /\ counter = 0
  /\ pending = None
  /\ parked = NothingParked
  /\ marks = {}
  /\ lifecycle = "unknown"
  /\ store = NoDocument
  /\ record = None
  /\ resolved = 0
  /\ live = {}
  /\ removed = FALSE
  /\ dropped = FALSE

Next ==
  \/ \E state \in State : RegisterSession(state)
  \/ SuspendSession
  \/ UnregisterSession
  \/ AbandonSupersededSession
  \/ \E d \in Docs : \/ Save(d)
                     \/ SaveAuthoritativeProjection(d)
                     \/ SaveTranscriptRewrite(d)
                     \/ DeleteIfCurrentRevision(d)
                     \/ SaveHead(d)
  \/ Delete
  \/ \E n \in Lengths : AppendMessages(n)
  \/ CommitRewrite
  \/ \E g \in Generations, t \in Tokens : BindRecord(g, t)
  \/ \E t \in Tokens : ResetRecord(t)
  \/ RollbackReset
  \/ Restart

Spec == Init /\ [][Next]_vars

-----------------------------------------------------------------------------
(* Properties. *)

TypeOK ==
  /\ consumer \in Consumers
  /\ channel \in BOOLEAN
  /\ registry \in State \cup {None}
  /\ counter \in Versions
  /\ pending \in Docs \cup {None}
  /\ parked \in [mark : BOOLEAN, rows : Lengths, head : Docs \cup {None},
                 rewrite : BOOLEAN]
  /\ marks \subseteq {"unregistered", "suspended", "superseded"}
  /\ lifecycle \in {"unknown", "creation", "durable", "removed"}
  /\ store \in [rep : {"none", "blob", "head"}, doc : Docs \cup {None},
                generation : Generations]
  /\ record \in Records \cup {None}
  /\ resolved \in Versions
  /\ live \subseteq Docs
  /\ removed \in BOOLEAN
  /\ dropped \in BOOLEAN

\* A write the adapter acknowledged is durable or still held in memory, until
\* the session is deleted, abandoned or unregistered or the process ends: a
\* parked write is flushed or its registration refused, never dropped.  The one
\* kind of write it acknowledges without keeping is the projection absorbed
\* because the identity's record had moved on; that write never displaces one
\* acknowledged before it.
AcknowledgedWriteHeld ==
  live # {} => {store.doc, pending, parked.head} \cap live # {}

\* Rows parked without their head can still be completed: the adopting head
\* write is admitted, so a refused registration can be retried.
ParkedRowsCompletable ==
  parked.rows > 0 /\ parked.head = None /\ marks = {} =>
    Lifecycle = "creation"

\* Parked state exists only before the registration.
RegisteredHoldsNothingParked ==
  Registered => pending = None /\ ~parked.mark

\* A session observed as superseded has no durable document left, so that an
\* acknowledged terminal write strands nothing.
SupersededHasNoDocument == Superseded => store.rep = "none"

\* The next version minted for the session, by a save of the registered owner
\* or by the retry of a refused registration, is newer than the one its record
\* holds, whatever acknowledgements were lost: the owner is never refused as
\* stale because of its own earlier write.  (After a delete dropped the
\* allocator, the owner may register under the version it last learned, which
\* can lag.)
NextVersionIsFresh ==
  record # None /\ record.bound /\ ~dropped =>
    record.version <= IF Registered THEN counter ELSE Larger(counter, resolved)

\* A removed document comes back only through a session that was registered
\* after the removal: never through a parked late write that the next
\* registration flushes.
NoResurrection ==
  [][removed /\ store'.rep # "none" => Registered]_vars

\* Between suspend_session and the next registration no save changes the
\* durable document; only abandonment may remove it.
SuspendedIsQuiescent ==
  [][Registered /\ "suspended" \in marks /\ "suspended" \in marks' =>
       store'.rep = "none" \/ store' = store]_vars

\* The adapter's picture of a session agrees with the store: nothing is parked
\* beside a registration, a superseded session left no document behind, and the
\* next version is one the record has not seen.
AgreesWithStore ==
  /\ RegisteredHoldsNothingParked
  /\ SupersededHasNoDocument
  /\ NextVersionIsFresh

\* A write that comes too late changes nothing: neither after the removal of
\* its session nor while the runtime has it suspended to move the fence.
LateWritesChangeNothing == NoResurrection /\ SuspendedIsQuiescent
=============================================================================
