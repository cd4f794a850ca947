--------------------------- MODULE EventLogProofs ---------------------------
(***************************************************************************)
(* Proofs about the operational event log.  The invariant relates all the  *)
(* rows the flush loop made, waiting or stored, and not only the stored    *)
(* ones: a row still waiting for a store that failed is newer than every   *)
(* stored row, unless the failed append had written it.  Copies are told    *)
(* apart, so that a row sent twice is seen to be stored twice.              *)
(***************************************************************************)
EXTENDS EventLog, FiniteSetTheorems, TLAPS

(* Rows the loop holds for the store, and all rows it made and kept.       *)
Waiting == ToSet(flight) \cup ToSet(batch)
Known == StoredRows \cup Waiting

MostHeld == IF RetryCap < BatchSize THEN BatchSize ELSE RetryCap + 1

(* A flush takes the whole batch, and nothing is received while it is      *)
(* awaited; between flushes there is room for one more row.                *)
Phases ==
  /\ loop \in {"select", "exited"} => flight = <<>> /\ Len(batch) < MostHeld
  /\ loop \in {"flushing", "final"} => batch = <<>> /\ Len(flight) <= MostHeld

(* The channel holds the newest events, oldest first.                      *)
ChannelNewest ==
  /\ \A i \in 1 .. Len(channel) : channel[i] <= produced
  /\ \A i, j \in 1 .. Len(channel) : i < j => channel[i] < channel[j]
  /\ \A r \in Known : r.id <= produced /\ \A i \in 1 .. Len(channel) : r.id < channel[i]
  /\ seq + Len(channel) <= produced + 1

(* Identities and sequence numbers agree on all rows, not only the stored. *)
RowsInOrder ==
  /\ \A r, s \in Known : r.id < s.id <=> r.seq < s.seq
  /\ \A r \in Known : r.seq < seq

(* A row that is waiting and not stored is newer than every stored row:    *)
(* appends take all that waits, and dropped rows do not come back.         *)
WaitingNewest == \A r \in Waiting \ StoredRows : \A s \in StoredRows : s.seq < r.seq

CursorStored == cursor = 0 \/ \E r \in StoredRows : cursor = r.seq

(* What waits is in the order of its numbers, so no batch holds a row      *)
(* twice, and a row waits although it is stored only after an append that  *)
(* wrote it and failed.                                                    *)
Increasing(rows) ==
  \A i, j \in 1 .. Len(rows) : i < j => rows[i].seq < rows[j].seq

SentOnce ==
  /\ Increasing(batch) /\ Increasing(flight)
  /\ Waiting \cap StoredRows \subseteq unacknowledged

Inv ==
  /\ TypeOK /\ NothingLostSilently /\ CursorMissesNothing
  /\ Phases /\ ChannelNewest /\ RowsInOrder /\ WaitingNewest /\ CursorStored
  /\ StoredOnce /\ SentOnce
  /\ IsFiniteSet(stored)
  /\ admitted \cap Skipped = {}

-----------------------------------------------------------------------------
(* Sequences as sets of their elements.                                    *)

LEMMA Members ==
  ASSUME NEW S, NEW s \in Seq(S)
  PROVE  /\ Len(s) \in Nat
         /\ \A i \in 1 .. Len(s) : s[i] \in S /\ s[i] \in ToSet(s)
         /\ \A x \in ToSet(s) : \E i \in 1 .. Len(s) : x = s[i]
         /\ ToSet(s) \subseteq S
  BY DEF ToSet

LEMMA ToSetAppend ==
  ASSUME NEW S, NEW s \in Seq(S), NEW x \in S
  PROVE  /\ Append(s, x) \in Seq(S) /\ Len(Append(s, x)) = Len(s) + 1
         /\ ToSet(Append(s, x)) = ToSet(s) \cup {x}
         /\ \A i \in 1 .. Len(s) : Append(s, x)[i] = s[i]
         /\ Append(s, x)[Len(s) + 1] = x
  <1>1. /\ Append(s, x) \in Seq(S) /\ Len(Append(s, x)) = Len(s) + 1 /\ Len(s) \in Nat
        /\ \A i \in 1 .. Len(s) : Append(s, x)[i] = s[i]
        /\ Append(s, x)[Len(s) + 1] = x
    OBVIOUS
  <1> DEFINE a == Append(s, x)
  <1> HIDE DEF a
  <1>2. ASSUME NEW y \in ToSet(s) PROVE y \in ToSet(a)
    <2>1. PICK i \in 1 .. Len(s) : y = s[i]
      BY Members
    <2>2. i \in 1 .. Len(a) /\ a[i] = y
      BY <1>1, <2>1 DEF a
    <2> QED
      BY <1>1, <2>2, Members DEF a
  <1>3. x \in ToSet(a)
    <2>1. Len(s) + 1 \in 1 .. Len(a) /\ a[Len(s) + 1] = x /\ a \in Seq(S)
      BY <1>1 DEF a
    <2> QED
      BY <2>1, Members
  <1>4. ASSUME NEW y \in ToSet(a) PROVE y \in ToSet(s) \cup {x}
    <2>1. a \in Seq(S)
      BY <1>1 DEF a
    <2>2. PICK i \in 1 .. Len(a) : y = a[i]
      BY <2>1, Members
    <2>3. i \in 1 .. Len(s) \/ i = Len(s) + 1
      BY <1>1 DEF a
    <2> QED
      BY <1>1, <2>2, <2>3, Members DEF a
  <1> QED
    BY <1>1, <1>2, <1>3, <1>4 DEF a

LEMMA ToSetTail ==
  ASSUME NEW S, NEW s \in Seq(S), s # <<>>
  PROVE  /\ Head(s) \in S /\ Tail(s) \in Seq(S) /\ Len(Tail(s)) = Len(s) - 1
         /\ Len(s) > 0 /\ Head(s) \in ToSet(s)
         /\ ToSet(s) = {Head(s)} \cup ToSet(Tail(s))
         /\ \A i \in 1 .. Len(Tail(s)) : Tail(s)[i] = s[i + 1]
  <1>1. /\ Len(s) > 0 /\ Head(s) \in S /\ Tail(s) \in Seq(S) /\ Len(Tail(s)) = Len(s) - 1
        /\ \A i \in 1 .. Len(Tail(s)) : Tail(s)[i] = s[i + 1]
        /\ Head(s) = s[1] /\ Len(s) \in Nat
    OBVIOUS
  <1> DEFINE t == Tail(s)
  <1>2. t \in Seq(S) /\ Len(t) = Len(s) - 1 /\ \A i \in 1 .. Len(t) : t[i] = s[i + 1]
    BY <1>1
  <1> HIDE DEF t
  <1>3. ASSUME NEW y \in ToSet(s) PROVE y = Head(s) \/ y \in ToSet(t)
    <2>1. PICK i \in 1 .. Len(s) : y = s[i]
      BY Members
    <2>2. CASE i = 1
      BY <1>1, <2>1, <2>2
    <2>3. CASE i # 1
      <3>1. i - 1 \in 1 .. Len(t) /\ t[i - 1] = y
        BY <1>1, <1>2, <2>1, <2>3
      <3> QED
        BY <1>2, <3>1, Members
    <2> QED
      BY <2>2, <2>3
  <1>4. ASSUME NEW y \in ToSet(t) PROVE y \in ToSet(s)
    <2>1. PICK i \in 1 .. Len(t) : y = t[i]
      BY <1>2, Members
    <2>2. i + 1 \in 1 .. Len(s) /\ s[i + 1] = y
      BY <1>1, <1>2, <2>1
    <2> QED
      BY <2>2, Members
  <1>5. Head(s) \in ToSet(s)
    <2>1. 1 \in 1 .. Len(s)
      BY <1>1
    <2> QED
      BY <1>1, <2>1, Members
  <1> QED
    BY <1>1, <1>3, <1>4, <1>5 DEF t

LEMMA ToSetEmpty ==
  ToSet(<<>>) = {}
  BY DEF ToSet

LEMMA CapKeeps ==
  ASSUME NEW S, NEW s \in Seq(S)
  PROVE  /\ EnforceRetryCap(s) \in Seq(S)
         /\ Len(EnforceRetryCap(s)) <= RetryCap
         /\ ToSet(EnforceRetryCap(s)) \subseteq ToSet(s)
         /\ Increasing(s) => Increasing(EnforceRetryCap(s))
  <1>1. CASE Len(s) <= RetryCap
    BY <1>1 DEF EnforceRetryCap
  <1>2. CASE Len(s) > RetryCap
    <2> DEFINE m == Len(s) - RetryCap + 1
    <2>1. m \in 1 .. Len(s) /\ Len(s) - m + 1 = RetryCap /\ Len(s) \in Nat
      BY <1>2, EventLogAssumption
    <2>2. EnforceRetryCap(s) = SubSeq(s, m, Len(s))
      BY <1>2, EventLogAssumption DEF EnforceRetryCap
    <2> HIDE DEF m
    <2>3. /\ SubSeq(s, m, Len(s)) \in Seq(S)
          /\ Len(SubSeq(s, m, Len(s))) = RetryCap
          /\ \A i \in 1 .. RetryCap : SubSeq(s, m, Len(s))[i] = s[m + i - 1]
      BY <2>1, EventLogAssumption
    <2>4. ToSet(SubSeq(s, m, Len(s))) \subseteq ToSet(s)
      <3> SUFFICES ASSUME NEW i \in 1 .. RetryCap
                   PROVE  \E j \in 1 .. Len(s) : s[m + i - 1] = s[j]
        BY <2>3 DEF ToSet
      <3>1. m + i - 1 \in 1 .. Len(s)
        BY <2>1, EventLogAssumption
      <3> QED
        BY <3>1
    <2>5. ASSUME Increasing(s) PROVE Increasing(SubSeq(s, m, Len(s)))
      <3> SUFFICES ASSUME NEW i \in 1 .. RetryCap, NEW j \in 1 .. RetryCap, i < j
                   PROVE  s[m + i - 1].seq < s[m + j - 1].seq
        BY <2>3 DEF Increasing
      <3>1. m + i - 1 \in 1 .. Len(s) /\ m + j - 1 \in 1 .. Len(s) /\ m + i - 1 < m + j - 1
        BY <2>1, EventLogAssumption
      <3> QED
        BY <2>5, <3>1 DEF Increasing
    <2> QED
      BY <2>2, <2>3, <2>4, <2>5, EventLogAssumption
  <1> QED
    BY <1>1, <1>2, EventLogAssumption

LEMMA ToSetFinite ==
  ASSUME NEW S, NEW s \in Seq(S)
  PROVE  IsFiniteSet(ToSet(s))
  <1>1. IsFiniteSet(1 .. Len(s))
    BY FS_Interval
  <1>2. s \in [1 .. Len(s) -> ToSet(s)]
    BY DEF ToSet
  <1>3. s \in Surjection(1 .. Len(s), ToSet(s))
    BY <1>2, Members DEF Surjection
  <1> QED
    BY <1>1, <1>3, FS_Surjection

-----------------------------------------------------------------------------
(* Rows.                                                                   *)

LEMMA KnownRows ==
  ASSUME Inv
  PROVE  /\ Known \subseteq Rows /\ Waiting \subseteq Rows /\ StoredRows \subseteq Rows
         /\ \A r \in Rows : r.id \in Nat /\ r.seq \in Nat /\ r.id > 0 /\ r.seq > 0
         /\ \A r, s \in Known : r.id = s.id => r = s
         /\ channel \in Seq(1 .. MaxEvents) /\ batch \in Seq(Rows) /\ flight \in Seq(Rows)
         /\ seq \in Nat /\ produced \in Nat /\ Len(channel) \in Nat
  <1>1. /\ batch \in Seq(Rows) /\ flight \in Seq(Rows) /\ StoredRows \subseteq Rows
        /\ channel \in Seq(1 .. MaxEvents)
    BY DEF Inv, TypeOK, StoredRows, Copies
  <1>2. ToSet(batch) \subseteq Rows /\ ToSet(flight) \subseteq Rows
    BY <1>1, Members
  <1>3. \A r \in Rows : r.id \in Nat /\ r.seq \in Nat /\ r.id > 0 /\ r.seq > 0
    BY EventLogAssumption DEF Rows
  <1>4. Known \subseteq Rows /\ Waiting \subseteq Rows
    BY <1>1, <1>2 DEF Known, Waiting
  <1>5. \A r, s \in Rows : r.id = s.id /\ r.seq = s.seq => r = s
    BY DEF Rows
  <1>6. \A r, s \in Known : r.id = s.id => r.seq = s.seq
    BY <1>3, <1>4 DEF Inv, RowsInOrder
  <1>7. seq \in Nat /\ produced \in Nat /\ Len(channel) \in Nat
    BY <1>1, EventLogAssumption DEF Inv, TypeOK
  <1> QED
    BY <1>1, <1>3, <1>4, <1>5, <1>6, <1>7

(* Rows of one batch are told apart by their identities.                   *)
LEMMA FlightDistinct ==
  ASSUME Inv, NEW i \in 1 .. Len(flight), NEW j \in 1 .. Len(flight),
         flight[i].id = flight[j].id
  PROVE  i = j
  <1>1. flight \in Seq(Rows) /\ flight[i] \in ToSet(flight) /\ flight[j] \in ToSet(flight)
    BY KnownRows, Members
  <1>2. flight[i] = flight[j] /\ flight[i].seq \in Nat /\ i \in Int /\ j \in Int
    BY <1>1, KnownRows DEF Known, Waiting
  <1>3. ~(i < j) /\ ~(j < i)
    BY <1>2 DEF Inv, SentOnce, Increasing
  <1> QED
    BY <1>2, <1>3

(* An append leaves every row of the batch in the store, whichever store:  *)
(* an identity the store knows is the same row.                            *)
LEMMA AppendedRows ==
  ASSUME Inv
  PROVE  /\ stored \subseteq Appended
         /\ {copy.row : copy \in Appended} = StoredRows \cup ToSet(flight)
         /\ Appended \subseteq Copies
         /\ IsFiniteSet(Appended)
         /\ \A a \in Appended \ stored : \E i \in Taken : a = [row |-> flight[i], nth |-> NextCopy(i)]
  <1> DEFINE Added == {[row |-> flight[i], nth |-> NextCopy(i)] : i \in Taken}
  <1>1. Appended = stored \cup Added
    BY DEF Appended
  <1>2. flight \in Seq(Rows) /\ DOMAIN flight = 1 .. Len(flight) /\ Len(flight) \in Nat
    BY KnownRows
  <1>3. Taken \subseteq 1 .. Len(flight)
    BY <1>2 DEF Taken
  <1>4. \A i \in Taken : flight[i] \in ToSet(flight) /\ flight[i] \in Rows
    BY <1>2, <1>3, Members
  <1>5. \A r \in ToSet(flight), s \in StoredRows : s.id = r.id => r = s
    BY KnownRows DEF Known, Waiting
  <1>6. ASSUME NEW r \in ToSet(flight) PROVE r \in StoredRows \cup {a.row : a \in Added}
    <2>1. PICK i \in 1 .. Len(flight) : r = flight[i]
      BY <1>2, Members
    <2>2. CASE r \in StoredRows
      BY <2>2
    <2>3. CASE r \notin StoredRows
      <3>1. \A known \in StoredRows : known.id # flight[i].id
        BY <1>5, <2>1, <2>3
      <3>2. \A j \in 1 .. i - 1 : flight[j].id # flight[i].id
        <4> SUFFICES ASSUME NEW j \in 1 .. i - 1, flight[j].id = flight[i].id PROVE FALSE
          OBVIOUS
        <4>1. j \in 1 .. Len(flight) /\ j # i
          BY <1>2
        <4> QED
          BY <4>1, FlightDistinct
      <3>3. i \in Taken
        BY <1>2, <3>1, <3>2 DEF Taken
      <3>4. [row |-> flight[i], nth |-> NextCopy(i)] \in Added
        BY <3>3
      <3>5. [row |-> flight[i], nth |-> NextCopy(i)].row = r
        BY <2>1
      <3> HIDE DEF Added
      <3> QED
        BY <3>4, <3>5
    <2> QED
      BY <2>2, <2>3
  <1>7. ASSUME NEW a \in Added PROVE a.row \in ToSet(flight) /\ a \in Copies
    <2>1. PICK i \in Taken : a = [row |-> flight[i], nth |-> NextCopy(i)]
      OBVIOUS
    <2>2. NextCopy(i) \in Nat
      <3> DEFINE A == {copy \in stored : copy.row = flight[i]}
                 B == {j \in 1 .. i - 1 : flight[j] = flight[i]}
      <3>1. IsFiniteSet(A)
        BY FS_Subset DEF Inv
      <3>2. i - 1 \in Int /\ B \subseteq 1 .. i - 1
        BY <1>3
      <3>3. IsFiniteSet(1 .. i - 1)
        BY <3>2, FS_Interval
      <3>4. IsFiniteSet(B)
        BY <3>2, <3>3, FS_Subset
      <3>5. Cardinality(A) \in Nat /\ Cardinality(B) \in Nat
        BY <3>1, <3>4, FS_CardinalityType
      <3>6. NextCopy(i) = 1 + Cardinality(A) + Cardinality(B)
        BY DEF NextCopy
      <3> HIDE DEF A, B
      <3> QED
        BY <3>5, <3>6
    <2>3. a.row = flight[i] /\ a \in [row : Rows, nth : Nat]
      BY <1>4, <2>1, <2>2
    <2> QED
      BY <1>4, <2>3 DEF Copies
  <1>8. IsFiniteSet(Added)
    <2>1. IsFiniteSet(Taken)
      <3>1. IsFiniteSet(1 .. Len(flight))
        BY <1>2, FS_Interval
      <3>2. Taken \in SUBSET (1 .. Len(flight))
        BY <1>3
      <3> QED
        BY <3>1, <3>2, FS_Subset
    <2> DEFINE f == [i \in Taken |-> [row |-> flight[i], nth |-> NextCopy(i)]]
    <2>2. f \in [Taken -> Added] /\ \A a \in Added : \E i \in Taken : f[i] = a
      OBVIOUS
    <2>3. f \in Surjection(Taken, Added)
      BY <2>2 DEF Surjection
    <2> HIDE DEF f, Added
    <2> QED
      BY <2>1, <2>3, FS_Surjection
  <1>9. \A a \in Added : \E i \in Taken : a = [row |-> flight[i], nth |-> NextCopy(i)]
    OBVIOUS
  <1> HIDE DEF Added
  <1>10. IsFiniteSet(Appended)
    BY <1>1, <1>8, FS_Union DEF Inv
  <1>11. {copy.row : copy \in Appended} = StoredRows \cup ToSet(flight)
    BY <1>1, <1>6, <1>7 DEF StoredRows
  <1> QED
    BY <1>1, <1>7, <1>9, <1>10, <1>11 DEF Inv, TypeOK

LEMMA MostHeldType ==
  /\ MostHeld \in Nat /\ MostHeld > 0 /\ RetryCap < MostHeld /\ BatchSize <= MostHeld
  BY EventLogAssumption DEF MostHeld

-----------------------------------------------------------------------------
(* One lemma per action.                                                   *)

LEMMA IngestKeeps ==
  ASSUME Inv, Ingest
  PROVE  Inv'
  <1> DEFINE e == produced + 1
  <1>1. /\ UNCHANGED <<open, seq, batch, flight, loop, idempotent, stored, failures,
                       unacknowledged, capped, cursor, seen>>
        /\ produced' = e /\ e \in 1 .. MaxEvents
        /\ produced \in Nat /\ produced <= MaxEvents /\ produced < e
    BY EventLogAssumption DEF Ingest, loopVars, store, reader, Inv, TypeOK
  <1>2. Waiting' = Waiting /\ StoredRows' = StoredRows /\ Known' = Known
    BY <1>1 DEF Waiting, StoredRows, Known
  <1>3. channel \in Seq(1 .. MaxEvents) /\ Len(channel) \in Nat
    BY KnownRows
  <1>4. /\ \/ channel' = channel /\ admitted' = admitted
           \/ /\ Len(channel) < ChannelCapacity
              /\ channel' = Append(channel, e)
              /\ admitted' = admitted \/ (e \notin Skipped /\ admitted' = admitted \cup {e})
    BY DEF Ingest
  <1> HIDE DEF e
  <1>5. CASE channel' = channel /\ admitted' = admitted
    <2>1. TypeOK'
      BY <1>1, <1>5, EventLogAssumption DEF Inv, TypeOK
    <2>2. ChannelNewest'
      <3>1. \A i \in 1 .. Len(channel) : channel[i] \in Nat /\ channel[i] <= produced
        BY <1>3, EventLogAssumption DEF Inv, ChannelNewest
      <3>2. \A i \in 1 .. Len(channel) : channel[i] <= produced'
        BY <1>1, <3>1 DEF e
      <3>3. \A r \in Known : r.id <= produced'
        BY <1>1, KnownRows DEF Inv, ChannelNewest, e
      <3>4. seq' + Len(channel') <= produced' + 1
        BY <1>1, <1>3, <1>5, KnownRows DEF Inv, ChannelNewest, e
      <3> QED
        BY <1>2, <1>5, <3>2, <3>3, <3>4 DEF Inv, ChannelNewest
    <2>3. /\ NothingLostSilently' /\ CursorMissesNothing' /\ Phases' /\ RowsInOrder'
          /\ WaitingNewest' /\ CursorStored' /\ IsFiniteSet(stored')
          /\ StoredOnce' /\ SentOnce' /\ admitted' \cap Skipped = {}
      BY <1>1, <1>2, <1>5
         DEF Inv, NothingLostSilently, CursorMissesNothing, Phases, RowsInOrder,
             WaitingNewest, CursorStored, StoredOnce, SentOnce, Increasing
    <2> QED
      BY <2>1, <2>2, <2>3 DEF Inv
  <1>6. CASE /\ Len(channel) < ChannelCapacity
             /\ channel' = Append(channel, e)
             /\ admitted' = admitted \/ (e \notin Skipped /\ admitted' = admitted \cup {e})
    <2> DEFINE Events == 1 .. MaxEvents
    <2>0. e \in Events /\ channel' = Append(channel, e) /\ channel \in Seq(Events)
      BY <1>1, <1>3, <1>6
    <2> HIDE DEF Events
    <2>1. /\ channel' \in Seq(1 .. MaxEvents) /\ Len(channel') = Len(channel) + 1
          /\ ToSet(channel') = ToSet(channel) \cup {e}
          /\ \A i \in 1 .. Len(channel) : channel'[i] = channel[i]
          /\ channel'[Len(channel) + 1] = e
      <3>1. /\ channel' \in Seq(Events) /\ Len(channel') = Len(channel) + 1
            /\ ToSet(channel') = ToSet(channel) \cup {e}
            /\ \A i \in 1 .. Len(channel) : channel'[i] = channel[i]
            /\ channel'[Len(channel) + 1] = e
        BY <2>0, ToSetAppend
      <3> QED
        BY <3>1 DEF Events
    <2>2. TypeOK'
      BY <1>1, <1>3, <1>6, <2>1, EventLogAssumption DEF Inv, TypeOK
    <2>3. ChannelNewest'
      <3>1. \A i \in 1 .. Len(channel) : channel[i] \in Nat /\ channel[i] <= produced
        BY <1>3, EventLogAssumption DEF Inv, ChannelNewest
      <3>2. \A i \in 1 .. Len(channel') : i \in 1 .. Len(channel) \/ i = Len(channel) + 1
        BY <1>3, <2>1
      <3>3. \A i \in 1 .. Len(channel') : channel'[i] <= produced'
        BY <1>1, <2>1, <3>1, <3>2 DEF e
      <3>4. \A i, j \in 1 .. Len(channel') : i < j => channel'[i] < channel'[j]
        <4> SUFFICES ASSUME NEW i \in 1 .. Len(channel'), NEW j \in 1 .. Len(channel'), i < j
                     PROVE  channel'[i] < channel'[j]
          OBVIOUS
        <4>1. i \in 1 .. Len(channel)
          BY <1>3, <2>1
        <4> QED
          BY <1>1, <2>1, <3>1, <3>2, <4>1 DEF Inv, ChannelNewest, e
      <3>5. \A r \in Known : r.id <= produced' /\ r.id < e
        BY <1>1, KnownRows DEF Inv, ChannelNewest, e
      <3>6. \A r \in Known : \A i \in 1 .. Len(channel') : r.id < channel'[i]
        BY <2>1, <3>2, <3>5 DEF Inv, ChannelNewest
      <3>7. seq' + Len(channel') <= produced' + 1
        BY <1>1, <1>3, <2>1, KnownRows DEF Inv, ChannelNewest, e
      <3> QED
        BY <1>2, <3>3, <3>4, <3>5, <3>6, <3>7 DEF ChannelNewest
    <2>4. NothingLostSilently'
      BY <1>1, <1>2, <1>6, <2>1 DEF Inv, NothingLostSilently
    <2>5. /\ CursorMissesNothing' /\ Phases' /\ RowsInOrder'
          /\ WaitingNewest' /\ CursorStored' /\ IsFiniteSet(stored')
          /\ StoredOnce' /\ SentOnce' /\ admitted' \cap Skipped = {}
      BY <1>1, <1>2, <1>6
         DEF Inv, CursorMissesNothing, Phases, RowsInOrder, WaitingNewest, CursorStored,
             StoredOnce, SentOnce, Increasing
    <2> QED
      BY <2>2, <2>3, <2>4, <2>5 DEF Inv
  <1> QED
    BY <1>4, <1>5, <1>6

(* The rows the loop holds moved from the batch to the flight.             *)
LEMMA FlushStartKeeps ==
  ASSUME Inv, loop = "select",
         \/ StartFlush(batch, "flushing")
         \/ StartFlush(batch, "final")
         \/ loop' = "exited" /\ UNCHANGED <<batch, flight>>,
         UNCHANGED <<produced, open, channel, seq, store, capped, reader, admitted>>
  PROVE  Inv'
  <1>0. UNCHANGED <<idempotent, stored, failures, unacknowledged, cursor, seen>>
    BY DEF store, reader
  <1>1. flight = <<>> /\ Len(batch) < MostHeld /\ batch \in Seq(Rows) /\ <<>> \in Seq(Rows)
    BY KnownRows DEF Inv, Phases
  <1>2. Len(<<>>) = 0 /\ Len(batch) \in Nat
    BY <1>1
  <1>3. \/ flight' = batch /\ batch' = <<>> /\ loop' \in {"flushing", "final"}
        \/ flight' = flight /\ batch' = batch /\ loop' = "exited"
    BY DEF StartFlush
  <1>4. /\ Waiting' = Waiting /\ StoredRows' = StoredRows /\ Known' = Known
        /\ ToSet(batch') \cup ToSet(flight') = ToSet(batch) \cup ToSet(flight)
    BY <1>0, <1>1, <1>3, ToSetEmpty DEF Waiting, StoredRows, Known
  <1>5. Phases'
    BY <1>1, <1>3, MostHeldType DEF Phases
  <1>6. TypeOK'
    <2>1. batch' \in Seq(Rows) /\ flight' \in Seq(Rows) /\ Len(batch') + Len(flight') <= MostHeld
      <3>1. CASE flight' = batch /\ batch' = <<>>
        BY <1>1, <1>2, <3>1, MostHeldType
      <3>2. CASE flight' = flight /\ batch' = batch
        BY <1>1, <1>2, <3>2, MostHeldType
      <3> QED
        BY <1>3, <3>1, <3>2
    <2> QED
      BY <1>0, <1>3, <2>1 DEF Inv, TypeOK, MostHeld
  <1>7. NothingLostSilently'
    BY <1>4 DEF Inv, NothingLostSilently
  <1>8. /\ CursorMissesNothing' /\ ChannelNewest' /\ RowsInOrder' /\ WaitingNewest'
        /\ CursorStored' /\ StoredOnce' /\ IsFiniteSet(stored') /\ admitted' \cap Skipped = {}
    BY <1>0, <1>4 DEF Inv, CursorMissesNothing, ChannelNewest, RowsInOrder, WaitingNewest,
                CursorStored, StoredOnce
  <1>9. SentOnce'
    <2>1. Increasing(<<>>) /\ Increasing(batch) /\ Increasing(flight)
      BY DEF Inv, SentOnce, Increasing
    <2>2. Increasing(batch') /\ Increasing(flight')
      BY <1>3, <2>1
    <2> QED
      BY <1>0, <1>4, <2>2 DEF Inv, SentOnce
  <1> QED
    BY <1>5, <1>6, <1>7, <1>8, <1>9 DEF Inv

LEMMA TickKeeps ==
  ASSUME Inv, Tick
  PROVE  Inv'
  BY FlushStartKeeps DEF Tick

LEMMA DrainedKeeps ==
  ASSUME Inv, Drained
  PROVE  Inv'
  BY FlushStartKeeps DEF Drained

LEMMA CloseKeeps ==
  ASSUME Inv, CloseChannel
  PROVE  Inv'
  <1>1. /\ UNCHANGED <<produced, channel, seq, batch, flight, loop, idempotent, stored,
                       failures, unacknowledged, capped, cursor, seen, admitted>>
        /\ open' = FALSE
    BY DEF CloseChannel, loopVars, store, reader
  <1>2. Waiting' = Waiting /\ StoredRows' = StoredRows /\ Known' = Known
    BY <1>1 DEF Waiting, StoredRows, Known
  <1> QED
    BY <1>1, <1>2 DEF Inv, TypeOK, NothingLostSilently, CursorMissesNothing, Phases,
                      ChannelNewest, RowsInOrder, WaitingNewest, CursorStored,
                      StoredOnce, SentOnce, Increasing

(* What leaving the head of the channel does to the channel.               *)
LEMMA ChannelShrinks ==
  ASSUME Inv, channel # <<>>, channel' = Tail(channel)
  PROVE  /\ channel' \in Seq(1 .. MaxEvents) /\ Len(channel') = Len(channel) - 1
         /\ Len(channel) > 0 /\ Len(channel') <= ChannelCapacity
         /\ Head(channel) \in 1 .. MaxEvents /\ Head(channel) <= produced
         /\ ToSet(channel) = {Head(channel)} \cup ToSet(channel')
         /\ \A r \in Known : r.id < Head(channel)
         /\ \A i \in 1 .. Len(channel') : /\ channel'[i] <= produced
                                          /\ Head(channel) < channel'[i]
                                          /\ \A r \in Known : r.id < channel'[i]
         /\ \A i, j \in 1 .. Len(channel') : i < j => channel'[i] < channel'[j]
  <1> DEFINE Events == 1 .. MaxEvents
  <1>1. channel \in Seq(Events) /\ Len(channel) \in Nat
    BY KnownRows
  <1> HIDE DEF Events
  <1>2. /\ Head(channel) \in Events /\ channel' \in Seq(Events)
        /\ Len(channel') = Len(channel) - 1 /\ Len(channel) > 0
        /\ ToSet(channel) = {Head(channel)} \cup ToSet(channel')
        /\ \A i \in 1 .. Len(channel') : channel'[i] = channel[i + 1]
    BY <1>1, ToSetTail
  <1>3. Head(channel) = channel[1] /\ 1 \in 1 .. Len(channel)
    BY <1>1, <1>2
  <1>4. \A i \in 1 .. Len(channel') : i + 1 \in 1 .. Len(channel) /\ 1 < i + 1
    BY <1>1, <1>2
  <1>5. \A i \in 1 .. Len(channel') : /\ channel'[i] <= produced
                                      /\ Head(channel) < channel'[i]
                                      /\ \A r \in Known : r.id < channel'[i]
    BY <1>2, <1>3, <1>4 DEF Inv, ChannelNewest
  <1>6. \A i, j \in 1 .. Len(channel') : i < j => channel'[i] < channel'[j]
    <2> SUFFICES ASSUME NEW i \in 1 .. Len(channel'), NEW j \in 1 .. Len(channel'), i < j
                 PROVE  channel[i + 1] < channel[j + 1]
      BY <1>2
    <2>1. i + 1 < j + 1
      OBVIOUS
    <2> QED
      BY <1>4, <2>1 DEF Inv, ChannelNewest
  <1>7. Head(channel) <= produced /\ \A r \in Known : r.id < Head(channel)
    BY <1>3 DEF Inv, ChannelNewest
  <1>8. Len(channel') <= ChannelCapacity
    BY <1>1, <1>2, EventLogAssumption DEF Inv, TypeOK
  <1> QED
    BY <1>2, <1>5, <1>6, <1>7, <1>8 DEF Events

LEMMA ReceiveKeeps ==
  ASSUME Inv, Receive
  PROVE  Inv'
  <1> DEFINE h == Head(channel)
             row == [id |-> h, seq |-> seq]
  <1>1. /\ loop = "select" /\ channel # <<>> /\ channel' = Tail(channel)
        /\ UNCHANGED <<produced, open, idempotent, stored, failures, unacknowledged, capped,
                       cursor, seen, admitted>>
    BY DEF Receive, store, reader
  <1>2. /\ channel' \in Seq(1 .. MaxEvents) /\ Len(channel') = Len(channel) - 1
        /\ Len(channel) > 0 /\ Len(channel') <= ChannelCapacity
        /\ h \in 1 .. MaxEvents /\ h <= produced
        /\ ToSet(channel) = {h} \cup ToSet(channel')
        /\ \A r \in Known : r.id < h
        /\ \A i \in 1 .. Len(channel') : /\ channel'[i] <= produced
                                         /\ h < channel'[i]
                                         /\ \A r \in Known : r.id < channel'[i]
        /\ \A i, j \in 1 .. Len(channel') : i < j => channel'[i] < channel'[j]
    BY <1>1, ChannelShrinks
  <1>3. /\ seq \in Nat /\ produced \in Nat /\ produced <= MaxEvents /\ seq >= 1
        /\ Len(channel) \in Nat /\ seq + Len(channel) <= produced + 1
    BY KnownRows DEF Inv, TypeOK, ChannelNewest
  <1>4. flight = <<>> /\ Len(batch) < MostHeld /\ batch \in Seq(Rows) /\ Len(batch) \in Nat
    BY <1>1, KnownRows DEF Inv, Phases
  <1>5. CASE h \in Skipped
    <2>1. UNCHANGED <<seq, batch, flight, loop>>
      BY <1>5 DEF Receive
    <2>2. Waiting' = Waiting /\ StoredRows' = StoredRows /\ Known' = Known
      BY <1>1, <2>1 DEF Waiting, StoredRows, Known
    <2>3. ChannelNewest'
      <3>1. seq' + Len(channel') <= produced' + 1
        BY <1>1, <1>2, <1>3, <2>1
      <3> QED
        BY <1>1, <1>2, <2>2, <3>1 DEF Inv, ChannelNewest
    <2>4. NothingLostSilently'
      <3>1. \A e \in admitted : e # h
        BY <1>5 DEF Inv
      <3> QED
        BY <1>1, <1>2, <2>1, <2>2, <3>1 DEF Inv, NothingLostSilently
    <2>5. TypeOK'
      BY <1>1, <1>2, <2>1 DEF Inv, TypeOK
    <2>6. /\ CursorMissesNothing' /\ Phases' /\ RowsInOrder' /\ WaitingNewest'
          /\ CursorStored' /\ StoredOnce' /\ SentOnce' /\ IsFiniteSet(stored')
          /\ admitted' \cap Skipped = {}
      BY <1>1, <2>1, <2>2 DEF Inv, CursorMissesNothing, Phases, RowsInOrder, WaitingNewest,
                              CursorStored, StoredOnce, SentOnce, Increasing
    <2> QED
      BY <2>3, <2>4, <2>5, <2>6 DEF Inv
  <1>6. CASE h \notin Skipped
    <2> DEFINE rows == Append(batch, row)
    <2>1. /\ seq' = seq + 1
          /\ \/ /\ Len(rows) >= BatchSize
                /\ flight' = rows /\ batch' = <<>> /\ loop' = "flushing"
             \/ /\ ~(Len(rows) >= BatchSize)
                /\ batch' = rows /\ flight' = flight /\ loop' = loop
      BY <1>6 DEF Receive, ToPersisted, StartFlush
    <2>2. /\ row \in Rows /\ row.id = h /\ row.seq = seq /\ seq \in 1 .. MaxEvents
      BY <1>2, <1>3, EventLogAssumption DEF Rows
    <2> HIDE DEF row, h
    <2>3. /\ rows \in Seq(Rows) /\ Len(rows) = Len(batch) + 1
          /\ ToSet(rows) = ToSet(batch) \cup {row}
          /\ \A i \in 1 .. Len(batch) : rows[i] = batch[i]
          /\ rows[Len(batch) + 1] = row
      BY <1>4, <2>2, ToSetAppend
    <2> HIDE DEF rows
    <2>4. /\ Waiting' = Waiting \cup {row} /\ StoredRows' = StoredRows
          /\ Known' = Known \cup {row}
          /\ ToSet(batch') \cup ToSet(flight') = ToSet(batch) \cup ToSet(flight) \cup {row}
      BY <1>1, <1>4, <2>1, <2>3, ToSetEmpty DEF Waiting, StoredRows, Known
    <2>5. Len(rows) <= MostHeld /\ Len(<<>>) = 0 /\ <<>> \in Seq(Rows) /\ Len(rows) \in Nat
      BY <1>4, <2>3, MostHeldType
    <2>6. Phases'
      BY <1>1, <1>4, <2>1, <2>5, MostHeldType, EventLogAssumption DEF Phases
    <2>7. TypeOK'
      <3>1. batch' \in Seq(Rows) /\ flight' \in Seq(Rows)
        BY <1>4, <2>1, <2>3, <2>5
      <3>2. Len(batch') + Len(flight') <= MostHeld
        <4>1. CASE flight' = rows /\ batch' = <<>>
          BY <2>5, <4>1
        <4>2. CASE flight' = flight /\ batch' = rows
          BY <1>4, <2>5, <4>2
        <4> QED
          BY <2>1, <4>1, <4>2
      <3>3. seq' \in 1 .. MaxEvents + 1
        BY <2>1, <2>2, EventLogAssumption
      <3>4. loop' \in {"select", "flushing", "final", "exited"}
        BY <1>1, <2>1
      <3> QED
        BY <1>1, <1>2, <3>1, <3>2, <3>3, <3>4 DEF Inv, TypeOK, MostHeld
    <2>8. ChannelNewest'
      <3>1. seq' + Len(channel') <= produced' + 1
        BY <1>1, <1>2, <1>3, <2>1
      <3>2. \A r \in Known' : r.id <= produced' /\ \A i \in 1 .. Len(channel') : r.id < channel'[i]
        BY <1>1, <1>2, <2>2, <2>4 DEF Inv, ChannelNewest, h
      <3> QED
        BY <1>1, <1>2, <3>1, <3>2 DEF ChannelNewest
    <2>9. RowsInOrder'
      <3>1. \A r \in Known : r.id \in Nat /\ r.seq \in Nat /\ r.id < row.id /\ r.seq < row.seq
        BY <1>2, <2>2, KnownRows DEF Inv, RowsInOrder, h
      <3>2. row.id \in Nat /\ row.seq \in Nat
        BY <2>2, KnownRows
      <3>3. \A r \in Known' : r.seq < seq'
        BY <2>1, <2>2, <2>4, <3>1, <3>2
      <3>4. \A r, s \in Known' : r.id < s.id <=> r.seq < s.seq
        <4> SUFFICES ASSUME NEW r \in Known \cup {row}, NEW s \in Known \cup {row}
                     PROVE  r.id < s.id <=> r.seq < s.seq
          BY <2>4
        <4>1. CASE r \in Known /\ s \in Known
          BY <4>1 DEF Inv, RowsInOrder
        <4>2. CASE r \in Known /\ s = row
          BY <3>1, <4>2
        <4>3. CASE r = row /\ s \in Known
          BY <3>1, <3>2, <4>3
        <4>4. CASE r = row /\ s = row
          BY <3>2, <4>4
        <4> QED
          BY <4>1, <4>2, <4>3, <4>4
      <3> QED
        BY <3>3, <3>4 DEF RowsInOrder
    <2>10. WaitingNewest'
      <3>1. \A s \in StoredRows : s.seq < row.seq
        BY <2>2 DEF Inv, RowsInOrder, Known
      <3> QED
        BY <1>1, <2>4, <3>1 DEF Inv, WaitingNewest
    <2>11. NothingLostSilently'
      BY <1>1, <1>2, <2>2, <2>4 DEF Inv, NothingLostSilently, h
    <2>12. /\ CursorMissesNothing' /\ CursorStored' /\ StoredOnce' /\ IsFiniteSet(stored')
           /\ admitted' \cap Skipped = {}
      BY <1>1, <2>4 DEF Inv, CursorMissesNothing, CursorStored, StoredOnce
    <2>13. SentOnce'
      <3>1. \A r \in Known : r.seq < row.seq
        BY <2>2 DEF Inv, RowsInOrder
      <3>2. \A i \in 1 .. Len(batch) : batch[i].seq < row.seq
        BY <1>4, <3>1, Members DEF Known, Waiting
      <3>3. Increasing(rows)
        <4> SUFFICES ASSUME NEW i \in 1 .. Len(rows), NEW j \in 1 .. Len(rows), i < j
                     PROVE  rows[i].seq < rows[j].seq
          BY DEF Increasing
        <4>1. i \in 1 .. Len(batch) /\ (j \in 1 .. Len(batch) \/ j = Len(batch) + 1)
          BY <1>4, <2>3
        <4>2. CASE j \in 1 .. Len(batch)
          BY <2>3, <4>1, <4>2 DEF Inv, SentOnce, Increasing
        <4>3. CASE j = Len(batch) + 1
          BY <2>3, <3>2, <4>1, <4>3
        <4> QED
          BY <4>1, <4>2, <4>3
      <3>4. Increasing(<<>>) /\ Increasing(flight)
        BY DEF Inv, SentOnce, Increasing
      <3>5. Increasing(batch') /\ Increasing(flight')
        BY <2>1, <3>3, <3>4
      <3>6. row \notin StoredRows
        <4>1. row.seq \in Nat
          BY <1>3, <2>2
        <4> QED
          BY <3>1, <4>1 DEF Known
      <3> QED
        BY <1>1, <2>4, <3>5, <3>6 DEF Inv, SentOnce
    <2> QED
      BY <2>6, <2>7, <2>8, <2>9, <2>10, <2>11, <2>12, <2>13 DEF Inv
  <1> QED
    BY <1>5, <1>6

(* The append wrote all that waits, or nothing; what it leaves behind is   *)
(* part of what waited.                                                    *)
LEMMA FlushEndKeeps ==
  ASSUME Inv, loop \in {"flushing", "final"}, Resume, flight' = <<>>,
         stored' \in {stored, Appended}, batch' \in Seq(Rows), Increasing(batch'),
         ToSet(batch') \subseteq ToSet(flight), Len(batch') <= RetryCap,
         capped \subseteq capped', unacknowledged \subseteq unacknowledged',
         stored' = stored \/ ToSet(batch') \subseteq unacknowledged',
         ToSet(flight) \subseteq StoredRows' \cup ToSet(batch') \cup capped',
         UNCHANGED <<produced, open, channel, seq, idempotent, reader, admitted>>
  PROVE  Inv'
  <1>1. batch = <<>> /\ loop' \in {"select", "exited"} /\ ToSet(<<>>) = {}
          /\ Waiting = ToSet(flight)
    BY ToSetEmpty DEF Inv, Phases, Resume, Waiting
  <1>2. /\ StoredRows \subseteq StoredRows' /\ StoredRows' \subseteq StoredRows \cup ToSet(flight)
        /\ StoredRows' = StoredRows \/ ToSet(flight) \subseteq StoredRows'
    BY AppendedRows DEF StoredRows
  <1>3. Waiting' = ToSet(batch') /\ Waiting' \subseteq Waiting /\ Known' \subseteq Known
    BY <1>1, <1>2 DEF Waiting, Known
  <1>4. Phases'
    BY <1>1, MostHeldType, EventLogAssumption DEF Phases, Inv, TypeOK
  <1>5. TypeOK'
    <2>1. stored' \subseteq Copies
      BY AppendedRows DEF Inv, TypeOK
    <2>2. <<>> \in Seq(Rows) /\ Len(<<>>) = 0 /\ Len(batch') \in Nat
      OBVIOUS
    <2>3. Len(batch') + Len(flight') <= MostHeld
      BY <2>2, MostHeldType, EventLogAssumption
    <2> QED
      BY <1>1, <2>1, <2>2, <2>3 DEF Inv, TypeOK, MostHeld
  <1>6. ChannelNewest' /\ RowsInOrder'
    BY <1>3 DEF Inv, ChannelNewest, RowsInOrder
  <1>7. WaitingNewest'
    BY <1>1, <1>2, <1>3 DEF Inv, WaitingNewest
  <1>8. CursorStored' /\ cursor' = cursor /\ seen' = seen
    BY <1>2 DEF Inv, CursorStored, reader
  <1>9. CursorMissesNothing'
    <2> SUFFICES ASSUME NEW row \in StoredRows', row.seq <= cursor PROVE row \in seen
      BY <1>8 DEF CursorMissesNothing
    <2>1. CASE row \in StoredRows
      BY <2>1 DEF Inv, CursorMissesNothing
    <2>2. CASE row \notin StoredRows
      <3>1. row \in Waiting /\ row.seq \in Nat /\ row.seq > 0
        BY <1>1, <1>2, <2>2, KnownRows
      <3>2. cursor = 0 \/ \E s \in StoredRows : cursor = s.seq /\ s.seq \in Nat /\ s.seq < row.seq
        BY <2>2, <3>1, KnownRows DEF Inv, CursorStored, WaitingNewest
      <3> QED
        BY <3>1, <3>2
    <2> QED
      BY <2>1, <2>2
  <1>10. NothingLostSilently'
    <2>1. ToSet(batch) \cup ToSet(flight) \cup StoredRows \cup capped
            \subseteq ToSet(batch') \cup ToSet(flight') \cup StoredRows' \cup capped'
      BY <1>1, <1>2
    <2> QED
      BY <2>1 DEF Inv, NothingLostSilently
  <1>11. IsFiniteSet(stored') /\ admitted' \cap Skipped = {}
    BY AppendedRows DEF Inv
  <1>12. SentOnce'
    <2>1. Increasing(<<>>)
      BY DEF Increasing
    <2>2. Increasing(batch') /\ Increasing(flight')
      BY <2>1
    <2>3. CASE stored' = stored
      <3>1. StoredRows' = StoredRows
        BY <2>3 DEF StoredRows
      <3> QED
        BY <1>3, <2>2, <3>1 DEF Inv, SentOnce
    <2>4. CASE ToSet(batch') \subseteq unacknowledged'
      BY <1>3, <2>2, <2>4 DEF SentOnce
    <2> QED
      BY <2>3, <2>4
  <1>13. StoredOnce'
    <2>1. CASE stored' = stored
      BY <2>1 DEF Inv, StoredOnce
    <2>2. CASE stored' = Appended
      <3> SUFFICES ASSUME NEW a \in Appended, NEW b \in Appended, a.row.id = b.row.id, a # b
                   PROVE  ~idempotent /\ a.row \in unacknowledged'
        BY <2>2 DEF StoredOnce
      <3>1. \A i \in Taken : /\ i \in 1 .. Len(flight) /\ flight[i] \in ToSet(flight)
                            /\ [row |-> flight[i], nth |-> NextCopy(i)].row = flight[i]
        BY KnownRows, Members DEF Taken
      <3>2. \A x \in stored : x.row \in StoredRows
        BY DEF StoredRows
      <3>3. \A x, y \in Known : x.id = y.id => x = y
        BY KnownRows
      <3>4. CASE a \in stored /\ b \in stored
        BY <3>4 DEF Inv, StoredOnce
      <3>5. ASSUME NEW x \in Appended \ stored, NEW y \in stored, x.row.id = y.row.id
            PROVE  ~idempotent /\ x.row \in unacknowledged /\ x.row = y.row
        <4>1. PICK i \in Taken : x = [row |-> flight[i], nth |-> NextCopy(i)]
          BY AppendedRows
        <4>2. x.row = flight[i] /\ x.row \in Waiting /\ y.row \in StoredRows
          BY <1>1, <3>1, <3>2, <4>1
        <4>3. x.row = y.row
          BY <3>3, <3>5, <4>2 DEF Known
        <4>4. ~idempotent
          BY <3>5, <4>2 DEF Taken
        <4> QED
          BY <4>2, <4>3, <4>4 DEF Inv, SentOnce
      <3>6. CASE a \notin stored /\ b \notin stored
        <4>1. PICK i \in Taken : a = [row |-> flight[i], nth |-> NextCopy(i)]
          BY <3>6, AppendedRows
        <4>2. PICK j \in Taken : b = [row |-> flight[j], nth |-> NextCopy(j)]
          BY <3>6, AppendedRows
        <4>3. flight[i].id = flight[j].id
          BY <3>1, <4>1, <4>2
        <4>4. i = j
          BY <3>1, <4>3, FlightDistinct
        <4> QED
          BY <4>1, <4>2, <4>4
      <3> QED
        BY <3>4, <3>5, <3>6
    <2> QED
      BY <2>1, <2>2
  <1> QED
    BY <1>4, <1>5, <1>6, <1>7, <1>8, <1>9, <1>10, <1>11, <1>12, <1>13 DEF Inv

LEMMA FlushOkKeeps ==
  ASSUME Inv, FlushOk
  PROVE  Inv'
  <1>1. batch = <<>> /\ batch' = <<>> /\ <<>> \in Seq(Rows) /\ Len(<<>>) <= RetryCap
          /\ Increasing(<<>>)
    BY EventLogAssumption DEF FlushOk, Inv, Phases, Increasing
  <1>2. StoredRows' = StoredRows \cup ToSet(flight)
    BY AppendedRows DEF FlushOk, StoredRows
  <1> QED
    BY <1>1, <1>2, FlushEndKeeps, ToSetEmpty DEF FlushOk

LEMMA FlushFailsKeeps ==
  ASSUME Inv, NEW wrote \in BOOLEAN, FlushFails(wrote)
  PROVE  Inv'
  <1>1. batch = <<>> /\ flight \in Seq(Rows) /\ Increasing(flight)
    BY KnownRows DEF FlushFails, Inv, Phases, SentOnce
  <1>2. flight \o batch = flight
    BY <1>1
  <1>3. /\ batch' \in Seq(Rows) /\ Len(batch') <= RetryCap
        /\ ToSet(batch') \subseteq ToSet(flight) /\ Increasing(batch')
    BY <1>1, <1>2, CapKeeps DEF FlushFails
  <1>4. capped' = capped \cup (ToSet(flight) \ ToSet(batch'))
    BY DEF FlushFails
  <1>5. /\ unacknowledged \subseteq unacknowledged' /\ stored' \in {stored, Appended}
        /\ stored' = stored \/ ToSet(flight) \subseteq unacknowledged'
        /\ idempotent' = idempotent
    BY DEF FlushFails, AppendFails
  <1>6. /\ loop \in {"flushing", "final"} /\ Resume /\ flight' = <<>>
        /\ UNCHANGED <<produced, open, channel, seq, reader, admitted>>
    BY DEF FlushFails
  <1> QED
    BY <1>3, <1>4, <1>5, <1>6, FlushEndKeeps

(* A page leaves no fresh row at or below its last one behind.             *)
LEMMA QueryKeeps ==
  ASSUME Inv, Query
  PROVE  Inv'
  <1>1. PICK last \in Page : cursor' = last.row.seq
    BY DEF Query
  <1>2. /\ seen' = seen \cup {copy.row : copy \in Page}
        /\ UNCHANGED <<produced, open, channel, seq, batch, flight, loop, idempotent, stored,
                       failures, unacknowledged, capped, admitted>>
    BY DEF Query, loopVars, store
  <1>3. /\ last \in stored /\ last \in Fresh /\ last.row \in StoredRows
        /\ Cardinality({b \in Fresh : Before(b, last)}) < PageSize
    BY DEF Page, Fresh, StoredRows
  <1>5. Waiting' = Waiting /\ StoredRows' = StoredRows /\ Known' = Known
    BY <1>2 DEF Waiting, StoredRows, Known
  <1>4. CursorMissesNothing'
    <2> SUFFICES ASSUME NEW a \in stored, a.row.seq <= last.row.seq, a.row \notin seen
                 PROVE  \E copy \in Page : a.row = copy.row
      BY <1>1, <1>2, <1>5 DEF CursorMissesNothing, StoredRows
    <2>1. /\ \A x \in stored : x.row \in StoredRows /\ x.row \in Known /\ x.row.seq \in Nat
          /\ cursor \in Nat
      BY KnownRows DEF Inv, CursorStored, StoredRows, Known
    <2>2. a \in Fresh
      BY <2>1 DEF Inv, CursorMissesNothing, Fresh
    <2>3. CASE a.row.seq = last.row.seq
      <3>1. a.row.id \in Nat /\ last.row.id \in Nat
        BY <1>3, <2>1, KnownRows
      <3>2. a.row.id = last.row.id
        BY <1>3, <2>1, <2>3, <3>1 DEF Inv, RowsInOrder
      <3> QED
        BY <1>1, <1>3, <2>1, <3>2, KnownRows
    <2>4. CASE a.row.seq < last.row.seq
      <3> DEFINE A == {b \in Fresh : Before(b, a)}
                 B == {b \in Fresh : Before(b, last)}
      <3>1. Fresh \subseteq stored
        BY DEF Fresh
      <3>2. ASSUME NEW b \in Fresh, Before(b, a) PROVE Before(b, last)
        <4>1. b.row.seq \in Nat /\ a.row.seq \in Nat /\ last.row.seq \in Nat
          BY <1>3, <2>1, <3>1
        <4>2. b.row.seq <= a.row.seq
          BY <3>2, <4>1 DEF Before
        <4> QED
          BY <2>4, <4>1, <4>2 DEF Before
      <3>3. A \subseteq B /\ B \subseteq stored
        BY <3>1, <3>2
      <3>4. IsFiniteSet(B)
        BY <3>3, FS_Subset DEF Inv
      <3>5. IsFiniteSet(A) /\ Cardinality(A) <= Cardinality(B)
        BY <3>3, <3>4, FS_Subset
      <3>6. Cardinality(A) \in Nat /\ Cardinality(B) \in Nat
        BY <3>4, <3>5, FS_CardinalityType
      <3>7. Cardinality(A) < PageSize
        BY <1>3, <3>5, <3>6, EventLogAssumption
      <3>8. a \in Page
        BY <2>2, <3>7 DEF Page
      <3> QED
        BY <3>8
    <2> QED
      BY <1>3, <2>1, <2>3, <2>4
  <1>6. CursorStored'
    BY <1>1, <1>3, <1>5 DEF CursorStored
  <1>7. TypeOK' /\ NothingLostSilently'
    BY <1>2, <1>5 DEF Inv, TypeOK, NothingLostSilently
  <1>8. /\ Phases' /\ ChannelNewest' /\ RowsInOrder' /\ WaitingNewest' /\ StoredOnce' /\ SentOnce'
        /\ IsFiniteSet(stored') /\ admitted' \cap Skipped = {}
    BY <1>2, <1>5 DEF Inv, Phases, ChannelNewest, RowsInOrder, WaitingNewest, StoredOnce,
                      SentOnce, Increasing
  <1> QED
    BY <1>4, <1>6, <1>7, <1>8 DEF Inv

LEMMA InitInv == Init => Inv
  <1> SUFFICES ASSUME Init PROVE Inv
    OBVIOUS
  <1>1. /\ Waiting = {} /\ StoredRows = {} /\ Known = {}
        /\ ToSet(batch) = {} /\ ToSet(flight) = {}
    BY ToSetEmpty DEF Init, Waiting, StoredRows, Known
  <1>2. Len(<<>>) = 0 /\ <<>> \in Seq(Rows) /\ <<>> \in Seq(1 .. MaxEvents)
    OBVIOUS
  <1>3. TypeOK
    BY <1>2, EventLogAssumption DEF Init, TypeOK
  <1>4. Phases
    BY <1>2, MostHeldType DEF Init, Phases
  <1>5. ChannelNewest
    BY <1>1, <1>2 DEF Init, ChannelNewest
  <1>6. IsFiniteSet(stored)
    BY FS_EmptySet DEF Init
  <1>7. Increasing(batch) /\ Increasing(flight)
    BY DEF Init, Increasing
  <1> QED
    BY <1>1, <1>3, <1>4, <1>5, <1>6, <1>7
       DEF Init, Inv, NothingLostSilently, CursorMissesNothing, RowsInOrder, WaitingNewest,
           CursorStored, StoredOnce, SentOnce

LEMMA InvInductive == Inv /\ [Next]_vars => Inv'
  <1> SUFFICES ASSUME Inv, [Next]_vars PROVE Inv'
    OBVIOUS
  <1>1. CASE Next
    BY <1>1, IngestKeeps, CloseKeeps, ReceiveKeeps, DrainedKeeps, FlushOkKeeps,
       FlushFailsKeeps, TickKeeps, QueryKeeps DEF Next, LoopStep
  <1>2. CASE UNCHANGED vars
    <2>1. /\ UNCHANGED <<produced, open, channel, seq, batch, flight, loop, idempotent, stored,
                         failures, unacknowledged, capped, cursor, seen, admitted>>
      BY <1>2 DEF vars, loopVars, store, reader
    <2>2. Waiting' = Waiting /\ StoredRows' = StoredRows /\ Known' = Known
      BY <2>1 DEF Waiting, StoredRows, Known
    <2> QED
      BY <2>1, <2>2 DEF Inv, TypeOK, NothingLostSilently, CursorMissesNothing, Phases,
                        ChannelNewest, RowsInOrder, WaitingNewest, CursorStored,
                        StoredOnce, SentOnce, Increasing
  <1> QED
    BY <1>1, <1>2

THEOREM Invariance == Spec => []Inv
  BY InitInv, InvInductive, PTL DEF Spec

(* For a store that ignores identities it has and for one that extends its *)
(* rows with whatever it is given: what the loop holds for a failing store *)
(* stays within its bound, the stored rows are in the order of ingestion,  *)
(* a second copy of an event comes only from an append that failed after   *)
(* it wrote, and no admitted event vanishes unaccounted for.               *)
THEOREM Sound == Spec => []LogSound
  <1>1. Inv => StoredInOrder
    BY DEF Inv, RowsInOrder, Known, StoredInOrder
  <1>2. Inv => LogSound
    BY <1>1 DEF Inv, LogSound
  <1> QED
    BY <1>2, Invariance, PTL

(* Paging with the last sequence number seen misses no row: none is ever   *)
(* stored at or below a reader's cursor afterwards.                        *)
THEOREM CursorComplete == Spec => []CursorMissesNothing
  <1>1. Inv => CursorMissesNothing
    BY DEF Inv
  <1> QED
    BY <1>1, Invariance, PTL
=============================================================================
