---------------------------- MODULE GatingProofs ----------------------------
(***************************************************************************)
(* Proofs about the gating owner.  The invariant speaks of the owner as    *)
(* the record a call threads through its steps, so that one lemma per step *)
(* of a call (mint, append, close, sweep, upsert) carries it from the      *)
(* start of a call to its end.  What makes identities unique through       *)
(* restarts and restored snapshots is that every identity in sight, in the *)
(* table, the log, the history or the host's snapshot, lies below the      *)
(* frontier <<epoch, sequence>> of the running owner.                      *)
(***************************************************************************)
EXTENDS Gating, FiniteSetTheorems, TLAPS

Fields == {"seq", "pending", "order", "audit", "issued", "minted", "ok"}

Events == {"evaluated", "conflict_blocked", "pending_created",
           "approval_notification", "approval_decided", "rejection_decided",
           "escalation_decided", "timeout_fallback"}

AuditEntry == [id : Ids, event : Events, gate : Ids \cup {None}]

(* An identity below the frontier of this owner, whose sequence is at n.   *)
Known(n, id) ==
  id \in Ids /\ id[1] <= owner /\ (id[1] = owner => epoch = owner /\ id[2] < n)

Distinct(queue) ==
  \A i, j \in 1 .. Len(queue) : queue[i] = queue[j] => i = j

DistinctIds(log) ==
  \A i, j \in 1 .. Len(log) : log[i].id = log[j].id => i = j

(* The history: every gate under a known identity, created in its window.  *)
HistoryOK(n, m) ==
  /\ m = [id \in DOMAIN m |-> m[id]]
  /\ \A id \in DOMAIN m :
       Known(n, id) /\ m[id] \in EntryType /\ m[id].created <= m[id].deadline

(* The table: gates of the history as they were opened, in some order.     *)
TableOK(p, queue, m) ==
  /\ p = [id \in DOMAIN p |-> m[id]]
  /\ DOMAIN p \subseteq DOMAIN m
  /\ queue \in Seq(Ids)
  /\ Distinct(queue)
  /\ ToSet(queue) = DOMAIN p
  /\ Len(queue) <= PendingMax

(* The log: each entry under an identity of its own, about known gates.    *)
LogOK(n, log, m) ==
  /\ log \in Seq(AuditEntry)
  /\ Len(log) <= AuditMax
  /\ DistinctIds(log)
  /\ \A i \in 1 .. Len(log) :
       Known(n, log[i].id) /\ log[i].gate \in DOMAIN m \cup {None}

(* A gate the log says was resolved is not pending.                        *)
Settled(log, gates) ==
  \A i \in 1 .. Len(log) : log[i].event \in Resolutions => log[i].gate \notin gates

Core(s) ==
  /\ DOMAIN s = Fields
  /\ s.ok = TRUE
  /\ s.seq \in 0 .. SequenceLimit
  /\ HistoryOK(s.seq, s.minted)
  /\ TableOK(s.pending, s.order, s.minted)
  /\ LogOK(s.seq, s.audit, s.minted)
  /\ Settled(s.audit, DOMAIN s.pending)

(* The gates of this owner in S have their entry in the log, or the log is *)
(* full.                                                                   *)
Logged(s, S) ==
  \A id \in S :
    \/ id[1] # epoch
    \/ Len(s.audit) = AuditMax
    \/ \E i \in 1 .. Len(s.audit) :
         s.audit[i].event = "pending_created" /\ s.audit[i].gate = id

(* The host's snapshot holds gates of the history and known log entries.   *)
Keeps(snapshot, n, m) ==
  /\ snapshot.pending \in Seq([id : Ids, entry : EntryType])
  /\ Len(snapshot.pending) <= PendingMax
  /\ DistinctIds(snapshot.pending)
  /\ \A i \in 1 .. Len(snapshot.pending) :
       /\ snapshot.pending[i].id \in DOMAIN m
       /\ snapshot.pending[i].entry = m[snapshot.pending[i].id]
  /\ LogOK(n, snapshot.audit, m)

ClockOK ==
  now \in 0 .. MaxTime /\ owner \in 1 .. MaxOwners /\ epoch \in {owner, None}

Inv ==
  /\ ClockOK
  /\ Core(Owner)
  /\ Logged(Owner, DOMAIN pending)
  /\ saved = None \/ Keeps(saved, seq, minted)

-----------------------------------------------------------------------------
(* Sequences as sets of their elements.                                    *)

LEMMA Members ==
  ASSUME NEW S, NEW s \in Seq(S)
  PROVE  /\ Len(s) \in Nat /\ DOMAIN s = 1 .. Len(s)
         /\ \A i \in 1 .. Len(s) : s[i] \in S /\ s[i] \in ToSet(s)
         /\ \A x \in ToSet(s) : \E i \in 1 .. Len(s) : x = s[i]
         /\ ToSet(s) \subseteq S
  BY DEF ToSet

LEMMA FunctionAsSequence ==
  ASSUME NEW S, NEW n \in Nat, NEW f \in [1 .. n -> S]
  PROVE  f \in Seq(S) /\ Len(f) = n
  OBVIOUS

(* A sequence without repetition has as many elements as places.           *)
LEMMA DistinctCounts ==
  ASSUME NEW S, NEW s \in Seq(S), Distinct(s)
  PROVE  IsFiniteSet(ToSet(s)) /\ Cardinality(ToSet(s)) = Len(s)
  <1>1. Len(s) \in Nat /\ s \in [1 .. Len(s) -> ToSet(s)]
    BY Members
  <1>2. s \in Bijection(1 .. Len(s), ToSet(s))
    <2>1. \A i, j \in 1 .. Len(s) : s[i] = s[j] => i = j
      BY DEF Distinct
    <2>2. \A x \in ToSet(s) : \E i \in 1 .. Len(s) : s[i] = x
      BY Members
    <2>3. s \in Injection(1 .. Len(s), ToSet(s))
      BY <1>1, <2>1 DEF Injection, IsInjective
    <2>4. s \in Surjection(1 .. Len(s), ToSet(s))
      BY <1>1, <2>2 DEF Surjection
    <2> QED
      BY <2>3, <2>4 DEF Bijection
  <1>3. ExistsBijection(1 .. Len(s), ToSet(s))
    BY <1>2 DEF ExistsBijection
  <1>4. IsFiniteSet(ToSet(s))
    BY <1>1, <1>3, FS_NatBijection
  <1> QED
    BY <1>1, <1>3, <1>4, FS_CountingElements

(* The rank of a place among chosen places numbers them from 1.            *)
RankIn(P, i) == Cardinality({j \in P : j <= i})

LEMMA Ranks ==
  ASSUME NEW n \in Nat, NEW P, P \subseteq 1 .. n
  PROVE  /\ IsFiniteSet(P) /\ Cardinality(P) \in Nat /\ Cardinality(P) <= n
         /\ \A i \in P : RankIn(P, i) \in 1 .. Cardinality(P)
         /\ \A i, j \in P : RankIn(P, i) = RankIn(P, j) => i = j
         /\ \A k \in 1 .. Cardinality(P) : \E i \in P : RankIn(P, i) = k
  <1> DEFINE rank == [i \in P |-> RankIn(P, i)]
             Below(i) == {j \in P : j <= i}
             c == Cardinality(P)
  <1>1. IsFiniteSet(P) /\ c \in Nat /\ c <= n
    <2>1. 1 \in Int /\ n \in Int
      OBVIOUS
    <2>2. IsFiniteSet(1 .. n) /\ Cardinality(1 .. n) = IF 1 > n THEN 0 ELSE n - 1 + 1
      BY <2>1, FS_Interval
    <2>3. Cardinality(1 .. n) = n
      BY <2>2
    <2>4. IsFiniteSet(P) /\ Cardinality(P) <= n
      BY <2>2, <2>3, FS_Subset
    <2> QED
      BY <2>4, FS_CardinalityType
  <1>2. ASSUME NEW i \in P
        PROVE  /\ IsFiniteSet(Below(i)) /\ Cardinality(Below(i)) \in Nat
               /\ Cardinality(Below(i)) >= 1 /\ Cardinality(Below(i)) <= c
    <2>1. Below(i) \in SUBSET P
      OBVIOUS
    <2>2. IsFiniteSet(Below(i)) /\ Cardinality(Below(i)) <= c
      BY <1>1, <2>1, FS_Subset
    <2>3. Cardinality(Below(i)) \in Nat
      BY <2>2, FS_CardinalityType
    <2>4. i \in Below(i)
      OBVIOUS
    <2>5. Cardinality(Below(i)) # 0
      BY <2>2, <2>4, FS_EmptySet
    <2> HIDE DEF Below
    <2> QED
      BY <2>2, <2>3, <2>5
  <1>3. ASSUME NEW i \in P, NEW j \in P, i < j
        PROVE  Cardinality(Below(i)) # Cardinality(Below(j))
    <2>0. i \in Int /\ j \in Int /\ \A x \in P : x \in Int
      OBVIOUS
    <2>1. Below(i) \in SUBSET Below(j)
      <3>1. ASSUME NEW x \in P, x <= i PROVE x <= j
        BY <1>3, <2>0, <3>1
      <3> QED
        BY <3>1
    <2>2. j \in Below(j) /\ j \notin Below(i)
      BY <1>3
    <2>3. Below(i) # Below(j)
      BY <2>2
    <2> QED
      BY <1>2, <2>1, <2>3, FS_Subset
  <1>4. \A i \in P : rank[i] = Cardinality(Below(i))
    BY DEF RankIn
  <1>5. \A i \in P : rank[i] \in 1 .. c
    <2> HIDE DEF Below, c
    <2> QED
      BY <1>1, <1>2, <1>4
  <1>6. \A i, j \in P : rank[i] = rank[j] => i = j
    <2> SUFFICES ASSUME NEW i \in P, NEW j \in P, rank[i] = rank[j], i # j
                 PROVE  FALSE
      OBVIOUS
    <2>1. i < j \/ j < i
      OBVIOUS
    <2> QED
      BY <1>3, <1>4, <2>1
  <1>7. rank \in [P -> 1 .. c]
    BY <1>5
  <1>8. rank \in Injection(P, 1 .. c)
    BY <1>6, <1>7 DEF Injection, IsInjective
  <1>9. IsFiniteSet(1 .. c) /\ Cardinality(1 .. c) = c
    <2>1. 1 \in Int /\ c \in Int
      BY <1>1
    <2>2. IsFiniteSet(1 .. c) /\ Cardinality(1 .. c) = IF 1 > c THEN 0 ELSE c - 1 + 1
      BY <2>1, FS_Interval
    <2> QED
      BY <1>1, <2>2
  <1>10. rank \in Surjection(P, 1 .. c)
    BY <1>8, <1>9, FS_Injection
  <1>11. \A k \in 1 .. c : \E i \in P : rank[i] = k
    BY <1>10 DEF Surjection
  <1> QED
    BY <1>1, <1>5, <1>6, <1>11

LEMMA RetainKeeps ==
  ASSUME NEW T, NEW queue \in Seq(T), NEW S
  PROVE  /\ Retain(queue, S) \in Seq(T)
         /\ ToSet(Retain(queue, S)) = ToSet(queue) \cap S
         /\ Len(Retain(queue, S)) <= Len(queue)
         /\ Distinct(queue) => Distinct(Retain(queue, S))
  <1> DEFINE places == {i \in DOMAIN queue : queue[i] \in S}
             c == Cardinality(places)
             at == [k \in 1 .. c |-> CHOOSE i \in places : RankIn(places, i) = k]
             r == Retain(queue, S)
  <1>1. Len(queue) \in Nat /\ DOMAIN queue = 1 .. Len(queue) /\ places \subseteq 1 .. Len(queue)
    BY Members
  <1>2. /\ c \in Nat /\ c <= Len(queue)
        /\ \A i \in places : RankIn(places, i) \in 1 .. c
        /\ \A i, j \in places : RankIn(places, i) = RankIn(places, j) => i = j
        /\ \A k \in 1 .. c : \E i \in places : RankIn(places, i) = k
    <2> HIDE DEF places
    <2> QED
      BY <1>1, Ranks
  <1>3. \A k \in 1 .. c : at[k] \in places /\ RankIn(places, at[k]) = k
    <2> HIDE DEF places, c
    <2> QED
      BY <1>2
  <1>4. r = [k \in 1 .. c |-> queue[at[k]]]
    <2>1. r = [k \in 1 .. c |-> queue[CHOOSE i \in places : RankIn(places, i) = k]]
      BY DEF Retain, RankIn
    <2>2. \A k \in 1 .. c : at[k] = CHOOSE i \in places : RankIn(places, i) = k
      OBVIOUS
    <2> HIDE DEF r, at, c, places
    <2>3. \A k \in 1 .. c :
            queue[at[k]] = queue[CHOOSE i \in places : RankIn(places, i) = k]
      BY <2>2
    <2> QED
      BY <2>1, <2>3, Zenon
  <1> HIDE DEF places, c, at, r
  <1>5. \A k \in 1 .. c : at[k] \in 1 .. Len(queue) /\ queue[at[k]] \in T /\ queue[at[k]] \in S
    BY <1>1, <1>3, Members DEF places
  <1>6. r \in Seq(T) /\ Len(r) = c
    <2>1. r \in [1 .. c -> T]
      BY <1>4, <1>5
    <2> QED
      BY <1>2, <2>1, FunctionAsSequence
  <1>7. ASSUME NEW x \in ToSet(r) PROVE x \in ToSet(queue) \cap S
    <2>1. PICK k \in 1 .. c : x = r[k]
      BY <1>6, Members
    <2> QED
      BY <1>4, <1>5, <2>1, Members
  <1>8. ASSUME NEW x \in ToSet(queue), x \in S PROVE x \in ToSet(r)
    <2>1. PICK i \in 1 .. Len(queue) : x = queue[i]
      BY Members
    <2>2. i \in places
      BY <1>1, <1>8, <2>1 DEF places
    <2>3. RankIn(places, i) \in 1 .. c /\ at[RankIn(places, i)] = i
      BY <1>2, <1>3, <2>2
    <2>4. r[RankIn(places, i)] = x
      BY <1>4, <2>1, <2>3
    <2> QED
      BY <1>6, <2>3, <2>4, Members
  <1>9. ASSUME Distinct(queue), NEW k \in 1 .. c, NEW l \in 1 .. c, r[k] = r[l]
        PROVE  k = l
    <2>1. at[k] = at[l]
      BY <1>4, <1>5, <1>9 DEF Distinct
    <2> QED
      BY <1>3, <2>1
  <1>10. Distinct(queue) => Distinct(r)
    BY <1>6, <1>9 DEF Distinct
  <1> QED
    BY <1>2, <1>6, <1>7, <1>8, <1>10 DEF r

(* A queue without repetition gets shorter by what is discarded.           *)
LEMMA DiscardKeeps ==
  ASSUME NEW T, NEW queue \in Seq(T), NEW S
  PROVE  /\ Discard(queue, S) \in Seq(T)
         /\ ToSet(Discard(queue, S)) = ToSet(queue) \ S
         /\ Len(Discard(queue, S)) <= Len(queue)
         /\ Distinct(queue) => Distinct(Discard(queue, S))
  BY RetainKeeps DEF Discard

-----------------------------------------------------------------------------
(* The bounded log.                                                        *)

LEMMA Constants ==
  /\ TimeoutMin \in Nat /\ TimeoutMax \in Nat /\ PendingMax \in Nat /\ AuditMax \in Nat
  /\ TimeoutMin > 0 /\ PendingMax > 0 /\ AuditMax > 0 /\ TimeoutMin <= TimeoutMax
  /\ SequenceLimit \in Nat /\ MaxTime \in Nat /\ MaxOwners \in Nat /\ MaxOwners > 0
  /\ None \notin People /\ None \notin Nat /\ None \notin Ids
  BY GatingAssumption

(* The last max elements of a sequence.                                    *)
Cut(log, max) ==
  IF Len(log) > max THEN SubSeq(log, Len(log) - max + 1, Len(log)) ELSE log

LEMMA CutKeeps ==
  ASSUME NEW S, NEW log \in Seq(S), NEW max \in Nat, max > 0
  PROVE  /\ Cut(log, max) \in Seq(S) /\ Len(Cut(log, max)) <= max
         /\ \E d \in Nat :
              /\ Len(log) = Len(Cut(log, max)) + d
              /\ \A i \in 1 .. Len(Cut(log, max)) : Cut(log, max)[i] = log[i + d]
         /\ Len(Cut(log, max)) = max \/ Cut(log, max) = log
  <1>1. Len(log) \in Nat /\ max \in Nat /\ max > 0
    OBVIOUS
  <1>2. CASE Len(log) > max
    <2> DEFINE d == Len(log) - max
               t == SubSeq(log, d + 1, Len(log))
    <2>1. d \in Nat /\ d + 1 \in 1 .. Len(log) /\ Cut(log, max) = t
      BY <1>1, <1>2 DEF Cut
    <2>2. t \in Seq(S) /\ Len(t) = max
      BY <1>1, <1>2
    <2>3. \A i \in 1 .. Len(t) : t[i] = log[i + d]
      <3>1. \A a, b \in 1 .. Len(log) : \A i \in 1 .. (b - a + 1) :
              SubSeq(log, a, b)[i] = log[a + i - 1]
        BY <1>1
      <3>2. Len(log) \in 1 .. Len(log) /\ Len(t) = Len(log) - (d + 1) + 1
        BY <1>1, <1>2, <2>2
      <3>3. \A i \in 1 .. Len(t) : d + 1 + i - 1 = i + d
        BY <1>1, <2>1
      <3> HIDE DEF d
      <3> QED
        BY <2>1, <3>1, <3>2, <3>3
    <2>4. Len(log) = Len(t) + d
      BY <1>1, <2>2
    <2> HIDE DEF d, t
    <2>5. \E x \in Nat : Len(log) = Len(t) + x /\ \A i \in 1 .. Len(t) : t[i] = log[i + x]
      BY <2>1, <2>3, <2>4
    <2>6. Len(t) <= max
      BY <1>1, <2>2
    <2> QED
      BY <2>1, <2>2, <2>5, <2>6, Zenon
  <1>3. CASE ~(Len(log) > max)
    <2>1. Cut(log, max) = log
      BY <1>3 DEF Cut
    <2>2. \A i \in 1 .. Len(log) : log[i] = log[i + 0]
      BY <1>1
    <2>3. 0 \in Nat /\ Len(log) = Len(log) + 0 /\ Len(log) <= max
      BY <1>1, <1>3
    <2>4. \E x \in Nat : Len(log) = Len(log) + x /\ \A i \in 1 .. Len(log) : log[i] = log[i + x]
      BY <2>2, <2>3, Zenon
    <2> QED
      BY <2>1, <2>3, <2>4, Zenon
  <1> QED
    BY <1>2, <1>3

LEMMA NewestKeeps ==
  ASSUME NEW S, NEW log \in Seq(S)
  PROVE  /\ Newest(log) \in Seq(S) /\ Len(Newest(log)) <= AuditMax
         /\ \E d \in Nat :
              /\ Len(log) = Len(Newest(log)) + d
              /\ \A i \in 1 .. Len(Newest(log)) : Newest(log)[i] = log[i + d]
         /\ Len(Newest(log)) = AuditMax \/ Newest(log) = log
  <1>1. Newest(log) = Cut(log, AuditMax)
    BY DEF Newest, Cut
  <1>2. AuditMax \in Nat /\ AuditMax > 0
    BY Constants
  <1>3. /\ Cut(log, AuditMax) \in Seq(S) /\ Len(Cut(log, AuditMax)) <= AuditMax
        /\ \E d \in Nat :
             /\ Len(log) = Len(Cut(log, AuditMax)) + d
             /\ \A i \in 1 .. Len(Cut(log, AuditMax)) : Cut(log, AuditMax)[i] = log[i + d]
        /\ Len(Cut(log, AuditMax)) = AuditMax \/ Cut(log, AuditMax) = log
    BY <1>2, CutKeeps, Zenon
  <1> QED
    BY <1>1, <1>3, Zenon

LEMMA Concatenation ==
  ASSUME NEW S, NEW a \in Seq(S), NEW b \in Seq(S)
  PROVE  /\ a \o b \in Seq(S) /\ Len(a \o b) = Len(a) + Len(b)
         /\ \A i \in 1 .. Len(a) : (a \o b)[i] = a[i]
         /\ \A i \in 1 .. Len(b) : (a \o b)[Len(a) + i] = b[i]
         /\ \A i \in 1 .. Len(a \o b) :
              \/ i \in 1 .. Len(a) /\ (a \o b)[i] = a[i]
              \/ i - Len(a) \in 1 .. Len(b) /\ (a \o b)[i] = b[i - Len(a)]
  OBVIOUS

LEMMA AppendConcatenates ==
  ASSUME NEW S, NEW a \in Seq(S), NEW x \in S
  PROVE  Append(a, x) = a \o <<x>> /\ <<x>> \in Seq(S) /\ Len(<<x>>) = 1
         /\ <<x>>[1] = x
  OBVIOUS

LEMMA KnownLater ==
  ASSUME NEW n \in Nat, NEW k \in Nat, n <= k, NEW id, Known(n, id)
  PROVE  Known(k, id)
  <1>1. id[2] \in Int
    BY DEF Known, Ids
  <1> QED
    BY <1>1 DEF Known

(* The log grows by entries under new identities about known gates, and is *)
(* cut to its newest: it stays well formed, and loses nothing unless it is *)
(* full.                                                                   *)
LEMMA LogGrows ==
  ASSUME NEW n \in Nat, NEW k \in Nat, n <= k, NEW m, NEW gates,
         NEW log, LogOK(n, log, m), Settled(log, gates),
         NEW ext \in Seq(AuditEntry), DistinctIds(ext),
         \A i \in 1 .. Len(ext) :
           /\ Known(k, ext[i].id) /\ ~Known(n, ext[i].id)
           /\ ext[i].gate \in DOMAIN m \cup {None}
           /\ ext[i].event \in Resolutions => ext[i].gate \notin gates
  PROVE  /\ LogOK(k, Newest(log \o ext), m)
         /\ Settled(Newest(log \o ext), gates)
         /\ \/ Len(Newest(log \o ext)) = AuditMax
            \/ /\ Len(Newest(log \o ext)) = Len(log) + Len(ext)
               /\ \A i \in 1 .. Len(log) : Newest(log \o ext)[i] = log[i]
               /\ \A i \in 1 .. Len(ext) : Newest(log \o ext)[Len(log) + i] = ext[i]
  <1> DEFINE all == log \o ext
             new == Newest(all)
  <1>1. /\ log \in Seq(AuditEntry) /\ DistinctIds(log)
        /\ \A i \in 1 .. Len(log) :
             Known(n, log[i].id) /\ log[i].gate \in DOMAIN m \cup {None}
    BY DEF LogOK
  <1>2. /\ all \in Seq(AuditEntry) /\ Len(all) = Len(log) + Len(ext)
        /\ \A i \in 1 .. Len(log) : all[i] = log[i]
        /\ \A i \in 1 .. Len(ext) : all[Len(log) + i] = ext[i]
        /\ \A i \in 1 .. Len(all) :
             \/ i \in 1 .. Len(log) /\ all[i] = log[i]
             \/ i - Len(log) \in 1 .. Len(ext) /\ all[i] = ext[i - Len(log)]
    BY <1>1, Concatenation
  <1>3. Len(log) \in Nat /\ Len(ext) \in Nat /\ Len(all) \in Nat
    BY <1>1, <1>2
  <1> HIDE DEF all
  <1>4. ASSUME NEW i \in 1 .. Len(all)
        PROVE  /\ Known(k, all[i].id) /\ all[i].gate \in DOMAIN m \cup {None}
               /\ all[i].event \in Resolutions => all[i].gate \notin gates
    <2>1. CASE i \in 1 .. Len(log) /\ all[i] = log[i]
      BY <1>1, <2>1, KnownLater DEF Settled
    <2>2. CASE i - Len(log) \in 1 .. Len(ext) /\ all[i] = ext[i - Len(log)]
      BY <2>2
    <2> QED
      BY <1>2, <2>1, <2>2
  <1>5. ASSUME NEW i \in 1 .. Len(all), NEW j \in 1 .. Len(all), all[i].id = all[j].id
        PROVE  i = j
    <2> DEFINE Old(x) == x \in 1 .. Len(log) /\ all[x] = log[x]
               New(x) == x - Len(log) \in 1 .. Len(ext) /\ all[x] = ext[x - Len(log)]
    <2>1. (Old(i) \/ New(i)) /\ (Old(j) \/ New(j))
      BY <1>2
    <2>2. CASE Old(i) /\ Old(j)
      BY <1>1, <1>5, <2>2 DEF DistinctIds
    <2>3. CASE New(i) /\ New(j)
      <3>1. i - Len(log) = j - Len(log)
        BY <1>5, <2>3 DEF DistinctIds
      <3> QED
        BY <1>3, <3>1
    <2>4. CASE Old(i) /\ New(j)
      BY <1>1, <1>5, <2>4
    <2>5. CASE New(i) /\ Old(j)
      BY <1>1, <1>5, <2>5
    <2> QED
      BY <2>1, <2>2, <2>3, <2>4, <2>5
  <1>6. /\ new \in Seq(AuditEntry) /\ Len(new) <= AuditMax
        /\ Len(new) = AuditMax \/ new = all
    BY <1>2, NewestKeeps
  <1>7. PICK d \in Nat :
          Len(all) = Len(new) + d /\ \A i \in 1 .. Len(new) : new[i] = all[i + d]
    BY <1>2, NewestKeeps
  <1> HIDE DEF new
  <1>8. Len(new) \in Nat /\ \A i \in 1 .. Len(new) : i + d \in 1 .. Len(all)
    BY <1>3, <1>6, <1>7
  <1>9. DistinctIds(new)
    <2> SUFFICES ASSUME NEW i \in 1 .. Len(new), NEW j \in 1 .. Len(new), new[i].id = new[j].id
                 PROVE  i = j
      BY DEF DistinctIds
    <2>1. i + d = j + d
      BY <1>5, <1>7, <1>8
    <2> QED
      BY <2>1
  <1>10. LogOK(k, new, m)
    BY <1>4, <1>6, <1>7, <1>8, <1>9 DEF LogOK
  <1>11. Settled(new, gates)
    BY <1>4, <1>7, <1>8 DEF Settled
  <1>12. new = all => /\ Len(new) = Len(log) + Len(ext)
                      /\ \A i \in 1 .. Len(log) : new[i] = log[i]
                      /\ \A i \in 1 .. Len(ext) : new[Len(log) + i] = ext[i]
    BY <1>2
  <1> QED
    BY <1>6, <1>10, <1>11, <1>12 DEF new, all

-----------------------------------------------------------------------------
(* The steps a call is made of.                                            *)

(* What does not move when only the sequence and the log do.               *)
SameGates(s, t) ==
  /\ t.pending = s.pending /\ t.order = s.order
  /\ t.minted = s.minted /\ t.issued = s.issued

LEMMA Identities ==
  ASSUME ClockOK, NEW s, s.seq \in 0 .. SequenceLimit, IdsAvailable(s, 1)
  PROVE  /\ epoch = owner /\ s.seq \in Nat /\ s.seq + 1 \in 0 .. SequenceLimit
         /\ Known(s.seq + 1, NextId(s)) /\ ~Known(s.seq, NextId(s))
         /\ NextId(s)[1] = epoch
  <1>1. /\ epoch = owner /\ owner \in 1 .. MaxOwners /\ s.seq \in Nat
        /\ s.seq + 1 \in 0 .. SequenceLimit
    BY Constants DEF ClockOK, IdsAvailable
  <1>2. NextId(s) \in Ids /\ NextId(s)[1] = owner /\ NextId(s)[2] = s.seq
    BY <1>1, Constants DEF NextId, Ids
  <1>3. owner \in Int
    BY <1>1, Constants
  <1> QED
    BY <1>1, <1>2, <1>3 DEF Known

LEMMA HistoryLater ==
  ASSUME NEW n \in Nat, NEW k \in Nat, n <= k, NEW m, HistoryOK(n, m)
  PROVE  HistoryOK(k, m)
  BY KnownLater DEF HistoryOK

LEMMA LogLater ==
  ASSUME NEW n \in Nat, NEW k \in Nat, n <= k, NEW m, NEW log, LogOK(n, log, m)
  PROVE  LogOK(k, log, m)
  BY KnownLater DEF LogOK

LEMMA Minting ==
  ASSUME ClockOK, NEW s, Core(s), IdsAvailable(s, 1)
  PROVE  /\ Core(Mint(s)) /\ Mint(s).seq = s.seq + 1 /\ Mint(s).audit = s.audit
         /\ SameGates(s, Mint(s))
         /\ NextId(s) \notin DOMAIN s.minted
  <1> DEFINE m == Mint(s)
  <1>1. DOMAIN s = Fields /\ s.ok = TRUE /\ s.seq \in 0 .. SequenceLimit
    BY DEF Core
  <1>2. m = [s EXCEPT !.seq = s.seq + 1]
    BY <1>1 DEF Mint
  <1>3. /\ DOMAIN m = Fields /\ m.seq = s.seq + 1 /\ m.ok = TRUE
        /\ m.pending = s.pending /\ m.order = s.order /\ m.audit = s.audit
        /\ m.minted = s.minted /\ m.issued = s.issued
    BY <1>1, <1>2 DEF Fields
  <1> HIDE DEF m
  <1>4. /\ s.seq \in Nat /\ s.seq + 1 \in 0 .. SequenceLimit
        /\ s.seq + 1 \in Nat /\ s.seq <= s.seq + 1
    BY <1>1, Identities
  <1>5. HistoryOK(m.seq, m.minted) /\ LogOK(m.seq, m.audit, m.minted)
    BY <1>3, <1>4, HistoryLater, LogLater DEF Core
  <1>6. Core(m)
    BY <1>3, <1>4, <1>5 DEF Core
  <1>7. NextId(s) \notin DOMAIN s.minted
    BY <1>1, Identities DEF Core, HistoryOK
  <1> QED
    BY <1>3, <1>6, <1>7 DEF m, SameGates

LEMMA Appending ==
  ASSUME ClockOK, NEW s, Core(s), IdsAvailable(s, 1),
         NEW event \in Events, NEW gate \in DOMAIN s.minted \cup {None},
         event \in Resolutions => gate \notin DOMAIN s.pending
  PROVE  /\ Core(AppendAudit(s, event, gate))
         /\ AppendAudit(s, event, gate).seq = s.seq + 1
         /\ SameGates(s, AppendAudit(s, event, gate))
         /\ \A S : Logged(s, S) => Logged(AppendAudit(s, event, gate), S)
         /\ \A S : event = "pending_created" /\ Logged(s, S \ {gate})
                     => Logged(AppendAudit(s, event, gate), S)
  <1> DEFINE entry == [id |-> NextId(s), event |-> event, gate |-> gate]
             ext == <<entry>>
             m == Mint(s)
             a == AppendAudit(s, event, gate)
             new == Newest(s.audit \o ext)
  <1>1. /\ Core(m) /\ m.seq = s.seq + 1 /\ m.audit = s.audit /\ SameGates(s, m)
    BY Minting
  <1>2. DOMAIN m = Fields /\ m.ok = TRUE /\ s.seq \in 0 .. SequenceLimit
        /\ LogOK(s.seq, s.audit, s.minted) /\ Settled(s.audit, DOMAIN s.pending)
        /\ HistoryOK(s.seq, s.minted) /\ s.audit \in Seq(AuditEntry)
    BY <1>1 DEF Core, LogOK
  <1>3. /\ s.seq \in Nat /\ s.seq + 1 \in Nat /\ s.seq <= s.seq + 1
        /\ Known(s.seq + 1, NextId(s)) /\ ~Known(s.seq, NextId(s))
    BY <1>2, Identities
  <1>4. entry \in AuditEntry
    <2>1. NextId(s) \in Ids
      BY <1>3 DEF Known
    <2>2. gate \in Ids \cup {None}
      BY <1>2 DEF HistoryOK, Known
    <2> QED
      BY <2>1, <2>2 DEF AuditEntry
  <1>5. Append(s.audit, entry) = s.audit \o ext /\ ext \in Seq(AuditEntry)
        /\ Len(ext) = 1 /\ ext[1] = entry
    BY <1>2, <1>4, AppendConcatenates
  <1>6. a = [m EXCEPT !.audit = new]
    <2>1. m.ok /\ Append(m.audit, entry) = s.audit \o ext
      BY <1>1, <1>2, <1>5
    <2>2. a = [m EXCEPT !.audit = Newest(Append(m.audit, entry))]
      BY <2>1 DEF AppendAudit
    <2> QED
      BY <2>1, <2>2
  <1>7. entry.id = NextId(s) /\ entry.gate = gate /\ entry.event = event
    OBVIOUS
  <1> HIDE DEF entry, ext, m, a, new
  <1>8. /\ DOMAIN a = Fields /\ a.seq = m.seq /\ a.ok = TRUE /\ a.audit = new
        /\ a.pending = m.pending /\ a.order = m.order
        /\ a.minted = m.minted /\ a.issued = m.issued
    BY <1>2, <1>6 DEF Fields
  <1>9. \A i \in 1 .. Len(ext) :
           /\ Known(s.seq + 1, ext[i].id) /\ ~Known(s.seq, ext[i].id)
           /\ ext[i].gate \in DOMAIN s.minted \cup {None}
           /\ ext[i].event \in Resolutions => ext[i].gate \notin DOMAIN s.pending
    BY <1>3, <1>5, <1>7
  <1>10. DistinctIds(ext)
    BY <1>5 DEF DistinctIds
  <1>11. /\ LogOK(s.seq + 1, new, s.minted) /\ Settled(new, DOMAIN s.pending)
         /\ \/ Len(new) = AuditMax
            \/ /\ Len(new) = Len(s.audit) + 1
               /\ \A i \in 1 .. Len(s.audit) : new[i] = s.audit[i]
               /\ new[Len(s.audit) + 1] = entry
    <2> DEFINE n == s.seq
               k == s.seq + 1
               gates == DOMAIN s.pending
               log == s.audit
               h == s.minted
    <2>1. /\ n \in Nat /\ k \in Nat /\ n <= k
          /\ LogOK(n, log, h) /\ Settled(log, gates)
          /\ \A i \in 1 .. Len(ext) :
               /\ Known(k, ext[i].id) /\ ~Known(n, ext[i].id)
               /\ ext[i].gate \in DOMAIN h \cup {None}
               /\ ext[i].event \in Resolutions => ext[i].gate \notin gates
      BY <1>2, <1>3, <1>9
    <2>2. new = Newest(log \o ext)
      BY DEF new
    <2> HIDE DEF n, k, gates, log, h
    <2>3. /\ LogOK(k, new, h) /\ Settled(new, gates)
          /\ \/ Len(new) = AuditMax
             \/ /\ Len(new) = Len(log) + Len(ext)
                /\ \A i \in 1 .. Len(log) : new[i] = log[i]
                /\ \A i \in 1 .. Len(ext) : new[Len(log) + i] = ext[i]
      BY <1>5, <1>10, <2>1, <2>2, LogGrows
    <2> USE DEF n, k, gates, log, h
    <2> QED
      BY <1>5, <2>3
  <1>12. Core(a) /\ SameGates(s, a) /\ a.seq = s.seq + 1
    BY <1>1, <1>8, <1>11 DEF Core, SameGates
  <1>13. Len(s.audit) \in Nat /\ Len(new) <= AuditMax /\ AuditMax \in Nat /\ Len(s.audit) <= AuditMax
    BY <1>2, <1>11, Constants DEF LogOK
  <1>14. ASSUME NEW S, Logged(s, S) PROVE Logged(a, S)
    BY <1>8, <1>11, <1>13, <1>14 DEF Logged
  <1>15. ASSUME NEW S, event = "pending_created", Logged(s, S \ {gate})
         PROVE  Logged(a, S)
    <2> SUFFICES ASSUME NEW id \in S, Len(new) # AuditMax, id[1] = epoch
                 PROVE  \E i \in 1 .. Len(new) :
                          new[i].event = "pending_created" /\ new[i].gate = id
      BY <1>8 DEF Logged
    <2>1. CASE id = gate
      <3>1. Len(s.audit) + 1 \in 1 .. Len(new) /\ new[Len(s.audit) + 1] = entry
        BY <1>11, <1>13
      <3> QED
        BY <1>7, <1>15, <2>1, <3>1
    <2>2. CASE id # gate
      <3>1. Len(s.audit) # AuditMax
        BY <1>11, <1>13
      <3>2. PICK i \in 1 .. Len(s.audit) :
              s.audit[i].event = "pending_created" /\ s.audit[i].gate = id
        BY <1>15, <2>2, <3>1 DEF Logged
      <3>3. i \in 1 .. Len(new) /\ new[i] = s.audit[i]
        BY <1>11, <1>13
      <3> QED
        BY <3>2, <3>3
    <2> QED
      BY <2>1, <2>2
  <1> QED
    BY <1>12, <1>14, <1>15 DEF a

(* Gates leave the table and its order together.                           *)
LEMMA TableShrinks ==
  ASSUME NEW p, NEW queue, NEW m, TableOK(p, queue, m), NEW S
  PROVE  /\ TableOK(Drop(p, S), Discard(queue, S), m)
         /\ DOMAIN Drop(p, S) = DOMAIN p \ S
         /\ S \cap DOMAIN p # {} => Len(Discard(queue, S)) < PendingMax
  <1> DEFINE q == Discard(queue, S)
             r == Drop(p, S)
  <1>1. /\ queue \in Seq(Ids) /\ Distinct(queue) /\ ToSet(queue) = DOMAIN p
        /\ Len(queue) <= PendingMax /\ p = [id \in DOMAIN p |-> m[id]]
        /\ DOMAIN p \subseteq DOMAIN m
    BY DEF TableOK
  <1>2. /\ q \in Seq(Ids) /\ Distinct(q) /\ ToSet(q) = DOMAIN p \ S
        /\ Len(q) <= Len(queue)
    BY <1>1, DiscardKeeps
  <1>3. DOMAIN r = DOMAIN p \ S /\ r = [id \in DOMAIN p \ S |-> m[id]]
    BY <1>1 DEF Drop
  <1>4. Len(q) \in Nat /\ Len(queue) \in Nat /\ PendingMax \in Nat
    BY <1>1, <1>2, Constants
  <1> HIDE DEF q, r
  <1>5. TableOK(r, q, m)
    <2>1. Len(q) <= PendingMax
      BY <1>1, <1>2, <1>4
    <2> QED
      BY <1>1, <1>2, <1>3, <2>1 DEF TableOK
  <1>6. ASSUME S \cap DOMAIN p # {} PROVE Len(q) < PendingMax
    <2>1. /\ IsFiniteSet(ToSet(queue)) /\ Cardinality(ToSet(queue)) = Len(queue)
          /\ Cardinality(ToSet(q)) = Len(q)
      BY <1>1, <1>2, DistinctCounts
    <2>2. ToSet(q) \in SUBSET ToSet(queue) /\ ToSet(q) # ToSet(queue)
      BY <1>1, <1>2, <1>6
    <2>3. Len(q) # Len(queue)
      BY <2>1, <2>2, FS_Subset
    <2> QED
      BY <1>1, <1>2, <1>4, <2>3
  <1> QED
    BY <1>3, <1>5, <1>6 DEF q, r

LEMMA PendingCounts ==
  ASSUME NEW s, Core(s)
  PROVE  /\ IsFiniteSet(DOMAIN s.pending)
         /\ Cardinality(DOMAIN s.pending) = Len(s.order)
         /\ Len(s.order) \in Nat /\ Len(s.order) <= PendingMax
  BY DistinctCounts DEF Core, TableOK

LEMMA CloseKeeps ==
  ASSUME NEW s, Core(s), NEW id \in DOMAIN s.pending
  PROVE  /\ Core(Close(s, id))
         /\ Close(s, id).seq = s.seq /\ Close(s, id).audit = s.audit
         /\ Close(s, id).minted = s.minted /\ Close(s, id).issued = s.issued
         /\ Close(s, id).pending = Drop(s.pending, {id})
         /\ DOMAIN Close(s, id).pending = DOMAIN s.pending \ {id}
         /\ Len(Close(s, id).order) < PendingMax
  <1> DEFINE c == Close(s, id)
  <1>1. DOMAIN s = Fields /\ s.ok = TRUE
    BY DEF Core
  <1>2. /\ DOMAIN c = Fields /\ c.ok = TRUE /\ c.seq = s.seq /\ c.audit = s.audit
        /\ c.minted = s.minted /\ c.issued = s.issued
        /\ c.pending = Drop(s.pending, {id}) /\ c.order = Discard(s.order, {id})
    BY <1>1 DEF Close, Fields
  <1> HIDE DEF c
  <1>3. TableOK(s.pending, s.order, s.minted)
    BY DEF Core
  <1>4. {id} \cap DOMAIN s.pending # {}
    OBVIOUS
  <1>5. /\ TableOK(c.pending, c.order, s.minted)
        /\ DOMAIN c.pending = DOMAIN s.pending \ {id} /\ Len(c.order) < PendingMax
    <2>1. /\ TableOK(Drop(s.pending, {id}), Discard(s.order, {id}), s.minted)
          /\ DOMAIN Drop(s.pending, {id}) = DOMAIN s.pending \ {id}
          /\ Len(Discard(s.order, {id})) < PendingMax
      BY <1>3, <1>4, TableShrinks, Zenon
    <2> QED
      BY <1>2, <2>1
  <1>6. Settled(c.audit, DOMAIN c.pending)
    BY <1>2, <1>5 DEF Core, Settled
  <1>7. Core(c)
    BY <1>2, <1>5, <1>6 DEF Core
  <1> QED
    BY <1>2, <1>5, <1>7 DEF c

(* The sweep: what it lapses was overdue, and it leaves nothing overdue    *)
(* while the owner can mint.                                               *)
LEMMA Sweeping ==
  ASSUME ClockOK, NEW s, Core(s), NEW lapsed \in Injection(1 .. Lapses(s), Overdue(s))
  PROVE  /\ Core(Sweep(s, lapsed))
         /\ Sweep(s, lapsed).minted = s.minted
         /\ Sweep(s, lapsed).pending = Drop(s.pending, ToSet(lapsed))
         /\ Sweep(s, lapsed).issued
              = s.issued \cup {Closing(id, "timeout_fallback", None, None, None) :
                                 id \in ToSet(lapsed)}
         /\ DOMAIN Sweep(s, lapsed).pending = DOMAIN s.pending \ ToSet(lapsed)
         /\ ToSet(lapsed) \subseteq Overdue(s)
         /\ s.seq <= Sweep(s, lapsed).seq
         /\ \A S : Logged(s, S) => Logged(Sweep(s, lapsed), S)
         /\ IdsAvailable(Sweep(s, lapsed), 1) => Overdue(Sweep(s, lapsed)) = {}
  <1> DEFINE w == Sweep(s, lapsed)
             n == s.seq
             c == Lapses(s)
             Entry2(k) == [id |-> <<epoch, s.seq + k - 1>>,
                           event |-> "timeout_fallback", gate |-> lapsed[k]]
             ext == [k \in DOMAIN lapsed |-> Entry2(k)]
             new == Newest(s.audit \o ext)
             gone == ToSet(lapsed)
  <1>1. /\ DOMAIN s = Fields /\ s.ok = TRUE /\ n \in 0 .. SequenceLimit
        /\ LogOK(n, s.audit, s.minted) /\ Settled(s.audit, DOMAIN s.pending)
        /\ HistoryOK(n, s.minted) /\ TableOK(s.pending, s.order, s.minted)
        /\ DOMAIN s.pending \subseteq DOMAIN s.minted
        /\ \A id \in DOMAIN s.minted : id \in Ids
    BY DEF Core, TableOK, HistoryOK, Known
  <1>2. IsFiniteSet(Overdue(s)) /\ Cardinality(Overdue(s)) \in Nat
    <2>1. Overdue(s) \in SUBSET DOMAIN s.pending
      BY DEF Overdue
    <2> QED
      BY <2>1, PendingCounts, FS_Subset, FS_CardinalityType
  <1>3. /\ c \in Nat /\ n + c \in 0 .. SequenceLimit /\ n \in Nat /\ n + c \in Nat /\ n <= n + c
        /\ c # 0 => epoch = owner /\ owner \in 1 .. MaxOwners
        /\ epoch # None => c = Cardinality(Overdue(s)) \/ n + c = SequenceLimit
    BY <1>1, <1>2, Constants DEF Lapses, Smaller, ClockOK
  <1>4. /\ lapsed \in [1 .. c -> Overdue(s)]
        /\ \A i, j \in 1 .. c : lapsed[i] = lapsed[j] => i = j
    BY DEF Injection, IsInjective
  <1>5. lapsed \in Seq(Overdue(s)) /\ Len(lapsed) = c /\ DOMAIN lapsed = 1 .. c
    <2> HIDE DEF c
    <2> QED
      BY <1>3, <1>4, FunctionAsSequence
  <1>6. /\ gone \subseteq Overdue(s) /\ \A k \in 1 .. c : lapsed[k] \in gone
        /\ \A k \in 1 .. c : lapsed[k] \in DOMAIN s.pending
    <2> HIDE DEF c
    <2>1. gone \subseteq Overdue(s) /\ \A k \in 1 .. c : lapsed[k] \in gone /\ lapsed[k] \in Overdue(s)
      BY <1>5, Members
    <2> QED
      BY <2>1 DEF Overdue
  <1>7. /\ DOMAIN w = Fields /\ w.ok = TRUE /\ w.seq = n + c /\ w.audit = new
        /\ w.pending = Drop(s.pending, gone) /\ w.order = Discard(s.order, gone)
        /\ w.minted = s.minted
        /\ w.issued = s.issued \cup {Closing(id, "timeout_fallback", None, None, None) : id \in gone}
    BY <1>1, <1>5 DEF Sweep, Fields
  <1>8. \A k \in 1 .. c : /\ ext[k] = Entry2(k) /\ ext[k].id = <<epoch, n + k - 1>>
                          /\ ext[k].gate = lapsed[k] /\ ext[k].event = "timeout_fallback"
    BY <1>5
  <1> HIDE DEF w, c, new, gone
  <1>9. \A k \in 1 .. c :
          /\ ext[k].id \in Ids /\ Known(n + c, ext[k].id) /\ ~Known(n, ext[k].id)
    <2> SUFFICES ASSUME NEW k \in 1 .. c
                 PROVE  /\ ext[k].id \in Ids /\ Known(n + c, ext[k].id) /\ ~Known(n, ext[k].id)
      OBVIOUS
    <2>1. epoch = owner /\ owner \in 1 .. MaxOwners /\ n + k - 1 \in 0 .. SequenceLimit
          /\ n + k - 1 < n + c /\ ~(n + k - 1 < n)
      BY <1>3, Constants
    <2>2. <<epoch, n + k - 1>> \in Ids
      BY <2>1, Constants DEF Ids
    <2> HIDE DEF ext, Entry2, n
    <2>3. ext[k].id = <<epoch, n + k - 1>> /\ ext[k].id[1] = owner /\ ext[k].id[2] = n + k - 1
      <3>1. ext[k].id = <<epoch, n + k - 1>>
        BY <1>8
      <3> QED
        BY <2>1, <3>1
    <2>4. owner <= owner
      BY <2>1, Constants
    <2> QED
      BY <2>1, <2>2, <2>3, <2>4 DEF Known
  <1>10. ext \in Seq(AuditEntry) /\ Len(ext) = c
    <2>1. \A k \in 1 .. c : Entry2(k) \in AuditEntry
      <3> SUFFICES ASSUME NEW k \in 1 .. c PROVE Entry2(k) \in AuditEntry
        OBVIOUS
      <3>1. <<epoch, s.seq + k - 1>> \in Ids
        BY <1>8, <1>9
      <3>2. lapsed[k] \in Ids
        BY <1>1, <1>6
      <3> QED
        BY <3>1, <3>2 DEF AuditEntry, Events
    <2>2. ext \in [1 .. c -> AuditEntry]
      BY <1>5, <2>1
    <2> HIDE DEF ext
    <2> QED
      BY <1>3, <2>2, FunctionAsSequence
  <1> HIDE DEF ext, Entry2
  <1>11. DistinctIds(ext)
    <2> SUFFICES ASSUME NEW i \in 1 .. c, NEW j \in 1 .. c, ext[i].id = ext[j].id
                 PROVE  i = j
      BY <1>10 DEF DistinctIds
    <2>1. n + i - 1 = n + j - 1
      BY <1>8
    <2> QED
      BY <1>3, <2>1
  <1>12. TableOK(w.pending, w.order, s.minted) /\ DOMAIN w.pending = DOMAIN s.pending \ gone
    <2>1. /\ TableOK(Drop(s.pending, gone), Discard(s.order, gone), s.minted)
          /\ DOMAIN Drop(s.pending, gone) = DOMAIN s.pending \ gone
      BY <1>1, TableShrinks, Zenon
    <2> QED
      BY <1>7, <2>1
  <1>13. Settled(s.audit, DOMAIN w.pending)
    BY <1>1, <1>12 DEF Settled
  <1>14. \A i \in 1 .. Len(ext) :
           /\ Known(n + c, ext[i].id) /\ ~Known(n, ext[i].id)
           /\ ext[i].gate \in DOMAIN s.minted \cup {None}
           /\ ext[i].event \in Resolutions => ext[i].gate \notin DOMAIN w.pending
    BY <1>1, <1>6, <1>8, <1>9, <1>10, <1>12
  <1>15. /\ LogOK(n + c, new, s.minted) /\ Settled(new, DOMAIN w.pending)
         /\ \/ Len(new) = AuditMax
            \/ /\ Len(new) = Len(s.audit) + c
               /\ \A i \in 1 .. Len(s.audit) : new[i] = s.audit[i]
    <2> DEFINE k == n + c
               gates == DOMAIN w.pending
               log == s.audit
               h == s.minted
    <2>1. /\ n \in Nat /\ k \in Nat /\ n <= k
          /\ LogOK(n, log, h) /\ Settled(log, gates)
          /\ \A i \in 1 .. Len(ext) :
               /\ Known(k, ext[i].id) /\ ~Known(n, ext[i].id)
               /\ ext[i].gate \in DOMAIN h \cup {None}
               /\ ext[i].event \in Resolutions => ext[i].gate \notin gates
      BY <1>1, <1>3, <1>13, <1>14
    <2>2. new = Newest(log \o ext)
      BY DEF new
    <2> HIDE DEF n, k, gates, log, h
    <2>3. /\ LogOK(k, new, h) /\ Settled(new, gates)
          /\ \/ Len(new) = AuditMax
             \/ /\ Len(new) = Len(log) + Len(ext)
                /\ \A i \in 1 .. Len(log) : new[i] = log[i]
                /\ \A i \in 1 .. Len(ext) : new[Len(log) + i] = ext[i]
      BY <1>10, <1>11, <2>1, <2>2, LogGrows
    <2> USE DEF n, k, gates, log, h
    <2> QED
      BY <1>10, <2>3
  <1>16. Core(w)
    BY <1>1, <1>3, <1>7, <1>12, <1>15, HistoryLater DEF Core
  <1>17. Len(s.audit) \in Nat /\ Len(new) <= AuditMax /\ AuditMax \in Nat /\ Len(s.audit) <= AuditMax
    BY <1>1, <1>15, Constants DEF LogOK
  <1>18. ASSUME NEW S, Logged(s, S) PROVE Logged(w, S)
    BY <1>3, <1>7, <1>15, <1>17, <1>18 DEF Logged
  <1>19. ASSUME IdsAvailable(w, 1) PROVE Overdue(w) = {}
    <2>1. epoch # None /\ n + c + 1 <= SequenceLimit
      BY <1>7, <1>19 DEF IdsAvailable
    <2>2. c = Cardinality(Overdue(s))
      BY <1>3, <2>1, Constants
    <2>3. IsFiniteSet(1 .. c) /\ Cardinality(1 .. c) = c
      <3>1. 1 \in Int /\ c \in Int
        BY <1>3
      <3>2. IsFiniteSet(1 .. c) /\ Cardinality(1 .. c) = IF 1 > c THEN 0 ELSE c - 1 + 1
        BY <3>1, FS_Interval
      <3> QED
        BY <1>3, <3>2
    <2>4. lapsed \in Injection(1 .. c, Overdue(s))
      BY DEF c
    <2>5. lapsed \in Surjection(1 .. c, Overdue(s))
      BY <1>2, <2>2, <2>3, <2>4, FS_Injection
    <2>6. \A id \in Overdue(s) : id \in gone
      BY <1>6, <2>5 DEF Surjection
    <2>7. \A id \in DOMAIN w.pending : id \in DOMAIN s.pending /\ id \notin gone /\ w.pending[id] = s.pending[id]
      BY <1>7, <1>12 DEF Drop
    <2> QED
      BY <2>6, <2>7 DEF Overdue
  <1> QED
    BY <1>3, <1>6, <1>7, <1>12, <1>16, <1>18, <1>19 DEF w, gone

(* A function with one more gate.                                          *)
Extended(f, id, entry) ==
  [x \in DOMAIN f \cup {id} |-> IF x = id THEN entry ELSE f[x]]

(* The table after the gate came: all of it, or all but one older gate if  *)
(* it was full.                                                            *)
Admitted(queue, before, after, id, entry) ==
  \/ Len(queue) < PendingMax /\ after = Extended(before, id, entry)
  \/ /\ Len(queue) = PendingMax
     /\ \E x \in DOMAIN before : after = Drop(Extended(before, id, entry), {x})

(* A new gate at the end of the order; a full table drops its first, which *)
(* is never the new one.                                                   *)
LEMMA Queueing ==
  ASSUME NEW queue \in Seq(Ids), Distinct(queue), Len(queue) <= PendingMax,
         NEW id \in Ids, id \notin ToSet(queue)
  PROVE  LET all == Append(Discard(queue, {id}), id)
             kept == Cut(all, PendingMax)
         IN  /\ kept \in Seq(Ids) /\ Distinct(kept) /\ Len(kept) <= PendingMax
             /\ ToSet(all) = ToSet(queue) \cup {id}
             /\ ToSet(kept) \subseteq ToSet(all) /\ id \in ToSet(kept)
             /\ Len(queue) < PendingMax => ToSet(all) \ ToSet(kept) = {}
             /\ Len(queue) = PendingMax =>
                  \E x \in ToSet(queue) : ToSet(all) \ ToSet(kept) = {x}
  <1> DEFINE base == Discard(queue, {id})
             all == Append(base, id)
             kept == Cut(all, PendingMax)
  <1>1. /\ base \in Seq(Ids) /\ Distinct(base) /\ ToSet(base) = ToSet(queue)
    <2>1. /\ base \in Seq(Ids) /\ ToSet(base) = ToSet(queue) \ {id}
          /\ Distinct(queue) => Distinct(base)
      BY DiscardKeeps, Zenon
    <2> QED
      BY <2>1
  <1>2. Len(base) = Len(queue) /\ Len(queue) \in Nat /\ PendingMax \in Nat /\ PendingMax > 0
    <2>1. Cardinality(ToSet(base)) = Len(base) /\ Cardinality(ToSet(queue)) = Len(queue)
      BY <1>1, DistinctCounts
    <2> QED
      BY <1>1, <2>1, Constants
  <1> HIDE DEF base
  <1>3. /\ all \in Seq(Ids) /\ Len(all) = Len(base) + 1
        /\ \A i \in 1 .. Len(base) : all[i] = base[i]
        /\ all[Len(base) + 1] = id
    BY <1>1
  <1> HIDE DEF all
  <1>4. \A i \in 1 .. Len(all) : i \in 1 .. Len(base) \/ i = Len(base) + 1
    BY <1>2, <1>3
  <1>5. ToSet(all) = ToSet(queue) \cup {id}
    <2>1. ASSUME NEW x \in ToSet(all) PROVE x \in ToSet(base) \cup {id}
      BY <1>1, <1>3, <1>4, Members
    <2>2. ASSUME NEW x \in ToSet(base) PROVE x \in ToSet(all)
      <3>1. PICK i \in 1 .. Len(base) : x = base[i]
        BY <1>1, Members
      <3>2. i \in 1 .. Len(all) /\ all[i] = x
        BY <1>2, <1>3, <3>1
      <3> QED
        BY <1>3, <3>2, Members
    <2>3. id \in ToSet(all)
      <3>1. Len(base) + 1 \in 1 .. Len(all)
        BY <1>2, <1>3
      <3> QED
        BY <1>3, <3>1, Members
    <2> QED
      BY <1>1, <2>1, <2>2, <2>3
  <1>6. ASSUME NEW i \in 1 .. Len(all), NEW j \in 1 .. Len(all), all[i] = all[j]
        PROVE  i = j
    <2>1. \A x \in 1 .. Len(base) : all[x] # id
      BY <1>1, <1>3, Members
    <2>2. CASE i \in 1 .. Len(base) /\ j \in 1 .. Len(base)
      BY <1>1, <1>3, <1>6, <2>2 DEF Distinct
    <2>3. CASE ~(i \in 1 .. Len(base) /\ j \in 1 .. Len(base))
      BY <1>3, <1>4, <1>6, <2>1, <2>3
    <2> QED
      BY <2>2, <2>3
  <1>d. /\ kept \in Seq(Ids) /\ Len(kept) <= PendingMax
        /\ \E d \in Nat :
             /\ Len(all) = Len(kept) + d
             /\ \A i \in 1 .. Len(kept) : kept[i] = all[i + d]
        /\ Len(kept) = PendingMax \/ kept = all
    BY <1>2, <1>3, CutKeeps, Zenon
  <1>7. kept \in Seq(Ids) /\ Len(kept) <= PendingMax
        /\ (Len(kept) = PendingMax \/ kept = all)
    BY <1>d
  <1>8. PICK d \in Nat :
          Len(all) = Len(kept) + d /\ \A i \in 1 .. Len(kept) : kept[i] = all[i + d]
    <2> HIDE DEF kept
    <2> QED
      BY <1>d
  <1>9. Len(all) <= PendingMax => kept = all
    BY <1>2, <1>3 DEF Cut
  <1> HIDE DEF kept
  <1>10. /\ Len(kept) \in Nat /\ \A i \in 1 .. Len(kept) : i + d \in 1 .. Len(all)
         /\ Len(kept) > 0
    BY <1>2, <1>3, <1>7, <1>8, <1>9
  <1>11. Distinct(kept)
    <2> SUFFICES ASSUME NEW i \in 1 .. Len(kept), NEW j \in 1 .. Len(kept), kept[i] = kept[j]
                 PROVE  i = j
      BY DEF Distinct
    <2>1. i + d = j + d
      BY <1>6, <1>8, <1>10
    <2> QED
      BY <2>1
  <1>12. ToSet(kept) \subseteq ToSet(all)
    <2> SUFFICES ASSUME NEW x \in ToSet(kept) PROVE x \in ToSet(all)
      OBVIOUS
    <2>1. PICK i \in 1 .. Len(kept) : x = kept[i]
      BY <1>7, Members
    <2> QED
      BY <1>3, <1>8, <1>10, <2>1, Members
  <1>13. id \in ToSet(kept)
    <2>1. Len(kept) \in 1 .. Len(kept) /\ Len(kept) + d = Len(base) + 1
      BY <1>3, <1>8, <1>10
    <2>2. kept[Len(kept)] = all[Len(base) + 1]
      BY <1>8, <2>1
    <2> QED
      BY <1>3, <1>7, <2>1, <2>2, Members
  <1>14. Len(queue) < PendingMax => ToSet(all) \ ToSet(kept) = {}
    <2>1. Len(queue) < PendingMax => kept = all
      BY <1>2, <1>3, <1>9
    <2> QED
      BY <2>1
  <1>15. ASSUME Len(queue) = PendingMax
         PROVE  \E x \in ToSet(queue) : ToSet(all) \ ToSet(kept) = {x}
    <2>1. d = 1 /\ 1 \in 1 .. Len(base) /\ 1 \in 1 .. Len(all) /\ Len(all) = Len(kept) + 1
      <3>1. Len(all) = PendingMax + 1 /\ kept # all
        BY <1>2, <1>3, <1>7, <1>15
      <3> QED
        BY <1>2, <1>3, <1>7, <1>8, <1>10, <1>15, <3>1
    <2>2. all[1] \in ToSet(queue) /\ all[1] \in ToSet(all)
      BY <1>1, <1>3, <2>1, Members
    <2>3. all[1] \notin ToSet(kept)
      <3> SUFFICES ASSUME all[1] \in ToSet(kept) PROVE FALSE
        OBVIOUS
      <3>1. PICK i \in 1 .. Len(kept) : all[1] = kept[i]
        BY <1>7, Members
      <3>2. 1 = i + d
        BY <1>6, <1>8, <1>10, <2>1, <3>1
      <3> QED
        BY <2>1, <3>2
    <2>4. ASSUME NEW x \in ToSet(all), x # all[1] PROVE x \in ToSet(kept)
      <3>1. PICK i \in 1 .. Len(all) : x = all[i]
        BY <1>3, Members
      <3>2. i - 1 \in 1 .. Len(kept) /\ (i - 1) + d = i
        BY <1>10, <2>1, <2>4, <3>1
      <3>3. kept[i - 1] = x
        BY <1>8, <3>1, <3>2
      <3> QED
        BY <1>7, <3>2, <3>3, Members
    <2> QED
      BY <2>2, <2>3, <2>4
  <1> QED
    BY <1>5, <1>7, <1>11, <1>12, <1>13, <1>14, <1>15 DEF kept, all, base

LEMMA Upserting ==
  ASSUME NEW s, Core(s), NEW id, Known(s.seq, id), id \notin DOMAIN s.minted,
         NEW entry \in EntryType, entry.created <= entry.deadline
  PROVE  LET u == Upsert(s, id, entry)
         IN  /\ Core(u) /\ u.seq = s.seq /\ u.audit = s.audit /\ u.issued = s.issued
             /\ u.minted = Extended(s.minted, id, entry)
             /\ DOMAIN u.pending \subseteq DOMAIN s.pending \cup {id}
             /\ Admitted(s.order, s.pending, u.pending, id, entry)
  <1> DEFINE u == Upsert(s, id, entry)
             all == Append(Discard(s.order, {id}), id)
             kept == Cut(all, PendingMax)
             gone == ToSet(all) \ ToSet(kept)
             p == Extended(s.pending, id, entry)
             m == Extended(s.minted, id, entry)
  <1>1. /\ DOMAIN s = Fields /\ s.ok = TRUE /\ s.order \in Seq(Ids) /\ Distinct(s.order)
        /\ ToSet(s.order) = DOMAIN s.pending /\ Len(s.order) <= PendingMax
        /\ DOMAIN s.pending \subseteq DOMAIN s.minted
        /\ s.pending = [x \in DOMAIN s.pending |-> s.minted[x]]
        /\ HistoryOK(s.seq, s.minted) /\ LogOK(s.seq, s.audit, s.minted)
        /\ Settled(s.audit, DOMAIN s.pending)
    BY DEF Core, TableOK
  <1>2. id \in Ids /\ id \notin ToSet(s.order)
    BY <1>1 DEF Known
  <1>3. /\ kept \in Seq(Ids) /\ Distinct(kept) /\ Len(kept) <= PendingMax
        /\ ToSet(all) = DOMAIN s.pending \cup {id}
        /\ ToSet(kept) \subseteq ToSet(all) /\ id \in ToSet(kept)
        /\ Len(s.order) < PendingMax => gone = {}
        /\ Len(s.order) = PendingMax => \E x \in DOMAIN s.pending : gone = {x}
    BY <1>1, <1>2, Queueing
  <1>4. u = [s EXCEPT !.order = kept, !.pending = Drop(p, gone), !.minted = m]
    BY DEF Upsert, Extended, Cut
  <1> HIDE DEF u, all, kept, gone, p, m
  <1>5. /\ DOMAIN u = Fields /\ u.ok = TRUE /\ u.seq = s.seq /\ u.audit = s.audit
        /\ u.issued = s.issued /\ u.order = kept /\ u.pending = Drop(p, gone) /\ u.minted = m
    BY <1>1, <1>4 DEF Fields
  <1>6. /\ DOMAIN m = DOMAIN s.minted \cup {id} /\ m[id] = entry
        /\ \A x \in DOMAIN s.minted : m[x] = s.minted[x]
        /\ DOMAIN p = DOMAIN s.pending \cup {id}
        /\ \A x \in DOMAIN p : p[x] = m[x]
    BY <1>1 DEF m, p, Extended
  <1>7. HistoryOK(u.seq, u.minted)
    <2>1. m = [x \in DOMAIN m |-> m[x]]
      BY DEF m, Extended
    <2>2. ASSUME NEW x \in DOMAIN m
          PROVE  Known(s.seq, x) /\ m[x] \in EntryType /\ m[x].created <= m[x].deadline
      BY <1>1, <1>6 DEF HistoryOK
    <2> QED
      BY <1>5, <2>1, <2>2 DEF HistoryOK
  <1>8. /\ DOMAIN Drop(p, gone) = ToSet(kept)
        /\ Drop(p, gone) = [x \in ToSet(kept) |-> m[x]]
    <2>1. DOMAIN p \ gone = ToSet(kept)
      BY <1>3, <1>6 DEF gone
    <2> QED
      BY <1>6, <2>1 DEF Drop
  <1>9. TableOK(u.pending, u.order, u.minted)
    <2>1. ToSet(kept) \subseteq DOMAIN m
      BY <1>1, <1>3, <1>6
    <2> QED
      BY <1>3, <1>5, <1>8, <2>1 DEF TableOK
  <1>10. LogOK(u.seq, u.audit, u.minted)
    BY <1>1, <1>5, <1>6 DEF LogOK
  <1>11. Settled(u.audit, DOMAIN u.pending)
    <2> SUFFICES ASSUME NEW i \in 1 .. Len(s.audit), s.audit[i].event \in Resolutions,
                        s.audit[i].gate \in ToSet(kept)
                 PROVE  FALSE
      BY <1>5, <1>8 DEF Settled
    <2>1. s.audit[i].gate \notin DOMAIN s.pending
      BY <1>1 DEF Settled
    <2>2. s.audit[i].gate = id
      BY <1>3, <2>1
    <2>3. id = None
      BY <1>1, <2>2 DEF LogOK
    <2> QED
      BY <1>2, <2>3, Constants
  <1>12. Core(u)
    BY <1>1, <1>5, <1>7, <1>9, <1>10, <1>11 DEF Core
  <1>13. DOMAIN u.pending \subseteq DOMAIN s.pending \cup {id}
    BY <1>3, <1>5, <1>8
  <1>14. Len(s.order) < PendingMax => u.pending = p
    <2>1. Drop(p, {}) = p
      BY DEF Drop, p, Extended
    <2> QED
      BY <1>3, <1>5, <2>1
  <1>15. Len(s.order) = PendingMax => \E x \in DOMAIN s.pending : u.pending = Drop(p, {x})
    BY <1>3, <1>5
  <1>16. Admitted(s.order, s.pending, u.pending, id, entry)
    <2>1. Len(s.order) < PendingMax \/ Len(s.order) = PendingMax
      BY <1>1, Constants
    <2> QED
      BY <1>14, <1>15, <2>1 DEF Admitted, p
  <1> QED
    BY <1>5, <1>12, <1>13, <1>16 DEF u, m

-----------------------------------------------------------------------------
(* Whole calls.                                                            *)

LEMMA LoggedSame ==
  ASSUME NEW s, NEW t, t.audit = s.audit, NEW S, NEW T, T \subseteq S, Logged(s, S)
  PROVE  Logged(t, T)
  BY DEF Logged

LEMMA Entries ==
  ASSUME ClockOK, NEW r \in Requests, now + Clamp(r.timeout) <= MaxTime
  PROVE  /\ Entry(r) \in EntryType /\ Entry(r).created <= Entry(r).deadline
         /\ Entry(r).deadline - now \in TimeoutMin .. TimeoutMax
  <1>1. /\ r.timeout \in Nat /\ r.actor \in People /\ r.requested \in People \cup {None}
        /\ now \in 0 .. MaxTime
    BY GatingAssumption DEF ClockOK
  <1>2. Clamp(r.timeout) \in TimeoutMin .. TimeoutMax
    BY <1>1, Constants DEF Clamp
  <1>3. now + Clamp(r.timeout) \in 0 .. MaxTime
    BY <1>1, <1>2, Constants
  <1> QED
    BY <1>1, <1>2, <1>3, Constants DEF Entry, EntryType

(* A gate opened: what OpenGate leaves, with or without a notification.    *)
LEMMA OpenGateKeeps ==
  ASSUME ClockOK, NEW s, Core(s), Logged(s, DOMAIN s.pending), IdsAvailable(s, 3),
         NEW r \in Requests, now + Clamp(r.timeout) <= MaxTime
  PROVE  LET o == OpenGate(s, r)
             id == NextId(s)
         IN  /\ Core(o) /\ Logged(o, DOMAIN o.pending) /\ s.seq <= o.seq
             /\ o.issued = s.issued /\ id \in Ids \ DOMAIN s.minted
             /\ o.minted = Extended(s.minted, id, Entry(r))
             /\ Admitted(s.order, s.pending, o.pending, id, Entry(r))
  <1> DEFINE id == NextId(s)
             named == Mint(s)
             held == Upsert(named, id, Entry(r))
             logged == AppendAudit(held, "pending_created", id)
             told == AppendAudit(logged, "approval_notification", id)
             o == OpenGate(s, r)
  <1>1. s.seq \in 0 .. SequenceLimit /\ SequenceLimit \in Nat /\ s.seq \in Nat
        /\ epoch # None /\ s.seq + 3 <= SequenceLimit
    BY Constants DEF Core, IdsAvailable
  <1>2. IdsAvailable(s, 1)
    BY <1>1 DEF IdsAvailable
  <1>3. /\ Core(named) /\ named.seq = s.seq + 1 /\ named.audit = s.audit
        /\ SameGates(s, named) /\ id \notin DOMAIN s.minted /\ named.ok = TRUE
    BY <1>2, Minting DEF Core
  <1>4. Known(s.seq + 1, id) /\ id \in Ids
    BY <1>1, <1>2, Identities DEF Known
  <1>5. Entry(r) \in EntryType /\ Entry(r).created <= Entry(r).deadline
    BY Entries
  <1>6. o = IF r.notified THEN told ELSE logged
    BY <1>3 DEF OpenGate
  <1> HIDE DEF id, named
  <1>7. /\ Core(held) /\ held.seq = named.seq /\ held.audit = named.audit
        /\ held.issued = named.issued
        /\ held.minted = Extended(named.minted, id, Entry(r))
        /\ DOMAIN held.pending \subseteq DOMAIN named.pending \cup {id}
        /\ Admitted(named.order, named.pending, held.pending, id, Entry(r))
    <2>1. Known(named.seq, id) /\ id \notin DOMAIN named.minted
      BY <1>3, <1>4 DEF SameGates
    <2> QED
      BY <1>3, <1>5, <2>1, Upserting
  <1> HIDE DEF held
  <1>8. IdsAvailable(held, 1) /\ id \in DOMAIN held.minted
    BY <1>1, <1>3, <1>7 DEF IdsAvailable, Extended
  <1>9. Logged(held, DOMAIN held.pending \ {id})
    <2>1. held.audit = s.audit /\ DOMAIN held.pending \ {id} \subseteq DOMAIN s.pending
      BY <1>3, <1>7 DEF SameGates
    <2> QED
      BY <2>1, LoggedSame
  <1>10. /\ Core(logged) /\ logged.seq = held.seq + 1 /\ SameGates(held, logged)
         /\ Logged(logged, DOMAIN held.pending)
    BY <1>7, <1>8, <1>9, Appending DEF Events, Resolutions
  <1> HIDE DEF logged
  <1>11. IdsAvailable(logged, 1) /\ id \in DOMAIN logged.minted
    BY <1>1, <1>3, <1>7, <1>8, <1>10 DEF IdsAvailable, SameGates
  <1>12. /\ Core(told) /\ told.seq = logged.seq + 1 /\ SameGates(logged, told)
         /\ Logged(told, DOMAIN held.pending)
    BY <1>10, <1>11, Appending DEF Events, Resolutions
  <1> HIDE DEF told, o
  <1>13. Core(o) /\ SameGates(held, o) /\ Logged(o, DOMAIN held.pending) /\ s.seq <= o.seq
    BY <1>1, <1>3, <1>6, <1>7, <1>10, <1>12 DEF SameGates
  <1>14. /\ o.issued = s.issued /\ o.minted = Extended(s.minted, id, Entry(r))
         /\ o.pending = held.pending /\ named.pending = s.pending /\ named.order = s.order
    BY <1>3, <1>7, <1>13 DEF SameGates
  <1> QED
    BY <1>3, <1>4, <1>7, <1>13, <1>14 DEF o, id

(* An evaluation opens one gate, or touches no gate.                       *)
LEMMA EvaluationKeeps ==
  ASSUME ClockOK, NEW s, Core(s), Logged(s, DOMAIN s.pending),
         IdsAvailable(s, IdsPerEvaluation),
         NEW r \in Requests, r.tier = "R3" => now + Clamp(r.timeout) <= MaxTime
  PROVE  LET e == Evaluation(s, r)
         IN  /\ Core(e) /\ Logged(e, DOMAIN e.pending) /\ s.seq <= e.seq
             /\ e.issued = s.issued
             /\ \/ e.minted = s.minted /\ e.pending = s.pending
                \/ \E id \in Ids \ DOMAIN s.minted :
                     /\ now + Clamp(r.timeout) <= MaxTime
                     /\ e.minted = Extended(s.minted, id, Entry(r))
                     /\ Admitted(s.order, s.pending, e.pending, id, Entry(r))
  <1> DEFINE named == Mint(s)
             e == Evaluation(s, r)
  <1>1. s.seq \in 0 .. SequenceLimit /\ SequenceLimit \in Nat /\ s.seq \in Nat
        /\ epoch # None /\ s.seq + 4 <= SequenceLimit
    BY Constants DEF Core, IdsAvailable, IdsPerEvaluation
  <1>2. IdsAvailable(s, 1)
    BY <1>1 DEF IdsAvailable
  <1>3. /\ Core(named) /\ named.seq = s.seq + 1 /\ named.audit = s.audit
        /\ SameGates(s, named)
    BY <1>2, Minting
  <1>4. Logged(named, DOMAIN named.pending)
    BY <1>3, LoggedSame DEF SameGates
  <1>5. IdsAvailable(named, 1) /\ IdsAvailable(named, 3)
    BY <1>1, <1>3 DEF IdsAvailable
  <1>6. \/ e = named
        \/ e = AppendAudit(named, "conflict_blocked", None)
        \/ e = AppendAudit(named, "evaluated", None)
        \/ e = OpenGate(named, r) /\ r.tier = "R3"
    BY DEF Evaluation
  <1> HIDE DEF named, e
  <1>7. CASE e = named
    BY <1>1, <1>3, <1>4, <1>7 DEF SameGates, e
  <1>8. ASSUME NEW event \in {"conflict_blocked", "evaluated"}, e = AppendAudit(named, event, None)
        PROVE  /\ Core(e) /\ Logged(e, DOMAIN e.pending) /\ s.seq <= e.seq
               /\ e.issued = s.issued /\ e.minted = s.minted /\ e.pending = s.pending
    <2>1. event \in Events /\ event \notin Resolutions /\ None \in DOMAIN named.minted \cup {None}
      BY DEF Events, Resolutions
    <2>2. /\ Core(e) /\ e.seq = named.seq + 1 /\ SameGates(named, e)
          /\ Logged(e, DOMAIN named.pending)
      BY <1>3, <1>4, <1>5, <1>8, <2>1, Appending
    <2> QED
      BY <1>1, <1>3, <2>2 DEF SameGates
  <1>9. CASE e = OpenGate(named, r) /\ r.tier = "R3"
    <2> DEFINE id == NextId(named)
    <2>1. now + Clamp(r.timeout) <= MaxTime
      BY <1>9
    <2>2. /\ Core(e) /\ Logged(e, DOMAIN e.pending) /\ named.seq <= e.seq
          /\ e.issued = named.issued /\ id \in Ids \ DOMAIN named.minted
          /\ e.minted = Extended(named.minted, id, Entry(r))
          /\ Admitted(named.order, named.pending, e.pending, id, Entry(r))
      BY <1>3, <1>4, <1>5, <1>9, <2>1, OpenGateKeeps
    <2> HIDE DEF id
    <2>3. s.seq <= e.seq
      BY <1>1, <1>3, <2>2 DEF Core
    <2>4. /\ named.minted = s.minted /\ named.pending = s.pending
          /\ named.order = s.order /\ named.issued = s.issued
      BY <1>3 DEF SameGates
    <2> QED
      BY <2>1, <2>2, <2>3, <2>4 DEF e
  <1> QED
    BY <1>6, <1>7, <1>8, <1>9 DEF e

(* The notice of a decision, which names the successor of an escalation.   *)
Notice(s, id, decision, decider) ==
  Closing(id, EventOf(decision),
          IF decision = "escalate" THEN NextId(s) ELSE None,
          ApproverId(s.pending[id], decider), decider.principal)

LEMMA Successors ==
  ASSUME ClockOK, NEW s, Core(s), NEW id \in DOMAIN s.pending, Overdue(s) = {},
         NEW decider, ~Refused(s.pending[id], "escalate", decider)
  PROVE  LET entry == s.pending[id]
         IN  /\ Successor(entry) \in EntryType
             /\ Successor(entry).created <= Successor(entry).deadline
             /\ SuccessorFor(entry.requested) \in People
             /\ Successor(entry).actor = entry.actor
             /\ Successor(entry).deadline = entry.deadline
             /\ Successor(entry).requested = SuccessorFor(entry.requested)
  <1> DEFINE entry == s.pending[id]
  <1>1. entry \in EntryType
    BY DEF Core, TableOK, HistoryOK
  <1>2. now \in 0 .. MaxTime /\ now <= entry.deadline
    <2>1. now \in 0 .. MaxTime /\ entry.deadline \in 0 .. MaxTime
      BY <1>1 DEF ClockOK, EntryType
    <2>2. ~(now >= entry.deadline)
      BY DEF Overdue
    <2> QED
      BY <2>1, <2>2, Constants
  <1>3. SuccessorFor(entry.requested) \in People
    <2>1. SuccessorFor(entry.requested) # None
      BY DEF Refused
    <2> QED
      BY <2>1, GatingAssumption DEF SuccessorFor
  <1> HIDE DEF entry
  <1>4. /\ Successor(entry) \in EntryType /\ Successor(entry).created = now
        /\ Successor(entry).actor = entry.actor /\ Successor(entry).deadline = entry.deadline
        /\ Successor(entry).requested = SuccessorFor(entry.requested)
    BY <1>1, <1>2, <1>3 DEF Successor, EntryType
  <1> QED
    BY <1>2, <1>3, <1>4 DEF entry

(* A decision takes its gate away; an escalation puts the successor in its *)
(* place, and never evicts.                                                *)
Decided(s, id, decision, decider, d) ==
  /\ d.issued = s.issued \cup {Notice(s, id, decision, decider)}
  /\ decision # "escalate" => d.minted = s.minted /\ d.pending = Drop(s.pending, {id})
  /\ decision = "escalate" =>
       /\ NextId(s) \in Ids \ DOMAIN s.minted
       /\ d.minted = Extended(s.minted, NextId(s), Successor(s.pending[id]))
       /\ d.pending = Extended(Drop(s.pending, {id}), NextId(s), Successor(s.pending[id]))

LEMMA DecisionKeeps ==
  ASSUME ClockOK, NEW s, Core(s), Logged(s, DOMAIN s.pending),
         IdsAvailable(s, IdsPerDecision), Overdue(s) = {},
         NEW id \in DOMAIN s.pending, NEW decision \in {"approve", "reject", "escalate"},
         NEW decider, ~Refused(s.pending[id], decision, decider)
  PROVE  LET d == Decision(s, id, decision, decider)
         IN  /\ Core(d) /\ Logged(d, DOMAIN d.pending) /\ s.seq <= d.seq
             /\ Decided(s, id, decision, decider, d)
  <1> DEFINE entry == s.pending[id]
             taken == Close(s, id)
             next == NextId(s)
             named == Mint(taken)
             put == Upsert(named, next, Successor(entry))
             moved == AppendAudit(put, "pending_created", next)
             settled == IF decision = "escalate" THEN moved ELSE taken
             logged == AppendAudit(settled, EventOf(decision), id)
             d == Decision(s, id, decision, decider)
  <1>1. s.seq \in 0 .. SequenceLimit /\ SequenceLimit \in Nat /\ s.seq \in Nat
        /\ epoch # None /\ s.seq + 3 <= SequenceLimit
    BY Constants DEF Core, IdsAvailable, IdsPerDecision
  <1>2. /\ Core(taken) /\ taken.seq = s.seq /\ taken.audit = s.audit
        /\ taken.minted = s.minted /\ taken.issued = s.issued
        /\ taken.pending = Drop(s.pending, {id})
        /\ DOMAIN taken.pending = DOMAIN s.pending \ {id}
        /\ Len(taken.order) < PendingMax
    BY CloseKeeps
  <1>3. IdsAvailable(taken, 1) /\ NextId(taken) = next
    BY <1>1, <1>2 DEF IdsAvailable, NextId
  <1>4. /\ Core(named) /\ named.seq = s.seq + 1 /\ named.audit = s.audit /\ named.ok = TRUE
        /\ SameGates(taken, named) /\ next \notin DOMAIN s.minted
    BY <1>2, <1>3, Minting DEF Core
  <1>5. Known(s.seq + 1, next) /\ next \in Ids
    BY <1>1, <1>2, <1>3, Identities DEF Known
  <1>6. id \in DOMAIN s.minted
    BY DEF Core, TableOK
  <1>7. d = Announce(logged, Notice(s, id, decision, decider))
    <2> HIDE DEF named, taken
    <2>1. Decision(s, id, decision, decider)
            = LET en == s.pending[id]
                  tk == taken
                  nx == NextId(tk)
                  nm == Mint(tk)
                  mv == IF nm.ok
                        THEN AppendAudit(Upsert(nm, nx, Successor(en)), "pending_created", nx)
                        ELSE nm
                  st == IF decision = "escalate" THEN mv ELSE tk
              IN Announce(AppendAudit(st, EventOf(decision), id),
                          Closing(id, EventOf(decision),
                                  IF decision = "escalate" THEN nx ELSE None,
                                  ApproverId(en, decider), decider.principal))
      BY DEF Decision, taken
    <2> QED
      BY <1>3, <1>4, <2>1 DEF Notice, named
  <1> HIDE DEF entry, taken, next, named
  <1>8. ASSUME decision = "escalate"
        PROVE  /\ Core(moved) /\ moved.seq = s.seq + 2 /\ moved.issued = s.issued
               /\ moved.minted = Extended(s.minted, next, Successor(entry))
               /\ moved.pending = Extended(Drop(s.pending, {id}), next, Successor(entry))
               /\ Logged(moved, DOMAIN moved.pending)
    <2>1. Successor(entry) \in EntryType /\ Successor(entry).created <= Successor(entry).deadline
      BY <1>8, Successors DEF entry
    <2>2. Known(named.seq, next) /\ next \notin DOMAIN named.minted
      BY <1>2, <1>4, <1>5 DEF SameGates
    <2>3. /\ Core(put) /\ put.seq = named.seq /\ put.audit = named.audit
          /\ put.issued = named.issued
          /\ put.minted = Extended(named.minted, next, Successor(entry))
          /\ DOMAIN put.pending \subseteq DOMAIN named.pending \cup {next}
          /\ Admitted(named.order, named.pending, put.pending, next, Successor(entry))
      BY <1>4, <2>1, <2>2, Upserting
    <2> HIDE DEF put
    <2>4. put.pending = Extended(named.pending, next, Successor(entry))
      <3>1. Len(named.order) < PendingMax /\ Len(named.order) \in Nat /\ PendingMax \in Nat
        BY <1>2, <1>4, Constants DEF SameGates, Core, TableOK
      <3>2. Len(named.order) # PendingMax
        BY <3>1
      <3> QED
        BY <2>3, <3>2 DEF Admitted
    <2>5. IdsAvailable(put, 1) /\ next \in DOMAIN put.minted
      BY <1>1, <1>4, <2>3 DEF IdsAvailable, Extended
    <2>6. Logged(put, DOMAIN put.pending \ {next})
      <3>1. put.audit = s.audit /\ DOMAIN put.pending \ {next} \subseteq DOMAIN s.pending
        BY <1>2, <1>4, <2>3 DEF SameGates
      <3> QED
        BY <3>1, LoggedSame
    <2>7. /\ Core(moved) /\ moved.seq = put.seq + 1 /\ SameGates(put, moved)
          /\ Logged(moved, DOMAIN put.pending)
      BY <2>3, <2>5, <2>6, Appending DEF Events, Resolutions
    <2> HIDE DEF moved
    <2>8. moved.seq = s.seq + 2
      BY <1>1, <1>4, <2>3, <2>7
    <2> QED
      BY <1>2, <1>4, <2>3, <2>4, <2>7, <2>8 DEF SameGates
  <1> HIDE DEF moved
  <1>9. /\ Core(settled) /\ settled.seq \in {s.seq, s.seq + 2} /\ settled.issued = s.issued
        /\ Logged(settled, DOMAIN settled.pending)
        /\ id \notin DOMAIN settled.pending /\ id \in DOMAIN settled.minted
    <2>1. CASE decision = "escalate"
      <3>1. id # next
        BY <1>4, <1>6
      <3>2. settled = moved
        BY <2>1
      <3>3. id \notin DOMAIN moved.pending /\ id \in DOMAIN moved.minted
        BY <1>6, <1>8, <2>1, <3>1 DEF Extended, Drop
      <3> QED
        BY <1>8, <2>1, <3>2, <3>3
    <2>2. CASE decision # "escalate"
      <3>1. Logged(taken, DOMAIN taken.pending)
        BY <1>2, LoggedSame
      <3> QED
        BY <1>2, <1>6, <2>2, <3>1
    <2> QED
      BY <2>1, <2>2
  <1>10. IdsAvailable(settled, 1) /\ EventOf(decision) \in Events
    BY <1>1, <1>9 DEF IdsAvailable, Events, EventOf
  <1>11. settled.minted = (IF decision = "escalate" THEN Extended(s.minted, next, Successor(entry))
                           ELSE s.minted)
         /\ settled.pending = (IF decision = "escalate"
                               THEN Extended(Drop(s.pending, {id}), next, Successor(entry))
                               ELSE Drop(s.pending, {id}))
    BY <1>2, <1>8
  <1> HIDE DEF settled
  <1>12. /\ Core(logged) /\ logged.seq = settled.seq + 1 /\ SameGates(settled, logged)
         /\ Logged(logged, DOMAIN settled.pending)
    BY <1>9, <1>10, Appending
  <1> HIDE DEF logged, d
  <1>13. DOMAIN logged = Fields /\ logged.ok = TRUE
    BY <1>12 DEF Core
  <1>14. /\ DOMAIN d = Fields /\ d.ok = TRUE /\ d.seq = logged.seq /\ d.audit = logged.audit
         /\ d.pending = logged.pending /\ d.order = logged.order /\ d.minted = logged.minted
         /\ d.issued = logged.issued \cup {Notice(s, id, decision, decider)}
    BY <1>7, <1>13 DEF Announce, Fields
  <1>15. Core(d)
    BY <1>12, <1>14 DEF Core
  <1>16. Logged(d, DOMAIN d.pending)
    BY <1>12, <1>14 DEF Logged, SameGates
  <1>17. s.seq <= d.seq
    BY <1>1, <1>9, <1>12, <1>14
  <1>18. /\ d.minted = settled.minted /\ d.pending = settled.pending
         /\ d.issued = s.issued \cup {Notice(s, id, decision, decider)}
    BY <1>9, <1>12, <1>14 DEF SameGates
  <1>19. Decided(s, id, decision, decider, d)
    BY <1>4, <1>5, <1>11, <1>18 DEF Decided, entry, next
  <1> QED
    BY <1>15, <1>16, <1>17, <1>19 DEF d

LEMMA RefreshKeeps ==
  ASSUME ClockOK, NEW s, Core(s), Logged(s, DOMAIN s.pending), NEW t \in Refresh(s)
  PROVE  /\ Core(t) /\ Logged(t, DOMAIN t.pending) /\ s.seq <= t.seq
         /\ t.minted = s.minted
         /\ \E gone \in SUBSET Overdue(s) :
              /\ t.pending = Drop(s.pending, gone)
              /\ t.issued = s.issued \cup {Closing(id, "timeout_fallback", None, None, None) :
                                             id \in gone}
         /\ IdsAvailable(t, 1) => Overdue(t) = {}
  <1>1. PICK lapsed \in Injection(1 .. Lapses(s), Overdue(s)) : t = Sweep(s, lapsed)
    BY DEF Refresh
  <1> DEFINE gone == ToSet(lapsed)
  <1>2. /\ Core(t) /\ t.minted = s.minted /\ t.pending = Drop(s.pending, gone)
        /\ t.issued = s.issued \cup {Closing(id, "timeout_fallback", None, None, None) :
                                       id \in gone}
        /\ DOMAIN t.pending = DOMAIN s.pending \ gone
        /\ gone \subseteq Overdue(s) /\ s.seq <= t.seq
        /\ \A S : Logged(s, S) => Logged(t, S)
        /\ IdsAvailable(t, 1) => Overdue(t) = {}
    BY <1>1, Sweeping
  <1> HIDE DEF gone
  <1>3. Logged(t, DOMAIN t.pending)
    <2>1. Logged(t, DOMAIN s.pending)
      BY <1>2
    <2> QED
      BY <1>2, <2>1 DEF Logged
  <1> QED
    BY <1>2, <1>3, Zenon

-----------------------------------------------------------------------------
(* Snapshots.                                                              *)

LEMMA KeepsLater ==
  ASSUME NEW sn, NEW n \in Nat, NEW k \in Nat, n <= k, NEW m, NEW h, Keeps(sn, n, m),
         \A id \in DOMAIN m : id \in DOMAIN h /\ h[id] = m[id]
  PROVE  Keeps(sn, k, h)
  <1>1. LogOK(k, sn.audit, h)
    BY KnownLater DEF Keeps, LogOK
  <1> QED
    BY <1>1 DEF Keeps

(* What the owner would export is kept by the history and passes the       *)
(* validation.                                                             *)
LEMMA SnapshotKeeps ==
  ASSUME ClockOK, NEW s, Core(s)
  PROVE  Keeps(Snapshot(s), s.seq, s.minted) /\ Valid(Snapshot(s))
  <1> DEFINE sn == Snapshot(s)
             listed == Retain(s.order, DOMAIN s.pending)
             p == sn.pending
  <1>1. /\ s.order \in Seq(Ids) /\ Distinct(s.order) /\ ToSet(s.order) = DOMAIN s.pending
        /\ Len(s.order) <= PendingMax /\ DOMAIN s.pending \subseteq DOMAIN s.minted
        /\ \A x \in DOMAIN s.pending : s.pending[x] = s.minted[x]
        /\ HistoryOK(s.seq, s.minted) /\ LogOK(s.seq, s.audit, s.minted)
        /\ Settled(s.audit, DOMAIN s.pending)
    BY DEF Core, TableOK
  <1>2. /\ listed \in Seq(Ids) /\ ToSet(listed) = DOMAIN s.pending
        /\ Len(listed) <= Len(s.order) /\ Distinct(listed)
    <2>1. PICK queue, gates : queue = s.order /\ gates = DOMAIN s.pending
      OBVIOUS
    <2>2. queue \in Seq(Ids) /\ listed = Retain(queue, gates)
      BY <1>1, <2>1
    <2> HIDE DEF listed
    <2>3. /\ listed \in Seq(Ids) /\ ToSet(listed) = ToSet(queue) \cap gates
          /\ Len(listed) <= Len(queue) /\ (Distinct(queue) => Distinct(listed))
      BY <2>2, RetainKeeps
    <2> QED
      BY <1>1, <2>1, <2>3
  <1> HIDE DEF listed
  <1>3. /\ Len(listed) \in Nat /\ Len(listed) <= PendingMax /\ DOMAIN listed = 1 .. Len(listed)
        /\ \A i \in 1 .. Len(listed) : listed[i] \in Ids /\ listed[i] \in DOMAIN s.pending
        /\ \A x \in DOMAIN s.pending : \E i \in 1 .. Len(listed) : x = listed[i]
    <2>1. Len(listed) \in Nat /\ Len(s.order) \in Nat /\ PendingMax \in Nat
      BY <1>1, <1>2, Constants
    <2> QED
      BY <1>1, <1>2, <2>1, Members
  <1>4. /\ sn.epoch = epoch /\ sn.next = s.seq /\ sn.audit = s.audit
        /\ p = [i \in 1 .. Len(listed) |->
                  [id |-> listed[i], entry |-> s.pending[listed[i]]]]
    BY <1>3 DEF Snapshot, listed
  <1>5. \A i \in 1 .. Len(listed) :
          /\ p[i] = [id |-> listed[i], entry |-> s.minted[listed[i]]]
          /\ p[i] \in [id : Ids, entry : EntryType]
          /\ p[i].id = listed[i] /\ p[i].entry = s.minted[listed[i]]
    BY <1>1, <1>3, <1>4 DEF HistoryOK
  <1>6. p \in Seq([id : Ids, entry : EntryType]) /\ Len(p) = Len(listed) /\ DOMAIN p = 1 .. Len(listed)
    <2>1. p \in [1 .. Len(listed) -> [id : Ids, entry : EntryType]]
      BY <1>4, <1>5
    <2> HIDE DEF p
    <2> QED
      BY <1>3, <2>1, FunctionAsSequence
  <1> HIDE DEF sn, p
  <1>7. DistinctIds(p)
    BY <1>2, <1>5, <1>6 DEF DistinctIds, Distinct
  <1>8. Keeps(sn, s.seq, s.minted)
    BY <1>1, <1>3, <1>4, <1>5, <1>6, <1>7 DEF Keeps, p
  <1> DEFINE ids == {sn.pending[i].id : i \in DOMAIN sn.pending}
             logs == {sn.audit[i].id : i \in DOMAIN sn.audit}
             named == [i \in 1 .. Len(s.audit) |-> s.audit[i].id]
  <1>9. ids = DOMAIN s.pending
    <2>1. ids = {p[i].id : i \in 1 .. Len(listed)}
      BY <1>6 DEF p
    <2> HIDE DEF ids
    <2>2. ASSUME NEW x \in ids PROVE x \in DOMAIN s.pending
      <3>1. PICK i \in 1 .. Len(listed) : x = p[i].id
        BY <2>1
      <3> QED
        BY <1>3, <1>5, <3>1
    <2>3. ASSUME NEW x \in DOMAIN s.pending PROVE x \in ids
      <3>1. PICK i \in 1 .. Len(listed) : x = listed[i]
        BY <1>3
      <3> QED
        BY <1>5, <2>1, <3>1
    <2> QED
      BY <2>2, <2>3
  <1>10. Cardinality(ids) = Len(sn.pending)
    BY <1>2, <1>6, <1>9, DistinctCounts DEF p
  <1>11. /\ s.audit \in Seq(AuditEntry) /\ Len(s.audit) \in Nat /\ DOMAIN s.audit = 1 .. Len(s.audit)
         /\ \A i \in 1 .. Len(s.audit) : Known(s.seq, s.audit[i].id) /\ s.audit[i].id \in Ids
    BY <1>1 DEF LogOK, Known
  <1>12. named \in Seq(Ids) /\ Len(named) = Len(s.audit) /\ Distinct(named)
    <2>1. named \in [1 .. Len(s.audit) -> Ids]
      BY <1>11
    <2>2. \A i \in 1 .. Len(s.audit) : named[i] = s.audit[i].id
      OBVIOUS
    <2> HIDE DEF named
    <2>3. named \in Seq(Ids) /\ Len(named) = Len(s.audit)
      BY <1>11, <2>1, FunctionAsSequence
    <2> QED
      BY <1>1, <2>2, <2>3 DEF LogOK, DistinctIds, Distinct
  <1>13. logs = ToSet(named)
    BY <1>4, <1>11 DEF ToSet
  <1>14. Cardinality(logs) = Len(sn.audit)
    <2> HIDE DEF named
    <2> QED
      BY <1>4, <1>12, <1>13, DistinctCounts
  <1>15. \A id \in ids \cup logs : ValidId(sn, id)
    <2> SUFFICES ASSUME NEW id \in ids \cup logs, id[1] = epoch PROVE id[2] < s.seq
      BY <1>4 DEF ValidId
    <2>1. Known(s.seq, id)
      BY <1>1, <1>4, <1>9, <1>11 DEF HistoryOK
    <2>2. id[1] \in Nat
      BY <2>1, Constants DEF Known, Ids
    <2>3. epoch = owner
      BY <2>2, Constants DEF ClockOK
    <2> QED
      BY <2>1, <2>3 DEF Known
  <1>16. \A i \in DOMAIN sn.pending : sn.pending[i].entry.deadline >= sn.pending[i].entry.created
    <2> SUFFICES ASSUME NEW i \in 1 .. Len(listed)
                 PROVE  p[i].entry.deadline >= p[i].entry.created
      BY <1>6 DEF p
    <2>1. s.minted[listed[i]] \in EntryType
          /\ s.minted[listed[i]].created <= s.minted[listed[i]].deadline
      BY <1>1, <1>3 DEF HistoryOK
    <2>2. s.minted[listed[i]].created \in Int /\ s.minted[listed[i]].deadline \in Int
      BY <2>1 DEF EntryType
    <2> QED
      BY <1>5, <2>1, <2>2
  <1>17. \A i \in DOMAIN sn.audit : sn.audit[i].event \in Resolutions => sn.audit[i].gate \notin ids
    BY <1>1, <1>4, <1>9, <1>11 DEF Settled
  <1>18. Len(sn.pending) <= PendingMax /\ Len(sn.audit) <= AuditMax
    BY <1>1, <1>3, <1>4, <1>6 DEF p, LogOK
  <1>19. Valid(sn)
    BY <1>10, <1>14, <1>15, <1>16, <1>17, <1>18 DEF Valid
  <1> QED
    BY <1>8, <1>19 DEF sn

(* A pristine owner that takes a valid snapshot is in order: no gate of    *)
(* the snapshot can be one of its own.                                     *)
LEMMA RestoredKeeps ==
  ASSUME Inv, Pristine, saved # None, Valid(saved)
  PROVE  /\ Core(Restored(saved))
         /\ Logged(Restored(saved), DOMAIN Restored(saved).pending)
         /\ Restored(saved).minted = minted /\ Restored(saved).issued = issued
         /\ Restored(saved).seq = seq
  <1> DEFINE q == saved.pending
             ids == {q[i].id : i \in DOMAIN q}
             R == Restored(saved)
             Of(id) == CHOOSE x \in ToSet(q) : x.id = id
             named == [i \in DOMAIN q |-> q[i].id]
             table == [id \in ids |-> Of(id).entry]
  <1>1. /\ q \in Seq([id : Ids, entry : EntryType]) /\ Len(q) <= PendingMax /\ DistinctIds(q)
        /\ \A i \in 1 .. Len(q) : q[i].id \in DOMAIN minted /\ q[i].entry = minted[q[i].id]
        /\ LogOK(seq, saved.audit, minted)
    BY DEF Inv, Keeps
  <1>2. /\ DOMAIN R = Fields /\ R.seq = seq /\ R.ok = TRUE /\ R.audit = saved.audit
        /\ R.minted = minted /\ R.issued = issued
        /\ R.order = named /\ R.pending = table
    <2>1. R = [Owner EXCEPT !.order = named, !.pending = table, !.audit = saved.audit]
      BY DEF Restored
    <2> HIDE DEF R, named, table
    <2> QED
      BY <2>1 DEF Owner, Fields
  <1>3. Len(q) \in Nat /\ DOMAIN q = 1 .. Len(q)
        /\ \A i \in 1 .. Len(q) : q[i] \in [id : Ids, entry : EntryType] /\ q[i].id \in Ids
    <2> HIDE DEF q
    <2>1. Len(q) \in Nat /\ DOMAIN q = 1 .. Len(q)
          /\ \A i \in 1 .. Len(q) : q[i] \in [id : Ids, entry : EntryType]
      BY <1>1, Members
    <2> QED
      BY <2>1
  <1>4. \A id \in ids : Of(id).entry = minted[id] /\ id \in DOMAIN minted
    <2> SUFFICES ASSUME NEW id \in ids PROVE Of(id).entry = minted[id] /\ id \in DOMAIN minted
      OBVIOUS
    <2>1. PICK i \in 1 .. Len(q) : id = q[i].id
      BY <1>3
    <2>2. q[i] \in ToSet(q)
      BY <1>1, <2>1, Members
    <2>3. Of(id) \in ToSet(q) /\ Of(id).id = id
      BY <2>1, <2>2
    <2> HIDE DEF Of
    <2>4. PICK j \in 1 .. Len(q) : Of(id) = q[j]
      BY <1>1, <2>3, Members
    <2> QED
      BY <1>1, <2>3, <2>4
  <1>5. table = [id \in ids |-> minted[id]] /\ ids \subseteq DOMAIN minted
    BY <1>4
  <1>6. named \in Seq(Ids) /\ Len(named) = Len(q) /\ ToSet(named) = ids /\ Distinct(named)
    <2>1. named \in [1 .. Len(q) -> Ids]
      BY <1>3
    <2>2. \A i \in 1 .. Len(q) : named[i] = q[i].id
      BY <1>3
    <2>3. ToSet(named) = ids
      BY <1>3 DEF ToSet
    <2> HIDE DEF named, q, ids
    <2>4. named \in Seq(Ids) /\ Len(named) = Len(q)
      BY <1>3, <2>1, FunctionAsSequence
    <2> QED
      BY <1>1, <2>2, <2>3, <2>4 DEF DistinctIds, Distinct
  <1>7. Settled(saved.audit, ids)
    <2>1. saved.audit \in Seq(AuditEntry)
      BY <1>1 DEF LogOK
    <2>2. DOMAIN saved.audit = 1 .. Len(saved.audit)
      BY <2>1
    <2> QED
      BY <2>2 DEF Valid, Settled
  <1> HIDE DEF q, ids, R, Of, named, table
  <1>8. TableOK(R.pending, R.order, minted)
    BY <1>1, <1>2, <1>5, <1>6 DEF TableOK
  <1>9. HistoryOK(seq, minted) /\ seq \in 0 .. SequenceLimit
    BY DEF Inv, Core, Owner
  <1>10. DOMAIN R.pending = ids
    BY <1>2, <1>5
  <1>11. Core(R)
    BY <1>1, <1>2, <1>7, <1>8, <1>9, <1>10 DEF Core
  <1>12. Logged(R, DOMAIN R.pending)
    <2> SUFFICES ASSUME NEW id \in ids PROVE id[1] # epoch
      BY <1>10 DEF Logged
    <2>1. Known(0, id)
      BY <1>5, <1>9 DEF HistoryOK, Pristine
    <2>2. id[1] \in Nat /\ id[2] \in Nat
      BY <2>1, Constants DEF Known, Ids
    <2>3. id[1] # owner
      BY <2>1, <2>2 DEF Known
    <2> QED
      BY <2>2, <2>3, Constants DEF Inv, ClockOK
  <1> QED
    BY <1>2, <1>11, <1>12 DEF R

-----------------------------------------------------------------------------
(* The invariant.                                                          *)

(* A history that keeps every gate it had, as it was.                      *)
Preserves(m, h) == \A id \in DOMAIN m : id \in DOMAIN h /\ h[id] = m[id]

LEMMA ExtendedPreserves ==
  ASSUME NEW m, NEW id, id \notin DOMAIN m, NEW entry
  PROVE  Preserves(m, Extended(m, id, entry))
  BY DEF Preserves, Extended

LEMMA OwnerNext ==
  ASSUME NEW t, Core(t), Logged(t, DOMAIN t.pending), Becomes(t), UNCHANGED clock, ClockOK
  PROVE  ClockOK' /\ Core(Owner)' /\ Logged(Owner, DOMAIN pending)'
  <1>1. /\ seq' = t.seq /\ pending' = t.pending /\ order' = t.order /\ audit' = t.audit
        /\ issued' = t.issued /\ minted' = t.minted
        /\ now' = now /\ owner' = owner /\ epoch' = epoch
    BY DEF Becomes, clock
  <1>2. ClockOK'
    BY <1>1 DEF ClockOK
  <1>3. \A n, id : Known(n, id)' <=> Known(n, id)
    BY <1>1 DEF Known
  <1>4. HistoryOK(seq, minted)'
    BY <1>1 DEF Core, HistoryOK, Known
  <1>5. TableOK(pending, order, minted)'
    BY <1>1 DEF Core, TableOK, Distinct
  <1>6. LogOK(seq, audit, minted)'
    BY <1>1 DEF Core, LogOK, Known, DistinctIds
  <1>7. Settled(audit, DOMAIN pending)'
    BY <1>1 DEF Core, Settled
  <1>8. Core(Owner)'
    <2>1. seq' \in 0 .. SequenceLimit
      BY <1>1 DEF Core
    <2>2. Owner' = [seq |-> seq', pending |-> pending', order |-> order', audit |-> audit',
                    issued |-> issued', minted |-> minted', ok |-> TRUE]
      BY DEF Owner
    <2> QED
      BY <1>4, <1>5, <1>6, <1>7, <2>1, <2>2 DEF Core, Fields
  <1>9. Logged(Owner, DOMAIN pending)'
    BY <1>1 DEF Logged, Owner
  <1> QED
    BY <1>2, <1>8, <1>9

LEMMA SavedNext ==
  ASSUME NEW sn, NEW t, Keeps(sn, t.seq, t.minted), Becomes(t), UNCHANGED clock, saved' = sn
  PROVE  Keeps(saved, seq, minted)'
  <1>1. /\ seq' = t.seq /\ minted' = t.minted /\ owner' = owner /\ epoch' = epoch
    BY DEF Becomes, clock
  <1>2. LogOK(seq, saved.audit, minted)'
    BY <1>1 DEF Keeps, LogOK, Known, DistinctIds
  <1> QED
    BY <1>1, <1>2 DEF Keeps, LogOK, Known, DistinctIds

(* A call that leaves the host's snapshot alone.                           *)
LEMMA CallKeeps ==
  ASSUME Inv, NEW t, Core(t), Logged(t, DOMAIN t.pending), seq <= t.seq,
         Preserves(minted, t.minted), Becomes(t), UNCHANGED <<clock, saved>>
  PROVE  Inv'
  <1>1. ClockOK' /\ Core(Owner)' /\ Logged(Owner, DOMAIN pending)'
    BY OwnerNext DEF Inv
  <1>2. CASE saved = None
    BY <1>1, <1>2 DEF Inv
  <1>3. CASE Keeps(saved, seq, minted)
    <2>1. seq \in Nat /\ t.seq \in Nat
      BY DEF Inv, Core, Owner
    <2>2. Keeps(saved, t.seq, t.minted)
      BY <1>3, <2>1, KeepsLater DEF Preserves
    <2>3. PICK sn : sn = saved
      OBVIOUS
    <2>4. Keeps(saved, seq, minted)'
      BY <2>2, <2>3, SavedNext
    <2> QED
      BY <1>1, <2>4 DEF Inv
  <1> QED
    BY <1>2, <1>3 DEF Inv

(* The owner at the start of a call, and after its sweep.                  *)
LEMMA OwnerFacts ==
  ASSUME Inv
  PROVE  /\ ClockOK /\ Core(Owner) /\ Logged(Owner, DOMAIN Owner.pending)
         /\ Owner.seq = seq /\ Owner.minted = minted /\ Owner.pending = pending
         /\ Owner.issued = issued /\ Owner.order = order /\ seq \in Nat
  BY DEF Inv, Owner, Core

LEMMA Refreshed ==
  ASSUME Inv, NEW s \in Refresh(Owner)
  PROVE  /\ Core(s) /\ Logged(s, DOMAIN s.pending) /\ seq <= s.seq /\ s.seq \in Nat
         /\ s.minted = minted
         /\ \E gone \in SUBSET Overdue(Owner) :
              /\ s.pending = Drop(pending, gone)
              /\ s.issued = issued \cup {Closing(id, "timeout_fallback", None, None, None) :
                                           id \in gone}
         /\ IdsAvailable(s, 1) => Overdue(s) = {}
  <1>1. /\ Core(s) /\ Logged(s, DOMAIN s.pending) /\ Owner.seq <= s.seq
        /\ s.minted = Owner.minted
        /\ \E gone \in SUBSET Overdue(Owner) :
             /\ s.pending = Drop(Owner.pending, gone)
             /\ s.issued = Owner.issued
                  \cup {Closing(id, "timeout_fallback", None, None, None) : id \in gone}
        /\ IdsAvailable(s, 1) => Overdue(s) = {}
    BY OwnerFacts, RefreshKeeps, Zenon
  <1>2. s.seq \in Nat
    BY <1>1 DEF Core
  <1> QED
    BY <1>1, <1>2, OwnerFacts

LEMMA PollInv ==
  ASSUME Inv, Poll PROVE Inv'
  <1>1. PICK s \in Refresh(Owner) : Becomes(s)
    BY DEF Poll
  <1>2. Core(s) /\ Logged(s, DOMAIN s.pending) /\ seq <= s.seq /\ s.minted = minted
    BY Refreshed
  <1> QED
    BY <1>1, <1>2, CallKeeps DEF Poll, Preserves

LEMMA EvaluateInv ==
  ASSUME Inv, NEW r \in Requests, Evaluate(r) PROVE Inv'
  <1>1. PICK s \in Refresh(Owner) :
          Becomes(IF IdsAvailable(s, IdsPerEvaluation) THEN Evaluation(s, r) ELSE s)
    BY DEF Evaluate
  <1>2. Core(s) /\ Logged(s, DOMAIN s.pending) /\ seq <= s.seq /\ s.minted = minted /\ s.seq \in Nat
    BY Refreshed
  <1>3. UNCHANGED <<clock, saved>> /\ seq \in Nat /\ ClockOK
    BY OwnerFacts DEF Evaluate
  <1>4. CASE ~IdsAvailable(s, IdsPerEvaluation)
    BY <1>1, <1>2, <1>3, <1>4, CallKeeps DEF Preserves
  <1>5. CASE IdsAvailable(s, IdsPerEvaluation)
    <2>1. PICK e : e = Evaluation(s, r)
      OBVIOUS
    <2>2. Becomes(e)
      BY <1>1, <1>5, <2>1
    <2>3. r.tier = "R3" => now + Clamp(r.timeout) <= MaxTime
      BY DEF Evaluate
    <2>4. /\ Core(e) /\ Logged(e, DOMAIN e.pending) /\ s.seq <= e.seq
          /\ \/ e.minted = s.minted
             \/ \E id \in Ids \ DOMAIN s.minted : e.minted = Extended(s.minted, id, Entry(r))
      BY <1>2, <1>3, <1>5, <2>1, <2>3, EvaluationKeeps
    <2>5. Preserves(minted, e.minted)
      BY <1>2, <2>4, ExtendedPreserves DEF Preserves
    <2>6. e.seq \in Nat
      BY <2>4 DEF Core
    <2>7. seq <= e.seq
      BY <1>2, <1>3, <2>4, <2>6
    <2> QED
      BY <1>3, <2>2, <2>4, <2>5, <2>7, CallKeeps
  <1> QED
    BY <1>4, <1>5

(* What a decision that is taken finds: identities for all of it, hence    *)
(* nothing overdue.                                                        *)
LEMMA DecisionFinds ==
  ASSUME Inv, NEW s \in Refresh(Owner), IdsAvailable(s, IdsPerDecision)
  PROVE  Overdue(s) = {}
  <1>1. s.seq \in Nat /\ SequenceLimit \in Nat /\ (IdsAvailable(s, 1) => Overdue(s) = {})
    BY Refreshed, Constants
  <1> QED
    BY <1>1 DEF IdsAvailable, IdsPerDecision

LEMMA DecideInv ==
  ASSUME Inv, NEW id, NEW decision \in {"approve", "reject", "escalate"},
         NEW decider \in Deciders, Decide(id, decision, decider)
  PROVE  Inv'
  <1> DEFINE Taken(s) == /\ IdsAvailable(s, IdsPerDecision)
                         /\ id \in DOMAIN s.pending
                         /\ ~Refused(s.pending[id], decision, decider)
  <1>1. PICK s \in Refresh(Owner) :
          Becomes(IF Taken(s) THEN Decision(s, id, decision, decider) ELSE s)
    BY DEF Decide
  <1>2. Core(s) /\ Logged(s, DOMAIN s.pending) /\ seq <= s.seq /\ s.minted = minted /\ s.seq \in Nat
    BY Refreshed
  <1>3. UNCHANGED <<clock, saved>> /\ seq \in Nat /\ ClockOK
    BY OwnerFacts DEF Decide
  <1>4. CASE ~Taken(s)
    <2> HIDE DEF Taken
    <2> QED
      BY <1>1, <1>2, <1>3, <1>4, CallKeeps DEF Preserves
  <1>5. CASE Taken(s)
    <2>1. PICK d : d = Decision(s, id, decision, decider)
      OBVIOUS
    <2>2. Becomes(d)
      BY <1>1, <1>5, <2>1
    <2>3. /\ Core(d) /\ Logged(d, DOMAIN d.pending) /\ s.seq <= d.seq
          /\ Decided(s, id, decision, decider, d)
      <3>1. Overdue(s) = {}
        BY <1>5, DecisionFinds
      <3>2. /\ IdsAvailable(s, IdsPerDecision) /\ id \in DOMAIN s.pending
            /\ ~Refused(s.pending[id], decision, decider)
        BY <1>5
      <3> HIDE DEF Taken
      <3> QED
        BY <1>2, <1>3, <2>1, <3>1, <3>2, DecisionKeeps
    <2>4. Preserves(minted, d.minted)
      BY <1>2, <2>3, ExtendedPreserves DEF Preserves, Decided
    <2>5. d.seq \in Nat
      BY <2>3 DEF Core
    <2>6. seq <= d.seq
      BY <1>2, <1>3, <2>3, <2>5
    <2> QED
      BY <1>3, <2>2, <2>3, <2>4, <2>6, CallKeeps
  <1> QED
    BY <1>4, <1>5

LEMMA SaveInv ==
  ASSUME Inv, Save PROVE Inv'
  <1>1. PICK s \in Refresh(Owner) : Becomes(s) /\ saved' = Snapshot(s)
    BY DEF Save
  <1>2. Core(s) /\ Logged(s, DOMAIN s.pending)
    BY Refreshed
  <1>3. ClockOK /\ UNCHANGED clock
    BY OwnerFacts DEF Save
  <1>4. ClockOK' /\ Core(Owner)' /\ Logged(Owner, DOMAIN pending)'
    BY <1>1, <1>2, <1>3, OwnerNext
  <1>5. PICK sn : sn = Snapshot(s)
    OBVIOUS
  <1>6. Keeps(sn, s.seq, s.minted)
    BY <1>2, <1>3, <1>5, SnapshotKeeps
  <1>7. Keeps(saved, seq, minted)'
    BY <1>1, <1>3, <1>5, <1>6, SavedNext
  <1> QED
    BY <1>4, <1>7 DEF Inv

LEMMA RestoreInv ==
  ASSUME Inv, Restore PROVE Inv'
  <1>1. saved # None /\ Pristine /\ UNCHANGED <<clock, saved>>
    BY DEF Restore
  <1>2. PICK s \in (IF Valid(saved) THEN Refresh(Restored(saved)) ELSE {Owner}) : Becomes(s)
    BY DEF Restore
  <1>3. CASE Valid(saved)
    <2>1. /\ Core(Restored(saved)) /\ Logged(Restored(saved), DOMAIN Restored(saved).pending)
          /\ Restored(saved).minted = minted /\ Restored(saved).seq = seq /\ ClockOK
      BY <1>1, <1>3, RestoredKeeps, OwnerFacts
    <2>2. s \in Refresh(Restored(saved))
      BY <1>2, <1>3
    <2>3. PICK R : R = Restored(saved)
      OBVIOUS
    <2>4. Core(s) /\ Logged(s, DOMAIN s.pending) /\ R.seq <= s.seq /\ s.minted = R.minted
      BY <2>1, <2>2, <2>3, RefreshKeeps
    <2>5. Preserves(minted, s.minted) /\ seq <= s.seq
      BY <2>1, <2>3, <2>4 DEF Preserves
    <2> QED
      BY <1>1, <1>2, <2>4, <2>5, CallKeeps
  <1>4. CASE ~Valid(saved)
    <2>1. s = Owner
      BY <1>2, <1>4
    <2>2. Core(s) /\ Logged(s, DOMAIN s.pending) /\ s.seq = seq /\ seq \in Nat /\ s.minted = minted
      BY <2>1, OwnerFacts
    <2>3. Preserves(minted, s.minted) /\ seq <= s.seq
      BY <2>2 DEF Preserves
    <2> QED
      BY <1>1, <1>2, <2>2, <2>3, CallKeeps
  <1> QED
    BY <1>3, <1>4

LEMMA EmptySequence ==
  ASSUME NEW S
  PROVE  /\ <<>> \in Seq(S) /\ Len(<<>>) = 0 /\ DOMAIN <<>> = {} /\ ToSet(<<>>) = {}
  BY DEF ToSet

(* A fresh owner, over any history known to it.                            *)
LEMMA FreshOwner ==
  ASSUME seq = 0, pending = <<>>, order = <<>>, audit = <<>>, HistoryOK(0, minted)
  PROVE  Core(Owner) /\ Logged(Owner, DOMAIN pending)
  <1>1. /\ <<>> \in Seq(Ids) /\ <<>> \in Seq(AuditEntry) /\ Len(<<>>) = 0 /\ DOMAIN <<>> = {}
        /\ ToSet(<<>>) = {}
    BY EmptySequence
  <1>2. TableOK(pending, order, minted)
    <2>1. pending = [id \in DOMAIN pending |-> minted[id]]
      BY <1>1
    <2>2. Distinct(order)
      BY <1>1 DEF Distinct
    <2> QED
      BY <1>1, <2>1, <2>2, Constants DEF TableOK
  <1>3. LogOK(seq, audit, minted) /\ Settled(audit, DOMAIN pending)
    BY <1>1, Constants DEF LogOK, Settled, DistinctIds
  <1>4. Core(Owner)
    <2>1. 0 \in 0 .. SequenceLimit
      BY Constants
    <2> QED
      BY <1>2, <1>3, <2>1 DEF Core, Owner, Fields
  <1>5. Logged(Owner, DOMAIN pending)
    BY <1>1 DEF Logged
  <1> QED
    BY <1>4, <1>5

LEMMA InitInv == Init => Inv
  <1> SUFFICES ASSUME Init PROVE Inv
    OBVIOUS
  <1>1. ClockOK
    BY Constants DEF Init, ClockOK
  <1>2. HistoryOK(0, minted)
    BY EmptySequence DEF Init, HistoryOK
  <1>3. Core(Owner) /\ Logged(Owner, DOMAIN pending)
    BY <1>2, FreshOwner DEF Init
  <1> QED
    BY <1>1, <1>3 DEF Init, Inv

(* A new process has an epoch no identity in sight was minted under.       *)
LEMMA RestartInv ==
  ASSUME Inv, Restart PROVE Inv'
  <1>1. /\ owner' = owner + 1 /\ epoch' \in {owner + 1, None} /\ now' = now /\ saved' = saved
        /\ owner < MaxOwners /\ owner \in Nat /\ owner \in 1 .. MaxOwners /\ now \in 0 .. MaxTime
        /\ seq \in Nat
    BY OwnerFacts, Constants DEF Restart, Inv, ClockOK
  <1>2. /\ seq' = 0 /\ pending' = <<>> /\ order' = <<>> /\ audit' = <<>> /\ minted' = minted
    BY DEF Restart, Becomes, Owner
  <1>3. ClockOK'
    BY <1>1, Constants DEF ClockOK
  <1>4. \A n : \A id : Known(n, id) => Known(0, id)'
    <2> SUFFICES ASSUME NEW n, NEW id, Known(n, id) PROVE Known(0, id)'
      OBVIOUS
    <2>1. id \in Ids /\ id[1] <= owner /\ id[1] \in Nat
      BY Constants DEF Known, Ids
    <2>2. id[1] <= owner + 1 /\ id[1] # owner + 1
      BY <1>1, <2>1
    <2> QED
      BY <1>1, <2>1, <2>2 DEF Known
  <1>5. HistoryOK(0, minted)'
    <2>1. HistoryOK(seq, minted)
      BY DEF Inv, Core, Owner
    <2> QED
      BY <1>2, <1>4, <2>1 DEF HistoryOK
  <1>6. (Core(Owner) /\ Logged(Owner, DOMAIN pending))'
    <2>1. /\ <<>> \in Seq(Ids) /\ <<>> \in Seq(AuditEntry) /\ Len(<<>>) = 0 /\ DOMAIN <<>> = {}
          /\ ToSet(<<>>) = {}
      BY EmptySequence
    <2>2. TableOK(pending, order, minted)'
      <3>1. pending' = [id \in DOMAIN pending' |-> minted'[id]]
        BY <1>2, <2>1
      <3>2. Distinct(order)'
        BY <1>2, <2>1 DEF Distinct
      <3> QED
        BY <1>2, <2>1, <3>1, <3>2, Constants DEF TableOK
    <2>3. LogOK(seq, audit, minted)' /\ Settled(audit, DOMAIN pending)'
      BY <1>2, <2>1, Constants DEF LogOK, Settled, DistinctIds
    <2>4. HistoryOK(seq, minted)'
      BY <1>2, <1>5 DEF HistoryOK, Known
    <2>5. seq' \in 0 .. SequenceLimit
      BY <1>2, Constants
    <2>6. Core(Owner)'
      BY <2>2, <2>3, <2>4, <2>5 DEF Core, Owner, Fields
    <2>7. Logged(Owner, DOMAIN pending)'
      BY <1>2, <2>1 DEF Logged
    <2> QED
      BY <2>6, <2>7
  <1>7. CASE saved = None
    BY <1>1, <1>3, <1>6, <1>7 DEF Inv
  <1>8. CASE Keeps(saved, seq, minted)
    <2>1. LogOK(seq, saved.audit, minted)'
      BY <1>1, <1>2, <1>4, <1>8 DEF Keeps, LogOK, DistinctIds
    <2>2. Keeps(saved, seq, minted)'
      BY <1>1, <1>2, <1>8, <2>1 DEF Keeps, DistinctIds
    <2> QED
      BY <1>3, <1>6, <2>2 DEF Inv
  <1> QED
    BY <1>7, <1>8 DEF Inv

(* Only the clock, or nothing, moves.                                      *)
LEMMA StandstillInv ==
  ASSUME Inv, ClockOK',
         UNCHANGED <<owner, epoch, seq, pending, order, audit, issued, minted, saved>>
  PROVE  Inv'
  <1>1. HistoryOK(seq, minted)' /\ LogOK(seq, audit, minted)'
    BY DEF Inv, Core, Owner, HistoryOK, LogOK, Known, DistinctIds
  <1>2. TableOK(pending, order, minted)' /\ Settled(audit, DOMAIN pending)'
    BY DEF Inv, Core, Owner, TableOK, Distinct, Settled
  <1>3. Core(Owner)'
    <2>1. seq' \in 0 .. SequenceLimit
      BY DEF Inv, Core, Owner
    <2> QED
      BY <1>1, <1>2, <2>1 DEF Core, Owner, Fields
  <1>4. Logged(Owner, DOMAIN pending)'
    BY DEF Inv, Logged, Owner
  <1>5. (saved = None \/ Keeps(saved, seq, minted))'
    BY DEF Inv, Keeps, LogOK, Known, DistinctIds
  <1> QED
    BY <1>3, <1>4, <1>5 DEF Inv

LEMMA TickInv ==
  ASSUME Inv, Tick PROVE Inv'
  <1>1. now' = now + 1 /\ now < MaxTime /\ owner' = owner /\ epoch' = epoch
    BY DEF Tick
  <1>2. ClockOK'
    BY <1>1, Constants DEF Inv, ClockOK
  <1> QED
    BY <1>2, StandstillInv DEF Tick

LEMMA InvInductive == Inv /\ [Next]_vars => Inv'
  <1> SUFFICES ASSUME Inv, [Next]_vars PROVE Inv'
    OBVIOUS
  <1>1. CASE \E r \in Requests : Evaluate(r)
    BY <1>1, EvaluateInv
  <1>2. ASSUME NEW id \in DOMAIN minted, NEW decision \in {"approve", "reject", "escalate"},
               NEW decider \in Deciders, Decide(id, decision, decider)
        PROVE  Inv'
    BY <1>2, DecideInv
  <1>3. CASE UNCHANGED vars
    <2>1. ClockOK'
      BY <1>3 DEF Inv, ClockOK, vars
    <2> QED
      BY <1>3, <2>1, StandstillInv DEF vars
  <1> QED
    BY <1>1, <1>2, <1>3, PollInv, SaveInv, RestoreInv, RestartInv, TickInv DEF Next

(* Whatever calls, expiries, restarts and restored snapshots come, every   *)
(* identity in the tables, the log, the history and the host's snapshot    *)
(* lies below the running owner's frontier (mint_gating_id), and the       *)
(* tables, the log and the snapshot are well formed.                       *)
THEOREM Invariance == Spec => []Inv
  BY InitInv, InvInductive, PTL DEF Spec

(* The map and the order list the same gates within their limits, and a    *)
(* gate this owner opened is in its audit log unless the bounded log has   *)
(* since dropped the entry (upsert_gating_pending_entry,                   *)
(* gating_ids_available).                                                  *)
THEOREM Agreement == Spec => []TablesAgree
  <1>1. Inv => TablesAgree
    <2> SUFFICES ASSUME Inv PROVE TablesAgree
      OBVIOUS
    <2>1. /\ HistoryOK(seq, minted) /\ TableOK(pending, order, minted)
          /\ LogOK(seq, audit, minted) /\ seq \in 0 .. SequenceLimit /\ ClockOK
      BY DEF Inv, Core, Owner
    <2>2. /\ DOMAIN minted \subseteq Ids
          /\ \A id \in DOMAIN minted : minted[id] \in EntryType
      BY <2>1 DEF HistoryOK, Known
    <2>3. \A id \in DOMAIN pending : pending[id] \in EntryType
      BY <2>1, <2>2 DEF TableOK
    <2>4. Len(order) = Cardinality(DOMAIN pending)
      BY <2>1, DistinctCounts DEF TableOK
    <2>5. now \in 0 .. MaxTime /\ owner \in 1 .. MaxOwners
          /\ epoch \in (1 .. MaxOwners) \cup {None}
      BY <2>1 DEF ClockOK
    <2>6. TypeOK
      BY <2>1, <2>2, <2>3, <2>4, <2>5 DEF TypeOK, TableOK, LogOK
    <2>7. NoUnloggedGate
      <3>1. audit \in Seq(AuditEntry)
        BY <2>1 DEF LogOK
      <3>2. \A i \in 1 .. Len(audit) : audit[i] \in ToSet(audit)
        BY <3>1, Members
      <3>3. Logged(Owner, DOMAIN pending) /\ Owner.audit = audit
        BY DEF Inv, Owner
      <3> QED
        BY <3>2, <3>3 DEF NoUnloggedGate, Logged
    <2> QED
      BY <2>6, <2>7 DEF TablesAgree
  <1> QED
    BY <1>1, Invariance, PTL

(* At any moment the snapshot export_gating_state would give passes the    *)
(* validation of restore_gating_state.                                     *)
THEOREM Restorable == Spec => []SnapshotRestorable
  <1>1. Inv => SnapshotRestorable
    <2> SUFFICES ASSUME Inv, NEW s \in Refresh(Owner) PROVE Valid(Snapshot(s))
      BY DEF SnapshotRestorable
    <2>1. Core(s) /\ ClockOK
      BY Refreshed, OwnerFacts
    <2> QED
      BY <2>1, SnapshotKeeps
  <1> QED
    BY <1>1, Invariance, PTL

-----------------------------------------------------------------------------
(* The owner implements ApprovalGates.                                     *)

Opens(p) == [id \in DOMAIN p |-> GateOf(p[id])]

Lapsed(S) == {Closing(id, "timeout_fallback", None, None, None) : id \in S}

LEMMA OpensDrop ==
  ASSUME NEW p, NEW S
  PROVE  Opens(Drop(p, S)) = Gates!Without(Opens(p), S)
  BY DEF Opens, Drop, Gates!Without

LEMMA OpensExtended ==
  ASSUME NEW p, NEW id, NEW entry
  PROVE  Opens(Extended(p, id, entry)) = Gates!With(Opens(p), id, GateOf(entry))
  BY DEF Opens, Extended, Gates!With

LEMMA LapsedNotices ==
  ASSUME NEW S
  PROVE  Lapsed(S) = {Gates!Lapse(id) : id \in S}
  BY DEF Lapsed, Closing, Gates!Lapse, Gates!Closing

(* An abstract step from what happened to the gates.                       *)
LEMMA OverdueSame ==
  Gates!Overdue = Overdue(Owner)
  BY DEF Gates!Overdue, Overdue, Owner, GateOf

LEMMA PollRefines ==
  ASSUME NEW gone \in SUBSET Overdue(Owner), pending' = Drop(pending, gone),
         issued' = issued \cup Lapsed(gone), minted' = minted, now' = now
  PROVE  Gates!Next
  <1>1. gone \in SUBSET Gates!Overdue
    BY OverdueSame
  <1>2. Opens(pending') = Gates!Without(Opens(pending), gone)
    BY OpensDrop
  <1>3. issued' = issued \cup {Gates!Lapse(id) : id \in gone}
    BY LapsedNotices
  <1>4. Gates!Poll(gone)
    BY <1>1, <1>2, <1>3 DEF Gates!Poll, Opens
  <1> QED
    BY <1>1, <1>4 DEF Gates!Next, Gates!Call

LEMMA MintedMaps ==
  ASSUME NEW id, id \notin DOMAIN minted, NEW entry, minted' = Extended(minted, id, entry)
  PROVE  /\ Opens(minted') = Gates!With(Opens(minted), id, GateOf(entry))
         /\ DOMAIN Opens(minted') \ DOMAIN Opens(minted) = {id}
         /\ Opens(minted')[id] = GateOf(entry)
         /\ id \in Gates!Opened
  <1>1. Opens(minted') = Gates!With(Opens(minted), id, GateOf(entry))
    BY OpensExtended
  <1>2. /\ DOMAIN Opens(minted) = DOMAIN minted /\ DOMAIN minted' = DOMAIN minted \cup {id}
        /\ DOMAIN Opens(minted') = DOMAIN minted' /\ minted'[id] = entry
    BY DEF Opens, Extended
  <1>3. Opens(minted')[id] = GateOf(entry)
    BY <1>2 DEF Opens
  <1>4. id \in Gates!Opened
    BY <1>2 DEF Gates!Opened
  <1> QED
    BY <1>1, <1>2, <1>3, <1>4

(* The instance counts with a Cardinality of its own.                      *)
LEMMA CardinalitySame ==
  ASSUME NEW S PROVE Gates!Cardinality(S) = Cardinality(S)
  BY Zenon DEF Gates!Cardinality, Cardinality

(* A full table, and only a full table, loses one of its gates.            *)
LEMMA DroppedIs ==
  ASSUME NEW f
  PROVE  /\ ~(Cardinality(DOMAIN f) > PendingMax) => {} \in Gates!Dropped(f)
         /\ Cardinality(DOMAIN f) > PendingMax =>
              \A x \in DOMAIN f : {x} \in Gates!Dropped(f)
  <1>1. Gates!Cardinality(DOMAIN f) = Cardinality(DOMAIN f)
    BY CardinalitySame
  <1> QED
    BY <1>1 DEF Gates!Dropped

LEMMA CreateRefines ==
  ASSUME Inv, NEW gone \in SUBSET Overdue(Owner), NEW queue, NEW table,
         table = Drop(pending, gone),
         IsFiniteSet(DOMAIN table), Cardinality(DOMAIN table) = Len(queue), Len(queue) \in Nat,
         NEW id \in Ids \ DOMAIN minted, NEW entry \in EntryType,
         entry.deadline - now \in TimeoutMin .. TimeoutMax,
         minted' = Extended(minted, id, entry),
         Admitted(queue, table, pending', id, entry),
         issued' = issued \cup Lapsed(gone), now' = now
  PROVE  Gates!Next
  <1> DEFINE gate == GateOf(entry)
             full == Gates!With(Opens(table), id, gate)
  <1>1. gone \in SUBSET Gates!Overdue
    BY OverdueSame
  <1>2. /\ Opens(minted') = Gates!With(Opens(minted), id, gate)
        /\ Opens(minted')[id] = gate /\ id \in Gates!Opened
    BY MintedMaps
  <1>3. gate \in Gates!Gate /\ gate.deadline = entry.deadline
    BY Constants DEF GateOf, EntryType, Gates!Gate
  <1>4. issued' = issued \cup {Gates!Lapse(x) : x \in gone}
    BY LapsedNotices
  <1>5. Opens(table) = Gates!Without(Opens(pending), gone) /\ DOMAIN Opens(table) = DOMAIN table
        /\ id \notin DOMAIN table
    <2>1. DOMAIN table \subseteq DOMAIN pending
      BY DEF Drop
    <2>2. DOMAIN pending \subseteq DOMAIN minted
      BY DEF Inv, Core, TableOK, Owner
    <2> QED
      BY <2>1, <2>2, OpensDrop DEF Opens
  <1>6. DOMAIN full = DOMAIN table \cup {id} /\ Cardinality(DOMAIN full) = Len(queue) + 1
    <2>1. DOMAIN full = DOMAIN table \cup {id}
      BY <1>5 DEF Gates!With
    <2>2. Cardinality(DOMAIN table \cup {id})
            = IF id \in DOMAIN table THEN Cardinality(DOMAIN table)
              ELSE Cardinality(DOMAIN table) + 1
      BY FS_AddElement
    <2> HIDE DEF full
    <2> QED
      BY <1>5, <2>1, <2>2
  <1>7. Opens(Extended(table, id, entry)) = full
    BY OpensExtended
  <1> HIDE DEF full, gate
  <1>8. \E x \in Gates!Dropped(full) : id \notin x /\ Opens(pending') = Gates!Without(full, x)
    <2>1. CASE Len(queue) < PendingMax /\ pending' = Extended(table, id, entry)
      <3>1. ~(Cardinality(DOMAIN full) > PendingMax)
        BY <1>6, <2>1, Constants
      <3>2. {} \in Gates!Dropped(full)
        BY <3>1, DroppedIs
      <3>3. Gates!Without(full, {}) = full
        BY DEF Gates!Without, Gates!With, full
      <3> QED
        BY <1>7, <2>1, <3>2, <3>3
    <2>2. CASE /\ Len(queue) = PendingMax
               /\ \E x \in DOMAIN table : pending' = Drop(Extended(table, id, entry), {x})
      <3>1. PICK x \in DOMAIN table : pending' = Drop(Extended(table, id, entry), {x})
        BY <2>2
      <3>2. Cardinality(DOMAIN full) > PendingMax
        BY <1>6, <2>2, Constants
      <3>3. {x} \in Gates!Dropped(full) /\ id \notin {x}
        <4>1. x \in DOMAIN full /\ x # id
          BY <1>5, <1>6, <3>1
        <4> QED
          BY <3>2, <4>1, DroppedIs
      <3>4. Opens(pending') = Gates!Without(full, {x})
        BY <1>7, <3>1, OpensDrop
      <3> QED
        BY <3>3, <3>4
    <2> QED
      BY <2>1, <2>2 DEF Admitted
  <1>9. Gates!Create(gone, id, gate)
    <2>1. id \in Ids \ DOMAIN Opens(minted)
      BY DEF Opens
    <2> QED
      BY <1>1, <1>2, <1>3, <1>4, <1>5, <1>8, <2>1 DEF Gates!Create, Opens, full
  <1>10. \E x \in Gates!Opened : Gates!Create(gone, x, Opens(minted')[x])
    BY <1>2, <1>9
  <1> QED
    BY <1>1, <1>10 DEF Gates!Next, Gates!Call, Opens

(* Who decides is entitled to: the requested approver, if one is           *)
(* requested, and never the actor's own people for an approval.            *)
LEMMA DeciderEntitled ==
  ASSUME NEW entry \in EntryType, NEW decision \in {"approve", "reject", "escalate"},
         NEW decider \in Deciders, ~Refused(entry, decision, decider)
  PROVE  /\ ApproverId(entry, decider) \in People /\ decider.principal \in People
         /\ Gates!Entitled(GateOf(entry), EventOf(decision),
                           ApproverId(entry, decider), decider.principal)
  <1>1. /\ decider.principal \in People /\ decider.held \subseteq People
        /\ decider.local \in BOOLEAN
    BY GatingAssumption
  <1>2. ApproverId(entry, decider) \in People
    BY <1>1 DEF ApproverId
  <1>3. entry.requested \in {None, ApproverId(entry, decider)}
    BY DEF Refused
  <1>4. ASSUME EventOf(decision) = "approval_decided"
        PROVE  entry.actor \notin {ApproverId(entry, decider), decider.principal}
    <2>1. decision = "approve"
      BY <1>4 DEF EventOf
    <2>2. ~ActorDecides(entry, decider)
      BY <2>1 DEF Refused
    <2> QED
      BY <1>1, <2>2 DEF ActorDecides, ApproverId
  <1> QED
    BY <1>1, <1>2, <1>3, <1>4 DEF Gates!Entitled, GateOf

LEMMA DecideRefines ==
  ASSUME NEW gone \in SUBSET Overdue(Owner), NEW id \in DOMAIN pending \ gone,
         pending[id] \in EntryType, now \in Int, now < pending[id].deadline,
         NEW cause \in {"approval_decided", "rejection_decided"},
         NEW by \in People, NEW person \in People,
         Gates!Entitled(GateOf(pending[id]), cause, by, person),
         pending' = Drop(Drop(pending, gone), {id}),
         issued' = issued \cup Lapsed(gone) \cup {Closing(id, cause, None, by, person)},
         minted' = minted, now' = now
  PROVE  Gates!Next
  <1>1. gone \in SUBSET Gates!Overdue
    BY OverdueSame
  <1>2. Opens(pending)[id] = GateOf(pending[id]) /\ DOMAIN Opens(pending) = DOMAIN pending
        /\ GateOf(pending[id]).deadline = pending[id].deadline
    BY DEF Opens, GateOf
  <1>3. Gates!InForce(id, gone)
    BY <1>2 DEF Gates!InForce, Opens
  <1>4. Opens(pending') = Gates!Without(Opens(pending), gone \cup {id})
    <2>1. Drop(Drop(pending, gone), {id}) = Drop(pending, gone \cup {id})
      BY DEF Drop
    <2> QED
      BY <2>1, OpensDrop
  <1>5. issued' = issued \cup {Gates!Lapse(x) : x \in gone}
                         \cup {Gates!Closing(id, cause, None, by, person)}
    BY LapsedNotices DEF Closing, Gates!Closing
  <1>6. Gates!Decide(gone, id, cause, by, person)
    BY <1>1, <1>2, <1>3, <1>4, <1>5 DEF Gates!Decide, Opens
  <1>7. id \in DOMAIN Opens(pending)
    BY <1>2
  <1> QED
    BY <1>1, <1>6, <1>7 DEF Gates!Next, Gates!Call, Opens

LEMMA EscalateRefines ==
  ASSUME NEW gone \in SUBSET Overdue(Owner), NEW id \in DOMAIN pending \ gone,
         pending[id] \in EntryType, now \in Int, now < pending[id].deadline,
         NEW next \in Ids \ DOMAIN minted, NEW entry \in EntryType,
         entry.actor = pending[id].actor, entry.deadline = pending[id].deadline,
         entry.requested \in People,
         NEW by \in People, NEW person \in People,
         Gates!Entitled(GateOf(pending[id]), "escalation_decided", by, person),
         pending' = Extended(Drop(Drop(pending, gone), {id}), next, entry),
         issued' = issued \cup Lapsed(gone)
                          \cup {Closing(id, "escalation_decided", next, by, person)},
         minted' = Extended(minted, next, entry), now' = now
  PROVE  Gates!Next
  <1> DEFINE gate == GateOf(entry)
  <1>1. gone \in SUBSET Gates!Overdue
    BY OverdueSame
  <1>2. Opens(pending)[id] = GateOf(pending[id]) /\ DOMAIN Opens(pending) = DOMAIN pending
        /\ GateOf(pending[id]).deadline = pending[id].deadline
    BY DEF Opens, GateOf
  <1>3. Gates!InForce(id, gone)
    BY <1>2 DEF Gates!InForce, Opens
  <1>4. /\ Opens(minted') = Gates!With(Opens(minted), next, gate)
        /\ Opens(minted')[next] = gate /\ next \in Gates!Opened
    BY MintedMaps
  <1>5. gate = [Opens(pending)[id] EXCEPT !.requested = entry.requested]
        /\ gate.requested = entry.requested
    BY <1>2 DEF GateOf
  <1>6. Opens(pending')
          = Gates!With(Gates!Without(Opens(pending), gone \cup {id}), next, gate)
    <2>1. Drop(Drop(pending, gone), {id}) = Drop(pending, gone \cup {id})
      BY DEF Drop
    <2> QED
      BY <2>1, OpensDrop, OpensExtended
  <1>7. issued' = issued \cup {Gates!Lapse(x) : x \in gone}
                         \cup {Gates!Closing(id, "escalation_decided", next, by, person)}
    BY LapsedNotices DEF Closing, Gates!Closing
  <1> HIDE DEF gate
  <1>8. Gates!Escalate(gone, id, next, entry.requested, by, person)
    <2>1. next \in Ids \ DOMAIN Opens(minted)
      BY DEF Opens
    <2> QED
      BY <1>1, <1>2, <1>3, <1>4, <1>5, <1>6, <1>7, <2>1 DEF Gates!Escalate, Opens
  <1>9. \E x \in Gates!Opened :
          Gates!Escalate(gone, id, x, Opens(minted')[x].requested, by, person)
    BY <1>4, <1>5, <1>8
  <1>10. id \in DOMAIN Opens(pending)
    BY <1>2
  <1> QED
    BY <1>1, <1>9, <1>10 DEF Gates!Next, Gates!Call, Opens

LEMMA SweptIsPoll ==
  ASSUME Inv, NEW s \in Refresh(Owner), Becomes(s), UNCHANGED clock
  PROVE  Gates!Next
  <1>1. PICK gone \in SUBSET Overdue(Owner) :
          s.pending = Drop(pending, gone) /\ s.issued = issued \cup Lapsed(gone)
    BY Refreshed DEF Lapsed
  <1>2. /\ pending' = Drop(pending, gone) /\ issued' = issued \cup Lapsed(gone)
        /\ minted' = minted /\ now' = now
    BY <1>1, Refreshed DEF Becomes, clock
  <1> QED
    BY <1>2, PollRefines

LEMMA EvaluateRefines ==
  ASSUME Inv, NEW r \in Requests, Evaluate(r) PROVE Gates!Next
  <1>1. PICK s \in Refresh(Owner) :
          Becomes(IF IdsAvailable(s, IdsPerEvaluation) THEN Evaluation(s, r) ELSE s)
    BY DEF Evaluate
  <1>2. UNCHANGED clock /\ now' = now /\ ClockOK
    BY OwnerFacts DEF Evaluate, clock
  <1>3. CASE ~IdsAvailable(s, IdsPerEvaluation)
    BY <1>1, <1>2, <1>3, SweptIsPoll
  <1>4. CASE IdsAvailable(s, IdsPerEvaluation)
    <2>1. PICK e : e = Evaluation(s, r)
      OBVIOUS
    <2>2. /\ pending' = e.pending /\ issued' = e.issued /\ minted' = e.minted
      BY <1>1, <1>4, <2>1 DEF Becomes
    <2>3. PICK gone \in SUBSET Overdue(Owner) :
            s.pending = Drop(pending, gone) /\ s.issued = issued \cup Lapsed(gone)
      BY Refreshed DEF Lapsed
    <2>4. Core(s) /\ Logged(s, DOMAIN s.pending) /\ s.minted = minted
      BY Refreshed
    <2>5. r.tier = "R3" => now + Clamp(r.timeout) <= MaxTime
      BY DEF Evaluate
    <2>6. /\ e.issued = s.issued
          /\ \/ e.minted = s.minted /\ e.pending = s.pending
             \/ \E id \in Ids \ DOMAIN s.minted :
                  /\ now + Clamp(r.timeout) <= MaxTime
                  /\ e.minted = Extended(s.minted, id, Entry(r))
                  /\ Admitted(s.order, s.pending, e.pending, id, Entry(r))
      BY <1>2, <1>4, <2>1, <2>4, <2>5, EvaluationKeeps
    <2>7. issued' = issued \cup Lapsed(gone)
      BY <2>2, <2>3, <2>6
    <2>8. CASE e.minted = s.minted /\ e.pending = s.pending
      <3>1. pending' = Drop(pending, gone) /\ minted' = minted
        BY <2>2, <2>3, <2>4, <2>8
      <3> QED
        BY <1>2, <2>7, <3>1, PollRefines
    <2>9. ASSUME NEW id \in Ids \ DOMAIN s.minted, now + Clamp(r.timeout) <= MaxTime,
                 e.minted = Extended(s.minted, id, Entry(r)),
                 Admitted(s.order, s.pending, e.pending, id, Entry(r))
          PROVE  Gates!Next
      <3>1. PICK entry, queue, table :
              entry = Entry(r) /\ queue = s.order /\ table = s.pending
        OBVIOUS
      <3>2. entry \in EntryType /\ entry.deadline - now \in TimeoutMin .. TimeoutMax
        BY <1>2, <2>9, <3>1, Entries
      <3>3. /\ IsFiniteSet(DOMAIN table) /\ Cardinality(DOMAIN table) = Len(queue)
            /\ Len(queue) \in Nat
        BY <2>4, <3>1, PendingCounts
      <3>4. table = Drop(pending, gone)
        BY <2>3, <3>1
      <3>5. id \in Ids \ DOMAIN minted /\ minted' = Extended(minted, id, entry)
        BY <2>2, <2>4, <2>9, <3>1
      <3>6. Admitted(queue, table, pending', id, entry)
        BY <2>2, <2>9, <3>1
      <3> QED
        BY <1>2, <2>7, <3>2, <3>3, <3>4, <3>5, <3>6, CreateRefines
    <2> QED
      BY <2>6, <2>8, <2>9
  <1> QED
    BY <1>3, <1>4

LEMMA DecisionRefines ==
  ASSUME Inv, NEW id, NEW decision \in {"approve", "reject", "escalate"},
         NEW decider \in Deciders, Decide(id, decision, decider)
  PROVE  Gates!Next
  <1> DEFINE Taken(s) == /\ IdsAvailable(s, IdsPerDecision)
                         /\ id \in DOMAIN s.pending
                         /\ ~Refused(s.pending[id], decision, decider)
  <1>1. PICK s \in Refresh(Owner) :
          Becomes(IF Taken(s) THEN Decision(s, id, decision, decider) ELSE s)
    BY DEF Decide
  <1>2. UNCHANGED clock /\ now' = now /\ ClockOK
    BY OwnerFacts DEF Decide, clock
  <1>3. CASE ~Taken(s)
    <2> HIDE DEF Taken
    <2> QED
      BY <1>1, <1>2, <1>3, SweptIsPoll
  <1>4. CASE Taken(s)
    <2>1. PICK d : d = Decision(s, id, decision, decider)
      OBVIOUS
    <2>2. /\ pending' = d.pending /\ issued' = d.issued /\ minted' = d.minted
      BY <1>1, <1>4, <2>1 DEF Becomes
    <2>3. /\ IdsAvailable(s, IdsPerDecision) /\ id \in DOMAIN s.pending
          /\ ~Refused(s.pending[id], decision, decider)
      BY <1>4
    <2> HIDE DEF Taken
    <2>4. PICK gone \in SUBSET Overdue(Owner) :
            s.pending = Drop(pending, gone) /\ s.issued = issued \cup Lapsed(gone)
      BY Refreshed DEF Lapsed
    <2>5. Core(s) /\ Logged(s, DOMAIN s.pending) /\ s.minted = minted
      BY Refreshed
    <2>6. Overdue(s) = {}
      BY <2>3, DecisionFinds
    <2>7. Decided(s, id, decision, decider, d)
      BY <1>2, <2>1, <2>3, <2>5, <2>6, DecisionKeeps
    <2>8. PICK entry, by, person : entry = pending[id] /\ by = ApproverId(entry, decider)
                                     /\ person = decider.principal
      OBVIOUS
    <2>9. id \in DOMAIN pending \ gone /\ s.pending[id] = entry
      BY <2>3, <2>4, <2>8 DEF Drop
    <2>10. entry \in EntryType /\ now \in Int /\ now < entry.deadline
      <3>1. entry \in EntryType
        BY <2>3, <2>5, <2>9 DEF Core, TableOK, HistoryOK
      <3>2. ~(now >= entry.deadline)
        BY <2>3, <2>6, <2>9 DEF Overdue
      <3>3. now \in Int /\ entry.deadline \in Int
        BY <1>2, <3>1, Constants DEF ClockOK, EntryType
      <3> QED
        BY <3>1, <3>2, <3>3
    <2>11. /\ by \in People /\ person \in People
           /\ Gates!Entitled(GateOf(entry), EventOf(decision), by, person)
      BY <2>3, <2>8, <2>9, <2>10, DeciderEntitled
    <2>12. CASE decision # "escalate"
      <3>1. PICK cause \in {"approval_decided", "rejection_decided"} :
              cause = EventOf(decision)
        BY <2>12 DEF EventOf
      <3>2. pending' = Drop(Drop(pending, gone), {id}) /\ minted' = minted
        BY <2>2, <2>4, <2>5, <2>7, <2>12 DEF Decided
      <3>3. issued' = issued \cup Lapsed(gone) \cup {Closing(id, cause, None, by, person)}
        <4>1. Notice(s, id, decision, decider) = Closing(id, cause, None, by, person)
          BY <2>8, <2>9, <2>12, <3>1 DEF Notice
        <4> QED
          BY <2>2, <2>4, <2>7, <4>1 DEF Decided
      <3> QED
        BY <1>2, <2>8, <2>9, <2>10, <2>11, <3>1, <3>2, <3>3, DecideRefines
    <2>13. CASE decision = "escalate"
      <3>1. PICK next, heir : next = NextId(s) /\ heir = Successor(entry)
        OBVIOUS
      <3>2. /\ heir \in EntryType /\ heir.actor = entry.actor
            /\ heir.deadline = entry.deadline /\ heir.requested \in People
        BY <1>2, <2>3, <2>5, <2>6, <2>9, <2>13, <3>1, Successors
      <3>3. /\ next \in Ids \ DOMAIN minted /\ minted' = Extended(minted, next, heir)
            /\ pending' = Extended(Drop(Drop(pending, gone), {id}), next, heir)
        BY <2>2, <2>4, <2>5, <2>7, <2>9, <2>13, <3>1 DEF Decided
      <3>4. issued' = issued \cup Lapsed(gone)
                             \cup {Closing(id, "escalation_decided", next, by, person)}
        <4>1. Notice(s, id, decision, decider)
                = Closing(id, "escalation_decided", next, by, person)
          BY <2>8, <2>9, <2>13, <3>1 DEF Notice, EventOf
        <4> QED
          BY <2>2, <2>4, <2>7, <4>1 DEF Decided
      <3>5. Gates!Entitled(GateOf(entry), "escalation_decided", by, person)
        BY <2>11, <2>13 DEF EventOf
      <3> QED
        BY <1>2, <2>8, <2>9, <2>10, <2>11, <3>2, <3>3, <3>4, <3>5, EscalateRefines
    <2> QED
      BY <2>12, <2>13
  <1> QED
    BY <1>3, <1>4

(* A restored table holds gates of the history, and is swept at once.      *)
LEMMA RestoreRefines ==
  ASSUME Inv, Restore PROVE Gates!Next \/ UNCHANGED Gates!gates
  <1>1. saved # None /\ Pristine /\ UNCHANGED clock /\ now' = now /\ ClockOK
    BY OwnerFacts DEF Restore, clock
  <1>2. PICK s \in (IF Valid(saved) THEN Refresh(Restored(saved)) ELSE {Owner}) : Becomes(s)
    BY DEF Restore
  <1>3. CASE ~Valid(saved)
    <2>1. s = Owner
      BY <1>2, <1>3
    <2>2. pending' = pending /\ issued' = issued /\ minted' = minted
      BY <1>2, <2>1, OwnerFacts DEF Becomes
    <2> QED
      BY <1>1, <2>2 DEF Gates!gates
  <1>4. CASE Valid(saved)
    <2>1. PICK R : R = Restored(saved)
      OBVIOUS
    <2>2. /\ Core(R) /\ Logged(R, DOMAIN R.pending) /\ R.minted = minted /\ R.issued = issued
          /\ s \in Refresh(R)
      BY <1>1, <1>2, <1>4, <2>1, RestoredKeeps
    <2>3. PICK gone \in SUBSET Overdue(R) :
            s.pending = Drop(R.pending, gone) /\ s.issued = R.issued \cup Lapsed(gone)
      BY <1>1, <2>2, RefreshKeeps DEF Lapsed
    <2>4. s.minted = minted
      BY <1>1, <2>2, RefreshKeeps
    <2>5. PICK kept : kept = DOMAIN R.pending
      OBVIOUS
    <2>6. kept \subseteq DOMAIN minted /\ R.pending = [id \in kept |-> minted[id]]
      BY <2>2, <2>5 DEF Core, TableOK
    <2>7. gone \in SUBSET {id \in kept : now >= minted[id].deadline}
      BY <2>3, <2>5, <2>6 DEF Overdue
    <2>8. /\ pending' = [id \in kept \ gone |-> minted[id]] /\ minted' = minted
          /\ issued' = issued \cup Lapsed(gone)
      BY <1>2, <2>2, <2>3, <2>4, <2>5, <2>6 DEF Becomes, Drop
    <2>9. /\ Opens(pending) = <<>> /\ DOMAIN Opens(minted) = DOMAIN minted
          /\ \A id \in DOMAIN minted : Opens(minted)[id] = GateOf(minted[id])
                                        /\ GateOf(minted[id]).deadline = minted[id].deadline
      BY <1>1 DEF Opens, Pristine, GateOf
    <2>10. kept \in SUBSET DOMAIN Opens(minted)
           /\ gone \in SUBSET {id \in kept : now >= Opens(minted)[id].deadline}
      BY <2>6, <2>7, <2>9
    <2>11. Opens(pending') = [id \in kept \ gone |-> Opens(minted)[id]]
      <3>1. DOMAIN pending' = kept \ gone
        BY <2>8
      <3>2. \A id \in kept \ gone : GateOf(pending'[id]) = Opens(minted)[id]
        BY <2>6, <2>8, <2>9
      <3> QED
        BY <3>1, <3>2 DEF Opens
    <2>12. issued' = issued \cup {Gates!Lapse(id) : id \in gone}
      BY <2>8, LapsedNotices
    <2>13. Opens(minted') = Opens(minted)
      BY <2>8
    <2>14. Gates!Restore
      BY <1>1, <2>9, <2>10, <2>11, <2>12, <2>13 DEF Gates!Restore, Opens
    <2> QED
      BY <2>14 DEF Gates!Next
  <1> QED
    BY <1>3, <1>4

LEMMA RestartRefines ==
  ASSUME Restart PROVE Gates!Next
  <1>1. pending' = <<>> /\ minted' = minted /\ issued' = issued /\ now' = now
    BY DEF Restart, Becomes, Owner
  <1>2. Opens(pending') = <<>> /\ Opens(minted') = Opens(minted)
    BY <1>1 DEF Opens
  <1>3. Gates!Restart
    BY <1>1, <1>2 DEF Gates!Restart, Opens
  <1> QED
    BY <1>3 DEF Gates!Next

LEMMA StepRefines ==
  ASSUME Inv, [Next]_vars PROVE [Gates!Next]_(Gates!gates)
  <1>1. ASSUME NEW r \in Requests, Evaluate(r) PROVE Gates!Next
    BY <1>1, EvaluateRefines
  <1>2. ASSUME NEW id \in DOMAIN minted, NEW decision \in {"approve", "reject", "escalate"},
               NEW decider \in Deciders, Decide(id, decision, decider)
        PROVE  Gates!Next
    BY <1>2, DecisionRefines
  <1>3. CASE Poll
    <2>1. PICK s \in Refresh(Owner) : Becomes(s)
      BY <1>3 DEF Poll
    <2>2. UNCHANGED clock
      BY <1>3 DEF Poll
    <2> QED
      BY <2>1, <2>2, SweptIsPoll
  <1>4. CASE Save
    <2>1. PICK s \in Refresh(Owner) : Becomes(s)
      BY <1>4 DEF Save
    <2>2. UNCHANGED clock
      BY <1>4 DEF Save
    <2> QED
      BY <2>1, <2>2, SweptIsPoll
  <1>5. CASE Tick
    <2>1. now' = now + 1 /\ pending' = pending /\ minted' = minted /\ issued' = issued
      BY <1>5 DEF Tick
    <2>2. Gates!Tick
      BY <2>1 DEF Gates!Tick
    <2> QED
      BY <2>2 DEF Gates!Next
  <1>6. CASE UNCHANGED vars
    <2>1. now' = now /\ pending' = pending /\ minted' = minted /\ issued' = issued
      BY <1>6 DEF vars
    <2> QED
      BY <2>1 DEF Gates!gates
  <1>7. CASE Restore
    BY <1>7, RestoreRefines
  <1>8. CASE Restart
    BY <1>8, RestartRefines
  <1> QED
    BY <1>1, <1>2, <1>3, <1>4, <1>5, <1>6, <1>7, <1>8 DEF Next

(* The owner implements ApprovalGates: through expiries, decisions,        *)
(* escalations, evictions, restarts and restored snapshots an identity     *)
(* never names two gates, a gate is decided only before its deadline and   *)
(* by somebody entitled to, an escalation inherits the deadline, and every *)
(* closing but an eviction is announced.                                   *)
THEOREM Implementation == Spec => ImplementsGates
  <1>1. Init => Gates!Init
    <2> SUFFICES ASSUME Init PROVE Gates!Init
      OBVIOUS
    <2>1. pending = <<>> /\ minted = <<>> /\ now = 0 /\ issued = {}
      BY DEF Init
    <2>2. Opens(pending) = <<>> /\ Opens(minted) = <<>>
      BY <2>1 DEF Opens
    <2> QED
      BY <2>1, <2>2 DEF Gates!Init, Opens
  <1>2. Inv /\ [Next]_vars => [Gates!Next]_(Gates!gates)
    BY StepRefines
  <1> QED
    BY <1>1, <1>2, Invariance, PTL DEF Spec, ImplementsGates, Gates!Spec
=============================================================================
