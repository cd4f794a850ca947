----------------------- MODULE TopologyCoordinatorProofs -----------------------
(***************************************************************************)
(* What the bilateral coordinator promises for any edges, keys and limits, *)
(* through any number of failed writes, failed actuators, dropped calls    *)
(* and restarts.                                                           *)
(***************************************************************************)
EXTENDS TopologyCoordinator, FiniteSetTheorems, SequenceTheorems, TLAPS

(***************************************************************************)
(* The inductive invariant.                                                *)
(***************************************************************************)
Steps ==
  {"recover", "reconcile", "repair", "serve", "locals", "admit", "actuate",
   "abandon", "rollback", "persist", "publish", "terminal", "audit"}

Calls ==
  [kind : {"query", "recover", "operation", "apply"}, key : Keys \cup {None},
   ops : Batches \cup {None}, phase : {"recovery", "service"}, step : Steps,
   todo : SUBSET (Authorities \cup Edges), failed : BOOLEAN,
   target : [Authorities -> AuthorityStates] \cup {None},
   status : {None, "applied", "rolled_back", "noop"}]

Closing == {"persist", "publish", "terminal"}

(* The operation in the journal is the one the call asked for. *)
Own == coord.pending.key = call.key /\ coord.pending.ops = call.ops

(* What the receipt of a closed operation says. *)
StatusOf(p) == IF p.decision = "committed" THEN "applied" ELSE "rolled_back"

(* Where a call is decides what the journal in memory holds.               *)
CallAt ==
  call # None =>
    /\ call \in Calls
    /\ \A a \in Authorities : ~local[a]
    /\ call.kind = "apply" => call.key \in Keys /\ call.ops \in Batches
    /\ call.step \in {"recover", "reconcile", "repair"} => call.phase = "recovery"
    /\ call.step \in {"serve", "locals", "admit", "actuate", "abandon",
                      "rollback", "audit"} => call.phase = "service"
    /\ call.step \in {"admit", "actuate", "abandon", "rollback"} =>
         call.kind = "apply"
    /\ call.step \in {"reconcile", "serve", "locals", "admit"} =>
         coord.pending = None
    /\ call.step = "repair" =>
         coord.pending # None /\ coord.pending.decision # "applying"
    /\ call.step \in {"actuate", "abandon", "rollback"} =>
         coord.pending # None /\ Own
    /\ call.step \in {"actuate", "abandon"} => coord.pending.decision = "applying"
    /\ call.step = "rollback" => coord.pending.decision = "rolling_back"
    /\ call.step \in Closing =>
         /\ call.target \in [Authorities -> AuthorityStates]
         /\ call.phase = "service" => call.kind = "apply"
         /\ \/ /\ coord.pending # None
               /\ coord.pending.decision # "applying"
               /\ call.status = StatusOf(coord.pending)
               /\ call.phase = "service" => Own
            \/ /\ coord.pending = None
               /\ call.phase = "service"
               /\ call.status = "noop"

(* A running local apply has its entry in the journal. *)
LocalAt ==
  \A a \in Authorities : local[a] =>
    mem[a].pending # None /\ mem[a].pending.phase = "applying"

(* A committed decision that memory holds is in the file, or its receipt.  *)
DecisionKept ==
  coord.pending # None /\ coord.pending.decision = "committed" =>
    journal.pending = coord.pending \/ Settled(journal, coord.pending)

(* The part of TypeOK that does not speak of rewired edges. *)
Typing ==
  /\ mem \in [Authorities -> AuthorityStates]
  /\ disk \in [Authorities -> AuthorityStates]
  /\ local \in [Authorities -> BOOLEAN]
  /\ \A j \in {coord, journal} :
       /\ j \in Journals
       /\ Len(j.receipts) <= ReceiptLimit
       /\ Len(j.compacted) <= HistoryLimit
  /\ wiring \in [Edges -> {"up", "down", "half"}]
  /\ reconciled \in BOOLEAN /\ refused \in BOOLEAN
  /\ commits \in [Keys -> Nat] /\ crashes \in 0..MaxCrashes

Inv == Typing /\ CallAt /\ LocalAt /\ DecisionKept

(***************************************************************************)
(* Keys: every key in the journal is there once.                           *)
(***************************************************************************)
Remembered(j) == j.compacted \o KeysOf(j.receipts)

Distinct(s) == \A x, y \in 1..Len(s) : s[x] = s[y] => x = y

In(key, s) == \E i \in 1..Len(s) : s[i] = key

KeysOnce(j, counts) ==
  /\ Distinct(Remembered(j))
  /\ j.pending # None => ~In(j.pending.key, Remembered(j))
  /\ \A k \in Keys : counts[k] # 0 =>
       \/ In(k, Remembered(j))
       \/ j.pending # None /\ j.pending.key = k /\ j.pending.decision = "committed"

(* An apply that has passed the check for a known key. *)
Fresh == call.step \in {"locals", "admit"} \/ (call.step \in Closing /\ coord.pending = None)

(* A decision the file holds and memory does not is about the operation    *)
(* that memory holds undecided.                                            *)
Behind ==
  Decided(journal) /\ ~Decided(coord) =>
    coord.pending # None /\ coord.pending.key = journal.pending.key

KeysAt ==
  /\ Behind
  /\ KeysOnce(coord, commits)
  /\ KeysOnce(journal, commits)
  /\ OncePerKey
  /\ call # None /\ call.kind = "apply" /\ Fresh => ~In(call.key, Remembered(coord))

(***************************************************************************)
(* The pair: what both authorities hold for the cross edges.               *)
(***************************************************************************)
(* The intent a decided operation leaves. *)
Result(p) ==
  [e \in Edges |-> IF e \in DOMAIN p.ops /\ p.decision = "committed"
                   THEN Desired(p.ops[e]) ELSE p.before[First][e]]

(* An entry that can still be rolled back has a copy of the present intent. *)
Copied(s) ==
  s.pending # None /\ s.pending.phase = "applying" => s.pending.intent = s.intent

Quiet(s) == s.pending = None \/ s.pending.phase = "rolling_back"

(* What the authorities intend, out of their states. *)
IntentOf(S) == [a \in Authorities |-> S[a].intent]

(* Both intents may differ from the one before p on p's edges alone. *)
Around(p, z) ==
  /\ p.before[First] = p.before[Second]
  /\ \A a \in Authorities, e \in Edges :
       e \notin DOMAIN p.ops => z[a][e] = p.before[First][e]

(* The newest receipt that changed an edge says what z holds for it. *)
Tells(rs, z) ==
  \A i \in 1..Len(rs), e \in Edges :
    /\ rs[i].status # "rolled_back" /\ e \in DOMAIN rs[i].ops
    /\ \A k \in (i + 1)..Len(rs) :
         ~(rs[k].status # "rolled_back" /\ e \in DOMAIN rs[k].ops)
    => z[e] = Desired(rs[i].ops[e])

(* The journal c in memory and j in the file, over the intents m in memory *)
(* and d in the files.  Without an operation the pair agrees; with one it  *)
(* may differ on the edges of the operation only, and a file that already  *)
(* has the receipt holds what the operation leaves.                        *)
Pair(c, j, m, d) ==
  /\ c.pending = None => m[First] = m[Second] /\ d = m /\ Tells(c.receipts, m[First])
  /\ c.pending # None =>
       Around(c.pending, m) /\ Tells(c.receipts, c.pending.before[First])
  /\ j.pending = None => d[First] = d[Second] /\ Tells(j.receipts, d[First])
  /\ j.pending # None =>
       Around(j.pending, d) /\ Tells(j.receipts, j.pending.before[First])
  /\ c.pending # None /\ j.pending = None =>
       /\ c.pending.decision # "applying"
       /\ \A a \in Authorities : m[a] = Result(c.pending) /\ d[a] = Result(c.pending)
  /\ c.pending # None /\ j.pending # None =>
       j.pending.ops = c.pending.ops /\ j.pending.before = c.pending.before

(* No local entry stands beside an operation that could undo its intent. *)
EntriesAt ==
  /\ \A a \in Authorities : Copied(mem[a]) /\ Copied(disk[a])
  /\ coord.pending # None => \A a \in Authorities : local[a] \/ Quiet(mem[a])

PairAt == EntriesAt /\ Pair(coord, journal, IntentOf(mem), IntentOf(disk))

PairCall ==
  call # None =>
    /\ call.step \in {"actuate", "abandon", "rollback"} =>
         \A a \in Authorities : mem[a].intent = coord.pending.before[First]
    /\ call.step = "admit" => \A a \in Authorities : mem[a].pending = None
    /\ call.step \in Closing =>
         /\ \A a \in Authorities :
              /\ Quiet(call.target[a])
              /\ coord.pending # None =>
                   call.target[a].intent = Result(coord.pending)
              /\ coord.pending = None => call.target[a] = mem[a]
         /\ coord.pending = None =>
              /\ \A e \in DOMAIN call.ops : mem[First].intent[e] = Desired(call.ops[e])
    /\ call.step = "persist" /\ First \notin call.todo =>
         disk[First].intent = call.target[First].intent
    /\ call.step \in {"publish", "terminal"} =>
         \A a \in Authorities : disk[a].intent = call.target[a].intent
    /\ call.step = "publish" /\ First \notin call.todo =>
         mem[First].intent = call.target[First].intent
    /\ call.step = "terminal" =>
         \A a \in Authorities : mem[a].intent = call.target[a].intent

(***************************************************************************)
(* What the operators on an authority's state do.                          *)
(***************************************************************************)
LEMMA BegunFacts ==
  ASSUME NEW s \in AuthorityStates
  PROVE  /\ Begun(s) \in AuthorityStates
         /\ Begun(s).intent = s.intent
         /\ Begun(s).pending # None
         /\ Begun(s).pending.phase = "applying"
         /\ Copied(Begun(s))
  <1> DEFINE r == [phase |-> "applying", intent |-> s.intent, revision |-> s.revision]
  <1>1. r \in LocalEntries /\ r.phase = "applying" /\ r.intent = s.intent
    BY DEF AuthorityStates, LocalEntries
  <1>2. Begun(s) = [s EXCEPT !.revision = s.revision + 1, !.pending = r]
    BY DEF Begun
  <1>a. s.revision + 1 \in Nat
    BY DEF AuthorityStates
  <1> DEFINE n == s.revision + 1
  <1> HIDE DEF r, n
  <1>b. Begun(s) = [s EXCEPT !.revision = n, !.pending = r]
    BY <1>2 DEF n
  <1>c. n \in Nat
    BY <1>a DEF n
  <1>3. /\ Begun(s) \in AuthorityStates /\ Begun(s).intent = s.intent
        /\ Begun(s).pending = r
    BY <1>1, <1>b, <1>c DEF AuthorityStates
  <1> QED
    BY <1>1, <1>3, NoneAssumption DEF Copied

LEMMA ClosedFacts ==
  ASSUME NEW s \in AuthorityStates
  PROVE  /\ [s EXCEPT !.pending = None] \in AuthorityStates
         /\ [s EXCEPT !.pending = None].intent = s.intent
         /\ [s EXCEPT !.pending = None].pending = None
  BY DEF AuthorityStates

(* The state with the copy of the journal entry restored. *)
Restored(s) ==
  [s EXCEPT !.intent = s.pending.intent, !.revision = s.pending.revision]

LEMMA RestoredFacts ==
  ASSUME NEW s \in AuthorityStates, s.pending # None
  PROVE  /\ Restored(s) \in AuthorityStates
         /\ Restored(s).intent = s.pending.intent
         /\ Restored(s).pending = s.pending
  <1>1. s.pending \in LocalEntries
    BY DEF AuthorityStates
  <1>2. s.pending.intent \in Intents /\ s.pending.revision \in Nat
    BY <1>1 DEF LocalEntries
  <1> QED
    BY <1>2 DEF AuthorityStates, Restored

LEMMA RollingFacts ==
  ASSUME NEW s \in AuthorityStates, s.pending # None
  PROVE  LET t == [s EXCEPT !.pending.phase = "rolling_back"]
         IN  /\ t \in AuthorityStates
             /\ t.intent = s.intent
             /\ Quiet(t)
             /\ t.pending # None
  <1>1. s.pending \in LocalEntries
    BY DEF AuthorityStates
  <1> DEFINE r == [s.pending EXCEPT !.phase = "rolling_back"]
  <1>2. r \in LocalEntries /\ r.phase = "rolling_back"
    BY <1>1 DEF LocalEntries
  <1>3. [s EXCEPT !.pending.phase = "rolling_back"] = [s EXCEPT !.pending = r]
    OBVIOUS
  <1>4. r # None
    BY <1>2, NoneAssumption
  <1> HIDE DEF r
  <1> DEFINE t == [s EXCEPT !.pending = r]
  <1>5. t \in AuthorityStates /\ t.intent = s.intent /\ t.pending = r
    BY <1>2 DEF AuthorityStates
  <1>6. Quiet(t)
    BY <1>2, <1>5 DEF Quiet
  <1> QED
    BY <1>3, <1>4, <1>5, <1>6

LEMMA QuietCopied ==
  ASSUME NEW s, Quiet(s)
  PROVE  Copied(s)
  BY DEF Quiet, Copied

LEMMA PreparedFacts ==
  ASSUME NEW s \in AuthorityStates, s.pending # None
  PROVE  /\ Prepared(s) \in AuthorityStates
         /\ Prepared(s).pending # None
         /\ Quiet(Prepared(s))
         /\ Copied(s) => Prepared(s).intent = s.intent
  <1>1. CASE s.pending.phase = "applying"
    <2>1. Prepared(s) = [Restored(s) EXCEPT !.pending.phase = "rolling_back"]
      BY <1>1 DEF Prepared, Restored
    <2>2. /\ Restored(s) \in AuthorityStates
          /\ Restored(s).intent = s.pending.intent
          /\ Restored(s).pending # None
      BY RestoredFacts
    <2> HIDE DEF Restored
    <2> QED
      BY <1>1, <2>1, <2>2, RollingFacts DEF Copied
  <1>2. CASE s.pending.phase # "applying"
    <2>1. Prepared(s) = s
      BY <1>2 DEF Prepared
    <2>2. s.pending \in LocalEntries
      BY DEF AuthorityStates
    <2>3. s.pending.phase = "rolling_back"
      BY <1>2, <2>2 DEF LocalEntries
    <2> QED
      BY <2>1, <2>3 DEF Quiet
  <1> QED
    BY <1>1, <1>2

LEMMA RecoveredFacts ==
  ASSUME NEW s \in AuthorityStates, NEW t \in Recovered(s)
  PROVE  /\ t \in AuthorityStates
         /\ Quiet(t)
         /\ Copied(s) => t.intent = s.intent
  <1>1. CASE s.pending = None
    BY <1>1 DEF Recovered, Quiet
  <1>2. CASE s.pending # None
    <2>1. t = Prepared(s) \/ t = [Prepared(s) EXCEPT !.pending = None]
      BY <1>2 DEF Recovered
    <2> QED
      BY <1>2, <2>1, PreparedFacts, ClosedFacts DEF Quiet
  <1> QED
    BY <1>1, <1>2

(***************************************************************************)
(* What the operators on the coordinator's journal do.                     *)
(***************************************************************************)
Sized(j) ==
  /\ j \in Journals
  /\ Len(j.receipts) <= ReceiptLimit
  /\ Len(j.compacted) <= HistoryLimit

(* The journal with the decision d on its operation. *)
Deciding(j, d) == [j EXCEPT !.pending.decision = d]

LEMMA DecidingFacts ==
  ASSUME NEW j, Sized(j), j.pending # None,
         NEW d \in {"applying", "rolling_back", "committed"}
  PROVE  LET t == Deciding(j, d)
         IN  /\ Sized(t)
             /\ t.receipts = j.receipts /\ t.compacted = j.compacted
             /\ t.pending # None
             /\ t.pending.decision = d
             /\ t.pending.key = j.pending.key
             /\ t.pending.ops = j.pending.ops
             /\ t.pending.before = j.pending.before
  <1>1. j \in Journals /\ j.pending \in PendingOperations
    BY DEF Sized, Journals
  <1> DEFINE p == [j.pending EXCEPT !.decision = d]
  <1>2. /\ p \in PendingOperations
        /\ p.decision = d
        /\ p.key = j.pending.key /\ p.ops = j.pending.ops
        /\ p.before = j.pending.before
    BY <1>1 DEF PendingOperations
  <1>3. Deciding(j, d) = [j EXCEPT !.pending = p]
    BY DEF Deciding
  <1>4. p # None
    BY <1>2, NoneAssumption
  <1> HIDE DEF p
  <1>5. LET t == [j EXCEPT !.pending = p]
        IN  /\ t \in Journals /\ t.receipts = j.receipts
            /\ t.compacted = j.compacted /\ t.pending = p
    BY <1>1, <1>2 DEF Journals
  <1> QED
    BY <1>2, <1>3, <1>4, <1>5 DEF Sized

LEMMA OpeningFacts ==
  ASSUME NEW j, Sized(j), NEW p \in PendingOperations
  PROVE  LET t == [j EXCEPT !.pending = p]
         IN  /\ Sized(t)
             /\ t.receipts = j.receipts /\ t.compacted = j.compacted
             /\ t.pending = p /\ p # None
  <1>1. LET t == [j EXCEPT !.pending = p]
        IN  /\ t \in Journals /\ t.receipts = j.receipts
            /\ t.compacted = j.compacted /\ t.pending = p
    BY DEF Journals, Sized
  <1> QED
    BY <1>1, NoneAssumption DEF Sized

LEMMA BoundedFacts ==
  ASSUME NEW S, NEW s \in Seq(S), NEW n \in Nat
  PROVE  /\ Bounded(s, n) \in Seq(S)
         /\ Len(Bounded(s, n)) \in Nat
         /\ Len(Bounded(s, n)) <= n /\ Len(Bounded(s, n)) <= Len(s)
         /\ Len(s) <= n => Bounded(s, n) = s
         /\ Len(s) > n => Len(Bounded(s, n)) = n
         /\ \A i \in 1..Len(Bounded(s, n)) :
              Bounded(s, n)[i] = s[Len(s) - Len(Bounded(s, n)) + i]
  <1>0. Len(s) \in Nat
    OBVIOUS
  <1>1. CASE Len(s) > n
    <2> DEFINE t == SubSeq(s, Len(s) - n + 1, Len(s))
    <2>1. Bounded(s, n) = t
      BY <1>1 DEF Bounded, LastOf
    <2>2. \A i \in (Len(s) - n + 1)..Len(s) : s[i] \in S
      BY <1>0, <1>1, ElementOfSeq
    <2>3. /\ t \in Seq(S)
          /\ Len(t) = IF Len(s) - n + 1 <= Len(s) THEN Len(s) - (Len(s) - n + 1) + 1 ELSE 0
          /\ \A i \in 1..(Len(s) - (Len(s) - n + 1) + 1) : t[i] = s[Len(s) - n + 1 + i - 1]
      BY <1>0, <2>2, SubSeqProperties
    <2> HIDE DEF t
    <2>4. Len(t) = n
      BY <1>0, <1>1, <2>3
    <2>5. \A i \in 1..n : t[i] = s[Len(s) - n + i]
      BY <1>0, <2>3
    <2>6. \A i \in 1..Len(t) : t[i] = s[Len(s) - Len(t) + i]
      BY <2>4, <2>5
    <2> QED
      BY <1>0, <1>1, <2>1, <2>3, <2>4, <2>6
  <1>2. CASE ~(Len(s) > n)
    <2>1. Bounded(s, n) = s
      BY <1>2 DEF Bounded
    <2> QED
      BY <1>0, <1>2, <2>1
  <1> QED
    BY <1>1, <1>2

LEMMA KeysOfFacts ==
  ASSUME NEW s \in Seq(Receipts)
  PROVE  /\ KeysOf(s) \in Seq(Keys)
         /\ Len(KeysOf(s)) = Len(s)
         /\ \A i \in 1..Len(s) : KeysOf(s)[i] = s[i].key
  <1>1. Len(s) \in Nat /\ \A i \in 1..Len(s) : s[i] \in Receipts
    BY ElementOfSeq
  <1>2. \A i \in 1..Len(s) : s[i].key \in Keys
    BY <1>1 DEF Receipts
  <1> QED
    BY <1>1, <1>2 DEF KeysOf

(* Nothing is lost but the oldest keys of a full history. *)
LEMMA TerminalFacts ==
  ASSUME Sized(coord), NEW r \in Receipts
  PROVE  LET t == Terminal(r)
         IN  /\ Sized(t)
             /\ t.pending = None
             /\ t.receipts = Bounded(Append(coord.receipts, r), ReceiptLimit)
             /\ Len(t.receipts) \in Nat \ {0}
             /\ t.receipts[Len(t.receipts)] = r
             /\ t.compacted =
                  Bounded(coord.compacted \o
                    KeysOf(SubSeq(Append(coord.receipts, r), 1,
                                  Len(coord.receipts) + 1 - Len(t.receipts))),
                    HistoryLimit)
  <1> DEFINE all == Append(coord.receipts, r)
             kept == Bounded(all, ReceiptLimit)
             gone == SubSeq(all, 1, Len(all) - Len(kept))
             past == Bounded(coord.compacted \o KeysOf(gone), HistoryLimit)
  <1>1. /\ coord.receipts \in Seq(Receipts) /\ coord.compacted \in Seq(Keys)
        /\ Len(coord.receipts) \in Nat
    BY DEF Sized, Journals
  <1>2. /\ all \in Seq(Receipts) /\ Len(all) = Len(coord.receipts) + 1
        /\ all[Len(all)] = r
    BY <1>1, AppendProperties
  <1> HIDE DEF all
  <1>3. ReceiptLimit \in Nat /\ ReceiptLimit > 0 /\ HistoryLimit \in Nat
    BY CoordinatorAssumption
  <1>4. /\ kept \in Seq(Receipts)
        /\ Len(kept) \in Nat /\ Len(kept) <= ReceiptLimit /\ Len(kept) <= Len(all)
        /\ Len(all) <= ReceiptLimit => kept = all
        /\ Len(all) > ReceiptLimit => Len(kept) = ReceiptLimit
        /\ \A i \in 1..Len(kept) : kept[i] = all[Len(all) - Len(kept) + i]
    <2>1. all \in Seq(Receipts)
      BY <1>2
    <2>2. ReceiptLimit \in Nat
      BY <1>3
    <2> QED
      BY ONLY <2>1, <2>2, BoundedFacts, Zenon
  <1> HIDE DEF kept
  <1>5. Len(kept) > 0
    BY <1>1, <1>2, <1>3, <1>4
  <1>6. kept[Len(kept)] = r
    BY <1>1, <1>2, <1>4, <1>5
  <1>7. gone \in Seq(Receipts)
    <2>1. \A i \in 1..(Len(all) - Len(kept)) : all[i] \in Receipts
      BY <1>1, <1>2, <1>4, ElementOfSeq
    <2> QED
      BY <1>1, <1>2, <1>4, <2>1, SubSeqProperties
  <1> HIDE DEF gone
  <1>8. coord.compacted \o KeysOf(gone) \in Seq(Keys)
    BY <1>1, <1>7, KeysOfFacts, ConcatProperties
  <1>9. past \in Seq(Keys) /\ Len(past) <= HistoryLimit
    BY <1>3, <1>8, BoundedFacts
  <1> HIDE DEF past
  <1>10. Terminal(r) = [pending |-> None, receipts |-> kept, compacted |-> past]
    BY DEF Terminal, all, kept, gone, past
  <1>11. /\ Terminal(r) \in Journals /\ Terminal(r).pending = None
         /\ Terminal(r).receipts = kept /\ Terminal(r).compacted = past
    BY <1>4, <1>9, <1>10 DEF Journals
  <1>12. Sized(Terminal(r))
    BY <1>4, <1>9, <1>11 DEF Sized
  <1> QED
    BY <1>2, <1>4, <1>5, <1>6, <1>11, <1>12 DEF all, kept, gone, past

LEMMA AfterFacts ==
  ASSUME NEW s \in AuthorityStates, NEW ops \in Batches, NEW changed \in BOOLEAN
  PROVE  /\ After(s, ops, changed) \in AuthorityStates
         /\ After(s, ops, changed).pending = s.pending
         /\ After(s, ops, changed).intent =
              [e \in Edges |-> IF e \in DOMAIN ops THEN Desired(ops[e])
                               ELSE s.intent[e]]
  <1> DEFINE z == [e \in Edges |-> IF e \in DOMAIN ops THEN Desired(ops[e])
                                   ELSE s.intent[e]]
             n == IF changed THEN s.revision + 1 ELSE s.revision
  <1>1. s.intent \in Intents /\ s.revision \in Nat
    BY DEF AuthorityStates
  <1>2. z \in Intents
    BY <1>1 DEF Intents, Desired
  <1>3. n \in Nat
    BY <1>1
  <1>4. After(s, ops, changed) = [s EXCEPT !.intent = z, !.revision = n]
    BY DEF After
  <1> HIDE DEF z, n
  <1>5. LET t == [s EXCEPT !.intent = z, !.revision = n]
        IN  t \in AuthorityStates /\ t.pending = s.pending /\ t.intent = z
    BY <1>2, <1>3 DEF AuthorityStates
  <1> QED
    BY <1>4, <1>5 DEF z

LEMMA MergedFacts ==
  ASSUME NEW s \in AuthorityStates, NEW p \in PendingOperations,
         NEW a \in Authorities
  PROVE  /\ Merged(s, p, a) \in AuthorityStates
         /\ Merged(s, p, a).pending = s.pending
         /\ Merged(s, p, a).intent = MergedIntent(s, p, a)
  <1> DEFINE z == MergedIntent(s, p, a)
             n == IF s.revision = p.revision[a]
                  THEN IF p.decision = "committed" THEN s.revision + 1 ELSE s.revision
                  ELSE IF z # s.intent THEN s.revision + 1
                  ELSE s.revision
  <1>1. s.intent \in Intents /\ s.revision \in Nat
    BY DEF AuthorityStates
  <1>2. p.before \in [Authorities -> Intents]
    BY DEF PendingOperations
  <1>3. p.before[a] \in Intents
    BY <1>2
  <1>4. z \in Intents
    BY <1>1, <1>3 DEF Intents, Desired, MergedIntent
  <1>5. n \in Nat
    BY <1>1
  <1>6. Merged(s, p, a) = [s EXCEPT !.intent = z, !.revision = n]
    BY DEF Merged
  <1> HIDE DEF z, n
  <1>7. LET t == [s EXCEPT !.intent = z, !.revision = n]
        IN  t \in AuthorityStates /\ t.pending = s.pending /\ t.intent = z
    BY <1>4, <1>5 DEF AuthorityStates
  <1> QED
    BY <1>6, <1>7 DEF z

(***************************************************************************)
(* How a call moves.                                                       *)
(***************************************************************************)
LEMMA TypeFacts ==
  ASSUME Typing
  PROVE  /\ Sized(coord) /\ Sized(journal)
         /\ mem \in [Authorities -> AuthorityStates]
         /\ disk \in [Authorities -> AuthorityStates]
         /\ coord.pending = None \/ coord.pending \in PendingOperations
         /\ journal.pending = None \/ journal.pending \in PendingOperations
  BY DEF Typing, Sized, Journals

(* The call is over, or an apply has its audit record to write. *)
LEMMA CallLeaves ==
  ASSUME CallAt, call # None, Leave \/ call' = None, local' = local
  PROVE  CallAt'
  <1>1. CASE call' = None
    BY <1>1 DEF CallAt
  <1>2. CASE Leave /\ call' # None
    <2>1. call \in Calls /\ call.kind = "apply" /\ call.phase = "service"
      BY <1>2 DEF Leave, CallAt
    <2>2. /\ call' \in Calls /\ call'.kind = "apply" /\ call'.phase = "service"
          /\ call'.step = "audit" /\ call'.key = call.key /\ call'.ops = call.ops
      BY <1>2, <2>1 DEF Leave, Calls, Steps
    <2>3. (call \in Calls)' /\ \A a \in Authorities : ~local'[a]
      BY <2>2 DEF CallAt, Calls
    <2> QED
      BY <2>1, <2>2, <2>3 DEF CallAt, Closing
  <1> QED
    BY <1>1, <1>2

(* recover_locked is done. *)
LEMMA CallServes ==
  ASSUME CallAt, call # None, call' = Service, coord'.pending = None,
         local' = local
  PROVE  CallAt'
  <1>1. call \in Calls
    BY DEF CallAt
  <1>2. /\ call' \in Calls /\ call'.kind = call.kind /\ call'.phase = "service"
        /\ call'.step = "serve" /\ call'.key = call.key /\ call'.ops = call.ops
    <2>1. call' = [call EXCEPT !.phase = "service", !.step = "serve", !.todo = {},
                               !.failed = FALSE, !.target = None, !.status = None]
      BY DEF Service
    <2>2. /\ "service" \in {"recovery", "service"} /\ "serve" \in Steps
          /\ {} \in SUBSET (Authorities \cup Edges) /\ FALSE \in BOOLEAN
          /\ None \in [Authorities -> AuthorityStates] \cup {None}
          /\ None \in {None, "applied", "rolled_back", "noop"}
      BY DEF Steps
    <2> QED
      BY <1>1, <2>1, <2>2 DEF Calls
  <1>3. (call \in Calls)' /\ \A a \in Authorities : ~local'[a]
    BY <1>2 DEF CallAt, Calls
  <1> QED
    BY <1>2, <1>3 DEF CallAt, Closing

(* An operation is decided, and both authorities are to be written. *)
LEMMA CallCloses ==
  ASSUME CallAt, call # None,
         NEW t \in [Authorities -> AuthorityStates],
         NEW status \in {"applied", "rolled_back", "noop"},
         Close(t, status), local' = local,
         call.phase = "service" => call.kind = "apply",
         \/ /\ coord'.pending # None
            /\ coord'.pending.decision # "applying"
            /\ status = StatusOf(coord'.pending)
            /\ call.phase = "service" =>
                 coord'.pending.key = call.key /\ coord'.pending.ops = call.ops
         \/ /\ coord'.pending = None
            /\ call.phase = "service"
            /\ status = "noop"
  PROVE  /\ CallAt'
         /\ call'.step = "persist" /\ call'.todo = Authorities
         /\ call'.target = t /\ call'.status = status
         /\ call'.kind = call.kind /\ call'.phase = call.phase
         /\ call'.key = call.key /\ call'.ops = call.ops
  <1>1. call \in Calls
    BY DEF CallAt
  <1>2. /\ call'.kind = call.kind /\ call'.phase = call.phase
        /\ call'.step = "persist" /\ call'.key = call.key /\ call'.ops = call.ops
        /\ call'.target = t /\ call'.status = status /\ call'.todo = Authorities
        /\ call' \in Calls
    BY <1>1 DEF Close, Calls, Steps
  <1>3. (call \in Calls)' /\ \A a \in Authorities : ~local'[a]
    BY <1>2 DEF CallAt, Calls
  <1>4. (call.target \in [Authorities -> AuthorityStates])'
    BY <1>2 DEF Authorities, AuthorityStates, LocalEntries, Intents
  <1>5. CASE /\ coord'.pending # None
             /\ coord'.pending.decision # "applying"
             /\ status = StatusOf(coord'.pending)
             /\ call.phase = "service" =>
                  coord'.pending.key = call.key /\ coord'.pending.ops = call.ops
    BY <1>2, <1>3, <1>4, <1>5 DEF CallAt, Closing, Own, StatusOf
  <1>6. CASE coord'.pending = None /\ call.phase = "service" /\ status = "noop"
    BY <1>2, <1>3, <1>4, <1>6 DEF CallAt, Closing
  <1> QED
    BY <1>2, <1>5, <1>6

(***************************************************************************)
(* The invariant is inductive.                                             *)
(***************************************************************************)
LEMMA InitInv ==
  ASSUME Init
  PROVE  Inv
  <1> DEFINE z == NoIntent
             s == [intent |-> z, revision |-> 0, pending |-> None]
             j == [pending |-> None, receipts |-> <<>>, compacted |-> <<>>]
  <1>1. z \in Intents
    BY DEF NoIntent, Intents
  <1> HIDE DEF z
  <1>2. s \in AuthorityStates
    BY <1>1 DEF AuthorityStates
  <1>3. mem = [a \in Authorities |-> s] /\ disk = mem
    BY DEF Init, z
  <1> HIDE DEF s
  <1>4. mem \in [Authorities -> AuthorityStates] /\ disk \in [Authorities -> AuthorityStates]
    BY <1>2, <1>3
  <1>5. coord = j /\ journal = j
    BY DEF Init
  <1>6. j \in Journals /\ Len(j.receipts) = 0 /\ Len(j.compacted) = 0 /\ j.pending = None
    BY DEF Journals
  <1> HIDE DEF j
  <1>7. Typing
    <2>1. \A i \in {coord, journal} :
            i \in Journals /\ Len(i.receipts) <= ReceiptLimit
            /\ Len(i.compacted) <= HistoryLimit
      BY <1>5, <1>6, CoordinatorAssumption
    <2>2. local \in [Authorities -> BOOLEAN] /\ reconciled \in BOOLEAN /\ refused \in BOOLEAN
      BY DEF Init
    <2>3. wiring \in [Edges -> {"up", "down", "half"}]
      BY DEF Init
    <2>4. commits \in [Keys -> Nat] /\ crashes \in 0..MaxCrashes
      BY CoordinatorAssumption DEF Init
    <2> QED
      BY <1>4, <2>1, <2>2, <2>3, <2>4 DEF Typing
  <1>8. CallAt /\ LocalAt /\ DecisionKept
    BY <1>5, <1>6 DEF Init, CallAt, LocalAt, DecisionKept
  <1> QED
    BY <1>7, <1>8 DEF Inv

(* Typing, given the parts a step may change. *)
LEMMA TypeKept ==
  ASSUME Typing,
         mem' \in [Authorities -> AuthorityStates],
         disk' \in [Authorities -> AuthorityStates],
         local' \in [Authorities -> BOOLEAN],
         Sized(coord'), Sized(journal'),
         wiring' \in [Edges -> {"up", "down", "half"}],
         reconciled' \in BOOLEAN, refused' \in BOOLEAN,
         commits' \in [Keys -> Nat], crashes' \in 0..MaxCrashes
  PROVE  Typing'
  BY DEF Typing, Sized, Authorities, AuthorityStates, LocalEntries, Intents,
         Journals, PendingOperations, Receipts, Batches, Actions

(* The authorities under their own controller. *)
LEMMA LocalStepInv ==
  ASSUME Inv, NEW a \in Authorities,
         \/ LocalBegin(a) \/ LocalBeginFails(a) \/ LocalEnd(a)
         \/ LocalInterrupted(a) \/ LocalRecover(a)
  PROVE  Inv'
  <1>1. Typing /\ CallAt /\ LocalAt /\ DecisionKept
    BY DEF Inv
  <1>2. mem[a] \in AuthorityStates /\ disk[a] \in AuthorityStates
    BY <1>1, TypeFacts
  <1>3. call' = call /\ call = None
    BY <1>1 DEF LocalBegin, LocalBeginFails, LocalEnd, LocalInterrupted,
                LocalRecover, Unlocked, CallAt
  <1>4. /\ UNCHANGED <<coord, journal, wiring, reconciled, refused, commits, crashes>>
        /\ local' \in [Authorities -> BOOLEAN]
    BY <1>1 DEF LocalBegin, LocalBeginFails, LocalEnd, LocalInterrupted,
                LocalRecover, flags, Typing
  <1>5. /\ mem' \in [Authorities -> AuthorityStates]
        /\ disk' \in [Authorities -> AuthorityStates]
    <2>0. /\ mem \in [Authorities -> AuthorityStates]
          /\ disk \in [Authorities -> AuthorityStates]
      BY <1>1, TypeFacts
    <2>s. ASSUME NEW t \in AuthorityStates, SaveAuthority(a, t)
          PROVE  /\ mem' \in [Authorities -> AuthorityStates]
                 /\ disk' \in [Authorities -> AuthorityStates]
      BY <2>0, <2>s DEF SaveAuthority
    <2>1. CASE LocalBegin(a) \/ LocalBeginFails(a)
      <3>1. Begun(mem[a]) \in AuthorityStates
        BY <1>2, BegunFacts
      <3> HIDE DEF Begun
      <3>2. CASE LocalBegin(a)
        BY <3>1, <3>2, <2>s DEF LocalBegin
      <3>3. CASE LocalBeginFails(a)
        BY <3>1, <3>3, <2>0 DEF LocalBeginFails
      <3> QED
        BY <2>1, <3>2, <3>3
    <2>2. CASE LocalEnd(a)
      <3>0. mem[a].pending # None
        BY <1>1, <2>2 DEF LocalEnd, LocalAt
      <3>1. /\ [mem[a] EXCEPT !.pending = None] \in AuthorityStates
            /\ Restored(mem[a]) \in AuthorityStates
            /\ Restored(mem[a]).pending # None
        BY <1>2, <3>0, ClosedFacts, RestoredFacts
      <3>2. /\ [Restored(mem[a]) EXCEPT !.pending = None] \in AuthorityStates
            /\ [Restored(mem[a]) EXCEPT !.pending.phase = "rolling_back"] \in AuthorityStates
        BY <3>1, ClosedFacts, RollingFacts
      <3>3. \/ SaveAuthority(a, [mem[a] EXCEPT !.pending = None])
            \/ SaveAuthority(a, [Restored(mem[a]) EXCEPT !.pending = None])
            \/ SaveAuthority(a, [Restored(mem[a]) EXCEPT !.pending.phase = "rolling_back"])
        BY <2>2 DEF LocalEnd, Restored
      <3> QED
        BY <3>1, <3>2, <3>3, <2>s
    <2>3. CASE LocalInterrupted(a)
      <3>1. [disk[a] EXCEPT !.pending = None] \in AuthorityStates
        BY <1>2, ClosedFacts
      <3>2. \/ disk' = disk
            \/ disk' = [disk EXCEPT ![a] = [disk[a] EXCEPT !.pending = None]]
        BY <2>3 DEF LocalInterrupted
      <3> QED
        BY <2>0, <2>3, <3>1, <3>2 DEF LocalInterrupted
    <2>4. CASE LocalRecover(a)
      <3>1. /\ Prepared(mem[a]) \in AuthorityStates
            /\ \A t \in Recovered(mem[a]) : t \in AuthorityStates
        BY <1>2, <2>4, PreparedFacts, RecoveredFacts DEF LocalRecover
      <3>2. CASE \E t \in Recovered(mem[a]) : SaveAuthority(a, t)
        BY <3>1, <3>2, <2>s
      <3>3. CASE RecoverFails(a)
        BY <3>1, <3>3, <2>0 DEF RecoverFails
      <3> QED
        BY <2>4, <3>2, <3>3 DEF LocalRecover
    <2> QED
      BY <2>1, <2>2, <2>3, <2>4
  <1>6. Typing'
    BY <1>1, <1>4, <1>5, TypeKept DEF Typing, Sized
  <1>7. CallAt' /\ DecisionKept'
    BY <1>1, <1>3, <1>4 DEF CallAt, DecisionKept, Settled
  <1>8. LocalAt'
    <2>0. local \in [Authorities -> BOOLEAN] /\ mem \in [Authorities -> AuthorityStates]
      BY <1>1 DEF Typing
    <2>1. CASE LocalBegin(a)
      <3>1. Begun(mem[a]).pending # None /\ Begun(mem[a]).pending.phase = "applying"
        BY <1>2, BegunFacts
      <3> HIDE DEF Begun
      <3> QED
        BY <1>1, <2>0, <2>1, <3>1 DEF LocalBegin, SaveAuthority, LocalAt, Authorities
    <2>2. CASE LocalBeginFails(a)
      BY <1>1, <2>2 DEF LocalBeginFails, LocalAt, Authorities
    <2>3. CASE LocalEnd(a)
      <3>1. \A b \in Authorities : local'[b] => local[b] /\ mem'[b] = mem[b]
        BY <2>0, <2>3 DEF LocalEnd, SaveAuthority
      <3> QED
        BY <1>1, <3>1 DEF LocalAt, Authorities
    <2>4. CASE LocalInterrupted(a)
      <3>1. \A b \in Authorities : local'[b] => local[b] /\ mem'[b] = mem[b]
        BY <2>0, <2>4 DEF LocalInterrupted
      <3> QED
        BY <1>1, <3>1 DEF LocalAt, Authorities
    <2>5. CASE LocalRecover(a)
      <3>1. \A b \in Authorities : local'[b] => local[b] /\ mem'[b] = mem[b]
        BY <2>0, <2>5 DEF LocalRecover, Unlocked, SaveAuthority, RecoverFails
      <3> QED
        BY <1>1, <3>1 DEF LocalAt, Authorities
    <2> QED
      BY <2>1, <2>2, <2>3, <2>4, <2>5
  <1> QED
    BY <1>6, <1>7, <1>8 DEF Inv

(* A call that goes on: what changes is its step and what it has to do. *)
Moved(step, todo, failed) ==
  [call EXCEPT !.step = step, !.todo = todo, !.failed = failed]

LEMMA CallMoves ==
  ASSUME CallAt, call # None, local' = local,
         NEW step \in Steps, NEW todo \in SUBSET (Authorities \cup Edges),
         NEW failed \in BOOLEAN, call' = Moved(step, todo, failed)
  PROVE  /\ (call \in Calls)'
         /\ \A a \in Authorities : ~local'[a]
         /\ call'.step = step /\ call'.todo = todo /\ call'.failed = failed
         /\ call'.kind = call.kind /\ call'.key = call.key /\ call'.ops = call.ops
         /\ call'.phase = call.phase
         /\ call'.target = call.target /\ call'.status = call.status
         /\ call.kind = "apply" => call.key \in Keys /\ call.ops \in Batches
  <1>1. call \in Calls
    BY DEF CallAt
  <1>2. /\ call' \in Calls
        /\ call'.step = step /\ call'.todo = todo /\ call'.failed = failed
        /\ call'.kind = call.kind /\ call'.key = call.key /\ call'.ops = call.ops
        /\ call'.phase = call.phase
        /\ call'.target = call.target /\ call'.status = call.status
    BY <1>1 DEF Moved, Calls
  <1>3. (call \in Calls)'
    BY <1>2 DEF Calls, Steps, Authorities, AuthorityStates, LocalEntries, Intents,
                Batches, Actions
  <1> QED
    BY <1>2, <1>3 DEF CallAt

LEMMA CallFields ==
  ASSUME call \in Calls
  PROVE  /\ call.todo \in SUBSET (Authorities \cup Edges) /\ call.failed \in BOOLEAN
         /\ call.step \in Steps
  BY DEF Calls

LEMMA LocalsFree ==
  ASSUME CallAt, call # None, local' = local
  PROVE  LocalAt'
  BY DEF CallAt, LocalAt, Authorities

LEMMA Undecided ==
  ASSUME DecisionKept, UNCHANGED <<coord, journal>>
  PROVE  DecisionKept'
  BY DEF DecisionKept, Settled

LEMMA WrittenThrough ==
  ASSUME coord' = journal'
  PROVE  DecisionKept'
  BY DEF DecisionKept

LEMMA StartStepInv ==
  ASSUME Inv, Query \/ Recover \/ Operation \/ Apply
  PROVE  Inv'
  <1>1. PICK kind \in {"query", "recover", "operation", "apply"},
             key \in Keys \cup {None}, ops \in Batches \cup {None} :
          /\ StartCall(kind, key, ops)
          /\ kind = "apply" => key \in Keys /\ ops \in Batches
    BY DEF Query, Recover, Operation, Apply
  <1>2. Typing /\ CallAt /\ LocalAt /\ DecisionKept
    BY DEF Inv
  <1>3. /\ UNCHANGED <<mem, disk, local, coord, journal, wiring, refused, commits, crashes>>
        /\ reconciled' = (kind # "recover" /\ reconciled)
        /\ call' = NewCall(kind, key, ops)
        /\ \A a \in Authorities : ~local[a]
    BY <1>1 DEF StartCall, authorities
  <1>4. Typing'
    BY <1>2, <1>3 DEF Typing
  <1>5. DecisionKept' /\ LocalAt'
    BY <1>2, <1>3 DEF DecisionKept, Settled, LocalAt, Authorities
  <1>6. /\ (call \in Calls)' /\ call'.kind = kind /\ call'.key = key /\ call'.ops = ops
        /\ call'.phase = "recovery" /\ call'.step = "recover"
    BY <1>3 DEF NewCall, Calls, Steps
  <1>7. CallAt'
    BY <1>1, <1>3, <1>6 DEF CallAt, Closing, Authorities
  <1> QED
    BY <1>4, <1>5, <1>7 DEF Inv

(***************************************************************************)
(* recover_locked.                                                         *)
(***************************************************************************)
LEMMA ResumedFacts ==
  ASSUME Sized(coord), coord.pending \in PendingOperations
  PROVE  /\ Sized(Resumed(coord))
         /\ Resumed(coord).receipts = coord.receipts
         /\ Resumed(coord).compacted = coord.compacted
         /\ Resumed(coord).pending # None
         /\ Resumed(coord).pending.decision # "applying"
         /\ Resumed(coord).pending.decision = "committed" => Resumed(coord) = coord
         /\ Resumed(coord).pending.key = coord.pending.key
         /\ Resumed(coord).pending.ops = coord.pending.ops
         /\ Resumed(coord).pending.before = coord.pending.before
         /\ coord.pending.decision # "applying" => Resumed(coord) = coord
  <1>1. coord.pending # None
    BY NoneAssumption
  <1>2. Resumed(coord) = IF coord.pending.decision = "applying"
                         THEN Deciding(coord, "rolling_back") ELSE coord
    BY DEF Resumed, RollingBack, Deciding
  <1> QED
    BY <1>1, <1>2, DecidingFacts

LEMMA RecoverStepInv ==
  ASSUME Inv, RecoverClean \/ ReconcileStart \/ ReconcileDone
                \/ RecoverPending \/ RecoverPendingFails
  PROVE  Inv'
  <1>1. Typing /\ CallAt /\ LocalAt /\ DecisionKept /\ call # None /\ call \in Calls
    BY DEF Inv, RecoverClean, ReconcileStart, ReconcileDone, RecoverPending,
           RecoverPendingFails, At, CallAt
  <1>2. /\ UNCHANGED <<mem, disk, local, wiring, commits, crashes>>
        /\ reconciled' \in BOOLEAN /\ refused' \in BOOLEAN
    BY <1>1 DEF RecoverClean, ReconcileStart, ReconcileDone, RecoverPending,
                RecoverPendingFails, authorities, flags, Typing
  <1>3. /\ Sized(coord) /\ Sized(journal)
        /\ coord.pending = None \/ coord.pending \in PendingOperations
    BY <1>1, TypeFacts
  <1>4. coord.pending \in PendingOperations => Sized(Resumed(coord))
    BY <1>3, ResumedFacts
  <1>5. Sized(coord') /\ Sized(journal') /\ DecisionKept'
    <2>1. CASE RecoverClean \/ ReconcileStart \/ ReconcileDone
      <3>1. UNCHANGED <<coord, journal>>
        BY <2>1 DEF RecoverClean, ReconcileStart, ReconcileDone
      <3> QED
        BY <1>1, <1>3, <3>1, Undecided
    <2>2. CASE RecoverPending
      <3>1. CASE UNCHANGED <<coord, journal>>
        BY <1>1, <1>3, <3>1, Undecided
      <3>2. CASE SaveJournal(Resumed(coord))
        BY <1>3, <1>4, <2>2, <3>2, WrittenThrough DEF SaveJournal, RecoverPending
      <3> QED
        BY <2>2, <3>1, <3>2 DEF RecoverPending
    <2>3. CASE RecoverPendingFails
      <3>1. /\ coord' = coord /\ journal' \in {journal, Resumed(coord)}
            /\ coord.pending # None /\ Resumed(coord) # coord
        BY <2>3 DEF RecoverPendingFails, SaveJournalFails
      <3>2. coord.pending.decision = "applying"
        BY <3>1 DEF Resumed
      <3> QED
        BY <1>3, <1>4, <3>1, <3>2 DEF DecisionKept
    <2> QED
      BY <2>1, <2>2, <2>3
  <1>6. Typing'
    BY <1>1, <1>2, <1>5, TypeKept DEF Typing
  <1>7. LocalAt'
    BY <1>1, <1>2, LocalsFree
  <1>8. CallAt'
    <2>1. CASE RecoverClean
      BY <1>1, <1>2, <2>1, CallServes DEF RecoverClean
    <2>2. CASE ReconcileDone
      <3>1. coord'.pending = None /\ call' = Service
        BY <1>1, <2>2 DEF ReconcileDone, At, CallAt
      <3> QED
        BY <1>1, <1>2, <3>1, CallServes
    <2>3. CASE RecoverPendingFails
      BY <1>1, <1>2, <2>3, CallLeaves DEF RecoverPendingFails
    <2>4. CASE ReconcileStart
      <3> DEFINE z == {e \in Edges : mem[First].intent[e] # "none"}
      <3>1. z \in SUBSET (Authorities \cup Edges)
        OBVIOUS
      <3>a. call' = [call EXCEPT !.step = "reconcile", !.todo = z]
        BY <2>4 DEF ReconcileStart
      <3> HIDE DEF z
      <3>2. call' = Moved("reconcile", z, call.failed)
        BY <1>1, <3>a DEF Moved, Calls
      <3>3. call.phase = "recovery" /\ coord' = coord /\ coord.pending = None
        BY <1>1, <2>4 DEF ReconcileStart, At, CallAt
      <3>4. "reconcile" \in Steps /\ call.failed \in BOOLEAN
        BY <1>1, CallFields DEF Steps
      <3> QED
        BY <1>1, <1>2, <3>1, <3>2, <3>3, <3>4, CallMoves DEF CallAt, Closing
    <2>5. CASE RecoverPending
      <3> DEFINE z == DOMAIN coord.pending.ops
      <3>0. coord.pending \in PendingOperations
        BY <1>3, <2>5 DEF RecoverPending
      <3>1. z \in SUBSET (Authorities \cup Edges)
        BY <3>0 DEF PendingOperations, Batches
      <3>a. call' = [call EXCEPT !.step = "repair", !.todo = z]
        BY <2>5 DEF RecoverPending
      <3> HIDE DEF z
      <3>2. call' = Moved("repair", z, call.failed)
        BY <1>1, <3>a DEF Moved, Calls
      <3>3. call.phase = "recovery"
        BY <1>1, <2>5 DEF RecoverPending, At, CallAt
      <3>4. "repair" \in Steps /\ call.failed \in BOOLEAN
        BY <1>1, CallFields DEF Steps
      <3>5. coord'.pending # None /\ coord'.pending.decision # "applying"
        BY <1>3, <3>0, <2>5, ResumedFacts, NoneAssumption DEF RecoverPending, SaveJournal
      <3> QED
        BY <1>1, <1>2, <3>1, <3>2, <3>3, <3>4, <3>5, CallMoves DEF CallAt, Closing
    <2> QED
      BY <2>1, <2>2, <2>3, <2>4, <2>5
  <1> QED
    BY <1>5, <1>6, <1>7, <1>8 DEF Inv

(***************************************************************************)
(* Acting on the wiring.                                                   *)
(***************************************************************************)
LEMMA ActStepInv ==
  ASSUME Inv, NEW e \in Edges, Actuate(e) \/ ActuateFails(e)
  PROVE  Inv'
  <1>1. Typing /\ CallAt /\ LocalAt /\ DecisionKept /\ call # None /\ call \in Calls
    BY DEF Inv, Actuate, ActuateFails, Acting, CallAt
  <1>2. /\ UNCHANGED <<mem, disk, local, coord, journal, commits, crashes>>
        /\ reconciled' \in BOOLEAN /\ refused' \in BOOLEAN
    BY <1>1 DEF Actuate, ActuateFails, authorities, flags, Typing
  <1>3. wiring' \in [Edges -> {"up", "down", "half"}]
    <2>1. wiring \in [Edges -> {"up", "down", "half"}]
      BY <1>1 DEF Typing
    <2>2. Wired(Wanted(e)) \in {"up", "down", "half"}
      BY DEF Wired
    <2>3. \A w \in Broken(e) : w \in {"up", "down", "half"}
      BY <2>1, <2>2 DEF Broken
    <2> HIDE DEF Broken, Wired, Wanted
    <2> QED
      BY <2>1, <2>2, <2>3 DEF Actuate, ActuateFails
  <1>4. Typing'
    BY <1>1, <1>2, <1>3, TypeKept, TypeFacts DEF Typing
  <1>5. LocalAt' /\ DecisionKept'
    BY <1>1, <1>2, LocalsFree, Undecided
  <1>6. CallAt'
    <2> DEFINE z == call.todo \ {e}
    <2>0. /\ z \in SUBSET (Authorities \cup Edges) /\ call.failed \in BOOLEAN
          /\ call.step \in Steps /\ TRUE \in BOOLEAN
      BY <1>1, CallFields
    <2>z. [call EXCEPT !.todo = @ \ {e}] = [call EXCEPT !.todo = z]
      BY <1>1 DEF Calls
    <2>y. [call EXCEPT !.todo = @ \ {e}, !.failed = TRUE]
            = [call EXCEPT !.todo = z, !.failed = TRUE]
      BY <1>1 DEF Calls
    <2> HIDE DEF z
    <2>1. CASE call' = [call EXCEPT !.todo = @ \ {e}]
      <3>1. call' = Moved(call.step, z, call.failed)
        BY <1>1, <2>1, <2>z DEF Moved, Calls
      <3> QED
        BY <1>1, <1>2, <2>0, <3>1, CallMoves DEF CallAt, Closing, Own
    <2>2. CASE call' = [call EXCEPT !.todo = @ \ {e}, !.failed = TRUE]
      <3>1. call' = Moved(call.step, z, TRUE)
        BY <1>1, <2>2, <2>y DEF Moved, Calls
      <3> QED
        BY <1>1, <1>2, <2>0, <3>1, CallMoves DEF CallAt, Closing, Own
    <2>3. CASE call.step = "reconcile" /\ call' = Service
      <3>1. coord'.pending = None
        BY <1>1, <1>2, <2>3 DEF CallAt
      <3> QED
        BY <1>1, <1>2, <2>3, <3>1, CallServes
    <2>4. CASE call.step = "actuate" /\ call' = [call EXCEPT !.step = "abandon", !.todo = {}]
      <3>1. call' = Moved("abandon", {}, call.failed)
        BY <1>1, <2>4 DEF Moved, Calls
      <3>2. "abandon" \in Steps /\ {} \in SUBSET (Authorities \cup Edges)
        BY DEF Steps
      <3> QED
        BY <1>1, <1>2, <2>0, <2>4, <3>1, <3>2, CallMoves DEF CallAt, Closing, Own
    <2>5. \/ call' = [call EXCEPT !.todo = @ \ {e}]
          \/ call' = [call EXCEPT !.todo = @ \ {e}, !.failed = TRUE]
          \/ call.step = "reconcile" /\ call' = Service
          \/ call.step = "actuate" /\ call' = [call EXCEPT !.step = "abandon", !.todo = {}]
      BY Zenon DEF Actuate, ActuateFails
    <2> QED
      BY <2>1, <2>2, <2>3, <2>4, <2>5
  <1> QED
    BY <1>4, <1>5, <1>6 DEF Inv

(***************************************************************************)
(* Deciding an operation.                                                  *)
(***************************************************************************)
LEMMA DecideStepInv ==
  ASSUME Inv, RepairDone \/ KeepPending \/ RollbackStart \/ RollbackDone \/ Commit
  PROVE  Inv'
  <1>1. Typing /\ CallAt /\ LocalAt /\ DecisionKept /\ call # None /\ call \in Calls
    BY DEF Inv, RepairDone, KeepPending, RollbackStart, RollbackDone, Commit, At, CallAt
  <1>2. /\ UNCHANGED <<mem, disk, local, wiring, reconciled, refused, crashes>>
    BY DEF RepairDone, KeepPending, RollbackStart, RollbackDone, Commit, authorities, flags
  <1>3. /\ Sized(coord) /\ Sized(journal)
        /\ coord.pending = None \/ coord.pending \in PendingOperations
        /\ mem \in [Authorities -> AuthorityStates]
    BY <1>1, TypeFacts
  <1>4. LocalAt'
    BY <1>1, <1>2, LocalsFree
  <1>5. commits' \in [Keys -> Nat]
    <2>0. commits \in [Keys -> Nat]
      BY <1>1 DEF Typing
    <2>1. CASE commits' = commits
      BY <2>0, <2>1
    <2>2. CASE At("actuate") /\ commits' = [commits EXCEPT ![call.key] = @ + 1]
      <3>1. call.key \in Keys
        BY <1>1, <2>2 DEF At, CallAt
      <3> QED
        BY <2>0, <2>2, <3>1
    <2> QED
      BY <2>1, <2>2 DEF RepairDone, KeepPending, RollbackStart, RollbackDone, Commit
  <1>6. ASSUME Sized(coord'), Sized(journal')
        PROVE  Typing'
    BY <1>1, <1>2, <1>3, <1>5, <1>6, TypeKept DEF Typing
  <1>7. CASE RepairDone
    <2>1. UNCHANGED <<coord, journal>>
      BY <1>7 DEF RepairDone
    <2> DEFINE t == [a \in Authorities |-> Merged(mem[a], coord.pending, a)]
               st == IF coord.pending.decision = "committed" THEN "applied" ELSE "rolled_back"
    <2>2. /\ call.step = "repair" /\ call.phase = "recovery"
          /\ coord.pending # None /\ coord.pending.decision # "applying"
      BY <1>1, <1>7 DEF RepairDone, At, CallAt
    <2>3. t \in [Authorities -> AuthorityStates]
      BY <1>3, <2>2, MergedFacts
    <2>4. st \in {"applied", "rolled_back", "noop"} /\ st = StatusOf(coord.pending)
      BY DEF StatusOf
    <2>5. Close(t, st)
      BY <1>7 DEF RepairDone
    <2> HIDE DEF t, st
    <2>6. CallAt'
      BY <1>1, <1>2, <2>1, <2>2, <2>3, <2>4, <2>5, CallCloses
    <2> QED
      BY <1>1, <1>3, <1>4, <1>6, <2>1, <2>6, Undecided DEF Inv
  <1>8. CASE KeepPending
    <2>1. coord' = coord /\ journal' \in {journal, coord} /\ Leave
      BY <1>8 DEF KeepPending
    <2>2. CallAt'
      BY <1>1, <1>2, <2>1, CallLeaves
    <2>3. DecisionKept'
      BY <1>1, <2>1, Undecided, WrittenThrough
    <2> QED
      BY <1>3, <1>4, <1>6, <2>1, <2>2, <2>3 DEF Inv
  <1>9. CASE RollbackDone
    <2>1. UNCHANGED <<coord, journal>> /\ Close(mem, "rolled_back")
      BY <1>9 DEF RollbackDone
    <2>2. /\ call.kind = "apply" /\ call.phase = "service"
          /\ coord.pending # None /\ coord.pending.decision = "rolling_back"
          /\ coord.pending.key = call.key /\ coord.pending.ops = call.ops
      BY <1>1, <1>9 DEF RollbackDone, At, CallAt, Own
    <2>3. "rolled_back" = StatusOf(coord.pending)
      BY <2>2 DEF StatusOf
    <2>4. CallAt'
      BY <1>1, <1>2, <1>3, <2>1, <2>2, <2>3, CallCloses
    <2> QED
      BY <1>1, <1>3, <1>4, <1>6, <2>1, <2>4, Undecided DEF Inv
  <1>10. ASSUME At("abandon") \/ At("actuate")
         PROVE  /\ call.kind = "apply" /\ call.phase = "service"
                /\ call.key \in Keys /\ call.ops \in Batches
                /\ coord.pending # None /\ coord.pending.decision = "applying"
                /\ coord.pending.key = call.key /\ coord.pending.ops = call.ops
    BY <1>1, <1>10 DEF At, CallAt, Own
  <1>11. CASE RollbackStart
    <2> DEFINE n == Deciding(coord, "rolling_back")
    <2>0. RollingBack(coord) = n /\ At("abandon")
      BY <1>11 DEF RollingBack, Deciding, RollbackStart
    <2>1. /\ Sized(n) /\ n.pending # None /\ n.pending.decision = "rolling_back"
          /\ n.pending.key = call.key /\ n.pending.ops = call.ops
      BY <1>3, <1>10, <2>0, DecidingFacts
    <2> HIDE DEF n
    <2>2. CASE coord' = n /\ journal' = n /\
               call' = [call EXCEPT !.step = "rollback", !.todo = DOMAIN call.ops]
      <3> DEFINE z == DOMAIN call.ops
      <3>1. z \in SUBSET (Authorities \cup Edges)
        BY <1>10, <2>0 DEF Batches
      <3>2. call' = [call EXCEPT !.step = "rollback", !.todo = z]
        BY <2>2
      <3> HIDE DEF z
      <3>3. call' = Moved("rollback", z, call.failed)
        BY <1>1, <3>2 DEF Moved, Calls
      <3>4. "rollback" \in Steps /\ call.failed \in BOOLEAN
        BY <1>1, CallFields DEF Steps
      <3>5. CallAt'
        BY <1>1, <1>2, <1>10, <2>0, <2>1, <2>2, <3>1, <3>3, <3>4, CallMoves
           DEF CallAt, Closing, Own
      <3> QED
        BY <1>4, <1>6, <2>1, <2>2, <3>5, WrittenThrough DEF Inv
    <2>3. CASE coord' = coord /\ journal' \in {journal, n} /\ Leave
      <3>1. CallAt'
        BY <1>1, <1>2, <2>3, CallLeaves
      <3>2. DecisionKept'
        BY <1>10, <2>0, <2>3 DEF DecisionKept
      <3> QED
        BY <1>3, <1>4, <1>6, <2>1, <2>3, <3>1, <3>2 DEF Inv
    <2> QED
      BY <1>11, <2>0, <2>2, <2>3 DEF RollbackStart, SaveJournal, SaveJournalFails
  <1>12. CASE Commit
    <2> DEFINE n == Deciding(coord, "committed")
               t == [a \in Authorities |-> After(mem[a], call.ops, TRUE)]
    <2>0. At("actuate")
      BY <1>12 DEF Commit
    <2>1. /\ Sized(n) /\ n.pending # None /\ n.pending.decision = "committed"
          /\ n.pending.key = call.key /\ n.pending.ops = call.ops
      BY <1>3, <1>10, <2>0, DecidingFacts
    <2>2. t \in [Authorities -> AuthorityStates]
      BY <1>3, <1>10, <2>0, AfterFacts
    <2>3. \/ coord' = n /\ journal' = n /\ Close(t, "applied")
          \/ coord' = coord /\ journal' \in {journal, n} /\ Leave
      BY <1>12 DEF Commit, SaveJournal, SaveJournalFails, Deciding
    <2> HIDE DEF n, t
    <2>4. CASE coord' = n /\ journal' = n /\ Close(t, "applied")
      <3>1. "applied" = StatusOf(n.pending)
        BY <2>1 DEF StatusOf
      <3>2. CallAt'
        BY <1>1, <1>2, <1>10, <2>0, <2>1, <2>2, <2>4, <3>1, CallCloses
      <3> QED
        BY <1>4, <1>6, <2>1, <2>4, <3>2, WrittenThrough DEF Inv
    <2>5. CASE coord' = coord /\ journal' \in {journal, n} /\ Leave
      <3>1. CallAt'
        BY <1>1, <1>2, <2>5, CallLeaves
      <3>2. DecisionKept'
        BY <1>10, <2>0, <2>5 DEF DecisionKept
      <3> QED
        BY <1>3, <1>4, <1>6, <2>1, <2>5, <3>1, <3>2 DEF Inv
    <2> QED
      BY <2>3, <2>4, <2>5
  <1> QED
    BY <1>7, <1>8, <1>9, <1>11, <1>12

(***************************************************************************)
(* commit_terminal_receipt.                                                *)
(***************************************************************************)
LEMMA TurnFacts == Turn \in Authorities
  BY DEF Turn, Authorities

LEMMA PersistStepInv ==
  ASSUME Inv, PersistAuthority \/ PersistAuthorityFails \/ Publish
  PROVE  Inv'
  <1>1. Typing /\ CallAt /\ LocalAt /\ DecisionKept /\ call # None /\ call \in Calls
    BY DEF Inv, PersistAuthority, PersistAuthorityFails, Publish, At, CallAt
  <1>2. /\ UNCHANGED <<local, coord, journal, wiring, reconciled, refused, commits, crashes>>
    BY DEF PersistAuthority, PersistAuthorityFails, Publish, flags
  <1>3. call.target \in [Authorities -> AuthorityStates]
    BY <1>1 DEF PersistAuthority, PersistAuthorityFails, Publish, At, CallAt, Closing
  <1>4. /\ mem' \in [Authorities -> AuthorityStates]
        /\ disk' \in [Authorities -> AuthorityStates]
    <2>1. /\ mem \in [Authorities -> AuthorityStates]
          /\ disk \in [Authorities -> AuthorityStates]
      BY <1>1, TypeFacts
    <2>2. call.target[Turn] \in AuthorityStates
      BY <1>3, TurnFacts
    <2> QED
      BY <2>1, <2>2, TurnFacts DEF PersistAuthority, PersistAuthorityFails, Publish
  <1>5. Typing'
    BY <1>1, <1>2, <1>4, TypeKept, TypeFacts DEF Typing
  <1>6. LocalAt' /\ DecisionKept'
    BY <1>1, <1>2, LocalsFree, Undecided
  <1>7. /\ call.failed \in BOOLEAN /\ call.step \in Steps
        /\ "publish" \in Steps /\ "terminal" \in Steps
        /\ {Second} \in SUBSET (Authorities \cup Edges)
        /\ Authorities \in SUBSET (Authorities \cup Edges)
        /\ {} \in SUBSET (Authorities \cup Edges)
    BY <1>1, CallFields DEF Steps, Authorities
  <1>8. CallAt'
    <2>1. CASE PersistAuthorityFails
      BY <1>1, <1>2, <2>1, CallLeaves DEF PersistAuthorityFails
    <2>2. CASE PersistAuthority \/ Publish
      <3>0. call.step \in Closing
        BY <2>2 DEF PersistAuthority, Publish, At, Closing
      <3>1. \/ call' = Moved(call.step, {Second}, call.failed)
            \/ call' = Moved("publish", Authorities, call.failed)
            \/ call' = Moved("terminal", {}, call.failed)
        BY <1>1, <2>2 DEF PersistAuthority, Publish, Moved, Calls
      <3>2. CASE call' = Moved(call.step, {Second}, call.failed)
        BY <1>1, <1>2, <1>3, <1>7, <3>0, <3>2, CallMoves
           DEF CallAt, Closing, Own, StatusOf
      <3>3. CASE call' = Moved("publish", Authorities, call.failed)
        BY <1>1, <1>2, <1>3, <1>7, <3>0, <3>3, CallMoves
           DEF CallAt, Closing, Own, StatusOf
      <3>4. CASE call' = Moved("terminal", {}, call.failed)
        BY <1>1, <1>2, <1>3, <1>7, <3>0, <3>4, CallMoves
           DEF CallAt, Closing, Own, StatusOf
      <3> QED
        BY <3>1, <3>2, <3>3, <3>4
    <2> QED
      BY <2>1, <2>2
  <1> QED
    BY <1>5, <1>6, <1>8 DEF Inv

(* The receipt names the operation in the journal, or the one that changes *)
(* nothing.                                                                *)
LEMMA ReceiptFacts ==
  ASSUME Inv, At("terminal")
  PROVE  /\ Receipt \in Receipts
         /\ coord.pending # None =>
              Receipt = [key |-> coord.pending.key, ops |-> coord.pending.ops,
                         status |-> StatusOf(coord.pending)]
         /\ coord.pending = None =>
              /\ call.phase = "service" /\ call.kind = "apply"
              /\ Receipt = [key |-> call.key, ops |-> call.ops, status |-> "noop"]
  <1>1. /\ call # None /\ call \in Calls
        /\ call.kind = "apply" => call.key \in Keys /\ call.ops \in Batches
        /\ call.phase = "service" => call.kind = "apply"
        /\ \/ /\ coord.pending # None
              /\ call.status = StatusOf(coord.pending)
              /\ call.phase = "service" => Own
           \/ /\ coord.pending = None
              /\ call.phase = "service"
              /\ call.status = "noop"
    BY DEF Inv, At, CallAt, Closing
  <1>2. call.phase \in {"recovery", "service"}
    BY <1>1 DEF Calls
  <1>3. CASE coord.pending # None
    <2>1. coord.pending.key \in Keys /\ coord.pending.ops \in Batches
      BY <1>3, TypeFacts DEF Inv, PendingOperations
    <2>2. Receipt = [key |-> coord.pending.key, ops |-> coord.pending.ops,
                     status |-> StatusOf(coord.pending)]
      BY <1>1, <1>2, <1>3 DEF Receipt, Own
    <2>3. StatusOf(coord.pending) \in {"applied", "rolled_back", "noop"}
      BY DEF StatusOf
    <2> QED
      BY <1>3, <2>1, <2>2, <2>3 DEF Receipts
  <1>4. CASE coord.pending = None
    BY <1>1, <1>4 DEF Receipt, Receipts
  <1> QED
    BY <1>3, <1>4

LEMMA TerminalStepInv ==
  ASSUME Inv, TerminalReceipt
  PROVE  Inv'
  <1>1. /\ Typing /\ CallAt /\ LocalAt /\ DecisionKept /\ call # None /\ call \in Calls
        /\ At("terminal")
    BY DEF Inv, TerminalReceipt, At, CallAt
  <1>2. /\ UNCHANGED <<mem, disk, local, wiring, commits, crashes>>
        /\ reconciled' \in BOOLEAN /\ refused' \in BOOLEAN
    BY <1>1 DEF TerminalReceipt, authorities, flags, Typing
  <1>3. Sized(coord) /\ Sized(journal)
    BY <1>1, TypeFacts
  <1> DEFINE n == Terminal(Receipt)
  <1>4. /\ Sized(n) /\ n.pending = None
        /\ Len(n.receipts) \in Nat \ {0} /\ n.receipts[Len(n.receipts)] = Receipt
    BY <1>1, <1>3, ReceiptFacts, TerminalFacts
  <1>5. \/ coord' = n /\ journal' = n /\ (call' = Service \/ Leave)
        \/ coord' = coord /\ journal' \in {journal, n} /\ Leave
    BY DEF TerminalReceipt, SaveJournal, SaveJournalFails
  <1> HIDE DEF n
  <1>6. CallAt'
    BY <1>1, <1>2, <1>4, <1>5, CallServes, CallLeaves
  <1>7. DecisionKept'
    <2>1. CASE coord' = n /\ journal' = n
      BY <2>1, WrittenThrough
    <2>2. CASE coord' = coord /\ journal' = journal
      BY <1>1, <2>2, Undecided
    <2>3. CASE coord' = coord /\ journal' = n
      <3>1. CASE coord.pending # None /\ coord.pending.decision = "committed"
        <4>1. Receipt = [key |-> coord.pending.key, ops |-> coord.pending.ops,
                         status |-> "applied"]
          BY <1>1, <3>1, ReceiptFacts DEF StatusOf
        <4>2. Len(n.receipts) \in 1..Len(n.receipts)
          BY <1>4
        <4>3. Settled(n, coord.pending)
          BY <1>4, <4>1, <4>2 DEF Settled
        <4> QED
          BY <2>3, <4>3 DEF DecisionKept, Settled
      <3> QED
        BY <2>3, <3>1 DEF DecisionKept
    <2> QED
      BY <1>5, <2>1, <2>2, <2>3
  <1>8. Typing'
    BY <1>1, <1>2, <1>3, <1>4, <1>5, TypeKept DEF Typing
  <1> QED
    BY <1>1, <1>2, <1>6, <1>7, <1>8, LocalsFree DEF Inv

(***************************************************************************)
(* Serving the call.                                                       *)
(***************************************************************************)
LEMMA ServeStepInv ==
  ASSUME Inv, Serve \/ ServeLocals \/ Refuse \/ Audit \/ Abort
  PROVE  Inv'
  <1>1. Typing /\ CallAt /\ LocalAt /\ DecisionKept /\ call # None /\ call \in Calls
    BY DEF Inv, Serve, ServeLocals, Refuse, Audit, Abort, At, CallAt
  <1>2. /\ UNCHANGED <<mem, disk, local, coord, wiring, reconciled, refused, commits, crashes>>
        /\ journal' \in {journal, coord}
    <2>1. CASE Serve
      <3>1. call.kind \in {"query", "recover", "operation", "apply"}
        BY <1>1 DEF Calls
      <3> QED
        BY <2>1, <3>1 DEF Serve, authorities, flags
    <2> QED
      BY <2>1 DEF ServeLocals, Refuse, Audit, Abort, authorities, flags
  <1>3. Sized(coord) /\ Sized(journal)
    BY <1>1, TypeFacts
  <1>4. Typing'
    BY <1>1, <1>2, <1>3, TypeKept DEF Typing
  <1>5. LocalAt'
    BY <1>1, <1>2, LocalsFree
  <1>6. DecisionKept'
    BY <1>1, <1>2, Undecided, WrittenThrough
  <1>7. \/ Leave \/ call' = None
        \/ call.step = "serve" /\ call' = [call EXCEPT !.step = "locals"]
        \/ call.step = "locals" /\ call.kind = "apply" /\ call' = [call EXCEPT !.step = "admit"]
    <2>1. CASE Serve
      <3>1. call.kind \in {"query", "recover", "operation", "apply"}
        BY <1>1 DEF Calls
      <3> QED
        BY <2>1, <3>1 DEF Serve, Goto, At
    <2> QED
      BY <2>1 DEF ServeLocals, Refuse, Audit, Abort, Goto, At
  <1>8. /\ call.todo \in SUBSET (Authorities \cup Edges) /\ call.failed \in BOOLEAN
        /\ "locals" \in Steps /\ "admit" \in Steps
    BY <1>1, CallFields DEF Steps
  <1>9. CallAt'
    <2>1. CASE Leave \/ call' = None
      BY <1>1, <1>2, <2>1, CallLeaves
    <2>2. CASE call.step = "serve" /\ call' = [call EXCEPT !.step = "locals"]
      <3>1. call' = Moved("locals", call.todo, call.failed)
        BY <1>1, <2>2 DEF Moved, Calls
      <3> QED
        BY <1>1, <1>2, <1>8, <2>2, <3>1, CallMoves DEF CallAt, Closing
    <2>3. CASE /\ call.step = "locals" /\ call.kind = "apply"
               /\ call' = [call EXCEPT !.step = "admit"]
      <3>1. call' = Moved("admit", call.todo, call.failed)
        BY <1>1, <2>3 DEF Moved, Calls
      <3> QED
        BY <1>1, <1>2, <1>8, <2>3, <3>1, CallMoves DEF CallAt, Closing
    <2> QED
      BY <1>7, <2>1, <2>2, <2>3
  <1> QED
    BY <1>4, <1>5, <1>6, <1>9 DEF Inv

LEMMA ServeLocalStepInv ==
  ASSUME Inv, NEW a \in Authorities, ServeLocalRecover(a)
  PROVE  Inv'
  <1>1. Typing /\ CallAt /\ LocalAt /\ DecisionKept /\ call # None /\ call \in Calls
    BY DEF Inv, ServeLocalRecover, At, CallAt
  <1>2. UNCHANGED <<local, coord, journal, wiring, reconciled, refused, commits, crashes>>
    BY DEF ServeLocalRecover, flags
  <1>3. /\ mem \in [Authorities -> AuthorityStates]
        /\ disk \in [Authorities -> AuthorityStates]
        /\ mem[a] \in AuthorityStates
    BY <1>1, TypeFacts
  <1>4. /\ Prepared(mem[a]) \in AuthorityStates
        /\ \A t \in Recovered(mem[a]) : t \in AuthorityStates
    BY <1>3, PreparedFacts, RecoveredFacts DEF ServeLocalRecover
  <1>5. /\ mem' \in [Authorities -> AuthorityStates]
        /\ disk' \in [Authorities -> AuthorityStates]
    <2>1. CASE \E t \in Recovered(mem[a]) : SaveAuthority(a, t)
      BY <1>3, <1>4, <2>1 DEF SaveAuthority
    <2>2. CASE RecoverFails(a)
      BY <1>3, <1>4, <2>2 DEF RecoverFails
    <2> QED
      BY <2>1, <2>2 DEF ServeLocalRecover
  <1>6. Typing'
    BY <1>1, <1>2, <1>5, TypeKept, TypeFacts DEF Typing
  <1>7. CASE call' = call
    <2>1. CallAt'
      BY <1>1, <1>2, <1>7 DEF CallAt, Calls, Steps, Authorities, AuthorityStates,
         LocalEntries, Intents, Batches, Actions, Closing, Own, StatusOf
    <2> QED
      BY <1>1, <1>2, <1>6, <2>1, LocalsFree, Undecided DEF Inv
  <1>8. CASE Leave
    BY <1>1, <1>2, <1>6, <1>8, CallLeaves, LocalsFree, Undecided DEF Inv
  <1> QED
    BY <1>7, <1>8 DEF ServeLocalRecover

LEMMA PendingFacts ==
  ASSUME Inv, At("admit")
  PROVE  /\ PendingOperation \in PendingOperations
         /\ PendingOperation.key = call.key /\ PendingOperation.ops = call.ops
         /\ PendingOperation.decision = "applying"
         /\ PendingOperation.before = [a \in Authorities |-> mem[a].intent]
  <1>1. /\ call.key \in Keys /\ call.ops \in Batches
        /\ mem \in [Authorities -> AuthorityStates]
    BY TypeFacts DEF Inv, At, CallAt
  <1> DEFINE b == [a \in Authorities |-> mem[a].intent]
             r == [a \in Authorities |-> mem[a].revision]
             w == {e \in DOMAIN call.ops : wiring[e] = "up"}
  <1>2. \A a \in Authorities : mem[a].intent \in Intents /\ mem[a].revision \in Nat
    BY <1>1 DEF AuthorityStates
  <1>3. b \in [Authorities -> Intents] /\ r \in [Authorities -> Nat]
    BY <1>2
  <1>4. w \in SUBSET Edges
    BY <1>1 DEF Batches
  <1>5. PendingOperation = [key |-> call.key, ops |-> call.ops, decision |-> "applying",
                            before |-> b, revision |-> r, wired |-> w]
    BY DEF PendingOperation
  <1> HIDE DEF b, r, w
  <1>6. /\ PendingOperation \in PendingOperations
        /\ PendingOperation.key = call.key /\ PendingOperation.ops = call.ops
        /\ PendingOperation.decision = "applying" /\ PendingOperation.before = b
    BY <1>1, <1>3, <1>4, <1>5 DEF PendingOperations
  <1> QED
    BY <1>6 DEF b

LEMMA AdmitStepInv ==
  ASSUME Inv, Admit
  PROVE  Inv'
  <1>1. /\ Typing /\ CallAt /\ LocalAt /\ DecisionKept /\ call # None /\ call \in Calls
        /\ At("admit")
    BY DEF Inv, Admit, At, CallAt
  <1>2. UNCHANGED <<mem, disk, local, wiring, reconciled, refused, commits, crashes>>
    BY DEF Admit, authorities, flags
  <1>3. /\ Sized(coord) /\ Sized(journal) /\ mem \in [Authorities -> AuthorityStates]
    BY <1>1, TypeFacts
  <1>4. /\ call.kind = "apply" /\ call.phase = "service" /\ coord.pending = None
        /\ call.key \in Keys /\ call.ops \in Batches
    BY <1>1 DEF At, CallAt
  <1>5. LocalAt'
    BY <1>1, <1>2, LocalsFree
  <1>6. ASSUME Sized(coord'), Sized(journal')
        PROVE  Typing'
    BY <1>1, <1>2, <1>3, <1>6, TypeKept DEF Typing
  <1> DEFINE n == [coord EXCEPT !.pending = PendingOperation]
  <1>7. /\ Sized(n) /\ n.pending = PendingOperation /\ n.pending # None
        /\ n.pending.key = call.key /\ n.pending.ops = call.ops
        /\ n.pending.decision = "applying"
    BY <1>1, <1>3, PendingFacts, OpeningFacts
  <1>8. \/ /\ coord' = n /\ journal' = n
           /\ call' = [call EXCEPT !.step = "actuate", !.todo = DOMAIN call.ops]
        \/ coord' = coord /\ journal' \in {journal, n} /\ Leave
        \/ Close(mem, "noop") /\ coord' = coord /\ journal' = journal
    BY DEF Admit, SaveJournal, SaveJournalFails
  <1> HIDE DEF n
  <1>9. CASE /\ coord' = n /\ journal' = n
             /\ call' = [call EXCEPT !.step = "actuate", !.todo = DOMAIN call.ops]
    <2> DEFINE z == DOMAIN call.ops
    <2>1. z \in SUBSET (Authorities \cup Edges)
      BY <1>4 DEF Batches
    <2>2. call' = [call EXCEPT !.step = "actuate", !.todo = z]
      BY <1>9
    <2> HIDE DEF z
    <2>3. call' = Moved("actuate", z, call.failed)
      BY <1>1, <2>2 DEF Moved, Calls
    <2>4. "actuate" \in Steps /\ call.failed \in BOOLEAN
      BY <1>1, CallFields DEF Steps
    <2>5. CallAt'
      BY <1>1, <1>2, <1>4, <1>7, <1>9, <2>1, <2>3, <2>4, CallMoves
         DEF CallAt, Closing, Own
    <2> QED
      BY <1>5, <1>6, <1>7, <1>9, <2>5, WrittenThrough DEF Inv
  <1>10. CASE coord' = coord /\ journal' \in {journal, n} /\ Leave
    <2>1. DecisionKept'
      BY <1>4, <1>10 DEF DecisionKept
    <2>2. CallAt'
      BY <1>1, <1>2, <1>10, CallLeaves
    <2> QED
      BY <1>3, <1>5, <1>6, <1>7, <1>10, <2>1, <2>2 DEF Inv
  <1>11. CASE Close(mem, "noop") /\ coord' = coord /\ journal' = journal
    <2>1. CallAt'
      BY <1>1, <1>2, <1>3, <1>4, <1>11, CallCloses
    <2> QED
      BY <1>1, <1>3, <1>5, <1>6, <1>11, <2>1, Undecided DEF Inv
  <1> QED
    BY <1>8, <1>9, <1>10, <1>11

LEMMA LoadedFacts ==
  ASSUME NEW s \in AuthorityStates, NEW t \in Loaded(s)
  PROVE  /\ t \in AuthorityStates
         /\ Copied(s) => t.intent = s.intent /\ Copied(t)
         /\ "overlap" \notin Faults /\ journal.pending # None => Quiet(t)
  <1>1. t \in Recovered(s) \/ t = s
    BY DEF Loaded
  <1>2. t \in Recovered(s) => /\ t \in AuthorityStates
                              /\ Copied(s) => t.intent = s.intent
                              /\ Quiet(t) /\ Copied(t)
    BY RecoveredFacts, QuietCopied
  <1>3. "overlap" \notin Faults /\ journal.pending # None => t \in Recovered(s)
    BY DEF Loaded
  <1> QED
    BY <1>1, <1>2, <1>3

LEMMA RestartStepInv ==
  ASSUME Inv, Restart
  PROVE  Inv'
  <1>1. Typing
    BY DEF Inv
  <1>2. /\ Sized(journal) /\ disk \in [Authorities -> AuthorityStates]
        /\ First \in Authorities /\ Second \in Authorities
    BY <1>1, TypeFacts DEF Authorities
  <1>3. PICK s \in Loaded(disk[First]), t \in Loaded(disk[Second]) :
          /\ disk' = [a \in Authorities |-> IF a = First THEN s ELSE t]
          /\ mem' = disk'
    BY Zenon DEF Restart
  <1>4. s \in AuthorityStates /\ t \in AuthorityStates
    BY <1>2, LoadedFacts
  <1>5. /\ mem' \in [Authorities -> AuthorityStates]
        /\ disk' \in [Authorities -> AuthorityStates]
    BY <1>3, <1>4
  <1>6. /\ local' = [a \in Authorities |-> FALSE] /\ coord' = journal /\ journal' = journal
        /\ reconciled' = FALSE /\ refused' = FALSE /\ call' = None
        /\ commits' \in {commits, [commits EXCEPT ![journal.pending.key] = @ + 1]}
        /\ wiring' = [e \in Edges |-> IF wiring[e] = "up" THEN "half" ELSE wiring[e]]
        /\ crashes < MaxCrashes /\ crashes' = crashes + 1
    BY DEF Restart
  <1>7. wiring' \in [Edges -> {"up", "down", "half"}]
    BY <1>1, <1>6 DEF Typing
  <1>8. crashes' \in 0..MaxCrashes /\ commits' \in [Keys -> Nat]
    BY <1>1, <1>6, CoordinatorAssumption DEF Typing
  <1>9. Typing'
    BY <1>1, <1>2, <1>5, <1>6, <1>7, <1>8, TypeKept
  <1>10. CallAt' /\ LocalAt' /\ DecisionKept'
    BY <1>6, WrittenThrough DEF CallAt, LocalAt, Authorities
  <1> QED
    BY <1>9, <1>10 DEF Inv

(* A change of the wiring behind the coordinator leaves all else as it is. *)
LEMMA RewireStepInv ==
  ASSUME Inv, NEW e \in Edges, Rewire(e)
  PROVE  Inv'
  <1>1. UNCHANGED <<mem, disk, local, coord, journal, reconciled, refused, call,
                    commits, crashes>>
    BY DEF Rewire, authorities, flags
  <1>2. wiring' \in [Edges -> {"up", "down", "half"}]
    BY DEF Rewire, Inv, Typing
  <1>3. Typing'
    BY <1>1, <1>2, TypeKept, TypeFacts DEF Inv, Typing
  <1>4. CallAt'
    BY <1>1 DEF Inv, CallAt, Calls, Steps, Authorities, AuthorityStates,
                LocalEntries, Intents, Batches, Actions, Closing, Own, StatusOf
  <1>5. LocalAt' /\ DecisionKept'
    BY <1>1, Undecided DEF Inv, LocalAt, Authorities
  <1> QED
    BY <1>3, <1>4, <1>5 DEF Inv

LEMMA StutterInv ==
  ASSUME Inv, UNCHANGED vars
  PROVE  Inv'
  <1>1. Typing'
    BY TypeKept, TypeFacts DEF Inv, vars, Typing
  <1>2. CallAt'
    BY DEF Inv, vars, CallAt, Calls, Steps, Authorities, AuthorityStates,
           LocalEntries, Intents, Batches, Actions, Closing, Own, StatusOf
  <1>3. LocalAt' /\ DecisionKept'
    BY Undecided DEF Inv, vars, LocalAt, Authorities
  <1> QED
    BY <1>1, <1>2, <1>3 DEF Inv

LEMMA NextInv ==
  ASSUME Inv, [Next]_vars
  PROVE  Inv'
  <1>1. CASE CallStep
    BY <1>1, RecoverStepInv, ActStepInv, DecideStepInv, PersistStepInv,
       TerminalStepInv, ServeStepInv, ServeLocalStepInv, AdmitStepInv DEF CallStep
  <1> QED
    BY <1>1, StartStepInv, LocalStepInv, ServeStepInv, RestartStepInv, RewireStepInv,
       StutterInv DEF Next

(* What a call, the journal and the files can be at every moment. *)
THEOREM Invariance == Spec => []Inv
  <1>1. Init => Inv
    BY InitInv
  <1>2. Inv /\ [Next]_vars => Inv'
    BY NextInv
  <1> QED
    BY <1>1, <1>2, PTL DEF Spec

(***************************************************************************)
(* A committed decision is irrevocable.                                    *)
(***************************************************************************)
LEMMA CoordChanges ==
  ASSUME [Next]_vars
  PROVE  \/ coord' = coord
         \/ RecoverPending \/ RollbackStart \/ Commit \/ TerminalReceipt \/ Admit
         \/ Restart
  <1>1. \/ CallStep \/ Query \/ Recover \/ Operation \/ Apply \/ Abort \/ Restart
        \/ \E a \in Authorities :
             \/ LocalBegin(a) \/ LocalBeginFails(a) \/ LocalEnd(a)
             \/ LocalInterrupted(a) \/ LocalRecover(a)
        \/ \E e \in Edges : Rewire(e)
        \/ UNCHANGED vars
    BY Zenon DEF Next
  <1>2. CASE UNCHANGED vars
    BY <1>2 DEF vars
  <1>3. CASE Query \/ Recover \/ Operation \/ Apply \/ Abort
    BY <1>3, Zenon DEF Query, Recover, Operation, Apply, StartCall, Abort
  <1>4. ASSUME NEW a \in Authorities,
               \/ LocalBegin(a) \/ LocalBeginFails(a) \/ LocalEnd(a)
               \/ LocalInterrupted(a) \/ LocalRecover(a)
        PROVE  coord' = coord
    BY <1>4 DEF LocalBegin, LocalBeginFails, LocalEnd, LocalInterrupted, LocalRecover
  <1>5. CASE RecoverClean \/ ReconcileStart \/ ReconcileDone \/ RecoverPendingFails
    BY <1>5 DEF RecoverClean, ReconcileStart, ReconcileDone, RecoverPendingFails,
                SaveJournalFails
  <1>6. CASE RepairDone \/ KeepPending \/ RollbackDone
    BY <1>6 DEF RepairDone, KeepPending, RollbackDone
  <1>7. CASE PersistAuthority \/ PersistAuthorityFails \/ Publish
    BY <1>7 DEF PersistAuthority, PersistAuthorityFails, Publish
  <1>8. CASE Serve \/ ServeLocals \/ Refuse \/ Audit
    BY <1>8, Zenon DEF Serve, ServeLocals, Refuse, Audit
  <1>9. ASSUME NEW a \in Authorities, ServeLocalRecover(a)
        PROVE  coord' = coord
    BY <1>9, Zenon DEF ServeLocalRecover
  <1>10. ASSUME NEW e \in Edges, Actuate(e) \/ ActuateFails(e)
         PROVE  coord' = coord
    BY <1>10, Zenon DEF Actuate, ActuateFails
  <1>11. CASE CallStep
    BY <1>5, <1>6, <1>7, <1>8, <1>9, <1>10, <1>11, Zenon DEF CallStep
  <1>12. ASSUME NEW e \in Edges, Rewire(e)
         PROVE  coord' = coord
    BY <1>12 DEF Rewire
  <1> QED
    BY <1>1, <1>2, <1>3, <1>4, <1>11, <1>12, Zenon

LEMMA DecisionStep ==
  ASSUME Inv, [Next]_vars,
         coord.pending # None, coord.pending.decision = "committed"
  PROVE  coord'.pending = coord.pending \/ Settled(coord', coord.pending)
  <1>1. /\ CallAt /\ DecisionKept
        /\ Sized(coord) /\ coord.pending \in PendingOperations
    BY TypeFacts DEF Inv
  <1>2. CASE UNCHANGED coord
    BY <1>2
  <1>3. CASE RecoverPending
    BY <1>1, <1>3, ResumedFacts DEF RecoverPending, SaveJournal, Resumed
  <1>4. CASE RollbackStart \/ Commit \/ Admit
    BY <1>1, <1>4 DEF RollbackStart, Commit, Admit, At, CallAt
  <1>5. CASE TerminalReceipt
    <2>1. At("terminal")
      BY <1>5 DEF TerminalReceipt
    <2> DEFINE n == Terminal(Receipt)
    <2>2. /\ Receipt \in Receipts
          /\ Receipt = [key |-> coord.pending.key, ops |-> coord.pending.ops,
                        status |-> "applied"]
      BY <2>1, ReceiptFacts DEF StatusOf
    <2>3. Len(n.receipts) \in Nat \ {0} /\ n.receipts[Len(n.receipts)] = Receipt
      BY <1>1, <2>2, TerminalFacts
    <2>4. coord' = n \/ coord' = coord
      BY <1>5 DEF TerminalReceipt, SaveJournal, SaveJournalFails
    <2> HIDE DEF n
    <2>5. Len(n.receipts) \in 1..Len(n.receipts)
      BY <2>3
    <2> QED
      BY <2>2, <2>3, <2>4, <2>5 DEF Settled
  <1>6. CASE Restart
    BY <1>1, <1>6 DEF Restart, DecisionKept, Settled
  <1> QED
    BY <1>2, <1>3, <1>4, <1>5, <1>6, CoordChanges

(* "A fsynced Committed decision is irrevocable": whatever fails, is       *)
(* dropped or restarts, the operation the coordinator decided committed    *)
(* stays its pending operation until the journal holds a receipt that says *)
(* applied, for any edges, keys and limits.                                *)
THEOREM CommittedIsIrrevocable == Spec => DecisionIrrevocable
  <1>1. Inv /\ [Next]_vars =>
          [coord.pending # None /\ coord.pending.decision = "committed"
             => coord'.pending = coord.pending \/ Settled(coord', coord.pending)]_vars
    BY DecisionStep
  <1> QED
    BY <1>1, Invariance, PTL DEF Spec, DecisionIrrevocable

(***************************************************************************)
(* Every key is in the journal once, and no key is forgotten that was ever *)
(* decided: while the keys in use fit the two histories, a full journal    *)
(* moves keys and drops none.                                              *)
(***************************************************************************)
KeysFit ==
  IsFiniteSet(Keys) /\ Cardinality(Keys) <= ReceiptLimit + HistoryLimit

LEMMA RememberedFacts ==
  ASSUME NEW j, Sized(j)
  PROVE  /\ Remembered(j) \in Seq(Keys)
         /\ Len(j.compacted) \in Nat /\ Len(j.receipts) \in Nat
         /\ Len(Remembered(j)) = Len(j.compacted) + Len(j.receipts)
         /\ \A i \in 1..Len(j.compacted) : Remembered(j)[i] = j.compacted[i]
         /\ \A i \in 1..Len(j.receipts) :
              Remembered(j)[Len(j.compacted) + i] = j.receipts[i].key
  <1>1. j.compacted \in Seq(Keys) /\ j.receipts \in Seq(Receipts)
    BY DEF Sized, Journals
  <1>2. /\ KeysOf(j.receipts) \in Seq(Keys) /\ Len(KeysOf(j.receipts)) = Len(j.receipts)
        /\ \A i \in 1..Len(j.receipts) : KeysOf(j.receipts)[i] = j.receipts[i].key
    BY <1>1, KeysOfFacts
  <1>3. Len(j.compacted) \in Nat /\ Len(j.receipts) \in Nat
    BY <1>1
  <1> DEFINE u == KeysOf(j.receipts)
             c == j.compacted
  <1>4. /\ c \o u \in Seq(Keys)
        /\ Len(c \o u) = Len(c) + Len(u)
        /\ \A i \in 1 .. Len(c) + Len(u) : (c \o u)[i] =
                     IF i <= Len(c) THEN c[i] ELSE u[i - Len(c)]
    BY <1>1, <1>2, ConcatProperties
  <1>5. Remembered(j) = c \o u
    BY DEF Remembered
  <1>6. /\ Len(c) \in Nat /\ Len(u) \in Nat /\ Len(u) = Len(j.receipts)
        /\ \A i \in 1..Len(u) : u[i] = j.receipts[i].key
    BY <1>2, <1>3
  <1> HIDE DEF u, c
  <1>7. \A i \in 1..Len(c) : Remembered(j)[i] = c[i]
    BY <1>4, <1>5, <1>6
  <1>8. \A i \in 1..Len(u) : Remembered(j)[Len(c) + i] = u[i]
    <2> SUFFICES ASSUME NEW i \in 1..Len(u) PROVE (c \o u)[Len(c) + i] = u[i]
      BY <1>5
    <2>1. /\ Len(c) + i \in 1..(Len(c) + Len(u)) /\ ~(Len(c) + i <= Len(c))
          /\ Len(c) + i - Len(c) = i
      BY <1>6
    <2> QED
      BY <1>4, <2>1
  <1>9. Len(Remembered(j)) = Len(c) + Len(u) /\ Remembered(j) \in Seq(Keys)
    BY <1>4, <1>5
  <1> QED
    BY <1>6, <1>7, <1>8, <1>9 DEF c

LEMMA DistinctBound ==
  ASSUME IsFiniteSet(Keys), NEW s \in Seq(Keys), Distinct(s)
  PROVE  Len(s) <= Cardinality(Keys)
  <1>1. Len(s) \in Nat /\ s \in [1..Len(s) -> Keys]
    BY LenProperties
  <1>2. s \in Injection(1..Len(s), Keys)
    BY <1>1 DEF Injection, Distinct, IsInjective
  <1>3. Cardinality(1..Len(s)) <= Cardinality(Keys)
    BY <1>2, FS_Injection
  <1>4. Cardinality(1..Len(s)) = Len(s)
    <2> DEFINE n == Len(s)
    <2> HIDE DEF n
    <2>1. n \in Nat
      BY <1>1 DEF n
    <2>2. Cardinality(1..n) = IF 1 > n THEN 0 ELSE n - 1 + 1
      BY <2>1, FS_Interval
    <2>3. Cardinality(1..n) = n
      BY <2>1, <2>2
    <2> QED
      BY <2>3 DEF n
  <1> QED
    BY <1>3, <1>4

LEMMA AppendDistinct ==
  ASSUME NEW s \in Seq(Keys), NEW k \in Keys, Distinct(s), ~In(k, s)
  PROVE  /\ Append(s, k) \in Seq(Keys)
         /\ Len(Append(s, k)) = Len(s) + 1 /\ Len(s) \in Nat
         /\ Distinct(Append(s, k))
         /\ In(k, Append(s, k))
         /\ \A l : In(l, s) => In(l, Append(s, k))
  <1>1. /\ Len(s) \in Nat /\ Append(s, k) \in Seq(Keys)
        /\ Len(Append(s, k)) = Len(s) + 1
        /\ \A i \in 1..Len(s) : Append(s, k)[i] = s[i]
        /\ Append(s, k)[Len(s) + 1] = k
    BY AppendProperties
  <1> DEFINE t == Append(s, k)
  <1> HIDE DEF t
  <1>2. /\ Len(t) = Len(s) + 1 /\ t[Len(s) + 1] = k
        /\ \A i \in 1..Len(s) : t[i] = s[i]
    BY <1>1 DEF t
  <1>3. Distinct(t)
    <2> SUFFICES ASSUME NEW x \in 1..Len(t), NEW y \in 1..Len(t), t[x] = t[y]
                 PROVE  x = y
      BY DEF Distinct
    <2>1. CASE x \in 1..Len(s) /\ y \in 1..Len(s)
      BY <1>2, <2>1 DEF Distinct
    <2>2. CASE x = Len(s) + 1 /\ y \in 1..Len(s)
      BY <1>2, <2>2 DEF In
    <2>3. CASE x \in 1..Len(s) /\ y = Len(s) + 1
      BY <1>2, <2>3 DEF In
    <2> QED
      BY <1>1, <1>2, <2>1, <2>2, <2>3
  <1>4. In(k, t)
    <2>1. Len(s) + 1 \in 1..Len(t)
      BY <1>1, <1>2
    <2> QED
      BY <1>2, <2>1 DEF In
  <1>5. \A l : In(l, s) => In(l, t)
    <2>1. \A i \in 1..Len(s) : i \in 1..Len(t)
      BY <1>1, <1>2
    <2> QED
      BY <1>2, <2>1 DEF In
  <1> QED
    BY <1>1, <1>3, <1>4, <1>5 DEF t

LEMMA TerminalRemembers ==
  ASSUME KeysFit, Sized(coord), NEW r \in Receipts,
         Distinct(Remembered(coord)), ~In(r.key, Remembered(coord))
  PROVE  Remembered(Terminal(r)) = Append(Remembered(coord), r.key)
  <1> DEFINE all == Append(coord.receipts, r)
             old == coord.compacted
             t == Terminal(r)
             rem == Remembered(coord)
             m == Len(all) - Len(t.receipts)
             gone == SubSeq(all, 1, m)
  <1>1. /\ coord.receipts \in Seq(Receipts) /\ old \in Seq(Keys)
        /\ Len(coord.receipts) \in Nat /\ Len(old) \in Nat /\ Len(old) <= HistoryLimit
        /\ r.key \in Keys
    BY DEF Sized, Journals, Receipts
  <1>2. /\ all \in Seq(Receipts) /\ Len(all) = Len(coord.receipts) + 1
        /\ all[Len(all)] = r
        /\ \A i \in 1..Len(coord.receipts) : all[i] = coord.receipts[i]
    BY <1>1, AppendProperties
  <1>3. ReceiptLimit \in Nat /\ HistoryLimit \in Nat /\ Cardinality(Keys) \in Nat
    BY CoordinatorAssumption, FS_CardinalityType DEF KeysFit
  <1>4. /\ rem \in Seq(Keys) /\ Len(rem) = Len(old) + Len(coord.receipts)
        /\ \A i \in 1..Len(old) : rem[i] = old[i]
        /\ \A i \in 1..Len(coord.receipts) : rem[Len(old) + i] = coord.receipts[i].key
    BY RememberedFacts
  <1>5. /\ Append(rem, r.key) \in Seq(Keys) /\ Len(Append(rem, r.key)) = Len(rem) + 1
        /\ Distinct(Append(rem, r.key))
    BY <1>1, <1>4, AppendDistinct
  <1> HIDE DEF rem
  <1>6. Len(old) + Len(all) <= ReceiptLimit + HistoryLimit
    <2>1. Len(Append(rem, r.key)) <= Cardinality(Keys)
      BY <1>5, DistinctBound DEF KeysFit
    <2>2. Len(Append(rem, r.key)) = Len(old) + Len(all)
      <3> HIDE DEF all, old
      <3> QED
        BY <1>1, <1>2, <1>4, <1>5
    <2> HIDE DEF all, old
    <2> QED
      BY <1>1, <1>2, <1>3, <2>1, <2>2 DEF KeysFit
  <1>7. /\ Sized(t) /\ t.receipts = Bounded(all, ReceiptLimit)
        /\ t.compacted = Bounded(old \o KeysOf(SubSeq(all, 1, Len(coord.receipts) + 1 - Len(t.receipts))),
                                 HistoryLimit)
    BY TerminalFacts
  <1>8. t.compacted = Bounded(old \o KeysOf(gone), HistoryLimit)
    BY <1>2, <1>7
  <1>9. /\ Len(t.receipts) \in Nat /\ Len(t.receipts) <= Len(all)
        /\ Len(all) <= ReceiptLimit => t.receipts = all
        /\ Len(all) > ReceiptLimit => Len(t.receipts) = ReceiptLimit
        /\ \A i \in 1..Len(t.receipts) : t.receipts[i] = all[m + i]
    <2>1. all \in Seq(Receipts)
      BY <1>2
    <2>2. ReceiptLimit \in Nat
      BY <1>3
    <2>3. t.receipts = Bounded(all, ReceiptLimit)
      BY <1>7
    <2> HIDE DEF t, all
    <2> DEFINE bd == Bounded(all, ReceiptLimit)
    <2>4. /\ Len(bd) \in Nat /\ Len(bd) <= Len(all)
          /\ Len(all) <= ReceiptLimit => bd = all
          /\ Len(all) > ReceiptLimit => Len(bd) = ReceiptLimit
          /\ \A i \in 1..Len(bd) : bd[i] = all[Len(all) - Len(bd) + i]
      BY ONLY <2>1, <2>2, BoundedFacts, Zenon
    <2> HIDE DEF bd
    <2> QED
      BY <2>3, <2>4 DEF bd
  <1> HIDE DEF all, old, t
  <1>10. m \in Nat /\ m <= Len(all) /\ Len(old) + m <= HistoryLimit
    <2>1. Len(all) \in Nat /\ Len(old) \in Nat /\ Len(t.receipts) \in Nat
      BY <1>1, <1>2, <1>9
    <2>2. CASE Len(all) > ReceiptLimit
      BY <1>3, <1>6, <1>9, <2>1, <2>2
    <2>3. CASE Len(all) <= ReceiptLimit
      <3>1. Len(t.receipts) = Len(all)
        BY <1>9, <2>3
      <3> QED
        BY <1>1, <1>3, <2>1, <3>1
    <2> QED
      BY <1>3, <2>1, <2>2, <2>3
  <1> HIDE DEF m
  <1>11. /\ gone \in Seq(Receipts) /\ Len(gone) = m
         /\ \A i \in 1..m : gone[i] = all[i]
    <2>1. \A i \in 1..m : all[i] \in Receipts
      BY <1>2, <1>10, ElementOfSeq
    <2>2. /\ gone \in Seq(Receipts)
          /\ Len(gone) = IF 1 <= m THEN m - 1 + 1 ELSE 0
          /\ \A i \in 1 .. m-1+1 : gone[i] = all[1+i-1]
      BY <1>10, <2>1, SubSeqProperties
    <2> HIDE DEF gone
    <2> QED
      BY <1>10, <2>2
  <1> HIDE DEF gone
  <1>12. /\ KeysOf(gone) \in Seq(Keys) /\ Len(KeysOf(gone)) = m
         /\ \A i \in 1..m : KeysOf(gone)[i] = all[i].key
    BY <1>11, KeysOfFacts
  <1> DEFINE u == KeysOf(gone)
  <1> HIDE DEF u
  <1>13. /\ old \o u \in Seq(Keys) /\ Len(old \o u) = Len(old) + m
         /\ \A i \in 1..(Len(old) + m) :
              (old \o u)[i] = IF i <= Len(old) THEN old[i] ELSE u[i - Len(old)]
    BY <1>1, <1>12, ConcatProperties DEF u
  <1>14. t.compacted = old \o u
    <2>1. Len(old \o u) <= HistoryLimit /\ old \o u \in Seq(Keys) /\ HistoryLimit \in Nat
      BY <1>3, <1>10, <1>13
    <2>2. Bounded(old \o u, HistoryLimit) = old \o u
      BY <2>1, BoundedFacts
    <2> QED
      BY <1>8, <2>2 DEF u
  <1>15. /\ Remembered(t) \in Seq(Keys)
         /\ Len(Remembered(t)) = Len(t.compacted) + Len(t.receipts)
         /\ \A i \in 1..Len(t.compacted) : Remembered(t)[i] = t.compacted[i]
         /\ \A i \in 1..Len(t.receipts) :
              Remembered(t)[Len(t.compacted) + i] = t.receipts[i].key
    BY <1>7, RememberedFacts
  <1> DEFINE x == Remembered(t)
             y == Append(rem, r.key)
             c == Len(old)
             n == Len(all)
  <1>16. Len(x) = c + n /\ Len(y) = c + n
    BY <1>1, <1>2, <1>4, <1>5, <1>9, <1>10, <1>13, <1>14, <1>15 DEF m
  <1>17. \A i \in 1..n : y[c + i] = all[i].key
    <2>1. /\ \A i \in 1..Len(rem) : y[i] = rem[i]
          /\ y[Len(rem) + 1] = r.key
      BY <1>1, <1>4, AppendProperties
    <2> HIDE DEF y
    <2> SUFFICES ASSUME NEW i \in 1..n PROVE y[c + i] = all[i].key
      OBVIOUS
    <2>2. CASE i = n
      BY <1>1, <1>2, <1>4, <2>1, <2>2
    <2>3. CASE i \in 1..Len(coord.receipts)
      <3>1. c + i \in 1..Len(rem)
        BY <1>1, <1>4, <2>3
      <3> QED
        BY <1>2, <1>4, <2>1, <2>3, <3>1
    <2> QED
      BY <1>1, <1>2, <2>2, <2>3
  <1>18. \A i \in 1..n : x[c + i] = all[i].key
    <2> HIDE DEF x
    <2> SUFFICES ASSUME NEW i \in 1..n PROVE x[c + i] = all[i].key
      OBVIOUS
    <2>1. CASE i <= m
      <3>1. c + i \in 1..Len(t.compacted) /\ i \in 1..m
        BY <1>1, <1>2, <1>10, <1>13, <1>14, <2>1
      <3>2. x[c + i] = (old \o u)[c + i]
        BY <1>14, <1>15, <3>1 DEF x
      <3>3. (old \o u)[c + i] = u[i]
        <4>1. c + i \in 1..(c + m) /\ ~(c + i <= c) /\ c + i - c = i
          BY <1>1, <1>10, <3>1
        <4> QED
          BY <1>13, <4>1
      <3> QED
        BY <1>12, <3>1, <3>2, <3>3 DEF u
    <2>2. CASE i > m
      <3>1. i - m \in 1..Len(t.receipts) /\ m + (i - m) = i
        <4>1. m \in Nat /\ m + Len(t.receipts) = n /\ n \in Nat /\ Len(t.receipts) \in Nat
          BY <1>1, <1>2, <1>9, <1>10 DEF m
        <4> HIDE DEF n
        <4> QED
          BY <2>2, <4>1
      <3>2. Len(t.compacted) + (i - m) = c + i
        <4>1. Len(t.compacted) = c + m /\ c \in Nat
          BY <1>1, <1>13, <1>14
        <4> HIDE DEF c
        <4> QED
          BY <1>10, <4>1
      <3>3. x[Len(t.compacted) + (i - m)] = t.receipts[i - m].key
        BY <1>15, <3>1 DEF x
      <3>4. t.receipts[i - m] = all[i]
        BY <1>9, <3>1
      <3> QED
        BY <3>2, <3>3, <3>4
    <2> QED
      BY <1>2, <1>10, <2>1, <2>2
  <1>19. \A i \in 1..c : x[i] = old[i] /\ y[i] = old[i]
    <2> HIDE DEF x
    <2>1. \A i \in 1..Len(rem) : y[i] = rem[i]
      BY <1>1, <1>4, AppendProperties
    <2> HIDE DEF y
    <2> SUFFICES ASSUME NEW i \in 1..c PROVE x[i] = old[i] /\ y[i] = old[i]
      OBVIOUS
    <2>2. y[i] = old[i]
      BY <1>1, <1>4, <2>1
    <2>3. i \in 1..Len(t.compacted) /\ i \in 1..(c + m) /\ i <= c
      BY <1>1, <1>10, <1>13, <1>14
    <2>4. x[i] = (old \o u)[i]
      BY <1>14, <1>15, <2>3 DEF x
    <2> QED
      BY <1>13, <2>2, <2>3, <2>4
  <1>20. \A i \in 1..(c + n) : x[i] = y[i]
    <2> HIDE DEF x, y
    <2> SUFFICES ASSUME NEW i \in 1..(c + n) PROVE x[i] = y[i]
      OBVIOUS
    <2>1. CASE i \in 1..c
      BY <1>19, <2>1
    <2>2. CASE i - c \in 1..n
      <3>1. c + (i - c) = i
        BY <1>1
      <3> QED
        BY <1>17, <1>18, <2>2, <3>1
    <2> QED
      BY <1>1, <1>2, <2>1, <2>2
  <1>21. x = y
    <2>1. x \in Seq(Keys) /\ y \in Seq(Keys)
      BY <1>5, <1>15
    <2> HIDE DEF x, y, c, n
    <2> QED
      BY <1>16, <1>20, <2>1, SeqEqual
  <1> QED
    BY <1>21 DEF t, rem

(* Where a step can leave a call. *)
LEMMA CallSteps ==
  ASSUME call \in Calls
  PROVE  /\ Leave => call' = None \/ call'.step = "audit"
         /\ Service.step = "serve" /\ Service.kind = call.kind
         /\ \A t, st : Close(t, st) =>
              /\ call'.step = "persist" /\ call'.kind = call.kind
              /\ call'.key = call.key
  <1>1. Leave => call' = None \/ call'.step = "audit"
    BY DEF Calls, Leave
  <1>2. Service.step = "serve" /\ Service.kind = call.kind
    BY DEF Calls, Service
  <1>3. ASSUME NEW t, NEW st, Close(t, st)
        PROVE  /\ call'.step = "persist" /\ call'.kind = call.kind
               /\ call'.key = call.key
    BY <1>3 DEF Calls, Close
  <1> QED
    BY <1>1, <1>2, <1>3

(* An apply passes the check for a known key before it journals anything,  *)
(* and no other call can add a key in between.                             *)
LEMMA FreshStep ==
  ASSUME Inv, KeysAt, [Next]_vars, call' # None, call'.kind = "apply", Fresh'
  PROVE  ~In(call'.key, Remembered(coord'))
  <1>0. CallAt /\ (call # None => call \in Calls)
    BY DEF Inv, CallAt
  <1>1. ASSUME call # None, call' = call, coord' = coord
        PROVE  ~In(call'.key, Remembered(coord'))
    BY <1>1 DEF KeysAt, Fresh, Closing
  <1>2. ASSUME call # None, Leave PROVE FALSE
    BY <1>0, <1>2, CallSteps DEF Fresh, Closing
  <1>3. ASSUME call # None, call' = Service PROVE FALSE
    BY <1>0, <1>3, CallSteps DEF Fresh, Closing
  <1>4. CASE Query \/ Recover \/ Operation \/ Apply
    <2>1. call'.step = "recover"
      BY <1>4 DEF Query, Recover, Operation, Apply, StartCall, NewCall
    <2> QED
      BY <2>1 DEF Fresh, Closing
  <1>5. CASE RecoverClean \/ ReconcileStart \/ ReconcileDone \/ RecoverPending
               \/ RecoverPendingFails
    <2>1. call # None
      BY <1>5 DEF RecoverClean, ReconcileStart, ReconcileDone, RecoverPending,
                  RecoverPendingFails, At
    <2>2. CASE ReconcileStart \/ RecoverPending
      <3>1. call'.step \in {"reconcile", "repair"}
        BY <1>0, <2>1, <2>2 DEF ReconcileStart, RecoverPending, Calls
      <3> QED
        BY <3>1 DEF Fresh, Closing
    <2> QED
      BY <1>3, <1>5, <2>1, <2>2 DEF RecoverClean, ReconcileDone, RecoverPendingFails
  <1>6. ASSUME NEW e \in Edges, Actuate(e) \/ ActuateFails(e)
        PROVE  FALSE
    <2>1. call # None /\ call.step \in {"reconcile", "repair", "actuate", "rollback"}
      BY <1>6 DEF Actuate, ActuateFails, Acting
    <2>2. \/ call' = [call EXCEPT !.todo = @ \ {e}]
          \/ call' = [call EXCEPT !.todo = @ \ {e}, !.failed = TRUE]
          \/ call' = Service
          \/ call' = [call EXCEPT !.step = "abandon", !.todo = {}]
      BY <1>6, Zenon DEF Actuate, ActuateFails
    <2>3. call' = Service \/ call'.step = call.step \/ call'.step = "abandon"
      BY <1>0, <2>1, <2>2 DEF Calls
    <2> QED
      BY <1>3, <2>1, <2>3 DEF Fresh, Closing
  <1>7. CASE RepairDone \/ RollbackDone
    <2>1. /\ call # None /\ coord' = coord /\ coord.pending # None
          /\ \E t, st : Close(t, st)
      BY <1>0, <1>7 DEF RepairDone, RollbackDone, At, CallAt
    <2>2. call'.step = "persist"
      BY <1>0, <2>1, CallSteps
    <2> QED
      BY <2>1, <2>2 DEF Fresh, Closing
  <1>8. CASE KeepPending
    BY <1>2, <1>8 DEF KeepPending
  <1>9. CASE RollbackStart
    <2>1. call # None
      BY <1>9 DEF RollbackStart, At
    <2>2. CASE call' = [call EXCEPT !.step = "rollback", !.todo = DOMAIN call.ops]
      <3>1. call'.step = "rollback"
        BY <1>0, <2>1, <2>2 DEF Calls
      <3> QED
        BY <3>1 DEF Fresh, Closing
    <2> QED
      BY <1>2, <1>9, <2>1, <2>2 DEF RollbackStart
  <1>10. CASE Commit
    <2>1. call # None /\ coord.pending # None
      BY <1>0, <1>10 DEF Commit, At, CallAt
    <2>2. CASE coord' = Deciding(coord, "committed") /\ \E t, st : Close(t, st)
      <3>1. coord'.pending # None
        BY <2>1, <2>2, TypeFacts, DecidingFacts DEF Inv
      <3>2. call'.step = "persist"
        BY <1>0, <2>1, <2>2, CallSteps
      <3> QED
        BY <3>1, <3>2 DEF Fresh, Closing
    <2> QED
      BY <1>2, <1>10, <2>1, <2>2 DEF Commit, SaveJournal, Deciding
  <1>11. CASE PersistAuthority \/ Publish
    <2>1. call # None /\ call.step \in Closing /\ coord' = coord
      BY <1>11 DEF PersistAuthority, Publish, At, Closing
    <2>2. call'.kind = call.kind /\ call'.key = call.key /\ call'.step \in Closing
      BY <1>0, <1>11, <2>1 DEF PersistAuthority, Publish, Calls, Closing
    <2>3. Fresh
      BY <2>1, <2>2 DEF Fresh, Closing
    <2> QED
      BY <2>1, <2>2, <2>3 DEF KeysAt
  <1>12. CASE PersistAuthorityFails \/ TerminalReceipt \/ Refuse \/ Audit \/ Abort
    BY <1>2, <1>3, <1>12
       DEF PersistAuthorityFails, TerminalReceipt, Refuse, Audit, Abort, At
  <1>13. CASE Serve
    <2>1. call # None /\ coord' = coord
      BY <1>13 DEF Serve, At
    <2>2. call.kind \in {"query", "recover", "operation", "apply"}
      BY <1>0, <2>1 DEF Calls
    <2>3. \/ Leave \/ call' = None
          \/ call' = [call EXCEPT !.step = "locals"] /\ (call.kind = "query" \/ ~Known(call.key))
      BY <1>13, <2>2 DEF Serve, Goto
    <2>4. CASE call' = [call EXCEPT !.step = "locals"] /\ (call.kind = "query" \/ ~Known(call.key))
      <3>1. call'.kind = call.kind /\ call'.key = call.key
        BY <1>0, <2>1, <2>4 DEF Calls
      <3>2. ~Known(call.key)
        BY <2>4, <3>1
      <3>3. Sized(coord)
        BY TypeFacts DEF Inv
      <3>4. /\ Len(coord.compacted) \in Nat /\ Len(coord.receipts) \in Nat
            /\ Len(Remembered(coord)) = Len(coord.compacted) + Len(coord.receipts)
            /\ \A i \in 1..Len(coord.compacted) : Remembered(coord)[i] = coord.compacted[i]
            /\ \A i \in 1..Len(coord.receipts) :
                 Remembered(coord)[Len(coord.compacted) + i] = coord.receipts[i].key
        BY <3>3, RememberedFacts
      <3>5. ASSUME NEW i \in 1..Len(Remembered(coord)), Remembered(coord)[i] = call.key
            PROVE  FALSE
        <4>1. CASE i \in 1..Len(coord.compacted)
          BY <3>2, <3>4, <3>5, <4>1 DEF Known
        <4>2. CASE i - Len(coord.compacted) \in 1..Len(coord.receipts)
          <5>1. Len(coord.compacted) + (i - Len(coord.compacted)) = i
            BY <3>4
          <5>2. coord.receipts[i - Len(coord.compacted)].key = call.key
            BY <3>4, <3>5, <4>2, <5>1
          <5> QED
            BY <3>2, <4>2, <5>2 DEF Known
        <4>3. i \in 1..(Len(coord.compacted) + Len(coord.receipts))
          BY <3>4
        <4>4. i \in 1..Len(coord.compacted)
                \/ i - Len(coord.compacted) \in 1..Len(coord.receipts)
          <5> DEFINE c == Len(coord.compacted)
                     n == Len(coord.receipts)
          <5>1. c \in Nat /\ n \in Nat /\ i \in 1..(c + n)
            BY <3>4, <4>3
          <5> HIDE DEF c, n
          <5>2. i \in 1..c \/ i - c \in 1..n
            BY <5>1
          <5> QED
            BY <5>2 DEF c, n
        <4> QED
          BY <4>1, <4>2, <4>4
      <3> QED
        BY <2>1, <3>1, <3>5 DEF In
    <2> QED
      BY <1>2, <2>1, <2>3, <2>4
  <1>14. CASE ServeLocals
    <2>1. call # None /\ coord' = coord /\ call.step = "locals"
      BY <1>14 DEF ServeLocals, At
    <2>2. CASE call' = [call EXCEPT !.step = "admit"]
      <3>1. call'.kind = call.kind /\ call'.key = call.key
        BY <1>0, <2>1, <2>2 DEF Calls
      <3> QED
        BY <2>1, <3>1 DEF KeysAt, Fresh
    <2> QED
      BY <1>2, <1>14, <2>1, <2>2 DEF ServeLocals, Goto
  <1>15. ASSUME NEW a \in Authorities, ServeLocalRecover(a)
         PROVE  ~In(call'.key, Remembered(coord'))
    BY <1>1, <1>2, <1>15 DEF ServeLocalRecover, At
  <1>16. CASE Admit
    <2>1. call # None /\ call.step = "admit"
      BY <1>16 DEF Admit, At
    <2>2. CASE call' = [call EXCEPT !.step = "actuate", !.todo = DOMAIN call.ops]
      <3>1. call'.step = "actuate"
        BY <1>0, <2>1, <2>2 DEF Calls
      <3> QED
        BY <3>1 DEF Fresh, Closing
    <2>3. CASE Close(mem, "noop") /\ coord' = coord
      <3>1. call'.kind = call.kind /\ call'.key = call.key
        BY <1>0, <2>1, <2>3, CallSteps
      <3> QED
        BY <2>1, <2>3, <3>1 DEF KeysAt, Fresh
    <2> QED
      BY <1>2, <1>16, <2>1, <2>2, <2>3 DEF Admit
  <1>17. ASSUME NEW a \in Authorities,
                \/ LocalBegin(a) \/ LocalBeginFails(a) \/ LocalEnd(a)
                \/ LocalInterrupted(a) \/ LocalRecover(a)
         PROVE  FALSE
    BY <1>0, <1>17 DEF LocalBegin, LocalBeginFails, LocalEnd, LocalInterrupted,
                       LocalRecover, Unlocked, CallAt
  <1>18. CASE Restart
    BY <1>18 DEF Restart
  <1>19. CASE UNCHANGED vars
    BY <1>1, <1>19 DEF vars
  <1>20. CASE CallStep
    BY <1>5, <1>6, <1>7, <1>8, <1>9, <1>10, <1>11, <1>12, <1>13, <1>14, <1>15,
       <1>16, <1>20, Zenon DEF CallStep
  <1>21. ASSUME NEW e \in Edges, Rewire(e)
         PROVE  ~In(call'.key, Remembered(coord'))
    BY <1>1, <1>21 DEF Rewire
  <1> QED
    BY <1>4, <1>12, <1>17, <1>18, <1>19, <1>20, <1>21, Zenon DEF Next

LEMMA SameKeys ==
  ASSUME NEW i, NEW j, NEW counts, KeysOnce(j, counts),
         i.receipts = j.receipts, i.compacted = j.compacted,
         i.pending # None, j.pending # None, i.pending.key = j.pending.key,
         j.pending.decision = "applying"
  PROVE  KeysOnce(i, counts)
  <1>1. Remembered(i) = Remembered(j)
    BY DEF Remembered
  <1> QED
    BY <1>1 DEF KeysOnce

(* What a step may write into the journal, in memory or in the file. *)
LEMMA JournalStep ==
  ASSUME Inv, KeysFit, KeysAt, [Next]_vars, ~Commit, ~Restart
  PROVE  \E n : /\ KeysOnce(n, commits) /\ (Decided(n) => n = coord)
                /\ coord' = coord \/ coord' = journal'
                /\ coord' \in {coord, journal, n} /\ journal' \in {coord, journal, n}
                /\ commits' = commits
  <1>0. /\ CallAt /\ Sized(coord) /\ Sized(journal)
        /\ coord.pending = None \/ coord.pending \in PendingOperations
        /\ KeysOnce(coord, commits)
        /\ call # None => call \in Calls
    BY TypeFacts DEF Inv, CallAt, KeysAt
  <1>1. ASSUME coord' = coord, journal' \in {coord, journal}, commits' = commits
        PROVE  \E n : /\ KeysOnce(n, commits) /\ (Decided(n) => n = coord)
                      /\ coord' = coord \/ coord' = journal'
                      /\ coord' \in {coord, journal, n} /\ journal' \in {coord, journal, n}
                      /\ commits' = commits
    BY <1>0, <1>1
  <1>2. CASE RecoverPending \/ RecoverPendingFails
    <2>1. coord.pending # None /\ commits' = commits
      BY <1>2 DEF RecoverPending, RecoverPendingFails
    <2> DEFINE n == Resumed(coord)
    <2>2. /\ n.receipts = coord.receipts /\ n.compacted = coord.compacted
          /\ n.pending # None /\ n.pending.key = coord.pending.key
          /\ coord.pending.decision # "applying" => n = coord
          /\ Decided(n) => n = coord
      BY <1>0, <2>1, ResumedFacts DEF Decided
    <2>3. /\ coord' \in {coord, n} /\ journal' \in {journal, n}
          /\ coord' = coord \/ coord' = journal'
      BY <1>2 DEF RecoverPending, RecoverPendingFails, SaveJournal, SaveJournalFails
    <2> HIDE DEF n
    <2>4. KeysOnce(n, commits)
      BY <1>0, <2>1, <2>2, SameKeys
    <2> QED
      BY <2>1, <2>2, <2>3, <2>4
  <1>3. CASE RollbackStart
    <2>1. coord.pending # None /\ coord.pending.decision = "applying" /\ commits' = commits
      BY <1>0, <1>3 DEF RollbackStart, At, CallAt
    <2> DEFINE n == Deciding(coord, "rolling_back")
    <2>2. /\ n.receipts = coord.receipts /\ n.compacted = coord.compacted
          /\ n.pending # None /\ n.pending.key = coord.pending.key
          /\ ~Decided(n)
      BY <1>0, <2>1, DecidingFacts DEF Decided
    <2>3. /\ coord' \in {coord, n} /\ journal' \in {journal, n}
          /\ coord' = coord \/ coord' = journal'
      BY <1>3 DEF RollbackStart, SaveJournal, SaveJournalFails, RollingBack, Deciding
    <2> HIDE DEF n
    <2>4. KeysOnce(n, commits)
      BY <1>0, <2>1, <2>2, SameKeys
    <2> QED
      BY <2>1, <2>2, <2>3, <2>4
  <1>4. CASE Admit
    <2>1. /\ call # None /\ call.kind = "apply" /\ coord.pending = None /\ At("admit")
          /\ commits' = commits /\ ~In(call.key, Remembered(coord))
      BY <1>0, <1>4 DEF Admit, At, CallAt, KeysAt, Fresh
    <2> DEFINE n == [coord EXCEPT !.pending = PendingOperation]
    <2>2. /\ n.receipts = coord.receipts /\ n.compacted = coord.compacted
          /\ n.pending # None /\ n.pending.key = call.key
          /\ ~Decided(n)
      BY <1>0, <2>1, PendingFacts, OpeningFacts DEF Decided
    <2>3. /\ coord' \in {coord, n} /\ journal' \in {journal, n}
          /\ coord' = coord \/ coord' = journal'
      BY <1>4 DEF Admit, SaveJournal, SaveJournalFails
    <2> HIDE DEF n
    <2>4. Remembered(n) = Remembered(coord)
      BY <2>2 DEF Remembered
    <2>5. KeysOnce(n, commits)
      BY <1>0, <2>1, <2>2, <2>4 DEF KeysOnce
    <2> QED
      BY <2>1, <2>2, <2>3, <2>5
  <1>5. CASE TerminalReceipt
    <2>1. At("terminal") /\ commits' = commits /\ call # None
      BY <1>5 DEF TerminalReceipt, At
    <2> DEFINE n == Terminal(Receipt)
               key == Receipt.key
    <2>2. Receipt \in Receipts
      BY <2>1, ReceiptFacts
    <2>3. /\ coord.pending # None => key = coord.pending.key
          /\ ~In(key, Remembered(coord))
      <3>1. CASE coord.pending # None
        BY <1>0, <2>1, <3>1, ReceiptFacts DEF KeysOnce
      <3>2. CASE coord.pending = None
        <4>1. key = call.key /\ call.kind = "apply" /\ Fresh
          BY <2>1, <3>2, ReceiptFacts DEF Fresh, Closing, At
        <4> QED
          BY <2>1, <3>2, <4>1 DEF KeysAt
      <3> QED
        BY <3>1, <3>2
    <2>4. Remembered(n) = Append(Remembered(coord), key) /\ n.pending = None
      BY <1>0, <2>2, <2>3, TerminalRemembers, TerminalFacts DEF KeysOnce
    <2>5. /\ coord' \in {coord, n} /\ journal' \in {journal, n}
          /\ coord' = coord \/ coord' = journal'
      BY <1>5 DEF TerminalReceipt, SaveJournal, SaveJournalFails
    <2>6. key \in Keys /\ Remembered(coord) \in Seq(Keys)
      BY <1>0, <2>2, RememberedFacts DEF Receipts
    <2> HIDE DEF n, key
    <2>7. /\ Distinct(Remembered(n)) /\ In(key, Remembered(n))
          /\ \A l : In(l, Remembered(coord)) => In(l, Remembered(n))
      BY <1>0, <2>3, <2>4, <2>6, AppendDistinct DEF KeysOnce
    <2>8. KeysOnce(n, commits)
      BY <1>0, <2>3, <2>4, <2>7 DEF KeysOnce
    <2>9. ~Decided(n)
      BY <2>4 DEF Decided
    <2> QED
      BY <2>1, <2>5, <2>8, <2>9
  <1>6. ASSUME NEW e \in Edges, Rewire(e)
        PROVE  UNCHANGED <<coord, journal, commits>>
    BY <1>6 DEF Rewire
  <1>7. CASE UNCHANGED vars
    BY <1>1, <1>7 DEF vars
  <1>8. CASE Query \/ Recover \/ Operation \/ Apply \/ Abort
    <2>1. UNCHANGED <<coord, journal, commits>>
      BY <1>8, Zenon DEF Query, Recover, Operation, Apply, StartCall, Abort
    <2> QED
      BY <1>1, <2>1
  <1>9. ASSUME NEW a \in Authorities,
               \/ LocalBegin(a) \/ LocalBeginFails(a) \/ LocalEnd(a)
               \/ LocalInterrupted(a) \/ LocalRecover(a)
        PROVE  UNCHANGED <<coord, journal, commits>>
    BY <1>9 DEF LocalBegin, LocalBeginFails, LocalEnd, LocalInterrupted, LocalRecover
  <1>10. CASE RecoverClean \/ ReconcileStart \/ ReconcileDone \/ RepairDone \/ RollbackDone
                \/ PersistAuthority \/ PersistAuthorityFails \/ Publish \/ ServeLocals \/ Refuse
    <2>1. UNCHANGED <<coord, journal, commits>>
      BY <1>10 DEF RecoverClean, ReconcileStart, ReconcileDone, RepairDone, RollbackDone,
                   PersistAuthority, PersistAuthorityFails, Publish, ServeLocals, Refuse
    <2> QED
      BY <1>1, <2>1
  <1>11. CASE KeepPending \/ Audit
    BY <1>1, <1>11 DEF KeepPending, Audit
  <1>12. CASE Serve
    <2>1. call # None
      BY <1>12 DEF Serve, At
    <2>2. call.kind \in {"query", "recover", "operation", "apply"}
      BY <1>0, <2>1 DEF Calls
    <2>3. coord' = coord /\ commits' = commits /\ journal' \in {coord, journal}
      BY <1>12, <2>2 DEF Serve
    <2> QED
      BY <1>1, <2>3
  <1>13. ASSUME NEW a \in Authorities, ServeLocalRecover(a)
         PROVE  UNCHANGED <<coord, journal, commits>>
    BY <1>13, Zenon DEF ServeLocalRecover
  <1>14. ASSUME NEW e \in Edges, Actuate(e) \/ ActuateFails(e)
         PROVE  UNCHANGED <<coord, journal, commits>>
    BY <1>14, Zenon DEF Actuate, ActuateFails
  <1>15. CASE UNCHANGED <<coord, journal, commits>>
    BY <1>1, <1>15
  <1>16. CASE CallStep
    BY <1>2, <1>3, <1>4, <1>5, <1>10, <1>11, <1>12, <1>13, <1>14, <1>15, <1>16, Zenon
       DEF CallStep
  <1> QED
    BY <1>6, <1>7, <1>8, <1>9, <1>15, <1>16, Zenon DEF Next

LEMMA CommitKeys ==
  ASSUME Inv, KeysAt, Commit
  PROVE  /\ KeysOnce(coord', commits') /\ KeysOnce(journal', commits')
         /\ \A k \in Keys : commits'[k] <= 1
         /\ Behind'
  <1>0. /\ CallAt /\ Sized(coord) /\ KeysOnce(coord, commits) /\ KeysOnce(journal, commits)
        /\ call # None /\ call \in Calls /\ commits \in [Keys -> Nat]
        /\ \A k \in Keys : commits[k] <= 1
    BY TypeFacts DEF Inv, CallAt, KeysAt, Commit, At, Typing, OncePerKey
  <1>1. /\ coord.pending # None /\ coord.pending.decision = "applying"
        /\ coord.pending.key = call.key /\ call.key \in Keys
    BY <1>0 DEF Commit, At, CallAt, Own
  <1> DEFINE n == Deciding(coord, "committed")
  <1>2. /\ n.receipts = coord.receipts /\ n.compacted = coord.compacted
        /\ n.pending # None /\ n.pending.key = coord.pending.key
        /\ n.pending.decision = "committed"
    BY <1>0, <1>1, DecidingFacts
  <1>3. \/ coord' = n /\ journal' = n /\ commits' = [commits EXCEPT ![call.key] = @ + 1]
        \/ coord' = coord /\ journal' \in {journal, n} /\ commits' = commits
    BY DEF Commit, SaveJournal, SaveJournalFails, Deciding
  <1> HIDE DEF n
  <1>4. Remembered(n) = Remembered(coord)
    BY <1>2 DEF Remembered
  <1>5. KeysOnce(n, commits)
    BY <1>0, <1>1, <1>2, SameKeys
  <1>6. commits[call.key] = 0
    BY <1>0, <1>1 DEF KeysOnce
  <1>9. Behind'
    BY <1>1, <1>2, <1>3 DEF KeysAt, Behind, Decided
  <1>7. CASE coord' = n /\ journal' = n /\ commits' = [commits EXCEPT ![call.key] = @ + 1]
    <2>1. /\ commits'[call.key] = 1
          /\ \A k \in Keys : k # call.key => commits'[k] = commits[k]
      BY <1>0, <1>1, <1>6, <1>7
    <2>2. KeysOnce(n, commits')
      BY <1>1, <1>2, <1>5, <2>1 DEF KeysOnce
    <2> QED
      BY <1>0, <1>7, <1>9, <2>1, <2>2
  <1>8. CASE coord' = coord /\ journal' \in {journal, n} /\ commits' = commits
    BY <1>0, <1>5, <1>8, <1>9
  <1> QED
    BY <1>3, <1>7, <1>8

(* A decision that only the file held is counted by the process that loads *)
(* it, once.                                                               *)
LEMMA RestartKeys ==
  ASSUME Inv, KeysAt, Restart
  PROVE  /\ KeysOnce(coord', commits') /\ KeysOnce(journal', commits')
         /\ \A k \in Keys : commits'[k] <= 1
         /\ Behind'
  <1>0. /\ coord' = journal /\ journal' = journal
        /\ commits' = IF Decided(journal) /\ ~Decided(coord)
                      THEN [commits EXCEPT ![journal.pending.key] = @ + 1]
                      ELSE commits
    BY DEF Restart
  <1>1. /\ KeysOnce(coord, commits) /\ KeysOnce(journal, commits)
        /\ commits \in [Keys -> Nat]
        /\ \A k \in Keys : commits[k] <= 1
    BY DEF Inv, Typing, KeysAt, OncePerKey
  <1>2. Behind'
    BY <1>0 DEF Behind, Decided
  <1>3. CASE Decided(journal) /\ ~Decided(coord)
    <2> DEFINE k == journal.pending.key
    <2>1. /\ coord.pending # None /\ coord.pending.key = k
          /\ journal.pending # None /\ journal.pending.decision = "committed"
          /\ coord.pending.decision # "committed"
      BY <1>3 DEF KeysAt, Behind, Decided
    <2>2. k \in Keys
      BY <2>1, TypeFacts DEF Inv, PendingOperations
    <2>3. commits[k] = 0
      BY <1>1, <2>1, <2>2 DEF KeysOnce
    <2>4. commits' = [commits EXCEPT ![k] = @ + 1]
      BY <1>0, <1>3
    <2> HIDE DEF k
    <2>5. /\ commits'[k] = 1
          /\ \A l \in Keys : l # k => commits'[l] = commits[l]
      BY <1>1, <2>2, <2>3, <2>4
    <2>6. KeysOnce(journal, commits')
      BY <1>1, <2>1, <2>5 DEF KeysOnce, k
    <2> QED
      BY <1>0, <1>1, <1>2, <2>5, <2>6
  <1> QED
    BY <1>0, <1>1, <1>2, <1>3

LEMMA KeysStep ==
  ASSUME Inv, KeysFit, KeysAt, [Next]_vars
  PROVE  KeysAt'
  <1>1. /\ KeysOnce(coord', commits') /\ KeysOnce(journal', commits')
        /\ \A k \in Keys : commits'[k] <= 1
        /\ Behind'
    <2>1. CASE Commit
      BY <2>1, CommitKeys
    <2>2. CASE Restart
      BY <2>2, RestartKeys
    <2>3. CASE ~Commit /\ ~Restart
      <3>1. PICK n : /\ KeysOnce(n, commits) /\ (Decided(n) => n = coord)
                     /\ coord' = coord \/ coord' = journal'
                     /\ coord' \in {coord, journal, n} /\ journal' \in {coord, journal, n}
                     /\ commits' = commits
        BY <2>3, JournalStep
      <3>2. Behind'
        BY <3>1 DEF KeysAt, Behind, Decided
      <3> QED
        BY <3>1, <3>2 DEF KeysAt, OncePerKey
    <2> QED
      BY <2>1, <2>2, <2>3
  <1>2. (call # None /\ call.kind = "apply" /\ Fresh)'
          => ~In(call'.key, Remembered(coord'))
    BY FreshStep
  <1> QED
    BY <1>1, <1>2 DEF KeysAt, OncePerKey, KeysOnce, In, Distinct, Remembered, KeysOf

LEMMA InitKeys ==
  ASSUME Init
  PROVE  KeysAt
  <1>1. /\ coord = [pending |-> None, receipts |-> <<>>, compacted |-> <<>>]
        /\ journal = coord /\ call = None /\ commits = [k \in Keys |-> 0]
    BY DEF Init
  <1>2. coord.pending = None /\ Len(Remembered(coord)) = 0
    <2>1. Sized(coord) /\ Len(coord.receipts) = 0 /\ Len(coord.compacted) = 0
      BY <1>1, InitInv, TypeFacts DEF Inv
    <2>2. Len(Remembered(coord)) = Len(coord.compacted) + Len(coord.receipts)
      BY <2>1, RememberedFacts
    <2> QED
      BY <1>1, <2>1, <2>2
  <1>3. Distinct(Remembered(coord))
    BY <1>2 DEF Distinct
  <1>4. \A k \in Keys : commits[k] = 0
    BY <1>1
  <1> QED
    BY <1>1, <1>2, <1>3, <1>4 DEF KeysAt, KeysOnce, OncePerKey, Behind, Decided

(* No idempotency key is decided committed twice, through crashes, failed  *)
(* writes, retries and the eviction of its receipt, as long as the keys in *)
(* use fit the receipts and the compacted history together; a journal that *)
(* has to forget a key can no longer tell its retry from a new request.    *)
THEOREM DecidedOncePerKey ==
  ASSUME KeysFit
  PROVE  Spec => []OncePerKey
  <1>1. Init => KeysAt
    BY InitKeys
  <1>2. Inv /\ KeysAt /\ [Next]_vars => KeysAt'
    BY KeysStep
  <1>3. KeysAt => OncePerKey
    BY DEF KeysAt
  <1> QED
    BY <1>1, <1>2, <1>3, Invariance, PTL DEF Spec

(***************************************************************************)
(* The pair under the writes of the journal and of the authorities.        *)
(***************************************************************************)
PairIntents == [Authorities -> Intents]

LEMMA PairNames == First \in Authorities /\ Second \in Authorities /\ First # Second
  BY CoordinatorAssumption DEF Authorities

LEMMA ResultFacts ==
  ASSUME NEW p \in PendingOperations
  PROVE  /\ Result(p) \in Intents
         /\ \A e \in Edges : e \notin DOMAIN p.ops => Result(p)[e] = p.before[First][e]
         /\ p.decision # "committed" => Result(p) = p.before[First]
         /\ p.decision = "committed" =>
              \A e \in Edges : e \in DOMAIN p.ops => Result(p)[e] = Desired(p.ops[e])
         /\ p.before \in PairIntents
  <1>1. p.before \in PairIntents
    BY DEF PendingOperations, PairIntents
  <1>2. p.before[First] \in Intents
    BY <1>1, PairNames DEF PairIntents
  <1>3. p.before[First] \in [Edges -> {"none", "added", "suppressed"}]
    BY <1>2 DEF Intents
  <1>4. Result(p) \in Intents
    BY <1>3 DEF Result, Intents, Desired
  <1>5. p.decision # "committed" => Result(p) = p.before[First]
    BY <1>3 DEF Result
  <1>6. \A e \in Edges : Result(p)[e] = IF e \in DOMAIN p.ops /\ p.decision = "committed"
                                         THEN Desired(p.ops[e]) ELSE p.before[First][e]
    BY DEF Result
  <1> QED
    BY <1>1, <1>4, <1>5, <1>6

(* An authority's file catches up with its memory. *)
LEMMA PairCatchesUp ==
  ASSUME NEW c, NEW j, NEW m \in PairIntents, NEW d \in PairIntents,
         Pair(c, j, m, d), NEW a \in Authorities
  PROVE  Pair(c, j, m, [d EXCEPT ![a] = m[a]])
  <1> DEFINE d2 == [d EXCEPT ![a] = m[a]]
  <1>1. /\ d2 \in PairIntents /\ d2[a] = m[a]
        /\ \A b \in Authorities : d2[b] = d[b] \/ d2[b] = m[b]
    BY DEF PairIntents
  <1>2. CASE c.pending = None \/ j.pending = None
    <2>1. \A b \in Authorities : d[b] = m[b]
      BY <1>2 DEF Pair
    <2>2. d2 = d
      BY <2>1 DEF PairIntents
    <2> QED
      BY <2>2
  <1>3. CASE c.pending # None /\ j.pending # None
    <2>1. Around(j.pending, d2)
      BY <1>1, <1>3 DEF Pair, Around
    <2> HIDE DEF d2
    <2>2. Pair(c, j, m, d2)
      BY <1>3, <2>1 DEF Pair
    <2> QED
      BY <2>2 DEF d2
  <1> QED
    BY <1>2, <1>3

(* The journal's file gets what memory holds. *)
LEMMA PairWritten ==
  ASSUME NEW c, NEW j, NEW m \in PairIntents, NEW d \in PairIntents,
         c.pending = None \/ c.pending \in PendingOperations,
         Pair(c, j, m, d)
  PROVE  Pair(c, c, m, d)
  <1>1. CASE c.pending = None
    BY <1>1 DEF Pair
  <1>2. CASE c.pending # None
    <2>1. Around(c.pending, d)
      <3>1. CASE j.pending = None
        BY <1>2, <3>1, ResultFacts DEF Pair, Around
      <3>2. CASE j.pending # None
        BY <1>2, <3>2 DEF Pair, Around
      <3> QED
        BY <3>1, <3>2
    <2> QED
      BY <1>2, <2>1 DEF Pair
  <1> QED
    BY <1>1, <1>2

(* The process loads the files. *)
LEMMA PairLoaded ==
  ASSUME NEW c, NEW j, NEW m, NEW d, Pair(c, j, m, d)
  PROVE  Pair(j, j, d, d)
  BY DEF Pair

(* An undecided operation gets its decision, in memory or in the file. *)
LEMMA PairDecided ==
  ASSUME NEW c, NEW j, NEW m, NEW d, NEW n, Pair(c, j, m, d),
         c.pending # None, c.pending.decision = "applying",
         n.receipts = c.receipts, n.pending # None,
         n.pending.ops = c.pending.ops, n.pending.before = c.pending.before
  PROVE  Pair(n, n, m, d) /\ Pair(c, n, m, d)
  <1>1. j.pending # None
    BY DEF Pair
  <1>2. Around(n.pending, d) /\ Around(n.pending, m)
    BY <1>1 DEF Pair, Around
  <1> QED
    BY <1>1, <1>2 DEF Pair

(* An operation is journalled. *)
LEMMA PairOpened ==
  ASSUME NEW c, NEW j, NEW m, NEW d, NEW n, Pair(c, j, m, d),
         c.pending = None, n.receipts = c.receipts, n.pending # None,
         n.pending.before = m
  PROVE  Pair(n, n, m, d) /\ Pair(c, n, m, d)
  <1>1. Around(n.pending, m) /\ d = m
    BY DEF Pair, Around, Authorities
  <1> QED
    BY <1>1 DEF Pair

(* The intent an operation leaves reaches an authority's file. *)
LEMMA PairPersisted ==
  ASSUME NEW c, NEW j, NEW m \in PairIntents, NEW d \in PairIntents,
         c.pending = None \/ c.pending \in PendingOperations,
         Pair(c, j, m, d), NEW a \in Authorities, NEW x,
         c.pending # None => x = Result(c.pending),
         c.pending = None => x = m[a]
  PROVE  Pair(c, j, m, [d EXCEPT ![a] = x])
  <1>1. CASE c.pending = None
    BY <1>1, PairCatchesUp
  <1> DEFINE d2 == [d EXCEPT ![a] = x]
  <1>2. CASE c.pending # None /\ j.pending = None
    <2>1. d[a] = x
      BY <1>2 DEF Pair
    <2>2. d2 = d
      BY <2>1 DEF PairIntents
    <2> QED
      BY <2>2
  <1>3. CASE c.pending # None /\ j.pending # None
    <2>1. \A b \in Authorities : d2[b] = d[b] \/ d2[b] = Result(c.pending)
      BY <1>3 DEF PairIntents
    <2>2. Around(j.pending, d2)
      BY <1>3, <2>1, ResultFacts DEF Pair, Around
    <2> HIDE DEF d2
    <2>3. Pair(c, j, m, d2)
      BY <1>3, <2>2 DEF Pair
    <2> QED
      BY <2>3 DEF d2
  <1> QED
    BY <1>1, <1>2, <1>3

(* And its memory. *)
LEMMA PairPublished ==
  ASSUME NEW c, NEW j, NEW m \in PairIntents, NEW d \in PairIntents,
         c.pending = None \/ c.pending \in PendingOperations,
         Pair(c, j, m, d), NEW a \in Authorities, NEW x,
         c.pending # None => x = Result(c.pending),
         c.pending = None => x = m[a]
  PROVE  Pair(c, j, [m EXCEPT ![a] = x], d)
  <1> DEFINE m2 == [m EXCEPT ![a] = x]
  <1>1. CASE c.pending = None
    <2>1. m2 = m
      BY <1>1 DEF PairIntents
    <2> QED
      BY <2>1
  <1>2. CASE c.pending # None
    <2>1. \A b \in Authorities : m2[b] = m[b] \/ m2[b] = Result(c.pending)
      BY <1>2 DEF PairIntents
    <2>2. Around(c.pending, m2)
      BY <1>2, <2>1, ResultFacts DEF Pair, Around
    <2> HIDE DEF m2
    <2>3. Pair(c, j, m2, d)
      BY <1>2, <2>1, <2>2 DEF Pair
    <2> QED
      BY <2>3 DEF m2
  <1> QED
    BY <1>1, <1>2

(* The receipt replaces the operation, in memory and in the file or in the *)
(* file alone.                                                             *)
LEMMA PairClosed ==
  ASSUME NEW c, NEW j, NEW m \in PairIntents, NEW d \in PairIntents, NEW n,
         Pair(c, j, m, d), n.pending = None, Tells(n.receipts, m[First]),
         \A a \in Authorities : d[a] = m[a],
         c.pending # None => /\ c.pending.decision # "applying"
                             /\ \A a \in Authorities : m[a] = Result(c.pending)
  PROVE  Pair(n, n, m, d) /\ Pair(c, n, m, d)
  <1>1. d = m
    BY DEF PairIntents
  <1>2. m[First] = m[Second]
    BY PairNames DEF Pair
  <1> QED
    BY <1>1, <1>2 DEF Pair

(* The new receipt is the newest. *)
LEMMA TellsTerminal ==
  ASSUME Sized(coord), NEW r \in Receipts, NEW z, NEW y,
         Tells(coord.receipts, z),
         r.status = "rolled_back" => y = z,
         r.status # "rolled_back" =>
           \A e \in Edges : y[e] = IF e \in DOMAIN r.ops THEN Desired(r.ops[e]) ELSE z[e]
  PROVE  Tells(Terminal(r).receipts, y)
  <1> DEFINE all == Append(coord.receipts, r)
             kept == Bounded(all, ReceiptLimit)
             o == Len(coord.receipts)
  <1>1. coord.receipts \in Seq(Receipts) /\ o \in Nat
    BY DEF Sized, Journals
  <1>2. /\ all \in Seq(Receipts) /\ Len(all) = o + 1 /\ all[o + 1] = r
        /\ \A i \in 1..o : all[i] = coord.receipts[i]
    BY <1>1, AppendProperties
  <1>3. ReceiptLimit \in Nat
    BY CoordinatorAssumption
  <1>4. Terminal(r).receipts = kept
    BY TerminalFacts
  <1> HIDE DEF all
  <1>5. /\ Len(kept) \in Nat /\ Len(kept) <= Len(all)
        /\ \A i \in 1..Len(kept) : kept[i] = all[Len(all) - Len(kept) + i]
    <2>1. all \in Seq(Receipts)
      BY <1>2
    <2> QED
      BY ONLY <1>3, <2>1, BoundedFacts, Zenon
  <1> DEFINE m == Len(all) - Len(kept)
  <1> HIDE DEF kept
  <1>6. m \in Nat /\ m + Len(kept) = o + 1
    BY <1>1, <1>2, <1>5
  <1>7. \A i \in 1..Len(kept) : kept[i] = all[m + i]
    BY <1>5
  <1> HIDE DEF m, o
  <1>8. Tells(all, y)
    <2> SUFFICES ASSUME NEW i \in 1..Len(all), NEW e \in Edges,
                        all[i].status # "rolled_back", e \in DOMAIN all[i].ops,
                        \A k \in (i + 1)..Len(all) :
                          ~(all[k].status # "rolled_back" /\ e \in DOMAIN all[k].ops)
                 PROVE  y[e] = Desired(all[i].ops[e])
      BY DEF Tells
    <2>1. CASE i = o + 1
      BY <1>2, <2>1
    <2>2. CASE i \in 1..o
      <3>1. o + 1 \in (i + 1)..Len(all)
        BY <1>1, <1>2, <2>2 DEF o
      <3>2. ~(r.status # "rolled_back" /\ e \in DOMAIN r.ops)
        BY <1>2, <3>1
      <3>3. y[e] = z[e]
        BY <3>2
      <3>4. \A k \in (i + 1)..o : k \in (i + 1)..Len(all) /\ k \in 1..o
        BY <1>1, <1>2, <2>2 DEF o
      <3>5. /\ coord.receipts[i].status # "rolled_back" /\ e \in DOMAIN coord.receipts[i].ops
            /\ \A k \in (i + 1)..o : ~(/\ coord.receipts[k].status # "rolled_back"
                                       /\ e \in DOMAIN coord.receipts[k].ops)
        BY <1>2, <2>2, <3>4
      <3>6. z[e] = Desired(coord.receipts[i].ops[e])
        BY <2>2, <3>5 DEF Tells, o
      <3> QED
        BY <1>2, <2>2, <3>3, <3>6
    <2> QED
      BY <1>1, <1>2, <2>1, <2>2 DEF o
  <1>9. Tells(kept, y)
    <2> SUFFICES ASSUME NEW i \in 1..Len(kept), NEW e \in Edges,
                        kept[i].status # "rolled_back", e \in DOMAIN kept[i].ops,
                        \A k \in (i + 1)..Len(kept) :
                          ~(kept[k].status # "rolled_back" /\ e \in DOMAIN kept[k].ops)
                 PROVE  y[e] = Desired(kept[i].ops[e])
      BY DEF Tells
    <2>0. Len(kept) \in Nat /\ Len(all) = m + Len(kept) /\ m \in Nat
      BY <1>2, <1>5, <1>6
    <2>1. m + i \in 1..Len(all) /\ kept[i] = all[m + i]
      BY <1>7, <2>0
    <2>2. ASSUME NEW k \in (m + i + 1)..Len(all)
          PROVE  ~(all[k].status # "rolled_back" /\ e \in DOMAIN all[k].ops)
      <3>1. k - m \in (i + 1)..Len(kept) /\ k - m \in 1..Len(kept) /\ m + (k - m) = k
        BY <2>0
      <3> QED
        BY <1>7, <3>1
    <2> QED
      BY <1>8, <2>1, <2>2 DEF Tells
  <1> QED
    BY <1>4, <1>9

LEMMA IntentFacts ==
  ASSUME NEW S \in [Authorities -> AuthorityStates]
  PROVE  /\ IntentOf(S) \in PairIntents
         /\ \A a \in Authorities : IntentOf(S)[a] = S[a].intent /\ S[a] \in AuthorityStates
  <1>1. \A a \in Authorities : S[a].intent \in Intents /\ S[a] \in AuthorityStates
    BY DEF AuthorityStates
  <1>2. IntentOf(S) \in PairIntents
    BY <1>1 DEF IntentOf, PairIntents
  <1> QED
    BY <1>1, <1>2 DEF IntentOf

(* The invariant in the next state, from its parts. *)
LEMMA PairHolds ==
  ASSUME \A a \in Authorities : Copied(mem'[a]) /\ Copied(disk'[a]),
         coord'.pending # None =>
           \A a \in Authorities : local'[a] \/ Quiet(mem'[a]),
         Pair(coord', journal', IntentOf(mem'), IntentOf(disk'))
  PROVE  PairAt'
  BY DEF PairAt, EntriesAt, Copied, Quiet, Pair, IntentOf, Authorities, Around, Tells,
         Result, Desired

(* An authority writes its own state: its copy of the cross intent is the  *)
(* one memory had.                                                         *)
LEMMA AuthoritySaved ==
  ASSUME Typing, PairAt, NEW a \in Authorities,
         NEW u \in AuthorityStates, NEW t \in AuthorityStates,
         u.intent = mem[a].intent, t.intent = mem[a].intent,
         Copied(u), Copied(t),
         mem' = [mem EXCEPT ![a] = u], disk' = [disk EXCEPT ![a] = t],
         coord' = coord, journal' = journal,
         \A b \in Authorities : b # a => local'[b] = local[b],
         coord.pending # None => local'[a] \/ Quiet(u)
  PROVE  PairAt'
  <1>1. /\ mem \in [Authorities -> AuthorityStates]
        /\ disk \in [Authorities -> AuthorityStates]
    BY TypeFacts
  <1>2. \A b \in Authorities : Copied(mem'[b]) /\ Copied(disk'[b])
    BY <1>1 DEF PairAt, EntriesAt
  <1>3. coord'.pending # None => \A b \in Authorities : local'[b] \/ Quiet(mem'[b])
    BY <1>1 DEF PairAt, EntriesAt
  <1> DEFINE m == IntentOf(mem)
             d == IntentOf(disk)
  <1>4. m \in PairIntents /\ d \in PairIntents /\ m[a] = mem[a].intent
    BY <1>1, IntentFacts
  <1>5. IntentOf(mem') = [m EXCEPT ![a] = m[a]] /\ IntentOf(disk') = [d EXCEPT ![a] = m[a]]
    <2>1. IntentOf([mem EXCEPT ![a] = u]) = [m EXCEPT ![a] = u.intent]
      BY <1>1 DEF IntentOf
    <2>2. IntentOf([disk EXCEPT ![a] = t]) = [d EXCEPT ![a] = t.intent]
      BY <1>1 DEF IntentOf
    <2> HIDE DEF m, d, IntentOf
    <2> QED
      BY <1>4, <2>1, <2>2
  <1>6. Pair(coord, journal, m, d)
    BY DEF PairAt
  <1> HIDE DEF m, d
  <1>7. IntentOf(mem') = m
    BY <1>4, <1>5 DEF PairIntents
  <1>8. Pair(coord, journal, m, [d EXCEPT ![a] = m[a]])
    BY <1>4, <1>6, PairCatchesUp
  <1>9. Pair(coord', journal', IntentOf(mem'), IntentOf(disk'))
    BY <1>5, <1>7, <1>8
  <1> QED
    BY <1>2, <1>3, <1>9, PairHolds

LEMMA RecoverPair ==
  ASSUME Typing, PairAt, NEW a \in Authorities, mem[a].pending # None,
         (\E s \in Recovered(mem[a]) : SaveAuthority(a, s)) \/ RecoverFails(a),
         local' = local, coord' = coord, journal' = journal,
         coord.pending # None => local[a] \/ Quiet(mem[a])
  PROVE  PairAt'
  <1>1. /\ mem \in [Authorities -> AuthorityStates]
        /\ disk \in [Authorities -> AuthorityStates]
        /\ mem[a] \in AuthorityStates /\ Copied(mem[a])
    BY TypeFacts DEF PairAt, EntriesAt
  <1>2. /\ Prepared(mem[a]) \in AuthorityStates /\ Quiet(Prepared(mem[a]))
        /\ Prepared(mem[a]).intent = mem[a].intent /\ Copied(Prepared(mem[a]))
    BY <1>1, PreparedFacts, QuietCopied
  <1>3. \A s \in Recovered(mem[a]) :
          s \in AuthorityStates /\ Quiet(s) /\ s.intent = mem[a].intent /\ Copied(s)
    BY <1>1, RecoveredFacts, QuietCopied
  <1>4. CASE \E s \in Recovered(mem[a]) : SaveAuthority(a, s)
    <2>1. PICK s \in Recovered(mem[a]) : SaveAuthority(a, s)
      BY <1>4
    <2> QED
      BY <1>3, <2>1, AuthoritySaved DEF SaveAuthority
  <1>5. CASE mem' = mem /\ disk' = [disk EXCEPT ![a] = Prepared(mem[a])]
    <2>1. mem' = [mem EXCEPT ![a] = mem[a]]
      BY <1>1, <1>5
    <2> QED
      BY <1>1, <1>2, <1>5, <2>1, AuthoritySaved
  <1>6. CASE /\ mem' = [mem EXCEPT ![a] = Prepared(mem[a])]
             /\ \E s \in Recovered(mem[a]) : disk' = [disk EXCEPT ![a] = s]
    <2>1. PICK s \in Recovered(mem[a]) : disk' = [disk EXCEPT ![a] = s]
      BY <1>6
    <2> QED
      BY <1>2, <1>3, <1>6, <2>1, AuthoritySaved
  <1> QED
    BY <1>4, <1>5, <1>6 DEF RecoverFails

LEMMA LocalStepPair ==
  ASSUME Inv, PairAt, "overlap" \notin Faults, NEW a \in Authorities,
         \/ LocalBegin(a) \/ LocalBeginFails(a) \/ LocalEnd(a)
         \/ LocalInterrupted(a) \/ LocalRecover(a)
  PROVE  PairAt'
  <1>1. /\ Typing /\ LocalAt
        /\ mem \in [Authorities -> AuthorityStates]
        /\ disk \in [Authorities -> AuthorityStates]
        /\ mem[a] \in AuthorityStates /\ Copied(mem[a])
        /\ disk[a] \in AuthorityStates /\ Copied(disk[a])
        /\ local \in [Authorities -> BOOLEAN]
        /\ coord.pending # None => local[a] \/ Quiet(mem[a])
    BY TypeFacts DEF Inv, Typing, PairAt, EntriesAt
  <1>2. coord' = coord /\ journal' = journal
    BY DEF LocalBegin, LocalBeginFails, LocalEnd, LocalInterrupted, LocalRecover
  <1>3. CASE LocalBegin(a) \/ LocalBeginFails(a)
    <2> DEFINE t == Begun(mem[a])
    <2>1. t \in AuthorityStates /\ t.intent = mem[a].intent /\ Copied(t)
      BY <1>1, BegunFacts
    <2>2. CASE LocalBegin(a)
      <3>1. /\ mem' = [mem EXCEPT ![a] = t] /\ disk' = [disk EXCEPT ![a] = t]
            /\ local' = [local EXCEPT ![a] = TRUE]
        BY <2>2 DEF LocalBegin, SaveAuthority
      <3> HIDE DEF t
      <3>2. local'[a] /\ \A b \in Authorities : b # a => local'[b] = local[b]
        BY <1>1, <3>1
      <3> QED
        BY <1>1, <1>2, <2>1, <3>1, <3>2, AuthoritySaved
    <2>3. CASE LocalBeginFails(a)
      <3>1. mem' = mem /\ disk' = [disk EXCEPT ![a] = t] /\ local' = local
        BY <2>3 DEF LocalBeginFails
      <3> HIDE DEF t
      <3>2. mem' = [mem EXCEPT ![a] = mem[a]]
        BY <1>1, <3>1
      <3> QED
        BY <1>1, <1>2, <2>1, <3>1, <3>2, AuthoritySaved
    <2> QED
      BY <1>3, <2>2, <2>3
  <1>4. CASE LocalEnd(a)
    <2>0. mem[a].pending # None /\ mem[a].pending.intent = mem[a].intent
      BY <1>1, <1>4 DEF LocalEnd, LocalAt, Copied
    <2>1. PICK t \in AuthorityStates :
            SaveAuthority(a, t) /\ t.intent = mem[a].intent /\ Quiet(t)
      <3>1. /\ [mem[a] EXCEPT !.pending = None] \in AuthorityStates
            /\ [mem[a] EXCEPT !.pending = None].intent = mem[a].intent
            /\ Quiet([mem[a] EXCEPT !.pending = None])
            /\ Restored(mem[a]) \in AuthorityStates
            /\ Restored(mem[a]).pending # None
            /\ Restored(mem[a]).intent = mem[a].intent
        BY <1>1, <2>0, ClosedFacts, RestoredFacts DEF Quiet
      <3>2. /\ [Restored(mem[a]) EXCEPT !.pending = None] \in AuthorityStates
            /\ [Restored(mem[a]) EXCEPT !.pending = None].intent = mem[a].intent
            /\ Quiet([Restored(mem[a]) EXCEPT !.pending = None])
            /\ [Restored(mem[a]) EXCEPT !.pending.phase = "rolling_back"] \in AuthorityStates
            /\ [Restored(mem[a]) EXCEPT !.pending.phase = "rolling_back"].intent
                 = mem[a].intent
            /\ Quiet([Restored(mem[a]) EXCEPT !.pending.phase = "rolling_back"])
        BY <3>1, ClosedFacts, RollingFacts DEF Quiet
      <3>3. \/ SaveAuthority(a, [mem[a] EXCEPT !.pending = None])
            \/ SaveAuthority(a, [Restored(mem[a]) EXCEPT !.pending = None])
            \/ SaveAuthority(a, [Restored(mem[a]) EXCEPT !.pending.phase = "rolling_back"])
        BY <1>4 DEF LocalEnd, Restored
      <3> QED
        BY <3>1, <3>2, <3>3, Zenon
    <2>2. \A b \in Authorities : b # a => local'[b] = local[b]
      BY <1>1, <1>4 DEF LocalEnd
    <2> QED
      BY <1>1, <1>2, <2>1, <2>2, QuietCopied, AuthoritySaved DEF SaveAuthority
  <1>5. CASE LocalInterrupted(a)
    <2>1. coord.pending = None /\ mem' = mem
      BY <1>5 DEF LocalInterrupted
    <2> DEFINE t == [disk[a] EXCEPT !.pending = None]
    <2>2. t \in AuthorityStates /\ t.intent = disk[a].intent /\ Copied(t)
      BY <1>1, ClosedFacts DEF Copied
    <2>3. disk' = disk \/ disk' = [disk EXCEPT ![a] = t]
      BY <1>5 DEF LocalInterrupted
    <2> HIDE DEF t
    <2>4. \A b \in Authorities : Copied(mem'[b]) /\ Copied(disk'[b])
      BY <1>1, <2>1, <2>2, <2>3 DEF PairAt, EntriesAt
    <2>5. IntentOf(disk') = IntentOf(disk)
      <3>1. CASE disk' = [disk EXCEPT ![a] = t]
        BY <1>1, <2>2, <3>1 DEF IntentOf
      <3> QED
        BY <2>3, <3>1
    <2>6. Pair(coord', journal', IntentOf(mem'), IntentOf(disk'))
      BY <1>2, <2>1, <2>5 DEF PairAt
    <2> QED
      BY <1>2, <2>1, <2>4, <2>6, PairHolds
  <1>6. CASE LocalRecover(a)
    BY <1>1, <1>2, <1>6, RecoverPair DEF LocalRecover
  <1> QED
    BY <1>3, <1>4, <1>5, <1>6

LEMMA RestartPair ==
  ASSUME Inv, PairAt, "overlap" \notin Faults, Restart
  PROVE  PairAt'
  <1>1. disk \in [Authorities -> AuthorityStates] /\ Copied(disk[First]) /\ Copied(disk[Second])
    BY TypeFacts, PairNames DEF Inv, PairAt, EntriesAt
  <1>2. PICK s \in Loaded(disk[First]), t \in Loaded(disk[Second]) :
          /\ disk' = [a \in Authorities |-> IF a = First THEN s ELSE t]
          /\ mem' = disk'
    BY Zenon DEF Restart
  <1>3. coord' = journal /\ journal' = journal
    BY DEF Restart
  <1>4. /\ s.intent = disk[First].intent /\ t.intent = disk[Second].intent
        /\ Copied(s) /\ Copied(t)
        /\ journal.pending # None => Quiet(s) /\ Quiet(t)
    BY <1>1, LoadedFacts, PairNames
  <1>5. \A a \in Authorities : Copied(mem'[a]) /\ Copied(disk'[a])
    BY <1>2, <1>4
  <1>6. coord'.pending # None => \A a \in Authorities : local'[a] \/ Quiet(mem'[a])
    BY <1>2, <1>3, <1>4
  <1>7. IntentOf(disk') = IntentOf(disk) /\ IntentOf(mem') = IntentOf(disk)
    BY <1>2, <1>4, PairNames DEF IntentOf, Authorities
  <1>8. Pair(coord', journal', IntentOf(mem'), IntentOf(disk'))
    BY <1>3, <1>7, PairLoaded DEF PairAt
  <1> QED
    BY <1>5, <1>6, <1>8, PairHolds

LEMMA PairUnder ==
  ASSUME PairAt, UNCHANGED <<mem, disk, local>>,
         Pair(coord', journal', IntentOf(mem), IntentOf(disk)),
         coord'.pending # None =>
           coord.pending # None \/ \A a \in Authorities : Quiet(mem[a])
  PROVE  PairAt'
  <1>1. \A a \in Authorities : Copied(mem'[a]) /\ Copied(disk'[a])
    BY DEF PairAt, EntriesAt
  <1>2. coord'.pending # None => \A a \in Authorities : local'[a] \/ Quiet(mem'[a])
    BY DEF PairAt, EntriesAt
  <1>3. IntentOf(mem') = IntentOf(mem) /\ IntentOf(disk') = IntentOf(disk)
    OBVIOUS
  <1> QED
    BY <1>1, <1>2, <1>3, PairHolds

LEMMA PairFacts ==
  ASSUME Inv, PairAt
  PROVE  /\ IntentOf(mem) \in PairIntents /\ IntentOf(disk) \in PairIntents
         /\ \A a \in Authorities :
              IntentOf(mem)[a] = mem[a].intent /\ IntentOf(disk)[a] = disk[a].intent
         /\ Pair(coord, journal, IntentOf(mem), IntentOf(disk))
         /\ Sized(coord) /\ Sized(journal)
         /\ coord.pending = None \/ coord.pending \in PendingOperations
         /\ mem \in [Authorities -> AuthorityStates]
         /\ disk \in [Authorities -> AuthorityStates]
         /\ CallAt
         /\ call # None => /\ call \in Calls
                           /\ \A a \in Authorities : ~local[a]
                           /\ coord.pending # None => \A a \in Authorities : Quiet(mem[a])
  <1>1. Typing /\ CallAt
    BY DEF Inv
  <1>2. call # None => /\ call \in Calls
                       /\ \A a \in Authorities : ~local[a]
                       /\ coord.pending # None => \A a \in Authorities : Quiet(mem[a])
    BY <1>1 DEF CallAt, PairAt, EntriesAt
  <1> QED
    BY <1>1, <1>2, TypeFacts, IntentFacts DEF PairAt

LEMMA PairCallFree ==
  ASSUME call' # None =>
           call'.step \in {"recover", "reconcile", "repair", "serve", "locals", "audit"}
  PROVE  PairCall'
  BY DEF PairCall, Closing

LEMMA PairCallLeaves ==
  ASSUME CallAt, call # None, Leave \/ call' = None \/ call' = Service
  PROVE  PairCall'
  <1>1. call \in Calls
    BY DEF CallAt
  <1>2. call' # None => call'.step \in {"audit", "serve"}
    BY <1>1, CallSteps
  <1> QED
    BY <1>2, PairCallFree

LEMMA PairCallCloses ==
  ASSUME NEW t, call'.step = "persist", call'.todo = Authorities, call'.target = t,
         call'.ops = call.ops,
         \A a \in Authorities :
           /\ Quiet(t[a])
           /\ coord'.pending # None => t[a].intent = Result(coord'.pending)
           /\ coord'.pending = None => t[a] = mem'[a],
         coord'.pending = None =>
           \A e \in DOMAIN call.ops : mem'[First].intent[e] = Desired(call.ops[e])
  PROVE  PairCall'
  <1>1. First \in call'.todo
    BY PairNames
  <1>2. /\ \A a \in Authorities :
             /\ Quiet(call'.target[a])
             /\ coord'.pending # None => call'.target[a].intent = Result(coord'.pending)
             /\ coord'.pending = None => call'.target[a] = mem'[a]
        /\ coord'.pending = None =>
             \A e \in DOMAIN call'.ops : mem'[First].intent[e] = Desired(call'.ops[e])
    OBVIOUS
  <1> QED
    BY <1>1, <1>2 DEF PairCall, Closing, Authorities, Quiet, Result, Desired

(* Nothing but the wiring, the flags or the call changes. *)
LEMMA StartStepPair ==
  ASSUME PairAt, Query \/ Recover \/ Operation \/ Apply
  PROVE  PairAt' /\ PairCall'
  <1>1. PICK kind, key, ops : StartCall(kind, key, ops)
    BY DEF Query, Recover, Operation, Apply
  <1>2. UNCHANGED <<mem, disk, local, coord, journal>> /\ call'.step = "recover"
    BY <1>1 DEF StartCall, NewCall, authorities
  <1>3. PairAt'
    BY <1>2, PairUnder DEF PairAt
  <1> QED
    BY <1>2, <1>3, PairCallFree

LEMMA RecoverStepPair ==
  ASSUME Inv, PairAt, RecoverClean \/ ReconcileStart \/ ReconcileDone
                        \/ RecoverPending \/ RecoverPendingFails
  PROVE  PairAt' /\ PairCall'
  <1>1. call # None
    BY DEF RecoverClean, ReconcileStart, ReconcileDone, RecoverPending,
           RecoverPendingFails, At
  <1>2. UNCHANGED <<mem, disk, local>>
    BY DEF RecoverClean, ReconcileStart, ReconcileDone, RecoverPending,
           RecoverPendingFails, authorities
  <1>3. /\ Pair(coord, journal, IntentOf(mem), IntentOf(disk))
        /\ call \in Calls /\ CallAt /\ Sized(coord)
        /\ coord.pending = None \/ coord.pending \in PendingOperations
    BY <1>1, PairFacts
  <1>4. PairCall'
    <2>1. CASE ReconcileStart \/ RecoverPending
      <3>1. call'.step \in {"reconcile", "repair"}
        BY <1>3, <2>1 DEF ReconcileStart, RecoverPending, Calls
      <3> QED
        BY <3>1, PairCallFree
    <2>2. CASE RecoverClean \/ ReconcileDone \/ RecoverPendingFails
      BY <1>1, <1>3, <2>2, PairCallLeaves DEF RecoverClean, ReconcileDone, RecoverPendingFails
    <2> QED
      BY <2>1, <2>2
  <1>5. CASE UNCHANGED <<coord, journal>>
    BY <1>2, <1>3, <1>4, <1>5, PairUnder
  <1>6. CASE /\ coord.pending # None /\ coord.pending.decision = "applying"
             /\ \/ coord' = Resumed(coord) /\ journal' = Resumed(coord)
                \/ coord' = coord /\ journal' \in {journal, Resumed(coord)}
    <2> DEFINE n == Resumed(coord)
               m == IntentOf(mem)
               d == IntentOf(disk)
    <2>1. /\ n.receipts = coord.receipts /\ n.pending # None
          /\ n.pending.ops = coord.pending.ops /\ n.pending.before = coord.pending.before
      BY <1>3, <1>6, ResumedFacts
    <2> HIDE DEF n, m, d
    <2>2. Pair(coord, journal, m, d)
      BY <1>3 DEF m, d
    <2>3. Pair(n, n, m, d) /\ Pair(coord, n, m, d)
      BY <1>6, <2>1, <2>2, PairDecided
    <2>4. Pair(coord', journal', m, d)
      BY <1>6, <2>2, <2>3 DEF n
    <2> QED
      BY <1>2, <1>4, <1>6, <2>4, PairUnder DEF m, d
  <1>7. Resumed(coord) # coord => coord.pending.decision = "applying"
    BY DEF Resumed
  <1> QED
    BY <1>5, <1>6, <1>7
       DEF RecoverClean, ReconcileStart, ReconcileDone, RecoverPending,
           RecoverPendingFails, SaveJournal, SaveJournalFails

LEMMA ActStepPair ==
  ASSUME Inv, PairAt, PairCall, NEW e \in Edges, Actuate(e) \/ ActuateFails(e)
  PROVE  PairAt' /\ PairCall'
  <1>1. call # None /\ call.step \in {"reconcile", "repair", "actuate", "rollback"}
    BY DEF Actuate, ActuateFails, Acting
  <1>2. UNCHANGED <<mem, disk, local, coord, journal>>
    BY Zenon DEF Actuate, ActuateFails, authorities
  <1>3. Pair(coord, journal, IntentOf(mem), IntentOf(disk)) /\ call \in Calls
    BY <1>1, PairFacts
  <1>4. PairAt'
    BY <1>2, <1>3, PairUnder
  <1>5. \/ call' = [call EXCEPT !.todo = @ \ {e}]
        \/ call' = [call EXCEPT !.todo = @ \ {e}, !.failed = TRUE]
        \/ call' = Service
        \/ call.step = "actuate" /\ call' = [call EXCEPT !.step = "abandon", !.todo = {}]
    BY Zenon DEF Actuate, ActuateFails
  <1>6. \/ call'.step = "serve" \/ call'.step = call.step
        \/ call.step = "actuate" /\ call'.step = "abandon"
    BY <1>3, <1>5, CallSteps DEF Calls
  <1>7. call.step \in {"actuate", "rollback"} =>
          \A a \in Authorities : mem'[a].intent = coord'.pending.before[First]
    BY <1>1, <1>2 DEF PairCall
  <1>8. PairCall'
    BY <1>1, <1>6, <1>7 DEF PairCall, Closing, Authorities
  <1> QED
    BY <1>4, <1>8

(* Both authorities get the intent the decided operation leaves. *)
LEMMA MergedIsResult ==
  ASSUME Inv, PairAt, coord.pending # None, NEW a \in Authorities
  PROVE  MergedIntent(mem[a], coord.pending, a) = Result(coord.pending)
  <1> DEFINE p == coord.pending
             m == IntentOf(mem)
  <1>1. /\ p \in PendingOperations /\ Pair(coord, journal, m, IntentOf(disk))
        /\ m[a] = mem[a].intent
    BY PairFacts
  <1>2. Around(p, m)
    BY <1>1 DEF Pair
  <1>3. p.before[a] = p.before[First]
    BY <1>2 DEF Around, Authorities
  <1>4. \A e \in Edges : e \notin DOMAIN p.ops => mem[a].intent[e] = p.before[First][e]
    BY <1>1, <1>2 DEF Around
  <1> HIDE DEF p
  <1>5. MergedIntent(mem[a], p, a) = Result(p)
    BY <1>3, <1>4 DEF MergedIntent, Result
  <1> QED
    BY <1>5 DEF p

LEMMA AfterIsResult ==
  ASSUME NEW s \in AuthorityStates, NEW p, NEW ops \in Batches, p.ops = ops,
         p.decision = "committed", s.intent = p.before[First]
  PROVE  After(s, ops, TRUE).intent = Result(p)
  <1>1. After(s, ops, TRUE).intent =
          [e \in Edges |-> IF e \in DOMAIN ops THEN Desired(ops[e]) ELSE s.intent[e]]
    BY AfterFacts
  <1> QED
    BY <1>1 DEF Result

LEMMA DecideStepPair ==
  ASSUME Inv, PairAt, PairCall,
         RepairDone \/ KeepPending \/ RollbackStart \/ RollbackDone \/ Commit
  PROVE  PairAt' /\ PairCall'
  <1> DEFINE m == IntentOf(mem)
             d == IntentOf(disk)
  <1>1. call # None
    BY DEF RepairDone, KeepPending, RollbackStart, RollbackDone, Commit, At
  <1>2. UNCHANGED <<mem, disk, local>>
    BY DEF RepairDone, KeepPending, RollbackStart, RollbackDone, Commit, authorities
  <1>3. /\ Pair(coord, journal, m, d) /\ m \in PairIntents /\ d \in PairIntents
        /\ call \in Calls /\ CallAt /\ Sized(coord)
        /\ coord.pending = None \/ coord.pending \in PendingOperations
        /\ mem \in [Authorities -> AuthorityStates]
        /\ coord.pending # None => \A a \in Authorities : Quiet(mem[a])
    BY <1>1, PairFacts
  <1>a. ASSUME Pair(coord', journal', m, d), coord.pending # None PROVE PairAt'
    BY <1>2, <1>a, PairUnder
  <1> HIDE DEF m, d
  <1>4. CASE RepairDone
    <2>1. /\ coord' = coord /\ journal' = journal /\ coord.pending # None
          /\ call.phase = "recovery" /\ coord.pending.decision # "applying"
      BY <1>3, <1>4 DEF RepairDone, At, CallAt
    <2> DEFINE t == [a \in Authorities |-> Merged(mem[a], coord.pending, a)]
               st == IF coord.pending.decision = "committed" THEN "applied" ELSE "rolled_back"
    <2>2. t \in [Authorities -> AuthorityStates]
      BY <1>3, <2>1, MergedFacts
    <2>3. \A a \in Authorities : t[a].pending = mem[a].pending /\ t[a].intent = Result(coord.pending)
      BY <1>3, <2>1, MergedFacts, MergedIsResult
    <2>4. st \in {"applied", "rolled_back", "noop"} /\ st = StatusOf(coord.pending)
      BY DEF StatusOf
    <2>5. Close(t, st)
      BY <1>4 DEF RepairDone
    <2> HIDE DEF t, st
    <2>6. /\ call'.step = "persist" /\ call'.todo = Authorities
          /\ call'.target = t /\ call'.ops = call.ops
      BY <1>1, <1>2, <1>3, <2>1, <2>2, <2>4, <2>5, CallCloses
    <2>7. \A a \in Authorities : Quiet(t[a])
      BY <1>3, <2>1, <2>3 DEF Quiet
    <2>8. PairCall'
      BY <2>1, <2>3, <2>6, <2>7, PairCallCloses
    <2> QED
      BY <1>3, <1>a, <2>1, <2>8
  <1>5. CASE RollbackDone
    <2>1. /\ coord' = coord /\ journal' = journal /\ coord.pending # None
          /\ call.kind = "apply" /\ coord.pending.decision = "rolling_back"
          /\ coord.pending.key = call.key /\ coord.pending.ops = call.ops
          /\ \A a \in Authorities : mem[a].intent = coord.pending.before[First]
      BY <1>1, <1>3, <1>5 DEF RollbackDone, At, CallAt, Own, PairCall
    <2>2. Close(mem, "rolled_back") /\ "rolled_back" = StatusOf(coord.pending)
      BY <1>5, <2>1 DEF RollbackDone, StatusOf
    <2>3. /\ call'.step = "persist" /\ call'.todo = Authorities
          /\ call'.target = mem /\ call'.ops = call.ops
      BY <1>1, <1>2, <1>3, <2>1, <2>2, CallCloses
    <2>4. Result(coord.pending) = coord.pending.before[First]
      BY <1>3, <2>1, ResultFacts
    <2>5. PairCall'
      BY <1>3, <2>1, <2>3, <2>4, PairCallCloses
    <2> QED
      BY <1>3, <1>a, <2>1, <2>5
  <1>6. CASE KeepPending
    <2>1. coord' = coord /\ journal' \in {journal, coord} /\ Leave /\ coord.pending # None
      BY <1>3, <1>6 DEF KeepPending, CallAt
    <2>2. Pair(coord, coord, m, d)
      BY <1>3, PairWritten
    <2>3. PairCall'
      BY <1>1, <1>3, <2>1, PairCallLeaves
    <2> QED
      BY <1>3, <1>a, <2>1, <2>2, <2>3
  <1>7. ASSUME At("abandon") \/ At("actuate")
        PROVE  /\ call.kind = "apply" /\ call.ops \in Batches
               /\ coord.pending # None /\ coord.pending.decision = "applying"
               /\ coord.pending.key = call.key /\ coord.pending.ops = call.ops
               /\ \A a \in Authorities : mem[a].intent = coord.pending.before[First]
    BY <1>3, <1>7 DEF At, CallAt, Own, PairCall
  <1>8. CASE RollbackStart
    <2> DEFINE n == Deciding(coord, "rolling_back")
    <2>0. RollingBack(coord) = n /\ At("abandon")
      BY <1>8 DEF RollingBack, Deciding, RollbackStart
    <2>1. /\ n.receipts = coord.receipts /\ n.pending # None
          /\ n.pending.ops = coord.pending.ops /\ n.pending.before = coord.pending.before
      BY <1>3, <1>7, <2>0, DecidingFacts
    <2> HIDE DEF n
    <2>2. Pair(n, n, m, d) /\ Pair(coord, n, m, d)
      BY <1>3, <1>7, <2>0, <2>1, PairDecided
    <2>3. CASE coord' = n /\ journal' = n /\
               call' = [call EXCEPT !.step = "rollback", !.todo = DOMAIN call.ops]
      <3>1. call'.step = "rollback"
        BY <1>3, <2>3 DEF Calls
      <3>2. \A a \in Authorities : mem'[a].intent = coord'.pending.before[First]
        BY <1>2, <1>7, <2>0, <2>1, <2>3
      <3>3. PairCall'
        BY <3>1, <3>2 DEF PairCall, Closing, Authorities
      <3> QED
        BY <1>7, <1>a, <2>0, <2>2, <2>3, <3>3
    <2>4. CASE coord' = coord /\ journal' \in {journal, n} /\ Leave
      <3>1. PairCall'
        BY <1>1, <1>3, <2>4, PairCallLeaves
      <3> QED
        BY <1>3, <1>7, <1>a, <2>0, <2>2, <2>4, <3>1
    <2> QED
      BY <1>8, <2>0, <2>3, <2>4 DEF RollbackStart, SaveJournal, SaveJournalFails
  <1>9. CASE Commit
    <2> DEFINE n == Deciding(coord, "committed")
               t == [a \in Authorities |-> After(mem[a], call.ops, TRUE)]
    <2>0. At("actuate")
      BY <1>9 DEF Commit
    <2>1. /\ n.receipts = coord.receipts /\ n.pending # None
          /\ n.pending.ops = coord.pending.ops /\ n.pending.before = coord.pending.before
          /\ n.pending.decision = "committed" /\ n.pending.key = coord.pending.key
      BY <1>3, <1>7, <2>0, DecidingFacts
    <2>2. t \in [Authorities -> AuthorityStates]
      BY <1>3, <1>7, <2>0, AfterFacts
    <2>3. \/ coord' = n /\ journal' = n /\ Close(t, "applied")
          \/ coord' = coord /\ journal' \in {journal, n} /\ Leave
      BY <1>9 DEF Commit, SaveJournal, SaveJournalFails, Deciding
    <2> HIDE DEF n
    <2>4. \A a \in Authorities : t[a].pending = mem[a].pending /\ t[a].intent = Result(n.pending)
      <3> SUFFICES ASSUME NEW a \in Authorities
                   PROVE  t[a].pending = mem[a].pending /\ t[a].intent = Result(n.pending)
        OBVIOUS
      <3>1. mem[a] \in AuthorityStates /\ t[a] = After(mem[a], call.ops, TRUE)
        BY <1>3
      <3>2. /\ call.ops \in Batches /\ n.pending.ops = call.ops
            /\ mem[a].intent = n.pending.before[First]
        BY <1>7, <2>0, <2>1
      <3>3. After(mem[a], call.ops, TRUE).pending = mem[a].pending
        BY <3>1, <3>2, AfterFacts
      <3>4. After(mem[a], call.ops, TRUE).intent = Result(n.pending)
        BY <2>1, <3>1, <3>2, AfterIsResult
      <3> QED
        BY <3>1, <3>3, <3>4
    <2> HIDE DEF t
    <2>5. Pair(n, n, m, d) /\ Pair(coord, n, m, d)
      BY <1>3, <1>7, <2>0, <2>1, PairDecided
    <2>6. CASE coord' = n /\ journal' = n /\ Close(t, "applied")
      <3>1. "applied" = StatusOf(n.pending)
        BY <2>1 DEF StatusOf
      <3>2. /\ call'.step = "persist" /\ call'.todo = Authorities
            /\ call'.target = t /\ call'.ops = call.ops
        BY <1>1, <1>2, <1>3, <1>7, <2>0, <2>1, <2>2, <2>6, <3>1, CallCloses
      <3>3. \A a \in Authorities : Quiet(t[a])
        BY <1>3, <1>7, <2>0, <2>4 DEF Quiet
      <3>4. PairCall'
        BY <2>1, <2>4, <2>6, <3>2, <3>3, PairCallCloses
      <3> QED
        BY <1>7, <1>a, <2>0, <2>5, <2>6, <3>4
    <2>7. CASE coord' = coord /\ journal' \in {journal, n} /\ Leave
      <3>1. PairCall'
        BY <1>1, <1>3, <2>7, PairCallLeaves
      <3> QED
        BY <1>3, <1>7, <1>a, <2>0, <2>5, <2>7, <3>1
    <2> QED
      BY <2>3, <2>6, <2>7
  <1> QED
    BY <1>4, <1>5, <1>6, <1>8, <1>9

LEMMA PersistStepPair ==
  ASSUME Inv, PairAt, PairCall, PersistAuthority \/ PersistAuthorityFails \/ Publish
  PROVE  PairAt' /\ PairCall'
  <1> DEFINE m == IntentOf(mem)
             d == IntentOf(disk)
             t == call.target[Turn]
  <1>1. call # None /\ call.step \in {"persist", "publish"} /\ call.step \in Closing
    BY DEF PersistAuthority, PersistAuthorityFails, Publish, At, Closing
  <1>2. local' = local /\ coord' = coord /\ journal' = journal
    BY DEF PersistAuthority, PersistAuthorityFails, Publish
  <1>3. /\ Pair(coord, journal, m, d) /\ m \in PairIntents /\ d \in PairIntents
        /\ call \in Calls /\ CallAt
        /\ coord.pending = None \/ coord.pending \in PendingOperations
        /\ mem \in [Authorities -> AuthorityStates]
        /\ disk \in [Authorities -> AuthorityStates]
        /\ \A a \in Authorities : m[a] = mem[a].intent /\ d[a] = disk[a].intent
        /\ coord.pending # None => \A a \in Authorities : Quiet(mem[a])
    BY <1>1, PairFacts
  <1>4. /\ call.target \in [Authorities -> AuthorityStates]
        /\ \A a \in Authorities :
              /\ Quiet(call.target[a])
              /\ coord.pending # None => call.target[a].intent = Result(coord.pending)
              /\ coord.pending = None => call.target[a] = mem[a]
        /\ coord.pending = None =>
             \A e \in DOMAIN call.ops : mem[First].intent[e] = Desired(call.ops[e])
    BY <1>1, <1>3 DEF CallAt, PairCall
  <1>5. Turn \in Authorities /\ t \in AuthorityStates /\ Quiet(t) /\ Copied(t)
    BY <1>4, TurnFacts, QuietCopied
  <1>6. /\ coord.pending # None => t.intent = Result(coord.pending)
        /\ coord.pending = None => t.intent = m[Turn]
    BY <1>3, <1>4, <1>5
  <1>7. /\ \A a \in Authorities : Copied(mem[a]) /\ Copied(disk[a])
    BY DEF PairAt, EntriesAt
  <1> HIDE DEF t, m, d
  <1>8. ASSUME mem' = mem, disk' = [disk EXCEPT ![Turn] = t]
        PROVE  PairAt'
    <2>1. IntentOf(disk') = [d EXCEPT ![Turn] = t.intent] /\ IntentOf(mem') = m
      BY <1>3, <1>5, <1>8 DEF IntentOf, d, m
    <2>2. Pair(coord, journal, m, [d EXCEPT ![Turn] = t.intent])
      BY <1>3, <1>5, <1>6, PairPersisted
    <2>3. Pair(coord', journal', IntentOf(mem'), IntentOf(disk'))
      BY <1>2, <2>1, <2>2
    <2>4. \A a \in Authorities : Copied(mem'[a]) /\ Copied(disk'[a])
      BY <1>3, <1>5, <1>7, <1>8
    <2>5. coord'.pending # None => \A a \in Authorities : local'[a] \/ Quiet(mem'[a])
      BY <1>2, <1>3, <1>8
    <2> QED
      BY <2>3, <2>4, <2>5, PairHolds
  <1>9. CASE PersistAuthorityFails
    <2>1. PairCall'
      BY <1>1, <1>3, <1>9, PairCallLeaves DEF PersistAuthorityFails
    <2>2. CASE UNCHANGED <<mem, disk>>
      BY <1>2, <1>3, <2>1, <2>2, PairUnder DEF m, d
    <2>3. CASE mem' = mem /\ disk' = [disk EXCEPT ![Turn] = t]
      BY <1>8, <2>1, <2>3
    <2> QED
      BY <1>9, <2>2, <2>3 DEF PersistAuthorityFails, t
  <1>10. CASE PersistAuthority
    <2>1. mem' = mem /\ disk' = [disk EXCEPT ![Turn] = t] /\ call.step = "persist"
      BY <1>10 DEF PersistAuthority, At, t
    <2>2. /\ call'.target = call.target /\ call'.ops = call.ops
          /\ Turn = First => call'.step = "persist" /\ call'.todo = {Second}
          /\ Turn # First => call'.step = "publish" /\ call'.todo = Authorities
      BY <1>3, <1>10, <2>1 DEF PersistAuthority, Calls
    <2>3. disk'[Turn].intent = call.target[Turn].intent
      BY <1>3, <1>5, <2>1 DEF t
    <2>4. Turn # First => /\ Turn = Second
                          /\ disk'[First].intent = call.target[First].intent
      <3>1. ASSUME Turn # First PROVE Turn = Second /\ First \notin call.todo
        BY <3>1 DEF Turn
      <3> QED
        BY <1>1, <1>3, <2>1, <3>1, PairNames DEF PairCall
    <2>5. /\ \A a \in Authorities :
               /\ Quiet(call'.target[a])
               /\ coord'.pending # None => call'.target[a].intent = Result(coord'.pending)
               /\ coord'.pending = None => call'.target[a] = mem'[a]
          /\ coord'.pending = None =>
               \A e \in DOMAIN call'.ops : mem'[First].intent[e] = Desired(call'.ops[e])
      BY <1>2, <1>4, <2>1, <2>2
    <2>6. CASE Turn = First
      BY <2>2, <2>3, <2>5, <2>6, PairNames, <1>8, <2>1
         DEF PairCall, Closing, Authorities, Quiet, Result, Desired
    <2>7. CASE Turn # First
      <3>1. First \in call'.todo /\ call'.step = "publish"
        BY <2>2, <2>7, PairNames
      <3>2. \A a \in Authorities : disk'[a].intent = call'.target[a].intent
        BY <2>2, <2>3, <2>4, <2>7 DEF Authorities
      <3>3. PairCall'
        BY <2>5, <3>1, <3>2 DEF PairCall, Closing, Authorities, Quiet, Result, Desired
      <3> QED
        BY <1>8, <2>1, <3>3
    <2> QED
      BY <2>6, <2>7
  <1>11. CASE Publish
    <2>1. disk' = disk /\ mem' = [mem EXCEPT ![Turn] = t] /\ call.step = "publish"
      BY <1>11 DEF Publish, At, t
    <2>2. /\ call'.target = call.target /\ call'.ops = call.ops
          /\ Turn = First => call'.step = "publish" /\ call'.todo = {Second}
          /\ Turn # First => call'.step = "terminal" /\ call'.todo = {}
      BY <1>3, <1>11, <2>1 DEF Publish, Calls
    <2>3. mem'[Turn].intent = call.target[Turn].intent
      BY <1>3, <1>5, <2>1 DEF t
    <2>4. Turn # First => /\ Turn = Second
                          /\ mem'[First].intent = call.target[First].intent
      <3>1. ASSUME Turn # First PROVE Turn = Second /\ First \notin call.todo
        BY <3>1 DEF Turn
      <3> QED
        BY <1>1, <1>3, <2>1, <3>1, PairNames DEF PairCall
    <2>5. coord.pending = None => mem' = mem
      <3>1. coord.pending = None => t = mem[Turn]
        BY <1>4, <1>5 DEF t
      <3> QED
        BY <1>3, <2>1, <3>1
    <2>6. /\ \A a \in Authorities :
               /\ Quiet(call'.target[a])
               /\ coord'.pending # None => call'.target[a].intent = Result(coord'.pending)
               /\ coord'.pending = None => call'.target[a] = mem'[a]
          /\ coord'.pending = None =>
               \A e \in DOMAIN call'.ops : mem'[First].intent[e] = Desired(call'.ops[e])
      BY <1>2, <1>4, <2>2, <2>5
    <2>7. \A a \in Authorities : disk'[a].intent = call'.target[a].intent
      BY <1>1, <2>1, <2>2 DEF PairCall
    <2>8. PairCall'
      <3>1. CASE Turn = First
        <4>1. call'.step = "publish" /\ mem'[First].intent = call'.target[First].intent
          BY <2>2, <2>3, <3>1
        <4> QED
          BY <2>6, <2>7, <4>1 DEF PairCall, Closing, Authorities, Quiet, Result, Desired
      <3>2. CASE Turn # First
        <4>1. call'.step = "terminal"
          BY <2>2, <3>2
        <4>2. \A a \in Authorities : mem'[a].intent = call'.target[a].intent
          BY <2>2, <2>3, <2>4, <3>2 DEF Authorities
        <4> QED
          BY <2>6, <2>7, <4>1, <4>2 DEF PairCall, Closing, Authorities, Quiet, Result, Desired
      <3> QED
        BY <3>1, <3>2
    <2>9. PairAt'
      <3>1. IntentOf(mem') = [m EXCEPT ![Turn] = t.intent] /\ IntentOf(disk') = d
        BY <1>3, <1>5, <2>1 DEF IntentOf, d, m
      <3>2. Pair(coord, journal, [m EXCEPT ![Turn] = t.intent], d)
        BY <1>3, <1>5, <1>6, PairPublished
      <3>3. Pair(coord', journal', IntentOf(mem'), IntentOf(disk'))
        BY <1>2, <3>1, <3>2
      <3>4. \A a \in Authorities : Copied(mem'[a]) /\ Copied(disk'[a])
        BY <1>3, <1>5, <1>7, <2>1
      <3>5. coord'.pending # None => \A a \in Authorities : local'[a] \/ Quiet(mem'[a])
        BY <1>2, <1>3, <1>5, <2>1
      <3> QED
        BY <3>3, <3>4, <3>5, PairHolds
    <2> QED
      BY <2>8, <2>9
  <1> QED
    BY <1>9, <1>10, <1>11

LEMMA TerminalStepPair ==
  ASSUME Inv, PairAt, PairCall, TerminalReceipt
  PROVE  PairAt' /\ PairCall'
  <1> DEFINE m == IntentOf(mem)
             d == IntentOf(disk)
             n == Terminal(Receipt)
             p == coord.pending
  <1>1. call # None /\ call.step = "terminal" /\ call.step \in Closing /\ At("terminal")
    BY DEF TerminalReceipt, At, Closing
  <1>2. UNCHANGED <<mem, disk, local>>
    BY DEF TerminalReceipt, authorities
  <1>3. /\ Pair(coord, journal, m, d) /\ m \in PairIntents /\ d \in PairIntents
        /\ CallAt /\ Sized(coord)
        /\ p = None \/ p \in PendingOperations
        /\ \A a \in Authorities : m[a] = mem[a].intent /\ d[a] = disk[a].intent
    BY <1>1, PairFacts
  <1>4. /\ \A a \in Authorities : mem[a].intent = call.target[a].intent
                                    /\ disk[a].intent = call.target[a].intent
        /\ p # None => \A a \in Authorities : call.target[a].intent = Result(p)
        /\ p = None =>
             \A e \in DOMAIN call.ops : mem[First].intent[e] = Desired(call.ops[e])
        /\ p # None => p.decision # "applying"
    BY <1>1, <1>3 DEF PairCall, CallAt
  <1>5. /\ \A a \in Authorities : d[a] = m[a]
        /\ p # None => \A a \in Authorities : m[a] = Result(p)
    BY <1>3, <1>4
  <1>6. n.pending = None /\ Receipt \in Receipts
    BY <1>1, <1>3, ReceiptFacts, TerminalFacts
  <1>7. \/ coord' = n /\ journal' = n /\ (call' = Service \/ Leave)
        \/ coord' = coord /\ journal' \in {journal, n} /\ Leave
    BY DEF TerminalReceipt, SaveJournal, SaveJournalFails
  <1>8. Tells(n.receipts, m[First])
    <2>1. CASE p # None
      <3>1. /\ Receipt.ops = p.ops /\ Receipt.status = StatusOf(p)
        BY <1>1, <2>1, ReceiptFacts
      <3>2. Tells(coord.receipts, p.before[First]) /\ m[First] = Result(p)
        BY <1>3, <1>5, <2>1, PairNames DEF Pair
      <3>3. Receipt.status = "rolled_back" => m[First] = p.before[First]
        BY <1>3, <2>1, <3>1, <3>2, ResultFacts DEF StatusOf
      <3>4. Receipt.status # "rolled_back" =>
              \A e \in Edges : m[First][e] = IF e \in DOMAIN Receipt.ops
                                             THEN Desired(Receipt.ops[e])
                                             ELSE p.before[First][e]
        BY <1>3, <2>1, <3>1, <3>2, ResultFacts DEF StatusOf
      <3> QED
        BY <1>3, <1>6, <3>2, <3>3, <3>4, TellsTerminal
    <2>2. CASE p = None
      <3>1. Receipt.ops = call.ops /\ Receipt.status = "noop"
        BY <1>1, <2>2, ReceiptFacts
      <3>2. Tells(coord.receipts, m[First])
        BY <1>3, <2>2 DEF Pair
      <3>3. \A e \in Edges : m[First][e] = IF e \in DOMAIN Receipt.ops
                                           THEN Desired(Receipt.ops[e]) ELSE m[First][e]
        BY <1>3, <1>4, <2>2, <3>1, PairNames
      <3> QED
        BY <1>3, <1>6, <3>1, <3>2, <3>3, TellsTerminal
    <2> QED
      BY <2>1, <2>2
  <1> HIDE DEF n, m, d
  <1>9. Pair(n, n, m, d) /\ Pair(coord, n, m, d)
    BY <1>3, <1>4, <1>5, <1>6, <1>8, PairClosed
  <1>10. Pair(coord', journal', m, d)
    BY <1>3, <1>7, <1>9
  <1>11. PairAt'
    BY <1>2, <1>6, <1>7, <1>10, PairUnder DEF m, d
  <1>12. PairCall'
    BY <1>1, <1>3, <1>7, PairCallLeaves
  <1> QED
    BY <1>11, <1>12

LEMMA ServeStepPair ==
  ASSUME Inv, PairAt, PairCall, Serve \/ ServeLocals \/ Refuse \/ Audit \/ Abort
  PROVE  PairAt' /\ PairCall'
  <1>1. call # None
    BY DEF Serve, ServeLocals, Refuse, Audit, Abort, At
  <1>2. /\ Pair(coord, journal, IntentOf(mem), IntentOf(disk))
        /\ IntentOf(mem) \in PairIntents /\ IntentOf(disk) \in PairIntents
        /\ call \in Calls /\ CallAt
        /\ coord.pending = None \/ coord.pending \in PendingOperations
    BY <1>1, PairFacts
  <1>3. call.kind \in {"query", "recover", "operation", "apply"}
    BY <1>2 DEF Calls
  <1>4. /\ UNCHANGED <<mem, disk, local, coord>>
        /\ journal' \in {journal, coord}
        /\ \/ Leave \/ call' = None
           \/ call' = [call EXCEPT !.step = "locals"]
           \/ /\ call' = [call EXCEPT !.step = "admit"]
              /\ \A a \in Authorities : mem[a].pending = None
    BY <1>3 DEF Serve, ServeLocals, Refuse, Audit, Abort, Goto, authorities
  <1>5. Pair(coord, coord, IntentOf(mem), IntentOf(disk))
    BY <1>2, PairWritten
  <1>6. PairAt'
    BY <1>2, <1>4, <1>5, PairUnder
  <1>7. PairCall'
    <2>1. CASE Leave \/ call' = None
      BY <1>1, <1>2, <2>1, PairCallLeaves
    <2>2. CASE call' = [call EXCEPT !.step = "locals"]
      <3>1. call'.step = "locals"
        BY <1>2, <2>2 DEF Calls
      <3> QED
        BY <3>1, PairCallFree
    <2>3. CASE /\ call' = [call EXCEPT !.step = "admit"]
               /\ \A a \in Authorities : mem[a].pending = None
      <3>1. call'.step = "admit" /\ \A a \in Authorities : mem'[a].pending = None
        BY <1>2, <1>4, <2>3 DEF Calls
      <3> QED
        BY <3>1 DEF PairCall, Closing, Authorities
    <2> QED
      BY <1>4, <2>1, <2>2, <2>3
  <1> QED
    BY <1>6, <1>7

LEMMA ServeLocalStepPair ==
  ASSUME Inv, PairAt, NEW a \in Authorities, ServeLocalRecover(a)
  PROVE  PairAt' /\ PairCall'
  <1>1. call # None /\ call.step = "locals" /\ mem[a].pending # None
    BY DEF ServeLocalRecover, At
  <1>2. /\ CallAt /\ Typing /\ call \in Calls
        /\ coord.pending # None => \A b \in Authorities : Quiet(mem[b])
    BY <1>1, PairFacts DEF Inv
  <1>3. /\ local' = local /\ coord' = coord /\ journal' = journal
        /\ (\E s \in Recovered(mem[a]) : SaveAuthority(a, s)) \/ RecoverFails(a)
        /\ call' = call \/ Leave
    BY Zenon DEF ServeLocalRecover
  <1>4. PairAt'
    BY <1>1, <1>2, <1>3, RecoverPair
  <1>5. PairCall'
    BY <1>1, <1>2, <1>3, PairCallFree, PairCallLeaves
  <1> QED
    BY <1>4, <1>5

LEMMA AdmitStepPair ==
  ASSUME Inv, PairAt, PairCall, Admit
  PROVE  PairAt' /\ PairCall'
  <1> DEFINE m == IntentOf(mem)
             d == IntentOf(disk)
             n == [coord EXCEPT !.pending = PendingOperation]
  <1>1. call # None /\ call.step = "admit" /\ At("admit")
    BY DEF Admit, At
  <1>2. UNCHANGED <<mem, disk, local>>
    BY DEF Admit, authorities
  <1>3. /\ Pair(coord, journal, m, d)
        /\ CallAt /\ Sized(coord) /\ call \in Calls
        /\ mem \in [Authorities -> AuthorityStates]
        /\ \A a \in Authorities : m[a] = mem[a].intent
    BY <1>1, PairFacts
  <1>4. /\ coord.pending = None /\ call.kind = "apply" /\ call.phase = "service"
        /\ call.ops \in Batches
        /\ \A a \in Authorities : mem[a].pending = None /\ Quiet(mem[a])
    BY <1>1, <1>3 DEF CallAt, PairCall, Quiet
  <1>5. /\ n.receipts = coord.receipts /\ n.pending = PendingOperation /\ n.pending # None
        /\ n.pending.before = m
    <2>1. /\ PendingOperation \in PendingOperations
          /\ PendingOperation.before = [a \in Authorities |-> mem[a].intent]
      BY <1>1, PendingFacts
    <2>2. n.receipts = coord.receipts /\ n.pending = PendingOperation /\ n.pending # None
      BY <1>3, <2>1, OpeningFacts
    <2>3. [a \in Authorities |-> mem[a].intent] = m
      BY DEF IntentOf
    <2> HIDE DEF n, m
    <2> QED
      BY <2>1, <2>2, <2>3
  <1>6. \/ /\ coord' = n /\ journal' = n
           /\ call' = [call EXCEPT !.step = "actuate", !.todo = DOMAIN call.ops]
        \/ coord' = coord /\ journal' \in {journal, n} /\ Leave
        \/ /\ ~Changed(call.ops) /\ Close(mem, "noop")
           /\ coord' = coord /\ journal' = journal
    BY DEF Admit, SaveJournal, SaveJournalFails
  <1>u. ASSUME Pair(coord', journal', m, d) PROVE PairAt'
    BY <1>2, <1>4, <1>u, PairUnder
  <1> HIDE DEF n, m, d
  <1>7. Pair(n, n, m, d) /\ Pair(coord, n, m, d)
    BY <1>3, <1>4, <1>5, PairOpened
  <1>8. CASE /\ coord' = n /\ journal' = n
             /\ call' = [call EXCEPT !.step = "actuate", !.todo = DOMAIN call.ops]
    <2>1. call'.step = "actuate"
      BY <1>3, <1>8 DEF Calls
    <2>2. m[First] = m[Second]
      BY <1>3, <1>4 DEF Pair
    <2>3. \A a \in Authorities : mem'[a].intent = coord'.pending.before[First]
      BY <1>2, <1>3, <1>5, <1>8, <2>2, PairNames DEF Authorities
    <2>4. PairCall'
      BY <2>1, <2>3 DEF PairCall, Closing, Authorities
    <2> QED
      BY <1>7, <1>8, <1>u, <2>4
  <1>9. CASE coord' = coord /\ journal' \in {journal, n} /\ Leave
    <2>1. PairCall'
      BY <1>1, <1>3, <1>9, PairCallLeaves
    <2> QED
      BY <1>3, <1>7, <1>9, <1>u, <2>1
  <1>10. CASE ~Changed(call.ops) /\ Close(mem, "noop") /\ coord' = coord /\ journal' = journal
    <2>1. /\ call'.step = "persist" /\ call'.todo = Authorities
          /\ call'.target = mem /\ call'.ops = call.ops
      BY <1>1, <1>2, <1>3, <1>4, <1>10, CallCloses
    <2>2. After(mem[First], call.ops, FALSE) = mem[First]
      BY <1>10, PairNames DEF Changed
    <2>3. mem[First].intent = [e \in Edges |-> IF e \in DOMAIN call.ops
                                               THEN Desired(call.ops[e])
                                               ELSE mem[First].intent[e]]
      <3>1. mem[First] \in AuthorityStates /\ call.ops \in Batches /\ FALSE \in BOOLEAN
        BY <1>3, <1>4, PairNames
      <3>2. After(mem[First], call.ops, FALSE).intent =
              [e \in Edges |-> IF e \in DOMAIN call.ops THEN Desired(call.ops[e])
                               ELSE mem[First].intent[e]]
        BY <3>1, AfterFacts
      <3> HIDE DEF After
      <3> QED
        BY <2>2, <3>2
    <2>4. \A e \in DOMAIN call.ops : e \in Edges
      BY <1>4 DEF Batches
    <2>5. \A e \in DOMAIN call.ops : mem[First].intent[e] = Desired(call.ops[e])
      BY <2>3, <2>4
    <2>6. PairCall'
      BY <1>2, <1>4, <1>10, <2>1, <2>5, PairCallCloses
    <2> QED
      BY <1>3, <1>10, <1>u, <2>6
  <1> QED
    BY <1>6, <1>8, <1>9, <1>10

LEMMA StutterPair ==
  ASSUME Inv, PairAt, PairCall, UNCHANGED vars \/ \E e \in Edges : Rewire(e)
  PROVE  PairAt' /\ PairCall'
  <1>1. UNCHANGED <<mem, disk, local, coord, journal, call>>
    BY DEF vars, Rewire, authorities
  <1>2. PairAt'
    BY <1>1, PairUnder DEF PairAt
  <1>3. PairCall'
    BY <1>1 DEF PairCall, Closing, Authorities, Quiet, Result, Desired
  <1> QED
    BY <1>2, <1>3

LEMMA PairStep ==
  ASSUME Inv, PairAt, PairCall, "overlap" \notin Faults, [Next]_vars
  PROVE  PairAt' /\ PairCall'
  <1>1. ASSUME NEW a \in Authorities,
               \/ LocalBegin(a) \/ LocalBeginFails(a) \/ LocalEnd(a)
               \/ LocalInterrupted(a) \/ LocalRecover(a)
        PROVE  PairAt' /\ PairCall'
    <2>1. call' = None
      BY <1>1 DEF Inv, CallAt, LocalBegin, LocalBeginFails, LocalEnd, LocalInterrupted,
                  LocalRecover, Unlocked
    <2> QED
      BY <1>1, <2>1, LocalStepPair, PairCallFree
  <1>2. CASE Restart
    <2>1. call' = None
      BY <1>2 DEF Restart
    <2> QED
      BY <1>2, <2>1, RestartPair, PairCallFree
  <1>3. CASE CallStep
    BY <1>3, RecoverStepPair, ActStepPair, DecideStepPair, PersistStepPair,
       TerminalStepPair, ServeStepPair, ServeLocalStepPair, AdmitStepPair DEF CallStep
  <1> QED
    BY <1>1, <1>2, <1>3, StartStepPair, ServeStepPair, StutterPair DEF Next

LEMMA InitPair ==
  ASSUME Init
  PROVE  PairAt /\ PairCall
  <1>1. /\ coord = [pending |-> None, receipts |-> <<>>, compacted |-> <<>>]
        /\ journal = coord /\ call = None /\ disk = mem
        /\ mem = [a \in Authorities |->
                    [intent |-> NoIntent, revision |-> 0, pending |-> None]]
    BY DEF Init
  <1>2. coord.pending = None /\ Len(coord.receipts) = 0
    BY <1>1
  <1>3. \A a \in Authorities : mem[a].intent = NoIntent /\ mem[a].pending = None
    BY <1>1
  <1>4. Tells(coord.receipts, IntentOf(mem)[First])
    BY <1>2 DEF Tells
  <1>5. IntentOf(mem)[First] = IntentOf(mem)[Second]
    BY <1>3, PairNames DEF IntentOf
  <1>6. Pair(coord, journal, IntentOf(mem), IntentOf(disk))
    BY <1>1, <1>2, <1>4, <1>5 DEF Pair
  <1>7. EntriesAt
    BY <1>1, <1>2, <1>3 DEF EntriesAt, Copied
  <1> QED
    BY <1>1, <1>6, <1>7 DEF PairAt, PairCall

LEMMA PairInvariance ==
  ASSUME "overlap" \notin Faults
  PROVE  Spec => [](Inv /\ PairAt)
  <1>1. Init => PairAt /\ PairCall
    BY InitPair
  <1>2. Inv /\ PairAt /\ PairCall /\ [Next]_vars => (PairAt /\ PairCall)'
    BY PairStep
  <1> QED
    BY <1>1, <1>2, Invariance, PTL DEF Spec

(* At rest both authorities' files hold the same cross intent, whatever    *)
(* writes and actuators failed, whatever call was dropped, and however     *)
(* often the process died, as long as no interrupted local operation is    *)
(* still to be recovered when a bilateral one is: that recovery puts back  *)
(* a copy of the intent from before the bilateral operation.               *)
THEOREM PairAgreesAtRest ==
  ASSUME "overlap" \notin Faults
  PROVE  Spec => []PairAgrees
  <1>1. Inv /\ PairAt => PairAgrees
    <2> SUFFICES ASSUME Inv, PairAt, AtRest
                 PROVE  disk[First].intent = disk[Second].intent
      BY DEF PairAgrees
    <2> QED
      BY PairFacts, PairNames DEF AtRest, Pair
  <1> QED
    BY <1>1, PairInvariance, PTL

(* What TypeOK says of the edges rewired behind the coordinator. *)
StrayAt == rewires \in 0..MaxRewires /\ stray \subseteq Edges

LEMMA StrayInvariance == Spec => []StrayAt
  <1>1. Init => StrayAt
    BY CoordinatorAssumption DEF Init, StrayAt
  <1>2. ASSUME StrayAt, [Next]_vars
        PROVE  StrayAt'
    <2>1. CASE UNCHANGED outside \/ UNCHANGED vars
      BY <1>2, <2>1 DEF StrayAt, outside, vars
    <2>2. ASSUME NEW e \in Edges, Rewire(e)
          PROVE  StrayAt'
      BY <1>2, <2>2, CoordinatorAssumption DEF StrayAt, Rewire
    <2>3. ASSUME NEW e \in Edges, Actuate(e)
          PROVE  StrayAt'
      <3>1. rewires' = rewires /\ stray' \in {stray, stray \ {e}}
        BY <2>3 DEF Actuate
      <3> QED
        BY <1>2, <3>1 DEF StrayAt
    <2>4. ASSUME NEW e \in Edges, ActuateFails(e)
          PROVE  UNCHANGED outside
      BY <2>4 DEF ActuateFails
    <2>5. CASE Query \/ Recover \/ Operation \/ Apply \/ Abort \/ Restart
      <3>1. UNCHANGED outside
        BY <2>5, Zenon DEF Query, Recover, Operation, Apply, StartCall, Abort, Restart
      <3> QED
        BY <2>1, <3>1
    <2>6. ASSUME NEW a \in Authorities,
                 \/ LocalBegin(a) \/ LocalBeginFails(a) \/ LocalEnd(a)
                 \/ LocalInterrupted(a) \/ LocalRecover(a) \/ ServeLocalRecover(a)
          PROVE  UNCHANGED outside
      BY <2>6, Zenon DEF LocalBegin, LocalBeginFails, LocalEnd, LocalInterrupted,
                         LocalRecover, ServeLocalRecover
    <2>7. CASE RecoverClean \/ ReconcileStart \/ ReconcileDone \/ RecoverPending
                 \/ RecoverPendingFails \/ RepairDone \/ KeepPending \/ RollbackStart
                 \/ RollbackDone \/ Commit
      <3>1. UNCHANGED outside
        BY <2>7, Zenon DEF RecoverClean, ReconcileStart, ReconcileDone, RecoverPending,
                    RecoverPendingFails, RepairDone, KeepPending, RollbackStart,
                    RollbackDone, Commit
      <3> QED
        BY <2>1, <3>1
    <2>8. CASE PersistAuthority \/ PersistAuthorityFails \/ Publish \/ TerminalReceipt
                 \/ Serve \/ ServeLocals \/ Admit \/ Refuse \/ Audit
      <3>1. UNCHANGED outside
        BY <2>8, Zenon DEF PersistAuthority, PersistAuthorityFails, Publish,
                    TerminalReceipt, Serve, ServeLocals, Admit, Refuse, Audit
      <3> QED
        BY <2>1, <3>1
    <2>9. CASE CallStep
      BY <2>1, <2>3, <2>4, <2>6, <2>7, <2>8, <2>9, Zenon DEF CallStep
    <2> QED
      BY <1>2, <2>1, <2>2, <2>5, <2>6, <2>9, Zenon DEF Next
  <1> QED
    BY <1>1, <1>2, PTL DEF Spec

(* The journal is well formed and within its limits, and at rest the       *)
(* newest retained receipt that changed an edge is the intent both files   *)
(* hold for it: an applied operation is never lost and a rolled-back one   *)
(* leaves no trace, under the same condition.                              *)
THEOREM ReceiptsAreKept ==
  ASSUME "overlap" \notin Faults
  PROVE  Spec => []JournalSound
  <1>1. Inv /\ StrayAt /\ PairAt => JournalSound
    <2> SUFFICES ASSUME Inv, StrayAt, PairAt
                 PROVE  TypeOK /\ ReceiptsHold
      BY DEF JournalSound
    <2>1. TypeOK
      BY DEF Inv, Typing, StrayAt, TypeOK
    <2>2. ASSUME AtRest, NEW i \in 1..Len(journal.receipts), NEW e \in Edges,
                 Effective(i, e),
                 \A j \in (i + 1)..Len(journal.receipts) : ~Effective(j, e),
                 NEW a \in Authorities
          PROVE  disk[a].intent[e] = Desired(journal.receipts[i].ops[e])
      <3> DEFINE d == IntentOf(disk)
      <3>1. /\ d[First] = d[Second] /\ Tells(journal.receipts, d[First])
            /\ d[a] = disk[a].intent
        BY <2>2, PairFacts DEF AtRest, Pair
      <3> HIDE DEF d
      <3>2. d[First][e] = Desired(journal.receipts[i].ops[e])
        BY <2>2, <3>1 DEF Tells, Effective
      <3>3. d[a] = d[First]
        BY <3>1 DEF Authorities
      <3> QED
        BY <3>1, <3>2, <3>3
    <2> QED
      BY <2>1, <2>2 DEF ReceiptsHold
  <1> QED
    BY <1>1, PairInvariance, StrayInvariance, PTL

(***************************************************************************)
(* Routing: what is wired is what is intended.                             *)
(***************************************************************************)
(* The wiring the coordinator answers for: that of a stray edge is any. *)
Seen == [e \in Edges |-> IF e \in stray THEN "any" ELSE wiring[e]]

Matches(i, w) ==
  w # "any" =>
    /\ i = "added" => w = "up"
    /\ i = "suppressed" => w = "down"
    /\ i = "none" => w # "up"

(* The wiring w follows the intent z, or at least routes nothing beyond it. *)
Follows(z, w) == \A e \in Edges : Matches(z[e], w[e])
Unrouted(z, w) == \A e \in Edges : z[e] = "none" => w[e] # "up"

(* What an operation still means to do with an edge. *)
Aim(p, e) == IF p.decision = "rolling_back" THEN Restoring(p, e) ELSE Forward(p, e)

(* The operation, as long as it can be rolled back, was admitted over a    *)
(* wiring that followed the intent but for the edges of s, does not        *)
(* concern the edges outside it, and is through with all but `todo'.       *)
Undoable(p, s) ==
  p.decision # "committed" =>
    \A e \in DOMAIN p.ops \ s : e \in p.wired <=> p.before[First][e] = "added"
Elsewhere(p, w) == \A e \in Edges \ DOMAIN p.ops : Matches(p.before[First][e], w[e])
Through(p, todo, w) == \A e \in DOMAIN p.ops \ todo : w[e] \in {"any", Wired(Aim(p, e))}

WiresAt ==
  /\ coord.pending = None =>
       /\ Unrouted(mem[First].intent, Seen)
       /\ reconciled => Follows(mem[First].intent, Seen)
  /\ coord.pending # None => Elsewhere(coord.pending, Seen)

UndoAt ==
  /\ coord.pending # None => Undoable(coord.pending, stray)
  /\ journal.pending # None => Undoable(journal.pending, stray)

WiresCall ==
  call # None =>
    /\ call.step = "serve" => reconciled \/ refused
    /\ call.step \in {"locals", "admit"} /\ call.kind = "apply" => reconciled
    /\ call.step = "reconcile" =>
         /\ ~reconciled
         /\ \A e \in call.todo : mem[First].intent[e] # "none"
         /\ \A e \in Edges \ call.todo : Matches(mem[First].intent[e], Seen[e])
    /\ call.step \in {"repair", "actuate", "rollback"} =>
         /\ call.todo \subseteq DOMAIN coord.pending.ops
         /\ call.step = "actuate" \/ ~call.failed =>
              Through(coord.pending, call.todo, Seen)
    /\ call.step \in Closing /\ coord.pending # None =>
         Follows(Result(coord.pending), Seen)

(* One edge, or a process that does not die: a restart loses the wiring of *)
(* all edges, and the recovery of a pending operation restores its own.    *)
OneEdgeOrOneLife == MaxCrashes = 0 \/ \A e, f \in Edges : e = f

(* The parts of the invariant in the next state. *)
LEMMA WiresHold ==
  ASSUME coord'.pending = None =>
           /\ Unrouted(mem'[First].intent, Seen')
           /\ reconciled' => Follows(mem'[First].intent, Seen'),
         coord'.pending # None => Elsewhere(coord'.pending, Seen')
  PROVE  WiresAt'
  BY DEF WiresAt, Unrouted, Follows, Matches, Elsewhere

LEMMA WiresKept ==
  ASSUME WiresAt, coord' = coord, mem'[First].intent = mem[First].intent,
         Seen' = Seen, reconciled' => reconciled
  PROVE  WiresAt'
  BY WiresHold DEF WiresAt

LEMMA UndoHolds ==
  ASSUME coord'.pending # None => Undoable(coord'.pending, stray'),
         journal'.pending # None => Undoable(journal'.pending, stray')
  PROVE  UndoAt'
  BY DEF UndoAt, Undoable

LEMMA UndoKept ==
  ASSUME UndoAt, coord' \in {coord, journal}, journal' \in {coord, journal},
         stray \subseteq stray'
  PROVE  UndoAt'
  BY UndoHolds DEF UndoAt, Undoable

LEMMA WiresCallFree ==
  ASSUME call' # None => call'.step \in {"recover", "audit", "abandon"}
  PROVE  WiresCall'
  BY DEF WiresCall, Closing

LEMMA WiresCallLeaves ==
  ASSUME CallAt, call # None, Leave \/ call' = None
  PROVE  WiresCall'
  <1>1. call' # None => call'.step = "audit"
    BY CallSteps DEF CallAt
  <1> QED
    BY <1>1, WiresCallFree

LEMMA WiresCallServes ==
  ASSUME CallAt, call # None, call' = Service, reconciled' \/ refused'
  PROVE  WiresCall'
  <1>1. call'.step = "serve"
    BY CallSteps DEF CallAt
  <1> QED
    BY <1>1 DEF WiresCall, Closing

LEMMA WiresCallCloses ==
  ASSUME call'.step \in Closing,
         coord'.pending # None => Follows(Result(coord'.pending), Seen')
  PROVE  WiresCall'
  BY DEF WiresCall, Closing, Follows, Matches, Result, Desired

LEMMA WiresCallActs ==
  ASSUME call'.step \in {"repair", "actuate", "rollback"},
         call'.todo \subseteq DOMAIN coord'.pending.ops,
         call'.step = "actuate" \/ ~call'.failed =>
           Through(coord'.pending, call'.todo, Seen')
  PROVE  WiresCall'
  BY DEF WiresCall, Closing, Through, Aim, Wired, Restoring, Forward

(* An operation that is through has what it leaves wired. *)
LEMMA Reached ==
  ASSUME NEW p \in PendingOperations, NEW w, p.decision # "applying",
         NEW s, \A e \in Edges : e \in s => w[e] = "any",
         Undoable(p, s), Elsewhere(p, w), Through(p, {}, w)
  PROVE  Follows(Result(p), w)
  <1> SUFFICES ASSUME NEW e \in Edges
               PROVE  Matches(Result(p)[e], w[e])
    BY DEF Follows
  <1>0. p.decision \in {"rolling_back", "committed"} /\ p.before[First] \in Intents
    BY PairNames DEF PendingOperations
  <1>1. CASE e \notin DOMAIN p.ops
    BY <1>1 DEF Elsewhere, Result
  <1>2. CASE e \in DOMAIN p.ops /\ p.decision = "committed"
    <2>1. Result(p)[e] = Desired(p.ops[e]) /\ w[e] \in {"any", Wired(p.ops[e])}
      BY <1>2 DEF Result, Through, Aim, Forward
    <2> QED
      BY <2>1 DEF Matches, Desired, Wired
  <1>3. CASE e \in DOMAIN p.ops /\ p.decision = "rolling_back"
    <2>1. /\ Result(p)[e] = p.before[First][e]
          /\ w[e] \in {"any", Wired(Restoring(p, e))}
      BY <1>3 DEF Result, Through, Aim
    <2>2. e \notin s => (e \in p.wired <=> p.before[First][e] = "added")
      BY <1>3 DEF Undoable
    <2>3. Wired(Restoring(p, e)) = IF e \in p.wired THEN "up" ELSE "down"
      BY DEF Wired, Restoring
    <2> QED
      BY <2>1, <2>2, <2>3 DEF Matches
  <1> QED
    BY <1>0, <1>1, <1>2, <1>3

LEMMA SeenFacts ==
  /\ \A e \in Edges : e \in stray => Seen[e] = "any"
  /\ \A e \in Edges : e \notin stray => Seen[e] = wiring[e]
  BY DEF Seen

(* The same operation under another decision. *)
LEMMA SameWires ==
  ASSUME NEW p, NEW q, q.ops = p.ops, q.before = p.before, q.wired = p.wired, NEW w, NEW s,
         p.decision = "committed" => q.decision = "committed"
  PROVE  /\ Undoable(p, s) => Undoable(q, s)
         /\ Elsewhere(p, w) => Elsewhere(q, w)
         /\ p.decision # "rolling_back" /\ q.decision # "rolling_back" =>
              \A todo : Through(p, todo, w) => Through(q, todo, w)
  BY DEF Undoable, Elsewhere, Through, Aim, Forward

LEMMA DecidingWires ==
  ASSUME NEW j, Sized(j), j.pending # None,
         NEW d \in {"applying", "rolling_back", "committed"}
  PROVE  LET t == Deciding(j, d)
         IN  t.pending.wired = j.pending.wired
  <1>1. j \in Journals /\ j.pending \in PendingOperations
    BY DEF Sized, Journals
  <1> DEFINE p == [j.pending EXCEPT !.decision = d]
  <1>2. p \in PendingOperations /\ p.wired = j.pending.wired
    BY <1>1 DEF PendingOperations
  <1>3. Deciding(j, d) = [j EXCEPT !.pending = p]
    BY DEF Deciding
  <1> HIDE DEF p
  <1>5. [j EXCEPT !.pending = p].pending = p
    BY <1>1 DEF Journals
  <1> QED
    BY <1>2, <1>3, <1>5

LEMMA FirstIntent ==
  ASSUME Typing
  PROVE  /\ mem[First] \in AuthorityStates
         /\ \A e \in Edges : mem[First].intent[e] \in {"none", "added", "suppressed"}
  <1>1. mem[First] \in AuthorityStates
    BY TypeFacts, PairNames
  <1>2. mem[First].intent \in Intents
    BY <1>1 DEF AuthorityStates
  <1> QED
    BY <1>1, <1>2 DEF Intents

(* The local controllers keep the cross intent. *)
LEMMA LocalKeepsIntent ==
  ASSUME Inv, PairAt, NEW a \in Authorities,
         \/ LocalBegin(a) \/ LocalBeginFails(a) \/ LocalEnd(a)
         \/ LocalInterrupted(a) \/ LocalRecover(a) \/ ServeLocalRecover(a)
  PROVE  mem'[First].intent = mem[First].intent
  <1>1. /\ mem \in [Authorities -> AuthorityStates] /\ First \in Authorities
        /\ mem[a] \in AuthorityStates /\ Copied(mem[a]) /\ LocalAt
    BY TypeFacts, PairNames DEF Inv, PairAt, EntriesAt
  <1>2. ASSUME NEW t, t.intent = mem[a].intent, mem' = [mem EXCEPT ![a] = t]
        PROVE  mem'[First].intent = mem[First].intent
    BY <1>1, <1>2
  <1>3. CASE LocalBegin(a)
    BY <1>1, <1>2, <1>3, BegunFacts DEF LocalBegin, SaveAuthority
  <1>4. CASE LocalBeginFails(a) \/ LocalInterrupted(a)
    BY <1>4 DEF LocalBeginFails, LocalInterrupted
  <1>5. CASE LocalEnd(a)
    <2>0. mem[a].pending # None /\ mem[a].pending.intent = mem[a].intent
      BY <1>1, <1>5 DEF LocalEnd, LocalAt, Copied
    <2> DEFINE c == [mem[a] EXCEPT !.pending = None]
               b == [Restored(mem[a]) EXCEPT !.pending = None]
               r == [Restored(mem[a]) EXCEPT !.pending.phase = "rolling_back"]
    <2>1. /\ Restored(mem[a]) \in AuthorityStates
          /\ Restored(mem[a]).pending # None
          /\ Restored(mem[a]).intent = mem[a].intent
      BY <1>1, <2>0, RestoredFacts
    <2>2. c.intent = mem[a].intent
      BY <1>1, ClosedFacts
    <2>3. b.intent = mem[a].intent
      BY <2>1, ClosedFacts
    <2>4. r.intent = mem[a].intent
      BY <2>1, RollingFacts
    <2>5. \/ mem' = [mem EXCEPT ![a] = c]
          \/ mem' = [mem EXCEPT ![a] = b]
          \/ mem' = [mem EXCEPT ![a] = r]
      BY <1>5 DEF LocalEnd, SaveAuthority, Restored
    <2> HIDE DEF c, b, r
    <2> QED
      BY <1>2, <2>2, <2>3, <2>4, <2>5
  <1>6. CASE LocalRecover(a) \/ ServeLocalRecover(a)
    <2>1. mem[a].pending # None
      BY <1>6 DEF LocalRecover, ServeLocalRecover
    <2>2. /\ Prepared(mem[a]).intent = mem[a].intent
          /\ \A s \in Recovered(mem[a]) : s.intent = mem[a].intent
      BY <1>1, <2>1, PreparedFacts, RecoveredFacts
    <2>3. (\E s \in Recovered(mem[a]) : SaveAuthority(a, s)) \/ RecoverFails(a)
      BY <1>6 DEF LocalRecover, ServeLocalRecover
    <2>4. CASE \E s \in Recovered(mem[a]) : SaveAuthority(a, s)
      BY <1>2, <2>2, <2>4 DEF SaveAuthority
    <2>5. CASE RecoverFails(a)
      BY <1>2, <2>2, <2>5 DEF RecoverFails
    <2> QED
      BY <2>3, <2>4, <2>5
  <1> QED
    BY <1>3, <1>4, <1>5, <1>6

LEMMA StartStepWires ==
  ASSUME WiresAt, UndoAt, Query \/ Recover \/ Operation \/ Apply
  PROVE  WiresAt' /\ UndoAt' /\ WiresCall'
  <1>1. PICK kind, key, ops : StartCall(kind, key, ops)
    BY DEF Query, Recover, Operation, Apply
  <1>2. /\ UNCHANGED <<mem, coord, journal, stray, Seen>> /\ call'.step = "recover"
        /\ reconciled' => reconciled
    BY <1>1 DEF StartCall, NewCall, authorities, outside, Seen
  <1> QED
    BY <1>2, WiresKept, UndoKept, WiresCallFree

LEMMA RecoverStepWires ==
  ASSUME Inv, WiresAt, UndoAt, WiresCall,
         RecoverClean \/ ReconcileStart \/ ReconcileDone
           \/ RecoverPending \/ RecoverPendingFails
  PROVE  WiresAt' /\ UndoAt' /\ WiresCall'
  <1>1. call # None /\ call \in Calls /\ CallAt /\ Typing
    BY DEF Inv, CallAt, RecoverClean, ReconcileStart, ReconcileDone, RecoverPending,
           RecoverPendingFails, At
  <1>2. UNCHANGED <<mem, stray, Seen>> /\ reconciled \in BOOLEAN
    BY <1>1 DEF RecoverClean, ReconcileStart, ReconcileDone, RecoverPending,
                RecoverPendingFails, authorities, outside, Seen, Typing
  <1>3. CASE RecoverClean
    <2>1. UNCHANGED <<coord, journal, reconciled>> /\ call' = Service
      BY <1>3 DEF RecoverClean
    <2>2. reconciled' \/ refused'
      BY <1>3 DEF RecoverClean
    <2> QED
      BY <1>1, <1>2, <2>1, <2>2, WiresKept, UndoKept, WiresCallServes
  <1>4. CASE ReconcileStart
    <2> DEFINE z == {e \in Edges : mem[First].intent[e] # "none"}
    <2>1. /\ UNCHANGED <<coord, journal, reconciled>> /\ ~reconciled
          /\ coord.pending = None
          /\ call' = [call EXCEPT !.step = "reconcile", !.todo = z]
      BY <1>4 DEF ReconcileStart, flags
    <2>2. \A e \in Edges \ z : Matches(mem[First].intent[e], Seen[e])
      BY <2>1 DEF WiresAt, Unrouted, Matches
    <2>3. \A e \in z : mem[First].intent[e] # "none"
      OBVIOUS
    <2> HIDE DEF z
    <2>4. call'.step = "reconcile" /\ call'.todo = z
      BY <1>1, <2>1 DEF Calls
    <2>5. WiresCall'
      BY <1>2, <2>1, <2>2, <2>3, <2>4 DEF WiresCall, Closing, Matches
    <2> QED
      BY <1>2, <2>1, <2>5, WiresKept, UndoKept
  <1>5. CASE ReconcileDone
    <2>1. /\ UNCHANGED <<coord, journal>> /\ reconciled' = TRUE
          /\ call.step = "reconcile" /\ call.todo = {} /\ call' = Service
          /\ coord.pending = None
      BY <1>1, <1>5 DEF ReconcileDone, At, CallAt
    <2>2. Follows(mem[First].intent, Seen) /\ Unrouted(mem[First].intent, Seen)
      BY <1>1, <2>1 DEF WiresCall, WiresAt, Follows
    <2>3. WiresAt'
      BY <1>2, <2>1, <2>2, WiresHold
    <2> QED
      BY <1>1, <1>2, <2>1, <2>3, UndoKept, WiresCallServes
  <1>6. CASE RecoverPending \/ RecoverPendingFails
    <2> DEFINE n == Resumed(coord)
               p == coord.pending
    <2>0. p # None /\ p \in PendingOperations /\ Sized(coord)
      BY <1>1, <1>6, TypeFacts DEF RecoverPending, RecoverPendingFails
    <2>1. /\ n.pending # None /\ n.pending.ops = p.ops /\ n.pending.before = p.before
          /\ n.pending.wired = p.wired
          /\ p.decision = "committed" => n.pending.decision = "committed"
      <3>1. n = IF p.decision = "applying" THEN Deciding(coord, "rolling_back") ELSE coord
        BY DEF Resumed, RollingBack, Deciding
      <3> HIDE DEF n
      <3> QED
        BY <2>0, <3>1, DecidingFacts, DecidingWires
    <2>2. coord' \in {coord, n} /\ journal' \in {journal, n} /\ reconciled' = FALSE
      BY <1>6 DEF RecoverPending, RecoverPendingFails, SaveJournal, SaveJournalFails
    <2>3. Undoable(p, stray) /\ Elsewhere(p, Seen)
      BY <2>0 DEF UndoAt, WiresAt
    <2>4. Undoable(n.pending, stray) /\ Elsewhere(n.pending, Seen)
      BY <2>1, <2>3, SameWires
    <2>a. RecoverPending => call' = [call EXCEPT !.step = "repair", !.todo = DOMAIN p.ops]
      BY DEF RecoverPending
    <2>b. RecoverPendingFails => call' = None
      BY DEF RecoverPendingFails
    <2> HIDE DEF n
    <2>5. coord'.pending # None /\ coord'.pending.ops = p.ops
      BY <2>0, <2>1, <2>2
    <2> HIDE DEF p
    <2>6. WiresAt'
      BY <1>2, <2>2, <2>3, <2>4, <2>5, WiresHold DEF p
    <2>7. UndoAt'
      BY <1>2, <2>2, <2>3, <2>4, UndoHolds DEF UndoAt, p
    <2>8. WiresCall'
      <3>1. CASE RecoverPendingFails
        BY <2>b, <3>1, WiresCallFree
      <3>2. CASE RecoverPending
        <4>1. call'.step = "repair" /\ call'.todo = DOMAIN p.ops
          BY <1>1, <2>a, <3>2 DEF Calls
        <4>2. Through(coord'.pending, call'.todo, Seen')
          BY <2>5, <4>1 DEF Through
        <4> QED
          BY <2>5, <4>1, <4>2, WiresCallActs
      <3> QED
        BY <1>6, <3>1, <3>2
    <2> QED
      BY <2>6, <2>7, <2>8
  <1> QED
    BY <1>3, <1>4, <1>5, <1>6

LEMMA ActStepWires ==
  ASSUME Inv, WiresAt, UndoAt, WiresCall, NEW e \in Edges, Actuate(e) \/ ActuateFails(e)
  PROVE  WiresAt' /\ UndoAt' /\ WiresCall'
  <1>1. /\ call # None /\ call \in Calls /\ CallAt /\ Typing /\ e \in call.todo
        /\ call.step \in {"reconcile", "repair", "actuate", "rollback"}
    BY DEF Inv, CallAt, Actuate, ActuateFails, Acting
  <1>2. UNCHANGED <<mem, coord, journal>>
    BY Zenon DEF Actuate, ActuateFails, authorities
  <1>a. \/ stray' = stray
        \/ Actuate(e) /\ stray' = stray \ {e} /\ Stands
    BY Zenon DEF Actuate, ActuateFails, outside
  <1>3. UndoAt'
    <2>1. CASE stray' = stray
      BY <1>2, <2>1, UndoKept
    <2>2. CASE Stands
      BY <1>2, <2>2, UndoHolds DEF Stands, Undoable
    <2> QED
      BY <1>a, <2>1, <2>2
  <1>4. /\ \A f \in Edges : f # e => Seen'[f] = Seen[f]
        /\ Actuate(e) => Seen'[e] \in {"any", Wired(Wanted(e))}
    <2>1. wiring \in [Edges -> {"up", "down", "half"}]
      BY <1>1 DEF Typing
    <2>2. Actuate(e) => wiring' = [wiring EXCEPT ![e] = Wired(Wanted(e))]
      BY DEF Actuate
    <2>3. ActuateFails(e) => \E w \in Broken(e) : wiring' = [wiring EXCEPT ![e] = w]
      BY DEF ActuateFails
    <2> HIDE DEF Wired, Wanted, Broken
    <2>4. /\ \A f \in Edges : f # e => wiring'[f] = wiring[f]
          /\ Actuate(e) => wiring'[e] = Wired(Wanted(e))
      BY <2>1, <2>2, <2>3
    <2>5. \A f \in Edges : f # e => (f \in stray' <=> f \in stray)
      BY <1>a
    <2>6. \A f \in Edges : Seen'[f] = IF f \in stray' THEN "any" ELSE wiring'[f]
      BY DEF Seen
    <2> QED
      BY <2>4, <2>5, <2>6, SeenFacts
  <1>5. Actuate(e) => call' = [call EXCEPT !.todo = @ \ {e}] /\ reconciled' = reconciled
    BY DEF Actuate, flags
  <1>6. ActuateFails(e) =>
          \/ /\ call.step = "reconcile"
             /\ call' = Service /\ reconciled' = FALSE /\ refused' = TRUE
          \/ call.step = "actuate" /\ call' = [call EXCEPT !.step = "abandon", !.todo = {}]
          \/ /\ call.step \notin {"reconcile", "actuate"}
             /\ call' = [call EXCEPT !.todo = @ \ {e}, !.failed = TRUE]
    BY Zenon DEF ActuateFails
  <1>7. /\ [call EXCEPT !.todo = @ \ {e}].step = call.step
        /\ [call EXCEPT !.todo = @ \ {e}].todo = call.todo \ {e}
        /\ [call EXCEPT !.todo = @ \ {e}].failed = call.failed
        /\ [call EXCEPT !.todo = @ \ {e}, !.failed = TRUE].step = call.step
        /\ [call EXCEPT !.todo = @ \ {e}, !.failed = TRUE].todo = call.todo \ {e}
        /\ [call EXCEPT !.todo = @ \ {e}, !.failed = TRUE].failed = TRUE
        /\ [call EXCEPT !.step = "abandon", !.todo = {}].step = "abandon"
    BY <1>1 DEF Calls
  <1>8. CASE call.step = "reconcile"
    <2> DEFINE z == mem[First].intent
    <2>1. /\ coord.pending = None /\ ~reconciled
          /\ \A f \in call.todo : z[f] # "none"
          /\ \A f \in Edges \ call.todo : Matches(z[f], Seen[f])
          /\ Unrouted(z, Seen)
      BY <1>1, <1>8 DEF CallAt, WiresCall, WiresAt
    <2>2. Unrouted(z, Seen')
      BY <1>1, <1>4, <2>1 DEF Unrouted
    <2>3. ~reconciled'
      BY <1>5, <1>6, <1>8, <2>1
    <2>4. WiresAt'
      BY <1>2, <2>1, <2>2, <2>3, WiresHold
    <2>5. CASE Actuate(e)
      <3>1. Wanted(e) = IF z[e] = "added" THEN "connect" ELSE "disconnect"
        BY <1>8 DEF Wanted
      <3>2. z[e] \in {"added", "suppressed"}
        BY <1>1, <2>1, FirstIntent
      <3>3. Matches(z[e], Seen'[e])
        BY <1>4, <2>5, <3>1, <3>2 DEF Matches, Wired
      <3>4. \A f \in Edges \ (call.todo \ {e}) : Matches(z[f], Seen'[f])
        BY <1>4, <2>1, <3>3
      <3>5. call'.step = "reconcile" /\ call'.todo = call.todo \ {e}
        BY <1>5, <1>7, <1>8, <2>5
      <3>6. WiresCall'
        BY <1>2, <2>1, <2>3, <3>4, <3>5 DEF WiresCall, Closing, Matches
      <3> QED
        BY <1>3, <2>4, <3>6
    <2>6. CASE ActuateFails(e)
      BY <1>1, <1>3, <1>6, <1>8, <2>4, <2>6, WiresCallServes
    <2> QED
      BY <2>5, <2>6
  <1>9. CASE call.step # "reconcile"
    <2> DEFINE p == coord.pending
    <2>1. /\ p # None /\ call.todo \subseteq DOMAIN p.ops
          /\ call.step = "actuate" \/ ~call.failed => Through(p, call.todo, Seen)
          /\ Elsewhere(p, Seen)
      BY <1>1, <1>9 DEF CallAt, WiresCall, WiresAt
    <2>2. Elsewhere(p, Seen')
      BY <1>1, <1>4, <2>1 DEF Elsewhere
    <2>3. WiresAt'
      BY <1>2, <2>1, <2>2, WiresHold
    <2>4. CASE Actuate(e)
      <3>1. Wanted(e) = Aim(p, e)
        BY <1>9 DEF Wanted, Aim
      <3>2. call.step = "actuate" \/ ~call.failed => Through(p, call.todo \ {e}, Seen')
        <4> SUFFICES ASSUME call.step = "actuate" \/ ~call.failed,
                            NEW f \in DOMAIN p.ops \ (call.todo \ {e})
                     PROVE  Seen'[f] \in {"any", Wired(Aim(p, f))}
          BY DEF Through
        <4>0. coord.pending \in PendingOperations
          BY <1>1, <2>1, TypeFacts
        <4>1. DOMAIN p.ops \subseteq Edges
          BY <4>0 DEF PendingOperations, Batches
        <4>2. CASE f = e
          BY <1>4, <2>4, <3>1, <4>2
        <4>3. CASE f # e
          BY <1>4, <2>1, <4>1, <4>3 DEF Through
        <4> QED
          BY <4>2, <4>3
      <3>3. /\ call'.step = call.step /\ call'.todo = call.todo \ {e}
            /\ call'.failed = call.failed
        BY <1>5, <1>7, <2>4
      <3>4. WiresCall'
        BY <1>1, <1>2, <1>9, <2>1, <3>2, <3>3, WiresCallActs
      <3> QED
        BY <1>3, <2>3, <3>4
    <2>5. CASE ActuateFails(e) /\ call.step = "actuate"
      <3>1. call'.step = "abandon"
        BY <1>6, <1>7, <2>5
      <3> QED
        BY <1>3, <2>3, <3>1, WiresCallFree
    <2>6. CASE ActuateFails(e) /\ call.step # "actuate"
      <3>1. /\ call'.step = call.step /\ call'.todo = call.todo \ {e} /\ call'.failed = TRUE
        BY <1>6, <1>7, <1>9, <2>6
      <3>2. WiresCall'
        BY <1>1, <1>2, <1>9, <2>1, <2>6, <3>1, WiresCallActs
      <3> QED
        BY <1>3, <2>3, <3>2
    <2> QED
      BY <2>4, <2>5, <2>6
  <1> QED
    BY <1>8, <1>9

LEMMA DecideStepWires ==
  ASSUME Inv, WiresAt, UndoAt, WiresCall,
         RepairDone \/ KeepPending \/ RollbackStart \/ RollbackDone \/ Commit
  PROVE  WiresAt' /\ UndoAt' /\ WiresCall'
  <1>1. call # None /\ call \in Calls /\ CallAt /\ Typing
    BY DEF Inv, CallAt, RepairDone, KeepPending, RollbackStart, RollbackDone, Commit, At
  <1>2. UNCHANGED <<mem, reconciled, stray, Seen>>
    BY DEF RepairDone, KeepPending, RollbackStart, RollbackDone, Commit, authorities, flags,
           outside, Seen
  <1> DEFINE p == coord.pending
  <1>3. /\ p # None /\ p \in PendingOperations /\ Sized(coord)
        /\ Undoable(p, stray) /\ Elsewhere(p, Seen)
    BY <1>1, TypeFacts DEF RepairDone, KeepPending, RollbackStart, RollbackDone, Commit, At,
           CallAt, UndoAt, WiresAt
  <1>4. CASE RepairDone \/ RollbackDone
    <2>1. /\ UNCHANGED <<coord, journal>> /\ call.todo = {} /\ ~call.failed
          /\ call.step \in {"repair", "rollback"}
          /\ \E t, status : Close(t, status)
      BY <1>4 DEF RepairDone, RollbackDone, At
    <2>2. p.decision # "applying" /\ Through(p, {}, Seen)
      BY <1>1, <2>1 DEF CallAt, WiresCall
    <2>3. Follows(Result(p), Seen)
      BY <1>3, <2>2, Reached, SeenFacts
    <2>4. call'.step \in Closing
      BY <1>1, <2>1, CallSteps DEF Closing
    <2>5. WiresCall'
      BY <1>2, <2>1, <2>3, <2>4, WiresCallCloses
    <2> QED
      BY <1>2, <2>1, <2>5, WiresKept, UndoKept
  <1>5. CASE KeepPending
    BY <1>1, <1>2, <1>5, WiresKept, UndoKept, WiresCallLeaves DEF KeepPending
  <1>6. CASE RollbackStart
    <2> DEFINE n == Deciding(coord, "rolling_back")
    <2>1. /\ n.pending # None /\ n.pending.ops = p.ops /\ n.pending.before = p.before
          /\ n.pending.wired = p.wired /\ p.decision = "applying"
      BY <1>1, <1>3, <1>6, DecidingFacts, DecidingWires DEF RollbackStart, At, CallAt
    <2>2. Undoable(n.pending, stray) /\ Elsewhere(n.pending, Seen)
      BY <1>3, <2>1, SameWires
    <2>3. call.ops = p.ops
      BY <1>1, <1>6 DEF RollbackStart, At, CallAt, Own
    <2>4. \/ /\ coord' = n /\ journal' = n
             /\ call' = [call EXCEPT !.step = "rollback", !.todo = DOMAIN call.ops]
          \/ coord' = coord /\ journal' \in {journal, n} /\ Leave
      BY <1>6 DEF RollbackStart, RollingBack, Deciding, SaveJournal, SaveJournalFails
    <2> HIDE DEF n
    <2>5. UndoAt'
      BY <1>2, <2>2, <2>4, UndoHolds DEF UndoAt
    <2>6. CASE /\ coord' = n
               /\ call' = [call EXCEPT !.step = "rollback", !.todo = DOMAIN call.ops]
      <3>1. WiresAt'
        BY <1>2, <2>1, <2>2, <2>6, WiresHold
      <3>2. call'.step = "rollback" /\ call'.todo = DOMAIN call.ops
        BY <1>1, <2>6 DEF Calls
      <3>3. Through(coord'.pending, call'.todo, Seen')
        BY <2>1, <2>3, <2>6, <3>2 DEF Through
      <3>4. WiresCall'
        BY <2>1, <2>3, <2>6, <3>2, <3>3, WiresCallActs
      <3> QED
        BY <2>5, <3>1, <3>4
    <2>7. CASE coord' = coord /\ Leave
      BY <1>1, <1>2, <2>5, <2>7, WiresKept, WiresCallLeaves
    <2> QED
      BY <2>4, <2>6, <2>7
  <1>7. CASE Commit
    <2> DEFINE n == Deciding(coord, "committed")
    <2>1. /\ n.pending # None /\ n.pending.ops = p.ops /\ n.pending.before = p.before
          /\ n.pending.wired = p.wired /\ n.pending.decision = "committed"
          /\ n.pending \in PendingOperations
      <3>1. Sized(n) /\ n.pending # None
        BY <1>3, DecidingFacts
      <3> HIDE DEF n
      <3>2. n.pending \in PendingOperations
        BY <3>1 DEF Sized, Journals
      <3> QED
        BY <1>3, <3>2, DecidingFacts, DecidingWires DEF n
    <2>2. p.decision = "applying" /\ Through(p, {}, Seen)
      BY <1>1, <1>7 DEF Commit, At, CallAt, WiresCall
    <2>3. \/ coord' = n /\ journal' = n /\ \E t, status : Close(t, status)
          \/ coord' = coord /\ journal' \in {journal, n} /\ Leave
      BY <1>7 DEF Commit, Deciding, SaveJournal, SaveJournalFails
    <2> HIDE DEF n
    <2>4. /\ Undoable(n.pending, stray) /\ Elsewhere(n.pending, Seen)
          /\ Through(n.pending, {}, Seen)
      BY <1>3, <2>1, <2>2, SameWires
    <2>5. UndoAt'
      BY <1>2, <2>3, <2>4, UndoHolds DEF UndoAt
    <2>6. CASE coord' = n /\ \E t, status : Close(t, status)
      <3>1. WiresAt'
        BY <1>2, <2>1, <2>4, <2>6, WiresHold
      <3>2. call'.step \in Closing
        BY <1>1, <2>6, CallSteps DEF Closing
      <3>3. Follows(Result(n.pending), Seen)
        BY <2>1, <2>4, Reached, SeenFacts
      <3> QED
        BY <1>2, <2>5, <2>6, <3>1, <3>2, <3>3, WiresCallCloses
    <2>7. CASE coord' = coord /\ Leave
      BY <1>1, <1>2, <2>5, <2>7, WiresKept, WiresCallLeaves
    <2> QED
      BY <2>3, <2>6, <2>7
  <1> QED
    BY <1>4, <1>5, <1>6, <1>7

LEMMA PersistStepWires ==
  ASSUME Inv, PairAt, PairCall, WiresAt, UndoAt, WiresCall,
         PersistAuthority \/ PersistAuthorityFails \/ Publish
  PROVE  WiresAt' /\ UndoAt' /\ WiresCall'
  <1>1. call # None /\ call \in Calls /\ CallAt /\ Typing /\ call.step \in Closing
    BY DEF Inv, CallAt, PersistAuthority, PersistAuthorityFails, Publish, At, Closing
  <1>2. UNCHANGED <<coord, journal, reconciled, stray, Seen>>
    BY DEF PersistAuthority, PersistAuthorityFails, Publish, flags, outside, Seen
  <1>3. coord.pending = None => mem' = mem
    <2>1. CASE Publish
      <3>1. coord.pending = None => call.target[Turn] = mem[Turn]
        BY <1>1, TurnFacts DEF PairCall
      <3>2. mem \in [Authorities -> AuthorityStates]
        BY <1>1, TypeFacts
      <3>3. mem' = [mem EXCEPT ![Turn] = call.target[Turn]]
        BY <2>1 DEF Publish
      <3> QED
        BY <3>1, <3>2, <3>3
    <2>2. CASE PersistAuthority \/ PersistAuthorityFails
      BY <2>2 DEF PersistAuthority, PersistAuthorityFails
    <2> QED
      BY <2>1, <2>2
  <1>4. WiresAt'
    BY <1>2, <1>3, WiresHold DEF WiresAt
  <1>5. UndoAt'
    BY <1>2, UndoKept
  <1>6. CASE PersistAuthorityFails
    BY <1>1, <1>4, <1>5, <1>6, WiresCallLeaves DEF PersistAuthorityFails
  <1>7. CASE PersistAuthority \/ Publish
    <2>1. call'.step \in Closing
      BY <1>1, <1>7 DEF PersistAuthority, Publish, At, Calls, Closing
    <2>2. coord.pending # None => Follows(Result(coord.pending), Seen)
      BY <1>1 DEF WiresCall
    <2> QED
      BY <1>2, <1>4, <1>5, <2>1, <2>2, WiresCallCloses
  <1> QED
    BY <1>6, <1>7

LEMMA TerminalStepWires ==
  ASSUME Inv, PairAt, PairCall, WiresAt, UndoAt, WiresCall, TerminalReceipt
  PROVE  WiresAt' /\ UndoAt' /\ WiresCall'
  <1>1. call # None /\ call \in Calls /\ CallAt /\ Typing /\ call.step = "terminal"
    BY DEF Inv, CallAt, TerminalReceipt, At
  <1>2. UNCHANGED <<mem, stray, Seen>>
    BY DEF TerminalReceipt, authorities, outside, Seen
  <1> DEFINE n == Terminal(Receipt)
             z == mem[First].intent
  <1>3. n.pending = None
    BY DEF Terminal
  <1>4. coord.pending # None => Follows(z, Seen) /\ Unrouted(z, Seen)
    <2>1. coord.pending # None => z = Result(coord.pending)
      BY <1>1, PairNames DEF PairCall, Closing
    <2>2. coord.pending # None => Follows(z, Seen)
      BY <1>1, <2>1 DEF WiresCall, Closing
    <2> QED
      BY <2>2 DEF Follows, Unrouted, Matches
  <1>5. \/ /\ coord' = n /\ journal' = n /\ call.phase = "recovery"
           /\ call' = Service /\ reconciled' = TRUE
        \/ coord' = n /\ journal' = n /\ Leave /\ reconciled' = reconciled
        \/ coord' = coord /\ journal' \in {journal, n} /\ Leave /\ reconciled' = reconciled
    BY DEF TerminalReceipt, SaveJournal, SaveJournalFails, flags
  <1> HIDE DEF n
  <1>6. UndoAt'
    BY <1>2, <1>3, <1>5, UndoHolds DEF UndoAt
  <1>7. CASE coord' = coord /\ Leave /\ reconciled' = reconciled
    BY <1>1, <1>2, <1>6, <1>7, WiresKept, WiresCallLeaves
  <1>8. CASE coord' = n /\ Leave /\ reconciled' = reconciled
    <2>1. WiresAt'
      BY <1>2, <1>3, <1>4, <1>8, WiresHold DEF WiresAt
    <2> QED
      BY <1>1, <1>6, <1>8, <2>1, WiresCallLeaves
  <1>9. CASE coord' = n /\ call.phase = "recovery" /\ call' = Service /\ reconciled' = TRUE
    <2>1. coord.pending # None
      BY <1>1, <1>9 DEF CallAt, Closing
    <2>2. WiresAt'
      BY <1>2, <1>3, <1>4, <1>9, <2>1, WiresHold
    <2> QED
      BY <1>1, <1>6, <1>9, <2>2, WiresCallServes
  <1> QED
    BY <1>5, <1>7, <1>8, <1>9

LEMMA ServeStepWires ==
  ASSUME Inv, WiresAt, UndoAt, WiresCall,
         Serve \/ ServeLocals \/ Refuse \/ Audit \/ Abort
  PROVE  WiresAt' /\ UndoAt' /\ WiresCall'
  <1>1. call # None /\ call \in Calls /\ CallAt /\ Typing
    BY DEF Inv, CallAt, Serve, ServeLocals, Refuse, Audit, Abort, At
  <1>2. /\ UNCHANGED <<mem, coord, reconciled, stray, Seen>>
        /\ journal' \in {coord, journal}
    <2>1. CASE Serve
      <3>0. UNCHANGED <<mem, coord, wiring, reconciled, stray>>
        BY <2>1, Zenon DEF Serve, authorities, flags, outside
      <3>1. UNCHANGED <<mem, coord, reconciled, stray, Seen>>
        BY <3>0 DEF Seen
      <3>2. /\ call.kind \in {"query", "recover", "operation"} => journal' = journal
            /\ call.kind = "apply" => journal' \in {coord, journal}
        BY <2>1 DEF Serve
      <3>3. call.kind \in {"query", "recover", "operation", "apply"}
        BY <1>1 DEF Calls
      <3> QED
        BY <3>1, <3>2, <3>3
    <2>2. CASE ServeLocals \/ Refuse \/ Audit \/ Abort
      BY <2>2 DEF ServeLocals, Refuse, Audit, Abort, authorities, flags, outside, Seen
    <2> QED
      BY <2>1, <2>2
  <1>3. WiresAt' /\ UndoAt'
    BY <1>2, WiresKept, UndoKept
  <1>4. CASE Leave \/ call' = None
    BY <1>1, <1>3, <1>4, WiresCallLeaves
  <1>5. ASSUME NEW s \in {"locals", "admit"}, Goto(s), call.kind = "apply" => reconciled
        PROVE  WiresCall'
    <2>1. call'.step = s /\ call'.kind = call.kind
      BY <1>1, <1>5 DEF Goto, Calls
    <2> QED
      BY <1>2, <1>5, <2>1 DEF WiresCall, Closing
  <1>6. CASE Serve /\ Goto("locals")
    <2>1. call.kind = "apply" => reconciled \/ refused
      BY <1>1, <1>6 DEF Serve, At, WiresCall
    <2>2. call.kind = "apply" /\ refused => Leave \/ call' = None
      BY <1>6, Zenon DEF Serve
    <2>3. CASE call.kind = "apply" /\ refused
      BY <1>4, <2>2, <2>3
    <2>4. CASE ~(call.kind = "apply" /\ refused)
      BY <1>3, <1>5, <1>6, <2>1, <2>4
    <2> QED
      BY <2>3, <2>4
  <1>7. CASE ServeLocals /\ Goto("admit")
    <2>1. call.kind = "apply" => reconciled
      BY <1>1, <1>7 DEF ServeLocals, At, WiresCall
    <2> QED
      BY <1>3, <1>5, <1>7, <2>1
  <1>8. CASE Serve
    <2>1. Leave \/ call' = None \/ Goto("locals")
      <3>1. call.kind \in {"query", "recover", "operation", "apply"}
        BY <1>1 DEF Calls
      <3>2. /\ call.kind \in {"recover", "operation"} => Leave
            /\ call.kind = "query" => Goto("locals")
            /\ call.kind = "apply" => Leave \/ call' = None \/ Goto("locals")
        BY <1>8 DEF Serve
      <3> QED
        BY <3>1, <3>2
    <2> QED
      BY <1>4, <1>6, <1>8, <2>1
  <1>9. CASE ServeLocals
    BY <1>4, <1>7, <1>9 DEF ServeLocals
  <1>10. CASE Refuse \/ Audit \/ Abort
    BY <1>4, <1>10 DEF Refuse, Audit, Abort
  <1> QED
    BY <1>8, <1>9, <1>10

LEMMA ServeLocalStepWires ==
  ASSUME Inv, PairAt, WiresAt, UndoAt, WiresCall,
         NEW a \in Authorities, ServeLocalRecover(a)
  PROVE  WiresAt' /\ UndoAt' /\ WiresCall'
  <1>1. call # None /\ CallAt /\ call.step = "locals"
    BY DEF Inv, ServeLocalRecover, At
  <1>2. UNCHANGED <<coord, journal, reconciled, refused, stray, Seen>>
    BY DEF ServeLocalRecover, flags, outside, Seen
  <1>3. WiresAt' /\ UndoAt'
    BY <1>2, LocalKeepsIntent, WiresKept, UndoKept
  <1>4. call' = call \/ Leave
    BY DEF ServeLocalRecover
  <1>5. CASE call' = call
    BY <1>1, <1>2, <1>3, <1>5 DEF WiresCall, Closing
  <1> QED
    BY <1>1, <1>3, <1>4, <1>5, WiresCallLeaves

LEMMA AdmitStepWires ==
  ASSUME Inv, WiresAt, UndoAt, WiresCall, Admit
  PROVE  WiresAt' /\ UndoAt' /\ WiresCall'
  <1>1. call # None /\ call \in Calls /\ CallAt /\ Typing /\ At("admit")
    BY DEF Inv, CallAt, Admit, At
  <1>2. UNCHANGED <<mem, reconciled, stray, Seen>>
    BY DEF Admit, authorities, flags, outside, Seen
  <1>3. /\ call.kind = "apply" /\ coord.pending = None /\ call.ops \in Batches
        /\ reconciled /\ Sized(coord)
    BY <1>1, TypeFacts DEF At, CallAt, WiresCall
  <1>4. Follows(mem[First].intent, Seen)
    BY <1>3 DEF WiresAt
  <1> DEFINE p == PendingOperation
             n == [coord EXCEPT !.pending = p]
  <1>5. /\ p \in PendingOperations /\ p.ops = call.ops
        /\ p.before[First] = mem[First].intent
        /\ n.pending = p /\ p # None
    BY <1>1, <1>3, PendingFacts, OpeningFacts, PairNames
  <1>6. p.wired = {e \in DOMAIN call.ops : wiring[e] = "up"}
    BY DEF PendingOperation
  <1>7. \/ /\ coord' = n /\ journal' = n
           /\ call' = [call EXCEPT !.step = "actuate", !.todo = DOMAIN call.ops]
        \/ coord' = coord /\ journal' \in {journal, n} /\ Leave
        \/ Close(mem, "noop") /\ coord' = coord /\ journal' = journal
    BY DEF Admit, SaveJournal, SaveJournalFails
  <1> HIDE DEF p, n
  <1>8. Undoable(p, stray)
    <2> SUFFICES ASSUME NEW e \in DOMAIN p.ops \ stray
                 PROVE  e \in p.wired <=> p.before[First][e] = "added"
      BY DEF Undoable
    <2>1. e \in Edges
      BY <1>3, <1>5 DEF Batches
    <2>2. mem[First].intent[e] \in {"none", "added", "suppressed"}
      BY <1>1, <2>1, FirstIntent
    <2>3. mem[First].intent[e] = "added" <=> wiring[e] = "up"
      <3>1. wiring[e] \in {"up", "down", "half"} /\ Seen[e] = wiring[e]
        BY <1>1, <2>1, SeenFacts DEF Typing
      <3> QED
        BY <1>4, <2>1, <2>2, <3>1 DEF Follows, Matches
    <2> QED
      BY <1>5, <1>6, <2>3
  <1>9. Elsewhere(p, Seen)
    BY <1>4, <1>5 DEF Elsewhere, Follows
  <1>10. UndoAt'
    BY <1>2, <1>5, <1>7, <1>8, UndoHolds DEF UndoAt
  <1>11. CASE /\ coord' = n
              /\ call' = [call EXCEPT !.step = "actuate", !.todo = DOMAIN call.ops]
    <2>1. WiresAt'
      BY <1>2, <1>5, <1>9, <1>11, WiresHold
    <2>2. call'.step = "actuate" /\ call'.todo = DOMAIN call.ops
      BY <1>1, <1>11 DEF Calls
    <2>3. Through(coord'.pending, call'.todo, Seen')
      BY <1>5, <1>11, <2>2 DEF Through
    <2>4. WiresCall'
      BY <1>5, <1>11, <2>2, <2>3, WiresCallActs
    <2> QED
      BY <1>10, <2>1, <2>4
  <1>12. CASE coord' = coord /\ Leave
    BY <1>1, <1>2, <1>10, <1>12, WiresKept, WiresCallLeaves
  <1>13. CASE Close(mem, "noop") /\ coord' = coord
    <2>1. call'.step \in Closing
      BY <1>1, <1>13, CallSteps DEF Closing
    <2> QED
      BY <1>2, <1>3, <1>10, <1>13, <2>1, WiresKept, WiresCallCloses
  <1> QED
    BY <1>7, <1>11, <1>12, <1>13

LEMMA RestartWires ==
  ASSUME Inv, OneEdgeOrOneLife, UndoAt, Restart
  PROVE  WiresAt' /\ UndoAt' /\ WiresCall'
  <1>1. /\ coord' = journal /\ journal' = journal /\ reconciled' = FALSE /\ call' = None
        /\ wiring' = [e \in Edges |-> IF wiring[e] = "up" THEN "half" ELSE wiring[e]]
        /\ crashes < MaxCrashes /\ stray' = stray
    BY DEF Restart, outside
  <1>2. Unrouted(mem'[First].intent, Seen')
    BY <1>1 DEF Unrouted, Seen
  <1>3. \A e, f \in Edges : e = f
    BY <1>1 DEF Inv, Typing, OneEdgeOrOneLife
  <1>4. journal.pending # None => Elsewhere(journal.pending, Seen')
    <2> SUFFICES ASSUME journal.pending # None
                 PROVE  Edges \ DOMAIN journal.pending.ops = {}
      BY DEF Elsewhere
    <2>1. journal.pending \in PendingOperations
      BY TypeFacts DEF Inv
    <2>2. DOMAIN journal.pending.ops \in (SUBSET Edges) \ {{}}
      BY <2>1 DEF PendingOperations, Batches
    <2> QED
      BY <1>3, <2>2
  <1>5. WiresAt'
    BY <1>1, <1>2, <1>4, WiresHold
  <1> QED
    BY <1>1, <1>5, UndoKept, WiresCallFree

(* Behind the coordinator, an edge only gets out of what it answers for. *)
LEMMA RewireWires ==
  ASSUME Inv, WiresAt, UndoAt, WiresCall, NEW e \in Edges, Rewire(e)
  PROVE  WiresAt' /\ UndoAt' /\ WiresCall'
  <1>1. UNCHANGED <<mem, coord, journal, reconciled, refused, call>>
        /\ stray' = stray \cup {e}
    BY DEF Rewire, authorities, flags
  <1>2. \A f \in Edges : Seen'[f] = Seen[f] \/ Seen'[f] = "any"
    <2>1. \A f \in Edges : f # e => wiring'[f] = wiring[f]
      BY DEF Rewire, Inv, Typing
    <2>2. \A f \in Edges : Seen'[f] = IF f \in stray' THEN "any" ELSE wiring'[f]
      BY DEF Seen
    <2> QED
      BY <1>1, <2>1, <2>2, SeenFacts
  <1>3. \A z : /\ Unrouted(z, Seen) => Unrouted(z, Seen')
               /\ Follows(z, Seen) => Follows(z, Seen')
    BY <1>2 DEF Unrouted, Follows, Matches
  <1>4. \A p : Elsewhere(p, Seen) => Elsewhere(p, Seen')
    BY <1>2 DEF Elsewhere, Matches
  <1>5. WiresAt'
    BY <1>1, <1>3, <1>4, WiresHold DEF WiresAt
  <1>6. UndoAt'
    BY <1>1, UndoKept
  <1>7. CASE call # None /\ call.step \in {"repair", "actuate", "rollback"}
    <2>1. coord.pending # None /\ coord.pending \in PendingOperations
      BY <1>7, TypeFacts DEF Inv, CallAt
    <2>2. DOMAIN coord.pending.ops \subseteq Edges
      BY <2>1 DEF PendingOperations, Batches
    <2>3. Through(coord.pending, call.todo, Seen) => Through(coord.pending, call.todo, Seen')
      BY <1>2, <2>2 DEF Through
    <2>4. /\ call.todo \subseteq DOMAIN coord.pending.ops
          /\ call.step = "actuate" \/ ~call.failed =>
               Through(coord.pending, call.todo, Seen)
      BY <1>7 DEF WiresCall
    <2>5. WiresCall'
      BY <1>1, <1>7, <2>3, <2>4, WiresCallActs
    <2> QED
      BY <1>5, <1>6, <2>5
  <1>8. CASE call # None /\ call.step \in Closing
    <2>1. coord.pending # None => Follows(Result(coord.pending), Seen)
      BY <1>8 DEF WiresCall
    <2>2. WiresCall'
      BY <1>1, <1>3, <1>8, <2>1, WiresCallCloses
    <2> QED
      BY <1>5, <1>6, <2>2
  <1>9. CASE ~(call # None /\ call.step \in Closing \cup {"repair", "actuate", "rollback"})
    <2>1. WiresCall'
      BY <1>1, <1>2, <1>9 DEF WiresCall, Matches
    <2> QED
      BY <1>5, <1>6, <2>1
  <1> QED
    BY <1>7, <1>8, <1>9

LEMMA WiresStep ==
  ASSUME Inv, PairAt, PairCall, WiresAt, UndoAt, WiresCall, OneEdgeOrOneLife, [Next]_vars
  PROVE  WiresAt' /\ UndoAt' /\ WiresCall'
  <1>1. ASSUME NEW a \in Authorities,
               \/ LocalBegin(a) \/ LocalBeginFails(a) \/ LocalEnd(a)
               \/ LocalInterrupted(a) \/ LocalRecover(a)
        PROVE  WiresAt' /\ UndoAt' /\ WiresCall'
    <2>1. call' = None
      BY <1>1 DEF Inv, CallAt, LocalBegin, LocalBeginFails, LocalEnd, LocalInterrupted,
                  LocalRecover, Unlocked
    <2>2. UNCHANGED <<coord, journal, reconciled, stray, Seen>>
      BY <1>1 DEF LocalBegin, LocalBeginFails, LocalEnd, LocalInterrupted, LocalRecover,
                  flags, outside, Seen
    <2> QED
      BY <1>1, <2>1, <2>2, LocalKeepsIntent, WiresKept, UndoKept, WiresCallFree
  <1>2. CASE CallStep
    BY <1>2, RecoverStepWires, ActStepWires, DecideStepWires, PersistStepWires,
       TerminalStepWires, ServeStepWires, ServeLocalStepWires, AdmitStepWires DEF CallStep
  <1>3. CASE UNCHANGED vars
    <2>1. UNCHANGED <<mem, coord, journal, reconciled, refused, call, stray, Seen>>
      BY <1>3 DEF vars, Seen
    <2>2. WiresCall'
      BY <2>1 DEF WiresCall, Closing, Through, Aim, Wired, Restoring, Forward, Follows,
                  Matches, Result, Desired
    <2> QED
      BY <2>1, <2>2, WiresKept, UndoKept
  <1> QED
    BY <1>1, <1>2, <1>3, RewireWires, RestartWires, StartStepWires, ServeStepWires DEF Next

LEMMA InitWires ==
  ASSUME Init
  PROVE  WiresAt /\ UndoAt /\ WiresCall
  <1>1. /\ coord.pending = None /\ journal.pending = None /\ reconciled = FALSE
        /\ call = None /\ wiring = [e \in Edges |-> "down"]
    BY DEF Init
  <1> QED
    BY <1>1 DEF WiresAt, UndoAt, WiresCall, Unrouted, Seen

(* A pair the coordinator believes reconciled routes what it intends on    *)
(* every edge that was not rewired behind it, for one edge through any     *)
(* restarts, and for any number of edges as long as the process lives: the *)
(* recovery of a pending operation rewires that operation's edges only,    *)
(* which is enough when the others were not lost.                          *)
THEOREM ReconciledRoutes ==
  ASSUME "overlap" \notin Faults,
         MaxCrashes = 0 \/ \A e, f \in Edges : e = f
  PROVE  Spec => []RoutesIntent
  <1>0. OneEdgeOrOneLife
    BY DEF OneEdgeOrOneLife
  <1>1. Init => (PairAt /\ PairCall) /\ (WiresAt /\ UndoAt /\ WiresCall)
    BY InitPair, InitWires
  <1>2. Inv /\ (PairAt /\ PairCall) /\ (WiresAt /\ UndoAt /\ WiresCall) /\ [Next]_vars
          => (PairAt /\ PairCall)' /\ (WiresAt /\ UndoAt /\ WiresCall)'
    BY <1>0, PairStep, WiresStep
  <1>3. Inv /\ WiresAt => RoutesIntent
    <2> SUFFICES ASSUME Inv, WiresAt, coord.pending = None, reconciled,
                        NEW e \in Edges \ stray
                 PROVE  CASE mem[First].intent[e] = "added" -> wiring[e] = "up"
                          [] mem[First].intent[e] = "suppressed" -> wiring[e] = "down"
                          [] OTHER -> wiring[e] # "up"
      BY DEF RoutesIntent
    <2>0. Seen[e] = wiring[e] /\ wiring[e] \in {"up", "down", "half"}
      BY SeenFacts DEF Inv, Typing
    <2>1. Matches(mem[First].intent[e], wiring[e])
      BY <2>0 DEF WiresAt, Follows
    <2>2. mem[First].intent[e] \in {"none", "added", "suppressed"}
      BY FirstIntent DEF Inv
    <2> QED
      BY <2>0, <2>1, <2>2 DEF Matches
  <1> QED
    BY <1>1, <1>2, <1>3, Invariance, PTL DEF Spec
=============================================================================
