------------------------------ MODULE EventLog ------------------------------
(***************************************************************************)
(* The operational event log of unified_runtime/event_log.rs in one        *)
(* process lifetime: producers that never block, a bounded channel, the    *)
(* flush loop with its batch and its retry buffer, a store that may fail   *)
(* before or after it wrote, and a reader that pages through the log with  *)
(* the after_seq cursor.  Events are numbered in the order they are        *)
(* ingested; a number stands for the event's identity and payload.  The    *)
(* store either ignores identities it has, as the trait asks, or extends   *)
(* its rows with whatever it is given, as the gateway's own store does.    *)
(***************************************************************************)
EXTENDS Integers, Sequences, FiniteSets, SequencesExt

CONSTANTS
  Skipped,          \* the events the configured filter does not persist
  BatchSize,        \* EventLogConfig::batch_size, at least 1
  ChannelCapacity,  \* of the ingress channel
  RetryCap,         \* EVENT_LOG_RETRY_BUFFER_CAP
  PageSize,         \* EventQuery::limit of the reader
  MaxEvents, MaxFailures   \* bounds

ASSUME EventLogAssumption ==
  /\ BatchSize \in Nat \ {0} /\ ChannelCapacity \in Nat \ {0}
  /\ RetryCap \in Nat \ {0} /\ PageSize \in Nat \ {0}
  /\ MaxEvents \in Nat /\ MaxFailures \in Nat

VARIABLES
  produced,  \* how many events were offered
  open,      \* the sending half exists
  channel,   \* events accepted and not yet received
  seq,       \* the next sequence number
  batch,     \* persisted forms waiting for a flush
  flight,    \* the batch append_batch was called with
  loop,      \* "select", "flushing", "final" or "exited"
  idempotent,  \* the configured store ignores identities it has
  stored,    \* the store's rows, the copies of a row numbered
  failures,
  cursor,    \* the reader's after_seq
  seen,      \* the rows the reader was given
  admitted,  \* history: events accepted by the channel and the filter
  capped,    \* history: rows dropped to bound the retry buffer
  unacknowledged   \* history: rows an append wrote before it failed

store == <<idempotent, stored, failures, unacknowledged>>
loopVars == <<seq, batch, flight, loop, store, capped>>
reader == <<cursor, seen>>
vars == <<produced, open, channel, loopVars, reader, admitted>>

(* ingest: try_send, and the event is gone if the channel is full or        *)
(* closed.                                                                  *)
Ingest ==
  /\ produced < MaxEvents
  /\ produced' = produced + 1
  /\ LET fits == open /\ Len(channel) < ChannelCapacity
         e == produced + 1
     IN /\ channel' = IF fits THEN Append(channel, e) ELSE channel
        /\ admitted' = IF fits /\ e \notin Skipped
                       THEN admitted \cup {e} ELSE admitted
  /\ UNCHANGED <<open, loopVars, reader>>

(* The runtime drops its handle.                                            *)
CloseChannel ==
  /\ open
  /\ open' = FALSE
  /\ UNCHANGED <<produced, channel, loopVars, reader, admitted>>

ToPersisted(e) == [row |-> [id |-> e, seq |-> seq], next |-> seq + 1]

(* Mutant: the batch is sent and not taken.                                 *)
StartFlushCopying(rows, then) ==
  /\ flight' = rows
  /\ batch' = rows
  /\ loop' = then

(* flush_batch up to its await: the batch is taken and the append called.   *)
StartFlush(rows, then) ==
  /\ flight' = rows
  /\ batch' = <<>>
  /\ loop' = then

Receive ==
  /\ loop = "select"
  /\ channel # <<>>
  /\ channel' = Tail(channel)
  /\ IF Head(channel) \in Skipped
     THEN UNCHANGED <<seq, batch, flight, loop>>
     ELSE LET p == ToPersisted(Head(channel))
              rows == Append(batch, p.row)
          IN /\ seq' = p.next
             /\ IF Len(rows) >= BatchSize
                THEN StartFlush(rows, "flushing")
                ELSE batch' = rows /\ UNCHANGED <<flight, loop>>
  /\ UNCHANGED <<produced, open, store, capped, reader, admitted>>

(* Mutant: the tick flushes full batches only.                              *)
TickFull ==
  /\ loop = "select"
  /\ Len(batch) >= BatchSize
  /\ StartFlush(batch, "flushing")
  /\ UNCHANGED <<produced, open, channel, seq, store, capped, reader, admitted>>

Tick ==
  /\ loop = "select"
  /\ batch # <<>>
  /\ StartFlush(batch, "flushing")
  /\ UNCHANGED <<produced, open, channel, seq, store, capped, reader, admitted>>

(* The channel is closed and drained: one last flush, whatever it answers.  *)
Drained ==
  /\ loop = "select"
  /\ ~open /\ channel = <<>>
  /\ IF batch # <<>> THEN StartFlush(batch, "final")
     ELSE loop' = "exited" /\ UNCHANGED <<batch, flight>>
  /\ UNCHANGED <<produced, open, channel, seq, store, capped, reader, admitted>>

StoredRows == {copy.row : copy \in stored}

(* The rows of the batch the store takes: all of them, or those whose       *)
(* identity is new to it.                                                   *)
Taken ==
  {i \in DOMAIN flight :
     idempotent => /\ \A known \in StoredRows : known.id # flight[i].id
                   /\ \A j \in 1 .. i - 1 : flight[j].id # flight[i].id}

(* The number of the copy that the i-th row of the batch becomes.           *)
NextCopy(i) ==
  1 + Cardinality({copy \in stored : copy.row = flight[i]})
    + Cardinality({j \in 1 .. i - 1 : flight[j] = flight[i]})

(* What an append leaves behind.                                            *)
Appended ==
  stored \cup {[row |-> flight[i], nth |-> NextCopy(i)] : i \in Taken}

Resume == loop' = IF loop = "final" THEN "exited" ELSE "select"

FlushOk ==
  /\ loop \in {"flushing", "final"}
  /\ stored' = Appended
  /\ flight' = <<>>
  /\ Resume
  /\ UNCHANGED <<produced, open, channel, seq, batch, idempotent, failures,
                 unacknowledged, capped, reader, admitted>>

EnforceRetryCap(rows) ==
  IF Len(rows) <= RetryCap THEN rows
  ELSE SubSeq(rows, Len(rows) - RetryCap + 1, Len(rows))

(* append_batch answers an error, after it wrote or without.                *)
AppendFails(wrote) ==
  /\ failures < MaxFailures
  /\ failures' = failures + 1
  /\ stored' = IF wrote THEN Appended ELSE stored
  /\ unacknowledged' = IF wrote THEN unacknowledged \cup ToSet(flight)
                       ELSE unacknowledged
  /\ UNCHANGED idempotent

(* flush_batch after a failed append: the batch goes back in front and the  *)
(* oldest rows beyond the cap are dropped.                                  *)
FlushFails(wrote) ==
  /\ loop \in {"flushing", "final"}
  /\ AppendFails(wrote)
  /\ batch' = EnforceRetryCap(flight \o batch)
  /\ capped' = capped \cup (ToSet(flight) \ ToSet(batch'))
  /\ flight' = <<>>
  /\ Resume
  /\ UNCHANGED <<produced, open, channel, seq, reader, admitted>>

Fresh == {copy \in stored : copy.row.seq > cursor}

(* The order of a query's answer: by sequence number, and copies of one     *)
(* row in the order they were written (the sort is stable).                 *)
Before(a, b) ==
  \/ a.row.seq < b.row.seq
  \/ /\ a.row.seq = b.row.seq
     /\ a.nth < b.nth

(* Mutant: the newest rows instead of the next ones.                        *)
NewestPage ==
  {a \in Fresh : Cardinality({b \in Fresh : Before(a, b)}) < PageSize}

(* query: what comes after the cursor, in order, at most a page.            *)
Page ==
  {a \in Fresh : Cardinality({b \in Fresh : Before(b, a)}) < PageSize}

Query ==
  /\ \E last \in Page :
       /\ \A copy \in Page : copy.row.seq <= last.row.seq
       /\ cursor' = last.row.seq
  /\ seen' = seen \cup {copy.row : copy \in Page}
  /\ UNCHANGED <<produced, open, channel, loopVars, admitted>>

Init ==
  /\ produced = 0 /\ open = TRUE /\ channel = <<>>
  /\ seq = 1 /\ batch = <<>> /\ flight = <<>> /\ loop = "select"
  /\ idempotent \in BOOLEAN
  /\ stored = {} /\ failures = 0
  /\ cursor = 0 /\ seen = {}
  /\ admitted = {} /\ capped = {} /\ unacknowledged = {}

LoopStep ==
  \/ Receive
  \/ Drained
  \/ FlushOk
  \/ \E wrote \in BOOLEAN : FlushFails(wrote)

Next == Ingest \/ CloseChannel \/ LoopStep \/ Tick \/ Query

Spec == Init /\ [][Next]_vars

(* The spawned task is scheduled, its interval fires, an append answers and *)
(* a store does not fail for ever (MaxFailures is finite).                  *)
FairSpec == Spec /\ WF_vars(LoopStep) /\ WF_vars(Tick)

(***************************************************************************)
(* Properties.                                                             *)
(***************************************************************************)
Rows == [id : 1 .. MaxEvents, seq : 1 .. MaxEvents]
Copies == [row : Rows, nth : Nat]

(* Types, and the memory bound: the rows held for a failing store are at    *)
(* most a batch, or the cap and the row that triggers the next attempt.     *)
TypeOK ==
  /\ produced \in 0 .. MaxEvents /\ open \in BOOLEAN
  /\ channel \in Seq(1 .. MaxEvents) /\ Len(channel) <= ChannelCapacity
  /\ seq \in 1 .. MaxEvents + 1
  /\ batch \in Seq(Rows) /\ flight \in Seq(Rows)
  /\ stored \subseteq Copies /\ idempotent \in BOOLEAN
  /\ loop \in {"select", "flushing", "final", "exited"}
  /\ Len(batch) + Len(flight) <= IF RetryCap < BatchSize THEN BatchSize ELSE RetryCap + 1

(* Sequence numbers follow the order of ingestion, whatever was retried.    *)
StoredInOrder ==
  \A r, s \in StoredRows : r.id < s.id <=> r.seq < s.seq

(* An event is stored once.  Only an append that wrote and then failed can  *)
(* have left a second copy behind, in a store that does not ignore the      *)
(* identities it has; the loop itself sends no row again after a success.   *)
StoredOnce ==
  \A a, b \in stored :
    a.row.id = b.row.id => a = b \/ (~idempotent /\ a.row \in unacknowledged)

(* The after_seq contract: a reader that pages with the last sequence       *)
(* number it saw has been given every row at or below its cursor; no retry  *)
(* makes a row it was not given appear behind it.                           *)
CursorMissesNothing ==
  \A row \in StoredRows : row.seq <= cursor => row \in seen

(* An admitted event is on its way, stored, or one of the oldest rows the   *)
(* cap dropped; only the exit of the loop leaves a batch unwritten.         *)
NothingLostSilently ==
  \A e \in admitted :
    \/ e \in ToSet(channel)
    \/ \E r \in ToSet(batch) \cup ToSet(flight) \cup StoredRows \cup capped : r.id = e

(* A transient failure of the store delays an event and does not lose it:   *)
(* what was admitted is stored, unless the cap or the final flush drops it. *)
EventuallyStored ==
  \A e \in 1 .. MaxEvents :
    e \in admitted ~>
      \/ \E r \in StoredRows \cup capped : r.id = e
      \/ loop = "exited"

(* The log is sound: what is held for a failing store stays within the cap, *)
(* what is stored is in order, a second copy of an event comes only from an *)
(* append that failed after it wrote, and every admitted event is accounted *)
(* for.                                                                     *)
LogSound == TypeOK /\ StoredInOrder /\ StoredOnce /\ NothingLostSilently
=============================================================================
