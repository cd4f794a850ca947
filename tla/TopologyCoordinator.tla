------------------------ MODULE TopologyCoordinator ------------------------
(***************************************************************************)
(* The bilateral topology coordinator: edges between the members of two    *)
(* authorities (mobs) of one process, changed under a write-ahead journal  *)
(* (topology_control/coordinator.rs), beside the authority-local           *)
(* controller whose own journal shares each authority's state file         *)
(* (topology_control.rs).                                                  *)
(*                                                                         *)
(* Every public call takes the coordinator lock and both authority locks,  *)
(* recovers, and then serves; `call` is the one call in progress and its   *)
(* step.  `mem` and `coord` are the states in memory, `disk` and `journal` *)
(* the files.  A file is written to a temporary name, renamed, and its     *)
(* directory synced, so a write that fails may or may not be in the file.  *)
(* The wiring of an edge is up (both halves route), down, or half; the     *)
(* lifecycle of its members and the public wire and unwire calls change it *)
(* without the coordinator.                                                *)
(***************************************************************************)
EXTENDS Naturals, Sequences, FiniteSets

CONSTANTS
  None,            \* no pending operation, no call
  First, Second,   \* the two authorities, in their canonical order
  Edges,           \* the cross-authority edges
  Keys,            \* idempotency keys
  Faults,          \* which failures happen, see FaultKinds
  ReceiptLimit,    \* receipts the journal retains
  HistoryLimit,    \* keys of evicted receipts it remembers
  MaxRevision,     \* bound: no operation starts at this revision
  MaxCrashes,      \* bound: process restarts
  MaxRewires       \* bound: changes of the wiring behind the coordinator

(* A file write fails, an actuator fails, a caller drops its call; and the *)
(* recovery of an interrupted local operation is left until after that of  *)
(* a bilateral one that was pending all along.                             *)
FaultKinds == {"persist", "actuate", "abort", "overlap"}

ASSUME CoordinatorAssumption ==
  /\ First # Second
  /\ Faults \subseteq FaultKinds
  /\ ReceiptLimit \in Nat \ {0}
  /\ HistoryLimit \in Nat
  /\ MaxRevision \in Nat
  /\ MaxCrashes \in Nat
  /\ MaxRewires \in Nat

VARIABLES
  mem,         \* each authority's intent state in memory
  disk,        \* and in its file
  local,       \* is an authority-local apply running
  coord,       \* the coordinator's journal in memory
  journal,     \* and in its file
  wiring,      \* the physical edges
  reconciled,  \* pair_reconciled
  refused,     \* last_clean_reconcile_error is set
  call,        \* the public call in progress
  commits,     \* how often an operation of each key was decided committed
  crashes,     \* restarts so far
  rewires,     \* changes behind the coordinator so far
  stray        \* history: the edges rewired behind the coordinator since it
               \* last wired them to an intent that stands

vars == <<mem, disk, local, coord, journal, wiring, reconciled, refused,
          call, commits, crashes, rewires, stray>>
outside == <<rewires, stray>>
authorities == <<mem, disk, local>>
flags == <<reconciled, refused>>

Authorities == {First, Second}
Actions == {"connect", "disconnect", "reconnect"}
(* The operations of a request: at most one for an edge.  They are applied *)
(* in the order the caller lists them, which may be any.                   *)
Batches == UNION {[batch -> Actions] : batch \in (SUBSET Edges) \ {{}}}

NoIntent == [e \in Edges |-> "none"]
(* The intent an operation leaves for its edge, and its wiring. *)
Desired(action) == IF action = "disconnect" THEN "suppressed" ELSE "added"
Wired(action) == IF action = "disconnect" THEN "down" ELSE "up"

Init ==
  /\ mem = [a \in Authorities |->
              [intent |-> NoIntent, revision |-> 0, pending |-> None]]
  /\ disk = mem
  /\ local = [a \in Authorities |-> FALSE]
  /\ coord = [pending |-> None, receipts |-> <<>>, compacted |-> <<>>]
  /\ journal = coord
  /\ wiring = [e \in Edges |-> "down"]
  /\ reconciled = FALSE
  /\ refused = FALSE
  /\ call = None
  /\ commits = [k \in Keys |-> 0]
  /\ crashes = 0
  /\ rewires = 0 /\ stray = {}

(***************************************************************************)
(* Writing the files.  A failed write leaves memory alone and the file     *)
(* either as it was or with the new contents.                              *)
(***************************************************************************)
SaveJournal(next) == journal' = next /\ coord' = next
SaveJournalFails(next) ==
  /\ "persist" \in Faults
  /\ journal' \in {journal, next}
  /\ UNCHANGED coord

SaveAuthority(a, next) ==
  /\ disk' = [disk EXCEPT ![a] = next]
  /\ mem' = [mem EXCEPT ![a] = next]

(***************************************************************************)
(* The authority-local controller.  Its apply journals the target intent   *)
(* together with a copy of the whole previous one, acts on local edges,    *)
(* and commits or rolls back; none of it is about cross edges, but the     *)
(* copy holds their intent.                                                *)
(***************************************************************************)
Unlocked(a) == call = None /\ ~local[a]

Begun(s) ==
  [s EXCEPT !.revision = @ + 1,
            !.pending = [phase |-> "applying", intent |-> s.intent,
                         revision |-> s.revision]]

LocalBegin(a) ==
  /\ Unlocked(a)
  /\ mem[a].pending = None
  /\ mem[a].revision < MaxRevision
  /\ SaveAuthority(a, Begun(mem[a]))
  /\ local' = [local EXCEPT ![a] = TRUE]
  /\ UNCHANGED <<coord, journal, wiring, flags, call, commits, crashes, outside>>

LocalBeginFails(a) ==
  /\ "persist" \in Faults
  /\ Unlocked(a)
  /\ mem[a].pending = None
  /\ mem[a].revision < MaxRevision
  /\ disk' = [disk EXCEPT ![a] = Begun(mem[a])]
  /\ UNCHANGED <<mem, local, coord, journal, wiring, flags, call, commits, crashes, outside>>

(* The apply ends: committed, rolled back, or rolled back with failures,   *)
(* which keeps the journal entry.                                          *)
LocalEnd(a) ==
  LET s == mem[a]
      back == [s EXCEPT !.intent = s.pending.intent, !.revision = s.pending.revision]
  IN  /\ local[a]
      /\ \/ SaveAuthority(a, [s EXCEPT !.pending = None])
         \/ SaveAuthority(a, [back EXCEPT !.pending = None])
         \/ SaveAuthority(a, [back EXCEPT !.pending.phase = "rolling_back"])
      /\ local' = [local EXCEPT ![a] = FALSE]
      /\ UNCHANGED <<coord, journal, wiring, flags, call, commits, crashes, outside>>

(* The caller drops the apply, or its last write fails: the entry stays in *)
(* the applying phase in a live process.                                   *)
LocalInterrupted(a) ==
  /\ "abort" \in Faults
  /\ coord.pending = None \/ "overlap" \in Faults
  /\ local[a]
  /\ local' = [local EXCEPT ![a] = FALSE]
  /\ disk' \in {disk, [disk EXCEPT ![a].pending = None]}
  /\ UNCHANGED <<mem, coord, journal, wiring, flags, call, commits, crashes, outside>>

(* prepare_pending_recovery restores the copy once; after the reconcile    *)
(* that follows, finalize_recovered_pending closes the entry or keeps it.  *)
Prepared(s) ==
  IF s.pending.phase = "applying"
  THEN [s EXCEPT !.intent = s.pending.intent, !.revision = s.pending.revision,
                 !.pending.phase = "rolling_back"]
  ELSE s
Recovered(s) ==
  IF s.pending = None
  THEN {s}
  ELSE {[Prepared(s) EXCEPT !.pending = None], Prepared(s)}

(* Either of the two writes may fail. *)
RecoverFails(a) ==
  /\ "persist" \in Faults
  /\ \/ UNCHANGED mem /\ disk' = [disk EXCEPT ![a] = Prepared(mem[a])]
     \/ /\ mem' = [mem EXCEPT ![a] = Prepared(mem[a])]
        /\ \E s \in Recovered(mem[a]) : disk' = [disk EXCEPT ![a] = s]

LocalRecover(a) ==
  /\ Unlocked(a)
  /\ mem[a].pending # None
  /\ \/ \E s \in Recovered(mem[a]) : SaveAuthority(a, s)
     \/ RecoverFails(a)
  /\ UNCHANGED <<local, coord, journal, wiring, flags, call, commits, crashes, outside>>

(***************************************************************************)
(* A call of the coordinator.                                              *)
(***************************************************************************)
NewCall(kind, key, ops) ==
  [kind |-> kind, key |-> key, ops |-> ops, phase |-> "recovery",
   step |-> "recover", todo |-> {}, failed |-> FALSE,
   target |-> None, status |-> None]

At(step) == call # None /\ call.step = step
Goto(step) == call' = [call EXCEPT !.step = step]
(* An error of recover_locked leaves at once; an apply that has recorded   *)
(* its attempt still writes the outcome of the attempt.                    *)
Leave ==
  call' = IF call.kind = "apply" /\ call.phase = "service"
          THEN [call EXCEPT !.step = "audit", !.todo = {}, !.target = None,
                            !.status = None, !.failed = FALSE]
          ELSE None

StartCall(kind, key, ops) ==
  /\ call = None
  /\ \A a \in Authorities : ~local[a]
  /\ call' = NewCall(kind, key, ops)
  /\ reconciled' = (kind # "recover" /\ reconciled)
  /\ UNCHANGED <<authorities, coord, journal, wiring, refused, commits, crashes, outside>>

Query == StartCall("query", None, None)
Recover == StartCall("recover", None, None)
Operation == StartCall("operation", None, None)
Apply == \E key \in Keys, ops \in Batches : StartCall("apply", key, ops)

Service == [call EXCEPT !.phase = "service", !.step = "serve", !.todo = {},
                        !.failed = FALSE, !.target = None, !.status = None]

Diverged == mem[First].intent # mem[Second].intent

(* recover_locked without a pending operation. *)
RecoverClean ==
  /\ At("recover")
  /\ coord.pending = None
  /\ reconciled \/ Diverged
  /\ refused' = IF reconciled THEN refused ELSE TRUE
  /\ call' = Service
  /\ UNCHANGED <<authorities, coord, journal, wiring, reconciled, commits, crashes, outside>>

ReconcileStart ==
  /\ At("recover")
  /\ coord.pending = None
  /\ ~reconciled /\ ~Diverged
  /\ call' = [call EXCEPT !.step = "reconcile",
                          !.todo = {e \in Edges : mem[First].intent[e] # "none"}]
  /\ UNCHANGED <<authorities, coord, journal, wiring, flags, commits, crashes, outside>>

ReconcileDone ==
  /\ At("reconcile")
  /\ call.todo = {}
  /\ reconciled' = TRUE
  /\ refused' = FALSE
  /\ call' = Service
  /\ UNCHANGED <<authorities, coord, journal, wiring, commits, crashes, outside>>

(* recover_locked with one: an undecided operation is rolled back, and the *)
(* journal says so before the wiring is touched.                           *)
RollingBack(c) == [c EXCEPT !.pending.decision = "rolling_back"]
ResumedAlways(c) == RollingBack(c)
Resumed(c) == IF c.pending.decision = "applying" THEN RollingBack(c) ELSE c

RecoverPending ==
  /\ At("recover")
  /\ coord.pending # None
  /\ reconciled' = FALSE
  /\ IF Resumed(coord) # coord
     THEN SaveJournal(Resumed(coord))
     ELSE UNCHANGED <<coord, journal>>
  /\ call' = [call EXCEPT !.step = "repair", !.todo = DOMAIN coord.pending.ops]
  /\ UNCHANGED <<authorities, wiring, refused, commits, crashes, outside>>

RecoverPendingFails ==
  /\ At("recover")
  /\ coord.pending # None
  /\ Resumed(coord) # coord
  /\ SaveJournalFails(Resumed(coord))
  /\ reconciled' = FALSE
  /\ call' = None
  /\ UNCHANGED <<authorities, wiring, refused, commits, crashes, outside>>

(***************************************************************************)
(* Acting on the wiring.                                                   *)
(***************************************************************************)
(* An edge that had only one half is not restored but removed. *)
RestoringNothing(p, e) == "disconnect"
Restoring(p, e) == IF e \in p.wired THEN "connect" ELSE "disconnect"
Forward(p, e) == p.ops[e]
Wanted(e) ==
  IF call.step = "reconcile"
  THEN IF mem[First].intent[e] = "added" THEN "connect" ELSE "disconnect"
  ELSE IF coord.pending.decision = "rolling_back"
       THEN Restoring(coord.pending, e)
       ELSE Forward(coord.pending, e)

(* What a failed wire or unwire leaves: its own rollback restored the      *)
(* edge, or left one half, or the failure came after the last change; a    *)
(* reconnect may end with its first half done.  An unwire finds nothing to *)
(* change on an edge that is down.                                         *)
Broken(e) ==
  IF wiring[e] = "down" /\ Wanted(e) = "disconnect"
  THEN {"down"}
  ELSE {wiring[e], "half", Wired(Wanted(e))}
       \cup IF Wanted(e) = "reconnect" THEN {"down"} ELSE {}

Acting == call # None /\ call.step \in {"reconcile", "repair", "actuate", "rollback"}

(* No operation, in memory or in the file, may still be rolled back, which *)
(* puts back the wiring the operation found, astray or not.                *)
Stands ==
  \A j \in {coord, journal} :
    j.pending # None => j.pending.decision = "committed"

Actuate(e) ==
  /\ Acting
  /\ e \in call.todo
  /\ wiring' = [wiring EXCEPT ![e] = Wired(Wanted(e))]
  /\ stray' = IF Stands THEN stray \ {e} ELSE stray
  /\ call' = [call EXCEPT !.todo = @ \ {e}]
  /\ UNCHANGED <<authorities, coord, journal, flags, commits, crashes, rewires>>

(* A member is retired, reset or respawned, or a client calls              *)
(* wire_cross_mob or unwire_cross_mob: no lock of the coordinator is       *)
(* taken, and pair_reconciled stays as it is.                              *)
Rewire(e) ==
  /\ rewires < MaxRewires
  /\ rewires' = rewires + 1
  /\ \E w \in {"up", "half", "down"} \ {wiring[e]} :
       wiring' = [wiring EXCEPT ![e] = w]
  /\ stray' = stray \cup {e}
  /\ UNCHANGED <<authorities, coord, journal, flags, call, commits, crashes>>

(* A failure ends the reconcile and turns an apply to its rollback; a      *)
(* recovery and a rollback go through the other edges first.               *)
ActuateFails(e) ==
  /\ "actuate" \in Faults
  /\ Acting
  /\ e \in call.todo
  /\ \E w \in Broken(e) : wiring' = [wiring EXCEPT ![e] = w]
  /\ CASE call.step = "reconcile" ->
            call' = Service /\ reconciled' = FALSE /\ refused' = TRUE
       [] call.step = "actuate" ->
            call' = [call EXCEPT !.step = "abandon", !.todo = {}] /\ UNCHANGED flags
       [] OTHER ->
            call' = [call EXCEPT !.todo = @ \ {e}, !.failed = TRUE] /\ UNCHANGED flags
  /\ UNCHANGED <<authorities, coord, journal, commits, crashes, outside>>

(***************************************************************************)
(* Closing an operation: commit_terminal_receipt.                          *)
(***************************************************************************)
Close(target, status) ==
  call' = [call EXCEPT !.step = "persist", !.todo = Authorities,
                       !.target = target, !.status = status]

(* The authority's state after a pending operation is committed, for the   *)
(* states of apply_locked, under the locks of the same call.               *)
After(s, ops, changed) ==
  [s EXCEPT !.intent = [e \in Edges |-> IF e \in DOMAIN ops THEN Desired(ops[e])
                                         ELSE s.intent[e]],
            !.revision = IF changed THEN @ + 1 ELSE @]

(* merge_pending_intent: the recovery's version, on a state that may have  *)
(* moved since the journal was written.                                    *)
MergedIntentBefore(s, p, a) ==
  [e \in Edges |-> IF e \in DOMAIN p.ops THEN p.before[a][e] ELSE s.intent[e]]
MergedIntent(s, p, a) ==
  [e \in Edges |->
     IF e \notin DOMAIN p.ops THEN s.intent[e]
     ELSE IF p.decision = "committed" THEN Desired(p.ops[e])
     ELSE p.before[a][e]]
MergedNever(s, p, a) == s
Merged(s, p, a) ==
  [s EXCEPT !.intent = MergedIntent(s, p, a),
            !.revision = IF s.revision = p.revision[a]
                         THEN IF p.decision = "committed" THEN @ + 1 ELSE @
                         ELSE IF MergedIntent(s, p, a) # s.intent THEN @ + 1
                         ELSE @]

RepairDone ==
  LET p == coord.pending
  IN  /\ At("repair")
      /\ call.todo = {}
      /\ ~call.failed
      /\ Close([a \in Authorities |-> Merged(mem[a], p, a)],
               IF p.decision = "committed" THEN "applied" ELSE "rolled_back")
      /\ UNCHANGED <<authorities, coord, journal, wiring, flags, commits, crashes, outside>>

(* Failures keep the journal entry, so that the next call tries again. *)
KeepPending ==
  /\ call # None
  /\ call.step \in {"repair", "rollback"}
  /\ call.todo = {}
  /\ call.failed
  /\ \/ journal' = coord
     \/ "persist" \in Faults /\ UNCHANGED journal
  /\ Leave
  /\ UNCHANGED <<authorities, coord, wiring, flags, commits, crashes, outside>>

RollbackStart ==
  /\ At("abandon")
  /\ \/ /\ SaveJournal(RollingBack(coord))
        /\ call' = [call EXCEPT !.step = "rollback", !.todo = DOMAIN call.ops]
     \/ SaveJournalFails(RollingBack(coord)) /\ Leave
  /\ UNCHANGED <<authorities, wiring, flags, commits, crashes, outside>>

RollbackDone ==
  /\ At("rollback")
  /\ call.todo = {}
  /\ ~call.failed
  /\ Close(mem, "rolled_back")
  /\ UNCHANGED <<authorities, coord, journal, wiring, flags, commits, crashes, outside>>

(* The decision is durable before either authority's file changes. *)
Commit ==
  LET decided == [coord EXCEPT !.pending.decision = "committed"]
  IN  /\ At("actuate")
      /\ call.todo = {}
      /\ \/ /\ SaveJournal(decided)
            /\ Close([a \in Authorities |-> After(mem[a], call.ops, TRUE)], "applied")
            /\ commits' = [commits EXCEPT ![call.key] = @ + 1]
         \/ SaveJournalFails(decided) /\ Leave /\ UNCHANGED commits
      /\ UNCHANGED <<authorities, wiring, flags, crashes, outside>>

Turn == IF First \in call.todo THEN First ELSE Second

PersistAuthority ==
  /\ At("persist")
  /\ disk' = [disk EXCEPT ![Turn] = call.target[Turn]]
  /\ call' = IF Turn = First
             THEN [call EXCEPT !.todo = {Second}]
             ELSE [call EXCEPT !.step = "publish", !.todo = Authorities]
  /\ UNCHANGED <<mem, local, coord, journal, wiring, flags, commits, crashes, outside>>

PersistAuthorityFails ==
  /\ "persist" \in Faults
  /\ At("persist")
  /\ disk' \in {disk, [disk EXCEPT ![Turn] = call.target[Turn]]}
  /\ Leave
  /\ UNCHANGED <<mem, local, coord, journal, wiring, flags, commits, crashes, outside>>

Publish ==
  /\ At("publish")
  /\ mem' = [mem EXCEPT ![Turn] = call.target[Turn]]
  /\ call' = IF Turn = First
             THEN [call EXCEPT !.todo = {Second}]
             ELSE [call EXCEPT !.step = "terminal", !.todo = {}]
  /\ UNCHANGED <<disk, local, coord, journal, wiring, flags, commits, crashes, outside>>

(* The last n elements. *)
LastOf(s, n) == SubSeq(s, Len(s) - n + 1, Len(s))
Bounded(s, n) == IF Len(s) > n THEN LastOf(s, n) ELSE s
KeysOf(receipts) == [i \in 1..Len(receipts) |-> receipts[i].key]

TerminalForgets(receipt) ==
  [pending |-> None,
   receipts |-> Bounded(Append(coord.receipts, receipt), ReceiptLimit),
   compacted |-> coord.compacted]
Terminal(receipt) ==
  LET all == Append(coord.receipts, receipt)
      kept == Bounded(all, ReceiptLimit)
      evicted == KeysOf(SubSeq(all, 1, Len(all) - Len(kept)))
  IN  [pending |-> None,
       receipts |-> kept,
       compacted |-> Bounded(coord.compacted \o evicted, HistoryLimit)]

(* The receipt of a recovery names the journalled operation. *)
Receipt ==
  IF call.phase = "recovery"
  THEN [key |-> coord.pending.key, ops |-> coord.pending.ops, status |-> call.status]
  ELSE [key |-> call.key, ops |-> call.ops, status |-> call.status]

TerminalReceipt ==
  /\ At("terminal")
  /\ \/ /\ SaveJournal(Terminal(Receipt))
        /\ IF call.phase = "recovery"
           THEN call' = Service /\ reconciled' = TRUE /\ refused' = FALSE
           ELSE Leave /\ UNCHANGED flags
     \/ SaveJournalFails(Terminal(Receipt)) /\ Leave /\ UNCHANGED flags
  /\ UNCHANGED <<authorities, wiring, commits, crashes, outside>>

(***************************************************************************)
(* Serving the call.                                                       *)
(***************************************************************************)
Known(key) ==
  \/ \E i \in 1..Len(coord.receipts) : coord.receipts[i].key = key
  \/ \E i \in 1..Len(coord.compacted) : coord.compacted[i] = key

(* An apply records its attempt; with an unreconciled pair it is refused,  *)
(* and a known key is answered from its receipt or refused.                *)
Serve ==
  /\ At("serve")
  /\ CASE call.kind \in {"recover", "operation"} -> Leave /\ UNCHANGED journal
       [] call.kind = "query" -> Goto("locals") /\ UNCHANGED journal
       [] call.kind = "apply" ->
            \/ /\ journal' = coord
               /\ IF refused \/ Known(call.key) THEN Leave ELSE Goto("locals")
            \/ /\ "persist" \in Faults
               /\ call' = None
               /\ UNCHANGED journal
  /\ UNCHANGED <<authorities, coord, wiring, flags, commits, crashes, outside>>

(* query_locked recovers an interrupted local operation of each authority. *)
ServeLocals ==
  /\ At("locals")
  /\ \A a \in Authorities : mem[a].pending = None
  /\ IF call.kind = "apply" THEN Goto("admit") ELSE Leave
  /\ UNCHANGED <<authorities, coord, journal, wiring, flags, commits, crashes, outside>>

ServeLocalRecover(a) ==
  /\ At("locals")
  /\ mem[a].pending # None
  /\ \/ \E s \in Recovered(mem[a]) :
          /\ SaveAuthority(a, s)
          /\ IF s.pending = None THEN UNCHANGED call ELSE Leave
     \/ RecoverFails(a) /\ Leave
  /\ UNCHANGED <<local, coord, journal, wiring, flags, commits, crashes, outside>>

(* The snapshot is the union of both authorities' views. *)
Suppressed(e) == \E a \in Authorities : mem[a].intent[e] = "suppressed"
DesiredNow(e) == \E a \in Authorities : mem[a].intent[e] = "added"
Historical(e) == \E a \in Authorities : mem[a].intent[e] # "none"

Admissible(ops) ==
  \A e \in DOMAIN ops :
    IF ops[e] = "connect"
    THEN ~Suppressed(e) /\ ~(DesiredNow(e) /\ wiring[e] # "up")
    ELSE Historical(e)

Changed(ops) ==
  \/ \E a \in Authorities : After(mem[a], ops, FALSE) # mem[a]
  \/ \E e \in DOMAIN ops :
       \/ ops[e] = "reconnect"
       \/ (Historical(e) /\ wiring[e] = "up") # (Desired(ops[e]) = "added")

PendingOperation ==
  [key |-> call.key, ops |-> call.ops, decision |-> "applying",
   before |-> [a \in Authorities |-> mem[a].intent],
   revision |-> [a \in Authorities |-> mem[a].revision],
   wired |-> {e \in DOMAIN call.ops : wiring[e] = "up"}]

(* The request named both current revisions, and its operations are legal. *)
Admit ==
  /\ At("admit")
  /\ Admissible(call.ops)
  /\ \A a \in Authorities : mem[a].revision < MaxRevision
  /\ IF Changed(call.ops)
     THEN LET next == [coord EXCEPT !.pending = PendingOperation]
          IN  \/ /\ SaveJournal(next)
                 /\ call' = [call EXCEPT !.step = "actuate", !.todo = DOMAIN call.ops]
              \/ SaveJournalFails(next) /\ Leave
     ELSE Close(mem, "noop") /\ UNCHANGED <<coord, journal>>
  /\ UNCHANGED <<authorities, wiring, flags, commits, crashes, outside>>

(* Another revision, an unknown target, a missing grant: nothing changes. *)
Refuse ==
  /\ At("admit")
  /\ Leave
  /\ UNCHANGED <<authorities, coord, journal, wiring, flags, commits, crashes, outside>>

Audit ==
  /\ At("audit")
  /\ \/ journal' = coord
     \/ "persist" \in Faults /\ UNCHANGED journal
  /\ call' = None
  /\ UNCHANGED <<authorities, coord, wiring, flags, commits, crashes, outside>>

(* The caller drops the call at one of its awaits, which frees the locks. *)
Abort ==
  /\ "abort" \in Faults
  /\ call # None
  /\ call' = None
  /\ UNCHANGED <<authorities, coord, journal, wiring, flags, commits, crashes, outside>>

(* The process dies and starts again: both authorities load their file and *)
(* recover their local journal, the coordinator loads its own.  Aliases    *)
(* between the in-process namespaces are gone.  The first write of the     *)
(* local recovery may fail, which the start-up only logs.  A decision that *)
(* reached the file although its write was reported failed counts now.     *)
Loaded(s) ==
  Recovered(s) \cup
  IF "persist" \in Faults /\ (journal.pending = None \/ "overlap" \in Faults)
  THEN {s} ELSE {}

Decided(j) == j.pending # None /\ j.pending.decision = "committed"

Restart ==
  /\ crashes < MaxCrashes
  /\ crashes' = crashes + 1
  /\ \E s \in Loaded(disk[First]), t \in Loaded(disk[Second]) :
        /\ disk' = [a \in Authorities |-> IF a = First THEN s ELSE t]
        /\ mem' = disk'
  /\ local' = [a \in Authorities |-> FALSE]
  /\ coord' = journal
  /\ wiring' = [e \in Edges |-> IF wiring[e] = "up" THEN "half" ELSE wiring[e]]
  /\ reconciled' = FALSE
  /\ refused' = FALSE
  /\ call' = None
  /\ commits' = IF Decided(journal) /\ ~Decided(coord)
                THEN [commits EXCEPT ![journal.pending.key] = @ + 1]
                ELSE commits
  /\ UNCHANGED <<journal, outside>>

CallStep ==
  \/ RecoverClean \/ ReconcileStart \/ ReconcileDone
  \/ RecoverPending \/ RecoverPendingFails
  \/ RepairDone \/ KeepPending \/ RollbackStart \/ RollbackDone \/ Commit
  \/ PersistAuthority \/ PersistAuthorityFails \/ Publish \/ TerminalReceipt
  \/ Serve \/ ServeLocals \/ Admit \/ Refuse \/ Audit
  \/ \E a \in Authorities : ServeLocalRecover(a)
  \/ \E e \in Edges : Actuate(e) \/ ActuateFails(e)

Next ==
  \/ Query \/ Recover \/ Operation \/ Apply \/ CallStep \/ Abort \/ Restart
  \/ \E a \in Authorities :
       LocalBegin(a) \/ LocalBeginFails(a) \/ LocalEnd(a) \/ LocalInterrupted(a)
       \/ LocalRecover(a)
  \/ \E e \in Edges : Rewire(e)

Spec == Init /\ [][Next]_vars

(***************************************************************************)
(* Properties.                                                             *)
(***************************************************************************)
Intents == [Edges -> {"none", "added", "suppressed"}]

LocalEntries ==
  [phase : {"applying", "rolling_back"}, intent : Intents, revision : Nat]

AuthorityStates ==
  [intent : Intents, revision : Nat, pending : {None} \cup LocalEntries]

PendingOperations ==
  [key : Keys, ops : Batches,
   decision : {"applying", "rolling_back", "committed"},
   before : [Authorities -> Intents], revision : [Authorities -> Nat],
   wired : SUBSET Edges]

Receipts ==
  [key : Keys, ops : Batches, status : {"applied", "rolled_back", "noop"}]

Journals ==
  [pending : {None} \cup PendingOperations, receipts : Seq(Receipts),
   compacted : Seq(Keys)]

ASSUME NoneAssumption == None \notin PendingOperations /\ None \notin LocalEntries

TypeOK ==
  /\ mem \in [Authorities -> AuthorityStates]
  /\ disk \in [Authorities -> AuthorityStates]
  /\ local \in [Authorities -> BOOLEAN]
  /\ \A j \in {coord, journal} :
       /\ j \in Journals
       /\ Len(j.receipts) <= ReceiptLimit
       /\ Len(j.compacted) <= HistoryLimit
  /\ wiring \in [Edges -> {"up", "down", "half"}]
  /\ reconciled \in BOOLEAN /\ refused \in BOOLEAN
  /\ commits \in [Keys -> Nat] /\ crashes \in 0..MaxCrashes
  /\ rewires \in 0..MaxRewires /\ stray \subseteq Edges

(* The coordinator is at rest: no call, and no operation in its journal. *)
AtRest == call = None /\ coord.pending = None /\ journal.pending = None

(* At rest the two authorities' files hold the same cross intent, whatever *)
(* crashed, failed or was dropped on the way: recovery never meets the     *)
(* divergence that reconcile_committed_pair_intent_locked refuses to guess *)
(* about, after which no apply is accepted any more.                       *)
PairAgrees == AtRest => disk[First].intent = disk[Second].intent

(* Receipt i changed the intent of edge e. *)
Effective(i, e) ==
  /\ journal.receipts[i].status # "rolled_back"
  /\ e \in DOMAIN journal.receipts[i].ops

(* What an applied receipt says is durable: at rest, the newest receipt    *)
(* that changed an edge, if it is still retained, is the intent both files *)
(* hold for it.  Rolled-back operations leave no trace.                    *)
ReceiptsHold ==
  AtRest =>
    \A i \in 1..Len(journal.receipts), e \in Edges :
      /\ Effective(i, e)
      /\ \A j \in (i + 1)..Len(journal.receipts) : ~Effective(j, e)
      => \A a \in Authorities :
           disk[a].intent[e] = Desired(journal.receipts[i].ops[e])

(* An idempotency key is decided committed at most once, through crashes,  *)
(* retries and the eviction of its receipt into the compacted history.     *)
OncePerKey == \A k \in Keys : commits[k] <= 1

(* A pair the coordinator believes reconciled routes what it intends,      *)
(* except for the edges rewired behind it, which pair_reconciled does not  *)
(* tell: with no operation pending, an added edge is up on both halves, a  *)
(* suppressed one is down, and an edge without intent does not route.  A   *)
(* reconcile or a committed recovery that wires a stray edge brings it     *)
(* back.                                                                   *)
RoutesIntent ==
  call = None /\ coord.pending = None /\ reconciled /\ ~Diverged
    => \A e \in Edges \ stray :
         CASE mem[First].intent[e] = "added" -> wiring[e] = "up"
           [] mem[First].intent[e] = "suppressed" -> wiring[e] = "down"
           [] OTHER -> wiring[e] # "up"

Settled(j, p) ==
  \E i \in 1..Len(j.receipts) :
    j.receipts[i] = [key |-> p.key, ops |-> p.ops, status |-> "applied"]

(* "A fsynced Committed decision is irrevocable": once the coordinator     *)
(* holds the decision, the operation stays pending and committed until its *)
(* receipt says applied, over restarts and failed recoveries too.          *)
DecisionIrrevocable ==
  [][coord.pending # None /\ coord.pending.decision = "committed"
       => coord'.pending = coord.pending \/ Settled(coord', coord.pending)]_vars

(* The journal is well formed and within its limits, and its receipts tell *)
(* what both authorities' files hold.                                      *)
JournalSound == TypeOK /\ ReceiptsHold
=============================================================================
