-------------------------- MODULE SessionDocuments --------------------------
(***************************************************************************)
(* What the continuity store promises the gateway, with no trace of how it *)
(* lays documents out: ONE table of session documents, each with an owner, *)
(* and one record per identity that fences the writers of its documents.   *)
(*                                                                         *)
(* ContinuityStore keeps every document in up to two tables (a legacy      *)
(* whole-document row and a head-canonical row) and moves it from one to   *)
(* the other in the middle of unrelated writes.  That it implements this   *)
(* module says that nobody can tell.                                       *)
(***************************************************************************)
EXTENDS Integers

CONSTANTS Identities, Sessions, Docs, OpaqueDocs,
          MaxGeneration, MaxVersion, MaxToken, NoRow

VARIABLES
  records,   \* the continuity record of each identity, or NoRow
  docs       \* per session: its owner, generation and document, or NoRow

vars == <<records, docs>>

Generations == 0..MaxGeneration
Versions == 0..MaxVersion
Tokens == 0..MaxToken
AnyDoc == Docs \cup OpaqueDocs

Record == [session : Sessions, generation : Generations,
           version : Versions, token : Tokens]
Cursor == [identity : Identities, session : Sessions,
           generation : Generations, version : Versions, token : Tokens]

\* A cursor is admitted by the record it was handed out under and by the
\* owner of the document it is about to replace.
Admitted(c) ==
  /\ records[c.identity] # NoRow =>
       /\ records[c.identity].session = c.session
       /\ records[c.identity].generation = c.generation
       /\ c.token >= records[c.identity].token
       /\ c.version > records[c.identity].version
  /\ docs[c.session] # NoRow =>
       /\ docs[c.session].identity = c.identity
       /\ docs[c.session].generation = c.generation

Advance(c) ==
  records' = [records EXCEPT ![c.identity] =
                IF @ = NoRow THEN NoRow
                ELSE [@ EXCEPT !.version = c.version, !.token = c.token]]

-----------------------------------------------------------------------------
Init ==
  /\ records = [i \in Identities |-> NoRow]
  /\ docs = [s \in Sessions |-> NoRow]

\* An accepted write replaces the whole document.
Write(c, d) ==
  /\ Admitted(c)
  /\ Advance(c)
  /\ docs' = [docs EXCEPT ![c.session] =
                [identity |-> c.identity, generation |-> c.generation, doc |-> d]]

\* A write beside the document: only the cursor moves.
Touch(c) ==
  /\ Admitted(c)
  /\ Advance(c)
  /\ UNCHANGED docs

\* Bind an identity to a session; neither fence nor generation goes back, and
\* within a generation neither does the version.
Bind(i, s, g, v, t) ==
  /\ records[i] # NoRow =>
       /\ t >= records[i].token
       /\ g >= records[i].generation
       /\ g = records[i].generation => v >= records[i].version
  /\ records' = [records EXCEPT ![i] = [session |-> s, generation |-> g,
                                        version |-> v, token |-> t]]
  /\ UNCHANGED docs

\* Undo one attempt: exactly the documents of that generation disappear.
Abandon(i, g, previous) ==
  /\ records[i] # NoRow
  /\ records[i].generation = g
  /\ records' = [records EXCEPT ![i] =
       IF previous = NoRow THEN NoRow
       ELSE [previous EXCEPT !.token = records[i].token]]
  /\ docs' = [s \in Sessions |->
       IF docs[s] # NoRow /\ docs[s].identity = i /\ docs[s].generation = g
       THEN NoRow ELSE docs[s]]

\* Forget an identity and everything it owns.
Forget(i, t) ==
  /\ records[i] # NoRow => t >= records[i].token
  /\ records' = [records EXCEPT ![i] = NoRow]
  /\ docs' = [s \in Sessions |->
       IF docs[s] # NoRow /\ docs[s].identity = i THEN NoRow ELSE docs[s]]

\* Compare-and-delete of one document.
DropIfCurrent(s, d) ==
  /\ docs[s] # NoRow
  /\ docs[s].doc = d
  /\ docs' = [docs EXCEPT ![s] = NoRow]
  /\ UNCHANGED records

Next ==
  \/ \E c \in Cursor : Touch(c) \/ (\E d \in AnyDoc : Write(c, d))
  \/ \E i \in Identities, s \in Sessions, g \in Generations,
        v \in Versions, t \in Tokens : Bind(i, s, g, v, t)
  \/ \E i \in Identities, g \in Generations :
       \E p \in Record \cup {NoRow} : Abandon(i, g, p)
  \/ \E i \in Identities, t \in Tokens : Forget(i, t)
  \/ \E s \in Sessions, d \in Docs : DropIfCurrent(s, d)

Spec == Init /\ [][Next]_vars
=============================================================================
