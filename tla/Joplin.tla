------------------------------- MODULE Joplin -------------------------------
(***************************************************************************)
(* The Joplin Data API as the indexer sees it.  Joplin is not part of the  *)
(* repository: everything here is modelled from how joplin_client.py and   *)
(* services.py use it, and from the fake the tests run against             *)
(* (tests/_fake_joplin.py).                                                *)
(*                                                                         *)
(* The library holds notes (an opaque body each), folders, tags and        *)
(* resources (only whether they exist), the tag membership of notes, and   *)
(* the append-only event log.  /notes is listed by updated_time ascending, *)
(* in pages addressed by offset, so a note's place in that order is part   *)
(* of the state: an edit moves the note to the end and everything behind   *)
(* its old place one step forward.                                         *)
(***************************************************************************)
EXTENDS Integers, Sequences, FiniteSets

CONSTANTS
  NoteIds, Folders, Tags, Resources,
  Bodies,       (* note bodies                                             *)
  NoBody,       (* not a body: "no such note", "no such row"               *)
  PageLimit,    (* joplin.page_limit: items per page                       *)
  BatchLimit,   (* MAX_EVENTS_PER_TICK: events per poll                    *)
  Backfill,     (* /events without a cursor: the whole log (TRUE, the      *)
                (* tests' fake) or only "from now on" (FALSE, README.md:75)*)
  Restorable,   (* may a deleted note come back under its id?              *)
  MaxNotes,     (* bound: notes in the library                             *)
  MaxEvents     (* bound: changes made to the library                      *)

Items == Folders \cup Tags \cup Resources

ASSUME JoplinAssumption ==
  /\ NoBody \notin Bodies
  /\ IsFiniteSet(NoteIds)
  /\ NoteIds \cap Items = {}
  /\ Folders \cap Tags = {} /\ Folders \cap Resources = {} /\ Tags \cap Resources = {}
  /\ PageLimit \in Nat \ {0}
  /\ BatchLimit \in Nat \ {0}
  /\ MaxNotes \in Nat
  /\ MaxEvents \in Nat
  /\ Backfill \in BOOLEAN
  /\ Restorable \in BOOLEAN

VARIABLE jop

Change == {"put", "delete"}
Event == [item : NoteIds \cup Items, change : Change]

Library == [body   : [NoteIds -> Bodies \cup {NoBody}],
            pos    : [NoteIds -> Nat],
            size   : Nat,
            trash  : SUBSET NoteIds,
            items  : [Items -> {"never", "live", "gone"}],
            member : SUBSET (NoteIds \X Tags),
            log    : Seq(Event)]

-----------------------------------------------------------------------------
(* What a request answers.                                                 *)

Present == {n \in NoteIds : jop.body[n] # NoBody}
LiveItems(S) == {e \in S : jop.items[e] = "live"}

\* GET /notes?order_by=updated_time&page=p
NotesPage(p) == {n \in NoteIds : (p - 1) * PageLimit < jop.pos[n] /\ jop.pos[n] <= p * PageLimit}
HasMore(p)   == p * PageLimit < jop.size

\* GET /notes/{n}/tags and GET /tags/{t}/notes
TagsOfNote(n) == {t \in Tags : <<n, t>> \in jop.member}
NotesOfTag(t) == {n \in NoteIds : <<n, t>> \in jop.member}

\* GET /events?cursor=c answers the log from EventsFrom(c) + 1 to EventsUpto(c).
NoCursor == -1
EventsFrom(c) == IF c # NoCursor THEN c ELSE IF Backfill THEN 0 ELSE Len(jop.log)
EventsUpto(c) == IF EventsFrom(c) + BatchLimit < Len(jop.log)
                   THEN EventsFrom(c) + BatchLimit
                   ELSE Len(jop.log)

-----------------------------------------------------------------------------
(* What a user does to the library.                                        *)

Logged(item, change) == Append(jop.log, [item |-> item, change |-> change])

\* The place of m in the listing once n has been taken out of it.
Closed(n) == [m \in NoteIds |-> IF m = n THEN 0
                                ELSE IF jop.pos[n] > 0 /\ jop.pos[m] > jop.pos[n]
                                       THEN jop.pos[m] - 1
                                       ELSE jop.pos[m]]

\* Create a note, or save an existing one (b may be the body it has: a new title).
PutNote(n, b) ==
  LET isNew == n \notin Present
      size  == IF isNew THEN jop.size + 1 ELSE jop.size
  IN  /\ Len(jop.log) < MaxEvents
      /\ isNew => (n \notin jop.trash \/ Restorable) /\ jop.size < MaxNotes
      /\ jop' = [jop EXCEPT !.body[n] = b,
                            !.pos     = [Closed(n) EXCEPT ![n] = size],
                            !.size    = size,
                            !.log     = Logged(n, "put")]

DeleteNote(n) ==
  /\ Len(jop.log) < MaxEvents
  /\ n \in Present
  /\ jop' = [jop EXCEPT !.body[n] = NoBody,
                        !.pos     = Closed(n),
                        !.size    = @ - 1,
                        !.trash   = @ \cup {n},
                        !.member  = {p \in @ : p[1] # n},
                        !.log     = Logged(n, "delete")]

\* Adding or removing a tag on a note: the event the tests push is the note's.
Retag(n, t) ==
  /\ Len(jop.log) < MaxEvents
  /\ n \in Present /\ jop.items[t] = "live"
  /\ jop' = [jop EXCEPT !.member = IF <<n, t>> \in @ THEN @ \ {<<n, t>>} ELSE @ \cup {<<n, t>>},
                        !.log    = Logged(n, "put")]

CreateItem(e) ==
  /\ Len(jop.log) < MaxEvents
  /\ jop.items[e] = "never"
  /\ jop' = [jop EXCEPT !.items[e] = "live", !.log = Logged(e, "put")]

DeleteItem(e) ==
  /\ Len(jop.log) < MaxEvents
  /\ jop.items[e] = "live"
  /\ jop' = [jop EXCEPT !.items[e] = "gone",
                        !.member   = {p \in @ : p[2] # e},
                        !.log      = Logged(e, "delete")]

\* The library before anything happened: some notes in it, nothing logged.
JoplinInit ==
  \E S \in SUBSET NoteIds, T \in SUBSET Items, b \in [NoteIds -> Bodies] :
    /\ Cardinality(S) <= MaxNotes
    /\ \E place \in [S -> 1 .. Cardinality(S)], M \in SUBSET (S \X (T \cap Tags)) :
         /\ \A m, n \in S : place[m] = place[n] => m = n
         /\ jop = [body   |-> [n \in NoteIds |-> IF n \in S THEN b[n] ELSE NoBody],
                   pos    |-> [n \in NoteIds |-> IF n \in S THEN place[n] ELSE 0],
                   size   |-> Cardinality(S),
                   trash  |-> {},
                   items  |-> [e \in Items |-> IF e \in T THEN "live" ELSE "never"],
                   member |-> M,
                   log    |-> <<>>]

JoplinNext ==
  \/ \E n \in NoteIds, b \in Bodies : PutNote(n, b)
  \/ \E n \in NoteIds : DeleteNote(n)
  \/ \E n \in NoteIds, t \in Tags : Retag(n, t)
  \/ \E e \in Items : CreateItem(e) \/ DeleteItem(e)
=============================================================================
