------------------------------- MODULE Views -------------------------------
(***************************************************************************)
(* What the API answers from the index: the reads of repositories.py and   *)
(* the handlers of views.py that return them, as operators on an index.    *)
(* A request reads the database between two transactions of the job under  *)
(* way, so it may see any state of SyncService.                            *)
(*                                                                         *)
(* Limits, order and titles are left out, and so is what the model of a    *)
(* note leaves out: is_todo, its folder and its age (a parameter of        *)
(* Review).                                                                *)
(***************************************************************************)
EXTENDS SyncService

CONSTANTS
  NoteLinks,   (* the notes a body links to with :/<id>                    *)
  Unfinished   (* the bodies with an unchecked task                        *)

ASSUME ViewsAssumption ==
  /\ NoteLinks \in [Bodies -> SUBSET NoteIds]
  /\ Unfinished \subseteq Bodies

LinkedNotes(d, n) == IF d.derived[n] = NoBody THEN {} ELSE NoteLinks[d.derived[n]]

-----------------------------------------------------------------------------
(* The workflow views.                                                     *)

Recent(d) == LiveNotes(d)

\* note_tags is read without joining tags.
Untagged(d) == {n \in LiveNotes(d) : \A t \in Tags : <<n, t>> \notin d.noteTags}

\* The half of fetch_todos that reads extracted_tasks.
Todos(d) == {n \in LiveNotes(d) : d.derived[n] \in Unfinished}

Review(d, old) == (Untagged(d) \cup Todos(d)) \cap old

Backlinks(d, n) == {m \in LiveNotes(d) : n \in LinkedNotes(d, m)}

\* Mutant: only the source of an edge is joined with notes(deleted = 0).
Graph_DeletedTargets(d) ==
  {e \in LiveNotes(d) \X NoteIds : e[2] \in LinkedNotes(d, e[1])}

\* Both ends of an edge are joined with notes(deleted = 0).
Graph(d) == {e \in LiveNotes(d) \X LiveNotes(d) : e[2] \in LinkedNotes(d, e[1])}

-----------------------------------------------------------------------------
(* One note, and the counts of /api/status.                                *)

NotFound == NoBody
Detail(d, n) == IF n \in LiveNotes(d) THEN d.body[n] ELSE NotFound

\* Mutant: the join with resources(deleted = 0) is dropped.
ResourcesOf_AnyRow(d, n) == {r \in Resources : <<n, r>> \in d.noteRes}

ResourcesOf(d, n) == {r \in Resources : <<n, r>> \in d.noteRes /\ d.items[r] = "live"}

CountLive(d, S) == Cardinality({e \in S : d.items[e] = "live"})

StatusCounts(d) ==
  [notes     |-> Cardinality(LiveNotes(d)),
   folders   |-> CountLive(d, Folders),
   tags      |-> CountLive(d, Tags),
   resources |-> CountLive(d, Resources)]

-----------------------------------------------------------------------------
(* Properties                                                              *)

\* PRD.md:506 again, for what a user sees: once every event has been consumed,
\* each view lists exactly the notes, edges, attachments and counts of the library,
\* soft-deleted rows and their leftovers in the derived tables notwithstanding.
ViewsMirror ==
  CaughtUp =>
    /\ Recent(db) = Present
    /\ Untagged(db) = {n \in Present : TagsOfNote(n) = {}}
    /\ Todos(db) = {n \in Present : jop.body[n] \in Unfinished}
    /\ Graph(db) = {e \in Present \X Present : e[2] \in NoteLinks[jop.body[e[1]]]}
    /\ \A n \in NoteIds :
         /\ Detail(db, n) = jop.body[n]
         /\ Backlinks(db, n) = {m \in Present : n \in NoteLinks[jop.body[m]]}
         /\ n \in Present => ResourcesOf(db, n) = LiveItems(Embeds[jop.body[n]])
    /\ StatusCounts(db) = [notes     |-> Cardinality(Present),
                           folders   |-> Cardinality(LiveItems(Folders)),
                           tags      |-> Cardinality(LiveItems(Tags)),
                           resources |-> Cardinality(LiveItems(Resources))]

\* repositories.py:341-348: the untagged view reads note_tags alone.  In every
\* state, half-rebuilt, half-synced or after a tag was deleted, a note is kept out
\* of it only by a tag the index shows as existing.
UntaggedForAReason ==
  \A n \in LiveNotes(db) \ Untagged(db) :
    \E t \in Tags : <<n, t>> \in db.noteTags /\ db.items[t] = "live"
=============================================================================
