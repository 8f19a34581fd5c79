----------------------------- MODULE IndexStore -----------------------------
(***************************************************************************)
(* The SQLite index (schema.sql) and the writes repositories.py and db.py  *)
(* make to it, as operators from an index to an index.  Every use of an    *)
(* operator inside one action is one transaction of the code.              *)
(*                                                                         *)
(* A note row keeps its body and soft-delete flag; extracted_tasks and     *)
(* extracted_links are always replaced together, so "derived[n]" is the    *)
(* body whose rows the two tables hold for n, NoBody when they hold none.  *)
(* body_hash is the body itself: sha256 is taken to be injective.          *)
(* indexed_at is only ever compared with the marker of the rebuild that    *)
(* sweeps, so a sweep is given the rows that rebuild has stamped ("fresh").*)
(***************************************************************************)
EXTENDS Joplin

CONSTANT Embeds  (* the resources a body links to with :/<id>              *)

ASSUME EmbedsAssumption == Embeds \in [Bodies -> SUBSET Resources]

Index == [body       : [NoteIds -> Bodies \cup {NoBody}],
          deleted    : SUBSET NoteIds,
          derived    : [NoteIds -> Bodies \cup {NoBody}],
          items      : [Items -> {"none", "live", "deleted"}],
          noteTags   : SUBSET (NoteIds \X Tags),
          noteRes    : SUBSET (NoteIds \X Resources),
          cursor     : Nat \cup {NoCursor},
          synced     : BOOLEAN,   (* last_incremental_index_at is set      *)
          built      : BOOLEAN,   (* last_full_index_at is set             *)
          rebuilding : BOOLEAN]   (* rebuild_in_progress is set            *)

EmptyIndex ==
  [body |-> [n \in NoteIds |-> NoBody], deleted |-> {},
   derived |-> [n \in NoteIds |-> NoBody],
   items |-> [e \in Items |-> "none"], noteTags |-> {}, noteRes |-> {},
   cursor |-> NoCursor, synced |-> FALSE, built |-> FALSE, rebuilding |-> FALSE]

LiveNotes(d) == {n \in NoteIds : d.body[n] # NoBody /\ n \notin d.deleted}

\* The resources the stored links of n point at.
Linked(d, n) == IF d.derived[n] = NoBody THEN {} ELSE Embeds[d.derived[n]]

ResetDerived(d) ==
  [d EXCEPT !.rebuilding = TRUE,
            !.derived    = [n \in NoteIds |-> NoBody],
            !.noteTags   = {},
            !.noteRes    = {},
            !.cursor     = NoCursor,
            !.synced     = FALSE]

UpsertNotes(d, S, b) ==
  [d EXCEPT !.body    = [n \in NoteIds |-> IF n \in S THEN b[n] ELSE @[n]],
            !.deleted = @ \ S]

\* What upsert_note returns: there was no row, or its hash differs.
BodyChanged(d, n, b) == d.body[n] # b

ReplaceDerived(d, S) ==
  [d EXCEPT !.derived = [n \in NoteIds |-> IF n \in S THEN d.body[n] ELSE @[n]]]

\* Soft-deleted resources still have their row, so they still join.
RebuildNoteResources(d, S) ==
  [d EXCEPT !.noteRes = {p \in NoteIds \X Resources :
                           IF p[1] \in S
                             THEN p[2] \in Linked(d, p[1]) /\ d.items[p[2]] # "none"
                             ELSE p \in d.noteRes}]

UpsertItems(d, S) ==
  [d EXCEPT !.items = [e \in Items |-> IF e \in S THEN "live" ELSE @[e]]]

UpsertNoteTags(d, S, t) == [d EXCEPT !.noteTags = @ \cup (S \X {t})]

\* Mutant: (note_id, tag_id) bound the wrong way round.
ReplaceNoteTags_SwappedColumns(d, n, T) ==
  [d EXCEPT !.noteTags = {p \in @ : p[1] # n} \cup (T \X {n})]

ReplaceNoteTags(d, n, T) ==
  [d EXCEPT !.noteTags = {p \in @ : p[1] # n} \cup ({n} \X T)]

MarkNoteDeleted(d, n) ==
  [d EXCEPT !.deleted = IF d.body[n] = NoBody THEN @ ELSE @ \cup {n}]

\* Mutant: mark_tag_deleted soft-deletes the tag only.
MarkItemDeleted_KeepsNoteTags(d, e) ==
  [d EXCEPT !.items[e] = IF @ = "none" THEN @ ELSE "deleted"]

\* A deleted tag loses its note_tags; no other item occurs in them.
MarkItemDeleted(d, e) ==
  [d EXCEPT !.items[e] = IF @ = "none" THEN @ ELSE "deleted",
            !.noteTags = {p \in @ : p[2] # e}]

SweepOrphans(d, fresh) ==
  [d EXCEPT !.deleted = @ \cup (LiveNotes(d) \ fresh),
            !.items   = [e \in Items |-> IF @[e] = "live" /\ e \notin fresh
                                           THEN "deleted" ELSE @[e]]]

\* The transaction that ends a full rebuild.
CompleteRebuild(d, fresh) ==
  [SweepOrphans(d, fresh) EXCEPT !.built = TRUE, !.rebuilding = FALSE]

\* Mutant: the hash is compared after the upsert has overwritten it.
ReindexNote_HashReadAfterUpsert(d, n, b, T) ==
  LET row == UpsertNotes(d, {n}, [m \in NoteIds |-> b])
  IN  ReplaceNoteTags(UpsertItems(row, T), n, T)

\* Mutant: tasks and links are replaced but note_resources is not.
ReindexNote_KeepsNoteResources(d, n, b, T) ==
  LET row  == UpsertNotes(d, {n}, [m \in NoteIds |-> b])
      body == IF BodyChanged(d, n, b) THEN ReplaceDerived(row, {n}) ELSE row
  IN  ReplaceNoteTags(UpsertItems(body, T), n, T)

\* The single transaction of reindex_note: tasks, links and note_resources are
\* rewritten only when the body hash changed.
ReindexNote(d, n, b, T) ==
  LET row  == UpsertNotes(d, {n}, [m \in NoteIds |-> b])
      body == IF BodyChanged(d, n, b)
                THEN RebuildNoteResources(ReplaceDerived(row, {n}), {n})
                ELSE row
  IN  ReplaceNoteTags(UpsertItems(body, T), n, T)

AdvanceCursor(d, c) == [d EXCEPT !.cursor = c, !.synced = TRUE]
ClearCursor(d)      == [d EXCEPT !.cursor = NoCursor]
=============================================================================
