---------------------------- MODULE SyncService ----------------------------
(***************************************************************************)
(* services.py: the three jobs that write the index, one step per await.   *)
(*                                                                         *)
(*   full_rebuild           wipe, then refill page by page, then sweep     *)
(*   incremental_sync_once  one batch of events, then the refreshes they   *)
(*                          ask for, then the cursor                       *)
(*   reindex_note           fetch one note and its tags, then write        *)
(*                                                                         *)
(* IndexerHandle runs them under one lock, so at most one is under way:    *)
(* pc is where it is, run what it holds in local variables.  Between two   *)
(* steps the library may change, and any job may end early: an exception   *)
(* from Joplin or SQLite, a cancellation at shutdown or a kill all leave   *)
(* the committed rows as they are (Abort).  A step is at most one answer   *)
(* from Joplin and at most one transaction.                                *)
(***************************************************************************)
EXTENDS IndexStore

CONSTANT CursorExpires  (* may Joplin refuse a cursor it handed out?       *)

ASSUME CursorExpiresAssumption == CursorExpires \in BOOLEAN

VARIABLES db, pc, run

vars == <<jop, db, pc, run>>

Kind == {"folders", "tags", "resources"}
ItemsOf(k) == CASE k = "folders" -> Folders [] k = "tags" -> Tags [] k = "resources" -> Resources
KindOf(e) == CHOOSE k \in Kind : e \in ItemsOf(k)

NoteChoice == NoteIds \cup {NoBody}

Steps == {"idle", "folders", "notes", "tags", "tagNotes", "links", "finish", "events", "noteTags"}

Run == [page    : Nat,                        (* of the notes listing        *)
        fresh   : SUBSET (NoteIds \cup Items), (* rows stamped by this run    *)
        tagIds  : SUBSET Tags,                (* tags whose notes are unread *)
        next    : Nat,                        (* next event of the batch     *)
        upto    : Nat,                        (* its last event              *)
        refresh : SUBSET (Kind \cup {"links"}), (* what is left to refresh   *)
        note    : NoteChoice,                 (* the note being reindexed    *)
        body    : Bodies \cup {NoBody}]       (* as it was fetched           *)

NoRun == [page |-> 0, fresh |-> {}, tagIds |-> {}, next |-> 0, upto |-> 0,
          refresh |-> {}, note |-> NoBody, body |-> NoBody]

TypeOK ==
  /\ jop \in Library
  /\ db \in Index
  /\ pc \in Steps
  /\ run \in Run

Init ==
  /\ JoplinInit
  /\ db = EmptyIndex
  /\ pc = "idle"
  /\ run = NoRun

Finished == pc' = "idle" /\ run' = NoRun

-----------------------------------------------------------------------------
(* full_rebuild                                                            *)

StartRebuild ==
  /\ pc = "idle"
  /\ pc' = "folders"
  /\ db' = ResetDerived(db)
  /\ run' = [NoRun EXCEPT !.page = 1]
  /\ UNCHANGED jop

RebuildFolders ==
  LET S == LiveItems(Folders)
  IN  /\ pc = "folders"
      /\ pc' = "notes"
      /\ db' = UpsertItems(db, S)
      /\ run' = [run EXCEPT !.fresh = @ \cup S]
      /\ UNCHANGED jop

\* Mutant: a rebuild that trusts the body hash like reindex_note does.
RebuildNotes_GatedByHash ==
  LET S == NotesPage(run.page)
  IN  /\ pc = "notes"
      /\ pc' = IF HasMore(run.page) THEN "notes" ELSE "tags"
      /\ db' = ReplaceDerived(UpsertNotes(db, S, jop.body),
                             {n \in S : BodyChanged(db, n, jop.body[n])})
      /\ run' = [run EXCEPT !.fresh = @ \cup S, !.page = @ + 1]
      /\ UNCHANGED jop

\* Mutant: only a changed row gets the run's indexed_at.
RebuildNotes_StampsOnlyChanged ==
  LET S == NotesPage(run.page)
  IN  /\ pc = "notes"
      /\ pc' = IF HasMore(run.page) THEN "notes" ELSE "tags"
      /\ db' = ReplaceDerived(UpsertNotes(db, S, jop.body), S)
      /\ run' = [run EXCEPT !.fresh = @ \cup {n \in S : BodyChanged(db, n, jop.body[n])},
                            !.page = @ + 1]
      /\ UNCHANGED jop

RebuildNotes ==
  LET S == NotesPage(run.page)
  IN  /\ pc = "notes"
      /\ pc' = IF HasMore(run.page) THEN "notes" ELSE "tags"
      /\ db' = ReplaceDerived(UpsertNotes(db, S, jop.body), S)
      /\ run' = [run EXCEPT !.fresh = @ \cup S, !.page = @ + 1]
      /\ UNCHANGED jop

RebuildTags ==
  LET S == LiveItems(Tags)
  IN  /\ pc = "tags"
      /\ pc' = "tagNotes"
      /\ db' = UpsertItems(db, S)
      /\ run' = [run EXCEPT !.fresh = @ \cup S, !.tagIds = S]
      /\ UNCHANGED jop

RebuildTagNotes(t) ==
  /\ pc = "tagNotes"
  /\ t \in run.tagIds
  /\ db' = UpsertNoteTags(db, NotesOfTag(t), t)
  /\ run' = [run EXCEPT !.tagIds = @ \ {t}]
  /\ UNCHANGED <<jop, pc>>

RebuildResources ==
  LET S == LiveItems(Resources)
  IN  /\ pc = "tagNotes"
      /\ run.tagIds = {}
      /\ pc' = "links"
      /\ db' = UpsertItems(db, S)
      /\ run' = [run EXCEPT !.fresh = @ \cup S]
      /\ UNCHANGED jop

RebuildLinks ==
  /\ pc = "links"
  /\ pc' = "finish"
  /\ db' = RebuildNoteResources(db, NoteIds)
  /\ UNCHANGED <<jop, run>>

FinishRebuild ==
  /\ pc = "finish"
  /\ db' = CompleteRebuild(db, run.fresh)
  /\ Finished
  /\ UNCHANGED jop

-----------------------------------------------------------------------------
(* incremental_sync_once                                                   *)

\* No events: only the cursor and the "last synced" stamp move.
PollEmpty ==
  /\ pc = "idle"
  /\ EventsUpto(db.cursor) = EventsFrom(db.cursor)
  /\ db' = AdvanceCursor(db, EventsUpto(db.cursor))
  /\ UNCHANGED <<jop, pc, run>>

\* Mutant: the cursor is saved when the batch arrives.
PollBatch_SavesCursor ==
  /\ pc = "idle"
  /\ EventsUpto(db.cursor) > EventsFrom(db.cursor)
  /\ pc' = "events"
  /\ run' = [NoRun EXCEPT !.next = EventsFrom(db.cursor) + 1, !.upto = EventsUpto(db.cursor)]
  /\ db' = AdvanceCursor(db, EventsUpto(db.cursor))
  /\ UNCHANGED jop

PollBatch ==
  /\ pc = "idle"
  /\ EventsUpto(db.cursor) > EventsFrom(db.cursor)
  /\ pc' = "events"
  /\ run' = [NoRun EXCEPT !.next = EventsFrom(db.cursor) + 1, !.upto = EventsUpto(db.cursor)]
  /\ UNCHANGED <<jop, db>>

\* 400 from /events: the cursor is dropped and JoplinCursorInvalidError raised.
\* The rebuild the loop then runs is StartRebuild; the CLI exits instead.
PollInvalid ==
  /\ CursorExpires
  /\ pc = "idle"
  /\ db.cursor # NoCursor
  /\ db' = ClearCursor(db)
  /\ UNCHANGED <<jop, pc, run>>

Current == jop.log[run.next]
AtEvent(change) == pc = "events" /\ run.next <= run.upto /\ Current.change = change
Consumed == run' = [run EXCEPT !.next = @ + 1]

ApplyNoteDelete ==
  /\ AtEvent("delete") /\ Current.item \in NoteIds
  /\ db' = MarkNoteDeleted(db, Current.item)
  /\ Consumed
  /\ UNCHANGED <<jop, pc>>

ApplyNotePut ==
  /\ AtEvent("put") /\ Current.item \in Present
  /\ pc' = "noteTags"
  /\ run' = [run EXCEPT !.note = Current.item, !.body = jop.body[Current.item]]
  /\ UNCHANGED <<jop, db>>

\* The note of a put event is gone by now: 404.
ApplyNoteMissing ==
  /\ AtEvent("put") /\ Current.item \in NoteIds \ Present
  /\ db' = MarkNoteDeleted(db, Current.item)
  /\ Consumed
  /\ UNCHANGED <<jop, pc>>

ApplyItemDelete ==
  /\ AtEvent("delete") /\ Current.item \in Items
  /\ db' = MarkItemDeleted(db, Current.item)
  /\ Consumed
  /\ UNCHANGED <<jop, pc>>

ApplyItemPut ==
  /\ AtEvent("put") /\ Current.item \in Items
  /\ run' = [run EXCEPT !.next = @ + 1, !.refresh = @ \cup {KindOf(Current.item)}]
  /\ UNCHANGED <<jop, db, pc>>

AtRefresh(k) == pc = "events" /\ run.next > run.upto /\ k \in run.refresh

Refreshed(k) == run' = [run EXCEPT !.refresh = @ \ {k}]

RefreshFolders ==
  /\ AtRefresh("folders")
  /\ db' = UpsertItems(db, LiveItems(Folders))
  /\ Refreshed("folders")
  /\ UNCHANGED <<jop, pc>>

RefreshTags ==
  /\ AtRefresh("tags") /\ "folders" \notin run.refresh
  /\ db' = UpsertItems(db, LiveItems(Tags))
  /\ Refreshed("tags")
  /\ UNCHANGED <<jop, pc>>

RefreshResources ==
  /\ AtRefresh("resources") /\ run.refresh = {"resources"}
  /\ db' = UpsertItems(db, LiveItems(Resources))
  /\ run' = [run EXCEPT !.refresh = {"links"}]
  /\ UNCHANGED <<jop, pc>>

\* A resource seen for the first time may match links stored before.
RefreshLinks ==
  /\ AtRefresh("links")
  /\ db' = RebuildNoteResources(db, NoteIds)
  /\ Refreshed("links")
  /\ UNCHANGED <<jop, pc>>

\* Mutant: the cursor the batch started from is stored again.
FinishSync_KeepsCursor ==
  /\ pc = "events" /\ run.next > run.upto /\ run.refresh = {}
  /\ db' = AdvanceCursor(db, EventsFrom(db.cursor))
  /\ Finished
  /\ UNCHANGED jop

FinishSync ==
  /\ pc = "events" /\ run.next > run.upto /\ run.refresh = {}
  /\ db' = AdvanceCursor(db, run.upto)
  /\ Finished
  /\ UNCHANGED jop

-----------------------------------------------------------------------------
(* reindex_note, for an event or for POST /index/note/{id}.                *)

ReindexOne(n) ==
  /\ pc = "idle"
  /\ n \in Present
  /\ pc' = "noteTags"
  /\ run' = [NoRun EXCEPT !.note = n, !.body = jop.body[n]]
  /\ UNCHANGED <<jop, db>>

ReindexOneMissing(n) ==
  /\ pc = "idle"
  /\ n \notin Present
  /\ db' = MarkNoteDeleted(db, n)
  /\ UNCHANGED <<jop, pc, run>>

\* run.upto is 0 exactly when no batch is being applied.
WriteNote ==
  /\ pc = "noteTags"
  /\ db' = ReindexNote(db, run.note, run.body, TagsOfNote(run.note))
  /\ IF run.upto = 0
       THEN Finished
       ELSE /\ pc' = "events"
            /\ run' = [run EXCEPT !.next = @ + 1, !.note = NoBody, !.body = NoBody]
  /\ UNCHANGED jop

-----------------------------------------------------------------------------

Abort ==
  /\ pc # "idle"
  /\ Finished
  /\ UNCHANGED <<jop, db>>

LibraryStep == JoplinNext /\ UNCHANGED <<db, pc, run>>

FullRebuild ==
  \/ StartRebuild \/ RebuildFolders \/ RebuildNotes \/ RebuildTags
  \/ \E t \in Tags : RebuildTagNotes(t)
  \/ RebuildResources \/ RebuildLinks \/ FinishRebuild

IncrementalSync ==
  \/ PollEmpty \/ PollBatch \/ PollInvalid
  \/ ApplyNoteDelete \/ ApplyNotePut \/ ApplyNoteMissing
  \/ ApplyItemDelete \/ ApplyItemPut
  \/ RefreshFolders \/ RefreshTags \/ RefreshResources \/ RefreshLinks
  \/ FinishSync

Reindex ==
  \/ \E n \in NoteIds : ReindexOne(n) \/ ReindexOneMissing(n)
  \/ WriteNote

Next == LibraryStep \/ FullRebuild \/ IncrementalSync \/ Reindex \/ Abort

Spec == Init /\ [][Next]_vars

\* What the loop does left to itself: finish the job under way, then rebuild while
\* the index is unfinished and poll once it is whole.
LoopDecides ==
  IF db.rebuilding \/ ~db.built THEN StartRebuild ELSE PollEmpty \/ PollBatch

Loop ==
  \/ LoopDecides
  \/ pc # "idle" /\ (FullRebuild \/ IncrementalSync \/ WriteNote)

\* Every request ends (timeouts), and the loop ticks for ever.
FairSpec == Spec /\ WF_vars(Loop)

-----------------------------------------------------------------------------
(* Properties                                                              *)

\* The tasks and links stored for a note are those of the body stored for it, or
\* there are none: no schedule of rebuilds, syncs, reindexes, failures and kills
\* leaves the rows of an older body beside a newer one, although reindex_note
\* re-extracts only behind the body-hash gate (services.py:271-277).
DerivedNeverStale ==
  \A n \in NoteIds : db.derived[n] \in {NoBody, db.body[n]}

\* db.py:33-36: the flag's "presence means exactly that the derived tables were
\* emptied and not yet refilled".  So when it is down, every note the views show
\* has its tasks and links.
FlagDownMeansWhole ==
  ~db.rebuilding => \A n \in LiveNotes(db) : db.derived[n] = db.body[n]

\* note_resources never holds a pair the stored links and resource rows do not
\* justify, whichever of the two rebuild_note_resources last ran (repositories.py
\* 200-219); after a sync that saw a resource event it holds all of them.
NoteResourcesSound ==
  \A p \in db.noteRes : p[2] \in Linked(db, p[1]) /\ db.items[p[2]] # "none"

\* services.py:154: sweep_orphans is exact.  The transaction that lowers the flag
\* marks no note deleted that Joplin still has.
SweepOnlyOrphans ==
  [][db.rebuilding /\ ~db'.rebuilding => (db'.deleted \ db.deleted) \cap Present = {}]_vars

\* What the index would be if it were extracted from the library right now.
Mirrors ==
  /\ LiveNotes(db) = Present
  /\ {e \in Items : db.items[e] = "live"} = LiveItems(Items)
  /\ \A n \in Present :
       /\ db.body[n] = jop.body[n]
       /\ db.derived[n] = jop.body[n]
       /\ {t \in Tags : <<n, t>> \in db.noteTags} = TagsOfNote(n)
       /\ {r \in Resources : <<n, r>> \in db.noteRes /\ db.items[r] = "live"}
            = LiveItems(Embeds[jop.body[n]])

\* The index says it is whole, and its cursor is at the end of the event log.
CaughtUp ==
  /\ pc = "idle"
  /\ db.built /\ ~db.rebuilding
  /\ db.cursor = Len(jop.log)

\* PRD.md:506: "Update cursor only after successful processing."
\* Whatever was interrupted, retried, replayed or refused on the way, an index
\* that has consumed every event mirrors the library.
CaughtUpMirrors == CaughtUp => Mirrors

\* PRD.md:123, 496: while serving, a background task updates what changed.  However
\* kills, failures, requests and a refused cursor have left the index: if from some
\* moment on the library is let alone and no job is cut short, the index ends up
\* mirroring it for good.
Settles == <>[][Loop]_vars => <>[]Mirrors
=============================================================================
