------------------------- MODULE SyncService_proofs -------------------------
(***************************************************************************)
(* What holds of services.py for every library, page size, batch size and  *)
(* backlog.  Five inductive invariants, each resting on ones before:       *)
(*                                                                         *)
(*   TypeInv       the types, the numbering of the listing, the note a     *)
(*                 job holds between its two requests                      *)
(*   ResourcesInv  note_resources against the links and rows it joins      *)
(*   WholeInv      the rows against the library, under Settled             *)
(*   MirrorInv     what the rows do not say yet against what is left of    *)
(*                 the event log, under Settled and Backfill               *)
(*   WorkInv       where a job is against what it has left to do           *)
(*                                                                         *)
(* Last, the services write the meta keys as IndexMeta says.               *)
(***************************************************************************)
EXTENDS SyncService, FiniteSetTheorems, TLAPS

-----------------------------------------------------------------------------
(* The library                                                             *)

\* The listing is a numbering of the notes.
Placed ==
  /\ \A n \in NoteIds : IF n \in Present THEN jop.pos[n] \in 1 .. jop.size ELSE jop.pos[n] = 0
  /\ \A m, n \in Present : jop.pos[m] = jop.pos[n] => m = n

\* A change extends the event log.
LEMMA LoggedType ==
  ASSUME jop \in Library, NEW e \in NoteIds \cup Items, NEW c \in Change
  PROVE  Logged(e, c) \in Seq(Event)
BY DEF Library, Event, Logged

\* Taking a note out of the listing never moves another before its start.
LEMMA ClosedType ==
  ASSUME jop \in Library, NEW n \in NoteIds
  PROVE  Closed(n) \in [NoteIds -> Nat]
<1>. jop.pos \in [NoteIds -> Nat]
  BY DEF Library
<1>. QED
  BY DEF Closed

\* Each change a user makes keeps the library well typed.  The size and the positions
\* need Placed: they are decremented only where they are positive.
LEMMA PutNoteType ==
  ASSUME jop \in Library, NEW n \in NoteIds, NEW b \in Bodies, PutNote(n, b)
  PROVE  jop' \in Library
<1>1. "put" \in Change /\ n \in NoteIds \cup Items
  BY DEF Change
<1>. DEFINE size == IF n \notin Present THEN jop.size + 1 ELSE jop.size
            body == [jop.body EXCEPT ![n] = b]
            pos  == [Closed(n) EXCEPT ![n] = size]
            log  == Logged(n, "put")
<1>2. /\ log \in Seq(Event)
      /\ size \in Nat
      /\ pos \in [NoteIds -> Nat]
      /\ body \in [NoteIds -> Bodies \cup {NoBody}]
  BY <1>1, LoggedType, ClosedType DEF Library
<1>3. jop' = [jop EXCEPT !.body = body, !.pos = pos, !.size = size, !.log = log]
  BY DEF PutNote, Library
<1>. HIDE DEF size, body, pos, log
<1>. QED
  BY <1>2, <1>3 DEF Library

\* A note is deleted only from a library that holds one.
LEMMA DeleteNoteType ==
  ASSUME jop \in Library, Placed, NEW n \in NoteIds, DeleteNote(n)
  PROVE  jop' \in Library
<1>. DEFINE size   == jop.size - 1
            body   == [jop.body EXCEPT ![n] = NoBody]
            pos    == Closed(n)
            trash  == jop.trash \cup {n}
            member == {p \in jop.member : p[1] # n}
            log    == Logged(n, "delete")
<1>1. "delete" \in Change /\ n \in NoteIds \cup Items
  BY DEF Change
<1>2. jop.size \in Nat /\ jop.size >= 1
  BY DEF Placed, Present, DeleteNote, Library
<1>3. /\ log \in Seq(Event)
      /\ size \in Nat
      /\ pos \in [NoteIds -> Nat]
  BY <1>1, <1>2, LoggedType, ClosedType
<1>4. /\ body \in [NoteIds -> Bodies \cup {NoBody}]
      /\ trash \in SUBSET NoteIds
      /\ member \in SUBSET (NoteIds \X Tags)
  BY DEF Library
<1>5. jop' = [jop EXCEPT !.body = body, !.pos = pos, !.size = size,
                         !.trash = trash, !.member = member, !.log = log]
  BY DEF DeleteNote, Library
<1>. HIDE DEF size, body, pos, trash, member, log
<1>. QED
  BY <1>3, <1>4, <1>5 DEF Library

\* Tag membership stays between known notes and tags.
LEMMA RetagType ==
  ASSUME jop \in Library, NEW n \in NoteIds, NEW t \in Tags, Retag(n, t)
  PROVE  jop' \in Library
<1>. DEFINE member == IF <<n, t>> \in jop.member THEN jop.member \ {<<n, t>>}
                                                 ELSE jop.member \cup {<<n, t>>}
            log    == Logged(n, "put")
<1>1. "put" \in Change /\ n \in NoteIds \cup Items
  BY DEF Change
<1>2. log \in Seq(Event) /\ member \in SUBSET (NoteIds \X Tags)
  BY <1>1, LoggedType DEF Library
<1>3. jop' = [jop EXCEPT !.member = member, !.log = log]
  BY DEF Retag, Library
<1>. HIDE DEF member, log
<1>. QED
  BY <1>2, <1>3 DEF Library

\* An item appears.
LEMMA CreateItemType ==
  ASSUME jop \in Library, NEW e \in Items, CreateItem(e)
  PROVE  jop' \in Library
<1>. DEFINE items == [jop.items EXCEPT ![e] = "live"]
            log   == Logged(e, "put")
<1>1. "put" \in Change /\ e \in NoteIds \cup Items
  BY DEF Change
<1>2. log \in Seq(Event) /\ items \in [Items -> {"never", "live", "gone"}]
  BY <1>1, LoggedType DEF Library
<1>3. jop' = [jop EXCEPT !.items = items, !.log = log]
  BY DEF CreateItem, Library
<1>. HIDE DEF items, log
<1>. QED
  BY <1>2, <1>3 DEF Library

\* An item goes, with its membership.
LEMMA DeleteItemType ==
  ASSUME jop \in Library, NEW e \in Items, DeleteItem(e)
  PROVE  jop' \in Library
<1>. DEFINE items  == [jop.items EXCEPT ![e] = "gone"]
            member == {p \in jop.member : p[2] # e}
            log    == Logged(e, "delete")
<1>1. "delete" \in Change /\ e \in NoteIds \cup Items
  BY DEF Change
<1>2. /\ log \in Seq(Event)
      /\ items \in [Items -> {"never", "live", "gone"}]
      /\ member \in SUBSET (NoteIds \X Tags)
  BY <1>1, LoggedType DEF Library
<1>3. jop' = [jop EXCEPT !.items = items, !.member = member, !.log = log]
  BY DEF DeleteItem, Library
<1>. HIDE DEF items, member, log
<1>. QED
  BY <1>2, <1>3 DEF Library

\* A deleted note leaves no gap, a saved one goes to the end.
LEMMA PlacedStep ==
  ASSUME jop \in Library, Placed, JoplinNext
  PROVE  Placed'
<1>1. ASSUME NEW n \in NoteIds, NEW b \in Bodies, PutNote(n, b)
      PROVE  Placed'
  <2>. DEFINE size == IF n \notin Present THEN jop.size + 1 ELSE jop.size
  <2>1. /\ jop'.size = size
        /\ jop'.body = [jop.body EXCEPT ![n] = b]
        /\ jop'.pos = [Closed(n) EXCEPT ![n] = size]
    BY <1>1 DEF PutNote, Library
  <2>2. Present' = Present \cup {n}
    BY <2>1, JoplinAssumption DEF Present, Library
  <2>3. \A m \in NoteIds : jop'.pos[m] = IF m = n THEN size ELSE Closed(n)[m]
    BY <2>1 DEF Closed
  <2>4. /\ jop.size \in Nat
        /\ \A m \in NoteIds : jop.pos[m] \in Nat
        /\ \A m \in NoteIds : Closed(n)[m] = IF m = n THEN 0
                              ELSE IF jop.pos[n] > 0 /\ jop.pos[m] > jop.pos[n]
                                     THEN jop.pos[m] - 1 ELSE jop.pos[m]
    BY DEF Library, Closed
  <2>5. CASE n \in Present
    <3>1. Present' = Present /\ jop'.size = jop.size
      BY <2>1, <2>2, <2>5
    <3>2. \A m \in Present : jop.pos[m] \in 1 .. jop.size
      BY DEF Placed, Present
    <3>3. \A m \in Present \ {n} : jop'.pos[m] < jop.size /\ jop'.pos[m] > 0
      BY <2>3, <2>4, <2>5, <3>2 DEF Placed, Present
    <3>4. jop'.pos[n] = jop.size /\ jop.size > 0
      BY <2>1, <2>3, <2>5, <3>1, <3>2, <2>4
    <3>5. \A m \in NoteIds \ Present : jop'.pos[m] = 0
      BY <2>3, <2>4, <2>5 DEF Placed
    <3>6. \A m, k \in Present \ {n} : jop'.pos[m] = jop'.pos[k] => m = k
      BY <2>3, <2>4, <2>5 DEF Placed, Present
    <3>. QED
      BY <2>1, <2>4, <3>1, <3>3, <3>4, <3>5, <3>6, <2>5 DEF Placed
  <2>6. CASE n \notin Present
    <3>1. \A m \in NoteIds : jop'.pos[m] = IF m = n THEN jop.size + 1 ELSE jop.pos[m]
      BY <2>3, <2>4, <2>6 DEF Placed
    <3>. QED
      BY <2>1, <2>2, <2>4, <2>6, <3>1 DEF Placed, Present
  <2>. QED
    BY <2>5, <2>6
<1>2. ASSUME NEW n \in NoteIds, DeleteNote(n)
      PROVE  Placed'
  <2>1. /\ jop'.size = jop.size - 1
        /\ jop'.body = [jop.body EXCEPT ![n] = NoBody]
        /\ jop'.pos = Closed(n)
    BY <1>2 DEF DeleteNote, Library
  <2>2. Present' = Present \ {n} /\ n \in Present
    BY <1>2, <2>1 DEF DeleteNote, Present, Library
  <2>3. /\ jop.size \in Nat
        /\ \A m \in NoteIds : jop.pos[m] \in Nat
        /\ \A m \in NoteIds : jop'.pos[m] = IF m = n THEN 0
                              ELSE IF jop.pos[n] > 0 /\ jop.pos[m] > jop.pos[n]
                                     THEN jop.pos[m] - 1 ELSE jop.pos[m]
    BY <2>1 DEF Library, Closed
  <2>4. \A m \in NoteIds \ Present' : jop'.pos[m] = 0
    BY <2>2, <2>3 DEF Placed
  <2>5. \A m \in Present' : jop'.pos[m] \in 1 .. jop'.size
    BY <2>1, <2>2, <2>3 DEF Placed, Present
  <2>6. \A m, k \in Present' : jop'.pos[m] = jop'.pos[k] => m = k
    BY <2>2, <2>3 DEF Placed, Present
  <2>. QED
    BY <2>4, <2>5, <2>6 DEF Placed
<1>3. ASSUME jop'.body = jop.body, jop'.pos = jop.pos, jop'.size = jop.size
      PROVE  Placed'
  BY <1>3 DEF Placed, Present
<1>4. ASSUME NEW n \in NoteIds, NEW t \in Tags, Retag(n, t)
      PROVE  Placed'
  BY <1>3, <1>4 DEF Retag, Library
<1>5. ASSUME NEW e \in Items, CreateItem(e) \/ DeleteItem(e)
      PROVE  Placed'
  BY <1>3, <1>5 DEF CreateItem, DeleteItem, Library
<1>. QED
  BY <1>1, <1>2, <1>4, <1>5 DEF JoplinNext

\* The initial library is well typed and its listing is a numbering.
LEMMA JoplinInitPlaced ==
  ASSUME JoplinInit
  PROVE  jop \in Library /\ Placed
<1>1. PICK S \in SUBSET NoteIds, T \in SUBSET Items, b \in [NoteIds -> Bodies] :
        \E place \in [S -> 1 .. Cardinality(S)], M \in SUBSET (S \X (T \cap Tags)) :
          /\ \A m, n \in S : place[m] = place[n] => m = n
          /\ jop = [body   |-> [n \in NoteIds |-> IF n \in S THEN b[n] ELSE NoBody],
                    pos    |-> [n \in NoteIds |-> IF n \in S THEN place[n] ELSE 0],
                    size   |-> Cardinality(S),
                    trash  |-> {},
                    items  |-> [e \in Items |-> IF e \in T THEN "live" ELSE "never"],
                    member |-> M,
                    log    |-> <<>>]
  BY DEF JoplinInit
<1>2. PICK place \in [S -> 1 .. Cardinality(S)], M \in SUBSET (S \X (T \cap Tags)) :
          /\ \A m, n \in S : place[m] = place[n] => m = n
          /\ jop = [body   |-> [n \in NoteIds |-> IF n \in S THEN b[n] ELSE NoBody],
                    pos    |-> [n \in NoteIds |-> IF n \in S THEN place[n] ELSE 0],
                    size   |-> Cardinality(S),
                    trash  |-> {},
                    items  |-> [e \in Items |-> IF e \in T THEN "live" ELSE "never"],
                    member |-> M,
                    log    |-> <<>>]
  BY <1>1
<1>3. Cardinality(S) \in Nat
  BY JoplinAssumption, FS_Subset, FS_CardinalityType
<1>4. jop \in Library
  BY <1>2, <1>3 DEF Library
<1>5. /\ jop.size = Cardinality(S)
      /\ \A n \in NoteIds : jop.pos[n] = (IF n \in S THEN place[n] ELSE 0)
      /\ \A n \in NoteIds : jop.body[n] = (IF n \in S THEN b[n] ELSE NoBody)
  BY <1>2
<1>6. Present = S
  BY <1>5, JoplinAssumption DEF Present
<1>7. Placed
  BY <1>2, <1>3, <1>5, <1>6 DEF Placed
<1>. QED
  BY <1>4, <1>7
-----------------------------------------------------------------------------
(* The store: every write takes an index to an index.                      *)

\* The schema as init_db creates it.
LEMMA EmptyIndexType == EmptyIndex \in Index
BY DEF EmptyIndex, Index, NoCursor

\* db.reset_derived
LEMMA ResetDerivedType ==
  ASSUME NEW d \in Index
  PROVE  ResetDerived(d) \in Index
BY DEF Index, ResetDerived, NoCursor

\* upsert_folder, upsert_tag and upsert_resource over a list
LEMMA UpsertItemsType ==
  ASSUME NEW d \in Index, NEW S \in SUBSET Items
  PROVE  UpsertItems(d, S) \in Index
BY DEF Index, UpsertItems

\* upsert_note over a page
LEMMA UpsertNotesType ==
  ASSUME NEW d \in Index, NEW S \in SUBSET NoteIds, NEW b \in [NoteIds -> Bodies \cup {NoBody}]
  PROVE  UpsertNotes(d, S, b) \in Index
BY DEF Index, UpsertNotes

\* replace_tasks and replace_links
LEMMA ReplaceDerivedType ==
  ASSUME NEW d \in Index, NEW S \in SUBSET NoteIds
  PROVE  ReplaceDerived(d, S) \in Index
BY DEF Index, ReplaceDerived

\* rebuild_all_note_resources and rebuild_note_resources_for_note
LEMMA RebuildNoteResourcesType ==
  ASSUME NEW d \in Index, NEW S \in SUBSET NoteIds
  PROVE  RebuildNoteResources(d, S) \in Index
BY DEF Index, RebuildNoteResources

\* upsert_note_tag over a tag's notes
LEMMA UpsertNoteTagsType ==
  ASSUME NEW d \in Index, NEW S \in SUBSET NoteIds, NEW t \in Tags
  PROVE  UpsertNoteTags(d, S, t) \in Index
BY DEF Index, UpsertNoteTags

\* replace_note_tags
LEMMA ReplaceNoteTagsType ==
  ASSUME NEW d \in Index, NEW n \in NoteIds, NEW T \in SUBSET Tags
  PROVE  ReplaceNoteTags(d, n, T) \in Index
BY DEF Index, ReplaceNoteTags

\* mark_note_deleted and its item counterparts
LEMMA MarkDeletedType ==
  ASSUME NEW d \in Index
  PROVE  /\ \A n \in NoteIds : MarkNoteDeleted(d, n) \in Index
         /\ \A e \in Items : MarkItemDeleted(d, e) \in Index
BY DEF Index, MarkNoteDeleted, MarkItemDeleted

\* sweep_orphans and the meta keys written with it
LEMMA CompleteRebuildType ==
  ASSUME NEW d \in Index, NEW fresh
  PROVE  CompleteRebuild(d, fresh) \in Index
<1>1. SweepOrphans(d, fresh) \in Index
  BY DEF Index, SweepOrphans, LiveNotes
<1>. QED
  BY <1>1 DEF Index, CompleteRebuild

\* _advance_cursor and the clearing of a refused cursor
LEMMA CursorType ==
  ASSUME NEW d \in Index
  PROVE  /\ \A c \in Nat : AdvanceCursor(d, c) \in Index
         /\ ClearCursor(d) \in Index
BY DEF Index, AdvanceCursor, ClearCursor, NoCursor

\* The transaction of reindex_note.
LEMMA ReindexNoteType ==
  ASSUME NEW d \in Index, NEW n \in NoteIds, NEW b \in Bodies \cup {NoBody}, NEW T \in SUBSET Tags
  PROVE  ReindexNote(d, n, b, T) \in Index
<1>. DEFINE row  == UpsertNotes(d, {n}, [m \in NoteIds |-> b])
            body == IF BodyChanged(d, n, b)
                      THEN RebuildNoteResources(ReplaceDerived(row, {n}), {n})
                      ELSE row
<1>1. row \in Index
  BY UpsertNotesType
<1>. HIDE DEF row
<1>2. body \in Index
  BY <1>1, ReplaceDerivedType, RebuildNoteResourcesType
<1>. HIDE DEF body
<1>3. UpsertItems(body, T) \in Index
  BY <1>2, UpsertItemsType DEF Items
<1>4. ReplaceNoteTags(UpsertItems(body, T), n, T) \in Index
  BY <1>3, ReplaceNoteTagsType
<1>. QED
  BY <1>4 DEF ReindexNote, row, body
-----------------------------------------------------------------------------
(* Type correctness                                                        *)

\* A fetched note is a note: WriteNote has rows to write.
Fetched == pc = "noteTags" => run.note \in NoteIds

TypeInv == TypeOK /\ Placed /\ Fetched

\* Every library step.
LEMMA LibraryType ==
  ASSUME jop \in Library, Placed, JoplinNext
  PROVE  jop' \in Library
BY PutNoteType, DeleteNoteType, RetagType, CreateItemType, DeleteItemType DEF JoplinNext

\* What a request answers has the type of what is asked for.
LEMMA AnswerType ==
  ASSUME TypeOK
  PROVE  /\ \A c \in Nat \cup {NoCursor} : EventsFrom(c) \in Nat /\ EventsUpto(c) \in Nat
         /\ \A p \in Nat : NotesPage(p) \in SUBSET NoteIds
         /\ \A n \in NoteIds : TagsOfNote(n) \in SUBSET Tags
         /\ \A t \in Tags : NotesOfTag(t) \in SUBSET NoteIds
         /\ \A S : LiveItems(S) \in SUBSET S
<1>1. Len(jop.log) \in Nat /\ BatchLimit \in Nat
  BY JoplinAssumption DEF TypeOK, Library
<1>2. \A c \in Nat \cup {NoCursor} : EventsFrom(c) \in Nat /\ EventsUpto(c) \in Nat
  BY <1>1 DEF EventsFrom, EventsUpto
<1>. QED
  BY <1>2 DEF NotesPage, TagsOfNote, NotesOfTag, LiveItems

\* A job starts from blank local variables.
LEMMA RunType ==
  /\ NoRun \in Run
  /\ "idle" \in Steps
BY DEF NoRun, Run, NoteChoice, Steps

\* The initial state satisfies the type invariant.
LEMMA TypeInit ==
  ASSUME Init
  PROVE  TypeInv
BY JoplinInitPlaced, EmptyIndexType, RunType DEF Init, TypeInv, TypeOK, Fetched

\* Every step of full_rebuild.
LEMMA RebuildType ==
  ASSUME TypeInv, FullRebuild
  PROVE  TypeOK'
<1>. USE DEF TypeInv, TypeOK
<1>1. CASE StartRebuild
  BY <1>1, ResetDerivedType DEF StartRebuild, Run, NoRun, Steps, NoteChoice
<1>2. CASE RebuildFolders
  <2>. LiveItems(Folders) \in SUBSET Items
    BY AnswerType DEF Items
  <2>. QED
    BY <1>2, UpsertItemsType DEF RebuildFolders, Run, Steps
<1>3. CASE RebuildNotes
  <2>. DEFINE S == NotesPage(run.page)
              row == UpsertNotes(db, S, jop.body)
  <2>1. S \in SUBSET NoteIds /\ jop.body \in [NoteIds -> Bodies \cup {NoBody}]
    BY AnswerType DEF Run, Library
  <2>2. row \in Index
    BY <2>1, UpsertNotesType
  <2>. HIDE DEF S, row
  <2>3. ReplaceDerived(row, S) \in Index
    BY <2>1, <2>2, ReplaceDerivedType
  <2>4. db' = ReplaceDerived(row, S)
    BY <1>3 DEF RebuildNotes, S, row
  <2>. DEFINE fresh == run.fresh \cup S
              page  == run.page + 1
  <2>5. fresh \in SUBSET (NoteIds \cup Items) /\ page \in Nat
    BY <2>1 DEF Run
  <2>6. run' = [run EXCEPT !.fresh = fresh, !.page = page]
    BY <1>3 DEF RebuildNotes, Run, S
  <2>. HIDE DEF fresh, page
  <2>7. run' \in Run
    BY <2>5, <2>6 DEF Run
  <2>8. jop' = jop /\ pc' \in Steps
    BY <1>3 DEF RebuildNotes, Steps
  <2>. QED
    BY <2>3, <2>4, <2>7, <2>8
<1>4. CASE RebuildTags
  <2>1. LiveItems(Tags) \in SUBSET Items /\ LiveItems(Tags) \in SUBSET Tags
    BY AnswerType DEF Items
  <2>2. db' \in Index
    BY <1>4, <2>1, UpsertItemsType DEF RebuildTags
  <2>. DEFINE fresh == run.fresh \cup LiveItems(Tags)
  <2>3. fresh \in SUBSET (NoteIds \cup Items)
    BY <2>1 DEF Run
  <2>4. run' = [run EXCEPT !.fresh = fresh, !.tagIds = LiveItems(Tags)]
    BY <1>4 DEF RebuildTags, Run
  <2>. HIDE DEF fresh
  <2>5. run' \in Run
    BY <2>1, <2>3, <2>4 DEF Run
  <2>6. jop' = jop /\ pc' \in Steps
    BY <1>4 DEF RebuildTags, Steps
  <2>. QED
    BY <2>2, <2>5, <2>6
<1>5. ASSUME NEW t \in Tags, RebuildTagNotes(t)
      PROVE  TypeOK'
  BY <1>5, UpsertNoteTagsType, AnswerType DEF RebuildTagNotes, Run
<1>6. CASE RebuildResources
  <2>. LiveItems(Resources) \in SUBSET Items
    BY AnswerType DEF Items
  <2>. QED
    BY <1>6, UpsertItemsType DEF RebuildResources, RebuildLinks, Run, Steps
<1>7. CASE RebuildLinks
  BY <1>7, RebuildNoteResourcesType DEF RebuildLinks, Steps
<1>8. CASE FinishRebuild
  BY <1>8, CompleteRebuildType, RunType DEF FinishRebuild, Finished
<1>. QED
  BY <1>1, <1>2, <1>3, <1>4, <1>5, <1>6, <1>7, <1>8 DEF FullRebuild

\* Every step of incremental_sync_once.
LEMMA SyncType ==
  ASSUME TypeInv, IncrementalSync
  PROVE  TypeOK'
<1>. USE DEF TypeInv, TypeOK
<1>0. db.cursor \in Nat \cup {NoCursor}
  BY DEF Index
<1>1. CASE PollEmpty
  BY <1>0, <1>1, CursorType, AnswerType DEF PollEmpty
<1>2. CASE PollBatch
  <2>0. EventsFrom(db.cursor) \in Nat /\ EventsUpto(db.cursor) \in Nat
    BY <1>0, AnswerType
  <2>1. EventsFrom(db.cursor) + 1 \in Nat /\ EventsUpto(db.cursor) \in Nat
    BY <2>0
  <2>2. run' \in Run
    BY <1>2, <2>1 DEF PollBatch, Run, NoRun, NoteChoice
  <2>. QED
    BY <1>2, <2>2 DEF PollBatch, Steps
<1>3. CASE PollInvalid
  BY <1>3, CursorType DEF PollInvalid
<1>4. CASE ApplyNoteDelete
  BY <1>4, MarkDeletedType DEF ApplyNoteDelete, Consumed, Run
<1>5. CASE ApplyNotePut
  <2>. Current.item \in NoteIds /\ jop.body[Current.item] \in Bodies \cup {NoBody}
    BY <1>5 DEF ApplyNotePut, Present, Library
  <2>. QED
    BY <1>5 DEF ApplyNotePut, Run, NoteChoice, Steps
<1>6. CASE ApplyNoteMissing
  BY <1>6, MarkDeletedType DEF ApplyNoteMissing, Consumed, Run
<1>7. CASE ApplyItemDelete
  BY <1>7, MarkDeletedType DEF ApplyItemDelete, Consumed, Run
<1>8. CASE ApplyItemPut
  <2>1. KindOf(Current.item) \in Kind
    <3>. \E k \in Kind : Current.item \in ItemsOf(k)
      BY <1>8 DEF ApplyItemPut, Items, Kind, ItemsOf
    <3>. QED
      BY DEF KindOf
  <2>. DEFINE refresh == run.refresh \cup {KindOf(Current.item)}
              next    == run.next + 1
  <2>2. refresh \in SUBSET (Kind \cup {"links"}) /\ next \in Nat
    BY <2>1 DEF Run
  <2>3. run' = [run EXCEPT !.next = next, !.refresh = refresh]
    BY <1>8 DEF ApplyItemPut, Run
  <2>. HIDE DEF refresh, next
  <2>4. run' \in Run
    BY <2>2, <2>3 DEF Run
  <2>. QED
    BY <1>8, <2>4 DEF ApplyItemPut
<1>9. CASE RefreshFolders
  <2>. LiveItems(Folders) \in SUBSET Items
    BY AnswerType DEF Items
  <2>. QED
    BY <1>9, UpsertItemsType DEF RefreshFolders, Refreshed, Run
<1>10. CASE RefreshTags
  <2>. LiveItems(Tags) \in SUBSET Items
    BY AnswerType DEF Items
  <2>. QED
    BY <1>10, UpsertItemsType DEF RefreshTags, Refreshed, Run
<1>11. CASE RefreshResources
  <2>. LiveItems(Resources) \in SUBSET Items
    BY AnswerType DEF Items
  <2>. QED
    BY <1>11, UpsertItemsType DEF RefreshResources, RefreshLinks, Run
<1>12. CASE RefreshLinks
  BY <1>12, RebuildNoteResourcesType DEF RefreshLinks, Refreshed, Run
<1>13. CASE FinishSync
  BY <1>13, CursorType, RunType DEF FinishSync, Finished, Run
<1>. QED
  BY <1>1, <1>2, <1>3, <1>4, <1>5, <1>6, <1>7, <1>8, <1>9, <1>10, <1>11, <1>12, <1>13
     DEF IncrementalSync

\* Every step of reindex_note.
LEMMA ReindexType ==
  ASSUME TypeInv, Reindex
  PROVE  TypeOK'
<1>. USE DEF TypeInv, TypeOK
<1>1. ASSUME NEW n \in NoteIds, ReindexOne(n)
      PROVE  TypeOK'
  BY <1>1 DEF ReindexOne, Run, NoRun, NoteChoice, Library, Steps
<1>2. ASSUME NEW n \in NoteIds, ReindexOneMissing(n)
      PROVE  TypeOK'
  BY <1>2, MarkDeletedType DEF ReindexOneMissing
<1>3. CASE WriteNote
  <2>1. run.note \in NoteIds /\ run.body \in Bodies \cup {NoBody}
    BY <1>3 DEF WriteNote, Fetched, Run
  <2>2. db' \in Index
    BY <1>3, <2>1, ReindexNoteType, AnswerType DEF WriteNote
  <2>3. run' \in Run /\ pc' \in Steps
    <3>1. CASE run.upto = 0
      BY <1>3, <3>1, RunType DEF WriteNote, Finished
    <3>2. CASE run.upto # 0
      <4>. DEFINE next == run.next + 1
      <4>1. run' = [run EXCEPT !.next = next, !.note = NoBody, !.body = NoBody]
        BY <1>3, <3>2 DEF WriteNote, Run
      <4>2. next \in Nat
        BY DEF Run
      <4>. HIDE DEF next
      <4>3. run' \in Run
        BY <4>1, <4>2 DEF Run, NoteChoice
      <4>. QED
        BY <1>3, <3>2, <4>3 DEF WriteNote, Steps
    <3>. QED
      BY <3>1, <3>2
  <2>. QED
    BY <1>3, <2>2, <2>3 DEF WriteNote
<1>. QED
  BY <1>1, <1>2, <1>3 DEF Reindex

\* A job that is between its two requests for a note keeps the note it fetched.
LEMMA FetchedStep ==
  ASSUME TypeInv, [Next]_vars
  PROVE  Fetched'
<1>. USE DEF TypeInv, Fetched
<1>1. CASE FullRebuild
  BY <1>1 DEF FullRebuild, StartRebuild, RebuildFolders, RebuildNotes, RebuildTags,
              RebuildTagNotes, RebuildResources, RebuildLinks, FinishRebuild, Finished
<1>2. CASE ApplyNotePut
  BY <1>2 DEF ApplyNotePut, Present, TypeOK, Run
<1>3. CASE IncrementalSync /\ ~ApplyNotePut
  BY <1>3 DEF IncrementalSync, PollEmpty, PollBatch, PollInvalid, ApplyNoteDelete,
              ApplyNoteMissing, ApplyItemDelete, ApplyItemPut, RefreshFolders, RefreshTags,
              RefreshResources, RefreshLinks, FinishSync, Finished, AtEvent, AtRefresh
<1>4. CASE Reindex
  BY <1>4 DEF Reindex, ReindexOne, ReindexOneMissing, WriteNote, Finished, NoRun
<1>5. CASE Abort \/ LibraryStep \/ UNCHANGED vars
  BY <1>5 DEF Abort, LibraryStep, Finished, vars
<1>. QED
  BY <1>1, <1>2, <1>3, <1>4, <1>5 DEF Next

\* The jobs do not move the library.
LEMMA PlacedUnlessLibraryMoves ==
  ASSUME Placed, UNCHANGED jop
  PROVE  Placed'
BY DEF Placed, Present

\* The type invariant is inductive.
LEMMA TypeStep ==
  ASSUME TypeInv, [Next]_vars
  PROVE  TypeInv'
<1>0. Fetched'
  BY FetchedStep
<1>1. CASE LibraryStep
  BY <1>0, <1>1, LibraryType, PlacedStep DEF LibraryStep, TypeInv, TypeOK
<1>2. CASE FullRebuild
  <2>. UNCHANGED jop
    BY <1>2 DEF FullRebuild, StartRebuild, RebuildFolders, RebuildNotes, RebuildTags,
                RebuildTagNotes, RebuildResources, RebuildLinks, FinishRebuild
  <2>. QED
    BY <1>0, <1>2, RebuildType, PlacedUnlessLibraryMoves DEF TypeInv
<1>3. CASE IncrementalSync
  <2>. UNCHANGED jop
    BY <1>3 DEF IncrementalSync, PollEmpty, PollBatch, PollInvalid, ApplyNoteDelete,
                ApplyNotePut, ApplyNoteMissing, ApplyItemDelete, ApplyItemPut, RefreshFolders,
                RefreshTags, RefreshResources, RefreshLinks, FinishSync
  <2>. QED
    BY <1>0, <1>3, SyncType, PlacedUnlessLibraryMoves DEF TypeInv
<1>4. CASE Reindex
  <2>. UNCHANGED jop
    BY <1>4 DEF Reindex, ReindexOne, ReindexOneMissing, WriteNote
  <2>. QED
    BY <1>0, <1>4, ReindexType, PlacedUnlessLibraryMoves DEF TypeInv
<1>5. CASE Abort
  BY <1>0, <1>5, RunType, PlacedUnlessLibraryMoves DEF Abort, Finished, TypeInv, TypeOK
<1>6. CASE UNCHANGED vars
  BY <1>0, <1>6, PlacedUnlessLibraryMoves DEF vars, TypeInv, TypeOK
<1>. QED
  BY <1>1, <1>2, <1>3, <1>4, <1>5, <1>6 DEF Next

\* TypeOK together with the two facts it needs: the listing is a numbering, and a job
\* waiting for the tags of a note holds that note.
THEOREM TypeInvariant == Spec => []TypeInv
BY TypeInit, TypeStep, PTL DEF Spec

\* Every schedule of jobs, failures and library changes keeps the rows, the meta
\* keys and the local variables of the jobs of services.py well typed, whatever the
\* library, the page and batch sizes and the event backlog.
THEOREM TypeCorrect == Spec => []TypeOK
BY TypeInvariant, PTL DEF TypeInv
-----------------------------------------------------------------------------
(* The derived rows                                                        *)

\* What the transaction of reindex_note changes.
LEMMA ReindexNoteEffect ==
  ASSUME NEW d \in Index, NEW n \in NoteIds, NEW b \in Bodies \cup {NoBody}, NEW T \in SUBSET Tags
  PROVE  LET r == ReindexNote(d, n, b, T)
         IN  /\ \A m \in NoteIds \ {n} : r.body[m] = d.body[m] /\ r.derived[m] = d.derived[m]
             /\ r.body[n] = b
             /\ r.derived[n] = IF d.body[n] = b THEN d.derived[n] ELSE b
             /\ r.deleted = d.deleted \ {n}
             /\ r.rebuilding = d.rebuilding
             /\ \A e \in Items : d.items[e] # "none" => r.items[e] # "none"
             /\ \A p \in r.noteRes : \/ p \in d.noteRes /\ p[1] # n
                                     \/ p \in d.noteRes /\ d.body[n] = b
                                     \/ p[1] = n /\ p[2] \in Linked(r, n) /\ d.items[p[2]] # "none"
             /\ \A p \in d.noteRes : p[1] # n \/ d.body[n] = b => p \in r.noteRes
             /\ d.body[n] # b =>
                  \A q \in Resources : q \in Linked(r, n) /\ d.items[q] # "none" => <<n, q>> \in r.noteRes
             /\ r.items = [e \in Items |-> IF e \in T THEN "live" ELSE d.items[e]]
             /\ r.noteTags = {p \in d.noteTags : p[1] # n} \cup ({n} \X T)
<1>. DEFINE row  == UpsertNotes(d, {n}, [m \in NoteIds |-> b])
            more == ReplaceDerived(row, {n})
            body == IF BodyChanged(d, n, b) THEN RebuildNoteResources(more, {n}) ELSE row
            all  == UpsertItems(body, T)
            r    == ReindexNote(d, n, b, T)
<1>1. /\ row \in Index
      /\ row.body = [d.body EXCEPT ![n] = b]
      /\ row.deleted = d.deleted \ {n}
      /\ row.derived = d.derived /\ row.rebuilding = d.rebuilding
      /\ row.items = d.items /\ row.noteRes = d.noteRes /\ row.noteTags = d.noteTags
  <2>1. row \in Index
    BY UpsertNotesType
  <2>2. row.body = [m \in NoteIds |-> IF m \in {n} THEN b ELSE d.body[m]]
    BY DEF UpsertNotes, Index
  <2>3. row.body = [d.body EXCEPT ![n] = b]
    BY <2>2 DEF Index
  <2>. QED
    BY <2>1, <2>3 DEF UpsertNotes, Index
<1>. HIDE DEF row
<1>2. /\ more \in Index
      /\ more.derived = [d.derived EXCEPT ![n] = b]
      /\ more.body = row.body /\ more.deleted = row.deleted
      /\ more.rebuilding = row.rebuilding /\ more.items = row.items
      /\ more.noteRes = row.noteRes /\ more.noteTags = row.noteTags
  <2>1. more \in Index
    BY <1>1, ReplaceDerivedType
  <2>2. more.derived = [m \in NoteIds |-> IF m \in {n} THEN row.body[m] ELSE row.derived[m]]
    BY <1>1 DEF ReplaceDerived, Index
  <2>3. more.derived = [d.derived EXCEPT ![n] = b]
    BY <1>1, <2>2 DEF Index
  <2>. QED
    BY <1>1, <2>1, <2>3 DEF ReplaceDerived, Index
<1>. HIDE DEF more
<1>3. /\ body \in Index
      /\ body.body = row.body /\ body.deleted = row.deleted
      /\ d.body[n] # b => body.derived = [d.derived EXCEPT ![n] = b]
      /\ d.body[n] = b => body.derived = d.derived /\ body.noteRes = d.noteRes
      /\ body.rebuilding = row.rebuilding /\ body.items = row.items /\ body.noteTags = row.noteTags
  BY <1>1, <1>2, RebuildNoteResourcesType DEF RebuildNoteResources, Index, BodyChanged
<1>4. d.body[n] # b => body.noteRes = {p \in NoteIds \X Resources :
                                         IF p[1] \in {n}
                                           THEN p[2] \in Linked(more, p[1]) /\ more.items[p[2]] # "none"
                                           ELSE p \in more.noteRes}
  BY <1>2 DEF RebuildNoteResources, Index, BodyChanged
<1>. HIDE DEF body
<1>5. /\ all \in Index
      /\ all.items = [e \in Items |-> IF e \in T THEN "live" ELSE body.items[e]]
      /\ all.body = body.body /\ all.deleted = body.deleted /\ all.derived = body.derived
      /\ all.rebuilding = body.rebuilding /\ all.noteRes = body.noteRes /\ all.noteTags = body.noteTags
  BY <1>3, UpsertItemsType DEF UpsertItems, Index, Items
<1>. HIDE DEF all
<1>6. r = ReplaceNoteTags(all, n, T)
  BY DEF ReindexNote, all, body, more, row
<1>. HIDE DEF r
<1>7. /\ r.noteTags = {p \in all.noteTags : p[1] # n} \cup ({n} \X T)
      /\ r.items = all.items /\ r.body = all.body /\ r.deleted = all.deleted
      /\ r.derived = all.derived /\ r.rebuilding = all.rebuilding /\ r.noteRes = all.noteRes
  BY <1>5, <1>6 DEF ReplaceNoteTags, Index
<1>8. /\ r.body = [d.body EXCEPT ![n] = b]
      /\ r.deleted = d.deleted \ {n}
      /\ d.body[n] # b => r.derived = [d.derived EXCEPT ![n] = b]
      /\ d.body[n] = b => r.derived = d.derived /\ r.noteRes = d.noteRes
      /\ r.rebuilding = d.rebuilding
      /\ r.items = [e \in Items |-> IF e \in T THEN "live" ELSE d.items[e]]
      /\ r.noteTags = {p \in d.noteTags : p[1] # n} \cup ({n} \X T)
  BY <1>1, <1>3, <1>5, <1>7
<1>9. ASSUME NEW p \in r.noteRes
      PROVE  \/ p \in d.noteRes /\ p[1] # n
             \/ p \in d.noteRes /\ d.body[n] = b
             \/ p[1] = n /\ p[2] \in Linked(r, n) /\ d.items[p[2]] # "none"
  <2>1. CASE d.body[n] = b
    BY <1>8, <2>1
  <2>2. CASE d.body[n] # b
    <3>1. Linked(r, n) = Linked(more, n)
      BY <2>2, <1>2, <1>8 DEF Linked
    <3>2. p \in {q \in NoteIds \X Resources :
                   IF q[1] \in {n}
                     THEN q[2] \in Linked(more, q[1]) /\ more.items[q[2]] # "none"
                     ELSE q \in more.noteRes}
      BY <2>2, <1>4, <1>5, <1>7
    <3>. QED
      BY <3>1, <3>2, <1>1, <1>2
  <2>. QED
    BY <2>1, <2>2
<1>10. d.body \in [NoteIds -> Bodies \cup {NoBody}] /\ d.derived \in [NoteIds -> Bodies \cup {NoBody}]
  BY DEF Index
<1>11. \A m \in NoteIds \ {n} : r.body[m] = d.body[m] /\ r.derived[m] = d.derived[m]
  BY <1>8, <1>10
<1>12. /\ r.body[n] = b
       /\ r.derived[n] = IF d.body[n] = b THEN d.derived[n] ELSE b
  BY <1>8, <1>10
<1>13. \A e \in Items : d.items[e] # "none" => r.items[e] # "none"
  BY <1>8
<1>14. ASSUME NEW p \in d.noteRes, p[1] # n \/ d.body[n] = b
       PROVE  p \in r.noteRes
  <2>1. CASE d.body[n] = b
    BY <1>8, <2>1
  <2>2. CASE d.body[n] # b
    <3>. p \in NoteIds \X Resources /\ p[1] # n /\ p \in more.noteRes
      BY <1>1, <1>2, <1>14, <2>2 DEF Index
    <3>. QED
      BY <2>2, <1>4, <1>5, <1>7
  <2>. QED
    BY <2>1, <2>2
<1>15. ASSUME d.body[n] # b, NEW q \in Resources, q \in Linked(r, n), d.items[q] # "none"
       PROVE  <<n, q>> \in r.noteRes
  <2>1. Linked(r, n) = Linked(more, n)
    BY <1>15, <1>2, <1>8 DEF Linked
  <2>2. <<n, q>> \in NoteIds \X Resources /\ <<n, q>>[1] = n /\ <<n, q>>[2] = q
    OBVIOUS
  <2>3. q \in Linked(more, n) /\ more.items[q] # "none"
    BY <1>1, <1>2, <1>15, <2>1
  <2>. QED
    BY <1>15, <2>2, <2>3, <1>4, <1>5, <1>7
<1>. QED
  BY <1>8, <1>9, <1>11, <1>12, <1>13, <1>14, <1>15 DEF r

\* The steps that write neither a body nor derived rows.
LEMMA BodiesKept ==
  ASSUME TypeInv, [Next]_vars, ~StartRebuild, ~RebuildNotes, ~WriteNote
  PROVE  db'.body = db.body /\ db'.derived = db.derived
<1>. USE DEF TypeInv, TypeOK
<1>0. db.body \in [NoteIds -> Bodies \cup {NoBody}] /\ db.derived \in [NoteIds -> Bodies \cup {NoBody}]
  BY DEF Index
<1>1. ASSUME NEW S \in SUBSET Items
      PROVE  LET d == UpsertItems(db, S) IN d \in Index /\ d.body = db.body /\ d.derived = db.derived
  BY UpsertItemsType DEF UpsertItems, Index
<1>2. ASSUME NEW d \in Index
      PROVE  LET r == RebuildNoteResources(d, NoteIds) IN r.body = d.body /\ r.derived = d.derived
  BY DEF RebuildNoteResources, Index
<1>3. /\ LiveItems(Folders) \in SUBSET Items
      /\ LiveItems(Tags) \in SUBSET Items
      /\ LiveItems(Resources) \in SUBSET Items
  BY DEF LiveItems, Items
<1>4. CASE RebuildFolders \/ RebuildTags \/ RebuildResources \/ RebuildLinks
  BY <1>1, <1>2, <1>3, <1>4 DEF RebuildFolders, RebuildTags, RebuildResources, RebuildLinks
<1>5. CASE RefreshFolders \/ RefreshTags \/ RefreshResources \/ RefreshLinks
  BY <1>1, <1>2, <1>3, <1>5 DEF RefreshFolders, RefreshTags, RefreshResources, RefreshLinks
<1>6. CASE \E t \in Tags : RebuildTagNotes(t)
  BY <1>6 DEF RebuildTagNotes, UpsertNoteTags, Index
<1>7. CASE FinishRebuild
  BY <1>7 DEF FinishRebuild, CompleteRebuild, SweepOrphans, Index
<1>8. CASE PollEmpty \/ PollInvalid \/ FinishSync
  BY <1>8 DEF PollEmpty, PollInvalid, FinishSync, AdvanceCursor, ClearCursor, Index
<1>9. CASE ApplyNoteDelete \/ ApplyNoteMissing \/ ApplyItemDelete
           \/ \E n \in NoteIds : ReindexOneMissing(n)
  BY <1>9 DEF ApplyNoteDelete, ApplyNoteMissing, ApplyItemDelete, ReindexOneMissing,
              MarkNoteDeleted, MarkItemDeleted, Index
<1>10. CASE PollBatch \/ ApplyNotePut \/ ApplyItemPut \/ \E n \in NoteIds : ReindexOne(n)
  BY <1>10 DEF PollBatch, ApplyNotePut, ApplyItemPut, ReindexOne
<1>11. CASE Abort \/ LibraryStep \/ UNCHANGED vars
  BY <1>11 DEF Abort, LibraryStep, vars
<1>. QED
  BY <1>4, <1>5, <1>6, <1>7, <1>8, <1>9, <1>10, <1>11
     DEF Next, FullRebuild, IncrementalSync, Reindex

\* What a write of reindex_note does to the index, whichever job called it.
LEMMA WriteNoteEffect ==
  ASSUME TypeInv, WriteNote
  PROVE  /\ run.note \in NoteIds /\ run.body \in Bodies \cup {NoBody}
         /\ db \in Index
         /\ TagsOfNote(run.note) \in SUBSET Tags
         /\ db' = ReindexNote(db, run.note, run.body, TagsOfNote(run.note))
BY DEF TypeInv, TypeOK, Fetched, WriteNote, TagsOfNote, Run

\* The same, note by note: either the rows are those of the new body, or the hash
\* gate left them alone.
LEMMA WriteNoteRows ==
  ASSUME TypeInv, WriteNote
  PROVE  /\ \A n \in NoteIds \ {run.note} :
              db'.body[n] = db.body[n] /\ db'.derived[n] = db.derived[n]
         /\ db'.body[run.note] = run.body
         /\ db'.derived[run.note] = IF db.body[run.note] = run.body THEN db.derived[run.note]
                                                                    ELSE run.body
         /\ db'.deleted = db.deleted \ {run.note}
         /\ db'.rebuilding = db.rebuilding
         /\ \A e \in Items : db.items[e] # "none" => db'.items[e] # "none"
         /\ \A p \in db'.noteRes :
              \/ p \in db.noteRes /\ p[1] # run.note
              \/ p \in db.noteRes /\ db.body[run.note] = run.body
              \/ p[1] = run.note /\ p[2] \in Linked(db', run.note) /\ db.items[p[2]] # "none"
         /\ \A p \in db.noteRes : p[1] # run.note \/ db.body[run.note] = run.body => p \in db'.noteRes
         /\ db.body[run.note] # run.body =>
              \A q \in Resources : q \in Linked(db', run.note) /\ db.items[q] # "none"
                                   => <<run.note, q>> \in db'.noteRes
         /\ db'.items = [e \in Items |-> IF e \in TagsOfNote(run.note) THEN "live" ELSE db.items[e]]
         /\ db'.noteTags = {p \in db.noteTags : p[1] # run.note} \cup ({run.note} \X TagsOfNote(run.note))
BY WriteNoteEffect, ReindexNoteEffect

\* A page of the rebuild leaves every note of the page with its own rows.
LEMMA RebuildNotesEffect ==
  ASSUME TypeInv, RebuildNotes
  PROVE  LET S == NotesPage(run.page)
         IN  /\ db'.body = [n \in NoteIds |-> IF n \in S THEN jop.body[n] ELSE db.body[n]]
             /\ db'.derived = [n \in NoteIds |-> IF n \in S THEN jop.body[n] ELSE db.derived[n]]
             /\ db'.deleted = db.deleted \ S
             /\ db'.noteRes = db.noteRes /\ db'.items = db.items
             /\ db'.rebuilding = db.rebuilding
<1>. DEFINE S   == NotesPage(run.page)
            row == UpsertNotes(db, S, jop.body)
<1>1. /\ db \in Index /\ S \in SUBSET NoteIds
      /\ jop.body \in [NoteIds -> Bodies \cup {NoBody}]
  BY DEF TypeInv, TypeOK, NotesPage, Library
<1>2. /\ row \in Index
      /\ row.body = [n \in NoteIds |-> IF n \in S THEN jop.body[n] ELSE db.body[n]]
      /\ row.derived = db.derived
      /\ row.deleted = db.deleted \ S
      /\ row.noteRes = db.noteRes /\ row.items = db.items /\ row.rebuilding = db.rebuilding
  BY <1>1, UpsertNotesType DEF UpsertNotes, Index
<1>3. db' = ReplaceDerived(row, S)
  BY DEF RebuildNotes
<1>. HIDE DEF row, S
<1>4. /\ db'.derived = [n \in NoteIds |-> IF n \in S THEN row.body[n] ELSE row.derived[n]]
      /\ db'.body = row.body /\ db'.deleted = row.deleted /\ db'.noteRes = row.noteRes
      /\ db'.items = row.items /\ db'.rebuilding = row.rebuilding
  BY <1>2, <1>3 DEF ReplaceDerived, Index
<1>. QED
  BY <1>2, <1>4 DEF S

\* DerivedNeverStale is preserved by every step.
LEMMA DerivedStep ==
  ASSUME TypeInv, DerivedNeverStale, [Next]_vars
  PROVE  DerivedNeverStale'
<1>. USE DEF DerivedNeverStale
<1>1. CASE StartRebuild
  BY <1>1 DEF StartRebuild, ResetDerived, TypeInv, TypeOK, Index
<1>2. CASE RebuildNotes
  BY <1>2, RebuildNotesEffect
<1>3. CASE WriteNote
  BY <1>3, WriteNoteRows
<1>4. CASE ~StartRebuild /\ ~RebuildNotes /\ ~WriteNote
  BY <1>4, BodiesKept
<1>. QED
  BY <1>1, <1>2, <1>3, <1>4

\* services.py:271-277 and 318-324: no schedule of rebuilds, syncs, reindexes,
\* failures and kills leaves the tasks and links of an older body beside a newer one.
THEOREM DerivedStaysCurrent == Spec => []DerivedNeverStale
<1>1. Init => DerivedNeverStale
  BY DEF Init, EmptyIndex, DerivedNeverStale
<1>2. TypeInv /\ DerivedNeverStale /\ [Next]_vars => DerivedNeverStale'
  BY DerivedStep
<1>. QED
  BY <1>1, <1>2, TypeInvariant, PTL DEF Spec
-----------------------------------------------------------------------------
(* note_resources                                                          *)

\* Until a rebuild has listed the resources, note_resources is as it was wiped: the
\* notes may get new links without leaving a pair behind.
ResourcesInv ==
  /\ NoteResourcesSound
  /\ pc \in {"folders", "notes", "tags", "tagNotes", "links"} => db.noteRes = {}

\* No write takes a row away, and few touch note_resources.
LEMMA ItemRowsKept ==
  ASSUME TypeInv, [Next]_vars
  PROVE  \A e \in Items : db.items[e] # "none" => db'.items[e] # "none"
<1>. USE DEF TypeInv, TypeOK
<1>0. db.items \in [Items -> {"none", "live", "deleted"}]
  BY DEF Index
<1>1. ASSUME NEW S \in SUBSET Items
      PROVE  /\ UpsertItems(db, S) \in Index
             /\ \A e \in Items : db.items[e] # "none" => UpsertItems(db, S).items[e] # "none"
  BY UpsertItemsType DEF UpsertItems, Index
<1>2. ASSUME NEW d \in Index
      PROVE  RebuildNoteResources(d, NoteIds).items = d.items
  BY DEF RebuildNoteResources, Index
<1>3. /\ LiveItems(Folders) \in SUBSET Items
      /\ LiveItems(Tags) \in SUBSET Items
      /\ LiveItems(Resources) \in SUBSET Items
  BY DEF LiveItems, Items
<1>4. CASE \/ RebuildFolders \/ RebuildTags \/ RebuildResources
           \/ RefreshFolders \/ RefreshTags \/ RefreshResources
  BY <1>1, <1>3, <1>4 DEF RebuildFolders, RebuildTags, RebuildResources, RebuildLinks,
     RefreshFolders, RefreshTags, RefreshResources, RefreshLinks
<1>5. CASE RebuildLinks \/ RefreshLinks
  BY <1>2, <1>5 DEF RebuildLinks, RefreshLinks
<1>6. CASE StartRebuild \/ \E t \in Tags : RebuildTagNotes(t)
  BY <1>6 DEF StartRebuild, ResetDerived, RebuildTagNotes, UpsertNoteTags, Index
<1>7. CASE RebuildNotes
  BY <1>7, RebuildNotesEffect
<1>8. CASE FinishRebuild
  BY <1>0, <1>8 DEF FinishRebuild, CompleteRebuild, SweepOrphans, Index
<1>9. CASE PollEmpty \/ PollInvalid \/ FinishSync
  BY <1>9 DEF PollEmpty, PollInvalid, FinishSync, AdvanceCursor, ClearCursor, Index
<1>10. CASE ApplyNoteDelete \/ ApplyNoteMissing \/ \E n \in NoteIds : ReindexOneMissing(n)
  BY <1>10 DEF ApplyNoteDelete, ApplyNoteMissing, ReindexOneMissing, MarkNoteDeleted, Index
<1>11. CASE ApplyItemDelete
  BY <1>0, <1>11 DEF ApplyItemDelete, MarkItemDeleted, Index
<1>12. CASE WriteNote
  BY <1>12, WriteNoteRows
<1>13. CASE PollBatch \/ ApplyNotePut \/ ApplyItemPut \/ \E n \in NoteIds : ReindexOne(n)
  BY <1>13 DEF PollBatch, ApplyNotePut, ApplyItemPut, ReindexOne
<1>14. CASE Abort \/ LibraryStep \/ UNCHANGED vars
  BY <1>14 DEF Abort, LibraryStep, vars
<1>. QED
  BY <1>4, <1>5, <1>6, <1>7, <1>8, <1>9, <1>10, <1>11, <1>12, <1>13, <1>14
     DEF Next, FullRebuild, IncrementalSync, Reindex

\* The steps that touch neither links, resource rows nor note_resources.
LEMMA NoteResourcesKept ==
  ASSUME TypeInv, [Next]_vars, ~StartRebuild, ~WriteNote, ~RebuildLinks, ~RefreshLinks
  PROVE  db'.noteRes = db.noteRes
<1>. USE DEF TypeInv, TypeOK
<1>1. CASE \/ RebuildFolders \/ RebuildTags \/ RebuildResources
           \/ RefreshFolders \/ RefreshTags \/ RefreshResources
  BY <1>1 DEF RebuildFolders, RebuildTags, RebuildResources, RebuildLinks, RefreshFolders, RefreshTags,
     RefreshResources, RefreshLinks, UpsertItems, Index
<1>2. CASE RebuildNotes
  BY <1>2, RebuildNotesEffect
<1>3. CASE \E t \in Tags : RebuildTagNotes(t)
  BY <1>3 DEF RebuildTagNotes, UpsertNoteTags, Index
<1>4. CASE FinishRebuild
  BY <1>4 DEF FinishRebuild, CompleteRebuild, SweepOrphans, Index
<1>5. CASE PollEmpty \/ PollInvalid \/ FinishSync
  BY <1>5 DEF PollEmpty, PollInvalid, FinishSync, AdvanceCursor, ClearCursor, Index
<1>6. CASE ApplyNoteDelete \/ ApplyNoteMissing \/ ApplyItemDelete
           \/ \E n \in NoteIds : ReindexOneMissing(n)
  BY <1>6 DEF ApplyNoteDelete, ApplyNoteMissing, ApplyItemDelete, ReindexOneMissing,
              MarkNoteDeleted, MarkItemDeleted, Index
<1>7. CASE PollBatch \/ ApplyNotePut \/ ApplyItemPut \/ \E n \in NoteIds : ReindexOne(n)
  BY <1>7 DEF PollBatch, ApplyNotePut, ApplyItemPut, ReindexOne
<1>8. CASE Abort \/ LibraryStep \/ UNCHANGED vars
  BY <1>8 DEF Abort, LibraryStep, vars
<1>. QED
  BY <1>1, <1>2, <1>3, <1>4, <1>5, <1>6, <1>7, <1>8
     DEF Next, FullRebuild, IncrementalSync, Reindex

\* A rebuild of the whole table justifies every pair it holds.
LEMMA RebuildNoteResourcesEffect ==
  ASSUME NEW d \in Index
  PROVE  LET r == RebuildNoteResources(d, NoteIds)
         IN  \A p \in r.noteRes : p[2] \in Linked(r, p[1]) /\ r.items[p[2]] # "none"
<1>. DEFINE r == RebuildNoteResources(d, NoteIds)
<1>1. /\ r.noteRes = {p \in NoteIds \X Resources :
                        IF p[1] \in NoteIds THEN p[2] \in Linked(d, p[1]) /\ d.items[p[2]] # "none"
                                            ELSE p \in d.noteRes}
      /\ r.items = d.items /\ r.derived = d.derived
  BY DEF RebuildNoteResources, Index
<1>2. \A n : Linked(r, n) = Linked(d, n)
  BY <1>1 DEF Linked
<1>. HIDE DEF r
<1>3. ASSUME NEW p \in r.noteRes
      PROVE  p[2] \in Linked(r, p[1]) /\ r.items[p[2]] # "none"
  BY <1>1, <1>2
<1>. QED
  BY <1>3 DEF r

\* The phases of a rebuild in which note_resources is empty follow one another.
LEMMA WipedPhases ==
  ASSUME TypeInv, [Next]_vars, pc' \in {"folders", "notes", "tags", "tagNotes", "links"}, ~StartRebuild
  PROVE  /\ pc \in {"folders", "notes", "tags", "tagNotes", "links"}
         /\ ~WriteNote /\ ~RebuildLinks /\ ~RefreshLinks
<1>1. CASE FullRebuild
  BY <1>1 DEF FullRebuild, RebuildFolders, RebuildNotes, RebuildTags, RebuildTagNotes,
              RebuildResources, RebuildLinks, FinishRebuild, Finished, WriteNote, RefreshResources, RefreshLinks, AtRefresh
<1>2. CASE IncrementalSync
  BY <1>2 DEF IncrementalSync, PollEmpty, PollBatch, PollInvalid, ApplyNoteDelete, ApplyNotePut,
              ApplyNoteMissing, ApplyItemDelete, ApplyItemPut, RefreshFolders, RefreshTags,
              RefreshResources, RefreshLinks, FinishSync, Finished, AtEvent, AtRefresh, WriteNote,
              RebuildResources, RebuildLinks
<1>3. CASE Reindex
  BY <1>3 DEF Reindex, ReindexOne, ReindexOneMissing, WriteNote, Finished, RebuildResources, RebuildLinks,
              RefreshResources, RefreshLinks, AtRefresh
<1>4. CASE Abort \/ LibraryStep \/ UNCHANGED vars
  BY <1>4 DEF Abort, LibraryStep, Finished, vars, WriteNote, RebuildResources, RebuildLinks, RefreshResources, RefreshLinks,
              AtRefresh
<1>. QED
  BY <1>1, <1>2, <1>3, <1>4 DEF Next

\* ResourcesInv is inductive.
LEMMA ResourcesStep ==
  ASSUME TypeInv, ResourcesInv, [Next]_vars
  PROVE  ResourcesInv'
<1>. USE DEF TypeInv, TypeOK
<1>0. \A p \in db.noteRes : p[1] \in NoteIds /\ p[2] \in Resources /\ p[2] \in Items
  BY DEF Index, Items
<1>1. CASE StartRebuild
  <2>. db'.noteRes = {}
    BY <1>1 DEF StartRebuild, ResetDerived, Index
  <2>. QED
    BY DEF ResourcesInv, NoteResourcesSound
<1>2. pc' \in {"folders", "notes", "tags", "tagNotes", "links"} => db'.noteRes = {}
  BY <1>1, WipedPhases, NoteResourcesKept DEF ResourcesInv
<1>3. CASE RebuildLinks \/ RefreshLinks
  <2>. db' = RebuildNoteResources(db, NoteIds)
    BY <1>3 DEF RebuildLinks, RefreshLinks
  <2>. QED
    BY <1>2, RebuildNoteResourcesEffect DEF ResourcesInv, NoteResourcesSound
<1>4. CASE RebuildNotes
  <2>. db.noteRes = {}
    BY <1>4 DEF RebuildNotes, ResourcesInv
  <2>. QED
    BY <1>2, <1>4, RebuildNotesEffect DEF ResourcesInv, NoteResourcesSound
<1>5. CASE WriteNote
  <2>. DEFINE n == run.note
  <2>1. ASSUME NEW p \in db'.noteRes
        PROVE  p[2] \in Linked(db', p[1]) /\ db'.items[p[2]] # "none"
    <3>1. \/ p \in db.noteRes /\ p[1] # n
          \/ p \in db.noteRes /\ db.body[n] = run.body
          \/ p[1] = n /\ p[2] \in Linked(db', n) /\ db.items[p[2]] # "none"
      BY <1>5, <2>1, WriteNoteRows
    <3>2. CASE p \in db.noteRes /\ p[1] # n
      BY <1>0, <1>5, <3>2, WriteNoteRows, ItemRowsKept DEF ResourcesInv, NoteResourcesSound, Linked
    <3>3. CASE p \in db.noteRes /\ db.body[n] = run.body
      <4>. db'.derived[p[1]] = db.derived[p[1]]
        BY <1>0, <1>5, <3>3, WriteNoteRows
      <4>. QED
        BY <1>0, <3>3, ItemRowsKept DEF ResourcesInv, NoteResourcesSound, Linked
    <3>4. CASE p[1] = n /\ p[2] \in Linked(db', n) /\ db.items[p[2]] # "none"
      <4>1. db' \in Index
        BY <1>5, WriteNoteEffect, ReindexNoteType
      <4>2. p[2] \in Items
        BY <2>1, <4>1 DEF Index, Items
      <4>. QED
        BY <3>4, <4>2, ItemRowsKept
    <3>. QED
      BY <3>1, <3>2, <3>3, <3>4
  <2>. QED
    BY <1>2, <2>1 DEF ResourcesInv, NoteResourcesSound
<1>6. CASE ~StartRebuild /\ ~RebuildLinks /\ ~RefreshLinks /\ ~RebuildNotes /\ ~WriteNote
  <2>1. db'.noteRes = db.noteRes /\ db'.derived = db.derived
    BY <1>6, NoteResourcesKept, BodiesKept
  <2>. QED
    BY <1>0, <1>2, <2>1, ItemRowsKept DEF ResourcesInv, NoteResourcesSound, Linked
<1>. QED
  BY <1>1, <1>3, <1>4, <1>5, <1>6

\* repositories.py:200-219: note_resources never holds a pair that the stored links
\* and resource rows do not justify.
THEOREM NoteResourcesJustified == Spec => []NoteResourcesSound
<1>1. Init => ResourcesInv
  BY DEF Init, EmptyIndex, ResourcesInv, NoteResourcesSound
<1>2. TypeInv /\ ResourcesInv /\ [Next]_vars => ResourcesInv'
  BY ResourcesStep
<1>. QED
  BY <1>1, <1>2, TypeInvariant, PTL DEF Spec, ResourcesInv
-----------------------------------------------------------------------------
(* The flag, when no note comes back and the listing is one page           *)

\* What a library in which deletion is final keeps true of itself.
FinalDeletions ==
  /\ jop.size <= MaxNotes
  /\ jop.trash \cap Present = {}
  /\ \A i \in 1 .. Len(jop.log) :
       jop.log[i].change = "delete" /\ jop.log[i].item \in NoteIds => jop.log[i].item \in jop.trash

\* Every row is of a note that is there or was deleted for good, and only the rows
\* of the latter are marked deleted.
RowsKnown ==
  /\ \A n \in NoteIds : db.body[n] # NoBody => n \in Present \cup jop.trash
  /\ db.deleted \subseteq jop.trash

\* A batch lies within the log.
BatchInLog == run.upto <= Len(jop.log) /\ (pc = "events" => run.next >= 1)

\* A note that is about to be written was there when it was fetched, so it is not
\* marked deleted.
FetchedNoteLive ==
  pc = "noteTags" => /\ run.body \in Bodies
                     /\ run.note \notin db.deleted
                     /\ run.note \in Present \cup jop.trash

\* After the listing, a row the rebuild has not stamped is of a deleted note, and one
\* it has stamped has its derived rows.
ListingExact ==
  /\ pc \in {"folders", "notes"} => run.page = 1 /\ run.fresh \cap NoteIds = {}
  /\ pc \in {"folders", "notes", "tags", "tagNotes", "links", "finish"} => db.rebuilding
  /\ pc \in {"tags", "tagNotes", "links", "finish"} =>
       \A n \in NoteIds : IF n \in run.fresh THEN db.derived[n] = db.body[n]
                          ELSE db.body[n] # NoBody => n \in jop.trash

WholeInv ==
  /\ FinalDeletions /\ RowsKnown /\ BatchInLog /\ FetchedNoteLive /\ ListingExact
  /\ FlagDownMeansWhole

\* One page holds the whole listing and a deleted note does not come back.
Settled == ~Restorable /\ MaxNotes <= PageLimit

\* The jobs only read Joplin.
LEMMA LibraryKept ==
  ASSUME TypeInv, [Next]_vars, ~LibraryStep
  PROVE  UNCHANGED jop
BY DEF Next, FullRebuild, StartRebuild, RebuildFolders, RebuildNotes, RebuildTags,
       RebuildTagNotes, RebuildResources, RebuildLinks, FinishRebuild, IncrementalSync, PollEmpty, PollBatch,
       PollInvalid, ApplyNoteDelete, ApplyNotePut, ApplyNoteMissing, ApplyItemDelete,
       ApplyItemPut, RefreshFolders, RefreshTags, RefreshResources, RefreshLinks, FinishSync, Reindex,
       ReindexOne, ReindexOneMissing, WriteNote, Abort, vars

\* A note of the library stays in it or is deleted for good; the log only grows.
LEMMA FinalDeletionsStep ==
  ASSUME Settled, TypeInv, FinalDeletions, JoplinNext
  PROVE  /\ FinalDeletions'
         /\ jop.trash \subseteq jop'.trash
         /\ Present \subseteq Present' \cup jop'.trash
         /\ Len(jop.log) <= Len(jop'.log)
<1>. USE DEF TypeInv, TypeOK
<1>0. /\ jop.log \in Seq(Event) /\ jop.size \in Nat
      /\ jop.body \in [NoteIds -> Bodies \cup {NoBody}] /\ NoBody \notin Bodies
  BY JoplinAssumption DEF Library
<1>1. ASSUME NEW e \in NoteIds \cup Items, NEW c \in Change, jop'.log = Logged(e, c)
      PROVE  /\ Len(jop'.log) = Len(jop.log) + 1
             /\ \A i \in 1 .. Len(jop.log) : jop'.log[i] = jop.log[i]
             /\ jop'.log[Len(jop.log) + 1].item = e
             /\ jop'.log[Len(jop.log) + 1].change = c
  BY <1>0, <1>1 DEF Logged
<1>2. ASSUME NEW e \in NoteIds \cup Items, NEW c \in Change, jop'.log = Logged(e, c),
             jop.trash \subseteq jop'.trash, c = "delete" /\ e \in NoteIds => e \in jop'.trash
      PROVE  /\ Len(jop.log) <= Len(jop'.log)
             /\ \A i \in 1 .. Len(jop'.log) :
                  jop'.log[i].change = "delete" /\ jop'.log[i].item \in NoteIds
                    => jop'.log[i].item \in jop'.trash
  <2>1. Len(jop.log) \in Nat /\ Len(jop'.log) = Len(jop.log) + 1
    BY <1>0, <1>1, <1>2
  <2>2. ASSUME NEW i \in 1 .. Len(jop'.log),
               jop'.log[i].change = "delete", jop'.log[i].item \in NoteIds
        PROVE  jop'.log[i].item \in jop'.trash
    <3>1. CASE i = Len(jop.log) + 1
      BY <1>1, <1>2, <2>2, <3>1
    <3>2. CASE i \in 1 .. Len(jop.log)
      BY <1>1, <1>2, <2>2, <3>2 DEF FinalDeletions
    <3>. QED
      BY <2>1, <3>1, <3>2
  <2>. QED
    BY <2>1, <2>2
<1>3. ASSUME NEW n \in NoteIds, NEW b \in Bodies, PutNote(n, b)
      PROVE  /\ FinalDeletions'
             /\ jop.trash \subseteq jop'.trash
             /\ Present \subseteq Present' \cup jop'.trash
             /\ Len(jop.log) <= Len(jop'.log)
  <2>1. /\ jop'.body = [jop.body EXCEPT ![n] = b]
        /\ jop'.trash = jop.trash
        /\ jop'.size = IF n \notin Present THEN jop.size + 1 ELSE jop.size
        /\ jop'.log = Logged(n, "put")
    BY <1>3 DEF PutNote, Library
  <2>2. Present' = Present \cup {n} /\ n \notin jop.trash /\ jop'.size <= MaxNotes
    BY <1>0, <1>3, <2>1, JoplinAssumption DEF PutNote, Present, FinalDeletions, Settled
  <2>3. /\ Len(jop.log) <= Len(jop'.log)
        /\ \A i \in 1 .. Len(jop'.log) :
             jop'.log[i].change = "delete" /\ jop'.log[i].item \in NoteIds
               => jop'.log[i].item \in jop'.trash
    BY <1>2, <2>1 DEF Change
  <2>. QED
    BY <2>1, <2>2, <2>3 DEF FinalDeletions
<1>4. ASSUME NEW n \in NoteIds, DeleteNote(n)
      PROVE  /\ FinalDeletions'
             /\ jop.trash \subseteq jop'.trash
             /\ Present \subseteq Present' \cup jop'.trash
             /\ Len(jop.log) <= Len(jop'.log)
  <2>1. /\ jop'.body = [jop.body EXCEPT ![n] = NoBody]
        /\ jop'.trash = jop.trash \cup {n}
        /\ jop'.size = jop.size - 1
        /\ jop'.log = Logged(n, "delete")
    BY <1>4 DEF DeleteNote, Library
  <2>2. Present' = Present \ {n} /\ jop'.size <= MaxNotes
    BY <1>0, <2>1, JoplinAssumption DEF Present, FinalDeletions
  <2>3. /\ Len(jop.log) <= Len(jop'.log)
        /\ \A i \in 1 .. Len(jop'.log) :
             jop'.log[i].change = "delete" /\ jop'.log[i].item \in NoteIds
               => jop'.log[i].item \in jop'.trash
    BY <1>2, <2>1 DEF Change
  <2>. QED
    BY <2>1, <2>2, <2>3 DEF FinalDeletions
<1>5. ASSUME NEW e \in NoteIds \cup Items, NEW c \in Change, jop'.log = Logged(e, c),
             jop'.trash = jop.trash, jop'.body = jop.body, jop'.size = jop.size,
             c = "delete" => e \notin NoteIds
      PROVE  /\ FinalDeletions'
             /\ jop.trash \subseteq jop'.trash
             /\ Present \subseteq Present' \cup jop'.trash
             /\ Len(jop.log) <= Len(jop'.log)
  BY <1>2, <1>5 DEF FinalDeletions, Present
<1>6. ASSUME NEW n \in NoteIds, NEW t \in Tags, Retag(n, t)
      PROVE  /\ jop'.log = Logged(n, "put") /\ jop'.trash = jop.trash
             /\ jop'.body = jop.body /\ jop'.size = jop.size
  BY <1>6 DEF Retag, Library
<1>7. ASSUME NEW e \in Items, CreateItem(e)
      PROVE  /\ jop'.log = Logged(e, "put") /\ jop'.trash = jop.trash
             /\ jop'.body = jop.body /\ jop'.size = jop.size
  BY <1>7 DEF CreateItem, Library
<1>8. ASSUME NEW e \in Items, DeleteItem(e)
      PROVE  /\ jop'.log = Logged(e, "delete") /\ jop'.trash = jop.trash
             /\ jop'.body = jop.body /\ jop'.size = jop.size
  BY <1>8 DEF DeleteItem, Library
<1>. QED
  BY <1>3, <1>4, <1>5, <1>6, <1>7, <1>8, JoplinAssumption DEF JoplinNext, Change

\* The only writes to the soft-delete flags and to rebuild_in_progress.
FlagStep ==
  \/ StartRebuild \/ RebuildNotes \/ FinishRebuild \/ WriteNote
  \/ ApplyNoteDelete \/ ApplyNoteMissing \/ \E n \in NoteIds : ReindexOneMissing(n)

\* Every other step leaves note rows, soft-delete flags and rebuild_in_progress alone.
LEMMA FlagsKept ==
  ASSUME TypeInv, [Next]_vars, ~FlagStep
  PROVE  /\ db'.body = db.body /\ db'.derived = db.derived
         /\ db'.deleted = db.deleted /\ db'.rebuilding = db.rebuilding
<1>. USE DEF TypeInv, TypeOK, FlagStep
<1>0. db'.body = db.body /\ db'.derived = db.derived
  BY BodiesKept
<1>1. ASSUME NEW d \in Index
      PROVE  LET r == RebuildNoteResources(d, NoteIds)
             IN  r.deleted = d.deleted /\ r.rebuilding = d.rebuilding
  BY DEF RebuildNoteResources, Index
<1>2. ASSUME NEW S \in SUBSET Items
      PROVE  LET d == UpsertItems(db, S)
             IN  d \in Index /\ d.deleted = db.deleted /\ d.rebuilding = db.rebuilding
  BY UpsertItemsType DEF UpsertItems, Index
<1>3. /\ LiveItems(Folders) \in SUBSET Items
      /\ LiveItems(Tags) \in SUBSET Items
      /\ LiveItems(Resources) \in SUBSET Items
  BY DEF LiveItems, Items
<1>4. CASE \/ RebuildFolders \/ RebuildTags \/ RebuildResources
           \/ RefreshFolders \/ RefreshTags \/ RefreshResources
  BY <1>0, <1>1, <1>2, <1>3, <1>4 DEF RebuildFolders, RebuildTags, RebuildResources, RebuildLinks,
     RefreshFolders, RefreshTags, RefreshResources, RefreshLinks
<1>5. CASE RebuildLinks \/ RefreshLinks \/ \E t \in Tags : RebuildTagNotes(t)
  BY <1>0, <1>1, <1>5 DEF RebuildLinks, RefreshLinks, RebuildTagNotes, UpsertNoteTags, Index
<1>6. CASE PollEmpty \/ PollInvalid \/ FinishSync \/ ApplyItemDelete
  BY <1>0, <1>6 DEF PollEmpty, PollInvalid, FinishSync, ApplyItemDelete, AdvanceCursor,
     ClearCursor, MarkItemDeleted, Index
<1>7. CASE PollBatch \/ ApplyNotePut \/ ApplyItemPut \/ \E n \in NoteIds : ReindexOne(n)
  BY <1>7 DEF PollBatch, ApplyNotePut, ApplyItemPut, ReindexOne
<1>8. CASE Abort \/ LibraryStep \/ UNCHANGED vars
  BY <1>8 DEF Abort, LibraryStep, vars
<1>. QED
  BY <1>4, <1>5, <1>6, <1>7, <1>8 DEF Next, FullRebuild, IncrementalSync, Reindex

\* mark_note_deleted touches one flag of one row.
LEMMA MarkNoteDeletedEffect ==
  ASSUME NEW d \in Index, NEW n \in NoteIds
  PROVE  LET r == MarkNoteDeleted(d, n)
         IN  /\ r.body = d.body /\ r.derived = d.derived /\ r.rebuilding = d.rebuilding
             /\ d.deleted \subseteq r.deleted
             /\ r.deleted \subseteq d.deleted \cup {n}
             /\ d.body[n] = NoBody => r.deleted = d.deleted
BY DEF MarkNoteDeleted, Index

\* A note is marked deleted only once it is in the trash for good.
LEMMA MarkStep ==
  ASSUME TypeInv, WholeInv,
         ApplyNoteDelete \/ ApplyNoteMissing \/ \E n \in NoteIds : ReindexOneMissing(n)
  PROVE  /\ db'.body = db.body /\ db'.derived = db.derived /\ db'.rebuilding = db.rebuilding
         /\ db'.deleted \subseteq jop.trash
         /\ db.deleted \subseteq db'.deleted
         /\ pc \in {"idle", "events"} /\ pc' = pc
<1>. USE DEF TypeInv, TypeOK, WholeInv
<1>1. ASSUME NEW n \in NoteIds, db' = MarkNoteDeleted(db, n), db.body[n] # NoBody => n \in jop.trash
      PROVE  /\ db'.body = db.body /\ db'.derived = db.derived /\ db'.rebuilding = db.rebuilding
             /\ db'.deleted \subseteq jop.trash
             /\ db.deleted \subseteq db'.deleted
  BY <1>1, MarkNoteDeletedEffect DEF RowsKnown
<1>2. CASE ApplyNoteDelete
  <2>1. run.next \in 1 .. Len(jop.log)
    BY <1>2 DEF ApplyNoteDelete, AtEvent, BatchInLog, Run, Library
  <2>2. Current.item \in NoteIds /\ Current.item \in jop.trash
    BY <1>2, <2>1 DEF ApplyNoteDelete, AtEvent, Current, FinalDeletions
  <2>. QED
    BY <1>1, <1>2, <2>2 DEF ApplyNoteDelete, AtEvent
<1>3. CASE ApplyNoteMissing
  <2>. Current.item \in NoteIds /\ (db.body[Current.item] # NoBody => Current.item \in jop.trash)
    BY <1>3 DEF ApplyNoteMissing, RowsKnown
  <2>. QED
    BY <1>1, <1>3 DEF ApplyNoteMissing, AtEvent
<1>4. ASSUME NEW n \in NoteIds, ReindexOneMissing(n)
      PROVE  /\ db'.body = db.body /\ db'.derived = db.derived /\ db'.rebuilding = db.rebuilding
             /\ db'.deleted \subseteq jop.trash
             /\ db.deleted \subseteq db'.deleted
             /\ pc \in {"idle", "events"} /\ pc' = pc
  <2>. db.body[n] # NoBody => n \in jop.trash
    BY <1>4 DEF ReindexOneMissing, RowsKnown
  <2>. QED
    BY <1>1, <1>4 DEF ReindexOneMissing
<1>. QED
  BY <1>2, <1>3, <1>4

\* The batch a sync is applying stays inside the log.
LEMMA BatchStep ==
  ASSUME TypeInv, BatchInLog, [Next]_vars, Len(jop.log) <= Len(jop'.log)
  PROVE  BatchInLog'
<1>. USE DEF TypeInv, TypeOK, BatchInLog
<1>0. /\ Len(jop.log) \in Nat /\ Len(jop'.log) \in Int
      /\ run.upto \in Nat /\ run.next \in Nat /\ db.cursor \in Nat \cup {NoCursor}
  BY TypeStep DEF Library, Run, Index
<1>1. ASSUME UNCHANGED run, pc' = "events" => pc = "events"
      PROVE  BatchInLog'
  BY <1>0, <1>1
<1>2. ASSUME run' = NoRun, pc' # "events"
      PROVE  BatchInLog'
  BY <1>0, <1>2 DEF NoRun
<1>3. ASSUME run'.upto = run.upto, pc' = "events" => run'.next \in Nat /\ run'.next >= 1
      PROVE  BatchInLog'
  BY <1>0, <1>3
<1>4. CASE PollBatch
  <2>1. EventsFrom(db.cursor) \in Nat /\ EventsUpto(db.cursor) <= Len(jop.log)
    BY <1>0, JoplinAssumption DEF EventsFrom, EventsUpto
  <2>2. run'.upto = EventsUpto(db.cursor) /\ run'.next = EventsFrom(db.cursor) + 1
    BY <1>4 DEF PollBatch, NoRun
  <2>3. EventsUpto(db.cursor) \in Nat
    BY <1>0, AnswerType
  <2>. QED
    BY <1>0, <2>1, <2>2, <2>3
<1>5. CASE FullRebuild
  <2>1. CASE StartRebuild
    BY <1>0, <2>1 DEF StartRebuild, NoRun
  <2>2. CASE FinishRebuild
    BY <1>2, <2>2 DEF FinishRebuild, Finished
  <2>3. CASE ~StartRebuild /\ ~FinishRebuild
    <3>. run'.upto = run.upto /\ pc' # "events"
      BY <1>5, <2>3 DEF FullRebuild, RebuildFolders, RebuildNotes, RebuildTags, RebuildTagNotes,
                        RebuildResources, RebuildLinks, Run
    <3>. QED
      BY <1>3
  <2>. QED
    BY <2>1, <2>2, <2>3
<1>6. CASE PollEmpty \/ PollInvalid \/ \E n \in NoteIds : ReindexOneMissing(n)
  BY <1>1, <1>6 DEF PollEmpty, PollInvalid, ReindexOneMissing
<1>7. CASE ApplyNoteDelete \/ ApplyNoteMissing \/ ApplyItemDelete \/ ApplyItemPut \/ ApplyNotePut
  <2>1. CASE ApplyNotePut
    BY <1>3, <2>1 DEF ApplyNotePut, Run
  <2>2. CASE ~ApplyNotePut
    <3>. pc = "events" /\ run'.upto = run.upto /\ run'.next = run.next + 1
      BY <1>7, <2>2 DEF ApplyNoteDelete, ApplyNoteMissing, ApplyItemDelete, ApplyItemPut,
                        Consumed, AtEvent, Run
    <3>. QED
      BY <1>0, <1>3
  <2>. QED
    BY <2>1, <2>2
<1>8. CASE RefreshFolders \/ RefreshTags \/ RefreshResources \/ RefreshLinks
  BY <1>0, <1>3, <1>8 DEF RefreshFolders, RefreshTags, RefreshResources, RefreshLinks, Refreshed, AtRefresh, Run
<1>9. CASE FinishSync \/ Abort
  BY <1>2, <1>9 DEF FinishSync, Abort, Finished
<1>10. CASE \E n \in NoteIds : ReindexOne(n)
  BY <1>0, <1>10 DEF ReindexOne, NoRun
<1>11. CASE WriteNote
  <2>1. CASE run.upto = 0
    BY <1>2, <1>11, <2>1 DEF WriteNote, Finished
  <2>2. CASE run.upto # 0
    <3>. run'.upto = run.upto /\ run'.next = run.next + 1
      BY <1>11, <2>2 DEF WriteNote, Run
    <3>. QED
      BY <1>0, <1>3
  <2>. QED
    BY <2>1, <2>2
<1>12. CASE LibraryStep \/ UNCHANGED vars
  BY <1>1, <1>12 DEF LibraryStep, vars
<1>. QED
  BY <1>4, <1>5, <1>6, <1>7, <1>8, <1>9, <1>10, <1>11, <1>12
     DEF Next, IncrementalSync, Reindex

\* A step that writes no body and soft-deletes only notes that are in the trash.
LEMMA RowsKnownUnlessMoved ==
  ASSUME RowsKnown, UNCHANGED jop, db'.body = db.body, db'.deleted \subseteq jop.trash
  PROVE  RowsKnown'
BY DEF RowsKnown, Present

\* A step that leaves the library alone.
LEMMA FinalDeletionsUnlessMoved ==
  ASSUME FinalDeletions, UNCHANGED jop
  PROVE  FinalDeletions'
BY DEF FinalDeletions, Present

\* The rest of a rebuild stamps no note, and writes no note's rows.
LEMMA ListingExactKept ==
  ASSUME TypeInv, ListingExact, [Next]_vars, ~FlagStep, ~LibraryStep
  PROVE  ListingExact'
<1>. USE DEF TypeInv, TypeOK
<1>0. /\ UNCHANGED jop
      /\ db'.body = db.body /\ db'.derived = db.derived /\ db'.rebuilding = db.rebuilding
  BY LibraryKept, FlagsKept
<1>1. CASE RebuildFolders
  <2>1. LiveItems(Folders) \cap NoteIds = {}
    BY JoplinAssumption DEF LiveItems, Items
  <2>2. /\ pc = "folders" /\ pc' = "notes" /\ run'.page = run.page
        /\ run'.fresh = run.fresh \cup LiveItems(Folders)
    BY <1>1 DEF RebuildFolders, Run
  <2>. QED
    BY <1>0, <2>1, <2>2 DEF ListingExact
<1>2. CASE RebuildTags \/ RebuildResources \/ RebuildLinks \/ \E t \in Tags : RebuildTagNotes(t)
  <2>1. /\ pc \in {"tags", "tagNotes", "links"} /\ pc' \in {"tagNotes", "links", "finish"}
        /\ \A n \in NoteIds : n \in run'.fresh <=> n \in run.fresh
    <3>. \A e \in LiveItems(Tags) \cup LiveItems(Resources) : e \notin NoteIds
      BY JoplinAssumption DEF LiveItems, Items
    <3>1. CASE RebuildTags
      <4>. pc = "tags" /\ pc' = "tagNotes" /\ run'.fresh = run.fresh \cup LiveItems(Tags)
        BY <3>1 DEF RebuildTags, Run
      <4>. QED
        OBVIOUS
    <3>2. CASE RebuildResources
      <4>. pc = "tagNotes" /\ pc' = "links" /\ run'.fresh = run.fresh \cup LiveItems(Resources)
        BY <3>2 DEF RebuildResources, RebuildLinks, Run
      <4>. QED
        OBVIOUS
    <3>3. CASE RebuildLinks \/ \E t \in Tags : RebuildTagNotes(t)
      BY <3>3 DEF RebuildLinks, RebuildTagNotes, Run
    <3>. QED
      BY <1>2, <3>1, <3>2, <3>3
  <2>. QED
    BY <1>0, <2>1 DEF ListingExact
<1>3. CASE Abort \/ PollBatch \/ ApplyNotePut \/ FinishSync \/ \E n \in NoteIds : ReindexOne(n)
  <2>. pc' \in {"idle", "events", "noteTags"}
    BY <1>3 DEF Abort, PollBatch, ApplyNotePut, FinishSync, ReindexOne, Finished
  <2>. QED
    BY DEF ListingExact
<1>4. CASE \/ PollEmpty \/ PollInvalid \/ ApplyItemDelete \/ ApplyItemPut
           \/ RefreshFolders \/ RefreshTags \/ RefreshResources \/ RefreshLinks
  <2>. pc' \in {"idle", "events"}
    BY <1>4 DEF PollEmpty, PollInvalid, ApplyItemDelete, ApplyItemPut, RefreshFolders,
       RefreshTags, RefreshResources, RefreshLinks, AtEvent, AtRefresh
  <2>. QED
    BY DEF ListingExact
<1>5. CASE UNCHANGED vars
  BY <1>5 DEF vars, ListingExact
<1>. QED
  BY <1>1, <1>2, <1>3, <1>4, <1>5 DEF FlagStep, Next, FullRebuild, IncrementalSync, Reindex

\* A note that is fetched is not soft-deleted, and nothing deletes it while it waits.
LEMMA FetchedNoteLiveKept ==
  ASSUME TypeInv, WholeInv, [Next]_vars, ~FlagStep, ~LibraryStep
  PROVE  FetchedNoteLive'
<1>. USE DEF TypeInv, TypeOK, WholeInv
<1>0. UNCHANGED jop /\ db'.deleted = db.deleted
  BY LibraryKept, FlagsKept
<1>1. ASSUME NEW n \in Present, run'.note = n, run'.body = jop.body[n]
      PROVE  FetchedNoteLive'
  <2>. n \in NoteIds /\ jop.body[n] \in Bodies /\ n \notin db.deleted
    BY DEF Present, Library, FinalDeletions, RowsKnown
  <2>. QED
    BY <1>0, <1>1 DEF FetchedNoteLive, Present
<1>2. CASE ApplyNotePut
  <2>. run'.note = Current.item /\ run'.body = jop.body[Current.item] /\ Current.item \in Present
    BY <1>2 DEF ApplyNotePut, Run
  <2>. QED
    BY <1>1
<1>3. ASSUME NEW n \in NoteIds, ReindexOne(n)
      PROVE  FetchedNoteLive'
  <2>. run'.note = n /\ run'.body = jop.body[n] /\ n \in Present
    BY <1>3 DEF ReindexOne, NoRun
  <2>. QED
    BY <1>1
<1>4. CASE FullRebuild
  <2>. pc' # "noteTags"
    BY <1>4 DEF FullRebuild, StartRebuild, RebuildFolders, RebuildNotes, RebuildTags,
       RebuildTagNotes, RebuildResources, RebuildLinks, FinishRebuild, Finished
  <2>. QED
    BY DEF FetchedNoteLive
<1>5. CASE IncrementalSync /\ ~ApplyNotePut
  <2>. pc' # "noteTags"
    BY <1>5 DEF IncrementalSync, PollEmpty, PollBatch, PollInvalid, ApplyNoteDelete,
       ApplyNoteMissing, ApplyItemDelete, ApplyItemPut, RefreshFolders, RefreshTags,
       RefreshResources, RefreshLinks, FinishSync, Finished, AtEvent, AtRefresh
  <2>. QED
    BY DEF FetchedNoteLive
<1>6. CASE Abort
  BY <1>6 DEF Abort, Finished, FetchedNoteLive
<1>7. CASE UNCHANGED vars
  BY <1>7 DEF vars, FetchedNoteLive, Present
<1>. QED
  BY <1>2, <1>3, <1>4, <1>5, <1>6, <1>7 DEF FlagStep, Next, Reindex

\* A change of the library preserves WholeInv.
LEMMA WholeLibraryStep ==
  ASSUME Settled, TypeInv, WholeInv, LibraryStep
  PROVE  WholeInv'
<1>1. /\ FinalDeletions'
      /\ jop.trash \subseteq jop'.trash
      /\ Present \subseteq Present' \cup jop'.trash
      /\ Len(jop.log) <= Len(jop'.log)
  BY FinalDeletionsStep DEF LibraryStep, WholeInv
<1>2. BatchInLog'
  BY <1>1, BatchStep DEF WholeInv, Next
<1>3. RowsKnown' /\ FetchedNoteLive' /\ ListingExact' /\ FlagDownMeansWhole'
  BY <1>1 DEF LibraryStep, WholeInv, RowsKnown, FetchedNoteLive, ListingExact,
     FlagDownMeansWhole, LiveNotes
<1>. QED
  BY <1>1, <1>2, <1>3 DEF WholeInv

\* The only page of the listing holds every note there is.
LEMMA OnePage ==
  ASSUME Settled, TypeInv, FinalDeletions
  PROVE  NotesPage(1) = Present /\ ~HasMore(1)
<1>1. /\ jop.size \in Nat /\ jop.size <= PageLimit
      /\ \A n \in NoteIds : jop.pos[n] \in Nat
  BY JoplinAssumption DEF Settled, TypeInv, TypeOK, Library, FinalDeletions
<1>2. \A n \in NoteIds : n \in Present <=> 0 < jop.pos[n] /\ jop.pos[n] <= PageLimit
  BY <1>1, JoplinAssumption DEF TypeInv, Placed
<1>3. NotesPage(1) = {n \in NoteIds : 0 < jop.pos[n] /\ jop.pos[n] <= PageLimit}
  BY JoplinAssumption DEF NotesPage
<1>. QED
  BY <1>1, <1>2, <1>3, JoplinAssumption DEF HasMore, Present

\* WholeInv is inductive.
LEMMA WholeStep ==
  ASSUME Settled, TypeInv, WholeInv, [Next]_vars
  PROVE  WholeInv'
<1>. USE DEF TypeInv, TypeOK
<1>0. CASE LibraryStep
  BY <1>0, WholeLibraryStep
<1>. SUFFICES ASSUME ~LibraryStep
              PROVE  WholeInv'
  BY <1>0
<1>1. UNCHANGED jop /\ FinalDeletions'
  BY LibraryKept, FinalDeletionsUnlessMoved DEF WholeInv
<1>2. BatchInLog'
  <2>. Len(jop.log) <= Len(jop'.log)
    BY <1>1 DEF Library
  <2>. QED
    BY BatchStep DEF WholeInv
<1>3. CASE StartRebuild
  <2>1. /\ db'.body = db.body /\ db'.deleted = db.deleted /\ db'.rebuilding = TRUE
        /\ pc' = "folders" /\ run'.page = 1 /\ run'.fresh = {}
    BY <1>3 DEF StartRebuild, ResetDerived, Index, NoRun
  <2>2. RowsKnown'
    BY <1>1, <2>1, RowsKnownUnlessMoved DEF WholeInv, RowsKnown
  <2>. QED
    BY <1>1, <1>2, <2>1, <2>2 DEF WholeInv, FetchedNoteLive, ListingExact, FlagDownMeansWhole
<1>4. CASE RebuildNotes
  <2>1. /\ pc = "notes" /\ run.page = 1 /\ db.rebuilding
        /\ pc' = "tags" /\ run'.fresh = run.fresh \cup Present /\ run.fresh \cap NoteIds = {}
    BY <1>4, OnePage DEF RebuildNotes, WholeInv, ListingExact, Run
  <2>2. /\ db'.body = [n \in NoteIds |-> IF n \in Present THEN jop.body[n] ELSE db.body[n]]
        /\ db'.derived = [n \in NoteIds |-> IF n \in Present THEN jop.body[n] ELSE db.derived[n]]
        /\ db'.deleted = db.deleted \ Present
        /\ db'.rebuilding = db.rebuilding
    BY <1>4, <2>1, OnePage, RebuildNotesEffect DEF WholeInv
  <2>3. RowsKnown'
    BY <1>1, <2>2 DEF WholeInv, RowsKnown, Present
  <2>4. ListingExact'
    BY <1>1, <2>1, <2>2 DEF WholeInv, ListingExact, RowsKnown
  <2>. QED
    BY <1>1, <1>2, <2>1, <2>2, <2>3, <2>4 DEF WholeInv, FetchedNoteLive, FlagDownMeansWhole
<1>5. CASE FinishRebuild
  <2>1. /\ db'.body = db.body /\ db'.derived = db.derived
        /\ db'.deleted = db.deleted \cup (LiveNotes(db) \ run.fresh)
        /\ pc = "finish" /\ pc' = "idle"
    BY <1>5 DEF FinishRebuild, Finished, CompleteRebuild, SweepOrphans, Index
  <2>2. LiveNotes(db) \ run.fresh \subseteq jop.trash
    BY <2>1 DEF WholeInv, ListingExact, LiveNotes
  <2>3. RowsKnown'
    BY <1>1, <2>1, <2>2, RowsKnownUnlessMoved DEF WholeInv, RowsKnown
  <2>4. FlagDownMeansWhole'
    BY <2>1 DEF WholeInv, ListingExact, FlagDownMeansWhole, LiveNotes
  <2>. QED
    BY <1>1, <1>2, <2>1, <2>3, <2>4 DEF WholeInv, FetchedNoteLive, ListingExact
<1>6. CASE WriteNote
  <2>1. /\ run.note \in NoteIds /\ run.body \in Bodies
        /\ run.note \notin db.deleted /\ run.note \in Present \cup jop.trash
        /\ pc = "noteTags" /\ pc' \in {"idle", "events"}
    BY <1>6 DEF WriteNote, Finished, Fetched, WholeInv, FetchedNoteLive
  <2>2. RowsKnown'
    <3>1. ASSUME NEW n \in NoteIds, db'.body[n] # NoBody
          PROVE  n \in Present \cup jop.trash
      BY <1>6, <2>1, <3>1, WriteNoteRows DEF WholeInv, RowsKnown
    <3>2. db'.deleted \subseteq jop.trash
      BY <1>6, WriteNoteRows DEF WholeInv, RowsKnown
    <3>. QED
      BY <1>1, <3>1, <3>2 DEF RowsKnown, Present
  <2>3. FlagDownMeansWhole'
    <3>1. ASSUME ~db'.rebuilding, NEW n \in LiveNotes(db')
          PROVE  db'.derived[n] = db'.body[n]
      <4>1. CASE n = run.note
        <5>1. CASE db.body[n] = run.body
          <6>. n \in LiveNotes(db) /\ ~db.rebuilding
            BY <1>6, <2>1, <3>1, <4>1, <5>1, WriteNoteRows, JoplinAssumption DEF LiveNotes
          <6>. QED
            BY <1>6, <4>1, <5>1, WriteNoteRows DEF WholeInv, FlagDownMeansWhole
        <5>2. CASE db.body[n] # run.body
          BY <1>6, <4>1, <5>2, WriteNoteRows
        <5>. QED
          BY <5>1, <5>2
      <4>2. CASE n # run.note
        BY <1>6, <3>1, <4>2, WriteNoteRows DEF WholeInv, FlagDownMeansWhole, LiveNotes
      <4>. QED
        BY <4>1, <4>2
    <3>. QED
      BY <3>1 DEF FlagDownMeansWhole
  <2>. QED
    BY <1>1, <1>2, <2>1, <2>2, <2>3 DEF WholeInv, FetchedNoteLive, ListingExact
<1>7. CASE ApplyNoteDelete \/ ApplyNoteMissing \/ \E n \in NoteIds : ReindexOneMissing(n)
  <2>1. /\ db'.body = db.body /\ db'.derived = db.derived /\ db'.rebuilding = db.rebuilding
        /\ db'.deleted \subseteq jop.trash /\ db.deleted \subseteq db'.deleted
        /\ pc' \in {"idle", "events"}
    BY <1>7, MarkStep
  <2>2. RowsKnown'
    BY <1>1, <2>1, RowsKnownUnlessMoved DEF WholeInv
  <2>. QED
    BY <1>1, <1>2, <2>1, <2>2 DEF WholeInv, FetchedNoteLive, ListingExact, FlagDownMeansWhole,
       LiveNotes
<1>8. CASE ~FlagStep
  <2>1. /\ db'.body = db.body /\ db'.derived = db.derived
        /\ db'.deleted = db.deleted /\ db'.rebuilding = db.rebuilding
    BY <1>8, FlagsKept
  <2>2. RowsKnown'
    BY <1>1, <2>1, RowsKnownUnlessMoved DEF WholeInv, RowsKnown
  <2>3. FlagDownMeansWhole'
    BY <2>1 DEF WholeInv, FlagDownMeansWhole, LiveNotes
  <2>4. FetchedNoteLive' /\ ListingExact'
    BY <1>8, FetchedNoteLiveKept, ListingExactKept DEF WholeInv
  <2>. QED
    BY <1>1, <1>2, <2>2, <2>3, <2>4 DEF WholeInv
<1>. QED
  BY <1>3, <1>4, <1>5, <1>6, <1>7, <1>8 DEF FlagStep

\* The empty index satisfies WholeInv.
LEMMA WholeInit ==
  ASSUME Init
  PROVE  WholeInv
<1>1. /\ jop.size <= MaxNotes /\ jop.trash = {} /\ jop.log = <<>>
  BY DEF Init, JoplinInit
<1>2. Len(jop.log) = 0
  BY <1>1
<1>. QED
  BY <1>1, <1>2 DEF Init, EmptyIndex, NoRun, WholeInv, FinalDeletions, RowsKnown, BatchInLog,
     FetchedNoteLive, ListingExact, FlagDownMeansWhole, LiveNotes

\* db.py:33-36: with the flag down, every note the views show has its tasks and
\* links.  It takes a library whose listing fits a page and whose deletions are
\* final: without either of the two TLC finds a schedule that loses the rows.
THEOREM FlagDownIsWhole ==
  ASSUME Settled
  PROVE  Spec => []FlagDownMeansWhole
<1>1. Init => WholeInv
  BY WholeInit
<1>2. TypeInv /\ WholeInv /\ [Next]_vars => WholeInv'
  BY WholeStep
<1>3. WholeInv => FlagDownMeansWhole
  BY DEF WholeInv
<1>. QED
  BY <1>1, <1>2, <1>3, TypeInvariant, PTL DEF Spec

\* services.py:154: sweep_orphans is exact, under the same two conditions.
THEOREM SweepIsExact ==
  ASSUME Settled
  PROVE  Spec => SweepOnlyOrphans
<1>1. Init => WholeInv
  BY WholeInit
<1>2. TypeInv /\ WholeInv /\ [Next]_vars => WholeInv'
  BY WholeStep
<1>3. ASSUME TypeInv, WholeInv, [Next]_vars
      PROVE  [db.rebuilding /\ ~db'.rebuilding => (db'.deleted \ db.deleted) \cap Present = {}]_vars
  <2>1. CASE FinishRebuild
    <3>1. db'.deleted = db.deleted \cup (LiveNotes(db) \ run.fresh) /\ pc = "finish"
      BY <1>3, <2>1 DEF FinishRebuild, CompleteRebuild, SweepOrphans, Index, TypeInv, TypeOK
    <3>2. LiveNotes(db) \ run.fresh \subseteq jop.trash
      BY <1>3, <3>1 DEF WholeInv, ListingExact, LiveNotes
    <3>. QED
      BY <1>3, <3>1, <3>2 DEF WholeInv, FinalDeletions
  <2>2. CASE ~FinishRebuild /\ db.rebuilding
    <3>1. CASE StartRebuild
      BY <3>1 DEF StartRebuild, ResetDerived, Index, TypeInv, TypeOK
    <3>2. CASE RebuildNotes
      BY <1>3, <2>2, <3>2, RebuildNotesEffect
    <3>3. CASE WriteNote
      BY <1>3, <2>2, <3>3, WriteNoteRows
    <3>4. CASE ApplyNoteDelete \/ ApplyNoteMissing \/ \E n \in NoteIds : ReindexOneMissing(n)
      BY <1>3, <2>2, <3>4, MarkStep
    <3>5. CASE ~FlagStep
      BY <1>3, <2>2, <3>5, FlagsKept
    <3>. QED
      BY <2>2, <3>1, <3>2, <3>3, <3>4, <3>5 DEF FlagStep
  <2>. QED
    BY <2>1, <2>2
<1>. QED
  BY <1>1, <1>2, <1>3, TypeInvariant, PTL DEF Spec, SweepOnlyOrphans
-----------------------------------------------------------------------------
(* The index against the library, when the event log is replayed from its  *)
(* start                                                                   *)

\* An event about e behind place k of the log; a deletion of e there.
After(log, e, k) == \E i \in 1 .. Len(log) : i > k /\ log[i].item = e
Gone(log, e, k)  == \E i \in 1 .. Len(log) : i > k /\ log[i].item = e /\ log[i].change = "delete"

\* How far the stored cursor is, and how far the batch under way is.
Saved   == IF db.cursor = NoCursor THEN 0 ELSE db.cursor
Applied == IF run.upto = 0 THEN Saved ELSE run.next - 1

\* What is still to come: for the batch under way, and for the next one if it fails.
Unread(e)  == After(jop.log, e, Applied)
Removal(e) == Gone(jop.log, e, Applied)
Pending(e) == After(jop.log, e, Saved)

Refilling    == pc \in {"folders", "notes", "tags", "tagNotes", "links", "finish"}
Complete     == db.built /\ ~db.rebuilding
Known(steps) == pc \in steps \/ Complete

\* The library: what was deleted stays so, and only live tags have notes.
LibraryInv ==
  /\ \A i \in 1 .. Len(jop.log) :
       jop.log[i].change = "delete" /\ jop.log[i].item \in Items => jop.items[jop.log[i].item] = "gone"
  /\ \A p \in jop.member : jop.items[p[2]] = "live"

\* The local variables of the job under way.
BatchInv ==
  /\ Saved <= Len(jop.log)
  /\ Refilling => db.rebuilding /\ db.cursor = NoCursor
  /\ pc \notin {"events", "noteTags"} => run.upto = 0
  /\ pc = "events" => run.upto # 0
  /\ run.upto = 0 => run.refresh = {}
  /\ run.upto # 0 => Saved <= run.next - 1 /\ run.next - 1 <= run.upto /\ run.upto <= Len(jop.log)
  /\ pc = "noteTags" /\ run.upto # 0 => run.next <= run.upto /\ jop.log[run.next].item = run.note
  /\ pc = "tagNotes" \/ run.tagIds = {}

\* A note between its two requests is as it was fetched, or an event behind the one
\* being handled says it is not.
Handled == IF run.upto = 0 THEN Saved ELSE run.next

FetchedInv ==
  pc = "noteTags" =>
    IF run.note \in Present
      THEN run.body = jop.body[run.note] \/ After(jop.log, run.note, Handled)
      ELSE Gone(jop.log, run.note, Handled)

\* A note the views show is in the library or about to be removed; once the notes
\* have been listed, each is stored as it is or about to be fetched.
NotesInv ==
  /\ \A n \in LiveNotes(db) \ Present : Removal(n)
  /\ Known({"tags", "tagNotes", "links", "finish"}) =>
       \A n \in Present : db.body[n] = jop.body[n] \/ Unread(n)

\* Has the refill got past the listing of e's kind?
ItemsKnown(e) ==
  \/ e \in Folders   /\ Known({"notes", "tags", "tagNotes", "links", "finish"})
  \/ e \in Tags      /\ Known({"tagNotes", "links", "finish"})
  \/ e \in Resources /\ Known({"links", "finish"})

\* An item stored as live that is not is about to be removed; a live one, once its kind
\* has been listed, is stored, or its event is ahead, or a refresh of its kind is due.
StrayItems ==
  \A e \in Items : db.items[e] = "live" /\ jop.items[e] # "live" => Removal(e)

ListedItems ==
  \A e \in Items : ItemsKnown(e) /\ jop.items[e] = "live" =>
    \/ db.items[e] = "live" /\ (Refilling => e \in run.fresh)
    \/ Pending(e) /\ (Unread(e) \/ KindOf(e) \in run.refresh)

\* The same of the membership of the notes there are: of a tag whose notes the refill
\* has yet to list nothing is said.
StrayTags ==
  \A n \in Present, u \in Tags : <<n, u>> \in db.noteTags \ jop.member => Unread(n) \/ Removal(u)

ListedTags ==
  Known({"tagNotes", "links", "finish"}) =>
    \A n \in Present, u \in Tags \ run.tagIds : <<n, u>> \in jop.member \ db.noteTags => Unread(n)

\* And of note_resources: a link to a live resource is joined, or the table is about
\* to be rebuilt.
LinksInv ==
  Known({"finish"}) =>
    \A n \in NoteIds : \A r \in Linked(db, n) :
      db.items[r] = "live" /\ <<n, r>> \notin db.noteRes =>
        Pending(r) /\ (Unread(r) \/ run.refresh \cap {"resources", "links"} # {})

\* The steps that take the next event off the batch.
Consuming ==
  \/ ApplyNoteDelete \/ ApplyNoteMissing \/ ApplyItemDelete \/ ApplyItemPut
  \/ WriteNote /\ run.upto # 0

\* The types the arithmetic below needs.
LEMMA BatchTypes ==
  ASSUME TypeInv
  PROVE  /\ Len(jop.log) \in Nat /\ jop.log \in Seq(Event)
         /\ run.upto \in Nat /\ run.next \in Nat
         /\ db.cursor \in Nat \cup {NoCursor} /\ NoCursor \notin Nat /\ BatchLimit \in Nat \ {0}
         /\ Saved \in Nat
BY JoplinAssumption DEF TypeInv, TypeOK, Library, Run, Index, Saved, NoCursor

\* The steps that move the cursor.
LEMMA CursorKept ==
  ASSUME TypeInv, [Next]_vars, ~StartRebuild, ~PollEmpty, ~PollInvalid, ~FinishSync
  PROVE  db'.cursor = db.cursor
<1>. USE DEF TypeInv, TypeOK
<1>1. CASE \/ RebuildFolders \/ RebuildTags \/ RebuildResources
           \/ RefreshFolders \/ RefreshTags \/ RefreshResources
  BY <1>1 DEF RebuildFolders, RebuildTags, RebuildResources, RefreshFolders, RefreshTags,
     RefreshResources, UpsertItems, Index
<1>2. CASE RebuildNotes
  <2>. db' = ReplaceDerived(UpsertNotes(db, NotesPage(run.page), jop.body), NotesPage(run.page))
    BY <1>2 DEF RebuildNotes
  <2>. QED
    BY DEF ReplaceDerived, UpsertNotes, Index
<1>3. CASE RebuildLinks \/ RefreshLinks \/ \E t \in Tags : RebuildTagNotes(t)
  BY <1>3 DEF RebuildLinks, RefreshLinks, RebuildTagNotes, RebuildNoteResources, UpsertNoteTags, Index
<1>4. CASE FinishRebuild
  BY <1>4 DEF FinishRebuild, CompleteRebuild, SweepOrphans, Index
<1>5. CASE ApplyNoteDelete \/ ApplyNoteMissing \/ ApplyItemDelete
           \/ \E n \in NoteIds : ReindexOneMissing(n)
  BY <1>5 DEF ApplyNoteDelete, ApplyNoteMissing, ApplyItemDelete, ReindexOneMissing,
              MarkNoteDeleted, MarkItemDeleted, Index
<1>6. CASE WriteNote
  BY <1>6, WriteNoteEffect DEF ReindexNote, UpsertNotes, ReplaceDerived, RebuildNoteResources,
     UpsertItems, ReplaceNoteTags, Index
<1>7. CASE PollBatch \/ ApplyNotePut \/ ApplyItemPut \/ \E n \in NoteIds : ReindexOne(n)
  BY <1>7 DEF PollBatch, ApplyNotePut, ApplyItemPut, ReindexOne
<1>8. CASE Abort \/ LibraryStep \/ UNCHANGED vars
  BY <1>8 DEF Abort, LibraryStep, vars
<1>. QED
  BY <1>1, <1>2, <1>3, <1>4, <1>5, <1>6, <1>7, <1>8
     DEF Next, FullRebuild, IncrementalSync, Reindex

\* The steps that set last_full_index_at or move rebuild_in_progress.
LEMMA CompletenessKept ==
  ASSUME TypeInv, [Next]_vars, ~StartRebuild, ~FinishRebuild
  PROVE  db'.built = db.built /\ db'.rebuilding = db.rebuilding
<1>. USE DEF TypeInv, TypeOK
<1>1. CASE \/ RebuildFolders \/ RebuildTags \/ RebuildResources
           \/ RefreshFolders \/ RefreshTags \/ RefreshResources
  BY <1>1 DEF RebuildFolders, RebuildTags, RebuildResources, RefreshFolders, RefreshTags,
     RefreshResources, UpsertItems, Index
<1>2. CASE RebuildNotes
  <2>. db' = ReplaceDerived(UpsertNotes(db, NotesPage(run.page), jop.body), NotesPage(run.page))
    BY <1>2 DEF RebuildNotes
  <2>. QED
    BY DEF ReplaceDerived, UpsertNotes, Index
<1>3. CASE RebuildLinks \/ RefreshLinks \/ \E t \in Tags : RebuildTagNotes(t)
  BY <1>3 DEF RebuildLinks, RefreshLinks, RebuildTagNotes, RebuildNoteResources, UpsertNoteTags, Index
<1>4. CASE PollEmpty \/ PollInvalid \/ FinishSync
  BY <1>4 DEF PollEmpty, PollInvalid, FinishSync, AdvanceCursor, ClearCursor, Index
<1>5. CASE ApplyNoteDelete \/ ApplyNoteMissing \/ ApplyItemDelete
           \/ \E n \in NoteIds : ReindexOneMissing(n)
  BY <1>5 DEF ApplyNoteDelete, ApplyNoteMissing, ApplyItemDelete, ReindexOneMissing,
              MarkNoteDeleted, MarkItemDeleted, Index
<1>6. CASE WriteNote
  BY <1>6, WriteNoteEffect DEF ReindexNote, UpsertNotes, ReplaceDerived, RebuildNoteResources,
     UpsertItems, ReplaceNoteTags, Index
<1>7. CASE PollBatch \/ ApplyNotePut \/ ApplyItemPut \/ \E n \in NoteIds : ReindexOne(n)
  BY <1>7 DEF PollBatch, ApplyNotePut, ApplyItemPut, ReindexOne
<1>8. CASE Abort \/ LibraryStep \/ UNCHANGED vars
  BY <1>8 DEF Abort, LibraryStep, vars
<1>. QED
  BY <1>1, <1>2, <1>3, <1>4, <1>5, <1>6, <1>7, <1>8
     DEF Next, FullRebuild, IncrementalSync, Reindex

\* A user's change is the newest event of the log.
LEMMA NewEvent ==
  ASSUME TypeInv, NEW e \in NoteIds \cup Items, NEW c \in Change, jop'.log = Logged(e, c)
  PROVE  /\ Len(jop'.log) = Len(jop.log) + 1
         /\ \A i \in 1 .. Len(jop.log) : jop'.log[i] = jop.log[i]
         /\ jop'.log[Len(jop.log) + 1] = [item |-> e, change |-> c]
<1>. jop.log \in Seq(Event)
  BY DEF TypeInv, TypeOK, Library
<1>. QED
  BY DEF Logged

\* Every step of the library logs one event.
LEMMA LibraryLogs ==
  ASSUME TypeInv, JoplinNext
  PROVE  \E e \in NoteIds \cup Items, c \in Change : jop'.log = Logged(e, c)
<1>1. ASSUME NEW n \in NoteIds, NEW b \in Bodies, PutNote(n, b)
      PROVE  jop'.log = Logged(n, "put")
  BY <1>1 DEF PutNote, TypeInv, TypeOK, Library
<1>2. ASSUME NEW n \in NoteIds, DeleteNote(n)
      PROVE  jop'.log = Logged(n, "delete")
  BY <1>2 DEF DeleteNote, TypeInv, TypeOK, Library
<1>3. ASSUME NEW n \in NoteIds, NEW t \in Tags, Retag(n, t)
      PROVE  jop'.log = Logged(n, "put")
  BY <1>3 DEF Retag, TypeInv, TypeOK, Library
<1>4. ASSUME NEW e \in Items, CreateItem(e)
      PROVE  jop'.log = Logged(e, "put")
  BY <1>4 DEF CreateItem, TypeInv, TypeOK, Library
<1>5. ASSUME NEW e \in Items, DeleteItem(e)
      PROVE  jop'.log = Logged(e, "delete")
  BY <1>5 DEF DeleteItem, TypeInv, TypeOK, Library
<1>. QED
  BY <1>1, <1>2, <1>3, <1>4, <1>5 DEF JoplinNext, Change

\* The log only grows.
LEMMA LogGrows ==
  ASSUME TypeInv, [Next]_vars
  PROVE  /\ Len(jop.log) \in Nat /\ Len(jop'.log) \in Nat /\ Len(jop.log) <= Len(jop'.log)
         /\ \A i \in 1 .. Len(jop.log) : jop'.log[i] = jop.log[i]
<1>. Len(jop.log) \in Nat
  BY BatchTypes
<1>1. CASE LibraryStep
  <2>1. PICK e \in NoteIds \cup Items, c \in Change : jop'.log = Logged(e, c)
    BY <1>1, LibraryLogs DEF LibraryStep
  <2>2. Len(jop'.log) = Len(jop.log) + 1 /\ \A i \in 1 .. Len(jop.log) : jop'.log[i] = jop.log[i]
    BY <2>1, NewEvent
  <2>. QED
    BY <2>2
<1>2. CASE ~LibraryStep
  BY <1>2, LibraryKept
<1>. QED
  BY <1>1, <1>2

\* BatchInv is inductive, whatever /events answers to a poll without a cursor.
LEMMA BatchInvStep ==
  ASSUME TypeInv, BatchInv, [Next]_vars
  PROVE  BatchInv'
<1>. USE DEF TypeInv, TypeOK
<1>0. /\ Len(jop.log) \in Nat /\ Len(jop'.log) \in Nat /\ Len(jop.log) <= Len(jop'.log)
      /\ \A i \in 1 .. Len(jop.log) : jop'.log[i] = jop.log[i]
      /\ run.upto \in Nat /\ run.next \in Nat /\ db.cursor \in Nat \cup {NoCursor}
      /\ NoCursor \notin Nat /\ BatchLimit \in Nat \ {0} /\ Saved \in Nat
  BY LogGrows, BatchTypes
<1>1. ASSUME UNCHANGED <<pc, run>>, db'.cursor = db.cursor, db'.rebuilding = db.rebuilding
      PROVE  BatchInv'
  <2>1. Saved' = Saved
    BY <1>1 DEF Saved
  <2>2. pc = "noteTags" /\ run.upto # 0 => run.next \in 1 .. Len(jop.log)
    BY <1>0 DEF BatchInv
  <2>. QED
    BY <1>0, <1>1, <2>1, <2>2 DEF BatchInv, Refilling
<1>2. CASE LibraryStep \/ UNCHANGED vars
  BY <1>1, <1>2 DEF LibraryStep, vars
<1>3. CASE \E n \in NoteIds : ReindexOneMissing(n)
  BY <1>1, <1>3, CursorKept, CompletenessKept DEF ReindexOneMissing, StartRebuild, PollEmpty,
     PollInvalid, FinishSync, FinishRebuild, MarkNoteDeleted, Index
<1>4. CASE PollEmpty
  <2>1. /\ db'.cursor = EventsUpto(db.cursor) /\ EventsUpto(db.cursor) = EventsFrom(db.cursor)
        /\ UNCHANGED <<pc, run>> /\ pc = "idle"
    BY <1>4 DEF PollEmpty, AdvanceCursor, Index
  <2>2. EventsFrom(db.cursor) = Saved \/ EventsFrom(db.cursor) = Len(jop.log)
    BY DEF EventsFrom, Saved
  <2>3. Saved' = EventsFrom(db.cursor)
    BY <1>0, <2>1, <2>2 DEF Saved
  <2>. QED
    BY <1>0, <2>1, <2>2, <2>3, LibraryKept DEF BatchInv, Refilling, PollEmpty
<1>5. CASE PollInvalid
  <2>1. db'.cursor = NoCursor /\ UNCHANGED <<pc, run>> /\ pc = "idle"
    BY <1>5 DEF PollInvalid, ClearCursor, Index
  <2>2. Saved' = 0
    BY <2>1 DEF Saved
  <2>. QED
    BY <1>0, <2>1, <2>2 DEF BatchInv, Refilling
<1>6. CASE StartRebuild
  <2>1. db'.cursor = NoCursor /\ db'.rebuilding = TRUE /\ pc' = "folders"
    BY <1>6 DEF StartRebuild, ResetDerived, Index
  <2>2. run'.upto = 0 /\ run'.refresh = {} /\ run'.tagIds = {}
    BY <1>6 DEF StartRebuild, NoRun
  <2>3. Saved' = 0
    BY <2>1 DEF Saved
  <2>. QED
    BY <1>0, <2>1, <2>2, <2>3 DEF BatchInv, Refilling
<1>7. CASE \/ RebuildFolders \/ RebuildNotes \/ RebuildTags \/ RebuildResources \/ RebuildLinks
           \/ \E t \in Tags : RebuildTagNotes(t)
  <2>1. db'.cursor = db.cursor /\ db'.rebuilding = db.rebuilding
    <3>. pc # "idle" /\ pc # "finish" /\ pc # "events"
      BY <1>7 DEF RebuildFolders, RebuildNotes, RebuildTags, RebuildResources, RebuildLinks, RebuildTagNotes
    <3>. QED
      BY CursorKept, CompletenessKept DEF StartRebuild, PollEmpty, PollInvalid, FinishSync, FinishRebuild
  <2>2. Refilling /\ Refilling' /\ run'.upto = run.upto /\ run'.refresh = run.refresh
    BY <1>7 DEF RebuildFolders, RebuildNotes, RebuildTags, RebuildResources, RebuildLinks, RebuildTagNotes,
       Refilling, Run
  <2>3. pc' = "tagNotes" \/ run'.tagIds = {}
    BY <1>7 DEF RebuildFolders, RebuildNotes, RebuildTags, RebuildResources, RebuildLinks, RebuildTagNotes,
       BatchInv, Run
  <2>4. Saved' = Saved
    BY <2>1 DEF Saved
  <2>5. run.upto = 0 /\ run.refresh = {} /\ pc' \notin {"events", "noteTags"}
    BY <2>2 DEF BatchInv, Refilling
  <2>. QED
    BY <1>0, <2>1, <2>2, <2>3, <2>4, <2>5 DEF BatchInv
<1>8. CASE FinishRebuild \/ Abort
  <2>1. db'.cursor = db.cursor
    <3>. pc # "idle" /\ (FinishRebuild => pc # "events")
      BY <1>8 DEF FinishRebuild, Abort
    <3>. QED
      BY <1>8, CursorKept DEF Abort, StartRebuild, PollEmpty, PollInvalid, FinishSync
  <2>2. Saved' = Saved
    BY <2>1 DEF Saved
  <2>. QED
    BY <1>0, <1>8, <2>2 DEF BatchInv, Refilling, FinishRebuild, Abort, Finished, NoRun
<1>9. CASE PollBatch
  <2>1. /\ run'.next = EventsFrom(db.cursor) + 1 /\ run'.upto = EventsUpto(db.cursor)
        /\ run'.tagIds = {} /\ pc' = "events"
        /\ EventsUpto(db.cursor) > EventsFrom(db.cursor) /\ UNCHANGED <<jop, db>>
    BY <1>9 DEF PollBatch, NoRun
  <2>2. EventsUpto(db.cursor) \in Nat /\ EventsUpto(db.cursor) <= Len(jop.log)
    <3>1. EventsFrom(db.cursor) \in Nat
      BY <1>0 DEF EventsFrom
    <3>. QED
      BY <1>0, <3>1 DEF EventsUpto
  <2>3. EventsFrom(db.cursor) = Saved
    <3>1. EventsFrom(db.cursor) # Len(jop.log)
      BY <1>0, <2>1, <2>2
    <3>. QED
      BY <3>1 DEF EventsFrom, Saved
  <2>4. Saved' = Saved
    BY <2>1 DEF Saved
  <2>. QED
    BY <1>0, <2>1, <2>2, <2>3, <2>4 DEF BatchInv, Refilling
<1>10. CASE ApplyNoteDelete \/ ApplyNoteMissing \/ ApplyItemDelete \/ ApplyItemPut
  <2>1. /\ run'.next = run.next + 1 /\ run'.upto = run.upto /\ run'.tagIds = run.tagIds
        /\ pc' = pc /\ pc = "events" /\ run.next <= run.upto
    BY <1>10 DEF ApplyNoteDelete, ApplyNoteMissing, ApplyItemDelete, ApplyItemPut, Consumed, AtEvent, Run
  <2>2. db'.cursor = db.cursor
    BY <1>10 DEF ApplyNoteDelete, ApplyNoteMissing, ApplyItemDelete, ApplyItemPut,
       MarkNoteDeleted, MarkItemDeleted, Index
  <2>3. Saved' = Saved
    BY <2>2 DEF Saved
  <2>. QED
    BY <1>0, <2>1, <2>3 DEF BatchInv, Refilling
<1>11. CASE ApplyNotePut
  <2>1. /\ run'.next = run.next /\ run'.upto = run.upto /\ run'.tagIds = run.tagIds
        /\ pc' = "noteTags" /\ pc = "events" /\ run.next <= run.upto
        /\ run'.note = jop.log[run.next].item /\ UNCHANGED <<jop, db>>
    BY <1>11 DEF ApplyNotePut, AtEvent, Current, Run
  <2>2. Saved' = Saved
    BY <2>1 DEF Saved
  <2>. QED
    BY <1>0, <2>1, <2>2 DEF BatchInv, Refilling
<1>12. CASE RefreshFolders \/ RefreshTags \/ RefreshResources \/ RefreshLinks
  <2>1. /\ run'.next = run.next /\ run'.upto = run.upto /\ run'.tagIds = run.tagIds
        /\ pc' = pc /\ pc = "events"
    BY <1>12 DEF RefreshFolders, RefreshTags, RefreshResources, RefreshLinks, AtRefresh, Refreshed, Run
  <2>2. db'.cursor = db.cursor
    BY <1>12 DEF RefreshFolders, RefreshTags, RefreshResources, RefreshLinks,
       UpsertItems, RebuildNoteResources, Index
  <2>3. Saved' = Saved
    BY <2>2 DEF Saved
  <2>. QED
    BY <1>0, <2>1, <2>3 DEF BatchInv, Refilling
<1>13. CASE FinishSync
  <2>1. db'.cursor = run.upto /\ pc' = "idle" /\ run' = NoRun /\ pc = "events"
    BY <1>13 DEF FinishSync, Finished, AdvanceCursor, Index
  <2>2. Saved' = run.upto
    BY <1>0, <2>1 DEF Saved
  <2>. QED
    BY <1>0, <2>1, <2>2 DEF BatchInv, Refilling, NoRun
<1>14. CASE \E n \in NoteIds : ReindexOne(n)
  <2>1. pc' = "noteTags" /\ run'.upto = 0 /\ run'.refresh = {} /\ run'.tagIds = {} /\ UNCHANGED <<jop, db>>
    BY <1>14 DEF ReindexOne, NoRun
  <2>2. Saved' = Saved
    BY <2>1 DEF Saved
  <2>. QED
    BY <1>0, <2>1, <2>2 DEF BatchInv, Refilling
<1>15. CASE WriteNote
  <2>1. pc = "noteTags"
    BY <1>15 DEF WriteNote
  <2>2. Saved' = Saved
    BY <2>1, CursorKept DEF Saved, StartRebuild, PollEmpty, PollInvalid, FinishSync
  <2>3. CASE run.upto = 0
    BY <1>0, <1>15, <2>2, <2>3 DEF WriteNote, Finished, BatchInv, Refilling, NoRun
  <2>4. CASE run.upto # 0
    <3>. run'.next = run.next + 1 /\ run'.upto = run.upto /\ run'.tagIds = run.tagIds /\ pc' = "events"
      BY <1>15, <2>4 DEF WriteNote, Run
    <3>. QED
      BY <1>0, <2>1, <2>2, <2>4 DEF BatchInv, Refilling
  <2>. QED
    BY <2>3, <2>4
<1>. QED
  BY <1>2, <1>3, <1>4, <1>5, <1>6, <1>7, <1>8, <1>9, <1>10, <1>11, <1>12, <1>13, <1>14, <1>15
     DEF Next, FullRebuild, IncrementalSync, Reindex

\* What is applied lies between the stored cursor and the end of the log.
LEMMA AppliedRange ==
  ASSUME TypeInv, BatchInv
  PROVE  Applied \in Nat /\ Saved \in Nat /\ Saved <= Applied /\ Applied <= Len(jop.log)
BY BatchTypes DEF BatchInv, Applied

\* Only the steps that consume an event move forward in the log, by that event, and
\* only FinishSync stores how far they came.
LEMMA Motion ==
  ASSUME Backfill, TypeInv, BatchInv, [Next]_vars
  PROVE  /\ Consuming => /\ Applied' = Applied + 1 /\ Saved' = Saved
                         /\ Applied + 1 <= Len(jop.log) /\ jop.log[Applied + 1] = Current
                         /\ UNCHANGED jop
         /\ FinishSync => Applied' = Applied /\ Saved' = Applied
         /\ ~Consuming /\ ~FinishSync => Applied' <= Applied /\ Saved' <= Saved
         /\ Abort => Applied' <= Saved
<1>. USE DEF TypeInv, TypeOK
<1>0. /\ Len(jop.log) \in Nat
      /\ run.upto \in Nat /\ run.next \in Nat /\ db.cursor \in Nat \cup {NoCursor}
      /\ NoCursor \notin Nat /\ BatchLimit \in Nat \ {0}
      /\ Applied \in Nat /\ Saved \in Nat /\ Saved <= Applied /\ Applied <= Len(jop.log)
  BY BatchTypes, AppliedRange
<1>1. CASE FinishSync
  <2>1. /\ db'.cursor = run.upto /\ run' = NoRun /\ pc = "events" /\ run.next > run.upto
    BY <1>1 DEF FinishSync, Finished, AdvanceCursor, Index
  <2>2. Applied = run.upto
    BY <1>0, <2>1 DEF BatchInv, Applied
  <2>3. Saved' = run.upto /\ Applied' = Saved'
    BY <1>0, <2>1 DEF Saved, Applied, NoRun
  <2>4. ~Consuming
    <3>1. Consuming => pc' = "events"
      BY DEF Consuming, ApplyNoteDelete, ApplyNoteMissing, ApplyItemDelete, ApplyItemPut, AtEvent, WriteNote
    <3>. QED
      BY <1>1, <3>1 DEF FinishSync, Finished
  <2>5. Abort => Saved' = Saved
    BY DEF Abort, Saved
  <2>. QED
    BY <1>0, <1>1, <2>2, <2>3, <2>4, <2>5
<1>2. CASE Consuming
  <2>1. ~FinishSync /\ ~StartRebuild /\ ~PollEmpty /\ ~PollInvalid /\ ~Abort
    <3>1. pc' = "events" /\ pc # "idle" /\ (pc = "events" => run.next <= run.upto)
      BY <1>2 DEF Consuming, ApplyNoteDelete, ApplyNoteMissing, ApplyItemDelete, ApplyItemPut, AtEvent, WriteNote
    <3>. QED
      BY <1>0, <3>1 DEF FinishSync, StartRebuild, PollEmpty, PollInvalid, Abort, Finished
  <2>2. Saved' = Saved
    BY <2>1, CursorKept DEF Saved
  <2>3. /\ run.upto # 0 /\ run.next <= run.upto /\ run'.upto = run.upto /\ run'.next = run.next + 1
        /\ UNCHANGED jop
    BY <1>2 DEF Consuming, ApplyNoteDelete, ApplyNoteMissing, ApplyItemDelete, ApplyItemPut, AtEvent,
       Consumed, WriteNote, Run, BatchInv
  <2>4. Applied = run.next - 1 /\ Applied' = run.next /\ run.next = Applied + 1
    BY <1>0, <2>3 DEF Applied
  <2>. QED
    BY <1>0, <1>2, <2>1, <2>2, <2>3, <2>4 DEF Current, BatchInv
<1>3. ASSUME ~Consuming, ~FinishSync
      PROVE  Applied' <= Applied /\ Saved' <= Saved
  <2>1. ASSUME Saved' <= Saved, Saved' \in Int,
               run'.upto = 0 \/ (run'.upto = run.upto /\ run'.next = run.next /\ Saved' = Saved)
        PROVE  Applied' <= Applied /\ Saved' <= Saved
    BY <1>0, <2>1 DEF Applied
  <2>2. ASSUME db'.cursor = db.cursor,
               run'.upto = 0 \/ (run'.upto = run.upto /\ run'.next = run.next)
        PROVE  Applied' <= Applied /\ Saved' <= Saved
    <3>. Saved' = Saved
      BY <2>2 DEF Saved
    <3>. QED
      BY <1>0, <2>1, <2>2
  <2>3. CASE StartRebuild \/ PollInvalid
    <3>1. db'.cursor = NoCursor /\ (run'.upto = 0 \/ UNCHANGED run) /\ pc = "idle"
      BY <2>3 DEF StartRebuild, PollInvalid, ResetDerived, ClearCursor, Index, NoRun
    <3>2. run.upto = 0
      BY <3>1 DEF BatchInv
    <3>3. Saved' = 0
      BY <3>1 DEF Saved
    <3>. QED
      BY <1>0, <2>1, <3>1, <3>2, <3>3
  <2>4. CASE PollEmpty
    <3>1. /\ db'.cursor = EventsUpto(db.cursor) /\ EventsUpto(db.cursor) = EventsFrom(db.cursor)
          /\ UNCHANGED run
      BY <2>4 DEF PollEmpty, AdvanceCursor, Index
    <3>2. EventsFrom(db.cursor) = Saved
      BY DEF EventsFrom, Saved
    <3>3. Saved' = Saved
      BY <1>0, <3>1, <3>2 DEF Saved
    <3>. QED
      BY <1>0, <2>1, <3>1, <3>3
  <2>5. CASE PollBatch
    <3>1. /\ run'.next = EventsFrom(db.cursor) + 1 /\ run'.upto = EventsUpto(db.cursor)
          /\ EventsUpto(db.cursor) > EventsFrom(db.cursor) /\ UNCHANGED <<jop, db>> /\ pc = "idle"
      BY <2>5 DEF PollBatch, NoRun
    <3>2. EventsFrom(db.cursor) = Saved /\ EventsUpto(db.cursor) \in Nat
      BY <1>0 DEF EventsFrom, EventsUpto, Saved
    <3>3. Saved' = Saved
      BY <3>1 DEF Saved
    <3>. QED
      BY <1>0, <3>1, <3>2, <3>3 DEF Applied, BatchInv
  <2>6. CASE ~StartRebuild /\ ~PollInvalid /\ ~PollEmpty /\ ~PollBatch
    <3>1. db'.cursor = db.cursor
      BY <1>3, <2>6, CursorKept
    <3>2. run'.upto = 0 \/ (run'.upto = run.upto /\ run'.next = run.next)
      <4>1. CASE FullRebuild
        <5>1. CASE FinishRebuild
          BY <5>1 DEF FinishRebuild, Finished, NoRun
        <5>2. CASE ~FinishRebuild
          BY <4>1, <5>2, <2>6 DEF FullRebuild, RebuildFolders, RebuildNotes, RebuildTags, RebuildTagNotes,
             RebuildResources, RebuildLinks, Run
        <5>. QED
          BY <5>1, <5>2
      <4>2. CASE ApplyNotePut \/ RefreshFolders \/ RefreshTags \/ RefreshResources \/ RefreshLinks
        BY <4>2 DEF ApplyNotePut, RefreshFolders, RefreshTags, RefreshResources, RefreshLinks, Refreshed, Run
      <4>3. CASE Reindex
        <5>1. CASE WriteNote
          BY <5>1, <1>3 DEF WriteNote, Consuming, Finished, NoRun
        <5>2. CASE ~WriteNote
          BY <4>3, <5>2 DEF Reindex, ReindexOne, ReindexOneMissing, NoRun
        <5>. QED
          BY <5>1, <5>2
      <4>4. CASE Abort \/ LibraryStep \/ UNCHANGED vars
        BY <4>4 DEF Abort, LibraryStep, vars, Finished, NoRun
      <4>. QED
        BY <4>1, <4>2, <4>3, <4>4, <1>3, <2>6 DEF Next, IncrementalSync, Consuming
    <3>. QED
      BY <2>2, <3>1, <3>2
  <2>. QED
    BY <2>3, <2>4, <2>5, <2>6
<1>4. Abort => Applied' <= Saved
  BY <1>0 DEF Abort, Finished, NoRun, Applied, Saved
<1>. QED
  BY <1>1, <1>2, <1>3, <1>4

\* What is still to come stays so, but for the event a step consumes.
LEMMA ClaimsKept ==
  ASSUME Backfill, TypeInv, BatchInv, [Next]_vars
  PROVE  /\ \A e : Unread(e) => Unread(e)' \/ (Consuming /\ Current.item = e)
         /\ \A e : Removal(e) => \/ Removal(e)'
                                 \/ Consuming /\ Current.item = e /\ Current.change = "delete"
         /\ \A e : Pending(e) => Pending(e)' \/ FinishSync
         /\ \A e : Unread(e) => Pending(e)' \/ ~FinishSync
         /\ \A e : Pending(e) => Unread(e)' \/ ~Abort
<1>0. /\ Len(jop.log) \in Nat /\ Len(jop'.log) \in Nat /\ Len(jop.log) <= Len(jop'.log)
      /\ \A i \in 1 .. Len(jop.log) : jop'.log[i] = jop.log[i]
      /\ Applied \in Nat /\ Saved \in Nat /\ Applied' \in Nat /\ Saved' \in Nat
  <2>. TypeInv' /\ BatchInv'
    BY TypeStep, BatchInvStep
  <2>1. Applied \in Nat /\ Saved \in Nat
    BY AppliedRange
  <2>2. run'.upto \in Nat /\ run'.next \in Nat /\ db'.cursor \in Nat \cup {NoCursor}
    BY DEF TypeInv, TypeOK, Run, Index
  <2>3. Applied' \in Nat /\ Saved' \in Nat
    BY <2>2 DEF Applied, Saved, BatchInv, NoCursor
  <2>. QED
    BY LogGrows, <2>1, <2>3
<1>1. ASSUME NEW e, NEW k \in Nat, NEW l \in Nat, l <= k
      PROVE  /\ After(jop.log, e, k) => After(jop'.log, e, l)
             /\ Gone(jop.log, e, k) => Gone(jop'.log, e, l)
  BY <1>0, <1>1 DEF After, Gone
<1>2. ASSUME Consuming, NEW e
      PROVE  /\ Unread(e) => Unread(e)' \/ Current.item = e
             /\ Removal(e) => Removal(e)' \/ (Current.item = e /\ Current.change = "delete")
  <2>1. Applied' = Applied + 1 /\ jop.log[Applied + 1] = Current /\ UNCHANGED jop
    BY <1>2, Motion
  <2>2. ASSUME Unread(e), Current.item # e
        PROVE  Unread(e)'
    <3>1. PICK i \in 1 .. Len(jop.log) : i > Applied /\ jop.log[i].item = e
      BY <2>2 DEF Unread, After
    <3>2. i > Applied + 1
      BY <1>0, <2>1, <2>2, <3>1
    <3>. QED
      BY <2>1, <3>1, <3>2 DEF Unread, After
  <2>3. ASSUME Removal(e), ~(Current.item = e /\ Current.change = "delete")
        PROVE  Removal(e)'
    <3>1. PICK i \in 1 .. Len(jop.log) : i > Applied /\ jop.log[i].item = e /\ jop.log[i].change = "delete"
      BY <2>3 DEF Removal, Gone
    <3>2. i > Applied + 1
      BY <1>0, <2>1, <2>3, <3>1
    <3>. QED
      BY <2>1, <3>1, <3>2 DEF Removal, Gone
  <2>. QED
    BY <2>2, <2>3
<1>3. ASSUME ~Consuming, NEW e
      PROVE  (Unread(e) => Unread(e)') /\ (Removal(e) => Removal(e)')
  <2>. Applied' <= Applied
    BY <1>0, <1>3, Motion
  <2>. QED
    BY <1>0, <1>1 DEF Unread, Removal
<1>4. ASSUME NEW e
      PROVE  Pending(e) => Pending(e)' \/ FinishSync
  <2>. ~FinishSync => Saved' <= Saved
    BY <1>0, Motion
  <2>. QED
    BY <1>0, <1>1 DEF Pending
<1>5. ASSUME NEW e, FinishSync
      PROVE  Unread(e) => Pending(e)'
  <2>. Saved' <= Applied
    BY <1>0, <1>5, Motion
  <2>. QED
    BY <1>0, <1>1 DEF Pending, Unread
<1>6. ASSUME NEW e, Abort
      PROVE  Pending(e) => Unread(e)'
  <2>. Applied' <= Saved
    BY <1>6, Motion
  <2>. QED
    BY <1>0, <1>1 DEF Pending, Unread
<1>. QED
  BY <1>2, <1>3, <1>4, <1>5, <1>6

\* What a user just did is still to come, wherever the job under way is.
LEMMA NewestIsToCome ==
  ASSUME TypeInv, BatchInv, LibraryStep,
         NEW e \in NoteIds \cup Items, NEW c \in Change, jop'.log = Logged(e, c)
  PROVE  Unread(e)' /\ Pending(e)' /\ (c = "delete" => Removal(e)')
<1>1. /\ Applied \in Nat /\ Saved \in Nat /\ Saved <= Applied /\ Applied <= Len(jop.log)
      /\ Len(jop.log) \in Nat
  BY AppliedRange, BatchTypes
<1>2. Len(jop'.log) = Len(jop.log) + 1 /\ jop'.log[Len(jop.log) + 1] = [item |-> e, change |-> c]
  BY NewEvent
<1>3. Applied' = Applied /\ Saved' = Saved
  BY DEF LibraryStep, Applied, Saved
<1>4. Len(jop.log) + 1 \in 1 .. Len(jop'.log) /\ Len(jop.log) + 1 > Applied /\ Len(jop.log) + 1 > Saved
  BY <1>1, <1>2
<1>. QED
  BY <1>2, <1>3, <1>4 DEF Unread, Pending, Removal, After, Gone

\* A deleted item stays deleted, and takes its membership along.
LEMMA LibraryInvStep ==
  ASSUME TypeInv, LibraryInv, [Next]_vars
  PROVE  LibraryInv'
<1>0. /\ jop.items \in [Items -> {"never", "live", "gone"}] /\ jop.member \subseteq NoteIds \X Tags
      /\ Len(jop.log) \in Nat /\ NoteIds \cap Items = {} /\ Tags \subseteq Items
  BY BatchTypes, JoplinAssumption DEF TypeInv, TypeOK, Library, Items
<1>1. ASSUME NEW e \in NoteIds \cup Items, NEW c \in Change, jop'.log = Logged(e, c),
             \A o \in Items : jop.items[o] = "gone" => jop'.items[o] = "gone",
             c = "delete" /\ e \in Items => jop'.items[e] = "gone",
             \A p \in jop'.member : jop'.items[p[2]] = "live"
      PROVE  LibraryInv'
  <2>1. /\ Len(jop'.log) = Len(jop.log) + 1
        /\ \A i \in 1 .. Len(jop.log) : jop'.log[i] = jop.log[i]
        /\ jop'.log[Len(jop.log) + 1] = [item |-> e, change |-> c]
    BY <1>1, NewEvent
  <2>2. ASSUME NEW i \in 1 .. Len(jop'.log), jop'.log[i].change = "delete", jop'.log[i].item \in Items
        PROVE  jop'.items[jop'.log[i].item] = "gone"
    <3>1. CASE i = Len(jop.log) + 1
      BY <1>1, <2>1, <2>2, <3>1
    <3>2. CASE i \in 1 .. Len(jop.log)
      BY <1>1, <2>1, <2>2, <3>2 DEF LibraryInv
    <3>. QED
      BY <1>0, <2>1, <3>1, <3>2
  <2>. QED
    BY <1>1, <2>2 DEF LibraryInv
<1>2. CASE LibraryStep
  <2>1. ASSUME NEW n \in NoteIds, NEW b \in Bodies, PutNote(n, b)
        PROVE  LibraryInv'
    <3>. jop'.log = Logged(n, "put") /\ jop'.items = jop.items /\ jop'.member = jop.member
      BY <2>1 DEF PutNote, TypeInv, TypeOK, Library
    <3>. QED
      BY <1>1 DEF LibraryInv, Change
  <2>2. ASSUME NEW n \in NoteIds, DeleteNote(n)
        PROVE  LibraryInv'
    <3>. /\ jop'.log = Logged(n, "delete") /\ jop'.items = jop.items
         /\ jop'.member = {p \in jop.member : p[1] # n}
      BY <2>2 DEF DeleteNote, TypeInv, TypeOK, Library
    <3>. QED
      BY <1>0, <1>1 DEF LibraryInv, Change
  <2>3. ASSUME NEW n \in NoteIds, NEW t \in Tags, Retag(n, t)
        PROVE  LibraryInv'
    <3>1. /\ jop'.log = Logged(n, "put") /\ jop'.items = jop.items /\ jop.items[t] = "live"
          /\ jop'.member = IF <<n, t>> \in jop.member THEN jop.member \ {<<n, t>>} ELSE jop.member \cup {<<n, t>>}
      BY <2>3 DEF Retag, TypeInv, TypeOK, Library
    <3>2. \A p \in jop'.member : jop'.items[p[2]] = "live"
      BY <3>1 DEF LibraryInv
    <3>. QED
      BY <1>1, <3>1, <3>2 DEF Change
  <2>4. ASSUME NEW e \in Items, CreateItem(e)
        PROVE  LibraryInv'
    <3>1. /\ jop'.log = Logged(e, "put") /\ jop'.member = jop.member /\ jop.items[e] = "never"
          /\ jop'.items = [jop.items EXCEPT ![e] = "live"]
      BY <2>4 DEF CreateItem, TypeInv, TypeOK, Library
    <3>2. \A o \in Items : jop'.items[o] = IF o = e THEN "live" ELSE jop.items[o]
      BY <1>0, <3>1
    <3>3. \A p \in jop'.member : jop'.items[p[2]] = "live"
      BY <1>0, <3>1, <3>2 DEF LibraryInv
    <3>. QED
      BY <1>1, <3>1, <3>2, <3>3 DEF Change
  <2>5. ASSUME NEW e \in Items, DeleteItem(e)
        PROVE  LibraryInv'
    <3>1. /\ jop'.log = Logged(e, "delete") /\ jop'.member = {p \in jop.member : p[2] # e}
          /\ jop'.items = [jop.items EXCEPT ![e] = "gone"]
      BY <2>5 DEF DeleteItem, TypeInv, TypeOK, Library
    <3>2. \A o \in Items : jop'.items[o] = IF o = e THEN "gone" ELSE jop.items[o]
      BY <1>0, <3>1
    <3>3. \A p \in jop'.member : jop'.items[p[2]] = "live"
      BY <1>0, <3>1, <3>2 DEF LibraryInv
    <3>. QED
      BY <1>1, <3>1, <3>2, <3>3 DEF Change
  <2>. QED
    BY <1>2, <2>1, <2>2, <2>3, <2>4, <2>5 DEF LibraryStep, JoplinNext
<1>3. CASE ~LibraryStep
  BY <1>3, LibraryKept DEF LibraryInv
<1>. QED
  BY <1>2, <1>3

\* The steps that write the rows of folders, tags and resources.
LEMMA ItemsKept ==
  ASSUME TypeInv, [Next]_vars, ~RebuildFolders, ~RebuildTags, ~RebuildResources, ~FinishRebuild,
         ~RefreshFolders, ~RefreshTags, ~RefreshResources, ~ApplyItemDelete, ~WriteNote
  PROVE  db'.items = db.items
<1>. USE DEF TypeInv, TypeOK
<1>1. CASE StartRebuild \/ \E t \in Tags : RebuildTagNotes(t)
  BY <1>1 DEF StartRebuild, ResetDerived, RebuildTagNotes, UpsertNoteTags, Index
<1>2. CASE RebuildNotes
  BY <1>2, RebuildNotesEffect
<1>3. CASE RebuildLinks \/ RefreshLinks
  BY <1>3 DEF RebuildLinks, RefreshLinks, RebuildNoteResources, Index
<1>4. CASE PollEmpty \/ PollInvalid \/ FinishSync
  BY <1>4 DEF PollEmpty, PollInvalid, FinishSync, AdvanceCursor, ClearCursor, Index
<1>5. CASE ApplyNoteDelete \/ ApplyNoteMissing \/ \E n \in NoteIds : ReindexOneMissing(n)
  BY <1>5 DEF ApplyNoteDelete, ApplyNoteMissing, ReindexOneMissing, MarkNoteDeleted, Index
<1>6. CASE PollBatch \/ ApplyNotePut \/ ApplyItemPut \/ \E n \in NoteIds : ReindexOne(n)
  BY <1>6 DEF PollBatch, ApplyNotePut, ApplyItemPut, ReindexOne
<1>7. CASE Abort \/ LibraryStep \/ UNCHANGED vars
  BY <1>7 DEF Abort, LibraryStep, vars
<1>. QED
  BY <1>1, <1>2, <1>3, <1>4, <1>5, <1>6, <1>7 DEF Next, FullRebuild, IncrementalSync, Reindex

\* The steps that write note_tags.
LEMMA NoteTagsKept ==
  ASSUME TypeInv, [Next]_vars, ~StartRebuild, ~ApplyItemDelete, ~WriteNote,
         ~\E t \in Tags : RebuildTagNotes(t)
  PROVE  db'.noteTags = db.noteTags
<1>. USE DEF TypeInv, TypeOK
<1>1. CASE \/ RebuildFolders \/ RebuildTags \/ RebuildResources
           \/ RefreshFolders \/ RefreshTags \/ RefreshResources
  BY <1>1 DEF RebuildFolders, RebuildTags, RebuildResources, RefreshFolders, RefreshTags,
     RefreshResources, UpsertItems, Index
<1>2. CASE RebuildNotes
  <2>. db' = ReplaceDerived(UpsertNotes(db, NotesPage(run.page), jop.body), NotesPage(run.page))
    BY <1>2 DEF RebuildNotes
  <2>. QED
    BY DEF ReplaceDerived, UpsertNotes, Index
<1>3. CASE RebuildLinks \/ RefreshLinks
  BY <1>3 DEF RebuildLinks, RefreshLinks, RebuildNoteResources, Index
<1>4. CASE PollEmpty \/ PollInvalid \/ FinishSync \/ FinishRebuild
  BY <1>4 DEF PollEmpty, PollInvalid, FinishSync, FinishRebuild, CompleteRebuild, SweepOrphans,
     AdvanceCursor, ClearCursor, Index
<1>5. CASE ApplyNoteDelete \/ ApplyNoteMissing \/ \E n \in NoteIds : ReindexOneMissing(n)
  BY <1>5 DEF ApplyNoteDelete, ApplyNoteMissing, ReindexOneMissing, MarkNoteDeleted, Index
<1>6. CASE PollBatch \/ ApplyNotePut \/ ApplyItemPut \/ \E n \in NoteIds : ReindexOne(n)
  BY <1>6 DEF PollBatch, ApplyNotePut, ApplyItemPut, ReindexOne
<1>7. CASE Abort \/ LibraryStep \/ UNCHANGED vars
  BY <1>7 DEF Abort, LibraryStep, vars
<1>. QED
  BY <1>1, <1>2, <1>3, <1>4, <1>5, <1>6, <1>7 DEF Next, FullRebuild, IncrementalSync, Reindex

\* A rebuild learns the notes, the items of a kind, the membership and the links at
\* the steps that list them, and an index stays complete until the next rebuild.
LEMMA Entering ==
  ASSUME TypeInv, [Next]_vars
  PROVE  /\ Complete' => Complete \/ FinishRebuild
         /\ Known({"notes", "tags", "tagNotes", "links", "finish"})'
              => RebuildFolders \/ Known({"notes", "tags", "tagNotes", "links", "finish"})
         /\ Known({"tags", "tagNotes", "links", "finish"})'
              => RebuildNotes \/ Known({"tags", "tagNotes", "links", "finish"})
         /\ Known({"tagNotes", "links", "finish"})'
              => RebuildTags \/ Known({"tagNotes", "links", "finish"})
         /\ Known({"links", "finish"})' => RebuildResources \/ Known({"links", "finish"})
         /\ Known({"finish"})' => RebuildLinks \/ Known({"finish"})
<1>. USE DEF TypeInv, TypeOK
<1>1. Complete' => Complete \/ FinishRebuild
  <2>. StartRebuild => ~Complete'
    BY DEF StartRebuild, ResetDerived, Complete, Index
  <2>. QED
    BY CompletenessKept DEF Complete
<1>2. FinishRebuild => pc = "finish"
  BY DEF FinishRebuild
<1>3. CASE FullRebuild
  <2>1. RebuildFolders => pc' = "notes"
    BY DEF RebuildFolders
  <2>2. RebuildNotes => pc = "notes" /\ pc' \in {"notes", "tags"}
    BY DEF RebuildNotes
  <2>3. RebuildTags => pc = "tags" /\ pc' = "tagNotes"
    BY DEF RebuildTags
  <2>4. (\E t \in Tags : RebuildTagNotes(t)) => pc = "tagNotes" /\ pc' = "tagNotes"
    BY DEF RebuildTagNotes
  <2>5. RebuildResources => pc = "tagNotes" /\ pc' = "links"
    BY DEF RebuildResources
  <2>6. RebuildLinks => pc = "links" /\ pc' = "finish"
    BY DEF RebuildLinks
  <2>7. StartRebuild \/ FinishRebuild => pc' \in {"folders", "idle"}
    BY DEF StartRebuild, FinishRebuild, Finished
  <2>. QED
    BY <1>1, <1>2, <1>3, <2>1, <2>2, <2>3, <2>4, <2>5, <2>6, <2>7 DEF FullRebuild, Known
<1>4. CASE IncrementalSync
  <2>. pc' \in {"idle", "events", "noteTags"}
    BY <1>4 DEF IncrementalSync, PollEmpty, PollBatch, PollInvalid, ApplyNoteDelete, ApplyNotePut,
       ApplyNoteMissing, ApplyItemDelete, ApplyItemPut, RefreshFolders, RefreshTags,
       RefreshResources, RefreshLinks, FinishSync, Finished, AtEvent, AtRefresh
  <2>. QED
    BY <1>1, <1>2 DEF Known
<1>5. CASE Reindex \/ Abort
  <2>. pc' \in {"idle", "events", "noteTags"}
    BY <1>5 DEF Reindex, ReindexOne, ReindexOneMissing, WriteNote, Abort, Finished
  <2>. QED
    BY <1>1, <1>2 DEF Known
<1>6. CASE LibraryStep \/ UNCHANGED vars
  BY <1>6 DEF LibraryStep, vars, Known, Complete
<1>. QED
  BY <1>3, <1>4, <1>5, <1>6 DEF Next

\* FetchedInv is preserved: only a step that fetches a note enters "noteTags".
LEMMA FetchedInvStep ==
  ASSUME TypeInv, BatchInv, FetchedInv, [Next]_vars
  PROVE  FetchedInv'
<1>. USE DEF TypeInv, TypeOK
<1>0. /\ Len(jop.log) \in Nat /\ Len(jop'.log) \in Nat /\ Len(jop.log) <= Len(jop'.log)
      /\ \A i \in 1 .. Len(jop.log) : jop'.log[i] = jop.log[i]
      /\ jop.body \in [NoteIds -> Bodies \cup {NoBody}] /\ NoBody \notin Bodies
  BY LogGrows, JoplinAssumption DEF Library
<1>1. ASSUME NEW e, NEW k \in Nat
      PROVE  /\ After(jop.log, e, k) => After(jop'.log, e, k)
             /\ Gone(jop.log, e, k) => Gone(jop'.log, e, k)
  BY <1>0 DEF After, Gone
<1>2. CASE LibraryStep /\ pc = "noteTags"
  <2>1. /\ Handled' = Handled /\ UNCHANGED <<db, pc, run>>
        /\ Handled \in Nat /\ Handled <= Len(jop.log)
    BY <1>0, <1>2, BatchTypes DEF LibraryStep, Handled, Saved, BatchInv
  <2>2. ASSUME NEW e \in NoteIds \cup Items, NEW c \in Change, jop'.log = Logged(e, c)
        PROVE  /\ After(jop'.log, e, Handled)
               /\ c = "delete" => Gone(jop'.log, e, Handled)
    <3>. /\ Len(jop'.log) = Len(jop.log) + 1
         /\ jop'.log[Len(jop.log) + 1] = [item |-> e, change |-> c]
      BY <2>2, NewEvent
    <3>. Len(jop.log) + 1 \in 1 .. Len(jop'.log) /\ Len(jop.log) + 1 > Handled
      BY <1>0, <2>1
    <3>. QED
      BY DEF After, Gone
  <2>3. ASSUME NEW n \in NoteIds, NEW b \in Bodies, PutNote(n, b)
        PROVE  FetchedInv'
    <3>1. jop'.log = Logged(n, "put") /\ jop'.body = [jop.body EXCEPT ![n] = b]
      BY <2>3 DEF PutNote, Library
    <3>2. n \in Present' /\ After(jop'.log, n, Handled)
      BY <1>0, <2>2, <3>1 DEF Present, Change
    <3>3. run.note # n => /\ run.note \in Present' <=> run.note \in Present
                          /\ run.note \in Present => jop'.body[run.note] = jop.body[run.note]
      BY <1>0, <3>1 DEF Present
    <3>. QED
      BY <1>1, <1>2, <2>1, <3>2, <3>3 DEF FetchedInv
  <2>4. ASSUME NEW n \in NoteIds, DeleteNote(n)
        PROVE  FetchedInv'
    <3>1. jop'.log = Logged(n, "delete") /\ jop'.body = [jop.body EXCEPT ![n] = NoBody]
      BY <2>4 DEF DeleteNote, Library
    <3>2. n \notin Present' /\ Gone(jop'.log, n, Handled)
      BY <1>0, <2>2, <3>1 DEF Present, Change
    <3>3. run.note # n => /\ run.note \in Present' <=> run.note \in Present
                          /\ run.note \in Present => jop'.body[run.note] = jop.body[run.note]
      BY <1>0, <3>1 DEF Present
    <3>. QED
      BY <1>1, <1>2, <2>1, <3>2, <3>3 DEF FetchedInv
  <2>5. ASSUME jop'.body = jop.body
        PROVE  FetchedInv'
    BY <1>1, <1>2, <2>1, <2>5 DEF FetchedInv, Present
  <2>6. ASSUME NEW n \in NoteIds, NEW t \in Tags, Retag(n, t)
        PROVE  jop'.body = jop.body
    BY <2>6 DEF Retag, Library
  <2>7. ASSUME NEW e \in Items, CreateItem(e) \/ DeleteItem(e)
        PROVE  jop'.body = jop.body
    BY <2>7 DEF CreateItem, DeleteItem, Library
  <2>. QED
    BY <1>2, <2>3, <2>4, <2>5, <2>6, <2>7 DEF LibraryStep, JoplinNext
<1>3. CASE LibraryStep /\ pc # "noteTags"
  BY <1>3 DEF LibraryStep, FetchedInv
<1>4. CASE ApplyNotePut
  <2>. run'.note = Current.item /\ run'.body = jop.body[Current.item] /\ Current.item \in Present /\ UNCHANGED jop
    BY <1>4 DEF ApplyNotePut, Run
  <2>. QED
    BY DEF FetchedInv, Present
<1>5. ASSUME NEW n \in NoteIds, ReindexOne(n)
      PROVE  FetchedInv'
  <2>. run'.note = n /\ run'.body = jop.body[n] /\ n \in Present /\ UNCHANGED jop
    BY <1>5 DEF ReindexOne, NoRun
  <2>. QED
    BY DEF FetchedInv, Present
<1>6. CASE FullRebuild
  <2>. pc' # "noteTags"
    BY <1>6 DEF FullRebuild, StartRebuild, RebuildFolders, RebuildNotes, RebuildTags,
       RebuildTagNotes, RebuildResources, RebuildLinks, FinishRebuild, Finished
  <2>. QED
    BY DEF FetchedInv
<1>7. CASE IncrementalSync /\ ~ApplyNotePut
  <2>. pc' # "noteTags"
    BY <1>7 DEF IncrementalSync, PollEmpty, PollBatch, PollInvalid, ApplyNoteDelete,
       ApplyNoteMissing, ApplyItemDelete, ApplyItemPut, RefreshFolders, RefreshTags,
       RefreshResources, RefreshLinks, FinishSync, Finished, AtEvent, AtRefresh
  <2>. QED
    BY DEF FetchedInv
<1>8. CASE WriteNote \/ Abort \/ \E n \in NoteIds : ReindexOneMissing(n)
  <2>. pc' # "noteTags"
    BY <1>8 DEF WriteNote, Abort, ReindexOneMissing, Finished
  <2>. QED
    BY DEF FetchedInv
<1>9. CASE UNCHANGED vars
  BY <1>9 DEF vars, FetchedInv, Present, Handled, Saved
<1>. QED
  BY <1>2, <1>3, <1>4, <1>5, <1>6, <1>7, <1>8, <1>9 DEF Next, Reindex

\* A write of a fetched note takes its event off the batch: what it does not know of
\* the note is still to come.
LEMMA WrittenNoteIsKnown ==
  ASSUME TypeInv, BatchInv, FetchedInv, WriteNote, NEW n \in NoteIds, n = run.note
  PROVE  IF n \in Present THEN run.body = jop.body[n] \/ Unread(n)' ELSE Removal(n)'
<1>. UNCHANGED jop /\ pc = "noteTags"
  BY DEF WriteNote
<1>1. db'.cursor = db.cursor
  BY CursorKept DEF WriteNote, StartRebuild, PollEmpty, PollInvalid, FinishSync, Next, Reindex
<1>2. Applied' = Handled
  <2>1. CASE run.upto = 0
    BY <1>1, <2>1 DEF WriteNote, Finished, NoRun, Applied, Handled, Saved
  <2>2. CASE run.upto # 0
    <3>. run'.upto = run.upto /\ run'.next = run.next + 1 /\ run.next \in Nat
      BY <2>2, BatchTypes DEF WriteNote, TypeInv, TypeOK, Run
    <3>. QED
      BY <2>2 DEF Applied, Handled
  <2>. QED
    BY <2>1, <2>2
<1>. QED
  BY <1>2 DEF FetchedInv, Unread, Removal

\* Whatever a user changes, the event that says so is still to come.
LEMMA ChangesAreToCome ==
  ASSUME Backfill, TypeInv, BatchInv, LibraryStep
  PROVE  /\ \A n \in Present : n \notin Present' => Removal(n)'
         /\ \A n \in NoteIds : jop'.body[n] # jop.body[n] /\ n \in Present' => Unread(n)'
         /\ \A n \in NoteIds, u \in Tags : <<n, u>> \in jop'.member \ jop.member => Unread(n)'
         /\ \A n \in Present', u \in Tags :
              <<n, u>> \in jop.member \ jop'.member => Unread(n)' \/ Removal(u)'
         /\ \A e \in Items : jop.items[e] = "live" /\ jop'.items[e] # "live" => Removal(e)'
         /\ \A e \in Items : jop.items[e] # "live" /\ jop'.items[e] = "live" => Unread(e)' /\ Pending(e)'
<1>. USE DEF TypeInv, TypeOK
<1>0. /\ jop.items \in [Items -> {"never", "live", "gone"}] /\ jop.member \subseteq NoteIds \X Tags
      /\ jop.body \in [NoteIds -> Bodies \cup {NoBody}] /\ NoBody \notin Bodies
  BY JoplinAssumption DEF Library
<1>1. ASSUME NEW n \in NoteIds, NEW b \in Bodies, PutNote(n, b)
      PROVE  /\ jop'.items = jop.items /\ jop'.member = jop.member /\ Unread(n)'
             /\ \A m \in NoteIds \ {n} : jop'.body[m] = jop.body[m]
             /\ n \in Present'
  <2>1. /\ jop'.log = Logged(n, "put") /\ jop'.body = [jop.body EXCEPT ![n] = b]
        /\ jop'.items = jop.items /\ jop'.member = jop.member
    BY <1>1 DEF PutNote, Library
  <2>. QED
    BY <1>0, <2>1, NewestIsToCome DEF Change, Present
<1>2. ASSUME NEW n \in NoteIds, DeleteNote(n)
      PROVE  /\ jop'.items = jop.items /\ Removal(n)'
             /\ jop'.member = {p \in jop.member : p[1] # n}
             /\ \A m \in NoteIds \ {n} : jop'.body[m] = jop.body[m]
             /\ n \notin Present'
  <2>1. /\ jop'.log = Logged(n, "delete") /\ jop'.body = [jop.body EXCEPT ![n] = NoBody]
        /\ jop'.items = jop.items /\ jop'.member = {p \in jop.member : p[1] # n}
    BY <1>2 DEF DeleteNote, Library
  <2>. QED
    BY <1>0, <2>1, NewestIsToCome DEF Change, Present
<1>3. ASSUME NEW n \in NoteIds, NEW t \in Tags, Retag(n, t)
      PROVE  /\ jop'.items = jop.items /\ Unread(n)' /\ jop'.body = jop.body
             /\ \A p : p # <<n, t>> => (p \in jop'.member <=> p \in jop.member)
  <2>1. /\ jop'.log = Logged(n, "put") /\ jop'.items = jop.items /\ jop'.body = jop.body
        /\ jop'.member = IF <<n, t>> \in jop.member THEN jop.member \ {<<n, t>>} ELSE jop.member \cup {<<n, t>>}
    BY <1>3 DEF Retag, Library
  <2>. QED
    BY <2>1, NewestIsToCome DEF Change
<1>4. ASSUME NEW e \in Items, CreateItem(e)
      PROVE  /\ jop'.body = jop.body /\ jop'.member = jop.member /\ Unread(e)' /\ Pending(e)'
             /\ \A o \in Items \ {e} : jop'.items[o] = jop.items[o]
             /\ jop'.items[e] = "live"
  <2>1. /\ jop'.log = Logged(e, "put") /\ jop'.member = jop.member /\ jop'.body = jop.body
        /\ jop'.items = [jop.items EXCEPT ![e] = "live"]
    BY <1>4 DEF CreateItem, Library
  <2>. QED
    BY <1>0, <2>1, NewestIsToCome DEF Change
<1>5. ASSUME NEW e \in Items, DeleteItem(e)
      PROVE  /\ jop'.body = jop.body /\ Removal(e)'
             /\ jop'.member = {p \in jop.member : p[2] # e}
             /\ \A o \in Items \ {e} : jop'.items[o] = jop.items[o]
             /\ jop'.items[e] = "gone"
  <2>1. /\ jop'.log = Logged(e, "delete") /\ jop'.body = jop.body
        /\ jop'.member = {p \in jop.member : p[2] # e} /\ jop'.items = [jop.items EXCEPT ![e] = "gone"]
    BY <1>5 DEF DeleteItem, Library
  <2>. QED
    BY <1>0, <2>1, NewestIsToCome DEF Change
<1>6. CASE \E n \in NoteIds, b \in Bodies : PutNote(n, b)
  BY <1>1, <1>6 DEF Present
<1>7. CASE \E n \in NoteIds : DeleteNote(n)
  BY <1>2, <1>7 DEF Present
<1>8. CASE \E n \in NoteIds, t \in Tags : Retag(n, t)
  BY <1>3, <1>8 DEF Present
<1>9. CASE \E e \in Items : CreateItem(e)
  BY <1>4, <1>9 DEF Present
<1>10. CASE \E e \in Items : DeleteItem(e)
  BY <1>5, <1>10 DEF Present
<1>. QED
  BY <1>6, <1>7, <1>8, <1>9, <1>10 DEF LibraryStep, JoplinNext

\* A change of the library takes no event off the batch.
LEMMA LibraryKeepsClaims ==
  ASSUME Backfill, TypeInv, BatchInv, LibraryStep
  PROVE  \A e : /\ Unread(e) => Unread(e)'
                /\ Removal(e) => Removal(e)'
                /\ Pending(e) => Pending(e)'
<1>1. [Next]_vars
  BY DEF Next
<1>2. Len(jop'.log) # Len(jop.log)
  <2>1. PICK e \in NoteIds \cup Items, c \in Change : jop'.log = Logged(e, c)
    BY LibraryLogs DEF LibraryStep
  <2>2. Len(jop'.log) = Len(jop.log) + 1 /\ Len(jop.log) \in Nat
    BY <2>1, NewEvent, BatchTypes
  <2>. QED
    BY <2>2
<1>3. ~Consuming
  BY <1>1, <1>2, Motion
<1>4. ~FinishSync
  BY <1>2 DEF FinishSync
<1>. QED
  BY <1>1, <1>3, <1>4, ClaimsKept

\* NotesInv is inductive.
LEMMA NotesInvStep ==
  ASSUME Settled, Backfill, TypeInv, WholeInv, BatchInv, FetchedInv, NotesInv, [Next]_vars
  PROVE  NotesInv'
<1>. USE DEF TypeInv, TypeOK
<1>0. /\ jop.body \in [NoteIds -> Bodies \cup {NoBody}] /\ NoBody \notin Bodies
      /\ NoteIds \cap Items = {}
  BY JoplinAssumption DEF Library
<1>1. CASE LibraryStep
  <2>1. UNCHANGED <<db, pc, run>>
    BY <1>1 DEF LibraryStep
  <2>2. \A n \in LiveNotes(db) \ Present' : Removal(n)'
    BY <1>1, ChangesAreToCome, LibraryKeepsClaims DEF NotesInv, LiveNotes
  <2>3. Known({"tags", "tagNotes", "links", "finish"}) =>
          \A n \in Present' : db.body[n] = jop'.body[n] \/ Unread(n)'
    <3>. SUFFICES ASSUME Known({"tags", "tagNotes", "links", "finish"}), NEW n \in Present'
                  PROVE  db.body[n] = jop'.body[n] \/ Unread(n)'
      OBVIOUS
    <3>1. n \in NoteIds /\ jop'.body[n] # NoBody
      BY DEF Present
    <3>2. CASE jop'.body[n] # jop.body[n]
      BY <1>1, <3>1, <3>2, ChangesAreToCome
    <3>3. CASE jop'.body[n] = jop.body[n]
      <4>. n \in Present
        BY <3>1, <3>3 DEF Present
      <4>. QED
        BY <1>1, <3>3, LibraryKeepsClaims DEF NotesInv
    <3>. QED
      BY <3>2, <3>3
  <2>. QED
    BY <2>1, <2>2, <2>3 DEF NotesInv, LiveNotes, Known, Complete
<1>. SUFFICES ASSUME ~LibraryStep
              PROVE  NotesInv'
  BY <1>1
<1>2. UNCHANGED jop /\ Present' = Present
  BY LibraryKept DEF Present
<1>3. Known({"tags", "tagNotes", "links", "finish"})'
        => RebuildNotes \/ Known({"tags", "tagNotes", "links", "finish"})
  BY Entering
<1>4. CASE RebuildNotes
  <2>1. NotesPage(run.page) = Present
    BY <1>4, OnePage DEF RebuildNotes, WholeInv, ListingExact
  <2>2. /\ \A n \in Present : db'.body[n] = jop.body[n]
        /\ LiveNotes(db') \subseteq LiveNotes(db) \cup Present
    BY <1>4, <2>1, RebuildNotesEffect DEF LiveNotes, Present
  <2>3. ~Consuming
    BY <1>4 DEF RebuildNotes, Consuming, ApplyNoteDelete, ApplyNoteMissing, ApplyItemDelete, ApplyItemPut,
       AtEvent, WriteNote
  <2>4. \A e : Removal(e) => Removal(e)'
    BY <2>3, ClaimsKept
  <2>. QED
    BY <1>2, <2>2, <2>4 DEF NotesInv
<1>5. CASE WriteNote
  <2>. DEFINE w == run.note
  <2>1. /\ w \in NoteIds /\ (run.upto # 0 => Current.item = w)
        /\ \A n \in NoteIds \ {w} : db'.body[n] = db.body[n]
        /\ db'.body[w] = run.body /\ db'.deleted = db.deleted \ {w}
        /\ ~ApplyNoteDelete /\ ~ApplyNoteMissing /\ ~ApplyItemDelete /\ ~ApplyItemPut
    BY <1>5, WriteNoteRows, WriteNoteEffect DEF BatchInv, WriteNote, Current, ApplyNoteDelete, ApplyNoteMissing,
       ApplyItemDelete, ApplyItemPut, AtEvent
  <2>2. \A e : e # w => (Unread(e) => Unread(e)') /\ (Removal(e) => Removal(e)')
    BY <2>1, ClaimsKept DEF Consuming
  <2>. HIDE DEF w
  <2>3. ASSUME NEW n \in LiveNotes(db') \ Present
        PROVE  Removal(n)'
    <3>1. CASE n = w
      BY <1>5, <2>1, <2>3, <3>1, WrittenNoteIsKnown DEF w
    <3>2. CASE n # w
      <4>. n \in LiveNotes(db) \ Present
        BY <2>1, <2>3, <3>2 DEF LiveNotes
      <4>. QED
        BY <2>2, <3>2 DEF NotesInv
    <3>. QED
      BY <3>1, <3>2
  <2>4. ASSUME Known({"tags", "tagNotes", "links", "finish"})', NEW n \in Present
        PROVE  db'.body[n] = jop.body[n] \/ Unread(n)'
    <3>0. n \in NoteIds
      BY DEF Present
    <3>1. CASE n = w
      BY <1>5, <2>1, <3>0, <3>1, WrittenNoteIsKnown DEF w
    <3>2. CASE n # w
      <4>. ~RebuildNotes
        BY <1>5 DEF WriteNote, RebuildNotes
      <4>. QED
        BY <1>3, <2>1, <2>2, <2>4, <3>0, <3>2 DEF NotesInv
    <3>. QED
      BY <3>1, <3>2
  <2>. QED
    BY <1>2, <2>3, <2>4 DEF NotesInv
<1>6. CASE ApplyNoteDelete \/ ApplyNoteMissing
  <2>. DEFINE w == Current.item
  <2>1. w \in NoteIds /\ db' = MarkNoteDeleted(db, w) /\ pc = "events" /\ run.next <= run.upto
    BY <1>6 DEF ApplyNoteDelete, ApplyNoteMissing, AtEvent
  <2>2. w \notin Present
    <3>1. CASE ApplyNoteMissing
      BY <3>1 DEF ApplyNoteMissing
    <3>2. CASE ApplyNoteDelete
      <4>. run.next \in 1 .. Len(jop.log)
        BY <2>1 DEF WholeInv, BatchInLog, Run, Library
      <4>. w \in jop.trash
        BY <3>2, <2>1 DEF ApplyNoteDelete, AtEvent, Current, WholeInv, FinalDeletions
      <4>. QED
        BY DEF WholeInv, FinalDeletions
    <3>. QED
      BY <1>6, <3>1, <3>2
  <2>3. /\ db'.body = db.body /\ db'.deleted = IF db.body[w] = NoBody THEN db.deleted ELSE db.deleted \cup {w}
    BY <2>1 DEF MarkNoteDeleted, Index
  <2>4. \A e : e # w => (Unread(e) => Unread(e)') /\ (Removal(e) => Removal(e)')
    BY <2>1, ClaimsKept
  <2>. HIDE DEF w
  <2>5. LiveNotes(db') \subseteq LiveNotes(db) \ {w}
    BY <2>3 DEF LiveNotes
  <2>6. ~RebuildNotes
    BY <2>1 DEF RebuildNotes
  <2>. QED
    BY <1>2, <1>3, <2>2, <2>3, <2>4, <2>5, <2>6 DEF NotesInv
<1>7. CASE ~RebuildNotes /\ ~WriteNote /\ ~ApplyNoteDelete /\ ~ApplyNoteMissing
  <2>1. db'.body = db.body /\ db.deleted \subseteq db'.deleted
    <3>1. db'.body = db.body
      <4>. StartRebuild => db'.body = db.body
        BY DEF StartRebuild, ResetDerived, Index
      <4>. QED
        BY <1>7, BodiesKept
    <3>2. CASE StartRebuild
      BY <3>1, <3>2 DEF StartRebuild, ResetDerived, Index
    <3>3. CASE FinishRebuild
      <4>. db'.deleted = db.deleted \cup (LiveNotes(db) \ run.fresh)
        BY <3>3 DEF FinishRebuild, CompleteRebuild, SweepOrphans, Index
      <4>. QED
        BY <3>1
    <3>4. CASE \E n \in NoteIds : ReindexOneMissing(n)
      BY <3>4, MarkStep
    <3>5. CASE ~FlagStep
      BY <3>5, FlagsKept
    <3>. QED
      BY <1>7, <3>1, <3>2, <3>3, <3>4, <3>5 DEF FlagStep
  <2>2. \A e \in NoteIds : (Unread(e) => Unread(e)') /\ (Removal(e) => Removal(e)')
    <3>. Consuming => Current.item \notin NoteIds
      BY <1>0, <1>7 DEF Consuming, ApplyItemDelete, ApplyItemPut
    <3>. QED
      BY ClaimsKept
  <2>3. LiveNotes(db') \subseteq LiveNotes(db) /\ Present \subseteq NoteIds /\ LiveNotes(db) \subseteq NoteIds
    BY <2>1 DEF LiveNotes, Present
  <2>. QED
    BY <1>2, <1>3, <1>7, <2>1, <2>2, <2>3 DEF NotesInv
<1>. QED
  BY <1>4, <1>5, <1>6, <1>7

\* The event a step consumes is of the library: a deleted item is gone by then.
LEMMA ConsumedEvent ==
  ASSUME TypeInv, LibraryInv, BatchInv
  PROVE  /\ ApplyItemDelete => jop.items[Current.item] = "gone"
         /\ WriteNote /\ run.upto # 0 => Current.item = run.note /\ run.note \in NoteIds
<1>1. ASSUME ApplyItemDelete
      PROVE  jop.items[Current.item] = "gone"
  <2>1. /\ pc = "events" /\ run.next <= run.upto /\ Current.change = "delete" /\ Current.item \in Items
    BY <1>1 DEF ApplyItemDelete, AtEvent
  <2>2. run.next \in 1 .. Len(jop.log)
    BY <2>1, BatchTypes DEF BatchInv, Saved
  <2>. QED
    BY <2>1, <2>2 DEF LibraryInv, Current
<1>2. ASSUME WriteNote, run.upto # 0
      PROVE  Current.item = run.note /\ run.note \in NoteIds
  BY <1>2, WriteNoteEffect DEF WriteNote, BatchInv, Current
<1>. QED
  BY <1>1, <1>2

\* What is still to come about an item survives every step but those that handle it.
LEMMA ItemClaimsKept ==
  ASSUME Backfill, TypeInv, LibraryInv, BatchInv, [Next]_vars, NEW e \in Items
  PROVE  /\ Unread(e) => \/ Unread(e)'
                         \/ ApplyItemDelete /\ Current.item = e
                         \/ ApplyItemPut /\ Current.item = e
         /\ Removal(e) => Removal(e)' \/ (ApplyItemDelete /\ Current.item = e)
<1>1. e \notin NoteIds
  BY JoplinAssumption
<1>2. Consuming /\ Current.item = e => ApplyItemDelete \/ ApplyItemPut
  BY <1>1, ConsumedEvent DEF Consuming, ApplyNoteDelete, ApplyNoteMissing
<1>3. ApplyItemPut => Current.change # "delete"
  BY DEF ApplyItemPut, AtEvent
<1>. QED
  BY <1>2, <1>3, ClaimsKept

\* The steps that store item rows as live store live items.
LEMMA UpsertsAreLive ==
  ASSUME TypeInv, LibraryInv, [Next]_vars, ~FinishRebuild, ~ApplyItemDelete
  PROVE  \A e \in Items : \/ db'.items[e] = db.items[e]
                          \/ db'.items[e] = "live" /\ jop.items[e] = "live"
<1>. USE DEF TypeInv, TypeOK
<1>1. ASSUME NEW S \in SUBSET Items, db' = UpsertItems(db, LiveItems(S))
      PROVE  \A e \in Items : \/ db'.items[e] = db.items[e]
                              \/ db'.items[e] = "live" /\ jop.items[e] = "live"
  <2>. db'.items = [e \in Items |-> IF e \in LiveItems(S) THEN "live" ELSE db.items[e]]
    BY <1>1 DEF UpsertItems, Index
  <2>. QED
    BY DEF LiveItems
<1>2. CASE \/ RebuildFolders \/ RebuildTags \/ RebuildResources
           \/ RefreshFolders \/ RefreshTags \/ RefreshResources
  BY <1>1, <1>2 DEF RebuildFolders, RebuildTags, RebuildResources, RefreshFolders, RefreshTags,
     RefreshResources, Items
<1>3. CASE WriteNote
  <2>. /\ db'.items = [e \in Items |-> IF e \in TagsOfNote(run.note) THEN "live" ELSE db.items[e]]
       /\ \A e \in TagsOfNote(run.note) : jop.items[e] = "live"
    BY <1>3, WriteNoteRows DEF TagsOfNote, LibraryInv
  <2>. QED
    OBVIOUS
<1>. QED
  BY <1>2, <1>3, ItemsKept

\* The two steps that unmark an item.
LEMMA ItemsRemoved ==
  ASSUME TypeInv
  PROVE  /\ ApplyItemDelete =>
              \A e \in Items : IF e = Current.item THEN db'.items[e] # "live" ELSE db'.items[e] = db.items[e]
         /\ FinishRebuild =>
              \A e \in Items : db'.items[e] = IF db.items[e] = "live" /\ e \notin run.fresh
                                                THEN "deleted" ELSE db.items[e]
<1>. USE DEF TypeInv, TypeOK
<1>0. db.items \in [Items -> {"none", "live", "deleted"}]
  BY DEF Index
<1>1. ASSUME ApplyItemDelete
      PROVE  \A e \in Items : IF e = Current.item THEN db'.items[e] # "live" ELSE db'.items[e] = db.items[e]
  <2>. DEFINE c == Current.item
  <2>1. db'.items = [db.items EXCEPT ![c] = IF db.items[c] = "none" THEN "none" ELSE "deleted"]
    BY <1>1 DEF ApplyItemDelete, MarkItemDeleted, Index
  <2>. HIDE DEF c
  <2>. QED
    BY <1>0, <2>1 DEF c
<1>2. ASSUME FinishRebuild
      PROVE  \A e \in Items : db'.items[e] = IF db.items[e] = "live" /\ e \notin run.fresh
                                               THEN "deleted" ELSE db.items[e]
  BY <1>0, <1>2 DEF FinishRebuild, CompleteRebuild, SweepOrphans, Index
<1>. QED
  BY <1>1, <1>2

\* StrayItems is inductive.
LEMMA StrayItemsStep ==
  ASSUME Backfill, TypeInv, LibraryInv, BatchInv, StrayItems, [Next]_vars
  PROVE  StrayItems'
<1>1. CASE LibraryStep
  <2>. UNCHANGED db
    BY <1>1 DEF LibraryStep
  <2>. QED
    BY <1>1, ChangesAreToCome, LibraryKeepsClaims DEF StrayItems
<1>2. CASE ~LibraryStep
  <2>1. UNCHANGED jop
    BY <1>2, LibraryKept
  <2>2. ASSUME NEW e \in Items, db'.items[e] = "live", jop.items[e] # "live"
        PROVE  Removal(e)'
    <3>1. db.items[e] = "live" /\ ~(ApplyItemDelete /\ Current.item = e)
      BY <2>2, UpsertsAreLive, ItemsRemoved
    <3>. QED
      BY <2>2, <3>1, ItemClaimsKept DEF StrayItems
  <2>. QED
    BY <2>1, <2>2 DEF StrayItems
<1>. QED
  BY <1>1, <1>2

\* The three kinds are apart.
LEMMA KindOfItem ==
  ASSUME NEW e \in Items
  PROVE  /\ KindOf(e) = "folders" <=> e \in Folders
         /\ KindOf(e) = "tags" <=> e \in Tags
         /\ KindOf(e) = "resources" <=> e \in Resources
         /\ KindOf(e) \in Kind
<1>1. \E k \in Kind : e \in ItemsOf(k)
  BY DEF Items, Kind, ItemsOf
<1>2. KindOf(e) \in Kind /\ e \in ItemsOf(KindOf(e))
  BY <1>1 DEF KindOf
<1>. QED
  BY <1>2, JoplinAssumption DEF Kind, ItemsOf

\* A refresh that is due stays due until it is made.
LEMMA RefreshKept ==
  ASSUME TypeInv, BatchInv, [Next]_vars, ~FinishSync, ~Abort,
         ~RefreshFolders, ~RefreshTags, ~RefreshResources, ~RefreshLinks
  PROVE  run.refresh \subseteq run'.refresh
<1>. USE DEF TypeInv, TypeOK
<1>1. CASE FullRebuild \/ PollEmpty \/ PollBatch \/ PollInvalid
           \/ \E n \in NoteIds : ReindexOne(n) \/ ReindexOneMissing(n)
  <2>. pc \notin {"events", "noteTags"}
    BY <1>1 DEF FullRebuild, StartRebuild, RebuildFolders, RebuildNotes, RebuildTags, RebuildTagNotes,
       RebuildResources, RebuildLinks, FinishRebuild, PollEmpty, PollBatch, PollInvalid, ReindexOne, ReindexOneMissing
  <2>. QED
    BY DEF BatchInv
<1>2. CASE ApplyNoteDelete \/ ApplyNoteMissing \/ ApplyItemDelete \/ ApplyItemPut \/ ApplyNotePut
  BY <1>2 DEF ApplyNoteDelete, ApplyNoteMissing, ApplyItemDelete, ApplyItemPut, ApplyNotePut, Consumed, Run
<1>3. CASE WriteNote
  BY <1>3 DEF WriteNote, BatchInv, Run
<1>4. CASE LibraryStep \/ UNCHANGED vars
  BY <1>4 DEF LibraryStep, vars
<1>. QED
  BY <1>1, <1>2, <1>3, <1>4 DEF Next, IncrementalSync, Reindex

\* A listing step of a rebuild stores and stamps every live item of its kind.
LEMMA ListingStores ==
  ASSUME TypeInv, NEW e \in Items, jop.items[e] = "live",
         \/ RebuildFolders /\ e \in Folders
         \/ RebuildTags /\ e \in Tags
         \/ RebuildResources /\ e \in Resources
  PROVE  db'.items[e] = "live" /\ e \in run'.fresh
<1>. USE DEF TypeInv, TypeOK
<1>1. ASSUME NEW S \in SUBSET Items, e \in S, db' = UpsertItems(db, LiveItems(S)),
             run'.fresh = run.fresh \cup LiveItems(S)
      PROVE  db'.items[e] = "live" /\ e \in run'.fresh
  BY <1>1 DEF UpsertItems, Index, LiveItems
<1>2. CASE RebuildFolders /\ e \in Folders
  BY <1>1, <1>2 DEF RebuildFolders, Run, Items
<1>3. CASE RebuildTags /\ e \in Tags
  BY <1>1, <1>3 DEF RebuildTags, Run, Items
<1>4. CASE RebuildResources /\ e \in Resources
  BY <1>1, <1>4 DEF RebuildResources, Run, Items
<1>. QED
  BY <1>2, <1>3, <1>4

\* So does a refresh; the other kinds stay due.
LEMMA RefreshStores ==
  ASSUME TypeInv, NEW e \in Items, jop.items[e] = "live",
         RefreshFolders \/ RefreshTags \/ RefreshResources \/ RefreshLinks
  PROVE  /\ KindOf(e) \in run.refresh => db'.items[e] = "live" \/ KindOf(e) \in run'.refresh
         /\ pc' = "events"
<1>. USE DEF TypeInv, TypeOK
<1>1. ASSUME NEW S \in SUBSET Items, e \in S, db' = UpsertItems(db, LiveItems(S))
      PROVE  db'.items[e] = "live"
  BY <1>1 DEF UpsertItems, Index, LiveItems
<1>2. CASE RefreshFolders
  <2>. run'.refresh = run.refresh \ {"folders"} /\ db' = UpsertItems(db, LiveItems(Folders)) /\ pc' = "events"
    BY <1>2 DEF RefreshFolders, Refreshed, AtRefresh, Run
  <2>. QED
    BY <1>1, KindOfItem DEF Items
<1>3. CASE RefreshTags
  <2>. run'.refresh = run.refresh \ {"tags"} /\ db' = UpsertItems(db, LiveItems(Tags)) /\ pc' = "events"
    BY <1>3 DEF RefreshTags, Refreshed, AtRefresh, Run
  <2>. QED
    BY <1>1, KindOfItem DEF Items
<1>4. CASE RefreshResources
  <2>. run.refresh = {"resources"} /\ db' = UpsertItems(db, LiveItems(Resources)) /\ pc' = "events"
    BY <1>4 DEF RefreshResources, AtRefresh
  <2>. QED
    BY <1>1, KindOfItem DEF Items
<1>5. CASE RefreshLinks
  <2>. run'.refresh = run.refresh \ {"links"} /\ pc' = "events"
    BY <1>5 DEF RefreshLinks, Refreshed, AtRefresh, Run
  <2>. QED
    BY KindOfItem DEF Kind
<1>. QED
  BY <1>2, <1>3, <1>4, <1>5

\* ListedItems is inductive.
LEMMA ListedItemsStep ==
  ASSUME Backfill, TypeInv, LibraryInv, BatchInv, ListedItems, [Next]_vars
  PROVE  ListedItems'
<1>. USE DEF TypeInv, TypeOK
<1>1. CASE LibraryStep
  <2>1. UNCHANGED <<db, pc, run>>
    BY <1>1 DEF LibraryStep
  <2>2. ASSUME NEW e \in Items, ItemsKnown(e), jop'.items[e] = "live"
        PROVE  \/ db.items[e] = "live" /\ (Refilling => e \in run.fresh)
               \/ Pending(e)' /\ (Unread(e)' \/ KindOf(e) \in run.refresh)
    BY <1>1, <2>2, ChangesAreToCome, LibraryKeepsClaims DEF ListedItems
  <2>. QED
    BY <2>1, <2>2 DEF ListedItems, ItemsKnown, Known, Complete, Refilling
<1>. SUFFICES ASSUME ~LibraryStep
              PROVE  ListedItems'
  BY <1>1
<1>2. UNCHANGED jop
  BY LibraryKept
<1>. SUFFICES ASSUME NEW e \in Items, ItemsKnown(e)', jop.items[e] = "live"
              PROVE  \/ db'.items[e] = "live" /\ (Refilling' => e \in run'.fresh)
                     \/ Pending(e)' /\ (Unread(e)' \/ KindOf(e) \in run'.refresh)
  BY <1>2 DEF ListedItems
<1>3. CASE \/ RebuildFolders /\ e \in Folders
           \/ RebuildTags /\ e \in Tags
           \/ RebuildResources /\ e \in Resources
  BY <1>3, ListingStores
<1>. SUFFICES ASSUME ~(RebuildFolders /\ e \in Folders), ~(RebuildTags /\ e \in Tags),
                     ~(RebuildResources /\ e \in Resources)
              PROVE  \/ db'.items[e] = "live" /\ (Refilling' => e \in run'.fresh)
                     \/ Pending(e)' /\ (Unread(e)' \/ KindOf(e) \in run'.refresh)
  BY <1>3
<1>4. ItemsKnown(e)
  BY Entering DEF ItemsKnown
<1>5. ~(ApplyItemDelete /\ Current.item = e)
  BY ConsumedEvent
<1>6. CASE db.items[e] = "live" /\ (Refilling => e \in run.fresh)
  <2>1. db'.items[e] = "live"
    <3>1. FinishRebuild => Refilling
      BY DEF FinishRebuild, Refilling
    <3>. QED
      BY <1>5, <1>6, <3>1, UpsertsAreLive, ItemsRemoved
  <2>2. ~StartRebuild
    BY DEF StartRebuild, ResetDerived, Index, ItemsKnown, Known, Complete
  <2>3. Refilling' => Refilling /\ run.fresh \subseteq run'.fresh
    <3>1. CASE FullRebuild
      <4>1. CASE FinishRebuild
        BY <4>1 DEF FinishRebuild, Finished, Refilling
      <4>2. CASE RebuildNotes
        BY <4>2 DEF RebuildNotes, Refilling, Run
      <4>3. CASE RebuildFolders \/ RebuildTags \/ RebuildResources
        <5>. /\ pc \in {"folders", "tags", "tagNotes"}
             /\ \E S \in {Folders, Tags, Resources} : run'.fresh = run.fresh \cup LiveItems(S)
          BY <4>3 DEF RebuildFolders, RebuildTags, RebuildResources, Run
        <5>. QED
          BY DEF Refilling
      <4>4. CASE RebuildLinks \/ \E t \in Tags : RebuildTagNotes(t)
        BY <4>4 DEF RebuildLinks, RebuildTagNotes, Refilling, Run
      <4>. QED
        BY <2>2, <3>1, <4>1, <4>2, <4>3, <4>4 DEF FullRebuild
    <3>2. CASE IncrementalSync
      <4>. CASE PollEmpty \/ PollInvalid
        BY DEF PollEmpty, PollInvalid, Refilling
      <4>. CASE ~PollEmpty /\ ~PollInvalid
        <5>. pc' \in {"idle", "events", "noteTags"}
          BY <3>2 DEF IncrementalSync, PollBatch, ApplyNoteDelete, ApplyNotePut,
             ApplyNoteMissing, ApplyItemDelete, ApplyItemPut, RefreshFolders, RefreshTags,
             RefreshResources, RefreshLinks, FinishSync, Finished, AtEvent, AtRefresh
        <5>. QED
          BY DEF Refilling
      <4>. QED
        OBVIOUS
    <3>3. CASE Reindex \/ Abort
      <4>. pc' \in {"idle", "events", "noteTags"}
        BY <3>3 DEF Reindex, ReindexOne, ReindexOneMissing, WriteNote, Abort, Finished
      <4>. QED
        BY DEF Refilling
    <3>4. CASE UNCHANGED vars
      BY <3>4 DEF vars, Refilling
    <3>. QED
      BY <3>1, <3>2, <3>3, <3>4 DEF Next
  <2>. QED
    BY <1>6, <2>1, <2>3
<1>7. CASE Pending(e) /\ (Unread(e) \/ KindOf(e) \in run.refresh)
  <2>1. CASE FinishSync
    <3>1. run.refresh = {} /\ ~ApplyItemPut
      BY <2>1 DEF FinishSync, ApplyItemPut, AtEvent, Finished
    <3>. QED
      BY <1>5, <1>7, <2>1, <3>1, ClaimsKept, ItemClaimsKept
  <2>2. CASE Abort /\ ~FinishSync
    BY <1>7, <2>2, ClaimsKept
  <2>3. CASE RefreshFolders \/ RefreshTags \/ RefreshResources \/ RefreshLinks
    <3>1. ~FinishSync /\ ~ApplyItemPut /\ ~Refilling'
      <4>. pc' = "events" /\ run.next > run.upto
        BY <2>3, RefreshStores DEF RefreshFolders, RefreshTags, RefreshResources, RefreshLinks, AtRefresh
      <4>. QED
        BY BatchTypes DEF FinishSync, Finished, ApplyItemPut, AtEvent, Refilling
    <3>. QED
      BY <1>5, <1>7, <2>3, <3>1, RefreshStores, ClaimsKept, ItemClaimsKept
  <2>4. CASE ApplyItemPut /\ Current.item = e
    <3>1. ~FinishSync /\ KindOf(e) \in run'.refresh
      BY <2>4, BatchTypes DEF ApplyItemPut, FinishSync, AtEvent, Run
    <3>. QED
      BY <1>7, <3>1, ClaimsKept
  <2>5. CASE /\ ~FinishSync /\ ~Abort /\ ~(ApplyItemPut /\ Current.item = e)
             /\ ~RefreshFolders /\ ~RefreshTags /\ ~RefreshResources /\ ~RefreshLinks
    BY <1>5, <1>7, <2>5, RefreshKept, ClaimsKept, ItemClaimsKept
  <2>. QED
    BY <2>1, <2>2, <2>3, <2>4, <2>5
<1>. QED
  BY <1>4, <1>6, <1>7 DEF ListedItems

\* What is still to come about a note that is there survives every step but the one
\* that writes the note.
LEMMA PresentClaimsKept ==
  ASSUME Settled, Backfill, TypeInv, WholeInv, LibraryInv, BatchInv, [Next]_vars, NEW n \in Present
  PROVE  Unread(n) => Unread(n)' \/ (WriteNote /\ n = run.note)
<1>. USE DEF TypeInv, TypeOK
<1>1. n \in NoteIds /\ n \notin Items
  BY JoplinAssumption DEF Present
<1>2. ~(ApplyNoteMissing /\ Current.item = n)
  BY DEF ApplyNoteMissing
<1>3. ~(ApplyNoteDelete /\ Current.item = n)
  <2>. SUFFICES ASSUME ApplyNoteDelete, Current.item = n
                PROVE  FALSE
    OBVIOUS
  <2>1. run.next \in 1 .. Len(jop.log)
    BY DEF ApplyNoteDelete, AtEvent, WholeInv, BatchInLog, Run, Library
  <2>2. n \in jop.trash
    BY <1>1, <2>1 DEF ApplyNoteDelete, AtEvent, Current, WholeInv, FinalDeletions
  <2>. QED
    BY <2>2 DEF WholeInv, FinalDeletions
<1>4. ~(ApplyItemDelete /\ Current.item = n) /\ ~(ApplyItemPut /\ Current.item = n)
  BY <1>1 DEF ApplyItemDelete, ApplyItemPut
<1>. QED
  BY <1>2, <1>3, <1>4, ConsumedEvent, ClaimsKept DEF Consuming

\* What the writers of note_tags leave in it.
LEMMA NoteTagsWritten ==
  ASSUME TypeInv, [Next]_vars
  PROVE  /\ StartRebuild => db'.noteTags = {}
         /\ \A t \in Tags : RebuildTagNotes(t) => db'.noteTags = db.noteTags \cup (NotesOfTag(t) \X {t})
         /\ ApplyItemDelete => db'.noteTags = {p \in db.noteTags : p[2] # Current.item}
         /\ WriteNote => db'.noteTags = {p \in db.noteTags : p[1] # run.note}
                                          \cup ({run.note} \X TagsOfNote(run.note))
<1>. USE DEF TypeInv, TypeOK
<1>1. StartRebuild => db'.noteTags = {}
  BY DEF StartRebuild, ResetDerived, Index
<1>2. \A t \in Tags : RebuildTagNotes(t) => db'.noteTags = db.noteTags \cup (NotesOfTag(t) \X {t})
  BY DEF RebuildTagNotes, UpsertNoteTags, Index
<1>3. ApplyItemDelete => db'.noteTags = {p \in db.noteTags : p[2] # Current.item}
  <2>. DEFINE c == Current.item
  <2>1. ApplyItemDelete => db'.noteTags = {p \in db.noteTags : p[2] # c}
    BY DEF ApplyItemDelete, MarkItemDeleted, Index
  <2>. QED
    BY <2>1
<1>. QED
  BY <1>1, <1>2, <1>3, WriteNoteRows

\* StrayTags is inductive.
LEMMA StrayTagsStep ==
  ASSUME Settled, Backfill, TypeInv, WholeInv, LibraryInv, BatchInv, StrayTags, [Next]_vars
  PROVE  StrayTags'
<1>. USE DEF TypeInv, TypeOK
<1>1. CASE LibraryStep
  <2>1. UNCHANGED db
    BY <1>1 DEF LibraryStep
  <2>2. ASSUME NEW n \in Present', NEW u \in Tags, <<n, u>> \in db.noteTags \ jop'.member
        PROVE  Unread(n)' \/ Removal(u)'
    <3>1. n \in NoteIds /\ (n \notin Present => jop'.body[n] # jop.body[n])
      BY DEF Present
    <3>2. CASE n \notin Present \/ <<n, u>> \in jop.member
      BY <1>1, <2>2, <3>1, <3>2, ChangesAreToCome
    <3>3. CASE n \in Present /\ <<n, u>> \notin jop.member
      BY <1>1, <2>2, <3>3, LibraryKeepsClaims DEF StrayTags
    <3>. QED
      BY <3>2, <3>3
  <2>. QED
    BY <2>1, <2>2 DEF StrayTags
<1>2. CASE ~LibraryStep
  <2>1. UNCHANGED jop /\ Present' = Present
    BY <1>2, LibraryKept DEF Present
  <2>2. ASSUME NEW n \in Present, NEW u \in Tags, <<n, u>> \in db'.noteTags, <<n, u>> \notin jop.member
        PROVE  Unread(n)' \/ Removal(u)'
    <3>1. n \in NoteIds /\ u \in Items
      BY DEF Present, Items
    <3>2. /\ ~StartRebuild
          /\ ~(ApplyItemDelete /\ Current.item = u)
          /\ ~(WriteNote /\ n = run.note)
          /\ <<n, u>> \in db.noteTags
      <4>1. CASE StartRebuild
        BY <2>2, <4>1, NoteTagsWritten
      <4>2. CASE \E t \in Tags : RebuildTagNotes(t)
        <5>. PICK t \in Tags : RebuildTagNotes(t)
          BY <4>2
        <5>1. <<n, u>> \notin NotesOfTag(t) \X {t}
          BY <2>2 DEF NotesOfTag
        <5>2. pc = "tagNotes"
          BY DEF RebuildTagNotes
        <5>. QED
          BY <2>2, <5>1, <5>2, NoteTagsWritten DEF StartRebuild, ApplyItemDelete, AtEvent, WriteNote
      <4>3. CASE ApplyItemDelete
        BY <2>2, <4>3, NoteTagsWritten DEF ApplyItemDelete, AtEvent, StartRebuild, WriteNote
      <4>4. CASE WriteNote
        <5>. <<n, u>> \notin {run.note} \X TagsOfNote(run.note)
          BY <2>2 DEF TagsOfNote
        <5>. QED
          BY <2>2, <4>4, NoteTagsWritten DEF ApplyItemDelete, AtEvent, StartRebuild, WriteNote
      <4>. QED
        BY <2>2, <4>1, <4>2, <4>3, <4>4, NoteTagsKept
    <3>. QED
      BY <2>2, <3>1, <3>2, PresentClaimsKept, ItemClaimsKept DEF StrayTags
  <2>. QED
    BY <2>1, <2>2 DEF StrayTags
<1>. QED
  BY <1>1, <1>2

\* ListedTags is inductive.
LEMMA ListedTagsStep ==
  ASSUME Settled, Backfill, TypeInv, WholeInv, LibraryInv, BatchInv, ListedTags, [Next]_vars
  PROVE  ListedTags'
<1>. USE DEF TypeInv, TypeOK
<1>1. CASE LibraryStep
  <2>1. UNCHANGED <<db, pc, run>>
    BY <1>1 DEF LibraryStep
  <2>2. ASSUME Known({"tagNotes", "links", "finish"}), NEW n \in Present', NEW u \in Tags \ run.tagIds,
               <<n, u>> \in jop'.member \ db.noteTags
        PROVE  Unread(n)'
    <3>1. n \in NoteIds /\ (n \notin Present => jop'.body[n] # jop.body[n])
      BY DEF Present
    <3>2. CASE n \notin Present \/ <<n, u>> \notin jop.member
      BY <1>1, <2>2, <3>1, <3>2, ChangesAreToCome
    <3>3. CASE n \in Present /\ <<n, u>> \in jop.member
      BY <1>1, <2>2, <3>3, LibraryKeepsClaims DEF ListedTags
    <3>. QED
      BY <3>2, <3>3
  <2>. QED
    BY <2>1, <2>2 DEF ListedTags, Known, Complete
<1>. SUFFICES ASSUME ~LibraryStep, Known({"tagNotes", "links", "finish"})',
                     NEW n \in Present, NEW u \in Tags, u \notin run'.tagIds,
                     <<n, u>> \in jop.member, <<n, u>> \notin db'.noteTags
              PROVE  Unread(n)'
  <2>. ~LibraryStep => UNCHANGED jop /\ Present' = Present
    BY LibraryKept DEF Present
  <2>. QED
    BY <1>1 DEF ListedTags
<1>2. n \in NoteIds /\ u \in Items /\ jop.items[u] = "live"
  BY DEF Present, Items, LibraryInv
<1>3. ~RebuildTags
  <2>. RebuildTags => run'.tagIds = LiveItems(Tags)
    BY DEF RebuildTags, Run
  <2>. QED
    BY <1>2 DEF LiveItems
<1>4. Known({"tagNotes", "links", "finish"})
  BY <1>3, Entering
<1>5. ~StartRebuild
  BY DEF StartRebuild, ResetDerived, Index, Known, Complete
<1>6. /\ ~(WriteNote /\ n = run.note)
      /\ <<n, u>> \notin db.noteTags
      /\ \A t \in Tags : RebuildTagNotes(t) => t # u
  <2>1. CASE \E t \in Tags : RebuildTagNotes(t)
    <3>. PICK t \in Tags : RebuildTagNotes(t)
      BY <2>1
    <3>1. \A v \in Tags : RebuildTagNotes(v) => db'.noteTags = db.noteTags \cup (NotesOfTag(v) \X {v})
      BY NoteTagsWritten
    <3>2. pc = "tagNotes" /\ n \in NotesOfTag(u)
      BY <1>2 DEF RebuildTagNotes, NotesOfTag
    <3>. QED
      BY <3>1, <3>2 DEF WriteNote
  <2>2. CASE ApplyItemDelete
    <3>. Current.item # u /\ ~WriteNote /\ \A t \in Tags : ~RebuildTagNotes(t)
      BY <1>2, <2>2, ConsumedEvent DEF ApplyItemDelete, AtEvent, WriteNote, RebuildTagNotes
    <3>. QED
      BY <2>2, NoteTagsWritten
  <2>3. CASE WriteNote
    <3>1. u \in TagsOfNote(n) /\ \A t \in Tags : ~RebuildTagNotes(t)
      BY <2>3 DEF TagsOfNote, WriteNote, RebuildTagNotes
    <3>. QED
      BY <2>3, <3>1, NoteTagsWritten
  <2>. QED
    BY <1>5, <2>1, <2>2, <2>3, NoteTagsKept
<1>7. u \notin run.tagIds
  <2>. SUFFICES ASSUME u \in run.tagIds
                PROVE  FALSE
    OBVIOUS
  <2>1. pc = "tagNotes" /\ db.rebuilding
    BY DEF BatchInv, Refilling
  <2>2. CASE \E t \in Tags : RebuildTagNotes(t)
    <3>. PICK t \in Tags : RebuildTagNotes(t)
      BY <2>2
    <3>. run'.tagIds = run.tagIds \ {t} /\ t # u
      BY <1>6 DEF RebuildTagNotes, Run
    <3>. QED
      OBVIOUS
  <2>3. CASE Abort
    BY <2>1, <2>3 DEF Abort, Finished, Known, Complete
  <2>4. CASE UNCHANGED vars
    BY <2>4 DEF vars
  <2>. QED
    BY <2>1, <2>2, <2>3, <2>4 DEF Next, FullRebuild, StartRebuild, RebuildFolders, RebuildNotes, RebuildTags,
       RebuildResources, RebuildLinks, FinishRebuild, IncrementalSync, PollEmpty, PollBatch,
       PollInvalid, ApplyNoteDelete, ApplyNotePut, ApplyNoteMissing, ApplyItemDelete,
       ApplyItemPut, RefreshFolders, RefreshTags, RefreshResources, RefreshLinks, FinishSync, Reindex,
       ReindexOne, ReindexOneMissing, WriteNote, AtEvent, AtRefresh
<1>. QED
  BY <1>4, <1>6, <1>7, PresentClaimsKept DEF ListedTags

\* A link whose resource is live but not joined owes it to an event of the resource
\* that is still to come, or to a refresh that is due.
OwedLink(r) == Pending(r) /\ (Unread(r) \/ run.refresh \cap {"resources", "links"} # {})

\* What is owed to a link survives every step but a rebuild of the table.
LEMMA OwedLinkKept ==
  ASSUME Backfill, TypeInv, LibraryInv, BatchInv, [Next]_vars, ~RefreshLinks, ~LibraryStep,
         NEW r \in Resources, ~(ApplyItemDelete /\ Current.item = r), OwedLink(r)
  PROVE  OwedLink(r)'
<1>. USE DEF TypeInv, TypeOK
<1>0. r \in Items /\ KindOf(r) = "resources"
  BY KindOfItem DEF Items
<1>1. CASE FinishSync
  <2>1. run.refresh = {} /\ ~ApplyItemPut
    BY <1>1 DEF FinishSync, ApplyItemPut, AtEvent, Finished
  <2>. QED
    BY <1>0, <1>1, <2>1, ClaimsKept, ItemClaimsKept DEF OwedLink
<1>2. CASE Abort /\ ~FinishSync
  BY <1>2, ClaimsKept DEF OwedLink
<1>3. CASE RefreshFolders \/ RefreshTags \/ RefreshResources
  <2>1. ~FinishSync /\ ~ApplyItemPut
    <3>1. pc' = "events" /\ run.next > run.upto
      BY <1>3 DEF RefreshFolders, RefreshTags, RefreshResources, AtRefresh
    <3>. QED
      BY <3>1, BatchTypes DEF FinishSync, Finished, ApplyItemPut, AtEvent
  <2>2. run.refresh \cap {"resources", "links"} # {} => run'.refresh \cap {"resources", "links"} # {}
    BY <1>3 DEF RefreshFolders, RefreshTags, RefreshResources, Refreshed, Run
  <2>. QED
    BY <1>0, <2>1, <2>2, ClaimsKept, ItemClaimsKept DEF OwedLink
<1>4. CASE ApplyItemPut /\ Current.item = r
  <2>1. ~FinishSync /\ "resources" \in run'.refresh
    BY <1>0, <1>4, BatchTypes DEF ApplyItemPut, FinishSync, AtEvent, Run
  <2>. QED
    BY <2>1, ClaimsKept DEF OwedLink
<1>5. CASE /\ ~FinishSync /\ ~Abort /\ ~(ApplyItemPut /\ Current.item = r)
           /\ ~RefreshFolders /\ ~RefreshTags /\ ~RefreshResources
  BY <1>0, <1>5, RefreshKept, ClaimsKept, ItemClaimsKept DEF OwedLink
<1>. QED
  BY <1>1, <1>2, <1>3, <1>4, <1>5

\* A rebuild of the table joins every link to a resource it has a row of.
LEMMA RebuiltIsComplete ==
  ASSUME TypeInv, RebuildLinks \/ RefreshLinks,
         NEW n \in NoteIds, NEW r \in Resources, r \in Linked(db', n), db'.items[r] # "none"
  PROVE  <<n, r>> \in db'.noteRes
<1>1. db \in Index /\ db' = RebuildNoteResources(db, NoteIds)
  BY DEF TypeInv, TypeOK, RebuildLinks, RefreshLinks
<1>2. /\ db'.noteRes = {p \in NoteIds \X Resources :
                          IF p[1] \in NoteIds THEN p[2] \in Linked(db, p[1]) /\ db.items[p[2]] # "none"
                                              ELSE p \in db.noteRes}
      /\ db'.items = db.items /\ db'.derived = db.derived
  BY <1>1 DEF RebuildNoteResources, Index
<1>3. r \in Linked(db, n)
  BY <1>2 DEF Linked
<1>. QED
  BY <1>2, <1>3

\* The stored links point at resources.
LEMMA LinkedAreResources ==
  ASSUME NEW d \in Index, NEW n \in NoteIds
  PROVE  Linked(d, n) \subseteq Resources
<1>. d.derived[n] \in Bodies \cup {NoBody}
  BY DEF Index
<1>. QED
  BY EmbedsAssumption DEF Linked

\* LinksInv is inductive.
LEMMA LinksInvStep ==
  ASSUME Backfill, TypeInv, LibraryInv, BatchInv, ListedItems, LinksInv, [Next]_vars
  PROVE  LinksInv'
<1>. USE DEF TypeInv, TypeOK
<1>1. CASE LibraryStep
  <2>1. UNCHANGED <<db, pc, run>>
    BY <1>1 DEF LibraryStep
  <2>2. \A n \in NoteIds : Linked(db', n) = Linked(db, n)
    BY <2>1
  <2>. QED
    BY <1>1, <2>1, <2>2, LibraryKeepsClaims DEF LinksInv, Known, Complete
<1>. SUFFICES ASSUME ~LibraryStep, Known({"finish"})',
                     NEW n \in NoteIds, NEW r \in Linked(db', n),
                     db'.items[r] = "live", <<n, r>> \notin db'.noteRes
              PROVE  OwedLink(r)'
  BY <1>1 DEF LinksInv, OwedLink
<1>2. UNCHANGED jop
  BY LibraryKept
<1>3. r \in Resources /\ r \in Items /\ r \notin Tags
  BY TypeStep, LinkedAreResources, JoplinAssumption DEF Items
<1>4. ~RebuildLinks /\ ~RefreshLinks
  BY <1>3, RebuiltIsComplete
<1>5. Known({"finish"})
  BY <1>4, Entering
<1>6. ~StartRebuild /\ ~RebuildNotes /\ ~RebuildResources
  <2>1. ~StartRebuild
    BY DEF StartRebuild, ResetDerived, Index, Known, Complete
  <2>2. pc \notin {"notes", "tagNotes"}
    BY <1>5 DEF Known, Complete, BatchInv, Refilling
  <2>. QED
    BY <2>1, <2>2 DEF RebuildNotes, RebuildResources
<1>7. ~(ApplyItemDelete /\ Current.item = r)
  BY <1>3, ItemsRemoved
<1>8. r \in Linked(db, n) /\ <<n, r>> \notin db.noteRes
  <2>1. CASE WriteNote
    <3>0. r \notin TagsOfNote(run.note)
      BY <1>3 DEF TagsOfNote
    <3>1. db.items[r] = "live"
      BY <1>3, <2>1, <3>0, WriteNoteRows
    <3>2. db'.derived[n] = db.derived[n]
      <4>1. CASE n = run.note /\ db.body[n] # run.body
        BY <1>3, <2>1, <3>1, <4>1, WriteNoteRows
      <4>2. CASE ~(n = run.note /\ db.body[n] # run.body)
        BY <2>1, <4>2, WriteNoteRows
      <4>. QED
        BY <4>1, <4>2
    <3>3. CASE n = run.note /\ db.body[n] # run.body
      BY <1>3, <2>1, <3>1, <3>3, WriteNoteRows
    <3>4. CASE ~(n = run.note /\ db.body[n] # run.body)
      BY <2>1, <3>2, <3>4, WriteNoteRows DEF Linked
    <3>. QED
      BY <3>3, <3>4
  <2>2. CASE ~WriteNote
    BY <1>4, <1>6, <2>2, BodiesKept, NoteResourcesKept DEF Linked
  <2>. QED
    BY <2>1, <2>2
<1>9. OwedLink(r)
  <2>1. CASE db.items[r] = "live"
    BY <1>5, <1>8, <2>1 DEF LinksInv, OwedLink
  <2>2. CASE db.items[r] # "live"
    <3>1. jop.items[r] = "live"
      BY <1>3, <2>2, UpsertsAreLive, ItemsRemoved
    <3>2. ItemsKnown(r)
      BY <1>3, <1>5 DEF ItemsKnown, Known
    <3>3. KindOf(r) = "resources"
      BY <1>3, KindOfItem
    <3>. QED
      BY <1>3, <2>2, <3>1, <3>2, <3>3 DEF ListedItems, OwedLink
  <2>. QED
    BY <2>1, <2>2
<1>. QED
  BY <1>3, <1>4, <1>7, <1>9, OwedLinkKept

\* The index against the library.
MirrorInv ==
  /\ LibraryInv /\ BatchInv /\ FetchedInv
  /\ NotesInv /\ StrayItems /\ ListedItems /\ StrayTags /\ ListedTags /\ LinksInv

\* The empty index has everything ahead of it.
LEMMA MirrorInit ==
  ASSUME Init
  PROVE  MirrorInv
<1>1. /\ jop.log = <<>> /\ \A p \in jop.member : jop.items[p[2]] = "live"
  BY DEF Init, JoplinInit, Items
<1>2. Len(jop.log) = 0
  BY <1>1
<1>3. /\ db = EmptyIndex /\ pc = "idle" /\ run = NoRun
  BY DEF Init
<1>4. ~Complete /\ Saved = 0 /\ run.upto = 0 /\ run.refresh = {} /\ run.tagIds = {}
  BY <1>3 DEF EmptyIndex, Complete, Saved, NoRun
<1>5. LibraryInv
  BY <1>1, <1>2 DEF LibraryInv
<1>6. BatchInv /\ FetchedInv
  BY <1>2, <1>3, <1>4 DEF BatchInv, FetchedInv, Refilling
<1>7. NotesInv /\ LinksInv /\ ListedTags /\ ListedItems
  BY <1>3, <1>4 DEF NotesInv, LinksInv, ListedTags, ListedItems, ItemsKnown, Known, LiveNotes, EmptyIndex
<1>8. StrayItems /\ StrayTags
  BY <1>3 DEF StrayItems, StrayTags, EmptyIndex
<1>. QED
  BY <1>5, <1>6, <1>7, <1>8 DEF MirrorInv

\* MirrorInv is inductive.
LEMMA MirrorStep ==
  ASSUME Settled, Backfill, TypeInv, WholeInv, MirrorInv, [Next]_vars
  PROVE  MirrorInv'
BY LibraryInvStep, BatchInvStep, FetchedInvStep, NotesInvStep, StrayItemsStep, ListedItemsStep,
   StrayTagsStep, ListedTagsStep, LinksInvStep DEF MirrorInv

\* At the end of the log nothing is still to come, so every reservation is void.
LEMMA NothingToCome ==
  ASSUME TypeInv, ResourcesInv, WholeInv, MirrorInv, CaughtUp
  PROVE  Mirrors
<1>. USE DEF TypeInv, TypeOK
<1>0. /\ jop.body \in [NoteIds -> Bodies \cup {NoBody}] /\ NoBody \notin Bodies
      /\ jop.items \in [Items -> {"never", "live", "gone"}] /\ Embeds \in [Bodies -> SUBSET Resources]
      /\ jop.member \subseteq NoteIds \X Tags
      /\ Present \subseteq NoteIds
  BY JoplinAssumption, EmbedsAssumption DEF Library, Present
<1>1. /\ run.upto = 0 /\ run.refresh = {} /\ run.tagIds = {}
      /\ Applied = Len(jop.log) /\ Complete /\ ~Refilling
  BY BatchTypes DEF CaughtUp, MirrorInv, BatchInv, Applied, Saved, Complete, Refilling
<1>2. \A e : ~Unread(e) /\ ~Removal(e)
  BY <1>1, BatchTypes DEF Unread, Removal, After, Gone
<1>3. \A steps : Known(steps)
  BY <1>1 DEF Known
<1>4. \A n \in Present : db.body[n] = jop.body[n] /\ n \in LiveNotes(db) /\ db.derived[n] = jop.body[n]
  <2>1. \A n \in Present : db.body[n] = jop.body[n]
    BY <1>2, <1>3 DEF MirrorInv, NotesInv
  <2>2. \A n \in Present : n \in LiveNotes(db)
    BY <1>0, <2>1 DEF LiveNotes, Present, WholeInv, RowsKnown, FinalDeletions
  <2>. QED
    BY <2>1, <2>2 DEF CaughtUp, WholeInv, FlagDownMeansWhole
<1>5. LiveNotes(db) = Present
  BY <1>2, <1>4 DEF MirrorInv, NotesInv
<1>6. \A e \in Items : db.items[e] = "live" <=> jop.items[e] = "live"
  <2>. \A e \in Items : ItemsKnown(e)
    BY <1>3 DEF ItemsKnown, Items
  <2>. QED
    BY <1>1, <1>2 DEF MirrorInv, StrayItems, ListedItems
<1>7. \A n \in Present, u \in Tags : <<n, u>> \in db.noteTags <=> <<n, u>> \in jop.member
  BY <1>1, <1>2, <1>3 DEF MirrorInv, StrayTags, ListedTags
<1>8. ASSUME NEW n \in Present, NEW r \in Resources
      PROVE  <<n, r>> \in db.noteRes /\ db.items[r] = "live" <=> r \in Embeds[jop.body[n]] /\ jop.items[r] = "live"
  <2>1. Linked(db, n) = Embeds[jop.body[n]]
    BY <1>0, <1>4 DEF Linked, Present
  <2>2. r \in Items
    BY DEF Items
  <2>3. <<n, r>> \in db.noteRes => r \in Linked(db, n)
    BY DEF ResourcesInv, NoteResourcesSound
  <2>4. r \in Linked(db, n) /\ db.items[r] = "live" => <<n, r>> \in db.noteRes
    BY <1>0, <1>2, <1>1, <1>3 DEF MirrorInv, LinksInv
  <2>. QED
    BY <1>6, <2>1, <2>2, <2>3, <2>4
<1>9. {e \in Items : db.items[e] = "live"} = LiveItems(Items)
  BY <1>6 DEF LiveItems
<1>10. ASSUME NEW n \in Present
       PROVE  /\ {t \in Tags : <<n, t>> \in db.noteTags} = TagsOfNote(n)
              /\ {r \in Resources : <<n, r>> \in db.noteRes /\ db.items[r] = "live"}
                   = LiveItems(Embeds[jop.body[n]])
  <2>. Embeds[jop.body[n]] \subseteq Resources
    BY <1>0 DEF Present
  <2>. QED
    BY <1>7, <1>8 DEF TagsOfNote, LiveItems
<1>. QED
  BY <1>4, <1>5, <1>9, <1>10 DEF Mirrors

\* PRD.md:506 and services.py:224-341: under Settled, and when /events without a
\* cursor answers the whole log, an index that is whole and has consumed every event
\* mirrors the library, whatever was interrupted, retried or refused on the way.
THEOREM CaughtUpIsMirror ==
  ASSUME Settled, Backfill
  PROVE  Spec => []CaughtUpMirrors
<1>1. Init => WholeInv /\ MirrorInv /\ ResourcesInv
  BY WholeInit, MirrorInit DEF Init, EmptyIndex, ResourcesInv, NoteResourcesSound
<1>2. TypeInv /\ WholeInv /\ MirrorInv /\ ResourcesInv /\ [Next]_vars
        => (WholeInv /\ MirrorInv /\ ResourcesInv)'
  BY WholeStep, MirrorStep, ResourcesStep
<1>3. TypeInv /\ WholeInv /\ MirrorInv /\ ResourcesInv => CaughtUpMirrors
  BY NothingToCome DEF CaughtUpMirrors
<1>. QED
  BY <1>1, <1>2, <1>3, TypeInvariant, PTL DEF Spec
-----------------------------------------------------------------------------
(* How much work is left                                                   *)

\* The steps a job still has to take: a request or a write each, and three for an event,
\* which may be two requests and the refresh they call for.
Counted(b)  == IF b THEN 1 ELSE 0
RefreshLeft == Counted("folders" \in run.refresh) + Counted("tags" \in run.refresh)
               + 2 * Counted("resources" \in run.refresh) + Counted("links" \in run.refresh)
BatchLeft   == 3 * (run.upto + 1 - run.next) + RefreshLeft
RebuildWork == 7 + MaxNotes + Cardinality(Tags)

JobLeft ==
  CASE pc = "idle"     -> 0
    [] pc = "folders"  -> RebuildWork - 1
    [] pc = "notes"    -> RebuildWork - 1 - run.page
    [] pc = "tags"     -> 4 + Cardinality(Tags)
    [] pc = "tagNotes" -> 3 + Cardinality(run.tagIds)
    [] pc = "links"    -> 2
    [] pc = "finish"   -> 1
    [] pc = "events"   -> BatchLeft + 1
    [] pc = "noteTags" -> IF run.upto = 0 THEN 1 ELSE BatchLeft

\* The listing ends: the library is bounded, so a page beyond the last note is never asked for.
ListingEnds ==
  /\ jop.size <= MaxNotes
  /\ pc \in {"folders", "notes"} => run.page \in 1 .. MaxNotes + 1

WorkInv == TypeInv /\ BatchInv /\ ListingEnds

\* A library of MaxNotes notes has at most MaxNotes pages.
LEMMA LastPage ==
  ASSUME TypeInv, ListingEnds, HasMore(run.page)
  PROVE  run.page + 1 <= MaxNotes + 1
<1>1. /\ run.page \in Nat /\ PageLimit \in Nat \ {0} /\ jop.size \in Nat /\ MaxNotes \in Nat
  BY JoplinAssumption DEF TypeInv, TypeOK, Run, Library
<1>2. run.page <= run.page * PageLimit
  <2>1. \A p \in Nat, l \in Nat \ {0} : p <= p * l
    OBVIOUS
  <2>. QED
    BY <1>1, <2>1
<1>3. run.page * PageLimit \in Nat
  BY <1>1
<1>. QED
  BY <1>1, <1>2, <1>3 DEF HasMore, ListingEnds

\* ListingEnds is inductive.
LEMMA ListingEndsStep ==
  ASSUME TypeInv, ListingEnds, [Next]_vars
  PROVE  ListingEnds'
<1>. USE DEF TypeInv, TypeOK
<1>0. MaxNotes \in Nat /\ jop.size \in Nat
  BY JoplinAssumption DEF Library
<1>1. jop'.size <= MaxNotes
  <2>1. CASE LibraryStep
    <3>1. ASSUME NEW n \in NoteIds, NEW b \in Bodies, PutNote(n, b)
          PROVE  jop'.size <= MaxNotes
      <4>. jop'.size = IF n \notin Present THEN jop.size + 1 ELSE jop.size
        BY <3>1 DEF PutNote, Library
      <4>. QED
        BY <1>0, <3>1 DEF PutNote, ListingEnds
    <3>2. ASSUME NEW n \in NoteIds, DeleteNote(n)
          PROVE  jop'.size <= MaxNotes
      BY <1>0, <3>2 DEF DeleteNote, Library, ListingEnds
    <3>3. ASSUME NEW n \in NoteIds, NEW t \in Tags, Retag(n, t)
          PROVE  jop'.size <= MaxNotes
      BY <3>3 DEF Retag, Library, ListingEnds
    <3>4. ASSUME NEW e \in Items, CreateItem(e) \/ DeleteItem(e)
          PROVE  jop'.size <= MaxNotes
      BY <3>4 DEF CreateItem, DeleteItem, Library, ListingEnds
    <3>. QED
      BY <2>1, <3>1, <3>2, <3>3, <3>4 DEF LibraryStep, JoplinNext
  <2>. QED
    BY <2>1, LibraryKept DEF ListingEnds
<1>2. ASSUME pc' \in {"folders", "notes"}
      PROVE  run'.page \in 1 .. MaxNotes + 1
  <2>1. CASE StartRebuild
    BY <1>0, <2>1 DEF StartRebuild, NoRun
  <2>2. CASE RebuildFolders
    BY <2>2 DEF RebuildFolders, Run, ListingEnds
  <2>3. CASE RebuildNotes
    <3>1. pc = "notes" /\ run'.page = run.page + 1 /\ HasMore(run.page) /\ run.page \in Nat
      BY <1>2, <2>3 DEF RebuildNotes, Run
    <3>. QED
      BY <1>0, <3>1, LastPage
  <2>4. CASE LibraryStep \/ UNCHANGED vars
    BY <1>2, <2>4 DEF LibraryStep, vars, ListingEnds
  <2>. QED
    BY <1>2, <2>1, <2>2, <2>3, <2>4 DEF Next, FullRebuild, RebuildTags, RebuildTagNotes,
       RebuildResources, RebuildLinks, FinishRebuild, IncrementalSync, PollEmpty, PollBatch,
       PollInvalid, ApplyNoteDelete, ApplyNotePut, ApplyNoteMissing, ApplyItemDelete,
       ApplyItemPut, RefreshFolders, RefreshTags, RefreshResources, RefreshLinks, FinishSync, Reindex,
       ReindexOne, ReindexOneMissing, WriteNote, Abort, Finished, AtEvent, AtRefresh
<1>. QED
  BY <1>1, <1>2 DEF ListingEnds

\* The numbers the arithmetic below needs.
LEMMA WorkTypes ==
  ASSUME IsFiniteSet(Tags), WorkInv
  PROVE  /\ Cardinality(Tags) \in Nat /\ MaxNotes \in Nat
         /\ IsFiniteSet(run.tagIds) /\ Cardinality(run.tagIds) \in Nat
         /\ run.page \in Nat /\ run.upto \in Nat /\ run.next \in Nat
         /\ RefreshLeft \in Nat
<1>1. run.tagIds \in SUBSET Tags /\ run.page \in Nat /\ run.upto \in Nat /\ run.next \in Nat
  BY DEF WorkInv, TypeInv, TypeOK, Run
<1>2. IsFiniteSet(run.tagIds)
  BY <1>1, FS_Subset
<1>3. RefreshLeft \in Nat
  <2>. DEFINE C(k) == Counted(k \in run.refresh)
  <2>1. \A k : C(k) \in Nat
    BY DEF Counted
  <2>2. RefreshLeft = C("folders") + C("tags") + 2 * C("resources") + C("links")
    BY DEF RefreshLeft
  <2>. HIDE DEF C
  <2>. QED
    BY <2>1, <2>2
<1>. QED
  BY <1>1, <1>2, <1>3, FS_CardinalityType, JoplinAssumption

\* A job under way has work left, and only a job under way has.
LEMMA WorkIsCounted ==
  ASSUME IsFiniteSet(Tags), WorkInv
  PROVE  JobLeft \in Nat /\ (JobLeft = 0 <=> pc = "idle")
<1>1. pc \in Steps
  BY DEF WorkInv, TypeInv, TypeOK
<1>2. pc = "notes" => run.page <= MaxNotes + 1
  BY DEF WorkInv, ListingEnds
<1>3. CASE pc \in {"events", "noteTags"}
  <2>1. /\ pc = "events" => run.next <= run.upto + 1
        /\ pc = "noteTags" /\ run.upto # 0 => run.next <= run.upto
    BY <1>3, WorkTypes DEF WorkInv, BatchInv
  <2>2. /\ pc = "events" => BatchLeft \in Nat
        /\ pc = "noteTags" /\ run.upto # 0 => BatchLeft \in Nat \ {0}
    BY <2>1, WorkTypes DEF BatchLeft
  <2>. HIDE DEF BatchLeft
  <2>. QED
    BY <1>3, <2>2, WorkTypes DEF JobLeft
<1>4. CASE pc \notin {"events", "noteTags"}
  BY <1>1, <1>2, <1>4, WorkTypes DEF JobLeft, RebuildWork, Steps
<1>. QED
  BY <1>3, <1>4

\* What one more refresh costs at most, and what one less saves at least.
LEMMA RefreshCounted ==
  ASSUME WorkInv, NEW k \in Kind,
         run'.refresh = run.refresh \cup {k}
  PROVE  RefreshLeft' <= RefreshLeft + 2
BY DEF RefreshLeft, Counted, Kind

LEMMA RefreshDone ==
  ASSUME WorkInv, NEW k \in {"folders", "tags", "links"}, k \in run.refresh,
         run'.refresh = run.refresh \ {k}
  PROVE  RefreshLeft' = RefreshLeft - 1
BY DEF RefreshLeft, Counted

\* Every step of a job, whatever became of the library meanwhile, leaves less to do.
LEMMA WorkShrinks ==
  ASSUME IsFiniteSet(Tags), WorkInv, Next, pc # "idle", ~LibraryStep
  PROVE  JobLeft' < JobLeft
<1>. USE DEF WorkInv, TypeInv, TypeOK
<1>0. /\ Cardinality(Tags) \in Nat /\ MaxNotes \in Nat
      /\ IsFiniteSet(run.tagIds) /\ Cardinality(run.tagIds) \in Nat
      /\ run.page \in Nat /\ run.upto \in Nat /\ run.next \in Nat
      /\ RefreshLeft \in Nat
  BY WorkTypes
<1>1. JobLeft \in Nat /\ JobLeft # 0
  BY WorkIsCounted
<1>2. CASE pc' = "idle"
  <2>. JobLeft' = 0
    BY <1>2 DEF JobLeft
  <2>. QED
    BY <1>1
<1>3. CASE RebuildFolders
  <2>1. pc = "folders" /\ pc' = "notes" /\ run'.page = run.page /\ run.page >= 1
    BY <1>0, <1>3 DEF RebuildFolders, Run, ListingEnds
  <2>. QED
    BY <1>0, <2>1 DEF JobLeft, RebuildWork
<1>4. CASE RebuildNotes
  <2>1. pc = "notes" /\ run'.page = run.page + 1 /\ run.page <= MaxNotes + 1 /\ pc' \in {"notes", "tags"}
    BY <1>0, <1>4 DEF RebuildNotes, Run, ListingEnds
  <2>2. CASE pc' = "notes"
    BY <1>0, <2>1, <2>2 DEF JobLeft, RebuildWork
  <2>3. CASE pc' = "tags"
    BY <1>0, <2>1, <2>3 DEF JobLeft, RebuildWork
  <2>. QED
    BY <2>1, <2>2, <2>3
<1>5. CASE RebuildTags
  <2>1. pc = "tags" /\ pc' = "tagNotes" /\ run'.tagIds \subseteq Tags
    BY <1>5 DEF RebuildTags, Run, LiveItems
  <2>2. Cardinality(run'.tagIds) \in Nat /\ Cardinality(run'.tagIds) <= Cardinality(Tags)
    BY <2>1, FS_Subset, FS_CardinalityType
  <2>. QED
    BY <1>0, <2>1, <2>2 DEF JobLeft
<1>6. CASE \E t \in Tags : RebuildTagNotes(t)
  <2>. PICK t \in Tags : RebuildTagNotes(t)
    BY <1>6
  <2>1. pc = "tagNotes" /\ pc' = pc /\ run'.tagIds = run.tagIds \ {t} /\ t \in run.tagIds
    BY DEF RebuildTagNotes, Run
  <2>2. Cardinality(run'.tagIds) = Cardinality(run.tagIds) - 1
    BY <1>0, <2>1, FS_RemoveElement
  <2>. QED
    BY <1>0, <2>1, <2>2 DEF JobLeft
<1>7. CASE RebuildResources
  <2>1. pc = "tagNotes" /\ pc' = "links"
    BY <1>7 DEF RebuildResources
  <2>. QED
    BY <1>0, <2>1 DEF JobLeft
<1>8. CASE RebuildLinks
  BY <1>8 DEF RebuildLinks, JobLeft
<1>9. CASE ApplyNoteDelete \/ ApplyNoteMissing \/ ApplyItemDelete
  <2>1. /\ pc = "events" /\ pc' = pc
        /\ run'.next = run.next + 1 /\ run'.upto = run.upto /\ run'.refresh = run.refresh
    BY <1>9 DEF ApplyNoteDelete, ApplyNoteMissing, ApplyItemDelete, Consumed, AtEvent, Run
  <2>2. RefreshLeft' = RefreshLeft
    BY <2>1 DEF RefreshLeft
  <2>. QED
    BY <1>0, <2>1, <2>2 DEF JobLeft, BatchLeft
<1>10. CASE ApplyItemPut
  <2>0. Current.item \in Items
    BY <1>10 DEF ApplyItemPut
  <2>1. /\ pc = "events" /\ pc' = pc /\ run'.next = run.next + 1 /\ run'.upto = run.upto
        /\ run'.refresh = run.refresh \cup {KindOf(Current.item)}
    BY <1>10 DEF ApplyItemPut, AtEvent, Run
  <2>2. RefreshLeft' <= RefreshLeft + 2 /\ RefreshLeft' \in Int
    <3>1. KindOf(Current.item) \in Kind
      BY <2>0, KindOfItem
    <3>2. RefreshLeft' \in Int
      BY DEF RefreshLeft, Counted
    <3>. QED
      BY <2>1, <3>1, <3>2, RefreshCounted
  <2>. QED
    BY <1>0, <2>1, <2>2 DEF JobLeft, BatchLeft
<1>11. CASE ApplyNotePut
  <2>1. /\ pc = "events" /\ pc' = "noteTags" /\ run'.next = run.next
        /\ run'.upto = run.upto /\ run'.refresh = run.refresh /\ run.upto # 0
    BY <1>11 DEF ApplyNotePut, AtEvent, Run, BatchInv
  <2>2. RefreshLeft' = RefreshLeft
    BY <2>1 DEF RefreshLeft
  <2>. QED
    BY <1>0, <2>1, <2>2 DEF JobLeft, BatchLeft
<1>12. CASE RefreshFolders \/ RefreshTags \/ RefreshLinks
  <2>1. /\ pc = "events" /\ pc' = pc /\ run'.next = run.next /\ run'.upto = run.upto
        /\ \E k \in {"folders", "tags", "links"} : k \in run.refresh /\ run'.refresh = run.refresh \ {k}
    BY <1>12 DEF RefreshFolders, RefreshTags, RefreshLinks, AtRefresh, Refreshed, Run
  <2>2. RefreshLeft' = RefreshLeft - 1
    BY <2>1, RefreshDone
  <2>. QED
    BY <1>0, <2>1, <2>2 DEF JobLeft, BatchLeft
<1>13. CASE RefreshResources
  <2>1. /\ pc = "events" /\ pc' = pc /\ run'.next = run.next /\ run'.upto = run.upto
        /\ run.refresh = {"resources"} /\ run'.refresh = {"links"}
    BY <1>13 DEF RefreshResources, AtRefresh, Run
  <2>2. RefreshLeft' = RefreshLeft - 1
    BY <2>1 DEF RefreshLeft, Counted
  <2>. QED
    BY <1>0, <2>1, <2>2 DEF JobLeft, BatchLeft
<1>14. CASE WriteNote
  <2>1. CASE run.upto = 0
    BY <1>2, <1>14, <2>1 DEF WriteNote, Finished
  <2>2. CASE run.upto # 0
    <3>1. /\ pc = "noteTags" /\ pc' = "events" /\ run'.next = run.next + 1
          /\ run'.upto = run.upto /\ run'.refresh = run.refresh
      BY <1>14, <2>2 DEF WriteNote, Run
    <3>2. RefreshLeft' = RefreshLeft
      BY <3>1 DEF RefreshLeft
    <3>. QED
      BY <1>0, <2>2, <3>1, <3>2 DEF JobLeft, BatchLeft
  <2>. QED
    BY <2>1, <2>2
<1>. QED
  BY <1>2, <1>3, <1>4, <1>5, <1>6, <1>7, <1>8, <1>9, <1>10, <1>11, <1>12, <1>13, <1>14
     DEF Next, FullRebuild, StartRebuild, FinishRebuild, IncrementalSync, PollEmpty, PollBatch,
         PollInvalid, FinishSync, Reindex, ReindexOne, ReindexOneMissing, Abort, Finished

\* WorkInv is inductive.
LEMMA WorkInvStep ==
  ASSUME WorkInv, [Next]_vars
  PROVE  WorkInv'
BY TypeStep, BatchInvStep, ListingEndsStep DEF WorkInv

\* It holds at the start.
LEMMA WorkInvHolds == Spec => []WorkInv
<1>1. Init => BatchInv /\ ListingEnds
  <2>. SUFFICES ASSUME Init
                PROVE  BatchInv /\ ListingEnds
    OBVIOUS
  <2>1. jop.log = <<>> /\ jop.size <= MaxNotes
    BY DEF Init, JoplinInit
  <2>2. pc = "idle" /\ run = NoRun /\ db.cursor = NoCursor /\ Len(jop.log) = 0
    BY <2>1 DEF Init, EmptyIndex
  <2>. QED
    BY <2>1, <2>2 DEF BatchInv, ListingEnds, Saved, Refilling, NoRun
<1>2. TypeInv /\ BatchInv /\ ListingEnds /\ [Next]_vars => (BatchInv /\ ListingEnds)'
  BY BatchInvStep, ListingEndsStep
<1>. QED
  BY <1>1, <1>2, TypeInvariant, PTL DEF Spec, WorkInv

\* services.py: every job ends.  Whatever happens to the library between two of its
\* steps, a job takes at most JobLeft more: each step leaves less to do and there is
\* nothing left exactly when the lock is free again.
JobsShrink ==
  /\ [](JobLeft \in Nat /\ (JobLeft = 0 <=> pc = "idle"))
  /\ [][pc # "idle" => (LibraryStep /\ JobLeft' = JobLeft) \/ JobLeft' < JobLeft]_vars

\* What the jobs of services.py can be held up by: only a finite number of tags is
\* assumed; neither the order of the events nor what /events answers matters.
THEOREM JobsEnd ==
  ASSUME IsFiniteSet(Tags)
  PROVE  Spec => JobsShrink
<1>1. WorkInv => JobLeft \in Nat /\ (JobLeft = 0 <=> pc = "idle")
  BY WorkIsCounted
<1>2. WorkInv /\ [Next]_vars
        => [pc # "idle" => (LibraryStep /\ JobLeft' = JobLeft) \/ JobLeft' < JobLeft]_vars
  <2>. SUFFICES ASSUME WorkInv, Next, pc # "idle"
                PROVE  (LibraryStep /\ JobLeft' = JobLeft) \/ JobLeft' < JobLeft
    OBVIOUS
  <2>1. LibraryStep => JobLeft' = JobLeft
    BY DEF LibraryStep, JobLeft, BatchLeft, RefreshLeft
  <2>. QED
    BY <2>1, WorkShrinks
<1>. QED
  BY <1>1, <1>2, WorkInvHolds, PTL DEF Spec, JobsShrink

-----------------------------------------------------------------------------
(* The background loop                                                     *)

\* The events the loop has to read: all of them, and the poll that finds the log's start,
\* while the index is unfinished, for a rebuild drops the cursor.
Reached     == IF run.upto # 0 THEN run.upto ELSE db.cursor
EventsAhead == Len(jop.log) - (IF Complete THEN Reached ELSE NoCursor)
PollWork    == 3 * BatchLimit + 2
LoopLeft    == JobLeft + EventsAhead * PollWork
               + (IF Complete \/ Refilling THEN 0 ELSE RebuildWork)

\* Reading one event more is worth a whole poll.
LEMMA EventsRead ==
  ASSUME NEW a \in Int, NEW b \in Int, b <= a - 1
  PROVE  b * PollWork <= a * PollWork - PollWork
<1>1. PollWork \in Nat
  BY JoplinAssumption DEF PollWork
<1>2. ASSUME NEW w \in Nat
      PROVE  b * w <= a * w - w
  <2>1. (a - b) * w >= w
    BY SMTT(30)
  <2>2. (a - b) * w = a * w - b * w
    BY SMTT(30)
  <2>3. a * w \in Int /\ b * w \in Int
    OBVIOUS
  <2>. QED
    BY <2>1, <2>2, <2>3
<1>. QED
  BY <1>1, <1>2

\* The loop has nothing left exactly when the index has caught up.
LEMMA LoopIsCounted ==
  ASSUME IsFiniteSet(Tags), WorkInv
  PROVE  LoopLeft \in Nat /\ (LoopLeft = 0 <=> CaughtUp)
<1>. USE DEF WorkInv
<1>1. /\ JobLeft \in Nat /\ (JobLeft = 0 <=> pc = "idle")
      /\ RebuildWork \in Nat /\ RebuildWork # 0
      /\ PollWork \in Nat /\ PollWork # 0
      /\ Len(jop.log) \in Nat /\ db.cursor \in Nat \cup {NoCursor} /\ NoCursor = -1
      /\ run.upto \in Nat
  BY WorkIsCounted, WorkTypes, BatchTypes, JoplinAssumption DEF RebuildWork, PollWork, NoCursor
<1>2. EventsAhead \in Nat /\ (EventsAhead = 0 <=> Complete /\ Reached = Len(jop.log))
  <2>1. Reached \in Int /\ Reached <= Len(jop.log)
    BY <1>1 DEF Reached, BatchInv, Saved
  <2>. QED
    BY <1>1, <2>1 DEF EventsAhead
<1>3. EventsAhead * PollWork \in Nat /\ (EventsAhead * PollWork = 0 <=> EventsAhead = 0)
  <2>. \A a, w \in Nat : w # 0 => a * w \in Nat /\ (a * w = 0 <=> a = 0)
    BY SMTT(30)
  <2>. QED
    BY <1>1, <1>2
<1>4. LoopLeft \in Nat /\ (LoopLeft = 0 <=> JobLeft = 0 /\ EventsAhead = 0 /\ (Complete \/ Refilling))
  <2>. HIDE DEF JobLeft, EventsAhead
  <2>. QED
    BY <1>1, <1>3 DEF LoopLeft
<1>5. pc = "idle" => run.upto = 0 /\ ~Refilling
  BY DEF BatchInv, Refilling
<1>. QED
  BY <1>1, <1>2, <1>4, <1>5 DEF CaughtUp, Complete, Reached

\* A step of a job is none of the library's.
LEMMA JobStepIsNoChange ==
  ASSUME TypeInv, FullRebuild \/ IncrementalSync \/ WriteNote
  PROVE  Next /\ UNCHANGED jop /\ ~LibraryStep
<1>1. UNCHANGED jop
  BY DEF FullRebuild, StartRebuild, RebuildFolders, RebuildNotes, RebuildTags, RebuildTagNotes,
     RebuildResources, RebuildLinks, FinishRebuild, IncrementalSync, PollEmpty, PollBatch, PollInvalid,
     ApplyNoteDelete, ApplyNotePut, ApplyNoteMissing, ApplyItemDelete, ApplyItemPut, RefreshFolders,
     RefreshTags, RefreshResources, RefreshLinks, FinishSync, WriteNote
<1>2. ASSUME LibraryStep
      PROVE  FALSE
  <2>1. PICK e \in NoteIds \cup Items, c \in Change : jop'.log = Logged(e, c)
    BY <1>2, LibraryLogs DEF LibraryStep
  <2>2. Len(jop'.log) = Len(jop.log) + 1
    BY <2>1, NewEvent
  <2>. QED
    BY <1>1, <2>2, BatchTypes
<1>. QED
  BY <1>1, <1>2 DEF Next, Reindex

\* A job leaves what is ahead of the loop as it is: a rebuild hands over to the polls, a
\* batch stores how far it came.
LEMMA JobKeepsAhead ==
  ASSUME IsFiniteSet(Tags), WorkInv, FullRebuild \/ IncrementalSync \/ WriteNote, pc # "idle"
  PROVE  /\ EventsAhead' = EventsAhead
         /\ (Complete \/ Refilling) => (Complete \/ Refilling)'
<1>. USE DEF WorkInv, TypeInv, TypeOK
<1>0. Next /\ UNCHANGED jop /\ run.upto \in Nat /\ db.cursor \in Nat \cup {NoCursor}
  BY JobStepIsNoChange, BatchTypes
<1>1. ~StartRebuild /\ ~PollEmpty /\ ~PollBatch /\ ~PollInvalid
  BY DEF StartRebuild, PollEmpty, PollBatch, PollInvalid
<1>2. CASE FinishRebuild
  <2>1. ~Complete /\ db.cursor = NoCursor
    BY <1>2 DEF FinishRebuild, BatchInv, Refilling, Complete
  <2>2. Complete' /\ db'.cursor = db.cursor /\ run'.upto = 0
    BY <1>2 DEF FinishRebuild, Finished, NoRun, CompleteRebuild, SweepOrphans, Complete, Index
  <2>. QED
    BY <1>0, <2>1, <2>2 DEF EventsAhead, Reached
<1>3. CASE ~FinishRebuild
  <2>1. Complete' = Complete
    BY <1>0, <1>1, <1>3, CompletenessKept DEF Complete
  <2>2. Reached' = Reached
    <3>1. CASE FinishSync
      <4>1. pc = "events" /\ db'.cursor = run.upto /\ run'.upto = 0
        BY <3>1 DEF FinishSync, Finished, NoRun, AdvanceCursor, Index
      <4>. QED
        BY <4>1 DEF Reached, BatchInv
    <3>2. CASE ~FinishSync
      <4>1. db'.cursor = db.cursor
        BY <1>0, <1>1, <3>2, CursorKept
      <4>2. run'.upto = run.upto
        <5>1. CASE WriteNote
          <6>1. run.upto = 0 => run'.upto = 0
            BY <5>1 DEF WriteNote, Finished, NoRun
          <6>2. run.upto # 0 => run'.upto = run.upto
            BY <5>1 DEF WriteNote, Run
          <6>. QED
            BY <6>1, <6>2
        <5>2. CASE FullRebuild
          BY <1>1, <1>3, <5>2 DEF FullRebuild, RebuildFolders, RebuildNotes, RebuildTags,
             RebuildTagNotes, RebuildResources, RebuildLinks, Run
        <5>3. CASE IncrementalSync
          BY <1>1, <3>2, <5>3 DEF IncrementalSync, ApplyNoteDelete, ApplyNotePut, ApplyNoteMissing,
             ApplyItemDelete, ApplyItemPut, RefreshFolders, RefreshTags, RefreshResources, RefreshLinks,
             Consumed, Refreshed, Run
        <5>. QED
          BY <5>1, <5>2, <5>3
      <4>. QED
        BY <4>1, <4>2 DEF Reached
    <3>. QED
      BY <3>1, <3>2
  <2>3. Refilling => Refilling'
    BY <1>1, <1>3 DEF FullRebuild, RebuildFolders, RebuildNotes, RebuildTags,
       RebuildTagNotes, RebuildResources, RebuildLinks, IncrementalSync, ApplyNoteDelete,
       ApplyNotePut, ApplyNoteMissing, ApplyItemDelete, ApplyItemPut, RefreshFolders, RefreshTags,
       RefreshResources, RefreshLinks, FinishSync, WriteNote, AtEvent, AtRefresh, Refilling
  <2>. QED
    BY <1>0, <2>1, <2>2, <2>3 DEF EventsAhead
<1>. QED
  BY <1>2, <1>3

\* What is left after a step is a number too.
LEMMA WorkStaysNumber ==
  ASSUME IsFiniteSet(Tags), TypeOK'
  PROVE  JobLeft' \in Int
<1>1. /\ pc' \in Steps /\ run'.page \in Nat /\ run'.upto \in Nat /\ run'.next \in Nat
      /\ run'.tagIds \subseteq Tags
  BY DEF TypeOK, Run
<1>2. Cardinality(run'.tagIds) \in Nat /\ Cardinality(Tags) \in Nat
  BY <1>1, FS_Subset, FS_CardinalityType
<1>3. RebuildWork \in Int /\ RebuildWork' = RebuildWork
  BY <1>2, JoplinAssumption DEF RebuildWork
<1>4. RefreshLeft' \in Int
  BY DEF RefreshLeft, Counted
<1>5. BatchLeft' \in Int
  BY <1>1, <1>4 DEF BatchLeft
<1>. HIDE DEF BatchLeft, RebuildWork
<1>. QED
  BY <1>1, <1>2, <1>3, <1>5 DEF JobLeft, Steps

\* Left to itself the loop has less to do after every step, until it has caught up; from
\* then on it only polls.
LEMMA LoopShrinks ==
  ASSUME IsFiniteSet(Tags), WorkInv, Loop
  PROVE  IF CaughtUp THEN CaughtUp' ELSE LoopLeft' < LoopLeft
<1>. USE DEF WorkInv, TypeInv, TypeOK
<1>0. /\ Len(jop.log) \in Nat /\ run.upto \in Nat /\ run.next \in Nat
      /\ db.cursor \in Nat \cup {NoCursor} /\ NoCursor = -1 /\ BatchLimit \in Nat \ {0}
      /\ RebuildWork \in Nat /\ PollWork \in Nat /\ PollWork = 3 * BatchLimit + 2
  BY WorkTypes, BatchTypes, JoplinAssumption DEF RebuildWork, PollWork, NoCursor
<1>1. JobLeft \in Nat /\ (JobLeft = 0 <=> pc = "idle")
  BY WorkIsCounted
<1>2. CASE pc # "idle"
  <2>1. FullRebuild \/ IncrementalSync \/ WriteNote
    BY <1>2 DEF Loop, LoopDecides, StartRebuild, PollEmpty, PollBatch
  <2>2. JobLeft' < JobLeft
    BY <1>2, <2>1, WorkShrinks, JobStepIsNoChange
  <2>3. EventsAhead' = EventsAhead /\ ((Complete \/ Refilling) => (Complete \/ Refilling)')
    BY <1>2, <2>1, JobKeepsAhead
  <2>4. RebuildWork' = RebuildWork /\ PollWork' = PollWork
    BY DEF RebuildWork, PollWork
  <2>5. JobLeft' \in Int
    <3>1. TypeOK'
      BY <2>1, JobStepIsNoChange, TypeStep
    <3>. QED
      BY <3>1, WorkStaysNumber
  <2>6. EventsAhead * PollWork \in Int
    <3>. EventsAhead \in Int
      BY <1>0 DEF EventsAhead, Reached
    <3>. QED
      BY <1>0
  <2>. HIDE DEF JobLeft, EventsAhead, RebuildWork, PollWork
  <2>7. LoopLeft' < LoopLeft
    BY <1>0, <1>1, <2>2, <2>3, <2>4, <2>5, <2>6 DEF LoopLeft
  <2>. QED
    BY <1>2, <2>7 DEF CaughtUp
<1>3. CASE pc = "idle"
  <2>1. JobLeft = 0 /\ ~Refilling /\ run.upto = 0
    BY <1>1, <1>3 DEF Refilling, BatchInv
  <2>2. LoopDecides
    BY <1>3 DEF Loop
  <2>3. CASE ~Complete
    <3>1. StartRebuild
      BY <2>2, <2>3 DEF LoopDecides, Complete
    <3>2. pc' = "folders" /\ UNCHANGED jop /\ Refilling'
      BY <3>1 DEF StartRebuild, Refilling
    <3>3. ~Complete'
      BY <3>1 DEF StartRebuild, ResetDerived, Index, Complete
    <3>4. EventsAhead' = EventsAhead
      BY <2>3, <3>2, <3>3 DEF EventsAhead
    <3>5. JobLeft' = RebuildWork - 1
      BY <3>2 DEF JobLeft, RebuildWork
    <3>6. EventsAhead * PollWork \in Int
      <4>. EventsAhead \in Int
        BY <1>0, <2>3 DEF EventsAhead
      <4>. QED
        BY <1>0
    <3>7. PollWork' = PollWork
      BY DEF PollWork
    <3>. HIDE DEF JobLeft, EventsAhead, RebuildWork, PollWork
    <3>8. LoopLeft = RebuildWork + EventsAhead * PollWork
      BY <1>0, <2>1, <2>3, <3>6 DEF LoopLeft
    <3>9. LoopLeft' = RebuildWork - 1 + EventsAhead * PollWork
      BY <1>0, <3>2, <3>4, <3>5, <3>6, <3>7 DEF LoopLeft
    <3>. QED
      BY <1>0, <2>3, <3>6, <3>8, <3>9 DEF CaughtUp, Complete
  <2>4. CASE Complete
    <3>1. PollEmpty \/ PollBatch
      BY <2>2, <2>4 DEF LoopDecides, Complete
    <3>2. UNCHANGED jop /\ Complete'
      <4>1. ~StartRebuild /\ ~FinishRebuild
        BY <1>3, <2>4, <3>1 DEF StartRebuild, FinishRebuild, PollEmpty, PollBatch
      <4>. QED
        BY <2>4, <3>1, <4>1, CompletenessKept DEF Next, IncrementalSync, PollEmpty, PollBatch, Complete
    <3>3. EventsAhead = Len(jop.log) - db.cursor
      BY <2>1, <2>4 DEF EventsAhead, Reached
    <3>4. EventsAhead' = Len(jop.log) - Reached'
      BY <3>2 DEF EventsAhead
    <3>5. db.cursor <= Len(jop.log)
      BY <1>0 DEF BatchInv, Saved
    <3>6. CASE PollEmpty
      <4>1. db'.cursor = EventsFrom(db.cursor) /\ EventsUpto(db.cursor) = EventsFrom(db.cursor)
            /\ UNCHANGED <<pc, run>>
        BY <3>6 DEF PollEmpty, AdvanceCursor, Index
      <4>2. EventsFrom(db.cursor) = Len(jop.log)
        BY <1>0, <3>5, <4>1 DEF EventsFrom, EventsUpto
      <4>3. CaughtUp'
        BY <1>3, <3>2, <4>1, <4>2 DEF CaughtUp, Complete
      <4>4. ASSUME ~CaughtUp
            PROVE  LoopLeft' < LoopLeft
        <5>1. EventsAhead' <= EventsAhead - 1 /\ EventsAhead' \in Int /\ EventsAhead \in Int
          <6>1. db.cursor # Len(jop.log)
            BY <1>3, <2>4, <4>4 DEF CaughtUp, Complete
          <6>2. Reached' = Len(jop.log)
            BY <2>1, <4>1, <4>2 DEF Reached
          <6>. QED
            BY <1>0, <3>3, <3>4, <3>5, <6>1, <6>2
        <5>2. EventsAhead' * PollWork <= EventsAhead * PollWork - PollWork
          BY <5>1, EventsRead
        <5>3. JobLeft' = 0 /\ PollWork' = PollWork /\ PollWork > 0
          BY <1>0, <1>3, <4>1 DEF JobLeft, PollWork
        <5>4. EventsAhead' * PollWork \in Int /\ EventsAhead * PollWork \in Int
          BY <1>0, <5>1
        <5>. HIDE DEF JobLeft, EventsAhead, RebuildWork, PollWork
        <5>5. LoopLeft = EventsAhead * PollWork /\ LoopLeft' = EventsAhead' * PollWork
          BY <2>1, <2>4, <3>2, <5>3, <5>4 DEF LoopLeft
        <5>. QED
          BY <1>0, <5>2, <5>3, <5>4, <5>5
      <4>. QED
        BY <4>3, <4>4
    <3>7. CASE PollBatch
      <4>1. /\ EventsUpto(db.cursor) > EventsFrom(db.cursor) /\ pc' = "events"
            /\ run'.next = EventsFrom(db.cursor) + 1 /\ run'.upto = EventsUpto(db.cursor)
            /\ run'.refresh = {}
        BY <3>7 DEF PollBatch, NoRun
      <4>2. /\ EventsFrom(db.cursor) \in Nat /\ db.cursor <= EventsFrom(db.cursor)
            /\ EventsUpto(db.cursor) \in Nat
            /\ EventsUpto(db.cursor) <= EventsFrom(db.cursor) + BatchLimit
        BY <1>0 DEF EventsFrom, EventsUpto
      <4>3. ~CaughtUp
        BY <1>0, <4>1 DEF CaughtUp, EventsFrom, EventsUpto
      <4>4. Reached' = EventsUpto(db.cursor)
        BY <1>0, <4>1, <4>2 DEF Reached
      <4>5. EventsAhead' <= EventsAhead - 1 /\ EventsAhead' \in Int /\ EventsAhead \in Int
        <5>. DEFINE upto == EventsUpto(db.cursor)
                    from == EventsFrom(db.cursor)
        <5>1. db.cursor \in Int /\ upto \in Int /\ from \in Int
          BY <1>0, <4>2
        <5>2. upto > from /\ db.cursor <= from
          BY <4>1, <4>2
        <5>3. EventsAhead' = Len(jop.log) - upto
          BY <3>4, <4>4
        <5>. HIDE DEF upto, from
        <5>. QED
          BY <1>0, <3>3, <5>1, <5>2, <5>3
      <4>6. EventsAhead' * PollWork <= EventsAhead * PollWork - PollWork
        BY <4>5, EventsRead
      <4>7. JobLeft' \in Int /\ JobLeft' < PollWork
        <5>1. RefreshLeft' = 0
          BY <4>1 DEF RefreshLeft, Counted
        <5>2. JobLeft' = 3 * (EventsUpto(db.cursor) + 1 - (EventsFrom(db.cursor) + 1)) + 1
          BY <4>1, <4>2, <5>1 DEF JobLeft, BatchLeft
        <5>. QED
          BY <1>0, <4>2, <5>2
      <4>8. PollWork' = PollWork
        BY DEF PollWork
      <4>9. EventsAhead' * PollWork \in Int /\ EventsAhead * PollWork \in Int
        BY <1>0, <4>5
      <4>. HIDE DEF JobLeft, EventsAhead, RebuildWork, PollWork
      <4>10. LoopLeft = EventsAhead * PollWork /\ LoopLeft' = JobLeft' + EventsAhead' * PollWork
        BY <2>1, <2>4, <3>2, <4>7, <4>8, <4>9 DEF LoopLeft
      <4>11. LoopLeft' < LoopLeft
        BY <1>0, <4>6, <4>7, <4>9, <4>10
      <4>. QED
        BY <4>3, <4>11
    <3>. QED
      BY <3>1, <3>6, <3>7
  <2>. QED
    BY <2>3, <2>4
<1>. QED
  BY <1>2, <1>3

\* PRD.md:123, 496: left to itself the background loop brings the index up to date.  From
\* any state kills, failures, requests and refused cursors can leave, LoopLeft bounds the
\* steps it takes; there is nothing left exactly when the index is whole and has read
\* the whole log, and that state it keeps.
LoopHasBoundedWork ==
  /\ [](LoopLeft \in Nat /\ (LoopLeft = 0 <=> CaughtUp))
  /\ [][Loop => IF CaughtUp THEN CaughtUp' ELSE LoopLeft' < LoopLeft]_vars

\* The part of Settles that needs no fairness: under Settled and Backfill a state that
\* has CaughtUp also mirrors the library (CaughtUpIsMirror).
THEOREM LoopCatchesUp ==
  ASSUME IsFiniteSet(Tags)
  PROVE  Spec => LoopHasBoundedWork
<1>1. WorkInv => LoopLeft \in Nat /\ (LoopLeft = 0 <=> CaughtUp)
  BY LoopIsCounted
<1>2. WorkInv => [Loop => IF CaughtUp THEN CaughtUp' ELSE LoopLeft' < LoopLeft]_vars
  BY LoopShrinks
<1>. QED
  BY <1>1, <1>2, WorkInvHolds, PTL DEF Spec, LoopHasBoundedWork

\* So a loop that has nothing left has an index that mirrors the library.
COROLLARY LoopSettles ==
  ASSUME Settled, Backfill, IsFiniteSet(Tags)
  PROVE  Spec => [](LoopLeft = 0 => Mirrors)
<1>1. Spec => [](LoopLeft \in Nat /\ (LoopLeft = 0 <=> CaughtUp))
  BY LoopCatchesUp, PTL DEF LoopHasBoundedWork
<1>2. (LoopLeft \in Nat /\ (LoopLeft = 0 <=> CaughtUp)) /\ CaughtUpMirrors => (LoopLeft = 0 => Mirrors)
  BY DEF CaughtUpMirrors
<1>. QED
  BY <1>1, <1>2, CaughtUpIsMirror, PTL

-----------------------------------------------------------------------------
(* The meta keys                                                           *)

Keys == INSTANCE IndexMeta WITH
  rebuilding <- db.rebuilding,
  built      <- db.built,
  cursor     <- db.cursor # NoCursor,
  refilling  <- Refilling

keys == <<db.rebuilding, db.built, db.cursor # NoCursor, Refilling>>

\* The writes that leave the meta keys alone.
LEMMA RowWritesKeepKeys ==
  ASSUME NEW d \in Index
  PROVE  LET Same(r) == r.rebuilding = d.rebuilding /\ r.built = d.built /\ r.cursor = d.cursor
         IN  /\ \A S : Same(UpsertItems(d, S)) /\ Same(RebuildNoteResources(d, S))
                       /\ Same(ReplaceDerived(d, S))
             /\ \A S, b : Same(UpsertNotes(d, S, b))
             /\ \A S, t : Same(UpsertNoteTags(d, S, t)) /\ Same(ReplaceNoteTags(d, S, t))
             /\ \A n : Same(MarkNoteDeleted(d, n)) /\ Same(MarkItemDeleted(d, n))
BY DEF UpsertItems, RebuildNoteResources, ReplaceDerived, UpsertNotes, UpsertNoteTags,
   ReplaceNoteTags, MarkNoteDeleted, MarkItemDeleted, Index

\* The one that re-extracts a note does too.
LEMMA ReindexKeepsKeys ==
  ASSUME NEW d \in Index, NEW n \in NoteIds, NEW b \in Bodies \cup {NoBody}, NEW T \in SUBSET Tags
  PROVE  LET r == ReindexNote(d, n, b, T)
         IN  r.rebuilding = d.rebuilding /\ r.built = d.built /\ r.cursor = d.cursor
BY DEF ReindexNote, UpsertNotes, ReplaceDerived, RebuildNoteResources, UpsertItems, ReplaceNoteTags, Index

\* Every step of the services does to the keys what IndexMeta lets it do, or nothing.
LEMMA KeysStep == WorkInv /\ [Next]_vars => [Keys!Next]_keys
<1>. SUFFICES ASSUME WorkInv, Next
              PROVE  Keys!Next \/ UNCHANGED keys
  BY DEF vars, keys, Refilling
<1>. USE DEF Keys!Next
<1>0. /\ db \in Index /\ run.note \in NoteChoice /\ run.body \in Bodies \cup {NoBody}
      /\ run.upto \in Nat
      /\ Refilling \in BOOLEAN /\ Refilling' \in BOOLEAN
      /\ TypeOK
  BY DEF WorkInv, TypeInv, TypeOK, Refilling, Run
<1>1. CASE StartRebuild
  <2>1. ~Refilling /\ Refilling' /\ db' = ResetDerived(db)
    BY <1>1 DEF StartRebuild, Refilling
  <2>. QED
    BY <1>0, <2>1 DEF Keys!Empty, Keys!Emptied, ResetDerived, Index
<1>2. CASE FinishRebuild
  <2>1. Refilling /\ ~Refilling' /\ db' = CompleteRebuild(db, run.fresh)
    BY <1>2 DEF FinishRebuild, Finished, Refilling
  <2>. QED
    BY <1>0, <2>1 DEF Keys!Complete, Keys!Refilled, CompleteRebuild, SweepOrphans, Index
<1>3. CASE RebuildFolders \/ RebuildTags \/ RebuildResources \/ RebuildLinks \/ \E t \in Tags : RebuildTagNotes(t)
  <2>1. Refilling /\ Refilling'
    BY <1>3 DEF RebuildFolders, RebuildTags, RebuildResources, RebuildLinks, RebuildTagNotes, Refilling
  <2>. QED
    BY <1>0, <1>3, <2>1, RowWritesKeepKeys
       DEF RebuildFolders, RebuildTags, RebuildResources, RebuildLinks, RebuildTagNotes, keys
<1>4. CASE RebuildNotes
  <2>1. Refilling /\ Refilling'
    BY <1>4 DEF RebuildNotes, Refilling
  <2>. DEFINE S == NotesPage(run.page)
              u == UpsertNotes(db, S, jop.body)
  <2>2. db' = ReplaceDerived(u, S)
    BY <1>4 DEF RebuildNotes
  <2>. QED
    BY <1>0, <2>1, <2>2 DEF keys, UpsertNotes, ReplaceDerived, Index
<1>5. CASE PollEmpty
  <2>1. db' = AdvanceCursor(db, EventsUpto(db.cursor)) /\ EventsUpto(db.cursor) \in Nat
        /\ ~Refilling /\ ~Refilling'
    BY <1>0, <1>5, AnswerType DEF PollEmpty, Refilling, Index
  <2>. QED
    BY <1>0, <2>1 DEF Keys!Sync, AdvanceCursor, NoCursor, Index
<1>6. CASE FinishSync
  <2>1. db' = AdvanceCursor(db, run.upto) /\ ~Refilling /\ ~Refilling'
    BY <1>0, <1>6 DEF FinishSync, Finished, Refilling
  <2>. QED
    BY <1>0, <2>1 DEF Keys!Sync, AdvanceCursor, NoCursor, Index
<1>7. CASE PollInvalid
  <2>1. db' = ClearCursor(db) /\ db.cursor # NoCursor /\ ~Refilling /\ ~Refilling'
    BY <1>7 DEF PollInvalid, Refilling
  <2>. QED
    BY <1>0, <2>1 DEF Keys!Refuse, ClearCursor, NoCursor, Index
<1>8. CASE \/ ApplyNoteDelete \/ ApplyNoteMissing \/ ApplyItemDelete
           \/ RefreshFolders \/ RefreshTags \/ RefreshResources \/ RefreshLinks
           \/ \E n \in NoteIds : ReindexOneMissing(n)
  <2>1. ~Refilling /\ ~Refilling'
    BY <1>8 DEF ApplyNoteDelete, ApplyNoteMissing, ApplyItemDelete, RefreshFolders, RefreshTags,
       RefreshResources, RefreshLinks, ReindexOneMissing, AtEvent, AtRefresh, Refilling
  <2>. QED
    BY <1>0, <1>8, <2>1, RowWritesKeepKeys
       DEF ApplyNoteDelete, ApplyNoteMissing, ApplyItemDelete, RefreshFolders, RefreshTags,
       RefreshResources, RefreshLinks, ReindexOneMissing, keys
<1>9. CASE PollBatch \/ ApplyNotePut \/ ApplyItemPut \/ \E n \in NoteIds : ReindexOne(n)
  <2>1. ~Refilling /\ ~Refilling' /\ db' = db
    BY <1>9 DEF PollBatch, ApplyNotePut, ApplyItemPut, ReindexOne, AtEvent, Refilling
  <2>. QED
    BY <1>0, <2>1 DEF keys
<1>10. CASE WriteNote
  <2>1. ~Refilling /\ ~Refilling' /\ db' = ReindexNote(db, run.note, run.body, TagsOfNote(run.note))
        /\ run.note \in NoteIds
    BY <1>10 DEF WriteNote, Finished, Refilling, WorkInv, TypeInv, Fetched
  <2>2. TagsOfNote(run.note) \in SUBSET Tags
    BY <1>0, <2>1, AnswerType
  <2>. QED
    BY <1>0, <2>1, <2>2, ReindexKeepsKeys DEF keys
<1>11. CASE Abort
  <2>1. db' = db /\ ~Refilling'
    BY <1>11 DEF Abort, Finished, Refilling
  <2>. QED
    BY <1>0, <2>1 DEF keys, Keys!GiveUp, Keys!keys
<1>12. CASE LibraryStep
  <2>1. db' = db /\ Refilling' = Refilling
    BY <1>12 DEF LibraryStep, Refilling
  <2>. QED
    BY <2>1 DEF keys
<1>. QED
  BY <1>1, <1>2, <1>3, <1>4, <1>5, <1>6, <1>7, <1>8, <1>9, <1>10, <1>11, <1>12
     DEF Next, FullRebuild, IncrementalSync, Reindex

\* For every library and every schedule the services do to the meta keys what IndexMeta
\* says, as the lifecycle that decides by them assumes.
THEOREM ImplementsIndexMeta == Spec => Keys!Spec
<1>1. Init => Keys!Init
  BY DEF Init, EmptyIndex, Keys!Init, Refilling, NoCursor
<1>. QED
  BY <1>1, WorkInvHolds, KeysStep, PTL DEF Spec, Keys!Spec, keys
=============================================================================
