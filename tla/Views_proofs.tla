---------------------------- MODULE Views_proofs ----------------------------
(***************************************************************************)
(* The untagged view reads note_tags without joining tags.  That this is   *)
(* right in every state rests on every write of note_tags being beside a   *)
(* write of its tags, and on every way a tag goes taking its rows along or *)
(* finding none: shown here for any library and any schedule.  That the    *)
(* views answer what the library holds once every event is consumed comes  *)
(* down to the same for the rows (CaughtUpIsMirror) and the joins; that    *)
(* the tasks and links among it are those of the lines outside fences, to  *)
(* what the scanner reads in a body, by induction over its lines.          *)
(***************************************************************************)
EXTENDS NoteViews, SyncService_proofs

\* note_tags names tags the index shows.  A rebuild empties it, lists the tags before
\* it fills it, and so its final sweep deletes no tag that is in use.
TagsInv ==
  /\ \A p \in db.noteTags : db.items[p[2]] = "live"
  /\ pc \in {"folders", "notes", "tags"} => db.noteTags = {}
  /\ pc = "tagNotes" => \A t \in run.tagIds : db.items[t] = "live" /\ t \in run.fresh
  /\ pc \in {"tagNotes", "links", "finish"} => \A p \in db.noteTags : p[2] \in run.fresh

\* An upsert of rows shows them, hides none, and leaves note_tags alone.
LEMMA UpsertItemsShows ==
  ASSUME NEW d \in Index, NEW S \in SUBSET Items
  PROVE  LET u == UpsertItems(d, S)
         IN  /\ \A e \in Items : u.items[e] = IF e \in S THEN "live" ELSE d.items[e]
             /\ u.noteTags = d.noteTags
BY DEF UpsertItems, Index

\* The transaction of reindex_note replaces the tags of one note by tags it shows.
LEMMA ReindexNoteTags ==
  ASSUME NEW d \in Index, NEW n \in NoteIds, NEW b \in Bodies \cup {NoBody}, NEW T \in SUBSET Tags
  PROVE  LET r == ReindexNote(d, n, b, T)
         IN  /\ \A e \in Items : r.items[e] = IF e \in T THEN "live" ELSE d.items[e]
             /\ \A p \in r.noteTags : p \in d.noteTags \/ p[2] \in T
<1>. DEFINE row  == UpsertNotes(d, {n}, [m \in NoteIds |-> b])
            more == ReplaceDerived(row, {n})
            body == IF BodyChanged(d, n, b) THEN RebuildNoteResources(more, {n}) ELSE row
            all  == UpsertItems(body, T)
            r    == ReindexNote(d, n, b, T)
<1>1. row \in Index /\ row.items = d.items /\ row.noteTags = d.noteTags
  BY UpsertNotesType DEF UpsertNotes, Index
<1>. HIDE DEF row
<1>2. more \in Index /\ more.items = row.items /\ more.noteTags = row.noteTags
  BY <1>1, ReplaceDerivedType DEF ReplaceDerived, Index
<1>. HIDE DEF more
<1>3. body \in Index /\ body.items = row.items /\ body.noteTags = row.noteTags
  BY <1>1, <1>2, RebuildNoteResourcesType DEF RebuildNoteResources, Index
<1>. HIDE DEF body
<1>4. /\ all \in Index
      /\ \A e \in Items : all.items[e] = IF e \in T THEN "live" ELSE body.items[e]
      /\ all.noteTags = body.noteTags
  <2>1. T \in SUBSET Items
    BY DEF Items
  <2>. QED
    BY <1>3, <2>1, UpsertItemsType, UpsertItemsShows
<1>. HIDE DEF all
<1>5. r = ReplaceNoteTags(all, n, T)
  BY DEF ReindexNote, all, body, more, row
<1>. HIDE DEF r
<1>6. /\ r.items = all.items
      /\ r.noteTags = {p \in all.noteTags : p[1] # n} \cup ({n} \X T)
  BY <1>4, <1>5 DEF ReplaceNoteTags, Index
<1>7. \A e \in Items : r.items[e] = IF e \in T THEN "live" ELSE d.items[e]
  BY <1>1, <1>3, <1>4, <1>6
<1>8. \A p \in r.noteTags : p \in d.noteTags \/ p[2] \in T
  BY <1>1, <1>3, <1>4, <1>6
<1>. QED
  BY <1>7, <1>8 DEF r

\* A rebuild, up to its last transaction.
LEMMA RebuildTagsStep ==
  ASSUME TypeInv, TagsInv, FullRebuild, ~FinishRebuild
  PROVE  TagsInv'
<1>. USE DEF TypeInv, TypeOK
<1>0. /\ db \in Index /\ run \in Run
      /\ \A p \in db.noteTags : p \in NoteIds \X Tags /\ p[2] \in Items
  BY DEF Index, Items
<1>1. /\ LiveItems(Folders) \in SUBSET Items
      /\ LiveItems(Tags) \in SUBSET Items
      /\ LiveItems(Resources) \in SUBSET Items
  BY DEF LiveItems, Items
<1>2. CASE StartRebuild
  <2>. db'.noteTags = {} /\ pc' = "folders"
    BY <1>2 DEF StartRebuild, ResetDerived, Index
  <2>. QED
    BY DEF TagsInv
<1>3. CASE RebuildFolders
  <2>. db'.noteTags = {} /\ pc' = "notes"
    BY <1>0, <1>1, <1>3, UpsertItemsShows DEF RebuildFolders, TagsInv
  <2>. QED
    BY DEF TagsInv
<1>4. CASE RebuildNotes
  <2>. DEFINE S   == NotesPage(run.page)
              row == UpsertNotes(db, S, jop.body)
  <2>1. S \in SUBSET NoteIds /\ jop.body \in [NoteIds -> Bodies \cup {NoBody}]
    BY DEF NotesPage, Library
  <2>2. row \in Index /\ row.noteTags = db.noteTags
    BY <1>0, <2>1, UpsertNotesType DEF UpsertNotes, Index
  <2>3. db' = ReplaceDerived(row, S)
    BY <1>4 DEF RebuildNotes
  <2>. HIDE DEF row, S
  <2>4. db'.noteTags = {} /\ pc' \in {"notes", "tags"}
    BY <1>4, <2>2, <2>3 DEF RebuildNotes, ReplaceDerived, Index, TagsInv
  <2>. QED
    BY <2>4 DEF TagsInv
<1>5. CASE RebuildTags
  <2>. DEFINE S == LiveItems(Tags)
  <2>1. /\ db' = UpsertItems(db, S) /\ pc' = "tagNotes" /\ db.noteTags = {}
        /\ run' = [run EXCEPT !.fresh = run.fresh \cup S, !.tagIds = S]
    BY <1>5 DEF RebuildTags, TagsInv
  <2>2. run'.tagIds = S /\ run'.fresh = run.fresh \cup S
    BY <1>0, <2>1 DEF Run
  <2>3. db'.noteTags = {} /\ \A e \in S : db'.items[e] = "live"
    BY <1>0, <1>1, <2>1, UpsertItemsShows
  <2>. HIDE DEF S
  <2>. QED
    BY <2>1, <2>2, <2>3 DEF TagsInv
<1>6. CASE \E t \in Tags : RebuildTagNotes(t)
  <2>1. PICK t \in Tags : RebuildTagNotes(t)
    BY <1>6
  <2>2. /\ db' = UpsertNoteTags(db, NotesOfTag(t), t) /\ pc = "tagNotes" /\ pc' = pc
        /\ run' = [run EXCEPT !.tagIds = run.tagIds \ {t}] /\ t \in run.tagIds
    BY <2>1 DEF RebuildTagNotes
  <2>3. /\ db'.items = db.items
        /\ db'.noteTags = db.noteTags \cup (NotesOfTag(t) \X {t})
    BY <1>0, <2>2 DEF UpsertNoteTags, Index
  <2>4. run'.tagIds \subseteq run.tagIds /\ run'.fresh = run.fresh
    BY <1>0, <2>2 DEF Run
  <2>5. \A p \in db'.noteTags : p \in db.noteTags \/ p[2] = t
    BY <2>3
  <2>. QED
    BY <2>2, <2>3, <2>4, <2>5 DEF TagsInv
<1>7. CASE RebuildResources
  <2>. DEFINE S == LiveItems(Resources)
  <2>1. /\ db' = UpsertItems(db, S) /\ pc = "tagNotes" /\ pc' = "links"
        /\ run' = [run EXCEPT !.fresh = run.fresh \cup S]
    BY <1>7 DEF RebuildResources
  <2>2. run.fresh \subseteq run'.fresh
    BY <1>0, <2>1 DEF Run
  <2>3. db'.noteTags = db.noteTags /\ \A e \in Items : db.items[e] = "live" => db'.items[e] = "live"
    BY <1>0, <1>1, <2>1, UpsertItemsShows
  <2>. QED
    BY <1>0, <2>1, <2>2, <2>3 DEF TagsInv
<1>8. CASE RebuildLinks
  <2>. /\ db'.items = db.items /\ db'.noteTags = db.noteTags
       /\ run' = run /\ pc = "links" /\ pc' = "finish"
    BY <1>0, <1>8 DEF RebuildLinks, RebuildNoteResources, Index
  <2>. QED
    BY DEF TagsInv
<1>. QED
  BY <1>2, <1>3, <1>4, <1>5, <1>6, <1>7, <1>8 DEF FullRebuild

\* The sweep of a rebuild.
LEMMA SweepTagsStep ==
  ASSUME TypeInv, TagsInv, FinishRebuild
  PROVE  TagsInv'
<1>1. /\ db \in Index /\ pc = "finish" /\ pc' = "idle"
      /\ db' = CompleteRebuild(db, run.fresh)
      /\ \A p \in db.noteTags : p[2] \in Items
  BY DEF TypeInv, TypeOK, FinishRebuild, Finished, Index, Items
<1>2. /\ db'.noteTags = db.noteTags
      /\ \A e \in Items : db'.items[e] = IF db.items[e] = "live" /\ e \notin run.fresh
                                           THEN "deleted" ELSE db.items[e]
  BY <1>1 DEF CompleteRebuild, SweepOrphans, Index
<1>. QED
  BY <1>1, <1>2 DEF TagsInv

\* A batch of events, its refreshes, and a poll.
LEMMA SyncTagsStep ==
  ASSUME TypeInv, TagsInv, IncrementalSync
  PROVE  TagsInv'
<1>. USE DEF TypeInv, TypeOK
<1>0. db \in Index /\ \A p \in db.noteTags : p[2] \in Items
  BY DEF Index, Items
<1>1. pc' \in {"idle", "events", "noteTags"}
  BY DEF IncrementalSync, PollEmpty, PollBatch, PollInvalid, ApplyNoteDelete, ApplyNotePut,
         ApplyNoteMissing, ApplyItemDelete, ApplyItemPut, RefreshFolders, RefreshTags,
         RefreshResources, RefreshLinks, FinishSync, Finished, AtEvent, AtRefresh
<1>2. \A p \in db'.noteTags : db'.items[p[2]] = "live"
  <2>1. CASE PollEmpty \/ PollInvalid \/ FinishSync
    <3>. db'.items = db.items /\ db'.noteTags = db.noteTags
      BY <1>0, <2>1 DEF PollEmpty, PollInvalid, FinishSync, AdvanceCursor, ClearCursor, Index
    <3>. QED
      BY DEF TagsInv
  <2>2. CASE PollBatch \/ ApplyNotePut \/ ApplyItemPut
    BY <2>2 DEF PollBatch, ApplyNotePut, ApplyItemPut, TagsInv
  <2>3. CASE ApplyNoteDelete \/ ApplyNoteMissing
    <3>. db'.items = db.items /\ db'.noteTags = db.noteTags
      BY <1>0, <2>3 DEF ApplyNoteDelete, ApplyNoteMissing, MarkNoteDeleted, Index
    <3>. QED
      BY DEF TagsInv
  <2>4. CASE ApplyItemDelete
    <3>1. PICK e \in Items : db' = MarkItemDeleted(db, e)
      BY <2>4 DEF ApplyItemDelete
    <3>2. /\ \A i \in Items \ {e} : db'.items[i] = db.items[i]
          /\ db'.noteTags = {p \in db.noteTags : p[2] # e}
      BY <1>0, <3>1 DEF MarkItemDeleted, Index
    <3>. QED
      BY <1>0, <3>2 DEF TagsInv
  <2>5. CASE RefreshFolders \/ RefreshTags \/ RefreshResources
    <3>1. PICK S \in SUBSET Items : db' = UpsertItems(db, S)
      BY <2>5 DEF RefreshFolders, RefreshTags, RefreshResources, LiveItems, Items
    <3>2. /\ \A e \in Items : db'.items[e] = IF e \in S THEN "live" ELSE db.items[e]
          /\ db'.noteTags = db.noteTags
      BY <1>0, <3>1, UpsertItemsShows
    <3>. QED
      BY <1>0, <3>2 DEF TagsInv
  <2>6. CASE RefreshLinks
    <3>. db'.items = db.items /\ db'.noteTags = db.noteTags
      BY <1>0, <2>6 DEF RefreshLinks, RebuildNoteResources, Index
    <3>. QED
      BY DEF TagsInv
  <2>. QED
    BY <2>1, <2>2, <2>3, <2>4, <2>5, <2>6 DEF IncrementalSync
<1>. QED
  BY <1>1, <1>2 DEF TagsInv

\* One note, for an event or a request.
LEMMA ReindexTagsStep ==
  ASSUME TypeInv, TagsInv, Reindex
  PROVE  TagsInv'
<1>. USE DEF TypeInv, TypeOK
<1>0. db \in Index /\ \A p \in db.noteTags : p[2] \in Items
  BY DEF Index, Items
<1>1. pc' \in {"idle", "events", "noteTags"}
  BY DEF Reindex, ReindexOne, ReindexOneMissing, WriteNote, Finished
<1>2. CASE \E n \in NoteIds : ReindexOne(n) \/ ReindexOneMissing(n)
  <2>. db'.items = db.items /\ db'.noteTags = db.noteTags
    BY <1>0, <1>2 DEF ReindexOne, ReindexOneMissing, MarkNoteDeleted, Index
  <2>. QED
    BY <1>1 DEF TagsInv
<1>3. CASE WriteNote
  <2>1. PICK T \in SUBSET Tags :
          /\ \A e \in Items : db'.items[e] = IF e \in T THEN "live" ELSE db.items[e]
          /\ \A p \in db'.noteTags : p \in db.noteTags \/ p[2] \in T
    BY <1>3, WriteNoteEffect, ReindexNoteTags
  <2>2. \A p \in db'.noteTags : p[2] \in Items /\ db'.items[p[2]] = "live"
    BY <1>0, <2>1 DEF TagsInv, Items
  <2>. QED
    BY <1>1, <2>2 DEF TagsInv
<1>. QED
  BY <1>2, <1>3 DEF Reindex

\* TagsInv is inductive.
LEMMA TagsStep ==
  ASSUME TypeInv, TagsInv, [Next]_vars
  PROVE  TagsInv'
<1>1. CASE Abort
  BY <1>1 DEF Abort, Finished, TagsInv
<1>2. CASE LibraryStep \/ UNCHANGED vars
  BY <1>2 DEF LibraryStep, vars, TagsInv
<1>. QED
  BY <1>1, <1>2, RebuildTagsStep, SweepTagsStep, SyncTagsStep, ReindexTagsStep DEF Next

\* repositories.py:341-348: in every state a note is kept out of the untagged view
\* only by a tag the index shows as existing.
THEOREM UntaggedIsJustified == Spec => []UntaggedForAReason
<1>1. Init => TagsInv
  BY DEF Init, EmptyIndex, TagsInv
<1>2. TypeInv /\ TagsInv /\ [Next]_vars => TagsInv'
  BY TagsStep
<1>3. TagsInv => UntaggedForAReason
  BY DEF TagsInv, UntaggedForAReason, Untagged
<1>. QED
  BY <1>1, <1>2, <1>3, TypeInvariant, PTL DEF Spec

\* What mirrors the library in its rows mirrors it in every view: the soft-deleted rows
\* and the leftovers in the derived tables are behind joins, and each view has one.
LEMMA MirrorSeenThroughViews ==
  ASSUME TypeOK, CaughtUpMirrors
  PROVE  ViewsMirror
<1>. SUFFICES ASSUME CaughtUp
              PROVE  /\ Recent(db) = Present
                     /\ Untagged(db) = {n \in Present : TagsOfNote(n) = {}}
                     /\ Todos(db) = {n \in Present : jop.body[n] \in Unfinished}
                     /\ Graph(db) = {e \in Present \X Present : e[2] \in NoteLinks[jop.body[e[1]]]}
                     /\ \A n \in NoteIds :
                          /\ Detail(db, n) = jop.body[n]
                          /\ Backlinks(db, n) = {m \in Present : n \in NoteLinks[jop.body[m]]}
                          /\ n \in Present => ResourcesOf(db, n) = LiveItems(Embeds[jop.body[n]])
                     /\ StatusCounts(db) = [notes     |-> Cardinality(Present),
                                            folders   |-> Cardinality(LiveItems(Folders)),
                                            tags      |-> Cardinality(LiveItems(Tags)),
                                            resources |-> Cardinality(LiveItems(Resources))]
  BY DEF ViewsMirror
<1>1. Mirrors
  BY DEF CaughtUpMirrors
<1>2. LiveNotes(db) = Present
  BY <1>1 DEF Mirrors
<1>3. \A n \in Present : /\ db.body[n] = jop.body[n] /\ db.derived[n] = jop.body[n]
                         /\ jop.body[n] # NoBody
  BY <1>1 DEF Mirrors, Present
<1>4. \A m \in Present : LinkedNotes(db, m) = NoteLinks[jop.body[m]]
  BY <1>3 DEF LinkedNotes
<1>5. Untagged(db) = {n \in Present : TagsOfNote(n) = {}}
  <2>1. \A n \in Present : {t \in Tags : <<n, t>> \in db.noteTags} = TagsOfNote(n)
    BY <1>1 DEF Mirrors
  <2>. QED
    BY <1>2, <2>1 DEF Untagged
<1>6. Todos(db) = {n \in Present : jop.body[n] \in Unfinished}
  BY <1>2, <1>3 DEF Todos
<1>7. Graph(db) = {e \in Present \X Present : e[2] \in NoteLinks[jop.body[e[1]]]}
  BY <1>2, <1>4 DEF Graph
<1>8. ASSUME NEW n \in NoteIds
      PROVE  /\ Detail(db, n) = jop.body[n]
             /\ Backlinks(db, n) = {m \in Present : n \in NoteLinks[jop.body[m]]}
             /\ n \in Present => ResourcesOf(db, n) = LiveItems(Embeds[jop.body[n]])
  <2>1. Detail(db, n) = jop.body[n]
    BY <1>2, <1>3 DEF Detail, NotFound, Present
  <2>2. Backlinks(db, n) = {m \in Present : n \in NoteLinks[jop.body[m]]}
    BY <1>2, <1>4 DEF Backlinks
  <2>3. ASSUME n \in Present
        PROVE  ResourcesOf(db, n) = LiveItems(Embeds[jop.body[n]])
    BY <1>1, <2>3 DEF Mirrors, ResourcesOf
  <2>. QED
    BY <2>1, <2>2, <2>3
<1>9. ASSUME NEW S \in SUBSET Items
      PROVE  CountLive(db, S) = Cardinality(LiveItems(S))
  <2>1. {e \in Items : db.items[e] = "live"} = LiveItems(Items)
    BY <1>1 DEF Mirrors
  <2>2. {e \in S : db.items[e] = "live"} = LiveItems(S)
    BY <2>1 DEF LiveItems
  <2>. QED
    BY <2>2 DEF CountLive
<1>10. Folders \in SUBSET Items /\ Tags \in SUBSET Items /\ Resources \in SUBSET Items
  BY DEF Items
<1>11. StatusCounts(db) = [notes     |-> Cardinality(Present),
                           folders   |-> Cardinality(LiveItems(Folders)),
                           tags      |-> Cardinality(LiveItems(Tags)),
                           resources |-> Cardinality(LiveItems(Resources))]
  BY <1>2, <1>9, <1>10 DEF StatusCounts
<1>. QED
  BY <1>2, <1>5, <1>6, <1>7, <1>8, <1>11 DEF Recent

\* views.py and PRD.md:506: under Settled and Backfill, once every event has been
\* consumed, what the views, the graph, a note's detail and the status counts answer is
\* what the library holds.
THEOREM ViewsAreMirror ==
  ASSUME Settled, Backfill
  PROVE  Spec => []ViewsMirror
<1>1. Spec => []CaughtUpMirrors
  BY CaughtUpIsMirror
<1>2. TypeOK /\ CaughtUpMirrors => ViewsMirror
  BY MirrorSeenThroughViews
<1>. QED
  BY <1>1, <1>2, TypeCorrect, PTL

-----------------------------------------------------------------------------
(* What the extraction reads, and the views over it.                       *)

\* A set of numbers has a least one: the induction over the lines of a body.
LEMMA LeastNat ==
  ASSUME NEW C \in SUBSET Nat, C # {}
  PROVE  \E n \in C : \A m \in C : n <= m
<1>. DEFINE R == OpToRel(<, Nat)
<1>1. IsWellFoundedOn(R, Nat)
  BY NatLessThanWellFounded
<1>2. \A m, n \in Nat : m < n => <<m, n>> \in R
  BY DEF OpToRel
<1>. HIDE DEF R
<1>3. PICK n \in C : \A m \in C : ~(<<m, n>> \in R)
  BY <1>1, WFMin
<1>4. \A m \in C : m \in Nat /\ n \in Nat /\ ~(m < n)
  BY <1>2, <1>3
<1>. QED
  BY <1>3, <1>4

\* The fences up to line i, and whether they leave a block open.
Fences(body, i) == {j \in 1 .. i : IsFence(body[j])}
Odd(body)       == [i \in 0 .. Len(body) |-> Cardinality(Fences(body, i)) % 2 = 1]

\* A line adds itself to the fences, or nothing.
LEMMA OneFenceMore ==
  ASSUME NEW T, NEW body \in Seq(Line(T)), NEW i \in 1 .. Len(body)
  PROVE  /\ Cardinality(Fences(body, i)) \in Nat /\ Cardinality(Fences(body, i - 1)) \in Nat
         /\ Cardinality(Fences(body, i)) =
              IF IsFence(body[i]) THEN Cardinality(Fences(body, i - 1)) + 1
              ELSE Cardinality(Fences(body, i - 1))
<1>1. IsFiniteSet(1 .. i - 1)
  BY FS_Interval
<1>2. Fences(body, i - 1) \in SUBSET (1 .. i - 1)
  BY DEF Fences
<1>3. IsFiniteSet(Fences(body, i - 1)) /\ Cardinality(Fences(body, i - 1)) \in Nat /\ i \notin Fences(body, i - 1)
  BY <1>1, <1>2, FS_Subset, FS_CardinalityType
<1>4. CASE IsFence(body[i])
  <2>1. Fences(body, i) = Fences(body, i - 1) \cup {i}
    BY <1>4 DEF Fences
  <2>2. Cardinality(Fences(body, i - 1) \cup {i}) = Cardinality(Fences(body, i - 1)) + 1
    BY <1>3, FS_AddElement
  <2>. QED
    BY <1>3, <1>4, <2>1, <2>2
<1>5. CASE ~IsFence(body[i])
  <2>1. Fences(body, i) = Fences(body, i - 1)
    BY <1>5 DEF Fences
  <2>. QED
    BY <1>3, <1>5, <2>1
<1>. QED
  BY <1>4, <1>5

\* So the parity solves the equation by which the scanner's in_fence is defined.
LEMMA OddStep ==
  ASSUME NEW T, NEW body \in Seq(Line(T)), NEW i \in 0 .. Len(body)
  PROVE  Odd(body)[i] = IF i = 0 THEN FALSE ELSE (IsFence(body[i]) # Odd(body)[i - 1])
<1>1. CASE i = 0
  <2>1. Fences(body, 0) = {}
    BY DEF Fences
  <2>2. Cardinality(Fences(body, 0)) % 2 # 1
    BY <2>1, FS_EmptySet
  <2>. QED
    BY <1>1, <2>2 DEF Odd
<1>2. CASE i # 0
  <2>. DEFINE a == Cardinality(Fences(body, i - 1))
              b == Cardinality(Fences(body, i))
  <2>1. i \in 1 .. Len(body) /\ i - 1 \in 0 .. Len(body)
    BY <1>2
  <2>2. a \in Nat /\ b = IF IsFence(body[i]) THEN a + 1 ELSE a
    BY <2>1, OneFenceMore
  <2>3. Odd(body)[i] = (b % 2 = 1) /\ Odd(body)[i - 1] = (a % 2 = 1)
    BY <2>1 DEF Odd
  <2>. HIDE DEF a, b
  <2>4. (b % 2 = 1) = (IsFence(body[i]) # (a % 2 = 1))
    <3>1. CASE IsFence(body[i])
      <4>1. b = a + 1 /\ IsFence(body[i]) = TRUE
        BY <2>2, <3>1 DEF IsFence
      <4>2. ((a + 1) % 2 = 1) <=> ~(a % 2 = 1)
        BY <2>2
      <4>. QED
        BY <3>1, <4>1, <4>2
    <3>2. CASE ~IsFence(body[i])
      <4>1. b = a /\ IsFence(body[i]) = FALSE
        BY <2>2, <3>2 DEF IsFence
      <4>. QED
        BY <4>1
    <3>. QED
      BY <3>1, <3>2
  <2>. QED
    BY <1>2, <2>3, <2>4
<1>. QED
  BY <1>1, <1>2

\* And it is the only solution.
LEMMA FencedIsOdd ==
  ASSUME NEW T, NEW body \in Seq(Line(T))
  PROVE  \A i \in 0 .. Len(body) : FencedAfter(body)[i] = Odd(body)[i]
<1>. DEFINE f == FencedAfter(body)
            g == Odd(body)
            n == Len(body)
            is(h) == h = [i \in 0 .. n |-> IF i = 0 THEN FALSE ELSE IsFence(body[i]) # h[i - 1]]
<1>1. f = CHOOSE h : is(h)
  BY DEF FencedAfter
<1>2. is(g)
  <2>1. g = [i \in 0 .. n |-> g[i]]
    BY DEF Odd
  <2>. QED
    BY <2>1, OddStep
<1>3. is(f)
  BY <1>1, <1>2
<1>. HIDE DEF f
<1>4. \A i \in 0 .. n : f[i] = IF i = 0 THEN FALSE ELSE IsFence(body[i]) # f[i - 1]
  BY <1>3
<1>5. \A i \in 0 .. n : g[i] = IF i = 0 THEN FALSE ELSE IsFence(body[i]) # g[i - 1]
  BY OddStep
<1>. HIDE DEF g, is
<1>. DEFINE wrong == {i \in 0 .. n : f[i] # g[i]}
<1>6. wrong = {}
  <2>. SUFFICES ASSUME wrong # {} PROVE FALSE
    OBVIOUS
  <2>1. PICK i \in wrong : \A j \in wrong : i <= j
    <3>1. wrong \in SUBSET Nat
      OBVIOUS
    <3>. QED
      BY <3>1, LeastNat
  <2>2. CASE i = 0
    BY <1>4, <1>5, <2>2
  <2>3. CASE i # 0
    <3>1. n \in Nat /\ i \in 0 .. n /\ i - 1 \in 0 .. n /\ ~(i <= i - 1)
      BY <2>3
    <3>2. f[i - 1] = g[i - 1]
      BY <2>1, <3>1
    <3>. QED
      BY <1>4, <1>5, <2>3, <3>1, <3>2
  <2>. QED
    BY <2>2, <2>3
<1>. QED
  BY <1>6 DEF f, g

\* markdown_extract.py:61-76, for every body: the lines the scanner reads are those
\* that are no fences and have an even number of fences before them.
THEOREM ReadsVisibleLines ==
  ASSUME NEW T, NEW body \in Seq(Line(T))
  PROVE  ReadLines(body) = Visible(body)
<1>. SUFFICES ASSUME NEW i \in DOMAIN body, ~IsFence(body[i])
              PROVE  ~FencedAfter(body)[i] <=> OutsideFences(body, i)
  BY DEF ReadLines, Visible
<1>1. i \in 1 .. Len(body) /\ i \in 0 .. Len(body)
  OBVIOUS
<1>2. /\ Cardinality(Fences(body, i)) \in Nat
      /\ Cardinality(Fences(body, i)) = Cardinality(Fences(body, i - 1))
  BY <1>1, OneFenceMore
<1>3. FencedAfter(body)[i] = (Cardinality(Fences(body, i)) % 2 = 1)
  BY <1>1, FencedIsOdd DEF Odd
<1>4. OutsideFences(body, i) <=> Cardinality(Fences(body, i - 1)) % 2 = 0
  BY DEF OutsideFences, Fences
<1>5. Cardinality(Fences(body, i - 1)) \in Nat
  BY <1>2
<1>6. Cardinality(Fences(body, i - 1)) % 2 = 0 <=> ~(Cardinality(Fences(body, i - 1)) % 2 = 1)
  BY <1>5
<1>. QED
  BY <1>2, <1>3, <1>4, <1>6

\* The tasks and links of a body, by its visible lines.
LEMMA BodyShows ==
  ASSUME NEW b \in Bodies
  PROVE  /\ b \in Unfinished <=> \E i \in Visible(b) : b[i].mark = "open"
         /\ LinkTargets(b) = UNION {b[i].targets : i \in Visible(b)}
<1>1. b \in Seq(Line(NoteIds \cup Resources))
  BY ExtractionAssumption
<1>2. ReadLines(b) = Visible(b)
  BY <1>1, ReadsVisibleLines
<1>3. HasOpenTask(b) <=> \E i \in Visible(b) : b[i].mark = "open"
  <2>1. ASSUME HasOpenTask(b)
        PROVE  \E i \in Visible(b) : b[i].mark = "open"
    <3>1. PICK t \in Tasks(b) : ~t.checked
      BY <2>1 DEF HasOpenTask
    <3>2. PICK i \in {j \in ReadLines(b) : b[j].mark \in {"open", "done"}} :
            t = [line |-> i, checked |-> b[i].mark = "done"]
      BY DEF Tasks
    <3>3. t.checked = (b[i].mark = "done")
      BY <3>2
    <3>. QED
      BY <1>2, <3>1, <3>2, <3>3
  <2>2. ASSUME NEW i \in Visible(b), b[i].mark = "open"
        PROVE  HasOpenTask(b)
    <3>. DEFINE t == [line |-> i, checked |-> b[i].mark = "done"]
    <3>1. t \in Tasks(b)
      BY <1>2, <2>2 DEF Tasks
    <3>2. ~t.checked
      BY <2>2
    <3>. QED
      BY <3>1, <3>2 DEF HasOpenTask
  <2>. QED
    BY <2>1, <2>2
<1>. QED
  BY <1>2, <1>3, ExtractionAssumption DEF LinkTargets

\* markdown_extract.py:64-66 through views.py: under Settled and Backfill, the todo view,
\* the graph and the attachments of an index that has consumed every event follow the
\* lines outside the fenced blocks, and no others.
THEOREM ViewsShowVisibleLines ==
  ASSUME Settled, Backfill
  PROVE  Spec => []ViewsReadVisibleLines
<1>1. TypeOK /\ ViewsMirror => ViewsReadVisibleLines
  <2>. SUFFICES ASSUME TypeOK, ViewsMirror, CaughtUp
                PROVE  /\ Todos(db) = {n \in Present : \E i \in Visible(jop.body[n]) : jop.body[n][i].mark = "open"}
                       /\ \A n \in Present :
                            LET shown == UNION {jop.body[n][i].targets : i \in Visible(jop.body[n])}
                            IN  /\ {e \in Graph(db) : e[1] = n} = {n} \X (shown \cap Present)
                                /\ ResourcesOf(db, n) = LiveItems(shown \cap Resources)
    BY DEF ViewsReadVisibleLines
  <2>1. Present \subseteq NoteIds /\ \A n \in Present : jop.body[n] \in Bodies
    BY DEF TypeOK, Library, Present
  <2>2. Todos(db) = {n \in Present : jop.body[n] \in Unfinished}
    BY DEF ViewsMirror
  <2>3. Graph(db) = {e \in Present \X Present : e[2] \in NoteLinks[jop.body[e[1]]]}
    BY DEF ViewsMirror
  <2>4. \A n \in Present : ResourcesOf(db, n) = LiveItems(Embeds[jop.body[n]])
    BY <2>1 DEF ViewsMirror
  <2>5. \A n \in Present : jop.body[n] \in Unfinished <=> \E i \in Visible(jop.body[n]) : jop.body[n][i].mark = "open"
    BY <2>1, BodyShows
  <2>6. ASSUME NEW n \in Present
        PROVE  LET shown == UNION {jop.body[n][i].targets : i \in Visible(jop.body[n])}
               IN  /\ {e \in Graph(db) : e[1] = n} = {n} \X (shown \cap Present)
                   /\ ResourcesOf(db, n) = LiveItems(shown \cap Resources)
    <3>. DEFINE shown == UNION {jop.body[n][i].targets : i \in Visible(jop.body[n])}
    <3>1. LinkTargets(jop.body[n]) = shown
      BY <2>1, BodyShows
    <3>. HIDE DEF shown
    <3>2. NoteLinks[jop.body[n]] = shown \cap NoteIds /\ Embeds[jop.body[n]] = shown \cap Resources
      BY <2>1, <3>1, ExtractionAssumption
    <3>3. {e \in Graph(db) : e[1] = n} = {n} \X (shown \cap Present)
      BY <2>1, <2>3, <3>2
    <3>. QED
      BY <2>4, <3>2, <3>3 DEF shown
  <2>. QED
    BY <2>2, <2>5, <2>6
<1>. QED
  BY <1>1, ViewsAreMirror, TypeCorrect, PTL
=============================================================================
