--------------------------- MODULE MCSyncService ---------------------------
(***************************************************************************)
(* Values for TLC.  The bodies are short notes, and what the index derives *)
(* from them is what Extract reads in them.                                *)
(***************************************************************************)
EXTENDS NoteViews

LinkAll(mark) == [mark |-> mark, targets |-> NoteIds \cup Resources]
Bare(mark)    == [mark |-> mark, targets |-> {}]

\* The first links to every note and resource.  The second has an unchecked task
\* between a fenced block and one that is never closed, and links only in those.
MCBodies ==
  {<<Bare("done"), LinkAll("text")>>,
   <<Bare("backticks"), LinkAll("done"), Bare("backticks"), Bare("open"),
     Bare("tildes"), LinkAll("open")>>}

MCEmbeds     == [b \in MCBodies |-> LinkTargets(b) \cap Resources]
MCNoteLinks  == [b \in MCBodies |-> LinkTargets(b) \cap NoteIds]
MCUnfinished == {b \in MCBodies : HasOpenTask(b)}
=============================================================================
