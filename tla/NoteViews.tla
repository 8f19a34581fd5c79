----------------------------- MODULE NoteViews -----------------------------
(***************************************************************************)
(* The views over what the extraction reads in the bodies: Views takes the *)
(* links and tasks of a body as constants, and here they are those of      *)
(* Extract: every body goes through it (services.py:273, 321).             *)
(***************************************************************************)
EXTENDS Views, Extract

\* fetch_todos lists a note by its unchecked tasks.
HasOpenTask(body) == \E t \in Tasks(body) : ~t.checked

ASSUME ExtractionAssumption ==
  /\ Bodies \subseteq Seq(Line(NoteIds \cup Resources))
  /\ \A b \in Bodies :
       /\ Embeds[b] = LinkTargets(b) \cap Resources
       /\ NoteLinks[b] = LinkTargets(b) \cap NoteIds
       /\ b \in Unfinished <=> HasOpenTask(b)

-----------------------------------------------------------------------------
(* Properties                                                              *)

\* markdown_extract.py:3-4, 64-66, read through the views: once caught up, the todo
\* view lists the notes with an unchecked task outside their fenced blocks, and the
\* graph and the attachments follow the links outside them, and no others.
ViewsReadVisibleLines ==
  CaughtUp =>
    /\ Todos(db) = {n \in Present : \E i \in Visible(jop.body[n]) : jop.body[n][i].mark = "open"}
    /\ \A n \in Present :
         LET shown == UNION {jop.body[n][i].targets : i \in Visible(jop.body[n])}
         IN  /\ {e \in Graph(db) : e[1] = n} = {n} \X (shown \cap Present)
             /\ ResourcesOf(db, n) = LiveItems(shown \cap Resources)
=============================================================================
