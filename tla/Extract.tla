------------------------------ MODULE Extract ------------------------------
(***************************************************************************)
(* markdown_extract.py: the tasks and links of a note body, line by line.  *)
(*                                                                         *)
(* Of a line the scanner asks what its regular expressions ask: is it a    *)
(* fence, is it a task, checked or not, and which targets do its inline    *)
(* links have outside code spans.  A fence is any line of three backticks  *)
(* or tildes: it opens a block when none is open and closes one otherwise, *)
(* whichever of the two it is made of.                                     *)
(***************************************************************************)
EXTENDS Naturals, Sequences, FiniteSets

FenceMarks == {"backticks", "tildes"}

Line(Targets) == [mark : FenceMarks \cup {"open", "done", "text"}, targets : SUBSET Targets]

IsFence(line) == line.mark \in FenceMarks

\* Mutant: a fence only ever opens a block.
FencedAfter_NeverCloses(body) ==
  LET inFence[i \in 0 .. Len(body)] ==
        IF i = 0 THEN FALSE ELSE IsFence(body[i]) \/ inFence[i - 1]
  IN  inFence

\* in_fence, after each line.
FencedAfter(body) ==
  LET inFence[i \in 0 .. Len(body)] ==
        IF i = 0 THEN FALSE ELSE IsFence(body[i]) # inFence[i - 1]
  IN  inFence

\* The lines that are read: a fence itself never is.
ReadLines(body) == {i \in DOMAIN body : ~IsFence(body[i]) /\ ~FencedAfter(body)[i]}

Tasks(body) ==
  {[line |-> i, checked |-> body[i].mark = "done"] :
     i \in {j \in ReadLines(body) : body[j].mark \in {"open", "done"}}}

\* classify_link's internal_joplin targets, which are all the index looks up.
LinkTargets(body) == UNION {body[i].targets : i \in ReadLines(body)}

-----------------------------------------------------------------------------
(* Reference                                                               *)

\* Outside code: the fences before the line pair up.
OutsideFences(body, i) == Cardinality({j \in 1 .. i - 1 : IsFence(body[j])}) % 2 = 0

Visible(body) == {i \in DOMAIN body : ~IsFence(body[i]) /\ OutsideFences(body, i)}
=============================================================================
