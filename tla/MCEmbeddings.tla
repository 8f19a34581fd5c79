---------------------------- MODULE MCEmbeddings ----------------------------
(***************************************************************************)
(* Two titles, and two bodies that differ only beyond EMBED_CHARS.  t1 is  *)
(* on two notes and t2 on one; texts are alike, and more so if equal.      *)
(* The models and the runs are interchangeable.                            *)
(***************************************************************************)
EXTENDS Embeddings, TLC

CONSTANTS r1, r2, n1, n2, n3, m1, m2, t1, t2

MCNotes == {n1, n2, n3}
MCTitles == {"x", "y"}
MCBodies == {"long", "longer"}
MCCut == [b \in MCBodies |-> "head"]
MCFirst == [n \in MCNotes |->
  [title |-> IF n = n1 THEN "x" ELSE "y", body |-> "long"]]
MCFirstSaved == [n \in MCNotes |-> IF n = n1 THEN 0 ELSE IF n = n2 THEN -1 ELSE -2]
MCTagsOf == [n \in MCNotes |->
  IF n = n1 THEN {t2} ELSE {t1}]

MCTexts == {<<t, MCCut[b]>> : t \in MCTitles, b \in MCBodies}
MCSimilarity == [p \in MCTexts |-> [q \in MCTexts |->
  IF p = q THEN 3 ELSE 2]]

Interchangeable == Permutations({m1, m2}) \cup Permutations({r1, r2})
=============================================================================
