---------------------------- MODULE MCProcesses ----------------------------
(* Processes for TLC: the processes are alike, and so are the notes.       *)
EXTENDS Processes, TLC

Alike == Permutations(Processes) \cup Permutations(Library)
=============================================================================
