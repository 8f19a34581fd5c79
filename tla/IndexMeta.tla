----------------------------- MODULE IndexMeta -----------------------------
(***************************************************************************)
(* What the rest of the program reads of the index before it decides what  *)
(* to do with it: three keys of the meta table (db.py:29-38), and whether  *)
(* a rebuild is refilling the tables.  SyncService says how the jobs       *)
(* change the keys while they write the rows, IndexLifecycle when the jobs *)
(* run; both implement this module, so what the one takes for a job is     *)
(* what the other makes of it.                                             *)
(***************************************************************************)

VARIABLES
  rebuilding,  (* joplin.rebuild_in_progress                               *)
  built,       (* joplin.last_full_index_at                                *)
  cursor,      (* is there a joplin.last_event_id?                         *)
  refilling    (* a rebuild is under way                                   *)

keys == <<rebuilding, built, cursor>>

Init ==
  /\ rebuilding = FALSE
  /\ built = FALSE
  /\ cursor = FALSE
  /\ refilling = FALSE

\* The transaction that empties the tables: flagged, and read from the start of the log.
Emptied ==
  /\ rebuilding' = TRUE
  /\ cursor' = FALSE
  /\ UNCHANGED built

Refilled ==
  /\ rebuilding' = FALSE
  /\ built' = TRUE

\* full_rebuild begins.  Nothing else writes a key until it is over.
Empty ==
  /\ ~refilling
  /\ refilling' = TRUE
  /\ Emptied

Complete ==
  /\ refilling
  /\ refilling' = FALSE
  /\ Refilled
  /\ UNCHANGED cursor

\* An exception, a cancellation, a kill.
GiveUp ==
  /\ refilling
  /\ refilling' = FALSE
  /\ UNCHANGED keys

\* A rebuild of which nobody sees more than the result.
Command ==
  /\ ~refilling
  /\ UNCHANGED refilling
  /\ \/ Emptied
     \/ Refilled /\ cursor' = FALSE

\* incremental_sync_once saves the cursor its batch ended at.
Sync ==
  /\ ~refilling
  /\ cursor' = TRUE
  /\ UNCHANGED <<rebuilding, built, refilling>>

\* Or it drops the one Joplin has refused.
Refuse ==
  /\ ~refilling
  /\ cursor
  /\ cursor' = FALSE
  /\ UNCHANGED <<rebuilding, built, refilling>>

Next == Empty \/ Complete \/ GiveUp \/ Command \/ Sync \/ Refuse

Spec == Init /\ [][Next]_<<rebuilding, built, cursor, refilling>>

-----------------------------------------------------------------------------
(* What follows                                                            *)

\* db.py:33-36, services.py:287-360: a rebuild under way is flagged and has dropped the
\* cursor, so that the first poll after it reads what came while it listed.
RefillIsFlagged == refilling => rebuilding /\ ~cursor

\* The flag goes down, and the index counts as built, with a rebuild that has refilled it;
\* and there is no cursor then.
FlagFallsWhenRefilled ==
  [][(rebuilding /\ ~rebuilding') \/ (~built /\ built') => ~rebuilding' /\ built' /\ ~cursor']_<<rebuilding, built, cursor, refilling>>
=============================================================================
