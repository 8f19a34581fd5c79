----------------------------- MODULE Processes -----------------------------
(***************************************************************************)
(* Several processes on one database: "serve" processes (Access) and       *)
(* "pkm-sidecar index rebuild" or "index sync" run beside them.  Each has  *)
(* its own IndexerHandle and lock, so what keeps two jobs of one process   *)
(* apart (IndexLifecycle) does nothing between two: they share only the    *)
(* tables, the flag rebuild_in_progress and the markers in indexed_at.     *)
(*                                                                         *)
(* Joplin does not change here: it has the notes in Library, and the index *)
(* may still hold rows of the Ghosts it no longer has.  Every write below  *)
(* is one BEGIN IMMEDIATE transaction; taking the marker and emptying the  *)
(* derived tables are two steps because another process may commit between.*)
(***************************************************************************)
EXTENDS Access

CONSTANTS
  Commands,   (* CLI processes that index                                  *)
  Library,    (* the notes Joplin has                                      *)
  Ghosts,     (* notes it had when the index was last built                *)
  MaxMarkers  (* bound: jobs begun                                         *)

ASSUME ProcessesAssumption ==
  /\ Commands \cap Processes = {} /\ Library \cap Ghosts = {} /\ MaxMarkers \in Nat

VARIABLES
  row,        (* indexed_at and deleted of each note's row                 *)
  derived,    (* the notes whose tasks and links are there                 *)
  flag,       (* rebuild_in_progress                                       *)
  built,      (* last_full_index_at is set                                 *)
  job,        (* what each process's indexer does                          *)
  markers,    (* markers handed out: time.time_ns() strictly increases     *)
  crossed     (* history: a job of another process ran during the rebuild  *)
              (* that emptied the tables last, or one ran beside a rebuild *)
              (* since                                                     *)

index    == <<row, derived, flag, built>>
writing  == <<index, job, markers, crossed>>
allVars  == <<vars, writing>>

Writers == Processes \cup Commands
Rows    == Library \cup Ghosts
NoRow   == 0   (* no marker is 0                                           *)
OldRow  == 1

\* "off": no indexer; "idle": between jobs; "asked": decided, not yet begun;
\* "begun": a rebuild that has its marker; "working": past its first write.
Job == [at : {"off", "idle", "asked", "begun", "working"}, kind : {"none", "rebuild", "sync"},
        marker : Nat, todo : SUBSET Library]

NoJob(at) == [at |-> at, kind |-> "none", marker |-> 0, todo |-> {}]

Live(n) == row[n].stamp # NoRow /\ ~row[n].deleted

Whole == /\ \A n \in Library : Live(n) /\ n \in derived
         /\ \A n \in Ghosts : ~Live(n)

WritersTypeOK ==
  /\ TypeOK
  /\ row \in [Rows -> [stamp : Nat, deleted : BOOLEAN]]
  /\ derived \subseteq Library
  /\ flag \in BOOLEAN /\ built \in BOOLEAN /\ crossed \in BOOLEAN
  /\ job \in [Writers -> Job]
  /\ markers \in Nat

\* A fresh database, or one a rebuild was killed over right after emptying it.
InitWriting ==
  /\ Init
  /\ \E old \in BOOLEAN :
       /\ row = [n \in Rows |-> [stamp |-> IF old THEN OldRow ELSE NoRow, deleted |-> FALSE]]
       /\ flag = old /\ built = old
  /\ derived = {}
  /\ job = [w \in Writers |-> NoJob("off")]
  /\ markers = OldRow
  /\ crossed = FALSE

RebuildReason == flag \/ ~built

Busy(w) == job[w].at \in {"begun", "working"}

\* Where a process is left by the end of a job.
Home(w) == IF w \in Commands THEN NoJob("off") ELSE NoJob("idle")

-----------------------------------------------------------------------------
(* The life of a serve process                                             *)

Enters(p) == Start(p) /\ UNCHANGED writing

Ask(w, kind) ==
  /\ job' = [job EXCEPT ![w] = [NoJob("asked") EXCEPT !.kind = kind]]
  /\ UNCHANGED <<vars, index, markers, crossed>>

\* The rest of the lifespan's startup: a broken or empty index gets a rebuild
\* dispatched, before uvicorn has tried to bind the port.
Launch(p) ==
  /\ service[p].at = "starting" /\ job[p].at = "off"
  /\ IF RebuildReason
       THEN Ask(p, "rebuild")
       ELSE /\ job' = [job EXCEPT ![p] = NoJob("idle")]
            /\ UNCHANGED <<vars, index, markers, crossed>>

StartupRaises(p) == StartFails(p) /\ job[p].at = "off" /\ UNCHANGED writing

Binds(p) == (Bind(p) \/ BindFails(p)) /\ job[p].at # "off" /\ UNCHANGED writing

Leaves(p) == Stop(p) /\ UNCHANGED writing

\* A job that is under way ends with the process: cancelled, or killed with it.
Exits(p) ==
  /\ Shutdown(p) \/ Kill(p)
  /\ job' = [job EXCEPT ![p] = NoJob("off")]
  /\ UNCHANGED <<index, markers, crossed>>

\* A tick repairs a broken index and syncs a whole one; a request may ask for either.
Asks(p) ==
  /\ job[p].at = "idle"
  /\ \E kind \in {"rebuild", "sync"} :
       /\ kind = (IF RebuildReason THEN "rebuild" ELSE "sync") \/ service[p].at = "serving"
       /\ Ask(p, kind)

\* "index rebuild" and "index sync" look at nothing before they begin.
Commanded(c) ==
  /\ job[c].at = "off"
  /\ \E kind \in {"rebuild", "sync"} : Ask(c, kind)

-----------------------------------------------------------------------------
(* The jobs                                                                *)

Others(w) == {v \in Writers \ {w} : Busy(v)}

\* The marker; a sync has nothing more to prepare.
Begin(w) ==
  /\ job[w].at = "asked"
  /\ markers < MaxMarkers
  /\ markers' = markers + 1
  /\ LET rebuild == job[w].kind = "rebuild"
     IN  /\ job' = [job EXCEPT ![w] = [@ EXCEPT !.at = IF rebuild THEN "begun" ELSE "working",
                                              !.marker = markers + 1]]
         /\ crossed' = (crossed \/ \E v \in Others(w) : rebuild \/ job[v].kind = "rebuild")
  /\ UNCHANGED <<vars, index>>

\* Mutant: the flag is raised by the transaction after the one that wipes.
Reset_RaisesNoFlag(w) ==
  /\ job[w].at = "begun"
  /\ derived' = {}
  /\ job' = [job EXCEPT ![w] = [@ EXCEPT !.at = "working", !.todo = Library]]
  /\ crossed' = (Others(w) # {})
  /\ UNCHANGED <<vars, row, flag, built, markers>>

\* db.reset_derived: the derived tables are emptied and the flag goes up.
Reset(w) ==
  /\ job[w].at = "begun"
  /\ derived' = {}
  /\ flag' = TRUE
  /\ job' = [job EXCEPT ![w] = [@ EXCEPT !.at = "working", !.todo = Library]]
  /\ crossed' = (Others(w) # {})
  /\ UNCHANGED <<vars, row, built, markers>>

\* A page of notes: the rows are stamped, undeleted and their text extracted again.
Put(w) ==
  /\ job[w].at = "working"
  /\ \E S \in (SUBSET job[w].todo) \ {{}} :
       /\ row' = [n \in Rows |-> IF n \in S THEN [stamp |-> job[w].marker, deleted |-> FALSE]
                                 ELSE row[n]]
       /\ derived' = derived \cup S
       /\ job' = [job EXCEPT ![w].todo = @ \ S]
  /\ UNCHANGED <<vars, flag, built, markers, crossed>>

\* The last transaction of a rebuild: what no job has stamped since its marker is
\* deleted, and the index is declared whole.
Finish(w) ==
  /\ job[w].at = "working" /\ job[w].kind = "rebuild" /\ job[w].todo = {}
  /\ row' = [n \in Rows |-> IF row[n].stamp < job[w].marker /\ row[n].stamp # NoRow
                              THEN [row[n] EXCEPT !.deleted = TRUE] ELSE row[n]]
  /\ flag' = FALSE /\ built' = TRUE
  /\ job' = [job EXCEPT ![w] = Home(w)]
  /\ UNCHANGED <<vars, derived, markers, crossed>>

\* reindex_note for an event: an unchanged body is stamped but not extracted again.
Touch(w) ==
  /\ job[w].at = "working" /\ job[w].kind = "sync"
  /\ \E n \in Rows :
       /\ row' = [row EXCEPT ![n] =
                    IF n \in Library THEN [stamp |-> job[w].marker, deleted |-> FALSE]
                    ELSE [@ EXCEPT !.deleted = row[n].stamp # NoRow]]
       /\ derived' = IF n \in Library /\ row[n].stamp = NoRow THEN derived \cup {n} ELSE derived
  /\ UNCHANGED <<vars, flag, built, job, markers, crossed>>

\* A sync is through its batch; or any job ends in an error or a cancellation.
Ends(w) ==
  /\ Busy(w)
  /\ job' = [job EXCEPT ![w] = Home(w)]
  /\ UNCHANGED <<vars, index, markers, crossed>>

NextWriting ==
  \/ \E p \in Processes : Enters(p) \/ Launch(p) \/ StartupRaises(p) \/ Binds(p) \/ Leaves(p)
                          \/ Exits(p) \/ Asks(p)
  \/ \E c \in Commands : Commanded(c)
  \/ \E w \in Writers : Begin(w) \/ Reset(w) \/ Put(w) \/ Finish(w) \/ Touch(w) \/ Ends(w)

SpecWriting == InitWriting /\ [][NextWriting]_allVars

-----------------------------------------------------------------------------
(* Properties                                                              *)

\* db.py:33-37: without the flag the index has every note, task and link.  It does
\* once the last rebuild to empty it ran with no other process indexing, whatever
\* overlapping rebuilds and syncs did to the rows before.
LoneRebuildIsWhole == built /\ ~flag /\ ~crossed => Whole

\* db.py:33-37, once every job has ended, and as it stands there: the flag "means
\* exactly" that the tables were emptied and not refilled, and a rebuild that is
\* killed or fails "leaves it behind".
QuietIsWhole == built /\ ~flag /\ (\A w \in Writers : ~Busy(w)) => Whole
=============================================================================
