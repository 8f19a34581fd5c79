--------------------------- MODULE IndexLifecycle ---------------------------
(***************************************************************************)
(* indexer.py and the lifespan in app.py: who runs a rebuild or a sync,    *)
(* and when.  What the jobs do to the rows is SyncService; here a job is   *)
(* the time it holds the lock, and the index is the three meta keys the    *)
(* decisions read.                                                         *)
(*                                                                         *)
(* The loop task ticks; API requests dispatch tasks of their own (a slot   *)
(* is one such task); all of them queue on one asyncio.Lock, which hands   *)
(* itself on in FIFO order.  Everything between two awaits is one step:    *)
(* in particular a tick reads rebuild_reason and only then waits for the   *)
(* lock, and a rebuild wipes the derived tables in the step in which it    *)
(* gets the lock.  While the service is down the CLI may rebuild or sync   *)
(* the same database.                                                      *)
(***************************************************************************)
EXTENDS Integers, Sequences

CONSTANTS
  Slots,        (* the tasks API requests can have under way at once       *)
  Loop,         (* the background task                                     *)
  Nobody,       (* the lock is free                                        *)
  MaxRequests,  (* bound: requests and CLI commands                        *)
  MaxCrashes,   (* bound: kills of the process                             *)
  MaxOutages    (* bound: times Joplin goes away                           *)

ASSUME LifecycleAssumption ==
  /\ Loop \notin Slots /\ Nobody \notin Slots \cup {Loop}
  /\ MaxRequests \in Nat /\ MaxCrashes \in Nat /\ MaxOutages \in Nat

Tasks == Slots \cup {Loop}

VARIABLES
  meta,        (* durable: rebuild_in_progress, last_full_index_at, cursor;  *)
               (* gap: Joplin refused the cursor and nothing was refetched   *)
  process,     (* the service                                              *)
  inProgress,  (* IndexerHandle._rebuild_in_progress                       *)
  task,        (* what each task does and how far it is                    *)
  holder,      (* of IndexerHandle._lock                                   *)
  queue,       (* its waiters                                              *)
  backoff,     (* time.monotonic() < _next_recovery_at                     *)
  joplin,      (* does Joplin answer?                                      *)
  spent        (* what is left of the bounds                               *)

volatile == <<inProgress, task, holder, queue, backoff>>
vars == <<meta, process, inProgress, task, holder, queue, backoff, joplin, spent>>

\* "recovery" is a rebuild started by a tick, "demoted" one started because the
\* cursor was refused, "rebuild" one dispatched by a request or at startup.
Rebuilds == {"rebuild", "recovery", "demoted"}
Jobs == Rebuilds \cup {"sync", "reindex"}

Free == [job |-> "none", at |-> "free"]

\* A task has a job exactly until the job ends or the task is cancelled.
Task == [job : {"none"}, at : {"free", "gone"}] \cup [job : Jobs, at : {"new", "queued", "working"}]

TypeOK ==
  /\ meta \in [rebuilding : BOOLEAN, built : BOOLEAN, cursor : BOOLEAN, gap : BOOLEAN]
  /\ process \in {"down", "up", "stopping"}
  /\ inProgress \in BOOLEAN
  /\ task \in [Tasks -> Task]
  /\ holder \in Tasks \cup {Nobody}
  /\ queue \in Seq(Tasks)
  /\ backoff \in BOOLEAN
  /\ joplin \in BOOLEAN
  /\ spent \in [requests : 0 .. MaxRequests, crashes : 0 .. MaxCrashes, outages : 0 .. MaxOutages]

Init ==
  /\ meta = [rebuilding |-> FALSE, built |-> FALSE, cursor |-> FALSE, gap |-> FALSE]
  /\ process = "down"
  /\ inProgress = FALSE
  /\ task = [t \in Tasks |-> Free]
  /\ holder = Nobody
  /\ queue = <<>>
  /\ backoff = FALSE
  /\ joplin \in BOOLEAN
  /\ spent = [requests |-> 0, crashes |-> 0, outages |-> 0]

\* services.rebuild_reason is not None, with a token and rebuild_on_empty_start.
RebuildReason == meta.rebuilding \/ ~meta.built

Working(t) == task[t].at = "working"
Outstanding(t) == task[t].at \in {"new", "queued", "working"}
IsRebuild(t) == task[t].job \in Rebuilds

-----------------------------------------------------------------------------
(* The lock.  Entering as a rebuild raises _rebuild_in_progress and wipes. *)

Wiped == [rebuilding |-> TRUE, built |-> meta.built, cursor |-> FALSE, gap |-> FALSE]

Enter(t, job) ==
  /\ holder' = t
  /\ task' = [task EXCEPT ![t] = [job |-> job, at |-> "working"]]
  /\ inProgress' = (inProgress \/ job \in Rebuilds)
  /\ meta' = IF job \in Rebuilds THEN Wiped ELSE meta

\* Mutant: a released lock goes to whoever asks first.
Acquire_Barging(t, job) ==
  \/ holder = Nobody /\ Enter(t, job) /\ UNCHANGED queue
  \/ /\ holder # Nobody
     /\ queue' = Append(queue, t)
     /\ task' = [task EXCEPT ![t] = [job |-> job, at |-> "queued"]]
     /\ UNCHANGED <<holder, inProgress, meta>>

\* asyncio.Lock.acquire: at once when nobody holds it or waits for it.
Acquire(t, job) ==
  IF holder = Nobody /\ queue = <<>>
    THEN Enter(t, job) /\ UNCHANGED queue
    ELSE /\ queue' = Append(queue, t)
         /\ task' = [task EXCEPT ![t] = [job |-> job, at |-> "queued"]]
         /\ UNCHANGED <<holder, inProgress, meta>>

\* The waiter at the head is resumed.
Grant ==
  /\ holder = Nobody /\ queue # <<>>
  /\ Enter(Head(queue), task[Head(queue)].job)
  /\ queue' = Tail(queue)
  /\ UNCHANGED <<process, backoff, joplin, spent>>

\* Mutant: a finished task is not discarded.
Release_KeepsTask(t) ==
  /\ Working(t)
  /\ holder' = Nobody
  /\ task' = [task EXCEPT ![t].at = "free"]
  /\ inProgress' = (inProgress /\ ~IsRebuild(t))
  /\ UNCHANGED queue

\* Mutant: a rebuild without the finally clause.
Release_KeepsFlag(t) ==
  /\ Working(t)
  /\ holder' = Nobody
  /\ task' = [task EXCEPT ![t] = Free]
  /\ UNCHANGED <<inProgress, queue>>

\* The job of t is over; a rebuild also runs its finally clause.
Release(t) ==
  /\ Working(t)
  /\ holder' = Nobody
  /\ task' = [task EXCEPT ![t] = Free]
  /\ inProgress' = (inProgress /\ ~IsRebuild(t))
  /\ UNCHANGED queue

-----------------------------------------------------------------------------
(* Requests                                                                *)

\* A client may make a request at any time; a slot is free when its task is done.
Request(s) ==
  /\ process = "up"
  /\ task[s].at = "free"
  /\ spent.requests < MaxRequests
  /\ spent' = [spent EXCEPT !.requests = @ + 1]

\* POST /index/rebuild: 409 while _rebuild_in_progress, else 202.
DispatchRebuild(s) ==
  /\ Request(s)
  /\ ~inProgress
  /\ inProgress' = TRUE
  /\ task' = [task EXCEPT ![s] = [job |-> "rebuild", at |-> "new"]]
  /\ UNCHANGED <<meta, process, holder, queue, backoff, joplin>>

\* POST /index/sync
DispatchSync(s) ==
  /\ Request(s)
  /\ task' = [task EXCEPT ![s] = [job |-> "sync", at |-> "new"]]
  /\ UNCHANGED <<meta, process, inProgress, holder, queue, backoff, joplin>>

\* POST /index/note/{id}: the handler itself waits for the lock.
ReindexOne(s) ==
  /\ Request(s)
  /\ Acquire(s, "reindex")
  /\ UNCHANGED <<process, backoff, joplin>>

\* A created task gets its first turn.
Begin(s) ==
  /\ task[s].at = "new"
  /\ Acquire(s, task[s].job)
  /\ UNCHANGED <<process, backoff, joplin, spent>>

-----------------------------------------------------------------------------
(* The loop                                                                *)

Ticking == process = "up" /\ task[Loop].at = "free"

\* Mutant: an index flagged incomplete is synced while the recovery backs off.
TickSync_WhileBackingOff ==
  /\ Ticking
  /\ ~RebuildReason \/ backoff
  /\ Acquire(Loop, "sync")
  /\ UNCHANGED <<process, backoff, joplin, spent>>

TickSync ==
  /\ Ticking
  /\ ~RebuildReason
  /\ Acquire(Loop, "sync")
  /\ UNCHANGED <<process, backoff, joplin, spent>>

\* Mutant: only an index that was never built is rebuilt by a tick.
TickRecover_OnlyWhenEmpty ==
  /\ Ticking
  /\ RebuildReason /\ ~meta.rebuilding /\ ~inProgress /\ ~backoff
  /\ Acquire(Loop, "recovery")
  /\ UNCHANGED <<process, backoff, joplin, spent>>

TickRecover ==
  /\ Ticking
  /\ RebuildReason /\ ~inProgress /\ ~backoff
  /\ Acquire(Loop, "recovery")
  /\ UNCHANGED <<process, backoff, joplin, spent>>

BackoffExpires ==
  /\ process = "up" /\ backoff
  /\ backoff' = FALSE
  /\ UNCHANGED <<meta, process, inProgress, task, holder, queue, joplin, spent>>

-----------------------------------------------------------------------------
(* The jobs                                                                *)

RebuildSucceeds(t) ==
  /\ IsRebuild(t) /\ joplin
  /\ Release(t)
  /\ meta' = [meta EXCEPT !.rebuilding = FALSE, !.built = TRUE]
  /\ backoff' = (backoff /\ task[t].job # "recovery")
  /\ UNCHANGED <<process, joplin, spent>>

\* Any error leaves the flag up; only a tick's own attempt starts the backoff.
RebuildFails(t) ==
  /\ IsRebuild(t) /\ ~joplin
  /\ Release(t)
  /\ backoff' = (backoff \/ task[t].job = "recovery")
  /\ UNCHANGED <<meta, process, joplin, spent>>

SyncSucceeds(t) ==
  /\ task[t].job = "sync" /\ joplin
  /\ Release(t)
  /\ meta' = [meta EXCEPT !.cursor = TRUE]
  /\ UNCHANGED <<process, backoff, joplin, spent>>

\* Mutant: the cursor is dropped but no rebuild follows.
SyncRefused_NoRebuild(t) ==
  /\ task[t].job = "sync" /\ joplin /\ meta.cursor
  /\ Release(t)
  /\ meta' = [meta EXCEPT !.cursor = FALSE, !.gap = TRUE]
  /\ UNCHANGED <<process, backoff, joplin, spent>>

\* 400 for the cursor: it is dropped, the lock is released, and the same task asks
\* for a full rebuild, which an unfinished one makes it give up.
SyncRefused(t) ==
  LET refused == [meta EXCEPT !.cursor = FALSE, !.gap = TRUE]
  IN  /\ task[t].job = "sync" /\ Working(t) /\ joplin /\ meta.cursor
      /\ IF inProgress
           THEN /\ Release(t)
                /\ meta' = refused
           ELSE IF queue = <<>>
           THEN /\ holder' = t
                /\ task' = [task EXCEPT ![t] = [job |-> "demoted", at |-> "working"]]
                /\ inProgress' = TRUE
                /\ meta' = Wiped
                /\ UNCHANGED queue
           ELSE /\ holder' = Nobody
                /\ task' = [task EXCEPT ![t] = [job |-> "demoted", at |-> "queued"]]
                /\ queue' = Append(queue, t)
                /\ meta' = refused
                /\ UNCHANGED inProgress
      /\ UNCHANGED <<process, backoff, joplin, spent>>

SyncFails(t) ==
  /\ task[t].job = "sync" /\ ~joplin
  /\ Release(t)
  /\ UNCHANGED <<meta, process, backoff, joplin, spent>>

ReindexEnds(t) ==
  /\ task[t].job = "reindex"
  /\ Release(t)
  /\ UNCHANGED <<meta, process, backoff, joplin, spent>>

JobEnds(t) ==
  \/ RebuildSucceeds(t) \/ RebuildFails(t)
  \/ SyncSucceeds(t) \/ SyncRefused(t) \/ SyncFails(t)
  \/ ReindexEnds(t)

-----------------------------------------------------------------------------
(* The process                                                             *)

\* lifespan: a broken or empty index gets a rebuild dispatched before the loop starts.
Boot ==
  /\ process = "down"
  /\ process' = "up"
  /\ IF RebuildReason
       THEN /\ inProgress' = TRUE
            /\ \E s \in Slots : task' = [task EXCEPT ![s] = [job |-> "rebuild", at |-> "new"]]
       ELSE UNCHANGED <<inProgress, task>>
  /\ UNCHANGED <<meta, holder, queue, backoff, joplin, spent>>

Stop ==
  /\ process = "up"
  /\ process' = "stopping"
  /\ UNCHANGED <<meta, inProgress, task, holder, queue, backoff, joplin, spent>>

\* Mutant: a cancelled waiter is left in the lock's queue.
LoopLeaves_StaysQueued ==
  /\ process = "stopping"
  /\ task[Loop].at # "gone"
  /\ task' = [task EXCEPT ![Loop] = [job |-> "none", at |-> "gone"]]
  /\ holder' = IF holder = Loop THEN Nobody ELSE holder
  /\ inProgress' = (inProgress /\ ~(Working(Loop) /\ IsRebuild(Loop)))
  /\ UNCHANGED <<meta, process, queue, backoff, joplin, spent>>

\* asyncio.Lock: a waiter that is cancelled is taken out of the queue.
Without(q, t) ==
  LET place == CHOOSE i \in DOMAIN q : q[i] = t
  IN  IF \E i \in DOMAIN q : q[i] = t
        THEN [i \in 1 .. Len(q) - 1 |-> IF i < place THEN q[i] ELSE q[i + 1]]
        ELSE q

\* The loop leaves between two ticks, or is cancelled after the deadline in one.
LoopLeaves ==
  /\ process = "stopping"
  /\ task[Loop].at # "gone"
  /\ task' = [task EXCEPT ![Loop] = [job |-> "none", at |-> "gone"]]
  /\ holder' = IF holder = Loop THEN Nobody ELSE holder
  /\ queue' = Without(queue, Loop)
  /\ inProgress' = (inProgress /\ ~(Working(Loop) /\ IsRebuild(Loop)))
  /\ UNCHANGED <<meta, process, backoff, joplin, spent>>

Ended ==
  /\ process' = "down"
  /\ inProgress' = FALSE
  /\ task' = [t \in Tasks |-> Free]
  /\ holder' = Nobody
  /\ queue' = <<>>
  /\ backoff' = FALSE

\* Once the loop is gone the dispatched tasks are cancelled and the process ends.
Shutdown ==
  /\ process = "stopping"
  /\ task[Loop].at = "gone"
  /\ Ended
  /\ UNCHANGED <<meta, joplin, spent>>

Crash ==
  /\ process # "down"
  /\ spent.crashes < MaxCrashes
  /\ spent' = [spent EXCEPT !.crashes = @ + 1]
  /\ Ended
  /\ UNCHANGED <<meta, joplin>>

\* "pkm-sidecar index rebuild" and "index sync" while the service is down.
Cli ==
  /\ process = "down"
  /\ spent.requests < MaxRequests
  /\ spent' = [spent EXCEPT !.requests = @ + 1]
  /\ UNCHANGED <<process, joplin>> /\ UNCHANGED volatile

CliRebuild ==
  /\ Cli
  /\ meta' = IF joplin THEN [Wiped EXCEPT !.rebuilding = FALSE, !.built = TRUE] ELSE Wiped

CliSync ==
  /\ Cli
  /\ joplin
  /\ meta' = [meta EXCEPT !.cursor = TRUE]

\* Exit status 5, asking the user to run a rebuild.
CliSyncRefused ==
  /\ Cli
  /\ joplin /\ meta.cursor
  /\ meta' = [meta EXCEPT !.cursor = FALSE, !.gap = TRUE]

JoplinGoes ==
  /\ joplin
  /\ spent.outages < MaxOutages
  /\ joplin' = FALSE
  /\ spent' = [spent EXCEPT !.outages = @ + 1]
  /\ UNCHANGED <<meta, process>> /\ UNCHANGED volatile

JoplinReturns ==
  /\ ~joplin
  /\ joplin' = TRUE
  /\ UNCHANGED <<meta, process, spent>> /\ UNCHANGED volatile

-----------------------------------------------------------------------------

Next ==
  \/ \E s \in Slots : DispatchRebuild(s) \/ DispatchSync(s) \/ ReindexOne(s) \/ Begin(s)
  \/ \E t \in Tasks : JobEnds(t)
  \/ Grant
  \/ TickSync \/ TickRecover \/ BackoffExpires
  \/ Boot \/ Stop \/ LoopLeaves \/ Shutdown \/ Crash
  \/ CliRebuild \/ CliSync \/ CliSyncRefused
  \/ JoplinGoes \/ JoplinReturns

\* The event loop runs every ready callback, every request to Joplin is answered
\* or times out, timers fire, and Joplin comes back from an outage.  Nothing makes
\* a user send a request, start, stop or kill the service.
Fairness ==
  /\ \A s \in Slots : WF_vars(Begin(s))
  /\ \A t \in Tasks : WF_vars(JobEnds(t))
  /\ WF_vars(Grant)
  /\ WF_vars(TickSync) /\ WF_vars(TickRecover) /\ WF_vars(BackoffExpires)
  /\ WF_vars(LoopLeaves) /\ WF_vars(Shutdown)
  /\ WF_vars(JoplinReturns)

Spec == Init /\ [][Next]_vars

FairSpec == Spec /\ Fairness

-----------------------------------------------------------------------------
(* Properties                                                              *)

\* The 409 of POST /index/rebuild never outlives the rebuilds: while the service
\* runs, _rebuild_in_progress is up only if some rebuild has yet to finish, in
\* whatever order queued, refused, failing and cancelled ones lower and raise it.
RefusalsAreJustified ==
  inProgress => \E t \in Tasks : IsRebuild(t) /\ Outstanding(t)

\* The lock, its queue and the tasks agree: at most one job writes, nobody waits
\* twice, and no task waits without being in the queue (a lost wake-up).
LockConsistent ==
  /\ \A t \in Tasks : Working(t) <=> holder = t
  /\ \A t \in Tasks : task[t].at = "queued" <=> \E i \in DOMAIN queue : queue[i] = t
  /\ \A i, j \in DOMAIN queue : queue[i] = queue[j] => i = j

\* indexer.py:191-195: while the index is flagged incomplete "the loop must not
\* fall through to incremental sync".
LoopNeverSyncsBroken ==
  ~(Working(Loop) /\ task[Loop].job = "sync" /\ meta.rebuilding)

\* PRD.md:801-805: when the cursor is invalid, "do not silently mark index current":
\* no poll may set a new cursor before a rebuild has refetched what was missed.
RefusedCursorNotMarkedCurrent ==
  meta.built /\ ~meta.rebuilding /\ meta.gap => ~meta.cursor

\* The two claims above hold as long as only the launcher starts and stops the
\* service: without a request or a command of the CLI no second job can come between
\* a tick's decision and its lock, or between a refused cursor and its rebuild,
\* through any number of kills, shutdowns and outages within the bounds.
LauncherNeverSyncsBroken == spent.requests = 0 => LoopNeverSyncsBroken

LauncherRefillsGap == spent.requests = 0 => RefusedCursorNotMarkedCurrent

\* services.py:123-131, indexer.py:188-200: a broken index does not stay broken.
\* However often rebuilds fail, back off, are refused or cut short, a service that
\* stays up completes one.
BrokenIsRepaired ==
  meta.rebuilding /\ process = "up" ~> ~meta.rebuilding \/ process # "up"

\* Every accepted job gets the lock and ends: no request starves behind the loop,
\* which asks for the lock again and again.
EveryJobEnds == \A s \in Slots : Outstanding(s) ~> ~Outstanding(s)
=============================================================================
