----------------------- MODULE IndexLifecycle_proofs -----------------------
(***************************************************************************)
(* What holds of the loop, the requests and the lock for any number of     *)
(* tasks, requests, kills and outages.  TypeInv is the type invariant with *)
(* what each kind of task can be doing; LockInv ties the lock to the       *)
(* tasks; FlagInv names the rebuild that keeps _rebuild_in_progress up;    *)
(* LauncherInv says that without a request one job at a time is about, and *)
(* what it found when it was started still holds.  And the lock is fair:   *)
(* no later task gets it before an earlier one.  Last, the jobs it runs    *)
(* write the meta keys as IndexMeta says.                                  *)
(***************************************************************************)
EXTENDS IndexLifecycle, SequenceTheorems, TLAPS

-----------------------------------------------------------------------------
(* Types                                                                   *)

\* Only a tick recovers and never dispatches; only a dispatched task is new; only
\* the loop leaves, and only a service that is stopping is left.
Roles ==
  /\ task[Loop].job \notin {"rebuild", "reindex"}
  /\ \A s \in Slots : task[s].job # "recovery"
  /\ \A t \in Tasks : task[t].at = "new" => t \in Slots /\ task[t].job \in {"rebuild", "sync"}
  /\ \A t \in Tasks : task[t].at = "gone" => t = Loop /\ process = "stopping"

\* A process that is down has no memory.
Quiet ==
  process = "down" =>
    /\ \A t \in Tasks : task[t] = Free
    /\ holder = Nobody /\ queue = <<>> /\ ~inProgress /\ ~backoff

TypeInv == TypeOK /\ Roles /\ Quiet

LockInv == LockConsistent

FlagInv ==
  inProgress =>
    \E t \in Tasks : \/ task[t].job = "rebuild" /\ Outstanding(t)
                     \/ Working(t) /\ IsRebuild(t)

LauncherInv ==
  spent.requests = 0 =>
    /\ queue = <<>>
    /\ \A t, u \in Tasks : Outstanding(t) /\ Outstanding(u) => t = u
    /\ \A s \in Slots : Outstanding(s) => /\ task[s].job = "rebuild"
                                          /\ inProgress /\ RebuildReason
    /\ task[Loop].job = "sync" => ~RebuildReason
    /\ ~meta.gap

-----------------------------------------------------------------------------
(* The queue                                                               *)

Waits(q, t) == \E i \in DOMAIN q : q[i] = t

NoDuplicates(q) == \A i, j \in DOMAIN q : q[i] = q[j] => i = j

\* A new waiter goes to the end of the queue, once.
LEMMA AppendWaiter ==
  ASSUME NEW q \in Seq(Tasks), NEW t \in Tasks, NoDuplicates(q), ~Waits(q, t)
  PROVE  /\ Append(q, t) \in Seq(Tasks)
         /\ NoDuplicates(Append(q, t))
         /\ \A u \in Tasks : Waits(Append(q, t), u) <=> u = t \/ Waits(q, u)
<1> DEFINE a == Append(q, t)
<1>1. Len(q) \in Nat /\ DOMAIN q = 1 .. Len(q)
  OBVIOUS
<1>2. /\ a \in Seq(Tasks) /\ DOMAIN a = 1 .. Len(q) + 1
      /\ \A i \in 1 .. Len(q) : a[i] = q[i]
      /\ a[Len(q) + 1] = t
  OBVIOUS
<1>. HIDE DEF a
<1>3. \A i \in 1 .. Len(q) : q[i] # t
  BY <1>1 DEF Waits
<1>4. NoDuplicates(a)
  BY <1>1, <1>2, <1>3 DEF NoDuplicates
<1>5. ASSUME NEW u \in Tasks PROVE Waits(a, u) <=> u = t \/ Waits(q, u)
  <2>1. ASSUME NEW i \in DOMAIN a, a[i] = u PROVE u = t \/ Waits(q, u)
    BY <1>1, <1>2, <2>1 DEF Waits
  <2>2. ASSUME u = t \/ Waits(q, u) PROVE Waits(a, u)
    BY <1>1, <1>2, <2>2 DEF Waits
  <2>. QED
    BY <2>1, <2>2 DEF Waits
<1>. QED
  BY <1>2, <1>4, <1>5 DEF a

\* The head leaves it, and only the head.
LEMMA TailWaiters ==
  ASSUME NEW q \in Seq(Tasks), q # <<>>, NoDuplicates(q)
  PROVE  /\ Head(q) \in Tasks /\ Waits(q, Head(q))
         /\ Tail(q) \in Seq(Tasks)
         /\ NoDuplicates(Tail(q))
         /\ \A u \in Tasks : Waits(Tail(q), u) <=> u # Head(q) /\ Waits(q, u)
<1>1. Len(q) \in Nat \ {0} /\ DOMAIN q = 1 .. Len(q) /\ Head(q) = q[1] /\ Head(q) \in Tasks
  OBVIOUS
<1>2. Tail(q) \in Seq(Tasks) /\ DOMAIN Tail(q) = 1 .. Len(q) - 1
      /\ \A i \in 1 .. Len(q) - 1 : Tail(q)[i] = q[i + 1]
  BY <1>1
<1>3. Waits(q, Head(q))
  BY <1>1 DEF Waits
<1>4. NoDuplicates(Tail(q))
  BY <1>1, <1>2 DEF NoDuplicates
<1>5. ASSUME NEW u \in Tasks PROVE Waits(Tail(q), u) <=> u # Head(q) /\ Waits(q, u)
  <2>1. ASSUME Waits(Tail(q), u) PROVE u # Head(q) /\ Waits(q, u)
    BY <1>1, <1>2, <2>1 DEF Waits, NoDuplicates
  <2>2. ASSUME u # Head(q), NEW i \in DOMAIN q, q[i] = u PROVE Waits(Tail(q), u)
    <3>1. i - 1 \in 1 .. Len(q) - 1 /\ Tail(q)[i - 1] = u
      BY <1>1, <1>2, <2>2
    <3>. QED
      BY <1>2, <3>1 DEF Waits
  <2>. QED
    BY <2>1, <2>2 DEF Waits
<1>. QED
  BY <1>1, <1>2, <1>3, <1>4, <1>5

\* A cancelled waiter leaves it from wherever it stands.
LEMMA WithoutWaiter ==
  ASSUME NEW q \in Seq(Tasks), NEW t \in Tasks, NoDuplicates(q)
  PROVE  /\ Without(q, t) \in Seq(Tasks)
         /\ NoDuplicates(Without(q, t))
         /\ \A u \in Tasks : Waits(Without(q, t), u) <=> u # t /\ Waits(q, u)
<1>1. CASE ~Waits(q, t)
  BY <1>1 DEF Without, Waits
<1>2. CASE Waits(q, t)
  <2>1. PICK k \in DOMAIN q : k = (CHOOSE i \in DOMAIN q : q[i] = t) /\ q[k] = t
    BY <1>2 DEF Waits
  <2> DEFINE w == [i \in 1 .. Len(q) - 1 |-> IF i < k THEN q[i] ELSE q[i + 1]]
  <2>2. Without(q, t) = w
    BY <1>2, <2>1 DEF Without, Waits
  <2>3. Len(q) \in Nat \ {0} /\ DOMAIN q = 1 .. Len(q) /\ k \in 1 .. Len(q)
        /\ \A i \in 1 .. Len(q) : q[i] \in Tasks
    BY <2>1
  <2>4. /\ w \in [1 .. Len(q) - 1 -> Tasks] /\ DOMAIN w = 1 .. Len(q) - 1
        /\ \A i \in 1 .. Len(q) - 1 : w[i] = IF i < k THEN q[i] ELSE q[i + 1]
    BY <2>3
  <2>. HIDE DEF w
  <2>5. w \in Seq(Tasks)
    BY <2>3, <2>4, SeqDef
  <2>6. NoDuplicates(w)
    BY <2>3, <2>4 DEF NoDuplicates
  <2>7. ASSUME NEW u \in Tasks, NEW i \in DOMAIN w, w[i] = u PROVE u # t /\ Waits(q, u)
    <3>1. PICK j \in DOMAIN q : j # k /\ q[j] = u
      BY <2>3, <2>4, <2>7
    <3>. QED
      BY <2>1, <3>1 DEF Waits, NoDuplicates
  <2>8. ASSUME NEW u \in Tasks, u # t, NEW i \in DOMAIN q, q[i] = u PROVE Waits(w, u)
    <3>1. CASE i < k
      BY <2>1, <2>3, <2>4, <2>8, <3>1 DEF Waits
    <3>2. CASE i > k
      <4>1. i - 1 \in 1 .. Len(q) - 1 /\ ~(i - 1 < k) /\ (i - 1) + 1 = i
        BY <2>3, <3>2
      <4>2. w[i - 1] = u
        BY <2>4, <2>8, <4>1
      <4>. QED
        BY <2>4, <4>1, <4>2 DEF Waits
    <3>. QED
      BY <2>1, <2>3, <2>8, <3>1, <3>2
  <2>9. \A u \in Tasks : Waits(w, u) <=> u # t /\ Waits(q, u)
    BY <2>7, <2>8 DEF Waits
  <2>. QED
    BY <2>2, <2>5, <2>6, <2>9
<1>. QED
  BY <1>1, <1>2

-----------------------------------------------------------------------------
(* Types and the lock                                                      *)

\* What giving one task a new job, or none, changes.
LEMMA TaskSet ==
  ASSUME TypeOK, NEW t \in Tasks, NEW v \in Task, task' = [task EXCEPT ![t] = v]
  PROVE  /\ task' \in [Tasks -> Task]
         /\ task'[t] = v
         /\ \A u \in Tasks \ {t} : task'[u] = task[u]
BY DEF TypeOK

\* Asking for the lock: one task gets it or waits at the end of the queue.
LEMMA AcquireEffect ==
  ASSUME TypeOK, LockInv, NEW t \in Tasks, NEW job \in Jobs,
         task[t].at \in {"free", "new"}, Acquire(t, job)
  PROVE  /\ task' \in [Tasks -> Task]
         /\ task'[t].job = job
         /\ task'[t].at = IF holder = Nobody /\ queue = <<>> THEN "working" ELSE "queued"
         /\ \A u \in Tasks \ {t} : task'[u] = task[u]
         /\ holder' \in Tasks \cup {Nobody} /\ queue' \in Seq(Tasks)
         /\ inProgress' = (inProgress \/ (task'[t].at = "working" /\ job \in Rebuilds))
         /\ meta' = IF task'[t].at = "working" /\ job \in Rebuilds THEN Wiped ELSE meta
         /\ LockInv'
<1>1. CASE holder = Nobody /\ queue = <<>>
  <2> DEFINE v == [job |-> job, at |-> "working"]
  <2>1. v \in Task /\ v.job = job /\ v.at = "working"
    BY DEF Task
  <2>2. task' = [task EXCEPT ![t] = v] /\ holder' = t /\ queue' = queue
        /\ inProgress' = (inProgress \/ job \in Rebuilds)
        /\ meta' = IF job \in Rebuilds THEN Wiped ELSE meta
    BY <1>1 DEF Acquire, Enter
  <2>. HIDE DEF v
  <2>3. task' \in [Tasks -> Task] /\ task'[t] = v /\ \A u \in Tasks \ {t} : task'[u] = task[u]
    BY <2>1, <2>2, TaskSet
  <2>4. LockInv'
    BY <1>1, <2>1, <2>2, <2>3, LifecycleAssumption DEF LockInv, LockConsistent, Working, Tasks
  <2>. QED
    BY <1>1, <2>1, <2>2, <2>3, <2>4 DEF TypeOK
<1>2. CASE ~(holder = Nobody /\ queue = <<>>)
  <2> DEFINE v == [job |-> job, at |-> "queued"]
  <2>1. v \in Task /\ v.job = job /\ v.at = "queued"
    BY DEF Task
  <2>2. task' = [task EXCEPT ![t] = v] /\ holder' = holder /\ queue' = Append(queue, t)
        /\ inProgress' = inProgress /\ meta' = meta
    BY <1>2 DEF Acquire
  <2>. HIDE DEF v
  <2>3. task' \in [Tasks -> Task] /\ task'[t] = v /\ \A u \in Tasks \ {t} : task'[u] = task[u]
    BY <2>1, <2>2, TaskSet
  <2>4. queue \in Seq(Tasks) /\ NoDuplicates(queue) /\ ~Waits(queue, t)
    BY DEF TypeOK, LockInv, LockConsistent, NoDuplicates, Waits
  <2>5. /\ queue' \in Seq(Tasks) /\ NoDuplicates(queue')
        /\ \A u \in Tasks : Waits(queue', u) <=> u = t \/ Waits(queue, u)
    BY <2>2, <2>4, AppendWaiter
  <2>6. \A u \in Tasks : Waits(queue', u) <=> task'[u].at = "queued"
    BY <2>1, <2>3, <2>5 DEF LockInv, LockConsistent, Waits
  <2>7. \A u \in Tasks : task'[u].at = "working" <=> holder' = u
    BY <2>1, <2>2, <2>3 DEF LockInv, LockConsistent, Working
  <2>8. LockInv'
    BY <2>5, <2>6, <2>7 DEF LockInv, LockConsistent, Working, NoDuplicates, Waits
  <2>. QED
    BY <1>2, <2>1, <2>2, <2>3, <2>5, <2>8 DEF TypeOK
<1>. QED
  BY <1>1, <1>2

\* Handing the lock on: the head of the queue gets it.
LEMMA GrantEffect ==
  ASSUME TypeOK, LockInv, Grant
  PROVE  \E t \in Tasks :
           /\ task[t].at = "queued"
           /\ task' \in [Tasks -> Task]
           /\ task'[t] = [job |-> task[t].job, at |-> "working"]
           /\ \A u \in Tasks \ {t} : task'[u] = task[u]
           /\ holder' \in Tasks /\ queue' \in Seq(Tasks)
           /\ inProgress' = (inProgress \/ IsRebuild(t))
           /\ meta' = IF IsRebuild(t) THEN Wiped ELSE meta
           /\ LockInv'
<1> DEFINE t == Head(queue)
           v == [job |-> task[t].job, at |-> "working"]
<1>1. queue \in Seq(Tasks) /\ queue # <<>> /\ NoDuplicates(queue) /\ holder = Nobody
  BY DEF TypeOK, LockInv, LockConsistent, NoDuplicates, Grant
<1>2. /\ t \in Tasks /\ Waits(queue, t)
      /\ Tail(queue) \in Seq(Tasks) /\ NoDuplicates(Tail(queue))
      /\ \A u \in Tasks : Waits(Tail(queue), u) <=> u # t /\ Waits(queue, u)
  BY <1>1, TailWaiters
<1>3. /\ task' = [task EXCEPT ![t] = v] /\ holder' = t /\ queue' = Tail(queue)
      /\ inProgress' = (inProgress \/ IsRebuild(t))
      /\ meta' = IF IsRebuild(t) THEN Wiped ELSE meta
  BY DEF Grant, Enter, IsRebuild
<1>. HIDE DEF t
<1>4. task[t].at = "queued"
  BY <1>2 DEF LockInv, LockConsistent, Waits
<1>5. v \in Task /\ v.at = "working" /\ v.job = task[t].job
  BY <1>2, <1>4 DEF TypeOK, Task
<1>6. v = [job |-> task[t].job, at |-> "working"]
  OBVIOUS
<1>. HIDE DEF v
<1>7. task' \in [Tasks -> Task] /\ task'[t] = v /\ \A u \in Tasks \ {t} : task'[u] = task[u]
  BY <1>2, <1>3, <1>5, TaskSet
<1>8. \A u \in Tasks : Waits(queue', u) <=> task'[u].at = "queued"
  BY <1>2, <1>3, <1>5, <1>7 DEF LockInv, LockConsistent, Waits
<1>9. \A u \in Tasks : task'[u].at = "working" <=> holder' = u
  BY <1>1, <1>2, <1>3, <1>5, <1>7, LifecycleAssumption DEF LockInv, LockConsistent, Working, Tasks
<1>10. LockInv'
  BY <1>2, <1>3, <1>8, <1>9 DEF LockInv, LockConsistent, Working, NoDuplicates, Waits
<1>. QED
  BY <1>2, <1>3, <1>4, <1>6, <1>7, <1>10

\* The end of a job frees the lock and the task.
LEMMA ReleaseEffect ==
  ASSUME TypeOK, LockInv, NEW t \in Tasks, Release(t)
  PROVE  /\ task' \in [Tasks -> Task]
         /\ task'[t] = Free
         /\ \A u \in Tasks \ {t} : task'[u] = task[u]
         /\ holder' = Nobody /\ queue' = queue
         /\ inProgress' = (inProgress /\ ~IsRebuild(t))
         /\ LockInv'
<1>1. Free \in Task /\ Free.at = "free"
  BY DEF Free, Task
<1>2. task' = [task EXCEPT ![t] = Free] /\ holder' = Nobody /\ queue' = queue
      /\ inProgress' = (inProgress /\ ~IsRebuild(t)) /\ task[t].at = "working"
  BY DEF Release, Working
<1>3. task' \in [Tasks -> Task] /\ task'[t] = Free /\ \A u \in Tasks \ {t} : task'[u] = task[u]
  BY <1>1, <1>2, TaskSet
<1>4. \A u \in Tasks : task'[u].at # "working"
  BY <1>1, <1>2, <1>3 DEF LockInv, LockConsistent, Working
<1>5. \A u \in Tasks : task'[u].at = "queued" <=> task[u].at = "queued"
  BY <1>1, <1>2, <1>3
<1>6. LockInv'
  BY <1>2, <1>4, <1>5, LifecycleAssumption DEF LockInv, LockConsistent, Working, Tasks
<1>. QED
  BY <1>2, <1>3, <1>6

\* A refused cursor: the job ends, turns into a rebuild, or waits as one.
LEMMA RefusedEffect ==
  ASSUME TypeOK, LockInv, NEW t \in Tasks, SyncRefused(t)
  PROVE  /\ task' \in [Tasks -> Task]
         /\ \A u \in Tasks \ {t} : task'[u] = task[u]
         /\ \/ /\ inProgress /\ inProgress'
               /\ task'[t] = Free
            \/ /\ ~inProgress /\ queue = <<>>
               /\ inProgress' /\ meta' = Wiped /\ queue' = <<>>
               /\ task'[t] = [job |-> "demoted", at |-> "working"]
            \/ /\ ~inProgress /\ queue # <<>> /\ ~inProgress'
               /\ task'[t] = [job |-> "demoted", at |-> "queued"]
         /\ holder' \in Tasks \cup {Nobody} /\ queue' \in Seq(Tasks) /\ inProgress' \in BOOLEAN
         /\ meta' = Wiped \/ meta' = [meta EXCEPT !.cursor = FALSE, !.gap = TRUE]
         /\ LockInv'
<1>0. task[t].at = "working" /\ task[t].job = "sync" /\ inProgress \in BOOLEAN
  BY DEF SyncRefused, Working, TypeOK
<1>1. CASE inProgress
  <2>1. Release(t) /\ meta' = [meta EXCEPT !.cursor = FALSE, !.gap = TRUE]
    BY <1>1 DEF SyncRefused
  <2>2. ~IsRebuild(t)
    BY <1>0 DEF IsRebuild, Rebuilds
  <2>. QED
    BY <1>0, <1>1, <2>1, <2>2, ReleaseEffect DEF TypeOK
<1>2. CASE ~inProgress /\ queue = <<>>
  <2> DEFINE v == [job |-> "demoted", at |-> "working"]
  <2>1. v \in Task /\ v.at = "working"
    BY DEF Task, Jobs, Rebuilds
  <2>2. task' = [task EXCEPT ![t] = v] /\ holder' = t /\ queue' = queue /\ inProgress'
        /\ meta' = Wiped
    BY <1>2 DEF SyncRefused
  <2>3. v = [job |-> "demoted", at |-> "working"]
    OBVIOUS
  <2>. HIDE DEF v
  <2>4. task' \in [Tasks -> Task] /\ task'[t] = v /\ \A u \in Tasks \ {t} : task'[u] = task[u]
    BY <2>1, <2>2, TaskSet
  <2>5. LockInv'
    BY <1>0, <1>2, <2>1, <2>2, <2>4 DEF LockInv, LockConsistent, Working
  <2>6. inProgress' \in BOOLEAN
    BY <1>2 DEF SyncRefused
  <2>. QED
    BY <1>2, <2>2, <2>3, <2>4, <2>5, <2>6 DEF TypeOK
<1>3. CASE ~inProgress /\ queue # <<>>
  <2> DEFINE v == [job |-> "demoted", at |-> "queued"]
  <2>1. v \in Task /\ v.at = "queued"
    BY DEF Task, Jobs, Rebuilds
  <2>2. task' = [task EXCEPT ![t] = v] /\ holder' = Nobody /\ queue' = Append(queue, t)
        /\ inProgress' = inProgress /\ meta' = [meta EXCEPT !.cursor = FALSE, !.gap = TRUE]
    BY <1>3 DEF SyncRefused
  <2>3. v = [job |-> "demoted", at |-> "queued"]
    OBVIOUS
  <2>. HIDE DEF v
  <2>4. task' \in [Tasks -> Task] /\ task'[t] = v /\ \A u \in Tasks \ {t} : task'[u] = task[u]
    BY <2>1, <2>2, TaskSet
  <2>5. queue \in Seq(Tasks) /\ NoDuplicates(queue) /\ ~Waits(queue, t)
    BY <1>0 DEF TypeOK, LockInv, LockConsistent, NoDuplicates, Waits
  <2>6. /\ queue' \in Seq(Tasks) /\ NoDuplicates(queue')
        /\ \A u \in Tasks : Waits(queue', u) <=> u = t \/ Waits(queue, u)
    BY <2>2, <2>5, AppendWaiter
  <2>7. \A u \in Tasks : Waits(queue', u) <=> task'[u].at = "queued"
    BY <2>1, <2>4, <2>6 DEF LockInv, LockConsistent, Waits
  <2>8. \A u \in Tasks : task'[u].at = "working" <=> holder' = u
    BY <1>0, <2>1, <2>2, <2>4, LifecycleAssumption DEF LockInv, LockConsistent, Working, Tasks
  <2>9. LockInv'
    BY <2>6, <2>7, <2>8 DEF LockInv, LockConsistent, Working, NoDuplicates, Waits
  <2>10. inProgress' = FALSE
    BY <1>3, <1>0, <2>2
  <2>. QED
    BY <1>3, <2>2, <2>3, <2>4, <2>6, <2>9, <2>10
<1>. QED
  BY <1>1, <1>2, <1>3

\* The loop's departure, from the lock or from the queue.
LEMMA LoopLeavesEffect ==
  ASSUME TypeOK, LockInv, LoopLeaves
  PROVE  /\ task' \in [Tasks -> Task]
         /\ task'[Loop] = [job |-> "none", at |-> "gone"]
         /\ \A u \in Tasks \ {Loop} : task'[u] = task[u]
         /\ holder' \in Tasks \cup {Nobody} /\ queue' \in Seq(Tasks)
         /\ queue = <<>> => queue' = <<>>
         /\ LockInv'
<1> DEFINE v == [job |-> "none", at |-> "gone"]
<1>1. v \in Task /\ v.at = "gone" /\ v = [job |-> "none", at |-> "gone"] /\ Loop \in Tasks
  BY DEF Task, Tasks
<1>2. task' = [task EXCEPT ![Loop] = v] /\ queue' = Without(queue, Loop)
      /\ holder' = IF holder = Loop THEN Nobody ELSE holder
  BY DEF LoopLeaves
<1>. HIDE DEF v
<1>3. task' \in [Tasks -> Task] /\ task'[Loop] = v /\ \A u \in Tasks \ {Loop} : task'[u] = task[u]
  BY <1>1, <1>2, TaskSet
<1>4. queue \in Seq(Tasks) /\ NoDuplicates(queue)
  BY DEF TypeOK, LockInv, LockConsistent, NoDuplicates
<1>5. /\ queue' \in Seq(Tasks) /\ NoDuplicates(queue')
      /\ \A u \in Tasks : Waits(queue', u) <=> u # Loop /\ Waits(queue, u)
  BY <1>1, <1>2, <1>4, WithoutWaiter
<1>6. \A u \in Tasks : Waits(queue', u) <=> task'[u].at = "queued"
  BY <1>1, <1>3, <1>5 DEF LockInv, LockConsistent, Waits
<1>7. \A u \in Tasks : task'[u].at = "working" <=> holder' = u
  BY <1>1, <1>2, <1>3, LifecycleAssumption DEF LockInv, LockConsistent, Working, Tasks
<1>8. LockInv'
  BY <1>5, <1>6, <1>7 DEF LockInv, LockConsistent, Working, NoDuplicates, Waits
<1>9. queue = <<>> => queue' = <<>>
  BY <1>2 DEF Without
<1>10. holder' \in Tasks \cup {Nobody}
  BY <1>2 DEF TypeOK
<1>. QED
  BY <1>1, <1>3, <1>5, <1>8, <1>9, <1>10

\* The process is gone and nothing of it is left.
LEMMA EndedEffect ==
  ASSUME Ended
  PROVE  /\ task' \in [Tasks -> Task] /\ \A t \in Tasks : task'[t] = Free
         /\ process' = "down" /\ holder' = Nobody /\ queue' = <<>>
         /\ queue' \in Seq(Tasks)
         /\ inProgress' = FALSE /\ backoff' = FALSE
         /\ Roles' /\ Quiet' /\ LockInv'
<1>1. Free \in Task /\ Free.at = "free" /\ Free.job = "none"
  BY DEF Free, Task
<1>2. \A t \in Tasks : task'[t] = Free
  BY DEF Ended
<1>3. Roles'
  BY <1>1, <1>2 DEF Roles, Tasks
<1>4. LockInv'
  BY <1>1, <1>2, LifecycleAssumption DEF Ended, LockInv, LockConsistent, Working, Tasks
<1>. QED
  BY <1>1, <1>2, <1>3, <1>4 DEF Ended, Quiet

Meta == [rebuilding : BOOLEAN, built : BOOLEAN, cursor : BOOLEAN, gap : BOOLEAN]

Spent == [requests : 0 .. MaxRequests, crashes : 0 .. MaxCrashes, outages : 0 .. MaxOutages]

\* What the steps write to the meta keys is of their types.
LEMMA MetaTypes ==
  ASSUME TypeOK
  PROVE  /\ Wiped \in Meta
         /\ [meta EXCEPT !.rebuilding = FALSE, !.built = TRUE] \in Meta
         /\ [meta EXCEPT !.cursor = TRUE] \in Meta
         /\ [meta EXCEPT !.cursor = FALSE, !.gap = TRUE] \in Meta
         /\ [Wiped EXCEPT !.rebuilding = FALSE, !.built = TRUE] \in Meta
<1>1. meta \in Meta
  BY DEF TypeOK, Meta
<1>2. Wiped \in Meta
  BY <1>1 DEF Wiped, Meta
<1>. HIDE DEF Wiped
<1>. QED
  BY <1>1, <1>2 DEF Meta

\* A bound is spent one at a time.
LEMMA SpentTypes ==
  ASSUME TypeOK
  PROVE  /\ spent.requests < MaxRequests =>
              /\ [spent EXCEPT !.requests = @ + 1] \in Spent
              /\ [spent EXCEPT !.requests = @ + 1].requests # 0
         /\ spent.crashes < MaxCrashes =>
              /\ [spent EXCEPT !.crashes = @ + 1] \in Spent
              /\ [spent EXCEPT !.crashes = @ + 1].requests = spent.requests
         /\ spent.outages < MaxOutages =>
              /\ [spent EXCEPT !.outages = @ + 1] \in Spent
              /\ [spent EXCEPT !.outages = @ + 1].requests = spent.requests
<1>1. spent \in Spent
  BY DEF TypeOK, Spent
<1>2. ASSUME spent.requests < MaxRequests
      PROVE  [spent EXCEPT !.requests = @ + 1] \in Spent /\ [spent EXCEPT !.requests = @ + 1].requests # 0
  BY <1>1, <1>2, LifecycleAssumption DEF Spent
<1>3. ASSUME spent.crashes < MaxCrashes
      PROVE  [spent EXCEPT !.crashes = @ + 1] \in Spent
             /\ [spent EXCEPT !.crashes = @ + 1].requests = spent.requests
  BY <1>1, <1>3, LifecycleAssumption DEF Spent
<1>4. ASSUME spent.outages < MaxOutages
      PROVE  [spent EXCEPT !.outages = @ + 1] \in Spent
             /\ [spent EXCEPT !.outages = @ + 1].requests = spent.requests
  BY <1>1, <1>4, LifecycleAssumption DEF Spent
<1>. QED
  BY <1>2, <1>3, <1>4

\* Steps that leave the tasks and the lock alone.
LEMMA TasksAlone ==
  ASSUME Roles, Quiet, LockInv, UNCHANGED <<process, task, holder, queue, inProgress>>,
         backoff' = backoff \/ backoff' = FALSE
  PROVE  Roles' /\ Quiet' /\ LockInv'
BY DEF Roles, Quiet, LockInv, LockConsistent, Working

\* Types, roles and the lock survive every step.
LEMMA TypeStep == TypeInv /\ LockInv /\ [Next]_vars => TypeInv' /\ LockInv'
<1> SUFFICES ASSUME TypeOK, Roles, Quiet, LockInv, [Next]_vars PROVE TypeOK' /\ Roles' /\ Quiet' /\ LockInv'
  BY DEF TypeInv
<1> USE MetaTypes, SpentTypes DEF Meta, Spent
<1>1. ASSUME NEW s \in Slots, NEW job \in {"rebuild", "sync"},
             task' = [task EXCEPT ![s] = [job |-> job, at |-> "new"]],
             task[s].at = "free", process # "stopping", process' = "up",
             inProgress' \in BOOLEAN,
             spent' = spent \/ (spent.requests < MaxRequests
                                /\ spent' = [spent EXCEPT !.requests = @ + 1]),
             UNCHANGED <<meta, holder, queue, backoff, joplin>>
      PROVE  TypeOK' /\ Roles' /\ Quiet' /\ LockInv'
  <2> DEFINE v == [job |-> job, at |-> "new"]
  <2>1. v \in Task /\ v.at = "new" /\ v.job = job /\ s \in Tasks
    BY DEF Task, Jobs, Rebuilds, Tasks
  <2>2. task' = [task EXCEPT ![s] = v]
    BY <1>1
  <2>. HIDE DEF v
  <2>3. task' \in [Tasks -> Task] /\ task'[s] = v /\ \A u \in Tasks \ {s} : task'[u] = task[u]
    BY <2>1, <2>2, TaskSet
  <2>4. TypeOK'
    BY <1>1, <2>3 DEF TypeOK
  <2>5. Roles'
    BY <1>1, <2>1, <2>3, LifecycleAssumption DEF Roles, Tasks
  <2>6. LockInv'
    BY <1>1, <2>1, <2>3 DEF LockInv, LockConsistent, Working
  <2>. QED
    BY <1>1, <2>4, <2>5, <2>6 DEF Quiet
<1>2. ASSUME NEW s \in Slots, DispatchRebuild(s) PROVE TypeOK' /\ Roles' /\ Quiet' /\ LockInv'
  BY <1>1, <1>2 DEF DispatchRebuild, Request
<1>3. ASSUME NEW s \in Slots, DispatchSync(s) PROVE TypeOK' /\ Roles' /\ Quiet' /\ LockInv'
  BY <1>1, <1>3 DEF DispatchSync, Request, TypeOK
<1>4. ASSUME NEW t \in Tasks, NEW job \in Jobs, task[t].at \in {"free", "new"}, Acquire(t, job),
             process \in {"up", "stopping"},
             t \in Slots => job # "recovery",
             t = Loop => job \in {"sync", "recovery"},
             spent' = spent \/ (spent.requests < MaxRequests
                                /\ spent' = [spent EXCEPT !.requests = @ + 1]),
             UNCHANGED <<process, backoff, joplin>>
      PROVE  TypeOK' /\ Roles' /\ Quiet' /\ LockInv'
  <2>1. /\ task' \in [Tasks -> Task]
        /\ task'[t].job = job /\ task'[t].at \in {"working", "queued"}
        /\ \A u \in Tasks \ {t} : task'[u] = task[u]
        /\ holder' \in Tasks \cup {Nobody} /\ queue' \in Seq(Tasks)
        /\ inProgress' \in BOOLEAN
        /\ meta' = Wiped \/ meta' = meta
        /\ LockInv'
    BY <1>4, AcquireEffect DEF TypeOK
  <2>2. Roles'
    BY <1>4, <2>1, LifecycleAssumption DEF Roles, Tasks
  <2>. QED
    BY <1>4, <2>1, <2>2 DEF TypeOK, Quiet
<1>5. ASSUME NEW s \in Slots, ReindexOne(s) PROVE TypeOK' /\ Roles' /\ Quiet' /\ LockInv'
  BY <1>4, <1>5, LifecycleAssumption DEF ReindexOne, Request, Jobs, Tasks
<1>6. ASSUME NEW s \in Slots, Begin(s) PROVE TypeOK' /\ Roles' /\ Quiet' /\ LockInv'
  <2>1. s \in Tasks /\ s # Loop /\ process # "down"
    BY <1>6, LifecycleAssumption DEF Begin, Tasks, Quiet, Free
  <2>2. task[s].job \in {"rebuild", "sync"} /\ process \in {"up", "stopping"}
    BY <1>6, <2>1 DEF Begin, Roles, TypeOK
  <2>. QED
    BY <1>4, <1>6, <2>1, <2>2 DEF Begin, Jobs, Rebuilds
<1>7. ASSUME TickSync \/ TickRecover PROVE TypeOK' /\ Roles' /\ Quiet' /\ LockInv'
  <2>1. Loop \in Tasks /\ Loop \notin Slots
    BY LifecycleAssumption DEF Tasks
  <2>2. {"sync", "recovery"} \subseteq Jobs
    BY DEF Jobs, Rebuilds
  <2>3. CASE TickSync
    BY <1>4, <2>1, <2>2, <2>3 DEF TickSync, Ticking
  <2>4. CASE TickRecover
    BY <1>4, <2>1, <2>2, <2>4 DEF TickRecover, Ticking
  <2>. QED
    BY <1>7, <2>3, <2>4
<1>8. CASE Grant
  <2>1. PICK t \in Tasks :
           /\ task[t].at = "queued"
           /\ task' \in [Tasks -> Task]
           /\ task'[t] = [job |-> task[t].job, at |-> "working"]
           /\ \A u \in Tasks \ {t} : task'[u] = task[u]
           /\ holder' \in Tasks /\ queue' \in Seq(Tasks)
           /\ inProgress' = (inProgress \/ IsRebuild(t))
           /\ meta' = IF IsRebuild(t) THEN Wiped ELSE meta
           /\ LockInv'
    BY <1>8, GrantEffect
  <2>2. UNCHANGED <<process, backoff, joplin, spent>> /\ process # "down"
    BY <1>8 DEF Grant, Quiet
  <2>3. Roles'
    BY <2>1, <2>2 DEF Roles, Tasks
  <2>4. TypeOK'
    BY <2>1, <2>2 DEF TypeOK
  <2>. QED
    BY <2>1, <2>2, <2>3, <2>4 DEF Quiet
<1>9. ASSUME NEW t \in Tasks, Release(t), meta' \in [rebuilding : BOOLEAN, built : BOOLEAN,
                                                     cursor : BOOLEAN, gap : BOOLEAN],
             backoff' \in BOOLEAN, UNCHANGED <<process, joplin, spent>>
      PROVE  TypeOK' /\ Roles' /\ Quiet' /\ LockInv'
  <2>1. /\ task' \in [Tasks -> Task]
        /\ task'[t] = Free
        /\ \A u \in Tasks \ {t} : task'[u] = task[u]
        /\ holder' = Nobody /\ queue' = queue
        /\ inProgress' \in BOOLEAN
        /\ LockInv'
    BY <1>9, ReleaseEffect DEF TypeOK
  <2>2. process # "down"
    BY <1>9 DEF Release, Working, Quiet, Free
  <2>3. Roles'
    BY <1>9, <2>1 DEF Roles, Tasks, Free
  <2>. QED
    BY <1>9, <2>1, <2>2, <2>3 DEF TypeOK, Quiet
<1>10. ASSUME NEW t \in Tasks,
              RebuildSucceeds(t) \/ RebuildFails(t) \/ SyncSucceeds(t) \/ SyncFails(t) \/ ReindexEnds(t)
       PROVE  TypeOK' /\ Roles' /\ Quiet' /\ LockInv'
  BY <1>9, <1>10 DEF RebuildSucceeds, RebuildFails, SyncSucceeds, SyncFails, ReindexEnds, TypeOK
<1>11. ASSUME NEW t \in Tasks, SyncRefused(t) PROVE TypeOK' /\ Roles' /\ Quiet' /\ LockInv'
  <2>1. UNCHANGED <<process, backoff, joplin, spent>> /\ process # "down"
    BY <1>11 DEF SyncRefused, Working, Quiet, Free
  <2>2. /\ task' \in [Tasks -> Task]
        /\ \A u \in Tasks \ {t} : task'[u] = task[u]
        /\ holder' \in Tasks \cup {Nobody} /\ queue' \in Seq(Tasks) /\ inProgress' \in BOOLEAN
        /\ LockInv'
    BY <1>11, RefusedEffect
  <2>3. \/ task'[t] = Free
        \/ task'[t] = [job |-> "demoted", at |-> "working"]
        \/ task'[t] = [job |-> "demoted", at |-> "queued"]
    BY <1>11, RefusedEffect
  <2>4. meta' = Wiped \/ meta' = [meta EXCEPT !.cursor = FALSE, !.gap = TRUE]
    BY <1>11, RefusedEffect
  <2>5. task'[t].at \in {"free", "working", "queued"} /\ task'[t].job \in {"none", "demoted"}
    BY <2>3 DEF Free
  <2>6. Roles'
    BY <2>1, <2>2, <2>5 DEF Roles, Tasks
  <2>. QED
    BY <2>1, <2>2, <2>4, <2>6 DEF TypeOK, Quiet
<1>12. CASE Boot
  <2>1. CASE RebuildReason
    <3>1. PICK s \in Slots : task' = [task EXCEPT ![s] = [job |-> "rebuild", at |-> "new"]]
      BY <1>12, <2>1 DEF Boot
    <3>2. task[s].at = "free"
      BY <1>12 DEF Boot, Quiet, Free, Tasks
    <3>. QED
      BY <1>1, <1>12, <2>1, <3>1, <3>2 DEF Boot
  <2>2. CASE ~RebuildReason
    BY <1>12, <2>2 DEF Boot, TypeOK, Roles, Quiet, LockInv, LockConsistent, Working, Free
  <2>. QED
    BY <2>1, <2>2
<1>13. CASE Stop
  BY <1>13 DEF Stop, TypeOK, Roles, Quiet, LockInv, LockConsistent, Working
<1>14. CASE LoopLeaves
  <2>1. /\ task' \in [Tasks -> Task]
        /\ task'[Loop] = [job |-> "none", at |-> "gone"]
        /\ \A u \in Tasks \ {Loop} : task'[u] = task[u]
        /\ holder' \in Tasks \cup {Nobody} /\ queue' \in Seq(Tasks)
        /\ LockInv'
    BY <1>14, LoopLeavesEffect
  <2>2. UNCHANGED <<meta, process, backoff, joplin, spent>> /\ process = "stopping"
        /\ inProgress' \in BOOLEAN
    BY <1>14 DEF LoopLeaves
  <2>3. Roles'
    BY <2>1, <2>2, LifecycleAssumption DEF Roles, Tasks
  <2>. QED
    BY <2>1, <2>2, <2>3 DEF TypeOK, Quiet
<1>15. CASE Shutdown
  BY <1>15, EndedEffect DEF Shutdown, TypeOK
<1>16. CASE Crash
  BY <1>16, EndedEffect DEF Crash, TypeOK
<1>17. CASE CliRebuild \/ CliSync \/ CliSyncRefused
  BY <1>17, TasksAlone DEF CliRebuild, CliSync, CliSyncRefused, Cli, volatile, TypeOK
<1>18. CASE JoplinGoes \/ JoplinReturns
  BY <1>18, TasksAlone DEF JoplinGoes, JoplinReturns, volatile, TypeOK
<1>19. CASE BackoffExpires
  BY <1>19, TasksAlone DEF BackoffExpires, TypeOK
<1>20. CASE UNCHANGED vars
  BY <1>20, TasksAlone DEF vars, TypeOK
<1>. QED
  BY <1>2, <1>3, <1>5, <1>6, <1>7, <1>8, <1>10, <1>11, <1>12, <1>13, <1>14, <1>15, <1>16, <1>17,
     <1>18, <1>19, <1>20 DEF Next, JobEnds

-----------------------------------------------------------------------------
(* The theorems                                                            *)

LEMMA InitInv == Init => TypeInv /\ LockInv /\ FlagInv /\ LauncherInv
<1> SUFFICES ASSUME Init PROVE TypeInv /\ LockInv /\ FlagInv /\ LauncherInv
  OBVIOUS
<1>1. Free \in Task /\ Free.at = "free" /\ Free.job = "none"
  BY DEF Free, Task
<1>2. TypeOK
  <2>1. meta \in Meta /\ spent \in Spent
    BY LifecycleAssumption DEF Init, Meta, Spent
  <2>2. task \in [Tasks -> Task] /\ queue \in Seq(Tasks)
    BY <1>1 DEF Init
  <2>. QED
    BY <2>1, <2>2 DEF Init, TypeOK, Meta, Spent
<1>3. Roles /\ Quiet
  BY <1>1 DEF Init, Roles, Quiet, Tasks
<1>4. LockInv
  BY <1>1, LifecycleAssumption DEF Init, LockInv, LockConsistent, Working, Tasks
<1>5. FlagInv /\ LauncherInv
  BY <1>1 DEF Init, FlagInv, LauncherInv, Outstanding, Tasks
<1>. QED
  BY <1>2, <1>3, <1>4, <1>5 DEF TypeInv

\* Every variable keeps its type, for any number of tasks, requests, kills and
\* outages, and a process that is down keeps nothing in memory.
THEOREM TypeCorrect == Spec => []TypeOK
<1>1. TypeInv => TypeOK
  BY DEF TypeInv
<1>. QED
  BY <1>1, InitInv, TypeStep, PTL DEF Spec

\* At most one job writes at a time, and no task waits without being in the lock's
\* queue, whatever requests, cancellations and kills come in between.
THEOREM LockStaysConsistent == Spec => []LockConsistent
<1>1. LockInv => LockConsistent
  BY DEF LockInv
<1>. QED
  BY <1>1, InitInv, TypeStep, PTL DEF Spec

\* The rebuild that keeps the flag up is replaced only by another one.
LEMMA FlagStep == TypeInv /\ LockInv /\ FlagInv /\ [Next]_vars => FlagInv'
<1> SUFFICES ASSUME TypeInv, LockInv, FlagInv, [Next]_vars PROVE FlagInv'
  OBVIOUS
<1> DEFINE Holds(v) == \/ v.job = "rebuild" /\ v.at \in {"new", "queued", "working"}
                       \/ v.at = "working" /\ v.job \in Rebuilds
<1>0. /\ FlagInv <=> (inProgress => \E t \in Tasks : Holds(task[t]))
      /\ FlagInv' <=> (inProgress' => \E t \in Tasks : Holds(task'[t]))
  BY DEF FlagInv, Outstanding, Working, IsRebuild
<1>1. ASSUME NEW s \in Slots, DispatchRebuild(s) PROVE FlagInv'
  <2> DEFINE v == [job |-> "rebuild", at |-> "new"]
  <2>1. task' = [task EXCEPT ![s] = v] /\ s \in Tasks /\ v.job = "rebuild" /\ v.at = "new"
    BY <1>1 DEF DispatchRebuild, Tasks
  <2>2. task'[s].job = "rebuild" /\ task'[s].at = "new"
    BY <2>1 DEF TypeInv, TypeOK
  <2>. QED
    BY <1>0, <2>1, <2>2
<1>2. ASSUME NEW t \in Tasks, ~Holds(task[t]), inProgress' => inProgress,
             \A u \in Tasks \ {t} : task'[u] = task[u]
      PROVE  FlagInv'
  BY <1>0, <1>2
<1>3. ASSUME NEW s \in Slots, DispatchSync(s) PROVE FlagInv'
  <2>1. s \in Tasks /\ ~Holds(task[s]) /\ inProgress' = inProgress
    BY <1>3 DEF DispatchSync, Request, Tasks
  <2>2. \A u \in Tasks \ {s} : task'[u] = task[u]
    BY <1>3 DEF DispatchSync, TypeInv, TypeOK
  <2>. QED
    BY <1>2, <2>1, <2>2
<1>4. ASSUME NEW t \in Tasks, NEW job \in Jobs, Acquire(t, job), task[t].at \in {"free", "new"},
             task[t].at = "new" => job = task[t].job
      PROVE  FlagInv'
  <2>1. /\ task'[t].job = job
        /\ task'[t].at = IF holder = Nobody /\ queue = <<>> THEN "working" ELSE "queued"
        /\ \A u \in Tasks \ {t} : task'[u] = task[u]
        /\ inProgress' = (inProgress \/ (task'[t].at = "working" /\ job \in Rebuilds))
    BY <1>4, AcquireEffect DEF TypeInv
  <2>2. CASE task'[t].at = "working" /\ job \in Rebuilds
    BY <1>0, <2>1, <2>2
  <2>3. CASE ~(task'[t].at = "working" /\ job \in Rebuilds)
    <3>1. Holds(task[t]) => Holds(task'[t])
      BY <1>4, <2>1
    <3>. QED
      BY <1>0, <2>1, <2>3, <3>1
  <2>. QED
    BY <2>2, <2>3
<1>5. ASSUME NEW s \in Slots, ReindexOne(s) \/ Begin(s) PROVE FlagInv'
  <2>1. s \in Tasks /\ (task[s].at = "new" => task[s].job \in Jobs)
    BY DEF Tasks, TypeInv, Roles, Jobs, Rebuilds
  <2>. QED
    BY <1>4, <1>5, <2>1 DEF ReindexOne, Begin, Request, Jobs
<1>6. CASE TickSync \/ TickRecover
  BY <1>4, <1>6 DEF TickSync, TickRecover, Ticking, Jobs, Rebuilds, Tasks
<1>7. CASE Grant
  <2>1. PICK t \in Tasks :
           /\ task[t].at = "queued"
           /\ task'[t] = [job |-> task[t].job, at |-> "working"]
           /\ \A u \in Tasks \ {t} : task'[u] = task[u]
           /\ inProgress' = (inProgress \/ IsRebuild(t))
    BY <1>7, GrantEffect DEF TypeInv
  <2>2. task'[t].job = task[t].job /\ task'[t].at = "working"
    BY <2>1
  <2>3. Holds(task[t]) => Holds(task'[t])
    BY <2>1, <2>2
  <2>. QED
    BY <1>0, <2>1, <2>2, <2>3 DEF IsRebuild
<1>8. ASSUME NEW t \in Tasks, Release(t) PROVE FlagInv'
  <2>1. /\ \A u \in Tasks \ {t} : task'[u] = task[u]
        /\ inProgress' = (inProgress /\ ~IsRebuild(t))
        /\ task[t].at = "working"
    BY <1>8, ReleaseEffect DEF TypeInv, Release, Working
  <2>2. inProgress' => ~Holds(task[t])
    BY <2>1 DEF IsRebuild, Rebuilds
  <2>. QED
    BY <1>0, <1>2, <2>1, <2>2
<1>9. ASSUME NEW t \in Tasks, SyncRefused(t) PROVE FlagInv'
  <2>1. ~Holds(task[t])
    BY <1>9 DEF SyncRefused, Rebuilds
  <2>2. /\ \A u \in Tasks \ {t} : task'[u] = task[u]
        /\ \/ inProgress
           \/ task'[t] = [job |-> "demoted", at |-> "working"]
           \/ ~inProgress'
    BY <1>9, RefusedEffect DEF TypeInv
  <2>3. CASE task'[t] = [job |-> "demoted", at |-> "working"]
    <3>1. task'[t].job = "demoted" /\ task'[t].at = "working"
      BY <2>3
    <3>. QED
      BY <1>0, <3>1 DEF Rebuilds
  <2>. QED
    BY <1>0, <2>1, <2>2, <2>3
<1>10. ASSUME NEW t \in Tasks, JobEnds(t) PROVE FlagInv'
  BY <1>8, <1>9, <1>10
  DEF JobEnds, RebuildSucceeds, RebuildFails, SyncSucceeds, SyncFails, ReindexEnds
<1>11. CASE Boot
  <2>1. CASE RebuildReason
    <3>1. PICK s \in Slots : task' = [task EXCEPT ![s] = [job |-> "rebuild", at |-> "new"]]
      BY <1>11, <2>1 DEF Boot
    <3> DEFINE v == [job |-> "rebuild", at |-> "new"]
    <3>2. task' = [task EXCEPT ![s] = v] /\ s \in Tasks /\ v.job = "rebuild" /\ v.at = "new"
      BY <3>1 DEF Tasks
    <3>3. task'[s].job = "rebuild" /\ task'[s].at = "new"
      BY <3>2 DEF TypeInv, TypeOK
    <3>. QED
      BY <1>0, <3>2, <3>3
  <2>2. CASE ~RebuildReason
    BY <1>11, <2>2 DEF Boot, FlagInv, Outstanding, Working, IsRebuild
  <2>. QED
    BY <2>1, <2>2
<1>12. CASE LoopLeaves
  <2>1. /\ \A u \in Tasks \ {Loop} : task'[u] = task[u]
        /\ inProgress' = (inProgress /\ ~(Working(Loop) /\ IsRebuild(Loop)))
    BY <1>12, LoopLeavesEffect DEF TypeInv, LoopLeaves
  <2>2. inProgress' => ~Holds(task[Loop])
    BY <2>1 DEF Working, IsRebuild, TypeInv, Roles
  <2>. QED
    BY <1>0, <1>2, <2>1, <2>2 DEF Tasks
<1>13. CASE Shutdown \/ Crash
  BY <1>0, <1>13, EndedEffect DEF Shutdown, Crash
<1>14. ASSUME UNCHANGED <<task, inProgress>> PROVE FlagInv'
  BY <1>14 DEF FlagInv, Outstanding, Working, IsRebuild
<1>15. CASE Stop \/ BackoffExpires \/ CliRebuild \/ CliSync \/ CliSyncRefused
            \/ JoplinGoes \/ JoplinReturns \/ UNCHANGED vars
  BY <1>14, <1>15 DEF Stop, BackoffExpires, CliRebuild, CliSync, CliSyncRefused, Cli,
     JoplinGoes, JoplinReturns, volatile, vars
<1>. QED
  BY <1>1, <1>3, <1>5, <1>6, <1>7, <1>10, <1>11, <1>12, <1>13, <1>15 DEF Next

\* POST /index/rebuild never answers 409 once no rebuild is left to finish, for any
\* number of tasks and in whatever order they are queued, fail and are cancelled.
THEOREM RefusalsJustified == Spec => []RefusalsAreJustified
<1>1. FlagInv => RefusalsAreJustified
  BY DEF FlagInv, RefusalsAreJustified, IsRebuild, Rebuilds, Outstanding, Working
<1>. QED
  BY <1>1, InitInv, TypeStep, FlagStep, PTL DEF Spec

\* Without a request what a tick found, or a start, still holds when its job ends.
LEMMA LauncherStep == TypeInv /\ LockInv /\ FlagInv /\ LauncherInv /\ [Next]_vars => LauncherInv'
<1> SUFFICES ASSUME TypeInv, LockInv, FlagInv, LauncherInv, [Next]_vars, spent'.requests = 0
             PROVE  LauncherInv'
  BY DEF LauncherInv
<1> DEFINE Pending(v) == v.at \in {"new", "queued", "working"}
           Reason(m) == m.rebuilding \/ ~m.built
<1>0. /\ LauncherInv' <=>
           /\ queue' = <<>>
           /\ \A t, u \in Tasks : Pending(task'[t]) /\ Pending(task'[u]) => t = u
           /\ \A s \in Slots : Pending(task'[s]) =>
                task'[s].job = "rebuild" /\ inProgress' /\ Reason(meta')
           /\ task'[Loop].job = "sync" => ~Reason(meta')
           /\ ~meta'.gap
      /\ spent.requests = 0 =>
           /\ queue = <<>>
           /\ \A t, u \in Tasks : Pending(task[t]) /\ Pending(task[u]) => t = u
           /\ \A s \in Slots : Pending(task[s]) =>
                task[s].job = "rebuild" /\ inProgress /\ Reason(meta)
           /\ task[Loop].job = "sync" => ~Reason(meta)
           /\ ~meta.gap
  BY DEF LauncherInv, Outstanding, RebuildReason
<1>00. /\ Wiped.rebuilding /\ ~Wiped.gap /\ Reason(Wiped)
       /\ Loop \in Tasks /\ Loop \notin Slots /\ Slots \subseteq Tasks /\ Tasks = Slots \cup {Loop}
  BY LifecycleAssumption DEF Wiped, Tasks
<1>. HIDE DEF Pending, Reason
<1>1. ASSUME NEW s \in Slots, DispatchRebuild(s) \/ DispatchSync(s) \/ ReindexOne(s) PROVE FALSE
  BY <1>1, SpentTypes DEF TypeInv, DispatchRebuild, DispatchSync, ReindexOne, Request
<1>2. CASE CliRebuild \/ CliSync \/ CliSyncRefused
  BY <1>2, SpentTypes DEF TypeInv, CliRebuild, CliSync, CliSyncRefused, Cli
<1>3. ASSUME NEW s \in Slots, Begin(s) PROVE LauncherInv'
  <2>1. /\ s \in Tasks /\ task[s].at = "new" /\ spent.requests = 0 /\ Pending(task[s])
        /\ Acquire(s, task[s].job)
    BY <1>3, <1>00 DEF Begin, Pending
  <2>2. task[s].job = "rebuild" /\ inProgress /\ queue = <<>> /\ ~meta.gap
        /\ \A u \in Tasks \ {s} : ~Pending(task[u])
    BY <1>0, <2>1
  <2>3. holder = Nobody
    BY <2>1, <2>2 DEF LockInv, LockConsistent, Working, TypeInv, TypeOK, Pending
  <2>4. /\ \A u \in Tasks \ {s} : task'[u] = task[u]
        /\ task'[s].job = "rebuild" /\ queue' = <<>> /\ inProgress' /\ meta' = Wiped
    BY <2>1, <2>2, <2>3, AcquireEffect DEF TypeInv, Jobs, Rebuilds, Acquire, Enter
  <2>5. task[Loop].job # "sync"
    BY <1>00, <2>2 DEF TypeInv, TypeOK, Task, Pending
  <2>. QED
    BY <1>0, <1>00, <2>2, <2>4, <2>5
<1>4. ASSUME Ticking, NEW job \in {"sync", "recovery"}, Acquire(Loop, job), spent.requests = 0,
             job = "sync" => ~Reason(meta), job = "recovery" => Reason(meta) /\ ~inProgress
      PROVE  LauncherInv'
  <2>1. /\ queue = <<>> /\ ~meta.gap
        /\ \A t \in Tasks : ~Pending(task[t])
    BY <1>0, <1>00, <1>4 DEF Ticking, Pending
  <2>2. holder = Nobody
    BY <2>1 DEF LockInv, LockConsistent, Working, TypeInv, TypeOK, Pending
  <2>3. /\ \A u \in Tasks \ {Loop} : task'[u] = task[u]
        /\ task'[Loop].job = job /\ queue' = <<>>
        /\ meta' = IF job = "recovery" THEN Wiped ELSE meta
    BY <1>00, <1>4, <2>1, <2>2, AcquireEffect DEF TypeInv, Jobs, Rebuilds, Acquire, Enter, Ticking
  <2>. QED
    BY <1>0, <1>00, <1>4, <2>1, <2>3
<1>5. CASE TickSync
  BY <1>4, <1>5 DEF TickSync, RebuildReason, Reason
<1>6. CASE TickRecover
  BY <1>4, <1>6 DEF TickRecover, RebuildReason, Reason
<1>7. CASE Grant
  BY <1>0, <1>7 DEF Grant
<1>8. ASSUME NEW t \in Tasks, Release(t), spent.requests = 0,
             ~meta'.gap, \A s \in Slots \ {t} : ~Pending(task[s]),
             task[Loop].job = "sync" /\ t # Loop => meta' = meta
      PROVE  LauncherInv'
  <2>1. task'[t] = Free /\ queue' = queue /\ \A u \in Tasks \ {t} : task'[u] = task[u]
    BY <1>8, ReleaseEffect DEF TypeInv
  <2>2. ~Pending(Free) /\ Free.job = "none"
    BY DEF Free, Pending
  <2>. QED
    BY <1>0, <1>00, <1>8, <2>1, <2>2
<1>9. ASSUME NEW t \in Tasks, JobEnds(t) PROVE LauncherInv'
  <2>1. spent.requests = 0 /\ task[t].at = "working" /\ Pending(task[t])
    BY <1>9 DEF JobEnds, RebuildSucceeds, RebuildFails, SyncSucceeds, SyncRefused, SyncFails,
       ReindexEnds, Release, Working, Pending
  <2>2. ~meta.gap /\ queue = <<>> /\ \A u \in Tasks \ {t} : ~Pending(task[u])
    BY <1>0, <2>1
  <2>3. t # Loop => task[Loop].job # "sync"
    BY <1>00, <2>2 DEF TypeInv, TypeOK, Task, Pending
  <2>4. CASE SyncRefused(t)
    <3>1. t = Loop
      BY <1>0, <1>00, <2>1, <2>4 DEF SyncRefused
    <3>2. ~inProgress
      BY <2>2, <2>4, <3>1 DEF FlagInv, SyncRefused, Outstanding, Working, IsRebuild, Rebuilds, Pending
    <3>3. /\ \A u \in Tasks \ {t} : task'[u] = task[u]
          /\ meta' = Wiped /\ queue' = <<>>
          /\ task'[t] = [job |-> "demoted", at |-> "working"]
      BY <2>2, <2>4, <3>2, RefusedEffect DEF TypeInv
    <3>4. task'[t].job = "demoted"
      BY <3>3
    <3>. QED
      BY <1>0, <1>00, <2>2, <3>1, <3>3, <3>4
  <2>5. CASE RebuildSucceeds(t) \/ RebuildFails(t) \/ SyncSucceeds(t) \/ SyncFails(t) \/ ReindexEnds(t)
    <3>1. Release(t) /\ ~meta'.gap
      BY <2>2, <2>5 DEF RebuildSucceeds, RebuildFails, SyncSucceeds, SyncFails, ReindexEnds,
         TypeInv, TypeOK
    <3>. QED
      BY <1>8, <1>00, <2>1, <2>2, <2>3, <3>1
  <2>. QED
    BY <1>9, <2>4, <2>5 DEF JobEnds
<1>10. CASE Boot
  <2>1. spent.requests = 0 /\ queue' = queue /\ meta' = meta /\ \A t \in Tasks : task[t] = Free
    BY <1>10 DEF Boot, TypeInv, Quiet
  <2>2. ~Pending(Free) /\ Free.job = "none"
    BY DEF Free, Pending
  <2>3. CASE RebuildReason
    <3>1. PICK s \in Slots : task' = [task EXCEPT ![s] = [job |-> "rebuild", at |-> "new"]]
      BY <1>10, <2>3 DEF Boot
    <3> DEFINE v == [job |-> "rebuild", at |-> "new"]
    <3>2. task' = [task EXCEPT ![s] = v] /\ s \in Tasks /\ v.job = "rebuild" /\ inProgress'
      BY <1>00, <1>10, <2>3, <3>1 DEF Boot
    <3>. HIDE DEF v
    <3>3. task'[s].job = "rebuild" /\ \A u \in Tasks \ {s} : task'[u] = Free
      BY <2>1, <3>2 DEF TypeInv, TypeOK
    <3>. QED
      BY <1>0, <1>00, <2>1, <2>2, <2>3, <3>2, <3>3 DEF RebuildReason, Reason
  <2>4. CASE ~RebuildReason
    BY <1>0, <1>10, <2>1, <2>4 DEF Boot
  <2>. QED
    BY <2>3, <2>4
<1>11. CASE LoopLeaves
  <2>1. /\ task'[Loop] = [job |-> "none", at |-> "gone"]
        /\ \A u \in Tasks \ {Loop} : task'[u] = task[u]
        /\ queue = <<>> => queue' = <<>>
    BY <1>11, LoopLeavesEffect DEF TypeInv
  <2>2. task'[Loop].job = "none" /\ ~Pending(task'[Loop])
    BY <2>1 DEF Pending
  <2>3. spent.requests = 0 /\ meta' = meta
        /\ inProgress' = (inProgress /\ ~(Working(Loop) /\ IsRebuild(Loop)))
    BY <1>11 DEF LoopLeaves
  <2>4. \A s \in Slots : Pending(task[s]) => ~Working(Loop)
    BY <1>0, <1>00, <2>3 DEF Working, Pending
  <2>. QED
    BY <1>0, <1>00, <2>1, <2>2, <2>3, <2>4
<1>12. CASE Shutdown \/ Crash
  <2>1. queue' = <<>> /\ meta' = meta /\ \A t \in Tasks : task'[t] = Free
    BY <1>12, EndedEffect DEF Shutdown, Crash
  <2>2. spent.requests = 0
    BY <1>12, SpentTypes DEF Shutdown, Crash, TypeInv
  <2>3. ~Pending(Free) /\ Free.job = "none"
    BY DEF Free, Pending
  <2>. QED
    BY <1>0, <1>00, <2>1, <2>2, <2>3
<1>13. CASE Stop \/ BackoffExpires \/ JoplinGoes \/ JoplinReturns \/ UNCHANGED vars
  <2>1. UNCHANGED <<meta, task, queue, inProgress>>
    BY <1>13 DEF Stop, BackoffExpires, JoplinGoes, JoplinReturns, volatile, vars
  <2>2. spent.requests = 0
    BY <1>13, SpentTypes DEF Stop, BackoffExpires, JoplinGoes, JoplinReturns, vars, TypeInv
  <2>. QED
    BY <1>0, <2>1, <2>2
<1>. QED
  BY <1>1, <1>2, <1>3, <1>5, <1>6, <1>7, <1>9, <1>10, <1>11, <1>12, <1>13 DEF Next

\* indexer.py:191-195 for a service only the launcher starts and stops: no tick
\* syncs an index that is flagged incomplete, through any number of kills and outages.
THEOREM LauncherKeepsOffBroken == Spec => []LauncherNeverSyncsBroken
<1>1. LauncherInv => LauncherNeverSyncsBroken
  BY DEF LauncherInv, LauncherNeverSyncsBroken, LoopNeverSyncsBroken, RebuildReason
<1>. QED
  BY <1>1, InitInv, TypeStep, FlagStep, LauncherStep, PTL DEF Spec

\* PRD.md:801-805 for such a service: a refused cursor and the rebuild that refetches
\* what was missed are one step, so no index is marked current over a gap.
THEOREM LauncherFillsGaps == Spec => []LauncherRefillsGap
<1>1. LauncherInv => LauncherRefillsGap
  BY DEF LauncherInv, LauncherRefillsGap, RefusedCursorNotMarkedCurrent
<1>. QED
  BY <1>1, InitInv, TypeStep, FlagStep, LauncherStep, PTL DEF Spec

-----------------------------------------------------------------------------
(* First come, first served                                                *)

\* t waits ahead of u.
Precedes(q, t, u) == \E i, j \in DOMAIN q : i < j /\ q[i] = t /\ q[j] = u

\* A new waiter comes behind those who wait.
LEMMA AppendOrder ==
  ASSUME NEW q \in Seq(Tasks), NEW x \in Tasks, NEW t \in Tasks, NEW u \in Tasks,
         NoDuplicates(q), ~Waits(q, x), Waits(q, u), Precedes(Append(q, x), t, u)
  PROVE  Precedes(q, t, u)
<1> DEFINE a == Append(q, x)
<1>1. /\ Len(q) \in Nat /\ DOMAIN q = 1 .. Len(q) /\ DOMAIN a = 1 .. Len(q) + 1
      /\ \A i \in 1 .. Len(q) : a[i] = q[i]
      /\ a[Len(q) + 1] = x
  OBVIOUS
<1>2. PICK i, j \in DOMAIN a : i < j /\ a[i] = t /\ a[j] = u
  BY DEF Precedes
<1>. HIDE DEF a
<1>3. u # x
  BY DEF Waits
<1>4. j \in 1 .. Len(q) /\ i \in 1 .. Len(q)
  BY <1>1, <1>2, <1>3
<1>. QED
  BY <1>1, <1>2, <1>4 DEF Precedes

\* The head leaves, and everybody else moves up.
LEMMA TailOrder ==
  ASSUME NEW q \in Seq(Tasks), NEW u \in Tasks, q # <<>>, NoDuplicates(q), Waits(Tail(q), u)
  PROVE  /\ \A t \in Tasks : Precedes(Tail(q), t, u) => Precedes(q, t, u)
         /\ Precedes(q, Head(q), u) /\ ~Precedes(Tail(q), Head(q), u)
<1>1. /\ Len(q) \in Nat \ {0} /\ DOMAIN q = 1 .. Len(q) /\ Head(q) = q[1]
      /\ DOMAIN Tail(q) = 1 .. Len(q) - 1
      /\ \A i \in 1 .. Len(q) - 1 : Tail(q)[i] = q[i + 1]
  OBVIOUS
<1>2. ASSUME NEW t \in Tasks, Precedes(Tail(q), t, u)
      PROVE  Precedes(q, t, u)
  <2>1. PICK i, j \in 1 .. Len(q) - 1 : i < j /\ Tail(q)[i] = t /\ Tail(q)[j] = u
    BY <1>1, <1>2 DEF Precedes
  <2>2. i + 1 \in 1 .. Len(q) /\ j + 1 \in 1 .. Len(q) /\ i + 1 < j + 1
    BY <1>1, <2>1
  <2>3. q[i + 1] = t /\ q[j + 1] = u
    BY <1>1, <2>1
  <2>. QED
    BY <1>1, <2>2, <2>3 DEF Precedes
<1>3. Precedes(q, Head(q), u)
  <2>1. PICK j \in 1 .. Len(q) - 1 : Tail(q)[j] = u
    BY <1>1 DEF Waits
  <2>2. 1 \in 1 .. Len(q) /\ j + 1 \in 1 .. Len(q) /\ 1 < j + 1 /\ q[j + 1] = u
    BY <1>1, <2>1
  <2>. QED
    BY <1>1, <2>2 DEF Precedes
<1>4. ~Precedes(Tail(q), Head(q), u)
  <2>. SUFFICES ASSUME NEW i \in 1 .. Len(q) - 1, Tail(q)[i] = Head(q)
                PROVE  FALSE
    BY <1>1 DEF Precedes
  <2>1. i + 1 \in 1 .. Len(q) /\ 1 \in 1 .. Len(q) /\ i + 1 # 1 /\ q[i + 1] = q[1]
    BY <1>1
  <2>. QED
    BY <1>1, <2>1 DEF NoDuplicates
<1>. QED
  BY <1>2, <1>3, <1>4

\* Whoever gives up waiting lets the others keep their order.
LEMMA WithoutOrder ==
  ASSUME NEW q \in Seq(Tasks), NEW x \in Tasks, NEW t \in Tasks, NEW u \in Tasks,
         Precedes(Without(q, x), t, u)
  PROVE  Precedes(q, t, u)
<1>1. CASE ~Waits(q, x)
  BY <1>1 DEF Without, Waits
<1>2. CASE Waits(q, x)
  <2>1. PICK k \in DOMAIN q : k = (CHOOSE i \in DOMAIN q : q[i] = x)
    BY <1>2 DEF Waits
  <2> DEFINE w == [i \in 1 .. Len(q) - 1 |-> IF i < k THEN q[i] ELSE q[i + 1]]
  <2>2. Without(q, x) = w
    BY <1>2, <2>1 DEF Without, Waits
  <2>3. /\ Len(q) \in Nat /\ DOMAIN q = 1 .. Len(q) /\ k \in 1 .. Len(q)
        /\ DOMAIN w = 1 .. Len(q) - 1
        /\ \A i \in 1 .. Len(q) - 1 : w[i] = q[IF i < k THEN i ELSE i + 1]
    BY <2>1
  <2>4. PICK i, j \in DOMAIN w : i < j /\ w[i] = t /\ w[j] = u
    BY <2>2 DEF Precedes
  <2>. HIDE DEF w
  <2> DEFINE up(n) == IF n < k THEN n ELSE n + 1
  <2>5. up(i) \in 1 .. Len(q) /\ up(j) \in 1 .. Len(q) /\ up(i) < up(j)
    BY <2>3, <2>4
  <2>6. q[up(i)] = t /\ q[up(j)] = u
    BY <2>3, <2>4
  <2>. QED
    BY <2>3, <2>5, <2>6 DEF Precedes
<1>. QED
  BY <1>1, <1>2

\* asyncio.Lock is fair and the code asks for nothing else: while a job waits nobody
\* comes in ahead of it, and whoever gets the lock meanwhile had been waiting longer
\* and is not ahead of it any more.  So no job overtakes another twice, the loop that
\* asks again and again and a refused sync that turns into a rebuild included.
FirstComeFirstServed ==
  [][\A u \in Tasks : task[u].at = "queued" /\ task'[u].at = "queued" =>
       \A t \in Tasks :
         /\ Precedes(queue', t, u) => Precedes(queue, t, u)
         /\ ~Working(t) /\ Working(t)' => Precedes(queue, t, u) /\ ~Precedes(queue', t, u)]_vars

\* How the lock and its queue can change.
LEMMA QueueMoves ==
  ASSUME TypeOK, LockInv, Next
  PROVE  \/ queue' = queue /\ (queue # <<>> => \A t \in Tasks : Working(t)' => Working(t))
         \/ /\ \E x \in Tasks : queue' = Append(queue, x) /\ ~Waits(queue, x)
            /\ \A t \in Tasks : Working(t)' => Working(t)
         \/ /\ queue # <<>> /\ queue' = Tail(queue)
            /\ \A t \in Tasks : Working(t)' => t = Head(queue)
         \/ queue' = Without(queue, Loop) /\ \A t \in Tasks : Working(t)' => Working(t)
         \/ queue' = <<>>
<1>. USE DEF LockInv, LockConsistent, Working
<1>1. ASSUME task' = task, queue' = queue
      PROVE  queue' = queue /\ \A t \in Tasks : Working(t)' => Working(t)
  BY <1>1
<1>2. ASSUME NEW s \in Tasks, NEW v, task' = [task EXCEPT ![s] = v], v.at # "working"
      PROVE  \A t \in Tasks : Working(t)' => Working(t)
  BY <1>2 DEF TypeOK
<1>3. ASSUME NEW s \in Tasks, NEW job, task[s].at \in {"free", "new"}, Acquire(s, job)
      PROVE  \/ queue = <<>> /\ queue' = queue
             \/ /\ queue' = Append(queue, s) /\ ~Waits(queue, s)
                /\ \A t \in Tasks : Working(t)' => Working(t)
  <2>1. ~Waits(queue, s)
    BY <1>3 DEF Waits
  <2>2. CASE holder = Nobody /\ queue = <<>>
    BY <1>3, <2>2 DEF Acquire
  <2>3. CASE ~(holder = Nobody /\ queue = <<>>)
    BY <1>2, <1>3, <2>1, <2>3 DEF Acquire
  <2>. QED
    BY <2>2, <2>3
<1>4. ASSUME NEW s \in Slots, DispatchRebuild(s) \/ DispatchSync(s)
      PROVE  queue' = queue /\ \A t \in Tasks : Working(t)' => Working(t)
  BY <1>2, <1>4 DEF DispatchRebuild, DispatchSync, Tasks
<1>5. ASSUME NEW s \in Slots, ReindexOne(s) \/ Begin(s)
      PROVE  \/ queue = <<>> /\ queue' = queue
             \/ /\ queue' = Append(queue, s) /\ ~Waits(queue, s)
                /\ \A t \in Tasks : Working(t)' => Working(t)
  BY <1>3, <1>5 DEF ReindexOne, Request, Begin, Tasks
<1>6. CASE TickSync \/ TickRecover
  BY <1>3, <1>6 DEF TickSync, TickRecover, Ticking, Tasks
<1>7. CASE Grant
  <2>1. PICK h, v : h = Head(queue) /\ task' = [task EXCEPT ![h] = v]
    BY <1>7 DEF Grant, Enter
  <2>2. \A t \in Tasks : task[t].at # "working"
    BY <1>7, LifecycleAssumption DEF Grant, Tasks
  <2>3. \A t \in Tasks : task'[t].at = "working" => t = h
    BY <2>1, <2>2 DEF TypeOK
  <2>. QED
    BY <1>7, <2>1, <2>3 DEF Grant
<1>8. ASSUME NEW s \in Tasks, Release(s)
      PROVE  queue' = queue /\ \A t \in Tasks : Working(t)' => Working(t)
  BY <1>2, <1>8 DEF Release, Free
<1>9. ASSUME NEW s \in Tasks, SyncRefused(s)
      PROVE  \/ queue' = queue /\ (queue # <<>> => \A t \in Tasks : Working(t)' => Working(t))
             \/ /\ queue' = Append(queue, s) /\ ~Waits(queue, s)
                /\ \A t \in Tasks : Working(t)' => Working(t)
  <2>1. ~Waits(queue, s)
    BY <1>9 DEF Waits, SyncRefused
  <2>2. CASE inProgress
    BY <1>8, <1>9, <2>2 DEF SyncRefused
  <2>3. CASE ~inProgress /\ queue = <<>>
    BY <1>9, <2>3 DEF SyncRefused
  <2>4. CASE ~inProgress /\ queue # <<>>
    BY <1>2, <1>9, <2>1, <2>4 DEF SyncRefused
  <2>. QED
    BY <2>2, <2>3, <2>4
<1>10. ASSUME NEW s \in Tasks,
              RebuildSucceeds(s) \/ RebuildFails(s) \/ SyncSucceeds(s) \/ SyncFails(s) \/ ReindexEnds(s)
       PROVE  queue' = queue /\ \A t \in Tasks : Working(t)' => Working(t)
  BY <1>8, <1>10 DEF RebuildSucceeds, RebuildFails, SyncSucceeds, SyncFails, ReindexEnds
<1>11. CASE Boot
  BY <1>1, <1>2, <1>11 DEF Boot, Tasks
<1>12. CASE LoopLeaves
  BY <1>2, <1>12 DEF LoopLeaves, Tasks
<1>13. CASE Shutdown \/ Crash
  BY <1>13 DEF Shutdown, Crash, Ended
<1>14. CASE \/ Stop \/ BackoffExpires \/ CliRebuild \/ CliSync \/ CliSyncRefused
            \/ JoplinGoes \/ JoplinReturns
  BY <1>1, <1>14 DEF Stop, BackoffExpires, CliRebuild, CliSync, CliSyncRefused, Cli, JoplinGoes,
     JoplinReturns, volatile
<1>. QED
  BY <1>4, <1>5, <1>6, <1>7, <1>9, <1>10, <1>11, <1>12, <1>13, <1>14 DEF Next, JobEnds, Tasks

\* For every number of tasks: the safety half of EveryJobEnds.  Before a job that waits
\* gets the lock, only those get it that already waited when it came, once each.
THEOREM LockIsFair == Spec => FirstComeFirstServed
<1>1. ASSUME TypeInv, LockInv, Next,
             NEW u \in Tasks, task[u].at = "queued", task'[u].at = "queued", NEW t \in Tasks
      PROVE  /\ Precedes(queue', t, u) => Precedes(queue, t, u)
             /\ ~Working(t) /\ Working(t)' => Precedes(queue, t, u) /\ ~Precedes(queue', t, u)
  <2>1. queue \in Seq(Tasks) /\ NoDuplicates(queue) /\ Waits(queue, u)
    BY <1>1 DEF TypeInv, TypeOK, LockInv, LockConsistent, NoDuplicates, Waits
  <2>2. Waits(queue', u) /\ queue' # <<>>
    <3>1. LockInv'
      BY <1>1, TypeStep
    <3>. QED
      BY <1>1, <3>1 DEF LockInv, LockConsistent, Waits
  <2>3. queue # <<>>
    BY <2>1 DEF Waits
  <2>4. CASE queue' = queue /\ (queue # <<>> => \A s \in Tasks : Working(s)' => Working(s))
    BY <2>3, <2>4
  <2>5. ASSUME NEW x \in Tasks, queue' = Append(queue, x), ~Waits(queue, x),
               \A s \in Tasks : Working(s)' => Working(s)
        PROVE  /\ Precedes(queue', t, u) => Precedes(queue, t, u)
               /\ ~(~Working(t) /\ Working(t)')
    BY <2>1, <2>5, AppendOrder
  <2>6. CASE queue # <<>> /\ queue' = Tail(queue) /\ \A s \in Tasks : Working(s)' => s = Head(queue)
    <3>. /\ \A s \in Tasks : Precedes(queue', s, u) => Precedes(queue, s, u)
         /\ Precedes(queue, Head(queue), u) /\ ~Precedes(queue', Head(queue), u)
      BY <2>1, <2>2, <2>6, TailOrder
    <3>. QED
      BY <2>6
  <2>7. CASE queue' = Without(queue, Loop) /\ \A s \in Tasks : Working(s)' => Working(s)
    <3>. Loop \in Tasks
      BY DEF Tasks
    <3>. QED
      BY <2>1, <2>7, WithoutOrder
  <2>. QED
    BY <1>1, <2>2, <2>4, <2>5, <2>6, <2>7, QueueMoves DEF TypeInv
<1>2. TypeInv /\ LockInv /\ [Next]_vars
        => [\A u \in Tasks : task[u].at = "queued" /\ task'[u].at = "queued" =>
              \A t \in Tasks :
                /\ Precedes(queue', t, u) => Precedes(queue, t, u)
                /\ ~Working(t) /\ Working(t)' => Precedes(queue, t, u) /\ ~Precedes(queue', t, u)]_vars
  BY <1>1
<1>. QED
  BY <1>2, InitInv, TypeStep, PTL DEF Spec, FirstComeFirstServed

-----------------------------------------------------------------------------
(* The meta keys                                                           *)

RebuildRuns == \E t \in Tasks : Working(t) /\ IsRebuild(t)

Keys == INSTANCE IndexMeta WITH
  rebuilding <- meta.rebuilding,
  built      <- meta.built,
  cursor     <- meta.cursor,
  refilling  <- RebuildRuns

keys == <<meta.rebuilding, meta.built, meta.cursor, RebuildRuns>>

\* It is true or false, before a step and after it.
LEMMA RunsOrNot == RebuildRuns \in BOOLEAN /\ RebuildRuns' \in BOOLEAN
BY DEF RebuildRuns

\* Who has the lock says whether a rebuild runs.
LEMMA HolderRuns ==
  ASSUME LockInv
  PROVE  /\ holder = Nobody => ~RebuildRuns /\ \A t \in Tasks : ~Working(t)
         /\ \A t \in Tasks : Working(t) => (RebuildRuns <=> IsRebuild(t))
         /\ \A t, u \in Tasks : Working(t) /\ Working(u) => t = u
BY LifecycleAssumption DEF LockInv, LockConsistent, RebuildRuns, Tasks

\* A task that does not work before or after a step does not tell.
LEMMA RunsUnlessWorking ==
  ASSUME NEW t \in Tasks, \A u \in Tasks \ {t} : task'[u] = task[u],
         ~Working(t), task'[t].at # "working"
  PROVE  RebuildRuns' <=> RebuildRuns
BY DEF RebuildRuns, Working, IsRebuild

\* Taking the lock as a rebuild empties the tables; otherwise nothing is written.
LEMMA AcquireKeys ==
  ASSUME TypeOK, LockInv, NEW t \in Tasks, NEW job \in Jobs,
         task[t].at \in {"free", "new"}, Acquire(t, job)
  PROVE  Keys!Empty \/ UNCHANGED keys
<1>1. /\ task'[t].job = job
      /\ task'[t].at = IF holder = Nobody /\ queue = <<>> THEN "working" ELSE "queued"
      /\ \A u \in Tasks \ {t} : task'[u] = task[u]
      /\ meta' = IF task'[t].at = "working" /\ job \in Rebuilds THEN Wiped ELSE meta
  BY AcquireEffect
<1>2. ~Working(t)
  BY DEF Working
<1>3. CASE holder = Nobody /\ queue = <<>>
  <2>1. ~RebuildRuns /\ \A u \in Tasks : ~Working(u)
    BY <1>3, HolderRuns
  <2>2. RebuildRuns' <=> job \in Rebuilds
    BY <1>1, <1>3, <2>1 DEF RebuildRuns, Working, IsRebuild
  <2>. QED
    BY <1>1, <1>3, <2>1, <2>2, RunsOrNot DEF Keys!Empty, Keys!Emptied, keys, Wiped
<1>4. CASE ~(holder = Nobody /\ queue = <<>>)
  <2>1. RebuildRuns' <=> RebuildRuns
    BY <1>1, <1>2, <1>4, RunsUnlessWorking
  <2>. QED
    BY <1>1, <1>4, <2>1, RunsOrNot DEF keys
<1>. QED
  BY <1>3, <1>4

\* The one that held the lock gives it back.
LEMMA ReleaseKeys ==
  ASSUME TypeOK, LockInv, NEW t \in Tasks, Release(t)
  PROVE  (RebuildRuns <=> IsRebuild(t)) /\ ~RebuildRuns'
<1>1. Working(t) /\ task'[t] = Free /\ \A u \in Tasks \ {t} : task'[u] = task[u]
  BY ReleaseEffect DEF Release
<1>2. \A u \in Tasks : Working(u) => u = t
  BY <1>1, HolderRuns
<1>3. \A u \in Tasks : task'[u].at # "working"
  BY <1>1, <1>2 DEF Working, Free
<1>. QED
  BY <1>1, <1>3, HolderRuns DEF RebuildRuns, Working

\* Every step does to the keys what IndexMeta lets it do, or nothing.
LEMMA KeysStep == TypeInv /\ LockInv /\ [Next]_vars => [Keys!Next]_keys
<1>. SUFFICES ASSUME TypeOK, Quiet, LockInv, Next
              PROVE  Keys!Next \/ UNCHANGED keys
  BY DEF TypeInv, vars, keys, RebuildRuns, Working, IsRebuild
<1>. USE DEF Keys!Next
<1>0. meta \in Meta /\ RebuildRuns \in BOOLEAN /\ RebuildRuns' \in BOOLEAN
  BY RunsOrNot DEF TypeOK, Meta
<1>1. ASSUME NEW s \in Slots, DispatchRebuild(s) \/ DispatchSync(s)
      PROVE  UNCHANGED keys
  <2>1. /\ s \in Tasks /\ ~Working(s) /\ meta' = meta
        /\ task' = [task EXCEPT ![s] = [job |-> "rebuild", at |-> "new"]]
             \/ task' = [task EXCEPT ![s] = [job |-> "sync", at |-> "new"]]
    BY <1>1 DEF DispatchRebuild, DispatchSync, Request, Working, Tasks
  <2>2. task'[s].at # "working" /\ \A u \in Tasks \ {s} : task'[u] = task[u]
    BY <2>1 DEF TypeOK
  <2>. QED
    BY <1>0, <2>1, <2>2, RunsUnlessWorking DEF keys
<1>2. ASSUME NEW s \in Slots, ReindexOne(s) \/ Begin(s)
      PROVE  Keys!Empty \/ UNCHANGED keys
  <2>1. PICK job \in Jobs : Acquire(s, job) /\ task[s].at \in {"free", "new"} /\ s \in Tasks
    BY <1>2 DEF ReindexOne, Request, Begin, Tasks, Jobs, TypeOK, Task
  <2>. QED
    BY <2>1, AcquireKeys
<1>3. CASE TickSync \/ TickRecover
  <2>1. PICK job \in Jobs : Acquire(Loop, job) /\ task[Loop].at \in {"free", "new"} /\ Loop \in Tasks
    BY <1>3 DEF TickSync, TickRecover, Ticking, Tasks, Jobs, Rebuilds
  <2>. QED
    BY <2>1, AcquireKeys
<1>4. CASE Grant
  <2>1. PICK t \in Tasks :
          /\ task'[t] = [job |-> task[t].job, at |-> "working"]
          /\ \A u \in Tasks \ {t} : task'[u] = task[u]
          /\ meta' = IF IsRebuild(t) THEN Wiped ELSE meta
    BY <1>4, GrantEffect
  <2>2. ~RebuildRuns /\ \A u \in Tasks : ~Working(u)
    BY <1>4, HolderRuns DEF Grant
  <2>3. RebuildRuns' <=> IsRebuild(t)
    BY <2>1, <2>2 DEF RebuildRuns, Working, IsRebuild
  <2>. QED
    BY <1>0, <2>1, <2>2, <2>3 DEF Keys!Empty, Keys!Emptied, keys, Wiped
<1>5. ASSUME NEW t \in Tasks, RebuildSucceeds(t)
      PROVE  Keys!Complete
  <2>1. Release(t) /\ IsRebuild(t) /\ meta' = [meta EXCEPT !.rebuilding = FALSE, !.built = TRUE]
    BY <1>5 DEF RebuildSucceeds
  <2>2. RebuildRuns /\ ~RebuildRuns'
    BY <2>1, ReleaseKeys
  <2>. QED
    BY <1>0, <2>1, <2>2 DEF Keys!Complete, Keys!Refilled, Meta
<1>6. ASSUME NEW t \in Tasks, RebuildFails(t)
      PROVE  Keys!GiveUp
  <2>1. Release(t) /\ IsRebuild(t) /\ meta' = meta
    BY <1>6 DEF RebuildFails
  <2>2. RebuildRuns /\ ~RebuildRuns'
    BY <2>1, ReleaseKeys
  <2>. QED
    BY <1>0, <2>1, <2>2 DEF Keys!GiveUp, Keys!keys
<1>7. ASSUME NEW t \in Tasks, SyncSucceeds(t)
      PROVE  Keys!Sync
  <2>1. Release(t) /\ ~IsRebuild(t) /\ meta' = [meta EXCEPT !.cursor = TRUE]
    BY <1>7 DEF SyncSucceeds, IsRebuild, Rebuilds
  <2>2. ~RebuildRuns /\ ~RebuildRuns'
    BY <2>1, ReleaseKeys
  <2>. QED
    BY <1>0, <2>1, <2>2 DEF Keys!Sync, Meta
<1>8. ASSUME NEW t \in Tasks, SyncRefused(t)
      PROVE  Keys!Refuse \/ Keys!Empty
  <2>1. /\ \A u \in Tasks \ {t} : task'[u] = task[u]
        /\ Working(t) /\ task[t].job = "sync" /\ meta.cursor
    BY <1>8, RefusedEffect DEF SyncRefused
  <2>2. ~RebuildRuns /\ \A u \in Tasks : Working(u) => u = t
    BY <2>1, HolderRuns DEF IsRebuild, Rebuilds
  <2>3. RebuildRuns' <=> task'[t].at = "working" /\ task'[t].job \in Rebuilds
    BY <2>1, <2>2 DEF RebuildRuns, Working, IsRebuild
  <2>4. CASE inProgress
    <3>1. task'[t] = Free /\ meta' = [meta EXCEPT !.cursor = FALSE, !.gap = TRUE]
      BY <1>8, <2>4, ReleaseEffect DEF SyncRefused
    <3>. QED
      BY <1>0, <2>1, <2>2, <2>3, <3>1 DEF Keys!Refuse, Meta, Free
  <2>5. CASE ~inProgress /\ queue = <<>>
    <3>1. task'[t] = [job |-> "demoted", at |-> "working"] /\ meta' = Wiped
      BY <1>8, <2>5, RefusedEffect
    <3>. QED
      BY <1>0, <2>2, <2>3, <3>1 DEF Keys!Empty, Keys!Emptied, Wiped, Rebuilds
  <2>6. CASE ~inProgress /\ queue # <<>>
    <3>1. task'[t] = [job |-> "demoted", at |-> "queued"]
      BY <1>8, <2>6, RefusedEffect
    <3>2. meta' = [meta EXCEPT !.cursor = FALSE, !.gap = TRUE]
      BY <1>8, <2>6 DEF SyncRefused
    <3>. QED
      BY <1>0, <2>1, <2>2, <2>3, <3>1, <3>2 DEF Keys!Refuse, Meta
  <2>. QED
    BY <2>4, <2>5, <2>6
<1>9. ASSUME NEW t \in Tasks, SyncFails(t) \/ ReindexEnds(t)
      PROVE  UNCHANGED keys
  <2>1. Release(t) /\ ~IsRebuild(t) /\ meta' = meta
    BY <1>9 DEF SyncFails, ReindexEnds, IsRebuild, Rebuilds
  <2>. QED
    BY <1>0, <2>1, ReleaseKeys DEF keys
<1>10. CASE Boot
  <2>1. meta' = meta /\ \A u \in Tasks : ~Working(u)
    BY <1>10, HolderRuns DEF Boot, Quiet
  <2>2. \A u \in Tasks : task'[u].at # "working"
    <3>1. CASE RebuildReason
      <4>1. PICK s \in Slots : task' = [task EXCEPT ![s] = [job |-> "rebuild", at |-> "new"]]
        BY <1>10, <3>1 DEF Boot
      <4>. QED
        BY <2>1, <4>1 DEF Working, TypeOK
    <3>2. CASE ~RebuildReason
      BY <1>10, <2>1, <3>2 DEF Boot, Working
    <3>. QED
      BY <3>1, <3>2
  <2>. QED
    BY <1>0, <2>1, <2>2 DEF keys, RebuildRuns, Working
<1>11. CASE LoopLeaves
  <2>1. Loop \in Tasks /\ task'[Loop].at # "working" /\ meta' = meta
        /\ \A u \in Tasks \ {Loop} : task'[u] = task[u]
    BY <1>11, LoopLeavesEffect DEF LoopLeaves, Tasks
  <2>2. RebuildRuns' => RebuildRuns
    BY <2>1 DEF RebuildRuns, Working, IsRebuild
  <2>. QED
    BY <1>0, <2>1, <2>2 DEF Keys!GiveUp, Keys!keys, keys
<1>12. CASE Shutdown \/ Crash
  <2>1. meta' = meta /\ \A t \in Tasks : task'[t] = Free
    BY <1>12, EndedEffect DEF Shutdown, Crash
  <2>2. ~RebuildRuns'
    BY <2>1 DEF RebuildRuns, Working, Free
  <2>. QED
    BY <1>0, <2>1, <2>2 DEF Keys!GiveUp, Keys!keys, keys
<1>13. CASE CliRebuild \/ CliSync \/ CliSyncRefused
  <2>1. holder = Nobody /\ ~RebuildRuns
    BY <1>13, HolderRuns DEF CliRebuild, CliSync, CliSyncRefused, Cli, Quiet
  <2>2. task' = task /\ ~RebuildRuns'
    BY <1>13, <2>1 DEF CliRebuild, CliSync, CliSyncRefused, Cli, volatile, RebuildRuns, Working, IsRebuild
  <2>3. CASE CliRebuild
    BY <1>0, <2>1, <2>2, <2>3 DEF CliRebuild, Keys!Command, Keys!Emptied, Keys!Refilled, Wiped
  <2>4. CASE CliSync
    BY <1>0, <2>1, <2>2, <2>4 DEF CliSync, Keys!Sync, Meta
  <2>5. CASE CliSyncRefused
    BY <1>0, <2>1, <2>2, <2>5 DEF CliSyncRefused, Keys!Refuse, Meta
  <2>. QED
    BY <1>13, <2>3, <2>4, <2>5
<1>14. CASE Stop \/ BackoffExpires \/ JoplinGoes \/ JoplinReturns
  <2>1. task' = task /\ meta' = meta
    BY <1>14 DEF Stop, BackoffExpires, JoplinGoes, JoplinReturns, volatile
  <2>. QED
    BY <1>0, <2>1 DEF keys, RebuildRuns, Working, IsRebuild
<1>. QED
  BY <1>1, <1>2, <1>3, <1>4, <1>5, <1>6, <1>7, <1>8, <1>9, <1>10, <1>11, <1>12, <1>13, <1>14
     DEF Next, JobEnds

\* For every number of tasks, requests, kills and outages the lifecycle does to the meta
\* keys what IndexMeta says, as the services do.
THEOREM ImplementsIndexMeta == Spec => Keys!Spec
<1>1. Init => Keys!Init
  BY DEF Init, Keys!Init, RebuildRuns, Working, Free
<1>. QED
  BY <1>1, InitInv, TypeStep, KeysStep, PTL DEF Spec, Keys!Spec, keys

\* db.py:33-36 for the lifecycle: while any task rebuilds the index is flagged and has no
\* cursor, and the flag goes down with a rebuild that has refilled it and with no cursor.
COROLLARY RebuildsAreFlagged == Spec => []Keys!RefillIsFlagged /\ Keys!FlagFallsWhenRefilled
<1>1. Keys!Init => Keys!RefillIsFlagged
  BY DEF Keys!Init, Keys!RefillIsFlagged
<1>2. Keys!RefillIsFlagged /\ [Keys!Next]_keys
        => /\ Keys!RefillIsFlagged'
           /\ [(meta.rebuilding /\ ~meta.rebuilding') \/ (~meta.built /\ meta.built')
                => ~meta.rebuilding' /\ meta.built' /\ ~meta.cursor']_keys
  BY RunsOrNot DEF keys, Keys!RefillIsFlagged, Keys!Next, Keys!Empty, Keys!Complete, Keys!GiveUp,
     Keys!Command, Keys!Sync, Keys!Refuse, Keys!Emptied, Keys!Refilled, Keys!keys
<1>. QED
  BY <1>1, <1>2, ImplementsIndexMeta, PTL DEF Keys!Spec, Keys!FlagFallsWhenRefilled, keys
=============================================================================
