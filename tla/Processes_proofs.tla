-------------------------- MODULE Processes_proofs --------------------------
(***************************************************************************)
(* Any number of serve processes and CLI commands on one database: the     *)
(* life of the processes is that of Access, whatever they index, and a     *)
(* rebuild that no other process ran beside leaves a whole index behind.   *)
(***************************************************************************)
EXTENDS Processes, Access_proofs

-----------------------------------------------------------------------------
(* The processes are those of Access                                       *)

\* What a process indexes never changes who serves or which token file is there.
LEMMA StepIsAccessStep == [NextWriting]_allVars => [Next]_vars
BY DEF NextWriting, allVars, Next, Enters, Launch, StartupRaises, Binds, Leaves, Exits, Asks,
   Commanded, Ask, Begin, Reset, Put, Finish, Touch, Ends

\* The composition implements the specification of its processes.
THEOREM ImplementsAccess == SpecWriting => Spec
BY StepIsAccessStep, PTL DEF SpecWriting, InitWriting, Spec

\* README.md:80-83 and cli.py:553-560 with processes that index: "open" reaches a
\* lone service, and only services that were not shut down leave a token file.
THEOREM TokenFileSurvivesIndexing == SpecWriting => [](AloneIsReachable /\ LeftoverOnlyAfterKill)
BY ImplementsAccess, LoneServiceIsReachable, LeftoversExplained, PTL

-----------------------------------------------------------------------------
(* Types                                                                   *)

RowType == [stamp : Nat, deleted : BOOLEAN]

WritingTypeOK ==
  /\ row \in [Rows -> RowType]
  /\ derived \subseteq Library
  /\ flag \in BOOLEAN /\ built \in BOOLEAN /\ crossed \in BOOLEAN
  /\ job \in [Writers -> Job]
  /\ markers \in Nat

\* What each stage of a job has.
Stages ==
  \A w \in Writers :
    /\ job[w].at = "begun" => job[w].kind = "rebuild"
    /\ job[w].at \in {"asked", "working"} => job[w].kind \in {"rebuild", "sync"}
    /\ job[w].todo # {} => job[w].at = "working" /\ job[w].kind = "rebuild"
    /\ Busy(w) => job[w].marker \in OldRow + 1 .. markers

\* No row bears a marker that was not handed out, and no job stamps a ghost.
Stamps ==
  /\ OldRow <= markers
  /\ \A n \in Rows : row[n].stamp <= markers
  /\ \A n \in Ghosts : row[n].stamp <= OldRow

Done(w) == \A n \in Library \ job[w].todo :
             row[n] = [stamp |-> job[w].marker, deleted |-> FALSE] /\ n \in derived

\* A rebuild no other process runs beside: the flag is up, and what is no longer to
\* do is there and bears its marker.
LoneInv ==
  ~crossed =>
    /\ LoneRebuildIsWhole
    /\ \A w \in Writers : job[w].at = "working" /\ job[w].kind = "rebuild" =>
         flag /\ Others(w) = {} /\ Done(w)

Inv == WritingTypeOK /\ Stages /\ Stamps /\ LoneInv

LEMMA NoJobType == \A at \in {"off", "idle", "asked", "begun", "working"} :
                     NoJob(at) \in Job /\ NoJob(at).at = at /\ NoJob(at).kind = "none"
                     /\ NoJob(at).todo = {}
BY DEF NoJob, Job

\* What giving one process another job changes.
LEMMA JobSet ==
  ASSUME WritingTypeOK, NEW w \in Writers, NEW v \in Job, job' = [job EXCEPT ![w] = v]
  PROVE  /\ job' \in [Writers -> Job]
         /\ job'[w] = v
         /\ \A u \in Writers \ {w} : job'[u] = job[u]
BY DEF WritingTypeOK

\* A process whose job is over, or not begun, is in nobody's way.
LEMMA JobOut ==
  ASSUME Inv, NEW w \in Writers, NEW v \in Job, job' = [job EXCEPT ![w] = v],
         v.at \in {"off", "idle", "asked"}, v.todo = {},
         v.at = "asked" => v.kind \in {"rebuild", "sync"},
         UNCHANGED <<index, markers, crossed>>
  PROVE  Inv'
<1>1. /\ job' \in [Writers -> Job] /\ job'[w] = v
      /\ \A u \in Writers \ {w} : job'[u] = job[u]
  BY JobSet DEF Inv
<1>2. UNCHANGED <<row, derived, flag, built, markers, crossed>>
  BY DEF index
<1>3. \A u \in Writers : (job'[u].at \in {"begun", "working"}) => u # w /\ job'[u] = job[u]
  BY <1>1
<1>4. WritingTypeOK'
  BY <1>1, <1>2 DEF Inv, WritingTypeOK
<1>5. Stages'
  BY <1>1, <1>2, <1>3 DEF Inv, Stages, Busy
<1>6. Stamps'
  BY <1>2 DEF Inv, Stamps
<1>7. LoneInv'
  <2> SUFFICES ASSUME ~crossed PROVE (LoneInv!2)'
    BY <1>2 DEF LoneInv
  <2>1. LoneRebuildIsWhole'
    BY <1>2 DEF Inv, LoneInv, LoneRebuildIsWhole, Whole, Live
  <2>2. ASSUME NEW u \in Writers, job'[u].at = "working", job'[u].kind = "rebuild"
        PROVE  flag' /\ Others(u)' = {} /\ Done(u)'
    <3>1. u # w /\ job'[u] = job[u]
      BY <1>3, <2>2
    <3>2. flag /\ Others(u) = {} /\ Done(u)
      BY <2>2, <3>1 DEF Inv, LoneInv
    <3>3. Others(u)' = {}
      BY <1>1, <3>1, <3>2 DEF Others, Busy
    <3>4. Done(u)'
      BY <1>2, <3>1, <3>2 DEF Done
    <3>. QED
      BY <1>2, <3>2, <3>3, <3>4
  <2>. QED
    BY <2>1, <2>2
<1>. QED
  BY <1>4, <1>5, <1>6, <1>7 DEF Inv

-----------------------------------------------------------------------------
(* The steps of a job                                                      *)

LEMMA BeginKeeps == ASSUME Inv, NEW w \in Writers, Begin(w) PROVE Inv'
<1> DEFINE stage == IF job[w].kind = "rebuild" THEN "begun" ELSE "working"
           v == [job[w] EXCEPT !.at = stage, !.marker = markers + 1]
<1>0. /\ stage \in {"begun", "working"} /\ (job[w].kind = "rebuild" => stage = "begun")
      /\ (job[w].kind # "rebuild" => stage = "working")
  OBVIOUS
<1>1. job[w] \in Job /\ markers \in Nat /\ job[w].at = "asked" /\ job[w].todo = {}
  BY DEF Inv, WritingTypeOK, Stages, Begin
<1>3. /\ job' = [job EXCEPT ![w] = v] /\ markers' = markers + 1
      /\ crossed' = (crossed \/ \E u \in Others(w) : job[w].kind = "rebuild" \/ job[u].kind = "rebuild")
      /\ UNCHANGED <<row, derived, flag, built>>
  BY DEF Begin, index
<1>. HIDE DEF stage
<1>2. v \in Job /\ v.kind = job[w].kind /\ v.marker = markers + 1 /\ v.todo = {} /\ v.at = stage
  <2> DEFINE m == markers + 1
  <2>1. m \in Nat /\ stage \in {"off", "idle", "asked", "begun", "working"}
    BY <1>0, <1>1
  <2>. HIDE DEF m
  <2>2. [job[w] EXCEPT !.at = stage, !.marker = m] \in Job
    BY <1>1, <2>1 DEF Job
  <2>3. /\ [job[w] EXCEPT !.at = stage, !.marker = m].kind = job[w].kind
        /\ [job[w] EXCEPT !.at = stage, !.marker = m].todo = job[w].todo
        /\ [job[w] EXCEPT !.at = stage, !.marker = m].at = stage
        /\ [job[w] EXCEPT !.at = stage, !.marker = m].marker = m
    BY <1>1 DEF Job
  <2>. QED
    BY <1>1, <2>2, <2>3 DEF m
<1>. HIDE DEF v
<1>4. job' \in [Writers -> Job] /\ job'[w] = v /\ \A u \in Writers \ {w} : job'[u] = job[u]
  BY <1>2, <1>3, JobSet DEF Inv
<1>5. WritingTypeOK'
  <2>1. crossed' \in BOOLEAN
    BY <1>3 DEF Inv, WritingTypeOK
  <2>. QED
    BY <1>1, <1>3, <1>4, <2>1 DEF Inv, WritingTypeOK
<1>6. Stamps'
  BY <1>1, <1>3 DEF Inv, Stamps, WritingTypeOK, RowType, Rows, OldRow
<1>7. Stages'
  <2>1. job[w].kind # "rebuild" => job[w].kind = "sync"
    BY DEF Inv, Stages, Begin
  <2>. QED
    BY <1>0, <1>1, <1>2, <1>3, <1>4, <2>1 DEF Inv, Stages, Busy, Stamps, OldRow
<1>8. LoneInv'
  <2> SUFFICES ASSUME ~crossed' PROVE (LoneInv!2)'
    BY DEF LoneInv
  <2>1. ~crossed /\ \A u \in Others(w) : job[w].kind # "rebuild" /\ job[u].kind # "rebuild"
    BY <1>3
  <2>2. LoneRebuildIsWhole'
    BY <1>3, <2>1 DEF Inv, LoneInv, LoneRebuildIsWhole, Whole, Live
  <2>3. ASSUME NEW u \in Writers, job'[u].at = "working", job'[u].kind = "rebuild" PROVE FALSE
    <3>1. u # w
      BY <1>0, <1>2, <1>4, <2>3
    <3>2. job[u].at = "working" /\ job[u].kind = "rebuild" /\ u \in Others(w)
      BY <1>4, <2>3, <3>1 DEF Others, Busy
    <3>. QED
      BY <2>1, <3>2
  <2>. QED
    BY <2>2, <2>3
<1>. QED
  BY <1>5, <1>6, <1>7, <1>8 DEF Inv

LEMMA ResetKeeps == ASSUME Inv, NEW w \in Writers, Reset(w) PROVE Inv'
<1> DEFINE v == [job[w] EXCEPT !.at = "working", !.todo = Library]
<1>1. job[w] \in Job /\ job[w].at = "begun" /\ job[w].kind = "rebuild"
      /\ job[w].marker \in OldRow + 1 .. markers
  BY DEF Inv, WritingTypeOK, Stages, Reset, Busy
<1>2. /\ v \in Job /\ v.kind = "rebuild" /\ v.marker = job[w].marker /\ v.todo = Library
      /\ v.at = "working"
  BY <1>1 DEF Job
<1>3. /\ job' = [job EXCEPT ![w] = v] /\ derived' = {} /\ flag' = TRUE
      /\ crossed' = (Others(w) # {})
      /\ UNCHANGED <<row, built, markers>>
  BY DEF Reset
<1>. HIDE DEF v
<1>4. job' \in [Writers -> Job] /\ job'[w] = v /\ \A u \in Writers \ {w} : job'[u] = job[u]
  BY <1>2, <1>3, JobSet DEF Inv
<1>5. WritingTypeOK'
  BY <1>3, <1>4 DEF Inv, WritingTypeOK
<1>6. Stamps'
  BY <1>3 DEF Inv, Stamps
<1>7. Stages'
  BY <1>1, <1>2, <1>3, <1>4 DEF Inv, Stages, Busy
<1>8. LoneInv'
  <2> SUFFICES ASSUME ~crossed' PROVE (LoneInv!2)'
    BY DEF LoneInv
  <2>1. \A u \in Writers \ {w} : ~(job'[u].at \in {"begun", "working"})
    BY <1>3, <1>4 DEF Others, Busy
  <2>2. LoneRebuildIsWhole'
    BY <1>3 DEF LoneRebuildIsWhole
  <2>3. ASSUME NEW u \in Writers, job'[u].at = "working", job'[u].kind = "rebuild"
        PROVE  flag' /\ Others(u)' = {} /\ Done(u)'
    <3>1. u = w
      BY <2>1, <2>3
    <3>2. Others(w)' = {}
      BY <2>1 DEF Others, Busy
    <3>3. Done(w)'
      BY <1>2, <1>4 DEF Done
    <3>. QED
      BY <1>3, <3>1, <3>2, <3>3
  <2>. QED
    BY <2>2, <2>3
<1>. QED
  BY <1>5, <1>6, <1>7, <1>8 DEF Inv

LEMMA PutKeeps == ASSUME Inv, NEW w \in Writers, Put(w) PROVE Inv'
<1>1. PICK S \in (SUBSET job[w].todo) \ {{}} :
         /\ row' = [n \in Rows |-> IF n \in S THEN [stamp |-> job[w].marker, deleted |-> FALSE]
                                   ELSE row[n]]
         /\ derived' = derived \cup S
         /\ job' = [job EXCEPT ![w].todo = @ \ S]
  BY DEF Put
<1> DEFINE v == [job[w] EXCEPT !.todo = @ \ S]
           r == [stamp |-> job[w].marker, deleted |-> FALSE]
<1>2. job[w] \in Job /\ job[w].at = "working" /\ job[w].kind = "rebuild" /\ S \subseteq Library
      /\ job[w].marker \in OldRow + 1 .. markers /\ markers \in Nat /\ S \subseteq Rows
  <2>1. job[w] \in Job /\ markers \in Nat /\ job[w].at = "working" /\ Busy(w)
    BY DEF Inv, WritingTypeOK, Put, Busy
  <2>2. S # {} /\ S \subseteq job[w].todo
    OBVIOUS
  <2>3. job[w].todo \subseteq Library
    BY <2>1 DEF Job
  <2>4. PICK n \in S : n \in job[w].todo
    BY <2>2
  <2>5. job[w].todo # {}
    BY <2>4
  <2>. QED
    BY <2>1, <2>2, <2>3, <2>5 DEF Inv, Stages, Rows
<1>3. /\ v \in Job /\ v.kind = "rebuild" /\ v.marker = job[w].marker /\ v.todo = job[w].todo \ S
      /\ v.at = "working"
  BY <1>2 DEF Job
<1>4. job' = [job EXCEPT ![w] = v] /\ UNCHANGED <<flag, built, markers, crossed>>
  BY <1>1 DEF Put
<1>5. r \in RowType /\ r.stamp = job[w].marker /\ r = [stamp |-> job[w].marker, deleted |-> FALSE]
  BY <1>2 DEF RowType, OldRow
<1>6. \A n \in Rows : row'[n] = IF n \in S THEN r ELSE row[n]
  BY <1>1
<1>7. row' \in [Rows -> RowType]
  BY <1>1, <1>5 DEF Inv, WritingTypeOK
<1>. HIDE DEF v, r
<1>8. job' \in [Writers -> Job] /\ job'[w] = v /\ \A u \in Writers \ {w} : job'[u] = job[u]
  BY <1>3, <1>4, JobSet DEF Inv
<1>9. WritingTypeOK'
  BY <1>1, <1>2, <1>4, <1>7, <1>8 DEF Inv, WritingTypeOK
<1>10. Stamps'
  BY <1>2, <1>4, <1>5, <1>6, ProcessesAssumption DEF Inv, Stamps, Rows, OldRow
<1>11. Stages'
  BY <1>2, <1>3, <1>4, <1>8 DEF Inv, Stages, Busy
<1>12. LoneInv'
  <2> SUFFICES ASSUME ~crossed PROVE (LoneInv!2)'
    BY <1>4 DEF LoneInv
  <2>1. flag /\ Others(w) = {} /\ Done(w)
    BY <1>2 DEF Inv, LoneInv
  <2>2. \A u \in Writers \ {w} : ~(job'[u].at \in {"begun", "working"})
    BY <1>8, <2>1 DEF Others, Busy
  <2>3. LoneRebuildIsWhole'
    BY <1>4, <2>1 DEF LoneRebuildIsWhole
  <2>4. Others(w)' = {}
    BY <2>2 DEF Others, Busy
  <2>5. Done(w)'
    <3>1. \A n \in Library \ v.todo : row'[n] = r /\ n \in derived'
      BY <1>1, <1>3, <1>5, <1>6, <2>1 DEF Done, Rows
    <3>. QED
      BY <1>3, <1>5, <1>8, <3>1 DEF Done
  <2>6. ASSUME NEW u \in Writers, job'[u].at = "working", job'[u].kind = "rebuild"
        PROVE  flag' /\ Others(u)' = {} /\ Done(u)'
    <3>1. u = w
      BY <2>2, <2>6
    <3>. QED
      BY <1>4, <2>1, <2>4, <2>5, <3>1
  <2>. QED
    BY <2>3, <2>6
<1>. QED
  BY <1>9, <1>10, <1>11, <1>12 DEF Inv

LEMMA FinishKeeps == ASSUME Inv, NEW w \in Writers, Finish(w) PROVE Inv'
<1> DEFINE m == job[w].marker
           swept(n) == [row[n] EXCEPT !.deleted = TRUE]
<1>1. job[w].at = "working" /\ job[w].kind = "rebuild" /\ job[w].todo = {}
      /\ m \in OldRow + 1 .. markers /\ markers \in Nat
  BY DEF Inv, WritingTypeOK, Stages, Finish, Busy
<1>2. Home(w) \in Job /\ Home(w).at \in {"off", "idle"} /\ Home(w).todo = {}
  BY NoJobType DEF Home
<1>3. /\ job' = [job EXCEPT ![w] = Home(w)] /\ flag' = FALSE /\ built' = TRUE
      /\ UNCHANGED <<derived, markers, crossed>>
  BY DEF Finish
<1>4. \A n \in Rows : swept(n) \in RowType /\ swept(n).stamp = row[n].stamp /\ swept(n).deleted
  BY DEF Inv, WritingTypeOK, RowType
<1>5. \A n \in Rows : row'[n] = IF row[n].stamp < m /\ row[n].stamp # NoRow THEN swept(n) ELSE row[n]
  BY DEF Finish
<1>6. row' \in [Rows -> RowType]
  BY <1>4 DEF Finish, Inv, WritingTypeOK
<1>. HIDE DEF swept, m
<1>7. job' \in [Writers -> Job] /\ job'[w] = Home(w) /\ \A u \in Writers \ {w} : job'[u] = job[u]
  BY <1>2, <1>3, JobSet DEF Inv
<1>8. WritingTypeOK'
  BY <1>3, <1>6, <1>7 DEF Inv, WritingTypeOK
<1>9. \A n \in Rows : row'[n].stamp = row[n].stamp
  BY <1>4, <1>5
<1>10. Stamps'
  BY <1>3, <1>9 DEF Inv, Stamps, Rows
<1>11. Stages'
  BY <1>2, <1>3, <1>7 DEF Inv, Stages, Busy
<1>12. LoneInv'
  <2> SUFFICES ASSUME ~crossed PROVE (LoneInv!2)'
    BY <1>3 DEF LoneInv
  <2>1. Others(w) = {} /\ Done(w)
    BY <1>1 DEF Inv, LoneInv
  <2>2. ASSUME NEW n \in Library PROVE row'[n].stamp # NoRow /\ ~row'[n].deleted /\ n \in derived'
    <3>1. row[n] = [stamp |-> m, deleted |-> FALSE] /\ n \in derived /\ n \in Rows
      BY <1>1, <2>1 DEF Done, Rows, m
    <3>2. row'[n] = row[n]
      BY <1>1, <1>5, <3>1 DEF OldRow
    <3>. QED
      BY <1>1, <1>3, <3>1, <3>2 DEF OldRow, NoRow
  <2>3. ASSUME NEW n \in Ghosts PROVE row'[n].stamp = NoRow \/ row'[n].deleted
    <3>1. n \in Rows /\ row[n].stamp <= OldRow /\ row[n].stamp \in Nat
      BY DEF Inv, Stamps, Rows, WritingTypeOK, RowType
    <3>2. row[n].stamp < m
      BY <1>1, <3>1 DEF OldRow
    <3>. QED
      BY <1>4, <1>5, <3>1, <3>2
  <2>4. LoneRebuildIsWhole'
    BY <2>2, <2>3 DEF LoneRebuildIsWhole, Whole, Live
  <2>5. \A u \in Writers : ~(job'[u].at = "working")
    BY <1>2, <1>7, <2>1 DEF Others, Busy
  <2>. QED
    BY <2>4, <2>5
<1>. QED
  BY <1>8, <1>10, <1>11, <1>12 DEF Inv

LEMMA TouchKeeps == ASSUME Inv, NEW w \in Writers, Touch(w) PROVE Inv'
<1>1. PICK n \in Rows :
       /\ row' = [row EXCEPT ![n] =
                    IF n \in Library THEN [stamp |-> job[w].marker, deleted |-> FALSE]
                    ELSE [@ EXCEPT !.deleted = row[n].stamp # NoRow]]
       /\ derived' = IF n \in Library /\ row[n].stamp = NoRow THEN derived \cup {n} ELSE derived
  BY DEF Touch
<1> DEFINE a == [stamp |-> job[w].marker, deleted |-> FALSE]
           b == [row[n] EXCEPT !.deleted = row[n].stamp # NoRow]
           r == IF n \in Library THEN a ELSE b
<1>2. UNCHANGED <<flag, built, job, markers, crossed>> /\ job[w].at = "working"
      /\ job[w].kind = "sync"
  BY DEF Touch
<1>3. job[w].marker \in OldRow + 1 .. markers /\ markers \in Nat /\ row[n] \in RowType
  BY <1>2 DEF Inv, WritingTypeOK, Stages, Busy
<1>4. a \in RowType /\ a.stamp = job[w].marker /\ ~a.deleted
  BY <1>3 DEF RowType, OldRow
<1>5. b \in RowType /\ b.stamp = row[n].stamp /\ (b.deleted <=> row[n].stamp # NoRow)
  BY <1>3 DEF RowType
<1>6. row' = [row EXCEPT ![n] = r]
  BY <1>1
<1>. HIDE DEF a, b
<1>7. r \in RowType
  BY <1>4, <1>5
<1>. HIDE DEF r
<1>8. row' \in [Rows -> RowType] /\ row'[n] = r /\ \A k \in Rows \ {n} : row'[k] = row[k]
  BY <1>6, <1>7 DEF Inv, WritingTypeOK
<1>9. WritingTypeOK'
  BY <1>1, <1>2, <1>8 DEF Inv, WritingTypeOK
<1>10. Stamps'
  <2>1. row'[n].stamp <= markers /\ (n \in Ghosts => row'[n].stamp <= OldRow)
    BY <1>3, <1>4, <1>5, <1>8, ProcessesAssumption DEF r, Inv, Stamps, OldRow
  <2>. QED
    BY <1>2, <1>8, <2>1 DEF Inv, Stamps, Rows
<1>11. Stages'
  BY <1>2 DEF Inv, Stages, Busy
<1>12. LoneInv'
  <2> SUFFICES ASSUME ~crossed PROVE (LoneInv!2)'
    BY <1>2 DEF LoneInv
  <2>1. ASSUME NEW u \in Writers, job[u].at = "working", job[u].kind = "rebuild" PROVE FALSE
    <3>1. Others(u) = {} /\ u # w
      BY <1>2, <2>1 DEF Inv, LoneInv
    <3>. QED
      BY <1>2, <3>1 DEF Others, Busy
  <2>2. ASSUME built, ~flag PROVE Whole'
    <3>1. Whole
      BY <2>2 DEF Inv, LoneInv, LoneRebuildIsWhole
    <3>2. ASSUME NEW k \in Library PROVE row'[k].stamp # NoRow /\ ~row'[k].deleted /\ k \in derived'
      <4>1. CASE k = n
        BY <1>1, <1>3, <1>4, <1>8, <3>1, <4>1 DEF r, Whole, OldRow, NoRow
      <4>2. CASE k # n
        BY <1>1, <1>8, <3>1, <4>2 DEF Whole, Live, Rows
      <4>. QED
        BY <4>1, <4>2
    <3>3. ASSUME NEW k \in Ghosts PROVE row'[k].stamp = NoRow \/ row'[k].deleted
      <4>1. CASE k = n
        BY <1>5, <1>8, <4>1, ProcessesAssumption DEF r
      <4>2. CASE k # n
        BY <1>8, <3>1, <4>2 DEF Whole, Live, Rows
      <4>. QED
        BY <4>1, <4>2
    <3>. QED
      BY <3>2, <3>3 DEF Whole, Live
  <2>. QED
    BY <1>2, <2>1, <2>2 DEF LoneRebuildIsWhole
<1>. QED
  BY <1>9, <1>10, <1>11, <1>12 DEF Inv

\* The steps of the processes give jobs or end them.
LEMMA StepKeeps == Inv /\ [NextWriting]_allVars => Inv'
<1> SUFFICES ASSUME Inv, [NextWriting]_allVars PROVE Inv'
  OBVIOUS
<1>1. ASSUME UNCHANGED writing PROVE Inv'
  BY <1>1 DEF writing, index, Inv, WritingTypeOK, Stages, Busy, Stamps, LoneInv, LoneRebuildIsWhole,
     Whole, Live, Others, Done
<1>2. ASSUME NEW w \in Writers, NEW kind \in {"rebuild", "sync"}, Ask(w, kind) PROVE Inv'
  <2> DEFINE v == [NoJob("asked") EXCEPT !.kind = kind]
  <2>1. v \in Job /\ v.at = "asked" /\ v.todo = {} /\ v.kind = kind
    BY DEF NoJob, Job
  <2>2. job' = [job EXCEPT ![w] = v] /\ UNCHANGED <<index, markers, crossed>>
    BY <1>2 DEF Ask
  <2>. HIDE DEF v
  <2>. QED
    BY <2>1, <2>2, JobOut
<1>3. ASSUME NEW w \in Writers, NEW at \in {"off", "idle"}, job' = [job EXCEPT ![w] = NoJob(at)],
             UNCHANGED <<index, markers, crossed>>
      PROVE  Inv'
  BY <1>3, JobOut, NoJobType
<1>4. Processes \subseteq Writers /\ Commands \subseteq Writers
  BY DEF Writers
<1>5. ASSUME NEW p \in Processes, Enters(p) \/ StartupRaises(p) \/ Binds(p) \/ Leaves(p) PROVE Inv'
  BY <1>1, <1>5 DEF Enters, StartupRaises, Binds, Leaves
<1>6. ASSUME NEW p \in Processes, Launch(p) PROVE Inv'
  BY <1>2, <1>3, <1>4, <1>6 DEF Launch
<1>7. ASSUME NEW p \in Processes, Exits(p) PROVE Inv'
  BY <1>3, <1>4, <1>7 DEF Exits
<1>8. ASSUME NEW p \in Processes, Asks(p) PROVE Inv'
  BY <1>2, <1>4, <1>8 DEF Asks
<1>9. ASSUME NEW c \in Commands, Commanded(c) PROVE Inv'
  BY <1>2, <1>4, <1>9 DEF Commanded
<1>10. ASSUME NEW w \in Writers, Ends(w) PROVE Inv'
  BY <1>3, <1>10 DEF Ends, Home
<1>11. ASSUME NEW w \in Writers,
              Begin(w) \/ Reset(w) \/ Put(w) \/ Finish(w) \/ Touch(w) PROVE Inv'
  BY <1>11, BeginKeeps, ResetKeeps, PutKeeps, FinishKeeps, TouchKeeps
<1>12. CASE UNCHANGED allVars
  BY <1>1, <1>12 DEF allVars
<1>. QED
  BY <1>5, <1>6, <1>7, <1>8, <1>9, <1>10, <1>11, <1>12 DEF NextWriting

LEMMA InitWritingInv == InitWriting => Inv
<1> SUFFICES ASSUME InitWriting PROVE Inv
  OBVIOUS
<1>1. PICK old \in BOOLEAN :
        /\ row = [n \in Rows |-> [stamp |-> IF old THEN OldRow ELSE NoRow, deleted |-> FALSE]]
        /\ flag = old /\ built = old
  BY DEF InitWriting
<1> DEFINE stamp == IF old THEN OldRow ELSE NoRow
           r == [stamp |-> stamp, deleted |-> FALSE]
<1>2. stamp \in Nat /\ stamp <= OldRow
  BY DEF OldRow, NoRow
<1>3. row = [n \in Rows |-> r]
  BY <1>1
<1>. HIDE DEF stamp
<1>4. r \in RowType /\ r.stamp <= OldRow
  BY <1>2 DEF RowType
<1>. HIDE DEF r
<1>5. row \in [Rows -> RowType] /\ \A n \in Rows : row[n].stamp <= OldRow
  BY <1>3, <1>4
<1>6. /\ job \in [Writers -> Job]
      /\ \A w \in Writers : job[w].at = "off" /\ job[w].todo = {}
      /\ derived = {} /\ markers = OldRow /\ crossed = FALSE
  BY NoJobType DEF InitWriting
<1>7. WritingTypeOK
  BY <1>1, <1>5, <1>6 DEF WritingTypeOK, OldRow
<1>8. Stages /\ Stamps
  BY <1>5, <1>6 DEF Stages, Stamps, Busy, Rows, OldRow
<1>9. LoneInv
  BY <1>1, <1>6 DEF LoneInv, LoneRebuildIsWhole
<1>. QED
  BY <1>7, <1>8, <1>9 DEF Inv

\* db.py:33-37 for any services, commands and notes: after a rebuild that no other
\* process indexed beside, an index without the flag has every note with its tasks
\* and links and no note that is gone, whatever overlapping jobs did before it.
THEOREM LoneRebuildsAreWhole == SpecWriting => []LoneRebuildIsWhole
<1>1. Inv => LoneRebuildIsWhole
  BY DEF Inv, LoneInv, LoneRebuildIsWhole
<1>. QED
  BY <1>1, InitWritingInv, StepKeeps, PTL DEF SpecWriting
=============================================================================
