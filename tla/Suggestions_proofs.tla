------------------------- MODULE Suggestions_proofs -------------------------
(***************************************************************************)
(* What holds of the suggestion store for any notes, texts, models and     *)
(* runs.  TypeInv is the type invariant with what a run knows of the note  *)
(* at hand; it gives, for any number of overlapping runs, that decisions   *)
(* stand, that an opt-out holds and that one text of a note is offered.    *)
(* SerialInv is about one run at a time: what it found before it awaited a *)
(* title is still so when it records one.                                  *)
(***************************************************************************)
EXTENDS Suggestions, TLAPS

-----------------------------------------------------------------------------
(* Types                                                                   *)

Busy == {"lookup", "count", "answer"}

\* A run that has a note at hand saw it among its candidates.
NoteAtHand ==
  \A r \in Runs :
    /\ run[r].at \in Busy => run[r].note \in Notes /\ run[r].seen[run[r].note] \in Text
    /\ run[r].at = "answer" => run[r].gen \in Generations

TypeInv == TypeOK /\ NoteAtHand

\* The identity of the suggestion a run is working on.
LEMMA IdentityType ==
  ASSUME TypeInv, NEW r \in Runs, run[r].at \in Busy
  PROVE  IdentityOf(r) \in Identity
BY DEF TypeInv, TypeOK, NoteAtHand, Run, IdentityOf, AtHand, Identity

\* The key of the row it will insert.
LEMMA NewKeyType ==
  ASSUME TypeInv, NEW r \in Runs, run[r].at = "answer"
  PROVE  NewKey(r) \in Key /\ NewKey(r).of = IdentityOf(r)
BY IdentityType DEF TypeInv, NoteAtHand, NewKey, Key, Busy

\* What counting a candidate changes: nothing of the other runs.
LEMMA CountedEffect ==
  ASSUME TypeInv, NEW r \in Runs, NEW n \in Notes, NEW o \in Outcome, Counted(r, n, o)
  PROVE  /\ run' \in [Runs -> Run]
         /\ \A s \in Runs \ {r} : run'[s] = run[s]
         /\ run'[r].at = "next"
         /\ run'[r].seen = run[r].seen
         /\ \A m \in Notes : run'[r].outcome[m] = IF m = n THEN o ELSE run[r].outcome[m]
<1>. DEFINE outcome == [run[r].outcome EXCEPT ![n] = o]
            local   == [run[r] EXCEPT !.at = "next", !.note = None, !.gen = 0, !.outcome = outcome]
<1>1. run[r] \in Run
  BY DEF TypeInv, TypeOK
<1>2. outcome \in [Notes -> Outcome \cup {None}]
      /\ \A m \in Notes : outcome[m] = IF m = n THEN o ELSE run[r].outcome[m]
  BY <1>1 DEF Run
<1>3. run' = [run EXCEPT ![r] = local]
  BY DEF Counted
<1>. HIDE DEF outcome
<1>4. local \in Run /\ local.at = "next" /\ local.seen = run[r].seen /\ local.outcome = outcome
  BY <1>1, <1>2 DEF Run
<1>. HIDE DEF local
<1>. QED
  BY <1>2, <1>3, <1>4 DEF TypeInv, TypeOK

\* What the transaction of a run does: it inserts the row unless it is there, and
\* retires rows of other texts that nobody decided.
LEMMA RecordEffect ==
  ASSUME TypeInv, NEW new \in Key, NEW p \in Payloads, Record(new, p)
  PROVE  /\ Stored' = Stored \cup {new}
         /\ rows' \in [Stored' -> Row]
         /\ new \notin Stored => Standing(new)'
         /\ \A k \in Stored :
              /\ rows'[k].decision = rows[k].decision
              /\ k # new /\ Obsolete(k, new.of) => rows'[k].by = new
              /\ ~(k # new /\ Obsolete(k, new.of)) => rows'[k] = rows[k]
<1>. DEFINE fresh == [payload  |-> p,
                      decision |-> IF WasRejected(new.of, p) THEN "rejected" ELSE "none",
                      by       |-> None]
<1>1. rows \in [Stored -> Row] /\ Stored \subseteq Key
  BY DEF TypeInv, TypeOK, Stored
<1>2. fresh \in Row /\ fresh.by = None
  BY DEF Row
<1>3. \A k \in Stored : /\ [rows[k] EXCEPT !.by = new] \in Row
                        /\ [rows[k] EXCEPT !.by = new].by = new
                        /\ [rows[k] EXCEPT !.by = new].decision = rows[k].decision
  BY <1>1 DEF Row
<1>4. rows' = [k \in Stored \cup {new} |->
                 IF k \notin Stored THEN fresh
                 ELSE IF k # new /\ Obsolete(k, new.of) THEN [rows[k] EXCEPT !.by = new]
                 ELSE rows[k]]
  BY DEF Record
<1>. HIDE DEF fresh
<1>5. Stored' = Stored \cup {new}
  BY <1>4 DEF Stored
<1>6. \A k \in Stored : rows'[k] = IF k # new /\ Obsolete(k, new.of)
                                     THEN [rows[k] EXCEPT !.by = new] ELSE rows[k]
  BY <1>4
<1>7. new \notin Stored => rows'[new] = fresh
  BY <1>4
<1>8. \A k \in Stored \cup {new} : rows'[k] \in Row
  BY <1>1, <1>2, <1>3, <1>6, <1>7
<1>9. rows' \in [Stored' -> Row]
  BY <1>4, <1>5, <1>8
<1>. QED
  BY <1>1, <1>2, <1>3, <1>5, <1>6, <1>7, <1>9 DEF Standing

\* What deciding a row changes: its decision.
LEMMA DecideEffect ==
  ASSUME TypeInv, NEW k \in Stored, NEW d \in {"accepted", "rejected"}, Decide(k, d)
  PROVE  /\ Stored' = Stored
         /\ rows' \in [Stored -> Row]
         /\ \A l \in Stored \ {k} : rows'[l] = rows[l]
         /\ rows'[k].by = rows[k].by /\ rows'[k].decision = d
<1>1. rows \in [Stored -> Row]
  BY DEF TypeInv, TypeOK, Stored
<1>2. /\ [rows[k] EXCEPT !.decision = d] \in Row
      /\ [rows[k] EXCEPT !.decision = d].by = rows[k].by
      /\ [rows[k] EXCEPT !.decision = d].decision = d
  BY <1>1 DEF Row
<1>3. rows' = [rows EXCEPT ![k] = [rows[k] EXCEPT !.decision = d]]
  BY DEF Decide
<1>. QED
  BY <1>1, <1>2, <1>3 DEF Stored

\* Every write to the table is a decision of a pending row or the record of a run.
LEMMA RowsStep ==
  ASSUME TypeInv, [Next]_vars
  PROVE  \/ UNCHANGED rows
         \/ \E k \in Stored, d \in {"accepted", "rejected"} : IsPending(k) /\ Decide(k, d)
         \/ \E r \in Runs, p \in Payloads : StoreTitle(r) /\ ~run[r].dry /\ Record(NewKey(r), p)
BY DEF Next, TitleRun, StartRun, Consider, LookUp, CountGeneration, NoTitle, StoreTitle, EndRun,
       Review, Accept, Reject, Dismiss, User, Edit, Reconfigure, vars

\* The initial state is well typed and no run has a note at hand.
LEMMA TypeInit ==
  ASSUME Init
  PROVE  TypeInv
<1>1. NoOne \in [Notes -> Text \cup {None}] /\ NoOne \in [Notes -> Outcome \cup {None}]
  BY DEF NoOne
<1>2. \A r \in Runs : run[r] \in Run /\ run[r].at = "idle"
  <2>. TAKE r \in Runs
  <2>1. PICK m \in Models : run[r] = [at |-> "idle", model |-> m, dry |-> FALSE, seen |-> NoOne,
                                     outcome |-> NoOne, note |-> None, gen |-> 0]
    BY DEF Init
  <2>. QED
    BY <1>1, <2>1 DEF Run
<1>3. run \in [Runs -> Run]
  BY <1>2 DEF Init
<1>4. DOMAIN rows = {} /\ rows \in [DOMAIN rows -> Row]
  BY DEF Init
<1>. QED
  BY <1>2, <1>3, <1>4, SuggestionsAssumption DEF Init, TypeInv, TypeOK, NoteAtHand, Busy

\* A step of a title run keeps its local variables well typed.
LEMMA RunStep ==
  ASSUME TypeInv, NEW r \in Runs, TitleRun(r)
  PROVE  run' \in [Runs -> Run] /\ NoteAtHand'
<1>. USE DEF TypeInv
<1>0. run \in [Runs -> Run] /\ run[r] \in Run
  BY DEF TypeOK
<1>1. ASSUME run' \in [Runs -> Run], \A s \in Runs \ {r} : run'[s] = run[s],
             run'[r].at \in Busy => run'[r].note \in Notes /\ run'[r].seen[run'[r].note] \in Text,
             run'[r].at = "answer" => run'[r].gen \in Generations
      PROVE  NoteAtHand'
  BY <1>1 DEF NoteAtHand
<1>2. ASSUME NEW n \in Notes, NEW o \in Outcome, Counted(r, n, o)
      PROVE  run' \in [Runs -> Run] /\ NoteAtHand'
  BY <1>1, <1>2, CountedEffect DEF Busy
<1>3. CASE StartRun(r)
  <2>1. PICK S \in SUBSET {n \in Notes : Candidate(n)}, dry \in BOOLEAN :
          run' = [run EXCEPT ![r] = [at |-> "next", model |-> model, dry |-> dry,
                                     seen |-> [n \in Notes |-> IF n \in S THEN text[n] ELSE None],
                                     outcome |-> NoOne, note |-> None, gen |-> 0]]
    BY <1>3 DEF StartRun
  <2>2. [n \in Notes |-> IF n \in S THEN text[n] ELSE None] \in [Notes -> Text \cup {None}]
        /\ NoOne \in [Notes -> Outcome \cup {None}]
    BY DEF TypeOK, NoOne
  <2>3. run' \in [Runs -> Run] /\ run'[r].at = "next" /\ \A s \in Runs \ {r} : run'[s] = run[s]
    BY <1>0, <2>1, <2>2 DEF TypeOK, Run
  <2>. QED
    BY <1>1, <2>3 DEF Busy
<1>4. CASE \E n \in Notes : Consider(r, n)
  <2>1. PICK n \in Notes : Consider(r, n)
    BY <1>4
  <2>2. CASE Counted(r, n, "opted_out") \/ Counted(r, n, "nothing")
    BY <1>2, <2>2 DEF Outcome
  <2>3. CASE run' = [run EXCEPT ![r] = [@ EXCEPT !.at = "lookup", !.note = n]]
    <3>1. [run[r] EXCEPT !.at = "lookup", !.note = n] \in Run
      BY <1>0 DEF Run
    <3>2. run[r].seen[n] \in Text
      BY <1>0, <2>1 DEF Consider, Run
    <3>3. /\ run' \in [Runs -> Run] /\ \A s \in Runs \ {r} : run'[s] = run[s]
          /\ run'[r].at = "lookup" /\ run'[r].note = n /\ run'[r].seen = run[r].seen
      BY <1>0, <2>3, <3>1 DEF Run
    <3>. QED
      BY <1>1, <3>2, <3>3
  <2>. QED
    BY <2>1, <2>2, <2>3 DEF Consider
<1>5. CASE LookUp(r)
  <2>1. run[r].note \in Notes /\ run[r].seen[run[r].note] \in Text
    BY <1>5 DEF LookUp, NoteAtHand, Busy
  <2>2. CASE Counted(r, AtHand(r), "already")
    BY <1>2, <2>1, <2>2 DEF AtHand, Outcome
  <2>3. CASE Proceed(r, "count")
    <3>1. /\ run' \in [Runs -> Run] /\ \A s \in Runs \ {r} : run'[s] = run[s]
          /\ run'[r].at = "count" /\ run'[r].note = run[r].note /\ run'[r].seen = run[r].seen
      BY <1>0, <2>3 DEF Proceed, Run
    <3>. QED
      BY <1>1, <2>1, <3>1
  <2>. QED
    BY <1>5, <2>2, <2>3 DEF LookUp
<1>6. CASE CountGeneration(r)
  <2>1. run[r].note \in Notes /\ run[r].seen[run[r].note] \in Text
    BY <1>6 DEF CountGeneration, NoteAtHand, Busy
  <2>2. PICK g \in Generations : run' = [run EXCEPT ![r] = [@ EXCEPT !.at = "answer", !.gen = g]]
    BY <1>6 DEF CountGeneration
  <2>3. /\ run' \in [Runs -> Run] /\ \A s \in Runs \ {r} : run'[s] = run[s]
        /\ run'[r].at = "answer" /\ run'[r].gen = g
        /\ run'[r].note = run[r].note /\ run'[r].seen = run[r].seen
    BY <1>0, <2>2 DEF Run
  <2>. QED
    BY <1>1, <2>1, <2>3
<1>7. CASE NoTitle(r) \/ StoreTitle(r)
  <2>1. AtHand(r) \in Notes
    BY <1>7 DEF NoTitle, StoreTitle, NoteAtHand, Busy, AtHand
  <2>2. \E o \in Outcome : Counted(r, AtHand(r), o)
    BY <1>7 DEF NoTitle, StoreTitle, Outcome
  <2>. QED
    BY <1>2, <2>1, <2>2
<1>8. CASE EndRun(r)
  <2>1. run' \in [Runs -> Run] /\ run'[r].at = "idle" /\ \A s \in Runs \ {r} : run'[s] = run[s]
    BY <1>0, <1>8 DEF EndRun, Run
  <2>. QED
    BY <1>1, <2>1 DEF Busy
<1>. QED
  BY <1>3, <1>4, <1>5, <1>6, <1>7, <1>8 DEF TitleRun

\* The type invariant is inductive.
LEMMA TypeStep ==
  ASSUME TypeInv, [Next]_vars
  PROVE  TypeInv'
<1>. USE DEF TypeInv
<1>1. Stored' \subseteq Key /\ rows' \in [Stored' -> Row]
  <2>1. CASE UNCHANGED rows
    BY <2>1 DEF TypeOK, Stored
  <2>2. CASE \E k \in Stored, d \in {"accepted", "rejected"} : IsPending(k) /\ Decide(k, d)
    BY <2>2, DecideEffect DEF TypeOK, Stored
  <2>3. CASE \E r \in Runs, p \in Payloads : StoreTitle(r) /\ ~run[r].dry /\ Record(NewKey(r), p)
    <3>1. PICK r \in Runs, p \in Payloads : StoreTitle(r) /\ Record(NewKey(r), p)
      BY <2>3
    <3>2. NewKey(r) \in Key
      BY <3>1, NewKeyType DEF StoreTitle
    <3>. QED
      BY <3>1, <3>2, RecordEffect DEF TypeOK, Stored
  <2>. QED
    BY <2>1, <2>2, <2>3, RowsStep
<1>2. run' \in [Runs -> Run] /\ NoteAtHand'
  <2>1. CASE \E r \in Runs : TitleRun(r)
    BY <2>1, RunStep
  <2>2. CASE UNCHANGED run
    BY <2>2 DEF TypeOK, NoteAtHand
  <2>. QED
    BY <2>1, <2>2 DEF Next, Review, Accept, Reject, Dismiss, User, Edit, Reconfigure, vars
<1>3. text' \in [Notes -> Text] /\ model' \in Models /\ optOuts' \in SUBSET Notes /\ edits' \in 0 .. MaxEdits
  <2>. USE SuggestionsAssumption DEF TypeOK
  <2>1. CASE \E r \in Runs : TitleRun(r)
    BY <2>1 DEF TitleRun, StartRun, Consider, LookUp, CountGeneration, NoTitle, StoreTitle, EndRun
  <2>2. CASE Review
    <3>1. \A k \in Stored : k.of.note \in Notes
      BY DEF Stored, Key, Identity
    <3>. QED
      BY <2>2, <3>1 DEF Review, Accept, Reject, Dismiss
  <2>3. CASE User
    BY <2>3 DEF User, Edit, Reconfigure
  <2>4. CASE UNCHANGED vars
    BY <2>4 DEF vars
  <2>. QED
    BY <2>1, <2>2, <2>3, <2>4 DEF Next
<1>. QED
  BY <1>1, <1>2, <1>3 DEF TypeOK, Stored

\* TypeOK, with what a run knows of the note at hand, holds in every behaviour.
THEOREM TypeInvariant == Spec => []TypeInv
<1>1. Init => TypeInv
  BY TypeInit
<1>2. TypeInv /\ [Next]_vars => TypeInv'
  BY TypeStep
<1>. QED
  BY <1>1, <1>2, PTL DEF Spec

\* The table, the opt-outs and the local variables of every run stay well typed.
THEOREM TypeCorrect == Spec => []TypeOK
<1>1. TypeInv => TypeOK
  BY DEF TypeInv
<1>. QED
  BY <1>1, TypeInvariant, PTL

-----------------------------------------------------------------------------
(* Any number of runs                                                      *)

\* A row that a run retires was pending, and another row replaces it.
LEMMA RetiredWasOpen ==
  ASSUME TypeInv, NEW new \in Key, NEW p \in Payloads, Record(new, p), NEW k \in Stored
  PROVE  /\ Standing(k)' <=> Standing(k) /\ ~(k # new /\ Obsolete(k, new.of))
         /\ Undecided(k)' <=> Undecided(k)
<1>1. new # None
  BY SuggestionsAssumption
<1>. QED
  BY <1>1, RecordEffect DEF Standing, Undecided, Obsolete

\* A decision leaves every row standing that stood, and opens none.
LEMMA DecidedStands ==
  ASSUME TypeInv, NEW k \in Stored, NEW d \in {"accepted", "rejected"}, Decide(k, d), NEW l \in Stored
  PROVE  /\ Standing(l)' <=> Standing(l)
         /\ Undecided(l)' => Undecided(l)
<1>1. CASE l = k
  BY <1>1, DecideEffect DEF Standing, Undecided
<1>2. CASE l # k
  BY <1>2, DecideEffect DEF Standing, Undecided
<1>. QED
  BY <1>1, <1>2

\* What is offered for a note stays about one text of it.
LEMMA OneTextStep ==
  ASSUME TypeInv, OneTextOffered, [Next]_vars
  PROVE  OneTextOffered'
<1>1. CASE UNCHANGED rows
  BY <1>1 DEF OneTextOffered, Stored, Undecided, Standing
<1>2. CASE \E k \in Stored, d \in {"accepted", "rejected"} : IsPending(k) /\ Decide(k, d)
  <2>1. PICK k \in Stored, d \in {"accepted", "rejected"} : Decide(k, d)
    BY <1>2
  <2>2. Stored' = Stored
    BY <2>1, DecideEffect
  <2>3. \A l \in Stored : (Standing(l)' => Standing(l)) /\ (Undecided(l)' => Undecided(l))
    BY <2>1, DecidedStands
  <2>. QED
    BY <2>2, <2>3 DEF OneTextOffered
<1>3. CASE \E r \in Runs, p \in Payloads : StoreTitle(r) /\ ~run[r].dry /\ Record(NewKey(r), p)
  <2>1. PICK new \in Key, p \in Payloads : Record(new, p)
    BY <1>3, NewKeyType DEF StoreTitle
  <2>2. Stored' = Stored \cup {new}
    BY <2>1, RecordEffect
  <2>. SUFFICES ASSUME NEW k \in Stored', NEW l \in Stored', k.of.note = l.of.note,
                       rows'[k].decision = "none", rows'[k].by = None,
                       rows'[l].decision = "none", rows'[l].by = None
                PROVE  k.of.text = l.of.text
    BY DEF OneTextOffered, Undecided, Standing
  <2>3. ASSUME NEW m \in Stored, rows'[m].decision = "none", rows'[m].by = None
        PROVE  /\ Undecided(m) /\ Standing(m)
               /\ m.of.note = new.of.note => m.of.text = new.of.text
    BY <2>1, <2>3, RetiredWasOpen DEF Obsolete, Undecided, Standing
  <2>. QED
    BY <2>2, <2>3 DEF OneTextOffered
<1>. QED
  BY <1>1, <1>2, <1>3, RowsStep

\* worker.py:198-201: whatever runs overlap, the queue never holds suggestions for
\* two texts of one note.
THEOREM OneTextIsOffered == Spec => []OneTextOffered
<1>1. Init => OneTextOffered
  BY DEF Init, OneTextOffered, Stored
<1>2. TypeInv /\ OneTextOffered /\ [Next]_vars => OneTextOffered'
  BY OneTextStep
<1>. QED
  BY <1>1, <1>2, TypeInvariant, PTL DEF Spec

\* A step changes only rows that were open, and decides none of an opted-out note.
LEMMA OpenRowsStep ==
  ASSUME TypeInv, [Next]_vars, NEW k \in Stored
  PROVE  /\ ~(Undecided(k) /\ Standing(k)) => k \in Stored' /\ rows'[k] = rows[k]
         /\ k.of.note \in optOuts => rows'[k].decision = rows[k].decision
<1>1. CASE UNCHANGED rows
  BY <1>1 DEF Stored
<1>2. CASE \E l \in Stored, d \in {"accepted", "rejected"} : IsPending(l) /\ Decide(l, d)
  BY <1>2, DecideEffect DEF IsPending
<1>3. CASE \E r \in Runs, p \in Payloads : StoreTitle(r) /\ ~run[r].dry /\ Record(NewKey(r), p)
  <2>1. PICK r \in Runs, p \in Payloads : StoreTitle(r) /\ Record(NewKey(r), p)
    BY <1>3
  <2>2. NewKey(r) \in Key
    BY <2>1, NewKeyType DEF StoreTitle
  <2>. QED
    BY <2>1, <2>2, RecordEffect DEF Obsolete
<1>. QED
  BY <1>1, <1>2, <1>3, RowsStep

\* docs/enrichment.md:119-121: no run and no click changes a row that was decided or
\* superseded.
THEOREM DecisionsAreFinal == Spec => DecisionsStand
<1>1. TypeInv /\ [Next]_vars =>
        [\A k \in Stored : ~(Undecided(k) /\ Standing(k)) => k \in Stored' /\ rows'[k] = rows[k]]_vars
  BY OpenRowsStep
<1>. QED
  BY <1>1, TypeInvariant, PTL DEF Spec, DecisionsStand

\* views.py:355-357: nothing of an opted-out note is decided any more.
THEOREM OptOutIsFinal == Spec => OptOutHolds
<1>1. TypeInv /\ [Next]_vars =>
        [\A k \in Stored : k.of.note \in optOuts => rows'[k].decision = rows[k].decision]_vars
  BY OpenRowsStep
<1>. QED
  BY <1>1, TypeInvariant, PTL DEF Spec, OptOutHolds

-----------------------------------------------------------------------------
(* One run at a time                                                       *)

Serial == \A r, s \in Runs : r = s

\* What the run found before it awaited a title still holds when it records one.
StillMissing ==
  \A r \in Runs :
    /\ run[r].at \in {"count", "answer"} => ~Active(IdentityOf(r))
    /\ run[r].at = "answer" => \A k \in Stored : k.of = IdentityOf(r) => k.gen < run[r].gen

TableInv == OneStanding /\ StillSuggested /\ RetiredByAnotherText

SerialInv == TypeInv /\ TableInv /\ CountedIsSuggested /\ StillMissing

\* The key a run on its own inserts is new, and no row of its identity stands.
LEMMA FreshKey ==
  ASSUME SerialInv, NEW r \in Runs, run[r].at = "answer"
  PROVE  /\ NewKey(r) \in Key /\ NewKey(r) \notin Stored
         /\ \A k \in Stored : rows[k].by = None => k.of # NewKey(r).of
<1>1. NewKey(r) \in Key /\ NewKey(r).of = IdentityOf(r) /\ NewKey(r).gen = run[r].gen
  BY NewKeyType DEF SerialInv, NewKey
<1>2. \A k \in Stored : k.of = IdentityOf(r) => k.gen < run[r].gen /\ rows[k].by # None
  BY DEF SerialInv, StillMissing, Active, Standing
<1>3. run[r].gen \in Int
  BY DEF SerialInv, TypeInv, NoteAtHand, Generations
<1>. QED
  BY <1>1, <1>2, <1>3

\* Recording under a new key, for an identity none of whose rows stands, keeps the
\* table consistent: what it retires it replaces.
LEMMA RecordKeepsTable ==
  ASSUME TypeInv, TableInv, NEW new \in Key, NEW p \in Payloads, Record(new, p), new \notin Stored,
         \A k \in Stored : rows[k].by = None => k.of # new.of
  PROVE  TableInv'
<1>0. new # None
  BY SuggestionsAssumption
<1>1. Stored' = Stored \cup {new} /\ rows'[new].by = None
  BY RecordEffect DEF Standing
<1>2. \A k \in Stored : \/ rows'[k].by = rows[k].by
                       \/ /\ rows'[k].by = new /\ rows[k].by = None
                          /\ k.of.note = new.of.note /\ k.of.text # new.of.text
  BY RecordEffect DEF Obsolete, Standing
<1>3. OneStanding'
  <2>. SUFFICES ASSUME NEW k \in Stored', NEW l \in Stored', k.of = l.of,
                       rows'[k].by = None, rows'[l].by = None
                PROVE  k = l
    BY DEF OneStanding, Standing
  <2>. QED
    BY <1>0, <1>1, <1>2 DEF TableInv, OneStanding, Standing
<1>4. StillSuggested'
  <2>. SUFFICES ASSUME NEW k \in Stored'
                PROVE  \E l \in Stored' : l.of.note = k.of.note /\ rows'[l].by = None
    BY DEF StillSuggested, Standing
  <2>1. CASE k = new
    BY <1>1, <2>1
  <2>2. CASE k \in Stored
    <3>1. PICK l \in Stored : l.of.note = k.of.note /\ rows[l].by = None
      BY <2>2 DEF TableInv, StillSuggested, Standing
    <3>. QED
      BY <1>1, <1>2, <3>1
  <2>. QED
    BY <1>1, <2>1, <2>2
<1>5. RetiredByAnotherText'
  <2>. SUFFICES ASSUME NEW k \in Stored', rows'[k].by # None
                PROVE  /\ rows'[k].by \in Stored'
                       /\ rows'[k].by.of.note = k.of.note /\ rows'[k].by.of.text # k.of.text
    BY DEF RetiredByAnotherText, Standing
  <2>. QED
    BY <1>1, <1>2 DEF TableInv, RetiredByAnotherText, Standing
<1>. QED
  BY <1>3, <1>4, <1>5 DEF TableInv

\* A decision keeps the rows that stand, and a step that leaves the table alone all of it.
LEMMA TableUntouched ==
  ASSUME TableInv, Stored' = Stored, \A k \in Stored : rows'[k].by = rows[k].by
  PROVE  TableInv'
<1>1. OneStanding'
  <2>. SUFFICES ASSUME NEW k \in Stored, NEW l \in Stored, k.of = l.of,
                       rows'[k].by = None, rows'[l].by = None
                PROVE  k = l
    BY DEF OneStanding, Standing
  <2>. QED
    BY DEF TableInv, OneStanding, Standing
<1>2. StillSuggested'
  <2>. SUFFICES ASSUME NEW k \in Stored
                PROVE  \E l \in Stored : l.of.note = k.of.note /\ rows'[l].by = None
    BY DEF StillSuggested, Standing
  <2>. QED
    BY DEF TableInv, StillSuggested, Standing
<1>3. RetiredByAnotherText'
  <2>. SUFFICES ASSUME NEW k \in Stored, rows'[k].by # None
                PROVE  /\ rows'[k].by \in Stored
                       /\ rows'[k].by.of.note = k.of.note /\ rows'[k].by.of.text # k.of.text
    BY DEF RetiredByAnotherText, Standing
  <2>. QED
    BY DEF TableInv, RetiredByAnotherText, Standing
<1>. QED
  BY <1>1, <1>2, <1>3 DEF TableInv

\* Where a run has counted nothing new, what it counted before is still suggested.
LEMMA CountedUntouched ==
  ASSUME CountedIsSuggested, Stored' = Stored, \A k \in Stored : rows'[k].by = rows[k].by,
         \A r \in Runs, n \in Notes :
           run'[r].outcome[n] \in {"already", "stored"} =>
             \/ run'[r].outcome[n] = run[r].outcome[n] /\ run'[r].seen = run[r].seen
             \/ \E k \in Stored : k.of.note = n /\ k.of.text = run'[r].seen[n] /\ rows[k].by = None
  PROVE  CountedIsSuggested'
<1>. SUFFICES ASSUME NEW r \in Runs, NEW n \in Notes, run'[r].outcome[n] \in {"already", "stored"}
              PROVE  \E k \in Stored : k.of.note = n /\ k.of.text = run'[r].seen[n] /\ rows'[k].by = None
  BY DEF CountedIsSuggested, Standing
<1>. QED
  BY DEF CountedIsSuggested, Standing

\* A run that counts or records the note at hand has nothing at hand after it.
LEMMA CountedIsDone ==
  ASSUME Serial, TypeInv, NEW r \in Runs, NEW n \in Notes, NEW o \in Outcome, Counted(r, n, o)
  PROVE  StillMissing'
<1>1. \A s \in Runs : s = r
  BY DEF Serial
<1>2. run'[r].at = "next"
  BY CountedEffect
<1>. QED
  BY <1>1, <1>2 DEF StillMissing

\* Any step of the only run that writes nothing to the table.
LEMMA RunWithoutWrite ==
  ASSUME Serial, SerialInv, TypeInv', NEW r \in Runs, TitleRun(r), UNCHANGED rows
  PROVE  CountedIsSuggested' /\ StillMissing'
<1>. USE DEF SerialInv
<1>0. (\A s \in Runs : s = r) /\ run[r] \in Run /\ run'[r] \in Run /\ run \in [Runs -> Run]
  BY DEF Serial, TypeInv, TypeOK
<1>1. Stored' = Stored /\ \A k \in Stored : rows'[k].by = rows[k].by
  BY DEF Stored
<1>2. ASSUME NEW n \in Notes, NEW o \in Outcome, Counted(r, n, o),
             o \in {"already", "stored"} =>
               \E k \in Stored : k.of.note = n /\ k.of.text = run[r].seen[n] /\ rows[k].by = None
      PROVE  CountedIsSuggested' /\ StillMissing'
  <2>1. \A m \in Notes :
          /\ run'[r].outcome[m] = IF m = n THEN o ELSE run[r].outcome[m]
          /\ run'[r].seen = run[r].seen
    BY <1>2, CountedEffect
  <2>. QED
    BY <1>0, <1>1, <1>2, <2>1, CountedUntouched, CountedIsDone
<1>3. ASSUME run'[r].outcome = run[r].outcome, run'[r].seen = run[r].seen
      PROVE  CountedIsSuggested'
  BY <1>0, <1>1, <1>3, CountedUntouched
<1>4. CASE StartRun(r)
  <2>1. run'[r].at = "next" /\ run'[r].outcome = NoOne
    BY <1>0, <1>4 DEF StartRun
  <2>2. \A n \in Notes : run'[r].outcome[n] \notin {"already", "stored"}
    BY <2>1, SuggestionsAssumption DEF NoOne, Outcome
  <2>. QED
    BY <1>0, <1>1, <2>1, <2>2, CountedUntouched DEF StillMissing
<1>5. CASE \E n \in Notes : Consider(r, n)
  <2>1. PICK n \in Notes : Consider(r, n)
    BY <1>5
  <2>2. CASE Counted(r, n, "opted_out") \/ Counted(r, n, "nothing")
    BY <1>2, <2>2 DEF Outcome
  <2>3. CASE run' = [run EXCEPT ![r] = [@ EXCEPT !.at = "lookup", !.note = n]]
    <3>1. run'[r].at = "lookup" /\ run'[r].outcome = run[r].outcome /\ run'[r].seen = run[r].seen
      BY <1>0, <2>3 DEF Run
    <3>. QED
      BY <1>0, <1>3, <3>1 DEF StillMissing
  <2>. QED
    BY <2>1, <2>2, <2>3 DEF Consider
<1>6. CASE LookUp(r)
  <2>1. AtHand(r) \in Notes
    BY <1>6 DEF LookUp, TypeInv, NoteAtHand, Busy, AtHand
  <2>2. CASE Active(IdentityOf(r)) /\ Counted(r, AtHand(r), "already")
    <3>1. \E k \in Stored : /\ k.of.note = AtHand(r) /\ k.of.text = run[r].seen[AtHand(r)]
                           /\ rows[k].by = None
      BY <2>2 DEF Active, IdentityOf, Standing
    <3>. QED
      BY <1>2, <2>1, <2>2, <3>1 DEF Outcome
  <2>3. CASE ~Active(IdentityOf(r)) /\ Proceed(r, "count")
    <3>1. run' = [run EXCEPT ![r] = [run[r] EXCEPT !.at = "count"]]
      BY <2>3 DEF Proceed
    <3>2. /\ run'[r].at = "count" /\ run'[r].outcome = run[r].outcome
          /\ run'[r].seen = run[r].seen /\ run'[r].note = run[r].note /\ run'[r].model = run[r].model
      BY <1>0, <3>1 DEF Run
    <3>3. IdentityOf(r)' = IdentityOf(r)
      BY <3>2 DEF IdentityOf, AtHand, FromSlug
    <3>4. ~Active(IdentityOf(r))'
      BY <1>1, <2>3, <3>3 DEF Active, Standing
    <3>. QED
      BY <1>0, <1>3, <3>2, <3>4 DEF StillMissing
  <2>. QED
    BY <1>6, <2>2, <2>3 DEF LookUp
<1>7. CASE CountGeneration(r)
  <2>1. PICK g \in Generations :
          /\ IsNextGeneration(IdentityOf(r), g)
          /\ run' = [run EXCEPT ![r] = [run[r] EXCEPT !.at = "answer", !.gen = g]]
    BY <1>7 DEF CountGeneration
  <2>2. /\ run'[r].at = "answer" /\ run'[r].gen = g /\ run'[r].outcome = run[r].outcome
        /\ run'[r].seen = run[r].seen /\ run'[r].note = run[r].note /\ run'[r].model = run[r].model
    BY <1>0, <2>1 DEF Run
  <2>3. IdentityOf(r)' = IdentityOf(r)
    BY <2>2 DEF IdentityOf, AtHand, FromSlug
  <2>4. ~Active(IdentityOf(r))'
    <3>1. ~Active(IdentityOf(r))
      BY <1>7 DEF CountGeneration, StillMissing
    <3>. QED
      BY <1>1, <2>3, <3>1 DEF Active, Standing
  <2>5. \A k \in Stored' : k.of = IdentityOf(r)' => k.gen < run'[r].gen
    BY <1>1, <2>1, <2>2, <2>3 DEF IsNextGeneration
  <2>. QED
    BY <1>0, <1>3, <2>2, <2>4, <2>5 DEF StillMissing
<1>8. CASE NoTitle(r)
  <2>1. AtHand(r) \in Notes
    BY <1>8 DEF NoTitle, TypeInv, NoteAtHand, Busy, AtHand
  <2>2. PICK o \in {"failed", "rejected"} : Counted(r, AtHand(r), o)
    BY <1>8 DEF NoTitle
  <2>. QED
    BY <1>2, <2>1, <2>2 DEF Outcome
<1>9. CASE StoreTitle(r)
  <2>1. run[r].at = "answer" /\ AtHand(r) \in Notes
    BY <1>9 DEF StoreTitle, TypeInv, NoteAtHand, Busy, AtHand
  <2>2. CASE run[r].dry
    BY <1>2, <1>9, <2>1, <2>2 DEF StoreTitle, Outcome
  <2>3. CASE ~run[r].dry
    <3>1. PICK p \in Payloads : Record(NewKey(r), p)
      BY <1>9, <2>3 DEF StoreTitle
    <3>2. NewKey(r) \in Stored' /\ NewKey(r) \notin Stored
      BY <2>1, <3>1, FreshKey, RecordEffect
    <3>. QED
      BY <1>1, <3>2
  <2>. QED
    BY <2>2, <2>3
<1>10. CASE EndRun(r)
  <2>1. run'[r].at = "idle" /\ run'[r].outcome = run[r].outcome /\ run'[r].seen = run[r].seen
    BY <1>0, <1>10 DEF EndRun, Run
  <2>. QED
    BY <1>0, <1>3, <2>1 DEF StillMissing
<1>. QED
  BY <1>4, <1>5, <1>6, <1>7, <1>8, <1>9, <1>10 DEF TitleRun

\* The record of the only run.
LEMMA RunWithWrite ==
  ASSUME Serial, SerialInv, NEW r \in Runs, NEW p \in Payloads,
         StoreTitle(r), ~run[r].dry, Record(NewKey(r), p)
  PROVE  TableInv' /\ CountedIsSuggested' /\ StillMissing'
<1>. USE DEF SerialInv
<1>1. run[r].at = "answer" /\ AtHand(r) \in Notes /\ Counted(r, AtHand(r), "stored")
  BY DEF StoreTitle, TypeInv, NoteAtHand, Busy, AtHand
<1>2. PICK new \in Key : /\ new = NewKey(r) /\ Record(new, p) /\ new \notin Stored
                         /\ \A k \in Stored : rows[k].by = None => k.of # new.of
  BY <1>1, FreshKey
<1>3. new.of.note = AtHand(r) /\ new.of.text = run[r].seen[AtHand(r)]
  BY <1>2 DEF NewKey, IdentityOf
<1>4. TableInv'
  BY <1>2, RecordKeepsTable
<1>5. StillMissing'
  BY <1>1, CountedIsDone DEF Outcome
<1>6. CountedIsSuggested'
  <2>1. Stored' = Stored \cup {new} /\ rows'[new].by = None
    BY <1>2, RecordEffect DEF Standing
  <2>2. \A k \in Stored : k.of.note # new.of.note => rows'[k] = rows[k]
    BY <1>2, RecordEffect DEF Obsolete
  <2>. SUFFICES ASSUME NEW s \in Runs, NEW n \in Notes, run'[s].outcome[n] \in {"already", "stored"}
                PROVE  \E k \in Stored' : k.of.note = n /\ k.of.text = run'[s].seen[n] /\ rows'[k].by = None
    BY DEF CountedIsSuggested, Standing
  <2>3. s = r /\ run'[s].seen = run[s].seen
        /\ (n # AtHand(r) => run'[s].outcome[n] = run[s].outcome[n])
    BY <1>1, CountedEffect DEF Serial, Outcome
  <2>4. CASE n = AtHand(r)
    BY <1>3, <2>1, <2>3, <2>4
  <2>5. CASE n # AtHand(r)
    <3>1. PICK k \in Stored : k.of.note = n /\ k.of.text = run[s].seen[n] /\ rows[k].by = None
      BY <2>3, <2>5 DEF CountedIsSuggested, Standing
    <3>. QED
      BY <1>3, <2>1, <2>2, <2>3, <2>5, <3>1
  <2>. QED
    BY <2>4, <2>5
<1>. QED
  BY <1>4, <1>5, <1>6

\* Review, the user and stuttering leave the run and the rows that stand alone.
LEMMA OthersKeepSerial ==
  ASSUME SerialInv, UNCHANGED run, Stored' = Stored, \A k \in Stored : rows'[k].by = rows[k].by
  PROVE  TableInv' /\ CountedIsSuggested' /\ StillMissing'
<1>1. CountedIsSuggested'
  BY CountedUntouched DEF SerialInv
<1>2. StillMissing'
  <2>1. \A r \in Runs : IdentityOf(r)' = IdentityOf(r)
    BY DEF IdentityOf, AtHand, FromSlug
  <2>2. \A r \in Runs : ~Active(IdentityOf(r)) => ~Active(IdentityOf(r))'
    BY <2>1 DEF Active, Standing
  <2>. QED
    BY <2>1, <2>2 DEF SerialInv, StillMissing
<1>. QED
  BY <1>1, <1>2, TableUntouched DEF SerialInv

\* Every step keeps it, as long as runs do not overlap.
LEMMA SerialStep ==
  ASSUME Serial, SerialInv, [Next]_vars
  PROVE  SerialInv'
<1>1. TypeInv'
  BY TypeStep DEF SerialInv
<1>2. CASE \E r \in Runs : TitleRun(r)
  <2>1. PICK r \in Runs : TitleRun(r)
    BY <1>2
  <2>2. CASE UNCHANGED rows
    <3>1. TableInv'
      BY <2>2, TableUntouched DEF SerialInv, Stored
    <3>. QED
      BY <1>1, <2>1, <2>2, <3>1, RunWithoutWrite DEF SerialInv
  <2>3. CASE rows' # rows
    <3>1. \E p \in Payloads : StoreTitle(r) /\ ~run[r].dry /\ Record(NewKey(r), p)
      BY <2>1, <2>3 DEF TitleRun, StartRun, Consider, LookUp, CountGeneration, NoTitle, StoreTitle, EndRun
    <3>. QED
      BY <1>1, <3>1, RunWithWrite DEF SerialInv
  <2>. QED
    BY <2>2, <2>3
<1>3. CASE Review
  <2>1. UNCHANGED run /\ \E k \in Stored, d \in {"accepted", "rejected"} : Decide(k, d)
    BY <1>3 DEF Review, Accept, Reject, Dismiss
  <2>2. Stored' = Stored /\ \A k \in Stored : rows'[k].by = rows[k].by
    BY <2>1, DecideEffect DEF SerialInv
  <2>. QED
    BY <1>1, <2>1, <2>2, OthersKeepSerial DEF SerialInv
<1>4. CASE User \/ UNCHANGED vars
  <2>1. UNCHANGED <<run, rows>>
    BY <1>4 DEF User, Edit, Reconfigure, vars
  <2>. QED
    BY <1>1, <2>1, OthersKeepSerial DEF SerialInv, Stored
<1>. QED
  BY <1>2, <1>3, <1>4 DEF Next

\* With one run at a time every replacement holds: of an identity one row stands, a
\* retired row is about another text of its note, a note that had a suggestion keeps
\* one, and what a run counted as suggested is.
THEOREM SerialCorrect ==
  Serial => (Spec => [](OneStanding /\ StillSuggested /\ RetiredByAnotherText /\ CountedIsSuggested))
<1>. SUFFICES ASSUME Serial
              PROVE  Spec => [](OneStanding /\ StillSuggested /\ RetiredByAnotherText /\ CountedIsSuggested)
  OBVIOUS
<1>1. Init => SerialInv
  <2>. SUFFICES ASSUME Init PROVE SerialInv
    OBVIOUS
  <2>1. \A r \in Runs : run[r].at = "idle" /\ run[r].outcome = NoOne
    BY DEF Init
  <2>2. StillMissing
    BY <2>1 DEF StillMissing
  <2>3. CountedIsSuggested
    BY <2>1, SuggestionsAssumption DEF CountedIsSuggested, NoOne, Outcome
  <2>4. TableInv
    BY DEF Init, TableInv, OneStanding, StillSuggested, RetiredByAnotherText, Stored
  <2>. QED
    BY <2>2, <2>3, <2>4, TypeInit DEF SerialInv
<1>2. SerialInv /\ [Next]_vars => SerialInv'
  BY SerialStep
<1>3. SerialInv => OneStanding /\ StillSuggested /\ RetiredByAnotherText /\ CountedIsSuggested
  BY DEF SerialInv, TableInv
<1>. QED
  BY <1>1, <1>2, <1>3, PTL DEF Spec

\* repository.py:11-13: of the generations of an identity at most one stands, so
\* review never shows two, when title runs do not overlap.
THEOREM SerialOneStanding == Serial => (Spec => []OneStanding)
<1>. SUFFICES ASSUME Serial PROVE Spec => []OneStanding
  OBVIOUS
<1>1. Spec => [](OneStanding /\ StillSuggested /\ RetiredByAnotherText /\ CountedIsSuggested)
  BY SerialCorrect
<1>. QED
  BY <1>1, PTL

\* repository.py:225-230: only a suggestion about another text of the note is ever
\* retired, so a second model's pass over the same text survives, when title runs do
\* not overlap.
THEOREM SerialRetirements == Serial => (Spec => []RetiredByAnotherText)
<1>. SUFFICES ASSUME Serial PROVE Spec => []RetiredByAnotherText
  OBVIOUS
<1>1. Spec => [](OneStanding /\ StillSuggested /\ RetiredByAnotherText /\ CountedIsSuggested)
  BY SerialCorrect
<1>. QED
  BY <1>1, PTL

\* repository.py:199-204: what a run counts as stored or already suggested does stand,
\* when title runs do not overlap.
THEOREM SerialCountsAreTrue == Serial => (Spec => []CountedIsSuggested)
<1>. SUFFICES ASSUME Serial PROVE Spec => []CountedIsSuggested
  OBVIOUS
<1>1. Spec => [](OneStanding /\ StillSuggested /\ RetiredByAnotherText /\ CountedIsSuggested)
  BY SerialCorrect
<1>. QED
  BY <1>1, PTL

=============================================================================
