---------------------------- MODULE Suggestions ----------------------------
(***************************************************************************)
(* The suggestion store (enrichment/repository.py), the title run that     *)
(* fills it (enrichment/worker.py, started by "pkm-sidecar enrich titles") *)
(* and the review that decides it (views.py).                              *)
(*                                                                         *)
(* A run lists its candidates once and then takes them one by one: it      *)
(* checks the opt-out, looks for a suggestion that still stands, counts    *)
(* generations, awaits a title, and records it in one transaction.  Runs   *)
(* and the review are different processes on one database in autocommit,   *)
(* so between any two of those statements another process may write, and   *)
(* the user may edit the note.                                             *)
(*                                                                         *)
(* sha256 is taken to be injective: the input hash of a suggestion is the  *)
(* note's text (body and title) and the model, with its prompt version.    *)
(* Only kind "title" exists in the code; nothing calls supersede,          *)
(* mark_stale_for_corpus, stale_suggestions or clear_opt_out.              *)
(***************************************************************************)
EXTENDS Integers, FiniteSets

CONSTANTS
  Notes, Bodies, Titles,
  Fine,          (* texts no rule of classify_title flags; a deleted note is fine *)
  Sluggable,     (* texts whose URL gives the title                        *)
  Generatable,   (* texts with enough prose for a model                    *)
  Models,        (* configured model and prompt version                    *)
  Slug,          (* recorded as the model of a title taken from a URL      *)
  Payloads,      (* proposed titles                                        *)
  Runs,          (* processes that may run "enrich titles" at once         *)
  None,
  MaxGenerations, (* bound: generations of an identity                     *)
  MaxEdits       (* bound: edits of notes and changes of the model         *)

Text == [body : Bodies, title : Titles]

Generations == 1 .. MaxGenerations
Identity == [note : Notes, text : Text, model : Models \cup {Slug}]

\* UNIQUE(note_id, kind, input_hash, generation)
Key == [of : Identity, gen : Generations]

Row == [payload  : Payloads,
        decision : {"none", "accepted", "rejected"},
        by       : Key \cup {None}]                   (* superseded_by *)

\* The counter of TitleRunResult a candidate is added to.
Outcome == {"opted_out", "nothing", "already", "failed", "rejected", "stored", "dry"}

ASSUME SuggestionsAssumption ==
  /\ Fine \subseteq Text /\ Sluggable \subseteq Text /\ Generatable \subseteq Text
  /\ Slug \notin Models
  /\ None \notin Notes \cup Text \cup Key \cup Outcome
  /\ MaxGenerations \in Nat /\ MaxEdits \in Nat

VARIABLES
  text,     (* what the index holds of each note                           *)
  model,    (* enrichment.title_model                                      *)
  rows,     (* the suggestions table: a function on the keys it holds      *)
  optOuts,  (* the opt_outs table                                          *)
  run,      (* the local variables of each run                             *)
  edits     (* what is left of the bound                                   *)

vars == <<text, model, rows, optOuts, run, edits>>

\* at: idle, or the next statement for the note at hand.
Run == [at      : {"idle", "next", "lookup", "count", "answer"},
        model   : Models,
        dry     : BOOLEAN,
        seen    : [Notes -> Text \cup {None}],   (* the candidates, as listed *)
        outcome : [Notes -> Outcome \cup {None}],
        note    : Notes \cup {None},
        gen     : Generations \cup {0}]

NoOne == [n \in Notes |-> None]

TypeOK ==
  /\ text \in [Notes -> Text]
  /\ model \in Models
  /\ DOMAIN rows \subseteq Key /\ rows \in [DOMAIN rows -> Row]
  /\ optOuts \in SUBSET Notes
  /\ run \in [Runs -> Run]
  /\ edits \in 0 .. MaxEdits

Init ==
  /\ text \in [Notes -> Text]
  /\ model \in Models
  /\ rows = << >>
  /\ optOuts = {}
  /\ run \in [Runs -> {[at |-> "idle", model |-> m, dry |-> FALSE, seen |-> NoOne,
                        outcome |-> NoOne, note |-> None, gen |-> 0] : m \in Models}]
  /\ edits = 0

-----------------------------------------------------------------------------
(* SuggestionRepository                                                    *)

Stored == DOMAIN rows
Standing(k) == rows[k].by = None
Undecided(k) == rows[k].decision = "none"

\* Mutant: any row of the identity counts as already done.
Active_MereExistence(i) == \E k \in Stored : k.of = i

\* Mutant: a decided row does not count as done.
Active_OnlyUndecided(i) == \E k \in Stored : k.of = i /\ Standing(k) /\ Undecided(k)

\* active_for_identity
Active(i) == \E k \in Stored : k.of = i /\ Standing(k)

\* Mutant: every suggestion is a first generation.
IsNextGeneration_AlwaysFirst(i, g) == g = 1

\* next_generation: one more than the largest.
IsNextGeneration(i, g) ==
  /\ \A k \in Stored : k.of = i => k.gen < g
  /\ g > 1 => \E k \in Stored : k.of = i /\ k.gen = g - 1

\* was_payload_rejected
WasRejected(i, p) ==
  \E k \in Stored : k.of = i /\ rows[k].decision = "rejected" /\ rows[k].payload = p

\* Mutant: decided rows are retired too.
Obsolete_Decided(k, i) ==
  k.of.note = i.note /\ Standing(k) /\ k.of.text # i.text

\* Mutant: everything the new row's hash does not cover.
Obsolete_OtherHash(k, i) ==
  k.of.note = i.note /\ Standing(k) /\ Undecided(k) /\ k.of # i

\* The rows supersede_obsolete retires for a replacement of identity i.
Obsolete(k, i) ==
  k.of.note = i.note /\ Standing(k) /\ Undecided(k) /\ k.of.text # i.text

\* record, then supersede_obsolete: a key that is there already is returned as it
\* is, and retires the others all the same.
Record(new, p) ==
  rows' = [k \in Stored \cup {new} |->
             IF k \notin Stored
               THEN [payload  |-> p,
                     decision |-> IF WasRejected(new.of, p) THEN "rejected" ELSE "none",
                     by       |-> None]
             ELSE IF k # new /\ Obsolete(k, new.of)
               THEN [rows[k] EXCEPT !.by = new]
             ELSE rows[k]]

\* _PENDING_WHERE
Pending == {k \in Stored : Undecided(k) /\ Standing(k) /\ k.of.note \notin optOuts}

-----------------------------------------------------------------------------
(* A title run                                                             *)

Candidate(n) == text[n] \notin Fine

\* find_candidates: all of them, or with --limit the first few.
StartRun(r) ==
  /\ run[r].at = "idle"
  /\ \E S \in SUBSET {n \in Notes : Candidate(n)}, dry \in BOOLEAN :
       run' = [run EXCEPT ![r] = [at |-> "next", model |-> model, dry |-> dry,
                                  seen |-> [n \in Notes |-> IF n \in S THEN text[n] ELSE None],
                                  outcome |-> NoOne, note |-> None, gen |-> 0]]
  /\ UNCHANGED <<text, model, rows, optOuts, edits>>

AtHand(r) == run[r].note
FromSlug(r) == run[r].seen[AtHand(r)] \in Sluggable
IdentityOf(r) == [note  |-> AtHand(r),
                  text  |-> run[r].seen[AtHand(r)],
                  model |-> IF FromSlug(r) THEN Slug ELSE run[r].model]

Counted(r, n, outcome) ==
  run' = [run EXCEPT ![r] = [@ EXCEPT !.at = "next", !.note = None, !.gen = 0,
                                      !.outcome[n] = outcome]]

Proceed(r, at) == run' = [run EXCEPT ![r].at = at]

\* is_opted_out, then propose_title and the check for prose.
Consider(r, n) ==
  LET seen == run[r].seen[n]
  IN  /\ run[r].at = "next"
      /\ seen # None /\ run[r].outcome[n] = None
      /\ \/ n \in optOuts /\ Counted(r, n, "opted_out")
         \/ /\ n \notin optOuts
            /\ seen \notin Sluggable \cup Generatable
            /\ Counted(r, n, "nothing")
         \/ /\ n \notin optOuts
            /\ seen \in Sluggable \cup Generatable
            /\ run' = [run EXCEPT ![r] = [@ EXCEPT !.at = "lookup", !.note = n]]
      /\ UNCHANGED <<text, model, rows, optOuts, edits>>

LookUp(r) ==
  /\ run[r].at = "lookup"
  /\ IF Active(IdentityOf(r))
       THEN Counted(r, AtHand(r), "already")
       ELSE Proceed(r, "count")
  /\ UNCHANGED <<text, model, rows, optOuts, edits>>

CountGeneration(r) ==
  /\ run[r].at = "count"
  /\ \E g \in Generations :
       /\ IsNextGeneration(IdentityOf(r), g)
       /\ run' = [run EXCEPT ![r] = [@ EXCEPT !.at = "answer", !.gen = g]]
  /\ UNCHANGED <<text, model, rows, optOuts, edits>>

\* The model fails, runs out of budget, or clean_title refuses its answer.
NoTitle(r) ==
  /\ run[r].at = "answer" /\ ~FromSlug(r)
  /\ \E outcome \in {"failed", "rejected"} : Counted(r, AtHand(r), outcome)
  /\ UNCHANGED <<text, model, rows, optOuts, edits>>

NewKey(r) == [of |-> IdentityOf(r), gen |-> run[r].gen]

\* Mutant: the previous suggestions are not retired.
StoreTitle_KeepsObsolete(r) ==
  /\ run[r].at = "answer"
  /\ IF run[r].dry
       THEN Counted(r, AtHand(r), "dry") /\ UNCHANGED rows
       ELSE /\ Counted(r, AtHand(r), "stored")
            /\ \E p \in Payloads :
                 rows' = [k \in Stored \cup {NewKey(r)} |->
                            IF k \in Stored THEN rows[k]
                            ELSE [payload |-> p, decision |-> "none", by |-> None]]
  /\ UNCHANGED <<text, model, optOuts, edits>>

StoreTitle(r) ==
  /\ run[r].at = "answer"
  /\ IF run[r].dry
       THEN Counted(r, AtHand(r), "dry") /\ UNCHANGED rows
       ELSE /\ Counted(r, AtHand(r), "stored")
            /\ \E p \in Payloads : Record(NewKey(r), p)
  /\ UNCHANGED <<text, model, optOuts, edits>>

\* The last candidate has been counted, or the process is killed.
EndRun(r) ==
  /\ run[r].at # "idle"
  /\ run' = [run EXCEPT ![r] = [@ EXCEPT !.at = "idle", !.note = None, !.gen = 0]]
  /\ UNCHANGED <<text, model, rows, optOuts, edits>>

-----------------------------------------------------------------------------
(* The review                                                              *)

\* Mutant: a guard looser than the query that fills the queue.
IsPending_IgnoresOptOut(k) == Undecided(k) /\ Standing(k)

\* is_pending, in the transaction that decides; otherwise 409.
IsPending(k) == Undecided(k) /\ Standing(k) /\ k.of.note \notin optOuts

Decide(k, decision) == rows' = [rows EXCEPT ![k].decision = decision]

Accept(k) ==
  /\ k \in Stored /\ IsPending(k)
  /\ Decide(k, "accepted")
  /\ UNCHANGED <<text, model, optOuts, run, edits>>

Reject(k) ==
  /\ k \in Stored /\ IsPending(k)
  /\ Decide(k, "rejected")
  /\ UNCHANGED <<text, model, optOuts, run, edits>>

Dismiss(k) ==
  /\ k \in Stored /\ IsPending(k)
  /\ Decide(k, "rejected")
  /\ optOuts' = optOuts \cup {k.of.note}
  /\ UNCHANGED <<text, model, run, edits>>

-----------------------------------------------------------------------------
(* What the user does elsewhere                                            *)

Edit(n) ==
  /\ edits < MaxEdits /\ edits' = edits + 1
  /\ \E t \in Text \ {text[n]} : text' = [text EXCEPT ![n] = t]
  /\ UNCHANGED <<model, rows, optOuts, run>>

Reconfigure ==
  /\ edits < MaxEdits /\ edits' = edits + 1
  /\ \E m \in Models \ {model} : model' = m
  /\ UNCHANGED <<text, rows, optOuts, run>>

-----------------------------------------------------------------------------

TitleRun(r) ==
  \/ StartRun(r) \/ \E n \in Notes : Consider(r, n)
  \/ LookUp(r) \/ CountGeneration(r) \/ NoTitle(r) \/ StoreTitle(r) \/ EndRun(r)

Review == \E k \in Stored : Accept(k) \/ Reject(k) \/ Dismiss(k)

User == (\E n \in Notes : Edit(n)) \/ Reconfigure

Next == (\E r \in Runs : TitleRun(r)) \/ Review \/ User

Spec == Init /\ [][Next]_vars

-----------------------------------------------------------------------------
(* Properties                                                              *)

\* docs/enrichment.md:119-121: accept and reject decisions are not regenerable.  No
\* run, however it overlaps the review or another run, and no second click changes,
\* hides or removes a row that was decided, or one that was superseded.
DecisionsStand ==
  [][\A k \in Stored : ~(Undecided(k) /\ Standing(k)) => k \in Stored' /\ rows'[k] = rows[k]]_vars

\* views.py:355-357: after a dismissal nothing of that note is decided any more, on
\* whatever second suggestion, click or late answer of a run.
OptOutHolds ==
  [][\A k \in Stored : k.of.note \in optOuts => rows'[k].decision = rows[k].decision]_vars

\* worker.py:198-201: what is offered for a note is about one state of it.  A run
\* that answers late, another that overtakes it and edits in between never leave
\* the queue with suggestions for two different texts of one note.
OneTextOffered ==
  \A k, l \in Stored :
    /\ Undecided(k) /\ Standing(k) /\ Undecided(l) /\ Standing(l)
    /\ k.of.note = l.of.note
    => k.of.text = l.of.text

\* repository.py:11-13: of the generations of an identity at most one stands, so
\* review never shows two.
OneStanding ==
  \A k, l \in Stored : k.of = l.of /\ Standing(k) /\ Standing(l) => k = l

\* A replaced row leads to one that stands: superseding never leaves a note that had
\* a suggestion without any.
StillSuggested ==
  \A k \in Stored : \E l \in Stored : l.of.note = k.of.note /\ Standing(l)

\* repository.py:225-230: a retired row was about another text of the same note, so a
\* second model's pass over the same text survives.
RetiredByAnotherText ==
  \A k \in Stored : ~Standing(k) =>
    /\ rows[k].by \in Stored
    /\ rows[k].by.of.note = k.of.note /\ rows[k].by.of.text # k.of.text

\* repository.py:199-204: what a run counts as stored or already suggested stands, or
\* was decided, until a later run: a body edited and then reverted is never
\* "silently unsuggested".
CountedIsSuggested ==
  \A r \in Runs, n \in Notes :
    run[r].outcome[n] \in {"already", "stored"} =>
      \E k \in Stored : k.of.note = n /\ k.of.text = run[r].seen[n] /\ Standing(k)
=============================================================================
