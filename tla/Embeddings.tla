----------------------------- MODULE Embeddings -----------------------------
(***************************************************************************)
(* enrichment/embeddings.py over the note_embeddings table: the backfill   *)
(* that keeps a vector per note and model, and the retrieval that lets the *)
(* tags of a note's nearest tagged neighbours vote.                        *)
(*                                                                         *)
(* The function has no caller outside the tests yet, so nothing says how   *)
(* many runs there can be at once.  Here any number overlap, each reading  *)
(* the notes in the snapshot its SELECT took; `alone` remembers whether    *)
(* another run used the same model meanwhile.  Notes are edited and        *)
(* deleted at any time.                                                    *)
(***************************************************************************)
EXTENDS Integers, FiniteSets, FiniteSetsExt

CONSTANTS
  Notes,
  Titles, Bodies,
  Cut,          (* what fits into EMBED_CHARS: a function of the body      *)
  First,        (* the title and body of each note at the start            *)
  FirstSaved,   (* its updated_time: before the first edit                 *)
  Models,       (* values enrichment.embedding_model can take              *)
  Runs,         (* bound: backfills under way at once                      *)
  BatchSize,    (* BATCH_SIZE                                              *)
  Limits,       (* values of limit; NoLimit is None                        *)
  NoLimit,
  NoNote,       (* the note is deleted                                     *)
  NoVector,     (* no row in note_embeddings                               *)
  Tags, TagsOf, (* the tags and those of each note, as indexed             *)
  Similarity,   (* cosine of the vectors of two texts                      *)
  K,            (* k of nearest_tagged                                     *)
  TagLimit,     (* limit of score_tags                                     *)
  MaxEdits,     (* bound: edits and deletions                              *)
  MaxStarts     (* bound: backfills started                                *)

Content == [title : Titles, body : Bodies]

EmbeddingText(c) == <<c.title, Cut[c.body]>>
Texts == {EmbeddingText(c) : c \in Content}

VARIABLES
  notes,        (* notes table: title and body, or deleted                 *)
  saved,        (* updated_time of each note                               *)
  cache,        (* note_embeddings, by note and model                      *)
  run,          (* the local variables of each backfill                    *)
  paid,         (* history: the text of the last vector a model made, or   *)
                (* NoVector                                                *)
  edits, starts

vars == <<notes, saved, cache, run, paid, edits, starts>>

\* Mutant: the identity covers the body alone, as it did before schema version 2.
InputHash_BodyOnly(text) == <<text[2]>>

\* sha256, taken to have no collisions.
InputHash(text) == text

Hashes == {InputHash(t) : t \in Texts}
Vector == [of : Texts, model : Models]

ASSUME EmbeddingsAssumption ==
  /\ IsFiniteSet(Notes)
  /\ First \in [Notes -> Content \cup {NoNote}]
  /\ FirstSaved \in [Notes -> {i \in Int : i <= 0}]
  /\ NoNote \notin Content \cup Texts
  /\ BatchSize \in Nat \ {0}
  /\ IsFiniteSet(Tags)
  /\ Similarity \in [Texts -> [Texts -> Int]]
  /\ TagLimit \in Nat
  /\ LET Sent == Texts \cup {NoNote}
     IN  NoVector \notin Sent \cup [hash : Sent, vector : [of : Sent, model : Models]]

Idle == [at |-> "idle"]

Run == [at : {"scanning", "embedding", "done"},
        model : Models, limit : Limits \cup {NoLimit},
        snapshot : [Notes -> Texts \cup {NoNote}], order : [Notes -> Int],
        rows : SUBSET Notes, pending : SUBSET Notes,
        considered : Nat, cached : Nat, embedded : Nat, failed : Nat,
        alone : BOOLEAN]

TypeOK ==
  /\ notes \in [Notes -> Content \cup {NoNote}]
  /\ saved \in [Notes -> Int]
  /\ cache \in [Notes \X Models -> [hash : Hashes, vector : Vector] \cup {NoVector}]
  /\ paid \in [Notes \X Models -> Texts \cup {NoVector}]
  /\ edits \in Nat /\ starts \in Nat
  /\ run \in [Runs -> Run \cup {Idle}]
  /\ \A r \in Runs :
       /\ run[r] # Idle =>
            /\ Cardinality(run[r].pending) <= BatchSize
            /\ run[r].pending \cap run[r].rows = {}
            /\ run[r].at = "done" => run[r].pending = {}

Live == {n \in Notes : notes[n] # NoNote}
TextOf(n) == IF n \in Live THEN EmbeddingText(notes[n]) ELSE NoNote

Active(r) == run[r].at \in {"scanning", "embedding"}

Init ==
  /\ notes = First
  /\ saved = FirstSaved
  /\ cache = [k \in Notes \X Models |-> NoVector]
  /\ run = [r \in Runs |-> Idle]
  /\ paid = [k \in Notes \X Models |-> NoVector]
  /\ edits = 0 /\ starts = 0

-----------------------------------------------------------------------------
(* The table                                                               *)

\* Mutant: one row per note, whatever the model.
Put_ByNote(c, S, m, rows) == [k \in DOMAIN c |->
  IF k[1] \notin S THEN c[k] ELSE IF k[2] = m THEN rows[k[1]] ELSE NoVector]

\* put_embedding for each note of a batch: the row of this note and model is replaced.
Put(c, S, m, rows) == [k \in DOMAIN c |->
  IF k[1] \in S /\ k[2] = m THEN rows[k[1]] ELSE c[k]]

\* Mutant: any vector of the note and model will do.
IsCached_AnyInput(n, m, hash) == cache[<<n, m>>] # NoVector

\* get_embedding: a row under the same model counts only with the same hash.
IsCached(n, m, hash) ==
  cache[<<n, m>>] # NoVector /\ cache[<<n, m>>].hash = hash

-----------------------------------------------------------------------------
(* backfill_embeddings                                                     *)

StartRun(r) ==
  /\ ~Active(r)
  /\ starts < MaxStarts
  /\ starts' = starts + 1
  /\ \E m \in Models, limit \in Limits \cup {NoLimit} :
       LET rivals == {q \in Runs : q # r /\ Active(q) /\ run[q].model = m}
       IN  run' = [q \in Runs |->
             IF q = r
               THEN [at |-> "scanning", model |-> m, limit |-> limit,
                     snapshot |-> [n \in Notes |-> TextOf(n)], order |-> saved,
                     rows |-> Live, pending |-> {},
                     considered |-> 0, cached |-> 0, embedded |-> 0, failed |-> 0,
                     alone |-> rivals = {}]
             ELSE IF q \in rivals THEN [run[q] EXCEPT !.alone = FALSE] ELSE run[q]]
  /\ UNCHANGED <<notes, saved, cache, paid, edits>>

MoreRows(r) ==
  run[r].rows # {} /\ (run[r].limit # NoLimit => run[r].considered < run[r].limit)

\* ORDER BY updated_time DESC
IsNext(r, n) == \A o \in run[r].rows : run[r].order[o] <= run[r].order[n]

\* One row of the SELECT; a full batch is sent at once.
Consider(r) ==
  /\ run[r].at = "scanning"
  /\ MoreRows(r)
  /\ \E n \in run[r].rows :
     LET current == IsCached(n, run[r].model, InputHash(run[r].snapshot[n]))
         waiting == run[r].pending \cup (IF current THEN {} ELSE {n})
     IN  /\ IsNext(r, n)
         /\ run' = [run EXCEPT ![r] = [run[r] EXCEPT
              !.rows = @ \ {n},
              !.considered = @ + 1,
              !.cached = IF current THEN @ + 1 ELSE @,
              !.pending = waiting,
              !.at = IF Cardinality(waiting) >= BatchSize THEN "embedding" ELSE @]]
  /\ UNCHANGED <<notes, saved, cache, paid, edits, starts>>

\* After the loop the rest is sent, if there is any.
LastBatch(r) ==
  /\ run[r].at = "scanning"
  /\ ~MoreRows(r)
  /\ run' = [run EXCEPT ![r] =
       [run[r] EXCEPT !.at = IF run[r].pending = {} THEN "done" ELSE "embedding"]]
  /\ UNCHANGED <<notes, saved, cache, paid, edits, starts>>

\* embed: a vector for each text of the batch, in order; anything else is an error.
Answer(r) == [n \in run[r].pending |-> [of |-> run[r].snapshot[n], model |-> run[r].model]]

Store(r, hash) ==
  cache' = Put(cache, run[r].pending, run[r].model,
               [n \in run[r].pending |-> [hash |-> hash[n], vector |-> Answer(r)[n]]])

Paid(r) == paid' = [k \in Notes \X Models |->
  IF k[1] \in run[r].pending /\ k[2] = run[r].model THEN run[r].snapshot[k[1]] ELSE paid[k]]

\* Mutant: the hash is read again when the vectors are stored.
Embedded_HashReadLate(r) ==
  /\ run[r].at = "embedding"
  /\ Store(r, [n \in run[r].pending |->
       InputHash(IF n \in Live THEN TextOf(n) ELSE run[r].snapshot[n])])
  /\ run' = [run EXCEPT ![r] = [run[r] EXCEPT !.embedded = @ + Cardinality(run[r].pending),
                                         !.pending = {}, !.at = "scanning"]]
  /\ Paid(r)
  /\ UNCHANGED <<notes, saved, edits, starts>>

\* The model answers: one vector per text, stored in one transaction.
Embedded(r) ==
  /\ run[r].at = "embedding"
  /\ Store(r, [n \in run[r].pending |-> InputHash(run[r].snapshot[n])])
  /\ run' = [run EXCEPT ![r] = [run[r] EXCEPT !.embedded = @ + Cardinality(run[r].pending),
                                         !.pending = {}, !.at = "scanning"]]
  /\ Paid(r)
  /\ UNCHANGED <<notes, saved, edits, starts>>

\* Mutant: a failed batch stays in the list.
BatchFails_KeepsPending(r) ==
  /\ run[r].at = "embedding"
  /\ run' = [run EXCEPT ![r] = [run[r] EXCEPT !.failed = @ + Cardinality(run[r].pending),
                                         !.at = "scanning"]]
  /\ UNCHANGED <<notes, saved, cache, paid, edits, starts>>

\* OllamaError: the batch is counted and dropped, the run goes on.
BatchFails(r) ==
  /\ run[r].at = "embedding"
  /\ run' = [run EXCEPT ![r] = [run[r] EXCEPT !.failed = @ + Cardinality(run[r].pending),
                                         !.pending = {}, !.at = "scanning"]]
  /\ UNCHANGED <<notes, saved, cache, paid, edits, starts>>

\* Cancelled, killed, or an error of another kind.
Die(r) ==
  /\ Active(r)
  /\ run' = [run EXCEPT ![r] = Idle]
  /\ UNCHANGED <<notes, saved, cache, paid, edits, starts>>

\* The user edits or deletes a note and the indexer picks it up.
Edit ==
  /\ edits < MaxEdits
  /\ edits' = edits + 1
  /\ \E n \in Live, c \in Content \cup {NoNote} :
       /\ notes[n] # c
       /\ notes' = [notes EXCEPT ![n] = c]
       /\ saved' = [saved EXCEPT ![n] = edits']
  /\ UNCHANGED <<cache, run, paid, starts>>

Next ==
  \/ \E r \in Runs : \/ StartRun(r) \/ Consider(r) \/ LastBatch(r)
                     \/ Embedded(r) \/ BatchFails(r) \/ Die(r)
  \/ Edit

Spec == Init /\ [][Next]_vars

-----------------------------------------------------------------------------
(* nearest_tagged and score_tags, for the vector of a text under a model   *)

\* get_embedding_any_input: whatever text produced it.
VectorOf(n, m) == IF cache[<<n, m>>] = NoVector THEN NoVector ELSE cache[<<n, m>>].vector

\* tagged_notes with a vector of the model; one note, or none, is excluded.
Candidates(x, m) ==
  {n \in Live \ {x} : TagsOf[n] # {} /\ VectorOf(n, m) # NoVector}

Likeness(n, m, text) == Similarity[text][VectorOf(n, m).of]

\* The K most similar, however ties are broken.
Nearest(x, m, text) ==
  LET S == Candidates(x, m)
      size == IF Cardinality(S) < K THEN Cardinality(S) ELSE K
  IN  {near \in kSubset(size, S) :
         \A n \in near, o \in S \ near : Likeness(n, m, text) >= Likeness(o, m, text)}

Supporters(near, tag) == {n \in near : tag \in TagsOf[n]}

\* Their similarities added up, a negative one counting as zero.
Total(near, tag, m, text) ==
  FoldSet(LAMBDA n, sum : sum + (IF Likeness(n, m, text) > 0 THEN Likeness(n, m, text) ELSE 0),
          0, Supporters(near, tag))

\* Mutant: tags are ranked by the sum.
Outscores_BySum(near, a, b, m, text) ==
  Total(near, a, m, text) > Total(near, b, m, text)

\* The mean of a is greater than the mean of b.
Outscores(near, a, b, m, text) ==
  Total(near, a, m, text) * Cardinality(Supporters(near, b))
    > Total(near, b, m, text) * Cardinality(Supporters(near, a))

Scored(near) == {tag \in Tags : Supporters(near, tag) # {}}

\* In the first TagLimit however ties are broken.
SurelySuggested(near, tag, m, text) ==
  Cardinality({b \in Scored(near) \ {tag} : ~Outscores(near, tag, b, m, text)}) < TagLimit

PossiblySuggested(near, tag, m, text) ==
  Cardinality({b \in Scored(near) : Outscores(near, b, tag, m, text)}) < TagLimit

-----------------------------------------------------------------------------
(* Properties                                                              *)

\* schema.sql:54-62: whatever runs overlap and whatever is edited during a call, a
\* row holds the vector of the text its hash stands for, made by its own model:
\* vectors that cannot be compared never meet in nearest_tagged.
RowsSpeakTrue ==
  \A n \in Notes, m \in Models :
    LET row == cache[<<n, m>>]
    IN  row # NoVector => row.hash = InputHash(row.vector.of) /\ row.vector.model = m

\* embeddings.py:79-82: when a run ends that no other run of its model disturbed, it
\* has accounted for every note it looked at, and exactly those it reports as failed
\* are without the vector of the text they had when it started.
Accounted(r) ==
  LET looked == {n \in Notes : run[r].snapshot[n] # NoNote} \ run[r].rows
      without == {n \in looked :
        LET row == cache[<<n, run[r].model>>]
        IN  row = NoVector \/ row.vector.of # run[r].snapshot[n]}
  IN  /\ run[r].considered = Cardinality(looked)
      /\ run[r].considered = run[r].cached + run[r].embedded + run[r].failed
      /\ run[r].failed = Cardinality(without)

ReportIsTrue ==
  [][\A r \in Runs :
       (run[r].at = "scanning" /\ run'[r].at = "done" /\ run[r].alone) => Accounted(r)']_vars

\* "so a second run is free" (embeddings.py:80), over any number of runs, switches of
\* the model and back, and edits: an undisturbed run never sends a text whose vector
\* was the last one this model made for the note.
PaidOnce ==
  \A r \in Runs : run[r].at = "embedding" /\ run[r].alone =>
    \A n \in run[r].pending : paid[<<n, run[r].model>>] # run[r].snapshot[n]

\* embeddings.py:177-186: a tag does not win by being common.  If every neighbour
\* with tag b is nearer than every neighbour with tag a, b is offered whenever a is,
\* however many neighbours carry a.
SimilarBeatsCommon ==
  \A x \in Notes \cup {NoNote}, m \in Models, text \in Texts :
    \A near \in Nearest(x, m, text) : \A a, b \in Scored(near) :
      /\ \A p \in Supporters(near, a), q \in Supporters(near, b) :
           Likeness(p, m, text) < Likeness(q, m, text)
      /\ \E q \in Supporters(near, b) : Likeness(q, m, text) > 0
      /\ PossiblySuggested(near, a, m, text)
      => SurelySuggested(near, b, m, text)
=============================================================================
