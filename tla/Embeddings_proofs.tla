------------------------- MODULE Embeddings_proofs -------------------------
(***************************************************************************)
(* Proofs about the embeddings cache: for any notes, texts, models, batch  *)
(* sizes and numbers of overlapping runs its rows hold what they claim,    *)
(* and a run that no other run of its model disturbs pays for no vector a  *)
(* second time and reports the truth.  And for any likeness of their       *)
(* vectors a tag is not offered for being common alone: the sums of        *)
(* score_tags are bounded by induction over the sets they run over.        *)
(***************************************************************************)
EXTENDS Embeddings, FiniteSetTheorems, TLAPS

Sent == Texts \cup {NoNote}
Keys == Notes \X Models
StoredRow == [hash : Texts, vector : [of : Texts, model : Models]]

\* The notes the run u has read from its SELECT.
InSnapshot(u) == {n \in Notes : u.snapshot[n] # NoNote}
Looked(u) == InSnapshot(u) \ u.rows

\* The cache c has no vector of the text a note had when u started.
Lacks(c, u, n) == c[<<n, u.model>>] = NoVector \/ c[<<n, u.model>>].vector.of # u.snapshot[n]
Lacking(c, u, S) == {n \in S : Lacks(c, u, n)}

\* What a run that is not idle knows of its notes.
RunOK(u) ==
  /\ u.rows \cup u.pending \subseteq InSnapshot(u)
  /\ u.rows \cap u.pending = {}
  /\ u.at = "scanning" => Cardinality(u.pending) < BatchSize
  /\ Cardinality(u.pending) <= BatchSize
  /\ u.at = "done" => u.pending = {}
  /\ u.considered = Cardinality(Looked(u))
  /\ u.considered = u.cached + u.embedded + u.failed + Cardinality(u.pending)

TypeInv ==
  /\ notes \in [Notes -> Content \cup {NoNote}]
  /\ saved \in [Notes -> Int]
  /\ cache \in [Keys -> StoredRow \cup {NoVector}]
  /\ paid \in [Keys -> Texts \cup {NoVector}]
  /\ run \in [Runs -> Run \cup {Idle}]
  /\ edits \in Nat /\ starts \in Nat
  /\ \A r \in Runs : run[r] # Idle => RunOK(run[r])

\* A row names its model and its text, and that text is the last one paid for.
KeyOK(row, text, k) ==
  \/ row = NoVector /\ text = NoVector
  \/ row # NoVector /\ row.hash = text /\ row.vector.of = text /\ row.vector.model = k[2]

CacheInv == \A k \in Keys : KeyOK(cache[k], paid[k], k)

IsActive(u) == u.at \in {"scanning", "embedding"}

\* What `alone` remembers: no run under way uses the same model.
AloneInv ==
  \A r, q \in Runs :
    IsActive(run[r]) /\ IsActive(run[q]) /\ r # q /\ run[r].alone
      => run[q].model # run[r].model

\* What a run that is alone counts as failed is what the cache lacks.
ReportOK(c, u) ==
  /\ Lacking(c, u, u.pending) = u.pending
  /\ u.failed = Cardinality(Lacking(c, u, Looked(u) \ u.pending))

ReportInv == \A r \in Runs : IsActive(run[r]) /\ run[r].alone => ReportOK(cache, run[r])

CachingInv == TypeInv /\ CacheInv /\ AloneInv /\ ReportInv

-----------------------------------------------------------------------------
(* Types and the effects of the actions                                    *)

LEMMA ConstantsDiffer ==
  /\ NoVector \notin Sent
  /\ \A h, t \in Sent, m \in Models : [hash |-> h, vector |-> [of |-> t, model |-> m]] # NoVector
  /\ NoNote \notin Texts /\ NoNote \notin Content
  /\ IsFiniteSet(Notes)
  /\ BatchSize \in Nat /\ BatchSize > 0
BY EmbeddingsAssumption DEF Sent, StoredRow

LEMMA RunIsNotIdle == ASSUME NEW v \in Run PROVE v # Idle
BY DEF Run, Idle

LEMMA TextIsSent ==
  ASSUME notes \in [Notes -> Content \cup {NoNote}], NEW n \in Notes
  PROVE  /\ TextOf(n) \in Sent
         /\ n \in Live <=> TextOf(n) # NoNote
BY ConstantsDiffer DEF Live, TextOf, Texts, Sent

LEMMA PendingIsFinite ==
  ASSUME TypeInv, NEW r \in Runs, run[r] # Idle
  PROVE  /\ run[r] \in Run
         /\ IsFiniteSet(run[r].pending)
         /\ Cardinality(run[r].pending) \in Nat
<1>1. run[r] \in Run
  BY DEF TypeInv
<1>2. run[r].pending \subseteq Notes
  BY <1>1 DEF Run
<1>3. IsFiniteSet(run[r].pending)
  BY <1>2, ConstantsDiffer, FS_Subset
<1> QED
  BY <1>1, <1>3, FS_CardinalityType

\* The fields no step of a run changes.
Kept(u, v) ==
  /\ v.model = u.model /\ v.limit = u.limit /\ v.snapshot = u.snapshot
  /\ v.order = u.order /\ v.alone = u.alone

LEMMA ConsiderEffect ==
  ASSUME TypeInv, NEW r \in Runs, Consider(r)
  PROVE  \E n \in run[r].rows, v \in Run :
           LET current == IsCached(n, run[r].model, InputHash(run[r].snapshot[n]))
           IN  /\ run' = [run EXCEPT ![r] = v]
               /\ Kept(run[r], v)
               /\ v.rows = run[r].rows \ {n}
               /\ v.considered = run[r].considered + 1
               /\ v.cached = IF current THEN run[r].cached + 1 ELSE run[r].cached
               /\ v.pending = run[r].pending \cup (IF current THEN {} ELSE {n})
               /\ v.at = IF Cardinality(v.pending) >= BatchSize THEN "embedding" ELSE "scanning"
               /\ v.embedded = run[r].embedded /\ v.failed = run[r].failed
<1>1. run[r] # Idle
  BY DEF Consider, Idle
<1>2. run[r] \in Run
  BY <1>1, PendingIsFinite
<1>3. PICK n \in run[r].rows :
        LET current == IsCached(n, run[r].model, InputHash(run[r].snapshot[n]))
            waiting == run[r].pending \cup (IF current THEN {} ELSE {n})
        IN  run' = [run EXCEPT ![r] = [run[r] EXCEPT
              !.rows = @ \ {n},
              !.considered = @ + 1,
              !.cached = IF current THEN @ + 1 ELSE @,
              !.pending = waiting,
              !.at = IF Cardinality(waiting) >= BatchSize THEN "embedding" ELSE @]]
  BY DEF Consider, TypeInv
<1> DEFINE current == IsCached(n, run[r].model, InputHash(run[r].snapshot[n]))
           waiting == run[r].pending \cup (IF current THEN {} ELSE {n})
           cached == IF current THEN run[r].cached + 1 ELSE run[r].cached
           at == IF Cardinality(waiting) >= BatchSize THEN "embedding" ELSE run[r].at
           rows == run[r].rows \ {n}
           considered == run[r].considered + 1
           v == [run[r] EXCEPT !.rows = rows, !.considered = considered, !.cached = cached,
                               !.pending = waiting, !.at = at]
<1>4. run' = [run EXCEPT ![r] = v]
  BY <1>3
<1>5. /\ n \in Notes /\ waiting \in SUBSET Notes /\ rows \in SUBSET Notes
      /\ cached \in Nat /\ considered \in Nat
  BY <1>2 DEF Run
<1>6. run[r].at = "scanning" /\ at \in {"scanning", "embedding"}
  BY DEF Consider
<1> HIDE DEF waiting, cached, at, rows, considered
<1>7. v \in Run
  BY <1>2, <1>5, <1>6 DEF Run
<1>8. /\ Kept(run[r], v)
      /\ v.rows = rows /\ v.considered = considered
      /\ v.cached = cached /\ v.pending = waiting /\ v.at = at
      /\ v.embedded = run[r].embedded /\ v.failed = run[r].failed
  BY <1>2 DEF Run, Kept
<1> HIDE DEF v
<1>9. v.at = IF Cardinality(v.pending) >= BatchSize THEN "embedding" ELSE "scanning"
  BY <1>6, <1>8 DEF at
<1> QED
  BY <1>4, <1>7, <1>8, <1>9 DEF waiting, cached, rows, considered

LEMMA LastBatchEffect ==
  ASSUME TypeInv, NEW r \in Runs, LastBatch(r)
  PROVE  \E v \in Run :
           /\ run' = [run EXCEPT ![r] = v]
           /\ Kept(run[r], v)
           /\ v.rows = run[r].rows /\ v.pending = run[r].pending
           /\ v.at = IF run[r].pending = {} THEN "done" ELSE "embedding"
           /\ v.considered = run[r].considered /\ v.cached = run[r].cached
           /\ v.embedded = run[r].embedded /\ v.failed = run[r].failed
<1>1. run[r] # Idle
  BY DEF LastBatch, Idle
<1>2. run[r] \in Run
  BY <1>1, PendingIsFinite
<1> DEFINE at == IF run[r].pending = {} THEN "done" ELSE "embedding"
           v == [run[r] EXCEPT !.at = at]
<1>3. run' = [run EXCEPT ![r] = v]
  BY DEF LastBatch
<1>4. at \in {"done", "embedding"}
  OBVIOUS
<1> HIDE DEF at
<1>5. v \in Run
  BY <1>2, <1>4 DEF Run
<1>6. /\ Kept(run[r], v)
      /\ v.rows = run[r].rows /\ v.pending = run[r].pending /\ v.at = at
      /\ v.considered = run[r].considered /\ v.cached = run[r].cached
      /\ v.embedded = run[r].embedded /\ v.failed = run[r].failed
  BY <1>2 DEF Run, Kept
<1> QED
  BY <1>3, <1>5, <1>6 DEF at

\* The two ends of a request for a batch.
LEMMA EmbeddedRun ==
  ASSUME TypeInv, NEW r \in Runs, Embedded(r)
  PROVE  \E v \in Run :
           /\ run' = [run EXCEPT ![r] = v]
           /\ Kept(run[r], v)
           /\ v.rows = run[r].rows /\ v.pending = {} /\ v.at = "scanning"
           /\ v.considered = run[r].considered /\ v.cached = run[r].cached
           /\ v.embedded = run[r].embedded + Cardinality(run[r].pending)
           /\ v.failed = run[r].failed
<1>1. run[r] # Idle
  BY DEF Embedded, Idle
<1>2. run[r] \in Run /\ Cardinality(run[r].pending) \in Nat
  BY <1>1, PendingIsFinite
<1> DEFINE more == run[r].embedded + Cardinality(run[r].pending)
           v == [run[r] EXCEPT !.embedded = more, !.pending = {}, !.at = "scanning"]
<1>3. run' = [run EXCEPT ![r] = v]
  BY DEF Embedded
<1>4. more \in Nat
  BY <1>2 DEF Run
<1> HIDE DEF more
<1>5. v \in Run
  BY <1>2, <1>4 DEF Run
<1>6. /\ Kept(run[r], v) /\ v.rows = run[r].rows /\ v.pending = {} /\ v.at = "scanning"
      /\ v.considered = run[r].considered /\ v.cached = run[r].cached
      /\ v.embedded = more /\ v.failed = run[r].failed
  BY <1>2 DEF Run, Kept
<1> QED
  BY <1>3, <1>5, <1>6 DEF more

LEMMA BatchFailsRun ==
  ASSUME TypeInv, NEW r \in Runs, BatchFails(r)
  PROVE  \E v \in Run :
           /\ run' = [run EXCEPT ![r] = v]
           /\ Kept(run[r], v)
           /\ v.rows = run[r].rows /\ v.pending = {} /\ v.at = "scanning"
           /\ v.considered = run[r].considered /\ v.cached = run[r].cached
           /\ v.failed = run[r].failed + Cardinality(run[r].pending)
           /\ v.embedded = run[r].embedded
<1>1. run[r] # Idle
  BY DEF BatchFails, Idle
<1>2. run[r] \in Run /\ Cardinality(run[r].pending) \in Nat
  BY <1>1, PendingIsFinite
<1> DEFINE more == run[r].failed + Cardinality(run[r].pending)
           v == [run[r] EXCEPT !.failed = more, !.pending = {}, !.at = "scanning"]
<1>3. run' = [run EXCEPT ![r] = v]
  BY DEF BatchFails
<1>4. more \in Nat
  BY <1>2 DEF Run
<1> HIDE DEF more
<1>5. v \in Run
  BY <1>2, <1>4 DEF Run
<1>6. /\ Kept(run[r], v) /\ v.rows = run[r].rows /\ v.pending = {} /\ v.at = "scanning"
      /\ v.considered = run[r].considered /\ v.cached = run[r].cached
      /\ v.failed = more /\ v.embedded = run[r].embedded
  BY <1>2 DEF Run, Kept
<1> QED
  BY <1>3, <1>5, <1>6 DEF more

LEMMA StartEffect ==
  ASSUME TypeInv, NEW r \in Runs, StartRun(r)
  PROVE  /\ \A q \in Runs \ {r} :
              \/ run'[q] = run[q]
              \/ run[q] \in Run /\ Active(q) /\ run'[q] = [run[q] EXCEPT !.alone = FALSE]
         /\ \A q \in Runs \ {r} :
              Active(q) /\ run[q].model = run'[r].model =>
                run'[q].alone = FALSE /\ run'[r].alone = FALSE
         /\ run'[r] \in Run /\ run'[r].at = "scanning"
         /\ run'[r].snapshot = [n \in Notes |-> TextOf(n)]
         /\ run'[r].rows = Live /\ run'[r].pending = {}
         /\ run'[r].considered = 0 /\ run'[r].cached = 0
         /\ run'[r].embedded = 0 /\ run'[r].failed = 0
         /\ run' \in [Runs -> Run \cup {Idle}]
<1>1. PICK m \in Models, limit \in Limits \cup {NoLimit} :
        LET rivals == {q \in Runs : q # r /\ Active(q) /\ run[q].model = m}
        IN  run' = [q \in Runs |->
             IF q = r
               THEN [at |-> "scanning", model |-> m, limit |-> limit,
                     snapshot |-> [n \in Notes |-> TextOf(n)], order |-> saved,
                     rows |-> Live, pending |-> {},
                     considered |-> 0, cached |-> 0, embedded |-> 0, failed |-> 0,
                     alone |-> rivals = {}]
             ELSE IF q \in rivals THEN [run[q] EXCEPT !.alone = FALSE] ELSE run[q]]
  BY DEF StartRun
<1> DEFINE rivals == {q \in Runs : q # r /\ Active(q) /\ run[q].model = m}
           snapshot == [n \in Notes |-> TextOf(n)]
           alone == rivals = {}
           v == [at |-> "scanning", model |-> m, limit |-> limit,
                 snapshot |-> snapshot, order |-> saved, rows |-> Live, pending |-> {},
                 considered |-> 0, cached |-> 0, embedded |-> 0, failed |-> 0,
                 alone |-> alone]
<1>2. run' = [q \in Runs |-> IF q = r THEN v
                            ELSE IF q \in rivals THEN [run[q] EXCEPT !.alone = FALSE] ELSE run[q]]
  BY <1>1
<1>3. snapshot \in [Notes -> Sent] /\ Live \in SUBSET Notes /\ alone \in BOOLEAN
      /\ saved \in [Notes -> Int]
  BY TextIsSent DEF Live, TypeInv
<1>4. alone => rivals = {}
  OBVIOUS
<1> HIDE DEF snapshot, alone, rivals
<1>5. v \in Run
  BY <1>3 DEF Run, Sent
<1>6. /\ v.at = "scanning" /\ v.model = m /\ v.snapshot = snapshot /\ v.rows = Live
      /\ v.pending = {} /\ v.considered = 0 /\ v.cached = 0 /\ v.embedded = 0 /\ v.failed = 0
      /\ v.alone = alone
  OBVIOUS
<1> HIDE DEF v
<1>7. \A q \in rivals : q \in Runs /\ q # r /\ Active(q) /\ run[q].model = m
  BY DEF rivals
<1>8. \A q \in rivals : run[q] \in Run /\ [run[q] EXCEPT !.alone = FALSE] \in Run
                        /\ [run[q] EXCEPT !.alone = FALSE].alone = FALSE
  <2> SUFFICES ASSUME NEW q \in rivals
               PROVE  run[q] \in Run /\ [run[q] EXCEPT !.alone = FALSE] \in Run
                        /\ [run[q] EXCEPT !.alone = FALSE].alone = FALSE
    OBVIOUS
  <2>1. run[q] # Idle
    BY <1>7 DEF Active, Idle
  <2>2. run[q] \in Run
    BY <2>1, <1>7, PendingIsFinite
  <2> QED
    BY <2>2 DEF Run
<1>9. run'[r] = v
  BY <1>2
<1>10. \A q \in Runs \ {r} :
         /\ q \in rivals => run'[q] = [run[q] EXCEPT !.alone = FALSE]
         /\ q \notin rivals => run'[q] = run[q]
  BY <1>2
<1>11. run' \in [Runs -> Run \cup {Idle}]
  BY <1>2, <1>5, <1>8 DEF TypeInv
<1>12. \A q \in Runs \ {r} :
          Active(q) /\ run[q].model = m => q \in rivals
  BY DEF rivals
<1>13. \A q \in Runs \ {r} :
              Active(q) /\ run[q].model = run'[r].model =>
                run'[q].alone = FALSE /\ run'[r].alone = FALSE
  BY <1>3, <1>4, <1>6, <1>8, <1>9, <1>10, <1>12
<1> QED
  BY <1>5, <1>6, <1>7, <1>8, <1>9, <1>10, <1>11, <1>13 DEF snapshot

-----------------------------------------------------------------------------
(* Type correctness                                                        *)

LEMMA SnapshotIsFinite ==
  ASSUME NEW u \in Run
  PROVE  /\ IsFiniteSet(InSnapshot(u)) /\ IsFiniteSet(Looked(u))
         /\ \A S \in SUBSET Notes : IsFiniteSet(S) /\ Cardinality(S) \in Nat
<1>1. \A S \in SUBSET Notes : IsFiniteSet(S) /\ Cardinality(S) \in Nat
  BY ConstantsDiffer, FS_Subset, FS_CardinalityType
<1> QED
  BY <1>1 DEF InSnapshot, Looked

\* A step of one run leaves what is known of the others.
LEMMA OneRunStep ==
  ASSUME TypeInv, NEW r \in Runs, NEW v \in Run, run' = [run EXCEPT ![r] = v], RunOK(v)
  PROVE  /\ run' \in [Runs -> Run \cup {Idle}]
         /\ \A q \in Runs : run'[q] # Idle => RunOK(run'[q])
BY DEF TypeInv

LEMMA ConsiderKeepsRun ==
  ASSUME TypeInv, NEW r \in Runs, Consider(r)
  PROVE  /\ run' \in [Runs -> Run \cup {Idle}]
         /\ \A q \in Runs : run'[q] # Idle => RunOK(run'[q])
<1> DEFINE u == run[r]
           current(n) == IsCached(n, u.model, InputHash(u.snapshot[n]))
<1>1. PICK n \in u.rows, v \in Run :
        /\ run' = [run EXCEPT ![r] = v]
        /\ Kept(u, v)
        /\ v.rows = u.rows \ {n}
        /\ v.considered = u.considered + 1
        /\ v.cached = IF current(n) THEN u.cached + 1 ELSE u.cached
        /\ v.pending = u.pending \cup (IF current(n) THEN {} ELSE {n})
        /\ v.at = IF Cardinality(v.pending) >= BatchSize THEN "embedding" ELSE "scanning"
        /\ v.embedded = u.embedded /\ v.failed = u.failed
  BY ConsiderEffect
<1>2. u # Idle /\ u.at = "scanning"
  BY DEF Consider, Idle
<1>3. u \in Run /\ RunOK(u) /\ IsFiniteSet(u.pending) /\ Cardinality(u.pending) \in Nat
  BY <1>2, PendingIsFinite DEF TypeInv
<1> HIDE DEF u, current
<1>4. n \in Notes /\ n \in InSnapshot(u) /\ n \notin u.pending
  BY <1>3 DEF Run, RunOK
<1>5. InSnapshot(v) = InSnapshot(u)
  BY <1>1 DEF InSnapshot, Kept
<1>6. Looked(v) = Looked(u) \cup {n} /\ n \notin Looked(u)
  BY <1>1, <1>4, <1>5 DEF Looked
<1>7. Cardinality(Looked(v)) = Cardinality(Looked(u)) + 1
  BY <1>3, <1>6, SnapshotIsFinite, FS_AddElement
<1>8. Cardinality(v.pending) = IF current(n) THEN Cardinality(u.pending)
                                             ELSE Cardinality(u.pending) + 1
  <2>1. CASE current(n)
    BY <1>1, <2>1
  <2>2. CASE ~current(n)
    <3>1. v.pending = u.pending \cup {n}
      BY <1>1, <2>2
    <3> QED
      BY <1>3, <1>4, <2>2, <3>1, FS_AddElement
  <2> QED
    BY <2>1, <2>2
<1>9. v.rows \cup v.pending \subseteq InSnapshot(v) /\ v.rows \cap v.pending = {}
  BY <1>1, <1>3, <1>4, <1>5 DEF RunOK
<1>10. v.considered = Cardinality(Looked(v))
  BY <1>1, <1>3, <1>7 DEF RunOK
<1>11. v.considered = v.cached + v.embedded + v.failed + Cardinality(v.pending)
  <2>1. u.cached \in Nat /\ u.embedded \in Nat /\ u.failed \in Nat /\ u.considered \in Nat
    BY <1>3 DEF Run
  <2>2. u.considered = u.cached + u.embedded + u.failed + Cardinality(u.pending)
    BY <1>3 DEF RunOK
  <2> QED
    BY <1>1, <1>3, <1>8, <2>1, <2>2
<1>12. /\ v.at = "scanning" => Cardinality(v.pending) < BatchSize
       /\ Cardinality(v.pending) <= BatchSize
       /\ v.at # "done"
  <2>1. Cardinality(u.pending) < BatchSize
    BY <1>2, <1>3 DEF RunOK, u
  <2> QED
    BY <1>1, <1>3, <1>8, <2>1, ConstantsDiffer
<1>13. RunOK(v)
  BY <1>9, <1>10, <1>11, <1>12 DEF RunOK
<1> QED
  BY <1>1, <1>13, OneRunStep

LEMMA LastBatchKeepsRun ==
  ASSUME TypeInv, NEW r \in Runs, LastBatch(r)
  PROVE  /\ run' \in [Runs -> Run \cup {Idle}]
         /\ \A q \in Runs : run'[q] # Idle => RunOK(run'[q])
<1> DEFINE u == run[r]
<1>1. PICK v \in Run :
        /\ run' = [run EXCEPT ![r] = v]
        /\ Kept(u, v)
        /\ v.rows = u.rows /\ v.pending = u.pending
        /\ v.at = IF u.pending = {} THEN "done" ELSE "embedding"
        /\ v.considered = u.considered /\ v.cached = u.cached
        /\ v.embedded = u.embedded /\ v.failed = u.failed
  BY LastBatchEffect
<1>2. RunOK(u)
  BY DEF TypeInv, LastBatch, Idle
<1> HIDE DEF u
<1>3. InSnapshot(v) = InSnapshot(u) /\ Looked(v) = Looked(u)
  BY <1>1 DEF InSnapshot, Looked, Kept
<1>4. RunOK(v)
  BY <1>1, <1>2, <1>3 DEF RunOK
<1> QED
  BY <1>1, <1>4, OneRunStep

LEMMA FlushKeepsRun ==
  ASSUME TypeInv, NEW r \in Runs, Embedded(r) \/ BatchFails(r)
  PROVE  /\ run' \in [Runs -> Run \cup {Idle}]
         /\ \A q \in Runs : run'[q] # Idle => RunOK(run'[q])
<1> DEFINE u == run[r]
<1>1. PICK v \in Run :
        /\ run' = [run EXCEPT ![r] = v]
        /\ Kept(u, v)
        /\ v.rows = u.rows /\ v.pending = {} /\ v.at = "scanning"
        /\ v.considered = u.considered /\ v.cached = u.cached
        /\ \/ v.embedded = u.embedded + Cardinality(u.pending) /\ v.failed = u.failed
           \/ v.failed = u.failed + Cardinality(u.pending) /\ v.embedded = u.embedded
  BY EmbeddedRun, BatchFailsRun
<1>2. u # Idle
  BY DEF Embedded, BatchFails, Idle
<1>3. u \in Run /\ RunOK(u) /\ Cardinality(u.pending) \in Nat
  BY <1>2, PendingIsFinite DEF TypeInv
<1> HIDE DEF u
<1>4. InSnapshot(v) = InSnapshot(u) /\ Looked(v) = Looked(u)
  BY <1>1 DEF InSnapshot, Looked, Kept
<1>5. Cardinality(v.pending) = 0
  BY <1>1, FS_EmptySet
<1>6. v.considered = v.cached + v.embedded + v.failed + Cardinality(v.pending)
  <2>1. u.cached \in Nat /\ u.embedded \in Nat /\ u.failed \in Nat /\ u.considered \in Nat
    BY <1>3 DEF Run
  <2>2. u.considered = u.cached + u.embedded + u.failed + Cardinality(u.pending)
    BY <1>3 DEF RunOK
  <2> QED
    BY <1>1, <1>3, <1>5, <2>1, <2>2
<1>7. v.rows \cup v.pending \subseteq InSnapshot(v) /\ v.rows \cap v.pending = {}
  BY <1>1, <1>3, <1>4 DEF RunOK
<1>8. v.considered = Cardinality(Looked(v))
  BY <1>1, <1>3, <1>4 DEF RunOK
<1>9. RunOK(v)
  BY <1>1, <1>5, <1>6, <1>7, <1>8, ConstantsDiffer DEF RunOK
<1> QED
  BY <1>1, <1>9, OneRunStep

LEMMA StartKeepsRuns ==
  ASSUME TypeInv, NEW r \in Runs, StartRun(r)
  PROVE  \A q \in Runs : run'[q] # Idle => RunOK(run'[q])
<1>1. RunOK(run'[r])
  <2> DEFINE v == run'[r]
  <2>1. /\ v \in Run /\ v.at = "scanning" /\ v.snapshot = [n \in Notes |-> TextOf(n)]
        /\ v.rows = Live /\ v.pending = {} /\ v.considered = 0 /\ v.cached = 0
        /\ v.embedded = 0 /\ v.failed = 0
    BY StartEffect
  <2> HIDE DEF v
  <2>2. InSnapshot(v) = Live
    BY <2>1, TextIsSent DEF InSnapshot, Live, TypeInv
  <2>3. Looked(v) = {} /\ Cardinality({}) = 0
    BY <2>1, <2>2, FS_EmptySet DEF Looked
  <2>4. RunOK(v)
    BY <2>1, <2>2, <2>3, ConstantsDiffer DEF RunOK
  <2> QED
    BY <2>4 DEF v
<1>2. ASSUME NEW q \in Runs \ {r}, run'[q] # Idle PROVE RunOK(run'[q])
  <2>1. CASE run'[q] = run[q]
    BY <1>2, <2>1 DEF TypeInv
  <2>2. CASE run[q] \in Run /\ Active(q) /\ run'[q] = [run[q] EXCEPT !.alone = FALSE]
    <3> DEFINE u == run[q]
               v == run'[q]
    <3>1. u # Idle
      BY <2>2 DEF Active, Idle
    <3>2. RunOK(u)
      BY <3>1 DEF TypeInv
    <3>3. /\ v.rows = u.rows /\ v.pending = u.pending /\ v.at = u.at
          /\ v.snapshot = u.snapshot /\ v.considered = u.considered
          /\ v.cached = u.cached /\ v.embedded = u.embedded /\ v.failed = u.failed
      BY <2>2 DEF Run
    <3> HIDE DEF u, v
    <3>4. InSnapshot(v) = InSnapshot(u) /\ Looked(v) = Looked(u)
      BY <3>3 DEF InSnapshot, Looked
    <3>5. RunOK(v)
      BY <3>2, <3>3, <3>4 DEF RunOK
    <3> QED
      BY <3>5 DEF v
  <2> QED
    BY <2>1, <2>2, StartEffect
<1> QED
  BY <1>1, <1>2

LEMMA DieKeepsRuns ==
  ASSUME TypeInv, NEW r \in Runs, Die(r)
  PROVE  /\ run' \in [Runs -> Run \cup {Idle}]
         /\ run'[r] = Idle
         /\ \A q \in Runs \ {r} : run'[q] = run[q]
BY DEF Die, TypeInv

\* The rows of a batch are replaced, all others stay.
LEMMA EmbeddedEffect ==
  ASSUME TypeInv, NEW r \in Runs, Embedded(r)
  PROVE  /\ cache' \in [Keys -> StoredRow \cup {NoVector}]
         /\ paid' \in [Keys -> Texts \cup {NoVector}]
         /\ \A k \in Keys :
              IF k[1] \in run[r].pending /\ k[2] = run[r].model
                THEN LET text == run[r].snapshot[k[1]]
                     IN  /\ text \in Texts /\ paid'[k] = text
                         /\ cache'[k] = [hash |-> text, vector |-> [of |-> text, model |-> k[2]]]
                ELSE cache'[k] = cache[k] /\ paid'[k] = paid[k]
<1>1. run[r] # Idle
  BY DEF Embedded, Idle
<1>2. run[r] \in Run /\ RunOK(run[r])
  BY <1>1, PendingIsFinite DEF TypeInv
<1>3. \A n \in run[r].pending : n \in Notes /\ run[r].snapshot[n] \in Texts
  BY <1>2 DEF RunOK, Run, InSnapshot
<1>4. cache' = [k \in Keys |->
         IF k[1] \in run[r].pending /\ k[2] = run[r].model
           THEN [hash |-> run[r].snapshot[k[1]],
                 vector |-> [of |-> run[r].snapshot[k[1]], model |-> run[r].model]]
           ELSE cache[k]]
  <2>1. DOMAIN cache = Keys
    BY DEF TypeInv
  <2> QED
    BY <2>1 DEF Embedded, Store, Put, Answer, InputHash
<1>5. paid' = [k \in Keys |->
         IF k[1] \in run[r].pending /\ k[2] = run[r].model THEN run[r].snapshot[k[1]]
           ELSE paid[k]]
  BY DEF Embedded, Paid, Keys
<1>6. \A k \in Keys :
              IF k[1] \in run[r].pending /\ k[2] = run[r].model
                THEN LET text == run[r].snapshot[k[1]]
                     IN  /\ text \in Texts /\ paid'[k] = text
                         /\ cache'[k] = [hash |-> text, vector |-> [of |-> text, model |-> k[2]]]
                ELSE cache'[k] = cache[k] /\ paid'[k] = paid[k]
  BY <1>3, <1>4, <1>5
<1>7. \A k \in Keys : cache'[k] \in StoredRow \cup {NoVector} /\ paid'[k] \in Texts \cup {NoVector}
  <2> SUFFICES ASSUME NEW k \in Keys
               PROVE  cache'[k] \in StoredRow \cup {NoVector} /\ paid'[k] \in Texts \cup {NoVector}
    OBVIOUS
  <2>1. CASE k[1] \in run[r].pending /\ k[2] = run[r].model
    <3> DEFINE text == run[r].snapshot[k[1]]
    <3>1. k[2] \in Models
      BY DEF Keys
    <3>2. /\ text \in Texts /\ paid'[k] = text
          /\ cache'[k] = [hash |-> text, vector |-> [of |-> text, model |-> k[2]]]
      BY <1>6, <2>1
    <3> HIDE DEF text
    <3> QED
      BY <3>1, <3>2 DEF StoredRow
  <2>2. CASE ~(k[1] \in run[r].pending /\ k[2] = run[r].model)
    BY <1>6, <2>2 DEF TypeInv
  <2> QED
    BY <2>1, <2>2
<1> QED
  BY <1>4, <1>5, <1>6, <1>7

LEMMA TypeInit == Init => TypeInv
<1> SUFFICES ASSUME Init PROVE TypeInv
  OBVIOUS
<1>1. notes \in [Notes -> Content \cup {NoNote}] /\ saved \in [Notes -> Int]
  BY EmbeddingsAssumption DEF Init
<1>2. \A r \in Runs : run[r] = Idle
  BY DEF Init
<1> QED
  BY <1>1, <1>2 DEF Init, TypeInv, Keys

LEMMA TypeStep == TypeInv /\ [Next]_vars => TypeInv'
<1> SUFFICES ASSUME TypeInv, [Next]_vars PROVE TypeInv'
  OBVIOUS
<1>1. ASSUME NEW r \in Runs, StartRun(r) PROVE TypeInv'
  <2>1. UNCHANGED <<notes, saved, cache, paid, edits>> /\ starts' = starts + 1
    BY <1>1 DEF StartRun
  <2>2. run' \in [Runs -> Run \cup {Idle}]
    BY <1>1, StartEffect
  <2>3. \A q \in Runs : run'[q] # Idle => RunOK(run'[q])
    BY <1>1, StartKeepsRuns
  <2> QED
    BY <2>1, <2>2, <2>3 DEF TypeInv
<1>2. ASSUME NEW r \in Runs, Consider(r) PROVE TypeInv'
  <2>1. UNCHANGED <<notes, saved, cache, paid, edits, starts>>
    BY <1>2 DEF Consider
  <2> QED
    BY <1>2, <2>1, ConsiderKeepsRun DEF TypeInv
<1>3. ASSUME NEW r \in Runs, LastBatch(r) PROVE TypeInv'
  <2>1. UNCHANGED <<notes, saved, cache, paid, edits, starts>>
    BY <1>3 DEF LastBatch
  <2> QED
    BY <1>3, <2>1, LastBatchKeepsRun DEF TypeInv
<1>4. ASSUME NEW r \in Runs, Embedded(r) PROVE TypeInv'
  <2>1. UNCHANGED <<notes, saved, edits, starts>>
    BY <1>4 DEF Embedded
  <2>2. /\ cache' \in [Keys -> StoredRow \cup {NoVector}]
        /\ paid' \in [Keys -> Texts \cup {NoVector}]
    BY <1>4, EmbeddedEffect
  <2> QED
    BY <1>4, <2>1, <2>2, FlushKeepsRun DEF TypeInv
<1>5. ASSUME NEW r \in Runs, BatchFails(r) PROVE TypeInv'
  <2>1. UNCHANGED <<notes, saved, cache, paid, edits, starts>>
    BY <1>5 DEF BatchFails
  <2> QED
    BY <1>5, <2>1, FlushKeepsRun DEF TypeInv
<1>6. ASSUME NEW r \in Runs, Die(r) PROVE TypeInv'
  <2>1. UNCHANGED <<notes, saved, cache, paid, edits, starts>>
    BY <1>6 DEF Die
  <2> QED
    BY <1>6, <2>1, DieKeepsRuns DEF TypeInv
<1>7. CASE Edit
  <2>1. UNCHANGED <<cache, run, paid, starts>> /\ edits' = edits + 1
    BY <1>7 DEF Edit
  <2>2. edits' \in Nat
    BY <2>1 DEF TypeInv
  <2>3. notes' \in [Notes -> Content \cup {NoNote}]
    BY <1>7 DEF Edit, TypeInv
  <2>4. saved' \in [Notes -> Int]
    <3>1. PICK n \in Notes : saved' = [saved EXCEPT ![n] = edits']
      BY <1>7 DEF Edit, Live
    <3>2. edits' \in Int /\ saved \in [Notes -> Int]
      BY <2>2 DEF TypeInv
    <3> QED
      BY <3>1, <3>2
  <2> QED
    BY <2>1, <2>2, <2>3, <2>4 DEF TypeInv
<1>8. CASE UNCHANGED vars
  BY <1>8 DEF vars, TypeInv
<1> QED
  BY <1>1, <1>2, <1>3, <1>4, <1>5, <1>6, <1>7, <1>8 DEF Next

LEMMA TypeInvariant == Spec => []TypeInv
BY TypeInit, TypeStep, PTL DEF Spec

\* The table, the runs and the counters have their types, a batch is never longer
\* than BATCH_SIZE, a note waits in a batch or is still to be read but not both, and
\* a run that is over leaves none waiting (backfill_embeddings).
THEOREM TypeCorrect == Spec => []TypeOK
<1>1. TypeInv => TypeOK
  BY DEF TypeInv, TypeOK, RunOK, Keys, StoredRow, Hashes, InputHash, Vector
<1> QED
  BY <1>1, TypeInvariant, PTL

-----------------------------------------------------------------------------
(* The rows                                                                *)

LEMMA CacheInit == Init => CacheInv
BY DEF Init, CacheInv, KeyOK, Keys

LEMMA CacheStep == TypeInv /\ CacheInv /\ [Next]_vars => CacheInv'
<1> SUFFICES ASSUME TypeInv, CacheInv, [Next]_vars PROVE CacheInv'
  OBVIOUS
<1>1. ASSUME NEW r \in Runs, Embedded(r) PROVE CacheInv'
  <2> SUFFICES ASSUME NEW k \in Keys PROVE KeyOK(cache'[k], paid'[k], k)
    BY DEF CacheInv
  <2>1. CASE k[1] \in run[r].pending /\ k[2] = run[r].model
    <3> DEFINE text == run[r].snapshot[k[1]]
    <3>1. /\ text \in Texts /\ paid'[k] = text
          /\ cache'[k] = [hash |-> text, vector |-> [of |-> text, model |-> k[2]]]
      BY <1>1, <2>1, EmbeddedEffect
    <3> HIDE DEF text
    <3>2. k[2] \in Models
      BY DEF Keys
    <3>3. cache'[k] # NoVector
      BY <3>1, <3>2, ConstantsDiffer DEF Sent
    <3> QED
      BY <3>1, <3>3 DEF KeyOK
  <2>2. CASE ~(k[1] \in run[r].pending /\ k[2] = run[r].model)
    <3>1. cache'[k] = cache[k] /\ paid'[k] = paid[k]
      BY <1>1, <2>2, EmbeddedEffect
    <3> QED
      BY <3>1 DEF CacheInv
  <2> QED
    BY <2>1, <2>2
<1>2. CASE UNCHANGED <<cache, paid>>
  BY <1>2 DEF CacheInv
<1> QED
  BY <1>1, <1>2 DEF Next, StartRun, Consider, LastBatch, BatchFails, Die, Edit, vars

LEMMA CacheInvariant == Spec => []CacheInv
BY CacheInit, CacheStep, TypeInvariant, PTL DEF Spec

\* schema.sql:54-62: a row holds the vector of the text its hash stands for, made by
\* its own model, for any number of overlapping runs and edits during their calls.
THEOREM RowsAreTrue == Spec => []RowsSpeakTrue
<1>1. TypeInv /\ CacheInv => RowsSpeakTrue
  <2> SUFFICES ASSUME CacheInv, NEW n \in Notes, NEW m \in Models, cache[<<n, m>>] # NoVector
               PROVE  /\ cache[<<n, m>>].hash = InputHash(cache[<<n, m>>].vector.of)
                      /\ cache[<<n, m>>].vector.model = m
    BY DEF RowsSpeakTrue
  <2>1. <<n, m>> \in Keys /\ <<n, m>>[2] = m
    BY DEF Keys
  <2> QED
    BY <2>1 DEF CacheInv, KeyOK, InputHash
<1> QED
  BY <1>1, TypeInvariant, CacheInvariant, PTL

-----------------------------------------------------------------------------
(* Runs that no other run disturbs                                         *)

\* What a step of r other than its start leaves of it.
LEMMA StepOfOne ==
  ASSUME TypeInv, NEW r \in Runs, Consider(r) \/ LastBatch(r) \/ Embedded(r) \/ BatchFails(r)
  PROVE  /\ \A q \in Runs \ {r} : run'[q] = run[q]
         /\ IsActive(run[r])
         /\ run'[r].model = run[r].model /\ run'[r].alone = run[r].alone
<1>1. IsActive(run[r])
  BY DEF IsActive, Consider, LastBatch, Embedded, BatchFails
<1>2. \E v \in Run : run' = [run EXCEPT ![r] = v] /\ Kept(run[r], v)
  BY ConsiderEffect, LastBatchEffect, EmbeddedRun, BatchFailsRun
<1> QED
  BY <1>1, <1>2 DEF TypeInv, Kept

LEMMA AloneInit == Init => AloneInv
BY DEF Init, AloneInv, IsActive, Idle

LEMMA AloneStep == TypeInv /\ AloneInv /\ [Next]_vars => AloneInv'
<1> SUFFICES ASSUME TypeInv, AloneInv, [Next]_vars,
                    NEW p \in Runs, NEW q \in Runs,
                    IsActive(run'[p]), IsActive(run'[q]), p # q, run'[p].alone
             PROVE  run'[q].model # run'[p].model
  BY DEF AloneInv
<1>1. ASSUME NEW r \in Runs, StartRun(r) PROVE run'[q].model # run'[p].model
  <2>1. \A s \in Runs \ {r} : IsActive(run'[s]) =>
          /\ IsActive(run[s]) /\ run'[s].model = run[s].model
          /\ run'[s].alone => run[s].alone
    <3> SUFFICES ASSUME NEW s \in Runs \ {r}, IsActive(run'[s])
                 PROVE  /\ IsActive(run[s]) /\ run'[s].model = run[s].model
                        /\ run'[s].alone => run[s].alone
      OBVIOUS
    <3>1. CASE run'[s] = run[s]
      BY <3>1
    <3>2. CASE run[s] \in Run /\ Active(s) /\ run'[s] = [run[s] EXCEPT !.alone = FALSE]
      BY <3>2 DEF Run, Active, IsActive
    <3> QED
      BY <1>1, <3>1, <3>2, StartEffect
  <2>2. \A s \in Runs \ {r} : IsActive(run[s]) /\ run[s].model = run'[r].model =>
                                run'[s].alone = FALSE /\ run'[r].alone = FALSE
    BY <1>1, StartEffect DEF Active, IsActive
  <2>3. CASE p = r
    BY <2>1, <2>2, <2>3
  <2>4. CASE q = r
    BY <2>1, <2>2, <2>4
  <2>5. CASE p # r /\ q # r
    BY <2>1, <2>5 DEF AloneInv
  <2> QED
    BY <2>3, <2>4, <2>5
<1>2. ASSUME NEW r \in Runs, Consider(r) \/ LastBatch(r) \/ Embedded(r) \/ BatchFails(r)
      PROVE  run'[q].model # run'[p].model
  <2>1. \A s \in Runs : IsActive(run'[s]) =>
          /\ IsActive(run[s]) /\ run'[s].model = run[s].model
          /\ run'[s].alone = run[s].alone
    BY <1>2, StepOfOne
  <2> QED
    BY <2>1 DEF AloneInv
<1>3. ASSUME NEW r \in Runs, Die(r) PROVE run'[q].model # run'[p].model
  <2>1. ~IsActive(run'[r]) /\ \A s \in Runs \ {r} : run'[s] = run[s]
    BY <1>3, DieKeepsRuns DEF IsActive, Idle
  <2> QED
    BY <2>1 DEF AloneInv
<1>4. CASE UNCHANGED run
  BY <1>4 DEF AloneInv
<1> QED
  BY <1>1, <1>2, <1>3, <1>4 DEF Next, Edit, vars

LEMMA AloneInvariant == Spec => []AloneInv
BY AloneInit, AloneStep, TypeInvariant, PTL DEF Spec

\* The cache, asked by hash, has what the cache, asked by text, does not lack.
LEMMA CachedOrLacking ==
  ASSUME TypeInv, CacheInv, NEW r \in Runs, run[r] # Idle, NEW n \in Notes
  PROVE  IsCached(n, run[r].model, InputHash(run[r].snapshot[n])) <=> ~Lacks(cache, run[r], n)
<1>1. <<n, run[r].model>> \in Keys
  BY PendingIsFinite DEF Run, Keys
<1> QED
  BY <1>1 DEF CacheInv, KeyOK, IsCached, Lacks, InputHash

LEMMA ConsiderKeepsReport ==
  ASSUME TypeInv, CacheInv, NEW r \in Runs, Consider(r), ReportOK(cache, run[r])
  PROVE  ReportOK(cache, run'[r])
<1> DEFINE u == run[r]
           current(n) == IsCached(n, u.model, InputHash(u.snapshot[n]))
<1>1. PICK n \in u.rows, v \in Run :
        /\ run' = [run EXCEPT ![r] = v]
        /\ Kept(u, v)
        /\ v.rows = u.rows \ {n}
        /\ v.pending = u.pending \cup (IF current(n) THEN {} ELSE {n})
        /\ v.failed = u.failed
  BY ConsiderEffect
<1>2. u # Idle
  BY DEF Consider, Idle
<1>3. u \in Run /\ RunOK(u) /\ ReportOK(cache, u)
  BY <1>2, PendingIsFinite DEF TypeInv
<1>4. n \in Notes
  BY <1>3 DEF Run
<1>5. current(n) <=> ~Lacks(cache, u, n)
  BY <1>2, <1>4, CachedOrLacking
<1>6. run'[r] = v
  BY <1>1 DEF TypeInv
<1> HIDE DEF u, current
<1>7. \A m : Lacks(cache, v, m) <=> Lacks(cache, u, m)
  BY <1>1 DEF Lacks, Kept
<1>8. InSnapshot(v) = InSnapshot(u)
  BY <1>1 DEF InSnapshot, Kept
<1>9. n \in InSnapshot(u) /\ n \notin u.pending
  BY <1>3 DEF RunOK
<1>10. Looked(v) = Looked(u) \cup {n} /\ n \notin Looked(u)
  BY <1>1, <1>8, <1>9 DEF Looked
<1>11. Lacking(cache, v, v.pending) = v.pending
  BY <1>1, <1>3, <1>5, <1>7 DEF Lacking, ReportOK
<1>12. Lacking(cache, v, Looked(v) \ v.pending) = Lacking(cache, u, Looked(u) \ u.pending)
  BY <1>1, <1>5, <1>7, <1>9, <1>10 DEF Lacking
<1> QED
  BY <1>1, <1>3, <1>6, <1>11, <1>12 DEF ReportOK

LEMMA LastBatchKeepsReport ==
  ASSUME TypeInv, NEW r \in Runs, LastBatch(r), ReportOK(cache, run[r])
  PROVE  ReportOK(cache, run'[r])
<1> DEFINE u == run[r]
<1>1. PICK v \in Run :
        /\ run' = [run EXCEPT ![r] = v]
        /\ Kept(u, v)
        /\ v.rows = u.rows /\ v.pending = u.pending /\ v.failed = u.failed
  BY LastBatchEffect
<1>2. run'[r] = v /\ ReportOK(cache, u)
  BY <1>1 DEF TypeInv
<1> HIDE DEF u
<1>3. Looked(v) = Looked(u) /\ \A S : Lacking(cache, v, S) = Lacking(cache, u, S)
  BY <1>1 DEF Looked, InSnapshot, Lacking, Lacks, Kept
<1> QED
  BY <1>1, <1>2, <1>3 DEF ReportOK

\* A failed batch joins the notes the cache lacks.
LEMMA BatchFailsKeepsReport ==
  ASSUME TypeInv, NEW r \in Runs, BatchFails(r), ReportOK(cache, run[r])
  PROVE  ReportOK(cache, run'[r])
<1> DEFINE u == run[r]
<1>1. PICK v \in Run :
        /\ run' = [run EXCEPT ![r] = v]
        /\ Kept(u, v)
        /\ v.rows = u.rows /\ v.pending = {}
        /\ v.failed = u.failed + Cardinality(u.pending)
  BY BatchFailsRun
<1>2. u # Idle
  BY DEF BatchFails, Idle
<1>3. u \in Run /\ RunOK(u) /\ ReportOK(cache, u)
  BY <1>2, PendingIsFinite DEF TypeInv
<1>4. run'[r] = v
  BY <1>1 DEF TypeInv
<1> HIDE DEF u
<1>5. Looked(v) = Looked(u) /\ \A S : Lacking(cache, v, S) = Lacking(cache, u, S)
  BY <1>1 DEF Looked, InSnapshot, Lacking, Lacks, Kept
<1> DEFINE L == Lacking(cache, u, Looked(u) \ u.pending)
<1>6. u.pending \subseteq Looked(u)
  BY <1>3 DEF RunOK, Looked
<1>7. Lacking(cache, u, Looked(u)) = L \cup u.pending /\ L \cap u.pending = {}
  BY <1>3, <1>6 DEF ReportOK, Lacking
<1>8. L \in SUBSET Notes /\ u.pending \in SUBSET Notes
  BY <1>3 DEF Lacking, Looked, InSnapshot, Run
<1>9. IsFiniteSet(L) /\ IsFiniteSet(u.pending) /\ Cardinality({}) = 0
      /\ Cardinality(L) \in Nat /\ Cardinality(u.pending) \in Nat
  BY <1>3, <1>8, SnapshotIsFinite, FS_EmptySet
<1>10. u.failed = Cardinality(L)
  BY <1>3 DEF ReportOK
<1> HIDE DEF L
<1>11. Cardinality(L \cup u.pending) = Cardinality(L) + Cardinality(u.pending)
  <2>1. Cardinality(L \cup u.pending)
          = Cardinality(L) + Cardinality(u.pending) - Cardinality(L \cap u.pending)
    BY <1>9, FS_Union
  <2>2. Cardinality(L \cap u.pending) = 0
    BY <1>7, <1>9
  <2> QED
    BY <2>1, <2>2, <1>9
<1>12. Lacking(cache, v, v.pending) = v.pending
  BY <1>1 DEF Lacking
<1>13. Looked(v) \ v.pending = Looked(u)
  BY <1>1, <1>5
<1>14. v.failed = Cardinality(Lacking(cache, v, Looked(v) \ v.pending))
  BY <1>1, <1>5, <1>7, <1>10, <1>11, <1>13
<1> QED
  BY <1>4, <1>12, <1>14 DEF ReportOK

\* An answered batch is no longer lacking, and nothing else changes for its run.
LEMMA EmbeddedKeepsReport ==
  ASSUME TypeInv, NEW r \in Runs, Embedded(r), ReportOK(cache, run[r])
  PROVE  ReportOK(cache', run'[r])
<1> DEFINE u == run[r]
<1>1. PICK v \in Run :
        /\ run' = [run EXCEPT ![r] = v]
        /\ Kept(u, v)
        /\ v.rows = u.rows /\ v.pending = {} /\ v.failed = u.failed
  BY EmbeddedRun
<1>2. u # Idle
  BY DEF Embedded, Idle
<1>3. u \in Run /\ RunOK(u) /\ ReportOK(cache, u)
  BY <1>2, PendingIsFinite DEF TypeInv
<1>4. run'[r] = v
  BY <1>1 DEF TypeInv
<1>5. ASSUME NEW n \in Notes
      PROVE  Lacks(cache', v, n) <=> n \notin u.pending /\ Lacks(cache, u, n)
  <2> DEFINE k == <<n, u.model>>
  <2>1. k \in Keys /\ k[1] = n /\ k[2] = u.model
    BY <1>3 DEF Keys, Run
  <2>2. v.model = u.model /\ v.snapshot = u.snapshot
    BY <1>1 DEF Kept
  <2>3. CASE n \in u.pending
    <3> DEFINE text == u.snapshot[n]
    <3>1. text \in Texts /\ cache'[k] = [hash |-> text, vector |-> [of |-> text, model |-> u.model]]
      BY <2>1, <2>3, EmbeddedEffect
    <3>2. u.model \in Models
      BY <1>3 DEF Run
    <3> HIDE DEF text
    <3>3. cache'[k] # NoVector /\ cache'[k].vector.of = text
      BY <3>1, <3>2, ConstantsDiffer DEF Sent
    <3> QED
      BY <2>2, <2>3, <3>3 DEF Lacks, text
  <2>4. CASE n \notin u.pending
    <3>1. cache'[k] = cache[k]
      BY <2>1, <2>4, EmbeddedEffect
    <3> QED
      BY <2>2, <2>4, <3>1 DEF Lacks
  <2> QED
    BY <2>3, <2>4
<1> HIDE DEF u
<1>6. Looked(v) = Looked(u) /\ Looked(u) \subseteq Notes
  BY <1>1 DEF Looked, InSnapshot, Kept
<1>7. Lacking(cache', v, Looked(v) \ v.pending) = Lacking(cache, u, Looked(u) \ u.pending)
  BY <1>1, <1>5, <1>6 DEF Lacking
<1>8. Lacking(cache', v, v.pending) = v.pending
  BY <1>1 DEF Lacking
<1> QED
  BY <1>1, <1>3, <1>4, <1>7, <1>8 DEF ReportOK

\* A run of another model does not change what this one lacks.
LEMMA EmbeddedKeepsOthers ==
  ASSUME TypeInv, NEW r \in Runs, Embedded(r), NEW q \in Runs \ {r}, run[q] \in Run,
         run[q].model # run[r].model, ReportOK(cache, run[q])
  PROVE  ReportOK(cache', run[q])
<1> DEFINE u == run[q]
<1>1. \A n \in Notes : Lacks(cache', u, n) <=> Lacks(cache, u, n)
  <2> SUFFICES ASSUME NEW n \in Notes PROVE Lacks(cache', u, n) <=> Lacks(cache, u, n)
    OBVIOUS
  <2>1. <<n, u.model>> \in Keys /\ <<n, u.model>>[2] = u.model
    BY DEF Keys, Run
  <2>2. cache'[<<n, u.model>>] = cache[<<n, u.model>>]
    BY <2>1, EmbeddedEffect
  <2> QED
    BY <2>2 DEF Lacks
<1>2. u.pending \subseteq Notes /\ Looked(u) \subseteq Notes
  BY DEF Run, Looked, InSnapshot
<1>3. /\ Lacking(cache', u, u.pending) = Lacking(cache, u, u.pending)
      /\ Lacking(cache', u, Looked(u) \ u.pending) = Lacking(cache, u, Looked(u) \ u.pending)
  <2> HIDE DEF u
  <2> QED
    BY <1>1, <1>2 DEF Lacking
<1> QED
  BY <1>3 DEF ReportOK

LEMMA StartKeepsReport ==
  ASSUME TypeInv, NEW r \in Runs, StartRun(r), ReportInv
  PROVE  \A q \in Runs : IsActive(run'[q]) /\ run'[q].alone => ReportOK(cache, run'[q])
<1>1. ReportOK(cache, run'[r])
  <2> DEFINE v == run'[r]
  <2>1. v.snapshot = [n \in Notes |-> TextOf(n)] /\ v.rows = Live /\ v.pending = {} /\ v.failed = 0
    BY StartEffect
  <2> HIDE DEF v
  <2>2. InSnapshot(v) = Live
    BY <2>1, TextIsSent DEF InSnapshot, Live, TypeInv
  <2>3. Looked(v) = {} /\ Cardinality({}) = 0
    BY <2>1, <2>2, FS_EmptySet DEF Looked
  <2>4. Lacking(cache, v, {}) = {}
    BY DEF Lacking
  <2> QED
    BY <2>1, <2>3, <2>4 DEF ReportOK, v
<1>2. ASSUME NEW q \in Runs \ {r}, IsActive(run'[q]), run'[q].alone
      PROVE  ReportOK(cache, run'[q])
  <2>1. run'[q] = run[q]
    <3>1. CASE run[q] \in Run /\ run'[q] = [run[q] EXCEPT !.alone = FALSE]
      BY <1>2, <3>1 DEF Run
    <3> QED
      BY <3>1, StartEffect
  <2> QED
    BY <1>2, <2>1 DEF ReportInv
<1> QED
  BY <1>1, <1>2

LEMMA ReportInit == Init => ReportInv
BY DEF Init, ReportInv, IsActive, Idle

LEMMA ReportStep == TypeInv /\ CacheInv /\ AloneInv /\ ReportInv /\ [Next]_vars => ReportInv'
<1> SUFFICES ASSUME TypeInv, CacheInv, AloneInv, ReportInv, [Next]_vars,
                    NEW q \in Runs, IsActive(run'[q]), run'[q].alone
             PROVE  ReportOK(cache', run'[q])
  BY DEF ReportInv
<1>1. ASSUME NEW r \in Runs, StartRun(r) PROVE ReportOK(cache', run'[q])
  <2>1. cache' = cache
    BY <1>1 DEF StartRun
  <2> QED
    BY <1>1, <2>1, StartKeepsReport
<1>2. ASSUME NEW r \in Runs, Consider(r) \/ LastBatch(r) \/ BatchFails(r)
      PROVE  ReportOK(cache', run'[q])
  <2>1. cache' = cache
    BY <1>2 DEF Consider, LastBatch, BatchFails
  <2>2. CASE q = r
    <3>1. ReportOK(cache, run[r])
      BY <1>2, <2>2, StepOfOne DEF ReportInv
    <3> QED
      BY <1>2, <2>1, <2>2, <3>1, ConsiderKeepsReport, LastBatchKeepsReport, BatchFailsKeepsReport
  <2>3. CASE q # r
    BY <1>2, <2>1, <2>3, StepOfOne DEF ReportInv
  <2> QED
    BY <2>2, <2>3
<1>3. ASSUME NEW r \in Runs, Embedded(r) PROVE ReportOK(cache', run'[q])
  <2>1. CASE q = r
    <3>1. ReportOK(cache, run[r])
      BY <1>3, <2>1, StepOfOne DEF ReportInv
    <3> QED
      BY <1>3, <2>1, <3>1, EmbeddedKeepsReport
  <2>2. CASE q # r
    <3>1. run'[q] = run[q] /\ IsActive(run[r])
      BY <1>3, <2>2, StepOfOne
    <3>2. ReportOK(cache, run[q]) /\ run[q].model # run[r].model
      BY <2>2, <3>1 DEF ReportInv, AloneInv
    <3>3. run[q] \in Run
      <4>1. run[q] # Idle
        BY <3>1 DEF IsActive, Idle
      <4> QED
        BY <4>1, PendingIsFinite
    <3> QED
      BY <1>3, <2>2, <3>1, <3>2, <3>3, EmbeddedKeepsOthers
  <2> QED
    BY <2>1, <2>2
<1>4. ASSUME NEW r \in Runs, Die(r) PROVE ReportOK(cache', run'[q])
  <2>1. cache' = cache
    BY <1>4 DEF Die
  <2>2. run'[q] = run[q]
    BY <1>4, DieKeepsRuns DEF IsActive, Idle
  <2> QED
    BY <2>1, <2>2 DEF ReportInv
<1>5. CASE UNCHANGED <<cache, run>>
  BY <1>5 DEF ReportInv
<1> QED
  BY <1>1, <1>2, <1>3, <1>4, <1>5 DEF Next, Edit, vars

LEMMA CachingInvariant == Spec => []CachingInv
BY ReportInit, ReportStep, TypeInvariant, CacheInvariant, AloneInvariant, PTL DEF Spec, CachingInv

-----------------------------------------------------------------------------
(* What follows                                                            *)

\* embeddings.py:80, "so a second run is free": for any batch size, any number of
\* earlier runs, switches of the model and edits, a run no other run of its model
\* disturbs never sends a text whose vector is the last its model made for the note.
THEOREM NothingIsPaidTwice == Spec => []PaidOnce
<1>1. CachingInv => PaidOnce
  <2> SUFFICES ASSUME CachingInv, NEW r \in Runs, run[r].at = "embedding", run[r].alone,
                      NEW n \in run[r].pending
               PROVE  paid[<<n, run[r].model>>] # run[r].snapshot[n]
    BY DEF PaidOnce
  <2>1. run[r] # Idle
    BY DEF Idle
  <2>2. run[r] \in Run
    BY <2>1, PendingIsFinite DEF CachingInv
  <2>3. ReportOK(cache, run[r])
    BY DEF CachingInv, ReportInv, IsActive
  <2> DEFINE k == <<n, run[r].model>>
  <2>4. k \in Keys /\ run[r].snapshot[n] \in Sent
    BY <2>2 DEF Run, Keys, Sent
  <2>5. Lacks(cache, run[r], n)
    BY <2>3 DEF ReportOK, Lacking
  <2>6. KeyOK(cache[k], paid[k], k)
    BY <2>4 DEF CachingInv, CacheInv
  <2> QED
    BY <2>4, <2>5, <2>6, ConstantsDiffer DEF Lacks, KeyOK
<1> QED
  BY <1>1, CachingInvariant, PTL

\* The other runs stay where they are in their loops while one takes a step.
LEMMA OthersKeepTheirStage ==
  ASSUME TypeInv, NEW q \in Runs, NEW r \in Runs, q # r,
         StartRun(q) \/ Consider(q) \/ LastBatch(q) \/ Embedded(q) \/ BatchFails(q) \/ Die(q)
  PROVE  ~(run[r].at = "scanning" /\ run'[r].at = "done")
<1> SUFFICES ASSUME run'[r].at = "done" PROVE run[r].at = "done"
  OBVIOUS
<1>1. CASE StartRun(q)
  <2>1. CASE run'[r] = run[r]
    BY <2>1
  <2>2. CASE run[r] \in Run /\ run'[r] = [run[r] EXCEPT !.alone = FALSE]
    BY <2>2 DEF Run
  <2> QED
    BY <1>1, <2>1, <2>2, StartEffect
<1>2. CASE Consider(q) \/ LastBatch(q) \/ Embedded(q) \/ BatchFails(q)
  BY <1>2, StepOfOne
<1>3. CASE Die(q)
  BY <1>3, DieKeepsRuns DEF Idle
<1> QED
  BY <1>1, <1>2, <1>3

LEMMA ConsideringIsNotTheEnd ==
  ASSUME TypeInv, NEW r \in Runs, Consider(r)
  PROVE  run'[r].at # "done"
BY ConsiderEffect DEF TypeInv, Consider

\* A run that ends with nothing left to send has accounted for its notes.
LEMMA LastBatchReports ==
  ASSUME CachingInv, CachingInv', NEW r \in Runs, LastBatch(r),
         run'[r].at = "done", run[r].alone
  PROVE  Accounted(r)'
<1> DEFINE v == run'[r]
<1>1. TypeInv /\ TypeInv'
  BY DEF CachingInv
<1>2. v # Idle
  BY DEF Idle
<1>3. v \in Run /\ RunOK(v)
  BY <1>1, <1>2 DEF TypeInv
<1>4. ReportOK(cache, run[r])
  BY DEF CachingInv, ReportInv, IsActive, LastBatch
<1>5. cache' = cache
  BY DEF LastBatch
<1>6. ReportOK(cache', v)
  BY <1>1, <1>4, <1>5, LastBatchKeepsReport
<1> HIDE DEF v
<1>7. v.pending = {} /\ v.at = "done"
  BY <1>3 DEF RunOK, v
<1>8. v.considered = Cardinality(Looked(v))
      /\ v.considered = v.cached + v.embedded + v.failed
  BY <1>3, <1>7, FS_EmptySet DEF RunOK, Run
<1>9. v.failed = Cardinality(Lacking(cache', v, Looked(v)))
  BY <1>6, <1>7 DEF ReportOK
<1>10. v.considered = Cardinality({n \in Notes : v.snapshot[n] # NoNote} \ v.rows)
  BY <1>8 DEF Looked, InSnapshot
<1>11. v.failed = Cardinality({n \in {n \in Notes : v.snapshot[n] # NoNote} \ v.rows :
           cache'[<<n, v.model>>] = NoVector
             \/ cache'[<<n, v.model>>].vector.of # v.snapshot[n]})
  BY <1>9 DEF Looked, InSnapshot, Lacking, Lacks
<1> QED
  BY <1>8, <1>10, <1>11 DEF Accounted, v

\* embeddings.py:79-82: a run no other run of its model disturbed ends with counts
\* that account for every note it read, and counts as failed exactly the notes the
\* cache has no vector of the text of.
THEOREM ReportsAreTrue == Spec => ReportIsTrue
<1>1. ASSUME CachingInv, CachingInv', [Next]_vars, NEW r \in Runs,
             run[r].at = "scanning", run'[r].at = "done", run[r].alone
      PROVE  Accounted(r)'
  <2>1. LastBatch(r)
    <3>1. ~(\E q \in Runs : q # r /\ (StartRun(q) \/ Consider(q) \/ LastBatch(q)
                                  \/ Embedded(q) \/ BatchFails(q) \/ Die(q)))
      BY <1>1, OthersKeepTheirStage DEF CachingInv
    <3>2. ~StartRun(r) /\ ~Embedded(r) /\ ~BatchFails(r)
      BY <1>1 DEF StartRun, Active, Embedded, BatchFails
    <3>3. ~Consider(r)
      BY <1>1, ConsideringIsNotTheEnd DEF CachingInv
    <3>4. ~Die(r)
      BY <1>1, DieKeepsRuns DEF Idle, CachingInv, TypeInv, Die
    <3>5. ~Edit /\ vars' # vars
      BY <1>1 DEF Edit, vars
    <3> QED
      BY <1>1, <3>1, <3>2, <3>3, <3>4, <3>5 DEF Next
  <2> QED
    BY <1>1, <2>1, LastBatchReports
<1>2. CachingInv /\ CachingInv' /\ [Next]_vars =>
        [\A r \in Runs : (run[r].at = "scanning" /\ run'[r].at = "done" /\ run[r].alone)
                           => Accounted(r)']_vars
  BY <1>1
<1> QED
  BY <1>2, CachingInvariant, PTL DEF Spec, ReportIsTrue

-----------------------------------------------------------------------------
(* Sums over sets: what a fold adds up, by induction over the subsets      *)

\* Among natural numbers there is a smallest.
LEMMA SmallestNumber ==
  ASSUME NEW C \in SUBSET Nat, C # {}
  PROVE  \E n \in C : \A m \in C : n <= m
<1>. DEFINE R == OpToRel(<, Nat)
<1>1. IsWellFoundedOn(R, Nat)
  BY NatLessThanWellFounded
<1>2. \A m, n \in Nat : m < n => <<m, n>> \in R
  BY DEF OpToRel
<1>. HIDE DEF R
<1>3. PICK n \in C : \A m \in C : ~(<<m, n>> \in R)
  BY <1>1, WFMin
<1>4. \A m \in C : m \in Nat /\ n \in Nat /\ ~(m < n)
  BY <1>2, <1>3
<1>. QED
  BY <1>3, <1>4

\* Among sets of a finite one there is a smallest.
LEMMA SmallestSet ==
  ASSUME NEW U, IsFiniteSet(U), NEW C \in SUBSET SUBSET U, C # {}
  PROVE  \E S \in C : \A T \in C : T \subseteq S => T = S
<1>. DEFINE R == StrictSubsetOrdering(U)
<1>1. IsWellFoundedOn(R, SUBSET U)
  BY FS_StrictSubsetOrderingWellFounded, FS_FiniteSubsetsOfFinite
<1>. HIDE DEF R
<1>2. \E S \in C : \A T \in C : ~(<<T, S>> \in R)
  BY <1>1, WFMin
<1>. QED
  BY <1>2 DEF R, StrictSubsetOrdering

\* What the fold of Total computes over the subsets of S, with the weights w.
Chosen(s) == CHOOSE x \in s : TRUE
Adds(h, w, S) ==
  h = [s \in SUBSET S |-> IF s = {} THEN 0 ELSE h[s \ {Chosen(s)}] + w[Chosen(s)]]

LEMMA ChosenIsIn == ASSUME NEW s, s # {} PROVE Chosen(s) \in s
  BY DEF Chosen

LEMMA AddsAt ==
  ASSUME NEW h, NEW w, NEW S, Adds(h, w, S)
  PROVE  /\ h[{}] = 0
         /\ \A s \in SUBSET S : s # {} =>
              /\ Chosen(s) \in s
              /\ s \ {Chosen(s)} \in SUBSET S
              /\ h[s] = h[s \ {Chosen(s)}] + w[Chosen(s)]
<1>. DEFINE F == [s \in SUBSET S |-> IF s = {} THEN 0 ELSE h[s \ {Chosen(s)}] + w[Chosen(s)]]
<1>1. h = F
  BY DEF Adds
<1>2. F[{}] = 0
  OBVIOUS
<1>3. ASSUME NEW s \in SUBSET S, s # {}
      PROVE  F[s] = h[s \ {Chosen(s)}] + w[Chosen(s)]
  BY <1>3
<1>. HIDE DEF F
<1>. QED
  BY <1>1, <1>2, <1>3, ChosenIsIn

\* There is one such function at most ...
LEMMA AddsOnce ==
  ASSUME NEW S, IsFiniteSet(S), NEW w, NEW g, NEW h, NEW T \in SUBSET S, NEW U \in SUBSET S,
         Adds(g, w, T), Adds(h, w, U)
  PROVE  \A s \in SUBSET (T \cap U) : g[s] = h[s]
<1>. DEFINE C == {s \in SUBSET (T \cap U) : g[s] # h[s]}
<1>. SUFFICES ASSUME C # {} PROVE FALSE
  OBVIOUS
<1>1. C \in SUBSET SUBSET S
  OBVIOUS
<1>. HIDE DEF C
<1>2. PICK s \in C : \A t \in C : t \subseteq s => t = s
  BY <1>1, SmallestSet
<1>. USE DEF C
<1>3. s \in SUBSET T /\ s \in SUBSET U /\ g[s] # h[s]
  BY <1>2
<1>4. s # {}
  BY <1>3, AddsAt
<1>. DEFINE r == s \ {Chosen(s)}
<1>5. Chosen(s) \in s /\ r \in SUBSET (T \cap U) /\ r \subseteq s /\ r # s
  BY <1>3, <1>4, ChosenIsIn
<1>6. g[r] = h[r]
  BY <1>2, <1>5
<1>7. g[s] = g[r] + w[Chosen(s)] /\ h[s] = h[r] + w[Chosen(s)]
  BY <1>3, <1>4, AddsAt
<1>. QED
  BY <1>3, <1>6, <1>7

\* ... and one at least.
LEMMA AddsExists ==
  ASSUME NEW S, IsFiniteSet(S), NEW w
  PROVE  \E h : Adds(h, w, S)
<1>. DEFINE C == {T \in SUBSET S : ~\E h : Adds(h, w, T)}
<1>. SUFFICES ASSUME C # {} PROVE FALSE
  OBVIOUS
<1>1. C \in SUBSET SUBSET S
  OBVIOUS
<1>. HIDE DEF C
<1>2. PICK T \in C : \A U \in C : U \subseteq T => U = T
  BY <1>1, SmallestSet
<1>. USE DEF C
<1>3. T \in SUBSET S /\ ~\E h : Adds(h, w, T)
  BY <1>2
<1>. DEFINE Of(U) == CHOOSE h : Adds(h, w, U)
<1>4. \A U \in SUBSET T : U # T => Adds(Of(U), w, U)
  <2>1. \A U \in SUBSET T : U # T => \E h : Adds(h, w, U)
    BY <1>2, <1>3
  <2>. QED
    BY <2>1
<1>. DEFINE V(s)  == IF s = {} THEN 0
                     ELSE Of(s \ {Chosen(s)})[s \ {Chosen(s)}] + w[Chosen(s)]
            h == [s \in SUBSET T |-> V(s)]
<1>. HIDE DEF Of
<1>5. \A U \in SUBSET T : U # T => Of(U)[U] = V(U)
  <2>. TAKE U \in SUBSET T
  <2>. HAVE U # T
  <2>1. Adds(Of(U), w, U)
    BY <1>4
  <2>2. CASE U = {}
    BY <2>1, <2>2, AddsAt
  <2>3. CASE U # {}
    <3>. DEFINE r == U \ {Chosen(U)}
    <3>1. Of(U)[U] = Of(U)[r] + w[Chosen(U)] /\ Chosen(U) \in U
      BY <2>1, <2>3, AddsAt
    <3>2. r \in SUBSET T /\ r # T /\ r \in SUBSET U
      BY <3>1
    <3>3. Adds(Of(r), w, r)
      BY <1>4, <3>2
    <3>4. U \in SUBSET S /\ r \in SUBSET S
      BY <1>3
    <3>5. Of(U)[r] = Of(r)[r]
      <4>1. r \in SUBSET (U \cap r)
        OBVIOUS
      <4>. HIDE DEF r
      <4>. QED
        BY <2>1, <3>3, <3>4, <4>1, AddsOnce
    <3>. QED
      BY <2>3, <3>1, <3>5
  <2>. QED
    BY <2>2, <2>3
<1>6. \A s \in SUBSET T : s # {} => h[s \ {Chosen(s)}] = Of(s \ {Chosen(s)})[s \ {Chosen(s)}]
  <2>. TAKE s \in SUBSET T
  <2>. HAVE s # {}
  <2>. DEFINE r == s \ {Chosen(s)}
  <2>1. r \in SUBSET T /\ r # T
    BY ChosenIsIn
  <2>2. h[r] = V(r)
    BY <2>1
  <2>. HIDE DEF r, V, h
  <2>3. h[r] = Of(r)[r]
    BY <2>1, <2>2, <1>5
  <2>. QED
    BY <2>3 DEF r
<1>7. \A s \in SUBSET T :
        h[s] = IF s = {} THEN 0 ELSE h[s \ {Chosen(s)}] + w[Chosen(s)]
  <2>. TAKE s \in SUBSET T
  <2>1. h[s] = V(s)
    OBVIOUS
  <2>. HIDE DEF h
  <2>. QED
    BY <1>6, <2>1
<1>8. h = [s \in SUBSET T |-> IF s = {} THEN 0 ELSE h[s \ {Chosen(s)}] + w[Chosen(s)]]
  <2>1. h = [s \in SUBSET T |-> h[s]]
    OBVIOUS
  <2>. HIDE DEF h
  <2>. QED
    BY <2>1, <1>7
<1>. HIDE DEF h
<1>. QED
  BY <1>3, <1>8 DEF Adds

\* What a neighbour adds to the sum of its tags.
Weight(n, m, text) == IF Likeness(n, m, text) > 0 THEN Likeness(n, m, text) ELSE 0
Weights(S, m, text) == [n \in S |-> Weight(n, m, text)]

LEMMA TotalAdds ==
  ASSUME NEW near, NEW tag, NEW m, NEW text, IsFiniteSet(Supporters(near, tag))
  PROVE  LET S == Supporters(near, tag)
         IN  \E h : Adds(h, Weights(S, m, text), S) /\ Total(near, tag, m, text) = h[S]
<1>. DEFINE S == Supporters(near, tag)
            w == Weights(S, m, text)
            F(g) == [s \in SUBSET S |->
                       IF s = {} THEN 0
                       ELSE g[s \ {CHOOSE x \in s : TRUE}] + Weight(CHOOSE x \in s : TRUE, m, text)]
<1>1. Total(near, tag, m, text) = (CHOOSE g : g = F(g))[S]
  BY DEF Total, FoldSet, MapThenFoldSet, Weight
<1>2. \A g : F(g) = [s \in SUBSET S |-> IF s = {} THEN 0 ELSE g[s \ {Chosen(s)}] + w[Chosen(s)]]
  <2>. TAKE g
  <2>1. \A s \in SUBSET S : s # {} => w[Chosen(s)] = Weight(Chosen(s), m, text)
    BY ChosenIsIn DEF Weights
  <2>. HIDE DEF w, S
  <2>. QED
    BY <2>1 DEF Chosen
<1>. HIDE DEF w, S
<1>3. \A g : (g = F(g)) <=> Adds(g, w, S)
  <2>. HIDE DEF F
  <2>. QED
    BY <1>2 DEF Adds
<1>4. (CHOOSE g : g = F(g)) = (CHOOSE g : Adds(g, w, S))
  <2>. HIDE DEF F
  <2>. QED
    BY <1>3
<1>. HIDE DEF F
<1>5. IsFiniteSet(S)
  BY DEF S
<1>6. \E h : Adds(h, w, S)
  BY <1>5, AddsExists
<1>. DEFINE h == CHOOSE g : Adds(g, w, S)
<1>7. Adds(h, w, S)
  BY <1>6
<1>8. Total(near, tag, m, text) = h[S]
  BY <1>1, <1>4
<1>. HIDE DEF h
<1>. QED
  BY <1>7, <1>8 DEF w, S

\* A sum of weights is at least each of them, and between the smallest and the
\* largest times their number.
LEMMA SumIsBetween ==
  ASSUME NEW S, IsFiniteSet(S), NEW w \in [S -> Nat], NEW h, Adds(h, w, S),
         NEW c \in Nat, \A x \in S : c <= w[x], NEW d \in Nat
  PROVE  /\ h[S] \in Nat
         /\ \A x \in S : w[x] <= h[S]
         /\ c * Cardinality(S) <= h[S]
         /\ (\A x \in S : w[x] <= d) => h[S] <= d * Cardinality(S)
<1>. DEFINE Between(s) == /\ h[s] \in Nat
                          /\ \A x \in s : w[x] <= h[s]
                          /\ c * Cardinality(s) <= h[s]
                          /\ (\A x \in S : w[x] <= d) => h[s] <= d * Cardinality(s)
            C == {s \in SUBSET S : ~Between(s)}
<1>. SUFFICES ASSUME C # {} PROVE FALSE
  OBVIOUS
<1>1. C \in SUBSET SUBSET S
  OBVIOUS
<1>. HIDE DEF C
<1>2. PICK s \in C : \A t \in C : t \subseteq s => t = s
  BY <1>1, SmallestSet
<1>3. s \in SUBSET S /\ ~Between(s) /\ IsFiniteSet(s)
  BY <1>2, FS_Subset DEF C
<1>. HIDE DEF Between
<1>4. CASE s = {}
  <2>1. h[s] = 0 /\ Cardinality(s) = 0
    BY <1>4, AddsAt, FS_EmptySet
  <2>. QED
    BY <1>3, <1>4, <2>1 DEF Between
<1>5. CASE s # {}
  <2>. DEFINE r == s \ {Chosen(s)}
              k == Cardinality(r)
  <2>1. /\ Chosen(s) \in s /\ Chosen(s) \in S
        /\ h[s] = h[r] + w[Chosen(s)]
    <3>1. \A t \in SUBSET S : t # {} => Chosen(t) \in t /\ h[t] = h[t \ {Chosen(t)}] + w[Chosen(t)]
      BY AddsAt
    <3>. QED
      BY <1>3, <1>5, <3>1
  <2>2. r \in SUBSET S /\ r \subseteq s /\ r # s
    BY <1>3, <2>1
  <2>3. IsFiniteSet(r) /\ k \in Nat /\ Cardinality(s) = k + 1
    <3>1. IsFiniteSet(r) /\ Cardinality(r) = Cardinality(s) - 1 /\ Cardinality(s) \in Nat
      BY <1>3, <2>1, FS_RemoveElement, FS_CardinalityType
    <3>2. Cardinality(r) \in Nat
      BY <3>1, FS_CardinalityType
    <3>. HIDE DEF r
    <3>. QED
      BY <3>1, <3>2
  <2>4. Between(r)
    BY <1>2, <2>2 DEF C
  <2>5. c * k \in Nat /\ d * k \in Nat /\ c * (k + 1) = c * k + c /\ d * (k + 1) = d * k + d
    <3>. HIDE DEF k
    <3>. QED
      BY <2>3
  <2>6. /\ w[Chosen(s)] \in Nat /\ c <= w[Chosen(s)]
        /\ (\A x \in S : w[x] <= d) => w[Chosen(s)] <= d
    BY <2>1
  <2>7. \A x \in s : w[x] \in Nat /\ (x = Chosen(s) \/ x \in r)
    BY <1>3
  <2>8. /\ h[r] \in Nat /\ c * k <= h[r]
        /\ (\A x \in S : w[x] <= d) => h[r] <= d * k
        /\ \A x \in r : w[x] <= h[r]
    BY <2>4 DEF Between
  <2>. HIDE DEF r, k
  <2>9. h[s] \in Nat /\ h[r] <= h[s] /\ w[Chosen(s)] <= h[s]
    BY <2>1, <2>6, <2>8
  <2>10. \A x \in s : w[x] <= h[s]
    BY <2>7, <2>8, <2>9
  <2>11. /\ c * Cardinality(s) <= h[s]
         /\ (\A x \in S : w[x] <= d) => h[s] <= d * Cardinality(s)
    <3>1. c * Cardinality(s) = c * k + c /\ d * Cardinality(s) = d * k + d
      BY <2>3, <2>5
    <3>2. c * k + c <= h[s]
      BY <2>1, <2>5, <2>6, <2>8
    <3>3. ASSUME \A x \in S : w[x] <= d PROVE h[s] <= d * k + d
      BY <2>1, <2>5, <2>6, <2>8, <3>3
    <3>. QED
      BY <3>1, <3>2, <3>3
  <2>. QED
    BY <1>3, <2>9, <2>10, <2>11 DEF Between
<1>. QED
  BY <1>4, <1>5

\* Means compare as fractions do.
LEMMA MeansCompare ==
  ASSUME NEW ta \in Nat, NEW tb \in Nat, NEW td \in Nat,
         NEW sa \in Nat, NEW sb \in Nat \ {0}, NEW sd \in Nat \ {0},
         tb * sa > ta * sb, ~(tb * sd > td * sb)
  PROVE  td * sa > ta * sd
<1>1. (ta * sb) * sd < (tb * sa) * sd
  <2>1. \A x, y \in Nat : x < y => x * sd < y * sd
    OBVIOUS
  <2>2. ta * sb \in Nat /\ tb * sa \in Nat
    OBVIOUS
  <2>. QED
    BY <2>1, <2>2
<1>2. (tb * sd) * sa <= (td * sb) * sa
  <2>1. \A x, y \in Nat : x <= y => x * sa <= y * sa
    OBVIOUS
  <2>2. tb * sd \in Nat /\ td * sb \in Nat
    OBVIOUS
  <2>. QED
    BY <2>1, <2>2
<1>3. (tb * sa) * sd = (tb * sd) * sa
  OBVIOUS
<1>4. (ta * sb) * sd = (ta * sd) * sb /\ (td * sb) * sa = (td * sa) * sb
  OBVIOUS
<1>5. (ta * sd) * sb < (td * sa) * sb
  BY <1>1, <1>2, <1>3, <1>4
<1>6. \A x, y \in Nat : x * sb < y * sb => x < y
  OBVIOUS
<1>7. ta * sd \in Nat /\ td * sa \in Nat
  OBVIOUS
<1>. QED
  BY <1>5, <1>6, <1>7

-----------------------------------------------------------------------------
(* Which tags win                                                          *)

\* The neighbours are finitely many notes, each with a vector to compare.
LEMMA NeighboursAreAlike ==
  ASSUME TypeInv, NEW x, NEW m \in Models, NEW text \in Texts,
         NEW near \in Nearest(x, m, text)
  PROVE  /\ IsFiniteSet(near)
         /\ \A n \in near : Likeness(n, m, text) \in Int
<1>1. near \subseteq Candidates(x, m)
  BY DEF Nearest, kSubset
<1>2. near \subseteq Notes
  BY <1>1 DEF Candidates, Live
<1>3. IsFiniteSet(near)
  BY <1>2, EmbeddingsAssumption, FS_Subset
<1>4. ASSUME NEW n \in near
      PROVE  Likeness(n, m, text) \in Int
  <2>1. VectorOf(n, m) # NoVector /\ n \in Notes
    BY <1>1, <1>2 DEF Candidates
  <2>2. cache[<<n, m>>] # NoVector /\ VectorOf(n, m) = cache[<<n, m>>].vector
    BY <2>1 DEF VectorOf
  <2>3. cache[<<n, m>>] \in StoredRow
    <3>1. <<n, m>> \in Keys
      BY <2>1 DEF Keys
    <3>. QED
      BY <2>2, <3>1 DEF TypeInv
  <2>4. VectorOf(n, m).of \in Texts
    BY <2>2, <2>3 DEF StoredRow
  <2>5. Similarity \in [Texts -> [Texts -> Int]]
    BY EmbeddingsAssumption
  <2>6. Similarity[text] \in [Texts -> Int]
    BY <2>5
  <2>. QED
    BY <2>4, <2>6 DEF Likeness
<1>. QED
  BY <1>3, <1>4

\* The sum of a tag's weights is a natural number, at least each of them, and
\* between the smallest and the largest times their number.
LEMMA TotalIsBetween ==
  ASSUME NEW near, IsFiniteSet(near), NEW m, NEW text,
         \A n \in near : Likeness(n, m, text) \in Int,
         NEW tag, NEW c \in Nat, NEW d \in Nat,
         \A n \in Supporters(near, tag) : c <= Weight(n, m, text)
  PROVE  /\ Total(near, tag, m, text) \in Nat
         /\ \A n \in Supporters(near, tag) : Weight(n, m, text) <= Total(near, tag, m, text)
         /\ c * Cardinality(Supporters(near, tag)) <= Total(near, tag, m, text)
         /\ (\A n \in Supporters(near, tag) : Weight(n, m, text) <= d)
              => Total(near, tag, m, text) <= d * Cardinality(Supporters(near, tag))
<1>. DEFINE S == Supporters(near, tag)
            w == Weights(S, m, text)
<1>1. S \subseteq near /\ IsFiniteSet(S)
  BY FS_Subset DEF Supporters
<1>2. \A n \in near : Weight(n, m, text) \in Nat
  BY DEF Weight
<1>3. w \in [S -> Nat] /\ \A n \in S : w[n] = Weight(n, m, text)
  BY <1>1, <1>2 DEF Weights
<1>4. PICK h : Adds(h, w, S) /\ Total(near, tag, m, text) = h[S]
  BY <1>1, TotalAdds
<1>5. \A n \in S : c <= w[n]
  BY <1>3
<1>. HIDE DEF S, w
<1>6. /\ h[S] \in Nat
      /\ \A n \in S : w[n] <= h[S]
      /\ c * Cardinality(S) <= h[S]
      /\ (\A n \in S : w[n] <= d) => h[S] <= d * Cardinality(S)
  BY <1>1, <1>3, <1>4, <1>5, SumIsBetween
<1>. QED
  BY <1>3, <1>4, <1>6 DEF S

\* The heart of it: if the neighbours with b are all nearer than those with a, and one
\* of them is alike at all, the mean of b is the greater one.
LEMMA NearerHasGreaterMean ==
  ASSUME NEW near, IsFiniteSet(near), NEW m, NEW text,
         \A n \in near : Likeness(n, m, text) \in Int,
         NEW a \in Scored(near), NEW b \in Scored(near),
         \A p \in Supporters(near, a), q \in Supporters(near, b) :
           Likeness(p, m, text) < Likeness(q, m, text),
         \E q \in Supporters(near, b) : Likeness(q, m, text) > 0
  PROVE  Outscores(near, b, a, m, text)
<1>. DEFINE A == Supporters(near, a)
            B == Supporters(near, b)
            W(n) == Weight(n, m, text)
            ta == Total(near, a, m, text)
            tb == Total(near, b, m, text)
            sa == Cardinality(A)
            sb == Cardinality(B)
<1>1. A \subseteq near /\ B \subseteq near /\ A # {} /\ B # {}
  BY DEF Scored, Supporters
<1>2. sa \in Nat \ {0} /\ sb \in Nat \ {0}
  BY <1>1, FS_Subset, FS_CardinalityType, FS_EmptySet
<1>3. \A n \in near : W(n) \in Nat
  BY DEF Weight
<1>4. PICK c \in {W(n) : n \in B} : \A v \in {W(n) : n \in B} : c <= v
  <2>1. {W(n) : n \in B} \in SUBSET Nat /\ {W(n) : n \in B} # {}
    BY <1>1, <1>3
  <2>. HIDE DEF B, W
  <2>. QED
    BY <2>1, SmallestNumber
<1>5. PICK q \in B : c = W(q)
  BY <1>4
<1>6. c \in Nat /\ \A n \in B : c <= W(n)
  BY <1>1, <1>3, <1>4, <1>5
<1>7. tb \in Nat /\ c * sb <= tb /\ \A n \in B : W(n) <= tb
  BY <1>6, TotalIsBetween
<1>8. \A n \in A : 0 <= W(n)
  BY <1>1, <1>3
<1>9. CASE c > 0
  <2>1. \A n \in A : W(n) <= c - 1
    <3>. SUFFICES ASSUME NEW n \in A PROVE W(n) <= c - 1
      OBVIOUS
    <3>1. Likeness(n, m, text) < Likeness(q, m, text)
      BY <1>5
    <3>2. Likeness(n, m, text) \in Int /\ Likeness(q, m, text) \in Int
      BY <1>1, <1>5
    <3>. QED
      BY <1>5, <1>9, <3>1, <3>2 DEF Weight
  <2>2. c - 1 \in Nat
    BY <1>6, <1>9
  <2>3. ta \in Nat /\ ta <= (c - 1) * sa
    BY <1>8, <2>1, <2>2, TotalIsBetween
  <2>. HIDE DEF ta, tb, sa, sb
  <2>4. \A x \in Nat, y, z \in Nat : x <= y => x * z <= y * z
    OBVIOUS
  <2>5. (c - 1) * sa \in Nat /\ c * sb \in Nat /\ sa \in Nat /\ sb \in Nat
    BY <1>2, <1>6, <2>2
  <2>6. ta * sb <= ((c - 1) * sa) * sb /\ (c * sb) * sa <= tb * sa
    BY <1>7, <2>3, <2>4, <2>5
  <2>7. sa * sb > 0 /\ sa * sb \in Nat
    BY <1>2
  <2>8. (c * sb) * sa = ((c - 1) * sa) * sb + sa * sb
    BY <1>2, <1>6
  <2>9. ((c - 1) * sa) * sb \in Int /\ (c * sb) * sa \in Int /\ ta * sb \in Int /\ tb * sa \in Int
    BY <1>2, <1>6, <1>7, <2>3
  <2>10. ta * sb < tb * sa
    BY <2>6, <2>7, <2>8, <2>9
  <2>. QED
    BY <2>9, <2>10 DEF Outscores, ta, tb, sa, sb
<1>10. CASE c = 0
  <2>1. Likeness(q, m, text) <= 0
    BY <1>1, <1>5, <1>10 DEF Weight
  <2>2. \A n \in A : W(n) <= 0
    <3>. SUFFICES ASSUME NEW n \in A PROVE W(n) <= 0
      OBVIOUS
    <3>1. Likeness(n, m, text) < Likeness(q, m, text)
      BY <1>5
    <3>2. Likeness(n, m, text) \in Int /\ Likeness(q, m, text) \in Int
      BY <1>1, <1>5
    <3>. QED
      BY <2>1, <3>1, <3>2 DEF Weight
  <2>3. ta \in Nat /\ ta <= 0 * sa
    BY <1>8, <2>2, TotalIsBetween
  <2>4. PICK r \in B : Likeness(r, m, text) > 0
    OBVIOUS
  <2>5. W(r) > 0 /\ W(r) \in Nat
    BY <1>1, <1>3, <2>4 DEF Weight
  <2>6. tb > 0
    BY <1>7, <2>4, <2>5
  <2>. HIDE DEF ta, tb, sa, sb
  <2>7. ta = 0
    BY <1>2, <2>3
  <2>8. ta * sb = 0
    BY <1>2, <2>7
  <2>9. tb * sa > 0
    BY <1>2, <1>7, <2>6
  <2>. QED
    BY <2>8, <2>9 DEF Outscores, ta, tb, sa, sb
<1>. QED
  BY <1>6, <1>9, <1>10

\* embeddings.py:177-186: a tag does not win by being common, for every state the
\* cache can be in, every likeness, K and TagLimit: if every neighbour with b is nearer
\* than every neighbour with a, b is offered whenever a is, however many carry a.
THEOREM NearerTagsWin == Spec => []SimilarBeatsCommon
<1>1. TypeInv => SimilarBeatsCommon
  <2>. SUFFICES ASSUME TypeInv, NEW x \in Notes \cup {NoNote}, NEW m \in Models, NEW text \in Texts,
                       NEW near \in Nearest(x, m, text),
                       NEW a \in Scored(near), NEW b \in Scored(near),
                       \A p \in Supporters(near, a), q \in Supporters(near, b) :
                         Likeness(p, m, text) < Likeness(q, m, text),
                       \E q \in Supporters(near, b) : Likeness(q, m, text) > 0,
                       PossiblySuggested(near, a, m, text)
                PROVE  SurelySuggested(near, b, m, text)
    BY DEF SimilarBeatsCommon
  <2>1. IsFiniteSet(near) /\ \A n \in near : Likeness(n, m, text) \in Int
    BY NeighboursAreAlike
  <2>2. Outscores(near, b, a, m, text)
    BY <2>1, NearerHasGreaterMean
  <2>3. ASSUME NEW d \in Scored(near)
        PROVE  /\ Total(near, d, m, text) \in Nat
               /\ Cardinality(Supporters(near, d)) \in Nat \ {0}
    <3>1. \A n \in Supporters(near, d) : 0 <= Weight(n, m, text)
      BY <2>1 DEF Weight, Supporters
    <3>2. Supporters(near, d) \subseteq near /\ Supporters(near, d) # {}
      BY DEF Scored, Supporters
    <3>3. Total(near, d, m, text) \in Nat
      BY <2>1, <3>1, TotalIsBetween
    <3>4. Cardinality(Supporters(near, d)) \in Nat \ {0}
      BY <2>1, <3>2, FS_Subset, FS_CardinalityType, FS_EmptySet
    <3>. QED
      BY <3>3, <3>4
  <2>. DEFINE AboveB == {d \in Scored(near) \ {b} : ~Outscores(near, b, d, m, text)}
              AboveA == {d \in Scored(near) : Outscores(near, d, a, m, text)}
  <2>4. AboveB \subseteq AboveA
    <3>. SUFFICES ASSUME NEW d \in Scored(near), ~Outscores(near, b, d, m, text)
                  PROVE  Outscores(near, d, a, m, text)
      OBVIOUS
    <3>. QED
      BY <2>2, <2>3, MeansCompare DEF Outscores
  <2>5. IsFiniteSet(AboveA)
    <3>1. AboveA \subseteq Tags /\ IsFiniteSet(Tags)
      BY EmbeddingsAssumption DEF Scored
    <3>. QED
      BY <3>1, FS_Subset
  <2>6. Cardinality(AboveB) <= Cardinality(AboveA) /\ Cardinality(AboveB) \in Nat /\ Cardinality(AboveA) \in Nat
    BY <2>4, <2>5, FS_Subset, FS_CardinalityType
  <2>7. Cardinality(AboveA) < TagLimit /\ TagLimit \in Nat
    BY EmbeddingsAssumption DEF PossiblySuggested
  <2>. HIDE DEF AboveA, AboveB
  <2>8. Cardinality(AboveB) < TagLimit
    BY <2>6, <2>7
  <2>. QED
    BY <2>8 DEF SurelySuggested, AboveB
<1>. QED
  BY <1>1, TypeInvariant, PTL
=============================================================================
