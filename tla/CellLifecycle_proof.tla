------------------------- MODULE CellLifecycle_proof -------------------------
(***************************************************************************)
(* Proofs about CellLifecycle for any cells, owners, requests and faults.  *)
(* Nothing leaves the collection, so what a feedback, a job or an archiving *)
(* call remembers by id is still a document when its command arrives; the  *)
(* accounts of the access counts follow command by command.                *)
(***************************************************************************)
EXTENDS Consolidation, FiniteSetTheorems, SequenceTheorems, WellFoundedInduction, TLAPS

\* The smaller of two integers.
LEMMA MinOfTwo ==
  ASSUME NEW a \in Int, NEW b \in Int
  PROVE  Min({a, b}) = IF a <= b THEN a ELSE b
<1>1. CASE a <= b
  <2>1. a \in {a, b} /\ \A y \in {a, b} : a <= y
    BY <1>1
  <2>2. \A x \in {a, b} : (\A y \in {a, b} : x <= y) => x = a
    BY <1>1
  <2> QED BY <1>1, <2>1, <2>2 DEF Min
<1>2. CASE ~(a <= b)
  <2>1. b \in {a, b} /\ \A y \in {a, b} : b <= y
    BY <1>2
  <2>2. \A x \in {a, b} : (\A y \in {a, b} : x <= y) => x = b
    BY <1>2
  <2> QED BY <1>2, <2>1, <2>2 DEF Min
<1> QED BY <1>1, <1>2

\* The larger of two integers.
LEMMA MaxOfTwo ==
  ASSUME NEW a \in Int, NEW b \in Int
  PROVE  Max({a, b}) = IF a >= b THEN a ELSE b
<1>1. CASE a >= b
  <2>1. a \in {a, b} /\ \A y \in {a, b} : a >= y
    BY <1>1
  <2>2. \A x \in {a, b} : (\A y \in {a, b} : x >= y) => x = a
    BY <1>1
  <2> QED BY <1>1, <2>1, <2>2 DEF Max
<1>2. CASE ~(a >= b)
  <2>1. b \in {a, b} /\ \A y \in {a, b} : b >= y
    BY <1>2
  <2>2. \A x \in {a, b} : (\A y \in {a, b} : x >= y) => x = b
    BY <1>2
  <2> QED BY <1>2, <2>1, <2>2 DEF Max
<1> QED BY <1>1, <1>2

\* A document is not the mark of an absent one.
LEMMA DocIsStored == \A d \in Doc : d # Absent
  BY DEF Doc, Absent, States

\* A scope of an owner holds the owner's stored cells.
LEMMA ScopeOfUser ==
  ASSUME NEW store, NEW u \in Users
  PROVE  InScope(store, u) = {c \in Stored(store) : Owner[c] = u}
<1>1. None \notin {u.tenant, u.user}
  BY StoreAssumption DEF Users
<1>2. u # Unscoped
  BY <1>1 DEF Unscoped
<1> QED BY <1>1, <1>2 DEF InScope

\* The list of a finite set's members has them one by one.
LEMMA ListOfSet ==
  ASSUME NEW S, IsFiniteSet(S)
  PROVE  /\ SetToSeq(S) \in [1..Cardinality(S) -> S]
         /\ Cardinality(S) \in Nat
  BY FS_CardinalityType DEF SetToSeq, ExistsBijection, Bijection, Injection

\* A reinforced strength stays in its range.
LEMMA ReinforcedInRange ==
  ASSUME NEW doc \in Doc, NEW type \in DOMAIN Signal, NEW value \in Int, NEW day \in Nat
  PROVE  Reinforced(doc, type, value, day) \in 0..SMax
<1> DEFINE moved == doc.strength + Resolved(type, value) - LambdaDay * (day - doc.updated)
<1>1. moved \in Int
  <2>1. Resolved(type, value) \in Int
    BY StoreAssumption DEF Resolved
  <2>2. doc.strength \in Int /\ doc.updated \in Nat
    BY DEF Doc
  <2>3. LambdaDay * (day - doc.updated) \in Int
    BY <2>2, StoreAssumption
  <2> QED BY <2>1, <2>2, <2>3
<1>2. SMax \in Nat
  BY StoreAssumption
<1> HIDE DEF moved
<1>3. Min({SMax, moved}) = IF SMax <= moved THEN SMax ELSE moved
  BY <1>1, <1>2, MinOfTwo
<1>4. Min({SMax, moved}) \in Int /\ Min({SMax, moved}) <= SMax
  BY <1>1, <1>2, <1>3
<1>5. Max({0, Min({SMax, moved})}) \in 0..SMax
  BY <1>2, <1>4, MaxOfTwo
<1> QED BY <1>5 DEF Reinforced, moved

-----------------------------------------------------------------------------
(* Nothing leaves the collection. *)

\* What feedbacks, jobs and calls remember are stored documents, those of a job
\* of one owner; a job that has read its cell knows a document.
ByFeedback ==
  \A f \in 1..Feedbacks : feedback[f].pc = "apply" => feedback[f].cell \in Stored(docs)
ByJobs ==
  \A i \in DOMAIN jobs :
    /\ jobs[i].ids # {} /\ jobs[i].ids \subseteq InScope(docs, jobs[i].owner)
    /\ jobs[i].pc = "got" => jobs[i].new \in Doc
ByCalls == \A k \in 1..Calls : call[k].ids \subseteq Stored(docs)
Remembered == ByFeedback /\ ByJobs /\ ByCalls

\* Documents stay documents, and keep their owners.
Grows == Stored(docs) \subseteq Stored(docs')

Base == TypeOK /\ Remembered

\* At first nothing is remembered.
LEMMA BaseInit == Init => Base
<1> SUFFICES ASSUME Init PROVE Base
  OBVIOUS
<1> USE StoreAssumption, LifecycleAssumption DEF Init
<1>1. docs \in [Cells -> Doc \cup {Absent}]
  OBVIOUS
<1>2. acked \in [Cells -> Nat] /\ unacked \in [Cells -> Nat]
  BY <1>1 DEF Stored, Doc
<1>3. feedback \in [1..Feedbacks -> FeedbackState]
  BY DEF FeedbackState, Idle
<1>4. call \in [1..Calls -> CallState]
  BY DEF CallState, NoCall
<1>5. jobs \in Seq(JobState) /\ Len(jobs) <= MaxJobs
  OBVIOUS
<1>6. atomic \in BOOLEAN /\ overlapped \in BOOLEAN /\ crossed \subseteq Cells
  OBVIOUS
<1>7. now \in 0..MaxNow /\ ambient \in Deltas /\ holder \in 0..Calls /\ faults \in 0..MaxFaults
  OBVIOUS
<1>8. TypeOK
  BY <1>1, <1>2, <1>3, <1>4, <1>5, <1>6, <1>7 DEF TypeOK
<1>9. Remembered
  BY DEF Remembered, ByFeedback, ByJobs, ByCalls, Idle, NoCall
<1> QED BY <1>8, <1>9 DEF Base

\* A stored document is a document.
LEMMA StoredDoc ==
  ASSUME Base, NEW c \in Stored(docs)
  PROVE  c \in Cells /\ docs[c] \in Doc
  BY DEF Base, TypeOK, Stored

\* What is in the scope of an owner stays there.
LEMMA ScopeGrows ==
  ASSUME Grows, NEW u \in Users
  PROVE  InScope(docs, u) \subseteq InScope(docs', u)
  BY ScopeOfUser DEF Grows

\* A collection in which the stored documents changed into documents has grown.
LEMMA DocsGrow ==
  ASSUME Base, docs' \in [Cells -> Doc \cup {Absent}],
         \A c \in Stored(docs) : docs'[c] \in Doc
  PROVE  Grows
  BY DocIsStored DEF Grows, Stored

\* The commands of the store make documents of documents.
LEMMA StrengthenedDoc ==
  ASSUME NEW d \in Doc, NEW delta \in Int, NEW bump \in Nat, NEW day \in Nat
  PROVE  /\ Strengthened(d, delta, bump, day) \in Doc
         /\ Strengthened(d, delta, bump, day).access = d.access + bump
         /\ Strengthened(d, delta, bump, day).strength
              = IF d.strength + delta <= SMax THEN d.strength + delta ELSE SMax
<1>1. d.strength + delta \in Int /\ SMax \in Int
  BY StoreAssumption DEF Doc
<1> DEFINE sum == Min({d.strength + delta, SMax})
<1>2. sum = IF d.strength + delta <= SMax THEN d.strength + delta ELSE SMax
  BY <1>1, MinOfTwo
<1>3. sum \in Int
  BY <1>1, <1>2
<1>4. Strengthened(d, delta, bump, day)
        = [d EXCEPT !.strength = sum, !.access = @ + bump, !.updated = day]
  BY DEF Strengthened
<1> HIDE DEF sum
<1> DEFINE count == d.access + bump
<1>8. count \in Nat
  BY DEF Doc
<1> HIDE DEF count
<1>9. [d EXCEPT !.strength = sum, !.access = count, !.updated = day] \in Doc
  BY <1>3, <1>8 DEF Doc
<1>5. Strengthened(d, delta, bump, day) \in Doc
  BY <1>4, <1>9 DEF count
<1>6. Strengthened(d, delta, bump, day).access = d.access + bump
  BY <1>4 DEF Doc
<1>7. Strengthened(d, delta, bump, day).strength = sum
  BY <1>4 DEF Doc
<1> QED BY <1>2, <1>5, <1>6, <1>7

\* A job has its type.
LEMMA JobTyped ==
  ASSUME Base, NEW i \in DOMAIN jobs
  PROVE  jobs[i] \in JobState
  BY ElementOfSeq, LenProperties DEF Base, TypeOK

\* While documents stay, so does what is remembered of them.
LEMMA RememberedStays ==
  ASSUME Base, Grows
  PROVE  /\ UNCHANGED feedback => ByFeedback'
         /\ UNCHANGED jobs => ByJobs'
         /\ UNCHANGED call => ByCalls'
<1>1. UNCHANGED feedback => ByFeedback'
  BY DEF Base, Remembered, ByFeedback, Grows
<1>2. ASSUME UNCHANGED jobs PROVE ByJobs'
  <2> SUFFICES ASSUME NEW i \in DOMAIN jobs
               PROVE  /\ jobs[i].ids # {} /\ jobs[i].ids \subseteq InScope(docs', jobs[i].owner)
                      /\ jobs[i].pc = "got" => jobs[i].new \in Doc
    BY <1>2 DEF ByJobs
  <2>1. jobs[i].owner \in Users
    BY JobTyped DEF JobState
  <2> QED BY <2>1, ScopeGrows DEF Base, Remembered, ByJobs
<1>3. UNCHANGED call => ByCalls'
  BY DEF Base, Remembered, ByCalls, Grows
<1> QED BY <1>1, <1>2, <1>3

\* The histories stay counts.
LEMMA AccountTyped ==
  ASSUME Base, NEW cs, NEW outcome \in Outcomes, Account(cs, outcome)
  PROVE  acked' \in [Cells -> Nat] /\ unacked' \in [Cells -> Nat]
  BY DEF Base, TypeOK, Account

\* So do the failures, within their bound.
LEMMA SufferTyped ==
  ASSUME Base, NEW outcome \in Outcomes, Suffer(outcome)
  PROVE  faults' \in 0..MaxFaults
  BY LifecycleAssumption DEF Base, TypeOK, Suffer

\* Time passes.
LEMMA TickBase == Base /\ Tick => Base'
<1> SUFFICES ASSUME Base, Tick PROVE Base'
  OBVIOUS
<1>1. Grows
  BY DEF Tick, docVars, Grows
<1>2. TypeOK'
  BY LifecycleAssumption DEF Base, TypeOK, Tick, docVars, jobVars, callVars
<1> QED BY <1>1, <1>2, RememberedStays DEF Base, Remembered, Tick, jobVars, callVars

\* A cell arrives.
LEMMA IngestBase == ASSUME Base, NEW c \in Cells, Ingest(c) PROVE Base' /\ Grows
<1>1. docs' \in [Cells -> Doc \cup {Absent}]
  BY DEF Ingest, Inserted, Base, TypeOK, Doc, States
<1>2. Grows
  BY <1>1, DocsGrow, StoredDoc DEF Ingest, Inserted, Base, TypeOK, Stored
<1>3. TypeOK'
  BY <1>1 DEF Ingest, Base, TypeOK, jobVars, callVars
<1> QED BY <1>2, <1>3, RememberedStays DEF Base, Remembered, Ingest, jobVars, callVars

\* A feedback finds its cell, or not.
LEMMA ReadCellBase == ASSUME Base, NEW f \in 1..Feedbacks, ReadCell(f) PROVE Base'
<1>1. Grows
  BY DEF ReadCell, docVars, Grows
<1> PICK in \in FeedbackInputs :
      feedback' = [feedback EXCEPT ![f] =
         IF Target(in) # None /\ Found(docs, Target(in), in.scope)
         THEN [pc |-> "apply", cell |-> Target(in), positive |-> in.type \in Confirming,
               seen |-> docs[Target(in)], new |-> Reinforced(docs[Target(in)], in.type, in.value, now)]
         ELSE [pc |-> IF Target(in) = None THEN "invalid" ELSE "absent"]]
  BY DEF ReadCell
<1>2. ASSUME Found(docs, Target(in), in.scope)
      PROVE  Target(in) \in Stored(docs) /\ docs[Target(in)] \in Doc
             /\ Reinforced(docs[Target(in)], in.type, in.value, now) \in 0..SMax
  <2>1. Target(in) \in Stored(docs)
    BY <1>2 DEF Found, InScope
  <2>2. docs[Target(in)] \in Doc
    BY <2>1, StoredDoc
  <2>3. now \in Nat /\ in.type \in DOMAIN Signal /\ in.value \in Int
    BY LifecycleAssumption DEF Base, TypeOK, FeedbackRequest
  <2> QED BY <2>1, <2>2, <2>3, ReinforcedInRange
<1>3. feedback'[f] \in FeedbackState
  <2>1. CASE Target(in) # None /\ Found(docs, Target(in), in.scope)
    <3>1. Target(in) \in Cells /\ (0..SMax) \subseteq Int
      BY <1>2, <2>1, StoredDoc
    <3> QED BY <1>2, <2>1, <3>1 DEF FeedbackState, Base, TypeOK
  <2>2. CASE Target(in) = None \/ ~Found(docs, Target(in), in.scope)
    BY <2>2 DEF FeedbackState, Base, TypeOK
  <2> QED BY <2>1, <2>2
<1>4. TypeOK'
  BY <1>3 DEF Base, TypeOK, ReadCell, docVars, jobVars, callVars
<1>5. ByFeedback'
  <2> SUFFICES ASSUME NEW g \in 1..Feedbacks, feedback'[g].pc = "apply"
               PROVE  feedback'[g].cell \in Stored(docs')
    BY DEF ByFeedback
  <2>1. CASE g = f
    BY <1>1, <1>2, <2>1 DEF Base, TypeOK, Grows
  <2>2. CASE g # f
    BY <1>1, <2>2 DEF Base, TypeOK, Grows, Remembered, ByFeedback
  <2> QED BY <2>1, <2>2
<1> QED BY <1>1, <1>4, <1>5, RememberedStays DEF Base, Remembered, ReadCell, jobVars, callVars

\* The command of a feedback is done, or not.
LEMMA ApplyFeedbackBase ==
  ASSUME Base, NEW f \in 1..Feedbacks, ApplyFeedback(f)
  PROVE  Base' /\ Grows
<1> DEFINE fb == feedback[f]
           bump == IF fb.positive THEN 1 ELSE 0
<1>1. fb.cell \in Stored(docs) /\ fb.cell \in Cells /\ docs[fb.cell] \in Doc
      /\ fb.seen \in Doc /\ fb.new \in Int
  <2>1. fb \in FeedbackState /\ fb.pc = "apply"
    BY DEF Base, TypeOK, ApplyFeedback
  <2>2. fb.seen \in Doc /\ fb.new \in Int
    BY <2>1 DEF FeedbackState
  <2>3. fb.cell \in Stored(docs)
    BY <2>1 DEF Base, Remembered, ByFeedback
  <2> QED BY <2>2, <2>3, StoredDoc
<1> PICK outcome \in Outcomes :
      /\ Suffer(outcome)
      /\ Account(IF fb.positive THEN {fb.cell} ELSE {}, outcome)
      /\ docs' = IF ~outcome.done THEN docs
                 ELSE IF HasAtomic
                 THEN AddToAll(docs, {fb.cell}, fb.new - fb.seen.strength, bump, now)
                 ELSE Updated(docs, fb.cell,
                        [docs[fb.cell] EXCEPT !.strength = fb.new, !.updated = now,
                                              !.access = fb.seen.access + bump])
      /\ feedback' = [feedback EXCEPT ![f] = [pc |-> IF outcome.ok THEN "ok" ELSE "error"]]
  BY DEF ApplyFeedback
<1>2. now \in Nat /\ bump \in Nat
  BY LifecycleAssumption DEF Base, TypeOK
<1>3. Strengthened(docs[fb.cell], fb.new - fb.seen.strength, bump, now) \in Doc
  <2>1. fb.new - fb.seen.strength \in Int
    BY <1>1 DEF Doc
  <2> QED BY <1>1, <1>2, <2>1, StrengthenedDoc
<1>4. [docs[fb.cell] EXCEPT !.strength = fb.new, !.updated = now,
                            !.access = fb.seen.access + bump] \in Doc
  <2> DEFINE count == fb.seen.access + bump
  <2>1. count \in Nat /\ fb.new \in Int /\ now \in Nat /\ docs[fb.cell] \in Doc
    BY <1>1, <1>2 DEF Doc
  <2> HIDE DEF count
  <2>2. \A d \in Doc, new \in Int :
          [d EXCEPT !.strength = new, !.updated = now, !.access = count] \in Doc
    BY <2>1 DEF Doc
  <2>3. [docs[fb.cell] EXCEPT !.strength = fb.new, !.updated = now, !.access = count] \in Doc
    BY <2>1, <2>2
  <2> QED BY <2>3 DEF count
<1> HIDE DEF bump
<1>5. docs' \in [Cells -> Doc \cup {Absent}] /\ \A c \in Stored(docs) : docs'[c] \in Doc
  BY <1>1, <1>3, <1>4, StoredDoc DEF AddToAll, Updated, Base, TypeOK
<1>6. Grows
  BY <1>5, DocsGrow
<1>7. feedback' \in [1..Feedbacks -> FeedbackState]
  BY DEF FeedbackState, Base, TypeOK
<1>8. crossed' \subseteq Cells
  BY <1>1 DEF ApplyFeedback, Base, TypeOK
<1>9. TypeOK'
  BY <1>5, <1>7, <1>8, AccountTyped, SufferTyped
     DEF Base, TypeOK, ApplyFeedback, jobVars, callVars
<1>10. ByFeedback'
  BY <1>6 DEF Base, TypeOK, Remembered, ByFeedback, Grows
<1> QED BY <1>6, <1>9, <1>10, RememberedStays
        DEF Base, Remembered, ApplyFeedback, jobVars, callVars

-----------------------------------------------------------------------------
(* Jobs *)

\* A job that keeps its cells and its owner leaves the others alone.
LEMMA JobSet ==
  ASSUME Base, Grows, NEW i \in DOMAIN jobs, NEW job \in JobState,
         jobs' = [jobs EXCEPT ![i] = job],
         job.ids = jobs[i].ids, job.owner = jobs[i].owner,
         job.pc = "got" => job.new \in Doc
  PROVE  jobs' \in Seq(JobState) /\ Len(jobs') <= MaxJobs /\ ByJobs'
<1>1. jobs \in Seq(JobState) /\ Len(jobs) <= MaxJobs /\ i \in 1..Len(jobs)
  BY LenProperties DEF Base, TypeOK
<1>2. jobs' \in Seq(JobState) /\ Len(jobs') = Len(jobs) /\ DOMAIN jobs' = DOMAIN jobs
  BY <1>1, ExceptSeq, LenProperties
<1>3. ASSUME NEW j \in DOMAIN jobs
      PROVE  /\ jobs'[j].ids # {} /\ jobs'[j].ids \subseteq InScope(docs', jobs'[j].owner)
             /\ jobs'[j].pc = "got" => jobs'[j].new \in Doc
  <2>1. jobs[j].ids # {} /\ jobs[j].ids \subseteq InScope(docs, jobs[j].owner)
        /\ (jobs[j].pc = "got" => jobs[j].new \in Doc)
    BY DEF Base, Remembered, ByJobs
  <2>2. jobs[j].owner \in Users
    BY JobTyped DEF JobState
  <2>3. InScope(docs, jobs[j].owner) \subseteq InScope(docs', jobs[j].owner)
    BY <2>2, ScopeGrows
  <2>4. jobs'[j] = IF j = i THEN job ELSE jobs[j]
    OBVIOUS
  <2> QED BY <2>1, <2>3, <2>4
<1> QED BY <1>1, <1>2, <1>3 DEF ByJobs

\* A job is made of cells of its owner.
LEMMA NewJob ==
  ASSUME NEW ids \in SUBSET Cells, NEW owner \in Users, NEW delta \in Deltas
  PROVE  /\ Job(ids, owner, delta) \in JobState
         /\ Job(ids, owner, delta).ids = ids /\ Job(ids, owner, delta).owner = owner
         /\ Job(ids, owner, delta).pc = "queued"
  BY LifecycleAssumption DEF Job, JobState

\* Submitted jobs come after the others.
LEMMA SubmitHitBase ==
  ASSUME Base, NEW owner \in Users, NEW ids \in SUBSET Cells, NEW delta \in Deltas,
         SubmitHit(owner, ids, delta)
  PROVE  /\ Base'
         /\ \A j \in DOMAIN jobs : j \in DOMAIN jobs' /\ jobs'[j] = jobs[j]
         /\ \A j \in (DOMAIN jobs') \ (DOMAIN jobs) :
              jobs'[j].pc = "queued" /\ (atomic \/ \E c : jobs'[j].ids = {c})
<1> DEFINE each == SetToSeq(ids)
           submitted == IF HasAtomic THEN <<Job(ids, owner, delta)>>
                        ELSE [i \in DOMAIN each |-> Job({each[i]}, owner, delta)]
<1>1. Len(jobs) + Len(submitted) <= MaxJobs /\ jobs' = jobs \o submitted
      /\ ids # {} /\ ids \subseteq InScope(docs, owner)
  BY DEF SubmitHit
<1>2. submitted \in Seq(JobState)
      /\ \A i \in 1..Len(submitted) :
           /\ submitted[i].ids # {} /\ submitted[i].ids \subseteq ids
           /\ submitted[i].owner = owner /\ submitted[i].pc = "queued"
           /\ atomic \/ \E c : submitted[i].ids = {c}
  <2>1. CASE HasAtomic
    BY <1>1, <2>1, NewJob DEF HasAtomic
  <2>2. CASE ~HasAtomic
    <3>1. each \in [1..Cardinality(ids) -> ids] /\ Cardinality(ids) \in Nat
      BY FS_Subset, ListOfSet, StoreAssumption
    <3> HIDE DEF each
    <3>2. \A i \in 1..Cardinality(ids) :
            /\ Job({each[i]}, owner, delta) \in JobState
            /\ Job({each[i]}, owner, delta).ids = {each[i]}
            /\ Job({each[i]}, owner, delta).owner = owner
            /\ Job({each[i]}, owner, delta).pc = "queued"
      BY <3>1, NewJob
    <3>3. submitted = [i \in 1..Cardinality(ids) |-> Job({each[i]}, owner, delta)]
      BY <2>2, <3>1
    <3> HIDE DEF submitted
    <3>4. submitted \in [1..Cardinality(ids) -> JobState]
      BY <3>2, <3>3
    <3>5. submitted \in Seq(JobState)
      BY <3>1, <3>4, SeqDef
    <3>6. Len(submitted) = Cardinality(ids)
      BY <3>1, <3>4, <3>5, LenProperties
    <3>7. ASSUME NEW i \in 1..Len(submitted)
          PROVE  submitted[i].ids # {} /\ submitted[i].ids \subseteq ids
                 /\ submitted[i].owner = owner /\ submitted[i].pc = "queued"
                 /\ \E c : submitted[i].ids = {c}
      <4>1. i \in 1..Cardinality(ids) /\ each[i] \in ids
        BY <3>1, <3>6
      <4>2. submitted[i] = Job({each[i]}, owner, delta)
        BY <3>3, <4>1
      <4> QED BY <3>2, <4>1, <4>2
    <3> QED BY <3>5, <3>7
  <2> QED BY <2>1, <2>2
<1> HIDE DEF submitted
<1>3. jobs \in Seq(JobState)
  BY DEF Base, TypeOK
<1>4. jobs' \in Seq(JobState) /\ Len(jobs') = Len(jobs) + Len(submitted)
      /\ \A i \in 1..Len(jobs') :
           jobs'[i] = IF i <= Len(jobs) THEN jobs[i] ELSE submitted[i - Len(jobs)]
  BY <1>1, <1>2, <1>3, ConcatProperties
<1>5. TypeOK'
  BY <1>1, <1>4 DEF Base, TypeOK, SubmitHit, docVars, callVars
<1>6. Grows
  BY DEF Grows, SubmitHit, docVars
<1>7. ByJobs'
  <2> SUFFICES ASSUME NEW i \in 1..Len(jobs')
               PROVE  /\ jobs'[i].ids # {} /\ jobs'[i].ids \subseteq InScope(docs', jobs'[i].owner)
                      /\ jobs'[i].pc = "got" => jobs'[i].new \in Doc
    BY <1>4, LenProperties DEF ByJobs
  <2>1. InScope(docs', owner) = InScope(docs, owner)
    BY DEF SubmitHit, docVars
  <2>2. CASE i <= Len(jobs)
    <3>1. i \in DOMAIN jobs /\ jobs'[i] = jobs[i]
      BY <1>3, <1>4, <2>2, LenProperties
    <3> QED BY <3>1 DEF Base, Remembered, ByJobs, SubmitHit, docVars
  <2>3. CASE ~(i <= Len(jobs))
    <3>1. i - Len(jobs) \in 1..Len(submitted) /\ jobs'[i] = submitted[i - Len(jobs)]
      BY <1>2, <1>3, <1>4, <2>3, LenProperties
    <3> QED BY <1>1, <1>2, <2>1, <3>1
  <2> QED BY <2>2, <2>3
<1>8. \A j \in DOMAIN jobs : j \in DOMAIN jobs' /\ jobs'[j] = jobs[j]
  BY <1>2, <1>3, <1>4, LenProperties
<1>9. \A j \in (DOMAIN jobs') \ (DOMAIN jobs) :
        jobs'[j].pc = "queued" /\ (atomic \/ \E c : jobs'[j].ids = {c})
  <2> SUFFICES ASSUME NEW j \in (DOMAIN jobs') \ (DOMAIN jobs)
               PROVE  jobs'[j].pc = "queued" /\ (atomic \/ \E c : jobs'[j].ids = {c})
    OBVIOUS
  <2>1. j - Len(jobs) \in 1..Len(submitted) /\ jobs'[j] = submitted[j - Len(jobs)]
    BY <1>2, <1>3, <1>4, LenProperties
  <2> QED BY <1>2, <2>1
<1>10. Base'
  BY <1>5, <1>6, <1>7, RememberedStays DEF Base, Remembered, SubmitHit, docVars, callVars
<1> QED BY <1>8, <1>9, <1>10

\* A handler opens.
LEMMA OpenJobBase == ASSUME Base, NEW i \in DOMAIN jobs, OpenJob(i) PROVE Base'
<1> DEFINE job == [jobs[i] EXCEPT !.pc = "open", !.saved = ambient, !.used = jobs[i].delta]
<1>1. jobs' = [jobs EXCEPT ![i] = job]
  BY DEF OpenJob
<1>2. job \in JobState /\ job.ids = jobs[i].ids /\ job.owner = jobs[i].owner /\ job.pc = "open"
  BY JobTyped DEF JobState, Base, TypeOK
<1>3. jobs[i].delta \in Deltas
  BY JobTyped DEF JobState
<1>4. Grows
  BY DEF Grows, OpenJob, docVars
<1> HIDE DEF job
<1>5. jobs' \in Seq(JobState) /\ Len(jobs') <= MaxJobs /\ ByJobs'
  BY <1>1, <1>2, <1>4, JobSet
<1>6. TypeOK'
  BY <1>3, <1>5 DEF Base, TypeOK, OpenJob, docVars, callVars
<1> QED BY <1>4, <1>5, <1>6, RememberedStays DEF Base, Remembered, OpenJob, callVars

\* A state is a state.
LEMMA ComputeStateTyped == \A count, age : ComputeState(count, age) \in States
  BY DEF ComputeState, States

\* A single update has read its cell.
LEMMA GetCellBase ==
  ASSUME Base, NEW i \in DOMAIN jobs, GetCell(i)
  PROVE  /\ Base'
         /\ jobs' = [jobs EXCEPT ![i] = jobs'[i]]
         /\ jobs'[i].pc = "got" /\ jobs'[i].ids = jobs[i].ids /\ jobs'[i].delta = jobs[i].delta
         /\ jobs'[i].saved = jobs[i].saved /\ jobs'[i].used = ambient
         /\ \E c \in jobs[i].ids :
              jobs'[i].new.strength
                = IF docs[c].strength + ambient <= SMax THEN docs[c].strength + ambient ELSE SMax
<1> PICK c \in jobs[i].ids :
      jobs' = [jobs EXCEPT ![i] = [@ EXCEPT
         !.pc = "got", !.used = ambient,
         !.new = [docs[c] EXCEPT !.strength = Min({docs[c].strength + ambient, SMax}),
                             !.access = @ + 1, !.updated = now,
                             !.state = ComputeState(docs[c].access + 1, AgeOf(docs[c], now))]]]
  BY DEF GetCell
<1> DEFINE strength == Min({docs[c].strength + ambient, SMax})
           count == docs[c].access + 1
           state == ComputeState(docs[c].access + 1, AgeOf(docs[c], now))
           new == [docs[c] EXCEPT !.strength = strength, !.access = count, !.updated = now,
                                  !.state = state]
           job == [jobs[i] EXCEPT !.pc = "got", !.used = ambient, !.new = new]
<1>1. docs[c] \in Doc
  <2>1. jobs[i].owner \in Users
    BY JobTyped DEF JobState
  <2> QED BY <2>1, StoredDoc, ScopeOfUser DEF Base, Remembered, ByJobs
<1>2. /\ strength \in Int
      /\ strength = IF docs[c].strength + ambient <= SMax THEN docs[c].strength + ambient ELSE SMax
  <2>1. ambient \in Nat
    BY LifecycleAssumption DEF Base, TypeOK
  <2>2. docs[c].strength \in Int
    BY <1>1 DEF Doc
  <2>3. docs[c].strength + ambient \in Int /\ SMax \in Int
    BY <2>1, <2>2, StoreAssumption
  <2>4. strength = IF docs[c].strength + ambient <= SMax THEN docs[c].strength + ambient ELSE SMax
    BY <2>3, MinOfTwo
  <2> HIDE DEF strength
  <2>5. strength \in Int
    BY <2>3, <2>4
  <2> QED BY <2>4, <2>5
<1>3. count \in Nat /\ now \in Nat /\ state \in States
  <2>1. docs[c].access \in Nat
    BY <1>1 DEF Doc
  <2>2. now \in Nat
    BY LifecycleAssumption DEF Base, TypeOK
  <2> QED BY <2>1, <2>2, ComputeStateTyped
<1>4. jobs' = [jobs EXCEPT ![i] = job]
  OBVIOUS
<1> HIDE DEF strength, count, state
<1>5. new \in Doc /\ new.strength = strength
  <2>1. strength \in Int
    BY <1>2
  <2>2. ASSUME NEW d \in Doc
        PROVE  [d EXCEPT !.strength = strength, !.access = count, !.updated = now, !.state = state]
                 \in Doc
    BY <1>3, <2>1 DEF Doc
  <2>3. ASSUME NEW d \in Doc
        PROVE  [d EXCEPT !.strength = strength, !.access = count, !.updated = now, !.state = state]
                 .strength = strength
    BY DEF Doc
  <2> QED BY <1>1, <2>2, <2>3
<1> HIDE DEF new
<1>6. job \in JobState /\ job.ids = jobs[i].ids /\ job.owner = jobs[i].owner /\ job.new = new
      /\ job.used = ambient /\ job.pc = "got" /\ job.saved = jobs[i].saved /\ job.delta = jobs[i].delta
  BY <1>5, JobTyped DEF JobState, Base, TypeOK
<1> HIDE DEF job
<1>7. Grows
  BY DEF Grows, GetCell, docVars
<1>8. jobs' \in Seq(JobState) /\ Len(jobs') <= MaxJobs /\ ByJobs'
  BY <1>4, <1>5, <1>6, <1>7, JobSet
<1>9. TypeOK'
  BY <1>8 DEF Base, TypeOK, GetCell, docVars, callVars
<1>10. Base'
  BY <1>7, <1>8, <1>9, RememberedStays DEF Base, Remembered, GetCell, callVars
<1>11. jobs'[i] = job
  BY <1>4
<1>12. jobs'[i].new.strength = strength
  BY <1>5, <1>6, <1>11
<1> QED BY <1>2, <1>4, <1>6, <1>10, <1>11, <1>12

\* What a job adds, it adds to documents.
LEMMA JobCells ==
  ASSUME Base, NEW i \in DOMAIN jobs
  PROVE  /\ jobs[i].ids # {} /\ jobs[i].ids \subseteq Stored(docs)
         /\ jobs[i].ids \cap InScope(docs, jobs[i].owner) = jobs[i].ids
         /\ jobs[i].ids \subseteq Cells
         /\ jobs[i].used \in Nat /\ jobs[i].delta \in Deltas
<1>1. jobs[i].owner \in Users /\ jobs[i].used \in Deltas /\ jobs[i].delta \in Deltas
  BY JobTyped DEF JobState
<1>2. jobs[i].ids # {} /\ jobs[i].ids \subseteq InScope(docs, jobs[i].owner)
  BY DEF Base, Remembered, ByJobs
<1> QED BY <1>1, <1>2, ScopeOfUser, StoredDoc, LifecycleAssumption

\* A job ends, is queued again, or is parked.
LEMMA FinishJobBase ==
  ASSUME Base, NEW i \in DOMAIN jobs, FinishJob(i)
  PROVE  Base' /\ Grows
<1> PICK outcome \in Outcomes, again \in {"queued", "parked"} :
      /\ Suffer(outcome)
      /\ Account(jobs[i].ids, outcome)
      /\ docs' = IF ~outcome.done THEN docs
                 ELSE IF HasAtomic
                 THEN AddToAll(docs, jobs[i].ids \cap InScope(docs, jobs[i].owner), jobs[i].used, 1, now)
                 ELSE Updated(docs, CHOOSE c \in jobs[i].ids : TRUE, jobs[i].new)
      /\ jobs' = [jobs EXCEPT ![i] = [Job(jobs[i].ids, jobs[i].owner, jobs[i].delta) EXCEPT
                                         !.pc = IF outcome.ok THEN "done" ELSE again]]
  BY DEF FinishJob
<1> DEFINE job == [Job(jobs[i].ids, jobs[i].owner, jobs[i].delta) EXCEPT
                     !.pc = IF outcome.ok THEN "done" ELSE again]
<1>1. now \in Nat
  BY LifecycleAssumption DEF Base, TypeOK
<1>2. \A c \in jobs[i].ids : Strengthened(docs[c], jobs[i].used, 1, now) \in Doc
  <2>1. \A c \in jobs[i].ids : docs[c] \in Doc
    BY JobCells, StoredDoc
  <2>2. jobs[i].used \in Int
    BY JobCells
  <2> QED BY <1>1, <2>1, <2>2, StrengthenedDoc
<1>3. ~HasAtomic => jobs[i].new \in Doc
  BY DEF Base, Remembered, ByJobs, FinishJob
<1>4. docs' \in [Cells -> Doc \cup {Absent}] /\ \A c \in Stored(docs) : docs'[c] \in Doc
  BY <1>2, <1>3, JobCells, StoredDoc DEF AddToAll, Updated, Base, TypeOK
<1>5. Grows
  BY <1>4, DocsGrow
<1>6. job \in JobState /\ job.ids = jobs[i].ids /\ job.owner = jobs[i].owner /\ job.pc # "got"
  BY JobTyped, LifecycleAssumption DEF JobState, Job
<1>7. jobs' = [jobs EXCEPT ![i] = job]
  OBVIOUS
<1>8. ambient' \in Deltas
  BY JobTyped DEF FinishJob, Restored, JobState
<1> HIDE DEF job
<1>9. jobs' \in Seq(JobState) /\ Len(jobs') <= MaxJobs /\ ByJobs'
  BY <1>5, <1>6, <1>7, JobSet
<1>10. TypeOK'
  BY <1>4, <1>8, <1>9, AccountTyped, SufferTyped DEF Base, TypeOK, FinishJob, callVars
<1> QED BY <1>5, <1>9, <1>10, RememberedStays DEF Base, Remembered, FinishJob, callVars

-----------------------------------------------------------------------------
(* Calls *)

\* A call has its type.
LEMMA CallTyped ==
  ASSUME Base, NEW k \in 1..Calls
  PROVE  /\ call[k] \in CallState /\ call[k].todo \subseteq Users
         /\ call[k].ids \subseteq Stored(docs) /\ call[k].quota \in Nat
  BY DEF Base, TypeOK, CallState, Remembered, ByCalls

\* A call goes on with documents.
LEMMA CallSet ==
  ASSUME Base, Grows, NEW k \in 1..Calls, NEW x \in CallState,
         call' = [call EXCEPT ![k] = x], x.ids \subseteq Stored(docs)
  PROVE  call' \in [1..Calls -> CallState] /\ ByCalls'
  BY DEF Base, TypeOK, Remembered, ByCalls, Grows

\* The next scope, or the end of the call.
LEMMA NextUserBase ==
  ASSUME Base, Grows, NEW k \in 1..Calls, NEW todo \in SUBSET Users, NextUser(k, todo)
  PROVE  call' \in [1..Calls -> CallState] /\ ByCalls' /\ holder' \in 0..Calls
<1>1. CASE todo # {}
  <2> PICK u \in todo :
        call' = [call EXCEPT ![k] = [@ EXCEPT !.pc = "cold", !.user = u, !.todo = todo \ {u},
                                              !.ids = {}, !.quota = 0]]
    BY <1>1 DEF NextUser
  <2> DEFINE x == [call[k] EXCEPT !.pc = "cold", !.user = u, !.todo = todo \ {u},
                                  !.ids = {}, !.quota = 0]
  <2>1. x \in CallState /\ x.ids \subseteq Stored(docs)
    BY CallTyped DEF CallState
  <2>2. call' = [call EXCEPT ![k] = x]
    OBVIOUS
  <2> HIDE DEF x
  <2> QED BY <1>1, <2>1, <2>2, CallSet DEF NextUser, Base, TypeOK
<1>2. CASE todo = {}
  <2>1. [NoCall EXCEPT !.pc = "done"] \in CallState
        /\ [NoCall EXCEPT !.pc = "done"].ids \subseteq Stored(docs)
    BY DEF NoCall, CallState
  <2>2. call' = [call EXCEPT ![k] = [NoCall EXCEPT !.pc = "done"]]
    BY <1>2 DEF NextUser
  <2>3. holder' = 0 /\ 0 \in 0..Calls
    BY <1>2, LifecycleAssumption DEF NextUser, Released
  <2> QED BY <2>1, <2>2, <2>3, CallSet
<1> QED BY <1>1, <1>2

\* A step of a call leaves the rest alone.
LEMMA CallStepBase ==
  ASSUME Base, Grows, CallStep, docs' \in [Cells -> Doc \cup {Absent}],
         UNCHANGED <<acked, unacked>>, faults' \in 0..MaxFaults,
         call' \in [1..Calls -> CallState], ByCalls', holder' \in 0..Calls
  PROVE  Base'
<1>1. TypeOK'
  BY DEF Base, TypeOK, CallStep, jobVars
<1> QED BY <1>1, RememberedStays DEF Base, Remembered, CallStep, jobVars

\* A reading step of a call: the collection stays.
LEMMA ReadingGrows ==
  ASSUME Base, Keep
  PROVE  Grows /\ docs' \in [Cells -> Doc \cup {Absent}] /\ UNCHANGED <<acked, unacked>>
  BY DEF Keep, docVars, Grows, Base, TypeOK

\* A call takes the lock.
LEMMA StartBase == ASSUME Base, NEW k \in 1..Calls, Start(k) PROVE Base'
<1> PICK in \in CallInputs, outcome \in Outcomes :
      /\ Suffer(outcome)
      /\ call' = [call EXCEPT ![k] = [@ EXCEPT !.pc = "scopes",
            !.todo = IF in.phase \in {"deep", "rem"} /\ outcome.ok
                     THEN {u \in Users : u.tenant = in.tenant /\ in.user \in {None, u.user}}
                     ELSE {}]]
  BY DEF Start
<1> DEFINE todo == IF in.phase \in {"deep", "rem"} /\ outcome.ok
                   THEN {u \in Users : u.tenant = in.tenant /\ in.user \in {None, u.user}}
                   ELSE {}
           x == [call[k] EXCEPT !.pc = "scopes", !.todo = todo]
<1>1. todo \subseteq Users
  OBVIOUS
<1>2. call' = [call EXCEPT ![k] = x]
  OBVIOUS
<1> HIDE DEF todo
<1>3. x \in CallState /\ x.ids \subseteq Stored(docs)
  BY <1>1, CallTyped DEF CallState
<1> HIDE DEF x
<1>4. Keep /\ CallStep /\ holder' = k /\ k \in 0..Calls
  BY LifecycleAssumption DEF Start
<1> QED BY <1>2, <1>3, <1>4, CallSet, SufferTyped, ReadingGrows, CallStepBase

\* The scopes are known.
LEMMA ScopesBase == ASSUME Base, NEW k \in 1..Calls, Scopes(k) PROVE Base'
<1>1. Keep /\ CallStep /\ NextUser(k, call[k].todo) /\ faults' \in 0..MaxFaults
  BY DEF Scopes, Base, TypeOK
<1> QED BY <1>1, CallTyped, NextUserBase, ReadingGrows, CallStepBase

\* Cold cells are found.
LEMMA FindColdBase == ASSUME Base, NEW k \in 1..Calls, FindCold(k) PROVE Base'
<1> DEFINE old == {c \in FindByState(docs, call[k].user, "COLD") : ShouldArchive(docs[c], now)}
<1> PICK outcome \in Outcomes :
      /\ Suffer(outcome)
      /\ call' = [call EXCEPT ![k] =
               IF outcome.ok /\ old # {} THEN [@ EXCEPT !.pc = "archive", !.ids = old]
               ELSE [@ EXCEPT !.pc = "count"]]
  BY DEF FindCold
<1>1. old \subseteq Stored(docs) /\ old \subseteq Cells
  BY DEF FindByState, InScope, Stored
<1> HIDE DEF old
<1> DEFINE x == IF outcome.ok /\ old # {} THEN [call[k] EXCEPT !.pc = "archive", !.ids = old]
                ELSE [call[k] EXCEPT !.pc = "count"]
<1>2. x \in CallState /\ x.ids \subseteq Stored(docs)
  <2>1. [call[k] EXCEPT !.pc = "archive", !.ids = old] \in CallState
        /\ [call[k] EXCEPT !.pc = "archive", !.ids = old].ids = old
    BY <1>1, CallTyped DEF CallState
  <2>2. [call[k] EXCEPT !.pc = "count"] \in CallState
        /\ [call[k] EXCEPT !.pc = "count"].ids = call[k].ids
    BY CallTyped DEF CallState
  <2> QED BY <1>1, <2>1, <2>2, CallTyped
<1>3. call' = [call EXCEPT ![k] = x]
  OBVIOUS
<1> HIDE DEF x
<1>4. Keep /\ CallStep /\ holder' \in 0..Calls
  BY DEF FindCold, Base, TypeOK
<1> QED BY <1>2, <1>3, <1>4, CallSet, SufferTyped, ReadingGrows, CallStepBase

\* Every set of cells has a size.
LEMMA CellsCounted ==
  ASSUME NEW S \in SUBSET Cells
  PROVE  IsFiniteSet(S) /\ Cardinality(S) \in Nat
  BY FS_Subset, FS_CardinalityType, StoreAssumption

\* The capacity is exceeded, or the next user's turn has come.
LEMMA CountBase == ASSUME Base, NEW k \in 1..Calls, Count(k) PROVE Base'
<1> DEFINE total == CountOf(docs, call[k].user)
           live == Cardinality(Live(docs, call[k].user))
           quota == Min({total - MaxMemories, Max({1, (total * Margin) \div 100})})
           floor == Min({live, MaxMemories - (total - live)})
<1> PICK outcome \in Outcomes :
      /\ Suffer(outcome)
      /\ IF outcome.ok /\ total > MaxMemories
         THEN /\ call' = [call EXCEPT ![k] = [@ EXCEPT !.pc = "all", !.quota = quota, !.floor = floor]]
              /\ UNCHANGED holder
         ELSE NextUser(k, call[k].todo)
  BY DEF Count
<1>1. Keep /\ CallStep
  BY DEF Count
<1>2. total \in Nat /\ live \in Nat
  <2>1. InScope(docs, call[k].user) \subseteq Cells /\ Live(docs, call[k].user) \subseteq Cells
    BY DEF InScope, Live, Stored
  <2> QED BY <2>1, CellsCounted DEF CountOf
<1> HIDE DEF total, live
<1>3. floor \in Int
  <2>1. MaxMemories - (total - live) \in Int
    BY <1>2, LifecycleAssumption
  <2> HIDE DEF floor
  <2>2. floor = IF live <= MaxMemories - (total - live) THEN live ELSE MaxMemories - (total - live)
    BY <1>2, <2>1, MinOfTwo DEF floor
  <2> QED BY <1>2, <2>1, <2>2
<1>4. ASSUME total > MaxMemories PROVE quota \in Nat
  <2> DEFINE part == (total * Margin) \div 100
             most == Max({1, part})
  <2>1. Margin \in Nat
    BY LifecycleAssumption
  <2>2. total * Margin \in Nat
    BY <1>2, <2>1
  <2>3. part \in Int
    BY <2>2
  <2> HIDE DEF part
  <2>4. most = IF 1 >= part THEN 1 ELSE part
    BY <2>3, MaxOfTwo
  <2> HIDE DEF most
  <2>5. most \in Nat
    BY <2>3, <2>4
  <2>6. total - MaxMemories \in Nat
    BY <1>2, <1>4, LifecycleAssumption
  <2> DEFINE over == total - MaxMemories
  <2>7. quota = Min({over, most})
    BY DEF quota, most, part
  <2>8. over \in Nat
    BY <2>6
  <2> HIDE DEF quota, over
  <2>9. Min({over, most}) = IF over <= most THEN over ELSE most
    BY <2>5, <2>8, MinOfTwo
  <2> QED BY <2>5, <2>7, <2>8, <2>9
<1> HIDE DEF quota, floor
<1>5. CASE outcome.ok /\ total > MaxMemories
  <2> DEFINE x == [call[k] EXCEPT !.pc = "all", !.quota = quota, !.floor = floor]
  <2>1. x \in CallState /\ x.ids \subseteq Stored(docs)
    BY <1>3, <1>4, <1>5, CallTyped DEF CallState
  <2>2. call' = [call EXCEPT ![k] = x] /\ holder' \in 0..Calls
    BY <1>5 DEF Base, TypeOK
  <2> HIDE DEF x
  <2> QED BY <1>1, <2>1, <2>2, CallSet, SufferTyped, ReadingGrows, CallStepBase
<1>6. CASE ~(outcome.ok /\ total > MaxMemories)
  <2>1. NextUser(k, call[k].todo)
    BY <1>6
  <2> QED BY <1>1, <2>1, CallTyped, NextUserBase, SufferTyped, ReadingGrows, CallStepBase
<1> QED BY <1>5, <1>6

\* What is archived was listed.
LEMMA FindAllBase == ASSUME Base, NEW k \in 1..Calls, FindAll(k) PROVE Base'
<1> PICK outcome \in Outcomes :
      /\ Suffer(outcome)
      /\ \/ NextUser(k, call[k].todo)
         \/ \E ids \in SUBSET InScope(docs, call[k].user) :
              /\ call' = [call EXCEPT ![k] = [@ EXCEPT !.pc = "archive", !.ids = ids]]
              /\ UNCHANGED holder
  <2>1. PICK outcome \in Outcomes :
          /\ Suffer(outcome)
          /\ IF ~outcome.ok THEN NextUser(k, call[k].todo)
             ELSE \E listed \in Listings(docs, call[k].user, FindLimit) :
                    LET live == {c \in listed : docs[c].state # "ARCHIVED"}
                    IN \E ids \in SUBSET live :
                         \/ NextUser(k, call[k].todo)
                         \/ /\ call' = [call EXCEPT ![k] = [@ EXCEPT !.pc = "archive", !.ids = ids]]
                            /\ UNCHANGED holder
    BY DEF FindAll
  <2>2. \A listed \in Listings(docs, call[k].user, FindLimit) : listed \subseteq InScope(docs, call[k].user)
    BY DEF Listings
  <2> QED BY <2>1, <2>2
<1>1. Keep /\ CallStep
  BY DEF FindAll
<1>2. CASE NextUser(k, call[k].todo)
  BY <1>1, <1>2, CallTyped, NextUserBase, SufferTyped, ReadingGrows, CallStepBase
<1>3. ASSUME NEW ids \in SUBSET InScope(docs, call[k].user),
             call' = [call EXCEPT ![k] = [@ EXCEPT !.pc = "archive", !.ids = ids]],
             UNCHANGED holder
      PROVE  Base'
  <2> DEFINE x == [call[k] EXCEPT !.pc = "archive", !.ids = ids]
  <2>1. ids \subseteq Cells /\ ids \subseteq Stored(docs)
    BY DEF InScope, Stored
  <2>2. x \in CallState /\ x.ids \subseteq Stored(docs)
    BY <2>1, CallTyped DEF CallState
  <2>3. call' = [call EXCEPT ![k] = x] /\ holder' \in 0..Calls
    BY <1>3 DEF Base, TypeOK
  <2> HIDE DEF x
  <2> QED BY <1>1, <2>2, <2>3, CallSet, SufferTyped, ReadingGrows, CallStepBase
<1> QED BY <1>2, <1>3

\* Archiving changes neither strength nor access count.
LEMMA ArchivedDocs ==
  ASSUME Base, NEW ids \in SUBSET Stored(docs), NEW outcome \in Outcomes,
         docs' = IF outcome.done THEN Archived(docs, ids, now) ELSE docs
  PROVE  /\ docs' \in [Cells -> Doc \cup {Absent}] /\ Grows
         /\ \A c \in Cells : docs[c] = Absent => docs'[c] = Absent
         /\ \A c \in Stored(docs) : docs'[c].strength = docs[c].strength /\ docs'[c].access = docs[c].access
<1>1. now \in Nat
  BY LifecycleAssumption DEF Base, TypeOK
<1>2. ASSUME NEW d \in Doc
      PROVE  LET e == [d EXCEPT !.state = "ARCHIVED", !.updated = now]
             IN e \in Doc /\ e.strength = d.strength /\ e.access = d.access
  BY <1>1 DEF Doc, States
<1>3. \A c \in Stored(docs) : docs[c] \in Doc
  BY StoredDoc
<1>4. \A c \in Cells : c \notin Stored(docs) => docs[c] = Absent /\ c \notin ids
  BY DEF Stored
<1>5. \A c \in Stored(docs) : docs'[c] \in Doc /\ docs'[c].strength = docs[c].strength
                                /\ docs'[c].access = docs[c].access
  <2> SUFFICES ASSUME NEW c \in Stored(docs)
               PROVE  docs'[c] \in Doc /\ docs'[c].strength = docs[c].strength
                      /\ docs'[c].access = docs[c].access
    OBVIOUS
  <2>1. docs'[c] = docs[c] \/ docs'[c] = [docs[c] EXCEPT !.state = "ARCHIVED", !.updated = now]
    BY StoredDoc DEF Archived
  <2> QED BY <1>2, <1>3, <2>1
<1>6. \A c \in Cells : docs[c] = Absent => docs'[c] = Absent
  BY <1>4, DocIsStored DEF Archived, Stored
<1>7. docs' \in [Cells -> Doc \cup {Absent}]
  <2>1. docs' = [c \in Cells |-> docs'[c]]
    BY DEF Archived, Base, TypeOK
  <2>2. \A c \in Cells : docs'[c] \in Doc \cup {Absent}
    BY <1>5, <1>6 DEF Stored
  <2> QED BY <2>1, <2>2
<1> QED BY <1>5, <1>6, <1>7, DocsGrow

\* What follows an archive.
LEMMA AfterArchiveBase ==
  ASSUME Base, Grows, NEW k \in 1..Calls, AfterArchive(k)
  PROVE  call' \in [1..Calls -> CallState] /\ ByCalls' /\ holder' \in 0..Calls
<1>1. CASE call[k].quota = 0
  <2> DEFINE x == [call[k] EXCEPT !.pc = "count", !.ids = {}]
  <2>1. x \in CallState /\ x.ids \subseteq Stored(docs)
    BY CallTyped DEF CallState
  <2>2. call' = [call EXCEPT ![k] = x] /\ holder' \in 0..Calls
    BY <1>1 DEF AfterArchive, Base, TypeOK
  <2> HIDE DEF x
  <2> QED BY <2>1, <2>2, CallSet
<1>2. CASE call[k].quota # 0
  <2>1. NextUser(k, call[k].todo)
    BY <1>2 DEF AfterArchive
  <2> QED BY <2>1, CallTyped, NextUserBase
<1> QED BY <1>1, <1>2

\* The bulk command of an archive.
LEMMA BulkArchiveBase ==
  ASSUME Base, NEW k \in 1..Calls, BulkArchive(k) PROVE Base' /\ Grows
<1> PICK outcome \in Outcomes :
      /\ Suffer(outcome)
      /\ docs' = IF outcome.done THEN Archived(docs, call[k].ids, now) ELSE docs
      /\ IF outcome.ok THEN AfterArchive(k) ELSE Goto(k, "each")
  BY DEF BulkArchive
<1>1. CallStep /\ UNCHANGED <<acked, unacked>>
  BY DEF BulkArchive
<1>2. docs' \in [Cells -> Doc \cup {Absent}] /\ Grows
  BY CallTyped, ArchivedDocs
<1>3. call' \in [1..Calls -> CallState] /\ ByCalls' /\ holder' \in 0..Calls
  <2>1. CASE outcome.ok
    BY <1>2, <2>1, AfterArchiveBase
  <2>2. CASE ~outcome.ok
    <3> DEFINE x == [call[k] EXCEPT !.pc = "each"]
    <3>1. x \in CallState /\ x.ids \subseteq Stored(docs)
      BY CallTyped DEF CallState
    <3>2. call' = [call EXCEPT ![k] = x] /\ holder' \in 0..Calls
      BY <2>2 DEF Goto, Base, TypeOK
    <3> HIDE DEF x
    <3> QED BY <1>2, <3>1, <3>2, CallSet
  <2> QED BY <2>1, <2>2
<1> QED BY <1>1, <1>2, <1>3, SufferTyped, CallStepBase

\* An archive cell by cell.
LEMMA ArchiveOneBase ==
  ASSUME Base, NEW k \in 1..Calls, ArchiveOne(k) PROVE Base' /\ Grows
<1> PICK c \in call[k].ids, outcome \in Outcomes :
      /\ Suffer(outcome)
      /\ docs' = IF outcome.done THEN Archived(docs, {c}, now) ELSE docs
      /\ IF call[k].ids = {c} THEN AfterArchive(k)
         ELSE call' = [call EXCEPT ![k].ids = @ \ {c}] /\ UNCHANGED holder
  BY DEF ArchiveOne
<1>1. CallStep /\ UNCHANGED <<acked, unacked>>
  BY DEF ArchiveOne
<1>2. docs' \in [Cells -> Doc \cup {Absent}] /\ Grows
  <2>1. {c} \subseteq Stored(docs)
    BY CallTyped
  <2> QED BY <2>1, ArchivedDocs
<1>3. call' \in [1..Calls -> CallState] /\ ByCalls' /\ holder' \in 0..Calls
  <2>1. CASE call[k].ids = {c}
    BY <1>2, <2>1, AfterArchiveBase
  <2>2. CASE call[k].ids # {c}
    <3> DEFINE x == [call[k] EXCEPT !.ids = @ \ {c}]
    <3>1. x \in CallState /\ x.ids \subseteq Stored(docs)
      BY CallTyped DEF CallState
    <3>2. call' = [call EXCEPT ![k] = x] /\ holder' \in 0..Calls
      BY <2>2 DEF Base, TypeOK
    <3> HIDE DEF x
    <3> QED BY <1>2, <3>1, <3>2, CallSet
  <2> QED BY <2>1, <2>2
<1> QED BY <1>1, <1>2, <1>3, SufferTyped, CallStepBase

\* Every step keeps the types and what is remembered.
LEMMA BaseStep == Base /\ [Next]_vars => Base'
<1> SUFFICES ASSUME Base, [Next]_vars PROVE Base'
  OBVIOUS
<1>1. CASE Tick
  BY <1>1, TickBase
<1>2. CASE \E c \in Cells : Ingest(c)
  BY <1>2, IngestBase
<1>3. CASE FeedbackSteps
  BY <1>3, ReadCellBase, ApplyFeedbackBase DEF FeedbackSteps
<1>4. CASE HitSteps
  BY <1>4, SubmitHitBase, OpenJobBase, GetCellBase, FinishJobBase DEF HitSteps
<1>5. ASSUME NEW k \in 1..Calls, Start(k) \/ Serve(k) PROVE Base'
  BY <1>5, StartBase, ScopesBase, FindColdBase, CountBase, FindAllBase, BulkArchiveBase,
     ArchiveOneBase DEF Serve
<1>6. CASE UNCHANGED vars
  <2>1. Grows
    BY <1>6 DEF vars, docVars, Grows
  <2>2. TypeOK'
    BY <1>6 DEF vars, docVars, jobVars, callVars, Base, TypeOK
  <2> QED BY <1>6, <2>1, <2>2, RememberedStays DEF vars, jobVars, callVars, Base, Remembered
<1> QED BY <1>1, <1>2, <1>3, <1>4, <1>5, <1>6 DEF Next

\* Every variable keeps its type: in particular no command of a feedback, a job
\* or an archive makes anything but a document of what it finds.
THEOREM TypeCorrect == Spec => []TypeOK
<1>1. Base => TypeOK
  BY DEF Base
<1> QED BY <1>1, BaseInit, BaseStep, PTL DEF Spec

-----------------------------------------------------------------------------
(* The accounts of the access counts. *)

\* A cell that is not stored has no account yet: nothing is counted before it arrives.
Accounted ==
  atomic => \A c \in Cells :
    /\ c \in Stored(docs) => docs[c].access = acked[c] + unacked[c]
    /\ c \notin Stored(docs) => acked[c] = 0 /\ unacked[c] = 0

\* A command of the server that adds to stored documents.
LEMMA AddedToAll ==
  ASSUME Base, NEW ids \in SUBSET Stored(docs), NEW delta \in Int, NEW bump \in Nat,
         docs' = AddToAll(docs, ids, delta, bump, now)
  PROVE  /\ Stored(docs') = Stored(docs)
         /\ \A c \in Cells \ ids : docs'[c] = docs[c]
         /\ \A c \in ids :
              /\ docs'[c].access = docs[c].access + bump
              /\ docs'[c].strength = IF docs[c].strength + delta <= SMax
                                     THEN docs[c].strength + delta ELSE SMax
<1>1. now \in Nat
  BY LifecycleAssumption DEF Base, TypeOK
<1>2. \A c \in Cells : docs'[c] = IF c \in ids THEN Strengthened(docs[c], delta, bump, now)
                                  ELSE docs[c]
  BY DEF AddToAll
<1>3. \A c \in ids :
        /\ c \in Cells /\ docs'[c] \in Doc
        /\ docs'[c].access = docs[c].access + bump
        /\ docs'[c].strength = IF docs[c].strength + delta <= SMax
                               THEN docs[c].strength + delta ELSE SMax
  BY <1>1, <1>2, StoredDoc, StrengthenedDoc
<1>4. Stored(docs') = Stored(docs)
  BY <1>2, <1>3, DocIsStored DEF Stored
<1> QED BY <1>2, <1>3, <1>4

\* A command that is done counts once per cell, its answer confirmed or lost;
\* one that is not done counts nothing.
LEMMA AccountedByCommand ==
  ASSUME Base, Accounted, atomic, NEW ids \in SUBSET Stored(docs), NEW cs \in SUBSET ids,
         NEW delta \in Int, NEW bump \in Nat, NEW outcome \in Outcomes, Account(cs, outcome),
         docs' = IF ~outcome.done THEN docs ELSE AddToAll(docs, ids, delta, bump, now),
         \A c \in ids : bump = IF c \in cs THEN 1 ELSE 0
  PROVE  Accounted'
<1>1. \A c \in Cells : acked[c] \in Nat /\ unacked[c] \in Nat
  BY DEF Base, TypeOK
<1>2. \A c \in Cells :
        /\ acked'[c] = acked[c] + (IF c \in cs /\ outcome.ok THEN 1 ELSE 0)
        /\ unacked'[c] = unacked[c] + (IF c \in cs /\ outcome.done /\ ~outcome.ok THEN 1 ELSE 0)
  BY DEF Account
<1>3. CASE ~outcome.done
  <2>1. ~outcome.ok
    BY <1>3 DEF Outcomes
  <2> QED BY <1>1, <1>2, <1>3, <2>1 DEF Accounted
<1>4. CASE outcome.done
  <2>1. /\ Stored(docs') = Stored(docs)
        /\ \A c \in Cells \ ids : docs'[c] = docs[c]
        /\ \A c \in ids : docs'[c].access = docs[c].access + bump
    BY <1>4, AddedToAll
  <2>2. ASSUME NEW c \in Cells
        PROVE  /\ c \in Stored(docs') => docs'[c].access = acked'[c] + unacked'[c]
               /\ c \notin Stored(docs') => acked'[c] = 0 /\ unacked'[c] = 0
    <3>1. CASE c \in cs
      <4>1. docs'[c].access = docs[c].access + 1 /\ docs[c].access = acked[c] + unacked[c]
            /\ c \in Stored(docs')
        BY <2>1, <3>1 DEF Accounted
      <4>2. acked'[c] + unacked'[c] = acked[c] + unacked[c] + 1
        BY <1>1, <1>2, <1>4, <3>1
      <4> QED BY <4>1, <4>2
    <3>2. CASE c \notin cs
      <4>1. acked'[c] = acked[c] /\ unacked'[c] = unacked[c]
        BY <1>1, <1>2, <3>2
      <4>2. c \in Stored(docs) => docs'[c].access = docs[c].access
        <5>1. ASSUME c \in ids PROVE docs'[c].access = docs[c].access
          <6>1. docs[c].access \in Nat
            BY <5>1, StoredDoc DEF Doc
          <6> QED BY <2>1, <3>2, <5>1, <6>1
        <5> QED BY <2>1, <5>1
      <4> QED BY <2>1, <4>1, <4>2 DEF Accounted
    <3> QED BY <3>1, <3>2
  <2> QED BY <2>2 DEF Accounted
<1> QED BY <1>3, <1>4

\* A step that neither counts nor stores.
LEMMA AccountedStays ==
  ASSUME Base, Accounted, UNCHANGED <<atomic, acked, unacked>>,
         \A c \in Cells : docs[c] = Absent => docs'[c] = Absent,
         \A c \in Stored(docs) : docs'[c].access = docs[c].access,
         Grows
  PROVE  Accounted'
<1>1. Stored(docs') = Stored(docs)
  BY DEF Stored, Grows
<1> QED BY <1>1 DEF Accounted

\* A feedback is counted when it is a confirming one.
LEMMA ApplyFeedbackAccounted ==
  ASSUME Base, Accounted, NEW f \in 1..Feedbacks, ApplyFeedback(f)
  PROVE  Accounted'
<1> SUFFICES ASSUME atomic PROVE Accounted'
  BY DEF ApplyFeedback, Accounted
<1> DEFINE fb == feedback[f]
           cs == IF fb.positive THEN {fb.cell} ELSE {}
           bump == IF fb.positive THEN 1 ELSE 0
           delta == fb.new - fb.seen.strength
<1> PICK outcome \in Outcomes :
      /\ Account(cs, outcome)
      /\ docs' = IF ~outcome.done THEN docs ELSE AddToAll(docs, {fb.cell}, delta, bump, now)
  BY DEF ApplyFeedback, HasAtomic
<1>1. fb \in FeedbackState /\ fb.pc = "apply"
  BY DEF ApplyFeedback, Base, TypeOK
<1>2. {fb.cell} \subseteq Stored(docs)
  BY <1>1 DEF Base, Remembered, ByFeedback
<1>3. delta \in Int
  BY <1>1 DEF FeedbackState, Doc
<1>4. cs \subseteq {fb.cell} /\ bump \in Nat /\ \A c \in {fb.cell} : bump = IF c \in cs THEN 1 ELSE 0
  OBVIOUS
<1> HIDE DEF fb, cs, bump, delta
<1> QED BY <1>2, <1>3, <1>4, AccountedByCommand

\* A job is counted for each of its cells.
LEMMA FinishJobAccounted ==
  ASSUME Base, Accounted, NEW i \in DOMAIN jobs, FinishJob(i)
  PROVE  Accounted'
<1> SUFFICES ASSUME atomic PROVE Accounted'
  BY DEF FinishJob, Accounted
<1> PICK outcome \in Outcomes :
      /\ Account(jobs[i].ids, outcome)
      /\ docs' = IF ~outcome.done THEN docs
                 ELSE AddToAll(docs, jobs[i].ids \cap InScope(docs, jobs[i].owner), jobs[i].used, 1, now)
  BY DEF FinishJob, HasAtomic
<1>1. /\ jobs[i].ids \subseteq Stored(docs) /\ jobs[i].used \in Int
      /\ jobs[i].ids \cap InScope(docs, jobs[i].owner) = jobs[i].ids
  BY JobCells
<1> DEFINE ids == jobs[i].ids
           used == jobs[i].used
<1>2. docs' = IF ~outcome.done THEN docs ELSE AddToAll(docs, ids, used, 1, now)
  BY <1>1
<1>3. ids \subseteq Stored(docs) /\ used \in Int /\ Account(ids, outcome)
  BY <1>1
<1> HIDE DEF ids, used
<1> QED BY <1>2, <1>3, AccountedByCommand

\* An archive changes no count.
LEMMA ArchiveAccounted ==
  ASSUME Base, Accounted, NEW k \in 1..Calls, BulkArchive(k) \/ ArchiveOne(k)
  PROVE  Accounted'
<1>1. Grows /\ UNCHANGED <<atomic, acked, unacked>>
  BY BulkArchiveBase, ArchiveOneBase DEF BulkArchive, ArchiveOne, CallStep
<1>2. PICK ids \in SUBSET Stored(docs), outcome \in Outcomes :
        docs' = IF outcome.done THEN Archived(docs, ids, now) ELSE docs
  <2>1. CASE BulkArchive(k)
    BY <2>1, CallTyped DEF BulkArchive
  <2>2. CASE ArchiveOne(k)
    <3>1. PICK c \in call[k].ids, outcome \in Outcomes :
            docs' = IF outcome.done THEN Archived(docs, {c}, now) ELSE docs
      BY <2>2 DEF ArchiveOne
    <3>2. {c} \in SUBSET Stored(docs)
      BY CallTyped
    <3> QED BY <3>1, <3>2
  <2> QED BY <2>1, <2>2
<1> QED BY <1>1, <1>2, ArchivedDocs, AccountedStays

\* At first the documents account for their counts.
LEMMA AccountedInit == Init => Accounted
<1> SUFFICES ASSUME Init, NEW c \in Cells
             PROVE  /\ c \in Stored(docs) => docs[c].access = acked[c] + unacked[c]
                    /\ c \notin Stored(docs) => acked[c] = 0 /\ unacked[c] = 0
  BY DEF Accounted
<1>1. acked[c] = (IF c \in Stored(docs) THEN docs[c].access ELSE 0) /\ unacked[c] = 0
  BY DEF Init
<1>2. ASSUME c \in Stored(docs) PROVE docs[c].access \in Nat
  BY <1>2, BaseInit, StoredDoc DEF Doc
<1> QED BY <1>1, <1>2

\* Every step keeps the accounts.
LEMMA AccountedStep == Base /\ Accounted /\ [Next]_vars => Accounted'
<1> SUFFICES ASSUME Base, Accounted, [Next]_vars PROVE Accounted'
  OBVIOUS
<1>1. ASSUME UNCHANGED <<atomic, docVars>> PROVE Accounted'
  BY <1>1 DEF Accounted, docVars
<1>2. ASSUME NEW c \in Cells, Ingest(c) PROVE Accounted'
  <2>1. /\ UNCHANGED <<atomic, acked, unacked>> /\ c \notin Stored(docs)
        /\ docs' = [docs EXCEPT ![c] = [state |-> "ACTIVE", strength |-> 1, access |-> 0,
                                        created |-> now, updated |-> now]]
    BY <1>2 DEF Ingest, Inserted, Stored
  <2>2. docs'[c].access = 0 /\ c \in Stored(docs') /\ \A d \in Cells \ {c} : docs'[d] = docs[d]
    BY <2>1, IngestBase, <1>2 DEF Base, TypeOK, Stored, Absent
  <2>3. \A d \in Cells \ {c} : d \in Stored(docs') <=> d \in Stored(docs)
    BY <2>2 DEF Stored
  <2>4. ASSUME atomic, NEW d \in Cells
        PROVE  /\ d \in Stored(docs') => docs'[d].access = acked'[d] + unacked'[d]
               /\ d \notin Stored(docs') => acked'[d] = 0 /\ unacked'[d] = 0
    <3>1. /\ d \in Stored(docs) => docs[d].access = acked[d] + unacked[d]
          /\ d \notin Stored(docs) => acked[d] = 0 /\ unacked[d] = 0
      BY <2>4 DEF Accounted
    <3>2. CASE d = c
      BY <2>1, <2>2, <3>1, <3>2
    <3>3. CASE d # c
      BY <2>1, <2>2, <2>3, <3>1, <3>3
    <3> QED BY <3>2, <3>3
  <2> QED BY <2>1, <2>4 DEF Accounted
<1>3. CASE FeedbackSteps
  BY <1>1, <1>3, ApplyFeedbackAccounted DEF FeedbackSteps, ReadCell
<1>4. CASE HitSteps
  BY <1>1, <1>4, FinishJobAccounted DEF HitSteps, SubmitHit, OpenJob, GetCell
<1>5. ASSUME NEW k \in 1..Calls, Start(k) \/ Serve(k) PROVE Accounted'
  BY <1>1, <1>5, ArchiveAccounted
     DEF Serve, Start, Scopes, FindCold, Count, FindAll, CallStep, Keep
<1>6. CASE Tick
  BY <1>1, <1>6 DEF Tick
<1>7. CASE UNCHANGED vars
  BY <1>1, <1>7 DEF vars
<1> QED BY <1>2, <1>3, <1>4, <1>5, <1>6, <1>7 DEF Next

\* With the atomic command no access is lost or counted twice, however feedbacks,
\* jobs and archives interleave and whatever answers are lost (services.py:336,
\* lifecycle.py:280).
THEOREM CountsAccountedHolds == Spec => []CountsAccounted
<1>1. Base /\ Accounted => CountsAccounted
  BY DEF Accounted, CountsAccounted, Stored
<1> QED BY <1>1, BaseInit, BaseStep, AccountedInit, AccountedStep, PTL DEF Spec

-----------------------------------------------------------------------------
(* The range of strengths. *)

\* What a feedback will write was computed in range.
FeedbackInRange == \A f \in 1..Feedbacks : feedback[f].pc = "apply" => feedback[f].new \in 0..SMax
\* What a job will write is in range, or its cell is one whose feedbacks crossed;
\* without the bulk form a job has one cell.
JobsInRange ==
  \A i \in DOMAIN jobs :
    /\ atomic \/ \E c : jobs[i].ids = {c}
    /\ jobs[i].pc = "got" =>
         /\ ~atomic /\ jobs[i].new.strength <= SMax
         /\ jobs[i].new.strength < 0 => jobs[i].ids \subseteq crossed
Ranges == StrengthInRange /\ FeedbackInRange /\ JobsInRange

\* What does not move stays in range.
LEMMA RangesStay ==
  ASSUME Ranges, UNCHANGED atomic, crossed \subseteq crossed'
  PROVE  /\ UNCHANGED docs => StrengthInRange'
         /\ UNCHANGED feedback => FeedbackInRange'
         /\ UNCHANGED jobs => JobsInRange'
<1>1. UNCHANGED docs => StrengthInRange'
  BY DEF Ranges, StrengthInRange
<1>2. UNCHANGED feedback => FeedbackInRange'
  BY DEF Ranges, FeedbackInRange
<1>3. ASSUME UNCHANGED jobs PROVE JobsInRange'
  <2> SUFFICES ASSUME NEW i \in DOMAIN jobs
               PROVE  /\ atomic \/ \E c : jobs[i].ids = {c}
                      /\ jobs[i].pc = "got" =>
                           /\ ~atomic /\ jobs[i].new.strength <= SMax
                           /\ jobs[i].new.strength < 0 => jobs[i].ids \subseteq crossed'
    BY <1>3 DEF JobsInRange
  <2> QED BY DEF Ranges, JobsInRange
<1> QED BY <1>1, <1>2, <1>3

\* A job keeps its cells; one that reads its cell reads a strength in range.
LEMMA JobKeepsRange ==
  ASSUME Base, Ranges, NEW i \in DOMAIN jobs, NEW job,
         jobs' = [jobs EXCEPT ![i] = job], job.ids = jobs[i].ids,
         UNCHANGED <<atomic, crossed>>,
         job.pc = "got" => /\ ~atomic /\ job.new.strength <= SMax
                           /\ job.new.strength < 0 => job.ids \subseteq crossed
  PROVE  JobsInRange'
<1> SUFFICES ASSUME NEW j \in DOMAIN jobs
             PROVE  /\ atomic \/ \E c : jobs'[j].ids = {c}
                    /\ jobs'[j].pc = "got" =>
                         /\ ~atomic /\ jobs'[j].new.strength <= SMax
                         /\ jobs'[j].new.strength < 0 => jobs'[j].ids \subseteq crossed
  BY DEF JobsInRange
<1>1. CASE j = i
  BY <1>1 DEF Ranges, JobsInRange
<1>2. CASE j # i
  BY <1>2 DEF Ranges, JobsInRange
<1> QED BY <1>1, <1>2

\* A new cell is in range.
LEMMA IngestRanges == ASSUME Base, Ranges, NEW c \in Cells, Ingest(c) PROVE Ranges'
<1>1. SMax \in Nat \ {0}
  BY StoreAssumption
<1>2. docs'[c].strength = 1 /\ (\A d \in Cells \ {c} : docs'[d] = docs[d]) /\ UNCHANGED crossed
  BY DEF Ingest, Inserted, Base, TypeOK
<1>3. StrengthInRange'
  <2> SUFFICES ASSUME NEW d \in Stored(docs')
               PROVE  docs'[d].strength <= SMax /\ (docs'[d].strength < 0 => d \in crossed)
    BY <1>2 DEF StrengthInRange
  <2>1. CASE d = c
    BY <1>1, <1>2, <2>1
  <2>2. CASE d # c
    BY <1>2, <2>2 DEF Ranges, StrengthInRange, Stored
  <2> QED BY <2>1, <2>2
<1> QED BY <1>3, RangesStay DEF Ranges, Ingest, jobVars

\* A feedback computes a strength in range.
LEMMA ReadCellRanges ==
  ASSUME Base, Ranges, NEW f \in 1..Feedbacks, ReadCell(f) PROVE Ranges'
<1> PICK in \in FeedbackInputs :
      feedback' = [feedback EXCEPT ![f] =
         IF Target(in) # None /\ Found(docs, Target(in), in.scope)
         THEN [pc |-> "apply", cell |-> Target(in), positive |-> in.type \in Confirming,
               seen |-> docs[Target(in)], new |-> Reinforced(docs[Target(in)], in.type, in.value, now)]
         ELSE [pc |-> IF Target(in) = None THEN "invalid" ELSE "absent"]]
  BY DEF ReadCell
<1>1. Found(docs, Target(in), in.scope) => Reinforced(docs[Target(in)], in.type, in.value, now) \in 0..SMax
  <2> SUFFICES ASSUME Found(docs, Target(in), in.scope)
               PROVE  Reinforced(docs[Target(in)], in.type, in.value, now) \in 0..SMax
    OBVIOUS
  <2>1. docs[Target(in)] \in Doc
    BY StoredDoc DEF Found, InScope
  <2>2. now \in Nat /\ in.type \in DOMAIN Signal /\ in.value \in Int
    BY LifecycleAssumption DEF Base, TypeOK, FeedbackRequest
  <2> QED BY <2>1, <2>2, ReinforcedInRange
<1>2. FeedbackInRange'
  <2> SUFFICES ASSUME NEW g \in 1..Feedbacks, feedback'[g].pc = "apply"
               PROVE  feedback'[g].new \in 0..SMax
    BY DEF FeedbackInRange
  <2>1. CASE g = f
    BY <1>1, <2>1 DEF Base, TypeOK
  <2>2. CASE g # f
    BY <2>2 DEF Base, TypeOK, Ranges, FeedbackInRange
  <2> QED BY <2>1, <2>2
<1> QED BY <1>2, RangesStay DEF Ranges, ReadCell, docVars, jobVars

\* A feedback that was overtaken marks its cell; one that was not writes what it computed.
LEMMA ApplyFeedbackRanges ==
  ASSUME Base, Ranges, NEW f \in 1..Feedbacks, ApplyFeedback(f) PROVE Ranges'
<1> DEFINE fb == feedback[f]
           c == fb.cell
           bump == IF fb.positive THEN 1 ELSE 0
           delta == fb.new - fb.seen.strength
<1> PICK outcome \in Outcomes :
      /\ docs' = IF ~outcome.done THEN docs
                 ELSE IF atomic THEN AddToAll(docs, {c}, delta, bump, now)
                 ELSE Updated(docs, c, [docs[c] EXCEPT !.strength = fb.new, !.updated = now,
                                                       !.access = fb.seen.access + bump])
      /\ feedback' = [feedback EXCEPT ![f] = [pc |-> IF outcome.ok THEN "ok" ELSE "error"]]
  BY DEF ApplyFeedback, HasAtomic
<1>1. /\ crossed' = IF docs[c].strength = fb.seen.strength THEN crossed ELSE crossed \cup {c}
      /\ UNCHANGED <<atomic, jobs>>
  BY DEF ApplyFeedback, jobVars
<1>2. c \in Stored(docs) /\ docs[c] \in Doc /\ fb.seen \in Doc /\ fb.new \in 0..SMax
  <2>1. fb \in FeedbackState /\ fb.pc = "apply"
    BY DEF ApplyFeedback, Base, TypeOK
  <2>2. c \in Stored(docs) /\ fb.new \in 0..SMax
    BY <2>1 DEF Base, Remembered, ByFeedback, Ranges, FeedbackInRange
  <2> QED BY <2>1, <2>2, StoredDoc DEF FeedbackState
<1>3. SMax \in Nat /\ fb.new \in Int /\ delta \in Int /\ bump \in Nat
      /\ docs[c].strength \in Int /\ fb.seen.strength \in Int
  BY <1>2, StoreAssumption DEF Doc
<1>4. FeedbackInRange'
  BY DEF Base, TypeOK, Ranges, FeedbackInRange
<1> HIDE DEF bump
<1>5. ASSUME NEW d \in Stored(docs')
      PROVE  docs'[d].strength <= SMax /\ (docs'[d].strength < 0 => d \in crossed')
  <2>1. Stored(docs') = Stored(docs) /\ \A e \in Cells \ {c} : docs'[e] = docs[e]
    <3>1. CASE outcome.done /\ atomic
      BY <1>2, <1>3, <3>1, AddedToAll
    <3>2. CASE ~(outcome.done /\ atomic)
      <4>1. \A e \in Cells \ {c} : docs'[e] = docs[e]
        BY <3>2 DEF Updated, Base, TypeOK
      <4>2. docs'[c] \in Doc
        <5> DEFINE count == fb.seen.access + bump
        <5>1. count \in Nat /\ now \in Nat
          <6>1. fb.seen.access \in Nat
            BY <1>2 DEF Doc
          <6>2. now \in Nat
            BY LifecycleAssumption DEF Base, TypeOK
          <6> QED BY <1>3, <6>1, <6>2
        <5> HIDE DEF count
        <5>2. \A e \in Doc : [e EXCEPT !.strength = fb.new, !.updated = now, !.access = count] \in Doc
          BY <1>3, <5>1 DEF Doc
        <5>3. [docs[c] EXCEPT !.strength = fb.new, !.updated = now, !.access = count] \in Doc
          BY <1>2, <5>2
        <5> QED BY <1>2, <3>2, <5>3, StoredDoc DEF Updated, Base, TypeOK, count
      <4> QED BY <1>2, <4>1, <4>2, DocIsStored DEF Stored
    <3> QED BY <3>1, <3>2
  <2>2. CASE d # c \/ ~outcome.done
    BY <1>1, <2>1, <2>2 DEF Ranges, StrengthInRange, Stored
  <2>3. CASE d = c /\ outcome.done /\ ~atomic
    <3>1. docs'[c].strength = fb.new
      BY <1>2, <2>3, StoredDoc DEF Updated, Base, TypeOK, Doc
    <3> QED BY <1>2, <1>3, <2>3, <3>1
  <2>4. CASE d = c /\ outcome.done /\ atomic
    <3>1. docs'[c].strength = IF docs[c].strength + delta <= SMax
                              THEN docs[c].strength + delta ELSE SMax
      <4>1. docs' = AddToAll(docs, {c}, delta, bump, now) /\ {c} \in SUBSET Stored(docs)
        BY <1>2, <2>4
      <4> HIDE DEF c, delta
      <4>2. \A e \in {c} : docs'[e].strength = IF docs[e].strength + delta <= SMax
                                               THEN docs[e].strength + delta ELSE SMax
        BY <1>3, <4>1, AddedToAll
      <4> QED BY <4>2
    <3>2. CASE docs[c].strength = fb.seen.strength
      BY <1>2, <1>3, <2>4, <3>1, <3>2
    <3>3. CASE docs[c].strength # fb.seen.strength
      BY <1>1, <1>3, <2>4, <3>1, <3>3
    <3> QED BY <3>2, <3>3
  <2> QED BY <2>2, <2>3, <2>4
<1>6. StrengthInRange'
  BY <1>5 DEF StrengthInRange
<1>7. crossed \subseteq crossed'
  BY <1>1
<1> QED BY <1>1, <1>4, <1>6, <1>7, RangesStay DEF Ranges

\* Adding raises no strength above the cap and makes none negative.
LEMMA AddingInRange ==
  ASSUME Base, StrengthInRange, NEW ids \in SUBSET Stored(docs), NEW delta \in Nat, NEW bump \in Nat,
         docs' = AddToAll(docs, ids, delta, bump, now), UNCHANGED crossed
  PROVE  StrengthInRange'
<1>1. /\ Stored(docs') = Stored(docs)
      /\ \A c \in Cells \ ids : docs'[c] = docs[c]
      /\ \A c \in ids : docs'[c].strength = IF docs[c].strength + delta <= SMax
                                            THEN docs[c].strength + delta ELSE SMax
  BY AddedToAll
<1>2. ASSUME NEW c \in Stored(docs)
      PROVE  docs'[c].strength <= SMax /\ (docs'[c].strength < 0 => c \in crossed)
  <2>1. docs[c].strength \in Int /\ docs[c].strength <= SMax
        /\ (docs[c].strength < 0 => c \in crossed)
    BY StoredDoc DEF Doc, StrengthInRange
  <2>2. CASE c \in ids
    <3>1. docs'[c].strength = IF docs[c].strength + delta <= SMax
                              THEN docs[c].strength + delta ELSE SMax
      BY <1>1, <2>2
    <3> QED BY <2>1, <3>1, StoreAssumption
  <2>3. CASE c \notin ids
    BY <1>1, <2>1, <2>3, StoredDoc
  <2> QED BY <2>2, <2>3
<1> QED BY <1>1, <1>2 DEF StrengthInRange

\* A job only adds, and no more than the cap leaves room for.
LEMMA FinishJobRanges ==
  ASSUME Base, Ranges, NEW i \in DOMAIN jobs, FinishJob(i) PROVE Ranges'
<1> PICK outcome \in Outcomes, again \in {"queued", "parked"} :
      /\ docs' = IF ~outcome.done THEN docs
                 ELSE IF atomic
                 THEN AddToAll(docs, jobs[i].ids \cap InScope(docs, jobs[i].owner), jobs[i].used, 1, now)
                 ELSE Updated(docs, CHOOSE c \in jobs[i].ids : TRUE, jobs[i].new)
      /\ jobs' = [jobs EXCEPT ![i] = [Job(jobs[i].ids, jobs[i].owner, jobs[i].delta) EXCEPT
                                         !.pc = IF outcome.ok THEN "done" ELSE again]]
  BY DEF FinishJob, HasAtomic
<1> DEFINE job == [Job(jobs[i].ids, jobs[i].owner, jobs[i].delta) EXCEPT
                     !.pc = IF outcome.ok THEN "done" ELSE again]
           ids == jobs[i].ids
           used == jobs[i].used
<1>1. UNCHANGED <<atomic, crossed, feedback>>
  BY DEF FinishJob
<1>2. ids \subseteq Stored(docs) /\ ids # {} /\ used \in Nat /\ SMax \in Nat
      /\ jobs[i].ids \cap InScope(docs, jobs[i].owner) = ids
  BY JobCells, StoreAssumption
<1>3. JobsInRange'
  <2>1. job.ids = jobs[i].ids /\ job.pc # "got" /\ jobs' = [jobs EXCEPT ![i] = job]
    BY DEF Job
  <2> HIDE DEF job
  <2> QED BY <1>1, <2>1, JobKeepsRange
<1>4. CASE ~outcome.done
  BY <1>1, <1>3, <1>4, RangesStay DEF Ranges
<1>5. CASE outcome.done /\ atomic
  <2>1. docs' = AddToAll(docs, ids, used, 1, now) /\ ids \in SUBSET Stored(docs)
    BY <1>2, <1>5
  <2> HIDE DEF ids, used
  <2>2. StrengthInRange'
    BY <1>1, <1>2, <2>1, AddingInRange DEF Ranges
  <2> QED BY <1>1, <1>3, <2>2, RangesStay DEF Ranges
<1>6. CASE outcome.done /\ ~atomic
  <2>1. PICK c : ids = {c}
    BY <1>6 DEF Ranges, JobsInRange
  <2>2. docs' = [docs EXCEPT ![c] = jobs[i].new] /\ c \in Cells /\ c \in Stored(docs)
    BY <1>2, <1>6, <2>1, StoredDoc DEF Updated
  <2>3. jobs[i].new.strength <= SMax /\ (jobs[i].new.strength < 0 => c \in crossed)
    BY <1>6, <2>1 DEF FinishJob, HasAtomic, Ranges, JobsInRange
  <2>4. StrengthInRange'
    <3> SUFFICES ASSUME NEW d \in Stored(docs')
                 PROVE  docs'[d].strength <= SMax /\ (docs'[d].strength < 0 => d \in crossed)
      BY <1>1 DEF StrengthInRange
    <3>1. CASE d = c
      BY <2>2, <2>3, <3>1 DEF Base, TypeOK
    <3>2. CASE d # c
      BY <2>2, <3>2 DEF Base, TypeOK, Ranges, StrengthInRange, Stored
    <3> QED BY <3>1, <3>2
  <2> QED BY <1>1, <1>3, <2>4, RangesStay DEF Ranges
<1> QED BY <1>4, <1>5, <1>6

\* Submitting, opening and reading leave the ranges.
LEMMA HitRanges ==
  ASSUME Base, Ranges, HitSteps PROVE Ranges'
<1>1. ASSUME NEW owner \in Users, NEW ids \in SUBSET Cells, NEW delta \in Deltas,
             SubmitHit(owner, ids, delta)
      PROVE  Ranges'
  <2>1. UNCHANGED <<atomic, docs, feedback, crossed>>
    BY <1>1 DEF SubmitHit, docVars
  <2>2. JobsInRange'
    <3> SUFFICES ASSUME NEW j \in DOMAIN jobs'
                 PROVE  /\ atomic \/ \E c : jobs'[j].ids = {c}
                        /\ jobs'[j].pc = "got" =>
                             /\ ~atomic /\ jobs'[j].new.strength <= SMax
                             /\ jobs'[j].new.strength < 0 => jobs'[j].ids \subseteq crossed
      BY <2>1 DEF JobsInRange
    <3>1. CASE j \in DOMAIN jobs
      BY <1>1, <3>1, SubmitHitBase DEF Ranges, JobsInRange
    <3>2. CASE j \notin DOMAIN jobs
      BY <1>1, <3>2, SubmitHitBase
    <3> QED BY <3>1, <3>2
  <2> QED BY <2>1, <2>2, RangesStay DEF Ranges
<1>2. ASSUME NEW i \in DOMAIN jobs, OpenJob(i) PROVE Ranges'
  <2> DEFINE job == [jobs[i] EXCEPT !.pc = "open", !.saved = ambient, !.used = jobs[i].delta]
  <2>1. UNCHANGED <<atomic, docs, feedback, crossed>> /\ jobs' = [jobs EXCEPT ![i] = job]
    BY <1>2 DEF OpenJob, docVars
  <2>2. job.ids = jobs[i].ids /\ job.pc = "open"
    BY JobTyped DEF JobState
  <2> HIDE DEF job
  <2> QED BY <2>1, <2>2, JobKeepsRange, RangesStay DEF Ranges
<1>3. ASSUME NEW i \in DOMAIN jobs, GetCell(i) PROVE Ranges'
  <2>1. UNCHANGED <<atomic, docs, feedback, crossed>> /\ ~atomic
    BY <1>3 DEF GetCell, docVars, HasAtomic
  <2>2. /\ jobs' = [jobs EXCEPT ![i] = jobs'[i]] /\ jobs'[i].ids = jobs[i].ids
        /\ \E c \in jobs[i].ids :
             jobs'[i].new.strength
               = IF docs[c].strength + ambient <= SMax THEN docs[c].strength + ambient ELSE SMax
    BY <1>3, GetCellBase
  <2>3. PICK c \in jobs[i].ids :
          jobs'[i].new.strength
            = IF docs[c].strength + ambient <= SMax THEN docs[c].strength + ambient ELSE SMax
    BY <2>2
  <2>4. docs[c].strength \in Int /\ docs[c].strength <= SMax /\ (docs[c].strength < 0 => c \in crossed)
    BY JobCells, StoredDoc DEF Doc, Ranges, StrengthInRange
  <2>5. ambient \in Nat /\ SMax \in Nat
    BY StoreAssumption, LifecycleAssumption DEF Base, TypeOK
  <2>6. jobs'[i].new.strength <= SMax /\ (jobs'[i].new.strength < 0 => c \in crossed)
    BY <2>3, <2>4, <2>5
  <2>7. jobs'[i].ids = {c}
    BY <2>1, <2>2, <2>3 DEF Ranges, JobsInRange
  <2> DEFINE job == jobs'[i]
  <2>8. jobs' = [jobs EXCEPT ![i] = job] /\ job.ids = jobs[i].ids /\ job.ids = {c}
        /\ job.new.strength <= SMax /\ (job.new.strength < 0 => c \in crossed)
    BY <2>2, <2>6, <2>7
  <2> HIDE DEF job
  <2>9. JobsInRange'
    BY <2>1, <2>8, JobKeepsRange
  <2> QED BY <2>1, <2>9, RangesStay DEF Ranges
<1> QED BY <1>1, <1>2, <1>3, FinishJobRanges DEF HitSteps

\* An archive leaves the ranges.
LEMMA ArchiveRanges ==
  ASSUME Base, Ranges, NEW k \in 1..Calls, BulkArchive(k) \/ ArchiveOne(k)
  PROVE  Ranges'
<1>1. UNCHANGED <<atomic, feedback, jobs, crossed>>
  BY DEF BulkArchive, ArchiveOne, CallStep, jobVars
<1>2. PICK ids \in SUBSET Stored(docs), outcome \in Outcomes :
        docs' = IF outcome.done THEN Archived(docs, ids, now) ELSE docs
  <2>1. CASE BulkArchive(k)
    BY <2>1, CallTyped DEF BulkArchive
  <2>2. CASE ArchiveOne(k)
    <3>1. PICK c \in call[k].ids, outcome \in Outcomes :
            docs' = IF outcome.done THEN Archived(docs, {c}, now) ELSE docs
      BY <2>2 DEF ArchiveOne
    <3>2. {c} \in SUBSET Stored(docs)
      BY CallTyped
    <3> QED BY <3>1, <3>2
  <2> QED BY <2>1, <2>2
<1>3. /\ \A c \in Cells : docs[c] = Absent => docs'[c] = Absent
      /\ \A c \in Stored(docs) : docs'[c].strength = docs[c].strength
  BY <1>2, ArchivedDocs
<1>4. Stored(docs') \subseteq Stored(docs)
  BY <1>3 DEF Stored
<1>5. StrengthInRange'
  BY <1>1, <1>3, <1>4 DEF Ranges, StrengthInRange
<1> QED BY <1>1, <1>5, RangesStay DEF Ranges

\* At first every strength is in range.
LEMMA RangesInit == Init => Ranges
<1> SUFFICES ASSUME Init PROVE Ranges
  OBVIOUS
<1>1. \A c \in Stored(docs) : docs[c].strength \in 0..SMax
  BY LifecycleAssumption DEF Init
<1>2. StrengthInRange
  BY <1>1, StoreAssumption DEF StrengthInRange
<1>3. FeedbackInRange /\ JobsInRange
  BY DEF Init, Idle, FeedbackInRange, JobsInRange
<1> QED BY <1>2, <1>3 DEF Ranges

\* Every step keeps the ranges.
LEMMA RangesStep == Base /\ Ranges /\ [Next]_vars => Ranges'
<1> SUFFICES ASSUME Base, Ranges, [Next]_vars PROVE Ranges'
  OBVIOUS
<1>1. ASSUME UNCHANGED <<atomic, docs, feedback, jobs, crossed>> PROVE Ranges'
  BY <1>1, RangesStay DEF Ranges
<1>2. CASE Tick
  BY <1>1, <1>2 DEF Tick, docVars, jobVars
<1>3. CASE \E c \in Cells : Ingest(c)
  BY <1>3, IngestRanges
<1>4. CASE FeedbackSteps
  BY <1>4, ReadCellRanges, ApplyFeedbackRanges DEF FeedbackSteps
<1>5. CASE HitSteps
  BY <1>5, HitRanges
<1>6. ASSUME NEW k \in 1..Calls, Start(k) \/ Serve(k) PROVE Ranges'
  BY <1>1, <1>6, ArchiveRanges
     DEF Serve, Start, Scopes, FindCold, Count, FindAll, CallStep, Keep, docVars, jobVars
<1>7. CASE UNCHANGED vars
  BY <1>1, <1>7 DEF vars, docVars, jobVars
<1> QED BY <1>2, <1>3, <1>4, <1>5, <1>6, <1>7 DEF Next

\* A strength passes neither the cap nor zero, unless a feedback was applied to a
\* strength it had not seen, and then only downwards (mongo_repo.py:288).
THEOREM StrengthInRangeHolds == Spec => []StrengthInRange
<1>1. Ranges => StrengthInRange
  BY DEF Ranges
<1> QED BY <1>1, BaseInit, BaseStep, RangesInit, RangesStep, PTL DEF Spec

-----------------------------------------------------------------------------
(* The updater's delta. *)

\* Until two handlers were open at once, at most one is, it runs under its own
\* delta, and it will put the default back.
Undisturbed ==
  overlapped \/
    /\ Opened = {} => ambient = Default
    /\ \A i, j \in Opened : i = j
    /\ \A i \in Opened : /\ jobs[i].used = jobs[i].delta /\ ambient = jobs[i].delta
                         /\ jobs[i].saved = Default

\* Every step of a job keeps it so.
LEMMA HitUndisturbed ==
  ASSUME Base, Undisturbed, HitSteps PROVE Undisturbed'
<1>0. overlapped \in BOOLEAN /\ (overlapped => overlapped')
  BY DEF Base, TypeOK, HitSteps, SubmitHit, OpenJob, GetCell, FinishJob
<1> SUFFICES ASSUME ~overlapped, ~overlapped' PROVE Undisturbed'
  BY <1>0 DEF Undisturbed
<1>1. /\ Opened = {} => ambient = Default
      /\ \A i, j \in Opened : i = j
      /\ \A i \in Opened : /\ jobs[i].used = jobs[i].delta /\ ambient = jobs[i].delta
                           /\ jobs[i].saved = Default
  BY DEF Undisturbed
<1>2. ASSUME NEW owner \in Users, NEW ids \in SUBSET Cells, NEW delta \in Deltas,
             SubmitHit(owner, ids, delta)
      PROVE  Undisturbed'
  <2>1. /\ \A j \in DOMAIN jobs : j \in DOMAIN jobs' /\ jobs'[j] = jobs[j]
        /\ \A j \in (DOMAIN jobs') \ (DOMAIN jobs) : jobs'[j].pc = "queued"
    BY <1>2, SubmitHitBase
  <2>2. UNCHANGED ambient
    BY <1>2 DEF SubmitHit
  <2>3. Opened' = Opened /\ \A j \in Opened : jobs'[j] = jobs[j]
    BY <2>1 DEF Opened
  <2> QED BY <1>1, <2>2, <2>3 DEF Undisturbed
<1>3. ASSUME NEW i \in DOMAIN jobs, OpenJob(i) PROVE Undisturbed'
  <2> DEFINE job == [jobs[i] EXCEPT !.pc = "open", !.saved = ambient, !.used = jobs[i].delta]
  <2>1. jobs' = [jobs EXCEPT ![i] = job] /\ ambient' = jobs[i].delta /\ Opened = {}
    BY <1>3 DEF OpenJob
  <2>2. job.pc = "open" /\ job.saved = ambient /\ job.used = jobs[i].delta /\ job.delta = jobs[i].delta
    BY JobTyped DEF JobState
  <2> HIDE DEF job
  <2>3. Opened' = {i} /\ jobs'[i] = job
    BY <2>1, <2>2 DEF Opened
  <2> QED BY <1>1, <2>1, <2>2, <2>3 DEF Undisturbed
<1>4. ASSUME NEW i \in DOMAIN jobs, GetCell(i) PROVE Undisturbed'
  <2> DEFINE job == jobs'[i]
  <2>1. jobs' = [jobs EXCEPT ![i] = job] /\ job.pc = "got" /\ job.delta = jobs[i].delta
        /\ job.saved = jobs[i].saved /\ job.used = ambient
    BY <1>4, GetCellBase
  <2>2. i \in Opened /\ UNCHANGED ambient
    BY <1>4 DEF GetCell, Opened
  <2> HIDE DEF job
  <2>3. Opened' = Opened /\ jobs'[i] = job /\ \A j \in Opened : j = i
    BY <1>1, <2>1, <2>2 DEF Opened
  <2> QED BY <1>1, <2>1, <2>2, <2>3 DEF Undisturbed
<1>5. ASSUME NEW i \in DOMAIN jobs, FinishJob(i) PROVE Undisturbed'
  <2>1. i \in Opened /\ ambient' = jobs[i].saved
    BY <1>5 DEF FinishJob, Opened, Restored
  <2>2. PICK pc \in {"done", "queued", "parked"} :
          jobs' = [jobs EXCEPT ![i] = [Job(jobs[i].ids, jobs[i].owner, jobs[i].delta) EXCEPT !.pc = pc]]
    BY <1>5 DEF FinishJob
  <2> DEFINE job == [Job(jobs[i].ids, jobs[i].owner, jobs[i].delta) EXCEPT !.pc = pc]
  <2>3. job.pc \notin {"open", "got"} /\ jobs' = [jobs EXCEPT ![i] = job]
    BY <2>2 DEF Job
  <2> HIDE DEF job
  <2>4. Opened' = {}
    BY <1>1, <2>1, <2>3 DEF Opened
  <2> QED BY <1>1, <2>1, <2>4 DEF Undisturbed
<1> QED BY <1>2, <1>3, <1>4, <1>5 DEF HitSteps

\* Every step keeps it so.
LEMMA UndisturbedStep == Base /\ Undisturbed /\ [Next]_vars => Undisturbed'
<1> SUFFICES ASSUME Base, Undisturbed, [Next]_vars PROVE Undisturbed'
  OBVIOUS
<1>1. CASE HitSteps
  BY <1>1, HitUndisturbed
<1>2. CASE UNCHANGED jobVars
  BY <1>2 DEF jobVars, Undisturbed, Opened
<1>3. HitSteps \/ UNCHANGED jobVars
  BY DEF Next, Tick, Ingest, FeedbackSteps, ReadCell, ApplyFeedback, Serve, Start, Scopes, FindCold,
         Count, FindAll, BulkArchive, ArchiveOne, CallStep, vars
<1> QED BY <1>1, <1>2, <1>3

\* A job runs under another job's delta, or the default is lost, only once two
\* handlers have been open at once (lifecycle.py:376).
THEOREM DriftHasCauseHolds == Spec => []DriftHasCause
<1>1. Init => Undisturbed
  BY DEF Init, Undisturbed, Opened
<1>2. Undisturbed => DriftHasCause
  BY DEF Undisturbed, DriftHasCause
<1> QED BY <1>1, <1>2, BaseInit, BaseStep, UndisturbedStep, PTL DEF Spec

-----------------------------------------------------------------------------
(* What capacity leaves. *)

\* A call that runs holds the lock; with the atomic commands, one that enforces a
\* capacity has room for what it is yet to archive.
Running(k) == call[k].pc \notin {"idle", "done"}
Room(k) ==
  /\ call[k].pc = "cold" => call[k].quota = 0
  /\ call[k].pc = "all" =>
       Cardinality(Live(docs, call[k].user)) >= call[k].floor + call[k].quota
  /\ call[k].pc \in {"archive", "each"} /\ call[k].quota # 0 =>
       Cardinality(Live(docs, call[k].user) \ call[k].ids) >= call[k].floor
Spared ==
  /\ \A k \in 1..Calls : Running(k) => holder = k
  /\ atomic => \A k \in 1..Calls : Room(k)

\* The live cells of a scope, and part of them.
LEMMA LiveCounted ==
  ASSUME NEW S, NEW ids
  PROVE  /\ IsFiniteSet(Live(docs, S)) /\ Cardinality(Live(docs, S)) \in Nat
         /\ IsFiniteSet(Live(docs, S) \ ids) /\ Cardinality(Live(docs, S) \ ids) \in Nat
         /\ IsFiniteSet(Live(docs', S)) /\ Cardinality(Live(docs', S)) \in Nat
         /\ IsFiniteSet(Live(docs', S) \ ids) /\ Cardinality(Live(docs', S) \ ids) \in Nat
<1>1. Live(docs, S) \subseteq Cells /\ Live(docs', S) \subseteq Cells
  BY DEF Live, InScope, Stored
<1> QED BY <1>1, CellsCounted

\* More live cells count for more.
LEMMA LiveGrows ==
  ASSUME NEW S, NEW few, NEW ids, Live(docs, S) \ few \subseteq Live(docs', S) \ ids
  PROVE  Cardinality(Live(docs, S) \ few) <= Cardinality(Live(docs', S) \ ids)
  BY LiveCounted, FS_Subset

\* What is live stays live while commands neither archive nor remove it.
LEMMA LiveStays ==
  ASSUME Base, docs' \in [Cells -> Doc \cup {Absent}], NEW S, NEW ids,
         \A c \in Stored(docs) : c \notin ids /\ docs[c].state # "ARCHIVED" =>
           docs'[c] # Absent /\ docs'[c].state # "ARCHIVED"
  PROVE  Live(docs, S) \ ids \subseteq Live(docs', S)
  BY DEF Live, InScope, Stored

\* A command that archives spares the others.
LEMMA ArchiveSpares ==
  ASSUME Base, NEW S, NEW ids \in SUBSET Stored(docs), NEW outcome \in Outcomes,
         docs' = IF outcome.done THEN Archived(docs, ids, now) ELSE docs
  PROVE  Live(docs, S) \ ids \subseteq Live(docs', S)
<1>1. docs' \in [Cells -> Doc \cup {Absent}]
  BY ArchivedDocs
<1>2. \A c \in Stored(docs) : c \notin ids => docs'[c] = docs[c]
  BY DEF Archived, Stored
<1>3. \A c \in Stored(docs) : docs[c] # Absent
  BY DEF Stored
<1> QED BY <1>1, <1>2, <1>3, LiveStays

\* Feedbacks and hits, with the atomic commands, leave the states of cells alone.
LEMMA CommandSpares ==
  ASSUME Base, NEW S, NEW ids \in SUBSET Stored(docs), NEW delta \in Int, NEW bump \in Nat,
         NEW outcome \in Outcomes,
         docs' = IF ~outcome.done THEN docs ELSE AddToAll(docs, ids, delta, bump, now)
  PROVE  Live(docs, S) \subseteq Live(docs', S)
<1>1. \A c \in Stored(docs) : docs'[c] # Absent /\ docs'[c].state = docs[c].state
  <2> TAKE c \in Stored(docs)
  <2>1. docs[c] \in Doc /\ c \in Cells /\ docs[c] # Absent
    BY StoredDoc DEF Stored
  <2>2. now \in Nat
    BY LifecycleAssumption DEF Base, TypeOK
  <2>3. Strengthened(docs[c], delta, bump, now) \in Doc
    BY <2>1, <2>2, StrengthenedDoc
  <2>4. Strengthened(docs[c], delta, bump, now).state = docs[c].state
    BY <2>1 DEF Strengthened, Doc
  <2>5. docs'[c] = docs[c] \/ docs'[c] = Strengthened(docs[c], delta, bump, now)
    BY <2>1 DEF AddToAll
  <2> QED BY <2>1, <2>3, <2>4, <2>5, DocIsStored
<1> QED BY <1>1 DEF Live, InScope, Stored

\* Whoever moves a call has the lock, and nobody else is running.
LEMMA OneCallMoves ==
  ASSUME Base, Spared, NEW k \in 1..Calls, Start(k) \/ Serve(k)
  PROVE  /\ \A j \in 1..Calls : j # k => call'[j] = call[j] /\ ~Running(j)
         /\ call' = [call EXCEPT ![k] = call'[k]]
         /\ Running(k)' => holder' = k
         /\ UNCHANGED <<atomic, now, feedback, jobs>>
<1>0. call = [j \in 1..Calls |-> call[j]] /\ k \in Int /\ call[k] \in CallState
  BY DEF Base, TypeOK
<1>1. \A j \in 1..Calls : j # k => ~Running(j)
  <2>1. CASE Start(k)
    <3>1. holder = 0 /\ \A j \in 1..Calls : Running(j) => holder = j
      BY <2>1 DEF Start, LockFree, Spared
    <3> QED BY ONLY <3>1
  <2>2. CASE Serve(k)
    <3>1. Running(k)
      BY <2>2 DEF Serve, Scopes, FindCold, Count, FindAll, BulkArchive, ArchiveOne, Running
    <3> QED BY <3>1 DEF Spared
  <2> QED BY <2>1, <2>2
<1>2. UNCHANGED <<atomic, now, feedback, jobs>>
  BY DEF Start, Serve, Scopes, FindCold, Count, FindAll, BulkArchive, ArchiveOne, CallStep, jobVars
<1> DEFINE Moves ==
             /\ \E x : call' = [call EXCEPT ![k] = x]
             /\ call'[k].pc \notin {"idle", "done"} => holder' = k
<1>3. ASSUME NEW todo, NextUser(k, todo), holder = k PROVE Moves
  <2>1. CASE todo # {}
    BY <2>1, <1>3 DEF NextUser
  <2>2. CASE todo = {}
    <3>1. call' = [call EXCEPT ![k] = [NoCall EXCEPT !.pc = "done"]]
      BY <2>2, <1>3 DEF NextUser
    <3>2. call'[k].pc = "done"
      BY <1>0, <3>1 DEF NoCall
    <3> QED BY <3>1, <3>2
  <2> QED BY <2>1, <2>2
<1>4. Moves
  <2>1. CASE Start(k)
    BY <2>1 DEF Start
  <2>2. CASE Serve(k)
    <3>1. holder = k
      <4>1. Running(k)
        BY <2>2 DEF Serve, Scopes, FindCold, Count, FindAll, BulkArchive, ArchiveOne, Running
      <4> QED BY <4>1 DEF Spared
    <3>2. CASE Scopes(k)
      BY <3>1, <3>2, <1>3 DEF Scopes
    <3>3. CASE FindCold(k)
      BY <3>1, <3>3 DEF FindCold
    <3>4. CASE Count(k)
      BY <3>1, <3>4, <1>3 DEF Count
    <3>5. CASE FindAll(k)
      BY <3>1, <3>5, <1>3 DEF FindAll
    <3>6. AfterArchive(k) => Moves
      BY <3>1, <1>3 DEF AfterArchive
    <3>7. CASE BulkArchive(k)
      BY <3>1, <3>6, <3>7 DEF BulkArchive, Goto
    <3>8. CASE ArchiveOne(k)
      BY <3>1, <3>6, <3>8 DEF ArchiveOne
    <3> QED BY <2>2, <3>2, <3>3, <3>4, <3>5, <3>7, <3>8 DEF Serve
  <2> QED BY <2>1, <2>2
<1>5. PICK x : call' = [call EXCEPT ![k] = x]
  BY <1>4
<1>6. /\ call' = [call EXCEPT ![k] = call'[k]]
      /\ \A j \in 1..Calls : j # k => call'[j] = call[j]
  BY <1>0, <1>5
<1> QED BY <1>1, <1>2, <1>4, <1>6 DEF Running

\* A scope that follows, or the end of the call.
LEMMA NextUserRoom ==
  ASSUME Base, NEW k \in 1..Calls, NEW todo \in SUBSET Users, NextUser(k, todo)
  PROVE  Room(k)'
<1>0. call = [j \in 1..Calls |-> call[j]] /\ call[k] \in CallState
  BY DEF Base, TypeOK
<1>1. CASE todo # {}
  <2>1. call'[k].pc = "cold" /\ call'[k].quota = 0
    BY <1>0, <1>1 DEF NextUser, CallState
  <2> QED BY <2>1 DEF Room
<1>2. CASE todo = {}
  <2>1. call' = [call EXCEPT ![k] = [NoCall EXCEPT !.pc = "done"]]
    BY <1>2 DEF NextUser
  <2>2. call'[k].pc = "done"
    BY <1>0, <2>1 DEF NoCall
  <2> QED BY <2>2 DEF Room
<1> QED BY <1>1, <1>2

\* The count leaves room for the quota.
LEMMA CountRoom == ASSUME Base, NEW k \in 1..Calls, Count(k) PROVE Room(k)'
<1> DEFINE total == CountOf(docs, call[k].user)
           live == Cardinality(Live(docs, call[k].user))
           most == Max({1, (total * Margin) \div 100})
           quota == Min({total - MaxMemories, most})
           floor == Min({live, MaxMemories - (total - live)})
<1>0. call = [j \in 1..Calls |-> call[j]] /\ call[k] \in CallState
  BY DEF Base, TypeOK
<1> PICK outcome \in Outcomes :
      IF outcome.ok /\ total > MaxMemories
      THEN call' = [call EXCEPT ![k] = [@ EXCEPT !.pc = "all", !.quota = quota, !.floor = floor]]
      ELSE NextUser(k, call[k].todo)
  BY DEF Count
<1>1. docs' = docs
  BY DEF Count, Keep, docVars
<1>2. total \in Nat /\ live \in Nat
  <2>1. InScope(docs, call[k].user) \subseteq Cells /\ Live(docs, call[k].user) \subseteq Cells
    BY DEF InScope, Live, Stored
  <2> QED BY <2>1, CellsCounted DEF CountOf
<1> HIDE DEF total, live
<1>3. most \in Int
  <2> DEFINE part == (total * Margin) \div 100
  <2>1. total * Margin \in Nat
    BY <1>2, LifecycleAssumption
  <2>2. part \in Int
    BY <2>1
  <2> HIDE DEF part
  <2>3. Max({1, part}) = IF 1 >= part THEN 1 ELSE part
    BY <2>2, MaxOfTwo
  <2>4. Max({1, part}) \in Int
    BY <2>2, <2>3
  <2> QED BY <2>4 DEF part
<1> HIDE DEF most
<1>4. quota \in Int /\ quota <= total - MaxMemories
  <2> DEFINE over == total - MaxMemories
  <2>1. over \in Int
    BY <1>2, LifecycleAssumption
  <2> HIDE DEF over
  <2>2. Min({over, most}) = IF over <= most THEN over ELSE most
    BY <1>3, <2>1, MinOfTwo
  <2>3. Min({over, most}) \in Int /\ Min({over, most}) <= over
    BY <1>3, <2>1, <2>2
  <2> QED BY <2>3 DEF over
<1>5. floor \in Int /\ floor <= MaxMemories - (total - live)
  <2> DEFINE rest == MaxMemories - (total - live)
  <2>1. rest \in Int
    BY <1>2, LifecycleAssumption
  <2> HIDE DEF rest
  <2>2. Min({live, rest}) = IF live <= rest THEN live ELSE rest
    BY <1>2, <2>1, MinOfTwo
  <2>3. Min({live, rest}) \in Int /\ Min({live, rest}) <= rest
    BY <1>2, <2>1, <2>2
  <2> QED BY <2>3 DEF rest
<1> HIDE DEF quota, floor
<1>6. CASE outcome.ok /\ total > MaxMemories
  <2>1. call'[k].pc = "all" /\ call'[k].quota = quota /\ call'[k].floor = floor
        /\ call'[k].user = call[k].user
    <3>1. call' = [call EXCEPT ![k] = [@ EXCEPT !.pc = "all", !.quota = quota, !.floor = floor]]
      BY <1>6
    <3> QED BY ONLY <1>0, <3>1, k \in 1..Calls DEF CallState
  <2>2. live >= floor + quota
    BY <1>2, <1>4, <1>5, LifecycleAssumption
  <2> QED BY <1>1, <2>1, <2>2 DEF Room, live
<1>7. CASE ~(outcome.ok /\ total > MaxMemories)
  <2>1. NextUser(k, call[k].todo)
    BY <1>7
  <2> QED BY <2>1, CallTyped, NextUserRoom
<1> QED BY <1>6, <1>7

\* No more is listed for archiving than the quota.
LEMMA FindAllRoom == ASSUME Base, NEW k \in 1..Calls, Room(k), FindAll(k) PROVE Room(k)'
<1>0. /\ call = [j \in 1..Calls |-> call[j]] /\ call[k] \in CallState
      /\ call[k].quota \in Nat /\ call[k].floor \in Int
  BY DEF Base, TypeOK, CallState
<1>1. docs' = docs /\ call[k].pc = "all"
  BY DEF FindAll, Keep, docVars
<1>2. CASE NextUser(k, call[k].todo)
  BY <1>2, CallTyped, NextUserRoom
<1>3. ASSUME NEW listed \in Listings(docs, call[k].user, FindLimit),
             NEW ids \in SUBSET {c \in listed : docs[c].state # "ARCHIVED"},
             Cardinality(ids) = Min({call[k].quota, Cardinality({c \in listed : docs[c].state # "ARCHIVED"})}),
             call' = [call EXCEPT ![k] = [@ EXCEPT !.pc = "archive", !.ids = ids]]
      PROVE  Room(k)'
  <2> DEFINE live == {c \in listed : docs[c].state # "ARCHIVED"}
             all == Live(docs, call[k].user)
  <2>1. live \subseteq all /\ all \subseteq Cells
    BY DEF Listings, Live, InScope, Stored
  <2>2. IsFiniteSet(all) /\ Cardinality(all) \in Nat /\ Cardinality(live) \in Nat
    BY <2>1, CellsCounted
  <2>3. Cardinality(ids) \in Nat /\ Cardinality(ids) <= call[k].quota
    <3>1. Cardinality(ids) = Min({call[k].quota, Cardinality(live)})
      BY <1>3
    <3> DEFINE n == Cardinality(live)
               q == call[k].quota
    <3>2. n \in Nat /\ q \in Nat
      BY <1>0, <2>2
    <3>3. Cardinality(ids) = Min({q, n})
      BY <3>1
    <3> HIDE DEF n, q
    <3>4. Min({q, n}) = IF q <= n THEN q ELSE n
      BY <3>2, MinOfTwo
    <3>5. Cardinality(ids) \in Nat /\ Cardinality(ids) <= q
      BY <3>2, <3>3, <3>4
    <3> QED BY <3>5 DEF q
  <2>4. Cardinality(all \ ids) = Cardinality(all) - Cardinality(ids)
    <3>1. all \cap ids = ids
      BY <2>1
    <3>2. Cardinality(all \ ids) = Cardinality(all) - Cardinality(all \cap ids)
      BY <2>2, FS_Difference
    <3> QED BY <3>1, <3>2
  <2>5. Cardinality(all) >= call[k].floor + call[k].quota
    BY <1>1 DEF Room
  <2>6. Cardinality(all \ ids) >= call[k].floor
    BY <1>0, <2>2, <2>3, <2>4, <2>5
  <2>7. call'[k].pc = "archive" /\ call'[k].ids = ids /\ call'[k].user = call[k].user
        /\ call'[k].floor = call[k].floor
    BY <1>0, <1>3 DEF CallState
  <2> QED BY <1>1, <2>6, <2>7 DEF Room
<1> QED BY <1>2, <1>3 DEF FindAll

\* What is archived, at once or one by one, was to be archived.
LEMMA ArchiveRoom ==
  ASSUME Base, NEW k \in 1..Calls, Room(k), BulkArchive(k) \/ ArchiveOne(k)
  PROVE  /\ Room(k)'
         /\ call[k].quota # 0 => Cardinality(Live(docs', call[k].user)) >= call[k].floor
<1>0. /\ call = [j \in 1..Calls |-> call[j]] /\ call[k] \in CallState
      /\ call[k].quota \in Nat /\ call[k].floor \in Int
  BY DEF Base, TypeOK, CallState
<1> DEFINE u == call[k].user
<1>1. /\ call[k].pc \in {"archive", "each"}
      /\ \E ids \in SUBSET call[k].ids :
           /\ \E outcome \in Outcomes : docs' = IF outcome.done THEN Archived(docs, ids, now) ELSE docs
           /\ \/ AfterArchive(k)
              \/ call' = [call EXCEPT ![k].pc = "each"]
              \/ call' = [call EXCEPT ![k].ids = @ \ ids]
  <2>1. CASE BulkArchive(k)
    BY <2>1 DEF BulkArchive, Goto
  <2>2. CASE ArchiveOne(k)
    <3>1. PICK c \in call[k].ids, outcome \in Outcomes :
            /\ docs' = IF outcome.done THEN Archived(docs, {c}, now) ELSE docs
            /\ AfterArchive(k) \/ call' = [call EXCEPT ![k].ids = @ \ {c}]
      BY <2>2 DEF ArchiveOne
    <3>2. {c} \in SUBSET call[k].ids
      OBVIOUS
    <3> QED BY <2>2, <3>1, <3>2 DEF ArchiveOne
  <2> QED BY <2>1, <2>2
<1>2. PICK ids \in SUBSET call[k].ids :
        /\ \E outcome \in Outcomes : docs' = IF outcome.done THEN Archived(docs, ids, now) ELSE docs
        /\ \/ AfterArchive(k)
           \/ call' = [call EXCEPT ![k].pc = "each"]
           \/ call' = [call EXCEPT ![k].ids = @ \ ids]
  BY <1>1
<1>3. Live(docs, u) \ ids \subseteq Live(docs', u)
  <2>1. ids \subseteq Stored(docs)
    BY <1>2, CallTyped
  <2> QED BY <1>2, <2>1, ArchiveSpares
<1>4. ASSUME call[k].quota # 0 PROVE Cardinality(Live(docs, u) \ call[k].ids) >= call[k].floor
  BY <1>1, <1>4 DEF Room
<1>5. ASSUME call[k].quota # 0 PROVE Cardinality(Live(docs', u)) >= call[k].floor
  <2>1. Live(docs, u) \ call[k].ids \subseteq Live(docs', u) \ {}
    BY <1>3
  <2>2. Live(docs', u) \ {} = Live(docs', u)
    OBVIOUS
  <2>3. Cardinality(Live(docs, u) \ call[k].ids) <= Cardinality(Live(docs', u))
    BY <2>1, <2>2, LiveGrows
  <2>4. /\ Cardinality(Live(docs, u) \ call[k].ids) \in Nat
        /\ Cardinality(Live(docs', u)) \in Nat
    BY LiveCounted
  <2> QED BY ONLY <1>0, <1>4, <1>5, <2>3, <2>4
<1>6. Room(k)'
  <2>1. CASE AfterArchive(k) /\ call[k].quota = 0
    <3>1. call'[k].pc = "count"
      BY <1>0, <2>1 DEF AfterArchive, CallState
    <3> QED BY <3>1 DEF Room
  <2>2. CASE AfterArchive(k) /\ call[k].quota # 0
    <3>1. NextUser(k, call[k].todo)
      BY <2>2 DEF AfterArchive
    <3> QED BY <3>1, CallTyped, NextUserRoom
  <2>3. ASSUME call'[k].pc \in {"archive", "each"}, call'[k].user = u, call'[k].quota = call[k].quota,
               call'[k].floor = call[k].floor, Live(docs, u) \ call[k].ids \subseteq Live(docs', u) \ call'[k].ids
        PROVE  Room(k)'
    <3>1. Cardinality(Live(docs, u) \ call[k].ids) <= Cardinality(Live(docs', u) \ call'[k].ids)
      BY <2>3, LiveGrows
    <3>2. /\ Cardinality(Live(docs, u) \ call[k].ids) \in Nat
          /\ Cardinality(Live(docs', u) \ call'[k].ids) \in Nat
      BY LiveCounted
    <3>3. call[k].quota # 0 => Cardinality(Live(docs', u) \ call'[k].ids) >= call[k].floor
      BY <1>0, <1>4, <3>1, <3>2
    <3> QED BY <2>3, <3>3 DEF Room
  <2>4. CASE call' = [call EXCEPT ![k].pc = "each"]
    <3>1. /\ call'[k].pc = "each" /\ call'[k].user = u /\ call'[k].quota = call[k].quota
          /\ call'[k].floor = call[k].floor /\ call'[k].ids = call[k].ids
      BY <1>0, <2>4 DEF CallState
    <3>2. Live(docs, u) \ call[k].ids \subseteq Live(docs', u) \ call'[k].ids
      BY <1>3, <3>1
    <3> QED BY <2>3, <3>1, <3>2
  <2>5. CASE call' = [call EXCEPT ![k].ids = @ \ ids]
    <3>1. /\ call'[k].pc = call[k].pc /\ call'[k].user = u /\ call'[k].quota = call[k].quota
          /\ call'[k].floor = call[k].floor /\ call'[k].ids = call[k].ids \ ids
      BY <1>0, <2>5 DEF CallState
    <3>2. Live(docs, u) \ call[k].ids \subseteq Live(docs', u) \ call'[k].ids
      BY <1>3, <3>1
    <3> QED BY <1>1, <2>3, <3>1, <3>2
  <2> QED BY <1>2, <2>1, <2>2, <2>4, <2>5
<1> QED BY <1>5, <1>6

\* Each step of a call leaves it room.
LEMMA ServeRoom ==
  ASSUME Base, NEW k \in 1..Calls, Room(k), Start(k) \/ Serve(k) PROVE Room(k)'
<1>0. call = [j \in 1..Calls |-> call[j]] /\ call[k] \in CallState
  BY DEF Base, TypeOK
<1>1. CASE Start(k)
  <2>1. call'[k].pc = "scopes"
    BY <1>0, <1>1 DEF Start, CallState
  <2> QED BY <2>1 DEF Room
<1>2. CASE Scopes(k)
  BY <1>2, CallTyped, NextUserRoom DEF Scopes
<1>3. CASE FindCold(k)
  <2>1. call'[k].pc \in {"archive", "count"} /\ call'[k].quota = call[k].quota /\ call[k].pc = "cold"
    BY <1>0, <1>3 DEF FindCold, CallState
  <2> QED BY <2>1 DEF Room
<1>4. CASE Count(k)
  BY <1>4, CountRoom
<1>5. CASE FindAll(k)
  BY <1>5, FindAllRoom
<1>6. CASE BulkArchive(k) \/ ArchiveOne(k)
  BY <1>6, ArchiveRoom
<1> QED BY <1>1, <1>2, <1>3, <1>4, <1>5, <1>6 DEF Serve

\* Cells come and change under a call that stands still.
LEMMA OthersSpare ==
  ASSUME Base, atomic, UNCHANGED call, Spared,
         \A k \in 1..Calls : Live(docs, call[k].user) \subseteq Live(docs', call[k].user)
  PROVE  \A k \in 1..Calls : Room(k)'
<1> SUFFICES ASSUME NEW k \in 1..Calls PROVE Room(k)'
  OBVIOUS
<1> DEFINE u == call[k].user
           ids == call[k].ids
<1>0. Room(k) /\ call'[k] = call[k] /\ call[k].quota \in Nat /\ call[k].floor \in Int
  BY DEF Spared, Base, TypeOK, CallState
<1>1. Cardinality(Live(docs, u) \ ids) <= Cardinality(Live(docs', u) \ ids)
  <2>1. Live(docs, u) \ ids \subseteq Live(docs', u) \ ids
    OBVIOUS
  <2> QED BY <2>1, LiveGrows
<1>2. Cardinality(Live(docs, u)) <= Cardinality(Live(docs', u))
  <2>1. Live(docs, u) \ {} \subseteq Live(docs', u) \ {}
    OBVIOUS
  <2>2. Cardinality(Live(docs, u) \ {}) <= Cardinality(Live(docs', u) \ {})
    BY <2>1, LiveGrows
  <2>3. Live(docs, u) \ {} = Live(docs, u) /\ Live(docs', u) \ {} = Live(docs', u)
    OBVIOUS
  <2> QED BY <2>2, <2>3
<1>3. /\ Cardinality(Live(docs, u) \ ids) \in Nat /\ Cardinality(Live(docs', u) \ ids) \in Nat
      /\ Cardinality(Live(docs, u)) \in Nat /\ Cardinality(Live(docs', u)) \in Nat
  BY LiveCounted
<1>4. call[k].pc = "all" => Cardinality(Live(docs', u)) >= call[k].floor + call[k].quota
  BY <1>0, <1>2, <1>3 DEF Room
<1>5. call[k].pc \in {"archive", "each"} /\ call[k].quota # 0 =>
        Cardinality(Live(docs', u) \ ids) >= call[k].floor
  BY <1>0, <1>1, <1>3 DEF Room
<1> QED BY <1>0, <1>4, <1>5 DEF Room

\* What is live stays so, whatever is asked of it but to be archived.
LEMMA QuietSteps ==
  ASSUME Base, atomic, NEW S, Tick \/ (\E c \in Cells : Ingest(c)) \/ FeedbackSteps \/ HitSteps
  PROVE  Live(docs, S) \subseteq Live(docs', S)
<1>1. CASE UNCHANGED docs
  BY <1>1
<1>2. ASSUME NEW c \in Cells, Ingest(c) PROVE Live(docs, S) \subseteq Live(docs', S)
  <2>1. \A d \in Stored(docs) : docs'[d] = docs[d]
    BY <1>2 DEF Ingest, Inserted, Stored, Base, TypeOK
  <2> QED BY <2>1 DEF Live, InScope, Stored
<1>3. ASSUME NEW f \in 1..Feedbacks, ApplyFeedback(f) PROVE Live(docs, S) \subseteq Live(docs', S)
  <2> DEFINE fb == feedback[f]
             bump == IF fb.positive THEN 1 ELSE 0
  <2>1. fb.cell \in Stored(docs) /\ fb.seen \in Doc /\ fb.new \in Int
    BY <1>3 DEF ApplyFeedback, Base, TypeOK, FeedbackState, Remembered, ByFeedback
  <2>2. PICK outcome \in Outcomes :
          docs' = IF ~outcome.done THEN docs
                  ELSE AddToAll(docs, {fb.cell}, fb.new - fb.seen.strength, bump, now)
    BY <1>3 DEF ApplyFeedback, HasAtomic
  <2>3. fb.new - fb.seen.strength \in Int /\ bump \in Nat /\ {fb.cell} \in SUBSET Stored(docs)
    BY <2>1 DEF Doc
  <2> QED BY <2>2, <2>3, CommandSpares
<1>4. ASSUME NEW i \in DOMAIN jobs, FinishJob(i) PROVE Live(docs, S) \subseteq Live(docs', S)
  <2>1. PICK outcome \in Outcomes :
          docs' = IF ~outcome.done THEN docs
                  ELSE AddToAll(docs, jobs[i].ids \cap InScope(docs, jobs[i].owner), jobs[i].used, 1, now)
    BY <1>4 DEF FinishJob, HasAtomic
  <2>2. jobs[i].ids \cap InScope(docs, jobs[i].owner) \in SUBSET Stored(docs) /\ jobs[i].used \in Int
    BY JobCells
  <2> QED BY <2>1, <2>2, CommandSpares
<1>5. Tick \/ (\E f \in 1..Feedbacks : ReadCell(f)) => UNCHANGED docs
  BY DEF Tick, ReadCell, docVars
<1>6. (\E owner \in Users, ids \in SUBSET Cells, delta \in Deltas : SubmitHit(owner, ids, delta))
        \/ (\E i \in DOMAIN jobs : OpenJob(i) \/ GetCell(i)) => UNCHANGED docs
  BY DEF SubmitHit, OpenJob, GetCell, docVars
<1> QED BY <1>1, <1>2, <1>3, <1>4, <1>5, <1>6 DEF FeedbackSteps, HitSteps

LEMMA SparedStep == Base /\ Spared /\ [Next]_vars => Spared'
<1> SUFFICES ASSUME Base, Spared, [Next]_vars PROVE Spared'
  OBVIOUS
<1>1. ASSUME NEW k \in 1..Calls, Start(k) \/ Serve(k) PROVE Spared'
  <2>1. /\ \A j \in 1..Calls : j # k => call'[j] = call[j] /\ ~Running(j)
        /\ Running(k)' => holder' = k
        /\ UNCHANGED atomic
    BY <1>1, OneCallMoves
  <2>2. \A j \in 1..Calls : Running(j)' => holder' = j
    BY <2>1 DEF Running
  <2>3. ASSUME atomic, NEW j \in 1..Calls PROVE Room(j)'
    <3>1. CASE j = k
      BY <1>1, <2>3, <3>1, ServeRoom DEF Spared
    <3>2. CASE j # k
      BY <2>1, <3>2 DEF Room, Running
    <3> QED BY <3>1, <3>2
  <2> QED BY <2>1, <2>2, <2>3 DEF Spared
<1>2. CASE Tick \/ (\E c \in Cells : Ingest(c)) \/ FeedbackSteps \/ HitSteps
  <2>1. UNCHANGED <<call, holder, atomic>>
    BY <1>2 DEF Tick, Ingest, FeedbackSteps, ReadCell, ApplyFeedback, HitSteps, SubmitHit, OpenJob,
         GetCell, FinishJob, callVars
  <2>2. ASSUME atomic PROVE \A k \in 1..Calls : Room(k)'
    BY <1>2, <2>1, <2>2, QuietSteps, OthersSpare
  <2>3. \A k \in 1..Calls : Running(k)' => holder' = k
    BY <2>1 DEF Spared, Running
  <2> QED BY <2>1, <2>2, <2>3 DEF Spared
<1>3. CASE UNCHANGED vars
  BY <1>3 DEF vars, docVars, callVars, Spared, Running, Room
<1> QED BY <1>1, <1>2, <1>3 DEF Next

\* Enforcing a capacity leaves what the limit leaves room for, whatever ran meanwhile.
THEOREM CapacitySparesHolds == Spec => CapacitySpares
<1>1. Init => Spared
  <2> SUFFICES ASSUME Init, NEW k \in 1..Calls PROVE call[k].pc = "idle"
    BY DEF Spared, Running, Room
  <2> QED BY DEF Init, NoCall
<1>2. Base /\ Spared /\ [Next]_vars =>
        [\A k \in 1..Calls :
           atomic /\ call[k].pc \in {"archive", "each"} /\ call[k].quota # 0 /\ call'[k] # call[k]
             => Cardinality(Live(docs', call[k].user)) >= call[k].floor]_vars
  <2> SUFFICES ASSUME Base, Spared, Next, NEW k \in 1..Calls, atomic,
                      call[k].pc \in {"archive", "each"}, call[k].quota # 0, call'[k] # call[k]
               PROVE  Cardinality(Live(docs', call[k].user)) >= call[k].floor
    OBVIOUS
  <2>1. PICK j \in 1..Calls : Start(j) \/ Serve(j)
    BY DEF Next, Tick, Ingest, FeedbackSteps, ReadCell, ApplyFeedback, HitSteps, SubmitHit, OpenJob,
         GetCell, FinishJob, callVars
  <2>2. j = k
    BY <2>1, OneCallMoves
  <2>3. BulkArchive(k) \/ ArchiveOne(k)
    <3>1. Start(k) => call[k].pc = "idle"
      BY DEF Start, NoCall
    <3>2. Scopes(k) \/ FindCold(k) \/ Count(k) \/ FindAll(k) => call[k].pc \in {"scopes", "cold", "count", "all"}
      BY DEF Scopes, FindCold, Count, FindAll
    <3> QED BY <2>1, <2>2, <3>1, <3>2 DEF Serve
  <2>4. Room(k)
    BY DEF Spared
  <2> QED BY <2>3, <2>4, ArchiveRoom
<1> QED BY <1>1, <1>2, BaseInit, BaseStep, SparedStep, PTL DEF Spec, CapacitySpares

-----------------------------------------------------------------------------
(* The light phase: the decision on one text *)

\* A ratio of whole hundredths.
LEMMA WholePart ==
  ASSUME NEW w \in Nat, w > 0
  PROVE  (10000 * w) \div w = 10000
<1> DEFINE d == (10000 * w) \div w
           r == (10000 * w) % w
<1>1. /\ d \in Int /\ r \in Int /\ 0 <= r /\ r < w
      /\ 10000 * w = w * d + r
  BY Z3
<1>2. w * (10000 - d) = r
  BY <1>1, Z3
<1>3. d = 10000
  BY <1>1, <1>2, Z3
<1> QED BY <1>3

\* The place of the first of the largest values of a finite sequence of integers.
IsBest(f, n, b) == \A j \in 1..n : f[j] < f[b] \/ (f[j] = f[b] /\ b <= j)
LEMMA BestExists ==
  ASSUME NEW n \in Nat, n > 0, NEW f, \A i \in 1..n : f[i] \in Int
  PROVE  \E b \in 1..n : IsBest(f, n, b)
<1> DEFINE Bad == {m \in Nat : m > 0 /\ m <= n /\ ~ \E b \in 1..m : IsBest(f, m, b)}
<1>1. SUFFICES ASSUME Bad # {} PROVE FALSE
  OBVIOUS
<1>2. PICK m \in Bad : \A y \in Bad : ~ (<<y, m>> \in OpToRel(<, Nat))
  <2> HIDE DEF Bad
  <2>1. Bad \subseteq Nat
    BY DEF Bad
  <2> QED BY <1>1, <2>1, WFMin, NatLessThanWellFounded
<1>3. \A y \in Bad : ~ (y < m)
  BY <1>2 DEF OpToRel
<1>4. CASE m = 1
  <2>1. IsBest(f, 1, 1)
    BY DEF IsBest
  <2> QED BY <1>4, <2>1
<1>5. CASE m # 1
  <2>1. m - 1 \in Nat /\ m - 1 > 0 /\ m - 1 <= n /\ m \in 1..n
    BY <1>5
  <2>2. PICK b \in 1..(m - 1) : IsBest(f, m - 1, b)
    BY <2>1, <1>3
  <2>3. CASE f[m] > f[b]
    <3>1. \A j \in 1..m : f[j] \in Int
      BY <2>1
    <3>2. f[b] \in Int
      BY <2>1, <3>1
    <3>3. IsBest(f, m, m)
      BY <2>1, <2>2, <2>3, <3>1, <3>2 DEF IsBest
    <3> QED BY <2>1, <3>3
  <2>4. CASE ~(f[m] > f[b])
    <3>1. \A j \in 1..m : f[j] \in Int
      BY <2>1
    <3>2. IsBest(f, m, b)
      BY <2>1, <2>2, <2>4, <3>1 DEF IsBest
    <3> QED BY <2>1, <3>2
  <2> QED BY <2>3, <2>4
<1> QED BY <1>4, <1>5

-----------------------------------------------------------------------------
(* The light phase: what is kept of scenes *)

FactSet ==
  [id : Nat, owner : Light!SceneUsers, content : Contents, blind : SUBSET Nat,
   decision : {"add", "update", "supersede"}, target : Nat]

\* Facts kept of user u, in order: numbered, each naming an earlier one or none, and
\* repeating an earlier text only where that one's vector was missing.
Reconciled(facts, u) ==
  \A i \in 1..Len(facts) :
    /\ facts[i].id = i /\ facts[i].owner = u
    /\ facts[i].decision \in {"update", "supersede"} => facts[i].target \in 1..(i - 1)
    /\ \A j \in 1..(i - 1) : facts[i].content = facts[j].content => j \in facts[i].blind

SleepTyped ==
  /\ sleepPc \in {"idle", "scopes", "scenes", "items"} /\ embedder \in BOOLEAN
  /\ sceneQueue \in Seq(Scenes) /\ items \in Seq(Contents)
  /\ known \in [Light!SceneUsers -> Seq(FactSet)] /\ kept \in Seq(FactSet)

\* Every user's facts are reconciled, with those of the scene at hand and without.
SleepInvariant ==
  /\ SleepTyped
  /\ \A u \in Light!SceneUsers : Reconciled(known[u], u)
  /\ IF sleepPc = "items"
     THEN sceneQueue # <<>> /\ Reconciled(Light!Existing(Head(sceneQueue).user), Head(sceneQueue).user)
     ELSE kept = <<>>

LEMMA SimilarityBounds ==
  ASSUME NEW new \in Contents, NEW old \in Contents, NEW nv, NEW ov
  PROVE  Light!Similarity(new, old, nv, ov) \in Int
<1> DEFINE jac == Jaccard[<<new, old>>]
           cosine == IF ov THEN Cosine[<<new, old>>] ELSE 0
<1>1. jac \in Int /\ cosine \in Int /\ WJaccard \in Nat /\ WCosine \in Nat
  <2>1. Jaccard[<<new, old>>] \in 0..100 /\ Cosine[<<new, old>>] \in 0..100
    BY SleepAssumption, Zenon
  <2>2. WJaccard \in Nat /\ WCosine \in Nat
    BY SleepAssumption, Zenon
  <2> QED BY <2>1, <2>2
<1> HIDE DEF jac, cosine
<1>2. WJaccard + WCosine # 0 =>
        (100 * (WJaccard * jac + WCosine * cosine)) \div (WJaccard + WCosine) \in Int
  <2> DEFINE x == 100 * (WJaccard * jac + WCosine * cosine)
             w == WJaccard + WCosine
  <2>1. x \in Int /\ w \in Nat
    BY <1>1
  <2> HIDE DEF x, w
  <2>2. w # 0 => x \div w \in Int
    BY <2>1
  <2> QED BY <2>2 DEF x, w
<1>3. 100 * jac \in Int
  BY <1>1
<1> QED BY <1>2, <1>3 DEF Light!Similarity, jac, cosine

\* An equal text is wholly similar, unless its vector alone is missing.
LEMMA EqualTexts ==
  ASSUME NEW new \in Contents, NEW old, old = new, NEW nv \in BOOLEAN, NEW vectors, NEW i,
         nv => i \in vectors
  PROVE  Light!Similarity(new, old, nv, i \in vectors) = 10000
<1> DEFINE jac == Jaccard[<<new, old>>]
           cos == Cosine[<<new, old>>]
<1>1. jac = 100 /\ cos = 100
  BY SleepAssumption
<1>2. WJaccard \in Nat /\ WCosine \in Nat
  BY SleepAssumption
<1>3. CASE ~nv \/ WJaccard + WCosine = 0
  <2>1. Light!Similarity(new, old, nv, i \in vectors) = 100 * jac
    BY <1>3 DEF Light!Similarity
  <2> QED BY <2>1, <1>1
<1>4. CASE ~(~nv \/ WJaccard + WCosine = 0)
  <2>1. Light!Similarity(new, old, nv, i \in vectors) =
          (100 * (WJaccard * jac + WCosine * cos)) \div (WJaccard + WCosine)
    BY <1>4 DEF Light!Similarity
  <2> HIDE DEF jac, cos
  <2>2. 100 * (WJaccard * jac + WCosine * cos) = 10000 * (WJaccard + WCosine)
    BY <1>1, <1>2
  <2>3. WJaccard + WCosine \in Nat /\ WJaccard + WCosine > 0
    BY <1>2, <1>4
  <2>4. (10000 * (WJaccard + WCosine)) \div (WJaccard + WCosine) = 10000
    BY <2>3, WholePart
  <2> QED BY <2>1, <2>2, <2>4
<1> QED BY <1>3, <1>4

\* What consolidate() decides of a text and what is kept: it names a kept fact or
\* none, and drops what a fact with a vector already says.
LEMMA DecisionFacts ==
  ASSUME NEW content \in Contents, NEW facts \in Seq(FactSet), NEW nv \in BOOLEAN, NEW vectors
  PROVE  LET result == Light!Decision(content, facts, nv, vectors)
         IN /\ result.decision \in {"noop", "add", "update", "supersede"}
            /\ result.decision \in {"update", "supersede"} =>
                 \E i \in 1..Len(facts) : result.target = facts[i].id
            /\ result.decision = "add" => result.target = 0
            /\ (\E i \in 1..Len(facts) : facts[i].content = content /\ (nv => i \in vectors)) =>
                 result.decision = "noop"
<1> DEFINE n == Len(facts)
           sim == [i \in DOMAIN facts |->
                     Light!Similarity(content, facts[i].content, nv, i \in vectors)]
           best == CHOOSE i \in DOMAIN sim :
                     \A j \in DOMAIN sim : sim[j] < sim[i] \/ (sim[j] = sim[i] /\ i <= j)
           decision == Light!Decide(sim[best])
<1>1. CASE facts = <<>>
  <2>1. Light!Decision(content, facts, nv, vectors) = [decision |-> "add", target |-> 0]
    BY <1>1 DEF Light!Decision
  <2>2. 1..Len(facts) = {}
    BY <1>1
  <2> QED BY <2>1, <2>2
<1>2. CASE facts # <<>>
  <2>1. n \in Nat /\ n > 0 /\ DOMAIN facts = 1..n
    BY <1>2, EmptySeq, LenProperties
  <2>2. \A i \in 1..n : facts[i] \in FactSet /\ facts[i].content \in Contents
    <3>1. \A i \in 1..n : facts[i] \in FactSet
      BY <2>1, ElementOfSeq
    <3> QED BY <3>1 DEF FactSet
  <2>3. DOMAIN sim = 1..n /\ \A i \in 1..n : sim[i] \in Int
    <3>1. ASSUME NEW i \in 1..n PROVE sim[i] \in Int
      BY <2>1, <2>2, SimilarityBounds
    <3> QED BY <3>1, <2>1
  <2>4. \A i \in 1..n : sim[i] = Light!Similarity(content, facts[i].content, nv, i \in vectors)
    BY <2>1
  <2>5. Light!Decision(content, facts, nv, vectors) =
          [decision |-> decision, target |-> IF decision = "add" THEN 0 ELSE facts[best].id]
    BY <1>2 DEF Light!Decision
  <2> HIDE DEF sim
  <2>6. best \in 1..n /\ IsBest(sim, n, best)
    <3>1. \E b \in 1..n : IsBest(sim, n, b)
      BY <2>1, <2>3, BestExists
    <3>2. \E b \in DOMAIN sim :
            \A j \in DOMAIN sim : sim[j] < sim[b] \/ (sim[j] = sim[b] /\ b <= j)
      BY <3>1, <2>3 DEF IsBest
    <3>3. best \in DOMAIN sim /\
            \A j \in DOMAIN sim : sim[j] < sim[best] \/ (sim[j] = sim[best] /\ best <= j)
      BY <3>2
    <3> HIDE DEF best
    <3> QED BY <3>3, <2>3 DEF IsBest
  <2> HIDE DEF best
  <2>7. decision \in {"noop", "add", "update", "supersede"}
    BY DEF Light!Decide
  <2>8. ASSUME NEW i \in 1..n, facts[i].content = content, nv => i \in vectors
        PROVE  decision = "noop"
    <3>1. sim[i] = 10000
      <4>1. Light!Similarity(content, facts[i].content, nv, i \in vectors) = 10000
        BY <2>8, EqualTexts
      <4> QED BY <2>4, <4>1
    <3>2. sim[best] >= 10000
      BY <3>1, <2>3, <2>6 DEF IsBest
    <3>3. NoopAt \in Int /\ NoopAt <= 100 /\ sim[best] \in Int
      BY SleepAssumption, <2>3, <2>6
    <3>4. sim[best] >= 100 * NoopAt
      BY <3>2, <3>3
    <3> QED BY <3>4 DEF Light!Decide
  <2> HIDE DEF decision
  <2> QED BY <2>5, <2>6, <2>7, <2>8
<1> QED BY <1>1, <1>2

LEMMA NothingReconciled ==
  ASSUME NEW u
  PROVE  Reconciled(<<>>, u)
BY DEF Reconciled

\* A fact that names an earlier one, and is blind to those it repeats, may follow.
LEMMA AppendReconciled ==
  ASSUME NEW facts \in Seq(FactSet), NEW u, Reconciled(facts, u), NEW f \in FactSet,
         f.id = Len(facts) + 1, f.owner = u,
         f.decision \in {"update", "supersede"} => f.target \in 1..Len(facts),
         \A j \in 1..Len(facts) : f.content = facts[j].content => j \in f.blind
  PROVE  Reconciled(Append(facts, f), u)
<1> DEFINE more == Append(facts, f)
           n == Len(facts)
<1>1. /\ n \in Nat /\ Len(more) = n + 1
      /\ \A i \in 1..n : more[i] = facts[i]
      /\ more[n + 1] = f
  BY AppendProperties, LenProperties
<1> HIDE DEF more
<1>2. ASSUME NEW i \in 1..Len(more)
      PROVE  /\ more[i].id = i /\ more[i].owner = u
             /\ more[i].decision \in {"update", "supersede"} => more[i].target \in 1..(i - 1)
             /\ \A j \in 1..(i - 1) : more[i].content = more[j].content => j \in more[i].blind
  <2>1. CASE i \in 1..n
    <3>1. more[i] = facts[i] /\ \A j \in 1..(i - 1) : more[j] = facts[j]
      BY <1>1, <2>1
    <3> QED BY <2>1, <3>1 DEF Reconciled
  <2>2. CASE i = n + 1
    <3>1. more[i] = f /\ \A j \in 1..(i - 1) : more[j] = facts[j]
      BY <1>1, <2>2
    <3>2. i - 1 = n
      BY <1>1, <2>2
    <3> QED BY <2>2, <3>1, <3>2
  <2> QED BY <1>1, <2>1, <2>2
<1>3. Reconciled(more, u)
  BY <1>2 DEF Reconciled
<1> QED BY <1>3 DEF more

\* The user of the scene at hand, and that user's facts.
LEMMA SceneFacts ==
  ASSUME SleepTyped, sceneQueue # <<>>
  PROVE  /\ Head(sceneQueue).user \in Light!SceneUsers
         /\ Light!Existing(Head(sceneQueue).user) \in Seq(FactSet)
         /\ known[Head(sceneQueue).user] \in Seq(FactSet)
<1>1. Head(sceneQueue) \in Scenes
  BY HeadTailProperties DEF SleepTyped
<1>2. Head(sceneQueue).user \in Light!SceneUsers
  BY <1>1 DEF Scenes
<1>3. known[Head(sceneQueue).user] \in Seq(FactSet) /\ kept \in Seq(FactSet)
  BY <1>2 DEF SleepTyped
<1> QED BY <1>2, <1>3, ConcatProperties DEF Light!Existing

LEMMA SleepInitial ==
  Light!SleepInit => SleepInvariant
<1> SUFFICES ASSUME Light!SleepInit PROVE SleepInvariant
  OBVIOUS
<1>1. /\ sleepPc = "idle" /\ embedder \in BOOLEAN
      /\ sceneQueue = <<>> /\ items = <<>> /\ kept = <<>>
      /\ known = [u \in Light!SceneUsers |-> <<>>]
  BY DEF Light!SleepInit, Light!NothingKnown
<1>2. SleepTyped
  BY <1>1, EmptySeq DEF SleepTyped
<1>3. \A u \in Light!SceneUsers : Reconciled(known[u], u)
  BY <1>1, NothingReconciled
<1> QED BY <1>1, <1>2, <1>3 DEF SleepInvariant

LEMMA AskScopesKeeps ==
  ASSUME SleepInvariant, Light!AskScopes
  PROVE  SleepInvariant'
BY DEF SleepInvariant, SleepTyped, Light!AskScopes

LEMMA FetchScenesKeeps ==
  ASSUME SleepInvariant, Light!FetchScenes
  PROVE  SleepInvariant'
<1>1. sceneQueue' \in Seq(Scenes)
  BY SleepAssumption, EmptySeq DEF Light!FetchScenes
<1>2. known' = [u \in Light!SceneUsers |-> <<>>]
  BY DEF Light!FetchScenes, Light!NothingKnown
<1>3. /\ sleepPc' = "scenes" /\ items' = items /\ kept' = kept /\ sleepPc = "scopes"
      /\ embedder' = embedder
  BY DEF Light!FetchScenes
<1>4. SleepTyped'
  BY <1>1, <1>2, <1>3, EmptySeq DEF SleepInvariant, SleepTyped
<1>5. \A u \in Light!SceneUsers : Reconciled(known'[u], u)
  BY <1>2, NothingReconciled
<1> QED BY <1>3, <1>4, <1>5 DEF SleepInvariant

LEMMA EndScenesKeeps ==
  ASSUME SleepInvariant, Light!EndScenes
  PROVE  SleepInvariant'
BY DEF SleepInvariant, SleepTyped, Light!EndScenes

LEMMA SkipSceneKeeps ==
  ASSUME SleepInvariant, Light!SkipScene
  PROVE  SleepInvariant'
<1>1. sceneQueue' \in Seq(Scenes)
  BY HeadTailProperties DEF SleepInvariant, SleepTyped, Light!SkipScene
<1> QED BY <1>1 DEF SleepInvariant, SleepTyped, Light!SkipScene

LEMMA AskLLMKeeps ==
  ASSUME SleepInvariant, Light!AskLLM
  PROVE  SleepInvariant'
<1>1. items' \in Seq(Contents)
  BY SleepAssumption DEF Light!AskLLM, ContentsOf
<1>2. /\ sleepPc' = "items" /\ kept' = <<>> /\ kept = <<>> /\ sceneQueue # <<>>
      /\ UNCHANGED <<sceneQueue, known, embedder>>
  BY DEF Light!AskLLM, SleepInvariant
<1>3. SleepTyped'
  BY <1>1, <1>2 DEF SleepInvariant, SleepTyped
<1> DEFINE u == Head(sceneQueue).user
<1>4. u \in Light!SceneUsers /\ known[u] \in Seq(FactSet)
  BY <1>2, SceneFacts DEF SleepInvariant
<1>5. Light!Existing(u)' = known[u]
  BY <1>2, <1>4, ConcatEmptySeq DEF Light!Existing
<1>6. Reconciled(Light!Existing(u)', u')
  BY <1>2, <1>4, <1>5 DEF SleepInvariant
<1> QED BY <1>2, <1>3, <1>6 DEF SleepInvariant

LEMMA EndSceneKeeps ==
  ASSUME SleepInvariant, Light!EndScene
  PROVE  SleepInvariant'
<1> DEFINE u == Head(sceneQueue).user
<1>1. /\ sleepPc = "items" /\ sceneQueue # <<>>
      /\ sleepPc' = "scenes" /\ kept' = <<>> /\ items' = items /\ sceneQueue' = Tail(sceneQueue)
      /\ known' = [known EXCEPT ![u] = @ \o kept] /\ embedder' = embedder
  BY DEF Light!EndScene, SleepInvariant, Light!Extended
<1>2. /\ SleepTyped /\ u \in Light!SceneUsers
      /\ Light!Existing(u) \in Seq(FactSet) /\ Reconciled(Light!Existing(u), u)
  BY <1>1, SceneFacts DEF SleepInvariant
<1>3. known' = [v \in Light!SceneUsers |-> IF v = u THEN Light!Existing(u) ELSE known[v]]
  BY <1>1, <1>2 DEF SleepTyped, Light!Existing
<1>4. sceneQueue' \in Seq(Scenes)
  BY <1>1, HeadTailProperties DEF SleepInvariant, SleepTyped
<1>5. SleepTyped'
  BY <1>1, <1>2, <1>3, <1>4, EmptySeq DEF SleepTyped
<1>6. \A v \in Light!SceneUsers : Reconciled(known'[v], v)
  BY <1>2, <1>3 DEF SleepInvariant
<1> QED BY <1>1, <1>5, <1>6 DEF SleepInvariant

\* What embedding gives: vectors only for a new text that has one.
LEMMA OutcomeFacts ==
  ASSUME embedder \in BOOLEAN, NEW all, NEW outcome \in Light!EmbedOutcomes(all)
  PROVE  outcome.new \in BOOLEAN
<1>1. \/ outcome = [new |-> embedder, vectors |-> IF embedder THEN all ELSE {}, ok |-> TRUE]
      \/ outcome = [new |-> FALSE, vectors |-> {}, ok |-> FALSE]
      \/ outcome \in [new : {TRUE}, vectors : (SUBSET all) \ {all}, ok : {FALSE}]
  BY DEF Light!EmbedOutcomes
<1>2. CASE outcome \in [new : {TRUE}, vectors : (SUBSET all) \ {all}, ok : {FALSE}]
  BY <1>2
<1>3. CASE outcome = [new |-> embedder, vectors |-> IF embedder THEN all ELSE {}, ok |-> TRUE]
  <2>1. outcome.new = embedder
    BY <1>3
  <2> QED BY <2>1
<1>4. CASE outcome = [new |-> FALSE, vectors |-> {}, ok |-> FALSE]
  BY <1>4
<1> QED BY <1>1, <1>2, <1>3, <1>4

\* The candidate for a user whose facts are reconciled, decided on, is one more of them.
LEMMA CandidateFits ==
  ASSUME SleepTyped, NEW u \in Light!SceneUsers, Light!Existing(u) \in Seq(FactSet), Reconciled(Light!Existing(u), u),
         NEW content \in Contents, NEW outcome, outcome.new \in BOOLEAN,
         NEW result, result = Light!Decision(content, Light!Existing(u), outcome.new, outcome.vectors),
         result.decision # "noop",
         NEW f, f = [id |-> Light!Candidate(u, content, outcome).id,
                     owner |-> Light!Candidate(u, content, outcome).owner,
                     content |-> Light!Candidate(u, content, outcome).content,
                     blind |-> Light!Candidate(u, content, outcome).blind,
                     decision |-> result.decision, target |-> result.target]
  PROVE  f \in FactSet /\ Reconciled(Append(Light!Existing(u), f), u)
<1> DEFINE facts == Light!Existing(u)
           n == Len(facts)
           blind == IF outcome.new THEN {facts[i].id : i \in (DOMAIN facts) \ outcome.vectors} ELSE {}
<1>1. /\ n \in Nat /\ DOMAIN facts = 1..n
      /\ \A i \in 1..n : facts[i].id = i
  BY LenProperties DEF Reconciled
<1>2. f = [id |-> n + 1, owner |-> u, content |-> content, blind |-> blind,
           decision |-> result.decision, target |-> result.target]
  BY DEF Light!Candidate
<1>3. /\ result.decision \in {"add", "update", "supersede"}
      /\ result.decision \in {"update", "supersede"} =>
           \E i \in 1..n : result.target = facts[i].id
      /\ result.decision = "add" => result.target = 0
      /\ ~ \E i \in 1..n : facts[i].content = content /\ (outcome.new => i \in outcome.vectors)
  BY DecisionFacts
<1>4. blind \subseteq Nat
  BY <1>1
<1>5. \A j \in 1..n : content = facts[j].content => j \in blind
  <2> SUFFICES ASSUME NEW j \in 1..n, content = facts[j].content PROVE j \in blind
    OBVIOUS
  <2>1. outcome.new /\ j \notin outcome.vectors
    BY <1>3
  <2>2. facts[j].id = j /\ j \in (DOMAIN facts) \ outcome.vectors
    BY <1>1, <2>1
  <2>3. facts[j].id \in {facts[i].id : i \in (DOMAIN facts) \ outcome.vectors}
    BY <2>2
  <2> QED BY <2>1, <2>2, <2>3
<1> HIDE DEF blind
<1>6. result.decision \in {"update", "supersede"} => result.target \in 1..n
  BY <1>1, <1>3
<1>7. result.target \in Nat
  BY <1>1, <1>3, <1>6
<1>8. f \in FactSet
  <2>1. n + 1 \in Nat /\ result.decision \in {"add", "update", "supersede"}
    BY <1>1, <1>3
  <2>2. u \in Light!SceneUsers /\ content \in Contents /\ blind \in SUBSET Nat
    BY <1>4
  <2> QED BY ONLY <1>2, <1>7, <2>1, <2>2 DEF FactSet
<1>9. /\ f.id = n + 1 /\ f.owner = u /\ f.content = content /\ f.blind = blind
      /\ f.decision = result.decision /\ f.target = result.target
  BY <1>2
<1>10. Reconciled(Append(facts, f), u)
  BY <1>5, <1>6, <1>8, <1>9, AppendReconciled
<1> QED BY <1>8, <1>10

LEMMA ConcatAppend ==
  ASSUME NEW T, NEW s \in Seq(T), NEW t \in Seq(T), NEW e \in T
  PROVE  s \o Append(t, e) = Append(s \o t, e)
<1>1. <<e>> \in Seq(T) /\ s \o t \in Seq(T)
  BY ConcatProperties
<1>2. Append(t, e) = t \o <<e>> /\ Append(s \o t, e) = (s \o t) \o <<e>>
  BY <1>1, AppendIsConcat
<1>3. \A w \in Seq(T) : (s \o t) \o w = s \o (t \o w)
  BY ConcatAssociative
<1> QED BY <1>1, <1>2, <1>3

LEMMA DecideItemKeeps ==
  ASSUME SleepInvariant, Light!DecideItem
  PROVE  SleepInvariant'
<1> DEFINE u == Head(sceneQueue).user
           facts == Light!Existing(u)
           content == Head(items)
<1>1. /\ sleepPc = "items" /\ items # <<>> /\ items' = Tail(items)
      /\ UNCHANGED <<sleepPc, embedder, sceneQueue, known>>
      /\ \/ kept' = kept
         \/ \E outcome \in Light!EmbedOutcomes(DOMAIN facts) :
              kept' = Light!Apply(Light!Candidate(u, content, outcome),
                              Light!Decision(content, facts, outcome.new, outcome.vectors))
  BY DEF Light!DecideItem
<1>2. /\ SleepTyped /\ sceneQueue # <<>> /\ u \in Light!SceneUsers
      /\ known[u] \in Seq(FactSet) /\ kept \in Seq(FactSet)
      /\ facts \in Seq(FactSet) /\ Reconciled(facts, u)
      /\ embedder \in BOOLEAN
  BY <1>1, SceneFacts DEF SleepInvariant, SleepTyped
<1>3. content \in Contents /\ items' \in Seq(Contents)
  BY <1>1, <1>2, HeadTailProperties DEF SleepTyped
<1>4. kept' \in Seq(FactSet) /\ Reconciled(known[u] \o kept', u)
  <2>1. CASE kept' = kept
    BY <1>2, <2>1 DEF Light!Existing
  <2>2. ASSUME NEW outcome \in Light!EmbedOutcomes(DOMAIN facts),
               kept' = Light!Apply(Light!Candidate(u, content, outcome),
                               Light!Decision(content, facts, outcome.new, outcome.vectors))
        PROVE  kept' \in Seq(FactSet) /\ Reconciled(known[u] \o kept', u)
    <3> DEFINE result == Light!Decision(content, facts, outcome.new, outcome.vectors)
               cand == Light!Candidate(u, content, outcome)
               f == [id |-> cand.id, owner |-> cand.owner, content |-> cand.content,
                     blind |-> cand.blind, decision |-> result.decision, target |-> result.target]
    <3>1. kept' = IF result.decision = "noop" THEN kept ELSE Append(kept, f)
      BY <2>2 DEF Light!Apply
    <3>2. CASE result.decision = "noop"
      BY <1>2, <3>1, <3>2 DEF Light!Existing
    <3>3. CASE result.decision # "noop"
      <4>1. outcome.new \in BOOLEAN
        BY <1>2, OutcomeFacts
      <4>2. f \in FactSet /\ Reconciled(Append(facts, f), u)
        BY <1>2, <1>3, <3>3, <4>1, CandidateFits
      <4> HIDE DEF f
      <4>3. kept' = Append(kept, f) /\ kept' \in Seq(FactSet)
        BY <1>2, <3>1, <3>3, <4>2, AppendProperties
      <4>4. known[u] \o Append(kept, f) = Append(known[u] \o kept, f)
        <5>1. \A s, t \in Seq(FactSet) : \A e \in FactSet : s \o Append(t, e) = Append(s \o t, e)
          BY ConcatAppend
        <5> QED BY <1>2, <4>2, <5>1
      <4> QED BY <4>2, <4>3, <4>4 DEF Light!Existing
    <3> QED BY <3>2, <3>3
  <2> QED BY <1>1, <2>1, <2>2
<1>5. SleepTyped'
  BY <1>1, <1>2, <1>3, <1>4 DEF SleepTyped
<1>6. Reconciled(Light!Existing(u)', u') /\ u' = u
  BY <1>1, <1>4 DEF Light!Existing
<1> QED BY <1>1, <1>2, <1>5, <1>6 DEF SleepInvariant

LEMMA SleepStep ==
  ASSUME SleepInvariant, [ConsolidationNext]_<<launch, vars, sleepVars>>
  PROVE  SleepInvariant'
<1>1. CASE launch = "facts" /\ Light!SleepNext
  BY <1>1, AskScopesKeeps, FetchScenesKeeps, EndScenesKeeps, SkipSceneKeeps, AskLLMKeeps,
     DecideItemKeeps, EndSceneKeeps DEF Light!SleepNext
<1>2. CASE UNCHANGED sleepVars
  BY <1>2 DEF sleepVars, SleepInvariant, SleepTyped, Light!Existing
<1> QED BY <1>1, <1>2 DEF ConsolidationNext

LEMMA SleepGivesReconciled ==
  SleepInvariant => FactsReconciled
<1> SUFFICES ASSUME SleepInvariant, NEW u \in Light!SceneUsers
             PROVE  LET facts == IF sceneQueue # <<>> /\ Head(sceneQueue).user = u
                                 THEN Light!Existing(u) ELSE known[u]
                    IN \A i \in DOMAIN facts :
                         /\ facts[i].owner = u
                         /\ facts[i].decision \in {"update", "supersede"} => facts[i].target \in 1..(i - 1)
                         /\ \A j \in 1..(i - 1) :
                              facts[i].content = facts[j].content => facts[j].id \in facts[i].blind
  BY DEF FactsReconciled, Light!FactsReconciled
<1> DEFINE facts == IF sceneQueue # <<>> /\ Head(sceneQueue).user = u THEN Light!Existing(u) ELSE known[u]
<1>1. facts \in Seq(FactSet) /\ Reconciled(facts, u)
  <2>1. known[u] \in Seq(FactSet) /\ Reconciled(known[u], u)
    BY DEF SleepInvariant, SleepTyped
  <2>2. CASE sceneQueue # <<>> /\ Head(sceneQueue).user = u
    <3>1. Light!Existing(u) \in Seq(FactSet)
      BY <2>2, SceneFacts DEF SleepInvariant
    <3>2. sleepPc # "items" => Light!Existing(u) = known[u]
      BY <2>1, ConcatEmptySeq DEF SleepInvariant, Light!Existing
    <3> QED BY <2>1, <2>2, <3>1, <3>2 DEF SleepInvariant
  <2> QED BY <2>1, <2>2
<1> HIDE DEF facts
<1>2. DOMAIN facts = 1..Len(facts) /\ Len(facts) \in Nat
  BY <1>1, LenProperties
<1>3. \A i \in DOMAIN facts : \A j \in 1..(i - 1) : j \in 1..Len(facts) /\ facts[j].id = j
  BY <1>1, <1>2 DEF Reconciled
<1> QED BY <1>1, <1>2, <1>3 DEF Reconciled, facts

\* Sleep: whatever fails while the scenes of several users are consolidated, a fact
\* is kept twice for a user only if the vector of the first was missing when the
\* second was compared with it, and what updates or supersedes names an earlier
\* fact of the same user (consolidation/sleep.py, consolidator.py).
THEOREM FactsReconciledHolds == ConsolidationSpec => []FactsReconciled
<1>1. ConsolidationInit => SleepInvariant
  BY SleepInitial DEF ConsolidationInit
<1>2. SleepInvariant /\ [ConsolidationNext]_<<launch, vars, sleepVars>> => SleepInvariant'
  BY SleepStep
<1>3. SleepInvariant => FactsReconciled
  BY SleepGivesReconciled
<1> QED BY <1>1, <1>2, <1>3, PTL DEF ConsolidationSpec
=============================================================================
