---------------------------- MODULE CellLifecycle ----------------------------
(***************************************************************************)
(* What happens to a memory after it is stored.  FeedbackService           *)
(* (services.py) reads a cell, asks the reinforcer for a new strength and  *)
(* sends the difference; LifecycleUpdater (lifecycle.py) turns the cells a *)
(* search returned into background jobs that raise strength and access     *)
(* count; ConsolidationService runs the dreaming strategy, whose           *)
(* DecayManager (consolidation/decay.py) archives cold cells and enforces  *)
(* the capacity of a user.  They share nothing but the documents, and      *)
(* every await lets the others in.                                         *)
(***************************************************************************)
EXTENDS CellStore

CONSTANTS
  Feedbacks,         \* bound: feedback requests, numbered as they arrive
  FeedbackInputs,    \* [cell, memory, type, value, scope] a client may send
  Deltas, Default,   \* strength_delta of queued payloads, of this build
  MaxJobs,           \* bound: jobs of retrieval hits
  MaxStarted,        \* bound: feedbacks, jobs and calls together
  Calls, CallInputs, \* bound: consolidate calls, their [tenant, user, phase]
  MaxMemories, Margin,   \* max_memories_per_user, safety_margin in percent
  FindLimit,         \* limit of find_all()
  InitialDocs,       \* documents of an earlier time
  MaxNow, MaxFaults  \* bounds: days, failures

\* mem_cell_id and memory_id may both be missing.
FeedbackRequest(in) ==
  {in.cell, in.memory} \subseteq Cells \cup {None} /\ in.type \in DOMAIN Signal /\ in.value \in Int

ASSUME LifecycleAssumption ==
  /\ Default \in Deltas /\ Deltas \subseteq Nat
  /\ MaxMemories \in Nat /\ Margin \in 0..100 /\ FindLimit \in Nat
  /\ Feedbacks \in Nat /\ Calls \in Nat /\ MaxJobs \in Nat /\ MaxStarted \in Nat /\ MaxNow \in Nat /\ MaxFaults \in Nat
  /\ InitialDocs \subseteq [Cells -> Doc \cup {Absent}]
  /\ \A old \in InitialDocs : \A c \in Stored(old) : old[c].strength \in 0..SMax
  /\ \A in \in FeedbackInputs : FeedbackRequest(in)

VARIABLES
  atomic,    \* the repository has atomic_apply_strength_delta() and the bulk form
  now,       \* days passed
  docs,      \* collection memcells
  feedback,  \* apply_feedback() per request
  jobs,      \* jobs of retrieval hits, in order of submission
  ambient,   \* updater._strength_delta of the process that runs the jobs
  call,      \* consolidate() per call
  holder,    \* owner of ConsolidationService._call_lock, or 0
  faults,    \* failures so far
  acked, unacked, \* history: access counts confirmed, applied without an answer
  crossed,   \* history: cells whose feedback was computed from a strength since changed
  overlapped \* history: two job handlers were open at once

docVars == <<docs, acked, unacked>>
jobVars == <<jobs, ambient, overlapped>>
callVars == <<call, holder>>
vars == <<atomic, now, docVars, feedback, jobVars, callVars, faults, crossed>>

Users == {Owner[c] : c \in Cells}
\* Mutant: a repository whose atomic update is never found.
NeverAtomic == FALSE
\* callable(getattr(repo, "atomic_apply_strength_delta", None))
HasAtomic == atomic

\* What may happen to a command: done and answered, done with the answer lost, not done.
Outcomes == [done : BOOLEAN, ok : BOOLEAN] \ {[done |-> FALSE, ok |-> TRUE]}
Suffer(outcome) ==
  /\ outcome.ok \/ faults < MaxFaults
  /\ faults' = faults + (IF outcome.ok THEN 0 ELSE 1)
\* History of the access counts a command asked for.
Account(cs, outcome) ==
  /\ acked' = [c \in Cells |-> acked[c] + (IF c \in cs /\ outcome.ok THEN 1 ELSE 0)]
  /\ unacked' = [c \in Cells |-> unacked[c] + (IF c \in cs /\ outcome.done /\ ~outcome.ok THEN 1 ELSE 0)]

-----------------------------------------------------------------------------
Idle == [pc |-> "idle"]
NoCall == [pc |-> "idle", todo |-> {}, user |-> Unscoped, ids |-> {}, quota |-> 0, floor |-> 0]

Init ==
  /\ atomic \in BOOLEAN /\ now = 0 /\ docs \in InitialDocs
  /\ feedback = [f \in 1..Feedbacks |-> Idle]
  /\ jobs = <<>> /\ ambient = Default
  /\ call = [k \in 1..Calls |-> NoCall] /\ holder = 0
  /\ faults = 0 /\ overlapped = FALSE /\ crossed = {}
  /\ acked = [c \in Cells |-> IF c \in Stored(docs) THEN docs[c].access ELSE 0]
  /\ unacked = [c \in Cells |-> 0]

Started ==
  Cardinality({f \in 1..Feedbacks : feedback[f] # Idle}) + Len(jobs)
    + Cardinality({k \in 1..Calls : call[k] # NoCall})

Tick ==
  /\ now < MaxNow /\ now' = now + 1
  /\ UNCHANGED <<atomic, docVars, feedback, jobVars, callVars, faults, crossed>>

\* The ingest path stores a new cell.
Ingest(c) ==
  /\ docs[c] = Absent
  /\ docs' = Inserted(docs, c, [state |-> "ACTIVE", strength |-> 1, access |-> 0,
                                created |-> now, updated |-> now])
  /\ UNCHANGED <<atomic, now, acked, unacked, feedback, jobVars, callVars, faults, crossed>>

-----------------------------------------------------------------------------
(* FeedbackService.apply_feedback() *)

Target(in) == IF in.cell # None THEN in.cell ELSE in.memory

\* Without a target the route refuses (422), without a cell it answers 404.
\* get_by_id_scoped(), reinforce(): nothing suspends between the answer and the new strength.
ReadCell(f) ==
  /\ feedback[f] = Idle /\ (\A g \in 1..(f - 1) : feedback[g] # Idle) /\ Started < MaxStarted
  /\ \E in \in FeedbackInputs :
       feedback' = [feedback EXCEPT ![f] =
         IF Target(in) # None /\ Found(docs, Target(in), in.scope)
         THEN LET doc == docs[Target(in)] IN
              [pc |-> "apply", cell |-> Target(in), positive |-> in.type \in Confirming, seen |-> doc,
               new |-> Reinforced(doc, in.type, in.value, now)]
         ELSE [pc |-> IF Target(in) = None THEN "invalid" ELSE "absent"]]
  /\ UNCHANGED <<atomic, now, docVars, jobVars, callVars, faults, crossed>>

\* atomic_apply_strength_delta(), or update() with what was computed from the old document.
ApplyFeedback(f) ==
  /\ feedback[f].pc = "apply"
  /\ LET fb == feedback[f]
         c == fb.cell
         bump == IF fb.positive THEN 1 ELSE 0
     IN \E outcome \in Outcomes :
          /\ Suffer(outcome)
          /\ Account(IF fb.positive THEN {c} ELSE {}, outcome)
          /\ docs' = IF ~outcome.done THEN docs
                     ELSE IF HasAtomic
                     THEN AddToAll(docs, {c}, fb.new - fb.seen.strength, bump, now)
                     ELSE Updated(docs, c, [docs[c] EXCEPT !.strength = fb.new, !.updated = now,
                                                           !.access = fb.seen.access + bump])
          /\ crossed' = IF docs[c].strength = fb.seen.strength THEN crossed ELSE crossed \cup {c}
          /\ feedback' = [feedback EXCEPT ![f] = [pc |-> IF outcome.ok THEN "ok" ELSE "error"]]
  /\ UNCHANGED <<atomic, now, jobVars, callVars>>

-----------------------------------------------------------------------------
(* LifecycleUpdater *)

Job(ids, owner, delta) ==
  [pc |-> "queued", ids |-> ids, owner |-> owner, delta |-> delta, saved |-> Default,
   used |-> delta, new |-> Absent]
Opened == {i \in DOMAIN jobs : jobs[i].pc \in {"open", "got"}}

\* on_retrieval_hit(): one job for all cells, or one per cell without the bulk form.
\* The payload carries the delta of the process that submitted it.
SubmitHit(owner, ids, delta) ==
  /\ ids # {} /\ ids \subseteq InScope(docs, owner)
  /\ LET submitted == IF HasAtomic THEN <<Job(ids, owner, delta)>>
                      ELSE LET each == SetToSeq(ids)
                           IN [i \in DOMAIN each |-> Job({each[i]}, owner, delta)]
     IN /\ Len(jobs) + Len(submitted) <= MaxJobs /\ Started + Len(submitted) <= MaxStarted
        /\ jobs' = jobs \o submitted
  /\ UNCHANGED <<atomic, now, docVars, feedback, ambient, overlapped, callVars, faults, crossed>>

\* Handlers of register_lifecycle_handlers(): the payload's delta replaces the
\* updater's, and the bulk command takes it before it is first awaited.
OpenJob(i) ==
  /\ jobs[i].pc = "queued"
  /\ jobs' = [jobs EXCEPT ![i] = [@ EXCEPT !.pc = "open", !.saved = ambient, !.used = jobs[i].delta]]
  /\ ambient' = jobs[i].delta
  /\ overlapped' = (overlapped \/ Opened # {})
  /\ UNCHANGED <<atomic, now, docVars, feedback, callVars, faults, crossed>>

\* _update_single() without the atomic command: what it adds is read after get_by_id().
GetCell(i) ==
  /\ ~HasAtomic /\ jobs[i].pc = "open"
  /\ \E c \in jobs[i].ids :
       LET doc == docs[c] IN
       jobs' = [jobs EXCEPT ![i] = [@ EXCEPT
         !.pc = "got", !.used = ambient,
         !.new = [doc EXCEPT !.strength = Min({doc.strength + ambient, SMax}),
                             !.access = @ + 1, !.updated = now,
                             !.state = ComputeState(doc.access + 1, AgeOf(doc, now))]]]
  /\ UNCHANGED <<atomic, now, docVars, feedback, ambient, overlapped, callVars, faults, crossed>>

\* Mutant: the default of the updater stays what the job made it.
KeepsOverride(i) == jobs[i].delta
\* finally: the saved delta is put back.
Restored(i) == jobs[i].saved

\* The command answers; a failure is raised to the runner, which retries or parks the job.
FinishJob(i) ==
  /\ jobs[i].pc = (IF HasAtomic THEN "open" ELSE "got")
  /\ LET job == jobs[i] IN
     \E outcome \in Outcomes, again \in {"queued", "parked"} :
       /\ outcome.ok => again = "queued"
       /\ Suffer(outcome)
       /\ Account(job.ids, outcome)
       /\ docs' = IF ~outcome.done THEN docs
                  ELSE IF HasAtomic
                  THEN AddToAll(docs, job.ids \cap InScope(docs, job.owner), job.used, 1, now)
                  ELSE Updated(docs, CHOOSE c \in job.ids : TRUE, job.new)
       /\ jobs' = [jobs EXCEPT ![i] = [Job(job.ids, job.owner, job.delta) EXCEPT
                                         !.pc = IF outcome.ok THEN "done" ELSE again]]
       /\ ambient' = Restored(i)
  /\ UNCHANGED <<atomic, now, feedback, overlapped, callVars, crossed>>

-----------------------------------------------------------------------------
(* ConsolidationService.consolidate(), ThreePhaseDreaming.run() and DecayManager *)

CallStep == UNCHANGED <<atomic, now, feedback, jobVars, crossed>>
Keep == UNCHANGED docVars

\* What the lock holds once the call leaves it.
Released(k) == 0
\* The rest of the scopes; after the last the lock is released.
NextUser(k, todo) ==
  IF todo # {}
  THEN \E u \in todo :
         /\ call' = [call EXCEPT ![k] = [@ EXCEPT !.pc = "cold", !.user = u, !.todo = todo \ {u},
                                                 !.ids = {}, !.quota = 0]]
         /\ UNCHANGED holder
  ELSE /\ call' = [call EXCEPT ![k] = [NoCall EXCEPT !.pc = "done"]]
       /\ holder' = Released(k)
Goto(k, pc) == call' = [call EXCEPT ![k].pc = pc] /\ UNCHANGED holder

\* Mutant: consolidate() without its lock.
Unlocked(k) == TRUE
\* async with self._call_lock
LockFree(k) == holder = 0

\* The lock is taken, the scopes of this request bound, and run() asks for them.
\* The light phase only reads the store; a failing scope provider leaves no scope.
Start(k) ==
  /\ call[k] = NoCall /\ (\A l \in 1..(k - 1) : call[l] # NoCall) /\ Started < MaxStarted /\ LockFree(k)
  /\ holder' = k
  /\ \E in \in CallInputs, outcome \in Outcomes :
       /\ outcome.done = outcome.ok /\ Suffer(outcome)
       /\ call' = [call EXCEPT ![k] = [@ EXCEPT !.pc = "scopes",
            !.todo = IF in.phase \in {"deep", "rem"} /\ outcome.ok
                     THEN {u \in Users : u.tenant = in.tenant /\ in.user \in {None, u.user}}
                     ELSE {}]]
  /\ CallStep /\ Keep

Scopes(k) ==
  /\ call[k].pc = "scopes" /\ NextUser(k, call[k].todo)
  /\ CallStep /\ Keep /\ UNCHANGED faults

\* run_passive_decay(): find_by_state(COLD); a failure counts as nothing to do.
FindCold(k) ==
  /\ call[k].pc = "cold"
  /\ \E outcome \in Outcomes :
       /\ outcome.done = outcome.ok /\ Suffer(outcome)
       /\ LET old == {c \in FindByState(docs, call[k].user, "COLD") : ShouldArchive(docs[c], now)}
          IN call' = [call EXCEPT ![k] =
               IF outcome.ok /\ old # {} THEN [@ EXCEPT !.pc = "archive", !.ids = old]
               ELSE [@ EXCEPT !.pc = "count"]]
  /\ CallStep /\ Keep /\ UNCHANGED holder

\* enforce_capacity(): count() covers the archived cells.
Count(k) ==
  /\ call[k].pc = "count"
  /\ \E outcome \in Outcomes :
       /\ outcome.done = outcome.ok /\ Suffer(outcome)
       /\ LET total == CountOf(docs, call[k].user)
              live == Cardinality(Live(docs, call[k].user))
          IN IF outcome.ok /\ total > MaxMemories
             THEN /\ call' = [call EXCEPT ![k] = [@ EXCEPT
                       !.pc = "all",
                       !.quota = Min({total - MaxMemories, Max({1, (total * Margin) \div 100})}),
                       !.floor = Min({live, MaxMemories - (total - live)})]]
                  /\ UNCHANGED holder
             ELSE NextUser(k, call[k].todo)
  /\ CallStep /\ Keep

\* find_all(): the cells of lowest score among the live ones it returns.
FindAll(k) ==
  /\ call[k].pc = "all"
  /\ \E outcome \in Outcomes :
       /\ outcome.done = outcome.ok /\ Suffer(outcome)
       /\ IF ~outcome.ok THEN NextUser(k, call[k].todo)
          ELSE \E listed \in Listings(docs, call[k].user, FindLimit) :
                 LET live == {c \in listed : docs[c].state # "ARCHIVED"}
                     n == Min({call[k].quota, Cardinality(live)})
                 IN \E ids \in SUBSET live :
                      /\ Cardinality(ids) = n
                      /\ \A a \in ids, b \in live \ ids :
                           Score(a, docs[a], now) <= Score(b, docs[b], now)
                      /\ IF n = 0 THEN NextUser(k, call[k].todo)
                         ELSE /\ call' = [call EXCEPT ![k] = [@ EXCEPT !.pc = "archive", !.ids = ids]]
                              /\ UNCHANGED holder
  /\ CallStep /\ Keep

\* What follows an archive: capacity after decay, the next user after capacity.
AfterArchive(k) ==
  IF call[k].quota = 0
  THEN /\ call' = [call EXCEPT ![k] = [@ EXCEPT !.pc = "count", !.ids = {}]]
       /\ UNCHANGED holder
  ELSE NextUser(k, call[k].todo)

\* _bulk_archive(): bulk_set_state() by id only; if it fails, one update() per cell.
BulkArchive(k) ==
  /\ call[k].pc = "archive"
  /\ \E outcome \in Outcomes :
       /\ Suffer(outcome)
       /\ docs' = IF outcome.done THEN Archived(docs, call[k].ids, now) ELSE docs
       /\ IF outcome.ok THEN AfterArchive(k) ELSE Goto(k, "each")
  /\ CallStep /\ UNCHANGED <<acked, unacked>>

ArchiveOne(k) ==
  /\ call[k].pc = "each"
  /\ \E c \in call[k].ids, outcome \in Outcomes :
       /\ Suffer(outcome)
       /\ docs' = IF outcome.done THEN Archived(docs, {c}, now) ELSE docs
       /\ IF call[k].ids = {c} THEN AfterArchive(k)
          ELSE call' = [call EXCEPT ![k].ids = @ \ {c}] /\ UNCHANGED holder
  /\ CallStep /\ UNCHANGED <<acked, unacked>>

-----------------------------------------------------------------------------
FeedbackSteps == \E f \in 1..Feedbacks : ReadCell(f) \/ ApplyFeedback(f)
HitSteps ==
  \/ \E owner \in Users, ids \in SUBSET Cells, delta \in Deltas : SubmitHit(owner, ids, delta)
  \/ \E i \in DOMAIN jobs : OpenJob(i) \/ GetCell(i) \/ FinishJob(i)
\* The route awaits all of it.
Serve(k) ==
  Scopes(k) \/ FindCold(k) \/ Count(k) \/ FindAll(k) \/ BulkArchive(k) \/ ArchiveOne(k)

Next ==
  \/ Tick \/ \E c \in Cells : Ingest(c)
  \/ FeedbackSteps \/ HitSteps
  \/ \E k \in 1..Calls : Start(k) \/ Serve(k)

Spec == Init /\ [][Next]_vars

-----------------------------------------------------------------------------
(* Properties *)

FeedbackState ==
  [pc : {"idle", "invalid", "absent", "ok", "error"}]
    \cup [pc : {"apply"}, cell : Cells, positive : BOOLEAN, seen : Doc, new : Int]
JobState == [pc : {"queued", "open", "got", "done", "parked"}, ids : SUBSET Cells, owner : Users,
             delta : Deltas, saved : Deltas, used : Deltas, new : Doc \cup {Absent}]
CallState ==
  [pc : {"idle", "scopes", "cold", "count", "all", "archive", "each", "done"},
   todo : SUBSET Users, user : Users \cup {Unscoped}, ids : SUBSET Cells, quota : Nat, floor : Int]

\* Every variable keeps its type.
TypeOK ==
  /\ atomic \in BOOLEAN /\ now \in 0..MaxNow /\ docs \in [Cells -> Doc \cup {Absent}]
  /\ feedback \in [1..Feedbacks -> FeedbackState]
  /\ jobs \in Seq(JobState) /\ Len(jobs) <= MaxJobs /\ ambient \in Deltas
  /\ call \in [1..Calls -> CallState] /\ holder \in 0..Calls
  /\ faults \in 0..MaxFaults /\ crossed \subseteq Cells /\ overlapped \in BOOLEAN
  /\ acked \in [Cells -> Nat] /\ unacked \in [Cells -> Nat]

\* With the atomic command the access count of a cell is exactly what was
\* confirmed to feedback and hits, and what was applied although the answer
\* was lost (the job is then repeated): concurrent requests for a cell lose
\* nothing (services.py:336, lifecycle.py:280).
CountsAccounted ==
  atomic => \A c \in Stored(docs) : docs[c].access = acked[c] + unacked[c]

\* Strength stays in 0..SMax, and leaves it only downwards and only after a
\* feedback was applied to a strength it had not seen (mongo_repo.py:288).
StrengthInRange ==
  \A c \in Stored(docs) : docs[c].strength <= SMax /\ (docs[c].strength < 0 => c \in crossed)

\* Strength is never negative (internal_models.py:163): what the code does not keep.
StrengthNotNegative == \A c \in Stored(docs) : docs[c].strength >= 0

\* Enforcing the capacity of a user leaves at least what the limit and the
\* archived cells it counts leave room for, whatever ran meanwhile: no two calls
\* both archive their share of one overflow (decay.py:141, services.py:441).
CapacitySpares ==
  [][\A k \in 1..Calls :
       atomic /\ call[k].pc \in {"archive", "each"} /\ call[k].quota # 0 /\ call'[k] # call[k]
         => Cardinality(Live(docs', call[k].user)) >= call[k].floor]_vars

\* The updater's strength_delta differs from its default outside a job, or a
\* job adds another job's delta, only after two jobs were open at once (lifecycle.py:376).
DriftHasCause ==
  \/ overlapped
  \/ /\ Opened = {} => ambient = Default
     /\ \A i \in Opened : jobs[i].used = jobs[i].delta

=============================================================================
