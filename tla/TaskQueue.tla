------------------------------ MODULE TaskQueue ------------------------------
(***************************************************************************)
(* ArqTaskRunner (task_queue/arq_runner.py) over Redis: a process submits  *)
(* tasks from detached coroutines, workers claim the jobs and run their    *)
(* handlers with retries, and a task that exhausts them is parked in the   *)
(* dead letter queue.  arq itself is modelled from how it is configured    *)
(* here: one try per job, an in-progress key with a time to live, nothing  *)
(* kept of a finished job.                                                 *)
(***************************************************************************)
EXTENDS Naturals, FiniteSets

CONSTANTS
  Tasks,      \* calls of submit_handler()
  Bulk,       \* those that are lifecycle updates of one size: they share an id
  Workers,    \* processes that called start()
  MaxJobs,    \* max_jobs of a worker
  MaxFaults,  \* bound on errors, timeouts, crashes and stops
  None

ASSUME TasksAssumption == Bulk \subseteq Tasks /\ IsFiniteSet(Tasks)
ASSUME LimitsAssumption == MaxJobs \in Nat \ {0} /\ MaxFaults \in Nat
ASSUME NoneAssumption == None \notin Workers

VARIABLES
  api,       \* the submitting process: "open" or "closed"
  place,     \* where a task is: "new", "sending", "redis" or "over"
  tries,     \* the retry counter of a task's job: 0, 1, or 2 for more
  holder,    \* the worker named by its in-progress key
  run,       \* what each worker does with each task
  state,     \* each worker: "up", "closing" or "down"
  executed,  \* tasks whose handler returned
  parked,    \* tasks with a record in the dead letter queue
  starts,    \* how often a task's handler was started
  cause,     \* what kept a task from being executed or parked
  faults

job == <<tries, holder>>
worker == <<run, state>>
outcome == <<executed, parked, starts>>
vars == <<api, place, job, worker, outcome, cause, faults>>

Init ==
  /\ api = "open"
  /\ place = [t \in Tasks |-> "new"]
  /\ tries = [t \in Tasks |-> 0]
  /\ holder = [t \in Tasks |-> None]
  /\ run = [w \in Workers |-> [t \in Tasks |-> "none"]]
  /\ state = [w \in Workers |-> "up"]
  /\ executed = {} /\ parked = {}
  /\ starts = [t \in Tasks |-> 0]
  /\ cause = [t \in Tasks |-> "none"]
  /\ faults = 0

Fault == faults < MaxFaults /\ faults' = faults + 1
Go(t, p) == place' = [place EXCEPT ![t] = p]
Run(w, t, r) == run' = [run EXCEPT ![w][t] = r]
Blame(t, c) == cause' = [cause EXCEPT ![t] = c]

-----------------------------------------------------------------------------
(* submit_handler() *)

\* A coroutine is detached to enqueue the job; the caller goes on.
Submit(t) ==
  /\ api = "open" /\ place[t] = "new"
  /\ Go(t, "sending")
  /\ UNCHANGED <<api, job, worker, outcome, cause, faults>>

SameId(t, u) == t = u \/ {t, u} \subseteq Bulk

\* enqueue_job: Redis drops a job whose id it holds.
Enqueue(t) ==
  /\ place[t] = "sending"
  /\ IF \E u \in Tasks : SameId(t, u) /\ place[u] = "redis"
       THEN Go(t, "over") /\ Blame(t, "duplicate")
       ELSE Go(t, "redis") /\ UNCHANGED cause
  /\ UNCHANGED <<api, job, worker, outcome, faults>>

\* enqueue_job raises into the detached coroutine, which nobody awaits.
EnqueueRaises(t) ==
  /\ place[t] = "sending" /\ Fault
  /\ Go(t, "over") /\ Blame(t, "unsent")
  /\ UNCHANGED <<api, job, worker, outcome>>

\* The process stops; shutdown() does not wait for detached coroutines.
Stop ==
  /\ api = "open"
  /\ api' = "closed"
  /\ place' = [t \in Tasks |-> IF place[t] = "sending" THEN "over" ELSE place[t]]
  /\ cause' = [t \in Tasks |-> IF place[t] = "sending" THEN "unsent" ELSE cause[t]]
  /\ UNCHANGED <<job, worker, outcome, faults>>

-----------------------------------------------------------------------------
(* A worker *)

Busy(w) == {t \in Tasks : run[w][t] # "none"}

\* A worker with a free slot sets the in-progress key of a job that has none.
Claim(w, t) ==
  /\ state[w] = "up" /\ Cardinality(Busy(w)) < MaxJobs
  /\ place[t] = "redis" /\ holder[t] = None
  /\ holder' = [holder EXCEPT ![t] = w]
  /\ Run(w, t, "claimed")
  /\ UNCHANGED <<api, place, tries, state, outcome, cause, faults>>

Counted(n) == IF n = 0 THEN 1 ELSE 2

\* Mutant: a second try is granted.
BeginAgain(w, t) ==
  /\ run[w][t] = "claimed" /\ state[w] = "up" /\ tries[t] <= 1
  /\ tries' = [tries EXCEPT ![t] = Counted(@)]
  /\ starts' = [starts EXCEPT ![t] = @ + 1]
  /\ Run(w, t, "executing")
  /\ UNCHANGED <<api, place, holder, state, executed, parked, cause, faults>>

\* The first try of the job: its handler is started.
Begin(w, t) ==
  /\ run[w][t] = "claimed" /\ state[w] = "up" /\ tries[t] = 0
  /\ tries' = [tries EXCEPT ![t] = Counted(@)]
  /\ starts' = [starts EXCEPT ![t] = @ + 1]
  /\ Run(w, t, "executing")
  /\ UNCHANGED <<api, place, holder, state, executed, parked, cause, faults>>

\* Mutant: a job without a try left is put back.
PutBack(w, t) ==
  /\ run[w][t] = "claimed" /\ state[w] = "up" /\ tries[t] > 0
  /\ holder' = [holder EXCEPT ![t] = None]
  /\ Run(w, t, "none")
  /\ UNCHANGED <<api, place, tries, state, outcome, cause, faults>>

\* A later try is more than max_tries = 1: the job is discarded unexecuted.
Discard(w, t) ==
  /\ run[w][t] = "claimed" /\ state[w] = "up" /\ tries[t] > 0
  /\ tries' = [tries EXCEPT ![t] = Counted(@)]
  /\ Run(w, t, "finishing")
  /\ UNCHANGED <<api, place, holder, state, outcome, cause, faults>>

\* run_with_retry came to SUCCESS.
Succeed(w, t) ==
  /\ run[w][t] = "executing"
  /\ executed' = executed \cup {t}
  /\ Run(w, t, "finishing")
  /\ UNCHANGED <<api, place, job, state, parked, starts, cause, faults>>

\* Mutant: a task that used up its attempts is only logged.
ExhaustLogged(w, t) ==
  /\ run[w][t] = "executing"
  /\ Run(w, t, "finishing")
  /\ UNCHANGED <<api, place, job, state, outcome, cause, faults>>

\* The attempts are used up, or no handler has the task's name.
Exhaust(w, t) ==
  /\ run[w][t] = "executing"
  /\ Run(w, t, "parking")
  /\ UNCHANGED <<api, place, job, state, outcome, cause, faults>>

Park(w, t) ==
  /\ run[w][t] = "parking"
  /\ parked' = parked \cup {t}
  /\ Run(w, t, "finishing")
  /\ UNCHANGED <<api, place, job, state, executed, starts, cause, faults>>

\* The queue raises or there is none: _execute raises, and arq removes the job
\* as it does every failed one.
ParkFails(w, t) ==
  /\ run[w][t] = "parking" /\ Fault
  /\ Run(w, t, "finishing")
  /\ Blame(t, "unparked")
  /\ UNCHANGED <<api, place, job, state, outcome>>

\* The job's timeout cancels it, and arq counts that as a failure.  A park under
\* way may have reached the queue.
TimeOut(w, t) ==
  /\ run[w][t] \in {"executing", "parking"} /\ Fault
  /\ Run(w, t, "finishing")
  /\ Blame(t, "timeout")
  /\ \/ UNCHANGED parked
     \/ run[w][t] = "parking" /\ parked' = parked \cup {t}
  /\ UNCHANGED <<api, place, job, state, executed, starts>>

\* finish_job: the job and its keys are deleted.
Finish(w, t) ==
  /\ run[w][t] = "finishing"
  /\ Go(t, "over")
  /\ tries' = [tries EXCEPT ![t] = 0]
  /\ holder' = [holder EXCEPT ![t] = None]
  /\ Run(w, t, "none")
  /\ UNCHANGED <<api, state, outcome, cause, faults>>

\* The in-progress key outlives the longest job: it expires when no worker runs it.
Expire(t) ==
  /\ holder[t] # None /\ run[holder[t]][t] = "none"
  /\ holder' = [holder EXCEPT ![t] = None]
  /\ UNCHANGED <<api, place, tries, worker, outcome, cause, faults>>

-----------------------------------------------------------------------------
(* shutdown() and crashes *)

Doing(w, r) == {t \in Tasks : run[w][t] \in r}

\* What a worker leaves: a claimed job before or after its try was counted, a
\* park under way before or after it reached the queue.
Interrupt(w, c) ==
  \E counted \in SUBSET Doing(w, {"claimed"}), recorded \in SUBSET Doing(w, {"parking"}) :
    /\ tries' = [t \in Tasks |-> IF t \in counted THEN Counted(tries[t]) ELSE tries[t]]
    /\ parked' = parked \cup recorded
    /\ cause' = [t \in Tasks |-> IF t \in counted \cup Doing(w, {"executing", "parking"})
                                   THEN c ELSE cause[t]]

\* Worker.close() cancels what runs.
Close(w) ==
  /\ state[w] = "up" /\ Fault
  /\ state' = [state EXCEPT ![w] = "closing"]
  /\ Interrupt(w, "stopped")
  /\ run' = [run EXCEPT ![w] = [t \in Tasks |->
               IF @[t] = "claimed" THEN "none"
               ELSE IF @[t] \in {"executing", "parking"} THEN "cancelled" ELSE @[t]]]
  /\ UNCHANGED <<api, place, holder, executed, starts>>

\* A cancelled job is to "be run again": its in-progress key is deleted.
Release(w, t) ==
  /\ run[w][t] = "cancelled"
  /\ holder' = [holder EXCEPT ![t] = None]
  /\ Run(w, t, "none")
  /\ UNCHANGED <<api, place, tries, state, outcome, cause, faults>>

Closed(w) ==
  /\ state[w] = "closing" /\ Busy(w) = {}
  /\ state' = [state EXCEPT ![w] = "down"]
  /\ UNCHANGED <<api, place, job, run, outcome, cause, faults>>

\* The process dies, or shutdown()'s timeout is over.
Crash(w) ==
  /\ state[w] # "down" /\ Fault
  /\ state' = [state EXCEPT ![w] = "down"]
  /\ run' = [run EXCEPT ![w] = [t \in Tasks |-> "none"]]
  /\ Interrupt(w, "crashed")
  /\ UNCHANGED <<api, place, holder, executed, starts>>

Restart(w) ==
  /\ state[w] = "down"
  /\ state' = [state EXCEPT ![w] = "up"]
  /\ UNCHANGED <<api, place, job, run, outcome, cause, faults>>

-----------------------------------------------------------------------------
Work(w, t) == \/ Begin(w, t) \/ Discard(w, t) \/ Succeed(w, t) \/ Exhaust(w, t)
              \/ Park(w, t) \/ Finish(w, t) \/ Release(w, t)

Next ==
  \/ \E t \in Tasks : Submit(t) \/ Enqueue(t) \/ EnqueueRaises(t) \/ Expire(t)
  \/ \E w \in Workers, t \in Tasks : Claim(w, t) \/ Work(w, t) \/ ParkFails(w, t) \/ TimeOut(w, t)
  \/ \E w \in Workers : Close(w) \/ Closed(w) \/ Crash(w) \/ Restart(w)
  \/ Stop

Spec == Init /\ [][Next]_vars

\* Workers are restarted, poll for jobs and resume what they run, handlers end,
\* and keys expire.
Fairness ==
  /\ \A t \in Tasks : WF_vars(Expire(t)) /\ WF_vars(\E w \in Workers : Claim(w, t))
  /\ \A w \in Workers :
       /\ \A t \in Tasks : WF_vars(Work(w, t))
       /\ WF_vars(Closed(w)) /\ WF_vars(Restart(w))

FairSpec == Spec /\ Fairness

-----------------------------------------------------------------------------
(* Properties *)

Runs == {"none", "claimed", "executing", "parking", "cancelled", "finishing"}
Causes == {"none", "duplicate", "unsent", "unparked", "timeout", "stopped", "crashed"}

\* Every variable has its type, and a job that is over left no keys in Redis.
TypeOK ==
  /\ api \in {"open", "closed"}
  /\ place \in [Tasks -> {"new", "sending", "redis", "over"}]
  /\ tries \in [Tasks -> 0..2]
  /\ holder \in [Tasks -> Workers \cup {None}]
  /\ run \in [Workers -> [Tasks -> Runs]]
  /\ state \in [Workers -> {"up", "closing", "down"}]
  /\ executed \subseteq Tasks /\ parked \subseteq Tasks
  /\ starts \in [Tasks -> Nat]
  /\ cause \in [Tasks -> Causes]
  /\ faults \in 0..MaxFaults
  /\ \A t \in Tasks : place[t] = "over" => tries[t] = 0 /\ holder[t] = None

\* Workers compete, crash and come back, and keys expire, but never do two of
\* them work on one job, nor on two jobs of one id.
OneRunner ==
  \A v, w \in Workers : \A t \in Busy(v), u \in Busy(w) :
    SameId(t, u) => v = w /\ t = u

\* A handler is started once per task at most: neither a crash, nor an expired
\* key, nor a job that was put back makes another worker run it again.
StartedOnce == \A t \in Tasks : starts[t] <= 1

\* A task is not over unless its handler returned, it was parked, or one of the
\* named causes kept it from both.
NothingVanishes ==
  \A t \in Tasks : place[t] = "over" => t \in executed \cup parked \/ cause[t] # "none"

\* Every job leaves Redis.
JobsLeave == \A t \in Tasks : place[t] = "redis" ~> place[t] = "over"

\* "arq is responsible for persistence, competing workers and crash recovery":
\* a job whose worker crashed is executed or parked after all.
CrashRecovered ==
  \A t \in Tasks :
    place[t] = "over" /\ cause[t] = "crashed" => t \in executed \cup parked
=============================================================================
