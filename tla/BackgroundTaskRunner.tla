------------------------ MODULE BackgroundTaskRunner ------------------------
(***************************************************************************)
(* BackgroundTaskRunner (background.py) with run_with_retry                *)
(* (task_queue/retry.py): fire-and-forget tasks share a semaphore that is  *)
(* held during an attempt and free during its back-off; a task that used   *)
(* up its attempts is parked in the DLQ; shutdown waits for the tasks and  *)
(* then cancels what is left.                                              *)
(***************************************************************************)
EXTENDS Integers, FiniteSets

CONSTANTS
  Tasks,
  MaxConcurrent,  \* settings.background_max_concurrent
  MaxAttempts     \* RetryPolicy.max_attempts

ASSUME TaskAssumption == IsFiniteSet(Tasks)
ASSUME BoundAssumption == MaxConcurrent \in Nat \ {0} /\ MaxAttempts \in Nat \ {0}

VARIABLES
  state,      \* where each task is
  attempts,   \* attempts each task has begun
  permits,    \* the semaphore's free permits
  parked,     \* tasks with a record in the DLQ
  submitted, completed, failed,   \* the counters; failed is _failed_to_dlq
  phase       \* "open", "draining", "cancelling" or "closed"

counters == <<submitted, completed, failed>>
vars == <<state, attempts, permits, parked, counters, phase>>

LiveStates == {"waiting", "running", "backoff", "parking"}
In(s) == {t \in Tasks : state[t] = s}

\* The tasks of self._tasks that have not ended; the done callback discards an
\* ended one a turn of the event loop later.
Live == {t \in Tasks : state[t] \in LiveStates}

Init ==
  /\ state = [t \in Tasks |-> "new"]
  /\ attempts = [t \in Tasks |-> 0]
  /\ permits = MaxConcurrent
  /\ parked = {}
  /\ submitted = 0 /\ completed = 0 /\ failed = 0
  /\ phase = "open"

Move(t, s) == state' = [state EXCEPT ![t] = s]

-----------------------------------------------------------------------------
\* submit raises once the runner is closed.
Submit(t) ==
  /\ state[t] = "new"
  /\ phase = "open"
  /\ Move(t, "waiting")
  /\ submitted' = submitted + 1
  /\ UNCHANGED <<attempts, permits, parked, completed, failed, phase>>

\* Each attempt waits for a permit.
Acquire(t) ==
  /\ state[t] = "waiting"
  /\ permits > 0
  /\ permits' = permits - 1
  /\ attempts' = [attempts EXCEPT ![t] = @ + 1]
  /\ Move(t, "running")
  /\ UNCHANGED <<parked, counters, phase>>

Succeed(t) ==
  /\ state[t] = "running"
  /\ permits' = permits + 1
  /\ completed' = completed + 1
  /\ Move(t, "finished")
  /\ UNCHANGED <<attempts, parked, submitted, failed, phase>>

\* Mutant: the permit comes back only when an attempt succeeds.
RaiseHolding(t) ==
  /\ state[t] = "running"
  /\ Move(t, IF attempts[t] < MaxAttempts THEN "backoff" ELSE "parking")
  /\ UNCHANGED <<attempts, permits, parked, counters, phase>>

\* stop_after_attempt(max_attempts); the permit comes back in the finally.
Raise(t) ==
  /\ state[t] = "running"
  /\ permits' = permits + 1
  /\ Move(t, IF attempts[t] < MaxAttempts THEN "backoff" ELSE "parking")
  /\ UNCHANGED <<attempts, parked, counters, phase>>

\* wait_exponential is over.
Wake(t) ==
  /\ state[t] = "backoff"
  /\ Move(t, "waiting")
  /\ UNCHANGED <<attempts, permits, parked, counters, phase>>

\* enqueue_task_dlq; DLQ_FAILED is counted like DLQ_OK, whether the DLQ raised
\* before or after it stored the record.
Park(t) ==
  /\ state[t] = "parking"
  /\ parked' \in {parked, parked \cup {t}}
  /\ failed' = failed + 1
  /\ Move(t, "finished")
  /\ UNCHANGED <<attempts, permits, submitted, completed, phase>>

-----------------------------------------------------------------------------
\* shutdown: closed at once, then a wait for the tasks.
Shutdown ==
  /\ phase = "open"
  /\ phase' = IF Live = {} THEN "closed" ELSE "draining"
  /\ UNCHANGED <<state, attempts, permits, parked, counters>>

\* wait_for runs into timeout_s and every unfinished task is cancelled.
ShutdownTimeout ==
  /\ phase = "draining" /\ Live # {}
  /\ phase' = "cancelling"
  /\ UNCHANGED <<state, attempts, permits, parked, counters>>

\* Mutant: cancelling an attempt loses its permit.
CancelHolding(t) ==
  /\ phase = "cancelling"
  /\ state[t] \in LiveStates
  /\ Move(t, "cancelled")
  /\ UNCHANGED <<attempts, permits, parked, counters, phase>>

\* CancelledError is raised at the task's await: an attempt gives its permit
\* back, nothing is counted, and a task that was being parked may or may not be.
Cancel(t) ==
  /\ phase = "cancelling"
  /\ state[t] \in LiveStates
  /\ permits' = IF state[t] = "running" THEN permits + 1 ELSE permits
  /\ parked' \in {parked, IF state[t] = "parking" THEN parked \cup {t} ELSE parked}
  /\ Move(t, "cancelled")
  /\ UNCHANGED <<attempts, counters, phase>>

\* The gather returns: shutdown is done.
Drained ==
  /\ phase \in {"draining", "cancelling"} /\ Live = {}
  /\ phase' = "closed"
  /\ UNCHANGED <<state, attempts, permits, parked, counters>>

-----------------------------------------------------------------------------
\* Once cancelled, a task runs no further.
Run(t) == \/ Acquire(t) \/ Succeed(t) \/ Raise(t) \/ Wake(t) \/ Park(t)

Next ==
  \/ \E t \in Tasks : Submit(t) \/ Cancel(t)
  \/ \E t \in Tasks : phase # "cancelling" /\ Run(t)
  \/ Shutdown \/ ShutdownTimeout \/ Drained

Spec == Init /\ [][Next]_vars

\* Attempts end, back-offs end, and the loop runs what is ready.  The timeout
\* needs no fairness: the tasks may drain first.
Fairness ==
  /\ \A t \in Tasks : WF_vars(phase # "cancelling" /\ Run(t)) /\ WF_vars(Cancel(t))
  /\ WF_vars(Drained)

FairSpec == Spec /\ Fairness

-----------------------------------------------------------------------------
(* Properties *)

\* Every variable has its type, and no task begins more than MaxAttempts.
TypeOK ==
  /\ state \in [Tasks -> LiveStates \cup {"new", "finished", "cancelled"}]
  /\ attempts \in [Tasks -> 0..MaxAttempts]
  /\ permits \in 0..MaxConcurrent
  /\ parked \subseteq Tasks
  /\ submitted \in Nat /\ completed \in Nat /\ failed \in Nat
  /\ phase \in {"open", "draining", "cancelling", "closed"}

\* A permit is taken by a running attempt or free: neither a failure, nor a
\* back-off, nor a cancellation leaks one.
PermitsBalance == permits + Cardinality(In("running")) = MaxConcurrent

\* The counters account for every submitted task once: it has not ended, it
\* completed, it failed, or shutdown cancelled it.
CountersBalance ==
  submitted = completed + failed + Cardinality(Live) + Cardinality(In("cancelled"))

\* After shutdown returns no task is left that could touch a closed client.
ClosedIsQuiet == phase = "closed" => Live = {}

\* A shutdown returns: it waits for no task for ever, whether the task is in
\* back-off, waits for a permit, or ignores the timeout until it is cancelled.
ShutdownReturns == phase = "draining" ~> phase = "closed"
=============================================================================
