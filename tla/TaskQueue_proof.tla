--------------------------- MODULE TaskQueue_proof ---------------------------
(***************************************************************************)
(* Proofs about TaskQueue for any set of tasks, workers, slots and faults. *)
(* The inductive invariant says why an in-progress key and one counted try *)
(* are enough: a worker works only on a job whose key names it, a job's    *)
(* keys go with it, and a task with a counted try is running, accounted    *)
(* for, or over.                                                           *)
(***************************************************************************)
EXTENDS TaskQueue, TLAPS

\* Keys exist only for the jobs Redis holds.
KeysOfJobs == \A t \in Tasks : place[t] # "redis" => tries[t] = 0 /\ holder[t] = None

\* A worker works on a job of Redis whose in-progress key names it.
Held ==
  \A w \in Workers, t \in Tasks :
    run[w][t] # "none" => holder[t] = w /\ place[t] = "redis"

Base == TypeOK /\ KeysOfJobs /\ Held

\* Nothing is in Redis at first.
LEMMA BaseInit == Init => Base
  BY NoneAssumption, LimitsAssumption DEF Init, Base, TypeOK, KeysOfJobs, Held, Runs, Causes

\* No step of arq or of a worker leaves a key or a run without its job.
LEMMA BaseStep == Base /\ [Next]_vars => Base'
<1> SUFFICES ASSUME Base, [Next]_vars PROVE Base'
  OBVIOUS
<1> USE NoneAssumption, LimitsAssumption
<1> USE DEF Base, TypeOK, KeysOfJobs, Held, Runs, Causes, job, worker, outcome
<1>1. ASSUME NEW t \in Tasks, Submit(t) PROVE Base'
  BY <1>1 DEF Submit, Go
<1>2. ASSUME NEW t \in Tasks, Enqueue(t) PROVE Base'
  BY <1>2 DEF Enqueue, Go, Blame, SameId
<1>3. ASSUME NEW t \in Tasks, EnqueueRaises(t) PROVE Base'
  BY <1>3 DEF EnqueueRaises, Fault, Go, Blame
<1>4. ASSUME NEW t \in Tasks, Expire(t) PROVE Base'
  BY <1>4 DEF Expire
<1>5. ASSUME NEW w \in Workers, NEW t \in Tasks, Claim(w, t) PROVE Base'
  BY <1>5 DEF Claim, Run
<1>6. ASSUME NEW w \in Workers, NEW t \in Tasks, Begin(w, t) PROVE Base'
  BY <1>6 DEF Begin, Run, Counted
<1>7. ASSUME NEW w \in Workers, NEW t \in Tasks, Discard(w, t) PROVE Base'
  BY <1>7 DEF Discard, Run, Counted
<1>8. ASSUME NEW w \in Workers, NEW t \in Tasks, Succeed(w, t) PROVE Base'
  BY <1>8 DEF Succeed, Run
<1>9. ASSUME NEW w \in Workers, NEW t \in Tasks, Exhaust(w, t) PROVE Base'
  BY <1>9 DEF Exhaust, Run
<1>10. ASSUME NEW w \in Workers, NEW t \in Tasks, Park(w, t) PROVE Base'
  BY <1>10 DEF Park, Run
<1>11. ASSUME NEW w \in Workers, NEW t \in Tasks, Finish(w, t) PROVE Base'
  BY <1>11 DEF Finish, Go, Run
<1>12. ASSUME NEW w \in Workers, NEW t \in Tasks, Release(w, t) PROVE Base'
  BY <1>12 DEF Release, Run
<1>13. ASSUME NEW w \in Workers, NEW t \in Tasks, ParkFails(w, t) PROVE Base'
  BY <1>13 DEF ParkFails, Fault, Run, Blame
<1>14. ASSUME NEW w \in Workers, NEW t \in Tasks, TimeOut(w, t) PROVE Base'
  BY <1>14 DEF TimeOut, Fault, Run, Blame
<1>15. ASSUME NEW w \in Workers, Close(w) PROVE Base'
  BY <1>15 DEF Close, Fault, Interrupt, Doing, Counted
<1>16. ASSUME NEW w \in Workers, Closed(w) PROVE Base'
  BY <1>16 DEF Closed
<1>17. ASSUME NEW w \in Workers, Crash(w) PROVE Base'
  BY <1>17 DEF Crash, Fault, Interrupt, Doing, Counted
<1>18. ASSUME NEW w \in Workers, Restart(w) PROVE Base'
  BY <1>18 DEF Restart
<1>19. CASE Stop
  BY <1>19 DEF Stop
<1>20. CASE UNCHANGED vars
  BY <1>20 DEF vars
<1> QED BY <1>1, <1>2, <1>3, <1>4, <1>5, <1>6, <1>7, <1>8, <1>9, <1>10,
           <1>11, <1>12, <1>13, <1>14, <1>15, <1>16, <1>17, <1>18, <1>19, <1>20 DEF Next, Work

\* Every variable has its type, and a job that is over left no keys, in every
\* reachable state.
THEOREM TypeCorrect == Spec => []TypeOK
<1>1. Base => TypeOK
  BY DEF Base
<1> QED BY BaseInit, BaseStep, <1>1, PTL DEF Spec

-----------------------------------------------------------------------------
\* Redis holds one job of an id.
OneJob ==
  \A t, u \in Tasks :
    SameId(t, u) /\ place[t] = "redis" /\ place[u] = "redis" => t = u

\* Redis never takes a second job of an id: the enqueue looks the id up.
LEMMA OneJobStep == Base /\ OneJob /\ [Next]_vars => OneJob'
<1> SUFFICES ASSUME Base, OneJob, [Next]_vars PROVE OneJob'
  OBVIOUS
<1> USE DEF Base, TypeOK, OneJob, SameId, job, worker, outcome
<1>1. ASSUME NEW t \in Tasks, Submit(t) PROVE OneJob'
  BY <1>1 DEF Submit, Go
<1>2. ASSUME NEW t \in Tasks, Enqueue(t) PROVE OneJob'
  BY <1>2 DEF Enqueue, Go, Blame, SameId
<1>3. ASSUME NEW t \in Tasks, EnqueueRaises(t) PROVE OneJob'
  BY <1>3 DEF EnqueueRaises, Fault, Go, Blame
<1>4. ASSUME NEW t \in Tasks, Expire(t) PROVE OneJob'
  BY <1>4 DEF Expire
<1>5. ASSUME NEW w \in Workers, NEW t \in Tasks, Claim(w, t) PROVE OneJob'
  BY <1>5 DEF Claim, Run
<1>6. ASSUME NEW w \in Workers, NEW t \in Tasks, Begin(w, t) PROVE OneJob'
  BY <1>6 DEF Begin, Run, Counted
<1>7. ASSUME NEW w \in Workers, NEW t \in Tasks, Discard(w, t) PROVE OneJob'
  BY <1>7 DEF Discard, Run, Counted
<1>8. ASSUME NEW w \in Workers, NEW t \in Tasks, Succeed(w, t) PROVE OneJob'
  BY <1>8 DEF Succeed, Run
<1>9. ASSUME NEW w \in Workers, NEW t \in Tasks, Exhaust(w, t) PROVE OneJob'
  BY <1>9 DEF Exhaust, Run
<1>10. ASSUME NEW w \in Workers, NEW t \in Tasks, Park(w, t) PROVE OneJob'
  BY <1>10 DEF Park, Run
<1>11. ASSUME NEW w \in Workers, NEW t \in Tasks, Finish(w, t) PROVE OneJob'
  BY <1>11 DEF Finish, Go, Run
<1>12. ASSUME NEW w \in Workers, NEW t \in Tasks, Release(w, t) PROVE OneJob'
  BY <1>12 DEF Release, Run
<1>13. ASSUME NEW w \in Workers, NEW t \in Tasks, ParkFails(w, t) PROVE OneJob'
  BY <1>13 DEF ParkFails, Fault, Run, Blame
<1>14. ASSUME NEW w \in Workers, NEW t \in Tasks, TimeOut(w, t) PROVE OneJob'
  BY <1>14 DEF TimeOut, Fault, Run, Blame
<1>15. ASSUME NEW w \in Workers, Close(w) PROVE OneJob'
  BY <1>15 DEF Close, Fault, Interrupt, Doing, Counted
<1>16. ASSUME NEW w \in Workers, Closed(w) PROVE OneJob'
  BY <1>16 DEF Closed
<1>17. ASSUME NEW w \in Workers, Crash(w) PROVE OneJob'
  BY <1>17 DEF Crash, Fault, Interrupt, Doing, Counted
<1>18. ASSUME NEW w \in Workers, Restart(w) PROVE OneJob'
  BY <1>18 DEF Restart
<1>19. CASE Stop
  BY <1>19 DEF Stop
<1>20. CASE UNCHANGED vars
  BY <1>20 DEF vars
<1> QED BY <1>1, <1>2, <1>3, <1>4, <1>5, <1>6, <1>7, <1>8, <1>9, <1>10,
           <1>11, <1>12, <1>13, <1>14, <1>15, <1>16, <1>17, <1>18, <1>19, <1>20 DEF Next, Work

\* However workers compete, crash and come back, and keys expire, two of them
\* never work on one job, nor on two jobs of one id.
THEOREM OneRunnerHolds == Spec => []OneRunner
<1>1. Init => OneJob
  BY DEF Init, OneJob
<1>2. Base /\ OneJob => OneRunner
  <2> SUFFICES ASSUME Base, OneJob,
                      NEW v \in Workers, NEW w \in Workers,
                      NEW t \in Busy(v), NEW u \in Busy(w), SameId(t, u)
               PROVE  v = w /\ t = u
    BY DEF OneRunner
  <2>1. holder[t] = v /\ place[t] = "redis" /\ holder[u] = w /\ place[u] = "redis"
    BY DEF Base, Held, Busy
  <2>2. t = u
    BY <2>1 DEF OneJob, Busy
  <2> QED BY <2>1, <2>2
<1> QED BY BaseInit, BaseStep, OneJobStep, <1>1, <1>2, PTL DEF Spec

-----------------------------------------------------------------------------
\* The first start of a handler is counted, and the count goes only with the job.
StartsCounted ==
  \A t \in Tasks :
    /\ starts[t] <= 1
    /\ starts[t] = 1 => tries[t] > 0 \/ place[t] = "over"

\* A start is counted before the handler runs, and the count outlives the keys.
LEMMA StartsStep == Base /\ StartsCounted /\ [Next]_vars => StartsCounted'
<1> SUFFICES ASSUME Base, StartsCounted, [Next]_vars PROVE StartsCounted'
  OBVIOUS
<1> USE DEF Base, TypeOK, Held, KeysOfJobs, StartsCounted, job, worker, outcome
<1>1. ASSUME NEW t \in Tasks, Submit(t) PROVE StartsCounted'
  BY <1>1 DEF Submit, Go
<1>2. ASSUME NEW t \in Tasks, Enqueue(t) PROVE StartsCounted'
  BY <1>2 DEF Enqueue, Go, Blame, SameId
<1>3. ASSUME NEW t \in Tasks, EnqueueRaises(t) PROVE StartsCounted'
  BY <1>3 DEF EnqueueRaises, Fault, Go, Blame
<1>4. ASSUME NEW t \in Tasks, Expire(t) PROVE StartsCounted'
  BY <1>4 DEF Expire
<1>5. ASSUME NEW w \in Workers, NEW t \in Tasks, Claim(w, t) PROVE StartsCounted'
  BY <1>5 DEF Claim, Run
<1>6. ASSUME NEW w \in Workers, NEW t \in Tasks, Begin(w, t) PROVE StartsCounted'
  <2>1. starts[t] = 0
    <3>1. tries[t] = 0 /\ place[t] = "redis"
      BY <1>6 DEF Begin
    <3>2. starts[t] # 1 /\ starts[t] <= 1
      BY <3>1
    <3>3. starts[t] \in Nat
      OBVIOUS
    <3>4. \A n \in Nat : n # 1 /\ n <= 1 => n = 0
      OBVIOUS
    <3> QED BY <3>2, <3>3, <3>4
  <2>2. tries' = [tries EXCEPT ![t] = 1] /\ starts' = [starts EXCEPT ![t] = 1] /\ place' = place
    BY <1>6, <2>1 DEF Begin, Counted
  <2> QED BY <2>2
<1>7. ASSUME NEW w \in Workers, NEW t \in Tasks, Discard(w, t) PROVE StartsCounted'
  BY <1>7 DEF Discard, Run, Counted
<1>8. ASSUME NEW w \in Workers, NEW t \in Tasks, Succeed(w, t) PROVE StartsCounted'
  BY <1>8 DEF Succeed, Run
<1>9. ASSUME NEW w \in Workers, NEW t \in Tasks, Exhaust(w, t) PROVE StartsCounted'
  BY <1>9 DEF Exhaust, Run
<1>10. ASSUME NEW w \in Workers, NEW t \in Tasks, Park(w, t) PROVE StartsCounted'
  BY <1>10 DEF Park, Run
<1>11. ASSUME NEW w \in Workers, NEW t \in Tasks, Finish(w, t) PROVE StartsCounted'
  BY <1>11 DEF Finish, Go, Run
<1>12. ASSUME NEW w \in Workers, NEW t \in Tasks, Release(w, t) PROVE StartsCounted'
  BY <1>12 DEF Release, Run
<1>13. ASSUME NEW w \in Workers, NEW t \in Tasks, ParkFails(w, t) PROVE StartsCounted'
  BY <1>13 DEF ParkFails, Fault, Run, Blame
<1>14. ASSUME NEW w \in Workers, NEW t \in Tasks, TimeOut(w, t) PROVE StartsCounted'
  BY <1>14 DEF TimeOut, Fault, Run, Blame
<1>15. ASSUME NEW w \in Workers, Close(w) PROVE StartsCounted'
  BY <1>15 DEF Close, Fault, Interrupt, Doing, Counted
<1>16. ASSUME NEW w \in Workers, Closed(w) PROVE StartsCounted'
  BY <1>16 DEF Closed
<1>17. ASSUME NEW w \in Workers, Crash(w) PROVE StartsCounted'
  BY <1>17 DEF Crash, Fault, Interrupt, Doing, Counted
<1>18. ASSUME NEW w \in Workers, Restart(w) PROVE StartsCounted'
  BY <1>18 DEF Restart
<1>19. CASE Stop
  BY <1>19 DEF Stop
<1>20. CASE UNCHANGED vars
  BY <1>20 DEF vars
<1> QED BY <1>1, <1>2, <1>3, <1>4, <1>5, <1>6, <1>7, <1>8, <1>9, <1>10,
           <1>11, <1>12, <1>13, <1>14, <1>15, <1>16, <1>17, <1>18, <1>19, <1>20 DEF Next, Work

\* A handler is started at most once per task, whatever crashes and expires.
THEOREM StartedOnceHolds == Spec => []StartedOnce
<1>1. Init => StartsCounted
  BY DEF Init, StartsCounted
<1>2. StartsCounted => StartedOnce
  BY DEF StartsCounted, StartedOnce
<1> QED BY BaseInit, BaseStep, StartsStep, <1>1, <1>2, PTL DEF Spec

-----------------------------------------------------------------------------
Settled(t) == t \in executed \cup parked \/ cause[t] # "none"

\* A task with a counted try is in its handler or settled; so is one that is
\* being removed or over.
Accounted ==
  /\ \A t \in Tasks :
       /\ place[t] = "over" => Settled(t)
       /\ tries[t] > 0 =>
            Settled(t) \/ \E w \in Workers : run[w][t] \in {"executing", "parking"}
  /\ \A w \in Workers, t \in Tasks : run[w][t] = "finishing" => Settled(t)

\* A step that ends a task settles it, or names the cause.
LEMMA AccountedStep == Base /\ Accounted /\ [Next]_vars => Accounted'
<1> SUFFICES ASSUME Base, Accounted, [Next]_vars PROVE Accounted'
  OBVIOUS
<1> USE DEF Base, TypeOK, Held, Accounted, Settled, job, worker, outcome
<1>1. ASSUME NEW t \in Tasks, Submit(t) PROVE Accounted'
  BY <1>1 DEF Submit, Go
<1>2. ASSUME NEW t \in Tasks, Enqueue(t) PROVE Accounted'
  BY <1>2 DEF Enqueue, Go, Blame, SameId
<1>3. ASSUME NEW t \in Tasks, EnqueueRaises(t) PROVE Accounted'
  BY <1>3 DEF EnqueueRaises, Fault, Go, Blame
<1>4. ASSUME NEW t \in Tasks, Expire(t) PROVE Accounted'
  BY <1>4 DEF Expire
<1>5. ASSUME NEW w \in Workers, NEW t \in Tasks, Claim(w, t) PROVE Accounted'
  <2>1. \A v \in Workers : run[v][t] = "none"
    BY <1>5, NoneAssumption DEF Claim
  <2>2. /\ run' = [run EXCEPT ![w][t] = "claimed"]
        /\ UNCHANGED <<place, tries, executed, parked, cause>>
    BY <1>5 DEF Claim, Run
  <2> QED BY <2>1, <2>2
<1>6. ASSUME NEW w \in Workers, NEW t \in Tasks, Begin(w, t) PROVE Accounted'
  BY <1>6 DEF Begin, Run, Counted
<1>7. ASSUME NEW w \in Workers, NEW t \in Tasks, Discard(w, t) PROVE Accounted'
  BY <1>7 DEF Discard, Run, Counted
<1>8. ASSUME NEW w \in Workers, NEW t \in Tasks, Succeed(w, t) PROVE Accounted'
  BY <1>8 DEF Succeed, Run
<1>9. ASSUME NEW w \in Workers, NEW t \in Tasks, Exhaust(w, t) PROVE Accounted'
  BY <1>9 DEF Exhaust, Run
<1>10. ASSUME NEW w \in Workers, NEW t \in Tasks, Park(w, t) PROVE Accounted'
  BY <1>10 DEF Park, Run
<1>11. ASSUME NEW w \in Workers, NEW t \in Tasks, Finish(w, t) PROVE Accounted'
  BY <1>11 DEF Finish, Go, Run
<1>12. ASSUME NEW w \in Workers, NEW t \in Tasks, Release(w, t) PROVE Accounted'
  BY <1>12 DEF Release, Run
<1>13. ASSUME NEW w \in Workers, NEW t \in Tasks, ParkFails(w, t) PROVE Accounted'
  BY <1>13 DEF ParkFails, Fault, Run, Blame
<1>14. ASSUME NEW w \in Workers, NEW t \in Tasks, TimeOut(w, t) PROVE Accounted'
  BY <1>14 DEF TimeOut, Fault, Run, Blame
<1>15. ASSUME NEW w \in Workers, Close(w) PROVE Accounted'
  BY <1>15 DEF Close, Fault, Interrupt, Doing, Counted
<1>16. ASSUME NEW w \in Workers, Closed(w) PROVE Accounted'
  BY <1>16 DEF Closed
<1>17. ASSUME NEW w \in Workers, Crash(w) PROVE Accounted'
  BY <1>17 DEF Crash, Fault, Interrupt, Doing, Counted
<1>18. ASSUME NEW w \in Workers, Restart(w) PROVE Accounted'
  BY <1>18 DEF Restart
<1>19. CASE Stop
  BY <1>19 DEF Stop
<1>20. CASE UNCHANGED vars
  BY <1>20 DEF vars
<1> QED BY <1>1, <1>2, <1>3, <1>4, <1>5, <1>6, <1>7, <1>8, <1>9, <1>10,
           <1>11, <1>12, <1>13, <1>14, <1>15, <1>16, <1>17, <1>18, <1>19, <1>20 DEF Next, Work

\* No task is over without a result, a record or a named cause.
THEOREM NothingVanishesHolds == Spec => []NothingVanishes
<1>1. Init => Accounted
  BY DEF Init, Accounted
<1>2. Accounted => NothingVanishes
  BY DEF Accounted, Settled, NothingVanishes
<1> QED BY BaseInit, BaseStep, AccountedStep, <1>1, <1>2, PTL DEF Spec
=============================================================================
