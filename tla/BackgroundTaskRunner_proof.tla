--------------------- MODULE BackgroundTaskRunner_proof ---------------------
(***************************************************************************)
(* Proofs about BackgroundTaskRunner, for any finite set of tasks and any  *)
(* number of permits and attempts.  A step moves at most one task, so each *)
(* set that the balances count changes by at most that task.  Then about   *)
(* Assembly, for any number of faults and changes: who is built later      *)
(* finds who was built before, and what is closed later is still open.     *)
(***************************************************************************)
EXTENDS Process, Sequences, FiniteSetTheorems, TLAPS

States == LiveStates \cup {"new", "finished", "cancelled"}

\* A task that is to begin another attempt has one left.
AttemptsLeft ==
  \A t \in Tasks : /\ state[t] = "new" => attempts[t] = 0
                   /\ state[t] \in {"waiting", "backoff"} => attempts[t] < MaxAttempts

IInv == TypeOK /\ AttemptsLeft /\ PermitsBalance /\ CountersBalance /\ ClosedIsQuiet

\* The size of a finite set that one element enters or leaves.
LEMMA ElementMoves ==
  ASSUME NEW S, NEW T, NEW t, IsFiniteSet(S), S \ {t} = T \ {t}
  PROVE  /\ Cardinality(S) \in Nat /\ Cardinality(T) \in Nat
         /\ t \in S /\ t \notin T => Cardinality(T) = Cardinality(S) - 1
         /\ t \notin S /\ t \in T => Cardinality(T) = Cardinality(S) + 1
         /\ (t \in S <=> t \in T) => Cardinality(T) = Cardinality(S)
<1>1. /\ IsFiniteSet(S \ {t})
      /\ Cardinality(S \ {t}) = IF t \in S THEN Cardinality(S) - 1 ELSE Cardinality(S)
      /\ Cardinality(S) \in Nat /\ Cardinality(S \ {t}) \in Nat
  BY FS_RemoveElement, FS_CardinalityType
<1>2. CASE t \in T
  <2>1. T = (S \ {t}) \cup {t}
    BY <1>2
  <2>2. IsFiniteSet(T) /\ Cardinality(T) = Cardinality(S \ {t}) + 1
    BY <1>1, <2>1, FS_AddElement
  <2> QED BY <1>1, <1>2, <2>2
<1>3. CASE t \notin T
  <2>1. T = S \ {t}
    BY <1>3
  <2> QED BY <1>1, <1>3, <2>1
<1> QED BY <1>2, <1>3

\* The counted sets are finite.
LEMMA TaskSets ==
  /\ IsFiniteSet(Live)
  /\ \A s : IsFiniteSet(In(s))
BY TaskAssumption, FS_Subset DEF Live, In

\* How the counted sets change when one task moves.
LEMMA MoveCounts ==
  ASSUME state \in [Tasks -> States], NEW t \in Tasks, NEW s \in States, Move(t, s)
  PROVE  /\ state' \in [Tasks -> States]
         /\ \A q \in States :
              /\ Cardinality(In(q)) \in Nat /\ Cardinality(In(q)') \in Nat
              /\ state[t] = q /\ s # q => Cardinality(In(q)') = Cardinality(In(q)) - 1
              /\ state[t] # q /\ s = q => Cardinality(In(q)') = Cardinality(In(q)) + 1
              /\ state[t] # q /\ s # q => Cardinality(In(q)') = Cardinality(In(q))
         /\ Cardinality(Live) \in Nat
         /\ state[t] \in LiveStates /\ s \notin LiveStates
              => Cardinality(Live') = Cardinality(Live) - 1
         /\ state[t] \notin LiveStates /\ s \in LiveStates
              => Cardinality(Live') = Cardinality(Live) + 1
         /\ (state[t] \in LiveStates <=> s \in LiveStates)
              => Cardinality(Live') = Cardinality(Live)
<1> USE DEF Move
<1>1. state' \in [Tasks -> States]
  OBVIOUS
<1>2. ASSUME NEW q \in States
      PROVE  /\ Cardinality(In(q)) \in Nat /\ Cardinality(In(q)') \in Nat
             /\ state[t] = q /\ s # q => Cardinality(In(q)') = Cardinality(In(q)) - 1
             /\ state[t] # q /\ s = q => Cardinality(In(q)') = Cardinality(In(q)) + 1
             /\ state[t] # q /\ s # q => Cardinality(In(q)') = Cardinality(In(q))
  <2>1. In(q) \ {t} = In(q)' \ {t} /\ (t \in In(q) <=> state[t] = q) /\ (t \in In(q)' <=> s = q)
    BY DEF In
  <2> QED BY <2>1, TaskSets, ElementMoves
<1>3. Live \ {t} = Live' \ {t} /\ (t \in Live <=> state[t] \in LiveStates)
                               /\ (t \in Live' <=> s \in LiveStates)
  BY DEF Live
<1>4. /\ Cardinality(Live) \in Nat
      /\ t \in Live /\ t \notin Live' => Cardinality(Live') = Cardinality(Live) - 1
      /\ t \notin Live /\ t \in Live' => Cardinality(Live') = Cardinality(Live) + 1
      /\ (t \in Live <=> t \in Live') => Cardinality(Live') = Cardinality(Live)
  BY <1>3, TaskSets, ElementMoves
<1> QED BY <1>1, <1>2, <1>3, <1>4

\* No task, no count, and all permits free at first.
LEMMA InvInit == Init => IInv
<1> SUFFICES ASSUME Init PROVE IInv
  OBVIOUS
<1> USE DEF Init
<1>1. TypeOK /\ AttemptsLeft
  BY BoundAssumption DEF TypeOK, AttemptsLeft, LiveStates
<1>2. In("running") = {} /\ In("cancelled") = {} /\ Live = {}
  BY DEF In, Live, LiveStates
<1>3. PermitsBalance /\ CountersBalance /\ ClosedIsQuiet
  BY <1>2, FS_EmptySet, BoundAssumption DEF PermitsBalance, CountersBalance, ClosedIsQuiet
<1> QED BY <1>1, <1>3 DEF IInv

\* The steps that move a task t to a state s.
LEMMA InvMove ==
  ASSUME IInv, NEW t \in Tasks,
         Submit(t) \/ Cancel(t) \/ (phase # "cancelling" /\ Run(t))
  PROVE  IInv'
<1> USE BoundAssumption DEF IInv, TypeOK, States, LiveStates, counters
<1>1. CASE Submit(t)
  <2> USE <1>1 DEF Submit
  <2>1. AttemptsLeft' /\ ClosedIsQuiet'
    BY DEF AttemptsLeft, ClosedIsQuiet, Move
  <2>2. Cardinality(In("running")') = Cardinality(In("running"))
        /\ Cardinality(In("cancelled")') = Cardinality(In("cancelled"))
        /\ Cardinality(Live') = Cardinality(Live) + 1
        /\ Cardinality(Live) \in Nat /\ Cardinality(In("cancelled")) \in Nat
        /\ state' \in [Tasks -> States]
    BY MoveCounts
  <2> QED BY <2>1, <2>2 DEF PermitsBalance, CountersBalance
<1>2. CASE Cancel(t)
  <2> USE <1>2 DEF Cancel
  <2>1. AttemptsLeft' /\ ClosedIsQuiet'
    BY DEF AttemptsLeft, ClosedIsQuiet, Move
  <2>2. /\ Cardinality(In("running")') = Cardinality(In("running"))
                                         - (IF state[t] = "running" THEN 1 ELSE 0)
        /\ Cardinality(In("cancelled")') = Cardinality(In("cancelled")) + 1
        /\ Cardinality(Live') = Cardinality(Live) - 1
        /\ Cardinality(In("running")) \in Nat /\ Cardinality(In("running")') \in Nat
        /\ Cardinality(Live) \in Nat /\ Cardinality(In("cancelled")) \in Nat
        /\ state' \in [Tasks -> States]
    BY MoveCounts
  <2>3. PermitsBalance' /\ CountersBalance'
    BY <2>2 DEF PermitsBalance, CountersBalance
  <2>4. TypeOK'
    BY <2>2, <2>3 DEF PermitsBalance
  <2> QED BY <2>1, <2>3, <2>4
<1>3. CASE phase # "cancelling" /\ Run(t)
  <2> USE <1>3
  <2>1. phase # "closed"
    BY DEF Run, Acquire, Succeed, Raise, Wake, Park, ClosedIsQuiet, Live
  <2>2. CASE Acquire(t)
    <3> USE <2>2 DEF Acquire
    <3>1. AttemptsLeft' /\ ClosedIsQuiet' /\ attempts' \in [Tasks -> 0..MaxAttempts]
      BY <2>1 DEF AttemptsLeft, ClosedIsQuiet, Move
    <3>2. Cardinality(In("running")') = Cardinality(In("running")) + 1
          /\ Cardinality(In("cancelled")') = Cardinality(In("cancelled"))
          /\ Cardinality(Live') = Cardinality(Live)
          /\ Cardinality(In("running")) \in Nat
          /\ state' \in [Tasks -> States]
      BY MoveCounts
    <3> QED BY <3>1, <3>2 DEF PermitsBalance, CountersBalance
  <2>3. CASE Succeed(t)
    <3> USE <2>3 DEF Succeed
    <3>1. AttemptsLeft' /\ ClosedIsQuiet'
      BY <2>1 DEF AttemptsLeft, ClosedIsQuiet, Move
    <3>2. Cardinality(In("running")') = Cardinality(In("running")) - 1
          /\ Cardinality(In("cancelled")') = Cardinality(In("cancelled"))
          /\ Cardinality(Live') = Cardinality(Live) - 1
          /\ Cardinality(In("running")) \in Nat /\ Cardinality(In("running")') \in Nat
          /\ Cardinality(Live) \in Nat /\ Cardinality(In("cancelled")) \in Nat
          /\ state' \in [Tasks -> States]
      BY MoveCounts
    <3> QED BY <3>1, <3>2 DEF PermitsBalance, CountersBalance
  <2>4. CASE Raise(t)
    <3> USE <2>4 DEF Raise
    <3>1. AttemptsLeft' /\ ClosedIsQuiet'
      BY <2>1 DEF AttemptsLeft, ClosedIsQuiet, Move
    <3> DEFINE s == IF attempts[t] < MaxAttempts THEN "backoff" ELSE "parking"
    <3>2. Move(t, s) /\ s \in {"backoff", "parking"}
      OBVIOUS
    <3> HIDE DEF s
    <3>3. Cardinality(In("running")') = Cardinality(In("running")) - 1
          /\ Cardinality(In("cancelled")') = Cardinality(In("cancelled"))
          /\ Cardinality(Live') = Cardinality(Live)
          /\ Cardinality(In("running")) \in Nat /\ Cardinality(In("running")') \in Nat
          /\ state' \in [Tasks -> States]
      BY <3>2, MoveCounts
    <3> QED BY <3>1, <3>3 DEF PermitsBalance, CountersBalance
  <2>5. CASE Wake(t)
    <3> USE <2>5 DEF Wake
    <3>1. AttemptsLeft' /\ ClosedIsQuiet'
      BY <2>1 DEF AttemptsLeft, ClosedIsQuiet, Move
    <3>2. Cardinality(In("running")') = Cardinality(In("running"))
          /\ Cardinality(In("cancelled")') = Cardinality(In("cancelled"))
          /\ Cardinality(Live') = Cardinality(Live)
          /\ state' \in [Tasks -> States]
      BY MoveCounts
    <3> QED BY <3>1, <3>2 DEF PermitsBalance, CountersBalance
  <2>6. CASE Park(t)
    <3> USE <2>6 DEF Park
    <3>1. AttemptsLeft' /\ ClosedIsQuiet'
      BY <2>1 DEF AttemptsLeft, ClosedIsQuiet, Move
    <3>2. Cardinality(In("running")') = Cardinality(In("running"))
          /\ Cardinality(In("cancelled")') = Cardinality(In("cancelled"))
          /\ Cardinality(Live') = Cardinality(Live) - 1
          /\ Cardinality(Live) \in Nat /\ Cardinality(In("cancelled")) \in Nat
          /\ state' \in [Tasks -> States]
      BY MoveCounts
    <3> QED BY <3>1, <3>2 DEF PermitsBalance, CountersBalance
  <2> QED BY <2>2, <2>3, <2>4, <2>5, <2>6 DEF Run
<1> QED BY <1>1, <1>2, <1>3

\* Every step keeps the balances of permits and counters.
LEMMA InvStep == IInv /\ [Next]_vars => IInv'
<1> SUFFICES ASSUME IInv, [Next]_vars PROVE IInv'
  OBVIOUS
<1>1. CASE UNCHANGED vars
  BY <1>1 DEF vars, counters, IInv, TypeOK, AttemptsLeft, PermitsBalance, CountersBalance,
              ClosedIsQuiet, In, Live
<1>2. CASE Shutdown \/ ShutdownTimeout \/ Drained
  BY <1>2 DEF Shutdown, ShutdownTimeout, Drained, counters, IInv, TypeOK, AttemptsLeft,
              PermitsBalance, CountersBalance, ClosedIsQuiet, In, Live
<1>3. ASSUME NEW t \in Tasks, Submit(t) \/ Cancel(t) \/ (phase # "cancelling" /\ Run(t))
      PROVE IInv'
  BY <1>3, InvMove
<1> QED BY <1>1, <1>2, <1>3 DEF Next

\* The balances hold in every reachable state.
LEMMA InvHolds == Spec => []IInv
  BY InvInit, InvStep, PTL DEF Spec

\* No task begins more than MaxAttempts attempts, and the semaphore's value stays
\* between zero and its initial one.
THEOREM TypeCorrect == Spec => []TypeOK
<1>1. IInv => TypeOK
  BY DEF IInv
<1> QED BY <1>1, InvHolds, PTL

\* Free permits and running attempts add up: no failure, back-off or cancellation
\* leaks a permit.
THEOREM PermitsBalanceHolds == Spec => []PermitsBalance
<1>1. IInv => PermitsBalance
  BY DEF IInv
<1> QED BY <1>1, InvHolds, PTL

\* The counters account for every submitted task once: it has not ended, it
\* completed, it failed, or shutdown cancelled it.
THEOREM CountersBalanceHolds == Spec => []CountersBalance
<1>1. IInv => CountersBalance
  BY DEF IInv
<1> QED BY <1>1, InvHolds, PTL

\* When shutdown has returned no task is left.
THEOREM ClosedIsQuietHolds == Spec => []ClosedIsQuiet
<1>1. IInv => ClosedIsQuiet
  BY DEF IInv
<1> QED BY <1>1, InvHolds, PTL

-----------------------------------------------------------------------------
(* How a process is put together and taken apart: the builders' table *)

\* The builders in their order, and what they ask for.
LEMMA BuilderTable ==
  /\ Len(A!Builders) = 6
  /\ A!Builders[1] = "ingest" /\ A!Builders[2] = "cold" /\ A!Builders[3] = "retrieval"
  /\ A!Builders[4] = "feedback" /\ A!Builders[5] = "consolidation" /\ A!Builders[6] = "graph"
  BY DEF A!Builders

\* Only the cold path asks for a task runner.
LEMMA RunnerOfCold ==
  ASSUME NEW n \in 1..6, NEW m \in 1..Len(A!Steps[A!Builders[n]]),
         A!Steps[A!Builders[n]][m] = "runner"
  PROVE  n = 2
<1>1. n \in {1, 2, 3, 4, 5, 6}
  OBVIOUS
<1>2. /\ Len(A!Steps["ingest"]) = 4 /\ \A i \in 1..4 : A!Steps["ingest"][i] # "runner"
      /\ Len(A!Steps["retrieval"]) = 6 /\ \A i \in 1..6 : A!Steps["retrieval"][i] # "runner"
      /\ Len(A!Steps["feedback"]) = 3 /\ \A i \in 1..3 : A!Steps["feedback"][i] # "runner"
      /\ Len(A!Steps["consolidation"]) = 6 /\ \A i \in 1..6 : A!Steps["consolidation"][i] # "runner"
      /\ Len(A!Steps["graph"]) = 4 /\ \A i \in 1..4 : A!Steps["graph"][i] # "runner"
  BY DEF A!Steps
<1> QED BY <1>1, <1>2, BuilderTable

\* The ingest builder asks for a boundary detector first, and for a queue last.
LEMMA StepsOfIngest ==
  /\ Len(A!Steps["ingest"]) = 4
  /\ \A m \in 1..4 : (m = 1 <=> A!Steps["ingest"][m] = "sbd") /\ (m = 4 <=> A!Steps["ingest"][m] = "dlq")
  BY DEF A!Steps

-----------------------------------------------------------------------------
(* How a process is put together and taken apart: the invariant *)

\* Where the process is, and what its builder has.
AssemblyType ==
  /\ made \in Nat
  /\ stage \in {"config", "clients", "build", "serving", "closing", "closed", "failed"}
  /\ at \in Nat \X Nat
  /\ got \subseteq A!Plugins \X Nat /\ version \in [A!Plugins -> Nat]
  /\ queueOf \in [ingest : Nat, runner : Nat]
  /\ stage \in {"config", "failed"} => fields = {} /\ open = {}
  /\ stage = "config" => at = <<1, 1>>
  /\ stage = "clients" => at[1] \in 1..4
  /\ stage = "build" => at[1] \in 1..7 /\ at[2] >= 1
  /\ stage = "serving" => at[1] = 7
  /\ stage = "closing" => at[1] \in 1..8
  /\ stage = "closed" => at[1] = 9

\* The n-th builder is through.
Past(n) == stage \in {"serving", "closing", "closed"} \/ (stage = "build" /\ at[1] > n)

\* Who comes later finds who came before: a service is there only when its
\* builder is through, and one that is there has what it works with.
Wired ==
  /\ "ingest" \in fields => Past(1)
  /\ "cold" \in fields => Past(2)
  /\ "retrieval" \in fields => Past(3)
  /\ "updater" \in fields => Past(4)
  /\ "entities" \in fields => Past(6)
  /\ {"ingest", "cold"} \subseteq fields => <<"ingest", "cold">> \in links
  /\ {"cold", "entities"} \subseteq fields => <<"cold", "entities">> \in links
  /\ {"retrieval", "updater", "runner"} \subseteq fields => <<"retrieval", "updater">> \in links
  /\ "ingest" \in fields => /\ {"mongo", "repo"} \subseteq fields /\ queueOf.ingest # 0
                            /\ \E h \in held : h[1] = "ingest" /\ h[2] = "sbd"
  /\ "retrieval" \in fields => \E h \in held : h[1] = "retrieval" /\ h[2] \in {"bm25", "vector"}

\* One queue is made; the ingest builder does not get to its end without it and
\* without a detector.
OneQueueMade ==
  /\ made = IF "dlq" \in fields THEN 1 ELSE 0
  /\ queueOf.ingest \in {0, made} /\ queueOf.runner \in {0, made}
  /\ stage = "build" /\ at[1] = 1 /\ "mongo" \in fields =>
       /\ at[2] > 1 => \E g \in got : g[1] = "sbd"
       /\ at[2] > 4 => "dlq" \in fields

\* What has been reached in the order of closing is closed or stuck, and the
\* clients are open until it is their turn.
ClosedInOrder ==
  /\ stage \notin {"closing", "closed"} => fields \cap A!Clients \subseteq open
  /\ open \subseteq {"loop", "runner", "factory", "config"} \cup A!Clients
  /\ stage \in {"closing", "closed"} =>
       /\ at[1] <= 5 => fields \cap A!Clients \subseteq open
       /\ \A i \in 1..8 : i < at[1] => A!CloseOrder[i] \notin open \ stuck

AssemblyInv == AssemblyType /\ Wired /\ OneQueueMade /\ ClosedInOrder

\* A builder that ends is the one whose turn it is.
LEMMA FinishHolds ==
  ASSUME AssemblyType, A!Finish
  PROVE  /\ stage = "build" /\ at[1] \in 1..6 /\ A!CanBuild(A!Current)
         /\ at' = <<at[1] + 1, 1>> /\ got' = {}
         /\ \/ at[1] = 1 /\ A!FinishIngest
            \/ at[1] = 2 /\ A!FinishCold
            \/ at[1] = 3 /\ A!FinishRetrieval
            \/ at[1] = 4 /\ A!FinishFeedback
            \/ at[1] = 5 /\ A!FinishConsolidation
            \/ at[1] = 6 /\ A!FinishGraph
         /\ UNCHANGED <<backend, version, changes, stage, cached, made, open, stuck, faults>>
<1>1. stage = "build" /\ at[1] \in 1..6
  BY BuilderTable DEF A!Finish, A!Building, AssemblyType
<1>2. at[1] \in {1, 2, 3, 4, 5, 6}
  BY <1>1
<1>3. /\ A!Current = A!Builders[at[1]]
      /\ A!Current = "ingest" => A!FinishIngest
      /\ A!Current = "cold" => A!FinishCold
      /\ A!Current = "retrieval" => A!FinishRetrieval
      /\ A!Current = "feedback" => A!FinishFeedback
      /\ A!Current = "consolidation" => A!FinishConsolidation
      /\ A!Current = "graph" => A!FinishGraph
  BY DEF A!Finish, A!Current
<1>4. \/ at[1] = 1 /\ A!FinishIngest
      \/ at[1] = 2 /\ A!FinishCold
      \/ at[1] = 3 /\ A!FinishRetrieval
      \/ at[1] = 4 /\ A!FinishFeedback
      \/ at[1] = 5 /\ A!FinishConsolidation
      \/ at[1] = 6 /\ A!FinishGraph
  BY ONLY <1>2, <1>3, BuilderTable
<1>5. /\ A!CanBuild(A!Current) /\ at' = <<at[1] + 1, 1>> /\ got' = {}
      /\ UNCHANGED <<backend, version, changes, stage, cached, made, open, stuck, faults>>
  BY DEF A!Finish, A!NextBuilder, A!config
<1> QED BY <1>1, <1>4, <1>5

\* A step of a builder before its end.
BuildStep == A!Skip \/ A!GetPlugin \/ A!MakeObject \/ A!Unavailable

LEMMA BuildStepHolds ==
  ASSUME AssemblyType, BuildStep
  PROVE  /\ stage = "build" /\ at[1] \in 1..6 /\ A!Current = A!Builders[at[1]]
         /\ \/ at' = <<at[1] + 1, 1>> /\ got' = {}
            \/ /\ at' = <<at[1], at[2] + 1>> /\ got \subseteq got'
               /\ A!CanBuild(A!Current) /\ at[2] \in 1..Len(A!Steps[A!Current])
               /\ A!Asked = A!Steps[A!Current][at[2]]
         /\ got' \subseteq A!Plugins \X Nat
         /\ fields \subseteq fields' /\ fields' \subseteq fields \cup A!Objects
         /\ "runner" \in fields' \ fields => at[1] = 2
         /\ \/ UNCHANGED <<made, queueOf>> /\ ("dlq" \in fields' => "dlq" \in fields)
            \/ /\ "dlq" \notin fields /\ "dlq" \in fields' /\ made' = made + 1 /\ UNCHANGED queueOf
            \/ /\ made' = made /\ queueOf' = [queueOf EXCEPT !.runner = made]
               /\ ("dlq" \in fields' => "dlq" \in fields)
         /\ open \subseteq open' /\ open' \subseteq open \cup {"runner"}
         /\ UNCHANGED <<version, stage, held, links, stuck>>
<1>0. /\ stage = "build" /\ at[1] \in 1..6 /\ A!Current = A!Builders[at[1]]
      /\ at[2] \in Nat /\ at[2] >= 1 /\ got \subseteq A!Plugins \X Nat
      /\ version \in [A!Plugins -> Nat]
  BY BuilderTable DEF BuildStep, A!Skip, A!GetPlugin, A!MakeObject, A!Unavailable,
                      A!Building, A!Current, AssemblyType
<1>1. CASE A!Skip
  BY <1>0, <1>1 DEF A!Skip, A!NextBuilder, A!NextStep, A!More, A!Asked, A!config, A!queues
<1>2. CASE A!GetPlugin
  <2>1. got' \subseteq A!Plugins \X Nat
    BY <1>0, <1>2 DEF A!GetPlugin
  <2> QED BY <1>0, <1>2, <2>1 DEF A!GetPlugin, A!NextStep, A!More, A!Asked, A!config, A!queues
<1>3. CASE A!MakeObject
  <2>0. /\ A!CanBuild(A!Current) /\ at[2] \in 1..Len(A!Steps[A!Current])
        /\ A!Asked = A!Steps[A!Current][at[2]] /\ A!Asked \in A!Objects
        /\ at' = <<at[1], at[2] + 1>>
        /\ ~A!NotNeeded(A!Current, A!Asked)
        /\ UNCHANGED <<version, stage, got, held, links, stuck>>
    BY <1>0, <1>3 DEF A!MakeObject, A!NextStep, A!More, A!Asked, A!config
  <2>1. A!Asked = "runner" => at[1] = 2
    BY ONLY <1>0, <2>0, RunnerOfCold
  <2>2. /\ fields \subseteq fields' /\ fields' \subseteq fields \cup {A!Asked}
        /\ A!Asked \in {"dlq", "runner"} => A!Asked \in fields'
    BY <1>3 DEF A!MakeObject, A!SharedRepo
  <2>3. A!Asked = "dlq" => "dlq" \notin fields
    BY <2>0 DEF A!NotNeeded
  <2>4. /\ made' = IF A!Asked = "dlq" THEN made + 1 ELSE made
        /\ IF A!Asked = "runner"
           THEN queueOf' = [queueOf EXCEPT !.runner = made] /\ open' = open \cup {"runner"}
           ELSE UNCHANGED <<queueOf, open>>
    BY <1>3 DEF A!MakeObject, A!CreateDLQ, A!CreateTaskRunner
  <2>5. A!Asked \in {"repo", "es_index", "dlq", "runner"}
    BY <2>0 DEF A!Objects
  <2>6. \/ UNCHANGED <<made, queueOf>> /\ ("dlq" \in fields' => "dlq" \in fields)
        \/ /\ "dlq" \notin fields /\ "dlq" \in fields' /\ made' = made + 1 /\ UNCHANGED queueOf
        \/ /\ made' = made /\ queueOf' = [queueOf EXCEPT !.runner = made]
           /\ ("dlq" \in fields' => "dlq" \in fields)
    BY ONLY <2>2, <2>3, <2>4, <2>5
  <2>7. /\ fields' \subseteq fields \cup A!Objects
        /\ "runner" \in fields' \ fields => at[1] = 2
        /\ open \subseteq open' /\ open' \subseteq open \cup {"runner"}
    BY ONLY <2>0, <2>1, <2>2, <2>4
  <2> QED BY ONLY <1>0, <2>0, <2>2, <2>6, <2>7
<1>4. CASE A!Unavailable
  BY <1>0, <1>4 DEF A!Unavailable, A!NextBuilder, A!NextStep, A!More, A!Asked, A!config, A!queues
<1> QED BY <1>1, <1>2, <1>3, <1>4 DEF BuildStep

\* Every step leaves the process somewhere.
LEMMA AssemblyTypeStep == AssemblyType /\ A!Next => AssemblyType'
<1> SUFFICES ASSUME AssemblyType, A!Next PROVE AssemblyType'
  OBVIOUS
<1>0. /\ at \in Nat \X Nat /\ at = <<at[1], at[2]>> /\ at[1] \in Nat /\ at[2] \in Nat
      /\ made \in Nat
  BY DEF AssemblyType
<1>1. CASE A!OpenConfigCenter
  BY <1>0, <1>1 DEF A!OpenConfigCenter, A!config, A!queues, AssemblyType
<1>2. CASE A!OpenClient
  BY <1>0, <1>2 DEF A!OpenClient, A!ClientOrder, A!config, A!queues, AssemblyType
<1>3. CASE BuildStep
  <2>1. /\ stage' = "build" /\ at[1] \in 1..6 /\ stage = "build"
        /\ at' = <<at[1] + 1, 1>> \/ at' = <<at[1], at[2] + 1>>
        /\ got' \subseteq A!Plugins \X Nat /\ version' = version
        /\ \/ made' = made + 1 /\ queueOf' = queueOf
           \/ made' = made /\ queueOf' \in {queueOf, [queueOf EXCEPT !.runner = made]}
    BY <1>3, BuildStepHolds
  <2>2. at' \in Nat \X Nat /\ at'[1] \in 1..7 /\ at'[2] >= 1
    BY <1>0, <2>1 DEF AssemblyType
  <2>3. made' \in Nat /\ queueOf' \in [ingest : Nat, runner : Nat]
    BY <1>0, <2>1 DEF AssemblyType
  <2>4. version' \in [A!Plugins -> Nat]
    BY <2>1 DEF AssemblyType
  <2> QED BY ONLY <2>1, <2>2, <2>3, <2>4 DEF AssemblyType
<1>4. CASE A!Finish
  <2>1. queueOf' \in [ingest : Nat, runner : Nat]
    BY <1>0, <1>4, FinishHolds DEF A!FinishIngest, A!FinishCold, A!FinishRetrieval,
       A!FinishFeedback, A!FinishConsolidation, A!FinishGraph, AssemblyType
  <2> QED BY <1>0, <1>4, <2>1, FinishHolds DEF AssemblyType
<1>5. CASE A!Serve \/ A!Stop
  BY <1>0, <1>5, BuilderTable DEF A!Serve, A!Stop, A!config, A!queues, AssemblyType
<1>6. ASSUME NEW p \in cached, A!Change(p) PROVE AssemblyType'
  <2>1. version' \in [A!Plugins -> Nat]
    <3>1. version' = [version EXCEPT ![p] = version[p] + 1] /\ version \in [A!Plugins -> Nat]
      BY <1>6 DEF A!Change, AssemblyType
    <3>2. \A x \in A!Plugins : version[x] \in Nat /\ version[x] + 1 \in Nat
      BY <3>1
    <3> QED BY ONLY <3>1, <3>2
  <2>2. UNCHANGED <<stage, at, got, fields, open, made, queueOf>>
    BY <1>6 DEF A!Change, A!queues
  <2> QED BY ONLY AssemblyType, <2>1, <2>2 DEF AssemblyType
<1>7. CASE A!ClosePart
  BY <1>0, <1>7 DEF A!ClosePart, A!CloseOrder, A!config, A!queues, AssemblyType
<1> QED BY <1>1, <1>2, <1>3, <1>4, <1>5, <1>6, <1>7 DEF A!Next, BuildStep

\* What a step leaves alone once the builders are through, and before they start.
LEMMA OutsideBuild ==
  ASSUME AssemblyType, A!Next
  PROVE  \/ A!OpenConfigCenter \/ A!OpenClient \/ BuildStep \/ A!Finish
         \/ /\ UNCHANGED <<got, fields, held, links, made, queueOf>>
            /\ \/ UNCHANGED <<stage, at>>
               \/ stage = "build" /\ stage' = "serving" /\ at' = at
               \/ stage \in {"serving", "closing"} /\ stage' \in {"closing", "closed"}
  BY DEF A!Next, BuildStep, A!Serve, A!Stop, A!ClosePart, A!Change, A!config, A!queues, AssemblyType

\* What the configuration centre and the clients put into the state.
LEMMA OpeningHolds ==
  ASSUME AssemblyType, A!OpenConfigCenter \/ A!OpenClient
  PROVE  /\ stage \in {"config", "clients"} /\ stage' \in {"clients", "build", "failed"}
         /\ stage' = "build" => at' = <<1, 1>>
         /\ fields \subseteq fields' /\ fields' \subseteq fields \cup {"config", "factory"} \cup A!Clients
         /\ \/ UNCHANGED <<fields, open>>
            \/ /\ stage = "config" /\ fields' = open'
            \/ \E c \in A!Clients : fields' = fields \cup {c} /\ open' = open \cup {c}
         /\ UNCHANGED <<got, held, links, made, queueOf, stuck>>
<1>1. CASE A!OpenConfigCenter
  BY <1>1 DEF A!OpenConfigCenter, A!config, A!queues, A!Clients, AssemblyType
<1>2. CASE A!OpenClient
  <2>1. A!ClientOrder[at[1]] \in A!Clients
    <3>1. stage = "clients" /\ at[1] \in {1, 2, 3, 4}
      BY <1>2 DEF A!OpenClient, AssemblyType
    <3> QED BY <3>1 DEF A!ClientOrder, A!Clients
  <2> QED BY <1>2, <2>1 DEF A!OpenClient, A!config, A!queues
<1> QED BY <1>1, <1>2

\* What the services' builders put into the state, each in its turn.
LEMMA FinishFields ==
  ASSUME AssemblyType, A!Finish
  PROVE  /\ fields \subseteq fields' /\ held \subseteq held' /\ links \subseteq links'
         /\ "ingest" \in fields' \ fields => at[1] = 1
         /\ "cold" \in fields' \ fields => at[1] = 2
         /\ "retrieval" \in fields' \ fields => at[1] = 3
         /\ "updater" \in fields' \ fields => at[1] = 4
         /\ "entities" \in fields' \ fields => at[1] = 6
         /\ "runner" \in fields' => "runner" \in fields
         /\ "dlq" \in fields' => "dlq" \in fields
         /\ fields' \cap A!Clients = fields \cap A!Clients
         /\ \/ queueOf' = queueOf
            \/ at[1] = 1 /\ queueOf' = [queueOf EXCEPT !.ingest = made]
<1> USE FinishHolds DEF A!Clients
<1>1. CASE at[1] = 1 /\ A!FinishIngest
  BY <1>1 DEF A!FinishIngest
<1>2. CASE at[1] = 2 /\ A!FinishCold
  BY <1>2 DEF A!FinishCold
<1>3. CASE at[1] = 3 /\ A!FinishRetrieval
  BY <1>3 DEF A!FinishRetrieval
<1>4. CASE at[1] = 4 /\ A!FinishFeedback
  BY <1>4 DEF A!FinishFeedback
<1>5. CASE at[1] = 5 /\ A!FinishConsolidation
  BY <1>5 DEF A!FinishConsolidation
<1>6. CASE at[1] = 6 /\ A!FinishGraph
  BY <1>6 DEF A!FinishGraph
<1> QED BY <1>1, <1>2, <1>3, <1>4, <1>5, <1>6

\* Every step keeps one queue, and the builder of ingest to its order.
LEMMA OneQueueStep == AssemblyType /\ OneQueueMade /\ A!Next => OneQueueMade'
<1> SUFFICES ASSUME AssemblyType, OneQueueMade, A!Next PROVE OneQueueMade'
  OBVIOUS
<1>0. /\ made = IF "dlq" \in fields THEN 1 ELSE 0
      /\ queueOf.ingest \in {0, made} /\ queueOf.runner \in {0, made}
      /\ queueOf \in [ingest : Nat, runner : Nat]
      /\ at = <<at[1], at[2]>> /\ at[1] \in Nat /\ at[2] \in Nat
  BY DEF OneQueueMade, AssemblyType
<1>1. CASE A!OpenConfigCenter \/ A!OpenClient
  BY <1>0, <1>1, OpeningHolds DEF OneQueueMade, A!Clients
<1>2. CASE BuildStep
  <2>1. /\ made' = IF "dlq" \in fields' THEN 1 ELSE 0
        /\ queueOf'.ingest \in {0, made'} /\ queueOf'.runner \in {0, made'}
    BY <1>0, <1>2, BuildStepHolds
  <2>2. ASSUME at'[1] = 1, "mongo" \in fields'
        PROVE  /\ at'[2] > 1 => \E g \in got' : g[1] = "sbd"
               /\ at'[2] > 4 => "dlq" \in fields'
    <3>1. /\ stage = "build" /\ at[1] = 1 /\ A!Current = "ingest" /\ "mongo" \in fields
          /\ at'[2] = at[2] + 1 /\ got \subseteq got'
          /\ A!CanBuild("ingest") /\ at[2] \in 1..4 /\ A!Asked = A!Steps["ingest"][at[2]]
          /\ fields \subseteq fields'
      <4>1. at' = <<at[1] + 1, 1>> \/ at' = <<at[1], at[2] + 1>>
        BY <1>2, BuildStepHolds
      <4>2. at' = <<at[1], at[2] + 1>> /\ at[1] = 1 /\ at'[2] = at[2] + 1
        <5>1. at[1] \in 1..6
          BY <1>2, BuildStepHolds
        <5>2. at' # <<at[1] + 1, 1>>
          BY ONLY <5>1, <2>2
        <5> QED BY ONLY <4>1, <5>1, <5>2, <2>2
      <4>3. at' # <<at[1] + 1, 1>>
        BY ONLY <4>2, <2>2
      <4>4. /\ got \subseteq got' /\ A!CanBuild(A!Current) /\ at[2] \in 1..Len(A!Steps[A!Current])
            /\ A!Asked = A!Steps[A!Current][at[2]] /\ stage = "build"
            /\ A!Current = A!Builders[at[1]]
            /\ fields \subseteq fields' /\ fields' \subseteq fields \cup A!Objects
        BY <1>2, <4>3, BuildStepHolds
      <4>5. A!Current = "ingest"
        BY ONLY <4>2, <4>4, BuilderTable
      <4>6. "mongo" \in fields
        BY ONLY <4>4, <2>2 DEF A!Objects
      <4>7. /\ A!CanBuild("ingest") /\ at[2] \in 1..Len(A!Steps["ingest"])
            /\ A!Asked = A!Steps["ingest"][at[2]]
        BY ONLY <4>4, <4>5
      <4>8. at[2] \in 1..4
        BY ONLY <4>7, StepsOfIngest
      <4> QED BY ONLY <4>2, <4>4, <4>5, <4>6, <4>7, <4>8
    <3>2. /\ at[2] > 1 => \E g \in got : g[1] = "sbd"
          /\ at[2] > 4 => "dlq" \in fields
      BY <3>1 DEF OneQueueMade
    <3>3. at[2] = 1 => \E g \in got' : g[1] = "sbd"
      <4> SUFFICES ASSUME at[2] = 1 PROVE \E g \in got' : g[1] = "sbd"
        OBVIOUS
      <4>1. A!Asked = "sbd"
        BY <3>1, StepsOfIngest
      <4>2. A!GetPlugin
        BY <1>2, <3>1, <4>1 DEF BuildStep, A!Skip, A!MakeObject, A!Unavailable, A!NotNeeded,
           A!NextBuilder, A!NextStep, A!Objects, A!Required, A!Tolerant
      <4>3. <<"sbd", version["sbd"]>> \in got'
        BY <4>1, <4>2 DEF A!GetPlugin
      <4> QED BY <4>3
    <3>4. at[2] = 4 => "dlq" \in fields'
      <4> SUFFICES ASSUME at[2] = 4 PROVE "dlq" \in fields'
        OBVIOUS
      <4>1. A!Asked = "dlq"
        BY <3>1, StepsOfIngest
      <4>2. \/ A!Skip /\ A!NotNeeded("ingest", "dlq")
            \/ A!MakeObject
        <5>1. ~A!GetPlugin
          <6>1. A!Asked \in A!Objects
            BY ONLY <4>1 DEF A!Objects
          <6>2. A!Asked \notin A!Plugins
            BY ONLY <6>1 DEF A!Plugins
          <6> QED BY <6>2 DEF A!GetPlugin
        <5>2. ~A!Unavailable
          <6>1. "dlq" \in A!Required["ingest"] /\ "dlq" \notin A!Tolerant["ingest"] \ A!Required["ingest"]
            BY DEF A!Required
          <6>2. A!Unavailable => A!NextBuilder
            BY <3>1, <4>1, <6>1 DEF A!Unavailable
          <6> QED BY <3>1, <6>2, <2>2 DEF A!NextBuilder
        <5>3. A!Skip => A!NotNeeded("ingest", "dlq")
          BY <3>1, <4>1, <2>2 DEF A!Skip, A!NextBuilder
        <5> QED BY <1>2, <5>1, <5>2, <5>3 DEF BuildStep
      <4> QED BY <3>1, <4>1, <4>2 DEF A!NotNeeded, A!MakeObject, A!SharedRepo
    <3> QED BY <3>1, <3>2, <3>3, <3>4
  <2>3. stage' = "build"
    BY <1>2, BuildStepHolds
  <2> QED BY <2>1, <2>2 DEF OneQueueMade
<1>3. CASE A!Finish
  <2>1. made' = made /\ ("dlq" \in fields' <=> "dlq" \in fields) /\ at'[1] # 1
    BY <1>0, <1>3, FinishHolds, FinishFields
  <2>2. queueOf'.ingest \in {0, made'} /\ queueOf'.runner \in {0, made'}
    BY <1>0, <1>3, <2>1, FinishFields
  <2> QED BY <1>0, <2>1, <2>2 DEF OneQueueMade
<1>4. CASE /\ UNCHANGED <<got, fields, held, links, made, queueOf>>
           /\ \/ UNCHANGED <<stage, at>>
              \/ stage = "build" /\ stage' = "serving" /\ at' = at
              \/ stage \in {"serving", "closing"} /\ stage' \in {"closing", "closed"}
  BY <1>4 DEF OneQueueMade
<1> QED BY <1>1, <1>2, <1>3, <1>4, OutsideBuild
\* Every step keeps the services wired.
LEMMA WiredStep == AssemblyType /\ OneQueueMade /\ Wired /\ A!Next => Wired'
<1> SUFFICES ASSUME AssemblyType, OneQueueMade, Wired, A!Next PROVE Wired'
  OBVIOUS
<1>0. queueOf \in [ingest : Nat, runner : Nat] /\ at = <<at[1], at[2]>> /\ at[1] \in Nat /\ at[2] \in Nat
  BY DEF AssemblyType
<1>1. CASE A!OpenConfigCenter \/ A!OpenClient
  <2>1. /\ stage \in {"config", "clients"}
        /\ fields' \subseteq fields \cup {"config", "factory"} \cup A!Clients
    BY <1>1, OpeningHolds
  <2>2. {"ingest", "cold", "retrieval", "updater", "entities"} \cap fields = {}
    BY ONLY <2>1, Wired DEF Wired, Past
  <2>3. {"ingest", "cold", "retrieval", "updater", "entities"} \cap fields' = {}
    BY ONLY <2>1, <2>2 DEF A!Clients
  <2> QED BY ONLY <2>3 DEF Wired
<1>2. CASE BuildStep
  <2>1. /\ stage = "build" /\ stage' = "build" /\ at'[1] \in Nat /\ at'[1] >= at[1]
        /\ fields \subseteq fields' /\ fields' \subseteq fields \cup A!Objects
        /\ "runner" \in fields' \ fields => at[1] = 2
        /\ UNCHANGED <<held, links>>
    <3>1. at' = <<at[1] + 1, 1>> \/ at' = <<at[1], at[2] + 1>>
      BY <1>2, BuildStepHolds
    <3>2. at'[1] \in Nat /\ at'[1] >= at[1]
      BY ONLY <1>0, <3>1
    <3> QED BY <1>2, <3>2, BuildStepHolds
  <2>2. queueOf'.ingest = queueOf.ingest
    <3>1. queueOf' = queueOf \/ queueOf' = [queueOf EXCEPT !.runner = made]
      BY <1>2, BuildStepHolds
    <3> QED BY ONLY <1>0, <3>1
  <2>3. \A x \in {"ingest", "cold", "retrieval", "updater", "entities"} : x \in fields' <=> x \in fields
    BY ONLY <2>1 DEF A!Objects
  <2>4. \A n \in 1..6 : Past(n) => Past(n)'
    BY ONLY <1>0, <2>1 DEF Past
  <2>5. {"retrieval", "updater", "runner"} \subseteq fields' => {"retrieval", "updater", "runner"} \subseteq fields
    <3>1. "retrieval" \in fields => at[1] > 3
      BY ONLY <2>1, Wired DEF Wired, Past
    <3> QED BY ONLY <1>0, <2>1, <2>3, <3>1
  <2> QED BY ONLY Wired, <2>1, <2>2, <2>3, <2>4, <2>5 DEF Wired
<1>3. CASE A!Finish
  <2>1. /\ stage = "build" /\ stage' = "build" /\ at[1] \in 1..6 /\ at'[1] = at[1] + 1
        /\ A!CanBuild(A!Current) /\ made' = made
    <3>1. /\ stage = "build" /\ stage' = stage /\ at[1] \in 1..6 /\ at' = <<at[1] + 1, 1>>
          /\ A!CanBuild(A!Current) /\ made' = made
      BY <1>3, FinishHolds
    <3> QED BY ONLY <3>1
  <2>2. /\ fields \subseteq fields' /\ held \subseteq held' /\ links \subseteq links'
        /\ "ingest" \in fields' \ fields => at[1] = 1
        /\ "cold" \in fields' \ fields => at[1] = 2
        /\ "retrieval" \in fields' \ fields => at[1] = 3
        /\ "updater" \in fields' \ fields => at[1] = 4
        /\ "entities" \in fields' \ fields => at[1] = 6
        /\ "runner" \in fields' => "runner" \in fields
    BY <1>3, FinishFields
  <2>3. /\ "ingest" \in fields => at[1] > 1
        /\ "cold" \in fields => at[1] > 2
        /\ "retrieval" \in fields => at[1] > 3
        /\ "updater" \in fields => at[1] > 4
        /\ "entities" \in fields => at[1] > 6
    BY ONLY <2>1, Wired DEF Wired, Past
  <2>4. /\ "ingest" \in fields' => Past(1)'
        /\ "cold" \in fields' => Past(2)'
        /\ "retrieval" \in fields' => Past(3)'
        /\ "updater" \in fields' => Past(4)'
        /\ "entities" \in fields' => Past(6)'
    BY ONLY <2>1, <2>2, <2>3 DEF Past
  <2>5. {"ingest", "cold"} \subseteq fields' => <<"ingest", "cold">> \in links'
    <3>1. at[1] = 2 => A!FinishCold
      BY <1>3, FinishHolds
    <3>2. at[1] = 2 /\ "ingest" \in fields => <<"ingest", "cold">> \in links'
      BY ONLY <3>1 DEF A!FinishCold
    <3> QED BY ONLY <2>1, <2>2, <2>3, <3>2, Wired DEF Wired
  <2>6. {"cold", "entities"} \subseteq fields' => <<"cold", "entities">> \in links'
    <3>1. at[1] = 6 => A!FinishGraph
      BY <1>3, FinishHolds
    <3>2. at[1] = 6 /\ "cold" \in fields => <<"cold", "entities">> \in links'
      BY ONLY <3>1 DEF A!FinishGraph
    <3> QED BY ONLY <2>1, <2>2, <2>3, <3>2, Wired DEF Wired
  <2>7. {"retrieval", "updater", "runner"} \subseteq fields' => <<"retrieval", "updater">> \in links'
    <3>1. at[1] = 4 => A!FinishFeedback
      BY <1>3, FinishHolds
    <3>2. at[1] = 4 /\ {"retrieval", "runner"} \subseteq fields => <<"retrieval", "updater">> \in links'
      BY ONLY <3>1 DEF A!FinishFeedback
    <3> QED BY ONLY <2>1, <2>2, <2>3, <3>2, Wired DEF Wired
  <2>8. "ingest" \in fields' =>
          /\ {"mongo", "repo"} \subseteq fields' /\ queueOf'.ingest # 0
          /\ \E h \in held' : h[1] = "ingest" /\ h[2] = "sbd"
    <3>1. CASE "ingest" \in fields
      <4>1. queueOf' = queueOf
        <5>1. at[1] # 1
          BY ONLY <2>3, <3>1
        <5> QED BY <1>3, <5>1, FinishFields
      <4> QED BY ONLY <2>2, <3>1, <4>1, Wired DEF Wired
    <3>2. CASE at[1] = 1
      <4>1. A!FinishIngest /\ A!Current = "ingest" /\ ~A!More
        <5>1. A!Current = A!Builders[1]
          BY <3>2 DEF A!Current
        <5>2. A!FinishIngest
          BY <1>3, <3>2, FinishHolds
        <5>3. ~A!More
          BY <1>3 DEF A!Finish
        <5> QED BY ONLY <5>1, <5>2, <5>3, BuilderTable
      <4>2. "mongo" \in fields
        BY ONLY <2>1, <4>1 DEF A!CanBuild, A!Requires
      <4>3. at[2] > 4
        BY ONLY <1>0, <4>1, StepsOfIngest DEF A!More
      <4>4. "dlq" \in fields /\ \E g \in got : g[1] = "sbd"
        BY ONLY <1>0, <2>1, <3>2, <4>2, <4>3, OneQueueMade DEF OneQueueMade
      <4>5. made = 1
        BY ONLY <4>4, OneQueueMade DEF OneQueueMade
      <4>6. /\ fields' = fields \cup {"repo", "ingest"}
            /\ held' = held \cup A!Kept("ingest", {"sbd"})
            /\ queueOf' = [queueOf EXCEPT !.ingest = made]
        BY ONLY <4>1 DEF A!FinishIngest
      <4>7. PICK g \in got : g[1] = "sbd"
        BY ONLY <4>4
      <4>8. <<"ingest", g[1], g[2]>> \in A!Kept("ingest", {"sbd"})
        BY ONLY <4>7 DEF A!Kept
      <4>9. \E h \in held' : h[1] = "ingest" /\ h[2] = "sbd"
        <5>1. <<"ingest", g[1], g[2]>> \in held'
          BY ONLY <4>6, <4>8
        <5> QED BY ONLY <4>7, <5>1
      <4> QED BY ONLY <1>0, <4>2, <4>5, <4>6, <4>9
    <3> QED BY ONLY <2>2, <3>1, <3>2
  <2>9. "retrieval" \in fields' => \E h \in held' : h[1] = "retrieval" /\ h[2] \in {"bm25", "vector"}
    <3>1. CASE "retrieval" \in fields
      BY ONLY <2>2, <3>1, Wired DEF Wired
    <3>2. CASE "retrieval" \in fields' \ fields
      <4>1. A!FinishRetrieval
        BY ONLY <1>3, <2>2, <3>2, FinishHolds, AssemblyType
      <4>2. /\ A!Names \cap {"bm25", "vector"} # {}
            /\ held' = held \cup A!Kept("retrieval", A!Names)
        BY ONLY <3>2, <4>1 DEF A!FinishRetrieval
      <4>3. PICK g \in got : g[1] \in {"bm25", "vector"}
        BY ONLY <4>2 DEF A!Names
      <4>4. <<"retrieval", g[1], g[2]>> \in A!Kept("retrieval", A!Names)
        BY ONLY <4>3 DEF A!Kept, A!Names
      <4>5. <<"retrieval", g[1], g[2]>> \in held'
        BY ONLY <4>2, <4>4
      <4> QED BY ONLY <4>3, <4>5
    <3> QED BY ONLY <3>1, <3>2
  <2> QED BY ONLY <2>4, <2>5, <2>6, <2>7, <2>8, <2>9 DEF Wired
<1>4. CASE /\ UNCHANGED <<got, fields, held, links, made, queueOf>>
           /\ \/ UNCHANGED <<stage, at>>
              \/ stage = "build" /\ stage' = "serving" /\ at' = at
              \/ stage \in {"serving", "closing"} /\ stage' \in {"closing", "closed"}
  <2>1. \A n \in 1..6 : Past(n) => Past(n)'
    BY ONLY <1>4 DEF Past
  <2> QED BY ONLY <1>4, <2>1, Wired DEF Wired
<1> QED BY <1>1, <1>2, <1>3, <1>4, OutsideBuild

\* The parts in the order they are closed in.
LEMMA CloseTable ==
  /\ Len(A!CloseOrder) = 8
  /\ A!CloseOrder[1] = "loop" /\ A!CloseOrder[2] = "runner" /\ A!CloseOrder[3] = "factory"
  /\ A!CloseOrder[4] = "config" /\ A!CloseOrder[5] = "mongo" /\ A!CloseOrder[6] = "es"
  /\ A!CloseOrder[7] = "redis" /\ A!CloseOrder[8] = "milvus"
  BY DEF A!CloseOrder

\* Every step keeps the order of closing.
LEMMA ClosedStep == AssemblyType /\ ClosedInOrder /\ A!Next => ClosedInOrder'
<1> SUFFICES ASSUME AssemblyType, ClosedInOrder, A!Next PROVE ClosedInOrder'
  OBVIOUS
<1>0. /\ at = <<at[1], at[2]>> /\ at[1] \in Nat /\ at[2] \in Nat
      /\ open \subseteq {"loop", "runner", "factory", "config"} \cup A!Clients
  BY DEF AssemblyType, ClosedInOrder
<1>1. CASE A!OpenConfigCenter \/ A!OpenClient
  <2>1. /\ stage \in {"config", "clients"} /\ stage' \in {"clients", "build", "failed"}
        /\ fields' \subseteq fields \cup {"config", "factory"} \cup A!Clients
        /\ \/ UNCHANGED <<fields, open>>
           \/ stage = "config" /\ fields' = open'
           \/ \E c \in A!Clients : fields' = fields \cup {c} /\ open' = open \cup {c}
    BY <1>1, OpeningHolds
  <2>2. stage = "config" => fields = {}
    BY DEF AssemblyType
  <2>3. fields' \cap A!Clients \subseteq open'
    BY ONLY <2>1, ClosedInOrder DEF ClosedInOrder
  <2>4. open' \subseteq {"loop", "runner", "factory", "config"} \cup A!Clients
    BY ONLY <1>0, <2>1, <2>2
  <2> QED BY ONLY <2>1, <2>3, <2>4 DEF ClosedInOrder
<1>2. CASE BuildStep \/ A!Finish
  <2>1. /\ stage = "build" /\ stage' = stage /\ open \subseteq open' /\ open' \subseteq open \cup {"runner"}
        /\ fields' \cap A!Clients = fields \cap A!Clients
    <3>1. CASE BuildStep
      <4>1. /\ stage = "build" /\ stage' = stage /\ open \subseteq open' /\ open' \subseteq open \cup {"runner"}
            /\ fields \subseteq fields' /\ fields' \subseteq fields \cup A!Objects
        BY <3>1, BuildStepHolds
      <4>2. A!Clients \cap A!Objects = {}
        BY DEF A!Clients, A!Objects
      <4> QED BY ONLY <4>1, <4>2
    <3>2. CASE A!Finish
      <4>1. stage = "build" /\ stage' = stage /\ open' = open
        BY <3>2, FinishHolds
      <4>2. fields' \cap A!Clients = fields \cap A!Clients
        BY <3>2, FinishFields
      <4> QED BY ONLY <4>1, <4>2
    <3> QED BY ONLY <1>2, <3>1, <3>2
  <2> QED BY ONLY <1>0, <2>1, ClosedInOrder DEF ClosedInOrder
<1>3. CASE A!Serve
  <2>1. stage = "build" /\ stage' = "serving" /\ open' = open \cup {"loop"} /\ fields' = fields
    BY <1>3 DEF A!Serve
  <2> QED BY ONLY <1>0, <2>1, ClosedInOrder DEF ClosedInOrder
<1>4. CASE A!Stop
  <2>1. /\ stage = "serving" /\ stage' = "closing" /\ at' = <<1, 1>>
        /\ UNCHANGED <<open, fields, stuck>>
    BY <1>4 DEF A!Stop
  <2> QED BY ONLY <1>0, <2>1, ClosedInOrder DEF ClosedInOrder
<1>5. ASSUME NEW p \in cached, A!Change(p) PROVE ClosedInOrder'
  <2>1. UNCHANGED <<stage, at, open, fields, stuck>>
    BY <1>5 DEF A!Change
  <2> QED BY ONLY <2>1, ClosedInOrder DEF ClosedInOrder
<1>6. CASE A!ClosePart
  <2> DEFINE c == A!CloseOrder[at[1]]
  <2>1. /\ stage = "closing" /\ at[1] \in 1..8
        /\ at' = <<at[1] + 1, 1>> /\ fields' = fields /\ stage' \in {"closing", "closed"}
        /\ \/ open' = open \ {c} /\ stuck' = stuck
           \/ open' = open /\ stuck' = stuck \cup {c}
    BY <1>6 DEF A!ClosePart, AssemblyType
  <2> HIDE DEF c
  <2>2. at'[1] = at[1] + 1 /\ at'[1] \in Nat
    BY ONLY <2>1
  <2>3. open' \subseteq open /\ c \notin open' \ stuck' /\ open' \ stuck' \subseteq open \ stuck
    BY ONLY <2>1
  <2>4. \A i \in 1..8 : i < at'[1] => A!CloseOrder[i] \notin open' \ stuck'
    <3> SUFFICES ASSUME NEW i \in 1..8, i < at'[1] PROVE A!CloseOrder[i] \notin open' \ stuck'
      OBVIOUS
    <3>1. i < at[1] \/ i = at[1]
      BY ONLY <1>0, <2>2, i < at'[1], i \in 1..8
    <3>2. i < at[1] => A!CloseOrder[i] \notin open \ stuck
      BY ONLY <2>1, ClosedInOrder, i \in 1..8 DEF ClosedInOrder
    <3>3. i = at[1] => A!CloseOrder[i] = c
      BY DEF c
    <3> QED BY ONLY <2>3, <3>1, <3>2, <3>3
  <2>5. at'[1] <= 5 => fields' \cap A!Clients \subseteq open'
    <3> SUFFICES ASSUME at'[1] <= 5 PROVE fields' \cap A!Clients \subseteq open'
      OBVIOUS
    <3>1. at[1] \in {1, 2, 3, 4} /\ at[1] <= 5
      BY ONLY <1>0, <2>1, <2>2, at'[1] <= 5
    <3>2. c \notin A!Clients
      <4>1. c \in {"loop", "runner", "factory", "config"}
        BY ONLY <3>1, CloseTable DEF c
      <4> QED BY ONLY <4>1 DEF A!Clients
    <3>3. fields \cap A!Clients \subseteq open
      BY ONLY <2>1, <3>1, ClosedInOrder DEF ClosedInOrder
    <3> QED BY ONLY <2>1, <3>2, <3>3
  <2> QED BY ONLY <1>0, <2>1, <2>3, <2>4, <2>5 DEF ClosedInOrder
<1> QED BY <1>1, <1>2, <1>3, <1>4, <1>5, <1>6 DEF A!Next, BuildStep

-----------------------------------------------------------------------------
(* How a process is put together and taken apart: the theorems *)

LEMMA AssemblyInvariance == ProcessSpec => []AssemblyInv
<1>1. ProcessInit => AssemblyInv
  <2> SUFFICES ASSUME ProcessInit PROVE AssemblyInv
    OBVIOUS
  <2>1. /\ stage = "config" /\ at = <<1, 1>> /\ got = {} /\ version = [p \in A!Plugins |-> 0]
        /\ fields = {} /\ held = {} /\ links = {} /\ open = {} /\ stuck = {} /\ made = 0
        /\ queueOf = [ingest |-> 0, runner |-> 0]
    BY DEF ProcessInit, A!Init
  <2> QED BY ONLY <2>1 DEF AssemblyInv, AssemblyType, Wired, OneQueueMade, ClosedInOrder
<1>2. AssemblyInv /\ [ProcessNext]_<<part, assembly, vars>> => AssemblyInv'
  <2>1. AssemblyInv /\ A!Next => AssemblyInv'
    BY AssemblyTypeStep, WiredStep, OneQueueStep, ClosedStep DEF AssemblyInv
  <2>2. AssemblyInv /\ UNCHANGED assembly => AssemblyInv'
    BY DEF assembly, AssemblyInv, AssemblyType, Wired, Past, OneQueueMade, ClosedInOrder
  <2> QED BY <2>1, <2>2 DEF ProcessNext
<1> QED BY <1>1, <1>2, PTL DEF ProcessSpec

\* Services that were both built find each other and one queue, whatever is
\* missing and whenever the configuration changes, and a process that calls
\* itself ready has what its core services work with.
THEOREM PartsAreWiredHolds == ProcessSpec => []PartsAreWired
<1>1. AssemblyInv => PartsAreWired
  <2> SUFFICES ASSUME AssemblyInv PROVE PartsAreWired
    OBVIOUS
  <2>1. A!Readiness({}, FALSE) # "fail" => {"ingest", "retrieval"} \subseteq fields
    BY DEF A!Readiness
  <2>2. A!OneQueue
    BY DEF A!OneQueue, AssemblyInv, OneQueueMade
  <2>3. Wired
    BY DEF AssemblyInv
  <2> QED BY ONLY <2>1, <2>2, <2>3 DEF PartsAreWired, A!PartsAreWired, Wired
<1> QED BY <1>1, AssemblyInvariance, PTL

\* The reconcile loop, the tasks and the plugins end before the first client is
\* closed, and what is open in the end raised when it was closed.
THEOREM ClosedBehindWorkersHolds == ProcessSpec => []ClosedBehindWorkers
<1>1. AssemblyInv => ClosedBehindWorkers
  <2> SUFFICES ASSUME AssemblyInv PROVE ClosedBehindWorkers
    OBVIOUS
  <2>0. AssemblyType /\ ClosedInOrder /\ at[1] \in Nat
    BY DEF AssemblyInv, AssemblyType
  <2>1. ASSUME NEW worker \in {"loop", "runner", "factory"}, worker \in open \ stuck
        PROVE  fields \cap A!Clients \subseteq open
    <3>1. CASE stage \notin {"closing", "closed"}
      BY ONLY <2>0, <3>1 DEF ClosedInOrder
    <3>2. CASE stage \in {"closing", "closed"}
      <4>1. PICK i \in 1..3 : A!CloseOrder[i] = worker
        BY ONLY CloseTable, <2>1
      <4>2. ~(i < at[1])
        BY ONLY <2>0, <2>1, <3>2, <4>1 DEF ClosedInOrder
      <4>3. at[1] <= 5
        BY ONLY <2>0, <4>2, i \in 1..3
      <4> QED BY ONLY <2>0, <3>2, <4>3 DEF ClosedInOrder
    <3> QED BY <3>1, <3>2
  <2>2. stage = "closed" => open \subseteq stuck
    <3> SUFFICES ASSUME stage = "closed", NEW c \in open, c \notin stuck PROVE FALSE
      OBVIOUS
    <3>1. at[1] = 9
      BY ONLY <2>0, stage = "closed" DEF AssemblyType
    <3>2. \A i \in 1..8 : A!CloseOrder[i] \notin open \ stuck
      BY ONLY <2>0, <3>1, stage = "closed" DEF ClosedInOrder
    <3>3. c \in {"loop", "runner", "factory", "config", "mongo", "es", "redis", "milvus"}
      BY ONLY <2>0, c \in open DEF ClosedInOrder, A!Clients
    <3> QED BY ONLY <3>2, <3>3, CloseTable, c \in open, c \notin stuck
  <2> QED BY ONLY <2>1, <2>2 DEF ClosedBehindWorkers, A!ClosedBehindWorkers
<1> QED BY <1>1, AssemblyInvariance, PTL
=============================================================================
