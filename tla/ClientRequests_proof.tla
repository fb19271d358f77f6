------------------------ MODULE ClientRequests_proof ------------------------
(***************************************************************************)
(* Proofs about the service as its clients meet it, for any settings,      *)
(* requests, limits, faults and either store: IngestService (what the      *)
(* attempts with one idempotency key store and are told), IngestFront      *)
(* (who a request is served as, and what its cells hold), and Retrieval    *)
(* (what becomes of a memory between the channels and the answer).  The    *)
(* last two are long because the code they are about is: the lemmas say    *)
(* what a ranking, a fusion, a filter, both rerankers and each boundary    *)
(* detector do with lists of any length.                                   *)
(***************************************************************************)
EXTENDS ClientRequests, FiniteSetTheorems, SequenceTheorems, WellFoundedInduction, TLAPS

\* What a client was or will be told is the id of a stored cell.
IdsStored ==
  /\ claim.status \in {"processing", "done"} => claim.ids \subseteq stored
  /\ \A a \in Attempts : result[a] \subseteq stored /\ answer[a] \subseteq stored

IInv == TypeOK /\ OneWriter /\ IdsStored

USE BoundAssumption, StoreAssumption

\* The value under a taken key has the ids of attempts and a status.
LEMMA ClaimShape ==
  ASSUME TypeOK
  PROVE  claim # Free => claim.ids \in SUBSET Attempts /\ claim.status \in {"processing", "done"}
  BY DEF TypeOK, Free, Processing, Done

\* The key is free and nothing is stored at first.
LEMMA InvInit == Init => IInv
  BY DEF Init, IInv, TypeOK, OneWriter, IdsStored, Running, Free

\* No step frees a taken key or answers with an unstored cell.
LEMMA InvStep == IInv /\ [Next]_vars => IInv'
<1> SUFFICES ASSUME IInv, [Next]_vars PROVE IInv'
  OBVIOUS
<1> USE ClaimShape DEF IInv, Goto, Respond, Fault, Step
<1>1. TypeOK'
  <2>1. CASE UNCHANGED vars
    BY <2>1 DEF vars, TypeOK
  <2>2. CASE Expire
    BY <2>2 DEF Expire, TypeOK
  <2>3. ASSUME NEW dead \in SUBSET (Running \cup Reading), Crash(dead) PROVE TypeOK'
    BY <2>3 DEF Crash, TypeOK
  <2>4. ASSUME NEW a \in Attempts, Step(a) PROVE TypeOK'
    <3> USE DEF TypeOK
    <3>1. CASE Claim(a) \/ Taken(a) \/ ReadClaim(a) \/ ClaimRaises(a)
      BY <3>1 DEF Claim, Taken, ReadClaim, ClaimRaises
    <3>2. CASE RunPipeline(a) \/ PipelineRaises(a)
      BY <3>2 DEF RunPipeline, PipelineRaises
    <3>3. CASE Complete(a) \/ CompleteRaises(a) \/ Release(a) \/ ReleaseRaises(a)
      BY <3>3 DEF Complete, CompleteRaises, Release, ReleaseRaises
    <3> QED BY <2>4, <3>1, <3>2, <3>3
  <2> QED BY <2>1, <2>2, <2>3, <2>4 DEF Next
<1>2. OneWriter'
  <2> USE DEF OneWriter, Running, TypeOK
  <2>1. CASE UNCHANGED vars
    BY <2>1 DEF vars
  <2>2. CASE Expire
    BY <2>2 DEF Expire
  <2>3. ASSUME NEW dead \in SUBSET (Running \cup Reading), Crash(dead) PROVE OneWriter'
    BY <2>3 DEF Crash
  <2>4. ASSUME NEW a \in Attempts, Step(a) PROVE OneWriter'
    <3>1. CASE Claim(a)
      BY <3>1 DEF Claim, Processing, Free
    <3>2. CASE Taken(a) \/ ReadClaim(a) \/ ClaimRaises(a)
      BY <3>2 DEF Taken, ReadClaim, ClaimRaises, Processing, Free
    <3>3. CASE RunPipeline(a) \/ PipelineRaises(a)
      BY <3>3 DEF RunPipeline, PipelineRaises
    <3>4. CASE Complete(a) \/ CompleteRaises(a)
      BY <3>4 DEF Complete, CompleteRaises, Done, Free
    <3>5. CASE Release(a) \/ ReleaseRaises(a)
      BY <3>5 DEF Release, ReleaseRaises
    <3> QED BY <2>4, <3>1, <3>2, <3>3, <3>4, <3>5
  <2> QED BY <2>1, <2>2, <2>3, <2>4 DEF Next
<1>3. IdsStored'
  <2> USE DEF IdsStored, TypeOK, Free, Processing, Done
  <2>1. CASE UNCHANGED vars
    BY <2>1 DEF vars
  <2>2. CASE Expire
    BY <2>2 DEF Expire
  <2>3. ASSUME NEW dead \in SUBSET (Running \cup Reading), Crash(dead) PROVE IdsStored'
    BY <2>3 DEF Crash
  <2>4. ASSUME NEW a \in Attempts, Step(a) PROVE IdsStored'
    <3>1. CASE Claim(a) \/ Taken(a) \/ ReadClaim(a) \/ ClaimRaises(a)
      BY <3>1 DEF Claim, Taken, ReadClaim, ClaimRaises
    <3>2. CASE RunPipeline(a) \/ PipelineRaises(a)
      BY <3>2 DEF RunPipeline, PipelineRaises
    <3>3. CASE Complete(a) \/ CompleteRaises(a) \/ Release(a) \/ ReleaseRaises(a)
      BY <3>3 DEF Complete, CompleteRaises, Release, ReleaseRaises
    <3> QED BY <2>4, <3>1, <3>2, <3>3
  <2> QED BY <2>1, <2>2, <2>3, <2>4 DEF Next
<1> QED BY <1>1, <1>2, <1>3

\* The key is taken while an attempt runs, in every reachable state.
LEMMA Invariance == Spec => []IInv
  BY InvInit, InvStep, PTL DEF Spec

\* Every reachable state is well typed.
THEOREM TypeCorrect == Spec => []TypeOK
  BY Invariance, PTL DEF IInv

\* However many attempts overlap, one at most runs the pipeline, and it holds
\* the key.
THEOREM OneWriterHolds == Spec => []OneWriter
  BY Invariance, PTL DEF IInv

\* No client is ever told an id that is not in MongoDB.
THEOREM AnswersStoredHolds == Spec => []AnswersStored
<1>1. IInv => AnswersStored
  BY DEF IInv, IdsStored, AnswersStored
<1> QED BY Invariance, <1>1, PTL

-----------------------------------------------------------------------------
(* Whose result is under the key, and how often the payload is stored        *)

\* Until it completes, a running attempt finds the key in the state in which it
\* claimed it; what it then stores there it may take back, and nobody else's.
KeyFollowsWork ==
  \A a \in Running :
    /\ pc[a] # "release" => claim.status = "processing"
    /\ claim.status = "done" => claim.ids = result[a]

\* The payload may still be stored by whoever claims the key or runs under it.
Unspent ==
  \/ claim = Free
  \/ claim.status = "processing" /\ \A a \in Running : pc[a] # "complete"
  \/ \E a \in Running : pc[a] # "complete"

\* One storing more than faults, and none to spare while one may still come.
Budget ==
  /\ IsFiniteSet(stored)
  /\ Cardinality(stored) <= 1 + faults
  /\ Unspent => Cardinality(stored) <= faults

\* At first no attempt runs and nothing is stored.
LEMMA BudgetInit == Init => KeyFollowsWork /\ Budget
  BY FS_EmptySet DEF Init, KeyFollowsWork, Budget, Running

\* The key of a running attempt changes by its own hand only.
LEMMA KeyStep == IInv /\ KeyFollowsWork /\ [Next]_vars => KeyFollowsWork'
<1> SUFFICES ASSUME IInv, KeyFollowsWork, [Next]_vars PROVE KeyFollowsWork'
  OBVIOUS
<1> USE ClaimShape DEF IInv, TypeOK, OneWriter, KeyFollowsWork, Running, Goto, Respond, Fault
<1>1. CASE UNCHANGED vars
  BY <1>1 DEF vars
<1>2. CASE Expire
  BY <1>2 DEF Expire
<1>3. ASSUME NEW dead \in SUBSET (Running \cup Reading), Crash(dead) PROVE KeyFollowsWork'
  BY <1>3 DEF Crash
<1>4. ASSUME NEW a \in Attempts, Step(a) PROVE KeyFollowsWork'
  <2>1. CASE Claim(a)
    BY <2>1 DEF Claim, Processing, Free
  <2>2. CASE Taken(a) \/ ReadClaim(a) \/ ClaimRaises(a)
    BY <2>2 DEF Taken, ReadClaim, ClaimRaises, Processing, Free
  <2>3. CASE RunPipeline(a) \/ PipelineRaises(a)
    BY <2>3 DEF RunPipeline, PipelineRaises
  <2>4. CASE Complete(a) \/ CompleteRaises(a)
    BY <2>4 DEF Complete, CompleteRaises, Done
  <2>5. CASE Release(a) \/ ReleaseRaises(a)
    BY <2>5 DEF Release, ReleaseRaises
  <2> QED BY <1>4, <2>1, <2>2, <2>3, <2>4, <2>5 DEF Step
<1> QED BY <1>1, <1>2, <1>3, <1>4 DEF Next

\* One attempt stores the payload at most once more.
LEMMA StoredOnceMore ==
  ASSUME NEW a, IsFiniteSet(stored), stored' \in {stored, stored \cup {a}}
  PROVE  /\ IsFiniteSet(stored') /\ Cardinality(stored) \in Nat /\ Cardinality(stored') \in Nat
         /\ Cardinality(stored') <= Cardinality(stored) + 1
<1>1. Cardinality(stored) \in Nat
  BY FS_CardinalityType
<1>2. IsFiniteSet(stored \cup {a}) /\ Cardinality(stored \cup {a}) <= Cardinality(stored) + 1
  BY <1>1, FS_AddElement
<1>3. Cardinality(stored \cup {a}) \in Nat
  BY <1>2, FS_CardinalityType
<1>4. CASE stored' = stored
  BY <1>1, <1>4
<1>5. CASE stored' = stored \cup {a}
  BY <1>1, <1>2, <1>3, <1>5
<1> QED BY <1>4, <1>5

\* Only the pipeline stores, and then either the key is settled or a fault paid.
LEMMA BudgetStep == IInv /\ KeyFollowsWork /\ Budget /\ [Next]_vars => Budget'
<1> SUFFICES ASSUME IInv, KeyFollowsWork, Budget, [Next]_vars PROVE Budget'
  OBVIOUS
<1>0. Cardinality(stored) \in Nat /\ faults \in Nat
  BY FS_CardinalityType DEF Budget, IInv, TypeOK
<1>1. ASSUME UNCHANGED stored, faults' = faults, Unspent' => Unspent PROVE Budget'
  BY <1>1 DEF Budget
<1>2. ASSUME UNCHANGED stored, Fault PROVE Budget'
  BY <1>0, <1>2 DEF Budget, Fault
<1>3. CASE UNCHANGED vars
  BY <1>1, <1>3 DEF vars, Unspent, Running
<1>4. CASE Expire
  BY <1>1, <1>4 DEF Expire, Unspent, Running
<1>5. ASSUME NEW dead \in SUBSET (Running \cup Reading), Crash(dead) PROVE Budget'
  BY <1>2, <1>5 DEF Crash
<1>6. ASSUME NEW a \in Attempts, Step(a) PROVE Budget'
  <2> USE ClaimShape DEF IInv, TypeOK, Goto, Respond
  <2>1. CASE Claim(a)
    BY <1>1, <2>1 DEF Claim, Unspent
  <2>2. CASE Taken(a) \/ ReadClaim(a)
    BY <1>1, <2>2 DEF Taken, ReadClaim, Unspent, Running
  <2>3. CASE ClaimRaises(a) \/ CompleteRaises(a) \/ ReleaseRaises(a)
    BY <1>2, <2>3 DEF ClaimRaises, CompleteRaises, ReleaseRaises
  <2>4. CASE RunPipeline(a)
    <3>1. a \in Running /\ Unspent
      BY <2>4 DEF RunPipeline, Running, Unspent
    <3>2. ~Unspent'
      BY <2>4, <3>1 DEF RunPipeline, Unspent, Running, OneWriter, KeyFollowsWork
    <3>3. stored' \in {stored, stored \cup {a}} /\ faults' = faults
      BY <2>4 DEF RunPipeline
    <3>4. Cardinality(stored) <= faults /\ IsFiniteSet(stored)
      BY <3>1 DEF Budget
    <3>5. /\ IsFiniteSet(stored') /\ Cardinality(stored') \in Nat
          /\ Cardinality(stored') <= Cardinality(stored) + 1
      BY <3>3, <3>4, StoredOnceMore
    <3> QED BY <1>0, <3>2, <3>3, <3>4, <3>5 DEF Budget
  <2>5. CASE PipelineRaises(a)
    <3>1. Unspent
      BY <2>5 DEF PipelineRaises, Running, Unspent
    <3>2. stored' \in {stored, stored \cup {a}} /\ faults' = faults + 1
      BY <2>5 DEF PipelineRaises, Fault
    <3> QED BY <1>0, <3>1, <3>2, StoredOnceMore DEF Budget
  <2>6. CASE Complete(a)
    <3>1. ~Unspent'
      BY <2>6 DEF Complete, Unspent, Running, OneWriter, Done, Free
    <3>2. UNCHANGED stored /\ faults' = faults
      BY <2>6 DEF Complete
    <3> QED BY <3>1, <3>2 DEF Budget
  <2>7. CASE Release(a)
    <3>1. Unspent
      BY <2>7 DEF Release, Unspent, Running
    <3> QED BY <1>1, <2>7, <3>1 DEF Release
  <2> QED BY <1>6, <2>1, <2>2, <2>3, <2>4, <2>5, <2>6, <2>7 DEF Step
<1> QED BY <1>3, <1>4, <1>5, <1>6 DEF Next

\* The strengthened invariant, reachable states satisfy all of it.
LEMMA WorkInvariance == Spec => [](IInv /\ KeyFollowsWork /\ Budget)
<1>1. Init => IInv /\ KeyFollowsWork /\ Budget
  BY InvInit, BudgetInit
<1>2. IInv /\ KeyFollowsWork /\ Budget /\ [Next]_vars => (IInv /\ KeyFollowsWork /\ Budget)'
  BY InvStep, KeyStep, BudgetStep
<1> QED BY <1>1, <1>2, PTL DEF Spec

\* However many attempts, errors and deaths there are, each stores the payload
\* once more at most.
THEOREM DuplicatesAreFaultsHolds == Spec => []DuplicatesAreFaults
<1>1. Budget => DuplicatesAreFaults
  BY DEF Budget, DuplicatesAreFaults
<1> QED BY WorkInvariance, <1>1, PTL

\* A result under the key is replaced or removed by nobody but the attempt that
\* put it there and saw that raise.
THEOREM ResultSticksHolds == Spec => ResultSticks
<1> DEFINE Sticks ==
      claim.status = "done" =>
        \/ claim' = claim
        \/ \E a \in Running : pc[a] = "release" /\ claim.ids = result[a]
<1>1. IInv /\ KeyFollowsWork /\ [Next]_vars => [Sticks]_vars
  <2> SUFFICES ASSUME IInv, KeyFollowsWork, Next, claim.status = "done", claim' # claim
               PROVE  \E a \in Running : pc[a] = "release" /\ claim.ids = result[a]
    BY DEF vars
  <2>1. claim # Free /\ claim.status # "processing"
    BY DEF Free
  <2>2. PICK a \in Running : TRUE
    <3>1. ~Expire
      BY DEF Expire
    <3>2. ASSUME NEW b \in Attempts, Step(b) PROVE b \in Running
      BY <2>1, <3>2 DEF Step, Claim, Taken, ReadClaim, ClaimRaises, RunPipeline, PipelineRaises,
           Complete, CompleteRaises, Release, ReleaseRaises, Running
    <3>3. ASSUME NEW dead \in SUBSET (Running \cup Reading), Crash(dead) PROVE Running # {}
      BY <3>3 DEF Crash
    <3> QED BY <3>1, <3>2, <3>3 DEF Next
  <2> QED BY <2>1, <2>2 DEF KeyFollowsWork
<1>2. Spec => [][Sticks]_vars
  BY <1>1, WorkInvariance, PTL DEF Spec
<1> QED BY <1>2 DEF ResultSticks

-----------------------------------------------------------------------------
(* The middlewares: who a request is served as *)

RequestFields == {"pc", "status", "identity", "input"}
FrontTyped ==
  /\ request = [r \in Requests |-> request[r]] /\ cells = [r \in Requests |-> cells[r]]
  /\ \A r \in Requests : request[r] = [x \in RequestFields |-> request[r][x]]

Resolved(r) == Door!ResolveIdentity(request[r].input.token)
Limited(r) ==
  settings.limiter = "memory" =>
    \E h \in hits : h.by = r /\ h.key = Door!RateKey(request[r].identity)

\* The limiter, the binding and the authentication have agreed on who asks.
Bound(r) ==
  /\ request[r].identity = Resolved(r) /\ request[r].identity # Door!NoIdentity
  /\ request[r].input.body.tenant \notin {None, Blank}
  /\ Door!BodyMatches(request[r].identity, request[r].input.body)
  /\ Limited(r)

\* What each layer leaves to the next.
Passed(r) ==
  /\ request[r].pc \in {"limit", "bind"} => request[r].identity \in {Door!NoIdentity, Resolved(r)}
  /\ request[r].pc = "bind" => Limited(r)
  /\ request[r].pc = "route" => Bound(r)
  /\ cells[r] # <<>> =>
       request[r].pc = "answered" /\ Bound(r) /\ request[r].input.body.user \notin {None, Blank}
\* Nothing is made of a request before it is answered.
EarlyEmpty == \A r \in Requests : request[r].pc # "answered" => cells[r] = <<>>
FrontInvariant == FrontTyped /\ EarlyEmpty /\ (settings.binding => \A r \in Requests : Passed(r))

\* Nothing has been asked yet.
LEMMA FrontInitial ==
  Door!Init => FrontInvariant
<1> SUFFICES ASSUME Door!Init PROVE FrontInvariant
  OBVIOUS
<1>1. PICK launch \in Launches :
        request = [r \in Requests |-> [pc |-> "arrived", status |-> 0, identity |-> Door!NoIdentity,
                                       input |-> launch.input[r]]]
  BY DEF Door!Init
<1>2. cells = [r \in Requests |-> <<>>]
  BY DEF Door!Init
<1> QED BY <1>1, <1>2 DEF FrontInvariant, FrontTyped, RequestFields, EarlyEmpty, Passed

\* A request that does not move stays as far as it was.
LEMMA OthersPass ==
  ASSUME NEW q \in Requests, Passed(q), request'[q] = request[q], cells'[q] = cells[q],
         hits \subseteq hits', settings' = settings
  PROVE  Passed(q)'
<1>1. Resolved(q)' = Resolved(q)
  BY DEF Resolved, Door!ResolveIdentity, Door!NoIdentity
<1>2. Limited(q) => Limited(q)'
  BY DEF Limited, Door!RateKey, Door!NoIdentity
<1>3. Bound(q) => Bound(q)'
  BY <1>1, <1>2 DEF Bound, Door!NoIdentity, Door!BodyMatches
<1> QED BY <1>1, <1>2, <1>3 DEF Passed, Door!NoIdentity

\* One request moves.
LEMMA OneMoves ==
  ASSUME FrontInvariant, NEW r \in Requests, NEW new,
         new = [x \in RequestFields |-> new[x]],
         request' = [request EXCEPT ![r] = new],
         cells' = [q \in Requests |-> IF q = r THEN cells'[r] ELSE cells[q]],
         hits \subseteq hits', settings' = settings,
         new.pc # "answered" => cells'[r] = <<>>, settings.binding => Passed(r)'
  PROVE  FrontInvariant'
<1>1. request' = [q \in Requests |-> IF q = r THEN new ELSE request[q]]
  BY DEF FrontInvariant, FrontTyped
<1>2. FrontTyped'
  BY <1>1 DEF FrontInvariant, FrontTyped
<1>3. ASSUME settings.binding, NEW q \in Requests PROVE Passed(q)'
  <2>1. CASE q = r
    BY <1>3, <2>1
  <2>2. CASE q # r
    <3>1. Passed(q) /\ request'[q] = request[q] /\ cells'[q] = cells[q]
      BY <1>1, <1>3, <2>2 DEF FrontInvariant
    <3> QED BY <3>1, OthersPass
  <2> QED BY <2>1, <2>2
<1>4. EarlyEmpty'
  BY <1>1 DEF FrontInvariant, EarlyEmpty
<1> QED BY <1>2, <1>3, <1>4 DEF FrontInvariant

\* A request that goes on: only its place changes.
LEMMA PassMoves ==
  ASSUME FrontInvariant, NEW r \in Requests, NEW place, Door!Pass(r, place),
         cells' = cells, hits \subseteq hits', settings' = settings, cells[r] = <<>>,
         settings.binding =>
           /\ place \in {"limit", "bind"} => request[r].identity \in {Door!NoIdentity, Resolved(r)}
           /\ place = "bind" => Limited(r)'
           /\ place = "route" => Bound(r)
  PROVE  FrontInvariant'
<1> DEFINE new == [request[r] EXCEPT !.pc = place]
<1>1. request' = [request EXCEPT ![r] = new]
  BY DEF Door!Pass
<1>2. /\ request[r] = [x \in RequestFields |-> request[r][x]]
      /\ request = [q \in Requests |-> request[q]] /\ cells = [q \in Requests |-> cells[q]]
  BY DEF FrontInvariant, FrontTyped
<1>3. /\ new = [x \in RequestFields |-> new[x]]
      /\ new.pc = place /\ new.identity = request[r].identity /\ new.input = request[r].input
  BY ONLY <1>2 DEF RequestFields
<1> HIDE DEF new
<1>4. request'[r] = new
  BY <1>1, <1>2
<1>5. cells' = [q \in Requests |-> IF q = r THEN cells'[r] ELSE cells[q]]
  BY <1>2
<1>6. Resolved(r)' = Resolved(r)
  BY <1>3, <1>4 DEF Resolved, Door!ResolveIdentity, Door!NoIdentity
<1>7. Bound(r) => Bound(r)'
  <2>1. Limited(r) => Limited(r)'
    BY <1>3, <1>4 DEF Limited, Door!RateKey, Door!NoIdentity
  <2> QED BY <1>3, <1>4, <1>6, <2>1 DEF Bound, Door!NoIdentity, Door!BodyMatches
<1>8. settings.binding => Passed(r)'
  BY <1>3, <1>4, <1>6, <1>7 DEF Passed, Door!NoIdentity
<1> QED BY <1>1, <1>2, <1>3, <1>5, <1>8, OneMoves

\* A request that is answered at the door makes no cells.
LEMMA AnswerMoves ==
  ASSUME FrontInvariant, NEW r \in Requests, NEW status, Door!Answer(r, status),
         cells' = cells, hits \subseteq hits', settings' = settings, cells[r] = <<>>
  PROVE  FrontInvariant'
<1> DEFINE new == [request[r] EXCEPT !.pc = "answered", !.status = status]
<1>1. request' = [request EXCEPT ![r] = new]
  BY DEF Door!Answer
<1>2. /\ request[r] = [x \in RequestFields |-> request[r][x]]
      /\ request = [q \in Requests |-> request[q]] /\ cells = [q \in Requests |-> cells[q]]
  BY DEF FrontInvariant, FrontTyped
<1>3. new = [x \in RequestFields |-> new[x]] /\ new.pc = "answered"
  BY ONLY <1>2 DEF RequestFields
<1> HIDE DEF new
<1>4. request'[r] = new
  BY <1>1, <1>2
<1>5. cells' = [q \in Requests |-> IF q = r THEN cells'[r] ELSE cells[q]]
  BY <1>2
<1>6. settings.binding => Passed(r)'
  BY <1>3, <1>4 DEF Passed
<1> QED BY <1>1, <1>3, <1>5, <1>6, OneMoves

\* The authentication leaves the identity that its token resolves to, or none.
LEMMA AuthenticateKeeps ==
  ASSUME FrontInvariant, NEW r \in Requests, Door!Authenticate(r)
  PROVE  FrontInvariant'
<1> DEFINE input == request[r].input
           known == Door!ResolveIdentity(input.token)
           id == CASE ~settings.auth -> Door!NoIdentity
                   [] settings.auth /\ known # Door!NoIdentity -> known
                   [] OTHER -> Door!GatewayIdentity(input)
           new == [request[r] EXCEPT !.pc = "limit", !.identity = id]
<1>1. /\ cells' = cells /\ hits' = hits /\ settings' = settings /\ cells[r] = <<>>
  BY DEF Door!Authenticate, FrontInvariant, EarlyEmpty
<1>2. CASE Door!CheckApiKey(input.token) # 0
  <2>1. Door!Answer(r, Door!CheckApiKey(input.token))
    BY <1>2 DEF Door!Authenticate
  <2> QED BY <1>1, <2>1, AnswerMoves
<1>3. CASE Door!CheckApiKey(input.token) = 0
  <2>1. request' = [request EXCEPT ![r] = new]
    BY <1>3 DEF Door!Authenticate
  <2>2. id \in {Door!NoIdentity, known}
    <3>1. settings.auth => input.token = settings.api_key
      BY <1>3 DEF Door!CheckApiKey
    <3> QED BY <3>1 DEF Door!GatewayIdentity
  <2> HIDE DEF id
  <2>3. /\ request[r] = [x \in RequestFields |-> request[r][x]]
        /\ request = [q \in Requests |-> request[q]] /\ cells = [q \in Requests |-> cells[q]]
    BY DEF FrontInvariant, FrontTyped
  <2>4. /\ new = [x \in RequestFields |-> new[x]]
        /\ new.pc = "limit" /\ new.identity = id /\ new.input = input
    BY ONLY <2>3 DEF RequestFields
  <2> HIDE DEF new
  <2>5. request'[r] = new
    BY <2>1, <2>3
  <2>6. cells' = [q \in Requests |-> IF q = r THEN cells'[r] ELSE cells[q]]
    BY <1>1, <2>3
  <2>7. Resolved(r)' = known
    BY <1>1, <2>4, <2>5 DEF Resolved, Door!ResolveIdentity, Door!NoIdentity
  <2>8. Passed(r)'
    BY <1>1, <2>2, <2>4, <2>5, <2>7 DEF Passed, Door!NoIdentity
  <2> QED BY <1>1, <2>1, <2>3, <2>4, <2>6, <2>8, OneMoves
<1> QED BY <1>2, <1>3

\* The limiter leaves a hit under that identity when it lets a request through.
LEMMA LimitRateKeeps ==
  ASSUME FrontInvariant, NEW r \in Requests, Door!LimitRate(r)
  PROVE  FrontInvariant'
<1> DEFINE key == Door!RateKey(request[r].identity)
<1>1. /\ cells' = cells /\ settings' = settings /\ cells[r] = <<>> /\ hits \subseteq hits'
      /\ request[r].pc = "limit"
      /\ \/ settings.limiter = "off" /\ Door!Pass(r, "bind")
         \/ Door!Pass(r, "bind") /\ hits' = hits \cup {[key |-> key, at |-> now, by |-> r]}
         \/ Door!Answer(r, 429)
  BY DEF Door!LimitRate, FrontInvariant, EarlyEmpty
<1>2. CASE Door!Answer(r, 429)
  BY <1>1, <1>2, AnswerMoves
<1>3. CASE Door!Pass(r, "bind")
  <2>1. settings.binding => request[r].identity \in {Door!NoIdentity, Resolved(r)}
    BY <1>1 DEF FrontInvariant, Passed
  <2>2. CASE Limited(r)'
    BY <1>1, <1>3, <2>1, <2>2, PassMoves
  <2>3. CASE Door!Answer(r, 429)
    BY <1>2, <2>3
  <2>4. request'[r].identity = request[r].identity
    BY <1>3 DEF Door!Pass, FrontInvariant, FrontTyped, RequestFields
  <2>5. CASE settings.limiter = "off"
    <3>1. Limited(r)'
      BY <1>1, <2>5 DEF Limited
    <3> QED BY <2>2, <3>1
  <2>6. CASE hits' = hits \cup {[key |-> key, at |-> now, by |-> r]}
    <3>1. [key |-> key, at |-> now, by |-> r] \in hits'
      BY <2>6
    <3>2. Limited(r)'
      BY <2>4, <3>1 DEF Limited, Door!RateKey, Door!NoIdentity
    <3> QED BY <2>2, <3>2
  <2> QED BY <1>1, <2>3, <2>5, <2>6
<1> QED BY <1>1, <1>2, <1>3

\* A limiter that is away leaves everything as it was.
LEMMA LimiterFailsKeeps ==
  ASSUME FrontInvariant, NEW r \in Requests, Door!LimiterFails(r)
  PROVE  FrontInvariant'
<1>1. /\ cells' = cells /\ settings' = settings /\ hits' = hits /\ cells[r] = <<>>
      /\ request[r].pc = "limit" /\ settings.limiter = "redis" /\ Door!Pass(r, "bind")
  BY DEF Door!LimiterFails, FrontInvariant, EarlyEmpty
<1>2. settings.binding => request[r].identity \in {Door!NoIdentity, Resolved(r)}
  BY <1>1 DEF FrontInvariant, Passed
<1>3. Limited(r)'
  BY <1>1 DEF Limited
<1> QED BY <1>1, <1>2, <1>3, PassMoves

\* The binding lets only matching bodies through.
LEMMA BindTenantKeeps ==
  ASSUME FrontInvariant, NEW r \in Requests, Door!BindTenant(r)
  PROVE  FrontInvariant'
<1> DEFINE identity == request[r].identity
           body == request[r].input.body
<1>1. /\ cells' = cells /\ settings' = settings /\ hits' = hits /\ cells[r] = <<>>
      /\ request[r].pc = "bind"
  BY DEF Door!BindTenant, FrontInvariant, EarlyEmpty
<1>2. \/ \E status \in {400, 403, 500} : Door!Answer(r, status)
      \/ ~settings.binding /\ Door!Pass(r, "route")
      \/ /\ identity # Door!NoIdentity /\ body.tenant \notin {None, Blank}
         /\ Door!BodyMatches(identity, body) /\ Door!Pass(r, "route")
  BY DEF Door!BindTenant
<1>3. CASE \E status \in {400, 403, 500} : Door!Answer(r, status)
  BY <1>1, <1>3, AnswerMoves
<1>4. CASE ~settings.binding /\ Door!Pass(r, "route")
  BY <1>1, <1>4, PassMoves
<1>5. CASE /\ identity # Door!NoIdentity /\ body.tenant \notin {None, Blank}
           /\ Door!BodyMatches(identity, body) /\ Door!Pass(r, "route")
  <2>1. settings.binding => Limited(r) /\ identity \in {Door!NoIdentity, Resolved(r)}
    BY <1>1 DEF FrontInvariant, Passed
  <2>2. settings.binding => Bound(r)
    BY <1>5, <2>1 DEF Bound
  <2> QED BY <1>1, <1>5, <2>2, PassMoves
<1> QED BY <1>2, <1>3, <1>4, <1>5

\* The schema lets only a named user pass, and what is written is of that body.
LEMMA IngestKeeps ==
  ASSUME FrontInvariant, NEW r \in Requests, Door!Ingest(r)
  PROVE  FrontInvariant'
<1> DEFINE body == request[r].input.body
<1>1. settings' = settings /\ hits' = hits /\ request[r].pc = "route" /\ cells[r] = <<>>
  BY DEF Door!Ingest, FrontInvariant, EarlyEmpty
<1>2. \/ cells' = cells /\ \E status \in {200, 422, 500} : Door!Answer(r, status)
      \/ /\ Door!Validates(body) /\ Door!Answer(r, 200)
         /\ \E made : cells' = [cells EXCEPT ![r] = made]
  <2>1. CASE ~Door!Validates(body)
    BY <2>1 DEF Door!Ingest
  <2>2. CASE Door!Validates(body) /\ body.sessions = <<>>
    BY <2>2 DEF Door!Ingest
  <2>3. CASE Door!Validates(body) /\ body.sessions # <<>>
    <3>1. PICK segments : IF segments = Door!Raised THEN Door!Answer(r, 500) /\ UNCHANGED cells
            ELSE /\ Door!Answer(r, 200)
                 /\ cells' = [cells EXCEPT ![r] = [i \in DOMAIN segments |-> Door!BuildCell(segments[i])]]
      BY <2>3 DEF Door!Ingest
    <3>2. CASE segments = Door!Raised
      BY <3>1, <3>2
    <3>3. CASE segments # Door!Raised
      BY <2>3, <3>1, <3>3
    <3> QED BY <3>2, <3>3
  <2> QED BY <2>1, <2>2, <2>3
<1>3. CASE cells' = cells /\ \E status \in {200, 422, 500} : Door!Answer(r, status)
  BY <1>1, <1>3, AnswerMoves
<1>4. CASE /\ Door!Validates(body) /\ Door!Answer(r, 200)
           /\ \E made : cells' = [cells EXCEPT ![r] = made]
  <2> DEFINE new == [request[r] EXCEPT !.pc = "answered", !.status = 200]
  <2>1. request' = [request EXCEPT ![r] = new]
    BY <1>4 DEF Door!Answer
  <2>2. /\ request[r] = [x \in RequestFields |-> request[r][x]]
        /\ request = [q \in Requests |-> request[q]] /\ cells = [q \in Requests |-> cells[q]]
    BY DEF FrontInvariant, FrontTyped
  <2>3. /\ new = [x \in RequestFields |-> new[x]] /\ new.pc = "answered"
        /\ new.identity = request[r].identity /\ new.input = request[r].input
    BY ONLY <2>2 DEF RequestFields
  <2> HIDE DEF new
  <2>4. request'[r] = new
    BY <2>1, <2>2
  <2>5. cells' = [q \in Requests |-> IF q = r THEN cells'[r] ELSE cells[q]]
    BY <1>4, <2>2
  <2>6. body.user \notin {None, Blank}
    BY <1>4 DEF Door!Validates
  <2>7. settings.binding => Bound(r)
    BY <1>1 DEF FrontInvariant, Passed
  <2>8. Bound(r) => Bound(r)'
    <3>1. Resolved(r)' = Resolved(r)
      BY <1>1, <2>3, <2>4 DEF Resolved, Door!ResolveIdentity, Door!NoIdentity
    <3>2. Limited(r) => Limited(r)'
      BY <1>1, <2>3, <2>4 DEF Limited, Door!RateKey, Door!NoIdentity
    <3> QED BY <2>3, <2>4, <3>1, <3>2 DEF Bound, Door!NoIdentity, Door!BodyMatches
  <2>9. settings.binding => Passed(r)'
    BY <2>3, <2>4, <2>6, <2>7, <2>8 DEF Passed
  <2> QED BY <1>1, <2>1, <2>2, <2>3, <2>5, <2>9, OneMoves
<1> QED BY <1>2, <1>3, <1>4

\* No step of any part disturbs what the layers have agreed on.
LEMMA FrontStep ==
  ASSUME FrontInvariant, [ClientNext]_<<part, vars, front, search>>
  PROVE  FrontInvariant'
<1>1. ASSUME NEW r \in Requests,
             Door!Authenticate(r) \/ Door!LimitRate(r) \/ Door!LimiterFails(r)
               \/ Door!BindTenant(r) \/ Door!Ingest(r)
      PROVE  FrontInvariant'
  <2>1. CASE Door!Authenticate(r)
    BY <2>1, AuthenticateKeeps
  <2>2. CASE Door!LimitRate(r)
    BY <2>2, LimitRateKeeps
  <2>3. CASE Door!LimiterFails(r)
    BY <2>3, LimiterFailsKeeps
  <2>4. CASE Door!BindTenant(r)
    BY <2>4, BindTenantKeeps
  <2>5. CASE Door!Ingest(r)
    BY <2>5, IngestKeeps
  <2> QED BY ONLY <1>1, <2>1, <2>2, <2>3, <2>4, <2>5
<1>2. CASE UNCHANGED <<settings, request, hits, cells>>
  <2>1. FrontTyped' /\ EarlyEmpty'
    BY <1>2 DEF FrontInvariant, FrontTyped, EarlyEmpty
  <2>2. ASSUME settings.binding, NEW q \in Requests PROVE Passed(q)'
    BY <1>2, <2>2, OthersPass DEF FrontInvariant
  <2> QED BY <1>2, <2>1, <2>2 DEF FrontInvariant
<1>3. CASE Door!Next
  BY <1>1, <1>2, <1>3 DEF Door!Next, Door!Tick
<1>4. CASE UNCHANGED front
  BY <1>2, <1>4 DEF front
<1> QED BY <1>3, <1>4 DEF ClientNext

\* The invariant says who the cells of a request are for.
LEMMA FrontGivesServed ==
  FrontInvariant => ServedAsBound
<1> SUFFICES ASSUME FrontInvariant, settings.binding, NEW r \in Requests, cells[r] # <<>>
             PROVE  LET bound == Door!ResolveIdentity(request[r].input.token)
                        body == request[r].input.body
                    IN /\ bound.tenant = body.tenant /\ body.tenant \notin {None, Blank}
                       /\ bound.user \in {None, body.user} /\ body.user \notin {None, Blank}
                       /\ settings.limiter = "memory" => \E h \in hits : h.by = r /\ h.key = bound
  BY DEF ServedAsBound, Door!ServedAsBound
<1>1. Bound(r) /\ request[r].input.body.user \notin {None, Blank}
  BY DEF FrontInvariant, Passed
<1>2. request[r].identity = Door!ResolveIdentity(request[r].input.token)
  BY <1>1 DEF Bound, Resolved
<1>3. Door!RateKey(request[r].identity) = request[r].identity
  BY <1>1 DEF Bound, Door!RateKey
<1> QED BY <1>1, <1>2, <1>3 DEF Bound, Limited, Door!BodyMatches

\* IngestFront: with tenant binding, a request writes cells only for the tenant and
\* the user that its claims or its key name, and it has passed the limiter under that
\* name or the limiter was away (the middlewares of api.py, security/identity.py).
THEOREM ServedAsBoundHolds == ClientSpec => []ServedAsBound
<1>1. ClientInit => FrontInvariant
  BY FrontInitial DEF ClientInit
<1>2. FrontInvariant /\ [ClientNext]_<<part, vars, front, search>> => FrontInvariant'
  BY FrontStep
<1>3. FrontInvariant => ServedAsBound
  BY FrontGivesServed
<1> QED BY <1>1, <1>2, <1>3, PTL DEF ClientSpec

-----------------------------------------------------------------------------
\* The instance counts as the theorems about cardinality count.
LEMMA SameCardinality ==
  ASSUME NEW S
  PROVE  R!Cardinality(S) = Cardinality(S)
BY DEF R!Cardinality, Cardinality

(* A query: numbers, sets of them, and orders *)

\* Induction over the naturals, for a set of them.
LEMMA AllNaturals ==
  ASSUME NEW S, 0 \in S, \A n \in Nat : n \in S => n + 1 \in S
  PROVE  \A n \in Nat : n \in S
<1> SUFFICES ASSUME NEW k \in Nat, k \notin S PROVE FALSE
  OBVIOUS
<1> DEFINE Bad == Nat \ S
<1>1. PICK n \in Bad : \A y \in Bad : ~ (<<y, n>> \in OpToRel(<, Nat))
  <2> HIDE DEF Bad
  <2>1. Bad \subseteq Nat /\ Bad # {}
    BY DEF Bad
  <2> QED BY <2>1, WFMin, NatLessThanWellFounded
<1>2. \A y \in Bad : ~ (y < n)
  BY <1>1 DEF OpToRel
<1>3. n \in Nat /\ n \notin S /\ n # 0
  BY <1>1
<1>4. n - 1 \in Nat /\ n - 1 < n /\ (n - 1) + 1 = n
  BY <1>3
<1>5. n - 1 \in S
  BY <1>2, <1>4
<1> QED BY <1>3, <1>4, <1>5

\* The least of some positions.
LEMMA LeastIs ==
  ASSUME NEW S, S \subseteq Nat, S # {}
  PROVE  /\ R!Min(S) \in S /\ \A y \in S : R!Min(S) <= y
<1>1. PICK n \in S : \A y \in S : ~ (<<y, n>> \in OpToRel(<, Nat))
  BY WFMin, NatLessThanWellFounded
<1>2. ASSUME NEW y \in S PROVE n <= y
  <2>1. y \in Nat /\ n \in Nat /\ ~ (y < n)
    BY <1>1 DEF OpToRel
  <2> QED BY ONLY <2>1
<1> QED BY <1>1, <1>2 DEF R!Min

\* The largest of finitely many integers.
LEMMA GreatestIs ==
  ASSUME NEW S, S \subseteq Int, S # {}, IsFiniteSet(S)
  PROVE  R!Max(S) \in S /\ \A y \in S : y <= R!Max(S)
<1> DEFINE Sized(n) == {T \in SUBSET S : IsFiniteSet(T) /\ Cardinality(T) = n}
           Good == {n \in Nat : \A T \in Sized(n + 1) : \E x \in T : \A y \in T : y <= x}
<1>1. 0 \in Good
  <2> SUFFICES ASSUME NEW T \in Sized(1) PROVE \E x \in T : \A y \in T : y <= x
    OBVIOUS
  <2>1. PICK x : T = {x}
    BY FS_Singleton
  <2> QED BY <2>1
<1>2. ASSUME NEW n \in Nat, n \in Good PROVE n + 1 \in Good
  <2> SUFFICES ASSUME NEW T \in Sized(n + 2) PROVE \E x \in T : \A y \in T : y <= x
    BY DEF Good
  <2>1. T # {}
    BY FS_EmptySet
  <2>2. PICK z \in T : TRUE
    BY <2>1
  <2>3. T \ {z} \in Sized(n + 1)
    BY <2>2, FS_RemoveElement
  <2>4. PICK x \in T \ {z} : \A y \in T \ {z} : y <= x
    BY <1>2, <2>3
  <2>5. x \in Int /\ z \in Int /\ \A y \in T : y \in Int
    BY <2>2, <2>4
  <2>6. CASE z <= x
    BY <2>4, <2>6
  <2>7. CASE ~(z <= x)
    BY <2>2, <2>4, <2>5, <2>7
  <2> QED BY <2>6, <2>7
<1> HIDE DEF Good
<1>3. \A n \in Nat : n \in Good
  BY <1>1, <1>2, AllNaturals
<1>4. Cardinality(S) \in Nat /\ Cardinality(S) # 0
  BY FS_CardinalityType, FS_EmptySet
<1>5. Cardinality(S) - 1 \in Good /\ S \in Sized(Cardinality(S) - 1 + 1)
  BY <1>3, <1>4
<1>6. \E x \in S : \A y \in S : y <= x
  BY <1>5 DEF Good
<1> QED BY <1>6 DEF R!Max

\* A total order of a finite set, as a relation.
Orders(before, S) ==
  /\ \A x \in S : <<x, x>> \notin before
  /\ \A x, y \in S : x # y => <<x, y>> \in before \/ <<y, x>> \in before
  /\ \A x, y, z \in S : <<x, y>> \in before /\ <<y, z>> \in before => <<x, z>> \in before

\* Its elements, each at one place, and earlier places for earlier elements.
LEMMA InOrderIs ==
  ASSUME NEW S, IsFiniteSet(S), NEW before, Orders(before, S)
  PROVE  LET o == R!InOrder(S, before)
             n == Cardinality(S)
         IN /\ n \in Nat /\ o \in [1..n -> S]
            /\ \A i, j \in 1..n : i < j => <<o[i], o[j]>> \in before
            /\ \A x \in S : \E i \in 1..n : o[i] = x
<1> DEFINE n == Cardinality(S)
           Pre(x) == {y \in S : <<y, x>> \in before}
           place == [x \in S |-> Cardinality(Pre(x)) + 1]
           o == R!InOrder(S, before)
<1>1. n \in Nat
  BY FS_CardinalityType
<1>2. ASSUME NEW x \in S
      PROVE  IsFiniteSet(Pre(x)) /\ Cardinality(Pre(x)) \in 0..(n - 1)
  <2>1. IsFiniteSet(S \ {x}) /\ Cardinality(S \ {x}) = n - 1
    BY FS_RemoveElement
  <2>2. Pre(x) \in SUBSET (S \ {x})
    BY DEF Orders
  <2> HIDE DEF Pre, n
  <2>3. IsFiniteSet(Pre(x)) /\ Cardinality(Pre(x)) <= n - 1
    BY <2>1, <2>2, FS_Subset
  <2>4. Cardinality(Pre(x)) \in Nat
    BY <2>3, FS_CardinalityType
  <2> QED BY <1>1, <2>3, <2>4
<1>3. ASSUME NEW x \in S, NEW y \in S, <<x, y>> \in before
      PROVE  Cardinality(Pre(x)) < Cardinality(Pre(y))
  <2>1. Pre(x) \in SUBSET Pre(y) /\ x \in Pre(y) /\ x \notin Pre(x)
    BY <1>3 DEF Orders
  <2>2. IsFiniteSet(Pre(y)) /\ Cardinality(Pre(x)) \in Nat /\ Cardinality(Pre(y)) \in Nat
    BY <1>1, <1>2
  <2> HIDE DEF Pre
  <2>3. Cardinality(Pre(x)) <= Cardinality(Pre(y)) /\ Cardinality(Pre(y)) # Cardinality(Pre(x))
    BY <2>1, <2>2, FS_Subset
  <2> QED BY <2>2, <2>3
<1>4. place \in [S -> 1..n]
  <2> SUFFICES ASSUME NEW x \in S PROVE Cardinality(Pre(x)) + 1 \in 1..n
    OBVIOUS
  <2>1. Cardinality(Pre(x)) \in 0..(n - 1)
    BY <1>2
  <2> HIDE DEF Pre, n
  <2> QED BY <1>1, <2>1
<1>5. \A x, y \in S : x # y => place[x] # place[y]
  <2> SUFFICES ASSUME NEW x \in S, NEW y \in S, x # y PROVE place[x] # place[y]
    OBVIOUS
  <2>1. Cardinality(Pre(x)) \in 0..(n - 1) /\ Cardinality(Pre(y)) \in 0..(n - 1)
    BY <1>2
  <2>2. Cardinality(Pre(x)) < Cardinality(Pre(y)) \/ Cardinality(Pre(y)) < Cardinality(Pre(x))
    <3>1. <<x, y>> \in before \/ <<y, x>> \in before
      BY DEF Orders
    <3> HIDE DEF Pre
    <3> QED BY <1>3, <3>1
  <2>3. place[x] = Cardinality(Pre(x)) + 1 /\ place[y] = Cardinality(Pre(y)) + 1
    OBVIOUS
  <2> HIDE DEF Pre, place, n
  <2> QED BY <1>1, <2>1, <2>2, <2>3
<1>6. ASSUME NEW i \in 1..n PROVE \E x \in S : place[x] = i
  <2>1. place \in Injection(S, 1..n)
    BY <1>4, <1>5 DEF Injection, IsInjective
  <2>2. IsFiniteSet(1..n) /\ Cardinality(1..n) = n
    BY <1>1, FS_Interval
  <2>3. place \in Surjection(S, 1..n)
    BY <2>1, <2>2, FS_Injection
  <2> QED BY <2>3 DEF Surjection
<1>11. o = [i \in 1..R!Cardinality(S) |-> CHOOSE x \in S : R!Cardinality(Pre(x)) = i - 1]
  BY DEF R!InOrder
<1>12. R!Cardinality(S) = n /\ \A x \in S : R!Cardinality(Pre(x)) = Cardinality(Pre(x))
  BY SameCardinality
<1>7. ASSUME NEW i \in 1..n PROVE o[i] \in S /\ place[o[i]] = i
  <2>1. o[i] = CHOOSE x \in S : R!Cardinality(Pre(x)) = i - 1
    <3> HIDE DEF Pre, o, n
    <3> QED BY <1>11, <1>12
  <2>2. PICK x \in S : place[x] = i
    BY <1>6
  <2>3. Cardinality(Pre(x)) \in 0..(n - 1) /\ place[x] = Cardinality(Pre(x)) + 1
    BY <1>2
  <2>4. Cardinality(Pre(x)) = i - 1
    <3> HIDE DEF Pre, place, n
    <3> QED BY <1>1, <2>2, <2>3
  <2>5. o[i] \in S /\ Cardinality(Pre(o[i])) = i - 1
    <3> HIDE DEF Pre, o, n
    <3>1. R!Cardinality(Pre(x)) = i - 1
      BY <1>12, <2>4
    <3>2. o[i] \in S /\ R!Cardinality(Pre(o[i])) = i - 1
      BY <2>1, <3>1
    <3> QED BY <1>12, <3>2
  <2>6. place[o[i]] = Cardinality(Pre(o[i])) + 1
    BY <2>5
  <2> HIDE DEF Pre, place, o, n
  <2> QED BY <1>1, <2>5, <2>6
<1>8. o \in [1..n -> S]
  <2> HIDE DEF o, n, place, Pre
  <2> QED BY <1>7, <1>11, <1>12
<1>9. ASSUME NEW i \in 1..n, NEW j \in 1..n, i < j PROVE <<o[i], o[j]>> \in before
  <2>1. o[i] \in S /\ o[j] \in S /\ place[o[i]] = i /\ place[o[j]] = j
    BY <1>7
  <2>2. o[i] # o[j]
    BY <2>1, <1>9, <1>1
  <2>3. ~ (<<o[j], o[i]>> \in before)
    <3> SUFFICES ASSUME <<o[j], o[i]>> \in before PROVE FALSE
      OBVIOUS
    <3>1. Cardinality(Pre(o[j])) < Cardinality(Pre(o[i]))
      BY <2>1, <1>3
    <3>2. Cardinality(Pre(o[j])) \in 0..(n - 1) /\ Cardinality(Pre(o[i])) \in 0..(n - 1)
      BY <1>2, <2>1
    <3>3. Cardinality(Pre(o[j])) + 1 = j /\ Cardinality(Pre(o[i])) + 1 = i
      BY <2>1
    <3> HIDE DEF Pre, o, n
    <3> QED BY ONLY <1>1, <3>1, <3>2, <3>3, <1>9
  <2> QED BY <2>1, <2>2, <2>3 DEF Orders
<1>10. ASSUME NEW x \in S PROVE \E i \in 1..n : o[i] = x
  <2>1. place[x] \in 1..n
    BY <1>4
  <2>2. o[place[x]] \in S /\ place[o[place[x]]] = place[x]
    BY <2>1, <1>7
  <2>3. o[place[x]] = x
    BY <2>2, <1>5
  <2> QED BY <2>1, <2>3
<1> HIDE DEF o, n
<1> QED BY <1>1, <1>8, <1>9, <1>10 DEF o, n

\* A list of hits that names no memory twice.
Hit == [id : Memories, score : Nat]
Once(l) == \A i, j \in 1..Len(l) : l[i].id = l[j].id => i = j
Listing == {l \in Seq(Hit) : Once(l)}

\* Lists given by their length and their elements.
LEMMA ListIs ==
  ASSUME NEW T, NEW n \in Nat, NEW l \in [1..n -> T]
  PROVE  l \in Seq(T) /\ Len(l) = n /\ DOMAIN l = 1..n
OBVIOUS

\* An element of a sequence.
LEMMA AtList ==
  ASSUME NEW T, NEW l \in Seq(T)
  PROVE  /\ Len(l) \in Nat /\ DOMAIN l = 1..Len(l) /\ l \in [1..Len(l) -> T]
         /\ \A i \in 1..Len(l) : l[i] \in T
OBVIOUS

\* A hit of a list of hits.
LEMMA AtHits ==
  ASSUME NEW l \in Seq(Hit)
  PROVE  /\ Len(l) \in Nat /\ DOMAIN l = 1..Len(l)
         /\ \A i \in 1..Len(l) : l[i] \in Hit /\ l[i].id \in Memories /\ l[i].score \in Nat
<1>1. \A i \in 1..Len(l) : l[i] \in Hit
  BY AtList
<1> QED BY <1>1 DEF Hit

\* The memories a list names.
LEMMA IdsAre ==
  ASSUME NEW l \in Seq(Hit)
  PROVE  /\ R!Ids(l) \subseteq Memories /\ IsFiniteSet(R!Ids(l))
         /\ \A i \in 1..Len(l) : l[i].id \in R!Ids(l)
         /\ \A m \in R!Ids(l) : \E i \in 1..Len(l) : l[i].id = m
         /\ Cardinality(R!Ids(l)) \in Nat
<1>1. \A i \in 1..Len(l) : l[i] \in Hit
  BY AtList
<1>2. R!Ids(l) = {l[i].id : i \in 1..Len(l)}
  BY DEF R!Ids
<1>3. R!Ids(l) \subseteq Memories
  BY <1>1, <1>2 DEF Hit
<1>4. IsFiniteSet(R!Ids(l))
  BY <1>3, FS_Subset, SearchAssumption
<1> QED BY <1>2, <1>3, <1>4, FS_CardinalityType

\* A list without repetition has as many hits as it names memories.
LEMMA OnceCounts ==
  ASSUME NEW l \in Seq(Hit), Once(l)
  PROVE  Cardinality(R!Ids(l)) = Len(l)
<1> DEFINE f == [i \in 1..Len(l) |-> l[i].id]
<1>1. f \in Bijection(1..Len(l), R!Ids(l))
  <2>1. \A i \in 1..Len(l) : f[i] = l[i].id /\ f[i] \in R!Ids(l)
    BY IdsAre
  <2>2. \A m \in R!Ids(l) : \E i \in 1..Len(l) : f[i] = m
    BY IdsAre
  <2>3. \A i, j \in 1..Len(l) : f[i] = f[j] => i = j
    BY <2>1 DEF Once
  <2>4. f \in [1..Len(l) -> R!Ids(l)]
    BY <2>1
  <2> HIDE DEF f
  <2> QED BY <2>2, <2>3, <2>4 DEF Bijection, Injection, Surjection, IsInjective
<1>2. Len(l) \in Nat
  OBVIOUS
<1>3. ExistsBijection(1..Len(l), R!Ids(l))
  BY <1>1 DEF ExistsBijection
<1> QED BY <1>2, <1>3, FS_CountingElements

\* The first place of a memory.
LEMMA PositionIs ==
  ASSUME NEW l \in Seq(Hit), NEW m \in R!Ids(l)
  PROVE  /\ R!Position(l, m) \in 1..Len(l)
         /\ l[R!Position(l, m)].id = m
         /\ \A i \in 1..Len(l) : l[i].id = m => R!Position(l, m) <= i
<1> DEFINE I == {i \in 1..Len(l) : l[i].id = m}
<1>1. I # {} /\ I \subseteq Nat
  BY IdsAre
<1>2. R!Position(l, m) = R!Min(I)
  BY <1>1 DEF R!Position, R!SelectInSeq
<1>3. R!Min(I) \in I /\ \A y \in I : R!Min(I) <= y
  BY <1>1, LeastIs
<1> QED BY <1>2, <1>3

\* There the first place is the only one.
LEMMA PositionOnce ==
  ASSUME NEW l \in Seq(Hit), Once(l), NEW i \in 1..Len(l)
  PROVE  R!Position(l, l[i].id) = i
BY IdsAre, PositionIs DEF Once

-----------------------------------------------------------------------------
(* A query: lists by score *)

Ahead(l, score) ==
  {p \in R!Ids(l) \X R!Ids(l) :
     \/ score[p[1]] > score[p[2]]
     \/ score[p[1]] = score[p[2]] /\ R!Position(l, p[1]) < R!Position(l, p[2])}

\* By score, then by first place, is a total order.
LEMMA AheadOrders ==
  ASSUME NEW l \in Seq(Hit), NEW score \in [R!Ids(l) -> Nat]
  PROVE  Orders(Ahead(l, score), R!Ids(l))
<1> DEFINE pos == [m \in R!Ids(l) |-> R!Position(l, m)]
           Goes(x, y) == score[x] > score[y] \/ (score[x] = score[y] /\ pos[x] < pos[y])
<1>1. \A x, y \in R!Ids(l) : <<x, y>> \in Ahead(l, score) <=> Goes(x, y)
  BY DEF Ahead
<1>2. \A x \in R!Ids(l) : pos[x] \in Nat /\ l[pos[x]].id = x /\ score[x] \in Nat
  BY PositionIs
<1>3. \A x, y \in R!Ids(l) : pos[x] = pos[y] => x = y
  BY <1>2
<1>4. \A x \in R!Ids(l) : ~ Goes(x, x)
  BY <1>2
<1>5. \A x, y \in R!Ids(l) : x # y => Goes(x, y) \/ Goes(y, x)
  <2> HIDE DEF pos
  <2> QED BY <1>2, <1>3
<1>6. \A x, y, z \in R!Ids(l) : Goes(x, y) /\ Goes(y, z) => Goes(x, z)
  <2> HIDE DEF pos
  <2> QED BY <1>2
<1> HIDE DEF Goes
<1> QED BY <1>1, <1>4, <1>5, <1>6 DEF Orders

\* A ranking lists the memories of the list, each once, by score.
LEMMA RankingIs ==
  ASSUME NEW l \in Seq(Hit), NEW score \in [R!Ids(l) -> Nat]
  PROVE  LET r == R!Ranking(l, score)
         IN /\ r \in Listing
            /\ R!Ids(r) = R!Ids(l) /\ Len(r) = Cardinality(R!Ids(l))
            /\ \A i \in 1..Len(r) : r[i].score = score[r[i].id]
            /\ \A i, j \in 1..Len(r) : i < j => <<r[i].id, r[j].id>> \in Ahead(l, score)
<1> DEFINE S == R!Ids(l)
           n == Cardinality(S)
           o == R!InOrder(S, Ahead(l, score))
           r == R!Ranking(l, score)
<1>1. /\ n \in Nat /\ o \in [1..n -> S]
      /\ \A i, j \in 1..n : i < j => <<o[i], o[j]>> \in Ahead(l, score)
      /\ \A x \in S : \E i \in 1..n : o[i] = x
  <2> DEFINE before == Ahead(l, score)
  <2>1. Orders(before, S) /\ IsFiniteSet(S)
    BY AheadOrders, IdsAre
  <2> HIDE DEF before, S
  <2> QED BY <2>1, InOrderIs DEF before
<1>2. r = [i \in 1..Len(o) |-> [id |-> o[i], score |-> score[o[i]]]]
  BY DEF R!Ranking, Ahead
<1>3. Len(o) = n
  <2> HIDE DEF o, n, S
  <2> QED BY <1>1
<1>4. S \subseteq Memories
  BY IdsAre
<1>5. /\ r \in [1..n -> Hit]
      /\ \A i \in 1..n : r[i].id = o[i] /\ r[i].score = score[o[i]]
  <2> SUFFICES ASSUME NEW i \in 1..n
               PROVE  [id |-> o[i], score |-> score[o[i]]] \in Hit
    BY <1>2, <1>3
  <2>1. o[i] \in S /\ o[i] \in Memories /\ score[o[i]] \in Nat
    BY <1>1, <1>4
  <2> QED BY <2>1 DEF Hit
<1> HIDE DEF r, o, n, S
<1>6. r \in Seq(Hit) /\ Len(r) = n
  BY <1>1, <1>5
<1>7. \A i, j \in 1..n : i < j => o[i] # o[j]
  <2> SUFFICES ASSUME NEW i \in 1..n, NEW j \in 1..n, i < j, o[i] = o[j] PROVE FALSE
    OBVIOUS
  <2>1. <<o[i], o[i]>> \in Ahead(l, score) /\ o[i] \in S
    BY <1>1
  <2> QED BY <2>1, AheadOrders DEF Orders, S
<1>8. Once(r)
  <2> SUFFICES ASSUME NEW i \in 1..n, NEW j \in 1..n, r[i].id = r[j].id PROVE i = j
    BY <1>6 DEF Once
  <2>1. o[i] = o[j]
    BY <1>5
  <2> QED BY <1>1, <1>7, <2>1
<1>9. R!Ids(r) = S
  <2>1. R!Ids(r) = {r[i].id : i \in 1..n}
    BY <1>6 DEF R!Ids
  <2>2. \A i \in 1..n : r[i].id = o[i] /\ o[i] \in S
    BY <1>1, <1>5
  <2> QED BY <1>1, <2>1, <2>2
<1> QED BY <1>1, <1>5, <1>6, <1>8, <1>9 DEF Listing, r, n, S, o

\* The channels are asked for at least as many hits as the answer may hold, unless
\* the request gives a negative factor.
LEMMA LimitIs ==
  ASSUME asked \in R!RetrieveMemRequest, NEW c
  PROVE  /\ R!Limit(c) \in Nat \ {0} /\ asked.top_k \in 1..100
         /\ asked.over_fetch >= 0 => R!Limit(c) >= asked.top_k
<1> DEFINE k == asked.top_k
           x == IF asked.over_fetch = 0 THEN OverFetch ELSE asked.over_fetch
           recall == R!RecallK
<1>1. k \in 1..100 /\ asked.over_fetch \in Int /\ x \in Int /\ (asked.over_fetch >= 0 => x >= 1)
  BY SearchAssumption DEF R!RetrieveMemRequest
<1>2. k * x \in Int
  BY <1>1
<1>3. recall = R!Max({1, k * x})
  BY DEF R!RecallK
<1>4. recall \in Int /\ recall >= 1 /\ recall >= k * x
  <2> HIDE DEF k, x, recall
  <2>1. {1, k * x} \subseteq Int /\ {1, k * x} # {} /\ IsFiniteSet({1, k * x})
    <3>1. IsFiniteSet({1}) /\ IsFiniteSet({1} \cup {k * x}) /\ {1, k * x} = {1} \cup {k * x}
      BY FS_AddElement, FS_Singleton
    <3> QED BY <1>2, <3>1
  <2>2. recall \in {1, k * x} /\ \A y \in {1, k * x} : y <= recall
    BY <1>3, <2>1, GreatestIs
  <2> QED BY <1>2, <2>2
<1>5. asked.over_fetch >= 0 => recall >= k
  <2> HIDE DEF k, x, recall
  <2>1. \A a, b \in Nat : a >= 1 /\ b >= 1 => a * b >= a
    OBVIOUS
  <2>2. asked.over_fetch >= 0 => k * x >= k
    BY <1>1, <2>1
  <2> QED BY <1>1, <1>2, <1>4, <2>2
<1>6. R!Limit(c) = IF c \in {"bm25", "vector"} THEN recall * ChannelFetch ELSE recall
  BY DEF R!Limit
<1>7. recall * ChannelFetch \in Nat /\ recall * ChannelFetch >= recall
  <2> HIDE DEF recall
  <2>1. \A a, b \in Nat : a >= 1 /\ b >= 1 => a * b \in Nat /\ a * b >= a
    OBVIOUS
  <2> QED BY <1>4, <2>1, SearchAssumption
<1> HIDE DEF recall, k, x
<1> QED BY <1>1, <1>4, <1>5, <1>6, <1>7 DEF k

\* What a channel returns: what it found, by score, or as many as its limit.
LEMMA HitsAre ==
  ASSUME query \in Queries, NEW c \in R!Channels, R!Limit(c) \in Nat,
         NEW found \in SUBSET Memories, NEW l \in R!Hits(c, found)
  PROVE  /\ l \in Listing /\ R!Ids(l) \subseteq found
         /\ \/ Len(l) = R!Limit(c)
            \/ Len(l) = Cardinality(found) /\ R!Ids(l) = found
         /\ \A i \in 1..Len(l) :
              l[i].score = IF c = "graph" THEN One ELSE query[c][l[i].id] * One
         /\ \A i, j \in 1..Len(l) : i < j => l[i].score >= l[j].score
<1> DEFINE Score(m) == IF c = "graph" THEN One ELSE query[c][m] * One
           k == Cardinality(found)
<1>1. PICK p \in R!SetToSeqs(found) :
        /\ \A i, j \in DOMAIN p : i < j => Score(p[i]) >= Score(p[j])
        /\ l = [i \in 1..R!Min({Len(p), R!Limit(c)}) |-> [id |-> p[i], score |-> Score(p[i])]]
  BY DEF R!Hits
<1>2. IsFiniteSet(found) /\ k \in Nat
  BY FS_Subset, FS_CardinalityType, SearchAssumption
<1>3. p \in [1..k -> found] /\ \A i, j \in 1..k : i # j => p[i] # p[j]
  BY SameCardinality DEF R!SetToSeqs
<1>4. Len(p) = k
  <2> HIDE DEF k
  <2> QED BY <1>2, <1>3
<1> DEFINE n == R!Min({Len(p), R!Limit(c)})
<1>5. n \in Nat /\ n <= k /\ (n = k \/ n = R!Limit(c))
  <2> HIDE DEF k
  <2>1. {k, R!Limit(c)} \subseteq Nat /\ {k, R!Limit(c)} # {}
    BY <1>2
  <2> QED BY <1>4, <2>1, LeastIs
<1>6. \A m \in Memories : Score(m) \in Nat
  BY SearchAssumption
<1>7. /\ l \in [1..n -> Hit]
      /\ \A i \in 1..n : l[i].id = p[i] /\ l[i].score = Score(p[i]) /\ p[i] \in found
  <2> SUFFICES ASSUME NEW i \in 1..n
               PROVE  [id |-> p[i], score |-> Score(p[i])] \in Hit /\ p[i] \in found
    BY <1>1
  <2>1. p[i] \in found /\ p[i] \in Memories /\ Score(p[i]) \in Nat
    <3>1. i \in 1..k
      <4> HIDE DEF k, n
      <4> QED BY <1>2, <1>5
    <3>2. p[i] \in found
      BY <1>3, <3>1
    <3> QED BY <1>6, <3>2
  <2> HIDE DEF Score
  <2> QED BY <2>1 DEF Hit
<1> HIDE DEF n, k
<1>8. l \in Seq(Hit) /\ Len(l) = n
  BY <1>5, <1>7
<1>9. Once(l)
  <2> SUFFICES ASSUME NEW i \in 1..n, NEW j \in 1..n, l[i].id = l[j].id PROVE i = j
    BY <1>8 DEF Once
  <2>1. p[i] = p[j] /\ i \in 1..k /\ j \in 1..k
    BY <1>2, <1>5, <1>7
  <2> QED BY <1>3, <2>1
<1>10. R!Ids(l) = {l[i].id : i \in 1..n}
  BY <1>8 DEF R!Ids
<1>11. R!Ids(l) \subseteq found
  BY <1>7, <1>10
<1>12. n = k => R!Ids(l) = found
  <2> SUFFICES ASSUME n = k PROVE R!Ids(l) = found
    OBVIOUS
  <2>1. Cardinality(R!Ids(l)) = k
    BY <1>8, <1>9, OnceCounts
  <2> QED BY <1>2, <1>11, <2>1, FS_Subset DEF k
<1>13. \A i \in 1..n : l[i].score = Score(l[i].id)
  BY <1>7
<1>14. ASSUME NEW i \in 1..n, NEW j \in 1..n, i < j PROVE l[i].score >= l[j].score
  <2>1. i \in DOMAIN p /\ j \in DOMAIN p
    BY <1>2, <1>3, <1>5
  <2> HIDE DEF Score
  <2> QED BY <1>1, <1>7, <1>14, <2>1
<1> QED BY <1>5, <1>8, <1>9, <1>11, <1>12, <1>13, <1>14 DEF Listing, k

-----------------------------------------------------------------------------
(* A query: fusion *)

\* What two lists name, one after the other.
LEMMA IdsJoin ==
  ASSUME NEW a \in Seq(Hit), NEW b \in Seq(Hit)
  PROVE  a \o b \in Seq(Hit) /\ R!Ids(a \o b) = R!Ids(a) \cup R!Ids(b)
<1>1. a \o b \in Seq(Hit) /\ Len(a \o b) = Len(a) + Len(b) /\ Len(a) \in Nat /\ Len(b) \in Nat
  OBVIOUS
<1>2. \A i \in 1..Len(a \o b) :
        (a \o b)[i] = IF i <= Len(a) THEN a[i] ELSE b[i - Len(a)]
  BY <1>1
<1>3. ASSUME NEW m \in R!Ids(a \o b) PROVE m \in R!Ids(a) \cup R!Ids(b)
  <2>1. PICK i \in 1..Len(a \o b) : (a \o b)[i].id = m
    BY <1>1, IdsAre
  <2>2. CASE i <= Len(a)
    <3>1. i \in 1..Len(a) /\ a[i].id = m
      BY <1>1, <1>2, <2>1, <2>2
    <3> QED BY <3>1, IdsAre
  <2>3. CASE ~ (i <= Len(a))
    <3>1. i - Len(a) \in 1..Len(b) /\ b[i - Len(a)].id = m
      BY <1>1, <1>2, <2>1, <2>3
    <3> QED BY <3>1, IdsAre
  <2> QED BY <2>2, <2>3
<1>4. ASSUME NEW m \in R!Ids(a) PROVE m \in R!Ids(a \o b)
  <2>1. PICK i \in 1..Len(a) : a[i].id = m
    BY IdsAre
  <2>2. i \in 1..Len(a \o b) /\ (a \o b)[i].id = m
    BY <1>1, <1>2, <2>1
  <2> QED BY <1>1, <2>2, IdsAre
<1>5. ASSUME NEW m \in R!Ids(b) PROVE m \in R!Ids(a \o b)
  <2>1. PICK i \in 1..Len(b) : b[i].id = m
    BY IdsAre
  <2>2. i + Len(a) \in 1..Len(a \o b) /\ (a \o b)[i + Len(a)].id = m
    BY <1>1, <1>2, <2>1
  <2> QED BY <1>1, <2>2, IdsAre
<1> QED BY <1>1, <1>3, <1>4, <1>5

\* The list of no hits.
LEMMA EmptyIds ==
  << >> \in Seq(Hit) /\ R!Ids(<< >>) = {} /\ Once(<< >>)
BY DEF R!Ids, Once

\* The merged list names what the channels that count name.
LEMMA JoinedIs ==
  ASSUME NEW counted, NEW outs \in [R!Channels -> Seq(Hit)]
  PROVE  /\ R!Joined(counted, outs) \in Seq(Hit)
         /\ R!Ids(R!Joined(counted, outs)) =
              UNION {R!Ids(outs[c]) : c \in R!Channels \cap counted}
<1> DEFINE Of(c) == IF c \in counted THEN outs[c] ELSE <<>>
           Named(c) == IF c \in counted THEN R!Ids(outs[c]) ELSE {}
<1>1. R!Channels = {"bm25", "vector", "entity", "graph"}
  BY DEF R!Channels
<1>2. \A c \in R!Channels : Of(c) \in Seq(Hit) /\ R!Ids(Of(c)) = Named(c)
  BY EmptyIds
<1>3. R!Joined(counted, outs) = Of("bm25") \o Of("vector") \o Of("entity") \o Of("graph")
  BY DEF R!Joined
<1>4. /\ R!Joined(counted, outs) \in Seq(Hit)
      /\ R!Ids(R!Joined(counted, outs)) =
           Named("bm25") \cup Named("vector") \cup Named("entity") \cup Named("graph")
  <2> HIDE DEF Of, Named
  <2> DEFINE x == Of("bm25") \o Of("vector")
             y == x \o Of("entity")
  <2>1. x \in Seq(Hit) /\ R!Ids(x) = Named("bm25") \cup Named("vector")
    BY <1>1, <1>2, IdsJoin
  <2> HIDE DEF x
  <2>2. y \in Seq(Hit) /\ R!Ids(y) = R!Ids(x) \cup Named("entity")
    BY <1>1, <1>2, <2>1, IdsJoin
  <2> HIDE DEF y
  <2>3. /\ y \o Of("graph") \in Seq(Hit)
        /\ R!Ids(y \o Of("graph")) = R!Ids(y) \cup Named("graph")
    BY <1>1, <1>2, <2>2, IdsJoin
  <2>4. R!Joined(counted, outs) = y \o Of("graph")
    BY <1>3 DEF x, y
  <2> QED BY <2>1, <2>2, <2>3, <2>4
<1>5. Named("bm25") \cup Named("vector") \cup Named("entity") \cup Named("graph") =
        UNION {R!Ids(outs[c]) : c \in R!Channels \cap counted}
  BY <1>1
<1> QED BY <1>4, <1>5

\* A quotient of naturals.
LEMMA QuotientIs ==
  ASSUME NEW a \in Nat, NEW b \in Nat \ {0}
  PROVE  a \div b \in Nat
OBVIOUS

\* What fuse() adds up for a memory.
Part(counted, outs, c, m) ==
  IF c \in counted /\ m \in R!Ids(outs[c])
  THEN R!Contribution(Weight[c], R!Position(outs[c], m)) ELSE 0
Total(counted, outs, m) ==
  Part(counted, outs, "bm25", m) + Part(counted, outs, "vector", m)
    + Part(counted, outs, "entity", m) + Part(counted, outs, "graph", m)
Counted(answered) == {c \in answered : Weight[c] > 0}

\* A contribution is a natural number.
LEMMA PartIs ==
  ASSUME NEW counted, \A c \in counted : Weight[c] > 0,
         NEW outs \in [R!Channels -> Seq(Hit)], NEW c \in R!Channels, NEW m
  PROVE  Part(counted, outs, c, m) \in Nat
<1> SUFFICES ASSUME c \in counted, m \in R!Ids(outs[c])
             PROVE  R!Contribution(Weight[c], R!Position(outs[c], m)) \in Nat
  BY DEF Part
<1> DEFINE place == R!Position(outs[c], m)
<1>1. place \in Nat /\ place > 0
  BY PositionIs
<1>2. Weight[c] \in Nat /\ One \in Nat /\ RrfK \in Nat
  BY SearchAssumption
<1>3. Weight[c] * One \in Nat /\ 100 * (RrfK + place) \in Nat \ {0}
  <2> HIDE DEF place
  <2> QED BY <1>1, <1>2
<1> QED BY <1>3, QuotientIs DEF R!Contribution

\* The fused list has each memory once, and every one that a counted channel names.
LEMMA FuseIs ==
  ASSUME NEW answered \in SUBSET R!Channels, NEW outs \in [R!Channels -> Seq(Hit)]
  PROVE  LET all == R!Joined(Counted(answered), outs)
             score == [m \in R!Ids(all) |-> Total(Counted(answered), outs, m)]
         IN /\ R!Fuse(answered, outs) = R!Ranking(all, score)
            /\ all \in Seq(Hit) /\ score \in [R!Ids(all) -> Nat]
<1> DEFINE counted == Counted(answered)
           all == R!Joined(counted, outs)
           score == [m \in R!Ids(all) |-> Total(counted, outs, m)]
<1>1. R!Fuse(answered, outs) = R!Ranking(all, score)
  BY DEF R!Fuse, Counted, Total, Part
<1>2. all \in Seq(Hit)
  BY JoinedIs
<1>3. ASSUME NEW m PROVE Total(counted, outs, m) \in Nat
  <2>1. R!Channels = {"bm25", "vector", "entity", "graph"}
    BY DEF R!Channels
  <2>2. \A c \in counted : Weight[c] > 0
    BY DEF Counted
  <2> HIDE DEF counted
  <2>3. \A c \in R!Channels : Part(counted, outs, c, m) \in Nat
    BY <2>2, PartIs
  <2> QED BY <2>1, <2>3 DEF Total
<1>4. score \in [R!Ids(all) -> Nat]
  <2> HIDE DEF counted, all
  <2> QED BY <1>3
<1> HIDE DEF counted, all, score
<1> QED BY <1>1, <1>2, <1>4 DEF counted, all, score

\* The best score of a memory in the merged list.
Scores(l, m) == {h.score : h \in {x \in R!ToSet(l) : x.id = m}}

\* The best score is one that the list has, and no other is better.
LEMMA ScoresAre ==
  ASSUME NEW l \in Seq(Hit), NEW m \in R!Ids(l)
  PROVE  /\ R!Max(Scores(l, m)) \in Nat
         /\ \E i \in 1..Len(l) : l[i].id = m /\ l[i].score = R!Max(Scores(l, m))
         /\ \A i \in 1..Len(l) : l[i].id = m => l[i].score <= R!Max(Scores(l, m))
<1> DEFINE I == {i \in 1..Len(l) : l[i].id = m}
           S == {l[i].score : i \in I}
<1>1. \A i \in 1..Len(l) : l[i] \in Hit /\ l[i].score \in Nat
  BY AtHits
<1>2. Scores(l, m) = S
  BY AtHits DEF Scores, R!ToSet
<1>3. S \subseteq Int /\ S # {}
  <2>1. PICK i \in 1..Len(l) : l[i].id = m
    BY IdsAre
  <2>2. l[i].score \in S
    BY <2>1
  <2>3. \A y \in S : y \in Int
    BY <1>1
  <2> QED BY <2>2, <2>3
<1>4. IsFiniteSet(S)
  <2> DEFINE f == [i \in I |-> l[i].score]
  <2>1. IsFiniteSet(I)
    <3>1. Len(l) \in Nat
      OBVIOUS
    <3>2. IsFiniteSet(1..Len(l)) /\ I \subseteq 1..Len(l)
      BY <3>1, FS_Interval
    <3> QED BY <3>2, FS_Subset
  <2>2. f \in Surjection(I, S)
    BY DEF Surjection
  <2> HIDE DEF f, I, S
  <2> QED BY <2>1, <2>2, FS_Surjection
<1>5. R!Max(S) \in S /\ \A y \in S : y <= R!Max(S)
  <2> HIDE DEF S
  <2> QED BY <1>3, <1>4, GreatestIs
<1>6. \E i \in 1..Len(l) : l[i].id = m /\ l[i].score = R!Max(S)
  BY <1>5
<1>7. \A i \in 1..Len(l) : l[i].id = m => l[i].score <= R!Max(S)
  BY <1>5
<1>8. R!Max(S) \in Nat
  BY <1>1, <1>6
<1> QED BY <1>2, <1>6, <1>7, <1>8

\* The merged list without a fuser, likewise by the best scores.
LEMMA FlatIs ==
  ASSUME NEW answered \in SUBSET R!Channels, NEW outs \in [R!Channels -> Seq(Hit)]
  PROVE  LET all == R!Joined(answered, outs)
             score == [m \in R!Ids(all) |-> R!Max(Scores(all, m))]
         IN /\ R!FlatConcat(answered, outs) = R!Ranking(all, score)
            /\ all \in Seq(Hit) /\ score \in [R!Ids(all) -> Nat]
<1> DEFINE all == R!Joined(answered, outs)
           score == [m \in R!Ids(all) |-> R!Max(Scores(all, m))]
<1>1. R!FlatConcat(answered, outs) = R!Ranking(all, score)
  BY DEF R!FlatConcat, Scores
<1>2. all \in Seq(Hit)
  BY JoinedIs
<1>3. score \in [R!Ids(all) -> Nat]
  <2> HIDE DEF all
  <2> QED BY <1>2, ScoresAre
<1> HIDE DEF all, score
<1> QED BY <1>1, <1>2, <1>3 DEF all, score

\* The boosted list is the fused one in another order.
LEMMA BoostIs ==
  ASSUME NEW l \in Seq(Hit), NEW known \in SUBSET Memories
  PROVE  LET score == [m \in R!Ids(l) |->
                         (l[R!Position(l, m)].score
                            * (IF m \in known THEN Factor[m] ELSE 10)) \div 10]
         IN R!Boost(l, known) = R!Ranking(l, score) /\ score \in [R!Ids(l) -> Nat]
<1> DEFINE Boosted(m) == (l[R!Position(l, m)].score
                            * (IF m \in known THEN Factor[m] ELSE 10)) \div 10
           score == [m \in R!Ids(l) |-> Boosted(m)]
<1>1. R!Boost(l, known) = R!Ranking(l, score)
  BY DEF R!Boost
<1>2. ASSUME NEW m \in R!Ids(l) PROVE Boosted(m) \in Nat
  <2> DEFINE s == l[R!Position(l, m)].score
             f == IF m \in known THEN Factor[m] ELSE 10
  <2>1. s \in Nat
    BY PositionIs, AtHits
  <2>2. f \in Nat
    BY SearchAssumption
  <2> HIDE DEF s, f
  <2>3. s * f \in Nat
    BY <2>1, <2>2
  <2>4. (s * f) \div 10 \in Nat
    BY <2>3, QuotientIs
  <2> QED BY <2>4 DEF s, f
<1>3. score \in [R!Ids(l) -> Nat]
  <2> HIDE DEF Boosted
  <2> QED BY <1>2
<1> QED BY <1>1, <1>3

\* A list read at increasing places.
Picks(f, l, places) ==
  /\ places \in [1..Len(f) -> 1..Len(l)]
  /\ \A i, j \in 1..Len(f) : i < j => places[i] < places[j]
  /\ \A i \in 1..Len(f) : f[i] = l[places[i]]

\* A list of what is at n different places of l.
PicksAt(f, l, n, places) ==
  /\ n \in Nat /\ f \in [1..n -> Hit] /\ places \in [1..n -> 1..Len(l)]
  /\ \A i, j \in 1..n : i # j => places[i] # places[j]
  /\ \A i \in 1..n : f[i] = l[places[i]]

\* Different places of a list give a list without repetition.
LEMMA PicksIs ==
  ASSUME NEW l \in Listing, NEW n, NEW places, NEW f, PicksAt(f, l, n, places)
  PROVE  f \in Listing /\ Len(f) = n /\ R!Ids(f) \subseteq R!Ids(l)
<1> USE DEF PicksAt
<1>1. l \in Seq(Hit) /\ Once(l) /\ \A i \in 1..Len(l) : l[i] \in Hit
  BY AtHits DEF Listing
<1>2. \A i \in 1..n : f[i] = l[places[i]] /\ places[i] \in 1..Len(l)
  OBVIOUS
<1>3. f \in Seq(Hit) /\ Len(f) = n
  OBVIOUS
<1>4. Once(f)
  BY <1>1, <1>2, <1>3 DEF Once
<1>5. R!Ids(f) = {f[i].id : i \in 1..n}
  BY <1>3 DEF R!Ids
<1>6. R!Ids(f) \subseteq R!Ids(l)
  BY <1>1, <1>2, <1>5, IdsAre
<1> QED BY <1>3, <1>4, <1>6 DEF Listing

\* The first n numbers.
LEMMA UpTo ==
  ASSUME NEW n \in Nat
  PROVE  IsFiniteSet(1..n) /\ Cardinality(1..n) = n
<1>1. Cardinality(1..n) = IF 1 > n THEN 0 ELSE n - 1 + 1
  BY FS_Interval
<1> QED BY <1>1, FS_Interval

\* Places are ordered as numbers.
LEMMA PlacesOrder ==
  ASSUME NEW S \in SUBSET Nat
  PROVE  Orders({p \in S \X S : p[1] < p[2]}, S)
<1>1. \A x, y \in S : <<x, y>> \in {p \in S \X S : p[1] < p[2]} <=> x < y
  OBVIOUS
<1>2. /\ \A x \in S : ~ (x < x)
      /\ \A x, y \in S : x # y => x < y \/ y < x
      /\ \A x, y, z \in S : x < y /\ y < z => x < z
  OBVIOUS
<1> QED BY <1>1, <1>2 DEF Orders

\* The filter keeps the order and what reaches the threshold, everything when it is 0.
LEMMA FilteredIs ==
  ASSUME app \in Deployments, NEW l \in Listing
  PROVE  /\ R!Filtered(l) \in Listing /\ R!Ids(R!Filtered(l)) \subseteq R!Ids(l)
         /\ \E places : Picks(R!Filtered(l), l, places)
         /\ app.threshold = 0 =>
              R!Ids(R!Filtered(l)) = R!Ids(l) /\ Len(R!Filtered(l)) = Len(l)
<1> DEFINE bar == app.threshold * (One \div 10)
           S == {i \in DOMAIN l : l[i].score >= bar}
           n == Cardinality(S)
           less == {p \in S \X S : p[1] < p[2]}
           places == R!InOrder(S, less)
           f == R!Filtered(l)
<1>1. l \in Seq(Hit) /\ Once(l) /\ DOMAIN l = 1..Len(l) /\ Len(l) \in Nat
      /\ \A i \in 1..Len(l) : l[i] \in Hit /\ l[i].score \in Nat
  BY AtHits DEF Listing
<1>2. IsFiniteSet(S) /\ S \in SUBSET Nat /\ S \subseteq 1..Len(l)
  <2>1. IsFiniteSet(1..Len(l))
    BY <1>1, UpTo
  <2>2. S \subseteq 1..Len(l)
    BY <1>1
  <2> QED BY <2>1, <2>2, FS_Subset
<1>3. /\ n \in Nat /\ places \in [1..n -> S]
      /\ \A i, j \in 1..n : i < j => <<places[i], places[j]>> \in less
      /\ \A x \in S : \E i \in 1..n : places[i] = x
  <2> HIDE DEF S
  <2>1. Orders(less, S)
    BY <1>2, PlacesOrder
  <2> HIDE DEF less
  <2> QED BY <1>2, <2>1, InOrderIs
<1>4. f = [k \in DOMAIN places |-> l[places[k]]]
  BY DEF R!Filtered
<1>5. \A i, j \in 1..n : i < j => places[i] < places[j]
  BY <1>3
<1> HIDE DEF f, places, n, less
<1>6. f = [k \in 1..n |-> l[places[k]]] /\ places \in [1..n -> 1..Len(l)]
  <2> HIDE DEF S
  <2> QED BY <1>2, <1>3, <1>4
<1>7. \A i, j \in 1..n : i # j => places[i] # places[j]
  <2> SUFFICES ASSUME NEW i \in 1..n, NEW j \in 1..n, i # j PROVE places[i] # places[j]
    OBVIOUS
  <2>1. places[i] \in Nat /\ places[j] \in Nat /\ (i < j \/ j < i)
    BY <1>3, <1>6
  <2> QED BY <1>5, <2>1
<1>8. f \in Listing /\ Len(f) = n /\ R!Ids(f) \subseteq R!Ids(l)
  <2> HIDE DEF S
  <2>1. \A i \in 1..n : f[i] = l[places[i]] /\ f[i] \in Hit
    BY <1>1, <1>6
  <2>2. f \in [1..n -> Hit]
    BY <1>6, <2>1
  <2>3. n \in Nat /\ places \in [1..n -> 1..Len(l)]
    BY <1>3, <1>6
  <2>4. \A i \in 1..n : f[i] = l[places[i]]
    BY <2>1
  <2>5. l \in Listing
    OBVIOUS
  <2>6. PicksAt(f, l, n, places)
    BY ONLY <1>7, <2>2, <2>3, <2>4 DEF PicksAt
  <2> QED BY ONLY <2>5, <2>6, PicksIs
<1>9. Picks(f, l, places)
  BY <1>5, <1>6, <1>8 DEF Picks
<1>10. ASSUME app.threshold = 0 PROVE R!Ids(f) = R!Ids(l) /\ Len(f) = Len(l)
  <2>1. One \div 10 \in Int
    BY SearchAssumption
  <2>2. bar = 0
    BY <1>10, <2>1
  <2>3. S = 1..Len(l)
    BY <1>1, <2>2
  <2>4. n = Len(l)
    BY <1>1, <2>3, UpTo DEF n
  <2>5. f \in Seq(Hit) /\ Once(f)
    BY <1>8 DEF Listing
  <2>6. Cardinality(R!Ids(f)) = Cardinality(R!Ids(l)) /\ IsFiniteSet(R!Ids(l))
    BY <1>1, <1>8, <2>4, <2>5, OnceCounts, IdsAre
  <2>7. R!Ids(f) = R!Ids(l)
    BY <1>8, <2>6, FS_Subset
  <2> QED BY <1>8, <2>4, <2>7
<1> QED BY <1>8, <1>9, <1>10 DEF f

\* The smaller of two numbers.
LEMMA LesserIs ==
  ASSUME NEW a \in Nat, NEW b \in Nat
  PROVE  R!Min({a, b}) = IF a <= b THEN a ELSE b
<1>1. {a, b} \subseteq Nat /\ {a, b} # {}
  OBVIOUS
<1>2. R!Min({a, b}) \in {a, b} /\ \A y \in {a, b} : R!Min({a, b}) <= y
  BY <1>1, LeastIs
<1> QED BY <1>2

\* The cut.
LEMMA CutIs ==
  ASSUME asked.top_k \in 1..100, NEW l \in Listing
  PROVE  /\ R!Cut(l) \in Listing /\ R!Ids(R!Cut(l)) \subseteq R!Ids(l)
         /\ Len(R!Cut(l)) <= asked.top_k
         /\ Len(l) <= asked.top_k => R!Cut(l) = l
         /\ Len(l) >= asked.top_k => Len(R!Cut(l)) = asked.top_k
<1> DEFINE n == IF Len(l) <= asked.top_k THEN Len(l) ELSE asked.top_k
           places == [i \in 1..n |-> i]
<1>1. Len(l) \in Nat /\ l \in Seq(Hit) /\ asked.top_k \in Nat
  <2>1. l \in Seq(Hit)
    BY DEF Listing
  <2>2. Len(l) \in Nat
    BY <2>1, AtHits
  <2>3. asked.top_k \in Nat
    OBVIOUS
  <2> QED BY <2>1, <2>2, <2>3
<1>2. R!Cut(l) = SubSeq(l, 1, n)
  BY <1>1, LesserIs DEF R!Cut
<1>3. n \in Nat /\ n <= Len(l) /\ n <= asked.top_k
  BY <1>1
<1>4. R!Cut(l) = [i \in 1..n |-> l[i]]
  <2> HIDE DEF n
  <2> QED BY <1>1, <1>2, <1>3
<1>5. R!Cut(l) \in Listing /\ Len(R!Cut(l)) = n /\ R!Ids(R!Cut(l)) \subseteq R!Ids(l)
  <2> HIDE DEF n
  <2>1. places \in [1..n -> 1..Len(l)] /\ R!Cut(l) = [i \in 1..n |-> l[places[i]]]
        /\ \A i, j \in 1..n : i # j => places[i] # places[j]
    BY <1>1, <1>3, <1>4
  <2> HIDE DEF places
  <2>2. \A i \in 1..n : R!Cut(l)[i] = l[places[i]] /\ R!Cut(l)[i] \in Hit
    BY <1>1, <2>1, AtHits
  <2>3. R!Cut(l) \in [1..n -> Hit]
    BY <2>1, <2>2
  <2>4. PicksAt(R!Cut(l), l, n, places)
    BY ONLY <1>3, <2>1, <2>2, <2>3 DEF PicksAt
  <2> QED BY <2>4, PicksIs
<1>6. Len(l) <= asked.top_k => R!Cut(l) = l
  BY <1>1, <1>4
<1> QED BY <1>1, <1>3, <1>5, <1>6

-----------------------------------------------------------------------------
(* A query: marginal relevance *)

\* The rounds of both versions.
Rounds(l, n) == CHOOSE f : f =
  [r \in 0..n |-> IF r = 0 THEN [chosen |-> <<>>, sim |-> [i \in DOMAIN l |-> 0]]
                  ELSE R!Choose(l, f[r - 1])]
BaseRounds(l, n) == CHOOSE f : f =
  [r \in 0..n |-> IF r = 0 THEN [left |-> l, chosen |-> <<>>] ELSE R!BaseChoose(f[r - 1])]

\* Rerank() in terms of its rounds.
LEMMA RerankRounds ==
  ASSUME NEW l, NEW k
  PROVE  R!Rerank(l, k) =
           LET n == R!Min({k, Len(l)})
           IN IF n = 1 THEN <<l[1]>> ELSE [r \in 1..n |-> l[Rounds(l, n)[n].chosen[r]]]
BY DEF R!Rerank, Rounds

\* BaseRerank() in terms of its rounds.
LEMMA BaseRerankRounds ==
  ASSUME NEW l, NEW k
  PROVE  R!BaseRerank(l, k) =
           LET n == R!Min({k, Len(l)}) IN BaseRounds(l, n)[n].chosen
BY DEF R!BaseRerank, BaseRounds

\* The rounds of the matrix version exist, each made from the one before.
LEMMA RoundsAre ==
  ASSUME NEW l, NEW n \in Nat
  PROVE  Rounds(l, n) =
           [r \in 0..n |-> IF r = 0 THEN [chosen |-> <<>>, sim |-> [i \in DOMAIN l |-> 0]]
                           ELSE R!Choose(l, Rounds(l, n)[r - 1])]
<1> DEFINE first == [chosen |-> <<>>, sim |-> [i \in DOMAIN l |-> 0]]
           Good(f, k) == f = [r \in 0..k |-> IF r = 0 THEN first ELSE R!Choose(l, f[r - 1])]
           S == {k \in Nat : \E f : Good(f, k)}
<1> HIDE DEF first
<1>1. 0 \in S
  <2>1. Good([r \in 0..0 |-> first], 0)
    OBVIOUS
  <2> QED BY <2>1
<1>2. ASSUME NEW k \in Nat, k \in S PROVE k + 1 \in S
  <2>1. PICK f : Good(f, k)
    BY <1>2
  <2> DEFINE g == [r \in 0..(k + 1) |-> IF r <= k THEN f[r] ELSE R!Choose(l, f[k])]
  <2>2. Good(g, k + 1)
    <3>1. ASSUME NEW r \in 0..(k + 1)
          PROVE  g[r] = IF r = 0 THEN first ELSE R!Choose(l, g[r - 1])
      <4>1. CASE r <= k
        <5>1. r \in 0..k /\ g[r] = f[r] /\ (r # 0 => r - 1 \in 0..(k + 1) /\ g[r - 1] = f[r - 1])
          BY <4>1
        <5>2. f[r] = IF r = 0 THEN first ELSE R!Choose(l, f[r - 1])
          BY <2>1, <5>1
        <5> QED BY <5>1, <5>2
      <4>2. CASE ~ (r <= k)
        <5>1. r = k + 1 /\ r # 0 /\ r - 1 = k /\ k \in 0..(k + 1) /\ k <= k
          BY <4>2
        <5>2. g[r] = R!Choose(l, f[k]) /\ g[r - 1] = f[k]
          BY <4>2, <5>1
        <5> QED BY <5>1, <5>2
      <4> QED BY <4>1, <4>2
    <3>2. g = [r \in 0..(k + 1) |-> IF r = 0 THEN first ELSE R!Choose(l, g[r - 1])]
      BY <3>1
    <3> QED BY <3>2
  <2> HIDE DEF g, Good
  <2> QED BY <2>2
<1> HIDE DEF S
<1>3. n \in S
  BY <1>1, <1>2, AllNaturals
<1>4. \E f : f = [r \in 0..n |-> IF r = 0 THEN first ELSE R!Choose(l, f[r - 1])]
  BY <1>3 DEF S
<1> QED BY <1>4 DEF Rounds, first

\* The rounds of the version without numpy exist likewise.
LEMMA BaseRoundsAre ==
  ASSUME NEW l, NEW n \in Nat
  PROVE  BaseRounds(l, n) =
           [r \in 0..n |-> IF r = 0 THEN [left |-> l, chosen |-> <<>>]
                           ELSE R!BaseChoose(BaseRounds(l, n)[r - 1])]
<1> DEFINE first == [left |-> l, chosen |-> <<>>]
           Good(f, k) == f = [r \in 0..k |-> IF r = 0 THEN first ELSE R!BaseChoose(f[r - 1])]
           S == {k \in Nat : \E f : Good(f, k)}
<1> HIDE DEF first
<1>1. 0 \in S
  <2>1. Good([r \in 0..0 |-> first], 0)
    OBVIOUS
  <2> QED BY <2>1
<1>2. ASSUME NEW k \in Nat, k \in S PROVE k + 1 \in S
  <2>1. PICK f : Good(f, k)
    BY <1>2
  <2> DEFINE g == [r \in 0..(k + 1) |-> IF r <= k THEN f[r] ELSE R!BaseChoose(f[k])]
  <2>2. Good(g, k + 1)
    <3>1. ASSUME NEW r \in 0..(k + 1)
          PROVE  g[r] = IF r = 0 THEN first ELSE R!BaseChoose(g[r - 1])
      <4>1. CASE r <= k
        <5>1. r \in 0..k /\ g[r] = f[r] /\ (r # 0 => r - 1 \in 0..(k + 1) /\ g[r - 1] = f[r - 1])
          BY <4>1
        <5>2. f[r] = IF r = 0 THEN first ELSE R!BaseChoose(f[r - 1])
          BY <2>1, <5>1
        <5> QED BY <5>1, <5>2
      <4>2. CASE ~ (r <= k)
        <5>1. r = k + 1 /\ r # 0 /\ r - 1 = k /\ k \in 0..(k + 1) /\ k <= k
          BY <4>2
        <5>2. g[r] = R!BaseChoose(f[k]) /\ g[r - 1] = f[k]
          BY <4>2, <5>1
        <5> QED BY <5>1, <5>2
      <4> QED BY <4>1, <4>2
    <3>2. g = [r \in 0..(k + 1) |-> IF r = 0 THEN first ELSE R!BaseChoose(g[r - 1])]
      BY <3>1
    <3> QED BY <3>2
  <2> HIDE DEF g, Good
  <2> QED BY <2>2
<1> HIDE DEF S
<1>3. n \in S
  BY <1>1, <1>2, AllNaturals
<1>4. \E f : f = [r \in 0..n |-> IF r = 0 THEN first ELSE R!BaseChoose(f[r - 1])]
  BY <1>3 DEF S
<1> QED BY <1>4 DEF BaseRounds, first

Alike(l, i, j) == Similarity[l[i].id][l[j].id]
\* v is how close the i-th hit is to the nearest of the chosen places, from zero.
Nearest(l, places, r, i, v) ==
  /\ v \in Int /\ v >= 0
  /\ \A j \in 1..r : Alike(l, i, places[j]) <= v
  /\ v = 0 \/ \E j \in 1..r : v = Alike(l, i, places[j])

\* What the rounds of the two versions have in common: s of the matrix version,
\* t of the other; places says where the remaining hits of t come from.
Matrix(l, r, s) ==
  /\ s.chosen \in [1..r -> 1..Len(l)]
  /\ \A i, j \in 1..r : i # j => s.chosen[i] # s.chosen[j]
  /\ s.sim \in [1..Len(l) -> Int]
  /\ \A i \in 1..Len(l) : Nearest(l, s.chosen, r, i, s.sim[i])
Unchosen(l, r, s) == 1..Len(l) \ {s.chosen[j] : j \in 1..r}
Remains(l, r, s, t, places) ==
  /\ places \in [1..(Len(l) - r) -> Unchosen(l, r, s)]
  /\ \A i, j \in 1..(Len(l) - r) : i < j => places[i] < places[j]
  /\ \A x \in Unchosen(l, r, s) : \E i \in 1..(Len(l) - r) : places[i] = x
  /\ t.left = [i \in 1..(Len(l) - r) |-> l[places[i]]]
Paired(l, r, s, t) ==
  /\ Matrix(l, r, s)
  /\ t.chosen = [j \in 1..r |-> l[s.chosen[j]]]
  /\ \E places : Remains(l, r, s, t, places)

\* A similarity is an integer.
LEMMA AlikeIs ==
  ASSUME NEW l \in Listing, NEW i \in 1..Len(l), NEW j \in 1..Len(l)
  PROVE  Alike(l, i, j) \in Int
<1>1. l \in Seq(Hit)
  BY DEF Listing
<1>2. l[i].id \in Memories /\ l[j].id \in Memories
  BY <1>1, AtHits
<1> QED BY <1>2, SearchAssumption DEF Alike

\* A marginal relevance is an integer.
LEMMA MarginalIs ==
  ASSUME NEW h \in Hit, NEW v \in Int
  PROVE  R!Marginal(h, v) \in Int
<1>1. Lambda \in Int /\ One \div 10 \in Int /\ h.score \in Int
  BY SearchAssumption DEF Hit
<1> DEFINE u == One \div 10
<1> HIDE DEF u
<1>2. Lambda * h.score \in Int /\ (10 - Lambda) * v \in Int /\ ((10 - Lambda) * v) * u \in Int
  BY <1>1 DEF u
<1>3. Lambda * h.score - ((10 - Lambda) * v) * u \in Int
  BY <1>2
<1> QED BY <1>3 DEF R!Marginal, u

\* Of some places with values, the first of those with the largest.
LEMMA FirstBestIs ==
  ASSUME NEW n \in Nat, NEW S \in SUBSET (1..n), S # {}, NEW v \in [1..n -> Int],
         NEW tops, tops = {i \in S : \A j \in S : v[j] <= v[i]}
  PROVE  R!Min(tops) \in tops /\ \A i \in tops : R!Min(tops) <= i
<1> DEFINE W == {v[i] : i \in S}
           f == [i \in S |-> v[i]]
<1>1. IsFiniteSet(S)
  BY UpTo, FS_Subset
<1>2. IsFiniteSet(W)
  <2>1. f \in Surjection(S, W)
    BY DEF Surjection
  <2> HIDE DEF f, W
  <2> QED BY <1>1, <2>1, FS_Surjection
<1>3. W \subseteq Int /\ W # {}
  OBVIOUS
<1>4. R!Max(W) \in W /\ \A y \in W : y <= R!Max(W)
  <2> HIDE DEF W
  <2> QED BY <1>2, <1>3, GreatestIs
<1>5. tops # {} /\ tops \subseteq Nat
  <2>1. PICK i \in S : v[i] = R!Max(W)
    BY <1>4
  <2>2. \A j \in S : v[j] \in W
    OBVIOUS
  <2>3. i \in tops
    <3> HIDE DEF W
    <3> QED BY <1>4, <2>1, <2>2
  <2>4. tops \subseteq S /\ S \subseteq Nat
    OBVIOUS
  <2> QED BY <2>3, <2>4
<1> QED BY <1>5, LeastIs

Values(l, s) == [i \in 1..Len(l) |-> R!Marginal(l[i], s.sim[i])]
Tops(l, r, s) ==
  {i \in Unchosen(l, r, s) : \A j \in Unchosen(l, r, s) : Values(l, s)[j] <= Values(l, s)[i]}
Best(l, r, s) == R!Min(Tops(l, r, s))

\* The values of a round are integers.
LEMMA ValuesAre ==
  ASSUME NEW l \in Listing, NEW r \in Nat, NEW s, Matrix(l, r, s)
  PROVE  Values(l, s) \in [1..Len(l) -> Int]
<1>1. l \in Seq(Hit)
  BY DEF Listing
<1>2. \A i \in 1..Len(l) : l[i] \in Hit /\ s.sim[i] \in Int
  BY <1>1, AtHits DEF Matrix
<1> QED BY <1>2, MarginalIs DEF Values

\* Of the places with the largest value, the first.
LEMMA BestIs ==
  ASSUME NEW l \in Listing, NEW r \in Nat, NEW s, Matrix(l, r, s), Unchosen(l, r, s) # {}
  PROVE  /\ Best(l, r, s) \in Tops(l, r, s) /\ Best(l, r, s) \in 1..Len(l)
         /\ \A i \in Tops(l, r, s) : Best(l, r, s) <= i
<1>1. l \in Seq(Hit)
  BY DEF Listing
<1>2. Len(l) \in Nat
  BY <1>1, AtHits
<1>3. Unchosen(l, r, s) \in SUBSET (1..Len(l))
  BY DEF Unchosen
<1>4. Best(l, r, s) \in Tops(l, r, s) /\ \A i \in Tops(l, r, s) : Best(l, r, s) <= i
  <2> DEFINE v == Values(l, s)
             U == Unchosen(l, r, s)
             tops == {i \in U : \A j \in U : v[j] <= v[i]}
  <2>1. v \in [1..Len(l) -> Int]
    BY ValuesAre
  <2>2. Best(l, r, s) = R!Min(tops) /\ Tops(l, r, s) = tops
    BY DEF Best, Tops
  <2>3. U # {} /\ U \in SUBSET (1..Len(l))
    BY <1>3
  <2>4. R!Min(tops) \in tops /\ \A i \in tops : R!Min(tops) <= i
    <3>1. tops = {i \in U : \A j \in U : v[j] <= v[i]}
      OBVIOUS
    <3> HIDE DEF v, U, tops
    <3> QED BY <1>2, <2>1, <2>3, <3>1, FirstBestIs
  <2> HIDE DEF tops
  <2> QED BY <2>2, <2>4
<1> QED BY <1>3, <1>4 DEF Tops

\* The matrix version chooses the first of the best.
LEMMA ChooseIs ==
  ASSUME NEW l \in Listing, NEW r \in Nat, NEW s, Matrix(l, r, s), Unchosen(l, r, s) # {}
  PROVE  /\ R!Choose(l, s).chosen =
              [j \in 1..(r + 1) |-> IF j <= r THEN s.chosen[j] ELSE Best(l, r, s)]
         /\ R!Choose(l, s).sim =
              [i \in 1..Len(l) |-> R!Closer(s.sim[i], Alike(l, i, Best(l, r, s)))]
<1>1. DOMAIN l = 1..Len(l) /\ l \in Seq(Hit)
  BY AtHits DEF Listing
<1> DEFINE c == s.chosen
<1>9. c \in [1..r -> 1..Len(l)]
  BY DEF Matrix
<1> HIDE DEF c
<1>2. c \in Seq(1..Len(l)) /\ Len(c) = r /\ DOMAIN c = 1..r
  BY <1>9, ListIs
<1>3. DOMAIN l \ R!ToSet(s.chosen) = Unchosen(l, r, s)
  BY <1>1, <1>2 DEF R!ToSet, Unchosen, c
<1> DEFINE U == Unchosen(l, r, s)
           Value(i) == R!Marginal(l[i], s.sim[i])
           best == R!Min({i \in U : \A j \in U : Value(j) <= Value(i)})
<1>4. R!Choose(l, s) =
        [chosen |-> Append(s.chosen, best),
         sim |-> [i \in 1..Len(l) |-> R!Closer(s.sim[i], Similarity[l[i].id][l[best].id])]]
  BY <1>1, <1>3 DEF R!Choose
<1>5. \A i \in 1..Len(l) : Values(l, s)[i] = Value(i)
  BY DEF Values
<1>6. {i \in U : \A j \in U : Value(j) <= Value(i)} = Tops(l, r, s)
  <2>1. U \subseteq 1..Len(l)
    BY DEF Unchosen
  <2> HIDE DEF U, Value
  <2> QED BY <1>5, <2>1 DEF Tops, U
<1>7. best = Best(l, r, s)
  BY <1>6 DEF Best
<1> HIDE DEF best
<1>11. best \in 1..Len(l)
  BY <1>7, BestIs
<1>8. Append(c, best) = [j \in 1..(r + 1) |-> IF j <= r THEN c[j] ELSE best]
  <2> DEFINE a == Append(c, best)
  <2>1. a \in Seq(1..Len(l)) /\ Len(a) = r + 1
        /\ (\A j \in 1..r : a[j] = c[j]) /\ a[r + 1] = best
    BY <1>2, <1>11, AppendProperties
  <2> HIDE DEF a
  <2>2. a \in [1..(r + 1) -> 1..Len(l)]
    BY <2>1
  <2>3. \A j \in 1..(r + 1) : a[j] = IF j <= r THEN c[j] ELSE best
    BY <2>1
  <2>4. a = [j \in 1..(r + 1) |-> IF j <= r THEN c[j] ELSE best]
    BY <2>2, <2>3
  <2> QED BY <2>4 DEF a
<1>10. R!Choose(l, s).chosen = Append(c, best)
       /\ R!Choose(l, s).sim = [i \in 1..Len(l) |-> R!Closer(s.sim[i], Alike(l, i, best))]
  BY <1>4 DEF Alike, c
<1> QED BY <1>7, <1>8, <1>10 DEF c

\* The version without numpy chooses the same hit.
LEMMA BaseChooseIs ==
  ASSUME NEW l \in Listing, NEW r \in Nat, NEW s, NEW t, r < Len(l), Paired(l, r, s, t),
         NEW places, Remains(l, r, s, t, places)
  PROVE  /\ Unchosen(l, r, s) # {}
         /\ \E p \in 1..(Len(l) - r) :
              /\ places[p] = Best(l, r, s)
              /\ R!BaseChoose(t) = [left |-> R!RemoveAt(t.left, p),
                                    chosen |-> Append(t.chosen, t.left[p])]
<1> DEFINE n == Len(l) - r
           U == Unchosen(l, r, s)
           V == Values(l, s)
           Sim(m) == R!Max({0} \cup {Similarity[m][h.id] : h \in R!ToSet(t.chosen)})
           Value(h) == R!Marginal(h, Sim(h.id))
<1>0. Matrix(l, r, s) /\ t.chosen = [j \in 1..r |-> l[s.chosen[j]]]
  BY DEF Paired
<1>1. l \in Seq(Hit)
  BY DEF Listing
<1>2. Len(l) \in Nat /\ n \in Nat /\ n >= 1 /\ \A i \in 1..Len(l) : l[i] \in Hit
  BY <1>1, AtHits
<1>3. U \subseteq 1..Len(l)
  BY DEF Unchosen
<1>21. \A x \in U : x \in Nat
  BY <1>3
<1>4. /\ places \in [1..n -> U]
      /\ \A i, j \in 1..n : i < j => places[i] < places[j]
      /\ \A x \in U : \E i \in 1..n : places[i] = x
      /\ t.left = [i \in 1..n |-> l[places[i]]]
  BY DEF Remains
<1>5. U # {}
  <2> HIDE DEF n, U
  <2> QED BY <1>2, <1>4
<1>6. ASSUME NEW i \in 1..Len(l) PROVE Value(l[i]) = V[i]
  <2>1. Sim(l[i].id) = s.sim[i]
    <3>1. Nearest(l, s.chosen, r, i, s.sim[i]) /\ s.chosen \in [1..r -> 1..Len(l)]
      BY <1>0 DEF Matrix
    <3> DEFINE c == t.chosen
               d == s.chosen
               v == s.sim[i]
               W == {0} \cup {Similarity[l[i].id][h.id] : h \in R!ToSet(c)}
    <3>2. \A x : x \in W <=> x = 0 \/ \E h \in R!ToSet(c) : x = Similarity[l[i].id][h.id]
      OBVIOUS
    <3>3. Nearest(l, d, r, i, v) /\ d \in [1..r -> 1..Len(l)]
         /\ c = [j \in 1..r |-> l[d[j]]]
      BY <1>0, <3>1
    <3> HIDE DEF W, c, d, v
    <3>11. R!ToSet(c) = {l[d[j]] : j \in 1..r}
      BY <3>3 DEF R!ToSet
    <3>12. ASSUME NEW x PROVE x \in W <=> x = 0 \/ \E j \in 1..r : x = Alike(l, i, d[j])
      <4>1. (\E h \in R!ToSet(c) : x = Similarity[l[i].id][h.id]) <=>
              \E j \in 1..r : x = Similarity[l[i].id][l[d[j]].id]
        BY <3>11
      <4> QED BY <3>2, <4>1 DEF Alike
    <3>13. \A j \in 1..r : Alike(l, i, d[j]) \in Int
      BY <3>3, AlikeIs
    <3>14. v \in W /\ v \in Int
      BY <3>3, <3>12 DEF Nearest
    <3>15. ASSUME NEW y \in W PROVE y \in Int /\ y <= v
      <4>1. y = 0 \/ \E j \in 1..r : y = Alike(l, i, d[j])
        BY <3>12
      <4> QED BY <3>3, <3>13, <4>1 DEF Nearest
    <3>16. R!Max(W) = CHOOSE x \in W : \A y \in W : x >= y
      BY DEF R!Max
    <3>17. \E x \in W : \A y \in W : x >= y
      BY <3>14, <3>15
    <3>18. R!Max(W) \in W /\ \A y \in W : R!Max(W) >= y
      BY <3>16, <3>17
    <3>19. R!Max(W) \in Int /\ R!Max(W) <= v /\ R!Max(W) >= v
      BY <3>14, <3>15, <3>18
    <3>4. R!Max(W) = v
      BY <3>14, <3>19
    <3> QED BY <3>4 DEF W, c, v
  <2> HIDE DEF Sim
  <2> QED BY <2>1 DEF Values
<1> HIDE DEF Sim, Value
<1>7. V \in [1..Len(l) -> Int]
  BY <1>0, ValuesAre
<1> DEFINE L == t.left
<1>20. L = [i \in 1..n |-> l[places[i]]]
  BY <1>4
<1> HIDE DEF n, U, V, L
<1>8. L \in [1..n -> Hit] /\ \A i \in 1..n : L[i] = l[places[i]] /\ places[i] \in U
  <2>1. \A i \in 1..n : places[i] \in U /\ places[i] \in 1..Len(l) /\ l[places[i]] \in Hit
    BY <1>2, <1>3, <1>4
  <2> QED BY <1>20, <2>1
<1>9. Len(L) = n /\ R!ToSet(L) = {L[i] : i \in 1..n}
  BY <1>2, <1>8 DEF R!ToSet
<1> DEFINE I == {p \in 1..Len(L) : \A x \in R!ToSet(L) : Value(x) <= Value(L[p])}
<1>10. R!BaseChoose(t) =
         LET best == IF I # {} THEN R!Min(I) ELSE 0
         IN [left |-> R!RemoveAt(L, best), chosen |-> Append(t.chosen, L[best])]
  BY DEF R!BaseChoose, R!SelectInSeq, Value, Sim, L
<1>11. ASSUME NEW p \in 1..n PROVE p \in I <=> places[p] \in Tops(l, r, s)
  <2>1. places[p] \in U /\ places[p] \in 1..Len(l) /\ Value(L[p]) = V[places[p]]
    BY <1>3, <1>6, <1>8
  <2>2. \A q \in 1..n : Value(L[q]) = V[places[q]] /\ places[q] \in U
    BY <1>3, <1>6, <1>8
  <2>3. p \in I <=> \A q \in 1..n : V[places[q]] <= V[places[p]]
    BY <1>9, <2>1, <2>2
  <2>4. (\A q \in 1..n : V[places[q]] <= V[places[p]]) <=> \A j \in U : V[j] <= V[places[p]]
    BY <1>4, <2>2
  <2>5. places[p] \in Tops(l, r, s) <=> \A j \in U : V[j] <= V[places[p]]
    BY <2>1 DEF Tops, U, V
  <2> QED BY <2>3, <2>4, <2>5
<1>12. /\ Best(l, r, s) \in Tops(l, r, s) /\ Best(l, r, s) \in U /\ Best(l, r, s) \in Nat
       /\ \A i \in Tops(l, r, s) : Best(l, r, s) <= i
  <2>1. Unchosen(l, r, s) # {}
    BY <1>5 DEF U
  <2>2. Best(l, r, s) \in Tops(l, r, s) /\ \A i \in Tops(l, r, s) : Best(l, r, s) <= i
    BY <1>0, <2>1, BestIs
  <2>3. Best(l, r, s) \in U
    BY <2>2 DEF Tops, U
  <2> QED BY <1>21, <2>2, <2>3
<1>13. PICK q \in 1..n : places[q] = Best(l, r, s)
  BY <1>4, <1>12
<1>14. q \in I /\ I # {} /\ I \subseteq 1..n /\ I \subseteq Nat
  <2>1. q \in I
    BY <1>11, <1>12, <1>13
  <2> QED BY <1>9, <2>1
<1> HIDE DEF I
<1> DEFINE p == R!Min(I)
<1>15. p \in I /\ p \in 1..n /\ p <= q
  BY <1>14, LeastIs
<1> HIDE DEF p
<1>16. places[p] = Best(l, r, s)
  <2>1. places[p] \in Tops(l, r, s) /\ places[p] \in Nat /\ places[q] \in Nat
    BY <1>4, <1>11, <1>12, <1>15, <1>21
  <2>2. Best(l, r, s) <= places[p]
    BY <1>12, <2>1
  <2>3. p = q \/ p < q
    BY <1>15
  <2>4. p = q \/ places[p] < places[q]
    BY <1>4, <1>15, <2>3
  <2> QED BY <1>12, <1>13, <2>1, <2>2, <2>4
<1>17. R!BaseChoose(t) = [left |-> R!RemoveAt(L, p), chosen |-> Append(t.chosen, L[p])]
  BY <1>10, <1>14 DEF p
<1> QED BY <1>5, <1>15, <1>16, <1>17 DEF U, n, L

\* A sequence without one of its elements.
LEMMA RemoveAtIs ==
  ASSUME NEW T, NEW q \in Seq(T), NEW p \in 1..Len(q)
  PROVE  R!RemoveAt(q, p) =
           [i \in 1..(Len(q) - 1) |-> IF i < p THEN q[i] ELSE q[i + 1]]
<1> DEFINE a == SubSeq(q, 1, p - 1)
           b == SubSeq(q, p + 1, Len(q))
           n == Len(q)
<1>1. n \in Nat /\ p \in Nat /\ p >= 1 /\ p <= n
  OBVIOUS
<1>2. a \in Seq(T) /\ Len(a) = p - 1 /\ \A i \in 1..(p - 1) : a[i] = q[i]
  BY <1>1
<1>3. b \in Seq(T) /\ Len(b) = n - p /\ \A i \in 1..(n - p) : b[i] = q[p + i]
  BY <1>1
<1>4. R!RemoveAt(q, p) = a \o b
  BY DEF R!RemoveAt
<1> HIDE DEF a, b, n
<1>5. a \o b \in Seq(T) /\ Len(a \o b) = n - 1
  <2>3. a \in Seq(T) /\ b \in Seq(T)
    BY <1>2, <1>3
  <2>1. a \o b \in Seq(T) /\ Len(a \o b) = Len(a) + Len(b)
    BY ONLY <2>3, ConcatProperties
  <2>2. Len(a) + Len(b) = n - 1
    BY ONLY <1>1, <1>2, <1>3
  <2> QED BY <2>1, <2>2
<1>6. \A i \in 1..(n - 1) : (a \o b)[i] = IF i < p THEN q[i] ELSE q[i + 1]
  <2> SUFFICES ASSUME NEW i \in 1..(n - 1)
               PROVE  (a \o b)[i] = IF i < p THEN q[i] ELSE q[i + 1]
    OBVIOUS
  <2>1. (a \o b)[i] = IF i <= Len(a) THEN a[i] ELSE b[i - Len(a)]
    BY <1>1, <1>2, <1>3
  <2>2. CASE i < p
    <3>1. i \in 1..(p - 1) /\ i <= Len(a)
      BY <1>1, <1>2, <2>2
    <3> QED BY <1>2, <2>1, <2>2, <3>1
  <2>3. CASE ~ (i < p)
    <3>1. i - Len(a) \in 1..(n - p) /\ ~ (i <= Len(a)) /\ p + (i - Len(a)) = i + 1
      BY <1>1, <1>2, <2>3
    <3> QED BY <1>3, <2>1, <2>3, <3>1
  <2> QED BY <2>2, <2>3
<1>7. a \o b = [i \in 1..(n - 1) |-> IF i < p THEN q[i] ELSE q[i + 1]]
  <2> DEFINE e == a \o b
  <2>1. e \in Seq(T) /\ Len(e) = n - 1
    BY <1>5
  <2> HIDE DEF e
  <2>2. e \in [1..(n - 1) -> T]
    BY <2>1
  <2>3. \A i \in 1..(n - 1) : e[i] = IF i < p THEN q[i] ELSE q[i + 1]
    BY <1>6 DEF e
  <2>4. e = [i \in 1..(n - 1) |-> IF i < p THEN q[i] ELSE q[i + 1]]
    BY <2>2, <2>3
  <2> QED BY <2>4 DEF e
<1> QED BY <1>4, <1>7 DEF n

\* A round of the matrix version chooses one more place and keeps its maxima.
LEMMA MatrixStep ==
  ASSUME NEW l \in Listing, NEW r \in Nat, NEW s, Matrix(l, r, s), Unchosen(l, r, s) # {}
  PROVE  /\ Matrix(l, r + 1, R!Choose(l, s))
         /\ Unchosen(l, r + 1, R!Choose(l, s)) = Unchosen(l, r, s) \ {Best(l, r, s)}
<1> DEFINE b == Best(l, r, s)
           c == s.chosen
           d == R!Choose(l, s).chosen
           v == s.sim
           w == R!Choose(l, s).sim
<1>1. b \in 1..Len(l) /\ b \in Unchosen(l, r, s)
  BY BestIs DEF Tops
<1>2. /\ d = [j \in 1..(r + 1) |-> IF j <= r THEN c[j] ELSE b]
      /\ w = [i \in 1..Len(l) |-> R!Closer(v[i], Alike(l, i, b))]
  BY ChooseIs
<1>3. /\ c \in [1..r -> 1..Len(l)] /\ \A i, j \in 1..r : i # j => c[i] # c[j]
      /\ v \in [1..Len(l) -> Int] /\ \A i \in 1..Len(l) : Nearest(l, c, r, i, v[i])
  BY DEF Matrix
<1>4. \A j \in 1..r : c[j] # b
  BY <1>1 DEF Unchosen
<1> HIDE DEF b, c, d, v, w
<1>5. /\ d \in [1..(r + 1) -> 1..Len(l)] /\ d[r + 1] = b
      /\ \A j \in 1..r : j \in 1..(r + 1) /\ d[j] = c[j]
  BY <1>1, <1>2, <1>3
<1>6. \A j \in 1..(r + 1) : j \in 1..r \/ j = r + 1
  OBVIOUS
<1>7. \A i, j \in 1..(r + 1) : i # j => d[i] # d[j]
  BY <1>3, <1>4, <1>5, <1>6
<1>8. ASSUME NEW i \in 1..Len(l) PROVE w[i] \in Int /\ Nearest(l, d, r + 1, i, w[i])
  <2> DEFINE a == Alike(l, i, b)
  <2>1. a \in Int /\ Nearest(l, c, r, i, v[i]) /\ w[i] = IF a > v[i] THEN a ELSE v[i]
    BY <1>1, <1>2, <1>3, AlikeIs DEF R!Closer
  <2>2. \A j \in 1..r : Alike(l, i, d[j]) = Alike(l, i, c[j])
    BY <1>5
  <2>3. Alike(l, i, d[r + 1]) = a
    BY <1>5
  <2> HIDE DEF a
  <2>4. \A j \in 1..r : Alike(l, i, c[j]) \in Int
    BY <1>3, AlikeIs
  <2>5. /\ v[i] \in Int /\ v[i] >= 0 /\ \A j \in 1..r : Alike(l, i, c[j]) <= v[i]
        /\ v[i] = 0 \/ \E j \in 1..r : v[i] = Alike(l, i, c[j])
    BY <2>1 DEF Nearest
  <2>6. w[i] \in Int /\ w[i] >= 0 /\ w[i] >= v[i] /\ w[i] >= a
    BY <2>1, <2>5
  <2>7. \A j \in 1..(r + 1) : Alike(l, i, d[j]) <= w[i]
    BY <1>6, <2>2, <2>3, <2>4, <2>5, <2>6
  <2>8. w[i] = 0 \/ \E j \in 1..(r + 1) : w[i] = Alike(l, i, d[j])
    <3>1. CASE a > v[i]
      <4>1. r + 1 \in 1..(r + 1) /\ w[i] = a
        BY <2>1, <3>1
      <4> QED BY <2>3, <4>1
    <3>2. CASE ~ (a > v[i])
      <4>1. w[i] = v[i]
        BY <2>1, <3>2
      <4> QED BY <1>5, <2>2, <2>5, <4>1
    <3> QED BY <3>1, <3>2
  <2> QED BY <2>6, <2>7, <2>8 DEF Nearest
<1>9. w \in [1..Len(l) -> Int]
  BY <1>2, <1>8
<1>10. Matrix(l, r + 1, R!Choose(l, s))
  BY <1>5, <1>7, <1>8, <1>9 DEF Matrix, d, w
<1>11. {d[j] : j \in 1..(r + 1)} = {c[j] : j \in 1..r} \cup {b}
  <2>1. r + 1 \in 1..(r + 1)
    OBVIOUS
  <2> QED BY <1>5, <1>6, <2>1
<1>12. Unchosen(l, r + 1, R!Choose(l, s)) = Unchosen(l, r, s) \ {b}
  BY <1>11 DEF Unchosen, d, c
<1> QED BY <1>10, <1>12 DEF b

\* A round of both versions keeps what they have in common.
LEMMA PairedStep ==
  ASSUME NEW l \in Listing, NEW r \in Nat, r < Len(l), NEW s, NEW t, Paired(l, r, s, t)
  PROVE  Paired(l, r + 1, R!Choose(l, s), R!BaseChoose(t))
<1> DEFINE n == Len(l) - r
           b == Best(l, r, s)
           c == s.chosen
           d == R!Choose(l, s).chosen
           U == Unchosen(l, r, s)
           L == t.left
           C == t.chosen
<1>1. l \in Seq(Hit)
  BY DEF Listing
<1>2. Len(l) \in Nat /\ n \in Nat /\ n >= 1 /\ \A i \in 1..Len(l) : l[i] \in Hit
  BY <1>1, AtHits
<1>3. Matrix(l, r, s) /\ C = [j \in 1..r |-> l[c[j]]] /\ c \in [1..r -> 1..Len(l)]
  BY DEF Paired, Matrix
<1>4. PICK places : Remains(l, r, s, t, places)
  BY DEF Paired
<1>5. U # {} /\ \E p \in 1..n :
        /\ places[p] = b
        /\ R!BaseChoose(t) = [left |-> R!RemoveAt(L, p), chosen |-> Append(C, L[p])]
  BY <1>4, BaseChooseIs
<1>6. PICK p \in 1..n :
        /\ places[p] = b
        /\ R!BaseChoose(t) = [left |-> R!RemoveAt(L, p), chosen |-> Append(C, L[p])]
  BY <1>5
<1>0. U # {}
  BY <1>5
<1>7. /\ Matrix(l, r + 1, R!Choose(l, s))
      /\ Unchosen(l, r + 1, R!Choose(l, s)) = U \ {b}
  BY <1>0, <1>3, MatrixStep
<1>8. d = [j \in 1..(r + 1) |-> IF j <= r THEN c[j] ELSE b]
  <2>1. Matrix(l, r, s) /\ Unchosen(l, r, s) # {}
    BY <1>0, <1>3
  <2>2. /\ R!Choose(l, s).chosen =
              [j \in 1..(r + 1) |-> IF j <= r THEN s.chosen[j] ELSE Best(l, r, s)]
        /\ R!Choose(l, s).sim =
              [i \in 1..Len(l) |-> R!Closer(s.sim[i], Alike(l, i, Best(l, r, s)))]
    <3> HIDE DEF c, d, b, U, L, C, n
    <3> QED BY <2>1, ChooseIs
  <2> QED BY <2>2
<1>9. b \in 1..Len(l) /\ U \subseteq 1..Len(l)
  BY <1>0, <1>3, BestIs DEF Unchosen
<1>10. /\ places \in [1..n -> U]
       /\ \A i, j \in 1..n : i < j => places[i] < places[j]
       /\ \A x \in U : \E i \in 1..n : places[i] = x
       /\ L = [i \in 1..n |-> l[places[i]]]
  BY <1>4 DEF Remains
<1> HIDE DEF n, b, c, d, U, L, C
<1>11. \A i \in 1..n : L[i] = l[places[i]] /\ L[i] \in Hit
  BY <1>2, <1>9, <1>10
<1>12. L \in Seq(Hit) /\ Len(L) = n
  BY <1>2, <1>10, <1>11
<1>13. Append(C, L[p]) = [j \in 1..(r + 1) |-> l[d[j]]]
  <2> DEFINE a == Append(C, l[b])
  <2>1. L[p] = l[b] /\ l[b] \in Hit
    BY <1>2, <1>6, <1>9, <1>11
  <2>2. C \in [1..r -> Hit] /\ \A j \in 1..r : C[j] = l[c[j]]
    BY <1>2, <1>3
  <2>3. C \in Seq(Hit) /\ Len(C) = r
    BY <2>2, ListIs
  <2>4. a \in Seq(Hit) /\ Len(a) = r + 1 /\ (\A j \in 1..r : a[j] = C[j]) /\ a[r + 1] = l[b]
    BY <2>1, <2>3, AppendProperties
  <2> HIDE DEF a
  <2>5. a \in [1..(r + 1) -> Hit]
    BY <2>4
  <2>6. ASSUME NEW j \in 1..(r + 1) PROVE a[j] = l[d[j]]
    <3>1. CASE j <= r
      <4>1. j \in 1..r /\ d[j] = c[j]
        BY <1>8, <3>1
      <4> QED BY <2>2, <2>4, <4>1
    <3>2. CASE ~ (j <= r)
      <4>1. j = r + 1 /\ d[j] = b
        BY <1>8, <3>2
      <4> QED BY <2>4, <4>1
    <3> QED BY <3>1, <3>2
  <2>7. a = [j \in 1..(r + 1) |-> l[d[j]]]
    BY <2>5, <2>6
  <2> QED BY <2>1, <2>7 DEF a
<1> DEFINE m == Len(l) - (r + 1)
           where == [i \in 1..m |-> IF i < p THEN places[i] ELSE places[i + 1]]
<1>14. m = n - 1 /\ m \in Nat
  BY <1>2 DEF n
<1> HIDE DEF m
<1>15. \A i \in 1..m : /\ i \in 1..n /\ i + 1 \in 1..n
                       /\ where[i] = IF i < p THEN places[i] ELSE places[i + 1]
  BY <1>2, <1>14
<1> HIDE DEF where
<1>16. R!RemoveAt(L, p) = [i \in 1..m |-> l[where[i]]]
  <2>1. R!RemoveAt(L, p) = [i \in 1..(n - 1) |-> IF i < p THEN L[i] ELSE L[i + 1]]
    BY <1>12, RemoveAtIs
  <2>2. \A i \in 1..m : l[where[i]] = IF i < p THEN L[i] ELSE L[i + 1]
    BY <1>11, <1>15
  <2> QED BY <1>14, <2>1, <2>2
<1>17. \A i, j \in 1..n : i # j => places[i] # places[j]
  <2> SUFFICES ASSUME NEW i \in 1..n, NEW j \in 1..n, i # j PROVE places[i] # places[j]
    OBVIOUS
  <2>1. places[i] \in U /\ places[j] \in U /\ (i < j \/ j < i)
    BY <1>10
  <2>3. places[i] \in 1..Len(l) /\ places[j] \in 1..Len(l)
    BY <1>9, <2>1
  <2>2. places[i] \in Nat /\ places[j] \in Nat
    BY <2>3
  <2> QED BY <1>10, <2>1, <2>2
<1>18. where \in [1..m -> U \ {b}]
  <2>1. ASSUME NEW i \in 1..m PROVE where[i] \in U \ {b}
    <3>1. i # p \/ ~ (i < p)
      BY <1>14
    <3>2. i < p => i # p
      BY <1>14
    <3>3. ~ (i < p) => i + 1 # p
      BY <1>2, <1>14
    <3> QED BY <1>6, <1>10, <1>15, <1>17, <3>2, <3>3
  <2> QED BY <2>1 DEF where
<1>19. \A i, j \in 1..m : i < j => where[i] < where[j]
  <2> SUFFICES ASSUME NEW i \in 1..m, NEW j \in 1..m, i < j PROVE where[i] < where[j]
    OBVIOUS
  <2>1. /\ i \in 1..n /\ j \in 1..n /\ i + 1 \in 1..n /\ j + 1 \in 1..n
        /\ i < j /\ i < j + 1 /\ i + 1 < j + 1
    BY <1>14, <1>15
  <2>2. places[i] < places[j] /\ places[i] < places[j + 1] /\ places[i + 1] < places[j + 1]
    BY <1>10, <2>1
  <2>3. j < p => i < p
    BY <1>2, <2>1
  <2> QED BY <1>15, <2>2, <2>3
<1>20. ASSUME NEW x \in U \ {b} PROVE \E i \in 1..m : where[i] = x
  <2>1. PICK i \in 1..n : places[i] = x
    BY <1>10
  <2>2. i # p
    BY <1>6, <2>1
  <2>3. CASE i < p
    <3>1. i \in 1..m
      BY <1>2, <1>14, <2>3
    <3> QED BY <1>15, <2>1, <2>3, <3>1
  <2>4. CASE ~ (i < p)
    <3>1. i - 1 \in 1..m /\ ~ (i - 1 < p) /\ (i - 1) + 1 = i
      BY <1>2, <1>14, <2>2, <2>4
    <3>2. where[i - 1] = x
      BY <1>15, <2>1, <3>1
    <3> QED BY <3>1, <3>2
  <2> QED BY <2>3, <2>4
<1>21. Remains(l, r + 1, R!Choose(l, s), R!BaseChoose(t), where)
  <2>1. R!BaseChoose(t).left = [i \in 1..m |-> l[where[i]]]
    BY <1>6, <1>16
  <2> QED BY <1>7, <1>18, <1>19, <1>20, <2>1 DEF Remains, m
<1>22. R!BaseChoose(t).chosen = [j \in 1..(r + 1) |-> l[R!Choose(l, s).chosen[j]]]
  BY <1>6, <1>13 DEF d
<1> QED BY <1>7, <1>21, <1>22 DEF Paired

\* Both versions have the same in common after every round.
LEMMA PairedRounds ==
  ASSUME NEW l \in Listing, NEW n \in Nat, n <= Len(l)
  PROVE  \A r \in 0..n : Paired(l, r, Rounds(l, n)[r], BaseRounds(l, n)[r])
<1> DEFINE S == {r \in Nat : r <= n => Paired(l, r, Rounds(l, n)[r], BaseRounds(l, n)[r])}
<1>1. Len(l) \in Nat /\ DOMAIN l = 1..Len(l)
  BY AtHits DEF Listing
<1>2. 0 \in S
  <2> DEFINE s == [chosen |-> <<>>, sim |-> [i \in DOMAIN l |-> 0]]
             t == [left |-> l, chosen |-> <<>>]
  <2>1. Rounds(l, n)[0] = s /\ BaseRounds(l, n)[0] = t
    <3>1. 0 \in 0..n
      OBVIOUS
    <3> HIDE DEF s, t
    <3> QED BY <3>1, RoundsAre, BaseRoundsAre DEF s, t
  <2>2. Matrix(l, 0, s)
    BY <1>1 DEF Matrix, Nearest
  <2>3. Unchosen(l, 0, s) = 1..Len(l)
    BY DEF Unchosen
  <2>4. Remains(l, 0, s, t, [i \in 1..Len(l) |-> i])
    <3>1. l = [i \in 1..Len(l) |-> l[i]]
      BY <1>1 DEF Listing
    <3>2. Len(l) - 0 = Len(l)
      BY <1>1
    <3> QED BY <1>1, <2>3, <3>1, <3>2 DEF Remains
  <2>5. t.chosen = [j \in 1..0 |-> l[s.chosen[j]]]
    OBVIOUS
  <2>6. Paired(l, 0, s, t)
    BY <2>2, <2>4, <2>5 DEF Paired
  <2> QED BY <2>1, <2>6
<1>3. ASSUME NEW r \in Nat, r \in S PROVE r + 1 \in S
  <2> SUFFICES ASSUME r + 1 <= n
               PROVE  Paired(l, r + 1, Rounds(l, n)[r + 1], BaseRounds(l, n)[r + 1])
    OBVIOUS
  <2>1. r < Len(l) /\ r <= n /\ r + 1 \in 0..n /\ r + 1 # 0 /\ (r + 1) - 1 = r
    BY <1>1
  <2>2. Paired(l, r, Rounds(l, n)[r], BaseRounds(l, n)[r])
    BY <1>3, <2>1
  <2>3. /\ Rounds(l, n)[r + 1] = R!Choose(l, Rounds(l, n)[r])
        /\ BaseRounds(l, n)[r + 1] = R!BaseChoose(BaseRounds(l, n)[r])
    BY <2>1, RoundsAre, BaseRoundsAre
  <2> QED BY <2>1, <2>2, <2>3, PairedStep
<1> HIDE DEF S
<1>4. \A r \in Nat : r \in S
  BY <1>2, <1>3, AllNaturals
<1> QED BY <1>4 DEF S

Lesser(a, b) == IF a <= b THEN a ELSE b

\* The reranked list: as many hits as asked for, none twice, all of the list.
LEMMA RerankIs ==
  ASSUME NEW l \in Listing, NEW k \in Nat, k >= 1, l # <<>>
  PROVE  /\ R!Rerank(l, k) \in Listing /\ Len(R!Rerank(l, k)) = Lesser(k, Len(l))
         /\ R!Ids(R!Rerank(l, k)) \subseteq R!Ids(l)
<1> DEFINE n == Lesser(k, Len(l))
           c == Rounds(l, n)[n].chosen
           f == R!Rerank(l, k)
<1>1. l \in Seq(Hit) /\ Len(l) \in Nat /\ Len(l) >= 1
  BY DEF Listing
<1>2. n \in Nat /\ n >= 1 /\ n <= Len(l) /\ R!Min({k, Len(l)}) = n
  BY <1>1, LesserIs DEF Lesser
<1>3. f = IF n = 1 THEN <<l[1]>> ELSE [r \in 1..n |-> l[c[r]]]
  BY <1>2, RerankRounds
<1>4. Matrix(l, n, Rounds(l, n)[n])
  <2> HIDE DEF n
  <2>1. n \in 0..n
    BY <1>2
  <2> QED BY <1>2, <2>1, PairedRounds DEF Paired
<1>5. c \in [1..n -> 1..Len(l)] /\ \A i, j \in 1..n : i # j => c[i] # c[j]
  BY <1>4 DEF Matrix
<1> HIDE DEF n, c, f
<1>6. CASE n = 1
  <2> SUFFICES f \in Listing /\ Len(f) = n /\ R!Ids(f) \subseteq R!Ids(l)
    BY DEF f, n
  <2> DEFINE one == [i \in 1..n |-> 1]
  <2>1. one \in [1..n -> 1..Len(l)] /\ \A i, j \in 1..n : i # j => one[i] # one[j]
    BY <1>1, <1>6
  <2>2. f = [i \in 1..n |-> l[one[i]]]
    BY <1>3, <1>6
  <2> HIDE DEF one
  <2>3. \A i \in 1..n : f[i] = l[one[i]] /\ f[i] \in Hit
    BY <1>1, <2>1, <2>2, AtHits
  <2>4. f \in [1..n -> Hit]
    BY <2>2, <2>3
  <2>5. n \in Nat /\ \A i \in 1..n : f[i] = l[one[i]]
    BY <1>2, <2>3
  <2>6. PicksAt(f, l, n, one)
    BY ONLY <2>1, <2>4, <2>5 DEF PicksAt
  <2> QED BY <2>6, PicksIs
<1>7. CASE n # 1
  <2> SUFFICES f \in Listing /\ Len(f) = n /\ R!Ids(f) \subseteq R!Ids(l)
    BY DEF f, n
  <2>1. f = [r \in 1..n |-> l[c[r]]]
    BY <1>3, <1>7
  <2>3. \A i \in 1..n : f[i] = l[c[i]] /\ f[i] \in Hit
    BY <1>1, <1>5, <2>1, AtHits
  <2>4. f \in [1..n -> Hit]
    BY <2>1, <2>3
  <2>5. PicksAt(f, l, n, c)
    BY ONLY <1>2, <1>5, <2>3, <2>4 DEF PicksAt
  <2> QED BY <2>5, PicksIs
<1> QED BY <1>6, <1>7 DEF n, f

\* What a round of the matrix version appends.
LEMMA ChosenIs ==
  ASSUME NEW l \in Listing, NEW r \in Nat, NEW s, Matrix(l, r, s), Unchosen(l, r, s) # {}
  PROVE  R!Choose(l, s).chosen[r + 1] = Best(l, r, s)
<1>1. /\ R!Choose(l, s).chosen =
           [j \in 1..(r + 1) |-> IF j <= r THEN s.chosen[j] ELSE Best(l, r, s)]
      /\ R!Choose(l, s).sim =
           [i \in 1..Len(l) |-> R!Closer(s.sim[i], Alike(l, i, Best(l, r, s)))]
  BY ChooseIs
<1> QED BY <1>1

\* Both versions choose the same hits of a list with the best score first.
LEMMA RerankAgrees ==
  ASSUME NEW l \in Listing, NEW k \in Nat, k >= 1, l # <<>>,
         \A i \in 1..Len(l) : l[i].score <= l[1].score
  PROVE  R!Rerank(l, k) = R!BaseRerank(l, k)
<1> DEFINE n == Lesser(k, Len(l))
           s == Rounds(l, n)[n]
           t == BaseRounds(l, n)[n]
<1>1. l \in Seq(Hit) /\ Len(l) \in Nat /\ Len(l) >= 1
  BY DEF Listing
<1>2. n \in Nat /\ n >= 1 /\ n <= Len(l) /\ R!Min({k, Len(l)}) = n
  BY <1>1, LesserIs DEF Lesser
<1>3. /\ R!Rerank(l, k) = IF n = 1 THEN <<l[1]>> ELSE [r \in 1..n |-> l[s.chosen[r]]]
      /\ R!BaseRerank(l, k) = t.chosen
  BY <1>2, RerankRounds, BaseRerankRounds
<1> HIDE DEF n
<1>4. n \in 0..n /\ 0 \in 0..n
  BY <1>2
<1>5. /\ Paired(l, n, s, t)
      /\ Paired(l, 0, Rounds(l, n)[0], BaseRounds(l, n)[0])
  BY <1>2, <1>4, PairedRounds
<1>6. t.chosen = [r \in 1..n |-> l[s.chosen[r]]]
  BY <1>5 DEF Paired
<1>7. CASE n # 1
  BY <1>3, <1>6, <1>7
<1>8. CASE n = 1
  <2> DEFINE s0 == Rounds(l, n)[0]
             b == Best(l, 0, s0)
  <2>1. Matrix(l, 0, s0) /\ s0.sim = [i \in 1..Len(l) |-> 0]
    <3>1. DOMAIN l = 1..Len(l)
      BY <1>1, AtHits
    <3>2. s0 = [chosen |-> <<>>, sim |-> [i \in DOMAIN l |-> 0]]
      BY <1>2, <1>4, RoundsAre
    <3> QED BY <1>5, <3>1, <3>2 DEF Paired
  <2>2. Unchosen(l, 0, s0) = 1..Len(l)
    BY DEF Unchosen
  <2>3. Unchosen(l, 0, s0) # {}
    BY <1>1, <2>2
  <2>4. s = R!Choose(l, s0)
    <3>1. 1 \in 0..n /\ 1 # 0 /\ 1 - 1 = 0
      BY <1>8
    <3> QED BY <1>2, <1>8, <3>1, RoundsAre
  <2>5. s.chosen[1] = b
    <3> HIDE DEF s0, s, b
    <3>1. 0 \in Nat /\ 0 + 1 = 1
      OBVIOUS
    <3>3. R!Choose(l, s0).chosen[0 + 1] = Best(l, 0, s0)
      BY <2>1, <2>3, <3>1, ChosenIs
    <3> QED BY <2>4, <3>1, <3>3 DEF b
  <2>6. ASSUME NEW i \in 1..Len(l) PROVE Values(l, s0)[i] = Lambda * l[i].score
    <3>1. s0.sim[i] = 0 /\ l[i].score \in Int /\ Lambda \in Int
      BY <1>1, <2>1, AtHits, SearchAssumption
    <3>2. One \div 10 \in Int
      BY SearchAssumption
    <3> DEFINE u == One \div 10
               x == l[i].score
    <3>3. Values(l, s0)[i] = Lambda * x - (10 - Lambda) * 0 * u
      BY <3>1 DEF Values, R!Marginal
    <3> HIDE DEF u, x
    <3>4. (10 - Lambda) * 0 * u = 0 /\ Lambda * x \in Int
      BY <3>1, <3>2 DEF u, x
    <3> QED BY <3>3, <3>4 DEF x
  <2>7. 1 \in Tops(l, 0, s0)
    <3>1. ASSUME NEW i \in 1..Len(l) PROVE Lambda * l[i].score <= Lambda * l[1].score
      <4>1. l[i].score \in Nat /\ l[1].score \in Nat /\ Lambda \in Nat
            /\ l[i].score <= l[1].score
        BY <1>1, AtHits, SearchAssumption
      <4>2. \A a, x, y \in Nat : x <= y => a * x <= a * y
        OBVIOUS
      <4> QED BY <4>1, <4>2
    <3> QED BY <1>1, <2>2, <2>6, <3>1 DEF Tops
  <2>8. b = 1
    <3>1. b \in 1..Len(l) /\ b <= 1
      BY <2>1, <2>3, <2>7, BestIs
    <3> QED BY <3>1
  <2>9. t.chosen = <<l[1]>>
    <3>1. t.chosen = [r \in 1..1 |-> l[s.chosen[r]]]
      BY <1>6, <1>8
    <3>2. s.chosen[1] = 1
      BY <2>5, <2>8
    <3> HIDE DEF s, t
    <3> QED BY <3>1, <3>2
  <2> QED BY <1>3, <1>8, <2>9
<1> QED BY <1>7, <1>8

\* Nothing is chosen from nothing.
LEMMA BaseRerankNothing ==
  ASSUME NEW k \in Nat
  PROVE  R!BaseRerank(<<>>, k) = <<>>
<1>1. R!Min({k, Len(<<>>)}) = 0
  BY LesserIs
<1>2. BaseRounds(<<>>, 0)[0] = [left |-> <<>>, chosen |-> <<>>]
  <2>1. 0 \in 0..0 /\ 0 \in Nat
    OBVIOUS
  <2> QED BY <2>1, BaseRoundsAre
<1> QED BY <1>1, <1>2, BaseRerankRounds

-----------------------------------------------------------------------------
(* A query: the pipeline *)

Sorted(l) == \A i, j \in 1..Len(l) : i < j => l[i].score >= l[j].score

SearchTypes ==
  /\ app \in Deployments /\ query \in Queries
  /\ indexed \in [R!Channels -> SUBSET Memories] /\ knew \in [R!Channels -> SUBSET Memories]
  /\ channel \in [R!Channels -> {"off", "running", "ok", "partial", "failed"}]
  /\ outputs \in [R!Channels -> Listing]
  /\ fused \in Listing /\ passed \in Listing /\ final \in Listing
  /\ stage \in {"idle", "refused", "recall", "fused", "boosted", "filtered", "ranked",
                "answered", "error"}
  /\ stage \notin {"idle", "refused"} => asked \in R!RetrieveMemRequest

\* An index knows what MongoDB has, and what it knew before it knows still.
IndexesFollow == \A c \in R!Channels : knew[c] \subseteq indexed[c] /\ indexed[c] \subseteq memories

\* The lists are by score, and empty before there is anything to list.
ListsInOrder ==
  /\ \A c \in R!Channels : Sorted(outputs[c])
  /\ Sorted(fused) /\ Sorted(passed)
  /\ stage = "idle" => passed = <<>> /\ final = <<>>

\* What a channel that answered knew is in a list, or the list is long enough.
Kept(c, l) ==
  asked.over_fetch >= 0 /\ asked.top_k <= Lookup =>
    \A m \in knew[c] : query[c][m] = 0 \/ m \in R!Ids(l) \/ Len(l) >= asked.top_k
\* The channels whose hits count.
Heard == {c \in R!Channels : channel[c] = "ok" /\ (app.fuser => Weight[c] > 0)}
\* The same after the filter, which takes what is below the threshold.
KeptBut(l) ==
  asked.over_fetch >= 0 /\ asked.top_k <= Lookup =>
    \A c \in Heard : \A m \in knew[c] :
      \/ query[c][m] = 0 \/ m \in R!Ids(l) \/ Len(l) >= asked.top_k
      \/ app.threshold > 0 /\ m \notin R!Ids(passed)
NothingLost ==
  /\ \A c \in R!Channels : channel[c] = "ok" => Kept(c, outputs[c])
  /\ stage \in {"fused", "boosted"} => \A c \in Heard : Kept(c, fused)
  /\ stage = "filtered" => KeptBut(passed)
  /\ stage \in {"ranked", "answered"} => KeptBut(final)

FinalIsBest ==
  stage \in {"ranked", "answered"} =>
    /\ Len(final) <= asked.top_k
    /\ app.reranker => final = R!BaseRerank(passed, asked.top_k)

QueryInv == SearchTypes /\ IndexesFollow /\ ListsInOrder /\ NothingLost /\ FinalIsBest

\* The empty list is in order.
LEMMA EmptyListing ==
  << >> \in Listing /\ Sorted(<< >>) /\ R!Ids(<< >>) = {}
BY EmptyIds DEF Listing, Sorted

\* Lists of hits are sequences of hits.
LEMMA ListingsAre ==
  ASSUME NEW outs \in [R!Channels -> Listing]
  PROVE  outs \in [R!Channels -> Seq(Hit)]
BY DEF Listing

\* A ranking is by score.
LEMMA RankingSorted ==
  ASSUME NEW l \in Seq(Hit), NEW score \in [R!Ids(l) -> Nat]
  PROVE  Sorted(R!Ranking(l, score))
<1> DEFINE r == R!Ranking(l, score)
<1>1. /\ r \in Listing /\ R!Ids(r) = R!Ids(l)
      /\ \A i \in 1..Len(r) : r[i].score = score[r[i].id]
      /\ \A i, j \in 1..Len(r) : i < j => <<r[i].id, r[j].id>> \in Ahead(l, score)
  BY RankingIs
<1>2. r \in Seq(Hit)
  BY <1>1 DEF Listing
<1> HIDE DEF r
<1>3. ASSUME NEW i \in 1..Len(r), NEW j \in 1..Len(r), i < j PROVE r[i].score >= r[j].score
  <2>1. r[i].score \in Nat /\ r[j].score \in Nat
    BY <1>2, AtHits
  <2>2. score[r[i].id] >= score[r[j].id]
    <3>1. <<r[i].id, r[j].id>> \in Ahead(l, score)
      BY <1>1, <1>3
    <3>2. score[r[i].id] = r[i].score /\ score[r[j].id] = r[j].score
      BY <1>1
    <3>3. score[r[i].id] > score[r[j].id] \/ score[r[i].id] = score[r[j].id]
      BY <3>1 DEF Ahead
    <3> QED BY <2>1, <3>2, <3>3
  <2> QED BY <1>1, <2>2
<1> QED BY <1>3 DEF Sorted, r

\* What a channel answers.
LEMMA AnswerIs ==
  ASSUME SearchTypes, IndexesFollow, asked \in R!RetrieveMemRequest, NEW c \in R!Channels,
         NEW found \in R!Found(c), NEW l \in R!Hits(c, R!Fetched(found))
  PROVE  l \in Listing /\ Sorted(l) /\ Kept(c, l)
<1> DEFINE M == R!Matches(c)
<1>1. M = {m \in indexed[c] : query[c][m] > 0}
  BY DEF R!Matches
<1>2. indexed[c] \subseteq Memories /\ indexed[c] \subseteq memories /\ knew[c] \subseteq indexed[c]
  BY DEF SearchTypes, IndexesFollow
<1>3. \A m \in Memories : query[c][m] \in Nat
  BY SearchAssumption DEF SearchTypes
<1> HIDE DEF M
<1>4. found = M \/ (found \subseteq M /\ Cardinality(found) = Lookup)
  BY SameCardinality DEF R!Found, M
<1>5. found \in SUBSET Memories /\ R!Fetched(found) = found
  <2>1. M \subseteq indexed[c]
    BY <1>1
  <2> QED BY <1>2, <1>4, <2>1 DEF R!Fetched
<1>6. R!Limit(c) \in Nat /\ asked.top_k \in 1..100
      /\ (asked.over_fetch >= 0 => R!Limit(c) >= asked.top_k)
  BY LimitIs
<1>7. /\ l \in Listing /\ R!Ids(l) \subseteq found
      /\ \/ Len(l) = R!Limit(c)
         \/ Len(l) = Cardinality(found) /\ R!Ids(l) = found
      /\ \A i, j \in 1..Len(l) : i < j => l[i].score >= l[j].score
  <2>1. l \in R!Hits(c, found) /\ query \in Queries
    BY <1>5 DEF SearchTypes
  <2> QED BY <1>5, <1>6, <2>1, HitsAre
<1>8. Sorted(l)
  BY <1>7 DEF Sorted
<1>9. Kept(c, l)
  <2> SUFFICES ASSUME asked.over_fetch >= 0, asked.top_k <= Lookup, NEW m \in knew[c],
                      query[c][m] # 0, ~ (Len(l) >= asked.top_k)
               PROVE  m \in R!Ids(l)
    BY DEF Kept
  <2>1. m \in M
    BY <1>1, <1>2, <1>3
  <2>2. Len(l) = Cardinality(found) /\ R!Ids(l) = found
    BY <1>6, <1>7
  <2>3. Cardinality(found) # Lookup
    <3>1. Lookup \in Nat
      BY SearchAssumption
    <3>2. \A k \in 1..100 : k \in Nat
      OBVIOUS
    <3>3. asked.top_k \in Nat
      BY <1>6, <3>2
    <3> QED BY <2>2, <3>1, <3>3
  <2> QED BY <1>4, <2>1, <2>2, <2>3
<1> QED BY <1>7, <1>8, <1>9

\* Nothing is listed at first.
LEMMA QueryInit == ASSUME R!Init PROVE QueryInv
<1> USE DEF R!Init
<1>1. SearchTypes
  BY EmptyListing, SearchAssumption DEF SearchTypes
<1>2. IndexesFollow
  BY DEF IndexesFollow
<1>3. ListsInOrder
  BY EmptyListing DEF ListsInOrder
<1>4. NothingLost /\ FinalIsBest
  BY DEF NothingLost, FinalIsBest
<1> QED BY <1>1, <1>2, <1>3, <1>4 DEF QueryInv

\* What the memories and the lists of hits are is no matter to these steps.
LEMMA CommitStep ==
  ASSUME QueryInv, NEW m \in Memories, R!Commit(m)
  PROVE  QueryInv'
<1> USE DEF R!Commit, R!req
<1>1. SearchTypes'
  BY DEF QueryInv, SearchTypes
<1>2. IndexesFollow'
  BY DEF QueryInv, IndexesFollow
<1>3. ListsInOrder'
  BY DEF QueryInv, ListsInOrder
<1>4. NothingLost'
  BY DEF QueryInv, NothingLost, Heard, Kept, KeptBut
<1>5. FinalIsBest'
  BY DEF QueryInv, FinalIsBest
<1> QED BY <1>1, <1>2, <1>3, <1>4, <1>5 DEF QueryInv

\* An index that learns of a stored memory.
LEMMA IndexStep ==
  ASSUME QueryInv, NEW m \in Memories, NEW c \in R!Channels, R!Index(m, c)
  PROVE  QueryInv'
<1> USE DEF R!Index, R!req
<1>1. SearchTypes'
  BY DEF QueryInv, SearchTypes
<1>2. IndexesFollow'
  BY DEF QueryInv, SearchTypes, IndexesFollow
<1>3. ListsInOrder'
  BY DEF QueryInv, ListsInOrder
<1>4. NothingLost'
  BY DEF QueryInv, NothingLost, Heard, Kept, KeptBut
<1>5. FinalIsBest'
  BY DEF QueryInv, FinalIsBest
<1> QED BY <1>1, <1>2, <1>3, <1>4, <1>5 DEF QueryInv

\* A request that does not validate.
LEMMA RefuseStep ==
  ASSUME QueryInv, R!Refuse
  PROVE  QueryInv'
<1> USE DEF R!Refuse, R!req, R!stores
<1>1. SearchTypes'
  BY DEF QueryInv, SearchTypes
<1>2. IndexesFollow'
  BY DEF QueryInv, IndexesFollow
<1>3. ListsInOrder'
  BY DEF QueryInv, ListsInOrder
<1>4. NothingLost'
  BY DEF QueryInv, NothingLost, Heard, Kept, KeptBut
<1>5. FinalIsBest'
  BY DEF QueryInv, FinalIsBest
<1> QED BY <1>1, <1>2, <1>3, <1>4, <1>5 DEF QueryInv

\* The channels start; without any the answer is empty.
LEMMA RetrieveStep ==
  ASSUME QueryInv, R!Retrieve
  PROVE  QueryInv'
<1> USE DEF R!Retrieve, R!stores
<1>1. SearchTypes'
  BY DEF QueryInv, SearchTypes
<1>2. IndexesFollow'
  BY DEF QueryInv, IndexesFollow
<1>3. ListsInOrder'
  BY DEF QueryInv, ListsInOrder
<1>4. \A c \in R!Channels : channel'[c] # "ok"
  OBVIOUS
<1>5. NothingLost'
  BY <1>4 DEF QueryInv, NothingLost, Heard, KeptBut
<1>6. FinalIsBest'
  <2>1. passed' = <<>> /\ final' = <<>> /\ asked' = asked
    BY DEF QueryInv, ListsInOrder
  <2>2. asked.top_k \in Nat
    BY LimitIs DEF R!RetrieveMemRequest
  <2>3. Len(<<>>) <= asked.top_k /\ <<>> = R!BaseRerank(<<>>, asked.top_k)
    BY <2>2, BaseRerankNothing
  <2> QED BY <2>1, <2>3 DEF FinalIsBest
<1> QED BY <1>1, <1>2, <1>3, <1>5, <1>6 DEF QueryInv

\* A channel that fails is not heard.
LEMMA UnboundStep ==
  ASSUME QueryInv, NEW c \in R!Channels, R!Unbound(c)
  PROVE  QueryInv'
<1> USE DEF R!Unbound, R!req, R!stores
<1>1. SearchTypes'
  BY DEF QueryInv, SearchTypes
<1>2. IndexesFollow'
  BY DEF QueryInv, IndexesFollow
<1>3. ListsInOrder'
  BY DEF QueryInv, ListsInOrder
<1>4. NothingLost'
  BY DEF QueryInv, SearchTypes, NothingLost, Kept
<1>5. FinalIsBest'
  BY DEF QueryInv, FinalIsBest
<1> QED BY <1>1, <1>2, <1>3, <1>4, <1>5 DEF QueryInv

\* A channel whose search raises or whose time is up.
LEMMA FailStep ==
  ASSUME QueryInv, NEW c \in R!Channels, R!Fail(c)
  PROVE  QueryInv'
<1> USE DEF R!Fail, R!req, R!stores
<1>1. SearchTypes'
  BY DEF QueryInv, SearchTypes
<1>2. IndexesFollow'
  BY DEF QueryInv, IndexesFollow
<1>3. ListsInOrder'
  BY DEF QueryInv, ListsInOrder
<1>4. NothingLost'
  BY DEF QueryInv, SearchTypes, NothingLost, Kept
<1>5. FinalIsBest'
  BY DEF QueryInv, FinalIsBest
<1> QED BY <1>1, <1>2, <1>3, <1>4, <1>5 DEF QueryInv

\* A channel that answers.
LEMMA AnswerStep ==
  ASSUME QueryInv, NEW c \in R!Channels, R!Answer(c)
  PROVE  QueryInv'
<1> USE DEF R!Answer, R!req, R!stores
<1>1. asked \in R!RetrieveMemRequest
  BY DEF QueryInv, SearchTypes
<1>2. PICK found \in R!Found(c) : \E l \in R!Hits(c, R!Fetched(found)) :
        outputs' = [outputs EXCEPT ![c] = l]
  OBVIOUS
<1>3. PICK l \in R!Hits(c, R!Fetched(found)) : outputs' = [outputs EXCEPT ![c] = l]
  BY <1>2
<1>4. l \in Listing /\ Sorted(l) /\ Kept(c, l)
  BY <1>1, AnswerIs DEF QueryInv
<1>5. SearchTypes'
  BY <1>3, <1>4 DEF QueryInv, SearchTypes
<1>6. \A x \in R!Channels : outputs'[x] = IF x = c THEN l ELSE outputs[x]
  BY <1>3 DEF QueryInv, SearchTypes
<1>7. IndexesFollow'
  BY DEF QueryInv, IndexesFollow
<1>8. ListsInOrder'
  BY <1>4, <1>6 DEF QueryInv, ListsInOrder
<1>9. NothingLost'
  BY <1>4, <1>6 DEF QueryInv, SearchTypes, NothingLost, Kept
<1>10. FinalIsBest'
  BY DEF QueryInv, FinalIsBest
<1> QED BY <1>5, <1>7, <1>8, <1>9, <1>10 DEF QueryInv

\* The graph, when one of its traversals raises, is not heard either.
LEMMA AnswerInPartStep ==
  ASSUME QueryInv, R!AnswerInPart
  PROVE  QueryInv'
<1> USE DEF R!AnswerInPart, R!req, R!stores
<1> DEFINE c == "graph"
<1>0. c \in R!Channels
  BY DEF R!Channels
<1>1. asked \in R!RetrieveMemRequest
  BY DEF QueryInv, SearchTypes
<1>2. PICK found \in SUBSET R!Matches(c) : \E l \in R!Hits(c, R!Fetched(found)) :
        outputs' = [outputs EXCEPT ![c] = l]
  OBVIOUS
<1>3. PICK l \in R!Hits(c, R!Fetched(found)) : outputs' = [outputs EXCEPT ![c] = l]
  BY <1>2
<1>4. l \in Listing /\ Sorted(l)
  <2>1. R!Fetched(found) \in SUBSET Memories
    BY <1>0, <1>2 DEF R!Fetched, R!Matches, QueryInv, SearchTypes
  <2>2. R!Limit(c) \in Nat /\ query \in Queries
    BY <1>1, LimitIs DEF QueryInv, SearchTypes
  <2>3. l \in Listing /\ \A i, j \in 1..Len(l) : i < j => l[i].score >= l[j].score
    BY <1>0, <1>3, <2>1, <2>2, HitsAre
  <2> QED BY <2>3 DEF Sorted
<1>5. SearchTypes'
  BY <1>3, <1>4 DEF QueryInv, SearchTypes
<1>6. \A x \in R!Channels : outputs'[x] = IF x = c THEN l ELSE outputs[x]
  BY <1>3 DEF QueryInv, SearchTypes
<1>7. IndexesFollow'
  BY DEF QueryInv, IndexesFollow
<1>8. ListsInOrder'
  BY <1>4, <1>6 DEF QueryInv, ListsInOrder
<1>9. NothingLost'
  BY <1>6 DEF QueryInv, SearchTypes, NothingLost, Kept
<1>10. FinalIsBest'
  BY DEF QueryInv, FinalIsBest
<1> QED BY <1>5, <1>7, <1>8, <1>9, <1>10 DEF QueryInv

\* Errors that reach the route.
LEMMA AllFailedStep ==
  ASSUME QueryInv, R!AllFailed \/ R!RerankError
  PROVE  QueryInv'
<1> USE DEF R!AllFailed, R!RerankError, R!req, R!stores
<1>1. SearchTypes'
  BY DEF QueryInv, SearchTypes, R!Recalled
<1>2. IndexesFollow'
  BY DEF QueryInv, IndexesFollow
<1>3. ListsInOrder'
  BY DEF QueryInv, ListsInOrder
<1>4. NothingLost'
  BY DEF QueryInv, NothingLost, Heard, Kept, KeptBut
<1>5. FinalIsBest'
  BY DEF QueryInv, FinalIsBest
<1> QED BY <1>1, <1>2, <1>3, <1>4, <1>5 DEF QueryInv

\* The merged list keeps every heard channel's hits.
LEMMA MergedIs ==
  ASSUME SearchTypes, NEW l,
         l = IF app.fuser THEN R!Fuse(R!Answered, outputs) ELSE R!FlatConcat(R!Answered, outputs)
  PROVE  /\ l \in Listing /\ Sorted(l)
         /\ \A c \in Heard : R!Ids(outputs[c]) \subseteq R!Ids(l) /\ Len(outputs[c]) <= Len(l)
<1> DEFINE A == R!Answered
           counted == IF app.fuser THEN Counted(A) ELSE A
           all == R!Joined(counted, outputs)
<1>1. A \in SUBSET R!Channels
  BY DEF R!Answered
<1>2. outputs \in [R!Channels -> Seq(Hit)] /\ \A c \in R!Channels : outputs[c] \in Listing
  BY ListingsAre DEF SearchTypes
<1> HIDE DEF A
<1>3. /\ all \in Seq(Hit) /\ l \in Listing /\ Sorted(l)
      /\ R!Ids(l) = R!Ids(all) /\ Len(l) = Cardinality(R!Ids(all))
  <2>1. CASE app.fuser
    <3> DEFINE score == [m \in R!Ids(all) |-> Total(Counted(A), outputs, m)]
    <3>1. l = R!Ranking(all, score) /\ all \in Seq(Hit) /\ score \in [R!Ids(all) -> Nat]
      BY <1>1, <1>2, <2>1, FuseIs DEF A
    <3> HIDE DEF all, score
    <3> QED BY <3>1, RankingIs, RankingSorted
  <2>2. CASE ~ app.fuser
    <3> DEFINE score == [m \in R!Ids(all) |-> R!Max(Scores(all, m))]
    <3>1. l = R!Ranking(all, score) /\ all \in Seq(Hit) /\ score \in [R!Ids(all) -> Nat]
      BY <1>1, <1>2, <2>2, FlatIs DEF A
    <3> HIDE DEF all, score
    <3> QED BY <3>1, RankingIs, RankingSorted
  <2> QED BY <2>1, <2>2
<1>4. Heard \subseteq R!Channels \cap counted
  BY DEF Heard, A, R!Answered, Counted
<1>5. R!Ids(all) = UNION {R!Ids(outputs[c]) : c \in R!Channels \cap counted}
  <2> HIDE DEF counted
  <2> QED BY <1>2, JoinedIs
<1>6. ASSUME NEW c \in Heard
      PROVE  R!Ids(outputs[c]) \subseteq R!Ids(l) /\ Len(outputs[c]) <= Len(l)
  <2>1. R!Ids(outputs[c]) \subseteq R!Ids(all)
    <3> HIDE DEF all
    <3> QED BY <1>4, <1>5
  <2>2. outputs[c] \in Seq(Hit) /\ Once(outputs[c])
    BY <1>2, <1>4 DEF Listing
  <2> HIDE DEF all
  <2>3. Cardinality(R!Ids(outputs[c])) = Len(outputs[c])
    BY <2>2, OnceCounts
  <2>4. IsFiniteSet(R!Ids(all))
    BY <1>3, IdsAre
  <2>5. Cardinality(R!Ids(outputs[c])) <= Cardinality(R!Ids(all))
    BY <2>1, <2>4, FS_Subset
  <2> QED BY <1>3, <2>1, <2>3, <2>5
<1> QED BY <1>3, <1>6

\* The length of a list is a number.
LEMMA LengthIs ==
  ASSUME NEW l \in Listing
  PROVE  Len(l) \in Nat
BY DEF Listing

\* Fusion: every list that counts is in the merged one.
LEMMA FuseStep ==
  ASSUME QueryInv, R!FuseAll
  PROVE  QueryInv'
<1> USE DEF R!FuseAll, R!req, R!stores
<1>1. /\ fused' \in Listing /\ Sorted(fused')
      /\ \A c \in Heard : /\ R!Ids(outputs[c]) \subseteq R!Ids(fused')
                          /\ Len(outputs[c]) <= Len(fused')
  BY MergedIs DEF QueryInv
<1>2. asked \in R!RetrieveMemRequest /\ asked.top_k \in Nat
  <2>1. asked \in R!RetrieveMemRequest
    BY DEF QueryInv, SearchTypes, R!Recalled
  <2> QED BY <2>1, LimitIs
<1>3. SearchTypes'
  BY <1>1, <1>2 DEF QueryInv, SearchTypes
<1>4. IndexesFollow'
  BY DEF QueryInv, IndexesFollow
<1>5. ListsInOrder'
  BY <1>1 DEF QueryInv, ListsInOrder
<1>6. \A c \in Heard : Kept(c, fused')
  <2> SUFFICES ASSUME NEW c \in Heard, asked.over_fetch >= 0, asked.top_k <= Lookup,
                      NEW m \in knew[c], query[c][m] # 0, m \notin R!Ids(fused')
               PROVE  Len(fused') >= asked.top_k
    BY DEF Kept
  <2>1. Kept(c, outputs[c]) /\ outputs[c] \in Listing
    BY DEF QueryInv, NothingLost, Heard, SearchTypes
  <2>2. Len(outputs[c]) >= asked.top_k
    BY <1>1, <2>1 DEF Kept
  <2>3. Len(outputs[c]) \in Nat /\ Len(fused') \in Nat
    BY <1>1, <2>1, LengthIs
  <2> QED BY <1>1, <1>2, <2>2, <2>3
<1>7. NothingLost'
  BY <1>6 DEF QueryInv, NothingLost, Heard, Kept
<1>8. FinalIsBest'
  BY DEF FinalIsBest
<1> QED BY <1>3, <1>4, <1>5, <1>7, <1>8 DEF QueryInv

\* The boosted list has the memories of the fused one.
LEMMA BoostedIs ==
  ASSUME NEW l \in Listing, NEW known \in SUBSET Memories
  PROVE  /\ R!Boost(l, known) \in Listing /\ Sorted(R!Boost(l, known))
         /\ R!Ids(R!Boost(l, known)) = R!Ids(l) /\ Len(R!Boost(l, known)) = Len(l)
<1> DEFINE score == [m \in R!Ids(l) |->
                       (l[R!Position(l, m)].score
                          * (IF m \in known THEN Factor[m] ELSE 10)) \div 10]
<1>1. l \in Seq(Hit) /\ Once(l)
  BY DEF Listing
<1>2. R!Boost(l, known) = R!Ranking(l, score) /\ score \in [R!Ids(l) -> Nat]
  BY <1>1, BoostIs
<1> HIDE DEF score
<1> QED BY <1>1, <1>2, RankingIs, RankingSorted, OnceCounts

\* The boost changes scores and order only.
LEMMA BoostStep ==
  ASSUME QueryInv, R!BoostAll
  PROVE  QueryInv'
<1> USE DEF R!BoostAll, R!Fault, R!req, R!stores
<1>1. fused \in Listing /\ Sorted(fused)
  BY DEF QueryInv, SearchTypes, ListsInOrder
<1>2. /\ fused' \in Listing /\ Sorted(fused')
      /\ R!Ids(fused') = R!Ids(fused) /\ Len(fused') = Len(fused)
  <2>1. fused' \in {fused, R!Boost(fused, Memories), R!Boost(fused, {})}
    OBVIOUS
  <2>2. Memories \in SUBSET Memories /\ {} \in SUBSET Memories
    OBVIOUS
  <2> QED BY <1>1, <2>1, <2>2, BoostedIs
<1>3. SearchTypes'
  BY <1>2 DEF QueryInv, SearchTypes
<1>4. IndexesFollow'
  BY DEF QueryInv, IndexesFollow
<1>5. ListsInOrder'
  BY <1>2 DEF QueryInv, ListsInOrder
<1>6. NothingLost'
  BY <1>2 DEF QueryInv, NothingLost, Heard, Kept
<1>7. FinalIsBest'
  BY DEF FinalIsBest
<1> QED BY <1>3, <1>4, <1>5, <1>6, <1>7 DEF QueryInv

\* What is picked in order stays in order.
LEMMA PicksSorted ==
  ASSUME NEW l \in Listing, NEW f \in Listing, Sorted(l), NEW places, Picks(f, l, places)
  PROVE  Sorted(f)
BY DEF Sorted, Picks

\* The filter takes only what is below the threshold.
LEMMA FilterStep ==
  ASSUME QueryInv, R!FilterAll
  PROVE  QueryInv'
<1> USE DEF R!FilterAll, R!Fault, R!req, R!stores
<1>1. fused \in Listing /\ Sorted(fused) /\ app \in Deployments /\ app.threshold \in Nat
  BY SearchAssumption DEF QueryInv, SearchTypes, ListsInOrder
<1>2. /\ passed' \in Listing /\ Sorted(passed')
      /\ app.threshold = 0 => R!Ids(passed') = R!Ids(fused) /\ Len(passed') = Len(fused)
  <2>1. CASE passed' = R!Filtered(fused)
    BY <1>1, <2>1, FilteredIs, PicksSorted
  <2>2. CASE passed' = fused
    BY <1>1, <2>2
  <2> QED BY <2>1, <2>2
<1>3. SearchTypes'
  BY <1>2 DEF QueryInv, SearchTypes
<1>4. IndexesFollow'
  BY DEF QueryInv, IndexesFollow
<1>5. ListsInOrder'
  BY <1>2 DEF QueryInv, ListsInOrder
<1>6. NothingLost'
  <2>1. Heard' = Heard
    BY DEF Heard
  <2>2. \A c \in Heard : Kept(c, fused)
    BY DEF QueryInv, NothingLost
  <2>3. KeptBut(passed)'
    <3> SUFFICES ASSUME asked.over_fetch >= 0, asked.top_k <= Lookup, NEW c \in Heard,
                        NEW m \in knew[c], query[c][m] # 0
                 PROVE  \/ m \in R!Ids(passed') \/ Len(passed') >= asked.top_k
                        \/ app.threshold > 0 /\ m \notin R!Ids(passed')
      BY <2>1 DEF KeptBut
    <3>1. m \in R!Ids(fused) \/ Len(fused) >= asked.top_k
      BY <2>2 DEF Kept
    <3> QED BY <1>1, <1>2, <3>1
  <2> QED BY <2>3 DEF QueryInv, NothingLost, Heard, Kept
<1>7. FinalIsBest'
  BY DEF FinalIsBest
<1> QED BY <1>3, <1>4, <1>5, <1>6, <1>7 DEF QueryInv

\* What is long enough, or holds the memory, stays so when it is cut.
LEMMA CutKeeps ==
  ASSUME NEW l \in Listing, asked.top_k \in 1..100, NEW m,
         m \in R!Ids(l) \/ Len(l) >= asked.top_k
  PROVE  m \in R!Ids(R!Cut(l)) \/ Len(R!Cut(l)) >= asked.top_k
<1>1. Len(l) \in Nat
  BY LengthIs
<1>2. CASE Len(l) >= asked.top_k
  <2>1. Len(R!Cut(l)) = asked.top_k
    BY <1>2, CutIs
  <2> QED BY <2>1
<1>3. CASE ~ (Len(l) >= asked.top_k)
  <2>0. asked.top_k \in Nat
    <3>1. \A k \in 1..100 : k \in Nat
      OBVIOUS
    <3> QED BY <3>1
  <2>1. Len(l) <= asked.top_k
    BY <1>1, <1>3, <2>0
  <2>2. R!Cut(l) = l
    BY <2>1, CutIs
  <2> QED BY <1>3, <2>2
<1> QED BY <1>2, <1>3

\* What is long enough, or holds the memory, stays so when it is reranked.
LEMMA RerankKeeps ==
  ASSUME NEW l \in Listing, NEW k \in 1..100, l # <<>>, NEW m,
         m \in R!Ids(l) \/ Len(l) >= k
  PROVE  m \in R!Ids(R!Rerank(l, k)) \/ Len(R!Rerank(l, k)) >= k
<1> DEFINE f == R!Rerank(l, k)
<1>1. Len(l) \in Nat /\ k \in Nat /\ k >= 1
  BY LengthIs
<1>2. f \in Listing /\ Len(f) = Lesser(k, Len(l)) /\ R!Ids(f) \subseteq R!Ids(l)
  BY <1>1, RerankIs
<1>3. f \in Seq(Hit) /\ Once(f) /\ l \in Seq(Hit) /\ Once(l)
  BY <1>2 DEF Listing
<1> HIDE DEF f
<1>4. CASE Len(l) >= k
  <2>1. Len(f) = k
    BY <1>1, <1>2, <1>4 DEF Lesser
  <2> QED BY <1>1, <2>1 DEF f
<1>5. CASE ~ (Len(l) >= k)
  <2>1. Len(f) = Len(l)
    BY <1>1, <1>2, <1>5 DEF Lesser
  <2>2. Cardinality(R!Ids(f)) = Cardinality(R!Ids(l)) /\ IsFiniteSet(R!Ids(l))
    BY <1>3, <2>1, OnceCounts, IdsAre
  <2>3. R!Ids(f) = R!Ids(l)
    BY <1>2, <2>2, FS_Subset
  <2> QED BY <1>5, <2>3 DEF f
<1> QED BY <1>4, <1>5

\* Either reranker, or the cut that replaces it.
LEMMA RerankStep ==
  ASSUME QueryInv, R!RerankAll
  PROVE  QueryInv'
<1> USE DEF R!RerankAll, R!req, R!stores
<1> DEFINE k == asked.top_k
<1>1. asked \in R!RetrieveMemRequest /\ k \in 1..100 /\ k \in Nat /\ k >= 1
  <2>1. asked \in R!RetrieveMemRequest
    BY DEF QueryInv, SearchTypes
  <2>2. k \in 1..100
    BY <2>1, LimitIs
  <2> HIDE DEF k
  <2> QED BY <2>1, <2>2
<1>2. passed \in Listing /\ Sorted(passed)
  BY DEF QueryInv, SearchTypes, ListsInOrder
<1>3. Len(passed) \in Nat
  BY <1>2, LengthIs
<1>4. /\ final' \in Listing /\ Len(final') <= k
      /\ app.reranker => final' = R!BaseRerank(passed, k)
      /\ \A m : m \in R!Ids(passed) \/ Len(passed) >= k
                  => m \in R!Ids(final') \/ Len(final') >= k
  <2>1. CASE app.reranker /\ passed # <<>>
    <3>1. final' = R!Rerank(passed, k)
      BY <2>1
    <3>2. final' \in Listing /\ Len(final') = Lesser(k, Len(passed))
      BY <1>1, <1>2, <2>1, <3>1, RerankIs
    <3>3. Len(final') <= k
      <4> HIDE DEF k
      <4> QED BY <1>1, <1>3, <3>2 DEF Lesser
    <3>4. final' = R!BaseRerank(passed, k)
      <4>1. \A i \in 1..Len(passed) : passed[i].score <= passed[1].score
        <5> SUFFICES ASSUME NEW i \in 1..Len(passed) PROVE passed[i].score <= passed[1].score
          OBVIOUS
        <5>1. passed \in Seq(Hit) /\ 1 \in 1..Len(passed) /\ (i = 1 \/ 1 < i)
          BY <1>2, <1>3 DEF Listing
        <5>2. passed[i].score \in Nat /\ passed[1].score \in Nat
          BY <5>1, AtHits
        <5> QED BY <1>2, <5>1, <5>2 DEF Sorted
      <4> HIDE DEF k
      <4>2. R!Rerank(passed, k) = R!BaseRerank(passed, k)
        BY <1>1, <1>2, <2>1, <4>1, RerankAgrees
      <4> QED BY <3>1, <4>2
    <3>5. ASSUME NEW m, m \in R!Ids(passed) \/ Len(passed) >= k
          PROVE  m \in R!Ids(final') \/ Len(final') >= k
      <4> HIDE DEF k
      <4> QED BY <1>1, <1>2, <2>1, <3>1, <3>5, RerankKeeps
    <3> QED BY <3>2, <3>3, <3>4, <3>5
  <2>2. CASE ~ (app.reranker /\ passed # <<>>)
    <3>1. final' = R!Cut(passed)
      BY <2>2
    <3>2. final' \in Listing /\ Len(final') <= k
      BY <1>1, <1>2, <3>1, CutIs
    <3>3. ASSUME NEW m, m \in R!Ids(passed) \/ Len(passed) >= k
          PROVE  m \in R!Ids(final') \/ Len(final') >= k
      BY <1>1, <1>2, <3>1, <3>3, CutKeeps
    <3>4. app.reranker => final' = R!BaseRerank(passed, k)
      <4> SUFFICES ASSUME app.reranker PROVE final' = R!BaseRerank(passed, k)
        OBVIOUS
      <4>1. passed = <<>>
        BY <2>2
      <4>2. R!Cut(<<>>) = <<>>
        <5>1. <<>> \in Listing /\ Len(<<>>) <= asked.top_k
          BY <1>1, EmptyListing
        <5> QED BY <1>1, <5>1, CutIs
      <4>3. R!BaseRerank(<<>>, k) = <<>>
        BY <1>1, BaseRerankNothing
      <4> QED BY <3>1, <4>1, <4>2, <4>3
    <3> QED BY <3>2, <3>3, <3>4
  <2> QED BY <2>1, <2>2
<1>5. SearchTypes'
  BY <1>1, <1>4 DEF QueryInv, SearchTypes
<1>6. IndexesFollow'
  BY DEF QueryInv, IndexesFollow
<1>7. ListsInOrder'
  BY DEF QueryInv, ListsInOrder
<1>8. NothingLost'
  <2>1. Heard' = Heard
    BY DEF Heard
  <2>2. KeptBut(passed)
    BY DEF QueryInv, NothingLost
  <2>3. KeptBut(final)'
    <3> SUFFICES ASSUME asked.over_fetch >= 0, asked.top_k <= Lookup, NEW c \in Heard,
                        NEW m \in knew[c]
                 PROVE  \/ query[c][m] = 0 \/ m \in R!Ids(final') \/ Len(final') >= asked.top_k
                        \/ app.threshold > 0 /\ m \notin R!Ids(passed)
      BY <2>1 DEF KeptBut
    <3> QED BY <1>4, <2>2 DEF KeptBut
  <2> QED BY <2>3 DEF QueryInv, NothingLost, Heard, Kept
<1>9. FinalIsBest'
  BY <1>4 DEF FinalIsBest
<1> QED BY <1>5, <1>6, <1>7, <1>8, <1>9 DEF QueryInv

\* The second cut finds nothing to cut.
LEMMA RespondStep ==
  ASSUME QueryInv, R!Respond
  PROVE  QueryInv'
<1> USE DEF R!Respond, R!req, R!stores
<1>1. asked \in R!RetrieveMemRequest /\ asked.top_k \in 1..100
  <2>1. asked \in R!RetrieveMemRequest
    BY DEF QueryInv, SearchTypes
  <2> QED BY <2>1, LimitIs
<1>2. final \in Listing /\ Len(final) <= asked.top_k
  BY DEF QueryInv, SearchTypes, FinalIsBest
<1>3. final' = final
  BY <1>1, <1>2, CutIs
<1>4. SearchTypes'
  BY <1>1, <1>3 DEF QueryInv, SearchTypes
<1>5. IndexesFollow'
  BY DEF QueryInv, IndexesFollow
<1>6. ListsInOrder'
  BY <1>3 DEF QueryInv, ListsInOrder
<1>7. NothingLost'
  BY <1>3 DEF QueryInv, NothingLost, Heard, Kept, KeptBut
<1>8. FinalIsBest'
  BY <1>3 DEF QueryInv, FinalIsBest
<1> QED BY <1>4, <1>5, <1>6, <1>7, <1>8 DEF QueryInv

\* No step of any part disturbs what a query has in hand.
LEMMA QueryStep ==
  ASSUME QueryInv, R!Next \/ UNCHANGED search
  PROVE  QueryInv'
<1>1. CASE UNCHANGED search
  <2>1. SearchTypes' /\ IndexesFollow' /\ ListsInOrder' /\ FinalIsBest'
    BY <1>1 DEF search, QueryInv, SearchTypes, IndexesFollow, ListsInOrder, FinalIsBest
  <2>2. NothingLost'
    BY <1>1 DEF search, QueryInv, NothingLost, Heard, Kept, KeptBut
  <2> QED BY <2>1, <2>2 DEF QueryInv
<1>2. CASE R!Next
  BY <1>2, CommitStep, IndexStep, RefuseStep, RetrieveStep, AnswerStep, UnboundStep, FailStep,
     AnswerInPartStep, FuseStep, BoostStep, FilterStep, RerankStep, AllFailedStep, RespondStep
     DEF R!Next
<1> QED BY <1>1, <1>2

\* The pipeline (RetrievalPipeline.stages) keeps lists of hits that name no memory
\* twice, by score up to the filter, indexes that only grow, and each stage hands on
\* what the channels knew or a list that is long enough.
THEOREM QueryInvariant == ClientSpec => []QueryInv
<1>1. ClientInit => QueryInv
  BY QueryInit DEF ClientInit
<1>2. QueryInv /\ [ClientNext]_<<part, vars, front, search>> => QueryInv'
  BY QueryStep DEF ClientNext
<1> QED BY <1>1, <1>2, PTL DEF ClientSpec

\* NothingHidden: what a channel that answered knew when the request came is in the
\* answer, or the answer is full, or the threshold took it: for any channels, weights,
\* limits, failures and lists of any length (recall_k, the channels' limits, fuse(),
\* apply_signal_boost(), filter(), both cuts).
THEOREM NothingHiddenHolds == ClientSpec => []NothingHidden
<1>1. QueryInv => NothingHidden
  <2> SUFFICES ASSUME QueryInv, R!Status = 200, asked.over_fetch >= 0,
                      asked.top_k <= Lookup, NEW c \in R!Channels, channel[c] = "ok",
                      app.fuser => Weight[c] > 0, NEW m \in knew[c], query[c][m] # 0, ~ (m \in R!Ids(final)),
                      ~ (app.threshold > 0 /\ m \notin R!Ids(passed))
               PROVE  Len(final) = asked.top_k
    BY DEF NothingHidden, R!NothingHidden
  <2>1. stage = "answered"
    BY DEF R!Status
  <2>2. c \in Heard
    BY DEF Heard
  <2>3. Len(final) >= asked.top_k /\ Len(final) <= asked.top_k
    BY <2>1, <2>2 DEF QueryInv, NothingLost, FinalIsBest, KeptBut
  <2>4. final \in Listing /\ asked \in R!RetrieveMemRequest
    BY <2>1 DEF QueryInv, SearchTypes
  <2>5. Len(final) \in Nat
    BY <2>4, LengthIs
  <2>6. asked.top_k \in 1..100
    BY <2>4, LimitIs
  <2>7. asked.top_k \in Nat
    <3>1. \A k \in 1..100 : k \in Nat
      OBVIOUS
    <3> QED BY <2>6, <3>1
  <2> QED BY <2>3, <2>5, <2>7
<1> QED BY <1>1, QueryInvariant, PTL

\* GreedyDiversity: the answer has no memory twice and at most top_k, and
\* MMRReranker.mmr_rerank() with its running maxima over a matrix chooses the same
\* hits in the same order as BaseReranker.mmr_rerank(), for any lists, similarities
\* and lambda; the shortcut for one hit included, since its list is by score.
THEOREM GreedyDiversityHolds == ClientSpec => []GreedyDiversity
<1>1. QueryInv => GreedyDiversity
  <2> SUFFICES ASSUME QueryInv, R!Status = 200
               PROVE  /\ Len(final) <= asked.top_k /\ R!Cardinality(R!Ids(final)) = Len(final)
                      /\ app.reranker => final = R!BaseRerank(passed, asked.top_k)
    BY DEF GreedyDiversity, R!GreedyDiversity
  <2>1. stage = "answered"
    BY DEF R!Status
  <2>2. final \in Seq(Hit) /\ Once(final)
    BY DEF QueryInv, SearchTypes, Listing
  <2>3. R!Cardinality(R!Ids(final)) = Len(final)
    BY <2>2, OnceCounts, SameCardinality
  <2> QED BY <2>1, <2>3 DEF QueryInv, FinalIsBest
<1> QED BY <1>1, QueryInvariant, PTL

-----------------------------------------------------------------------------
(* A query: what the channels agree on *)

\* What is ahead comes first in a ranking.
LEMMA RankingKeeps ==
  ASSUME NEW l \in Seq(Hit), NEW score \in [R!Ids(l) -> Nat],
         NEW i \in 1..Len(R!Ranking(l, score)), NEW j \in 1..Len(R!Ranking(l, score)), i # j,
         <<R!Ranking(l, score)[i].id, R!Ranking(l, score)[j].id>> \in Ahead(l, score)
  PROVE  i < j
<1> DEFINE r == R!Ranking(l, score)
<1>1. /\ r \in Listing /\ R!Ids(r) = R!Ids(l)
      /\ \A x, y \in 1..Len(r) : x < y => <<r[x].id, r[y].id>> \in Ahead(l, score)
  BY RankingIs
<1>2. r \in Seq(Hit)
  BY <1>1 DEF Listing
<1> HIDE DEF r
<1>3. r[i].id \in R!Ids(l) /\ r[j].id \in R!Ids(l) /\ Len(r) \in Nat
  BY <1>1, <1>2, IdsAre, AtHits DEF r
<1>4. Orders(Ahead(l, score), R!Ids(l))
  BY AheadOrders
<1>5. ~ (<<r[j].id, r[i].id>> \in Ahead(l, score))
  BY <1>3, <1>4 DEF Orders, r
<1>6. i \in 1..Len(r) /\ j \in 1..Len(r)
  BY DEF r
<1>7. ~ (j < i)
  BY <1>1, <1>5, <1>6
<1> QED BY <1>3, <1>6, <1>7

\* Before each place of b there is a place of a with no lower score.
Outdoes(l, a, b) ==
  \A j \in 1..Len(l) :
    l[j].id = b => \E i \in 1..Len(l) : i < j /\ l[i].id = a /\ l[i].score >= l[j].score

\* Lists that hold to it hold to it together.
LEMMA JoinOutdoes ==
  ASSUME NEW x \in Seq(Hit), NEW y \in Seq(Hit), NEW a, NEW b, Outdoes(x, a, b), Outdoes(y, a, b)
  PROVE  Outdoes(x \o y, a, b)
<1>1. x \o y \in Seq(Hit) /\ Len(x \o y) = Len(x) + Len(y) /\ Len(x) \in Nat /\ Len(y) \in Nat
  OBVIOUS
<1>2. \A i \in 1..Len(x \o y) : (x \o y)[i] = IF i <= Len(x) THEN x[i] ELSE y[i - Len(x)]
  BY <1>1
<1> SUFFICES ASSUME NEW j \in 1..Len(x \o y), (x \o y)[j].id = b
             PROVE  \E i \in 1..Len(x \o y) :
                      i < j /\ (x \o y)[i].id = a /\ (x \o y)[i].score >= (x \o y)[j].score
  BY DEF Outdoes
<1>3. CASE j <= Len(x)
  <2>1. j \in 1..Len(x) /\ (x \o y)[j] = x[j]
    BY <1>1, <1>2, <1>3
  <2>2. PICK i \in 1..Len(x) : i < j /\ x[i].id = a /\ x[i].score >= x[j].score
    BY <2>1 DEF Outdoes
  <2>3. i \in 1..Len(x \o y) /\ (x \o y)[i] = x[i]
    BY <1>1, <1>2, <2>2
  <2> QED BY <2>1, <2>2, <2>3
<1>4. CASE ~ (j <= Len(x))
  <2> DEFINE k == j - Len(x)
  <2>1. k \in 1..Len(y) /\ (x \o y)[j] = y[k]
    BY <1>1, <1>2, <1>4
  <2>2. PICK i \in 1..Len(y) : i < k /\ y[i].id = a /\ y[i].score >= y[k].score
    BY <2>1 DEF Outdoes
  <2> DEFINE n == i + Len(x)
  <2>3. n \in 1..Len(x \o y) /\ n < j /\ ~ (n <= Len(x)) /\ n - Len(x) = i
    BY <1>1, <1>4, <2>2
  <2>4. (x \o y)[n] = y[i]
    <3> HIDE DEF n
    <3> QED BY <1>2, <2>3
  <2> HIDE DEF n, k
  <2> QED BY <2>1, <2>2, <2>3, <2>4
<1> QED BY <1>3, <1>4

\* Then a has the earlier first place.
LEMMA OutdoesPlaces ==
  ASSUME NEW l \in Seq(Hit), NEW a, NEW b, Outdoes(l, a, b), b \in R!Ids(l)
  PROVE  a \in R!Ids(l) /\ R!Position(l, a) < R!Position(l, b)
<1>1. R!Position(l, b) \in 1..Len(l) /\ l[R!Position(l, b)].id = b
  BY PositionIs
<1>2. PICK i \in 1..Len(l) : i < R!Position(l, b) /\ l[i].id = a
  BY <1>1 DEF Outdoes
<1>3. a \in R!Ids(l)
  BY <1>2, IdsAre
<1>4. R!Position(l, a) <= i /\ R!Position(l, a) \in 1..Len(l) /\ Len(l) \in Nat
  BY <1>2, <1>3, PositionIs, AtHits
<1>5. R!Position(l, a) \in Nat /\ R!Position(l, b) \in Nat /\ i \in Nat
  BY <1>1, <1>4
<1> QED BY <1>2, <1>3, <1>4, <1>5

\* In a list by score, an earlier first place is enough.
LEMMA SortedOutdoes ==
  ASSUME NEW l \in Listing, Sorted(l), NEW a, NEW b,
         b \in R!Ids(l) => a \in R!Ids(l) /\ R!Position(l, a) < R!Position(l, b)
  PROVE  Outdoes(l, a, b)
<1>1. l \in Seq(Hit) /\ Once(l)
  BY DEF Listing
<1> SUFFICES ASSUME NEW j \in 1..Len(l), l[j].id = b
             PROVE  \E i \in 1..Len(l) : i < j /\ l[i].id = a /\ l[i].score >= l[j].score
  BY DEF Outdoes
<1>2. b \in R!Ids(l) /\ R!Position(l, b) = j
  BY <1>1, IdsAre, PositionOnce
<1> DEFINE i == R!Position(l, a)
<1>3. i \in 1..Len(l) /\ l[i].id = a /\ i < j
  BY <1>1, <1>2, PositionIs
<1>4. l[i].score >= l[j].score
  BY <1>3 DEF Sorted
<1> QED BY <1>3, <1>4

\* Nothing speaks against an empty list.
LEMMA EmptyOutdoes ==
  ASSUME NEW a, NEW b
  PROVE  Outdoes(<<>>, a, b)
BY DEF Outdoes

\* What every counted list holds to, the merged list holds to.
LEMMA JoinedOutdoes ==
  ASSUME NEW counted, NEW outs \in [R!Channels -> Seq(Hit)], NEW a, NEW b,
         \A c \in R!Channels \cap counted : Outdoes(outs[c], a, b)
  PROVE  Outdoes(R!Joined(counted, outs), a, b)
<1> DEFINE Of(c) == IF c \in counted THEN outs[c] ELSE <<>>
<1>1. R!Channels = {"bm25", "vector", "entity", "graph"}
  BY DEF R!Channels
<1>2. \A c \in R!Channels : Of(c) \in Seq(Hit) /\ Outdoes(Of(c), a, b)
  BY EmptyIds, EmptyOutdoes
<1>3. R!Joined(counted, outs) = Of("bm25") \o Of("vector") \o Of("entity") \o Of("graph")
  BY DEF R!Joined
<1> HIDE DEF Of
<1> DEFINE x == Of("bm25") \o Of("vector")
           y == x \o Of("entity")
<1>4. x \in Seq(Hit) /\ Outdoes(x, a, b)
  BY <1>1, <1>2, IdsJoin, JoinOutdoes
<1> HIDE DEF x
<1>5. y \in Seq(Hit) /\ Outdoes(y, a, b)
  BY <1>1, <1>2, <1>4, IdsJoin, JoinOutdoes
<1> HIDE DEF y
<1>6. Outdoes(y \o Of("graph"), a, b)
  BY <1>1, <1>2, <1>5, JoinOutdoes
<1> QED BY <1>3, <1>6 DEF x, y

\* A larger divisor gives no larger quotient, nor does a smaller dividend.
LEMMA QuotientFalls ==
  ASSUME NEW n \in Nat, NEW d \in Nat \ {0}, NEW e \in Nat \ {0}, d <= e
  PROVE  n \div d >= n \div e
<1> DEFINE p == n \div d
           q == n \div e
<1>1. p \in Nat /\ d * p <= n /\ n < d * (p + 1)
  OBVIOUS
<1>2. q \in Nat /\ e * q <= n
  OBVIOUS
<1> HIDE DEF p, q
<1>3. d * q <= e * q
  BY <1>2
<1>4. SUFFICES ASSUME p < q PROVE FALSE
  BY <1>1, <1>2 DEF p, q
<1>5. p + 1 <= q
  BY <1>1, <1>2, <1>4
<1>6. d * (p + 1) <= d * q
  BY <1>1, <1>2, <1>5
<1>7. d * (p + 1) \in Int /\ d * q \in Int /\ e * q \in Int
  BY <1>1, <1>2
<1> QED BY <1>1, <1>2, <1>3, <1>6, <1>7

\* A larger dividend gives no smaller quotient.
LEMMA QuotientGrows ==
  ASSUME NEW m \in Nat, NEW n \in Nat, m >= n
  PROVE  m \div 10 >= n \div 10
OBVIOUS

\* Products of larger factors are larger.
LEMMA ProductGrows ==
  ASSUME NEW s \in Nat, NEW t \in Nat, NEW f \in Nat, NEW g \in Nat, s >= t, f >= g
  PROVE  s * f >= t * g /\ s * f \in Nat /\ t * g \in Nat
<1>1. s * f >= t * f
  OBVIOUS
<1>2. t * f >= t * g
  OBVIOUS
<1>3. s * f \in Nat /\ t * f \in Nat /\ t * g \in Nat
  OBVIOUS
<1> QED BY ONLY <1>1, <1>2, <1>3

\* An earlier rank contributes no less.
LEMMA ContributionFalls ==
  ASSUME NEW w \in Nat, NEW p \in Nat, p > 0, NEW q \in Nat, p < q
  PROVE  R!Contribution(w, p) >= R!Contribution(w, q)
<1>1. One \in Nat /\ RrfK \in Nat
  BY SearchAssumption
<1> DEFINE n == w * One
           d == 100 * (RrfK + p)
           e == 100 * (RrfK + q)
<1>2. n \in Nat /\ d \in Nat \ {0} /\ e \in Nat \ {0} /\ d <= e
  BY <1>1
<1>3. R!Contribution(w, p) = n \div d /\ R!Contribution(w, q) = n \div e
  BY DEF R!Contribution
<1> HIDE DEF n, d, e
<1> QED BY <1>2, <1>3, QuotientFalls

\* Sums of larger terms are larger.
LEMMA SumsGrow ==
  ASSUME NEW a \in Nat, NEW b \in Nat, NEW x \in Nat, NEW y \in Nat, a >= x, b >= y
  PROVE  a + b \in Nat /\ x + y \in Nat /\ a + b >= x + y
OBVIOUS

\* What every counted channel ranks behind another gets no more from any.
LEMMA TotalsAgree ==
  ASSUME NEW counted, \A c \in counted : Weight[c] > 0,
         NEW outs \in [R!Channels -> Seq(Hit)], NEW a, NEW b,
         \A c \in R!Channels \cap counted :
           b \in R!Ids(outs[c]) =>
             a \in R!Ids(outs[c]) /\ R!Position(outs[c], a) < R!Position(outs[c], b)
  PROVE  /\ Total(counted, outs, a) \in Nat /\ Total(counted, outs, b) \in Nat
         /\ Total(counted, outs, a) >= Total(counted, outs, b)
<1>1. R!Channels = {"bm25", "vector", "entity", "graph"}
  BY DEF R!Channels
<1>2. ASSUME NEW c \in R!Channels
      PROVE  /\ Part(counted, outs, c, a) \in Nat /\ Part(counted, outs, c, b) \in Nat
             /\ Part(counted, outs, c, a) >= Part(counted, outs, c, b)
  <2>1. Part(counted, outs, c, a) \in Nat /\ Part(counted, outs, c, b) \in Nat
    BY PartIs
  <2>2. CASE c \in counted /\ b \in R!Ids(outs[c])
    <3> DEFINE p == R!Position(outs[c], a)
               q == R!Position(outs[c], b)
    <3>1. a \in R!Ids(outs[c]) /\ p < q
      BY <2>2
    <3>2. outs[c] \in Seq(Hit) /\ Len(outs[c]) \in Nat
      BY AtHits
    <3>3. p \in 1..Len(outs[c]) /\ q \in 1..Len(outs[c])
      BY <2>2, <3>1, <3>2, PositionIs
    <3>4. p \in Nat /\ p > 0 /\ q \in Nat
      BY <3>2, <3>3
    <3>5. Weight[c] \in Nat
      <4>1. Weight[c] \in Int /\ Weight[c] > 0
        BY <2>2, SearchAssumption
      <4> QED BY <4>1
    <3>6. /\ Part(counted, outs, c, a) = R!Contribution(Weight[c], p)
          /\ Part(counted, outs, c, b) = R!Contribution(Weight[c], q)
      BY <2>2, <3>1 DEF Part
    <3> HIDE DEF p, q
    <3> QED BY <2>1, <3>1, <3>4, <3>5, <3>6, ContributionFalls
  <2>3. CASE ~ (c \in counted /\ b \in R!Ids(outs[c]))
    <3>1. Part(counted, outs, c, b) = 0
      BY <2>3 DEF Part
    <3> QED BY <2>1, <3>1
  <2> QED BY <2>1, <2>2, <2>3
<1> DEFINE p == [c \in R!Channels |-> Part(counted, outs, c, a)]
           q == [c \in R!Channels |-> Part(counted, outs, c, b)]
<1>3. \A c \in R!Channels : p[c] \in Nat /\ q[c] \in Nat /\ p[c] >= q[c]
  BY <1>2
<1>4. /\ Total(counted, outs, a) = p["bm25"] + p["vector"] + p["entity"] + p["graph"]
      /\ Total(counted, outs, b) = q["bm25"] + q["vector"] + q["entity"] + q["graph"]
  BY <1>1 DEF Total
<1> HIDE DEF p, q
<1>5. /\ p["bm25"] \in Nat /\ q["bm25"] \in Nat /\ p["bm25"] >= q["bm25"]
      /\ p["vector"] \in Nat /\ q["vector"] \in Nat /\ p["vector"] >= q["vector"]
      /\ p["entity"] \in Nat /\ q["entity"] \in Nat /\ p["entity"] >= q["entity"]
      /\ p["graph"] \in Nat /\ q["graph"] \in Nat /\ p["graph"] >= q["graph"]
  BY <1>1, <1>3
<1> DEFINE p2 == p["bm25"] + p["vector"]
           q2 == q["bm25"] + q["vector"]
           p3 == p2 + p["entity"]
           q3 == q2 + q["entity"]
<1>6. p2 \in Nat /\ q2 \in Nat /\ p2 >= q2
  BY <1>5, SumsGrow
<1> HIDE DEF p2, q2
<1>7. p3 \in Nat /\ q3 \in Nat /\ p3 >= q3
  BY <1>5, <1>6, SumsGrow
<1> HIDE DEF p3, q3
<1>8. p3 + p["graph"] \in Nat /\ q3 + q["graph"] \in Nat /\ p3 + p["graph"] >= q3 + q["graph"]
  BY <1>5, <1>7, SumsGrow
<1> QED BY <1>4, <1>8 DEF p2, q2, p3, q3

\* The best scores agree with lists in which a outdoes b.
LEMMA BestAgree ==
  ASSUME NEW l \in Seq(Hit), NEW a, NEW b, Outdoes(l, a, b), b \in R!Ids(l)
  PROVE  /\ R!Max(Scores(l, a)) \in Nat /\ R!Max(Scores(l, b)) \in Nat
         /\ R!Max(Scores(l, a)) >= R!Max(Scores(l, b))
<1>1. a \in R!Ids(l)
  BY OutdoesPlaces
<1>2. R!Max(Scores(l, a)) \in Nat /\ R!Max(Scores(l, b)) \in Nat
  BY <1>1, ScoresAre
<1>3. PICK j \in 1..Len(l) : l[j].id = b /\ l[j].score = R!Max(Scores(l, b))
  BY ScoresAre
<1>4. PICK i \in 1..Len(l) : l[i].id = a /\ l[i].score >= l[j].score
  BY <1>3 DEF Outdoes
<1>5. l[i].score <= R!Max(Scores(l, a)) /\ l[i].score \in Nat
  BY <1>1, <1>4, ScoresAre, AtHits
<1> QED BY <1>2, <1>3, <1>4, <1>5

\* Every channel that counts ranks b behind a, or does not list it.
Voters == {c \in R!Answered : app.fuser => Weight[c] > 0}
Agreed(a, b) ==
  \A c \in Voters :
    b \in R!Ids(outputs[c]) =>
      a \in R!Ids(outputs[c]) /\ R!Position(outputs[c], a) < R!Position(outputs[c], b)

\* A list that keeps to that, and one that keeps to it unless the signals favour b.
Follows(l) == \A i, j \in 1..Len(l) : i # j /\ Agreed(l[i].id, l[j].id) => i < j
Respects(l) ==
  \A i, j \in 1..Len(l) :
    i # j /\ Factor[l[i].id] >= Factor[l[j].id] /\ Agreed(l[i].id, l[j].id) => i < j

AgreeInv ==
  /\ stage = "fused" => Follows(fused)
  /\ stage = "boosted" => Respects(fused)
  /\ stage \in {"filtered", "ranked"} => Respects(passed)

\* Fusion and its fallback keep what the channels agree on.
LEMMA MergedFollows ==
  ASSUME SearchTypes, ListsInOrder, NEW l,
         l = IF app.fuser THEN R!Fuse(R!Answered, outputs) ELSE R!FlatConcat(R!Answered, outputs)
  PROVE  Follows(l)
<1> DEFINE A == R!Answered
           counted == IF app.fuser THEN Counted(A) ELSE A
           all == R!Joined(counted, outputs)
<1>1. A \in SUBSET R!Channels
  BY DEF R!Answered
<1>2. outputs \in [R!Channels -> Seq(Hit)] /\ \A c \in R!Channels : outputs[c] \in Listing
  BY ListingsAre DEF SearchTypes
<1>3. counted = Voters
  BY DEF Voters, Counted
<1> HIDE DEF A
<1>4. ASSUME NEW a, NEW b, Agreed(a, b)
      PROVE  Outdoes(all, a, b)
  <2>1. ASSUME NEW c \in R!Channels \cap counted
        PROVE  Outdoes(outputs[c], a, b)
    <3>1. b \in R!Ids(outputs[c]) =>
            a \in R!Ids(outputs[c]) /\ R!Position(outputs[c], a) < R!Position(outputs[c], b)
      BY <1>3, <1>4, <2>1 DEF Agreed
    <3>2. outputs[c] \in Listing /\ Sorted(outputs[c])
      BY <1>2, <2>1 DEF ListsInOrder
    <3> QED BY <3>1, <3>2, SortedOutdoes
  <2> HIDE DEF counted
  <2> QED BY <1>2, <2>1, JoinedOutdoes
<1>5. CASE app.fuser
  <2> DEFINE score == [m \in R!Ids(all) |-> Total(Counted(A), outputs, m)]
  <2>1. l = R!Ranking(all, score) /\ all \in Seq(Hit) /\ score \in [R!Ids(all) -> Nat]
    BY <1>1, <1>2, <1>5, FuseIs DEF A
  <2>2. R!Ids(l) = R!Ids(all) /\ l \in Seq(Hit)
    <3> HIDE DEF all, score
    <3> QED BY <2>1, RankingIs DEF Listing
  <2> SUFFICES ASSUME NEW i \in 1..Len(l), NEW j \in 1..Len(l), i # j,
                      Agreed(l[i].id, l[j].id)
               PROVE  i < j
    BY DEF Follows
  <2> DEFINE a == l[i].id
             b == l[j].id
  <2>3. a \in R!Ids(all) /\ b \in R!Ids(all)
    BY <2>2, IdsAre
  <2>4. R!Position(all, a) < R!Position(all, b)
    <3> HIDE DEF all
    <3> QED BY <1>4, <2>1, <2>3, OutdoesPlaces
  <2>5. Total(Counted(A), outputs, a) >= Total(Counted(A), outputs, b)
        /\ Total(Counted(A), outputs, a) \in Nat /\ Total(Counted(A), outputs, b) \in Nat
    <3>1. \A c \in Counted(A) : Weight[c] > 0
      BY DEF Counted
    <3>2. \A c \in R!Channels \cap Counted(A) :
            b \in R!Ids(outputs[c]) =>
              a \in R!Ids(outputs[c]) /\ R!Position(outputs[c], a) < R!Position(outputs[c], b)
      BY <1>3, <1>5 DEF Agreed
    <3> HIDE DEF a, b
    <3> QED BY <1>2, <3>1, <3>2, TotalsAgree
  <2>6. score[a] = Total(Counted(A), outputs, a) /\ score[b] = Total(Counted(A), outputs, b)
    <3> HIDE DEF all
    <3> QED BY <2>3
  <2>7. <<a, b>> \in Ahead(all, score)
    <3>1. score[a] > score[b] \/ score[a] = score[b]
      <4> HIDE DEF score, a, b
      <4> QED BY <2>5, <2>6
    <3> HIDE DEF score, all
    <3> QED BY <2>3, <2>4, <3>1 DEF Ahead
  <2> HIDE DEF score, all
  <2> QED BY <2>1, <2>7, RankingKeeps
<1>6. CASE ~ app.fuser
  <2> DEFINE score == [m \in R!Ids(all) |-> R!Max(Scores(all, m))]
  <2>1. l = R!Ranking(all, score) /\ all \in Seq(Hit) /\ score \in [R!Ids(all) -> Nat]
    BY <1>1, <1>2, <1>6, FlatIs DEF A
  <2>2. R!Ids(l) = R!Ids(all) /\ l \in Seq(Hit)
    <3> HIDE DEF all, score
    <3> QED BY <2>1, RankingIs DEF Listing
  <2> SUFFICES ASSUME NEW i \in 1..Len(l), NEW j \in 1..Len(l), i # j,
                      Agreed(l[i].id, l[j].id)
               PROVE  i < j
    BY DEF Follows
  <2> DEFINE a == l[i].id
             b == l[j].id
  <2>3. a \in R!Ids(all) /\ b \in R!Ids(all)
    BY <2>2, IdsAre
  <2>4. Outdoes(all, a, b)
    BY <1>4
  <2>5. R!Position(all, a) < R!Position(all, b)
    <3> HIDE DEF all
    <3> QED BY <2>1, <2>3, <2>4, OutdoesPlaces
  <2>6. score[a] >= score[b] /\ score[a] \in Nat /\ score[b] \in Nat
    <3> HIDE DEF all
    <3>1. score[a] = R!Max(Scores(all, a)) /\ score[b] = R!Max(Scores(all, b))
      BY <2>3
    <3> QED BY <2>1, <2>3, <2>4, <3>1, BestAgree
  <2>7. <<a, b>> \in Ahead(all, score)
    <3>1. score[a] > score[b] \/ score[a] = score[b]
      <4> HIDE DEF score, a, b
      <4> QED BY <2>6
    <3> HIDE DEF score, all
    <3> QED BY <2>3, <2>5, <3>1 DEF Ahead
  <2> HIDE DEF score, all
  <2> QED BY <2>1, <2>7, RankingKeeps
<1> QED BY <1>5, <1>6

\* Signals that favour b no more than a leave it behind.
LEMMA BoostRespects ==
  ASSUME NEW l \in Listing, Sorted(l), Follows(l), NEW known, known = Memories \/ known = {}
  PROVE  Respects(R!Boost(l, known))
<1> DEFINE f(m) == IF m \in known THEN Factor[m] ELSE 10
           score == [m \in R!Ids(l) |-> (l[R!Position(l, m)].score * f(m)) \div 10]
           r == R!Boost(l, known)
<1>1. l \in Seq(Hit) /\ Once(l) /\ known \in SUBSET Memories
  BY DEF Listing
<1>2. r = R!Ranking(l, score) /\ score \in [R!Ids(l) -> Nat]
  BY <1>1, BoostIs
<1>3. R!Ids(r) = R!Ids(l) /\ r \in Seq(Hit)
  <2> HIDE DEF r, score
  <2> QED BY <1>1, <1>2, RankingIs DEF Listing
<1> SUFFICES ASSUME NEW i \in 1..Len(r), NEW j \in 1..Len(r), i # j,
                    Factor[r[i].id] >= Factor[r[j].id], Agreed(r[i].id, r[j].id)
             PROVE  i < j
  BY DEF Respects
<1> DEFINE a == r[i].id
           b == r[j].id
           p == R!Position(l, a)
           q == R!Position(l, b)
<1>4. a \in R!Ids(l) /\ b \in R!Ids(l) /\ a \in Memories /\ b \in Memories
  <2> HIDE DEF r
  <2> QED BY <1>1, <1>3, IdsAre
<1>5. p \in 1..Len(l) /\ q \in 1..Len(l) /\ l[p].id = a /\ l[q].id = b
  <2> HIDE DEF a, b
  <2> QED BY <1>1, <1>4, PositionIs
<1>6. a # b
  <2> SUFFICES ASSUME a = b PROVE FALSE
    OBVIOUS
  <2>1. Once(r)
    <3> HIDE DEF r, score
    <3> QED BY <1>1, <1>2, RankingIs DEF Listing
  <2> HIDE DEF r
  <2> QED BY <2>1 DEF Once
<1>7. p < q
  <2>1. p # q
    <3> HIDE DEF p, q, a, b
    <3> QED BY <1>5, <1>6
  <2>2. Agreed(l[p].id, l[q].id)
    BY <1>5
  <2> HIDE DEF p, q, a, b
  <2> QED BY <1>5, <2>1, <2>2 DEF Follows
<1>8. l[p].score >= l[q].score /\ l[p].score \in Nat /\ l[q].score \in Nat
  <2> HIDE DEF p, q, a, b
  <2> QED BY <1>1, <1>5, <1>7, AtHits DEF Sorted
<1>9. f(a) \in Nat /\ f(b) \in Nat /\ f(a) >= f(b)
  <2>1. Factor[a] \in Nat /\ Factor[b] \in Nat /\ Factor[a] >= Factor[b]
    BY <1>4, SearchAssumption
  <2> HIDE DEF a, b
  <2>2. CASE known = Memories
    BY <1>4, <2>1, <2>2
  <2>3. CASE known = {}
    BY <2>3
  <2> QED BY <2>2, <2>3
<1>10. score[a] = (l[p].score * f(a)) \div 10 /\ score[b] = (l[q].score * f(b)) \div 10
  BY <1>4
<1>11. score[a] >= score[b] /\ score[a] \in Nat /\ score[b] \in Nat
  <2> DEFINE x == l[p].score * f(a)
             y == l[q].score * f(b)
  <2> HIDE DEF a, b, p, q, f, score, r
  <2>1. x >= y /\ x \in Nat /\ y \in Nat
    <3> DEFINE s == l[p].score
               t == l[q].score
    <3>1. /\ s \in Nat /\ t \in Nat /\ s >= t
          /\ f(a) \in Nat /\ f(b) \in Nat /\ f(a) >= f(b)
      BY <1>8, <1>9
    <3> HIDE DEF s, t
    <3>2. s * f(a) >= t * f(b) /\ s * f(a) \in Nat /\ t * f(b) \in Nat
      BY <3>1, ProductGrows
    <3> QED BY <3>2 DEF s, t
  <2>2. score[a] = x \div 10 /\ score[b] = y \div 10
    BY <1>10
  <2> HIDE DEF x, y
  <2>3. x \div 10 >= y \div 10 /\ x \div 10 \in Nat /\ y \div 10 \in Nat
    BY <2>1, QuotientGrows, QuotientIs
  <2> QED BY <2>2, <2>3
<1>12. <<a, b>> \in Ahead(l, score)
  <2>1. score[a] > score[b] \/ score[a] = score[b]
    <3> HIDE DEF score, a, b
    <3> QED BY <1>11
  <2>2. R!Position(l, a) < R!Position(l, b)
    BY <1>7
  <2> HIDE DEF score, a, b, p, q, r
  <2> QED BY <1>4, <2>1, <2>2 DEF Ahead
<1> HIDE DEF score
<1> QED BY <1>1, <1>2, <1>12, RankingKeeps

\* The filter keeps the order.
LEMMA PicksRespect ==
  ASSUME NEW l \in Listing, NEW f \in Listing, Respects(l), NEW places, Picks(f, l, places)
  PROVE  Respects(f)
<1> SUFFICES ASSUME NEW i \in 1..Len(f), NEW j \in 1..Len(f), i # j,
                    Factor[f[i].id] >= Factor[f[j].id], Agreed(f[i].id, f[j].id)
             PROVE  i < j
  BY DEF Respects
<1>1. /\ places[i] \in 1..Len(l) /\ places[j] \in 1..Len(l)
      /\ f[i] = l[places[i]] /\ f[j] = l[places[j]]
      /\ i < j => places[i] < places[j]
      /\ j < i => places[j] < places[i]
  BY DEF Picks
<1>2. Len(f) \in Nat /\ Len(l) \in Nat
  BY LengthIs
<1>3. places[i] # places[j]
  BY <1>1, <1>2
<1>4. places[i] < places[j]
  BY <1>1, <1>3 DEF Respects
<1> QED BY <1>1, <1>2, <1>4

\* Once the recall is over nobody votes anew.
LEMMA VotesStay ==
  ASSUME UNCHANGED <<app, channel, outputs>>
  PROVE  \A a, b : Agreed(a, b)' <=> Agreed(a, b)
BY DEF Agreed, Voters, R!Answered

\* Fusion.
LEMMA FuseAgrees ==
  ASSUME QueryInv, R!FuseAll
  PROVE  AgreeInv'
<1>1. Follows(fused')
  BY MergedFollows DEF QueryInv, R!FuseAll
<1>2. UNCHANGED <<app, channel, outputs>> /\ stage' = "fused"
  BY DEF R!FuseAll
<1>3. Follows(fused)'
  BY <1>1, <1>2, VotesStay DEF Follows
<1> QED BY <1>2, <1>3 DEF AgreeInv

\* The boost.
LEMMA BoostAgrees ==
  ASSUME QueryInv, AgreeInv, R!BoostAll
  PROVE  AgreeInv'
<1>1. fused \in Listing /\ Sorted(fused) /\ Follows(fused)
  BY DEF QueryInv, SearchTypes, ListsInOrder, AgreeInv, R!BoostAll
<1>2. UNCHANGED <<app, channel, outputs>> /\ stage' = "boosted"
  BY DEF R!BoostAll
<1>3. fused' \in {fused, R!Boost(fused, Memories), R!Boost(fused, {})}
  BY DEF R!BoostAll, R!Fault
<1>4. Respects(fused')
  <2>1. CASE fused' = fused
    BY <1>1, <2>1 DEF Follows, Respects
  <2>2. CASE fused' = R!Boost(fused, Memories)
    BY <1>1, <2>2, BoostRespects
  <2>3. CASE fused' = R!Boost(fused, {})
    BY <1>1, <2>3, BoostRespects
  <2> QED BY <1>3, <2>1, <2>2, <2>3
<1>5. Respects(fused)'
  BY <1>2, <1>4, VotesStay DEF Respects
<1> QED BY <1>2, <1>5 DEF AgreeInv

\* The filter.
LEMMA FilterAgrees ==
  ASSUME QueryInv, AgreeInv, R!FilterAll
  PROVE  AgreeInv'
<1>1. fused \in Listing /\ Respects(fused) /\ app \in Deployments
  BY DEF QueryInv, SearchTypes, AgreeInv, R!FilterAll
<1>2. UNCHANGED <<app, channel, outputs>> /\ stage' = "filtered"
  BY DEF R!FilterAll
<1>3. Respects(passed')
  <2>1. CASE passed' = R!Filtered(fused)
    BY <1>1, <2>1, FilteredIs, PicksRespect
  <2>2. CASE passed' = fused
    BY <1>1, <2>2
  <2> QED BY <2>1, <2>2 DEF R!FilterAll
<1>4. Respects(passed)'
  BY <1>2, <1>3, VotesStay DEF Respects
<1> QED BY <1>2, <1>4 DEF AgreeInv

\* The reranker looks at the list and leaves it.
LEMMA RerankAgreed ==
  ASSUME AgreeInv, R!RerankAll
  PROVE  AgreeInv'
<1>1. UNCHANGED <<app, channel, outputs, passed>> /\ stage = "filtered" /\ stage' = "ranked"
  BY DEF R!RerankAll
<1>2. Respects(passed)'
  BY <1>1, VotesStay DEF Respects, AgreeInv
<1> QED BY <1>1, <1>2 DEF AgreeInv

\* An empty answer agrees with everything.
LEMMA RetrieveAgrees ==
  ASSUME QueryInv, R!Retrieve
  PROVE  AgreeInv'
<1>1. passed' = <<>> /\ stage' \in {"ranked", "recall"}
  BY DEF QueryInv, ListsInOrder, R!Retrieve
<1>2. Respects(passed)'
  BY <1>1 DEF Respects
<1> QED BY <1>1, <1>2 DEF AgreeInv

\* No other step makes a list.
LEMMA AgreeStep ==
  ASSUME QueryInv, AgreeInv, R!Next \/ UNCHANGED search
  PROVE  AgreeInv'
<1>1. CASE UNCHANGED search
  BY <1>1, VotesStay DEF search, AgreeInv, Follows, Respects
<1>2. ASSUME NEW m, NEW c,
             \/ R!Commit(m) \/ R!Index(m, c) \/ R!Refuse \/ R!Answer(c) \/ R!Unbound(c)
             \/ R!Fail(c) \/ R!AnswerInPart \/ R!AllFailed \/ R!RerankError \/ R!Respond
      PROVE  stage' \notin {"fused", "boosted", "filtered", "ranked"}
  BY <1>2 DEF R!Commit, R!Index, R!Refuse, R!Answer, R!Unbound, R!Fail, R!AnswerInPart,
     R!AllFailed, R!RerankError, R!Respond
<1>3. stage' \notin {"fused", "boosted", "filtered", "ranked"} => AgreeInv'
  BY DEF AgreeInv
<1>4. CASE R!Next
  BY <1>2, <1>3, <1>4, FuseAgrees, BoostAgrees, FilterAgrees, RerankAgreed, RetrieveAgrees
     DEF R!Next
<1> QED BY <1>1, <1>4

\* UnanimityRespected: what every channel that lists it ranks behind another memory
\* stays behind it through reciprocal ranks or best scores, the boost unless the
\* signals favour it, and the filter.
THEOREM UnanimityRespectedHolds == ClientSpec => []UnanimityRespected
<1>1. ClientInit => AgreeInv
  BY DEF ClientInit, R!Init, AgreeInv
<1>2. QueryInv /\ AgreeInv /\ [ClientNext]_<<part, vars, front, search>> => AgreeInv'
  BY AgreeStep DEF ClientNext
<1>3. AgreeInv => UnanimityRespected
  <2> SUFFICES ASSUME AgreeInv, stage = "ranked",
                      NEW i \in 1..Len(passed), NEW j \in 1..Len(passed), i # j,
                      Factor[passed[i].id] >= Factor[passed[j].id],
                      \A l \in {outputs[c] : c \in {x \in R!Answered : app.fuser => Weight[x] > 0}} :
                        passed[j].id \in R!Ids(l) =>
                          /\ passed[i].id \in R!Ids(l)
                          /\ R!Position(l, passed[i].id) < R!Position(l, passed[j].id)
               PROVE  i < j
    BY DEF UnanimityRespected, R!UnanimityRespected
  <2>1. Agreed(passed[i].id, passed[j].id)
    BY DEF Agreed, Voters
  <2> QED BY <2>1 DEF AgreeInv, Respects
<1> QED BY <1>1, <1>2, <1>3, QueryInvariant, PTL DEF ClientSpec

-----------------------------------------------------------------------------
(* An ingest request: sums, and what a list of lists holds *)

\* The n-th value is made of the one before by the n-th of the functions g.
Iterated(T, b, k, g) ==
  CHOOSE f : f \in [0..k -> T] /\ f[0] = b /\ \A n \in 1..k : f[n] = g[n][f[n - 1]]

\* A function that is defined step by step exists.
LEMMA Iterates ==
  ASSUME NEW T, NEW b \in T, NEW k \in Nat, NEW g \in [1..k -> [T -> T]]
  PROVE  /\ Iterated(T, b, k, g) \in [0..k -> T] /\ Iterated(T, b, k, g)[0] = b
         /\ \A n \in 1..k : Iterated(T, b, k, g)[n] = g[n][Iterated(T, b, k, g)[n - 1]]
<1> DEFINE Good(m, f) == f[0] = b /\ \A n \in 1..m : f[n] = g[n][f[n - 1]]
           S == {m \in Nat : m <= k => \E f \in [0..m -> T] : Good(m, f)}
<1>1. 0 \in S
  <2>1. [n \in 0..0 |-> b] \in [0..0 -> T] /\ Good(0, [n \in 0..0 |-> b])
    OBVIOUS
  <2> QED BY <2>1
<1>2. ASSUME NEW m \in Nat, m \in S PROVE m + 1 \in S
  <2> SUFFICES ASSUME m + 1 <= k PROVE \E f \in [0..(m + 1) -> T] : Good(m + 1, f)
    OBVIOUS
  <2>1. PICK f \in [0..m -> T] : Good(m, f)
    BY <1>2
  <2> DEFINE h == [n \in 0..(m + 1) |-> IF n <= m THEN f[n] ELSE g[m + 1][f[m]]]
  <2>2. m \in 0..m /\ m + 1 \in 1..k /\ f[m] \in T
    OBVIOUS
  <2>3. g[m + 1][f[m]] \in T
    BY <2>2
  <2>4. h \in [0..(m + 1) -> T]
    BY <2>3
  <2>5. h[0] = b
    BY <2>1
  <2>6. ASSUME NEW n \in 1..(m + 1) PROVE h[n] = g[n][h[n - 1]]
    <3>1. CASE n <= m
      <4>1. n \in 1..m /\ h[n] = f[n] /\ h[n - 1] = f[n - 1]
        BY <3>1
      <4> QED BY <2>1, <4>1
    <3>2. CASE ~ (n <= m)
      <4>1. n = m + 1 /\ n - 1 = m /\ m \in 0..(m + 1) /\ m + 1 \in 0..(m + 1) /\ m <= m
            /\ ~ (m + 1 <= m)
        BY <3>2
      <4>2. h[m] = f[m] /\ h[m + 1] = g[m + 1][f[m]]
        BY <4>1
      <4> HIDE DEF h
      <4> QED BY <4>1, <4>2
    <3> QED BY <3>1, <3>2
  <2> QED BY <2>4, <2>5, <2>6
<1> HIDE DEF S
<1>3. k \in S
  BY <1>1, <1>2, AllNaturals
<1>4. \E f : f \in [0..k -> T] /\ f[0] = b /\ \A n \in 1..k : f[n] = g[n][f[n - 1]]
  BY <1>3 DEF S
<1> QED BY <1>4 DEF Iterated

Sums(numbers) == CHOOSE sum : sum =
  [n \in 0..Len(numbers) |-> IF n = 0 THEN 0 ELSE sum[n - 1] + numbers[n]]

\* Total() by its partial sums, which are not negative.
LEMMA SumsAre ==
  ASSUME NEW numbers \in Seq(Nat)
  PROVE  /\ Door!Total(numbers) = Sums(numbers)[Len(numbers)]
         /\ Sums(numbers) \in [0..Len(numbers) -> Nat] /\ Sums(numbers)[0] = 0
         /\ \A n \in 1..Len(numbers) : Sums(numbers)[n] = Sums(numbers)[n - 1] + numbers[n]
<1> DEFINE k == Len(numbers)
           g == [n \in 1..k |-> [sum \in Nat |-> sum + numbers[n]]]
           F == Sums(numbers)
<1>1. k \in Nat /\ \A n \in 1..k : numbers[n] \in Nat
  OBVIOUS
<1>2. Door!Total(numbers) = F[k]
  BY DEF Door!Total, Sums
<1> HIDE DEF k
<1>3. g \in [1..k -> [Nat -> Nat]]
  BY <1>1
<1> DEFINE f == Iterated(Nat, 0, k, g)
<1>4. f \in [0..k -> Nat] /\ f[0] = 0 /\ \A n \in 1..k : f[n] = g[n][f[n - 1]]
  <2> DEFINE T == Nat
             b == 0
             h == Iterated(T, b, k, g)
  <2>1. b \in T /\ k \in Nat /\ g \in [1..k -> [T -> T]]
    BY <1>1, <1>3
  <2>2. h \in [0..k -> T] /\ h[0] = b /\ \A n \in 1..k : h[n] = g[n][h[n - 1]]
    <3> HIDE DEF g, b, T
    <3> QED BY ONLY <2>1, Iterates
  <2> QED BY <2>2
<1> HIDE DEF f
<1>5. ASSUME NEW n \in 0..k PROVE f[n] = IF n = 0 THEN 0 ELSE f[n - 1] + numbers[n]
  <2>1. CASE n # 0
    <3>1. n \in 1..k /\ n - 1 \in 0..k
      BY <1>1, <2>1
    <3>2. f[n - 1] \in Nat
      BY <1>4, <3>1
    <3>3. g[n][f[n - 1]] = f[n - 1] + numbers[n]
      BY <3>1, <3>2
    <3> QED BY <1>4, <2>1, <3>1, <3>3
  <2> QED BY <1>4, <2>1
<1>6. f = [n \in 0..k |-> IF n = 0 THEN 0 ELSE f[n - 1] + numbers[n]]
  BY <1>4, <1>5
<1>7. F = [n \in 0..k |-> IF n = 0 THEN 0 ELSE F[n - 1] + numbers[n]]
  BY <1>6 DEF Sums, k
<1> HIDE DEF F
<1>8. F[0] = 0 /\ \A n \in 1..k : F[n] = F[n - 1] + numbers[n]
  <2>1. 0 \in 0..k /\ \A n \in 1..k : n \in 0..k /\ n # 0
    BY <1>1
  <2> QED BY <1>7, <2>1
<1> DEFINE S == {n \in Nat : n <= k => F[n] \in Nat}
<1>9. 0 \in S
  BY <1>8
<1>10. ASSUME NEW n \in Nat, n \in S PROVE n + 1 \in S
  <2> SUFFICES ASSUME n + 1 <= k PROVE F[n + 1] \in Nat
    OBVIOUS
  <2>1. n + 1 \in 1..k /\ (n + 1) - 1 = n
    BY <1>1
  <2>2. F[n] \in Nat
    BY <1>1, <1>10
  <2>3. F[n + 1] = F[n] + numbers[n + 1] /\ numbers[n + 1] \in Nat
    BY <1>1, <1>8, <2>1
  <2> QED BY <2>2, <2>3
<1> HIDE DEF S
<1>11. \A n \in Nat : n \in S
  BY <1>9, <1>10, AllNaturals
<1>12. \A n \in 0..k : F[n] \in Nat
  BY <1>1, <1>11 DEF S
<1>13. F \in [0..k -> Nat]
  BY <1>7, <1>12
<1> QED BY <1>2, <1>8, <1>13 DEF F, k

\* What follows the first p numbers sums up to no more than all of them.
LEMMA SumsBelow ==
  ASSUME NEW a \in Seq(Nat), NEW b \in Seq(Nat), NEW p \in Nat, p + Len(b) <= Len(a),
         \A i \in 1..Len(b) : b[i] = a[p + i]
  PROVE  \A n \in 0..Len(b) :
           Sums(b)[n] <= Sums(a)[p + n] /\ (p = 0 => Sums(b)[n] = Sums(a)[p + n])
<1> DEFINE A == Sums(a)
           B == Sums(b)
           S == {n \in Nat : n <= Len(b) => B[n] <= A[p + n] /\ (p = 0 => B[n] = A[p + n])}
<1>1. /\ A \in [0..Len(a) -> Nat] /\ A[0] = 0 /\ \A n \in 1..Len(a) : A[n] = A[n - 1] + a[n]
      /\ B \in [0..Len(b) -> Nat] /\ B[0] = 0 /\ \A n \in 1..Len(b) : B[n] = B[n - 1] + b[n]
  BY SumsAre
<1> HIDE DEF A, B
<1>2. Len(a) \in Nat /\ Len(b) \in Nat /\ \A n \in 1..Len(a) : a[n] \in Nat
  OBVIOUS
<1>3. 0 \in S
  <2>1. p + 0 = p /\ p \in 0..Len(a)
    BY <1>2
  <2>2. A[p] \in Nat
    BY <1>1, <2>1
  <2> QED BY <1>1, <2>1, <2>2
<1>4. ASSUME NEW n \in Nat, n \in S PROVE n + 1 \in S
  <2> SUFFICES ASSUME n + 1 <= Len(b)
               PROVE  B[n + 1] <= A[p + (n + 1)] /\ (p = 0 => B[n + 1] = A[p + (n + 1)])
    OBVIOUS
  <2>1. /\ n + 1 \in 1..Len(b) /\ (n + 1) - 1 = n /\ n \in 0..Len(b) /\ n <= Len(b)
        /\ p + (n + 1) \in 1..Len(a) /\ (p + (n + 1)) - 1 = p + n /\ p + n \in 0..Len(a)
    BY <1>2
  <2>2. B[n] <= A[p + n] /\ (p = 0 => B[n] = A[p + n])
    BY <1>4, <2>1
  <2>3. B[n] \in Nat /\ A[p + n] \in Nat /\ a[p + (n + 1)] \in Nat
    BY <1>1, <1>2, <2>1
  <2>4. B[n + 1] = B[n] + a[p + (n + 1)]
    BY <1>1, <2>1
  <2>5. A[p + (n + 1)] = A[p + n] + a[p + (n + 1)]
    BY <1>1, <2>1
  <2> QED BY ONLY <2>2, <2>3, <2>4, <2>5
<1> HIDE DEF S
<1>5. \A n \in Nat : n \in S
  BY <1>3, <1>4, AllNaturals
<1>6. \A n \in 0..Len(b) : n \in S /\ n <= Len(b)
  BY <1>2, <1>5
<1> QED BY <1>6 DEF S, A, B

\* Data with a length and a time.
Dated(D) == \A d \in D : d.chars \in Nat /\ d.time \in Int
Lengths(s) == [i \in DOMAIN s |-> s[i].chars]
\* How much text the first n data have.
Text(s, n) == Sums(Lengths(s))[n]

\* The lengths of a list.
LEMMA LengthsAre ==
  ASSUME NEW D, Dated(D), NEW s \in Seq(D)
  PROVE  /\ Lengths(s) \in Seq(Nat) /\ Len(Lengths(s)) = Len(s)
         /\ \A i \in 1..Len(s) : Lengths(s)[i] = s[i].chars
         /\ \A n \in 0..Len(s) : Text(s, n) \in Nat
<1>1. DOMAIN s = 1..Len(s) /\ Len(s) \in Nat /\ \A i \in 1..Len(s) : s[i] \in D
  OBVIOUS
<1>2. Lengths(s) = [i \in 1..Len(s) |-> s[i].chars]
  BY <1>1 DEF Lengths
<1>3. \A i \in 1..Len(s) : s[i].chars \in Nat
  BY <1>1 DEF Dated
<1>4. Lengths(s) \in Seq(Nat) /\ Len(Lengths(s)) = Len(s)
  BY <1>1, <1>2, <1>3
<1>5. Sums(Lengths(s)) \in [0..Len(s) -> Nat]
  BY <1>4, SumsAre
<1> QED BY <1>2, <1>4, <1>5 DEF Text

\* What follows the first p of a list, up to some place.
Piece(t, s, p) ==
  p \in Nat /\ p + Len(t) <= Len(s) /\ \A i \in 1..Len(t) : t[i] = s[p + i]

\* The text of a piece is no more than that of all up to its end.
LEMMA PieceText ==
  ASSUME NEW D, Dated(D), NEW s \in Seq(D), NEW t \in Seq(D), NEW p, Piece(t, s, p)
  PROVE  /\ \A n \in 0..Len(t) :
              Text(t, n) <= Text(s, p + n) /\ (p = 0 => Text(t, n) = Text(s, p + n))
         /\ Door!Chars(t) = Text(t, Len(t))
<1> USE DEF Piece
<1>1. /\ Lengths(s) \in Seq(Nat) /\ Len(Lengths(s)) = Len(s)
      /\ \A i \in 1..Len(s) : Lengths(s)[i] = s[i].chars
  BY LengthsAre
<1>2. /\ Lengths(t) \in Seq(Nat) /\ Len(Lengths(t)) = Len(t)
      /\ \A i \in 1..Len(t) : Lengths(t)[i] = t[i].chars
  BY LengthsAre
<1>3. \A i \in 1..Len(t) : Lengths(t)[i] = Lengths(s)[p + i]
  <2> SUFFICES ASSUME NEW i \in 1..Len(t) PROVE Lengths(t)[i] = Lengths(s)[p + i]
    OBVIOUS
  <2>1. p + i \in 1..Len(s)
    OBVIOUS
  <2> QED BY <1>1, <1>2, <2>1
<1>4. \A n \in 0..Len(t) : /\ Sums(Lengths(t))[n] <= Sums(Lengths(s))[p + n]
                           /\ p = 0 => Sums(Lengths(t))[n] = Sums(Lengths(s))[p + n]
  <2> DEFINE a == Lengths(s)
             b == Lengths(t)
  <2>1. /\ a \in Seq(Nat) /\ b \in Seq(Nat) /\ p + Len(b) <= Len(a)
        /\ \A i \in 1..Len(b) : b[i] = a[p + i]
    BY <1>1, <1>2, <1>3
  <2>2. \A n \in 0..Len(b) :
          Sums(b)[n] <= Sums(a)[p + n] /\ (p = 0 => Sums(b)[n] = Sums(a)[p + n])
    <3> HIDE DEF a, b
    <3> QED BY <2>1, SumsBelow
  <2> QED BY <1>2, <2>2
<1>5. Door!Chars(t) = Sums(Lengths(t))[Len(t)]
  <2>1. Door!Chars(t) = Door!Total(Lengths(t))
    BY DEF Door!Chars, Lengths
  <2> QED BY <1>2, <2>1, SumsAre
<1> QED BY <1>4, <1>5 DEF Text

-----------------------------------------------------------------------------
(* An ingest request: windows *)

\* The configured limits.
LEMMA ConfigIs ==
  Door!Config.gap \in Int /\ Door!Config.turns \in Nat \ {0} /\ Door!Config.tokens \in Int
<1>1. /\ Params.time_gap_min \in Int \cup {None, Garbage}
      /\ Params.max_window_tokens \in Int \cup {None, Garbage}
      /\ Params.max_window_turns \in (Nat \ {0}) \cup {None, Garbage}
      /\ Params.max_window_size \in (Nat \ {0}) \cup {None, Garbage}
  BY IngestAssumption
<1>2. Defaults.gap \in Int /\ Defaults.turns \in Nat \ {0} /\ Defaults.tokens \in Int
  BY IngestAssumption
<1> QED BY <1>1, <1>2 DEF Door!Config, Door!Read

\* A window in terms of the text before each place.
Within(s) ==
  /\ Len(s) <= Door!Config.turns
  /\ \A i \in 2..Len(s) : s[i].time <= s[i - 1].time + Door!Config.gap
  /\ \A n \in 1..(Len(s) - 1) : Text(s, n) < 4 * Door!Config.tokens

\* WithinWindow() by the partial sums.
LEMMA WithinIs ==
  ASSUME NEW D, Dated(D), NEW s \in Seq(D)
  PROVE  Door!WithinWindow(s) <=> Within(s)
<1>1. ASSUME NEW n \in 1..(Len(s) - 1) PROVE Door!Chars(SubSeq(s, 1, n)) = Text(s, n)
  <2> DEFINE t == SubSeq(s, 1, n)
  <2>1. t \in Seq(D) /\ Len(t) = n /\ n \in Nat /\ n <= Len(s) /\ \A i \in 1..n : t[i] = s[i]
    OBVIOUS
  <2> DEFINE p == 0
  <2> HIDE DEF t
  <2>2. p \in Nat /\ p + Len(t) <= Len(s) /\ \A i \in 1..Len(t) : t[i] = s[p + i]
    BY <2>1
  <2>3. /\ \A k \in 0..Len(t) : p = 0 => Text(t, k) = Text(s, p + k)
        /\ Door!Chars(t) = Text(t, Len(t))
    <3> HIDE DEF p
    <3>1. Dated(D) /\ s \in Seq(D) /\ t \in Seq(D) /\ Piece(t, s, p)
      BY <2>1, <2>2 DEF Piece
    <3>2. /\ \A k \in 0..Len(t) :
               Text(t, k) <= Text(s, p + k) /\ (p = 0 => Text(t, k) = Text(s, p + k))
          /\ Door!Chars(t) = Text(t, Len(t))
      BY ONLY <3>1, PieceText
    <3> QED BY ONLY <3>2
  <2>4. n \in 0..Len(t) /\ p + n = n /\ p = 0
    BY <2>1
  <2> QED BY <2>1, <2>3, <2>4 DEF t
<1> QED BY <1>1 DEF Door!WithinWindow, Within

\* The text of a list that begins with another.
LEMMA SameText ==
  ASSUME NEW D, Dated(D), NEW s \in Seq(D), NEW t \in Seq(D), Len(t) <= Len(s),
         \A i \in 1..Len(t) : t[i] = s[i]
  PROVE  \A n \in 0..Len(t) : Text(t, n) = Text(s, n)
<1> DEFINE p == 0
<1>1. Piece(t, s, p)
  BY DEF Piece
<1>2. \A n \in 0..Len(t) : p = 0 => Text(t, n) = Text(s, p + n)
  <2> HIDE DEF p
  <2> QED BY <1>1, PieceText
<1>3. \A n \in 0..Len(t) : p = 0 /\ p + n = n
  OBVIOUS
<1> QED BY <1>2, <1>3

\* Chars() as a partial sum.
LEMMA CharsIs ==
  ASSUME NEW D, Dated(D), NEW s \in Seq(D)
  PROVE  Door!Chars(s) = Text(s, Len(s)) /\ Door!Chars(s) \in Nat
<1> DEFINE p == 0
<1>1. Piece(s, s, p)
  BY DEF Piece
<1>2. Door!Chars(s) = Text(s, Len(s))
  <2> HIDE DEF p
  <2> QED BY <1>1, PieceText
<1>3. Text(s, Len(s)) \in Nat
  <2>1. Len(s) \in 0..Len(s)
    OBVIOUS
  <2> QED BY <2>1, LengthsAre
<1> QED BY <1>2, <1>3

\* should_split() says whether the next datum still fits the window.
LEMMA WindowGrows ==
  ASSUME NEW D, Dated(D), NEW s \in Seq(D), s # <<>>, NEW rd \in D
  PROVE  Within(Append(s, rd)) <=> Within(s) /\ ~ Door!ShouldSplit(s, rd)
<1> DEFINE t == Append(s, rd)
           L == Len(s)
           last == s[L]
<1>1. /\ L \in Nat /\ L >= 1 /\ t \in Seq(D) /\ Len(t) = L + 1 /\ t[L + 1] = rd
      /\ \A i \in 1..L : t[i] = s[i] /\ s[i] \in D
  OBVIOUS
<1> HIDE DEF t, L
<1>2. \A n \in 0..L : Text(s, n) = Text(t, n)
  <2>1. Len(s) <= Len(t) /\ \A i \in 1..Len(s) : s[i] = t[i]
    BY <1>1 DEF L
  <2> QED BY <1>1, <2>1, SameText DEF L
<1>3. Door!Chars(s) = Text(t, L) /\ Text(t, L) \in Nat
  <2>1. L \in 0..L
    BY <1>1
  <2> QED BY <1>2, <2>1, CharsIs DEF L
<1>4. Door!Last(s) = last
  BY DEF Door!Last, L
<1>5. last \in D /\ last.time \in Int /\ rd.time \in Int
  BY <1>1 DEF Dated
<1>6. Door!ShouldSplit(s, rd) <=> \/ rd.time > last.time + Door!Config.gap
                                  \/ L >= Door!Config.turns
                                  \/ Text(t, L) >= 4 * Door!Config.tokens
  <2> DEFINE time == last.time
             gap == Door!Config.gap
             tokens == Door!Config.tokens
             chars == Text(t, L)
             rtime == rd.time
  <2>1. Door!ShouldSplit(s, rd) <=> \/ rtime - time > gap
                                    \/ L >= Door!Config.turns
                                    \/ chars \div 4 >= tokens
    BY <1>3, <1>4 DEF Door!ShouldSplit, L
  <2>2. time \in Int /\ gap \in Int /\ tokens \in Int /\ chars \in Nat /\ rtime \in Int
    BY <1>3, <1>5, ConfigIs
  <2> HIDE DEF time, gap, tokens, chars, rtime
  <2>3. chars \div 4 >= tokens <=> chars >= 4 * tokens
    BY ONLY <2>2
  <2>4. rtime - time > gap <=> rtime > time + gap
    BY ONLY <2>2
  <2> QED BY ONLY <2>1, <2>3, <2>4 DEF time, gap, tokens, chars, rtime
<1>7. Within(t) <=> /\ L + 1 <= Door!Config.turns
                    /\ \A i \in 2..L : s[i].time <= s[i - 1].time + Door!Config.gap
                    /\ rd.time <= last.time + Door!Config.gap
                    /\ \A n \in 1..(L - 1) : Text(s, n) < 4 * Door!Config.tokens
                    /\ Text(t, L) < 4 * Door!Config.tokens
  <2> DEFINE Near(i) == t[i].time <= t[i - 1].time + Door!Config.gap
             Short(n) == Text(t, n) < 4 * Door!Config.tokens
  <2>1. (\A i \in 2..(L + 1) : Near(i)) <=>
           /\ \A i \in 2..L : s[i].time <= s[i - 1].time + Door!Config.gap
           /\ rd.time <= last.time + Door!Config.gap
    <3>1. \A i \in 2..L : i - 1 \in 1..L /\ i \in 1..L
      BY <1>1
    <3>2. \A i \in 2..L : Near(i) <=> s[i].time <= s[i - 1].time + Door!Config.gap
      BY <1>1, <3>1
    <3>3. Near(L + 1) <=> rd.time <= last.time + Door!Config.gap
      <4>1. (L + 1) - 1 = L /\ L \in 1..L
        BY <1>1
      <4> QED BY <1>1, <4>1
    <3> HIDE DEF Near
    <3>4. (\A i \in 2..(L + 1) : Near(i)) <=> (\A i \in 2..L : Near(i)) /\ Near(L + 1)
      <4>1. \A i \in 2..(L + 1) : i \in 2..L \/ i = L + 1
        BY <1>1
      <4>2. L + 1 \in 2..(L + 1) /\ \A i \in 2..L : i \in 2..(L + 1)
        BY <1>1
      <4> QED BY <4>1, <4>2
    <3> QED BY <3>2, <3>3, <3>4
  <2>2. (\A n \in 1..L : Short(n)) <=>
           (\A n \in 1..(L - 1) : Text(s, n) < 4 * Door!Config.tokens) /\ Short(L)
    <3>1. \A n \in 1..(L - 1) : n \in 0..L /\ n \in 1..L
      BY <1>1
    <3>2. \A n \in 1..(L - 1) : Short(n) <=> Text(s, n) < 4 * Door!Config.tokens
      BY <1>2, <3>1
    <3>3. L \in 1..L /\ \A n \in 1..L : n \in 1..(L - 1) \/ n = L
      BY <1>1
    <3> HIDE DEF Short
    <3> QED BY <3>1, <3>2, <3>3
  <2>3. (L + 1) - 1 = L
    BY <1>1
  <2>4. Within(t) <=> /\ L + 1 <= Door!Config.turns
                      /\ \A i \in 2..(L + 1) : Near(i)
                      /\ \A n \in 1..L : Short(n)
    BY <1>1, <2>3 DEF Within
  <2> HIDE DEF Near
  <2> QED BY <2>1, <2>2, <2>4
<1>8. Within(s) <=> /\ L <= Door!Config.turns
                    /\ \A i \in 2..L : s[i].time <= s[i - 1].time + Door!Config.gap
                    /\ \A n \in 1..(L - 1) : Text(s, n) < 4 * Door!Config.tokens
  BY DEF Within, L
<1>9. L + 1 <= Door!Config.turns <=> L <= Door!Config.turns /\ ~ (L >= Door!Config.turns)
  BY <1>1, ConfigIs
<1>10. Text(t, L) < 4 * Door!Config.tokens <=> ~ (Text(t, L) >= 4 * Door!Config.tokens)
  BY <1>3, ConfigIs
<1>11. rd.time <= last.time + Door!Config.gap <=> ~ (rd.time > last.time + Door!Config.gap)
  BY <1>5, ConfigIs
<1> HIDE DEF last
<1> QED BY <1>6, <1>7, <1>8, <1>9, <1>10, <1>11 DEF t

\* One datum fits every window.
LEMMA WindowFirst ==
  ASSUME NEW d
  PROVE  Within(<<d>>)
<1>1. Len(<<d>>) = 1 /\ 1 <= Door!Config.turns
  BY ConfigIs
<1> QED BY <1>1 DEF Within

\* A piece of a window is a window.
LEMMA WindowPieces ==
  ASSUME NEW D, Dated(D), NEW s \in Seq(D), NEW t \in Seq(D), NEW p, Within(s), Piece(t, s, p)
  PROVE  Within(t)
<1>1. /\ Len(s) \in Nat /\ Len(t) \in Nat /\ Len(t) <= Len(s)
      /\ p \in Nat /\ p + Len(t) <= Len(s) /\ \A i \in 1..Len(t) : t[i] = s[p + i]
  BY DEF Piece
<1>2. Len(t) <= Door!Config.turns
  BY <1>1, ConfigIs DEF Within
<1>3. ASSUME NEW i \in 2..Len(t) PROVE t[i].time <= t[i - 1].time + Door!Config.gap
  <2>1. /\ i \in 1..Len(t) /\ i - 1 \in 1..Len(t) /\ p + i \in 2..Len(s)
        /\ p + (i - 1) = (p + i) - 1
    BY <1>1
  <2>2. t[i] = s[p + i] /\ t[i - 1] = s[(p + i) - 1]
    BY <1>1, <2>1
  <2>3. s[p + i].time <= s[(p + i) - 1].time + Door!Config.gap
    BY <2>1 DEF Within
  <2> QED BY <2>2, <2>3
<1>4. ASSUME NEW n \in 1..(Len(t) - 1) PROVE Text(t, n) < 4 * Door!Config.tokens
  <2>1. n \in 0..Len(t) /\ p + n \in 0..Len(s) /\ p + n \in 1..(Len(s) - 1)
    BY <1>1
  <2>2. Text(t, n) <= Text(s, p + n)
    BY <2>1, PieceText
  <2>3. Text(s, p + n) < 4 * Door!Config.tokens
    BY <2>1 DEF Within
  <2>4. Text(t, n) \in Nat /\ Text(s, p + n) \in Nat
    BY <2>1, LengthsAre
  <2> QED BY <2>2, <2>3, <2>4, ConfigIs
<1> QED BY <1>2, <1>3, <1>4 DEF Within

-----------------------------------------------------------------------------
(* An ingest request: what segments hold together *)

Flats(ss) == CHOOSE flatten : flatten =
  [i \in 1..Len(ss) |-> IF i = 1 THEN ss[i] ELSE flatten[i - 1] \o ss[i]]

\* FlattenSeq() by what the first segments hold.
LEMMA FlatsAre ==
  ASSUME NEW D, NEW ss \in Seq(Seq(D))
  PROVE  /\ ss # <<>> => Door!FlattenSeq(ss) = Flats(ss)[Len(ss)]
         /\ \A i \in 1..Len(ss) :
              /\ Flats(ss)[i] \in Seq(D)
              /\ Flats(ss)[i] = IF i = 1 THEN ss[i] ELSE Flats(ss)[i - 1] \o ss[i]
<1> DEFINE k == Len(ss)
           T == Seq(D)
           b == <<>>
           g == [n \in 1..k |-> [t \in T |-> t \o ss[n]]]
           h == Iterated(T, b, k, g)
           f == [i \in 1..k |-> h[i]]
           F == Flats(ss)
<1>1. k \in Nat /\ \A n \in 1..k : ss[n] \in T
  OBVIOUS
<1>2. ss # <<>> => Door!FlattenSeq(ss) = F[k]
  <2>1. ss # <<>> => Len(ss) # 0
    OBVIOUS
  <2> QED BY <2>1 DEF Door!FlattenSeq, Flats
<1> HIDE DEF k
<1>3. b \in T /\ g \in [1..k -> [T -> T]]
  BY <1>1
<1>4. h \in [0..k -> T] /\ h[0] = b /\ \A n \in 1..k : h[n] = g[n][h[n - 1]]
  <2>1. b \in T /\ k \in Nat /\ g \in [1..k -> [T -> T]]
    BY <1>1, <1>3
  <2> HIDE DEF b, T, g
  <2>2. /\ Iterated(T, b, k, g) \in [0..k -> T] /\ Iterated(T, b, k, g)[0] = b
        /\ \A n \in 1..k : Iterated(T, b, k, g)[n] = g[n][Iterated(T, b, k, g)[n - 1]]
    BY ONLY <2>1, Iterates, Z3
  <2> QED BY <2>2
<1> HIDE DEF h
<1>5. ASSUME NEW i \in 1..k
      PROVE  f[i] \in T /\ f[i] = IF i = 1 THEN ss[i] ELSE f[i - 1] \o ss[i]
  <2>1. i \in 0..k /\ i - 1 \in 0..k
    BY <1>1
  <2>2. h[i - 1] \in T /\ h[i] \in T
    BY <1>4, <2>1
  <2>3. f[i] = h[i - 1] \o ss[i]
    BY <1>4, <2>2
  <2>4. CASE i = 1
    <3>1. i - 1 = 0 /\ h[0] = b
      BY <1>4, <2>4
    <3>4. f[i] = b \o ss[i]
      BY <2>3, <3>1
    <3>2. b \o ss[i] = ss[i]
      BY <1>1, ConcatEmptySeq
    <3>3. f[i] = h[i]
      OBVIOUS
    <3> HIDE DEF f, b, T
    <3> QED BY <2>2, <2>4, <3>2, <3>3, <3>4
  <2>5. CASE i # 1
    <3>1. i - 1 \in 1..k
      BY <1>1, <2>5
    <3>2. f[i - 1] = h[i - 1]
      BY <3>1
    <3> QED BY <2>2, <2>3, <2>5, <3>2
  <2> QED BY <2>4, <2>5
<1> HIDE DEF g, T, b
<1>6. f = [i \in 1..k |-> IF i = 1 THEN ss[i] ELSE f[i - 1] \o ss[i]]
  <2>1. \A i \in 1..k : f[i] = IF i = 1 THEN ss[i] ELSE f[i - 1] \o ss[i]
    BY <1>5
  <2>2. f = [i \in 1..k |-> f[i]]
    OBVIOUS
  <2> HIDE DEF f
  <2> QED BY <2>1, <2>2
<1> HIDE DEF f
<1>7. F = [i \in 1..k |-> IF i = 1 THEN ss[i] ELSE F[i - 1] \o ss[i]]
  BY <1>6 DEF Flats, k
<1> HIDE DEF F
<1>8. \A i \in 1..k : F[i] = IF i = 1 THEN ss[i] ELSE F[i - 1] \o ss[i]
  BY <1>7
<1> DEFINE S == {n \in Nat : n + 1 <= k => F[n + 1] \in T}
<1>9. 0 \in S
  <2>1. 0 + 1 <= k => 1 \in 1..k /\ 0 + 1 = 1
    BY <1>1
  <2>2. 1 \in 1..k => F[1] \in T
    BY <1>1, <1>8
  <2> QED BY <2>1, <2>2
<1>10. ASSUME NEW n \in Nat, n \in S PROVE n + 1 \in S
  <2> SUFFICES ASSUME (n + 1) + 1 <= k PROVE F[(n + 1) + 1] \in T
    OBVIOUS
  <2>1. (n + 1) + 1 \in 1..k /\ (n + 1) + 1 # 1 /\ ((n + 1) + 1) - 1 = n + 1 /\ n + 1 <= k
    BY <1>1
  <2>2. F[n + 1] \in T
    BY <1>10, <2>1
  <2>3. F[(n + 1) + 1] = F[n + 1] \o ss[(n + 1) + 1] /\ ss[(n + 1) + 1] \in T
    BY <1>1, <1>8, <2>1
  <2> QED BY <2>2, <2>3 DEF T
<1>11. \A n \in Nat : n \in S
  <2> HIDE DEF S
  <2> QED BY <1>9, <1>10, AllNaturals
<1>12. ASSUME NEW i \in 1..k PROVE F[i] \in T
  <2>1. i - 1 \in Nat /\ (i - 1) + 1 = i /\ i <= k
    BY <1>1
  <2>2. i - 1 \in S
    BY <1>11, <2>1
  <2> QED BY <2>1, <2>2
<1> QED BY <1>2, <1>8, <1>12 DEF F, k, T

\* Without segments there is nothing.
LEMMA FlattenEmpty ==
  Door!FlattenSeq(<<>>) = <<>>
BY DEF Door!FlattenSeq

\* A segment more comes last.
LEMMA FlattenGrows ==
  ASSUME NEW D, NEW ss \in Seq(Seq(D)), NEW s \in Seq(D)
  PROVE  /\ Door!FlattenSeq(ss) \in Seq(D)
         /\ Door!FlattenSeq(Append(ss, s)) = Door!FlattenSeq(ss) \o s
<1> DEFINE k == Len(ss)
           tt == Append(ss, s)
           F == Flats(ss)
           G == Flats(tt)
<1>1. /\ k \in Nat /\ Len(tt) = k + 1 /\ tt \in Seq(Seq(D)) /\ tt # <<>> /\ tt[k + 1] = s
      /\ \A i \in 1..k : tt[i] = ss[i]
  <2> DEFINE E == Seq(D)
  <2>1. ss \in Seq(E) /\ s \in E
    OBVIOUS
  <2>2. /\ k \in Nat /\ Len(tt) = k + 1 /\ tt \in Seq(E) /\ tt[k + 1] = s
        /\ \A i \in 1..k : tt[i] = ss[i]
    <3> HIDE DEF E
    <3> QED BY <2>1
  <2>3. tt # <<>>
    <3> HIDE DEF E
    <3> QED BY <2>1, AppendProperties
  <2> QED BY <2>2, <2>3
<1> HIDE DEF tt
<1>2. /\ ss # <<>> => Door!FlattenSeq(ss) = F[k]
      /\ \A i \in 1..k : F[i] \in Seq(D) /\ F[i] = IF i = 1 THEN ss[i] ELSE F[i - 1] \o ss[i]
  BY FlatsAre
<1>3. /\ Door!FlattenSeq(tt) = G[k + 1]
      /\ \A i \in 1..(k + 1) : G[i] = IF i = 1 THEN tt[i] ELSE G[i - 1] \o tt[i]
  <2>1. tt \in Seq(Seq(D)) /\ tt # <<>> /\ Len(tt) = k + 1
    BY <1>1
  <2> HIDE DEF k
  <2>2. /\ Door!FlattenSeq(tt) = Flats(tt)[Len(tt)]
        /\ \A i \in 1..Len(tt) : Flats(tt)[i] = IF i = 1 THEN tt[i] ELSE Flats(tt)[i - 1] \o tt[i]
    BY ONLY <2>1, FlatsAre
  <2> QED BY ONLY <2>1, <2>2
<1>4. CASE ss = <<>>
  <2>1. k = 0 /\ 0 + 1 = 1
    BY <1>4
  <2>2. Door!FlattenSeq(tt) = s
    BY <1>1, <1>3, <2>1
  <2>3. <<>> \o s = s
    BY ConcatEmptySeq
  <2>4. <<>> \in Seq(D)
    OBVIOUS
  <2> QED BY <1>4, <2>2, <2>3, <2>4, FlattenEmpty DEF tt
<1>5. CASE ss # <<>>
  <2>1. k >= 1
    BY <1>5
  <2> HIDE DEF F, G, k
  <2> DEFINE S == {n \in Nat : n + 1 <= k => G[n + 1] = F[n + 1]}
  <2>2. 0 \in S
    <3>1. 1 \in 1..k /\ 1 \in 1..(k + 1) /\ 0 + 1 = 1
      BY <1>1, <2>1
    <3>2. G[1] = tt[1] /\ F[1] = ss[1] /\ tt[1] = ss[1]
      BY <1>1, <1>2, <1>3, <3>1
    <3> QED BY <3>1, <3>2
  <2>3. ASSUME NEW n \in Nat, n \in S PROVE n + 1 \in S
    <3> SUFFICES ASSUME (n + 1) + 1 <= k PROVE G[(n + 1) + 1] = F[(n + 1) + 1]
      OBVIOUS
    <3>1. /\ (n + 1) + 1 \in 1..k /\ (n + 1) + 1 \in 1..(k + 1) /\ (n + 1) + 1 # 1
          /\ ((n + 1) + 1) - 1 = n + 1 /\ n + 1 <= k
      BY <1>1
    <3>2. G[n + 1] = F[n + 1]
      BY <2>3, <3>1
    <3>3. F[(n + 1) + 1] = F[n + 1] \o ss[(n + 1) + 1]
      BY <1>2, <3>1
    <3>4. G[(n + 1) + 1] = G[n + 1] \o tt[(n + 1) + 1]
      BY <1>3, <3>1
    <3>5. tt[(n + 1) + 1] = ss[(n + 1) + 1]
      BY <1>1, <3>1
    <3> QED BY <3>2, <3>3, <3>4, <3>5
  <2>4. \A n \in Nat : n \in S
    <3> HIDE DEF S
    <3> QED BY <2>2, <2>3, AllNaturals
  <2>5. G[k] = F[k]
    <3>1. k - 1 \in Nat /\ (k - 1) + 1 = k
      BY <1>1, <2>1
    <3>2. k - 1 \in S
      BY <2>4, <3>1
    <3> QED BY <3>1, <3>2
  <2>6. k \in 1..k /\ k + 1 \in 1..(k + 1) /\ k + 1 # 1 /\ (k + 1) - 1 = k
    BY <1>1, <2>1
  <2>7. G[k + 1] = G[k] \o tt[k + 1]
    BY <1>3, <2>6
  <2> QED BY <1>1, <1>2, <1>3, <1>5, <2>5, <2>6, <2>7 DEF tt
<1> QED BY <1>4, <1>5

\* The last segment takes one more.
LEMMA FlattenLast ==
  ASSUME NEW D, NEW ss \in Seq(Seq(D)), ss # <<>>, NEW x \in D
  PROVE  Door!FlattenSeq([ss EXCEPT ![Len(ss)] = Append(@, x)])
           = Append(Door!FlattenSeq(ss), x)
<1> DEFINE k == Len(ss)
           front1 == SubSeq(ss, 1, k - 1)
           last == ss[k]
           tt == [ss EXCEPT ![k] = Append(@, x)]
<1> DEFINE E == Seq(D)
<1>1. /\ k \in Nat /\ k >= 1 /\ last \in E /\ Append(last, x) \in E
      /\ front1 \in Seq(E) /\ Len(front1) = k - 1 /\ \A i \in 1..(k - 1) : front1[i] = ss[i]
  <2>1. ss \in Seq(E)
    OBVIOUS
  <2>2. /\ k \in Nat /\ k >= 1 /\ last \in E
        /\ front1 \in Seq(E) /\ Len(front1) = k - 1 /\ \A i \in 1..(k - 1) : front1[i] = ss[i]
    <3> HIDE DEF E
    <3>1. k \in Nat /\ k >= 1 /\ last \in E
      BY <2>1
    <3>2. 1 \in Int /\ k - 1 \in Int /\ \A i \in 1..(k - 1) : ss[i] \in E
      BY <2>1
    <3>3. /\ front1 \in Seq(E) /\ Len(front1) = IF 1 <= k - 1 THEN (k - 1) - 1 + 1 ELSE 0
          /\ \A i \in 1..((k - 1) - 1 + 1) : front1[i] = ss[1 + i - 1]
      BY <3>2, SubSeqProperties
    <3> HIDE DEF front1, k, last
    <3>4. Len(front1) = k - 1
      BY <3>1, <3>3
    <3>5. ASSUME NEW i \in 1..(k - 1) PROVE front1[i] = ss[i]
      <4>1. i \in 1..((k - 1) - 1 + 1) /\ 1 + i - 1 = i
        BY <3>1
      <4> QED BY <3>3, <4>1
    <3> QED BY <3>1, <3>3, <3>4, <3>5
  <2>3. Append(last, x) \in Seq(D)
    BY <2>2
  <2> QED BY <2>2, <2>3
<1>2. ss = Append(front1, last) /\ tt = Append(front1, Append(last, x))
  <2> DEFINE y == Append(last, x)
  <2>1. ss \in Seq(E) /\ y \in E
    BY <1>1
  <2> HIDE DEF E, y
  <2>2. ss = Append(front1, last)
    BY <1>1, <2>1
  <2>3. [ss EXCEPT ![k] = y] = Append(front1, y)
    BY <1>1, <2>1
  <2> QED BY <2>2, <2>3 DEF y
<1> HIDE DEF front1, last, tt
<1>4. /\ Door!FlattenSeq(front1) \in Seq(D)
      /\ Door!FlattenSeq(ss) = Door!FlattenSeq(front1) \o last
      /\ Door!FlattenSeq(tt) = Door!FlattenSeq(front1) \o Append(last, x)
  BY <1>1, <1>2, FlattenGrows
<1>5. Door!FlattenSeq(front1) \o Append(last, x) = Append(Door!FlattenSeq(front1) \o last, x)
  BY <1>1, <1>4
<1> QED BY <1>4, <1>5 DEF tt

-----------------------------------------------------------------------------
(* An ingest request: the rules *)

\* F goes the steps of g from b.
Goes(F, T, b, k, g) ==
  /\ b \in T /\ k \in Nat /\ g \in [1..k -> [T -> T]] /\ F[0] = b
  /\ \A n \in 1..k : F[n - 1] \in T => F[n] = g[n][F[n - 1]]

\* Whatever goes the same steps is the same function.
LEMMA IteratesAlone ==
  ASSUME NEW T, NEW b, NEW k, NEW g, NEW F, Goes(F, T, b, k, g)
  PROVE  \A n \in 0..k : F[n] = Iterated(T, b, k, g)[n]
<1> DEFINE f == Iterated(T, b, k, g)
           S == {n \in Nat : n <= k => F[n] = f[n]}
<1>1. f \in [0..k -> T] /\ f[0] = b /\ \A n \in 1..k : f[n] = g[n][f[n - 1]]
  <2>1. b \in T /\ k \in Nat /\ g \in [1..k -> [T -> T]]
    BY DEF Goes
  <2> QED BY ONLY <2>1, Iterates
<1>0. F[0] = b /\ k \in Nat /\ \A n \in 1..k : F[n - 1] \in T => F[n] = g[n][F[n - 1]]
  BY DEF Goes
<1> HIDE DEF f
<1>2. 0 \in S
  BY <1>0, <1>1
<1>3. ASSUME NEW n \in Nat, n \in S PROVE n + 1 \in S
  <2> SUFFICES ASSUME n + 1 <= k PROVE F[n + 1] = f[n + 1]
    OBVIOUS
  <2>1. n + 1 \in 1..k /\ (n + 1) - 1 = n /\ n \in 0..k
    BY <1>0
  <2>2. F[n] = f[n] /\ f[n] \in T
    BY <1>0, <1>1, <1>3, <2>1
  <2> QED BY <1>0, <1>1, <2>1, <2>2
<1> HIDE DEF S
<1>4. \A n \in Nat : n \in S
  BY <1>2, <1>3, AllNaturals
<1> QED BY <1>4 DEF S, f

\* Lists of segments none of which is empty.
Proper(D) == Seq(Seq(D) \ {<<>>})

\* One datum more, for detect_boundaries() and for a caller of detect().
Placed(segments, rd, ends) ==
  IF segments = <<>> \/ ends THEN Append(segments, <<rd>>)
  ELSE [segments EXCEPT ![Len(segments)] = Append(@, rd)]
Added(segments, rd) == Placed(segments, rd, Door!ShouldSplit(Door!Last(segments), rd))
Told(segments, rd) == Placed(segments, rd, Door!RuleDetect(Door!Last(segments), <<rd>>) = "end")
Detected(raws) == CHOOSE cut : cut =
  [n \in 0..Len(raws) |-> IF n = 0 THEN <<>> ELSE Added(cut[n - 1], raws[n])]
Streams(raws) == CHOOSE cut : cut =
  [n \in 0..Len(raws) |-> IF n = 0 THEN <<>> ELSE Told(cut[n - 1], raws[n])]

\* detect_boundaries() step by step.
LEMMA DetectedEnds ==
  ASSUME NEW raws
  PROVE  Door!DetectBoundaries(raws) = Detected(raws)[Len(raws)]
BY DEF Door!DetectBoundaries, Detected, Added, Placed

\* A caller of detect() step by step.
LEMMA StreamsEnd ==
  ASSUME NEW raws
  PROVE  /\ Door!Streamed(Door!RuleDetect, raws) = Streams(raws)[Len(raws)]
         /\ Door!Streamed(Door!HybridDetect, raws) = Streams(raws)[Len(raws)]
BY DEF Door!Streamed, Streams, Told, Placed, Door!HybridDetect

\* A datum more leaves no segment empty.
LEMMA PlacedType ==
  ASSUME NEW D, NEW t \in Proper(D), NEW x \in D, NEW ends
  PROVE  Placed(t, x, ends) \in Proper(D)
<1> DEFINE E == Seq(D) \ {<<>>}
<1>1. <<x>> \in E /\ \A s \in E : Append(s, x) \in E
  OBVIOUS
<1>2. t \in Seq(E) /\ Proper(D) = Seq(E)
  BY DEF Proper
<1> HIDE DEF E
<1>3. CASE t = <<>> \/ ends
  <2>1. Append(t, <<x>>) \in Seq(E)
    BY <1>1, <1>2
  <2> QED BY <1>2, <1>3, <2>1 DEF Placed
<1>4. CASE t # <<>> /\ ~ends
  <2>1. Len(t) \in 1..Len(t) /\ t[Len(t)] \in E /\ DOMAIN t = 1..Len(t)
    BY <1>2, <1>4
  <2>2. Append(t[Len(t)], x) \in E
    BY <1>1, <2>1
  <2>3. [t EXCEPT ![Len(t)] = Append(@, x)] \in Seq(E)
    BY <1>2, <2>1, <2>2
  <2> QED BY <1>2, <1>4, <2>3 DEF Placed
<1> QED BY <1>3, <1>4

\* The caller of detect() holds a segment: it hears what the rules decide.
LEMMA ToldIsAdded ==
  ASSUME NEW D, NEW t \in Proper(D), NEW x \in D
  PROVE  Told(t, x) = Added(t, x)
<1>1. CASE t = <<>>
  BY <1>1 DEF Told, Added, Placed
<1>2. CASE t # <<>>
  <2> DEFINE E == Seq(D) \ {<<>>}
             last == t[Len(t)]
  <2>1. t \in Seq(E)
    BY DEF Proper
  <2>2. last \in E /\ Door!Last(t) = last
    <3> HIDE DEF E
    <3> QED BY <1>2, <2>1 DEF Door!Last
  <2>3. last # <<>> /\ <<x>> # <<>> /\ <<x>>[1] = x
    BY <2>2
  <2>4. Door!RuleDetect(last, <<x>>) = "end" <=> Door!ShouldSplit(last, x)
    <3> HIDE DEF last
    <3> QED BY <2>3 DEF Door!RuleDetect
  <2>5. (Door!RuleDetect(last, <<x>>) = "end") = Door!ShouldSplit(last, x)
    <3> HIDE DEF last
    <3>1. Door!ShouldSplit(last, x) \in BOOLEAN
      BY DEF Door!ShouldSplit
    <3> QED BY <2>4, <3>1
  <2> QED BY <2>2, <2>5 DEF Told, Added
<1> QED BY <1>1, <1>2

\* Both are functions; they are the same.
LEMMA DetectedAre ==
  ASSUME NEW D, NEW raws \in Seq(D)
  PROVE  /\ Detected(raws) \in [0..Len(raws) -> Proper(D)] /\ Detected(raws)[0] = <<>>
         /\ \A n \in 1..Len(raws) : Detected(raws)[n] = Added(Detected(raws)[n - 1], raws[n])
         /\ \A n \in 0..Len(raws) : Streams(raws)[n] = Detected(raws)[n]
<1> DEFINE k == Len(raws)
           T == Proper(D)
           b == <<>>
           g == [n \in 1..k |-> [t \in T |-> Added(t, raws[n])]]
           f == Iterated(T, b, k, g)
<1>1. k \in Nat /\ \A n \in 1..k : raws[n] \in D
  OBVIOUS
<1>2. b \in T
  BY DEF Proper
<1> HIDE DEF k, T, b
<1>3. g \in [1..k -> [T -> T]]
  BY <1>1, PlacedType DEF T, Added
<1>4. f \in [0..k -> T] /\ f[0] = b /\ \A n \in 1..k : f[n] = g[n][f[n - 1]]
  <2> HIDE DEF g
  <2> QED BY ONLY <1>1, <1>2, <1>3, Iterates
<1> HIDE DEF f
<1>5. \A n \in 1..k : n - 1 \in 0..k /\ n # 0 /\ n \in 0..k
  BY <1>1
<1>6. \A n \in 1..k : f[n] = Added(f[n - 1], raws[n]) /\ f[n] = Told(f[n - 1], raws[n])
  <2> SUFFICES ASSUME NEW n \in 1..k
               PROVE f[n] = Added(f[n - 1], raws[n]) /\ f[n] = Told(f[n - 1], raws[n])
    OBVIOUS
  <2>1. f[n - 1] \in T /\ raws[n] \in D
    BY <1>1, <1>4, <1>5
  <2>2. f[n] = Added(f[n - 1], raws[n])
    BY <1>4, <2>1
  <2>3. Told(f[n - 1], raws[n]) = Added(f[n - 1], raws[n])
    BY <2>1, ToldIsAdded DEF T
  <2> QED BY <2>2, <2>3
<1> DEFINE A == Detected(raws)
           B == Streams(raws)
<1>7. A = [n \in 0..k |-> IF n = 0 THEN b ELSE Added(A[n - 1], raws[n])]
  <2>1. f = [n \in 0..k |-> IF n = 0 THEN <<>> ELSE Added(f[n - 1], raws[n])]
    <3>1. \A n \in 0..k : f[n] = IF n = 0 THEN <<>> ELSE Added(f[n - 1], raws[n])
      BY <1>1, <1>4, <1>6 DEF b
    <3> QED BY <1>4, <3>1
  <2> QED BY <2>1 DEF Detected, k, b
<1>8. B = [n \in 0..k |-> IF n = 0 THEN b ELSE Told(B[n - 1], raws[n])]
  <2>1. f = [n \in 0..k |-> IF n = 0 THEN <<>> ELSE Told(f[n - 1], raws[n])]
    <3>1. \A n \in 0..k : f[n] = IF n = 0 THEN <<>> ELSE Told(f[n - 1], raws[n])
      BY <1>1, <1>4, <1>6 DEF b
    <3> QED BY <1>4, <3>1
  <2> QED BY <2>1 DEF Streams, k, b
<1> HIDE DEF A, B
<1>9. 0 \in 0..k
  BY <1>1
<1>10. A[0] = b /\ \A n \in 1..k : A[n] = Added(A[n - 1], raws[n])
  BY <1>5, <1>7, <1>9
<1>11. B[0] = b /\ \A n \in 1..k : B[n] = Told(B[n - 1], raws[n])
  BY <1>5, <1>8, <1>9
<1>12. \A n \in 1..k : A[n - 1] \in T => A[n] = g[n][A[n - 1]]
  BY <1>10
<1>13. \A n \in 1..k : B[n - 1] \in T => B[n] = g[n][B[n - 1]]
  <2> SUFFICES ASSUME NEW n \in 1..k, B[n - 1] \in T PROVE B[n] = g[n][B[n - 1]]
    OBVIOUS
  <2>1. Told(B[n - 1], raws[n]) = Added(B[n - 1], raws[n])
    BY <1>1, ToldIsAdded DEF T
  <2> QED BY <1>11, <2>1
<1> HIDE DEF g
<1>14. \A n \in 0..k : A[n] = f[n]
  <2>1. Goes(A, T, b, k, g)
    BY ONLY <1>1, <1>2, <1>3, <1>10, <1>12 DEF Goes
  <2>2. \A n \in 0..k : A[n] = Iterated(T, b, k, g)[n]
    BY ONLY <2>1, IteratesAlone
  <2> QED BY ONLY <2>2 DEF f
<1>15. \A n \in 0..k : B[n] = f[n]
  <2>1. Goes(B, T, b, k, g)
    BY ONLY <1>1, <1>2, <1>3, <1>11, <1>13 DEF Goes
  <2>2. \A n \in 0..k : B[n] = Iterated(T, b, k, g)[n]
    BY ONLY <2>1, IteratesAlone
  <2> QED BY ONLY <2>2 DEF f
<1>16. A \in [0..k -> T]
  BY <1>4, <1>7, <1>14
<1> QED BY <1>10, <1>14, <1>15, <1>16 DEF A, B, T, b, k

\* A beginning and what comes next.
LEMMA Beginnings ==
  ASSUME NEW D, NEW s \in Seq(D)
  PROVE  /\ SubSeq(s, 1, 0) = <<>> /\ SubSeq(s, 1, Len(s)) = s
         /\ \A n \in 0..Len(s) :
              /\ SubSeq(s, 1, n) \in Seq(D) /\ Len(SubSeq(s, 1, n)) = n
              /\ \A i \in 1..n : SubSeq(s, 1, n)[i] = s[i]
         /\ \A n \in 0..(Len(s) - 1) : SubSeq(s, 1, n + 1) = Append(SubSeq(s, 1, n), s[n + 1])
<1>1. SubSeq(s, 1, 0) = <<>>
  OBVIOUS
<1>2. SubSeq(s, 1, Len(s)) = s
  OBVIOUS
<1>3. ASSUME NEW n \in 0..Len(s)
      PROVE  /\ SubSeq(s, 1, n) \in Seq(D) /\ Len(SubSeq(s, 1, n)) = n
             /\ \A i \in 1..n : SubSeq(s, 1, n)[i] = s[i]
  OBVIOUS
<1>4. ASSUME NEW n \in 0..(Len(s) - 1)
      PROVE  SubSeq(s, 1, n + 1) = Append(SubSeq(s, 1, n), s[n + 1])
  <2>1. n \in 0..Len(s) /\ n + 1 \in 0..Len(s) /\ n + 1 \in 1..Len(s) /\ n \in Nat
    OBVIOUS
  <2> DEFINE a == SubSeq(s, 1, n + 1)
             b == Append(SubSeq(s, 1, n), s[n + 1])
  <2>2. a \in Seq(D) /\ Len(a) = n + 1 /\ \A i \in 1..(n + 1) : a[i] = s[i]
    BY <2>1
  <2>3. b \in Seq(D) /\ Len(b) = n + 1 /\ \A i \in 1..(n + 1) : b[i] = s[i]
    <3> DEFINE t == SubSeq(s, 1, n)
    <3>1. t \in Seq(D) /\ Len(t) = n /\ \A i \in 1..n : t[i] = s[i]
      BY <1>3, <2>1
    <3> HIDE DEF t
    <3>2. s[n + 1] \in D
      BY <2>1
    <3>3. Append(t, s[n + 1]) \in Seq(D) /\ Len(Append(t, s[n + 1])) = n + 1
      BY <3>1, <3>2
    <3>4. \A i \in 1..(n + 1) : Append(t, s[n + 1])[i] = s[i]
      BY <2>1, <3>1, <3>2
    <3> QED BY <3>3, <3>4 DEF t
  <2> HIDE DEF a, b
  <2>4. a = b
    BY <2>1, <2>2, <2>3
  <2> QED BY <2>4 DEF a, b
<1> QED BY <1>1, <1>2, <1>3, <1>4

\* A proper cut of a list: windows, in order, each ending where the next datum
\* would not fit.
Cut(D, segments, raws) ==
  /\ segments \in Proper(D)
  /\ Door!FlattenSeq(segments) = raws
  /\ \A i \in 1..Len(segments) : Within(segments[i])
  /\ \A i \in 1..(Len(segments) - 1) : ~ Within(Append(segments[i], segments[i + 1][1]))

\* A datum more keeps a cut a cut.
LEMMA AddedKeeps ==
  ASSUME NEW D, Dated(D), NEW c, NEW l \in Seq(D), Cut(D, c, l), NEW x \in D
  PROVE  Cut(D, Added(c, x), Append(l, x))
<1> DEFINE E == Seq(D) \ {<<>>}
           k == Len(c)
           u == Added(c, x)
<1>1. c \in Seq(E) /\ k \in Nat /\ \A i \in 1..k : c[i] \in E /\ Within(c[i])
  <2>1. c \in Seq(E)
    BY DEF Cut, Proper
  <2>2. \A i \in 1..k : Within(c[i])
    BY DEF Cut
  <2> HIDE DEF E
  <2> QED BY <2>1, <2>2
<1>2. c \in Seq(Seq(D))
  BY <1>1
<1>3. u \in Proper(D)
  BY PlacedType DEF Added, Cut
<1>4. <<x>> \in E /\ <<x>>[1] = x /\ l \o <<x>> = Append(l, x)
  OBVIOUS
<1>5. \A s \in E : s \in Seq(D) /\ s # <<>>
  OBVIOUS
<1>6. \A i \in 1..(k - 1) : ~ Within(Append(c[i], c[i + 1][1]))
  BY DEF Cut
<1>7. ASSUME c # <<>> PROVE k \in 1..k /\ Door!Last(c) = c[k]
  <2> HIDE DEF E
  <2> QED BY <1>1, <1>7 DEF Door!Last
<1>8. ASSUME c # <<>>
      PROVE  Within(Append(c[k], x)) <=> ~ Door!ShouldSplit(c[k], x)
  <2>1. c[k] \in Seq(D) /\ c[k] # <<>> /\ Within(c[k])
    BY <1>1, <1>5, <1>7, <1>8
  <2> QED BY <2>1, WindowGrows
<1>9. CASE c = <<>> \/ Door!ShouldSplit(Door!Last(c), x)
  <2>1. u = Append(c, <<x>>)
    BY <1>9 DEF Added, Placed
  <2>2. Door!FlattenSeq(u) = Append(l, x)
    <3>1. <<x>> \in Seq(D)
      BY <1>4
    <3>2. Door!FlattenSeq(Append(c, <<x>>)) = Door!FlattenSeq(c) \o <<x>>
      BY <1>2, <3>1, FlattenGrows
    <3> QED BY <1>4, <2>1, <3>2 DEF Cut
  <2>3. Len(u) = k + 1 /\ u[k + 1] = <<x>> /\ \A i \in 1..k : u[i] = c[i]
    <3> HIDE DEF E, u
    <3> QED BY <1>1, <1>4, <2>1
  <2> HIDE DEF u, E
  <2>4. ASSUME NEW i \in 1..Len(u) PROVE Within(u[i])
    <3>1. i \in 1..k \/ i = k + 1
      BY <1>1, <2>3
    <3> QED BY <1>1, <2>3, <3>1, WindowFirst
  <2>5. ASSUME NEW i \in 1..(Len(u) - 1) PROVE ~ Within(Append(u[i], u[i + 1][1]))
    <3>1. CASE i = k
      <4>1. c # <<>>
        BY <1>1, <3>1
      <4>2. ~ Within(Append(c[k], x))
        BY <1>7, <1>8, <1>9, <4>1
      <4>3. u[i] = c[k] /\ u[i + 1] = <<x>>
        BY <1>7, <2>3, <3>1, <4>1
      <4> QED BY <1>4, <4>2, <4>3
    <3>2. CASE i # k
      <4>1. i \in 1..(k - 1) /\ i \in 1..k /\ i + 1 \in 1..k
        BY <1>1, <2>3, <3>2
      <4>2. u[i] = c[i] /\ u[i + 1] = c[i + 1]
        BY <2>3, <4>1
      <4> QED BY <1>6, <4>1, <4>2
    <3> QED BY <3>1, <3>2
  <2>6. u \in Proper(D)
    BY <1>3
  <2> QED BY <2>2, <2>4, <2>5, <2>6 DEF Cut, u
<1>10. CASE c # <<>> /\ ~ Door!ShouldSplit(Door!Last(c), x)
  <2>1. u = [c EXCEPT ![k] = Append(@, x)]
    BY <1>10 DEF Added, Placed
  <2>2. Door!FlattenSeq(u) = Append(l, x)
    <3>1. Door!FlattenSeq([c EXCEPT ![Len(c)] = Append(@, x)]) = Append(Door!FlattenSeq(c), x)
      BY <1>2, <1>10, FlattenLast
    <3> QED BY <2>1, <3>1 DEF Cut
  <2>3. Len(u) = k /\ u[k] = Append(c[k], x) /\ \A i \in 1..k : i # k => u[i] = c[i]
    <3> HIDE DEF E, u
    <3>1. DOMAIN c = 1..k
      BY <1>1
    <3>2. DOMAIN u = 1..k /\ u[k] = Append(c[k], x) /\ \A i \in 1..k : i # k => u[i] = c[i]
      BY <1>7, <1>10, <2>1, <3>1
    <3>3. u \in Seq(Seq(D) \ {<<>>})
      BY <1>3 DEF u, Proper
    <3>4. u \in Seq(E)
      BY <3>3 DEF E
    <3>5. Len(u) = k
      BY <1>1, <3>2, <3>4
    <3> QED BY <3>2, <3>5
  <2>4. c[k] \in Seq(D) /\ c[k] # <<>>
    BY <1>1, <1>5, <1>7, <1>10
  <2>5. Append(c[k], x)[1] = c[k][1]
    BY <2>4
  <2> HIDE DEF u, E
  <2>6. ASSUME NEW i \in 1..Len(u) PROVE Within(u[i])
    <3>1. Within(Append(c[k], x))
      BY <1>7, <1>8, <1>10
    <3> QED BY <1>1, <2>3, <3>1
  <2>7. ASSUME NEW i \in 1..(Len(u) - 1) PROVE ~ Within(Append(u[i], u[i + 1][1]))
    <3>1. i \in 1..(k - 1) /\ i \in 1..k /\ i + 1 \in 1..k /\ i # k
      BY <1>1, <2>3
    <3>2. u[i] = c[i]
      BY <2>3, <3>1
    <3>3. u[i + 1][1] = c[i + 1][1]
      <4>1. CASE i + 1 = k
        BY <2>3, <2>5, <4>1
      <4>2. CASE i + 1 # k
        BY <2>3, <3>1, <4>2
      <4> QED BY <4>1, <4>2
    <3> QED BY <1>6, <3>1, <3>2, <3>3
  <2>8. u \in Proper(D)
    BY <1>3
  <2> QED BY <2>2, <2>6, <2>7, <2>8 DEF Cut, u
<1> QED BY <1>9, <1>10

\* detect_boundaries() cuts properly, and a caller of detect() cuts where it does.
LEMMA RulesCut ==
  ASSUME NEW D, Dated(D), NEW raws \in Seq(D)
  PROVE  /\ Cut(D, Door!DetectBoundaries(raws), raws)
         /\ Door!DetectBoundaries(raws) = Door!Streamed(Door!RuleDetect, raws)
<1> DEFINE k == Len(raws)
           F == Detected(raws)
           S == {n \in Nat : n <= k => Cut(D, F[n], SubSeq(raws, 1, n))}
<1>1. k \in Nat /\ \A n \in 1..k : raws[n] \in D
  OBVIOUS
<1>2. F[0] = <<>> /\ \A n \in 1..k : F[n] = Added(F[n - 1], raws[n])
  BY DetectedAre
<1>3. /\ SubSeq(raws, 1, 0) = <<>> /\ SubSeq(raws, 1, k) = raws
      /\ \A n \in 0..k : SubSeq(raws, 1, n) \in Seq(D)
      /\ \A n \in 0..(k - 1) : SubSeq(raws, 1, n + 1) = Append(SubSeq(raws, 1, n), raws[n + 1])
  BY Beginnings
<1> HIDE DEF F
<1>4. 0 \in S
  <2>1. <<>> \in Proper(D) /\ Len(<<>>) = 0
    BY DEF Proper
  <2>2. Cut(D, <<>>, <<>>)
    BY <2>1, FlattenEmpty DEF Cut
  <2> QED BY <1>2, <1>3, <2>2
<1>5. ASSUME NEW n \in Nat, n \in S PROVE n + 1 \in S
  <2> SUFFICES ASSUME n + 1 <= k PROVE Cut(D, F[n + 1], SubSeq(raws, 1, n + 1))
    OBVIOUS
  <2> HIDE DEF k
  <2>1. n \in 0..k /\ n \in 0..(k - 1) /\ n + 1 \in 1..k /\ (n + 1) - 1 = n /\ n <= k
    BY <1>1
  <2> DEFINE c == F[n]
             l == SubSeq(raws, 1, n)
             x == raws[n + 1]
  <2>2. Cut(D, c, l)
    BY <1>5, <2>1
  <2>3. l \in Seq(D) /\ x \in D
    BY <1>1, <1>3, <2>1
  <2>4. F[n + 1] = Added(c, x) /\ SubSeq(raws, 1, n + 1) = Append(l, x)
    BY <1>2, <1>3, <2>1
  <2> HIDE DEF c, l, x
  <2>5. Cut(D, Added(c, x), Append(l, x))
    BY <2>2, <2>3, AddedKeeps
  <2> QED BY <2>4, <2>5
<1> HIDE DEF S
<1>6. \A n \in Nat : n \in S
  BY <1>4, <1>5, AllNaturals
<1>7. Cut(D, F[k], raws)
  <2>1. k \in Nat /\ k \in S /\ k <= k
    BY <1>1, <1>6
  <2>2. Cut(D, F[k], SubSeq(raws, 1, k))
    <3> HIDE DEF k
    <3> QED BY ONLY <2>1 DEF S
  <2> QED BY <1>3, <2>2
<1>8. Streams(raws)[k] = F[k]
  <2>1. k \in 0..k
    BY <1>1
  <2> QED BY <2>1, DetectedAre DEF F
<1> QED BY <1>7, <1>8, DetectedEnds, StreamsEnd DEF F

\* A caller of the hybrid detector keeps a window whole.
LEMMA WindowStays ==
  ASSUME NEW D, Dated(D), NEW s \in Seq(D), s # <<>>, Within(s)
  PROVE  Len(Door!Streamed(Door!HybridDetect, s)) = 1
<1> DEFINE k == Len(s)
           F == Detected(s)
           S == {n \in Nat : n + 1 <= k => F[n + 1] = <<SubSeq(s, 1, n + 1)>>}
<1>1. k \in Nat /\ k >= 1 /\ \A n \in 1..k : s[n] \in D
  OBVIOUS
<1>2. F[0] = <<>> /\ \A n \in 1..k : F[n] = Added(F[n - 1], s[n])
  BY DetectedAre
<1>3. /\ SubSeq(s, 1, 0) = <<>>
      /\ \A n \in 0..k : /\ SubSeq(s, 1, n) \in Seq(D) /\ Len(SubSeq(s, 1, n)) = n
                         /\ \A i \in 1..n : SubSeq(s, 1, n)[i] = s[i]
      /\ \A n \in 0..(k - 1) : SubSeq(s, 1, n + 1) = Append(SubSeq(s, 1, n), s[n + 1])
  BY Beginnings
<1> HIDE DEF F
<1>4. 0 \in S
  <2>1. F[1] = Added(<<>>, s[1])
    BY <1>1, <1>2
  <2>2. F[1] = Append(<<>>, <<s[1]>>)
    BY <2>1 DEF Added, Placed
  <2>3. 0 \in 0..(k - 1) /\ 0 + 1 = 1
    BY <1>1
  <2>4. SubSeq(s, 1, 1) = Append(<<>>, s[1])
    BY <1>3, <2>3
  <2> QED BY <2>2, <2>4
<1>5. ASSUME NEW m \in Nat, m \in S PROVE m + 1 \in S
  <2> SUFFICES ASSUME (m + 1) + 1 <= k PROVE F[(m + 1) + 1] = <<SubSeq(s, 1, (m + 1) + 1)>>
    OBVIOUS
  <2> HIDE DEF k
  <2> DEFINE n == m + 1
  <2>1. /\ n \in 0..k /\ n \in 0..(k - 1) /\ n + 1 \in 1..k /\ (n + 1) - 1 = n /\ n + 1 \in 0..k
        /\ n \in Nat /\ n >= 1 /\ m + 1 <= k /\ n + 1 <= k
    BY <1>1
  <2> DEFINE t == SubSeq(s, 1, n)
             x == s[n + 1]
             u == SubSeq(s, 1, n + 1)
  <2>2. F[n] = <<t>>
    BY <1>5, <2>1
  <2> HIDE DEF n
  <2>3. /\ t \in Seq(D) /\ Len(t) = n /\ x \in D /\ u = Append(t, x)
        /\ u \in Seq(D) /\ Len(u) = n + 1 /\ \A i \in 1..(n + 1) : u[i] = s[i]
    BY <1>1, <1>3, <2>1
  <2>4. F[n + 1] = Added(<<t>>, x)
    BY <1>2, <2>1, <2>2
  <2> HIDE DEF t, x, u
  <2>5. Within(u)
    <3> DEFINE p == 0
    <3>1. Piece(u, s, p)
      BY <2>1, <2>3 DEF k, Piece
    <3> HIDE DEF p
    <3> QED BY <2>3, <3>1, WindowPieces
  <2>6. t # <<>>
    BY <2>1, <2>3
  <2>7. ~ Door!ShouldSplit(t, x)
    <3>1. Within(Append(t, x))
      BY <2>3, <2>5
    <3> QED BY <2>3, <2>6, <3>1, WindowGrows
  <2>8. Door!Last(<<t>>) = t /\ <<t>> # <<>> /\ Len(<<t>>) = 1
    BY DEF Door!Last
  <2>9. F[n + 1] = [<<t>> EXCEPT ![1] = Append(@, x)]
    BY <2>4, <2>7, <2>8 DEF Added, Placed
  <2>10. F[n + 1] = <<u>>
    BY <2>3, <2>9
  <2> QED BY <2>10 DEF n, u
<1> HIDE DEF S
<1>6. \A n \in Nat : n \in S
  BY <1>4, <1>5, AllNaturals
<1>7. k - 1 \in Nat /\ (k - 1) + 1 = k /\ k \in 0..k
  BY <1>1
<1>8. F[k] = <<SubSeq(s, 1, k)>>
  <2> DEFINE m == k - 1
  <2>1. m \in Nat /\ m \in S /\ m + 1 <= k /\ m + 1 = k
    BY <1>6, <1>7
  <2>2. F[m + 1] = <<SubSeq(s, 1, m + 1)>>
    <3> HIDE DEF k, m
    <3> QED BY ONLY <2>1 DEF S
  <2> QED BY <2>1, <2>2
<1>9. Len(F[k]) = 1
  BY <1>8
<1>10. Streams(s)[k] = F[k]
  BY <1>7, DetectedAre DEF F
<1> QED BY <1>9, <1>10, StreamsEnd

-----------------------------------------------------------------------------
(* An ingest request: a segment that a model looks at *)

\* Lists of segments flatten one after the other.
LEMMA FlattenJoins ==
  ASSUME NEW D, NEW c \in Seq(Seq(D)), NEW e \in Seq(Seq(D))
  PROVE  Door!FlattenSeq(c \o e) = Door!FlattenSeq(c) \o Door!FlattenSeq(e)
<1> DEFINE E == Seq(D)
           k == Len(e)
           B(n) == SubSeq(e, 1, n)
           S == {n \in Nat : n <= k =>
                   Door!FlattenSeq(c \o B(n)) = Door!FlattenSeq(c) \o Door!FlattenSeq(B(n))}
<1>1. c \in Seq(E) /\ e \in Seq(E) /\ k \in Nat
  OBVIOUS
<1>2. /\ B(0) = <<>> /\ B(k) = e
      /\ \A n \in 0..k : B(n) \in Seq(E)
      /\ \A n \in 0..(k - 1) : B(n + 1) = Append(B(n), e[n + 1])
  BY Beginnings
<1> HIDE DEF B
<1>3. 0 \in S
  <2>1. c \o <<>> = c
    <3> HIDE DEF E
    <3> QED BY <1>1
  <2>2. Door!FlattenSeq(c) \in Seq(D)
    <3>1. <<>> \in Seq(D)
      OBVIOUS
    <3> QED BY <3>1, FlattenGrows
  <2>3. Door!FlattenSeq(c) \o <<>> = Door!FlattenSeq(c)
    BY <2>2
  <2> QED BY <1>2, <2>1, <2>3, FlattenEmpty
<1>4. ASSUME NEW n \in Nat, n \in S PROVE n + 1 \in S
  <2> SUFFICES ASSUME n + 1 <= k
               PROVE Door!FlattenSeq(c \o B(n + 1)) = Door!FlattenSeq(c) \o Door!FlattenSeq(B(n + 1))
    OBVIOUS
  <2> HIDE DEF k
  <2>1. n \in 0..k /\ n \in 0..(k - 1) /\ n <= k /\ n + 1 \in 1..k
    BY <1>1
  <2> DEFINE a == B(n)
             x == e[n + 1]
  <2>2. a \in Seq(E) /\ x \in E /\ B(n + 1) = Append(a, x)
    <3>1. e[n + 1] \in E
      <4> HIDE DEF E
      <4> QED BY <1>1, <2>1 DEF k
    <3> QED BY <1>2, <2>1, <3>1
  <2>3. Door!FlattenSeq(c \o a) = Door!FlattenSeq(c) \o Door!FlattenSeq(a)
    BY <1>4, <2>1
  <2> HIDE DEF a, x
  <2>4. c \o Append(a, x) = Append(c \o a, x) /\ c \o a \in Seq(E)
    <3> HIDE DEF E
    <3> QED BY <1>1, <2>2
  <2>5. c \o a \in Seq(Seq(D)) /\ a \in Seq(Seq(D)) /\ x \in Seq(D)
    BY <2>2, <2>4
  <2>6. Door!FlattenSeq(Append(c \o a, x)) = Door!FlattenSeq(c \o a) \o x
    BY <2>5, FlattenGrows
  <2>7. Door!FlattenSeq(Append(a, x)) = Door!FlattenSeq(a) \o x
    BY <2>5, FlattenGrows
  <2>8. Door!FlattenSeq(c) \in Seq(D) /\ Door!FlattenSeq(a) \in Seq(D)
    BY <2>5, FlattenGrows
  <2>9. (Door!FlattenSeq(c) \o Door!FlattenSeq(a)) \o x = Door!FlattenSeq(c) \o (Door!FlattenSeq(a) \o x)
    BY <2>5, <2>8, ConcatAssociative
  <2> QED BY <2>2, <2>3, <2>4, <2>6, <2>7, <2>9
<1>5. k \in S
  <2> HIDE DEF S, k
  <2> QED BY <1>1, <1>3, <1>4, AllNaturals
<1>6. Door!FlattenSeq(c \o B(k)) = Door!FlattenSeq(c) \o Door!FlattenSeq(B(k))
  <2>1. k <= k
    BY <1>1
  <2> HIDE DEF k
  <2> QED BY <1>5, <2>1
<1> QED BY <1>2, <1>6

\* Segments that make up a list; those of a window are windows.
Parts(D, segments, s) ==
  /\ segments \in Proper(D)
  /\ Door!FlattenSeq(segments) = s
  /\ Within(s) => \A i \in 1..Len(segments) : Within(segments[i])

\* One segment, or two.
LEMMA FlattenFew ==
  ASSUME NEW D, NEW a \in Seq(D), NEW b \in Seq(D)
  PROVE  Door!FlattenSeq(<<a>>) = a /\ Door!FlattenSeq(<<a, b>>) = a \o b
<1> DEFINE E == Seq(D)
<1>1. <<>> \in Seq(Seq(D)) /\ <<a>> \in Seq(Seq(D)) /\ a \in E /\ b \in E
  OBVIOUS
<1>2. Append(<<>>, a) = <<a>>
  OBVIOUS
<1>6. Append(<<a>>, b) = <<a, b>>
  <2> HIDE DEF E
  <2>1. <<a>> \in Seq(E) /\ <<a, b>> \in Seq(E) /\ Len(<<a>>) = 1 /\ Len(<<a, b>>) = 2
        /\ <<a>>[1] = a /\ <<a, b>>[1] = a /\ <<a, b>>[2] = b
    BY <1>1
  <2>2. Append(<<a>>, b) \in Seq(E) /\ Len(Append(<<a>>, b)) = 2
        /\ Append(<<a>>, b)[1] = a /\ Append(<<a>>, b)[2] = b
    BY <1>1, <2>1
  <2>3. \A i \in 1..2 : Append(<<a>>, b)[i] = <<a, b>>[i]
    BY <2>1, <2>2
  <2> QED BY ONLY <2>1, <2>2, <2>3, SeqEqual
<1>3. Door!FlattenSeq(Append(<<>>, a)) = Door!FlattenSeq(<<>>) \o a
  BY <1>1, FlattenGrows
<1>4. Door!FlattenSeq(Append(<<a>>, b)) = Door!FlattenSeq(<<a>>) \o b
  BY <1>1, FlattenGrows
<1>5. <<>> \o a = a
  OBVIOUS
<1> QED BY <1>2, <1>3, <1>4, <1>5, <1>6, FlattenEmpty

\* A segment that nobody cuts.
LEMMA WholeParts ==
  ASSUME NEW D, NEW s \in Seq(D), s # <<>>
  PROVE  Parts(D, <<s>>, s)
<1> DEFINE E == Seq(D) \ {<<>>}
<1>1. s \in E /\ Proper(D) = Seq(E)
  BY DEF Proper
<1>2. <<s>> \in Seq(E) /\ \A i \in 1..Len(<<s>>) : <<s>>[i] = s
  <2> HIDE DEF E
  <2> QED BY <1>1
<1>3. Door!FlattenSeq(<<s>>) = s
  BY FlattenFew
<1> QED BY <1>1, <1>2, <1>3 DEF Parts

\* split_segment_at() loses nothing and leaves nothing empty.
LEMMA SplitParts ==
  ASSUME NEW D, Dated(D), NEW s \in Seq(D), s # <<>>, NEW index \in Int
  PROVE  Parts(D, Door!SplitSegmentAt(s, index), s)
<1>1. CASE index <= 0 \/ index >= Len(s)
  BY <1>1, WholeParts DEF Door!SplitSegmentAt
<1>2. CASE ~ (index <= 0 \/ index >= Len(s))
  <2> DEFINE a == SubSeq(s, 1, index)
             b == SubSeq(s, index + 1, Len(s))
             E == Seq(D) \ {<<>>}
             L == Len(s)
  <2>1. Door!SplitSegmentAt(s, index) = <<a, b>>
    BY <1>2 DEF Door!SplitSegmentAt
  <2>2. index \in Nat /\ index >= 1 /\ index + 1 <= L /\ L \in Nat
    BY <1>2
  <2>3. a \in Seq(D) /\ Len(a) = index /\ \A i \in 1..index : a[i] = s[i]
    BY <2>2
  <2>4. b \in Seq(D) /\ Len(b) = L - index /\ \A i \in 1..(L - index) : b[i] = s[index + i]
    <3>1. b \in Seq(D) /\ Len(b) = L - index
      BY <2>2
    <3>2. ASSUME NEW i \in 1..(L - index) PROVE b[i] = s[index + i]
      BY <2>2
    <3> QED BY <3>1, <3>2
  <2> HIDE DEF a, b
  <2>5. a # <<>> /\ b # <<>>
    BY <2>2, <2>3, <2>4
  <2>6. a \o b = s
    <3> DEFINE t == a \o b
    <3>1. t \in Seq(D) /\ Len(t) = L
      <4>1. t \in Seq(D) /\ Len(t) = Len(a) + Len(b)
        BY <2>3, <2>4, ConcatProperties
      <4> QED BY <2>2, <2>3, <2>4, <4>1
    <3>2. ASSUME NEW i \in 1..L PROVE t[i] = s[i]
      <4>1. CASE i <= index
        <5>1. i \in 1..index /\ i \in 1..Len(a)
          BY <2>2, <2>3, <4>1
        <5>2. t[i] = a[i]
          BY <2>3, <2>4, <5>1, ConcatProperties
        <5> QED BY <2>3, <5>1, <5>2
      <4>2. CASE ~ (i <= index)
        <5>1. i - index \in 1..(L - index) /\ index + (i - index) = i
          BY <2>2, <4>2
        <5>2. t[i] = b[i - index]
          BY <2>2, <2>3, <2>4, <4>2, ConcatProperties
        <5> QED BY <2>4, <5>1, <5>2
      <4> QED BY <4>1, <4>2
    <3> HIDE DEF t
    <3>3. t = s
      BY <3>1, <3>2
    <3> QED BY <3>3 DEF t
  <2>7. Door!FlattenSeq(<<a, b>>) = s
    BY <2>3, <2>4, <2>6, FlattenFew
  <2>8. Within(s) => Within(a) /\ Within(b)
    <3> SUFFICES ASSUME Within(s) PROVE Within(a) /\ Within(b)
      OBVIOUS
    <3>1. Within(a)
      <4> DEFINE p == 0
      <4>1. Piece(a, s, p)
        BY <2>2, <2>3 DEF Piece
      <4> HIDE DEF p
      <4> QED BY <2>3, <4>1, WindowPieces
    <3>2. Within(b)
      <4>1. Piece(b, s, index)
        BY <2>2, <2>4 DEF Piece
      <4> QED BY <2>4, <4>1, WindowPieces
    <3> QED BY <3>1, <3>2
  <2>9. a \in E /\ b \in E /\ Proper(D) = Seq(E)
    BY <2>3, <2>4, <2>5 DEF Proper
  <2>10. <<a, b>> \in Seq(E) /\ \A i \in 1..Len(<<a, b>>) : <<a, b>>[i] = a \/ <<a, b>>[i] = b
    <3> HIDE DEF E
    <3> QED BY <2>9
  <2>11. Within(s) => \A i \in 1..Len(<<a, b>>) : Within(<<a, b>>[i])
    BY <2>8, <2>10
  <2>12. <<a, b>> \in Proper(D)
    BY <2>9, <2>10
  <2> HIDE DEF E
  <2> QED BY ONLY <2>1, <2>7, <2>11, <2>12 DEF Parts
<1> QED BY <1>1, <1>2

\* What an answer of the model is read as.
LEMMA AnswersAreIndexes ==
  ASSUME NEW s, Len(s) \in Nat, NEW said \in Door!Answers(s), said \notin {Infinite, Failed}
  PROVE  Door!ParseBoundary(said) \in Int
BY DEF Door!Answers, Door!ParseBoundary

\* HybridSBD: what a segment of the rules may become, segment after segment.
Refined(segment, bound) ==
  IF Len(segment) <= RefineThreshold \/ ~bound THEN {<<segment>>}
  ELSE {Door!RefineSegment(segment, said) : said \in Door!Answers(segment)}
Extended(lists, segment, bound) ==
  {list \o pieces : list \in lists, pieces \in Refined(segment, bound)}
Refinements(rule, bound) == CHOOSE lists : lists =
  [n \in 0..Len(rule) |-> IF n = 0 THEN {<<>>} ELSE Extended(lists[n - 1], rule[n], bound)]

\* HybridSBD.segment() step by step.
LEMMA HybridEnds ==
  ASSUME NEW raws, NEW bound
  PROVE  LET rule == Door!DetectBoundaries(raws)
         IN Door!HybridSegments(raws, bound) = Refinements(rule, bound)[Len(rule)]
BY DEF Door!HybridSegments, Refinements, Extended, Refined

\* A refined segment is the same data.
LEMMA RefinedParts ==
  ASSUME NEW D, Dated(D), NEW s \in Seq(D), s # <<>>, NEW bound, NEW c \in Refined(s, bound)
  PROVE  Parts(D, c, s)
<1>1. CASE c = <<s>>
  BY <1>1, WholeParts
<1>2. CASE c # <<s>>
  <2>1. PICK said \in Door!Answers(s) : c = Door!RefineSegment(s, said)
    BY <1>2 DEF Refined
  <2>2. said \notin {Infinite, Failed} /\ c = Door!SplitSegmentAt(s, Door!ParseBoundary(said))
    BY <1>2, <2>1 DEF Door!RefineSegment
  <2>3. Len(s) \in Nat
    OBVIOUS
  <2>4. Door!ParseBoundary(said) \in Int
    BY <2>2, <2>3, AnswersAreIndexes
  <2> QED BY <2>2, <2>4, SplitParts
<1> QED BY <1>1, <1>2

\* Segments after segments.
LEMMA ExtendedParts ==
  ASSUME NEW D, Dated(D), NEW a \in Proper(D), NEW s \in Seq(D), s # <<>>, NEW bound,
         NEW c \in Refined(s, bound)
  PROVE  /\ a \o c \in Proper(D)
         /\ Door!FlattenSeq(a \o c) = Door!FlattenSeq(a) \o s
         /\ Within(s) /\ (\A i \in 1..Len(a) : Within(a[i]))
              => \A i \in 1..Len(a \o c) : Within((a \o c)[i])
<1> DEFINE E == Seq(D) \ {<<>>}
           u == a \o c
<1>1. Parts(D, c, s)
  BY RefinedParts
<1>2. a \in Seq(E) /\ c \in Seq(E) /\ Proper(D) = Seq(E)
  BY <1>1 DEF Parts, Proper
<1>3. a \in Seq(Seq(D)) /\ c \in Seq(Seq(D))
  BY <1>2
<1>4. Door!FlattenSeq(u) = Door!FlattenSeq(a) \o s
  BY <1>1, <1>3, FlattenJoins DEF Parts
<1> HIDE DEF E
<1>5. /\ u \in Seq(E) /\ Len(u) = Len(a) + Len(c) /\ Len(a) \in Nat /\ Len(c) \in Nat
      /\ \A i \in 1..Len(u) : u[i] = IF i <= Len(a) THEN a[i] ELSE c[i - Len(a)]
  BY <1>2, ConcatProperties
<1> HIDE DEF u
<1>6. ASSUME Within(s), \A i \in 1..Len(a) : Within(a[i]), NEW i \in 1..Len(u) PROVE Within(u[i])
  <2>1. CASE i <= Len(a)
    <3>1. i \in 1..Len(a)
      BY <1>5, <2>1
    <3> QED BY <1>5, <1>6, <2>1, <3>1
  <2>2. CASE ~ (i <= Len(a))
    <3>1. i - Len(a) \in 1..Len(c)
      BY <1>5, <2>2
    <3>2. Within(c[i - Len(a)])
      BY <1>1, <1>6, <3>1 DEF Parts
    <3> QED BY <1>5, <2>2, <3>2
  <2> QED BY <2>1, <2>2
<1> QED BY <1>2, <1>4, <1>5, <1>6 DEF u

\* Every list the hybrid detector may return is the rules' list, cut further.
LEMMA HybridCuts ==
  ASSUME NEW D, Dated(D), NEW rule \in Proper(D), \A i \in 1..Len(rule) : Within(rule[i]),
         NEW bound, NEW c \in Refinements(rule, bound)[Len(rule)]
  PROVE  /\ c \in Proper(D) /\ Door!FlattenSeq(c) = Door!FlattenSeq(rule)
         /\ \A i \in 1..Len(c) : Within(c[i])
<1> DEFINE k == Len(rule)
           E == Seq(D) \ {<<>>}
           T == SUBSET Proper(D)
           b == {<<>>}
           g == [n \in 1..k |-> [lists \in T |-> Extended(lists, rule[n], bound)]]
           f == Iterated(T, b, k, g)
           F == Refinements(rule, bound)
           B(n) == SubSeq(rule, 1, n)
<1>1. rule \in Seq(E) /\ Proper(D) = Seq(E)
  BY DEF Proper
<1>2. k \in Nat /\ \A n \in 1..k : rule[n] \in E
  <2> HIDE DEF E
  <2> QED BY <1>1
<1>3. \A n \in 1..k : rule[n] \in Seq(D) /\ rule[n] # <<>> /\ Within(rule[n])
  BY <1>2
<1>4. /\ B(0) = <<>> /\ B(k) = rule
      /\ \A n \in 0..k : B(n) \in Seq(E)
      /\ \A n \in 0..(k - 1) : B(n + 1) = Append(B(n), rule[n + 1])
  <2> HIDE DEF E
  <2> QED BY <1>1, Beginnings
<1>5. \A n \in 0..k : B(n) \in Seq(Seq(D))
  BY <1>4
<1> HIDE DEF E, B
<1>6. b \in T
  BY <1>1
<1>7. ASSUME NEW n \in 1..k, NEW lists \in T PROVE Extended(lists, rule[n], bound) \in T
  <2>1. ASSUME NEW a \in lists, NEW pieces \in Refined(rule[n], bound) PROVE a \o pieces \in Proper(D)
    <3> DEFINE s == rule[n]
    <3>1. s \in Seq(D) /\ s # <<>> /\ a \in Proper(D) /\ pieces \in Refined(s, bound)
      BY <1>3
    <3> HIDE DEF s
    <3> QED BY ONLY <3>1, Dated(D), ExtendedParts
  <2>2. ASSUME NEW u \in Extended(lists, rule[n], bound) PROVE u \in Proper(D)
    <3>1. PICK a \in lists, pieces \in Refined(rule[n], bound) : u = a \o pieces
      BY DEF Extended
    <3>2. a \o pieces \in Proper(D)
      BY ONLY <2>1, <3>1
    <3> QED BY ONLY <3>1, <3>2
  <2>3. Extended(lists, rule[n], bound) \subseteq Proper(D)
    BY <2>2
  <2> QED BY <2>3
<1>8. g \in [1..k -> [T -> T]]
  BY <1>7
<1> HIDE DEF T, b
<1>9. f \in [0..k -> T] /\ f[0] = b /\ \A n \in 1..k : f[n] = g[n][f[n - 1]]
  <2>1. b \in T /\ k \in Nat /\ g \in [1..k -> [T -> T]]
    BY <1>2, <1>6, <1>8
  <2> DEFINE h == Iterated(T, b, k, g)
  <2>2. h \in [0..k -> T] /\ h[0] = b /\ \A n \in 1..k : h[n] = g[n][h[n - 1]]
    <3> HIDE DEF g, k, f
    <3> QED BY ONLY <2>1, Iterates
  <2> QED BY <2>2
<1> HIDE DEF f, k
<1>10. \A n \in 1..k : n - 1 \in 0..k /\ n # 0 /\ n \in 0..k
  BY <1>2
<1>11. \A n \in 1..k : f[n] = Extended(f[n - 1], rule[n], bound)
  <2> SUFFICES ASSUME NEW n \in 1..k PROVE f[n] = Extended(f[n - 1], rule[n], bound)
    OBVIOUS
  <2>1. f[n - 1] \in T
    BY <1>9, <1>10
  <2> QED BY <1>9, <2>1
<1>12. F = [n \in 0..k |-> IF n = 0 THEN b ELSE Extended(F[n - 1], rule[n], bound)]
  <2>1. f = [n \in 0..k |-> IF n = 0 THEN b ELSE Extended(f[n - 1], rule[n], bound)]
    <3>1. \A n \in 0..k : f[n] = IF n = 0 THEN b ELSE Extended(f[n - 1], rule[n], bound)
      BY <1>2, <1>9, <1>11
    <3> QED BY <1>9, <3>1
  <2> QED BY <2>1 DEF Refinements, k, b
<1> HIDE DEF F
<1>13. F[0] = b /\ \A n \in 1..k : F[n] = Extended(F[n - 1], rule[n], bound)
  <2>1. 0 \in 0..k
    BY <1>2
  <2> QED BY <1>10, <1>12, <2>1
<1> DEFINE Good(n, c1) == /\ c1 \in Proper(D) /\ Door!FlattenSeq(c1) = Door!FlattenSeq(B(n))
                          /\ \A i \in 1..Len(c1) : Within(c1[i])
           S == {n \in Nat : n <= k => \A c1 \in F[n] : Good(n, c1)}
<1>14. 0 \in S
  <2>1. <<>> \in Proper(D) /\ \A i \in 1..Len(<<>>) : Within(<<>>[i])
    BY DEF Proper
  <2>2. Good(0, <<>>)
    BY <1>4, <2>1
  <2> QED BY <1>13, <2>2 DEF b
<1>15. ASSUME NEW n \in Nat, n \in S PROVE n + 1 \in S
  <2> SUFFICES ASSUME n + 1 <= k, NEW c1 \in F[n + 1] PROVE Good(n + 1, c1)
    OBVIOUS
  <2>1. n \in 0..k /\ n \in 0..(k - 1) /\ n + 1 \in 1..k /\ (n + 1) - 1 = n /\ n <= k
    BY <1>2
  <2>2. F[n + 1] = Extended(F[n], rule[n + 1], bound)
    BY <1>13, <2>1
  <2> HIDE DEF Good
  <2>10. c1 \in Extended(F[n], rule[n + 1], bound)
    BY <2>2
  <2>3. PICK a \in F[n], c2 \in Refined(rule[n + 1], bound) : c1 = a \o c2
    BY ONLY <2>10 DEF Extended
  <2> USE DEF Good
  <2>4. Good(n, a)
    BY <1>15, <2>1
  <2> DEFINE s == rule[n + 1]
             l == B(n)
  <2>5. s \in Seq(D) /\ s # <<>> /\ Within(s) /\ l \in Seq(Seq(D)) /\ B(n + 1) = Append(l, s)
    BY <1>3, <1>4, <1>5, <2>1
  <2>6. a \in Proper(D) /\ Door!FlattenSeq(a) = Door!FlattenSeq(l) /\ \A i \in 1..Len(a) : Within(a[i])
    BY <2>4
  <2>7. c2 \in Refined(s, bound) /\ c1 = a \o c2
    BY <2>3
  <2> HIDE DEF s, l
  <2>8. /\ a \o c2 \in Proper(D)
        /\ Door!FlattenSeq(a \o c2) = Door!FlattenSeq(a) \o s
        /\ \A i \in 1..Len(a \o c2) : Within((a \o c2)[i])
    <3>1. Dated(D) /\ a \in Proper(D) /\ s \in Seq(D) /\ s # <<>> /\ c2 \in Refined(s, bound)
      BY <2>5, <2>6, <2>7
    <3>2. /\ a \o c2 \in Proper(D)
          /\ Door!FlattenSeq(a \o c2) = Door!FlattenSeq(a) \o s
          /\ Within(s) /\ (\A i \in 1..Len(a) : Within(a[i]))
               => \A i \in 1..Len(a \o c2) : Within((a \o c2)[i])
      BY ONLY <3>1, ExtendedParts
    <3> QED BY <2>5, <2>6, <3>2
  <2>9. Door!FlattenSeq(Append(l, s)) = Door!FlattenSeq(l) \o s
    BY <2>5, FlattenGrows
  <2> QED BY <2>5, <2>6, <2>7, <2>8, <2>9
<1> HIDE DEF S
<1>16. k \in S
  BY <1>2, <1>14, <1>15, AllNaturals
<1>17. c \in F[k] /\ k <= k
  BY <1>2 DEF F, k
<1>18. Good(k, c)
  <2> HIDE DEF Good
  <2> QED BY <1>16, <1>17 DEF S
<1> QED BY <1>4, <1>18

\* Two lists of segments that make up two lists.
LEMMA PartsJoin ==
  ASSUME NEW D, NEW s, NEW t, NEW a, NEW c, Parts(D, a, s), Parts(D, c, t)
  PROVE  a \o c \in Proper(D) /\ Door!FlattenSeq(a \o c) = s \o t
<1> DEFINE E == Seq(D) \ {<<>>}
<1>1. a \in Seq(E) /\ c \in Seq(E) /\ Proper(D) = Seq(E)
  BY DEF Parts, Proper
<1>2. a \in Seq(Seq(D)) /\ c \in Seq(Seq(D))
  BY <1>1
<1>3. Door!FlattenSeq(a \o c) = Door!FlattenSeq(a) \o Door!FlattenSeq(c)
  BY <1>2, FlattenJoins
<1>4. a \o c \in Seq(E)
  <2> HIDE DEF E
  <2> QED BY <1>1, ConcatProperties
<1> QED BY <1>1, <1>3, <1>4 DEF Parts

\* The prompt's limit or the whole list.
LEMMA HeadIs ==
  ASSUME NEW n \in Nat
  PROVE  Door!Min({PromptTurns, n}) = IF PromptTurns <= n THEN PromptTurns ELSE n
<1> DEFINE S == {PromptTurns, n}
           m == IF PromptTurns <= n THEN PromptTurns ELSE n
<1>1. PromptTurns \in Nat \ {0}
  BY IngestAssumption
<1>2. m \in S /\ \A y \in S : m <= y
  BY <1>1
<1>3. ASSUME NEW x \in S, \A y \in S : x <= y PROVE x = m
  <2>1. x \in Nat /\ m \in Nat /\ x <= m /\ m <= x
    BY <1>1, <1>2, <1>3
  <2> QED BY <2>1
<1> HIDE DEF S, m
<1>4. Door!Min(S) = m
  BY <1>2, <1>3 DEF Door!Min
<1> QED BY <1>4 DEF S, m

\* The language model cuts its head, and nothing is lost at the prompt's limit.
LEMMA ModelCuts ==
  ASSUME NEW D, Dated(D), NEW raws \in Seq(D), NEW bound,
         NEW c \in Door!LLMSegments(raws, bound), c # Door!Raised
  PROVE  c \in Proper(D) /\ Door!FlattenSeq(c) = raws
<1> DEFINE L == Len(raws)
           h == Door!Min({PromptTurns, L})
           head == SubSeq(raws, 1, h)
           tail == SubSeq(raws, PromptTurns + 1, L)
           rest == IF tail = <<>> THEN <<>> ELSE <<tail>>
<1>1. L \in Nat /\ PromptTurns \in Nat \ {0} /\ h = IF PromptTurns <= L THEN PromptTurns ELSE L
  BY IngestAssumption, HeadIs
<1>2. CASE L < 2
  <2>1. c = IF raws = <<>> THEN <<>> ELSE <<raws>>
    BY <1>2 DEF Door!LLMSegments
  <2>2. CASE raws = <<>>
    <3>1. <<>> \in Proper(D)
      BY DEF Proper
    <3> QED BY <2>1, <2>2, <3>1, FlattenEmpty
  <2>3. CASE raws # <<>>
    BY <2>1, <2>3, WholeParts DEF Parts
  <2> QED BY <2>2, <2>3
<1>3. CASE ~ (L < 2)
  <2>1. h \in Nat /\ 1 <= h /\ h <= L /\ h <= PromptTurns
    BY <1>1, <1>3
  <2>2. head \in Seq(D) /\ Len(head) = h /\ \A i \in 1..h : head[i] = raws[i]
    <3> HIDE DEF h
    <3> QED BY <2>1
  <2>3. head # <<>>
    BY <2>1, <2>2
  <2>4. tail \in Seq(D) /\ head \o tail = raws
    <3>1. CASE PromptTurns >= L
      <4>1. h = L
        BY <1>1, <3>1
      <4>2. head = raws
        BY <4>1
      <4>3. tail = <<>>
        BY <1>1, <3>1
      <4>4. <<>> \in Seq(D) /\ raws \o <<>> = raws
        OBVIOUS
      <4> HIDE DEF head, tail
      <4> QED BY <4>2, <4>3, <4>4
    <3>2. CASE ~ (PromptTurns >= L)
      <4>1. h = PromptTurns /\ PromptTurns + 1 <= L
        BY <1>1, <3>2
      <4> DEFINE p == PromptTurns
      <4> HIDE DEF p
      <4>2. p \in Nat /\ 1 <= p /\ p + 1 <= L
        BY <1>1, <4>1 DEF p
      <4>3. SubSeq(raws, p + 1, L) \in Seq(D) /\ SubSeq(raws, 1, p) \o SubSeq(raws, p + 1, L) = raws
        <5> DEFINE a == SubSeq(raws, 1, p)
                   b == SubSeq(raws, p + 1, L)
        <5>1. a \in Seq(D) /\ Len(a) = p /\ \A i \in 1..p : a[i] = raws[i]
          BY <4>2
        <5>2. b \in Seq(D) /\ Len(b) = L - p
          BY <4>2
        <5>3. ASSUME NEW i \in 1..(L - p) PROVE b[i] = raws[p + i]
          BY <4>2
        <5> HIDE DEF a, b
        <5> DEFINE t == a \o b
        <5>4. t \in Seq(D) /\ Len(t) = Len(a) + Len(b)
          BY <5>1, <5>2, ConcatProperties
        <5>5. Len(t) = L
          BY <1>1, <4>2, <5>1, <5>2, <5>4
        <5>6. ASSUME NEW i \in 1..L PROVE t[i] = raws[i]
          <6>1. CASE i <= p
            <7>1. i \in 1..p /\ i \in 1..Len(a)
              BY <4>2, <5>1, <6>1
            <7>2. t[i] = a[i]
              BY <5>1, <5>2, <7>1, ConcatProperties
            <7> QED BY <5>1, <7>1, <7>2
          <6>2. CASE ~ (i <= p)
            <7>1. i - p \in 1..(L - p) /\ p + (i - p) = i
              BY <1>1, <4>2, <6>2
            <7>2. t[i] = b[i - p]
              BY <1>1, <4>2, <5>1, <5>2, <6>2, ConcatProperties
            <7> QED BY <5>3, <7>1, <7>2
          <6> QED BY <6>1, <6>2
        <5> HIDE DEF t
        <5>7. t = raws
          BY <5>4, <5>5, <5>6
        <5> QED BY <5>2, <5>7 DEF t, a, b
      <4> QED BY <4>1, <4>3 DEF p
    <3> QED BY <3>1, <3>2
  <2>5. Parts(D, rest, tail)
    <3> HIDE DEF tail
    <3>1. CASE tail = <<>>
      <4>1. <<>> \in Proper(D) /\ Len(<<>>) = 0
        BY DEF Proper
      <4>2. Parts(D, <<>>, <<>>)
        BY <4>1, FlattenEmpty DEF Parts
      <4> QED BY <3>1, <4>2
    <3>2. CASE tail # <<>>
      <4>1. Parts(D, <<tail>>, tail)
        BY <2>4, <3>2, WholeParts
      <4> QED BY <3>2, <4>1
    <3> QED BY <3>1, <3>2
  <2>6. \E a : Parts(D, a, head) /\ c = a \o rest
    <3>1. CASE ~bound
      <4>1. c = <<head>> \o rest
        BY <1>3, <3>1 DEF Door!LLMSegments
      <4>2. Parts(D, <<head>>, head)
        <5> HIDE DEF head
        <5> QED BY <2>2, <2>3, WholeParts
      <4> QED BY <4>1, <4>2
    <3>2. CASE bound
      <4>1. PICK said \in Door!Answers(head) :
              c = IF said = Infinite THEN Door!Raised
                  ELSE Door!SplitSegmentAt(head, IF said = Failed THEN -1 ELSE Door!ParseBoundary(said))
                         \o rest
        BY <1>3, <3>2 DEF Door!LLMSegments
      <4> DEFINE index == IF said = Failed THEN -1 ELSE Door!ParseBoundary(said)
      <4>2. said # Infinite /\ c = Door!SplitSegmentAt(head, index) \o rest
        BY <4>1
      <4>3. Len(head) \in Nat
        BY <2>1, <2>2
      <4>4. index \in Int
        <5> HIDE DEF head
        <5>1. CASE said = Failed
          BY <5>1
        <5>2. CASE said # Failed
          BY <4>2, <4>3, <5>2, AnswersAreIndexes
        <5> QED BY <5>1, <5>2
      <4>5. Parts(D, Door!SplitSegmentAt(head, index), head)
        <5> HIDE DEF head, index
        <5> QED BY <2>2, <2>3, <4>4, SplitParts
      <4> QED BY <4>2, <4>5
    <3> QED BY <3>1, <3>2
  <2> HIDE DEF head, tail, rest
  <2>7. PICK a : Parts(D, a, head) /\ c = a \o rest
    BY <2>6
  <2>8. a \o rest \in Proper(D) /\ Door!FlattenSeq(a \o rest) = head \o tail
    <3>1. Parts(D, a, head) /\ Parts(D, rest, tail)
      BY <2>5, <2>7
    <3> QED BY ONLY <3>1, PartsJoin
  <2> QED BY <2>4, <2>7, <2>8
<1> QED BY <1>2, <1>3

\* Both of the model's entry points cut in the same place.
LEMMA ModelEnds ==
  ASSUME NEW D, NEW raws \in Seq(D)
  PROVE  Door!EndsWhereCut(raws)
<1> SUFFICES ASSUME NEW n \in 1..(Len(raws) - 1), NEW said \in Door!Answers(raws) \ {Infinite, Failed}
             PROVE LET history == SubSeq(raws, 1, n)
                       new == <<raws[n + 1]>>
                   IN Door!LLMDetect(history, new, TRUE, said) = "end"
                        <=> Door!SplitSegmentAt(history \o new, Door!ParseBoundary(said)) = <<history, new>>
  BY DEF Door!EndsWhereCut
<1> DEFINE history == SubSeq(raws, 1, n)
           new == <<raws[n + 1]>>
           index == Door!ParseBoundary(said)
           both == history \o new
<1>1. index \in Int
  <2>1. Len(raws) \in Nat
    OBVIOUS
  <2> QED BY <2>1, AnswersAreIndexes
<1>2. /\ n \in Nat /\ n >= 1 /\ n + 1 \in 1..Len(raws)
      /\ history \in Seq(D) /\ Len(history) = n
  OBVIOUS
<1>3. new \in Seq(D) /\ Len(new) = 1 /\ new[1] = raws[n + 1] /\ new # <<>>
  BY <1>2
<1> HIDE DEF history, new
<1>4. history # <<>>
  BY <1>2
<1>5. /\ both \in Seq(D) /\ Len(both) = n + 1 /\ both[n + 1] = new[1]
      /\ \A i \in 1..n : both[i] = history[i]
  <2>1. both \in Seq(D) /\ Len(both) = Len(history) + Len(new)
    BY <1>2, <1>3, ConcatProperties
  <2>2. \A i \in 1..n : both[i] = history[i]
    BY <1>2, <1>3, ConcatProperties
  <2>3. both[n + 1] = new[1]
    BY <1>2, <1>3, ConcatProperties
  <2> QED BY <1>2, <1>3, <2>1, <2>2, <2>3
<1> HIDE DEF both, index
<1>6. Door!LLMDetect(history, new, TRUE, said) = "end" <=> index = n
  BY <1>2, <1>3, <1>4 DEF Door!LLMDetect, index
<1>7. Door!SplitSegmentAt(both, index) = <<history, new>> <=> index = n
  <2>1. CASE index <= 0 \/ index >= n + 1
    <3>1. Door!SplitSegmentAt(both, index) = <<both>>
      BY <1>5, <2>1 DEF Door!SplitSegmentAt
    <3>2. Len(<<both>>) = 1 /\ Len(<<history, new>>) = 2
      OBVIOUS
    <3>3. index # n
      BY <1>1, <1>2, <2>1
    <3> QED BY <3>1, <3>2, <3>3
  <2>2. CASE ~ (index <= 0 \/ index >= n + 1)
    <3> DEFINE a == SubSeq(both, 1, index)
               b == SubSeq(both, index + 1, n + 1)
    <3>1. Door!SplitSegmentAt(both, index) = <<a, b>>
      BY <1>5, <2>2 DEF Door!SplitSegmentAt
    <3>2. index \in Nat /\ 1 <= index /\ index <= n
      BY <1>1, <1>2, <2>2
    <3>3. a \in Seq(D) /\ Len(a) = index /\ \A i \in 1..index : a[i] = both[i]
      BY <1>2, <1>5, <3>2
    <3>4. CASE index = n
      <4>1. a = history
        <5> HIDE DEF a
        <5> QED BY <1>2, <1>5, <3>3, <3>4
      <4>2. b \in Seq(D) /\ Len(b) = 1 /\ b[1] = both[n + 1]
        BY <1>2, <1>5, <3>4
      <4>3. b = new
        <5> HIDE DEF b
        <5> QED BY <1>3, <1>5, <4>2
      <4> QED BY <3>1, <3>4, <4>1, <4>3
    <3>5. CASE index # n
      <4>1. Len(a) # Len(history)
        BY <1>2, <3>3, <3>5
      <4>2. a # history
        BY <4>1
      <4> HIDE DEF a, b
      <4>3. <<a, b>> # <<history, new>>
        BY <4>2
      <4> QED BY <3>1, <3>5, <4>3
    <3> QED BY <3>4, <3>5
  <2> QED BY <2>1, <2>2
<1> QED BY <1>6, <1>7 DEF history, new, both, index

-----------------------------------------------------------------------------
(* An ingest request: its cells *)

\* What segments are to a list of data, for each detector.
WellCut(D, detector, segments, raws) ==
  /\ segments \in Proper(D)
  /\ Door!FlattenSeq(segments) = raws
  /\ detector # "llm_sbd" => \A i \in 1..Len(segments) : Within(segments[i])
  /\ detector = "rule_sbd" =>
       /\ \A i \in 1..(Len(segments) - 1) : ~ Within(Append(segments[i], segments[i + 1][1]))
       /\ segments = Door!Streamed(Door!RuleDetect, raws)
  /\ detector = "hybrid_sbd" =>
       \A i \in 1..Len(segments) : Len(Door!Streamed(Door!HybridDetect, segments[i])) = 1
  /\ detector = "llm_sbd" => Door!EndsWhereCut(raws)

\* Segments are not empty.
LEMMA ProperSegments ==
  ASSUME NEW D, NEW c \in Proper(D)
  PROVE  /\ c \in Seq(Seq(D)) /\ Len(c) \in Nat /\ DOMAIN c = 1..Len(c)
         /\ \A i \in 1..Len(c) : c[i] \in Seq(D) /\ c[i] # <<>>
<1> DEFINE E == Seq(D) \ {<<>>}
<1>1. c \in Seq(E)
  BY DEF Proper
<1>2. Len(c) \in Nat /\ DOMAIN c = 1..Len(c) /\ \A i \in 1..Len(c) : c[i] \in E
  <2> HIDE DEF E
  <2> QED BY <1>1
<1> QED BY <1>1, <1>2

\* Whatever detector is configured, its segments are the data, cut well.
LEMMA SegmentCutsWell ==
  ASSUME NEW D, Dated(D), NEW raws \in Seq(D), NEW bound,
         NEW detector \in {"rule_sbd", "hybrid_sbd", "llm_sbd", "noop_sbd"},
         NEW c \in Door!Segment(detector, bound, raws), c # Door!Raised
  PROVE  WellCut(D, detector, c, raws)
<1> DEFINE rule == Door!DetectBoundaries(raws)
<1>1. Cut(D, rule, raws) /\ rule = Door!Streamed(Door!RuleDetect, raws)
  BY RulesCut
<1> HIDE DEF rule
<1>2. CASE detector = "rule_sbd"
  <2>1. c = rule
    BY <1>2 DEF Door!Segment, rule
  <2> QED BY <1>1, <1>2, <2>1 DEF Cut, WellCut
<1>3. CASE detector = "hybrid_sbd"
  <2>1. c \in Door!HybridSegments(raws, bound)
    BY <1>3 DEF Door!Segment
  <2>2. c \in Refinements(rule, bound)[Len(rule)]
    BY <2>1, HybridEnds DEF rule
  <2>3. /\ c \in Proper(D) /\ Door!FlattenSeq(c) = raws
        /\ \A i \in 1..Len(c) : Within(c[i])
    <3>1. rule \in Proper(D) /\ \A i \in 1..Len(rule) : Within(rule[i])
      BY <1>1 DEF Cut
    <3>2. /\ c \in Proper(D) /\ Door!FlattenSeq(c) = Door!FlattenSeq(rule)
          /\ \A i \in 1..Len(c) : Within(c[i])
      BY <2>2, <3>1, HybridCuts
    <3> QED BY <1>1, <3>2 DEF Cut
  <2>4. ASSUME NEW i \in 1..Len(c) PROVE Len(Door!Streamed(Door!HybridDetect, c[i])) = 1
    <3>1. c[i] \in Seq(D) /\ c[i] # <<>> /\ Within(c[i])
      BY <2>3, ProperSegments
    <3> QED BY <3>1, WindowStays
  <2> QED BY <1>3, <2>3, <2>4 DEF WellCut
<1>4. CASE detector = "llm_sbd"
  <2>1. c \in Door!LLMSegments(raws, bound)
    BY <1>4 DEF Door!Segment
  <2>2. c \in Proper(D) /\ Door!FlattenSeq(c) = raws
    BY <2>1, ModelCuts
  <2> QED BY <1>4, <2>2, ModelEnds DEF WellCut
<1>5. CASE detector = "noop_sbd"
  BY <1>5 DEF Door!Segment
<1> QED BY <1>2, <1>3, <1>4, <1>5

\* The data of a body that is valid.
BodyData(body) ==
  [raw : Nat, tenant : {body.tenant}, user : {body.user}, chars : Nat, time : Int]

\* A valid turn is a line of some length.
LEMMA LineType ==
  ASSUME NEW turn \in [role : STRING, speaker : Nat \cup {None}, content : Nat \cup {None}],
         Door!ValidTurn(turn)
  PROVE  Door!Line(turn) \in Nat
<1>1. turn.role \in {"user", "assistant", "system"} /\ turn.content \in Nat
  BY DEF Door!ValidTurn, Door!Name
<1>2. Door!Name[turn.role] \in Nat
  BY <1>1 DEF Door!Name
<1>3. turn.speaker \in Nat \/ turn.speaker = None
  OBVIOUS
<1> HIDE DEF Door!Name
<1>4. (IF turn.speaker # None THEN turn.speaker ELSE Door!Name[turn.role]) \in Nat
  BY <1>2, <1>3
<1> QED BY <1>1, <1>4 DEF Door!Line

\* The larger of a number and zero.
LEMMA MoreIs ==
  ASSUME NEW n \in Nat
  PROVE  Door!Max({n - 1, 0}) \in Nat
<1> DEFINE S == {n - 1, 0}
           m == IF n >= 1 THEN n - 1 ELSE 0
<1>1. m \in S /\ \A y \in S : m >= y
  OBVIOUS
<1>2. ASSUME NEW x \in S, \A y \in S : x >= y PROVE x \in Nat
  <2>1. 0 \in S /\ x \in Int
    OBVIOUS
  <2>2. x >= 0
    BY <1>2, <2>1
  <2> QED BY <2>1, <2>2
<1> HIDE DEF S, m
<1>3. Door!Max(S) \in S /\ \A y \in S : Door!Max(S) >= y
  BY <1>1 DEF Door!Max
<1> QED BY <1>2, <1>3 DEF S

\* The sessions of a valid body are data of its tenant and user, numbered in order.
LEMMA RawDataType ==
  ASSUME NEW body, NEW at \in Nat, body.sessions \in Seq(HistorySession), Door!Validates(body)
  PROVE  /\ Dated(BodyData(body))
         /\ Door!RawData(body, at) \in Seq(BodyData(body))
         /\ Len(Door!RawData(body, at)) = Len(body.sessions)
         /\ \A i \in 1..Len(body.sessions) : Door!RawData(body, at)[i].raw = i
<1> DEFINE ss == body.sessions
           D == BodyData(body)
           k == Len(ss)
           Chars(i) == Door!JoinTurns(ss[i].turns)
           Time(i) == Door!EventTime(ss[i], at)
<1>1. DOMAIN ss = 1..k /\ k \in Nat /\ \A i \in 1..k : ss[i] \in HistorySession
  OBVIOUS
<1>2. ASSUME NEW i \in 1..k PROVE Chars(i) \in Nat
  <2> DEFINE Turn == [role : STRING, speaker : Nat \cup {None}, content : Nat \cup {None}]
             turns == ss[i].turns
             lines == [j \in DOMAIN turns |-> Door!Line(turns[j])]
  <2>1. turns \in Seq(Turn) /\ \A j \in DOMAIN turns : Door!ValidTurn(turns[j])
    BY <1>1 DEF HistorySession, Door!Validates, Door!ValidSession
  <2> HIDE DEF turns
  <2>2. ASSUME NEW j \in DOMAIN turns PROVE Door!Line(turns[j]) \in Nat
    <3>1. turns[j] \in Turn
      <4> HIDE DEF Turn
      <4> QED BY <2>1
    <3> QED BY <2>1, <3>1, LineType
  <2>3. DOMAIN turns = 1..Len(turns) /\ Len(turns) \in Nat
    <3> HIDE DEF Turn
    <3> QED BY <2>1
  <2>4. lines \in Seq(Nat)
    BY <2>2, <2>3
  <2>5. Door!Total(lines) \in Nat
    <3>1. /\ Door!Total(lines) = Sums(lines)[Len(lines)]
          /\ Sums(lines) \in [0..Len(lines) -> Nat] /\ Len(lines) \in 0..Len(lines)
      <4> HIDE DEF lines
      <4> QED BY <2>4, SumsAre
    <3> HIDE DEF lines
    <3> QED BY <3>1
  <2>6. Door!Max({Len(turns) - 1, 0}) \in Nat
    BY <2>3, MoreIs
  <2>7. Chars(i) = Door!Total(lines) + Door!Max({Len(turns) - 1, 0})
    BY DEF Door!JoinTurns, turns
  <2> HIDE DEF Chars, lines
  <2> QED BY <2>5, <2>6, <2>7
<1>3. ASSUME NEW i \in 1..k PROVE Time(i) \in Int
  <2>1. ss[i].date \in Int \cup {None} /\ ss[i].start \in Int \cup {None}
    BY <1>1 DEF HistorySession
  <2> QED BY <2>1 DEF Door!EventTime
<1> HIDE DEF Chars, Time
<1> DEFINE datum(i) == [raw |-> i, tenant |-> body.tenant, user |-> body.user,
                        chars |-> Chars(i), time |-> Time(i)]
<1>4. Door!RawData(body, at) = [i \in 1..k |-> datum(i)]
  BY <1>1 DEF Door!RawData, Door!Datum, Chars, Time
<1>5. ASSUME NEW i \in 1..k PROVE datum(i) \in D /\ datum(i).raw = i
  BY <1>1, <1>2, <1>3 DEF BodyData
<1> HIDE DEF datum, k
<1>6. Dated(D)
  BY DEF Dated, BodyData
<1> HIDE DEF D
<1>7. [i \in 1..k |-> datum(i)] \in Seq(D) /\ Len([i \in 1..k |-> datum(i)]) = k
  BY <1>1, <1>5
<1> QED BY <1>4, <1>5, <1>6, <1>7 DEF D, k

\* The process and its requests are those of a launch.
Launched ==
  \E launch \in Launches :
    settings = launch.settings /\ \A r \in Requests : request[r].input = launch.input[r]

\* The cells of a request are what the configured detector made of its body.
Made(r) ==
  cells[r] # <<>> =>
    /\ Door!Validates(request[r].input.body) /\ request[r].input.body.sessions # <<>>
    /\ \E at \in Nat :
         \E segments \in Door!Segment(settings.detector, settings.llm,
                                      Door!RawData(request[r].input.body, at)) :
           /\ segments # Door!Raised
           /\ cells[r] = [i \in DOMAIN segments |-> Door!BuildCell(segments[i])]

CellsInvariant == FrontTyped /\ now \in Nat /\ Launched /\ \A r \in Requests : Made(r)

\* There are no cells yet.
LEMMA CellsInitial ==
  Door!Init => CellsInvariant
<1> SUFFICES ASSUME Door!Init PROVE CellsInvariant
  OBVIOUS
<1>1. PICK launch \in Launches :
        /\ settings = launch.settings
        /\ request = [r \in Requests |-> [pc |-> "arrived", status |-> 0, identity |-> Door!NoIdentity,
                                          input |-> launch.input[r]]]
  BY DEF Door!Init
<1>2. cells = [r \in Requests |-> <<>>] /\ now = 0
  BY DEF Door!Init
<1>3. FrontTyped
  BY <1>1, <1>2 DEF FrontTyped, RequestFields
<1>4. \A r \in Requests : request[r].input = launch.input[r]
  BY <1>1
<1>5. Launched
  BY <1>1, <1>4 DEF Launched
<1>6. \A r \in Requests : Made(r)
  BY <1>2 DEF Made
<1> QED BY <1>2, <1>3, <1>5, <1>6 DEF CellsInvariant

\* A request moves; its input stays, and so do the cells of all others.
LEMMA CellsMove ==
  ASSUME CellsInvariant, NEW r \in Requests, NEW new,
         new = [x \in RequestFields |-> new[x]], new.input = request[r].input,
         request' = [request EXCEPT ![r] = new], settings' = settings, now' = now,
         cells' = cells \/ (Made(r)' /\ \E made : cells' = [cells EXCEPT ![r] = made])
  PROVE  CellsInvariant'
<1>1. /\ request = [q \in Requests |-> request[q]] /\ cells = [q \in Requests |-> cells[q]]
      /\ \A q \in Requests : request[q] = [x \in RequestFields |-> request[q][x]]
  BY DEF CellsInvariant, FrontTyped
<1>2. request'[r] = new /\ \A q \in Requests : q # r => request'[q] = request[q]
  BY <1>1
<1>3. \A q \in Requests : q # r => cells'[q] = cells[q]
  BY <1>1
<1>4. \A q \in Requests : request'[q].input = request[q].input
  BY <1>2
<1>5. FrontTyped'
  <2>1. request' = [q \in Requests |-> request'[q]] /\ cells' = [q \in Requests |-> cells'[q]]
    BY <1>1
  <2>2. ASSUME NEW q \in Requests PROVE request'[q] = [x \in RequestFields |-> request'[q][x]]
    BY <1>1, <1>2
  <2> QED BY <2>1, <2>2 DEF FrontTyped
<1>6. Launched'
  BY <1>4 DEF CellsInvariant, Launched
<1>7. ASSUME NEW q \in Requests PROVE Made(q)'
  <2>1. CASE cells'[q] = cells[q]
    <3>1. /\ Made(q) /\ request'[q].input = request[q].input /\ cells'[q] = cells[q]
          /\ settings' = settings
      BY <1>4, <2>1 DEF CellsInvariant
    <3> QED BY ONLY <3>1 DEF Made
  <2>2. CASE cells'[q] # cells[q]
    <3>1. q = r /\ Made(r)'
      BY <1>3, <2>2
    <3> QED BY <3>1
  <2> QED BY <2>1, <2>2
<1> QED BY <1>5, <1>6, <1>7 DEF CellsInvariant

\* Every step of a request.
LEMMA CellsStep ==
  CellsInvariant /\ [ClientNext]_<<part, vars, front, search>> => CellsInvariant'
<1> SUFFICES ASSUME CellsInvariant, [ClientNext]_<<part, vars, front, search>> PROVE CellsInvariant'
  OBVIOUS
<1>1. ASSUME NEW r \in Requests
      PROVE  /\ request[r] = [x \in RequestFields |-> request[r][x]]
             /\ request = [q \in Requests |-> request[q]]
  BY DEF CellsInvariant, FrontTyped
<1>2. ASSUME NEW r \in Requests, NEW place, Door!Pass(r, place), settings' = settings,
             now' = now, cells' = cells
      PROVE  CellsInvariant'
  <2> DEFINE new == [request[r] EXCEPT !.pc = place]
  <2>1. new = [x \in RequestFields |-> new[x]] /\ new.input = request[r].input
    BY ONLY <1>1 DEF RequestFields
  <2>2. request' = [request EXCEPT ![r] = new]
    BY <1>1, <1>2 DEF Door!Pass
  <2> HIDE DEF new
  <2> QED BY <1>2, <2>1, <2>2, CellsMove
<1>3. ASSUME NEW r \in Requests, NEW status, Door!Answer(r, status), settings' = settings,
             now' = now, cells' = cells \/ (Made(r)' /\ \E made : cells' = [cells EXCEPT ![r] = made])
      PROVE  CellsInvariant'
  <2> DEFINE new == [request[r] EXCEPT !.pc = "answered", !.status = status]
  <2>1. new = [x \in RequestFields |-> new[x]] /\ new.input = request[r].input
    BY ONLY <1>1 DEF RequestFields
  <2>2. request' = [request EXCEPT ![r] = new]
    BY <1>1, <1>3 DEF Door!Answer
  <2> HIDE DEF new
  <2> QED BY <1>3, <2>1, <2>2, CellsMove
<1>4. ASSUME NEW r \in Requests, Door!Authenticate(r) PROVE CellsInvariant'
  <2> DEFINE input == request[r].input
  <2>1. settings' = settings /\ now' = now /\ cells' = cells
    BY <1>4 DEF Door!Authenticate
  <2>2. CASE Door!CheckApiKey(input.token) # 0
    <3>1. Door!Answer(r, Door!CheckApiKey(input.token))
      BY <1>4, <2>2 DEF Door!Authenticate
    <3> QED BY <1>3, <2>1, <3>1
  <2>3. CASE Door!CheckApiKey(input.token) = 0
    <3>1. PICK id : request' = [request EXCEPT ![r] = [@ EXCEPT !.pc = "limit", !.identity = id]]
      BY <1>4, <2>3 DEF Door!Authenticate
    <3> DEFINE new == [request[r] EXCEPT !.pc = "limit", !.identity = id]
    <3>2. new = [x \in RequestFields |-> new[x]] /\ new.input = request[r].input
      BY ONLY <1>1 DEF RequestFields
    <3>3. request' = [request EXCEPT ![r] = new]
      BY <1>1, <3>1
    <3> HIDE DEF new
    <3> QED BY <2>1, <3>2, <3>3, CellsMove
  <2> QED BY <2>2, <2>3
<1>5. ASSUME NEW r \in Requests, Door!LimitRate(r) \/ Door!LimiterFails(r) PROVE CellsInvariant'
  <2>1. settings' = settings /\ now' = now /\ cells' = cells
    BY <1>5 DEF Door!LimitRate, Door!LimiterFails
  <2>2. Door!Pass(r, "bind") \/ Door!Answer(r, 429)
    BY <1>5 DEF Door!LimitRate, Door!LimiterFails
  <2> QED BY <1>2, <1>3, <2>1, <2>2
<1>6. ASSUME NEW r \in Requests, Door!BindTenant(r) PROVE CellsInvariant'
  <2>1. settings' = settings /\ now' = now /\ cells' = cells
    BY <1>6 DEF Door!BindTenant
  <2>2. Door!Pass(r, "route") \/ \E status \in {400, 403, 500} : Door!Answer(r, status)
    BY <1>6 DEF Door!BindTenant
  <2> QED BY <1>2, <1>3, <2>1, <2>2
<1>7. ASSUME NEW r \in Requests, Door!Ingest(r) PROVE CellsInvariant'
  <2> DEFINE body == request[r].input.body
  <2>1. settings' = settings /\ now' = now
    BY <1>7 DEF Door!Ingest
  <2>2. CASE cells' = cells /\ \E status : Door!Answer(r, status)
    BY <1>3, <2>1, <2>2
  <2>3. CASE ~ (cells' = cells /\ \E status : Door!Answer(r, status))
    <3>1. Door!Validates(body) /\ body.sessions # <<>>
      BY <1>7, <2>3 DEF Door!Ingest
    <3>2. PICK segments \in Door!Segment(settings.detector, settings.llm, Door!RawData(body, now)) :
            IF segments = Door!Raised THEN Door!Answer(r, 500) /\ UNCHANGED cells
            ELSE /\ Door!Answer(r, 200)
                 /\ cells' = [cells EXCEPT ![r] = [i \in DOMAIN segments |-> Door!BuildCell(segments[i])]]
      BY <1>7, <3>1 DEF Door!Ingest
    <3> DEFINE made == [i \in DOMAIN segments |-> Door!BuildCell(segments[i])]
    <3>3. segments # Door!Raised /\ Door!Answer(r, 200) /\ cells' = [cells EXCEPT ![r] = made]
      BY <2>3, <3>2
    <3>4. request'[r].input = request[r].input
      BY <1>1, <3>3 DEF Door!Answer, RequestFields
    <3>5. cells'[r] = made
      BY <3>3 DEF CellsInvariant, FrontTyped
    <3>6. now \in Nat
      BY DEF CellsInvariant
    <3>7. Made(r)'
      BY <2>1, <3>1, <3>2, <3>3, <3>4, <3>5, <3>6 DEF Made
    <3>8. \E some : cells' = [cells EXCEPT ![r] = some]
      BY <3>3
    <3> QED BY <1>3, <2>1, <3>3, <3>7, <3>8
  <2> QED BY <2>2, <2>3
<1>8. CASE Door!Tick \/ UNCHANGED front
  <2>1. request' = request /\ settings' = settings /\ cells' = cells /\ now' \in Nat
    BY <1>8 DEF Door!Tick, front, CellsInvariant
  <2>2. FrontTyped' /\ Launched'
    BY <2>1 DEF CellsInvariant, FrontTyped, Launched
  <2>3. ASSUME NEW q \in Requests PROVE Made(q)'
    <3>1. Made(q)
      BY DEF CellsInvariant
    <3> QED BY <2>1, <3>1 DEF Made
  <2> QED BY <2>1, <2>2, <2>3 DEF CellsInvariant
<1>9. CASE Door!Next
  BY <1>4, <1>5, <1>6, <1>7, <1>8, <1>9 DEF Door!Next
<1> QED BY <1>8, <1>9 DEF ClientNext

\* The cells of a request are its segments.
LEMMA SegmentsAre ==
  ASSUME NEW r \in Requests, NEW D, NEW c \in Proper(D),
         cells[r] = [i \in DOMAIN c |-> Door!BuildCell(c[i])]
  PROVE  /\ Door!Segments(r) = c /\ DOMAIN cells[r] = 1..Len(c)
         /\ \A i \in 1..Len(c) : cells[r][i] = Door!BuildCell(c[i]) /\ cells[r][i].raw_data = c[i]
<1>1. c \in Seq(Seq(D)) /\ Len(c) \in Nat /\ DOMAIN c = 1..Len(c)
  BY ProperSegments
<1>2. DOMAIN cells[r] = 1..Len(c) /\ \A i \in 1..Len(c) : cells[r][i] = Door!BuildCell(c[i])
  BY <1>1
<1>3. \A i \in 1..Len(c) : cells[r][i].raw_data = c[i]
  BY <1>2 DEF Door!BuildCell
<1>4. Door!Segments(r) = [i \in 1..Len(c) |-> c[i]]
  BY <1>2, <1>3 DEF Door!Segments
<1>5. c = [i \in 1..Len(c) |-> c[i]]
  <2> DEFINE E == Seq(D)
  <2>1. c \in Seq(E)
    BY <1>1
  <2> HIDE DEF E
  <2> QED BY <1>1, <2>1
<1> QED BY <1>2, <1>3, <1>4, <1>5

\* The cells of a request that has some are well cut.
LEMMA CellsAreCut ==
  ASSUME CellsInvariant, NEW r \in Requests, cells[r] # <<>>
  PROVE  LET body == request[r].input.body
             D == BodyData(body)
         IN \E raws \in Seq(D) :
              /\ Dated(D) /\ raws # <<>> /\ Len(raws) = Len(body.sessions)
              /\ body.sessions \in Seq(HistorySession)
              /\ \A i \in 1..Len(raws) : raws[i].raw = i
              /\ WellCut(D, settings.detector, Door!Segments(r), raws)
              /\ DOMAIN cells[r] = 1..Len(Door!Segments(r))
              /\ \A i \in 1..Len(Door!Segments(r)) :
                   /\ cells[r][i].raw_data = Door!Segments(r)[i]
                   /\ cells[r][i].tenant = body.tenant /\ cells[r][i].user = body.user
<1> DEFINE body == request[r].input.body
           D == BodyData(body)
<1>1. Made(r) /\ Launched
  BY DEF CellsInvariant
<1>2. Door!Validates(body) /\ body.sessions # <<>>
  BY <1>1 DEF Made
<1>3. PICK at \in Nat : \E segments \in Door!Segment(settings.detector, settings.llm, Door!RawData(body, at)) :
        /\ segments # Door!Raised
        /\ cells[r] = [i \in DOMAIN segments |-> Door!BuildCell(segments[i])]
  BY <1>1 DEF Made
<1> DEFINE raws == Door!RawData(body, at)
<1>4. PICK c \in Door!Segment(settings.detector, settings.llm, raws) :
        c # Door!Raised /\ cells[r] = [i \in DOMAIN c |-> Door!BuildCell(c[i])]
  BY <1>3
<1>5. /\ settings.detector \in {"rule_sbd", "hybrid_sbd", "llm_sbd", "noop_sbd"}
      /\ body.sessions \in Seq(HistorySession)
  BY <1>1, IngestAssumption DEF Launched
<1>6. Dated(D) /\ raws \in Seq(D) /\ Len(raws) = Len(body.sessions)
      /\ \A i \in 1..Len(raws) : raws[i].raw = i
  <2> HIDE DEF body
  <2> QED BY <1>2, <1>5, RawDataType
<1>7. raws # <<>>
  <2> DEFINE ss == body.sessions
             E == HistorySession
  <2>1. ss \in Seq(E) /\ ss # <<>> /\ Len(raws) = Len(ss)
    BY <1>2, <1>5, <1>6
  <2> HIDE DEF ss, E, raws
  <2>2. Len(ss) # 0
    BY <2>1
  <2> QED BY <2>1, <2>2
<1> HIDE DEF raws
<1>8. WellCut(D, settings.detector, c, raws)
  <2> DEFINE detector == settings.detector
             bound == settings.llm
  <2>1. /\ Dated(D) /\ raws \in Seq(D) /\ detector \in {"rule_sbd", "hybrid_sbd", "llm_sbd", "noop_sbd"}
        /\ c \in Door!Segment(detector, bound, raws) /\ c # Door!Raised
    BY <1>4, <1>5, <1>6
  <2> HIDE DEF detector, bound, D
  <2>2. WellCut(D, detector, c, raws)
    BY ONLY <2>1, SegmentCutsWell
  <2> QED BY <2>2 DEF detector
<1>9. c \in Proper(D)
  BY <1>8 DEF WellCut
<1>10. /\ Door!Segments(r) = c /\ DOMAIN cells[r] = 1..Len(c)
       /\ \A i \in 1..Len(c) : cells[r][i] = Door!BuildCell(c[i]) /\ cells[r][i].raw_data = c[i]
  <2> HIDE DEF D
  <2> QED BY <1>4, <1>9, SegmentsAre
<1>11. ASSUME NEW i \in 1..Len(c)
       PROVE  cells[r][i].tenant = body.tenant /\ cells[r][i].user = body.user
  <2>1. c[i] \in Seq(D) /\ c[i] # <<>>
    BY <1>9, ProperSegments
  <2>2. c[i][1] \in D
    <3> HIDE DEF D
    <3> QED BY <2>1
  <2>3. c[i][1].tenant = body.tenant /\ c[i][1].user = body.user
    BY <2>2 DEF BodyData
  <2>4. cells[r][i] = Door!BuildCell(c[i])
    BY <1>10
  <2>5. cells[r][i].tenant = c[i][1].tenant /\ cells[r][i].user = c[i][1].user
    BY ONLY <2>4 DEF Door!BuildCell
  <2> QED BY ONLY <2>3, <2>5
<1> QED BY <1>5, <1>6, <1>7, <1>8, <1>10, <1>11

\* The data of well cut segments, and their windows.
LEMMA WellCutWindows ==
  ASSUME NEW D, Dated(D), NEW detector, NEW c, NEW raws \in Seq(D), WellCut(D, detector, c, raws)
  PROVE  /\ detector # "llm_sbd" => \A i \in 1..Len(c) : Door!WithinWindow(c[i])
         /\ detector = "rule_sbd" => Door!CutForCause(c)
<1>1. c \in Proper(D)
  BY DEF WellCut
<1>2. \A i \in 1..Len(c) : c[i] \in Seq(D) /\ c[i] # <<>>
  BY <1>1, ProperSegments
<1>3. ASSUME detector # "llm_sbd", NEW i \in 1..Len(c) PROVE Door!WithinWindow(c[i])
  BY <1>2, <1>3, WithinIs DEF WellCut
<1>4. ASSUME detector = "rule_sbd", NEW i \in 1..(Len(c) - 1)
      PROVE  ~ Door!WithinWindow(Append(c[i], c[i + 1][1]))
  <2>1. i \in 1..Len(c) /\ i + 1 \in 1..Len(c)
    BY <1>1, ProperSegments
  <2>2. c[i] \in Seq(D) /\ c[i + 1] \in Seq(D) /\ c[i + 1] # <<>>
    BY <1>2, <2>1
  <2>3. c[i + 1][1] \in D
    BY <2>2
  <2>4. Append(c[i], c[i + 1][1]) \in Seq(D)
    BY <2>2, <2>3
  <2>5. ~ Within(Append(c[i], c[i + 1][1]))
    BY <1>4 DEF WellCut
  <2> QED BY <2>4, <2>5, WithinIs
<1> QED BY <1>3, <1>4 DEF Door!CutForCause

\* The invariant is what the property asks of every request.
LEMMA CellsInvariantGives ==
  CellsInvariant => CellsPartition
<1> SUFFICES ASSUME CellsInvariant PROVE CellsPartition
  OBVIOUS
<1>1. ASSUME NEW r \in Requests, cells[r] # <<>>
      PROVE  LET all == Door!FlattenSeq(Door!Segments(r)) IN
             /\ all # <<>>
             /\ [i \in DOMAIN all |-> all[i].raw] = [i \in DOMAIN request[r].input.body.sessions |-> i]
             /\ \A i \in DOMAIN cells[r] :
                  /\ cells[r][i].raw_data # <<>>
                  /\ cells[r][i].tenant = request[r].input.body.tenant
                  /\ cells[r][i].user = request[r].input.body.user
  <2> DEFINE body == request[r].input.body
             D == BodyData(body)
             c == Door!Segments(r)
             ss == body.sessions
             E == HistorySession
  <2>1. PICK raws \in Seq(D) :
          /\ raws # <<>> /\ Len(raws) = Len(ss) /\ ss \in Seq(E)
          /\ \A i \in 1..Len(raws) : raws[i].raw = i
          /\ WellCut(D, settings.detector, c, raws)
          /\ DOMAIN cells[r] = 1..Len(c)
          /\ \A i \in 1..Len(c) : /\ cells[r][i].raw_data = c[i]
                                 /\ cells[r][i].tenant = body.tenant /\ cells[r][i].user = body.user
    BY <1>1, CellsAreCut
  <2> HIDE DEF c, D, E, ss
  <2>2. Door!FlattenSeq(c) = raws /\ c \in Proper(D)
    BY <2>1 DEF WellCut
  <2>3. [i \in DOMAIN raws |-> raws[i].raw] = [i \in DOMAIN ss |-> i]
    <3>1. DOMAIN raws = 1..Len(raws) /\ DOMAIN ss = 1..Len(raws)
      BY <2>1
    <3> QED BY <2>1, <3>1
  <2>4. \A i \in 1..Len(c) : c[i] # <<>>
    BY <2>2, ProperSegments
  <2>5. \A i \in DOMAIN cells[r] : /\ cells[r][i].raw_data # <<>>
                                /\ cells[r][i].tenant = body.tenant /\ cells[r][i].user = body.user
    BY <2>1, <2>4
  <2> QED BY <2>1, <2>2, <2>3, <2>5 DEF c, ss
<1>2. ASSUME NEW r \in Requests
      PROVE  LET all == Door!FlattenSeq(Door!Segments(r)) IN
             /\ settings.detector # "llm_sbd" =>
                  \A i \in DOMAIN cells[r] : Door!WithinWindow(cells[r][i].raw_data)
             /\ settings.detector = "rule_sbd" =>
                  /\ Door!CutForCause(Door!Segments(r))
                  /\ Door!Segments(r) = Door!Streamed(Door!RuleDetect, all)
             /\ settings.detector = "hybrid_sbd" =>
                  \A i \in DOMAIN cells[r] :
                    Len(Door!Streamed(Door!HybridDetect, cells[r][i].raw_data)) = 1
             /\ settings.detector = "llm_sbd" => Door!EndsWhereCut(all)
  <2> DEFINE c == Door!Segments(r)
             D == BodyData(request[r].input.body)
  <2>1. CASE cells[r] # <<>>
    <3>1. PICK raws \in Seq(D) :
            /\ Dated(D)
            /\ WellCut(D, settings.detector, c, raws)
            /\ DOMAIN cells[r] = 1..Len(c)
            /\ \A i \in 1..Len(c) : cells[r][i].raw_data = c[i]
      BY <2>1, CellsAreCut
    <3> HIDE DEF c, D
    <3>2. Door!FlattenSeq(c) = raws
      BY <3>1 DEF WellCut
    <3>3. /\ settings.detector # "llm_sbd" => \A i \in 1..Len(c) : Door!WithinWindow(c[i])
          /\ settings.detector = "rule_sbd" => Door!CutForCause(c)
      <4> DEFINE detector == settings.detector
      <4>1. Dated(D) /\ WellCut(D, detector, c, raws)
        BY <3>1
      <4> HIDE DEF detector
      <4>2. /\ detector # "llm_sbd" => \A i \in 1..Len(c) : Door!WithinWindow(c[i])
            /\ detector = "rule_sbd" => Door!CutForCause(c)
        BY <4>1, WellCutWindows
      <4> QED BY <4>2 DEF detector
    <3>4. settings.detector = "rule_sbd" => c = Door!Streamed(Door!RuleDetect, raws)
      BY <3>1 DEF WellCut
    <3>5. settings.detector = "hybrid_sbd" =>
            \A i \in 1..Len(c) : Len(Door!Streamed(Door!HybridDetect, c[i])) = 1
      BY <3>1 DEF WellCut
    <3>6. settings.detector = "llm_sbd" => Door!EndsWhereCut(raws)
      BY <3>1 DEF WellCut
    <3> QED BY <3>1, <3>2, <3>3, <3>4, <3>5, <3>6 DEF c
  <2>2. CASE cells[r] = <<>>
    <3>1. c = <<>> /\ DOMAIN cells[r] = {}
      BY <2>2 DEF Door!Segments
    <3>2. Door!FlattenSeq(c) = <<>> /\ Len(c) = 0
      BY <3>1, FlattenEmpty
    <3>3. Door!CutForCause(c)
      BY <3>2 DEF Door!CutForCause
    <3>4. Door!Streamed(Door!RuleDetect, <<>>) = <<>>
      <4>1. <<>> \in Seq({}) /\ Len(<<>>) = 0 /\ 0 \in 0..0
        OBVIOUS
      <4>2. Streams(<<>>)[0] = <<>>
        BY <4>1, DetectedAre
      <4> QED BY <4>1, <4>2, StreamsEnd
    <3>5. Door!EndsWhereCut(<<>>)
      BY DEF Door!EndsWhereCut
    <3> HIDE DEF c
    <3> QED BY <3>1, <3>2, <3>3, <3>4, <3>5 DEF c
  <2> QED BY <2>1, <2>2
<1>3. Door!CellsInWindow
  BY <1>2 DEF Door!CellsInWindow
<1> QED BY <1>1, <1>3 DEF CellsPartition, Door!CellsPartition

\* IngestFront: whatever the detector and whatever the model answers, the cells of a
\* request hold every session of it once and in order, none is empty, all belong to
\* the tenant and user of the body, boundaries are where the rules put them, and a
\* caller of detect() finds the same ones (format_transfer.py, sbd.py and the
\* plugins rule_sbd, hybrid_sbd, llm_sbd).
THEOREM CellsPartitionHolds == ClientSpec => []CellsPartition
<1>1. ClientInit => CellsInvariant
  BY CellsInitial DEF ClientInit
<1>2. CellsInvariant /\ [ClientNext]_<<part, vars, front, search>> => CellsInvariant'
  BY CellsStep
<1>3. CellsInvariant => CellsPartition
  BY CellsInvariantGives
<1> QED BY <1>1, <1>2, <1>3, PTL DEF ClientSpec
=============================================================================
