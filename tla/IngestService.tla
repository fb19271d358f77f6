--------------------------- MODULE IngestService ---------------------------
(***************************************************************************)
(* IngestService.ingest (services.py) under one idempotency key: a client  *)
(* posts the same payload in several attempts, which may overlap and may   *)
(* reach different replicas.  An attempt claims the key, runs the ingest   *)
(* pipeline, stores its result under the key, and releases the key when    *)
(* anything raised.  Every attempt builds cells of its own (fresh UUIDs),  *)
(* so the cells an attempt stored are named by the attempt.                *)
(***************************************************************************)
EXTENDS Integers, FiniteSets

CONSTANTS
  Attempts,  \* POSTs carrying the key
  Store,     \* "redis", or "memory" when no Redis client is configured
  MaxFaults  \* bound: errors and deaths

ASSUME StoreAssumption == Store \in {"redis", "memory"}
ASSUME BoundAssumption == MaxFaults \in Nat

VARIABLES
  claim,    \* the value under the key, or Free
  stored,   \* attempts whose cells are in MongoDB
  pc,       \* where each attempt is
  result,   \* result[a]: what its pipeline stored
  answer,   \* the ids each answered client was given
  faults

vars == <<claim, stored, pc, result, answer, faults>>

Free == [status |-> "free"]
Processing == [status |-> "processing", ids |-> {}]
Done(ids) == [status |-> "done", ids |-> ids]

Init ==
  /\ claim = Free /\ stored = {} /\ faults = 0
  /\ pc = [a \in Attempts |-> "new"]
  /\ result = [a \in Attempts |-> {}]
  /\ answer = [a \in Attempts |-> {}]

Fault == faults < MaxFaults /\ faults' = faults + 1

Goto(a, label) == pc' = [pc EXCEPT ![a] = label]

Respond(a, ids) == Goto(a, "answered") /\ answer' = [answer EXCEPT ![a] = ids]

-----------------------------------------------------------------------------
\* Mutant: SET without NX.
ClaimOverwrites(a) ==
  /\ pc[a] = "new"
  /\ claim' = Processing
  /\ Goto(a, "pipeline")
  /\ UNCHANGED <<stored, result, answer, faults>>

\* SET NX, or the dict lookup of InMemoryIdempotencyStore.
Claim(a) ==
  /\ pc[a] = "new"
  /\ claim = Free
  /\ claim' = Processing
  /\ Goto(a, "pipeline")
  /\ UNCHANGED <<stored, result, answer, faults>>

\* The key is taken.  InMemoryIdempotencyStore answers with its value at once,
\* RedisIdempotencyStore reads it in a second command.
Taken(a) ==
  /\ pc[a] = "new"
  /\ claim # Free
  /\ IF Store = "memory" THEN Respond(a, claim.ids)
                         ELSE Goto(a, "read") /\ UNCHANGED answer
  /\ UNCHANGED <<claim, stored, result, faults>>

\* The stored ids, or an empty list: the key is being processed, or is free again.
ReadClaim(a) ==
  /\ pc[a] = "read"
  /\ Respond(a, IF claim = Free THEN {} ELSE claim.ids)
  /\ UNCHANGED <<claim, stored, result, faults>>

\* Claiming or reading raises before the try: the client sees an error.
ClaimRaises(a) ==
  /\ pc[a] \in {"new", "read"}
  /\ Store = "redis"
  /\ Fault
  /\ claim' \in {claim, IF pc[a] = "new" /\ claim = Free THEN Processing ELSE claim}
  /\ Goto(a, "failed")
  /\ UNCHANGED <<stored, result, answer>>

\* run_to_context: the segments are stored, or there is nothing to store.
RunPipeline(a) ==
  /\ pc[a] = "pipeline"
  /\ \E cells \in {{}, {a}} :
       /\ stored' = stored \cup cells
       /\ result' = [result EXCEPT ![a] = cells]
  /\ Goto(a, "complete")
  /\ UNCHANGED <<claim, answer, faults>>

\* Segmenting or storing raises; documents may have been committed.
PipelineRaises(a) ==
  /\ pc[a] = "pipeline"
  /\ Fault
  /\ stored' \in {stored, stored \cup {a}}
  /\ Goto(a, "release")
  /\ UNCHANGED <<claim, result, answer>>

\* Mutant: the result is answered but not stored under the key.
CompleteFree(a) ==
  /\ pc[a] = "complete"
  /\ claim' = Free
  /\ Respond(a, result[a])
  /\ UNCHANGED <<stored, result, faults>>

Complete(a) ==
  /\ pc[a] = "complete"
  /\ claim' = Done(result[a])
  /\ Respond(a, result[a])
  /\ UNCHANGED <<stored, result, faults>>

\* SET raises, whether or not it was applied: the attempt counts as failed.
CompleteRaises(a) ==
  /\ pc[a] = "complete"
  /\ Store = "redis"
  /\ Fault
  /\ claim' \in {claim, Done(result[a])}
  /\ Goto(a, "release")
  /\ UNCHANGED <<stored, result, answer>>

Release(a) ==
  /\ pc[a] = "release"
  /\ claim' = Free
  /\ Goto(a, "failed")
  /\ UNCHANGED <<stored, result, answer, faults>>

\* DEL raises and is only logged.
ReleaseRaises(a) ==
  /\ pc[a] = "release"
  /\ Store = "redis"
  /\ Fault
  /\ claim' \in {claim, Free}
  /\ Goto(a, "failed")
  /\ UNCHANGED <<stored, result, answer>>

Running == {a \in Attempts : pc[a] \in {"pipeline", "complete", "release"}}
Reading == {a \in Attempts : pc[a] = "read"}

\* A replica dies, or its attempts are cancelled: CancelledError is not an
\* Exception, so nothing releases the key.  The in-memory store dies as well.
Crash(dead) ==
  /\ dead # {}
  /\ Store = "memory" => dead = Running
  /\ Fault
  /\ pc' = [a \in Attempts |-> IF a \in dead THEN "failed" ELSE pc[a]]
  /\ claim' = IF Store = "memory" THEN Free ELSE claim
  /\ UNCHANGED <<stored, result, answer>>

\* Mutant: a key without a time to live.
ExpireNever ==
  /\ claim.status = "done" /\ Running # {}
  /\ claim' = Free
  /\ UNCHANGED <<stored, pc, result, answer, faults>>

\* A claim nobody works on times out.  A day is longer than any pipeline, and
\* the client stops retrying before the result of a success times out.
Expire ==
  /\ claim.status = "processing" /\ Running = {}
  /\ claim' = Free
  /\ UNCHANGED <<stored, pc, result, answer, faults>>

-----------------------------------------------------------------------------
Step(a) ==
  \/ Claim(a) \/ Taken(a) \/ ReadClaim(a) \/ ClaimRaises(a)
  \/ RunPipeline(a) \/ PipelineRaises(a)
  \/ Complete(a) \/ CompleteRaises(a) \/ Release(a) \/ ReleaseRaises(a)

Next == \/ \E a \in Attempts : Step(a)
        \/ \E dead \in SUBSET (Running \cup Reading) : Crash(dead)
        \/ Expire

Spec == Init /\ [][Next]_vars

\* The event loop resumes an attempt that has started, and keys do expire.
Fairness == /\ \A a \in Attempts : WF_vars(pc[a] # "new" /\ Step(a))
            /\ WF_vars(Expire)

FairSpec == Spec /\ Fairness

-----------------------------------------------------------------------------
(* Properties *)

\* Every variable has its type.
TypeOK ==
  /\ claim \in {Free, Processing} \cup {Done(ids) : ids \in SUBSET Attempts}
  /\ stored \subseteq Attempts /\ faults \in Nat
  /\ pc \in [Attempts -> {"new", "read", "pipeline", "complete", "release",
                          "answered", "failed"}]
  /\ result \in [Attempts -> SUBSET Attempts]
  /\ answer \in [Attempts -> SUBSET Attempts]

\* complete and release do not check who holds the key; they touch no claim of
\* another attempt because at most one attempt is between claim and release.
OneWriter ==
  /\ \A a, b \in Running : a = b
  /\ Running # {} => claim # Free

\* Every id a client was given is that of a stored cell, also when the attempt
\* that stored it was itself reported as failed.
AnswersStored == UNION {answer[a] : a \in Attempts} \subseteq stored

\* A result stays under the key, so that later attempts get the same ids, unless
\* the attempt it belongs to saw its own completion raise and takes it back.
ResultSticks ==
  [][claim.status = "done" =>
       \/ claim' = claim
       \/ \E a \in Running : pc[a] = "release" /\ claim.ids = result[a]]_vars

\* A payload is stored twice only if an error or a death came in between: every
\* fault costs at most one duplicate.
DuplicatesAreFaults == Cardinality(stored) <= 1 + faults

\* The key never stays taken by nobody: it ends free or with a result.
KeySettles == claim.status = "processing" ~> claim.status # "processing"

=============================================================================
