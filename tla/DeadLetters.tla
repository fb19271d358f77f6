------------------------------ MODULE DeadLetters ------------------------------
(***************************************************************************)
(* The dead letter queue a deployment chooses with settings.dlq_backend:   *)
(* in memory or in MongoDB (MemorySync) or on Redis (RedisDLQ).  One of    *)
(* the two runs, the other stands still.                                   *)
(***************************************************************************)
EXTENDS MemorySync

CONSTANTS
  FailedCells, Replicas, Admins, Launches, RedisSize, Limit, MaxEvents  \* of RedisDLQ

VARIABLES
  backend,  \* "memory" or "redis"
  launch, items, indexed, enqueued, at, listed, hand, lock, outlived, robbed, overlap,
  gone, rounds, events

redis == <<launch, items, indexed, enqueued, at, listed, hand, lock, outlived, robbed,
           overlap, gone, rounds, events>>

R == INSTANCE RedisDLQ WITH
       es <- indexed, batch <- listed, lost <- gone,
       MaxSize <- RedisSize, Retries <- MaxRetries

\* Clients have names of their own, and a launch is of those there are.
ASSUME ReplicaAssumption ==
  /\ R!Nobody \notin Replicas \cup Admins /\ Replicas \cap Admins = {}
  /\ Launches \subseteq [cells : SUBSET FailedCells, reconcilers : SUBSET (Replicas \cup Admins),
                        official : BOOLEAN, rounds : Nat]
ASSUME SizeAssumption == RedisSize \in Nat \ {0} /\ Limit \in Nat \ {0} /\ MaxEvents \in Nat

QueueInit == Init /\ R!Init /\ backend \in {"memory", "redis"}

QueueNext ==
  \/ backend = "memory" /\ Next /\ UNCHANGED <<backend, redis>>
  \/ backend = "redis" /\ R!Next /\ UNCHANGED <<backend, vars>>

QueueSpec == QueueInit /\ [][QueueNext]_<<backend, redis, vars>>

\* RedisDLQ: a failed cell keeps its record.
RecordKept == R!RecordKept
\* RedisDLQ: one record for a cell, or reconciles ran at once.
TwinsHaveCause == R!TwinsHaveCause
=============================================================================
