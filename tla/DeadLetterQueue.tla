--------------------------- MODULE DeadLetterQueue ---------------------------
(***************************************************************************)
(* The dead letter queue (repositories/dlq.py, repositories/mongo_dlq.py)  *)
(* as operators on a set of records.  Every operation here is one atomic   *)
(* call: InMemoryDLQ holds its asyncio.Lock, MongoDLQ issues one command.  *)
(* The queue on Redis takes several commands per call: see RedisDLQ.       *)
(*                                                                         *)
(* A record is stamped with a tick `at' of a logical clock: timestamps     *)
(* only matter through the order that `list' returns.                      *)
(***************************************************************************)
EXTENDS Integers, FiniteSets

CONSTANTS
  Cells,     \* the MemCells that requests may create
  Backend,   \* settings.dlq_backend: "memory" or "mongo"
  Capacity   \* maxlen of the in-memory deque; MongoDLQ ignores it

ASSUME BackendAssumption == Backend \in {"memory", "mongo"}
ASSUME CapacityAssumption == Capacity \in Nat \ {0}

Targets == {"es", "cold_path"}

Record == [target : Targets, cell : Cells, retry : Nat, at : Nat]

SameKey(r, s) == r.target = s.target /\ r.cell = s.cell

(***************************************************************************)
(* The order `list' returns.  InMemoryDLQ reverses the deque.  MongoDLQ    *)
(* sorts by `timestamp' descending, but `enqueue' stores that field as an  *)
(* ISO string (model_dump(mode="json")) while `bump_retry' overwrites it   *)
(* with a datetime: BSON sorts every date above every string, so records   *)
(* that were bumped once come first whatever their age.  Only "es" records *)
(* are ever bumped, and they start at retry 0.                             *)
(***************************************************************************)
Bumped(r) == Backend = "mongo" /\ r.target = "es" /\ r.retry > 0

Newer(r, s) ==
  \/ Bumped(r) /\ ~Bumped(s)
  \/ (Bumped(r) <=> Bumped(s)) /\ r.at > s.at

\* list(target, limit): the first `limit' records of the matching targets.
Newest(q, targets, limit) ==
  LET match == {r \in q : r.target \in targets}
  IN  {r \in match : Cardinality({s \in match : Newer(s, r)}) < limit}

\* The record a full deque drops to admit one more.
Overflow(q) ==
  IF Backend = "memory" /\ Cardinality(q) >= Capacity
  THEN {r \in q : \A s \in q : r.at <= s.at}
  ELSE {}

\* The cells that some record of q is to bring back into Elasticsearch.
EsCells(q) == {r.cell : r \in {r \in q : r.target = "es"}}

Entry(target, cell, retry, now) ==
  [target |-> target, cell |-> cell, retry |-> retry, at |-> now]

Enqueue(q, entry) == (q \ Overflow(q)) \cup {entry}

\* InMemoryDLQ filters out every record of the key and MongoDLQ deletes one:
\* the same thing while there is one (MemorySync!OneRecordPerFailure).
Remove(q, r) == {s \in q : ~SameKey(s, r)}

\* Mutants: a bump inserts a second record; a bump is not stored.
BumpInserts(q, r, now) == q \cup {Entry(r.target, r.cell, r.retry + 1, now)}
BumpIgnored(q, r, now) == q

\* bump_retry rewrites the record of the key, if it is still there; MongoDLQ
\* also renews its timestamp.
Bump(q, r, now) ==
  {IF SameKey(s, r)
   THEN Entry(s.target, s.cell, s.retry + 1, IF Backend = "mongo" THEN now ELSE s.at)
   ELSE s : s \in q}
=============================================================================
