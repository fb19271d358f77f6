----------------------------- MODULE MemorySync -----------------------------
(***************************************************************************)
(* Keeping the search index in step with the source of truth.              *)
(*                                                                         *)
(* An ingest request commits MemCells to MongoDB (pipelines/ingest.py,     *)
(* PersistMemCellStage), then bulk-indexes them in Elasticsearch           *)
(* (SyncIndexStage); a cell whose indexing failed gets a DLQ record, which *)
(* SyncReconciler retries from MongoDB.  Requests, the automatic reconcile *)
(* loop and admin-triggered reconciles interleave at every await; a store  *)
(* may answer with an error after it applied the write; the process may    *)
(* crash.  MongoDB never deletes a cell: no caller of delete_by_id exists. *)
(*                                                                         *)
(* The Milvus half of SyncIndexStage returns before doing anything: a cell *)
(* built by PersistMemCellStage has no embedding.                          *)
(***************************************************************************)
EXTENDS DeadLetterQueue

CONSTANTS
  Requests,      \* ingest requests
  Batch,         \* Batch[r]: the cells request r builds from its segments
  Reconcilers,   \* concurrent SyncReconciler.reconcile calls
  AutoLoop,      \* the reconciler that api.py's _auto_reconcile_loop runs
  BatchSize,     \* BatchSize[k]: the `limit' of reconciler k
  MaxRetries,    \* settings.dlq_reconcile_max_retries
  TaskAttempts,  \* RetryPolicy.max_attempts, the retry_count of a parked task
  ParkedCells,   \* cells whose cold-path task exhausts its attempts
  MaxFaults      \* bound: crashes and store errors that lose the answer

ASSUME RequestAssumption == Batch \in [Requests -> SUBSET Cells]
ASSUME DisjointAssumption ==
  \A r, s \in Requests : r # s => Batch[r] \cap Batch[s] = {}   \* fresh UUIDs
ASSUME ReconcilerAssumption ==
  /\ AutoLoop \in Reconcilers /\ IsFiniteSet(Reconcilers)
  /\ BatchSize \in [Reconcilers -> Nat \ {0}]
ASSUME BoundAssumption ==
  MaxRetries \in Nat \ {0} /\ TaskAttempts \in Nat /\ MaxFaults \in Nat

VARIABLES
  mongo,    \* cells in MongoDB, the source of truth
  es,       \* cells with a document in Elasticsearch
  dlq,      \* the DLQ's records
  clock,    \* the next timestamp
  pc,       \* where each request is
  cells,    \* cells[r]: ctx.cells, then the cells still to be put in the DLQ
  phase,    \* what each reconciler awaits: "next" record, "index", "remove" or "bump"
  batch,    \* batch[k]: the listed records k has yet to process
  cur,      \* cur[k]: the record k is retrying
  parked,   \* cells whose cold-path task is in the DLQ
  lost,     \* cells some fault cut off from the index without a record
  faults    \* faults so far

reqVars == <<pc, cells>>
recVars == <<phase, batch, cur>>
vars == <<mongo, es, dlq, clock, pc, cells, phase, batch, cur, parked, lost, faults>>

NoRecord == [target |-> "none"]

Init ==
  /\ mongo = {} /\ es = {} /\ dlq = {} /\ clock = 1
  /\ pc = [r \in Requests |-> "new"]
  /\ cells = [r \in Requests |-> {}]
  /\ phase = [k \in Reconcilers |-> "next"]
  /\ batch = [k \in Reconcilers |-> {}]
  /\ cur = [k \in Reconcilers |-> NoRecord]
  /\ parked = {} /\ lost = {} /\ faults = 0

Fault == faults < MaxFaults /\ faults' = faults + 1

-----------------------------------------------------------------------------
(* Ingest requests *)

\* insert_many(ordered=False) reports what it wrote; only that goes on.
Persist(r) ==
  /\ pc[r] = "new"
  /\ \E written \in (SUBSET Batch[r]) \ {{}} :
       /\ mongo' = mongo \cup written
       /\ cells' = [cells EXCEPT ![r] = written]
  /\ pc' = [pc EXCEPT ![r] = "persisted"]
  /\ UNCHANGED <<es, dlq, clock, recVars, parked, lost, faults>>

\* Any other error propagates: the pipeline stops, whatever was committed.
PersistRaises(r) ==
  /\ pc[r] = "new"
  /\ Fault
  /\ \E written \in SUBSET Batch[r] :
       /\ mongo' = mongo \cup written
       /\ lost' = lost \cup written
  /\ pc' = [pc EXCEPT ![r] = "failed"]
  /\ UNCHANGED <<es, dlq, clock, cells, recVars, parked>>

\* bulk_index names the failed entries, or raises and every cell counts as
\* failed although some documents may have been written.
BulkIndex(r) ==
  /\ pc[r] = "persisted"
  /\ \E applied \in SUBSET cells[r] : \E failed \in {cells[r] \ applied, cells[r]} :
       /\ es' = es \cup applied
       /\ cells' = [cells EXCEPT ![r] = failed]
       /\ pc' = [pc EXCEPT ![r] = IF failed = {} THEN "done" ELSE "enqueue"]
  /\ UNCHANGED <<mongo, dlq, clock, recVars, parked, lost, faults>>

FailureRecorded(r, c) ==
  /\ cells' = [cells EXCEPT ![r] = @ \ {c}]
  /\ pc' = [pc EXCEPT ![r] = IF cells[r] = {c} THEN "done" ELSE @]

\* The cells whose record a full queue drops for one more.
Evicted == EsCells(Overflow(dlq))

EnqueueFailure(r) ==
  /\ pc[r] = "enqueue"
  /\ \E c \in cells[r] :
       /\ FailureRecorded(r, c)
       /\ dlq' = Enqueue(dlq, Entry("es", c, 0, clock))
  /\ clock' = clock + 1
  /\ lost' = lost \cup Evicted
  /\ UNCHANGED <<mongo, es, recVars, parked, faults>>

\* _enqueue_dlq swallows the DLQ's own error, whether or not the record was
\* written, and only logs it.
EnqueueFails(r) ==
  /\ pc[r] = "enqueue"
  /\ Backend # "memory"
  /\ Fault
  /\ \E c \in cells[r] :
       /\ FailureRecorded(r, c)
       /\ \/ dlq' = Enqueue(dlq, Entry("es", c, 0, clock)) /\ UNCHANGED lost
          \/ lost' = lost \cup {c} /\ UNCHANGED dlq
  /\ clock' = clock + 1
  /\ UNCHANGED <<mongo, es, recVars, parked>>

\* A cold-path task scheduled by a finished request exhausts its attempts and
\* is parked in the same queue (task_queue/retry.py).
ParkTask(c) ==
  /\ c \in (ParkedCells \cap mongo) \ parked
  /\ \E r \in Requests : pc[r] = "done" /\ c \in Batch[r]
  /\ dlq' = Enqueue(dlq, Entry("cold_path", c, TaskAttempts, clock))
  /\ clock' = clock + 1
  /\ parked' = parked \cup {c}
  /\ lost' = lost \cup Evicted
  /\ UNCHANGED <<mongo, es, reqVars, recVars, faults>>

-----------------------------------------------------------------------------
(* Reconcilers.  A reconcile lists records once, then takes them newest     *)
(* first with awaits in between; it is over when its batch is empty.  A     *)
(* dry run reads the same things and writes nothing: it is a stutter.       *)

Idle(k) == phase[k] = "next" /\ batch[k] = {}

\* The automatic loop lists every target, an admin call may name one.
Filters(k) == IF k = AutoLoop THEN {Targets} ELSE (SUBSET Targets) \ {{}}

Scan(k) ==
  /\ Idle(k)
  /\ \E targets \in Filters(k) :
       /\ Newest(dlq, targets, BatchSize[k]) # {}
       /\ batch' = [batch EXCEPT ![k] = Newest(dlq, targets, BatchSize[k])]
  /\ UNCHANGED <<mongo, es, dlq, clock, reqVars, phase, cur, parked, lost, faults>>

\* The record _reconcile_one is called with.
Current(k) == IF phase[k] = "next" THEN Newest(batch[k], Targets, 1) ELSE {}

\* Mutant: one retry more.
RetriableOnce(r) == r.retry <= MaxRetries /\ r.target = "es" /\ r.cell \in mongo

Retriable(r) == r.retry < MaxRetries /\ r.target = "es" /\ r.cell \in mongo

\* Exhausted, of an unsupported target, or its cell is gone: left in the DLQ.
Skip(k) ==
  /\ \E r \in Current(k) :
       /\ ~Retriable(r)
       /\ batch' = [batch EXCEPT ![k] = @ \ {r}]
  /\ UNCHANGED <<mongo, es, dlq, clock, reqVars, phase, cur, parked, lost, faults>>

\* get_by_id found the cell.
Begin(k) ==
  /\ \E r \in Current(k) :
       /\ Retriable(r)
       /\ cur' = [cur EXCEPT ![k] = r]
       /\ batch' = [batch EXCEPT ![k] = @ \ {r}]
  /\ phase' = [phase EXCEPT ![k] = "index"]
  /\ UNCHANGED <<mongo, es, dlq, clock, reqVars, parked, lost, faults>>

\* Mutant: an error of es_repo.index is taken for success.
IndexOneUnchecked(k) ==
  /\ phase[k] = "index"
  /\ es' \in {es, es \cup {cur[k].cell}}
  /\ phase' = [phase EXCEPT ![k] = "remove"]
  /\ UNCHANGED <<mongo, dlq, clock, reqVars, batch, cur, parked, lost, faults>>

\* es_repo.index may raise after the document was written.
IndexOne(k) ==
  /\ phase[k] = "index"
  /\ \E applied, answered \in BOOLEAN :
       /\ answered => applied
       /\ es' = IF applied THEN es \cup {cur[k].cell} ELSE es
       /\ phase' = [phase EXCEPT ![k] = IF answered THEN "remove" ELSE "bump"]
  /\ UNCHANGED <<mongo, dlq, clock, reqVars, batch, cur, parked, lost, faults>>

Finish(k) ==
  /\ phase' = [phase EXCEPT ![k] = "next"]
  /\ cur' = [cur EXCEPT ![k] = NoRecord]

RemoveRecord(k) ==
  /\ phase[k] = "remove"
  /\ dlq' = Remove(dlq, cur[k])
  /\ Finish(k)
  /\ UNCHANGED <<mongo, es, clock, reqVars, batch, parked, lost, faults>>

\* InMemoryDLQ lists its own objects: a bump shows in the batches that hold one.
BumpRecord(k) ==
  /\ phase[k] = "bump"
  /\ dlq' = Bump(dlq, cur[k], clock)
  /\ batch' = IF Backend = "memory" /\ \E s \in dlq : SameKey(s, cur[k])
              THEN [j \in Reconcilers |-> Bump(batch[j], cur[k], clock)]
              ELSE batch
  /\ clock' = IF Backend = "mongo" THEN clock + 1 ELSE clock
  /\ Finish(k)
  /\ UNCHANGED <<mongo, es, reqVars, parked, lost, faults>>

\* get_by_id, remove and bump_retry are outside the try: an error of theirs,
\* before or after they took effect on the server, ends the whole reconcile.
Abort(k) ==
  /\ batch' = [batch EXCEPT ![k] = {}]
  /\ Finish(k)

ReadRaises(k) ==
  /\ \E r \in Current(k) : r.retry < MaxRetries /\ r.target = "es"
  /\ Fault
  /\ Abort(k)
  /\ UNCHANGED <<mongo, es, dlq, clock, reqVars, parked, lost>>

QueueRaises(k) ==
  /\ phase[k] \in {"remove", "bump"}
  /\ Backend # "memory"
  /\ Fault
  /\ Abort(k)
  /\ dlq' \in {dlq, IF phase[k] = "remove" THEN Remove(dlq, cur[k])
                                        ELSE Bump(dlq, cur[k], clock)}
  /\ clock' = IF phase[k] = "bump" THEN clock + 1 ELSE clock
  /\ UNCHANGED <<mongo, es, reqVars, parked, lost>>

-----------------------------------------------------------------------------
(* The process dies: requests and reconciles under way vanish, and so does  *)
(* a queue held in memory.                                                  *)

InFlight == UNION {cells[r] : r \in {r \in Requests : pc[r] \in {"persisted", "enqueue"}}}
Queued == EsCells(dlq)

Crash ==
  /\ Fault
  /\ pc' = [r \in Requests |->
             IF pc[r] \in {"persisted", "enqueue"} THEN "failed" ELSE pc[r]]
  /\ phase' = [k \in Reconcilers |-> "next"]
  /\ batch' = [k \in Reconcilers |-> {}]
  /\ cur' = [k \in Reconcilers |-> NoRecord]
  /\ dlq' = IF Backend = "memory" THEN {} ELSE dlq
  /\ lost' = lost \cup InFlight \cup (IF Backend = "memory" THEN Queued ELSE {})
  /\ UNCHANGED <<mongo, es, clock, cells, parked>>

-----------------------------------------------------------------------------
RequestStep(r) == \/ Persist(r) \/ BulkIndex(r) \/ EnqueueFailure(r)
                  \/ PersistRaises(r) \/ EnqueueFails(r)

ReconcilerStep(k) == \/ Scan(k) \/ Skip(k) \/ Begin(k) \/ IndexOne(k)
                     \/ RemoveRecord(k) \/ BumpRecord(k)
                     \/ ReadRaises(k) \/ QueueRaises(k)

Next == \/ \E r \in Requests : RequestStep(r)
        \/ \E c \in Cells : ParkTask(c)
        \/ \E k \in Reconcilers : ReconcilerStep(k)
        \/ Crash

Spec == Init /\ [][Next]_vars

\* The event loop resumes every coroutine whose await has completed, and the
\* automatic loop wakes up for ever.  Nobody has to call the API.
Fairness == /\ \A r \in Requests : WF_vars(BulkIndex(r) \/ EnqueueFailure(r))
            /\ WF_vars(ReconcilerStep(AutoLoop))

FairSpec == Spec /\ Fairness

-----------------------------------------------------------------------------
(* Properties *)

\* Every variable has its type; a reconciler holds an "es" record of a stored
\* cell exactly while it retries one.
TypeOK ==
  /\ mongo \subseteq Cells /\ es \subseteq Cells
  /\ dlq \subseteq Record /\ clock \in Nat /\ faults \in Nat
  /\ pc \in [Requests -> {"new", "persisted", "enqueue", "done", "failed"}]
  /\ cells \in [Requests -> SUBSET Cells]
  /\ phase \in [Reconcilers -> {"next", "index", "remove", "bump"}]
  /\ batch \in [Reconcilers -> SUBSET Record]
  /\ cur \in [Reconcilers -> Record \cup {NoRecord}]
  /\ \A k \in Reconcilers : phase[k] = "next" <=> cur[k] = NoRecord
  /\ parked \subseteq Cells /\ lost \subseteq Cells

\* A cell that MongoDB holds and Elasticsearch does not is on some path back
\* into the index: its request is still running or the DLQ holds its record.
\* Only the named faults cut a cell off: no interleaving of requests, retries
\* and concurrent reconciles does.
NothingForgotten == mongo \subseteq es \cup InFlight \cup Queued \cup lost

\* A document in Elasticsearch is that of a stored cell, although a bulk insert
\* may store only some of the cells a request built.
IndexMirrorsStore == es \subseteq mongo

\* Check and bump are separate awaits, so concurrent reconciles overshoot
\* max_retries, each at most once.
RetriesBounded ==
  \A r \in dlq : r.target = "es" => r.retry <= MaxRetries + Cardinality(Reconcilers) - 1

\* The DLQ never holds two records of one key; MongoDLQ's delete_one would
\* leave the second one behind.
OneRecordPerFailure == \A r, s \in dlq : SameKey(r, s) => r = s

Waiting(c) == \E r \in dlq : r.target = "es" /\ r.cell = c /\ r.retry < MaxRetries
\* The automatic loop brings every failed cell back, or gives up after
\* max_retries, when its batch has room for the whole queue.
FailuresSettle == \A c \in Cells : Waiting(c) ~> ~Waiting(c)

Promise == INSTANCE DerivedIndex
  WITH stored <- mongo, indexed <- es, owed <- InFlight \cup Queued
\* What the subsystem promises: the pipeline and its reconcilers implement
\* DerivedIndex, where each step stores, indexes or gives up a cell that is owed.
ImplementsPromise == Promise!Spec
=============================================================================
