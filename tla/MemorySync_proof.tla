-------------------------- MODULE MemorySync_proof --------------------------
(***************************************************************************)
(* Proofs about MemorySync, for any sets of cells, requests and            *)
(* reconcilers, either queue and any number of faults, and about the queue *)
(* on Redis, for any replicas, admins, sizes and launches.                 *)
(***************************************************************************)
EXTENDS DeadLetters, FiniteSetTheorems, SequenceTheorems, WellFoundedInduction, TLAPS

-----------------------------------------------------------------------------
(* The queue's operations, by the cells their records stand for. *)

\* Listing and overflowing pick records of the queue.
LEMMA SubsetsOfQueue ==
  ASSUME NEW q, NEW targets, NEW limit
  PROVE  Newest(q, targets, limit) \subseteq q /\ Overflow(q) \subseteq q
  BY DEF Newest, Overflow

\* An enqueue adds its cell and loses no cell but those that overflow.
LEMMA EnqueueCells ==
  ASSUME NEW q, NEW e
  PROVE  /\ EsCells(q) \subseteq EsCells(Enqueue(q, e)) \cup EsCells(Overflow(q))
         /\ e.target = "es" => e.cell \in EsCells(Enqueue(q, e))
         /\ EsCells(Enqueue(q, e)) \subseteq
              EsCells(q) \cup (IF e.target = "es" THEN {e.cell} ELSE {})
  BY DEF Enqueue, EsCells

\* A removal loses no cell but that of the removed key.
LEMMA RemoveCells ==
  ASSUME NEW q, NEW r
  PROVE  /\ Remove(q, r) \subseteq q
         /\ EsCells(Remove(q, r)) \subseteq EsCells(q)
         /\ EsCells(q) \subseteq EsCells(Remove(q, r)) \cup {r.cell}
  BY DEF Remove, EsCells, SameKey

\* A bump keeps records records, and the cells they stand for.
LEMMA BumpType ==
  ASSUME NEW q \in SUBSET Record, NEW r, NEW now \in Nat
  PROVE  /\ Bump(q, r, now) \subseteq Record
         /\ \A t \in Bump(q, r, now) :
              \E s \in q : s.target = t.target /\ s.cell = t.cell
         /\ \A s \in q :
              \E t \in Bump(q, r, now) : s.target = t.target /\ s.cell = t.cell
<1> DEFINE b(s) == IF SameKey(s, r)
                   THEN Entry(s.target, s.cell, s.retry + 1,
                              IF Backend = "mongo" THEN now ELSE s.at)
                   ELSE s
<1>1. \A s \in q : b(s) \in Record /\ b(s).target = s.target /\ b(s).cell = s.cell
  <2> TAKE s \in q
  <2>1. s \in Record
    OBVIOUS
  <2>2. CASE SameKey(s, r)
    BY <2>1, <2>2 DEF Entry, Record
  <2>3. CASE ~SameKey(s, r)
    BY <2>1, <2>3
  <2> QED BY <2>2, <2>3
<1>2. Bump(q, r, now) = {b(s) : s \in q}
  BY DEF Bump
<1> QED
  <2> HIDE DEF b
  <2> QED BY <1>1, <1>2

\* A bump changes no record's cell.
LEMMA BumpCells ==
  ASSUME NEW q \in SUBSET Record, NEW r, NEW now \in Nat
  PROVE  EsCells(Bump(q, r, now)) = EsCells(q)
<1> HIDE DEF Bump
<1> QED BY BumpType DEF EsCells

-----------------------------------------------------------------------------
(* Type correctness *)

USE RequestAssumption, ReconcilerAssumption, BoundAssumption

\* The empty hand of a reconciler is no record.
LEMMA NotARecord == NoRecord \notin Record
  BY DEF NoRecord, Record, Targets

\* Every variable keeps its type.
LEMMA TypeStep == TypeOK /\ [Next]_vars => TypeOK'
<1> SUFFICES ASSUME TypeOK, [Next]_vars PROVE TypeOK'
  OBVIOUS
<1> USE NotARecord DEF TypeOK, reqVars, recVars
<1>1. ASSUME NEW r \in Requests, Persist(r) PROVE TypeOK'
  BY <1>1 DEF Persist
<1>2. ASSUME NEW r \in Requests, PersistRaises(r) PROVE TypeOK'
  BY <1>2 DEF PersistRaises, Fault
<1>3. ASSUME NEW r \in Requests, BulkIndex(r) PROVE TypeOK'
  BY <1>3 DEF BulkIndex
<1>4. ASSUME NEW c \in Cells PROVE
        /\ Entry("es", c, 0, clock) \in Record
        /\ Entry("cold_path", c, TaskAttempts, clock) \in Record
  BY DEF Entry, Record, Targets
<1>5. \A e \in Record : Enqueue(dlq, e) \subseteq Record
  BY DEF Enqueue
<1>6. Evicted \subseteq Cells /\ Queued \subseteq Cells
  <2>1. Overflow(dlq) \subseteq Record
    BY SubsetsOfQueue
  <2>2. \A s \in Record : s.cell \in Cells
    BY DEF Record
  <2> QED BY <2>1, <2>2 DEF Evicted, Queued, EsCells
<1>7. ASSUME NEW r \in Requests, EnqueueFailure(r) PROVE TypeOK'
  BY <1>7, <1>4, <1>5, <1>6 DEF EnqueueFailure, FailureRecorded
<1>8. ASSUME NEW r \in Requests, EnqueueFails(r) PROVE TypeOK'
  BY <1>8, <1>4, <1>5 DEF EnqueueFails, FailureRecorded, Fault
<1>9. ASSUME NEW c \in Cells, ParkTask(c) PROVE TypeOK'
  BY <1>9, <1>4, <1>5, <1>6 DEF ParkTask
<1>10. ASSUME NEW k \in Reconcilers, Scan(k) PROVE TypeOK'
  BY <1>10, SubsetsOfQueue DEF Scan
<1>11. ASSUME NEW k \in Reconcilers, Skip(k) PROVE TypeOK'
  BY <1>11 DEF Skip
<1>12. ASSUME NEW k \in Reconcilers, Begin(k) PROVE TypeOK'
  BY <1>12, SubsetsOfQueue DEF Begin, Current
<1>13. ASSUME NEW k \in Reconcilers, IndexOne(k) PROVE TypeOK'
  BY <1>13 DEF IndexOne, Record
<1>14. ASSUME NEW k \in Reconcilers, RemoveRecord(k) PROVE TypeOK'
  BY <1>14, RemoveCells DEF RemoveRecord, Finish
<1>15. ASSUME NEW k \in Reconcilers, BumpRecord(k) PROVE TypeOK'
  <2>1. /\ Bump(dlq, cur[k], clock) \subseteq Record
        /\ \A j \in Reconcilers : Bump(batch[j], cur[k], clock) \subseteq Record
    BY BumpType
  <2> QED BY <1>15, <2>1 DEF BumpRecord, Finish
<1>16. ASSUME NEW k \in Reconcilers, ReadRaises(k) PROVE TypeOK'
  BY <1>16 DEF ReadRaises, Abort, Finish, Fault
<1>17. ASSUME NEW k \in Reconcilers, QueueRaises(k) PROVE TypeOK'
  BY <1>17, RemoveCells, BumpType DEF QueueRaises, Abort, Finish, Fault
<1>18. CASE Crash
  BY <1>18, <1>6 DEF Crash, Fault, InFlight
<1>19. CASE UNCHANGED vars
  BY <1>19 DEF vars
<1> QED
  BY <1>1, <1>2, <1>3, <1>7, <1>8, <1>9, <1>10, <1>11, <1>12, <1>13, <1>14,
     <1>15, <1>16, <1>17, <1>18, <1>19 DEF Next, RequestStep, ReconcilerStep

\* The initial state is well typed.
LEMMA TypeInit == Init => TypeOK
  BY DEF Init, TypeOK

\* Every reachable state is well typed.
THEOREM TypeCorrect == Spec => []TypeOK
  BY TypeInit, TypeStep, PTL DEF Spec

-----------------------------------------------------------------------------
(* The inductive invariant *)

\* Everything the system remembers of a cell is of a stored cell, and a cell a
\* request still holds has no record yet.
CellsAccounted ==
  /\ es \cup Queued \cup lost \subseteq mongo
  /\ \A r \in Requests : cells[r] \subseteq mongo \cap Batch[r]
  /\ \A r \in Requests : pc[r] = "new" => mongo \cap Batch[r] = {}
  /\ \A r \in Requests : pc[r] \in {"persisted", "enqueue"} => cells[r] \cap Queued = {}
  /\ \A s \in dlq : s.target = "cold_path" => s.cell \in parked

\* A reconciler works on the "es" record of a stored cell, and removes it only
\* once the cell is indexed.
WorkAccounted ==
  \A k \in Reconcilers :
    /\ phase[k] # "next" => cur[k].target = "es" /\ cur[k].cell \in mongo
    /\ phase[k] = "remove" => cur[k].cell \in es

IInv == TypeOK /\ CellsAccounted /\ WorkAccounted /\ NothingForgotten

\* Nothing is stored, owed or held at first.
LEMMA InvInit == Init => IInv
  BY TypeInit DEF Init, IInv, CellsAccounted, WorkAccounted, NothingForgotten,
     InFlight, Queued, EsCells

\* The common part of EnqueueFailure and EnqueueFails: cell c leaves its request
\* for the queue or, by a fault, for nowhere.
LEMMA FailureStep ==
  ASSUME IInv, NEW r \in Requests, NEW c \in cells[r], pc[r] = "enqueue",
         FailureRecorded(r, c),
         EsCells(dlq) \subseteq EsCells(dlq') \cup lost',
         EsCells(dlq') \subseteq EsCells(dlq) \cup {c},
         c \in EsCells(dlq') \cup lost',
         \A s \in dlq' : s.target = "cold_path" => s \in dlq,
         lost \subseteq lost', lost' \subseteq lost \cup EsCells(dlq) \cup {c},
         UNCHANGED <<mongo, es, phase, batch, cur, parked>>
  PROVE  CellsAccounted' /\ WorkAccounted' /\ NothingForgotten'
<1> USE DEF IInv, TypeOK, CellsAccounted, InFlight, Queued
<1>1. /\ cells' = [cells EXCEPT ![r] = @ \ {c}]
      /\ \A s \in Requests :
           \/ pc'[s] = pc[s]
           \/ s = r /\ cells[r] = {c} /\ pc'[r] = "done"
  <2>1. /\ pc \in [Requests -> {"new", "persisted", "enqueue", "done", "failed"}]
        /\ cells \in [Requests -> SUBSET Cells]
    OBVIOUS
  <2> QED BY ONLY <2>1, FailureRecorded(r, c), r \in Requests DEF FailureRecorded
<1>2. \A s \in Requests : c \notin cells'[s]
  BY <1>1, DisjointAssumption
<1>3. CellsAccounted'
  <2>1. (es \cup Queued \cup lost \subseteq mongo)'
    OBVIOUS
  <2>2. \A s \in Requests : cells'[s] \subseteq mongo' \cap Batch[s]
    BY <1>1
  <2>3. \A s \in Requests : pc'[s] = "new" => mongo' \cap Batch[s] = {}
    BY <1>1
  <2>4. \A s \in Requests :
          pc'[s] \in {"persisted", "enqueue"} => cells'[s] \cap Queued' = {}
    BY <1>1, <1>2
  <2> QED BY <2>1, <2>2, <2>3, <2>4
<1>4. WorkAccounted'
  BY DEF WorkAccounted
<1>5. InFlight \subseteq InFlight' \cup {c}
  BY <1>1
<1>6. NothingForgotten'
  BY <1>5 DEF NothingForgotten
<1> QED BY <1>3, <1>4, <1>6

\* No step loses track of a stored cell or of a record in hand.
LEMMA InvStep == IInv /\ [Next]_vars => IInv'
<1> SUFFICES ASSUME IInv, [Next]_vars PROVE IInv'
  OBVIOUS
<1> USE NotARecord DEF IInv, CellsAccounted, WorkAccounted, NothingForgotten,
        reqVars, recVars
<1>0. TypeOK /\ TypeOK'
  BY TypeStep
<1>. USE DEF TypeOK, InFlight, Queued
<1> DEFINE Rest == CellsAccounted' /\ WorkAccounted' /\ NothingForgotten'
<1> SUFFICES Rest
  BY <1>0
<1>1. ASSUME NEW r \in Requests, Persist(r) PROVE Rest
  BY <1>1, DisjointAssumption DEF Persist
<1>2. ASSUME NEW r \in Requests, PersistRaises(r) PROVE Rest
  BY <1>2, DisjointAssumption DEF PersistRaises, Fault
<1>3. ASSUME NEW r \in Requests, BulkIndex(r) PROVE Rest
  BY <1>3 DEF BulkIndex
<1>4. ASSUME NEW r \in Requests, EnqueueFailure(r) PROVE Rest
  <2>0. PICK c \in cells[r] :
          /\ FailureRecorded(r, c)
          /\ dlq' = Enqueue(dlq, Entry("es", c, 0, clock))
    BY <1>4 DEF EnqueueFailure
  <2>1. /\ EsCells(dlq) \subseteq EsCells(dlq') \cup Evicted
        /\ c \in EsCells(dlq')
        /\ EsCells(dlq') \subseteq EsCells(dlq) \cup {c}
    BY <2>0, EnqueueCells DEF Evicted, Entry
  <2>2. \A s \in dlq' : s.target = "cold_path" => s \in dlq
    BY <2>0 DEF Enqueue, Entry
  <2>3. /\ Evicted \subseteq EsCells(dlq)
        /\ lost' = lost \cup Evicted /\ pc[r] = "enqueue"
        /\ UNCHANGED <<mongo, es, phase, batch, cur, parked>>
    BY <1>4, SubsetsOfQueue DEF EnqueueFailure, Evicted, EsCells
  <2> HIDE DEF Rest
  <2> QED BY ONLY IInv, <2>0, <2>1, <2>2, <2>3, FailureStep DEF Rest
<1>5. ASSUME NEW r \in Requests, EnqueueFails(r) PROVE Rest
  <2>0. PICK c \in cells[r] :
          /\ FailureRecorded(r, c)
          /\ \/ dlq' = Enqueue(dlq, Entry("es", c, 0, clock)) /\ UNCHANGED lost
             \/ lost' = lost \cup {c} /\ UNCHANGED dlq
    BY <1>5 DEF EnqueueFails
  <2>1. /\ EsCells(dlq) \subseteq EsCells(dlq') \cup lost'
        /\ EsCells(dlq') \subseteq EsCells(dlq) \cup {c}
        /\ c \in EsCells(dlq') \cup lost'
        /\ \A s \in dlq' : s.target = "cold_path" => s \in dlq
    <3>1. CASE dlq' = Enqueue(dlq, Entry("es", c, 0, clock)) /\ UNCHANGED lost
      <4>1. Overflow(dlq) = {}
        BY <1>5 DEF EnqueueFails, Overflow
      <4>2. EsCells({}) = {}
        BY DEF EsCells
      <4> DEFINE e == Entry("es", c, 0, clock)
      <4>3. e.target = "es" /\ e.cell = c
        BY DEF Entry
      <4> HIDE DEF e
      <4>4. \A s \in dlq' : s.target = "cold_path" => s \in dlq
        BY ONLY <3>1, <4>3 DEF Enqueue, e
      <4> QED BY ONLY <3>1, <4>1, <4>2, <4>3, <4>4, EnqueueCells DEF e
    <3>2. CASE lost' = lost \cup {c} /\ UNCHANGED dlq
      BY <3>2
    <3> QED BY <2>0, <3>1, <3>2
  <2>2. lost \subseteq lost' /\ lost' \subseteq lost \cup {c}
    BY <2>0
  <2>3. /\ pc[r] = "enqueue"
        /\ UNCHANGED <<mongo, es, phase, batch, cur, parked>>
    BY <1>5 DEF EnqueueFails
  <2> HIDE DEF Rest
  <2> QED BY ONLY IInv, <2>0, <2>1, <2>2, <2>3, FailureStep DEF Rest
<1>6. ASSUME NEW c \in Cells, ParkTask(c) PROVE Rest
  <2>1. /\ EsCells(dlq) \subseteq EsCells(dlq') \cup Evicted
        /\ EsCells(dlq') \subseteq EsCells(dlq)
    BY <1>6, EnqueueCells DEF ParkTask, Evicted, Entry
  <2>2. \A s \in dlq' : s.target = "cold_path" => s \in dlq \/ s.cell = c
    BY <1>6 DEF ParkTask, Enqueue, Entry
  <2>3. /\ Evicted \subseteq EsCells(dlq)
        /\ lost' = lost \cup Evicted /\ parked' = parked \cup {c}
        /\ UNCHANGED <<mongo, es, pc, cells, phase, batch, cur>>
    BY <1>6, SubsetsOfQueue DEF ParkTask, Evicted, EsCells
  <2> QED BY <2>1, <2>2, <2>3
<1>7. ASSUME NEW k \in Reconcilers, Scan(k) PROVE Rest
  BY <1>7 DEF Scan
<1>8. ASSUME NEW k \in Reconcilers, Skip(k) PROVE Rest
  BY <1>8 DEF Skip
<1>9. ASSUME NEW k \in Reconcilers, Begin(k) PROVE Rest
  BY <1>9 DEF Begin, Retriable
<1>10. ASSUME NEW k \in Reconcilers, IndexOne(k) PROVE Rest
  BY <1>10 DEF IndexOne
<1>11. ASSUME NEW k \in Reconcilers, RemoveRecord(k) PROVE Rest
  BY <1>11, RemoveCells DEF RemoveRecord, Finish
<1>12. ASSUME NEW k \in Reconcilers, BumpRecord(k) PROVE Rest
  BY <1>12, BumpCells, BumpType DEF BumpRecord, Finish
<1>13. ASSUME NEW k \in Reconcilers, ReadRaises(k) PROVE Rest
  BY <1>13 DEF ReadRaises, Abort, Finish, Fault
<1>14. ASSUME NEW k \in Reconcilers, QueueRaises(k) PROVE Rest
  BY <1>14, RemoveCells, BumpCells, BumpType DEF QueueRaises, Abort, Finish, Fault
<1>15. CASE Crash
  BY <1>15 DEF Crash, Fault, EsCells
<1>16. CASE UNCHANGED vars
  BY <1>16 DEF vars
<1> QED
  BY <1>1, <1>2, <1>3, <1>4, <1>5, <1>6, <1>7, <1>8, <1>9, <1>10, <1>11, <1>12,
     <1>13, <1>14, <1>15, <1>16 DEF Next, RequestStep, ReconcilerStep

\* The accounting of cells and work holds in every reachable state.
LEMMA Invariance == Spec => []IInv
  BY InvInit, InvStep, PTL DEF Spec

\* No interleaving of requests and reconciles cuts a stored cell off from the
\* index; only the faults recorded in `lost' do.
THEOREM NothingForgottenHolds == Spec => []NothingForgotten
  BY Invariance, PTL DEF IInv

\* Elasticsearch only ever holds documents of stored cells.
THEOREM IndexMirrorsStoreHolds == Spec => []IndexMirrorsStore
<1>1. IInv => IndexMirrorsStore
  BY DEF IInv, CellsAccounted, IndexMirrorsStore
<1> QED BY Invariance, <1>1, PTL

-----------------------------------------------------------------------------
(* One record per failure *)

\* An enqueue keeps keys unique if the key is new.
LEMMA EnqueueUnique ==
  ASSUME NEW q, \A s, t \in q : SameKey(s, t) => s = t,
         NEW e, \A s \in q : ~SameKey(s, e)
  PROVE  \A s, t \in Enqueue(q, e) : SameKey(s, t) => s = t
  BY DEF Enqueue, SameKey

\* A bump keeps keys unique: it changes no key.
LEMMA BumpUnique ==
  ASSUME NEW q \in SUBSET Record, \A s, t \in q : SameKey(s, t) => s = t,
         NEW r, NEW now \in Nat
  PROVE  \A s, t \in Bump(q, r, now) : SameKey(s, t) => s = t
<1> DEFINE b(s) == IF SameKey(s, r)
                   THEN Entry(s.target, s.cell, s.retry + 1,
                              IF Backend = "mongo" THEN now ELSE s.at)
                   ELSE s
<1>1. \A s \in q : b(s).target = s.target /\ b(s).cell = s.cell
  BY DEF Entry
<1>2. Bump(q, r, now) = {b(s) : s \in q}
  BY DEF Bump
<1> HIDE DEF b
<1> QED BY <1>1, <1>2 DEF SameKey

\* No step makes a second record of one key.
LEMMA UniqueStep ==
  IInv /\ OneRecordPerFailure /\ [Next]_vars => OneRecordPerFailure'
<1> SUFFICES ASSUME IInv, OneRecordPerFailure, [Next]_vars
             PROVE  OneRecordPerFailure'
  OBVIOUS
<1> USE DEF OneRecordPerFailure
<1>0. dlq \in SUBSET Record /\ clock \in Nat
  BY DEF IInv, TypeOK
\* The key of an indexing failure is new: its cell had not been queued yet.
<1>1. ASSUME NEW r \in Requests, NEW c \in cells[r], pc[r] = "enqueue"
      PROVE  \A s \in dlq : ~SameKey(s, Entry("es", c, 0, clock))
  BY <1>1 DEF IInv, CellsAccounted, Queued, EsCells, SameKey, Entry
<1>2. ASSUME NEW r \in Requests, EnqueueFailure(r) \/ EnqueueFails(r)
      PROVE  OneRecordPerFailure'
  <2>1. PICK c \in cells[r] :
          dlq' = Enqueue(dlq, Entry("es", c, 0, clock)) \/ dlq' = dlq
    BY <1>2 DEF EnqueueFailure, EnqueueFails
  <2>2. pc[r] = "enqueue"
    BY <1>2 DEF EnqueueFailure, EnqueueFails
  <2> QED BY <1>1, <2>1, <2>2, EnqueueUnique
<1>3. ASSUME NEW c \in Cells, ParkTask(c) PROVE OneRecordPerFailure'
  <2>1. \A s \in dlq : ~SameKey(s, Entry("cold_path", c, TaskAttempts, clock))
    BY <1>3 DEF ParkTask, IInv, CellsAccounted, SameKey, Entry
  <2> QED BY <1>3, <2>1, EnqueueUnique DEF ParkTask
<1>4. ASSUME NEW k \in Reconcilers,
             RemoveRecord(k) \/ BumpRecord(k) \/ QueueRaises(k)
      PROVE  OneRecordPerFailure'
  <2>1. \/ dlq' = dlq \/ dlq' = Remove(dlq, cur[k])
        \/ dlq' = Bump(dlq, cur[k], clock)
    BY <1>4 DEF RemoveRecord, BumpRecord, QueueRaises
  <2> QED BY <1>0, <2>1, RemoveCells, BumpUnique
<1>5. CASE Crash
  BY <1>5 DEF Crash
<1>6. CASE UNCHANGED dlq
  BY <1>6
<1> QED
  BY <1>2, <1>3, <1>4, <1>5, <1>6
  DEF Next, vars, RequestStep, Persist, PersistRaises, BulkIndex,
      ReconcilerStep, Scan, Skip, Begin, IndexOne, ReadRaises

\* A failure never leaves a second record behind, although a request that saw
\* its bulk call raise and concurrent reconciles all write to the queue.
THEOREM OneRecordPerFailureHolds == Spec => []OneRecordPerFailure
<1>1. Init => OneRecordPerFailure
  BY DEF Init, OneRecordPerFailure
<1> QED BY <1>1, Invariance, UniqueStep, PTL DEF Spec

-----------------------------------------------------------------------------
(* Concurrent reconciles overshoot max_retries, each at most once *)

\* Reconciler k may still raise the record of r's key: it is retrying it, or its
\* listing holds a copy that passes the check of max_retries.
MayRaise(k, r) ==
  \/ phase[k] # "next" /\ SameKey(cur[k], r)
  \/ \E s \in batch[k] : SameKey(s, r) /\ s.retry < MaxRetries

Raisers(r) == {k \in Reconcilers : MayRaise(k, r)}

\* A reconcile holds at most one copy of a record, in its listing or in hand.
HeldOnce ==
  \A k \in Reconcilers :
    /\ \A s, t \in batch[k] : SameKey(s, t) => s = t
    /\ phase[k] # "next" => \A s \in batch[k] : ~SameKey(s, cur[k])

\* The raises a record has had and may still get stay within the bound.
RaisesBounded ==
  \A r \in dlq : r.target = "es" =>
    r.retry + Cardinality(Raisers(r)) <= MaxRetries + Cardinality(Reconcilers) - 1

\* Fewer reconcilers may raise a record than there are, and than could before.
LEMMA FewRaisers ==
  ASSUME NEW S \in SUBSET Reconcilers, NEW T \in SUBSET S
  PROVE  /\ IsFiniteSet(S) /\ Cardinality(S) \in Nat
         /\ Cardinality(Reconcilers) \in Nat
         /\ Cardinality(S) <= Cardinality(Reconcilers)
         /\ Cardinality(T) \in Nat /\ Cardinality(T) <= Cardinality(S)
<1>1. IsFiniteSet(Reconcilers) /\ Cardinality(Reconcilers) \in Nat
  BY FS_CardinalityType
<1>2. IsFiniteSet(S) /\ Cardinality(S) <= Cardinality(Reconcilers)
  BY <1>1, FS_Subset
<1>3. IsFiniteSet(T) /\ Cardinality(T) <= Cardinality(S)
  BY <1>2, FS_Subset
<1> QED BY <1>1, <1>2, <1>3, FS_CardinalityType

\* A bump changes no key, and no retry count falls.
LEMMA BumpRaises ==
  ASSUME NEW q \in SUBSET Record, NEW r, NEW now \in Nat
  PROVE  \A t \in Bump(q, r, now) : \E s \in q :
           /\ SameKey(s, t)
           /\ IF SameKey(s, r) THEN t.retry = s.retry + 1 ELSE t = s
<1> DEFINE b(s) == IF SameKey(s, r)
                   THEN Entry(s.target, s.cell, s.retry + 1,
                              IF Backend = "mongo" THEN now ELSE s.at)
                   ELSE s
<1>1. \A s \in q :
        /\ SameKey(s, b(s))
        /\ IF SameKey(s, r) THEN b(s).retry = s.retry + 1 ELSE b(s) = s
  BY DEF Entry, SameKey
<1>2. Bump(q, r, now) = {b(s) : s \in q}
  BY DEF Bump
<1> HIDE DEF b
<1> QED BY <1>1, <1>2

\* No reconcile lists or takes a second copy of the record it holds.
LEMMA HeldStep ==
  IInv /\ OneRecordPerFailure /\ HeldOnce /\ [Next]_vars => HeldOnce'
<1> SUFFICES ASSUME IInv, OneRecordPerFailure, HeldOnce, [Next]_vars
             PROVE  HeldOnce'
  OBVIOUS
<1>0. /\ dlq \in SUBSET Record /\ clock \in Nat
      /\ phase \in [Reconcilers -> {"next", "index", "remove", "bump"}]
      /\ batch \in [Reconcilers -> SUBSET Record]
      /\ cur \in [Reconcilers -> Record \cup {NoRecord}]
  BY DEF IInv, TypeOK
<1>1. ASSUME NEW k \in Reconcilers, Scan(k) PROVE HeldOnce'
  <2>1. PICK chosen \in SUBSET dlq : batch' = [batch EXCEPT ![k] = chosen]
    BY <1>1, SubsetsOfQueue DEF Scan
  <2>2. phase[k] = "next" /\ phase' = phase /\ cur' = cur
    BY <1>1 DEF Scan, Idle
  <2> QED BY <1>0, <2>1, <2>2 DEF HeldOnce, OneRecordPerFailure
<1>2. ASSUME NEW k \in Reconcilers, Skip(k) PROVE HeldOnce'
  BY <1>0, <1>2 DEF Skip, HeldOnce
<1>3. ASSUME NEW k \in Reconcilers, Begin(k) PROVE HeldOnce'
  <2>1. PICK r \in batch[k] :
          /\ cur' = [cur EXCEPT ![k] = r]
          /\ batch' = [batch EXCEPT ![k] = @ \ {r}]
    BY <1>3, SubsetsOfQueue DEF Begin, Current
  <2>2. phase' = [phase EXCEPT ![k] = "index"]
    BY <1>3 DEF Begin
  <2> QED BY <1>0, <2>1, <2>2 DEF HeldOnce
<1>4. ASSUME NEW k \in Reconcilers, IndexOne(k) PROVE HeldOnce'
  BY <1>0, <1>4 DEF IndexOne, HeldOnce
<1>5. ASSUME NEW k \in Reconcilers, RemoveRecord(k) PROVE HeldOnce'
  BY <1>0, <1>5 DEF RemoveRecord, Finish, HeldOnce
<1>6. ASSUME NEW k \in Reconcilers, BumpRecord(k) PROVE HeldOnce'
  <2>1. /\ phase' = [phase EXCEPT ![k] = "next"]
        /\ cur' = [cur EXCEPT ![k] = NoRecord]
    BY <1>6 DEF BumpRecord, Finish
  <2>2. CASE batch' = batch
    BY <1>0, <2>1, <2>2 DEF HeldOnce
  <2>3. CASE batch' = [j \in Reconcilers |-> Bump(batch[j], cur[k], clock)]
    <3> SUFFICES ASSUME NEW j \in Reconcilers
                 PROVE  /\ \A s, t \in batch'[j] : SameKey(s, t) => s = t
                        /\ phase'[j] # "next" =>
                             \A s \in batch'[j] : ~SameKey(s, cur'[j])
      BY DEF HeldOnce
    <3>1. batch[j] \in SUBSET Record /\ batch'[j] = Bump(batch[j], cur[k], clock)
      BY <1>0, <2>3
    <3>2. \A s, t \in batch'[j] : SameKey(s, t) => s = t
      BY ONLY <3>1, <1>0, BumpUnique, HeldOnce, j \in Reconcilers DEF HeldOnce
    <3>3. \A t \in batch'[j] : \E s \in batch[j] : SameKey(s, t)
      BY ONLY <3>1, <1>0, BumpRaises
    <3>4. phase'[j] # "next" => j # k /\ phase[j] # "next" /\ cur'[j] = cur[j]
      BY <1>0, <2>1
    <3> QED BY <3>2, <3>3, <3>4 DEF HeldOnce, SameKey
  <2> QED BY <1>6, <2>2, <2>3 DEF BumpRecord
<1>7. ASSUME NEW k \in Reconcilers, ReadRaises(k) \/ QueueRaises(k) PROVE HeldOnce'
  BY <1>0, <1>7 DEF ReadRaises, QueueRaises, Abort, Finish, HeldOnce
<1>8. CASE Crash
  BY <1>8 DEF Crash, HeldOnce
<1>9. CASE UNCHANGED recVars
  BY <1>9 DEF recVars, HeldOnce
<1> QED
  BY <1>1, <1>2, <1>3, <1>4, <1>5, <1>6, <1>7, <1>8, <1>9
  DEF Next, vars, recVars, RequestStep, Persist, PersistRaises, BulkIndex,
      EnqueueFailure, EnqueueFails, ParkTask, ReconcilerStep

\* A record that is new or already there, and that no further reconciler may
\* raise, stays within the bound.
LEMMA KeptBounded ==
  ASSUME RaisesBounded, NEW r, NEW s \in dlq, s.retry \in Nat,
         r.target = s.target, r.retry = s.retry,
         Raisers(r)' \subseteq Raisers(s), r.target = "es"
  PROVE  r.retry + Cardinality(Raisers(r)') <= MaxRetries + Cardinality(Reconcilers) - 1
<1>1. Raisers(s) \in SUBSET Reconcilers /\ Raisers(r)' \in SUBSET Raisers(s)
  BY DEF Raisers
<1>2. s.retry + Cardinality(Raisers(s)) <= MaxRetries + Cardinality(Reconcilers) - 1
  BY DEF RaisesBounded
<1> HIDE DEF Raisers
<1>3. /\ Cardinality(Raisers(s)) \in Nat /\ Cardinality(Reconcilers) \in Nat
      /\ Cardinality(Raisers(r)') \in Nat
      /\ Cardinality(Raisers(r)') <= Cardinality(Raisers(s))
  BY ONLY <1>1, FewRaisers
<1> QED BY ONLY <1>2, <1>3, r.retry = s.retry, s.retry \in Nat, BoundAssumption

\* So does a record that a reconcile would still retry, whoever may raise it.
LEMMA YoungBounded ==
  ASSUME NEW S \in SUBSET Reconcilers, NEW n \in Nat, n < MaxRetries
  PROVE  n + Cardinality(S) <= MaxRetries + Cardinality(Reconcilers) - 1
<1>1. /\ Cardinality(S) \in Nat /\ Cardinality(Reconcilers) \in Nat
      /\ Cardinality(S) <= Cardinality(Reconcilers)
  BY FewRaisers
<1> QED BY ONLY <1>1, n \in Nat, n < MaxRetries, BoundAssumption

\* A raise uses up the raiser: it held its one copy of the record in hand.
LEMMA RaisedBounded ==
  ASSUME IInv, HeldOnce, RaisesBounded, NEW k \in Reconcilers, phase[k] = "bump",
         dlq' = Bump(dlq, cur[k], clock),
         \A r, s : SameKey(s, r) =>
           Raisers(r)' \subseteq Raisers(s) \ (IF SameKey(s, cur[k]) THEN {k} ELSE {})
  PROVE  RaisesBounded'
<1> SUFFICES ASSUME NEW t \in dlq', t.target = "es"
             PROVE  t.retry + Cardinality(Raisers(t)')
                      <= MaxRetries + Cardinality(Reconcilers) - 1
  BY DEF RaisesBounded
<1>0. dlq \in SUBSET Record /\ clock \in Nat
  BY DEF IInv, TypeOK
<1>1. PICK s \in dlq :
        /\ SameKey(s, t)
        /\ IF SameKey(s, cur[k]) THEN t.retry = s.retry + 1 ELSE t = s
  BY <1>0, BumpRaises
<1>2. s.retry \in Nat /\ s.target = "es"
  BY <1>0, <1>1 DEF Record, SameKey
<1>3. CASE ~SameKey(s, cur[k])
  <2>1. Raisers(t)' \subseteq Raisers(s) /\ t = s
    BY <1>1, <1>3
  <2> QED BY ONLY <1>2, <2>1, RaisesBounded, KeptBounded, s \in dlq, t.target = "es"
<1>4. CASE SameKey(s, cur[k])
  <2>1. t.retry = s.retry + 1 /\ Raisers(t)' \subseteq Raisers(s) \ {k}
    BY <1>1, <1>4
  <2>2. k \in Raisers(s) /\ Raisers(s) \in SUBSET Reconcilers
    BY <1>4 DEF Raisers, MayRaise, SameKey
  <2>3. s.retry + Cardinality(Raisers(s)) <= MaxRetries + Cardinality(Reconcilers) - 1
    BY <1>2 DEF RaisesBounded
  <2> HIDE DEF Raisers
  <2>4. /\ IsFiniteSet(Raisers(s)) /\ Cardinality(Raisers(s)) \in Nat
        /\ Cardinality(Reconcilers) \in Nat
    BY ONLY <2>2, FewRaisers
  <2>5. Cardinality(Raisers(s) \ {k}) = Cardinality(Raisers(s)) - 1
    BY ONLY <2>2, <2>4, FS_RemoveElement
  <2>6. Raisers(s) \ {k} \in SUBSET Reconcilers /\ Raisers(t)' \in SUBSET (Raisers(s) \ {k})
    BY <2>1, <2>2
  <2>7. /\ Cardinality(Raisers(t)') \in Nat
        /\ Cardinality(Raisers(t)') <= Cardinality(Raisers(s) \ {k})
    BY ONLY <2>6, FewRaisers
  <2> QED BY ONLY <1>2, <2>1, <2>3, <2>4, <2>5, <2>7, BoundAssumption
<1> QED BY <1>3, <1>4

\* No step takes a record over the bound.
LEMMA RaiseStep ==
  IInv /\ OneRecordPerFailure /\ HeldOnce /\ RaisesBounded /\ [Next]_vars
    => RaisesBounded'
<1> SUFFICES ASSUME IInv, OneRecordPerFailure, HeldOnce, RaisesBounded, [Next]_vars
             PROVE  RaisesBounded'
  OBVIOUS
<1>0. /\ dlq \in SUBSET Record /\ clock \in Nat
      /\ phase \in [Reconcilers -> {"next", "index", "remove", "bump"}]
      /\ batch \in [Reconcilers -> SUBSET Record]
      /\ cur \in [Reconcilers -> Record \cup {NoRecord}]
  BY DEF IInv, TypeOK
\* A step after which no further reconciler may raise any record, and which
\* queues at most a fresh failure or a parked task.
<1>1. ASSUME NEW fresh, fresh.target = "es" => fresh.retry = 0,
             dlq' \subseteq dlq \cup {fresh},
             \A r : Raisers(r)' \subseteq Raisers(r)
      PROVE  RaisesBounded'
  <2> SUFFICES ASSUME NEW r \in dlq', r.target = "es"
               PROVE  r.retry + Cardinality(Raisers(r)')
                        <= MaxRetries + Cardinality(Reconcilers) - 1
    BY DEF RaisesBounded
  <2>1. CASE r \in dlq
    <3>1. r.retry \in Nat
      BY <1>0, <2>1 DEF Record
    <3> QED BY <1>1, <2>1, <3>1, KeptBounded
  <2>2. CASE r = fresh
    <3>1. r.retry = 0 /\ Raisers(r)' \in SUBSET Reconcilers
      BY <1>1, <2>2 DEF Raisers
    <3> QED BY ONLY <3>1, YoungBounded, BoundAssumption
  <2> QED BY <1>1, <2>1, <2>2
<1> DEFINE none == Entry("es", 0, 0, 0)
<1>2. none.target = "es" /\ none.retry = 0
  BY DEF Entry
<1> HIDE DEF none
<1>3. ASSUME NEW r \in Requests, EnqueueFailure(r) \/ EnqueueFails(r) PROVE RaisesBounded'
  <2>1. PICK c \in cells[r] :
          dlq' = Enqueue(dlq, Entry("es", c, 0, clock)) \/ dlq' = dlq
    BY <1>3 DEF EnqueueFailure, EnqueueFails
  <2>2. \A s : Raisers(s)' \subseteq Raisers(s)
    BY <1>3 DEF EnqueueFailure, EnqueueFails, recVars, Raisers, MayRaise
  <2> DEFINE fresh == Entry("es", c, 0, clock)
  <2>3. fresh.retry = 0 /\ dlq' \subseteq dlq \cup {fresh}
    BY <2>1 DEF Enqueue, Entry
  <2> HIDE DEF fresh
  <2> QED BY ONLY <2>2, <2>3, <1>1
<1>4. ASSUME NEW c \in Cells, ParkTask(c) PROVE RaisesBounded'
  <2>1. dlq' = Enqueue(dlq, Entry("cold_path", c, TaskAttempts, clock))
    BY <1>4 DEF ParkTask
  <2>2. \A s : Raisers(s)' \subseteq Raisers(s)
    BY <1>4 DEF ParkTask, recVars, Raisers, MayRaise
  <2> DEFINE fresh == Entry("cold_path", c, TaskAttempts, clock)
  <2>3. fresh.target # "es" /\ dlq' \subseteq dlq \cup {fresh}
    BY <2>1 DEF Enqueue, Entry
  <2> HIDE DEF fresh
  <2> QED BY ONLY <2>2, <2>3, <1>1
<1>5. ASSUME NEW k \in Reconcilers, Scan(k) PROVE RaisesBounded'
  <2>1. PICK chosen \in SUBSET dlq : batch' = [batch EXCEPT ![k] = chosen]
    BY <1>5, SubsetsOfQueue DEF Scan
  <2>2. phase[k] = "next" /\ phase' = phase /\ cur' = cur /\ dlq' = dlq
    BY <1>5 DEF Scan, Idle
  <2> SUFFICES ASSUME NEW r \in dlq, r.target = "es"
               PROVE  r.retry + Cardinality(Raisers(r)')
                        <= MaxRetries + Cardinality(Reconcilers) - 1
    BY <2>2 DEF RaisesBounded
  <2>3. r.retry \in Nat
    BY <1>0 DEF Record
  <2>4. CASE r.retry < MaxRetries
    <3>1. Raisers(r)' \in SUBSET Reconcilers
      BY DEF Raisers
    <3> QED BY ONLY <2>3, <2>4, <3>1, YoungBounded
  \* A reconciler that just listed the record itself will pass it over.
  <2>5. CASE ~(r.retry < MaxRetries)
    <3>1. Raisers(r)' \subseteq Raisers(r)
      BY <1>0, <2>1, <2>2, <2>5 DEF Raisers, MayRaise, OneRecordPerFailure, SameKey
    <3> QED BY <2>3, <3>1, KeptBounded
  <2> QED BY <2>4, <2>5
<1>6. ASSUME NEW k \in Reconcilers, Skip(k) \/ Begin(k) \/ IndexOne(k) \/ ReadRaises(k)
      PROVE  RaisesBounded'
  <2>1. \A r : Raisers(r)' \subseteq Raisers(r)
    <3>1. CASE Skip(k)
      BY <1>0, <3>1 DEF Skip, Raisers, MayRaise
    <3>2. CASE Begin(k)
      <4>1. PICK r \in batch[k] :
              /\ cur' = [cur EXCEPT ![k] = r] /\ r.retry < MaxRetries
              /\ batch' = [batch EXCEPT ![k] = @ \ {r}]
        BY <3>2, SubsetsOfQueue DEF Begin, Current, Retriable
      <4>2. phase' = [phase EXCEPT ![k] = "index"]
        BY <3>2 DEF Begin
      <4> QED BY <1>0, <4>1, <4>2 DEF Raisers, MayRaise
    <3>3. CASE IndexOne(k)
      BY <1>0, <3>3 DEF IndexOne, Raisers, MayRaise
    <3>4. CASE ReadRaises(k)
      BY <1>0, <3>4 DEF ReadRaises, Abort, Finish, Raisers, MayRaise
    <3> QED BY <1>6, <3>1, <3>2, <3>3, <3>4
  <2>2. dlq' = dlq
    BY <1>6 DEF Skip, Begin, IndexOne, ReadRaises
  <2> QED BY ONLY <1>1, <1>2, <2>1, <2>2
\* Reconciler k lets go of the record in hand.
<1>7. ASSUME NEW k \in Reconcilers, phase'[k] = "next",
             \A j \in Reconcilers \ {k} : phase'[j] = phase[j] /\ cur'[j] = cur[j],
             \A j \in Reconcilers : batch'[j] \in {{}, batch[j], Bump(batch[j], cur[k], clock)}
      PROVE  \A r, s : SameKey(s, r) =>
               Raisers(r)' \subseteq
                 Raisers(s) \ (IF phase[k] # "next" /\ SameKey(s, cur[k]) THEN {k} ELSE {})
  <2>1. ASSUME NEW j \in Reconcilers, NEW t \in batch'[j]
        PROVE  \E s \in batch[j] : SameKey(s, t) /\ (t.retry < MaxRetries => s.retry < MaxRetries)
    <3>1. batch[j] \in SUBSET Record
      BY <1>0
    <3>2. CASE t \in batch[j]
      BY <3>2 DEF SameKey
    <3>3. CASE t \in Bump(batch[j], cur[k], clock)
      <4>1. PICK s \in batch[j] : SameKey(s, t) /\ (t.retry = s.retry + 1 \/ t = s)
        BY ONLY <1>0, <3>1, <3>3, BumpRaises
      <4>2. s.retry \in Nat
        BY <3>1 DEF Record
      <4> QED BY <4>1, <4>2, BoundAssumption
    <3> QED BY <1>7, <3>2, <3>3
  <2> SUFFICES ASSUME NEW r, NEW s, SameKey(s, r), NEW j \in Reconcilers, MayRaise(j, r)'
               PROVE  /\ MayRaise(j, s)
                      /\ phase[k] # "next" /\ SameKey(s, cur[k]) => j # k
    BY DEF Raisers
  <2>2. CASE phase'[j] # "next" /\ SameKey(cur'[j], r)
    BY <1>7, <2>2 DEF MayRaise, SameKey
  <2>3. CASE \E t \in batch'[j] : SameKey(t, r) /\ t.retry < MaxRetries
    <3>1. PICK t \in batch[j] : SameKey(t, r) /\ t.retry < MaxRetries
      BY <2>1, <2>3 DEF SameKey
    <3>2. MayRaise(j, s)
      BY <3>1 DEF MayRaise, SameKey
    <3>3. phase[k] # "next" /\ SameKey(s, cur[k]) => j # k
      BY <3>1 DEF HeldOnce, SameKey
    <3> QED BY <3>2, <3>3
  <2> QED BY <2>2, <2>3 DEF MayRaise
<1>8. ASSUME NEW k \in Reconcilers, RemoveRecord(k) \/ BumpRecord(k) \/ QueueRaises(k)
      PROVE  RaisesBounded'
  <2>1. /\ phase'[k] = "next"
        /\ \A j \in Reconcilers \ {k} : phase'[j] = phase[j] /\ cur'[j] = cur[j]
        /\ \A j \in Reconcilers :
             batch'[j] \in {{}, batch[j], Bump(batch[j], cur[k], clock)}
    <3>1. /\ phase' = [phase EXCEPT ![k] = "next"]
          /\ cur' = [cur EXCEPT ![k] = NoRecord]
          /\ \/ batch' = batch \/ batch' = [batch EXCEPT ![k] = {}]
             \/ batch' = [j \in Reconcilers |-> Bump(batch[j], cur[k], clock)]
      BY <1>8 DEF RemoveRecord, BumpRecord, QueueRaises, Abort, Finish
    <3> QED BY <1>0, <3>1
  <2>2. \A r, s : SameKey(s, r) =>
          Raisers(r)' \subseteq
            Raisers(s) \ (IF phase[k] # "next" /\ SameKey(s, cur[k]) THEN {k} ELSE {})
    BY ONLY <1>7, <2>1
  <2>3. CASE dlq' \subseteq dlq
    <3>1. \A r : Raisers(r)' \subseteq Raisers(r)
      BY <2>2 DEF SameKey
    <3> QED BY ONLY <1>1, <1>2, <2>3, <3>1
  <2>4. CASE dlq' = Bump(dlq, cur[k], clock) /\ phase[k] = "bump"
    <3>1. \A r, s : SameKey(s, r) =>
            Raisers(r)' \subseteq Raisers(s) \ (IF SameKey(s, cur[k]) THEN {k} ELSE {})
      BY <2>2, <2>4
    <3> QED BY ONLY <2>4, <3>1, IInv, HeldOnce, RaisesBounded, RaisedBounded, k \in Reconcilers
  <2> QED BY <1>8, <2>3, <2>4, RemoveCells DEF RemoveRecord, BumpRecord, QueueRaises
<1>9. CASE Crash
  <2>1. \A r : Raisers(r)' \subseteq Raisers(r)
    BY <1>9 DEF Crash, Raisers, MayRaise
  <2>2. dlq' \subseteq dlq
    BY <1>9 DEF Crash
  <2> QED BY ONLY <1>1, <1>2, <2>1, <2>2
<1>10. CASE UNCHANGED <<dlq, phase, batch, cur>>
  <2>1. \A r : Raisers(r)' \subseteq Raisers(r)
    BY <1>10 DEF Raisers, MayRaise
  <2> QED BY ONLY <1>1, <1>2, <2>1, <1>10
<1> QED
  BY <1>3, <1>4, <1>5, <1>6, <1>8, <1>9, <1>10
  DEF Next, vars, recVars, RequestStep, Persist, PersistRaises, BulkIndex, ReconcilerStep

\* However many reconciles run at once, a record is retried at most once more by
\* each of them after it reached max_retries.
THEOREM RetriesBoundedHolds == Spec => []RetriesBounded
<1>1. Init => HeldOnce /\ RaisesBounded
  BY DEF Init, HeldOnce, RaisesBounded
<1>2. IInv /\ RaisesBounded => RetriesBounded
  <2> SUFFICES ASSUME IInv, RaisesBounded, NEW r \in dlq, r.target = "es"
               PROVE  r.retry <= MaxRetries + Cardinality(Reconcilers) - 1
    BY DEF RetriesBounded
  <2>1. r.retry \in Nat /\ Raisers(r) \in SUBSET Reconcilers
    BY DEF IInv, TypeOK, Record, Raisers
  <2>2. r.retry + Cardinality(Raisers(r)) <= MaxRetries + Cardinality(Reconcilers) - 1
    BY DEF RaisesBounded
  <2>3. Cardinality(Raisers(r)) \in Nat /\ Cardinality(Reconcilers) \in Nat
    BY ONLY <2>1, FewRaisers
  <2> QED BY ONLY <2>1, <2>2, <2>3, BoundAssumption
<1> QED
  BY <1>1, <1>2, HeldStep, RaiseStep, Invariance, OneRecordPerFailureHolds, PTL DEF Spec

-----------------------------------------------------------------------------
(* MemorySync implements DerivedIndex *)

Owed == InFlight \cup Queued

\* With unique keys, an enqueue drops exactly the cells of the overflow.
LEMMA EnqueueExact ==
  ASSUME NEW q, \A s, t \in q : SameKey(s, t) => s = t, NEW e
  PROVE  EsCells(Enqueue(q, e)) = (EsCells(q) \ EsCells(Overflow(q)))
                                    \cup (IF e.target = "es" THEN {e.cell} ELSE {})
<1>1. Enqueue(q, e) = (q \ Overflow(q)) \cup {e} /\ Overflow(q) \subseteq q
  BY SubsetsOfQueue DEF Enqueue
<1>2. EsCells(q \ Overflow(q)) = EsCells(q) \ EsCells(Overflow(q))
  <2>1. ASSUME NEW s \in q \ Overflow(q), NEW t \in Overflow(q),
               s.target = "es", t.target = "es"
        PROVE  s.cell # t.cell
    BY <1>1, <2>1 DEF SameKey
  <2> QED BY <1>1, <2>1 DEF EsCells
<1>3. \A p : EsCells(p \cup {e}) =
               EsCells(p) \cup (IF e.target = "es" THEN {e.cell} ELSE {})
  BY DEF EsCells
<1> QED BY <1>1, <1>2, <1>3

\* Initially nothing is stored, indexed or owed in the abstract index either.
LEMMA RefineInit == Init => Promise!Init
  BY DEF Init, Promise!Init, InFlight, Queued, EsCells

\* Every step of the subsystem commits new cells, publishes documents, gives a
\* cell up, or changes nothing the promise is about.
LEMMA RefineStep ==
  IInv /\ IInv' /\ OneRecordPerFailure /\ [Next]_vars
    => [Promise!Next]_(Promise!vars)
<1> SUFFICES ASSUME IInv, IInv', OneRecordPerFailure, [Next]_vars
             PROVE  Promise!Next \/ UNCHANGED <<mongo, es, Owed, lost>>
  BY DEF Promise!vars, Owed
<1>0. /\ mongo \subseteq Cells /\ es \subseteq Cells /\ lost \subseteq Cells
      /\ Owed \subseteq Cells /\ clock \in Nat /\ dlq \in SUBSET Record
      /\ pc \in [Requests -> {"new", "persisted", "enqueue", "done", "failed"}]
      /\ cells \in [Requests -> SUBSET Cells]
  BY DEF IInv, TypeOK, CellsAccounted, InFlight, Owed
<1>1. ASSUME NEW new \in SUBSET Cells, NEW kept \in SUBSET new,
             new \cap mongo = {}, mongo' = mongo \cup new,
             Owed' = Owed \cup kept, lost' = lost \cup (new \ kept), es' = es
      PROVE  Promise!Next
  BY <1>1 DEF Promise!Next, Promise!Commit, Owed
<1>2. ASSUME NEW docs \in SUBSET Cells, NEW settled \in SUBSET Cells,
             docs \subseteq mongo, es' = es \cup docs, settled \subseteq es',
             Owed' = Owed \ settled, mongo' = mongo, lost' = lost
      PROVE  Promise!Next
  BY <1>2 DEF Promise!Next, Promise!Publish, Owed
<1>3. ASSUME NEW dropped \in SUBSET Cells, dropped \subseteq Owed,
             Owed' = Owed \ dropped, lost' = lost \cup dropped,
             mongo' = mongo, es' = es
      PROVE  Promise!Next
  BY <1>3 DEF Promise!Next, Promise!GiveUp, Owed
<1>4. ASSUME NEW r \in Requests, Persist(r) PROVE Promise!Next
  <2>1. PICK written \in SUBSET Batch[r] :
          mongo' = mongo \cup written /\ cells' = [cells EXCEPT ![r] = written]
    BY <1>4 DEF Persist
  <2>2. /\ pc[r] = "new" /\ pc' = [pc EXCEPT ![r] = "persisted"]
        /\ es' = es /\ dlq' = dlq /\ lost' = lost
    BY <1>4 DEF Persist
  <2>3. InFlight' = InFlight \cup written
    BY <1>0, <2>1, <2>2 DEF InFlight
  <2>4. written \cap mongo = {} /\ written \in SUBSET Cells
    BY <2>2 DEF IInv, CellsAccounted
  <2> QED BY <1>1, <2>1, <2>2, <2>3, <2>4 DEF Owed, Queued
<1>5. ASSUME NEW r \in Requests, PersistRaises(r) PROVE Promise!Next
  <2>1. PICK written \in SUBSET Batch[r] :
          mongo' = mongo \cup written /\ lost' = lost \cup written
    BY <1>5 DEF PersistRaises
  <2>2. /\ pc[r] = "new" /\ pc' = [pc EXCEPT ![r] = "failed"]
        /\ es' = es /\ dlq' = dlq /\ cells' = cells
    BY <1>5 DEF PersistRaises
  <2>3. InFlight' = InFlight
    BY <1>0, <2>2 DEF InFlight
  <2>4. written \cap mongo = {} /\ written \in SUBSET Cells
    BY <2>2 DEF IInv, CellsAccounted
  <2> QED BY <1>1, <2>1, <2>2, <2>3, <2>4 DEF Owed, Queued
<1>6. ASSUME NEW r \in Requests, BulkIndex(r) PROVE Promise!Next
  <2>1. PICK applied \in SUBSET cells[r], failed \in SUBSET cells[r] :
          /\ cells[r] \ failed \subseteq applied
          /\ es' = es \cup applied
          /\ cells' = [cells EXCEPT ![r] = failed]
          /\ pc' = [pc EXCEPT ![r] = IF failed = {} THEN "done" ELSE "enqueue"]
    BY <1>6 DEF BulkIndex
  <2>2. pc[r] = "persisted" /\ mongo' = mongo /\ dlq' = dlq /\ lost' = lost
    BY <1>6 DEF BulkIndex
  <2>3. \A s \in Requests : s # r => cells[s] \cap cells[r] = {}
    BY DisjointAssumption DEF IInv, CellsAccounted
  <2>4. InFlight' = InFlight \ (cells[r] \ failed)
    BY <1>0, <2>1, <2>2, <2>3 DEF InFlight
  <2>5. cells[r] \cap Queued = {} /\ cells[r] \subseteq mongo
    BY <2>2 DEF IInv, CellsAccounted
  <2>6. Owed' = Owed \ (cells[r] \ failed)
    BY <2>2, <2>4, <2>5 DEF Owed, Queued
  <2> HIDE DEF Owed
  <2>7. cells[r] \in SUBSET Cells
    BY <1>0
  <2> QED BY <1>2, <2>1, <2>2, <2>5, <2>6, <2>7
<1>7. ASSUME NEW r \in Requests, NEW c \in cells[r], pc[r] = "enqueue",
             FailureRecorded(r, c)
      PROVE  InFlight' = InFlight \ {c} /\ c \notin Queued /\ c \in InFlight
  <2>1. \A s \in Requests : s # r => c \notin cells[s]
    BY DisjointAssumption DEF IInv, CellsAccounted
  <2>2. c \notin Queued
    BY <1>7 DEF IInv, CellsAccounted
  <2>3. c \in InFlight
    BY <1>7 DEF InFlight
  <2>4. cells' = [cells EXCEPT ![r] = @ \ {c}]
    BY <1>7 DEF FailureRecorded
  <2>5. /\ \A s \in Requests : s # r => pc'[s] = pc[s] /\ cells'[s] = cells[s]
        /\ cells'[r] = cells[r] \ {c}
        /\ cells'[r] # {} => pc'[r] = "enqueue"
    BY ONLY <1>0, <1>7, <2>4 DEF FailureRecorded
  <2>6. InFlight' = InFlight \ {c}
    BY <1>7, <2>1, <2>5 DEF InFlight
  <2> QED BY <2>2, <2>3, <2>6
<1>8. Evicted \subseteq Queued /\ Evicted \cap InFlight = {} /\ Evicted \subseteq Cells
  <2>1. Evicted \subseteq Queued
    BY SubsetsOfQueue DEF Evicted, Queued, EsCells
  <2>2. Queued \cap InFlight = {}
    BY DEF IInv, CellsAccounted, InFlight
  <2> QED BY <1>0, <2>1, <2>2 DEF Owed
<1>9. ASSUME NEW r \in Requests, EnqueueFailure(r) PROVE Promise!Next
  <2>1. PICK c \in cells[r] :
          /\ FailureRecorded(r, c)
          /\ dlq' = Enqueue(dlq, Entry("es", c, 0, clock))
    BY <1>9 DEF EnqueueFailure
  <2>2. /\ pc[r] = "enqueue" /\ mongo' = mongo /\ es' = es
        /\ lost' = lost \cup Evicted
    BY <1>9 DEF EnqueueFailure
  <2>3. Queued' = (Queued \ Evicted) \cup {c}
    BY <2>1, EnqueueExact DEF Queued, Evicted, OneRecordPerFailure, Entry
  <2>4. InFlight' = InFlight \ {c} /\ c \notin Queued /\ c \in InFlight
    BY <1>7, <2>1, <2>2
  <2>5. Owed' = Owed \ Evicted /\ Evicted \subseteq Owed
    BY <1>8, <2>3, <2>4 DEF Owed
  <2> HIDE DEF Owed
  <2> QED BY <1>3, <1>8, <2>2, <2>5
<1>10. ASSUME NEW r \in Requests, EnqueueFails(r)
       PROVE  Promise!Next \/ UNCHANGED <<mongo, es, Owed, lost>>
  <2>1. PICK c \in cells[r] :
          /\ FailureRecorded(r, c)
          /\ \/ dlq' = Enqueue(dlq, Entry("es", c, 0, clock)) /\ lost' = lost
             \/ lost' = lost \cup {c} /\ dlq' = dlq
    BY <1>10 DEF EnqueueFails
  <2>2. pc[r] = "enqueue" /\ mongo' = mongo /\ es' = es /\ Overflow(dlq) = {}
    BY <1>10 DEF EnqueueFails, Overflow
  <2>3. InFlight' = InFlight \ {c} /\ c \notin Queued /\ c \in InFlight
    BY <1>7, <2>1, <2>2
  <2>4. CASE dlq' = Enqueue(dlq, Entry("es", c, 0, clock)) /\ lost' = lost
    <3>1. EsCells({}) = {}
      BY DEF EsCells
    <3>2. Queued' = Queued \cup {c}
      <4>1. Queued' = (Queued \ EsCells(Overflow(dlq))) \cup {c}
        BY <2>4, EnqueueExact DEF Queued, OneRecordPerFailure, Entry
      <4> QED BY <2>2, <3>1, <4>1
    <3> QED BY <2>2, <2>3, <2>4, <3>2 DEF Owed
  <2>5. CASE lost' = lost \cup {c} /\ dlq' = dlq
    <3>1. Owed' = Owed \ {c} /\ {c} \subseteq Owed
      BY <2>3, <2>5 DEF Owed, Queued
    <3> HIDE DEF Owed
    <3>2. {c} \in SUBSET Cells
      BY <1>0, <3>1
    <3> QED BY <1>3, <2>2, <2>5, <3>1, <3>2
  <2> QED BY <2>1, <2>4, <2>5
<1>11. ASSUME NEW c \in Cells, ParkTask(c) PROVE Promise!Next
  <2>1. /\ dlq' = Enqueue(dlq, Entry("cold_path", c, TaskAttempts, clock))
        /\ lost' = lost \cup Evicted /\ mongo' = mongo /\ es' = es
        /\ pc' = pc /\ cells' = cells
    BY <1>11 DEF ParkTask, reqVars
  <2>2. Queued' = Queued \ Evicted
    BY <2>1, EnqueueExact DEF Queued, Evicted, OneRecordPerFailure, Entry
  <2>3. Owed' = Owed \ Evicted /\ Evicted \subseteq Owed
    BY <1>8, <2>1, <2>2 DEF Owed, InFlight
  <2> HIDE DEF Owed
  <2> QED BY <1>3, <1>8, <2>1, <2>3
<1>12. ASSUME NEW k \in Reconcilers, IndexOne(k) PROVE Promise!Next
  <2>1. /\ phase[k] = "index" /\ mongo' = mongo /\ dlq' = dlq /\ lost' = lost
        /\ pc' = pc /\ cells' = cells
        /\ es' = es \/ es' = es \cup {cur[k].cell}
    BY <1>12 DEF IndexOne, reqVars
  <2>2. cur[k].cell \in mongo
    BY <2>1 DEF IInv, WorkAccounted
  <2>3. Owed' = Owed \ {}
    BY <2>1 DEF Owed, InFlight, Queued
  <2> HIDE DEF Owed
  <2>4. \E docs \in SUBSET mongo : es' = es \cup docs
    <3>1. CASE es' = es
      <4>1. es' = es \cup {} /\ {} \subseteq mongo
        BY <3>1
      <4> QED BY <4>1
    <3>2. CASE es' = es \cup {cur[k].cell}
      BY <2>2, <3>2
    <3> QED BY <2>1, <3>1, <3>2
  <2>5. PICK docs \in SUBSET mongo : es' = es \cup docs
    BY <2>4
  <2>6. docs \in SUBSET Cells /\ {} \in SUBSET Cells /\ {} \subseteq es'
    BY <1>0
  <2> QED BY <1>2, <2>1, <2>3, <2>5, <2>6
<1>13. ASSUME NEW k \in Reconcilers, NEW settled \in SUBSET Cells,
              phase[k] = "remove" \/ settled = {},
              dlq' = Remove(dlq, cur[k]), settled = Queued \ Queued',
              UNCHANGED <<mongo, es, pc, cells, lost>>
       PROVE  Promise!Next
  <2>1. settled \subseteq es
    <3>1. CASE phase[k] = "remove"
      BY <1>13, <3>1, RemoveCells DEF Queued, IInv, WorkAccounted
    <3> QED BY <1>13, <3>1
  <2>2. Queued' = Queued \ settled /\ settled \cap InFlight = {}
    BY <1>13, RemoveCells DEF Queued, IInv, CellsAccounted, InFlight
  <2>3. Owed' = Owed \ settled
    BY <1>13, <2>2 DEF Owed, InFlight
  <2> HIDE DEF Owed
  <2>4. {} \in SUBSET Cells /\ {} \subseteq mongo /\ es' = es \cup {}
    BY <1>13
  <2> QED BY <1>2, <1>13, <2>1, <2>3, <2>4
<1>14. ASSUME NEW k \in Reconcilers,
              RemoveRecord(k) \/ BumpRecord(k) \/ QueueRaises(k)
       PROVE  Promise!Next \/ UNCHANGED <<mongo, es, Owed, lost>>
  <2>1. /\ UNCHANGED <<mongo, es, pc, cells, lost>>
        /\ \/ dlq' = dlq
           \/ dlq' = Remove(dlq, cur[k]) /\ phase[k] = "remove"
           \/ dlq' = Bump(dlq, cur[k], clock)
    BY <1>14 DEF RemoveRecord, BumpRecord, QueueRaises, reqVars
  <2>2. CASE EsCells(dlq') = EsCells(dlq)
    BY <2>1, <2>2 DEF Owed, InFlight, Queued
  <2>3. CASE dlq' = Remove(dlq, cur[k]) /\ phase[k] = "remove"
    <3>1. Queued \ Queued' \in SUBSET Cells
      BY <1>0 DEF Owed
    <3> QED BY <1>13, <2>1, <2>3, <3>1
  <2> QED BY <1>0, <2>1, <2>2, <2>3, BumpCells
<1>15. CASE Crash
  <2>1. /\ UNCHANGED <<mongo, es, cells>>
        /\ \A r \in Requests : pc'[r] \notin {"persisted", "enqueue"}
        /\ \/ dlq' = dlq /\ lost' = lost \cup InFlight
           \/ dlq' = {} /\ lost' = lost \cup InFlight \cup Queued
    BY <1>15 DEF Crash
  <2>2. InFlight' = {} /\ InFlight \cap Queued = {}
    BY <2>1 DEF InFlight, IInv, CellsAccounted
  <2>3. CASE dlq' = dlq /\ lost' = lost \cup InFlight
    <3>1. Owed' = Owed \ InFlight /\ InFlight \subseteq Owed
      BY <2>2, <2>3 DEF Owed, Queued
    <3> HIDE DEF Owed
    <3> QED BY <1>0, <1>3, <2>1, <2>3, <3>1
  <2>4. CASE dlq' = {} /\ lost' = lost \cup InFlight \cup Queued
    <3>1. Owed' = Owed \ Owed /\ lost' = lost \cup Owed
      BY <2>2, <2>4 DEF Owed, Queued, EsCells
    <3> HIDE DEF Owed
    <3> QED BY <1>0, <1>3, <2>1, <3>1
  <2> QED BY <2>1, <2>3, <2>4
<1>16. CASE UNCHANGED <<mongo, es, dlq, pc, cells, lost>>
  BY <1>16 DEF Owed, InFlight, Queued
<1> QED
  BY <1>4, <1>5, <1>6, <1>9, <1>10, <1>11, <1>12, <1>14, <1>15, <1>16
  DEF Next, vars, reqVars, RequestStep, ReconcilerStep, Scan, Skip, Begin, ReadRaises

\* The detailed subsystem keeps the promise of DerivedIndex: a stored cell is
\* owed to the index until its document exists or a named fault gives it up.
THEOREM PromiseKept == Spec => ImplementsPromise
  BY RefineInit, RefineStep, Invariance, OneRecordPerFailureHolds, PTL
  DEF Spec, ImplementsPromise, Promise!Spec

-----------------------------------------------------------------------------
(* The queue on Redis: what its commands make of the list *)

\* Min(T) is the least of a set of places.
LEMMA LeastHolds ==
  ASSUME NEW T, T \subseteq Nat, T # {}
  PROVE  R!Min(T) \in T /\ R!Min(T) \in Nat /\ \A y \in T : R!Min(T) <= y
<1> DEFINE less == {p \in Nat \X Nat : p[1] < p[2]}
<1>0. IsWellFoundedOn(less, Nat)
  BY NatLessThanWellFounded, Zenon DEF OpToRel
<1>1. \A x, y \in Nat : y < x => <<y, x>> \in less
  OBVIOUS
<1> HIDE DEF less
<1>2. PICK x \in T : \A y \in T : ~ (<<y, x>> \in less)
  BY <1>0, WFMin, Zenon
<1>3. \A y \in T : x \in Nat /\ y \in Nat /\ ~(y < x)
  BY <1>1, <1>2
<1>4. \A y \in T : x <= y
  BY <1>3
<1> QED BY <1>4 DEF R!Min

\* No two records of a list are of one cell.
Distinct(list) == \A i, j \in 1..Len(list) : list[i].cell = list[j].cell => i = j

\* Some records of a list, each taken once.
PartOf(part, list) ==
  \E place \in [1..Len(part) -> 1..Len(list)] :
    /\ \A i, j \in 1..Len(part) : place[i] = place[j] => i = j
    /\ \A i \in 1..Len(part) : part[i] = list[place[i]]

\* The cells of a list, by its places.
LEMMA CellsOfHolds ==
  ASSUME NEW list \in Seq(R!Record)
  PROVE  /\ Len(list) \in Nat /\ DOMAIN list = 1..Len(list)
         /\ \A i \in 1..Len(list) : list[i] \in R!Record
         /\ \A d : d \in R!CellsOf(list) <=> \E i \in 1..Len(list) : list[i].cell = d
  BY LenProperties, ElementOfSeq DEF R!CellsOf

\* A part of a list has no cells of its own and no twins that the list has not.
LEMMA PartHolds ==
  ASSUME NEW list \in Seq(R!Record), NEW part \in Seq(R!Record), PartOf(part, list)
  PROVE  /\ R!CellsOf(part) \subseteq R!CellsOf(list)
         /\ Distinct(list) => Distinct(part)
         /\ \A i \in 1..Len(part) : \E j \in 1..Len(list) : part[i] = list[j]
<1>1. PICK place \in [1..Len(part) -> 1..Len(list)] :
        /\ \A i, j \in 1..Len(part) : place[i] = place[j] => i = j
        /\ \A i \in 1..Len(part) : part[i] = list[place[i]]
  BY DEF PartOf
<1>2. \A i \in 1..Len(part) : \E j \in 1..Len(list) : part[i] = list[j]
  BY <1>1
<1>3. R!CellsOf(part) \subseteq R!CellsOf(list)
  <2>1. /\ \A d : d \in R!CellsOf(list) <=> \E i \in 1..Len(list) : list[i].cell = d
        /\ \A d : d \in R!CellsOf(part) <=> \E i \in 1..Len(part) : part[i].cell = d
    BY CellsOfHolds
  <2> QED BY <1>2, <2>1
<1>4. ASSUME Distinct(list), NEW i \in 1..Len(part), NEW j \in 1..Len(part),
             part[i].cell = part[j].cell
      PROVE  i = j
  <2>1. /\ place[i] \in 1..Len(list) /\ place[j] \in 1..Len(list)
        /\ list[place[i]].cell = list[place[j]].cell
    BY <1>1, <1>4
  <2>2. place[i] = place[j]
    BY ONLY <1>4, <2>1 DEF Distinct
  <2> QED BY ONLY <1>1, <2>2, i \in 1..Len(part), j \in 1..Len(part)
<1>5. Distinct(list) => Distinct(part)
  BY ONLY <1>4 DEF Distinct
<1> QED BY <1>2, <1>3, <1>5

\* LTRIM and LRANGE take the newest records.
LEMMA PrefixHolds ==
  ASSUME NEW list \in Seq(R!Record), NEW n \in Nat, n <= Len(list)
  PROVE  SubSeq(list, 1, n) \in Seq(R!Record) /\ PartOf(SubSeq(list, 1, n), list)
<1> DEFINE part == SubSeq(list, 1, n)
<1>1. Len(list) \in Nat /\ \A i \in 1..n : list[i] \in R!Record
  BY CellsOfHolds
<1>2. /\ part \in Seq(R!Record) /\ Len(part) = n
      /\ \A i \in 1..n : part[i] = list[i]
  BY <1>1, SubSeqProperties
<1> HIDE DEF part
<1>3. PartOf(part, list)
  <2> DEFINE place == [i \in 1..n |-> i]
  <2>1. /\ place \in [1..Len(part) -> 1..Len(list)]
        /\ \A i, j \in 1..Len(part) : place[i] = place[j] => i = j
        /\ \A i \in 1..Len(part) : part[i] = list[place[i]]
    BY <1>1, <1>2
  <2> HIDE DEF place
  <2> QED BY <2>1 DEF PartOf
<1> QED BY <1>2, <1>3 DEF part

\* LPUSH puts a record in front.
LEMMA FrontHolds ==
  ASSUME NEW list \in Seq(R!Record), NEW r \in R!Record
  PROVE  /\ <<r>> \o list \in Seq(R!Record)
         /\ R!CellsOf(<<r>> \o list) = R!CellsOf(list) \cup {r.cell}
         /\ Distinct(list) /\ r.cell \notin R!CellsOf(list) => Distinct(<<r>> \o list)
         /\ \A i \in 1..Len(<<r>> \o list) :
              \/ (<<r>> \o list)[i] = r
              \/ \E j \in 1..Len(list) : (<<r>> \o list)[i] = list[j]
<1> DEFINE new == <<r>> \o list
<1>0. <<r>> \in Seq(R!Record) /\ Len(<<r>>) = 1 /\ <<r>>[1] = r
  OBVIOUS
<1>1. /\ new \in Seq(R!Record) /\ Len(new) = 1 + Len(list) /\ Len(list) \in Nat
      /\ \A i \in 1..(1 + Len(list)) : new[i] = IF i <= 1 THEN <<r>>[i] ELSE list[i - 1]
  BY <1>0, ConcatProperties, CellsOfHolds
<1> HIDE DEF new
<1>2. /\ new[1] = r /\ 1 \in 1..Len(new)
      /\ \A j \in 1..Len(list) : j + 1 \in 1..Len(new) /\ new[j + 1] = list[j]
      /\ \A i \in 1..Len(new) : i = 1 \/ \E j \in 1..Len(list) : i = j + 1
  <2>1. new[1] = r /\ 1 \in 1..Len(new)
    BY <1>0, <1>1
  <2>2. ASSUME NEW j \in 1..Len(list) PROVE j + 1 \in 1..Len(new) /\ new[j + 1] = list[j]
    <3>1. j + 1 \in 1..(1 + Len(list)) /\ ~(j + 1 <= 1) /\ (j + 1) - 1 = j
      BY <1>1
    <3> QED BY <1>1, <3>1
  <2>3. ASSUME NEW i \in 1..Len(new), i # 1 PROVE \E j \in 1..Len(list) : i = j + 1
    <3>1. i - 1 \in 1..Len(list) /\ i = (i - 1) + 1
      BY <1>1, <2>3
    <3> QED BY <3>1
  <2> QED BY <2>1, <2>2, <2>3
<1>3. \A i \in 1..Len(new) : new[i] = r \/ \E j \in 1..Len(list) : new[i] = list[j]
  BY <1>2
<1>4. R!CellsOf(new) = R!CellsOf(list) \cup {r.cell}
  <2>1. \A d : d \in R!CellsOf(new) <=> \E i \in 1..Len(new) : new[i].cell = d
    BY <1>1, CellsOfHolds
  <2>2. \A d : d \in R!CellsOf(list) <=> \E i \in 1..Len(list) : list[i].cell = d
    BY CellsOfHolds
  <2>3. ASSUME NEW d PROVE d \in R!CellsOf(new) <=> d \in R!CellsOf(list) \cup {r.cell}
    <3>1. ASSUME NEW i \in 1..Len(new), new[i].cell = d
          PROVE  d = r.cell \/ \E j \in 1..Len(list) : list[j].cell = d
      BY ONLY <1>3, <3>1
    <3>2. ASSUME NEW j \in 1..Len(list), list[j].cell = d
          PROVE  \E i \in 1..Len(new) : new[i].cell = d
      BY ONLY <1>2, <3>2
    <3>3. d = r.cell => \E i \in 1..Len(new) : new[i].cell = d
      BY ONLY <1>2
    <3> QED BY ONLY <2>1, <2>2, <3>1, <3>2, <3>3
  <2> QED BY <2>3
<1>5. ASSUME Distinct(list), r.cell \notin R!CellsOf(list) PROVE Distinct(new)
  <2>1. \A j \in 1..Len(list) : list[j].cell # r.cell
    BY <1>5, CellsOfHolds
  <2> SUFFICES ASSUME NEW i \in 1..Len(new), NEW j \in 1..Len(new), new[i].cell = new[j].cell
               PROVE  i = j
    BY DEF Distinct
  <2>2. CASE i = 1 \/ j = 1
    BY <1>2, <2>1, <2>2
  <2>3. CASE i # 1 /\ j # 1
    <3>1. PICK p \in 1..Len(list), q \in 1..Len(list) : i = p + 1 /\ j = q + 1
      BY <1>2, <2>3
    <3> QED BY <1>2, <1>5, <3>1 DEF Distinct
  <2> QED BY <2>2, <2>3
<1> QED BY <1>1, <1>3, <1>4, <1>5 DEF new

\* A sequence without one of its places.
LEMMA RemoveAtHolds ==
  ASSUME NEW list \in Seq(R!Record), NEW i \in 1..Len(list)
  PROVE  /\ R!RemoveAt(list, i) \in Seq(R!Record)
         /\ Len(R!RemoveAt(list, i)) = Len(list) - 1
         /\ \A k \in 1..(Len(list) - 1) :
              R!RemoveAt(list, i)[k] = list[IF k < i THEN k ELSE k + 1]
<1> DEFINE a == SubSeq(list, 1, i - 1)
           b == SubSeq(list, i + 1, Len(list))
<1>0. Len(list) \in Nat /\ i \in Nat /\ 1 <= i /\ i <= Len(list)
  BY CellsOfHolds
<1>1. /\ a \in Seq(R!Record) /\ Len(a) = i - 1 /\ \A k \in 1..(i - 1) : a[k] = list[k]
      /\ b \in Seq(R!Record) /\ Len(b) = Len(list) - i
      /\ \A k \in 1..(Len(list) - i) : b[k] = list[i + k]
  <2>1. \A k \in 1..Len(list) : list[k] \in R!Record
    BY CellsOfHolds
  <2>2. /\ a \in Seq(R!Record) /\ Len(a) = i - 1 /\ \A k \in 1..(i - 1) : a[k] = list[k]
    <3>1. 1..(i - 1) \subseteq 1..Len(list)
      BY <1>0
    <3> QED BY <1>0, <2>1, <3>1, SubSeqProperties
  <2>3. /\ b \in Seq(R!Record) /\ Len(b) = Len(list) - i
        /\ \A k \in 1..(Len(list) - i) : b[k] = list[i + k]
    <3>1. (i + 1)..Len(list) \subseteq 1..Len(list)
      BY <1>0
    <3> QED BY <1>0, <2>1, <3>1, SubSeqProperties
  <2> QED BY <2>2, <2>3
<1>2. R!RemoveAt(list, i) = a \o b
  BY DEF R!RemoveAt
<1> HIDE DEF a, b
<1>3. /\ a \o b \in Seq(R!Record) /\ Len(a \o b) = Len(a) + Len(b)
      /\ \A k \in 1..(Len(a) + Len(b)) :
           (a \o b)[k] = IF k <= Len(a) THEN a[k] ELSE b[k - Len(a)]
  BY ONLY <1>1, ConcatProperties
<1>4. ASSUME NEW k \in 1..(Len(list) - 1)
      PROVE  (a \o b)[k] = list[IF k < i THEN k ELSE k + 1]
  <2>1. CASE k < i
    BY <1>0, <1>1, <1>3, <2>1
  <2>2. CASE ~(k < i)
    <3>1. /\ ~(k <= Len(a)) /\ k - Len(a) \in 1..(Len(list) - i)
          /\ i + (k - Len(a)) = k + 1 /\ k \in 1..(Len(a) + Len(b))
      BY <1>0, <1>1, <2>2
    <3> QED BY <1>1, <1>3, <2>2, <3>1
  <2> QED BY <2>1, <2>2
<1> QED BY <1>0, <1>1, <1>2, <1>3, <1>4

\* LREM takes one record, if it is there: its cell is all that may be lost, and
\* is lost if all records of that cell are this one and there are no twins.
LEMMA WithoutHolds ==
  ASSUME NEW list \in Seq(R!Record), NEW r
  PROVE  /\ R!Without(list, r) \in Seq(R!Record)
         /\ PartOf(R!Without(list, r), list)
         /\ R!CellsOf(list) \subseteq R!CellsOf(R!Without(list, r)) \cup {r.cell}
         /\ (Distinct(list) /\ \A i \in 1..Len(list) : list[i].cell = r.cell => list[i] = r)
              => r.cell \notin R!CellsOf(R!Without(list, r))
<1> DEFINE places == {i \in DOMAIN list : list[i] = r}
           rest == R!Without(list, r)
           n == Len(list)
<1>0. /\ n \in Nat /\ DOMAIN list = 1..n
      /\ \A d : d \in R!CellsOf(list) <=> \E i \in 1..n : list[i].cell = d
  BY CellsOfHolds
<1>1. CASE places = {}
  <2>1. rest = list
    BY <1>1 DEF R!Without
  <2>2. PartOf(list, list)
    <3> DEFINE place == [i \in 1..n |-> i]
    <3>1. /\ place \in [1..n -> 1..n]
          /\ \A i, j \in 1..n : place[i] = place[j] => i = j
          /\ \A i \in 1..n : list[i] = list[place[i]]
      BY <1>0
    <3> HIDE DEF place
    <3> QED BY <3>1 DEF PartOf
  <2>3. \A i \in 1..n : list[i] # r
    BY <1>0, <1>1
  <2> QED BY <1>0, <2>1, <2>2, <2>3
<1>2. CASE places # {}
  <2>1. PICK i \in 1..n : list[i] = r /\ rest = R!RemoveAt(list, i)
    <3>1. places \subseteq Nat
      BY <1>0
    <3>2. R!Min(places) \in places
      BY <1>2, <3>1, LeastHolds
    <3>3. rest = R!RemoveAt(list, R!Min(places))
      BY <1>2 DEF R!Without
    <3> QED BY <1>0, <3>2, <3>3
  <2> HIDE DEF rest, places
  <2> DEFINE from(k) == IF k < i THEN k ELSE k + 1
  <2>2. /\ rest \in Seq(R!Record) /\ Len(rest) = n - 1
        /\ \A k \in 1..(n - 1) : rest[k] = list[from(k)]
    BY <2>1, RemoveAtHolds
  <2>3. /\ \A k \in 1..(n - 1) : from(k) \in 1..n /\ from(k) # i
        /\ \A k, l \in 1..(n - 1) : from(k) = from(l) => k = l
        /\ \A j \in 1..n : j = i \/ \E k \in 1..(n - 1) : j = from(k)
    <3>1. /\ \A k \in 1..(n - 1) : from(k) \in 1..n /\ from(k) # i
          /\ \A k, l \in 1..(n - 1) : from(k) = from(l) => k = l
      BY <1>0
    <3>2. ASSUME NEW j \in 1..n, j # i PROVE \E k \in 1..(n - 1) : j = from(k)
      <4>1. CASE j < i
        <5>1. j \in 1..(n - 1) /\ j = from(j)
          BY <1>0, <4>1
        <5> HIDE DEF from
        <5> QED BY <5>1
      <4>2. CASE ~(j < i)
        <5>1. j - 1 \in 1..(n - 1) /\ j = from(j - 1)
          BY <1>0, <3>2, <4>2
        <5> HIDE DEF from
        <5> QED BY <5>1
      <4> QED BY <4>1, <4>2
    <3> QED BY <3>1, <3>2
  <2> HIDE DEF from
  <2>4. PartOf(rest, list)
    <3> DEFINE place == [k \in 1..(n - 1) |-> from(k)]
    <3>1. /\ place \in [1..Len(rest) -> 1..n]
          /\ \A k, l \in 1..Len(rest) : place[k] = place[l] => k = l
          /\ \A k \in 1..Len(rest) : rest[k] = list[place[k]]
      BY <2>2, <2>3
    <3> HIDE DEF place
    <3> QED BY <3>1 DEF PartOf
  <2>5. \A d : d \in R!CellsOf(rest) <=> \E k \in 1..(n - 1) : rest[k].cell = d
    BY <2>2, CellsOfHolds
  <2>6. R!CellsOf(list) \subseteq R!CellsOf(rest) \cup {r.cell}
    <3> SUFFICES ASSUME NEW d \in R!CellsOf(list), d # r.cell PROVE d \in R!CellsOf(rest)
      OBVIOUS
    <3>1. PICK j \in 1..n : list[j].cell = d
      BY <1>0
    <3>2. j # i
      BY <2>1, <3>1
    <3>3. PICK k \in 1..(n - 1) : j = from(k)
      BY <2>3, <3>2
    <3> QED BY <2>2, <2>5, <3>1, <3>3
  <2>7. Distinct(list) => r.cell \notin R!CellsOf(rest)
    <3> SUFFICES ASSUME Distinct(list), r.cell \in R!CellsOf(rest) PROVE FALSE
      OBVIOUS
    <3>1. PICK k \in 1..(n - 1) : rest[k].cell = r.cell
      BY <2>5
    <3>2. list[from(k)].cell = list[i].cell /\ from(k) \in 1..n /\ from(k) # i
      BY <2>1, <2>2, <2>3, <3>1
    <3> QED BY <3>2 DEF Distinct
  <2> QED BY <2>2, <2>4, <2>6, <2>7 DEF rest
<1> QED BY <1>1, <1>2

-----------------------------------------------------------------------------
(* The queue on Redis: its clients *)

\* What a client has in hand when it retries a record is a record, and it removes
\* one only when the cell is in the index.  A cell that nobody enqueued has no
\* record, in the list or in the hands of a bump.
HandsHold ==
  /\ \A k \in R!Clients :
       at[k] \in {"index", "remove", "bump", "lrem", "lrem_bump", "lpush"} => hand[k] \in R!Record
  /\ \A k \in R!Clients : at[k] \in {"remove", "lrem"} => hand[k].cell \in indexed
  /\ \A d \in FailedCells : enqueued[d] = "no" => d \notin R!CellsOf(items)
  /\ \A k \in R!Clients : at[k] \in {"lrem", "lrem_bump", "lpush"} => enqueued[hand[k].cell] # "no"

\* A replica inside has the lock, unless it ran out under it or was deleted; the
\* official lock is deleted by nobody but its holder.
LockHeld ==
  /\ \A k \in Replicas \cap R!Inside : lock = k \/ k \in outlived \cup robbed
  /\ R!OfficialLock => robbed = {} /\ \A k \in R!Clients : at[k] # "delete"

\* Until two reconciles overlap there are no twins: a bump finds its record
\* unchanged, and while it has it in hand the list has none of that cell.
NoTwins ==
  ~overlap =>
    /\ \A j, k \in R!Inside : j = k
    /\ Distinct(items)
    /\ \A k \in R!Clients : at[k] \in {"lrem", "lrem_bump"} =>
         \A i \in 1..Len(items) : items[i].cell = hand[k].cell => items[i] = hand[k]
    /\ \A k \in R!Clients : at[k] = "lpush" => hand[k].cell \notin R!CellsOf(items)

RedisInv == R!TypeOK /\ HandsHold /\ LockHeld /\ NoTwins /\ R!RecordKept
\* A step is an enqueue, a step of a reconcile, or the lock's expiry.
LEMMA RedisActions ==
  ASSUME R!TypeOK, R!Next
  PROVE  \/ \E d \in FailedCells : R!Push(d) \/ R!PushFails(d) \/ R!Trim(d)
         \/ \E k \in R!Clients :
              \/ R!Acquire(k) \/ R!Call(k) \/ R!Release(k) \/ R!GetToken(k) \/ R!DeleteKey(k)
              \/ R!Scan(k) \/ R!Take(k) \/ R!End(k) \/ R!IndexOne(k) \/ R!Find(k)
              \/ R!Lrem(k) \/ R!Lpush(k) \/ R!CommandFails(k) \/ R!Crash(k)
         \/ R!Expire
<1>1. launch.cells \subseteq FailedCells /\ launch.reconcilers \subseteq R!Clients
  BY ReplicaAssumption DEF R!TypeOK, R!Clients
<1> QED BY <1>1 DEF R!Next, R!Enqueue, R!Reconcile

\* An enqueue pushes its record, and trims the list or loses it.
LEMMA EnqueueHolds ==
  ASSUME R!TypeOK, NEW d \in FailedCells, R!Push(d) \/ R!PushFails(d) \/ R!Trim(d)
  PROVE  /\ items' \in Seq(R!Record)
         /\ \/ /\ enqueued[d] = "no" /\ enqueued'[d] # "no"
               /\ \/ items' = <<[cell |-> d, retry |-> 0]>> \o items /\ UNCHANGED gone
                  \/ items' = items /\ gone' = gone \cup {d}
            \/ /\ enqueued[d] # "no" /\ enqueued'[d] # "no" /\ PartOf(items', items)
               /\ gone' = gone \cup (R!CellsOf(items) \ R!CellsOf(items'))
         /\ enqueued' \in [FailedCells -> {"no", "pushed", "done"}]
         /\ \A e \in FailedCells : e # d => enqueued'[e] = enqueued[e]
         /\ UNCHANGED <<launch, indexed, at, listed, hand, lock, outlived, robbed, overlap>>
<1> DEFINE new == [cell |-> d, retry |-> 0]
<1>0. items \in Seq(R!Record) /\ new \in R!Record /\ <<new>> \o items \in Seq(R!Record)
  <2>1. items \in Seq(R!Record) /\ new \in R!Record
    BY DEF R!TypeOK, R!Record
  <2> QED BY <2>1, FrontHolds
<1>1. enqueued \in [FailedCells -> {"no", "pushed", "done"}]
  BY DEF R!TypeOK
<1>2. CASE R!Push(d) \/ R!PushFails(d)
  BY <1>0, <1>1, <1>2 DEF R!Push, R!PushFails, R!locals, R!locking
<1>3. CASE R!Trim(d)
  <2> DEFINE n == R!Min({RedisSize, Len(items)})
  <2>1. n \in Nat /\ n <= Len(items)
    <3>1. {RedisSize, Len(items)} \subseteq Nat
      BY <1>0, SizeAssumption, CellsOfHolds
    <3> QED BY <3>1, LeastHolds
  <2> HIDE DEF n
  <2>2. SubSeq(items, 1, n) \in Seq(R!Record) /\ PartOf(SubSeq(items, 1, n), items)
    BY <1>0, <2>1, PrefixHolds
  <2>3. /\ items' = SubSeq(items, 1, n)
        /\ gone' = gone \cup (R!CellsOf(items) \ R!CellsOf(SubSeq(items, 1, n)))
    BY <1>3 DEF R!Trim, n
  <2>4. /\ enqueued[d] # "no" /\ enqueued' = [enqueued EXCEPT ![d] = "done"]
        /\ UNCHANGED <<launch, indexed, at, listed, hand, lock, outlived, robbed, overlap>>
    BY <1>3 DEF R!Trim, R!locals, R!locking
  <2> QED BY <1>1, <2>2, <2>3, <2>4
<1> QED BY <1>2, <1>3

\* What the steps of a reconcile do to the list: nothing, an LREM of the record
\* in hand, or its LPUSH.
LEMMA ReconcileHolds ==
  ASSUME R!TypeOK, HandsHold, NEW k \in R!Clients,
         \/ R!Lrem(k) \/ R!Lpush(k) \/ R!CommandFails(k)
  PROVE  /\ items' \in Seq(R!Record)
         /\ \/ items' = items
            \/ at[k] \in {"lrem", "lrem_bump"} /\ items' = R!Without(items, hand[k])
            \/ at[k] = "lpush" /\ items' = <<hand[k]>> \o items
         /\ R!CellsOf(items') \subseteq
              R!CellsOf(items) \cup (IF at[k] = "lpush" THEN {hand[k].cell} ELSE {})
         /\ R!CellsOf(items) \subseteq R!CellsOf(items') \cup {hand[k].cell}
<1>0. /\ items \in Seq(R!Record)
      /\ at[k] = "lpush" => hand[k] \in R!Record
  BY DEF R!TypeOK, HandsHold
<1>1. \/ items' = items
      \/ at[k] \in {"lrem", "lrem_bump"} /\ items' = R!Without(items, hand[k])
      \/ at[k] = "lpush" /\ items' = <<hand[k]>> \o items
  BY DEF R!Lrem, R!Lpush, R!CommandFails
<1>2. CASE items' = items
  BY <1>0, <1>2
<1>3. CASE at[k] \in {"lrem", "lrem_bump"} /\ items' = R!Without(items, hand[k])
  BY <1>0, <1>3, WithoutHolds, PartHolds
<1>4. CASE at[k] = "lpush" /\ items' = <<hand[k]>> \o items
  BY <1>0, <1>4, FrontHolds
<1> QED BY <1>1, <1>2, <1>3, <1>4
\* Finding a record takes one of its cell from the list.
LEMMA FindHolds ==
  ASSUME R!TypeOK, NEW k \in R!Clients, R!Find(k)
  PROVE  \/ R!Go(k, "next") /\ hand' = [hand EXCEPT ![k] = R!NoRecord]
         \/ \E i \in 1..Len(items) :
              /\ items[i] \in R!Record /\ items[i].cell = hand[k].cell
              /\ items[i].cell \in R!CellsOf(items)
              /\ hand' = [hand EXCEPT ![k] = items[i]]
              /\ R!Go(k, IF at[k] = "remove" THEN "lrem" ELSE "lrem_bump")
<1> DEFINE found == {i \in DOMAIN items : items[i].cell = hand[k].cell}
<1>0. /\ items \in Seq(R!Record)
      /\ Len(items) \in Nat /\ DOMAIN items = 1..Len(items)
      /\ \A i \in 1..Len(items) : items[i] \in R!Record /\ items[i].cell \in R!CellsOf(items)
  BY CellsOfHolds DEF R!TypeOK
<1>1. found # {} => R!Min(found) \in found
  <2>1. found \subseteq Nat
    BY <1>0
  <2> QED BY <2>1, LeastHolds
<1>2. \/ found = {} /\ R!Go(k, "next") /\ hand' = [hand EXCEPT ![k] = R!NoRecord]
      \/ /\ found # {} /\ hand' = [hand EXCEPT ![k] = items[R!Min(found)]]
         /\ R!Go(k, IF at[k] = "remove" THEN "lrem" ELSE "lrem_bump")
  BY DEF R!Find
<1> QED BY <1>0, <1>1, <1>2

\* Every step keeps the queue well typed.
LEMMA RedisTypeStep == R!TypeOK /\ HandsHold /\ R!Next => R!TypeOK'
<1> SUFFICES ASSUME R!TypeOK, HandsHold, R!Next PROVE R!TypeOK'
  OBVIOUS
<1> USE DEF R!TypeOK, R!Go, R!Enter, R!locals, R!locking
<1>0. /\ Replicas \subseteq R!Clients /\ items \in Seq(R!Record)
      /\ \A k \in R!Clients : listed[k] \in Seq(R!Record) /\ <<>> \in Seq(R!Record)
  BY DEF R!Clients
<1>1. ASSUME NEW d \in FailedCells, R!Push(d) \/ R!PushFails(d) \/ R!Trim(d) PROVE R!TypeOK'
  <2>1. gone' \subseteq FailedCells
    <3>1. R!CellsOf(items) \subseteq FailedCells
      <4>1. \A r \in R!Record : r.cell \in FailedCells
        BY DEF R!Record
      <4>2. /\ \A i \in 1..Len(items) : items[i] \in R!Record
            /\ \A e : e \in R!CellsOf(items) <=> \E i \in 1..Len(items) : items[i].cell = e
        BY ONLY <1>0, CellsOfHolds
      <4> QED BY ONLY <4>1, <4>2
    <3>2. gone \subseteq FailedCells
      OBVIOUS
    <3> QED BY ONLY R!TypeOK, <1>1, <3>1, <3>2, EnqueueHolds
  <2> QED BY <1>1, <2>1, EnqueueHolds
<1>2. ASSUME NEW k \in R!Clients, R!Acquire(k) \/ R!Call(k) PROVE R!TypeOK'
  BY <1>0, <1>2 DEF R!Acquire, R!Call
<1>3. ASSUME NEW k \in R!Clients, R!Release(k) \/ R!GetToken(k) PROVE R!TypeOK'
  BY <1>0, <1>3 DEF R!Release, R!GetToken
<1>4. ASSUME NEW k \in R!Clients, R!DeleteKey(k) PROVE R!TypeOK'
  <2>1. {lock} \cap (R!Inside \ {k}) \subseteq Replicas
    BY ReplicaAssumption DEF R!Inside, R!Clients
  <2> QED BY <1>0, <1>4, <2>1 DEF R!DeleteKey
<1>5. ASSUME NEW k \in R!Clients, R!Scan(k) PROVE R!TypeOK'
  <2> DEFINE n == R!Min({Limit, RedisSize, Len(items)})
  <2>1. n \in Nat /\ n <= Len(items)
    <3>1. {Limit, RedisSize, Len(items)} \subseteq Nat
      BY <1>0, SizeAssumption, CellsOfHolds
    <3> QED BY <3>1, LeastHolds
  <2> HIDE DEF n
  <2>2. SubSeq(items, 1, n) \in Seq(R!Record)
    BY <1>0, <2>1, PrefixHolds
  <2>3. listed' = [listed EXCEPT ![k] = SubSeq(items, 1, n)]
    BY <1>5 DEF R!Scan, n
  <2> QED BY <1>0, <1>5, <2>2, <2>3 DEF R!Scan
<1>6. ASSUME NEW k \in R!Clients, R!Take(k) PROVE R!TypeOK'
  <2>1. Head(listed[k]) \in R!Record /\ Tail(listed[k]) \in Seq(R!Record)
    BY <1>0, <1>6, HeadTailProperties DEF R!Take
  <2> QED BY <1>0, <1>6, <2>1 DEF R!Take
<1>7. ASSUME NEW k \in R!Clients, R!End(k) PROVE R!TypeOK'
  BY <1>0, <1>7 DEF R!End
<1>8. ASSUME NEW k \in R!Clients, R!IndexOne(k) PROVE R!TypeOK'
  BY <1>0, <1>8 DEF R!IndexOne, HandsHold, R!Record
<1>9. ASSUME NEW k \in R!Clients, R!Find(k) PROVE R!TypeOK'
  BY <1>0, <1>9, FindHolds DEF R!Find
<1>10. ASSUME NEW k \in R!Clients, R!Lrem(k) PROVE R!TypeOK'
  <2>0. at[k] = "lrem_bump" => hand[k] \in R!Record
    BY DEF HandsHold
  <2>1. at[k] = "lrem_bump" => [hand[k] EXCEPT !.retry = @ + 1] \in R!Record
    BY ONLY <2>0 DEF R!Record
  <2>2. items' \in Seq(R!Record)
    BY <1>10, ReconcileHolds
  <2> QED BY <1>0, <1>10, <2>1, <2>2 DEF R!Lrem
<1>11. ASSUME NEW k \in R!Clients, R!Lpush(k) PROVE R!TypeOK'
  <2>2. items' \in Seq(R!Record)
    BY <1>11, ReconcileHolds
  <2> QED BY <1>0, <1>11, <2>2 DEF R!Lpush
<1>12. ASSUME NEW k \in R!Clients, R!CommandFails(k) PROVE R!TypeOK'
  <2>2. items' \in Seq(R!Record)
    BY <1>12, ReconcileHolds
  <2>3. gone' \subseteq FailedCells
    BY <1>12 DEF R!CommandFails, HandsHold, R!Record
  <2> QED BY <1>0, <1>12, <2>2, <2>3 DEF R!CommandFails
<1>13. ASSUME NEW k \in R!Clients, R!Crash(k) PROVE R!TypeOK'
  <2>3. gone' \subseteq FailedCells
    BY <1>13 DEF R!Crash, HandsHold, R!Record
  <2> QED BY <1>0, <1>13, <2>3 DEF R!Crash
<1>14. ASSUME R!Expire PROVE R!TypeOK'
  BY <1>0, <1>14 DEF R!Expire, R!Nobody
<1> QED
  BY <1>1, <1>2, <1>3, <1>4, <1>5, <1>6, <1>7, <1>8, <1>9, <1>10, <1>11, <1>12, <1>13,
     <1>14, RedisActions
\* Every step leaves in hand what its place says.
LEMMA HandsStep == R!TypeOK /\ HandsHold /\ R!Next => HandsHold'
<1> SUFFICES ASSUME R!TypeOK, HandsHold, R!Next PROVE HandsHold'
  OBVIOUS
<1> USE DEF R!Go, R!Enter, R!locals, R!locking
<1>0. /\ at \in [R!Clients -> {"idle", "scan", "next", "index", "remove", "lrem", "bump",
                              "lrem_bump", "lpush", "release", "delete"}]
      /\ hand \in [R!Clients -> R!Record \cup {R!NoRecord}]
      /\ listed \in [R!Clients -> Seq(R!Record)]
      /\ \A r \in R!Record : r.cell \in FailedCells
      /\ items \in Seq(R!Record)
  BY DEF R!TypeOK, R!Record
<1>1. ASSUME NEW d \in FailedCells, R!Push(d) \/ R!PushFails(d) \/ R!Trim(d) PROVE HandsHold'
  <2>1. \A e \in FailedCells : enqueued'[e] = "no" =>
          enqueued[e] = "no" /\ e # d /\ e \notin R!CellsOf(items')
    <3>1. PartOf(items', items) => R!CellsOf(items') \subseteq R!CellsOf(items)
      BY <1>0, <1>1, EnqueueHolds, PartHolds
    <3>2. items' = <<[cell |-> d, retry |-> 0]>> \o items =>
            R!CellsOf(items') = R!CellsOf(items) \cup {d}
      <4>1. [cell |-> d, retry |-> 0] \in R!Record /\ [cell |-> d, retry |-> 0].cell = d
        BY DEF R!Record
      <4> QED BY <1>0, <4>1, FrontHolds
    <3>3. /\ \A e \in FailedCells : e # d => enqueued'[e] = enqueued[e]
          /\ enqueued'[d] # "no"
          /\ \/ items' = items \/ PartOf(items', items)
             \/ items' = <<[cell |-> d, retry |-> 0]>> \o items
      BY <1>1, EnqueueHolds
    <3>4. \A e \in FailedCells : enqueued[e] = "no" => e \notin R!CellsOf(items)
      BY DEF HandsHold
    <3> QED BY <3>1, <3>2, <3>3, <3>4
  <2>2. /\ UNCHANGED <<at, hand, indexed>>
        /\ \A e \in FailedCells : enqueued[e] # "no" => enqueued'[e] # "no"
    BY <1>1, EnqueueHolds
  <2>3. \A k \in R!Clients : at[k] \in {"lrem", "lrem_bump", "lpush"} => hand[k].cell \in FailedCells
    BY <1>0 DEF HandsHold
  <2> QED BY <2>1, <2>2, <2>3 DEF HandsHold
<1>2. ASSUME NEW k \in R!Clients,
             \/ R!Acquire(k) \/ R!Call(k) \/ R!Release(k) \/ R!GetToken(k) \/ R!DeleteKey(k)
             \/ R!Scan(k) \/ R!End(k)
      PROVE  HandsHold'
  <2>1. /\ UNCHANGED <<items, hand, enqueued, indexed>>
        /\ \E place \in {"idle", "scan", "next", "release", "delete"} :
             at' = [at EXCEPT ![k] = place]
    BY <1>2 DEF R!Acquire, R!Call, R!Release, R!GetToken, R!DeleteKey, R!Scan, R!End
  <2> QED BY <1>0, <2>1 DEF HandsHold
<1>3. ASSUME NEW k \in R!Clients, R!Take(k) PROVE HandsHold'
  <2>1. Head(listed[k]) \in R!Record
    BY <1>0, <1>3, HeadTailProperties DEF R!Take
  <2>2. /\ UNCHANGED <<items, enqueued, indexed>>
        /\ \/ UNCHANGED <<at, hand>>
           \/ /\ at' = [at EXCEPT ![k] = "index"]
              /\ hand' = [hand EXCEPT ![k] = Head(listed[k])]
    BY <1>3 DEF R!Take
  <2> QED BY <1>0, <2>1, <2>2 DEF HandsHold
<1>4. ASSUME NEW k \in R!Clients, R!IndexOne(k) PROVE HandsHold'
  <2>1. /\ UNCHANGED <<items, enqueued, hand>> /\ indexed \subseteq indexed'
        /\ at[k] = "index"
        /\ \/ at' = [at EXCEPT ![k] = "remove"] /\ hand[k].cell \in indexed'
           \/ at' = [at EXCEPT ![k] = "bump"]
    BY <1>4 DEF R!IndexOne
  <2> QED BY <1>0, <2>1 DEF HandsHold
<1>5. ASSUME NEW k \in R!Clients, R!Find(k) PROVE HandsHold'
  <2>0. UNCHANGED <<items, enqueued, indexed>> /\ at[k] \in {"remove", "bump"}
    BY <1>5 DEF R!Find
  <2>1. CASE R!Go(k, "next") /\ hand' = [hand EXCEPT ![k] = R!NoRecord]
    BY <1>0, <2>0, <2>1 DEF HandsHold
  <2>2. ASSUME NEW i \in 1..Len(items),
               /\ items[i] \in R!Record /\ items[i].cell = hand[k].cell
               /\ items[i].cell \in R!CellsOf(items)
               /\ hand' = [hand EXCEPT ![k] = items[i]]
               /\ R!Go(k, IF at[k] = "remove" THEN "lrem" ELSE "lrem_bump")
        PROVE  HandsHold'
    <3>1. enqueued[items[i].cell] # "no"
      BY <1>0, <2>2 DEF HandsHold
    <3>2. /\ at[k] = "remove" => hand[k].cell \in indexed
          /\ hand'[k] = items[i] /\ \A j \in R!Clients : j # k => hand'[j] = hand[j] /\ at'[j] = at[j]
          /\ at'[k] = IF at[k] = "remove" THEN "lrem" ELSE "lrem_bump"
      BY <1>0, <2>2 DEF HandsHold
    <3> HIDE DEF R!Go
    <3> QED BY <2>0, <2>2, <3>1, <3>2 DEF HandsHold
  <2> QED BY <1>5, <2>1, <2>2, FindHolds
<1>6. ASSUME NEW k \in R!Clients, R!Lrem(k) \/ R!Lpush(k) \/ R!CommandFails(k) PROVE HandsHold'
  <2>1. /\ UNCHANGED <<enqueued, indexed>>
        /\ \/ /\ \E place \in {"next", "release", "idle"} : at' = [at EXCEPT ![k] = place]
              /\ hand' = [hand EXCEPT ![k] = R!NoRecord]
           \/ /\ at[k] = "lrem_bump" /\ at' = [at EXCEPT ![k] = "lpush"]
              /\ hand' = [hand EXCEPT ![k].retry = @ + 1]
    BY <1>6 DEF R!Lrem, R!Lpush, R!CommandFails
  <2>2. \A d \in FailedCells : enqueued[d] = "no" => d \notin R!CellsOf(items')
    BY <1>0, <1>6, ReconcileHolds DEF HandsHold
  <2>3. at[k] = "lrem_bump" => /\ [hand[k] EXCEPT !.retry = @ + 1] \in R!Record
                               /\ [hand[k] EXCEPT !.retry = @ + 1].cell = hand[k].cell
    BY DEF HandsHold, R!Record
  <2> QED BY <1>0, <2>1, <2>2, <2>3 DEF HandsHold
<1>7. ASSUME NEW k \in R!Clients, R!Crash(k) PROVE HandsHold'
  BY <1>0, <1>7 DEF R!Crash, HandsHold
<1>8. ASSUME R!Expire PROVE HandsHold'
  BY <1>8 DEF R!Expire, HandsHold
<1> QED BY <1>1, <1>2, <1>3, <1>4, <1>5, <1>6, <1>7, <1>8, RedisActions

\* Every step keeps the lock with who is inside.
LEMMA LockStep == R!TypeOK /\ LockHeld /\ R!Next => LockHeld'
<1> SUFFICES ASSUME R!TypeOK, LockHeld, R!Next PROVE LockHeld'
  OBVIOUS
<1> USE DEF R!Go, R!Enter, R!locals, R!locking
<1>0. /\ at \in [R!Clients -> {"idle", "scan", "next", "index", "remove", "lrem", "bump",
                              "lrem_bump", "lpush", "release", "delete"}]
      /\ lock \in Replicas \cup {R!Nobody} /\ R!Nobody \notin R!Clients
      /\ R!Clients = Replicas \cup Admins /\ Replicas \cap Admins = {}
  BY ReplicaAssumption DEF R!TypeOK, R!Clients
<1>1. ASSUME NEW d \in FailedCells, R!Push(d) \/ R!PushFails(d) \/ R!Trim(d) PROVE LockHeld'
  <2>1. UNCHANGED <<launch, at, lock, outlived, robbed>>
    BY <1>1, EnqueueHolds
  <2> QED BY <2>1 DEF LockHeld, R!Inside, R!OfficialLock
<1>2. ASSUME NEW k \in R!Clients, R!Acquire(k) \/ R!Call(k) PROVE LockHeld'
  BY <1>0, <1>2 DEF R!Acquire, R!Call, LockHeld, R!Inside, R!OfficialLock
<1>3. ASSUME NEW k \in R!Clients, R!Release(k) \/ R!GetToken(k) PROVE LockHeld'
  BY <1>0, <1>3 DEF R!Release, R!GetToken, LockHeld, R!Inside, R!OfficialLock
<1>4. ASSUME NEW k \in R!Clients, R!DeleteKey(k) PROVE LockHeld'
  BY <1>0, <1>4 DEF R!DeleteKey, LockHeld, R!Inside, R!OfficialLock
<1>5. ASSUME NEW k \in R!Clients,
             \/ R!Scan(k) \/ R!Take(k) \/ R!End(k) \/ R!IndexOne(k) \/ R!Find(k)
             \/ R!Lrem(k) \/ R!Lpush(k) \/ R!CommandFails(k)
      PROVE  LockHeld'
  <2>1. /\ UNCHANGED <<launch, lock, outlived, robbed>>
        /\ at[k] \notin {"idle", "delete"}
        /\ \/ at' = at
           \/ \E place : place # "delete" /\ at' = [at EXCEPT ![k] = place]
    BY <1>5 DEF R!Scan, R!Take, R!End, R!IndexOne, R!Find, R!Lrem, R!Lpush, R!CommandFails
  <2>2. R!Inside' \subseteq R!Inside /\ \A j \in R!Clients : at'[j] = "delete" => at[j] = "delete"
    BY <1>0, <2>1 DEF R!Inside
  <2> QED BY <2>1, <2>2 DEF LockHeld, R!OfficialLock
<1>6. ASSUME NEW k \in R!Clients, R!Crash(k) PROVE LockHeld'
  BY <1>0, <1>6 DEF R!Crash, LockHeld, R!Inside, R!OfficialLock
<1>7. ASSUME R!Expire PROVE LockHeld'
  BY <1>0, <1>7 DEF R!Expire, LockHeld, R!Inside, R!OfficialLock
<1> QED BY <1>1, <1>2, <1>3, <1>4, <1>5, <1>6, <1>7, RedisActions

\* A step of a reconcile that is not the only one raises `overlap`.
LEMMA OneInside ==
  ASSUME R!TypeOK, NoTwins, R!Next, ~overlap'
  PROVE  ~overlap /\ \A j, k \in R!Inside' : j = k
<1> USE DEF R!Go, R!Enter, R!locals, R!locking
<1>0. /\ at \in [R!Clients -> {"idle", "scan", "next", "index", "remove", "lrem", "bump",
                              "lrem_bump", "lpush", "release", "delete"}]
      /\ overlap \in BOOLEAN
  BY DEF R!TypeOK
<1>1. ASSUME NEW d \in FailedCells, R!Push(d) \/ R!PushFails(d) \/ R!Trim(d)
      PROVE  UNCHANGED <<at, overlap>>
  BY <1>1, EnqueueHolds
<1>2. ASSUME NEW k \in R!Clients, R!Acquire(k) \/ R!Call(k)
      PROVE  /\ overlap' = (overlap \/ R!Inside # {})
             /\ at' = [at EXCEPT ![k] = "scan"]
  BY <1>2 DEF R!Acquire, R!Call
<1>3. ASSUME NEW k \in R!Clients,
             \/ R!Release(k) \/ R!GetToken(k) \/ R!DeleteKey(k)
             \/ R!Scan(k) \/ R!Take(k) \/ R!End(k) \/ R!IndexOne(k) \/ R!Find(k)
             \/ R!Lrem(k) \/ R!Lpush(k) \/ R!CommandFails(k) \/ R!Crash(k)
      PROVE  /\ overlap' = overlap
             /\ \/ at' = at
                \/ \E place : /\ at' = [at EXCEPT ![k] = place]
                              /\ at[k] \in {"idle", "delete"} => place = "idle"
  BY <1>3 DEF R!Release, R!GetToken, R!DeleteKey, R!Scan, R!Take, R!End, R!IndexOne, R!Find,
              R!Lrem, R!Lpush, R!CommandFails, R!Crash
<1>4. R!Expire => UNCHANGED <<at, overlap>>
  BY DEF R!Expire
<1>5. ASSUME UNCHANGED overlap, R!Inside' \subseteq R!Inside
      PROVE  ~overlap /\ \A j, k \in R!Inside' : j = k
  BY <1>5 DEF NoTwins
<1>6. ASSUME UNCHANGED <<at, overlap>>
      PROVE  ~overlap /\ \A j, k \in R!Inside' : j = k
  BY <1>5, <1>6 DEF R!Inside
<1>7. ASSUME NEW k \in R!Clients, overlap' = overlap,
             \/ at' = at
             \/ \E place : /\ at' = [at EXCEPT ![k] = place]
                           /\ at[k] \in {"idle", "delete"} => place = "idle"
      PROVE  ~overlap /\ \A i, j \in R!Inside' : i = j
  <2>1. R!Inside' \subseteq R!Inside
    BY <1>0, <1>7 DEF R!Inside
  <2> QED BY <1>5, <1>7, <2>1
<1>8. ASSUME NEW k \in R!Clients, overlap' = (overlap \/ R!Inside # {}),
             at' = [at EXCEPT ![k] = "scan"]
      PROVE  ~overlap /\ \A i, j \in R!Inside' : i = j
  <2>1. ~overlap /\ R!Inside = {}
    BY <1>8
  <2>2. R!Inside' \subseteq {k}
    BY <1>0, <1>8, <2>1 DEF R!Inside
  <2> QED BY <2>1, <2>2
<1> QED BY <1>1, <1>2, <1>3, <1>4, <1>6, <1>7, <1>8, RedisActions

\* As long as reconciles do not overlap, no step makes twins.
LEMMA TwinsStep == R!TypeOK /\ HandsHold /\ NoTwins /\ R!Next => NoTwins'
<1> SUFFICES ASSUME R!TypeOK, HandsHold, NoTwins, R!Next, ~overlap'
             PROVE  /\ \A j, k \in R!Inside' : j = k
                    /\ Distinct(items')
                    /\ \A k \in R!Clients : at'[k] \in {"lrem", "lrem_bump"} =>
                         \A i \in 1..Len(items') : items'[i].cell = hand'[k].cell => items'[i] = hand'[k]
                    /\ \A k \in R!Clients : at'[k] = "lpush" => hand'[k].cell \notin R!CellsOf(items')
  BY DEF NoTwins
<1> DEFINE Bumps ==
             /\ Distinct(items')
             /\ \A k \in R!Clients : at'[k] \in {"lrem", "lrem_bump"} =>
                  \A i \in 1..Len(items') : items'[i].cell = hand'[k].cell => items'[i] = hand'[k]
             /\ \A k \in R!Clients : at'[k] = "lpush" => hand'[k].cell \notin R!CellsOf(items')
<1>a. ~overlap /\ \A j, k \in R!Inside' : j = k
  BY OneInside
<1>b. /\ \A j, k \in R!Inside : j = k
      /\ Distinct(items)
      /\ \A k \in R!Clients : at[k] \in {"lrem", "lrem_bump"} =>
           \A i \in 1..Len(items) : items[i].cell = hand[k].cell => items[i] = hand[k]
      /\ \A k \in R!Clients : at[k] = "lpush" => hand[k].cell \notin R!CellsOf(items)
  BY <1>a DEF NoTwins
<1> USE DEF R!Go, R!Enter, R!locals, R!locking
<1>0. /\ at \in [R!Clients -> {"idle", "scan", "next", "index", "remove", "lrem", "bump",
                              "lrem_bump", "lpush", "release", "delete"}]
      /\ hand \in [R!Clients -> R!Record \cup {R!NoRecord}]
      /\ items \in Seq(R!Record)
  BY DEF R!TypeOK
<1>1. ASSUME NEW d \in FailedCells, R!Push(d) \/ R!PushFails(d) \/ R!Trim(d) PROVE Bumps
  <2> DEFINE new == [cell |-> d, retry |-> 0]
  <2>0. /\ UNCHANGED <<at, hand>> /\ items' \in Seq(R!Record)
        /\ \/ items' = items \/ PartOf(items', items)
           \/ enqueued[d] = "no" /\ items' = <<new>> \o items
    BY <1>1, EnqueueHolds
  <2>1. CASE items' = items
    BY <1>b, <2>0, <2>1
  <2>2. CASE PartOf(items', items)
    <3>1. /\ R!CellsOf(items') \subseteq R!CellsOf(items) /\ Distinct(items')
          /\ \A i \in 1..Len(items') : \E j \in 1..Len(items) : items'[i] = items[j]
      BY <1>0, <1>b, <2>0, <2>2, PartHolds
    <3> QED BY <1>b, <2>0, <3>1
  <2>3. CASE enqueued[d] = "no" /\ items' = <<new>> \o items
    <3>1. new \in R!Record /\ new.cell = d
      BY DEF R!Record
    <3>2. /\ d \notin R!CellsOf(items)
          /\ \A k \in R!Clients : at[k] \in {"lrem", "lrem_bump", "lpush"} => hand[k].cell # d
      BY <2>3 DEF HandsHold
    <3> HIDE DEF new
    <3>3. /\ R!CellsOf(items') = R!CellsOf(items) \cup {d} /\ Distinct(items')
          /\ \A i \in 1..Len(items') :
               items'[i] = new \/ \E j \in 1..Len(items) : items'[i] = items[j]
      BY <1>0, <1>b, <2>3, <3>1, <3>2, FrontHolds
    <3>4. \A k \in R!Clients : at'[k] = at[k] /\ hand'[k] = hand[k]
      BY <2>0
    <3>5. \A k \in R!Clients : at'[k] \in {"lrem", "lrem_bump"} =>
            \A i \in 1..Len(items') : items'[i].cell = hand'[k].cell => items'[i] = hand'[k]
      BY ONLY <1>b, <3>1, <3>2, <3>3, <3>4
    <3>6. \A k \in R!Clients : at'[k] = "lpush" => hand'[k].cell \notin R!CellsOf(items')
      BY ONLY <1>b, <3>2, <3>3, <3>4
    <3> QED BY <3>3, <3>5, <3>6
  <2> QED BY <2>0, <2>1, <2>2, <2>3
<1>2. ASSUME NEW k \in R!Clients,
             \/ R!Acquire(k) \/ R!Call(k) \/ R!Release(k) \/ R!GetToken(k) \/ R!DeleteKey(k)
             \/ R!Scan(k) \/ R!Take(k) \/ R!End(k) \/ R!IndexOne(k)
      PROVE  Bumps
  <2>1. /\ items' = items
        /\ \A j \in R!Clients : at'[j] \in {"lrem", "lrem_bump", "lpush"} =>
             at'[j] = at[j] /\ hand'[j] = hand[j]
    BY <1>0, <1>2 DEF R!Acquire, R!Call, R!Release, R!GetToken, R!DeleteKey, R!Scan, R!Take,
                      R!End, R!IndexOne
  <2> QED BY <1>b, <2>1
<1>3. ASSUME NEW k \in R!Clients, R!Find(k) PROVE Bumps
  <2>1. UNCHANGED items /\ at[k] \in {"remove", "bump"}
    BY <1>3 DEF R!Find
  <2>2. \A j \in R!Clients : j # k => at'[j] = at[j] /\ hand'[j] = hand[j]
    BY <1>0, <1>3 DEF R!Find
  <2>3. /\ at'[k] # "lpush"
        /\ at'[k] \in {"lrem", "lrem_bump"} => \E i \in 1..Len(items) : hand'[k] = items[i]
    BY <1>0, <1>3, FindHolds
  <2>4. at'[k] \in {"lrem", "lrem_bump"} =>
          \A i \in 1..Len(items) : items[i].cell = hand'[k].cell => items[i] = hand'[k]
    BY <1>b, <2>3 DEF Distinct
  <2> QED BY <1>b, <2>1, <2>2, <2>3, <2>4
<1>4. ASSUME NEW k \in R!Clients, R!Lrem(k) \/ R!Lpush(k) \/ R!CommandFails(k) PROVE Bumps
  <2>1. /\ at[k] \notin {"idle", "delete"}
        /\ \A j \in R!Clients : j # k => at'[j] = at[j] /\ hand'[j] = hand[j]
        /\ \/ at'[k] \in {"next", "release", "idle"}
           \/ /\ at[k] = "lrem_bump" /\ at'[k] = "lpush" /\ R!Lrem(k)
    BY <1>0, <1>4 DEF R!Lrem, R!Lpush, R!CommandFails
  <2>2. \A j \in R!Clients : j # k => at'[j] \in {"idle", "delete"}
    BY <1>0, <1>b, <2>1 DEF R!Inside
  <2>3. Distinct(items')
    <3>1. at[k] \in {"lrem", "lrem_bump"} => Distinct(R!Without(items, hand[k]))
      BY <1>0, <1>b, WithoutHolds, PartHolds
    <3>2. at[k] = "lpush" => Distinct(<<hand[k]>> \o items)
      <4>1. at[k] = "lpush" => hand[k] \in R!Record
        BY DEF HandsHold
      <4> QED BY <1>0, <1>b, <4>1, FrontHolds
    <3> QED BY <1>4, <1>b, <3>1, <3>2, ReconcileHolds
  <2>4. ASSUME at[k] = "lrem_bump", R!Lrem(k) PROVE hand'[k].cell \notin R!CellsOf(items')
    <3>1. hand[k].cell \notin R!CellsOf(R!Without(items, hand[k]))
      BY <1>0, <1>b, <2>4, WithoutHolds
    <3>2. hand[k] \in R!Record /\ hand' = [hand EXCEPT ![k].retry = @ + 1]
          /\ items' = R!Without(items, hand[k])
      BY <2>4 DEF HandsHold, R!Lrem
    <3>3. hand'[k].cell = hand[k].cell
      BY <1>0, <3>2 DEF R!Record
    <3> QED BY <3>1, <3>2, <3>3
  <2> QED BY <2>1, <2>2, <2>3, <2>4
<1>5. ASSUME NEW k \in R!Clients, R!Crash(k) PROVE Bumps
  <2>1. /\ items' = items
        /\ \A j \in R!Clients : at'[j] \in {"lrem", "lrem_bump", "lpush"} =>
             at'[j] = at[j] /\ hand'[j] = hand[j]
    BY <1>0, <1>5 DEF R!Crash
  <2> QED BY <1>b, <2>1
<1>6. ASSUME R!Expire PROVE Bumps
  <2>1. UNCHANGED <<items, at, hand>>
    BY <1>6 DEF R!Expire
  <2> QED BY <1>b, <2>1
<1>7. Bumps
  <2> HIDE DEF Bumps
  <2> QED BY <1>1, <1>2, <1>3, <1>4, <1>5, <1>6, RedisActions
<1> QED BY <1>a, <1>7

\* A record goes only when its cell is in the index, in the hands of a bump, or
\* cut off by a fault or the trim.
LEMMA KeptStep == R!TypeOK /\ HandsHold /\ R!RecordKept /\ R!Next => R!RecordKept'
<1> SUFFICES ASSUME R!TypeOK, HandsHold, R!RecordKept, R!Next,
                    NEW d \in FailedCells, enqueued'[d] # "no"
             PROVE  \/ d \in indexed' \/ d \in R!CellsOf(items') \/ d \in gone'
                    \/ \E k \in R!Clients : at'[k] = "lpush" /\ hand'[k].cell = d
  BY DEF R!RecordKept
<1> DEFINE Kept == \/ d \in indexed \/ d \in R!CellsOf(items) \/ d \in gone
                   \/ \E k \in R!Clients : at[k] = "lpush" /\ hand[k].cell = d
           KeptNext == \/ d \in indexed' \/ d \in R!CellsOf(items') \/ d \in gone'
                       \/ \E k \in R!Clients : at'[k] = "lpush" /\ hand'[k].cell = d
<1> USE DEF R!Go, R!Enter, R!locals, R!locking
<1>0. /\ at \in [R!Clients -> {"idle", "scan", "next", "index", "remove", "lrem", "bump",
                              "lrem_bump", "lpush", "release", "delete"}]
      /\ hand \in [R!Clients -> R!Record \cup {R!NoRecord}]
      /\ items \in Seq(R!Record)
  BY DEF R!TypeOK
<1>k. enqueued[d] # "no" => Kept
  BY DEF R!RecordKept
<1>1. ASSUME NEW e \in FailedCells, R!Push(e) \/ R!PushFails(e) \/ R!Trim(e) PROVE KeptNext
  <2> DEFINE new == [cell |-> e, retry |-> 0]
  <2>0. /\ UNCHANGED <<at, hand, indexed>> /\ gone \subseteq gone'
        /\ d # e => enqueued'[d] = enqueued[d]
        /\ \/ /\ enqueued[e] = "no"
              /\ \/ items' = <<new>> \o items
                 \/ items' = items /\ e \in gone'
           \/ enqueued[e] # "no" /\ gone' = gone \cup (R!CellsOf(items) \ R!CellsOf(items'))
    BY <1>1, EnqueueHolds
  <2>1. new \in R!Record /\ new.cell = e
    BY DEF R!Record
  <2> HIDE DEF new
  <2>2. items' = <<new>> \o items => R!CellsOf(items') = R!CellsOf(items) \cup {e}
    BY <1>0, <2>1, FrontHolds
  <2>3. R!CellsOf(items) \subseteq R!CellsOf(items') \cup gone'
    BY <2>0, <2>2
  <2> QED BY <1>k, <2>0, <2>2, <2>3
<1>2. ASSUME NEW k \in R!Clients,
             \/ R!Acquire(k) \/ R!Call(k) \/ R!Release(k) \/ R!GetToken(k) \/ R!DeleteKey(k)
             \/ R!Scan(k) \/ R!Take(k) \/ R!End(k) \/ R!IndexOne(k) \/ R!Find(k)
      PROVE  KeptNext
  <2>1. /\ UNCHANGED <<items, enqueued, gone>> /\ indexed \subseteq indexed'
        /\ at[k] # "lpush"
        /\ \A j \in R!Clients : j # k => at'[j] = at[j] /\ hand'[j] = hand[j]
    BY <1>0, <1>2 DEF R!Acquire, R!Call, R!Release, R!GetToken, R!DeleteKey, R!Scan, R!Take,
                      R!End, R!IndexOne, R!Find
  <2> QED BY <1>k, <2>1
<1>3. ASSUME NEW k \in R!Clients, R!Lrem(k) \/ R!Lpush(k) \/ R!CommandFails(k) PROVE KeptNext
  <2>0. /\ UNCHANGED <<enqueued, indexed>> /\ gone \subseteq gone'
        /\ \A j \in R!Clients : j # k => at'[j] = at[j] /\ hand'[j] = hand[j]
    BY <1>0, <1>3 DEF R!Lrem, R!Lpush, R!CommandFails
  <2>1. R!CellsOf(items) \subseteq R!CellsOf(items') \cup {hand[k].cell}
    BY <1>3, ReconcileHolds
  <2>2. CASE d # hand[k].cell
    BY <1>k, <2>0, <2>1, <2>2
  <2>3. CASE d = hand[k].cell /\ at[k] \in {"lrem", "lrem_bump", "lpush"}
    <3>1. at[k] = "lrem" => d \in indexed
      BY <2>3 DEF HandsHold
    <3>2. at[k] = "lrem_bump" /\ R!Lrem(k) => at'[k] = "lpush" /\ hand'[k].cell = d
      <4>1. ASSUME at[k] = "lrem_bump", R!Lrem(k)
            PROVE  hand[k] \in R!Record /\ at'[k] = "lpush" /\ hand' = [hand EXCEPT ![k].retry = @ + 1]
        BY <1>0, <4>1 DEF HandsHold, R!Lrem
      <4>2. ASSUME hand[k] \in R!Record, hand' = [hand EXCEPT ![k].retry = @ + 1]
            PROVE  hand'[k].cell = hand[k].cell
        BY <1>0, <4>2 DEF R!Record
      <4> QED BY <2>3, <4>1, <4>2
    <3>3. at[k] = "lpush" /\ R!Lpush(k) => d \in R!CellsOf(items')
      <4>1. ASSUME at[k] = "lpush", R!Lpush(k)
            PROVE  hand[k] \in R!Record /\ items' = <<hand[k]>> \o items
        BY <4>1 DEF HandsHold, R!Lpush
      <4>2. hand[k] \in R!Record => R!CellsOf(<<hand[k]>> \o items) = R!CellsOf(items) \cup {hand[k].cell}
        BY ONLY <1>0, FrontHolds
      <4> QED BY <2>3, <4>1, <4>2
    <3>4. at[k] \in {"lrem_bump", "lpush"} /\ R!CommandFails(k) =>
            d \in R!CellsOf(items') \cup gone'
      BY <2>3 DEF R!CommandFails
    <3>5. /\ R!Lrem(k) => at[k] \in {"lrem", "lrem_bump"}
          /\ R!Lpush(k) => at[k] = "lpush"
      BY DEF R!Lrem, R!Lpush
    <3> QED BY <1>3, <2>0, <2>3, <3>1, <3>2, <3>3, <3>4, <3>5
  <2>4. CASE d = hand[k].cell /\ at[k] \notin {"lrem", "lrem_bump", "lpush"}
    <3>1. items' = items /\ at[k] # "lpush"
      BY <1>3, <2>4, ReconcileHolds
    <3> QED BY <1>k, <2>0, <3>1
  <2> QED BY <2>2, <2>3, <2>4
<1>4. ASSUME NEW k \in R!Clients, R!Crash(k) PROVE KeptNext
  <2>1. /\ UNCHANGED <<items, enqueued, indexed>> /\ gone \subseteq gone'
        /\ \A j \in R!Clients : j # k => at'[j] = at[j] /\ hand'[j] = hand[j]
        /\ at[k] = "lpush" => hand[k].cell \in R!CellsOf(items) \cup gone'
    BY <1>0, <1>4 DEF R!Crash
  <2> QED BY <1>k, <2>1
<1>5. ASSUME R!Expire PROVE KeptNext
  <2>1. UNCHANGED <<items, at, hand, enqueued, indexed, gone>>
    BY <1>5 DEF R!Expire
  <2> QED BY <1>k, <2>1
<1>6. KeptNext
  <2> HIDE DEF KeptNext
  <2> QED BY <1>1, <1>2, <1>3, <1>4, <1>5, RedisActions
<1> QED BY <1>6

\* The queue on Redis starts empty, with nobody inside.
LEMMA RedisInit == R!Init => RedisInv
<1> SUFFICES ASSUME R!Init PROVE RedisInv
  OBVIOUS
<1> USE DEF R!Init
<1>1. R!TypeOK
  <2>1. items \in Seq(R!Record) /\ listed \in [R!Clients -> Seq(R!Record)]
    BY EmptySeq
  <2> QED BY ONLY <2>1, R!Init DEF R!Init, R!TypeOK
<1>2. HandsHold
  BY DEF HandsHold, R!CellsOf
<1>3. LockHeld /\ NoTwins /\ R!RecordKept
  BY DEF LockHeld, NoTwins, Distinct, R!RecordKept, R!Inside
<1> QED BY <1>1, <1>2, <1>3 DEF RedisInv

\* Nothing that the invariant is about changes while Redis stands still.
LEMMA RedisStep == RedisInv /\ [QueueNext]_<<backend, redis, vars>> => RedisInv'
<1> SUFFICES ASSUME RedisInv, [QueueNext]_<<backend, redis, vars>> PROVE RedisInv'
  OBVIOUS
<1>1. CASE R!Next
  BY <1>1, RedisTypeStep, HandsStep, LockStep, TwinsStep, KeptStep DEF RedisInv
<1>2. CASE UNCHANGED redis
  BY <1>2 DEF redis, RedisInv, R!TypeOK, HandsHold, LockHeld, NoTwins, Distinct, R!RecordKept,
              R!Inside, R!OfficialLock
<1> QED BY <1>1, <1>2 DEF QueueNext

\* The queue on Redis keeps its invariant.
LEMMA RedisInvariance == QueueSpec => []RedisInv
<1>1. QueueInit => RedisInv
  BY RedisInit DEF QueueInit
<1> QED BY <1>1, RedisStep, PTL DEF QueueSpec

\* On Redis a failed cell keeps its record, unless it is indexed, the list is
\* trimmed, or a fault strikes between the two commands of a bump; concurrent
\* reconciles take none away.
THEOREM RecordKeptHolds == QueueSpec => []RecordKept
<1>1. RedisInv => RecordKept
  BY DEF RedisInv, RecordKept
<1> QED BY <1>1, RedisInvariance, PTL

\* On Redis a cell has two records only after two reconciles overlapped, and two
\* replicas overlap only when the lock of one ran out under it or, without the
\* official lock, was deleted.
THEOREM TwinsHaveCauseHolds == QueueSpec => []TwinsHaveCause
<1>1. RedisInv => TwinsHaveCause
  <2> SUFFICES ASSUME RedisInv PROVE TwinsHaveCause
    OBVIOUS
  <2>1. R!OverlapHasCause
    BY DEF RedisInv, LockHeld, R!OverlapHasCause
  <2>2. items \in Seq(R!Record) /\ (~overlap => Distinct(items))
    BY DEF RedisInv, R!TypeOK, NoTwins
  <2>3. ~overlap => \A i, j \in DOMAIN items : items[i].cell = items[j].cell => i = j
    BY <2>2, CellsOfHolds DEF Distinct
  <2> QED BY <2>1, <2>3 DEF TwinsHaveCause, R!TwinsHaveCause
<1> QED BY <1>1, RedisInvariance, PTL
=============================================================================
