------------------------------- MODULE RedisDLQ -------------------------------
(***************************************************************************)
(* The dead letter queue on Redis (repositories/redis_dlq.py): a list that *)
(* several replicas of the service share.  enqueue, remove and bump_retry  *)
(* each take several commands, and other clients get in between.  Every    *)
(* replica's _auto_reconcile_loop (api.py) takes a RedisDistributedLock    *)
(* (concurrency.py) around a reconcile; an admin's reconcile takes none.   *)
(***************************************************************************)
EXTENDS Integers, FiniteSets, SequencesExt

CONSTANTS
  FailedCells,   \* cells whose indexing fails in some ingest request
  Replicas,      \* their automatic loops
  Admins,        \* reconciles called through the admin API
  Launches,      \* bound: the [cells, reconcilers, official, rounds] checked: who
                 \* takes part, whether the client has redis.asyncio's Lock or the
                 \* lock is SET NX, GET and DEL, and how many reconciles start
  MaxSize,       \* max_size of the list
  Limit,         \* records one reconcile takes
  Retries,       \* settings.dlq_reconcile_max_retries
  MaxEvents      \* bound: locks that expire, crashes and failed commands

VARIABLES
  launch,    \* the one of Launches that runs
  items,     \* the list, its head first
  es,        \* cells in the index
  enqueued,  \* per cell: "no", "pushed" (the trim is to come) or "done"
  at,        \* where each reconcile is
  batch,     \* what is left of the records it listed
  hand,      \* the record it has found in the list
  lock,      \* who holds the lock's key
  outlived,  \* replicas inside whose lock expired
  robbed,    \* replicas inside whose lock another one deleted
  overlap,   \* whether two reconciles ever ran at once
  lost,      \* cells whose record a fault or the trim took away
  rounds,    \* reconciles that have started
  events     \* faults and expiries so far

locals == <<at, batch, hand>>
locking == <<lock, outlived, robbed>>
vars == <<launch, items, es, enqueued, locals, locking, overlap, lost, rounds, events>>

Nobody == "nobody"
NoRecord == [cell |-> "none", retry |-> 0]
Clients == Replicas \cup Admins

OfficialLock == launch.official

Record == [cell : FailedCells, retry : Nat]
TypeOK ==
  /\ launch \in Launches
  /\ items \in Seq(Record) /\ es \subseteq FailedCells
  /\ enqueued \in [FailedCells -> {"no", "pushed", "done"}]
  /\ at \in [Clients -> {"idle", "scan", "next", "index", "remove", "lrem", "bump",
                        "lrem_bump", "lpush", "release", "delete"}]
  /\ batch \in [Clients -> Seq(Record)] /\ hand \in [Clients -> Record \cup {NoRecord}]
  /\ lock \in Replicas \cup {Nobody}
  /\ outlived \subseteq Replicas /\ robbed \subseteq Replicas
  /\ overlap \in BOOLEAN /\ lost \subseteq FailedCells

Init ==
  /\ launch \in Launches
  /\ items = <<>> /\ es = {} /\ enqueued = [c \in FailedCells |-> "no"]
  /\ at = [k \in Clients |-> "idle"]
  /\ batch = [k \in Clients |-> <<>>] /\ hand = [k \in Clients |-> NoRecord]
  /\ lock = Nobody /\ outlived = {} /\ robbed = {}
  /\ overlap = FALSE /\ lost = {} /\ rounds = 0 /\ events = 0

Counted == events < MaxEvents /\ events' = events + 1
Go(k, place) == at' = [at EXCEPT ![k] = place]
\* Inside: from the lock's acquisition to the start of its release.
Inside == {k \in Clients : at[k] \notin {"idle", "delete"}}
CellsOf(list) == {list[i].cell : i \in DOMAIN list}

-----------------------------------------------------------------------------
(* enqueue() *)

Push(c) ==
  /\ enqueued[c] = "no" /\ enqueued' = [enqueued EXCEPT ![c] = "pushed"]
  /\ items' = <<[cell |-> c, retry |-> 0]>> \o items
  /\ UNCHANGED <<launch, es, locals, locking, overlap, lost, events, rounds>>

\* _enqueue_dlq() logs the error, whether or not Redis ran the command.
PushFails(c) ==
  /\ enqueued[c] = "no" /\ enqueued' = [enqueued EXCEPT ![c] = "done"]
  /\ Counted
  /\ \/ items' = <<[cell |-> c, retry |-> 0]>> \o items /\ UNCHANGED lost
     \/ lost' = lost \cup {c} /\ UNCHANGED items
  /\ UNCHANGED <<launch, es, locals, locking, overlap, rounds>>

Trim(c) ==
  /\ enqueued[c] = "pushed" /\ enqueued' = [enqueued EXCEPT ![c] = "done"]
  /\ LET kept == SubSeq(items, 1, Min({MaxSize, Len(items)})) IN
     /\ items' = kept
     /\ lost' = lost \cup (CellsOf(items) \ CellsOf(kept))
  /\ UNCHANGED <<launch, es, locals, locking, overlap, events, rounds>>

-----------------------------------------------------------------------------
(* _auto_reconcile_loop(), RedisDistributedLock *)

Enter(k) ==
  /\ rounds < launch.rounds /\ rounds' = rounds + 1
  /\ Go(k, "scan")
  /\ overlap' = (overlap \/ Inside # {})

Acquire(k) ==
  /\ k \in Replicas /\ at[k] = "idle" /\ lock = Nobody
  /\ lock' = k
  /\ Enter(k)
  /\ UNCHANGED <<launch, items, es, enqueued, batch, hand, outlived, robbed, lost, events>>

Call(k) ==
  /\ k \in Admins /\ at[k] = "idle"
  /\ Enter(k)
  /\ UNCHANGED <<launch, items, es, enqueued, batch, hand, locking, lost, events>>

\* redis.asyncio's Lock compares the token and deletes the key in one script; an
\* error, or a lock that is another's by now, is logged.
Release(k) ==
  /\ k \in Replicas /\ at[k] = "release" /\ OfficialLock
  /\ lock' = IF lock = k THEN Nobody ELSE lock
  /\ outlived' = outlived \ {k} /\ robbed' = robbed \ {k}
  /\ Go(k, "idle")
  /\ UNCHANGED <<launch, items, es, enqueued, batch, hand, overlap, lost, events, rounds>>

\* Without it: GET, and if the token is the own one, DEL.
GetToken(k) ==
  /\ k \in Replicas /\ at[k] = "release" /\ ~OfficialLock
  /\ Go(k, IF lock = k THEN "delete" ELSE "idle")
  /\ outlived' = outlived \ {k} /\ robbed' = robbed \ {k}
  /\ UNCHANGED <<launch, items, es, enqueued, batch, hand, lock, overlap, lost, events, rounds>>

DeleteKey(k) ==
  /\ at[k] = "delete"
  /\ Go(k, "idle")
  /\ lock' = Nobody
  /\ robbed' = robbed \cup ({lock} \cap (Inside \ {k}))
  /\ UNCHANGED <<launch, items, es, enqueued, batch, hand, outlived, overlap, lost, events, rounds>>

\* The ttl has passed.
Expire ==
  /\ lock # Nobody /\ Counted
  /\ lock' = Nobody
  /\ outlived' = outlived \cup ({lock} \cap Inside)
  /\ UNCHANGED <<launch, items, es, enqueued, locals, robbed, overlap, lost, rounds>>

-----------------------------------------------------------------------------
(* SyncReconciler.reconcile() *)

\* Mutant: what is listed is taken off the list.
ScanTakes(k) ==
  /\ at[k] = "scan"
  /\ batch' = [batch EXCEPT ![k] = SubSeq(items, 1, Min({Limit, MaxSize, Len(items)}))]
  /\ items' = SubSeq(items, Min({Limit, MaxSize, Len(items)}) + 1, Len(items))
  /\ Go(k, "next")
  /\ UNCHANGED <<launch, es, enqueued, hand, locking, overlap, lost, events, rounds>>

Scan(k) ==
  /\ at[k] = "scan"
  /\ batch' = [batch EXCEPT ![k] = SubSeq(items, 1, Min({Limit, MaxSize, Len(items)}))]
  /\ Go(k, "next")
  /\ UNCHANGED <<launch, items, es, enqueued, hand, locking, overlap, lost, events, rounds>>

\* An exhausted record is passed over.
Take(k) ==
  /\ at[k] = "next" /\ batch[k] # <<>>
  /\ batch' = [batch EXCEPT ![k] = Tail(@)]
  /\ IF Head(batch[k]).retry < Retries
     THEN Go(k, "index") /\ hand' = [hand EXCEPT ![k] = Head(batch[k])]
     ELSE UNCHANGED <<at, hand>>
  /\ UNCHANGED <<launch, items, es, enqueued, locking, overlap, lost, events, rounds>>

End(k) ==
  /\ at[k] = "next" /\ batch[k] = <<>>
  /\ Go(k, IF k \in Replicas THEN "release" ELSE "idle")
  /\ UNCHANGED <<launch, items, es, enqueued, batch, hand, locking, overlap, lost, events, rounds>>

\* es_repo.index() may raise after the document was written.
IndexOne(k) ==
  /\ at[k] = "index"
  /\ \E applied, answered \in BOOLEAN :
       /\ answered => applied
       /\ es' = IF applied THEN es \cup {hand[k].cell} ELSE es
       /\ Go(k, IF answered THEN "remove" ELSE "bump")
  /\ UNCHANGED <<launch, items, enqueued, batch, hand, locking, overlap, lost, events, rounds>>

\* remove() and bump_retry() list the queue and take the first record of the key.
Find(k) ==
  LET found == {i \in DOMAIN items : items[i].cell = hand[k].cell} IN
  /\ at[k] \in {"remove", "bump"}
  /\ IF found = {} THEN Go(k, "next") /\ hand' = [hand EXCEPT ![k] = NoRecord]
     ELSE /\ hand' = [hand EXCEPT ![k] = items[Min(found)]]
          /\ Go(k, IF at[k] = "remove" THEN "lrem" ELSE "lrem_bump")
  /\ UNCHANGED <<launch, items, es, enqueued, batch, locking, overlap, lost, events, rounds>>

\* Mutant: the record is left where it is.
WithIt(list, record) == list
\* LREM key 1 value; how many it removed is not looked at.
Without(list, record) ==
  LET places == {i \in DOMAIN list : list[i] = record}
  IN IF places = {} THEN list ELSE RemoveAt(list, Min(places))

Lrem(k) ==
  /\ at[k] \in {"lrem", "lrem_bump"}
  /\ items' = Without(items, hand[k])
  /\ IF at[k] = "lrem" THEN Go(k, "next") /\ hand' = [hand EXCEPT ![k] = NoRecord]
     ELSE Go(k, "lpush") /\ hand' = [hand EXCEPT ![k].retry = @ + 1]
  /\ UNCHANGED <<launch, es, enqueued, batch, locking, overlap, lost, events, rounds>>

Lpush(k) ==
  /\ at[k] = "lpush"
  /\ items' = <<hand[k]>> \o items
  /\ Go(k, "next") /\ hand' = [hand EXCEPT ![k] = NoRecord]
  /\ UNCHANGED <<launch, es, enqueued, batch, locking, overlap, lost, events, rounds>>

\* Redis, or MongoDB's get_by_id(), raises, before or after it took effect: the
\* reconcile is over, and the loop releases its lock.
CommandFails(k) ==
  /\ at[k] \in {"scan", "next", "remove", "bump", "lrem", "lrem_bump", "lpush"} /\ Counted
  /\ Go(k, IF k \in Replicas THEN "release" ELSE "idle")
  /\ batch' = [batch EXCEPT ![k] = <<>>] /\ hand' = [hand EXCEPT ![k] = NoRecord]
  /\ \E applied \in BOOLEAN :
       /\ items' = IF applied /\ at[k] \in {"lrem", "lrem_bump"} THEN Without(items, hand[k])
                   ELSE IF applied /\ at[k] = "lpush" THEN <<hand[k]>> \o items
                   ELSE items
       /\ lost' = lost \cup IF at[k] \in {"lrem_bump", "lpush"}
                            THEN {hand[k].cell} \ CellsOf(items') ELSE {}
  /\ UNCHANGED <<launch, es, enqueued, locking, overlap, rounds>>

\* A replica dies; its lock stays until it expires.  It comes up again later.
Crash(k) ==
  /\ k \in Replicas /\ at[k] # "idle" /\ Counted
  /\ Go(k, "idle")
  /\ batch' = [batch EXCEPT ![k] = <<>>] /\ hand' = [hand EXCEPT ![k] = NoRecord]
  /\ lost' = lost \cup IF at[k] = "lpush" THEN {hand[k].cell} \ CellsOf(items) ELSE {}
  /\ outlived' = outlived \ {k} /\ robbed' = robbed \ {k}
  /\ UNCHANGED <<launch, items, es, enqueued, lock, overlap, rounds>>

-----------------------------------------------------------------------------
Enqueue(c) == Push(c) \/ PushFails(c) \/ Trim(c)
Reconcile(k) ==
  \/ Acquire(k) \/ Call(k) \/ Release(k) \/ GetToken(k) \/ DeleteKey(k)
  \/ Scan(k) \/ Take(k) \/ End(k) \/ IndexOne(k) \/ Find(k) \/ Lrem(k) \/ Lpush(k)
  \/ CommandFails(k) \/ Crash(k)

Next ==
  \/ \E c \in launch.cells : Enqueue(c)
  \/ \E k \in launch.reconcilers : Reconcile(k)
  \/ Expire

Spec == Init /\ [][Next]_vars

-----------------------------------------------------------------------------
(* Properties *)

\* A failed cell is in the index, or has a record in the list or in the hands
\* of a bump: only a full list, or a fault between the two commands of a bump,
\* takes the record away; concurrent reconciles do not.
RecordKept ==
  \A c \in FailedCells : enqueued[c] # "no" =>
    c \in es \cup CellsOf(items) \cup lost
      \cup {hand[k].cell : k \in {j \in Clients : at[j] = "lpush"}}

\* Two replicas reconcile at once only when the lock of one has run out under
\* it, or, without the official lock, when a third deleted it.
OverlapHasCause ==
  \A j, k \in Replicas \cap Inside : j # k =>
    {j, k} \cap (outlived \cup IF OfficialLock THEN {} ELSE robbed) # {}

\* A cell has two records only after two reconciles ran at once, whose bumps
\* both push the record that one of them removed.
TwinsHaveCause ==
  /\ OverlapHasCause
  /\ ~overlap => \A i, j \in DOMAIN items : items[i].cell = items[j].cell => i = j
=============================================================================
