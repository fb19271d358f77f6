---------------------------- MODULE DerivedIndex ----------------------------
(***************************************************************************)
(* What memory_app promises about an index derived from its source of      *)
(* truth ("MongoDB is the SOT, Elasticsearch follows"): a stored cell is   *)
(* owed to the index until it is indexed, a debt is only discharged by the *)
(* document itself or openly given up, and neither store nor index ever    *)
(* shrinks.  MemorySync implements it.                                     *)
(***************************************************************************)
CONSTANT Cells

VARIABLES
  stored,   \* cells in the source of truth
  indexed,  \* cells with a document in the index
  owed,     \* stored cells the system still intends to index
  lost      \* cells it has given up

vars == <<stored, indexed, owed, lost>>

Init == stored = {} /\ indexed = {} /\ owed = {} /\ lost = {}

\* New cells enter the store; the caller is told of none, or of those `kept'.
Commit(new, kept) ==
  /\ new \cap stored = {}
  /\ stored' = stored \cup new
  /\ owed' = owed \cup kept
  /\ lost' = lost \cup (new \ kept)
  /\ UNCHANGED indexed

\* Documents are written; some debts whose document exists are discharged.
Publish(docs, settled) ==
  /\ docs \subseteq stored
  /\ indexed' = indexed \cup docs
  /\ settled \subseteq indexed'
  /\ owed' = owed \ settled
  /\ UNCHANGED <<stored, lost>>

GiveUp(dropped) ==
  /\ dropped \subseteq owed
  /\ owed' = owed \ dropped
  /\ lost' = lost \cup dropped
  /\ UNCHANGED <<stored, indexed>>

Next ==
  \/ \E new \in SUBSET Cells : \E kept \in SUBSET new : Commit(new, kept)
  \/ \E docs \in SUBSET Cells, settled \in SUBSET Cells : Publish(docs, settled)
  \/ \E dropped \in SUBSET Cells : GiveUp(dropped)

Spec == Init /\ [][Next]_vars
=============================================================================
