------------------------------ MODULE CellStore ------------------------------
(***************************************************************************)
(* The documents of MongoMemCellRepo (repositories/mongo_repo.py) as the   *)
(* lifecycle sees them, and the formulas that move and judge a memory:     *)
(* feedback, state, retention and importance (scoring.py, lifecycle.py).   *)
(* Strengths, signals and scores are integers in a common small unit.      *)
(***************************************************************************)
EXTENDS Integers, FiniteSets, SequencesExt

CONSTANTS
  Cells,       \* ids of memory cells
  Owner,       \* the scope, [tenant, user], each cell belongs to
  None,        \* an absent tenant or user of a scope
  Confirming,  \* feedback types that count as an access
  Signal,      \* per feedback type, eta times its default signal
  LambdaDay,   \* loss of strength per day without an update
  SMax,        \* s_max
  Richness,    \* per cell, what its text and sources add to the score
  Freshness,   \* trs_score by age in days, never growing
  ArchiveAfter, Retention,     \* archive_after_days, retention_threshold
  HotDays, WarmDays, ColdDays, \* age limits of compute_state
  HotCount, WarmCount          \* its access counts

ASSUME StoreAssumption ==
  /\ Confirming \subseteq DOMAIN Signal /\ \A t \in DOMAIN Signal : Signal[t] \in Int
  /\ LambdaDay \in Nat /\ SMax \in Nat \ {0} /\ IsFiniteSet(Cells)
  /\ Richness \in [Cells -> Nat]
  /\ \A c \in Cells : None \notin {Owner[c].tenant, Owner[c].user}
  /\ \A a, b \in DOMAIN Freshness : a <= b => Freshness[b] <= Freshness[a]
  /\ HotDays <= WarmDays /\ WarmDays <= ColdDays /\ WarmCount <= HotCount

States == {"ACTIVE", "WARM", "COLD", "ARCHIVED"}
Doc == [state : States, strength : Int, access : Nat, created : Nat, updated : Nat]
Absent == [state |-> "absent"]

Stored(docs) == {c \in Cells : docs[c] # Absent}
\* _cell_filter(), _bulk_scope_filter(): a scope with only one half matches nothing,
\* and no scope at all matches every cell.
Unscoped == [tenant |-> None, user |-> None]
InScope(docs, scope) ==
  {c \in Stored(docs) : scope = Unscoped \/ (None \notin {scope.tenant, scope.user} /\ Owner[c] = scope)}
Live(docs, scope) == {c \in InScope(docs, scope) : docs[c].state # "ARCHIVED"}

\* get_by_id_scoped()
Found(docs, c, scope) == c \in InScope(docs, scope)
\* find_by_state()
FindByState(docs, owner, state) == {c \in InScope(docs, owner) : docs[c].state = state}
\* count(): archived cells are counted too.
CountOf(docs, owner) == Cardinality(InScope(docs, owner))
\* find_all(): in no promised order, no more than the limit.
Listings(docs, owner, limit) ==
  {s \in SUBSET InScope(docs, owner) : Cardinality(s) = Min({limit, CountOf(docs, owner)})}

-----------------------------------------------------------------------------
(* Formulas *)

AgeOf(doc, now) == now - doc.created

\* compute_state()
ComputeState(access, age) ==
  CASE access >= HotCount \/ age < HotDays -> "ACTIVE"
    [] access < HotCount /\ age >= HotDays /\ (access >= WarmCount \/ age < WarmDays) -> "WARM"
    [] access < WarmCount /\ age >= WarmDays /\ age < ColdDays -> "COLD"
    [] OTHER -> "ARCHIVED"

\* resolve_signal(): zero stands for the default of the type.
Resolved(type, value) == IF value # 0 THEN value ELSE Signal[type]
\* compute_strength_delta(): the new strength, clipped to 0..SMax.
Reinforced(doc, type, value, now) ==
  Max({0, Min({SMax, doc.strength + Resolved(type, value) - LambdaDay * (now - doc.updated)})})

\* FSFMScorer.score(): richness, behaviour and freshness.
Score(c, doc, now) ==
  Richness[c] + Min({2 * doc.access + doc.strength, 10}) + Freshness[AgeOf(doc, now)]
\* _should_archive()
ShouldArchive(doc, now) ==
  AgeOf(doc, now) > ArchiveAfter \/ Freshness[AgeOf(doc, now)] < Retention

-----------------------------------------------------------------------------
(* Operations of the repository, each one command of the server. *)

\* insert_one()
Inserted(docs, c, doc) == [docs EXCEPT ![c] = doc]

\* Mutant: the sum is not clipped.
Unclipped(doc, delta, bump, now) ==
  [doc EXCEPT !.strength = @ + delta, !.access = @ + bump, !.updated = now]
\* The aggregation pipeline of atomic_apply_strength_delta() and
\* bulk_increment_access(): the sum is clipped above, not below.
Strengthened(doc, delta, bump, now) ==
  [doc EXCEPT !.strength = Min({@ + delta, SMax}), !.access = @ + bump, !.updated = now]
AddToAll(docs, ids, delta, bump, now) ==
  [c \in Cells |-> IF c \in ids THEN Strengthened(docs[c], delta, bump, now) ELSE docs[c]]

\* update(): the named fields, here all that move.
Updated(docs, c, doc) == [docs EXCEPT ![c] = doc]

\* bulk_set_state() to ARCHIVED
Archived(docs, ids, now) ==
  [c \in Cells |-> IF c \in ids THEN [docs[c] EXCEPT !.state = "ARCHIVED", !.updated = now]
                   ELSE docs[c]]
=============================================================================
