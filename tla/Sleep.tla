-------------------------------- MODULE Sleep --------------------------------
(***************************************************************************)
(* The light and deep phases of dreaming: for each user in scope the       *)
(* scenes are fetched and SleepConsolidator (consolidation/sleep.py) asks  *)
(* an LLM for the facts of each mature scene.  Consolidator                *)
(* (consolidator.py) compares every fact with those already kept for the   *)
(* user: a new one is added, a near one updates or supersedes, a repeated  *)
(* one is dropped.  Any call in between may fail and costs only its part.  *)
(* Similarities are in hundredths; a weighted one in ten thousandths.      *)
(***************************************************************************)
EXTENDS Extraction, Integers

CONSTANTS
  ScopeLists,    \* what the scope provider may return: sequences of users
  SceneLists,    \* what the scenes provider may return: sequences of [user, members]
  Answers,       \* what the LLM may answer
  Jaccard, Cosine,   \* [<<content, content>> -> 0..100]
  MinMembers, UpdateAt, SupersedeAt, NoopAt, WJaccard, WCosine,
  MaxSleepFaults \* bound on failed calls

VARIABLES
  sleepPc,   \* "idle", "scopes", "scenes", "items"
  llm,       \* an LLM client is bound
  embedder,  \* an embedding client is bound
  users,     \* scopes still to do
  sceneQueue,    \* scenes still to do, the current one first
  known,     \* existing_per_user: facts kept in this consolidate_scenes(), by user
  items,     \* contents the LLM gave for the current scene, still to decide
  kept,      \* facts kept of the current scene
  failures   \* failed calls so far

sleepVars == <<sleepPc, llm, embedder, users, sceneQueue, known, items, kept, failures>>

SceneUsers == {s.user : s \in UNION {{l[i] : i \in DOMAIN l} : l \in SceneLists}}
NothingKnown == [u \in SceneUsers |-> <<>>]

SleepInit ==
  /\ sleepPc = "idle" /\ llm \in BOOLEAN /\ embedder \in BOOLEAN
  /\ users = <<>> /\ sceneQueue = <<>> /\ known = NothingKnown
  /\ items = <<>> /\ kept = <<>> /\ failures = 0

\* A call that answers, or fails at the cost of one failure.
Succeeds == UNCHANGED failures
Fails == failures < MaxSleepFaults /\ failures' = failures + 1

-----------------------------------------------------------------------------
(* Consolidator *)

\* _composite_sim() of two contents: with no vector for the new fact Jaccard counts
\* alone; with none for the old one its cosine is 0.
Similarity(new, old, newVector, oldVector) ==
  IF ~newVector \/ WJaccard + WCosine = 0 THEN 100 * Jaccard[<<new, old>>]
  ELSE LET cosine == IF oldVector THEN Cosine[<<new, old>>] ELSE 0
       IN (100 * (WJaccard * Jaccard[<<new, old>>] + WCosine * cosine)) \div (WJaccard + WCosine)

\* _decide().
Decide(sim) ==
  IF sim >= 100 * NoopAt THEN "noop"
  ELSE IF sim >= 100 * SupersedeAt THEN "supersede"
  ELSE IF sim >= 100 * UpdateAt THEN "update" ELSE "add"

\* consolidate(): the first of the most similar existing facts is the target.  vectors
\* are the places of the existing facts whose vector came back.
Decision(content, existing, newVector, vectors) ==
  IF existing = <<>> THEN [decision |-> "add", target |-> 0]
  ELSE LET sim == [i \in DOMAIN existing |->
                     Similarity(content, existing[i].content, newVector, i \in vectors)]
           best == CHOOSE i \in DOMAIN sim :
                     \A j \in DOMAIN sim : sim[j] < sim[i] \/ (sim[j] = sim[i] /\ i <= j)
           decision == Decide(sim[best])
       IN [decision |-> decision, target |-> IF decision = "add" THEN 0 ELSE existing[best].id]

-----------------------------------------------------------------------------
(* ThreePhaseDreaming.run() *)

\* A failing scope provider leaves nothing to do.
AskScopes ==
  /\ sleepPc = "idle"
  /\ \/ \E s \in ScopeLists : users' = s /\ Succeeds
     \/ users' = <<>> /\ Fails
  /\ sleepPc' = "scopes"
  /\ UNCHANGED <<llm, embedder, sceneQueue, known, items, kept>>

\* _fetch_scenes() of the next user; a failure is an empty list.
FetchScenes ==
  /\ sleepPc = "scopes" /\ users # <<>>
  /\ \/ \E l \in SceneLists : sceneQueue' = l /\ Succeeds
     \/ sceneQueue' = <<>> /\ Fails
  /\ users' = Tail(users) /\ known' = NothingKnown
  /\ sleepPc' = "scenes"
  /\ UNCHANGED <<llm, embedder, items, kept>>

\* The run ends after the last user, or goes on to the next.
EndScenes ==
  /\ sleepPc = "scenes" /\ sceneQueue = <<>>
  /\ sleepPc' = "scopes"
  /\ UNCHANGED <<llm, embedder, users, sceneQueue, known, items, kept, failures>>

-----------------------------------------------------------------------------
(* SleepConsolidator *)

Mature(scene) == scene.members >= MinMembers /\ llm

\* Too few members, no LLM, or an error of fetching, rendering or the LLM: the scene
\* gives nothing.
SkipScene ==
  /\ sleepPc = "scenes" /\ sceneQueue # <<>>
  /\ IF Mature(Head(sceneQueue)) THEN Fails ELSE Succeeds
  /\ sceneQueue' = Tail(sceneQueue)
  /\ UNCHANGED <<sleepPc, llm, embedder, users, known, items, kept>>

\* Cells that are not there or have no text count as an answer without facts.
AskLLM ==
  /\ sleepPc = "scenes" /\ sceneQueue # <<>>
  /\ Mature(Head(sceneQueue))
  /\ \E answer \in Answers :
       items' = [i \in DOMAIN ParseFacts(answer) |-> ParseFacts(answer)[i].content]
  /\ sleepPc' = "items" /\ kept' = <<>>
  /\ UNCHANGED <<llm, embedder, users, sceneQueue, known, failures>>

\* What a candidate of user u is compared with.
Existing(u) == known[u] \o kept

\* What one embedding of the candidate and one batch of the existing facts give:
\* either may fail, and the batch may come back short.
EmbedOutcomes(all) ==
  {[new |-> embedder, vectors |-> IF embedder THEN all ELSE {}, ok |-> TRUE]}
    \cup (IF ~embedder \/ all = {} THEN {}
          ELSE {[new |-> FALSE, vectors |-> {}, ok |-> FALSE]}
               \cup [new : {TRUE}, vectors : (SUBSET all) \ {all}, ok : {FALSE}])

\* _to_semantic(): the candidate; blind to the existing facts whose vector is missing.
Candidate(u, content, outcome) ==
  [id |-> Len(Existing(u)) + 1, owner |-> u, content |-> content,
   blind |-> IF outcome.new THEN {Existing(u)[i].id : i \in (DOMAIN Existing(u)) \ outcome.vectors}
             ELSE {}]

\* _apply_decision()
Apply(fact, result) ==
  IF result.decision = "noop" THEN kept
  ELSE Append(kept, [id |-> fact.id, owner |-> fact.owner, content |-> fact.content, blind |-> fact.blind,
                     decision |-> result.decision, target |-> result.target])

\* The next item is decided on; if the decision raises, it is skipped.
DecideItem ==
  /\ sleepPc = "items" /\ items # <<>>
  /\ LET u == Head(sceneQueue).user
         existing == Existing(u)
     IN \/ \E outcome \in EmbedOutcomes(DOMAIN existing) :
             /\ IF outcome.ok THEN Succeeds ELSE Fails
             /\ kept' = Apply(Candidate(u, Head(items), outcome),
                              Decision(Head(items), existing, outcome.new, outcome.vectors))
        \/ Fails /\ UNCHANGED kept
  /\ items' = Tail(items)
  /\ UNCHANGED <<sleepPc, llm, embedder, users, sceneQueue, known>>

\* Mutant: all users share one list.
OneList(u) == [v \in SceneUsers |-> known[u] \o kept]
\* existing.extend(new_items)
Extended(u) == [known EXCEPT ![u] = @ \o kept]

EndScene ==
  /\ sleepPc = "items" /\ items = <<>>
  /\ known' = Extended(Head(sceneQueue).user)
  /\ sceneQueue' = Tail(sceneQueue) /\ kept' = <<>> /\ sleepPc' = "scenes"
  /\ UNCHANGED <<llm, embedder, users, items, failures>>

SleepNext ==
  AskScopes \/ FetchScenes \/ EndScenes \/ SkipScene \/ AskLLM \/ DecideItem \/ EndScene

-----------------------------------------------------------------------------
(* Properties *)

\* Whatever fails while the scenes of several users are consolidated: a fact is
\* kept twice for a user only if the vector of the first was missing when the
\* second was compared with it, and what updates or supersedes names an
\* earlier fact of the same user (sleep.py:148, consolidator.py:229).
FactsReconciled ==
  \A u \in SceneUsers :
    LET facts == IF sceneQueue # <<>> /\ Head(sceneQueue).user = u THEN Existing(u) ELSE known[u]
    IN \A i \in DOMAIN facts :
         /\ facts[i].owner = u
         /\ facts[i].decision \in {"update", "supersede"} => facts[i].target \in 1..(i - 1)
         /\ \A j \in 1..(i - 1) :
              facts[i].content = facts[j].content => facts[j].id \in facts[i].blind
=============================================================================
