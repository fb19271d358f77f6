---------------------------- MODULE Consolidation ----------------------------
(***************************************************************************)
(* What moves a memory (CellLifecycle), or what the light phase of one     *)
(* dreaming makes of scenes (Sleep): a history chooses one of the two,     *)
(* which share nothing.                                                    *)
(***************************************************************************)
EXTENDS CellLifecycle

CONSTANTS
  NoObject, Blank, ScopeLists, SceneLists, Answers, Jaccard, Cosine,
  MinMembers, UpdateAt, SupersedeAt, NoopAt, WJaccard, WCosine, MaxSleepFaults

VARIABLES launch, sleepPc, llm, embedder, users, sceneQueue, known, items, kept, failures

Light == INSTANCE Sleep
sleepVars == <<sleepPc, llm, embedder, users, sceneQueue, known, items, kept, failures>>

Scenes == [user : Light!SceneUsers, members : Nat]
ContentsOf(answer) == [i \in DOMAIN Light!ParseFacts(answer) |-> Light!ParseFacts(answer)[i].content]
Contents == UNION {{ContentsOf(a)[i] : i \in DOMAIN ContentsOf(a)} : a \in Answers}

\* Equal texts are as similar as can be, in their characters and in their meaning.
ASSUME SleepAssumption ==
  /\ \A l \in SceneLists : l \in Seq(Scenes)
  /\ \A a \in Answers : ContentsOf(a) \in Seq(Contents)
  /\ \A x, y \in Contents : Jaccard[<<x, y>>] \in 0..100 /\ Cosine[<<x, y>>] \in 0..100
  /\ \A x \in Contents : Jaccard[<<x, x>>] = 100 /\ Cosine[<<x, x>>] = 100
  /\ WJaccard \in Nat /\ WCosine \in Nat
  /\ UpdateAt \in Int /\ SupersedeAt \in Int /\ NoopAt \in Int /\ NoopAt <= 100

ConsolidationInit == launch \in {"cells", "facts"} /\ Init /\ Light!SleepInit
ConsolidationNext ==
  \/ launch = "cells" /\ Next /\ UNCHANGED <<launch, sleepVars>>
  \/ launch = "facts" /\ Light!SleepNext /\ UNCHANGED <<launch, vars>>
ConsolidationSpec == ConsolidationInit /\ [][ConsolidationNext]_<<launch, vars, sleepVars>>

\* Sleep: a fact is kept once, and names an earlier fact of its user.
FactsReconciled == Light!FactsReconciled
=============================================================================
