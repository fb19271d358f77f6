-------------------------- MODULE MCCellLifecycle --------------------------
(* Two launches.  "cells": two cells of one user, one cold, and a cell of   *)
(* another that may arrive; any two of two feedbacks, two jobs of hits and  *)
(* two consolidate calls.  "facts": one dreaming over scenes of two users,  *)
(* contents p and q of the same characters with unlike meanings, r much     *)
(* like both.                                                               *)
EXTENDS Consolidation

CONSTANTS a1, a2, b1, none, p, q, r

ann == [tenant |-> "t", user |-> "ann"]
bob == [tenant |-> "t", user |-> "bob"]
MCCells == {a1, a2, b1}
MCOwner == [c \in MCCells |-> IF c = b1 THEN bob ELSE ann]
MCConfirming == {"confirm"}
MCSignal == [t \in {"confirm", "reject"} |-> IF t = "confirm" THEN 1 ELSE -2]
MCRichness == [c \in MCCells |-> IF c = a2 THEN 2 ELSE 0]
MCFreshness == [d \in 0..3 |-> 4 - d]
MCFeedbackInputs ==
  {[cell |-> a1, memory |-> none, type |-> "confirm", value |-> 0, scope |-> s] : s \in {ann, bob}}
    \cup {[cell |-> none, memory |-> m, type |-> "reject", value |-> 0, scope |-> ann] : m \in {a1, none}}
MCCallInputs ==
  {[tenant |-> "t", user |-> u, phase |-> ph] : u \in {"ann", none}, ph \in {"light", "deep"}}
Old(state, access) == [state |-> state, strength |-> 1, access |-> access, created |-> 0, updated |-> 0]
MCInitialDocs == {(a1 :> Old("COLD", 0) @@ a2 :> Old("ACTIVE", 1) @@ b1 :> Absent)}

-----------------------------------------------------------------------------
Symmetric(x, y, z) ==
  LET of(a, b) == IF a = b THEN 100 ELSE IF {a, b} = {p, q} THEN x ELSE IF {a, b} = {p, r} THEN y ELSE z
  IN [pair \in {p, q, r} \X {p, q, r} |-> of(pair[1], pair[2])]
Scene(user, members) == [user |-> user, members |-> members]
Fact(content) == [content |-> content]

MCScopeLists == {<<ann>>, <<ann, bob>>}
MCSceneLists == {<<>>, <<Scene(ann, 2), Scene(ann, 3), Scene(ann, 3)>>, <<Scene(ann, 3), Scene(bob, 3)>>}
MCAnswers == {<<none, Fact(b1)>>, <<Fact(p), Fact(p)>>, <<Fact(p), Fact(q), Fact(r)>>}
MCJaccard == Symmetric(100, 80, 95)
MCCosine == Symmetric(40, 100, 95)

\* Bounds: either launch starts from one setting of the other part.
MCInit == ConsolidationInit /\ (launch = "facts" => atomic) /\ (launch = "cells" => llm /\ embedder)
MCSpec == MCInit /\ [][ConsolidationNext]_<<launch, vars, sleepVars>>
=============================================================================
