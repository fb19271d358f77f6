------------------------------ MODULE MCColdPath ------------------------------
(* Constants of ColdPath for TLC. *)
EXTENDS ColdPath

CONSTANTS c1, c2, c3, e1, e2, none, blank

Times == (c1 :> 3) @@ (c2 :> 1) @@ (c3 :> 5)
Vectors == {c1, c2, c3}
Item(content, entities) == [content |-> content, entities |-> entities]
MCAnswers ==
  {<<none>>, <<Item(blank, <<e2>>), none, Item(blank, <<e1, e2>>)>>}
Found(name, kind) == [name |-> name, kind |-> kind]
MCTexts == {<<>>, <<Found(e1, 3), Found(e2, 3), Found(e1, 3)>>}
MCLength == (e1 :> 3) @@ (e2 :> 2)
MCInside == {<<e2, e1>>}
Again == {c1}
\* Bound: three cells with one fault or one task run again, or two cells with a
\* second fault that meets the single updates after a bulk write failed.
MCNext ==
  /\ Next
  /\ stage'[c3] # "new" => faults' + Cardinality(reran') < MaxFaults
  /\ faults < faults' /\ faults' = MaxFaults =>
       \E c \in Cells : stage[c] = "fallback" /\ stage'[c] = "graph"
MCSpec == Init /\ [][MCNext]_vars
=============================================================================
