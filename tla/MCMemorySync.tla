---------------------------- MODULE MCMemorySync ----------------------------
(* Instances of MemorySync for TLC. *)
EXTENDS MemorySync, TLC

CONSTANTS c1, c2, c3, r1, r2, auto, admin

TwoRequests == r1 :> {c1, c2} @@ r2 :> {c3}
OneRequest == r1 :> {c1, c2}

\* The automatic loop sees the whole queue, the admin call one record of it.
WideAndNarrow == auto :> 4 @@ admin :> 1
Wide == auto :> 4
=============================================================================
