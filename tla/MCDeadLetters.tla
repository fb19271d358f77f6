---------------------------- MODULE MCDeadLetters ----------------------------
(* The queues for TLC: the cells that fail in memory, and three launches on Redis. *)
EXTENDS MCMemorySync, DeadLetters

CONSTANTS a, b, c, m

AnAdmin == [cells |-> {c1, c2}, reconcilers |-> {a, m}, official |-> TRUE, rounds |-> 2]
ThreeLaunches == {
  AnAdmin,
  [cells |-> {c1}, reconcilers |-> {a, b}, official |-> TRUE, rounds |-> 3],
  [cells |-> {c1}, reconcilers |-> {a, b, c}, official |-> FALSE, rounds |-> 3]}

MCInit == QueueInit /\ (backend = "memory" => launch = AnAdmin)

\* On Redis MemorySync stands still, and nothing in it waits for fairness.
MCSpec == MCInit /\ [][QueueNext]_<<backend, redis, vars>> /\ Fairness
=============================================================================
