----------------------------- MODULE MCProcess -----------------------------
(* A process for TLC: while its tasks run, which backend it has is all the same. *)
EXTENDS Process

MCInit == ProcessInit /\ (part = "tasks" => backend = "file")

\* While the process is assembled no task runs, and none waits for fairness.
MCSpec == MCInit /\ [][ProcessNext]_<<part, assembly, vars>> /\ Fairness
=============================================================================
