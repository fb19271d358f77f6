------------------------------- MODULE Process -------------------------------
(***************************************************************************)
(* A process around its background tasks: how it is put together and taken *)
(* apart (Assembly), or how its task runner works meanwhile                *)
(* (BackgroundTaskRunner).  One of the two runs, the other stands still.   *)
(***************************************************************************)
EXTENDS BackgroundTaskRunner

CONSTANTS MaxFaults, MaxChanges  \* of Assembly

VARIABLES
  part,   \* "assembly" or "tasks"
  backend, stage, at, got, version, cached, fields, held, links, made, queueOf, open,
  stuck, faults, changes

assembly == <<backend, stage, at, got, version, cached, fields, held, links, made, queueOf,
              open, stuck, faults, changes>>

A == INSTANCE Assembly WITH phase <- stage

ProcessInit == Init /\ A!Init /\ part \in {"assembly", "tasks"}

ProcessNext ==
  \/ part = "assembly" /\ A!Next /\ UNCHANGED <<part, vars>>
  \/ part = "tasks" /\ Next /\ UNCHANGED <<part, assembly>>

ProcessSpec == ProcessInit /\ [][ProcessNext]_<<part, assembly, vars>>

\* Assembly: services that were both built find each other and one queue.
PartsAreWired == A!PartsAreWired
\* Assembly: nothing is closed under a worker.
ClosedBehindWorkers == A!ClosedBehindWorkers
=============================================================================
