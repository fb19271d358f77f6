\* Three tasks, two permits, two attempts: waiting, back-off and cancelling meet.
\* An assembly with two parts that fail and one change of the configuration.
CONSTANTS
  Tasks = {t1, t2, t3}
  MaxConcurrent = 2
  MaxAttempts = 2
  MaxFaults = 2
  MaxChanges = 1
SPECIFICATION MCSpec
INVARIANTS PermitsBalance PartsAreWired ClosedBehindWorkers
 
CHECK_DEADLOCK FALSE
