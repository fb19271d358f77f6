\* Two updates that share an id and another task, two workers of one slot, one
\* fault: a job put back or left behind by one worker meets the other.
CONSTANTS
  Tasks = {t1, t2, t3}
  Bulk = {t1, t2}
  Workers = {w1, w2}
  MaxJobs = 1
  MaxFaults = 1
  None = None
SPECIFICATION FairSpec
INVARIANTS StartedOnce NothingVanishes
PROPERTIES JobsLeave
CHECK_DEADLOCK FALSE
