\* One task, one worker that may crash once.
CONSTANTS
  Tasks = {t1}
  Bulk = {}
  Workers = {w1}
  MaxJobs = 1
  MaxFaults = 1
  None = None
SPECIFICATION Spec
INVARIANTS CrashRecovered
CHECK_DEADLOCK FALSE
