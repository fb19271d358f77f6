\* In memory: a deque of two records shared with parked cold-path tasks; liveness.
\* Redis: a list of one record; an automatic loop and an admin call (two reconciles),
\* two loops with the official lock, three without (three each); two faults.
CONSTANTS
  c1 = c1  c2 = c2  c3 = c3  r1 = r1  r2 = r2  auto = auto  admin = admin
  Cells = {c1, c2, c3}
  Requests = {r1, r2}
  Batch <- TwoRequests
  Reconcilers = {auto}
  AutoLoop = auto
  BatchSize <- Wide
  Backend = "memory"
  Capacity = 2
  MaxRetries = 2
  TaskAttempts = 3
  ParkedCells = {c1}
  MaxFaults = 1
  a = a  b = b  c = c  m = m
  FailedCells = {c1, c2}
  Replicas = {a, b, c}
  Admins = {m}
  Launches <- ThreeLaunches
  RedisSize = 1
  Limit = 2
  MaxEvents = 2
SPECIFICATION MCSpec
INVARIANTS RecordKept TwinsHaveCause
PROPERTIES FailuresSettle
CHECK_DEADLOCK FALSE
