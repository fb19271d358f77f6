\* MongoDLQ, which cold-path tasks of one cell may be parked in; one request, the
\* automatic loop and an admin call; one fault.
CONSTANTS
  c1 = c1  c2 = c2  c3 = c3  r1 = r1  r2 = r2  auto = auto  admin = admin
  Cells = {c1, c2}
  Requests = {r1}
  Batch <- OneRequest
  Reconcilers = {auto, admin}
  AutoLoop = auto
  BatchSize <- WideAndNarrow
  Backend = "mongo"
  Capacity = 1
  MaxRetries = 2
  TaskAttempts = 3
  ParkedCells = {c1}
  MaxFaults = 1
SPECIFICATION Spec
INVARIANTS NothingForgotten RetriesBounded 
PROPERTIES ImplementsPromise
CHECK_DEADLOCK FALSE
