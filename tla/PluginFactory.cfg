\* Three builds of two keys, two reloads, and a shutdown: a failed build, one
\* that waits for its Lock and one that comes later.
CONSTANTS
  Calls = {b1, b2, b3}
  Reloads = {r1, r2}
  Keys = {k1, k2}
  None = None
SPECIFICATION FairSpec
INVARIANTS QuietKeyStartsOnce CachedIsRunning
PROPERTIES BuildsEnd
CHECK_DEADLOCK FALSE
