\* Redis store, three overlapping attempts, up to two faults; two ingest requests;
\* one query over four memories.
SPECIFICATION MCSpec
CONSTANTS
  Attempts = {a1, a2, a3}
  Store = "redis"
  MaxFaults = 2
  None = None  Garbage = Garbage  Infinite = Infinite  Failed = Failed
  Blank = Blank  Requests <- MCRequests  Launches <- MCLaunches  Rpm = 1  Window = 1  MaxNow = 2
  Params <- MCParams  Defaults <- MCDefaults  RefineThreshold = 2  PromptTurns = 3
  r1 = r1  r2 = r2  t1 = t1  t2 = t2  u1 = u1  u2 = u2  secret = secret  other = other
  Memories <- MCMemories  Early <- MCEarly  One <- MCOne  Weight <- MCWeight  RrfK = 1
  Lambda = 7  Similarity <- MCSimilarity  Factor <- MCFactor  Deployments <- MCDeployments
  Asked <- MCAsked  Queries <- MCQueries  ChannelFetch = 1  Lookup = 2  OverFetch = 1
  MaxLosses = 1
  m1 = m1  m2 = m2  m3 = m3  m4 = m4
INVARIANTS OneWriter DuplicatesAreFaults CellsPartition ServedAsBound
           NothingHidden UnanimityRespected GreedyDiversity
PROPERTIES ResultSticks KeySettles RecallEnds
CHECK_DEADLOCK FALSE
