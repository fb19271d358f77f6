SPECIFICATION MCSpec
CONSTANTS
  a1 = a1
  a2 = a2
  b1 = b1
  none = none  p = p  q = q  r = r
  Cells <- MCCells
  Owner <- MCOwner
  None = none
  Confirming <- MCConfirming
  Signal <- MCSignal
  LambdaDay = 0
  SMax = 2
  Richness <- MCRichness
  Freshness <- MCFreshness
  ArchiveAfter = 2
  Retention = 4
  HotDays = 1
  WarmDays = 2
  ColdDays = 3
  HotCount = 3
  WarmCount = 2
  Feedbacks = 2
  FeedbackInputs <- MCFeedbackInputs
  Deltas = {1, 2}
  Default = 1
  MaxJobs = 2
  MaxStarted = 2
  Calls = 2
  CallInputs <- MCCallInputs
  MaxMemories = 1
  Margin = 100
  FindLimit = 2
  InitialDocs <- MCInitialDocs
  MaxNow = 1
  MaxFaults = 2
  NoObject = none
  Blank = b1
  ScopeLists <- MCScopeLists
  SceneLists <- MCSceneLists
  Answers <- MCAnswers
  Jaccard <- MCJaccard
  Cosine <- MCCosine
  MinMembers = 3
  UpdateAt = 85
  SupersedeAt = 93
  NoopAt = 97
  WJaccard = 4
  WCosine = 6
  MaxSleepFaults = 2
INVARIANTS CountsAccounted  DriftHasCause FactsReconciled
 
CHECK_DEADLOCK FALSE
