\* Three cells and two entities, a graph with room for four nodes and three
\* edges, scenes of two cells, two at a time.  c2 is late, and c2 and c3 are too
\* far apart in time to share a scene.
CONSTANTS
  c1 = c1  c2 = c2  c3 = c3  e1 = e1  e2 = e2
  Cells = {c1, c2, c3}
  Entities = {e1, e2}
  MaxNodes = 4
  MaxEdges = 3
  Time <- Times
  Embedded <- Vectors
  Gap = 2
  MaxSceneSize = 2
  MaxScenes = 2
  none = none  blank = blank
  NoObject = none
  Blank = blank
  Answers <- MCAnswers
  Texts <- MCTexts
  Length <- MCLength
  Inside <- MCInside
  Stopwords = {}
  MinLength = 2
  MaxEntities = 2
  MaxAttempts = 2
  Reruns <- Again
  MaxFaults = 2
SPECIFICATION MCSpec
INVARIANTS GraphConsistent ScenesAreChains EntitiesListed
CHECK_DEADLOCK FALSE
