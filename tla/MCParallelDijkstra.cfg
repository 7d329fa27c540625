SPECIFICATION FairSpec
CONSTANTS
  Vertices <- MCVertices
  Neighbors <- MCNeighbors
  Index <- MCIndex
  NumVertices = 3
  Source = 0
  Edges <- Triangle
  INT_MAX = 20
  NumOfThreads = 3
  NULL = NULL
INVARIANTS
  TypeOK
  TerminationSound
  ResultCorrect
  NoOfferLost
  SumsBounded
PROPERTIES
  OnlyImproves
  Termination
