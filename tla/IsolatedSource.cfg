SPECIFICATION Spec
CONSTANTS
  Vertices <- MCVertices
  Neighbors <- MCNeighbors
  Index <- MCIndex
  NumVertices = 3
  Source = 2
  Edges <- OneEdge
  INT_MAX = 20
  NumOfThreads = 2
  NULL = NULL
INVARIANTS
  SourceAtZero
