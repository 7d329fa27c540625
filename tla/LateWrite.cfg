SPECIFICATION MCSpec
CONSTANTS
  NumProcesses = 2
  MinOpsBeforeRead = 1
  Objects = {o1, o2, o3}
  Vertices = {v1}
  NULL = NULL
  NoThread = NoThread
  NoVertex = NoVertex
  MaxEpoch = 3
SYMMETRY Symmetry
INVARIANTS LateWriteSafe
CHECK_DEADLOCK FALSE
