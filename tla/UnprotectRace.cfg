SPECIFICATION MCSpec
CONSTANTS
  Schemes = {"hazardptr"}
  NumProcesses = 2
  MinOpsBeforeRead = 1
  Objects = {1}
  DebraObjects = {1}
  MAX_PROTECT = 1
  BLOCK_SIZE = 1
  ScanThreshold = 3
  NeutralizeThreshold = 2
  NULL = NULL
  HPObjects = {1, 2, 3}
  HPCapacity = 3
  HPThreshold = 3
INVARIANTS HeldNotFreed
CHECK_DEADLOCK FALSE
