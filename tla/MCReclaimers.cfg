SPECIFICATION MCFairSpec
CONSTANTS
  Schemes = {"debra", "debraplus", "hazardptr"}
  NumProcesses = 2
  MinOpsBeforeRead = 1
  Objects = {1, 2, 3}
  DebraObjects = {1}
  MAX_PROTECT = 1
  BLOCK_SIZE = 1
  ScanThreshold = 3
  NeutralizeThreshold = 2
  NULL = NULL
  HPObjects = {1, 2, 3}
  HPCapacity = 3
  HPThreshold = 3
INVARIANTS TypeOK SchemesTypeOK CheckedInBounds AnnouncedKept HeldKeptUnlessMoved RoomToRetire
PROPERTIES GraceSpec EpochAdvances
CHECK_DEADLOCK FALSE
