SPECIFICATION Spec
CONSTANTS
  Objects = {o1, o2, o3, o4, o5, o6}
  Blocks = {1, 2, 3, 4, 5, 6, 7}
  Bags = {"retired", "free"}
  BLOCK_SIZE = 2
  MAX_BLOCK_POOL_SIZE = 1
  POOL_THRESHOLD_IN_BLOCKS = 3
  scanThreshold = 3
  NULL = NULL
SYMMETRY Symmetry
INVARIANTS TypeOK Validate BlocksInOnePlace OnePlace NothingLeft
PROPERTIES RecyclingSpec FilterExact ScanLeavesFew
