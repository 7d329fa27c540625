SPECIFICATION Spec
CONSTANTS
  D = 2
  Capacity = 2
  Offers = {o1, o2, o3, o4, o5}
  Dists = {1, 2, 3}
  INT_MAX = 9
  NULL = NULL
SYMMETRY Symmetry
INVARIANTS TypeOK NoNullCompared
PROPERTIES QueueSpec RootRead
