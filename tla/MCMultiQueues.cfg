SPECIFICATION Spec
CONSTANTS
  Threads = {t1, t2}
  Queues = {q1, q2}
  Offers = {1, 2, 3}
  Dists = {1, 2}
  QueueCapacity = 2
  NoThread = NoThread
  NoQueue = NoQueue
INVARIANTS
  TypeOK
  MutualExclusion
  CountExact
  OnePlace
  ExtractNonEmpty
PROPERTIES
  PoolSpec
SYMMETRY Symmetry
