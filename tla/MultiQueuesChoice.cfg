SPECIFICATION Spec
CONSTANTS
  Threads = {t1, t2}
  Queues = {q1, q2}
  Offers = {1, 2}
  Dists = {1, 2}
  QueueCapacity = 10
  NoThread = NoThread
  NoQueue = NoQueue
PROPERTIES
  SmallerMinChosen
