SPECIFICATION BudgetSpec
CONSTANTS
  Threads = {t1, t2}
  Queues = {q1, q2}
  Offers = {1}
  Dists = {1}
  QueueCapacity = 10
  NoThread = NoThread
  NoQueue = NoQueue
  CallBudget = 2
PROPERTIES
  CallsReturn
CHECK_DEADLOCK FALSE
