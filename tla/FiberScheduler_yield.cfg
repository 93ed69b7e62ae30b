SPECIFICATION FairSpec
CONSTANTS
  t0 = t0
  t1 = t1
  k1 = k1
  k2 = k2
  f1 = f1
  f2 = f2
  Threads <- MCThreads
  Main = t0
  Tasks <- MCTasks
  Fibers <- MCFibers
  PoolSize = 1
  YieldAgain = TRUE
  NoThread = NoThread
  NoFiber = NoFiber
  NoTask = NoTask
PROPERTY OwedIsResumed
