SPECIFICATION RWFairSpec
CONSTANTS
  t1 = t1
  t2 = t2
  w1 = w1
  w2 = w2
  r1 = r1
  r2 = r2
  Threads <- MCThreads
  Fibers <- MCFibers
  Writers <- MCWriters
  Placements <- MCPlacements
  NoThread = NoThread
INVARIANTS SharedMutexInv
PROPERTIES RespectsContract GrantPolicy
