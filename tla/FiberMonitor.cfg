SPECIFICATION MonitorFairSpec
CONSTANTS
  t1 = t1
  t2 = t2
  p1 = p1
  c1 = c1
  c2 = c2
  Threads <- MCThreads
  Fibers <- MCFibers
  Producers <- MCProducers
  Placements <- MCPlacements
  NoThread = NoThread
  MaxTokens = 2
INVARIANTS MonitorInv
PROPERTIES RespectsContract EveryoneIsServed
