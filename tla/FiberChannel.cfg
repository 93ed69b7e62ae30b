SPECIFICATION ChannelFairSpec
CONSTANTS
  t1 = t1
  t2 = t2
  w1 = w1
  w2 = w2
  r1 = r1
  Threads <- MCThreads
  Fibers <- MCFibers
  ChannelWriters <- MCWriters
  Placements <- MCPlacements
  Capacity = 2
  NoThread = NoThread
INVARIANTS ChannelInv
PROPERTIES RespectsContract ImplementsBuffer OperationsReturn
