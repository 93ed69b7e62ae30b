SPECIFICATION Spec
CONSTANTS
  w1 = w1
  w2 = w2
  Workers <- MCWorkers
  Capacity = 2
  MaxLines = 2
  Days = 2
  NoOne = NoOne
  PoolSize = 1
  MaxRequests <- MCMaxRequests
INVARIANTS PoolInv LinesAreKept
PROPERTIES FilesAreRight BackendEnds
CHECK_DEADLOCK FALSE
