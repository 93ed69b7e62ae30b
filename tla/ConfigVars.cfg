SPECIFICATION Spec
CONSTANTS
  t1 = t1
  t2 = t2
  a = a
  b = b
  int = int
  str = str
  v1 = v1
  v2 = v2
  Threads <- MCThreads
  Names <- MCNames
  FileName = a
  Types <- MCTypes
  Values <- MCValues
  Default = v1
  Malformed = Malformed
  Contents <- MCContents
  Registry = Registry
  NoOne = NoOne
  Null = Null
  MayCall <- MCMayCall
  MaxCalls <- MCMaxCalls
  Predefined <- MCPredefined
  MaxTime = 2
INVARIANTS ConfigInv FileIsLoaded
PROPERTIES CreatedOnce OperationsReturn
CHECK_DEADLOCK FALSE
