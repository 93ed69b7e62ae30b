CONSTANTS
  t1 = t1
  t2 = t2
  fa = fa
  fb = fb
  fc = fc
  nobody = nobody
  NoOne = nobody
  Threads <- MCThreads
  Fibers <- MCFibers
  host <- MCHost
  Fds <- MCFds
  Start <- MCStart
  Script <- MCScript
  WriteLen = 2
  Room = 1
SPECIFICATION Spec
INVARIANTS PollersAreExact HooksAreHonest ContextBelongsToFile
PROPERTIES PollerIsResumed
CHECK_DEADLOCK FALSE
