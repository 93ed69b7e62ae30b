CONSTANTS
  listen = listen
  client = client
  c1 = c1
  c2 = c2
  w1 = w1
  w2 = w2
  w3 = w3
  Nobody = nobody
  Listen = listen
  Client = client
  Conns <- MCConns
  Fds <- MCFds
  Watchers <- MCWatchers
  Tasks <- MCTasks
  watched <- MCWatched
  deadline <- MCDeadline
  form <- MCForm
  Starts <- MCStarts
  Want = 2
  Units = 2
  Room = 1
  MaxTime = 2
SPECIFICATION Spec
INVARIANTS EventsAreWatched EchoIsWhole
PROPERTIES HandlersGoOn EveryoneIsAccepted DeadlinesAreKept
CHECK_DEADLOCK FALSE
