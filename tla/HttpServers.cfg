SPECIFICATION Spec
CONSTANTS
  Scripts <- MCScripts
  MaxCuts = 1
  Window = 2
  InitBuffSize = 4
  HeadLen = 2
  FileLen = 2
  Files <- MCFiles
  ReadBufferSize = 20
  ReplyLen = 2
INVARIANTS BytesAreKept AnswersFit ResourcesAreReleased
PROPERTIES ClientIsServed
CHECK_DEADLOCK FALSE
