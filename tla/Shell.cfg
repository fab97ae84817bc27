SPECIFICATION FairSpec
CONSTANTS
  NPROC = 5
  NOFILE = 5
  NPIPE = 2
  MAXARGS = 3
  MaxLines = 1
  Typed <- MCTyped
INVARIANTS
  ParserExact
  ForegroundDone
PROPERTY LineEnds
CHECK_DEADLOCK FALSE
