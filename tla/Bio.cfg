SPECIFICATION FairSpec
CONSTANTS
  p1 = p1
  p2 = p2
  b1 = b1
  b2 = b2
  b3 = b3
  b4 = b4
  Proc <- MCProc
  Block <- MCBlock
  Reads <- MCReads
  NoBlock = NoBlock
  NBUF = 3
  IdeOk = {TRUE}
  MaxPinned = 1
  MaxWrites = 1
INVARIANTS
  OneUserPerBlock
  ReadsLatest
PROPERTY IoReturns
