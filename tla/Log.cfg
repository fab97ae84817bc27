SPECIFICATION Spec
CONSTANTS
  p1 = p1
  p2 = p2
  b1 = b1
  b2 = b2
  b3 = b3
  Proc <- MCProc
  inodestart = b1
  Block = {b1, b2, b3}
  MAXOPBLOCKS = 4
  LOGSIZE = 8
  nlog = 8
  OpBlocks = 2
  MaxOps = 4
SYMMETRY MCSymmetry
INVARIANTS
  DurableAtRest
  SleepersWillWake
PROPERTY ImplementsAtomicDisk
