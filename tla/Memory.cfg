SPECIFICATION Spec
CONSTANTS
  p1 = p1
  p2 = p2
  Proc <- MCProc
  initproc = p1
  NPAGES = 18
  PGSIZE = 2
  NPTENTRIES = 2
  KERNBASE = 12
  WORD = 24
  NKTABS = 1
  Image <- MCImage
  Grow <- MCGrow
  Fails <- MCFails
  MaxLost = 1
INVARIANTS
  PagesOwnedOnce
  SizeMapped
  PanicsOnlyAfterLoss
CHECK_DEADLOCK FALSE
VIEW Shape
