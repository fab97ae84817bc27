CONSTANTS
  c1 = c1
  c2 = c2
  p1 = p1
  p2 = p2
  ticks = ticks
  ptable = ptable
  NoCpu = NoCpu
  Cpu <- MCCpu
  Proc <- MCProc
  Lock <- MCLock
  Nest <- MCNest
SPECIFICATION Spec
SYMMETRY MCSymmetry
INVARIANTS
  MutualExclusion
  HoldingExact
  MaskedWhileHeld
  InterruptsRestored
  NoPanic
