SPECIFICATION Spec
CONSTANTS
  c0 = c0
  c1 = c1
  c2 = c2
  Cpu <- MCCpu
SYMMETRY MCSymmetry
INVARIANTS
  OnlyConsoleCircles
  SchedHoldsPtableOnly
CHECK_DEADLOCK FALSE
