SPECIFICATION FairSpec
CONSTANTS
  r1 = r1
  r2 = r2
  w1 = w1
  w2 = w2
  Reader = {r1, r2}
  Writer = {w1, w2}
  Shared <- MCShared
  PIPESIZE = 2
  MaxRead = 2
  MaxWrite = 3
  Wrap = 4
  Killable = {r2, w2}
  MaxBytes = 4
INVARIANTS
  Fifo
  SleepersHaveNoWork
  FreedUnused
PROPERTY CallsReturn
CHECK_DEADLOCK FALSE
