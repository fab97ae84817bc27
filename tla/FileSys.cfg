SPECIFICATION Spec
CONSTANTS
  p1 = p1
  p2 = p2
  Proc <- MCProc
  NINODES = 4
  NINODE = 3
  NFILE = 2
  Block = {1, 2}
  MAXFILE = 2
  Name = {"a", "b"}
  Start <- MCStart
  Calls <- MCCalls
  Fd = {0, 1}
  MaxCalls = 3
INVARIANTS
  NothingFreedInUse
  CacheCoherent
  BlocksOwned
  NothingLeaked
  LinksExact
  NoPanic
SYMMETRY Symmetry
