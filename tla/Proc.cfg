SPECIFICATION Spec
CONSTANTS
  c0 = c0
  c1 = c1
  disk = disk
  Cpu <- MCCpu
  boot = c0
  NoCpu = NoCpu
  Chan <- MCChan
  NPROC = 4
  Status = {0, 1}
  PolicyIds = {0, 1, 3}
  BaseTickets = 1
  ShareTickets = 2
  MaxPid = 4
  MaxTicks = 2
INVARIANTS
  RunningOnce
  WaitersHaveWork
  ExitReportedOnce
  RunnableCanWin
  TimesAddUp
ACTION_CONSTRAINT StaysWithin
CHECK_DEADLOCK FALSE
