SPECIFICATION FairSpec
CONSTANTS
  c0 = c0
  c1 = c1
  disk = disk
  Cpu <- MCCpu
  boot = c0
  NoCpu = NoCpu
  Chan <- MCChan
  NPROC = 3
  Status = {0}
  PolicyIds = {}
  BaseTickets = 1
  ShareTickets = 2
  MaxPid = 3
  MaxTicks = 0
PROPERTY WaitReturns
CHECK_DEADLOCK FALSE
