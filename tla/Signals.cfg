SPECIFICATION FairSpec
CONSTANTS
  q1 = q1
  e1 = e1
  e2 = e2
  NUMSIG = 2
  SigArg <- MCSigArg
  Code = {e1, e2}
  Eax <- MCEax
  NoSender = NoSender
  Sender = {q1}
  MaxSends = 3
INVARIANTS
  LostOnlyInRace
PROPERTIES
  ResumesWhereInterrupted
  SignalsAccepted
