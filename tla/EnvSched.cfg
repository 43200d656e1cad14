CONSTANTS
  NENV = 3
  NASID = 3
  NPAGE = 6
  BootPri <- MCBootPri
  MaxAlloc = 4
  Statuses = {0, 1}
  Vals = {7}
  NULL = NULL
  HEAD = HEAD
SPECIFICATION Spec
INVARIANTS
  RunQueueComplete
  EnvRunAssertHolds
  AsidsExclusive
  RecvingMeansBlocked
  DeliveredIntact
  WaitFindsChild
  KernelInv
PROPERTY YieldGivesWay
