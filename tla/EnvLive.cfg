CONSTANTS
  NENV = 3
  NASID = 3
  NPAGE = 6
  BootPri <- MCBootPriMixed
  MaxAlloc = 4
  Statuses = {1}
  Vals = {}
  NULL = NULL
  HEAD = HEAD
SPECIFICATION Spec
PROPERTIES
  EveryRunnableRuns
  WaitedZombieIsReaped
