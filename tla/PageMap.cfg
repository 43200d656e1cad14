CONSTANTS
  NENV = 2
  NPAGE = 11
  Sizes = {8, 11}
  NTLB = 1
  Words = {0, 1}
  Junk = 1
  Argv = 1
  UTEMP = 0
  UCOW = 1
  UTEXT = 2
  USTACK = 3
  UXSTACK = 5
  UTOP = 6
  UVPT = 8
  PDX <- TwoTables
SPECIFICATION Spec
INVARIANTS SpaceInv RefCounts PagesAccounted TlbCoherent WritableOnce CowHasHandler
PROPERTY ImplementsSpaces
CHECK_DEADLOCK FALSE
VIEW PagesRenamed
