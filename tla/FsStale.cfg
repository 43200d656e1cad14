CONSTANTS
  NBLOCKS = 6
  NDIRECT = 1
  NINDIRECT = 3
  FILE2BLK = 2
  name1 = name1
  name2 = name2
  Names = {name1, name2}
  LongNames = {}
  NoName = NoName
  Garbage = Garbage
  Vals = {9}
  Junk = 8
  ROOT = ROOT
  NULL = NULL
  Wild = Wild
  Clients = {c1}
  MAXOPEN = 2
  Paths <- MCPaths
  Modes <- MCModes
  MaxBlocks = 2
  MaxCalls = 6
SPECIFICATION Spec
INVARIANT ReadsUsedBlocks
