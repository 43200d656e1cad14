CONSTANTS
  MAX_CMD_LEN = 5
  MAX_HISTORY = 2
  CHUNK = 4
  BLOCK_SIZE = 4
  Printable <- Keys
  Blank = " "
  Comment = "#"
  NUL = "0"
  NL = "n"
  HOLE = "h"
  Stale <- OldBytes
SPECIFICATION Spec
CONSTRAINT BoundedLines
INVARIANTS LineInv LenIsStrlen
PROPERTIES SaveKeepsOrder ImplementsEditor
