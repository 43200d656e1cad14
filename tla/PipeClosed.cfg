CONSTANTS
  Envs = {e1, e2}
  First = e1
  NULL = NULL
  MAXFD = 3
  PIPE_SIZE = 1
  WORD = 2
  MaxBytes = 0
  MaxReq = 1
  Calls = {"poll", "close", "dup", "fork", "exit"}
  MemFails = TRUE
SPECIFICATION Spec
INVARIANTS
  ClosedVerdictSound
  PipeInv
