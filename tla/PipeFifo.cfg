CONSTANTS
  Envs = {e1, e2}
  First = e1
  NULL = NULL
  MAXFD = 3
  PIPE_SIZE = 2
  WORD = 4
  MaxBytes = 5
  MaxReq = 2
  Calls = {"read", "write", "close", "fork", "exit"}
  MemFails = FALSE
SPECIFICATION Spec
INVARIANTS
  FifoInv
  FifoOrder
PROPERTY HangupReturns
