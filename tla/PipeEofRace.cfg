CONSTANTS
  Envs = {e1, e2}
  First = e1
  NULL = NULL
  MAXFD = 3
  PIPE_SIZE = 1
  WORD = 2
  MaxBytes = 1
  MaxReq = 1
  Calls = {"read", "write", "close", "fork", "exit"}
  MemFails = FALSE
SPECIFICATION Spec
INVARIANT EofMeansDrained
