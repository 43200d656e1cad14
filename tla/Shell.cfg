CONSTANTS
  NPROC = 7
  MAXFD = 4
  NOPEN = 4
  PIPE_SIZE = 1
  MaxLines = 3
  OutSize = 2
  CmdSize = 8
  CopySize = 7
  MAXARGS = 5
  MAXPATHLEN = 5
  MAXNAMELEN = 3
  ReadOnly = {"ro"}
  Programs <- MCPrograms
  PathOf <- MCPathOf
  Dirs <- MCDirs
  Lines <- AllLines
  Probes <- MCProbes
SPECIFICATION Spec
CHECK_DEADLOCK FALSE
INVARIANTS TypeOK CleanPrompt ExecutesMeaning PathsResolve
PROPERTY PromptReturns
