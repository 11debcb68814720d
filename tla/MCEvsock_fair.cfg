CONSTANTS
  Desc = {d1}
  Fd = {f1, f2}
  NULL = NULL
  MaxSize = 1
  MaxAddr = 2
SPECIFICATION FairSpec
PROPERTIES RequestHandled ShutdownCompletes

CHECK_DEADLOCK FALSE
