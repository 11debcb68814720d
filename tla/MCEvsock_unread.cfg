CONSTANTS
  Desc = {d1, d2}
  Fd = {f1, f2}
  NULL = NULL
  MaxSize = 1
  MaxAddr = 1
SPECIFICATION FairSteadySpec
PROPERTIES DataConsumed

CHECK_DEADLOCK FALSE
