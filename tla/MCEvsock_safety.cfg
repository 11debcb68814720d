CONSTANTS
  Desc = {d1, d2}
  Fd = {f1, f2, f3}
  NULL = NULL
  MaxSize = 1
  MaxAddr = 2
SPECIFICATION Spec
INVARIANTS TypeOK FdsOwned ReadersSafe
SYMMETRY Symmetry
CHECK_DEADLOCK FALSE
