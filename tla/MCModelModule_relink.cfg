CONSTANTS
  Base = {a1}
  Fn = {f1}
  Name = {n1, EMPTY}
  EMPTY = EMPTY
  Type = {add, get}
  Registrable = {add}
  Link = {l1}
  NULL = NULL
  EpochMax = 3
  MaxLoads = 3
  MaxReg = 1
SPECIFICATION ModuleSpec
INVARIANTS RelinkFinds
SYMMETRY Symmetry
CHECK_DEADLOCK FALSE
