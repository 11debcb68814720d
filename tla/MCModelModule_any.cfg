CONSTANTS
  Base = {a1, a2}
  Fn = {f1, f2}
  Name = {n1, EMPTY}
  EMPTY = EMPTY
  Type = {add, get}
  Registrable = {add}
  Link = {l1, l2}
  NULL = NULL
  EpochMax = 2
  MaxLoads = 3
  MaxReg = 2
SPECIFICATION Spec
INVARIANTS TypeOK EpochNotZero LinkCoherent GetReturnsMapped
SYMMETRY Symmetry
CHECK_DEADLOCK FALSE
