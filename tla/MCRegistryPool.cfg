CONSTANTS
  Base = {a1}
  Fn = {f1, f2}
  Name = {n1, EMPTY}
  EMPTY = EMPTY
  Type = {add, del}
  Registrable = {add, del}
  Link = {l1}
  NULL = NULL
  EpochMax = 2
  MaxLoads = 2
  MaxReg = 2
  Block = {b1, b2, b3, b4}
  MaxElements = 6
SPECIFICATION PoolSpec
INVARIANTS ListsAllocated UnloadFrees LinkComplete
PROPERTIES GrowsNewest
SYMMETRY Symmetry
CHECK_DEADLOCK FALSE
