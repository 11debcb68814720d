CONSTANTS
  Block = {b1, b2, b3}
  Res = {r1, r2}
  NULL = NULL
  MaxElements = 5
SPECIFICATION Spec
SYMMETRY Symmetry
INVARIANTS OneOwner CounterCovers
CHECK_DEADLOCK FALSE
