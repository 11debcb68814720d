CONSTANTS
  Node = {1, 2, 3, 4, 5, 6}
  Name = {a, b}
  EMPTY = EMPTY
  ROOT = ROOT
  NULL = NULL
  MaxPieces = 1
SPECIFICATION GrowSpec
INVARIANTS CopyComplete
ACTION_CONSTRAINT FirstFit
