CONSTANTS
  Node = {1, 2, 3}
  Name = {na, nb}
  EMPTY = EMPTY
  ROOT = ROOT
  NULL = NULL
  MaxPieces = 3
  Base = {a1}
  Fn = {f1, f2}
  FnName = {fa, EMPTY}
  Type = {add, get}
  Registrable = {add}
  EpochMax = 2
  MaxLoads = 1
  MaxReg = 2
  na = na
  nb = nb
  fa = fa
  add = add
  get = get
  FileLine <- Lines
  MaxLines = 3
SPECIFICATION Spec
INVARIANTS AttributesLand NullNodeExplained LinksServe NoLinkIntoClosed
PROPERTIES StartEnds StopEnds
ACTION_CONSTRAINT FirstFit
