CONSTANTS
  Node = {n1, n2, n3, n4}
  Name = {a, b}
  EMPTY = EMPTY
  ROOT = ROOT
  NULL = NULL
  MaxPieces = 3
SPECIFICATION Spec
INVARIANTS TypeOK TreeShaped RoundTrip AddArrives DeinitFreesAll
PROPERTIES DeletionAdvances ImplementsPathTree
SYMMETRY Symmetry
