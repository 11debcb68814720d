CONSTANTS
  Block = {b1, b2, b3}
  Res = {r1, r2}
  NULL = NULL
  MaxElements = 5
SPECIFICATION FairNewestSpec
INVARIANTS TypeOK WellLinked MemorySafe
PROPERTIES NewestFirst DestroyEnds ImplementsBlockPool
CHECK_DEADLOCK FALSE
