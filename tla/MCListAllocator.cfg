SPECIFICATION Spec
CONSTANTS
  Workers = {w1, w2}
  list_length = 2
  default_alloc_size = 0
  max_blocks = 6
  MaxMoves = 3
  Null = Null
  Data = Data
SYMMETRY Symmetry
INVARIANTS
  TypeOK
  BlocksInOnePlace
  ListsWhole
  MemoryAccounted
PROPERTIES
  GrowsWhenNeeded
CHECK_DEADLOCK FALSE
