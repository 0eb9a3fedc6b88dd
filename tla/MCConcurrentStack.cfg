SPECIFICATION Spec
CONSTANTS
  Threads = {t1, t2, t3}
  MaxNodes = 4
  Initial = 2
  MaxCalls = 4
  Empty = Empty
  Null = Null
SYMMETRY Symmetry
INVARIANTS
  TypeOK
  NodesInOnePlace
  SizeExact
PROPERTIES
  Implements
CHECK_DEADLOCK TRUE
