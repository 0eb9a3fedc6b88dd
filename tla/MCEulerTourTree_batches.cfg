SPECIFICATION Spec
CONSTANTS
  NumVertices = 4
  Sequential = 1
  Batches <- ManyBatches
INVARIANTS
  TypeOK
  ToursAreTrees
  JoinsMatchEnds
  FreedUnreachable
  MarksAreCuts
PROPERTIES
  CutsOnlyMarked
CHECK_DEADLOCK TRUE
