SPECIFICATION FairSpec
CONSTANTS
  NumVertices = 4
  Sequential = 1
  Batches <- FewBatches
PROPERTIES
  Implements
CHECK_DEADLOCK TRUE
