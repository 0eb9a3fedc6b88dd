SPECIFICATION Spec
CONSTANTS
  Line <- Nodes6
  Priority <- Priorities
  Batches <- SomeBatches
  kSplitSequentialThreshold = 3
  kSplitOneTreeSequentialThreshold = 2
  kJoinSequentialThreshold = 2
  SCAN_BSIZE = 2
  MAX_RADIX = 1
  BlockSize = 2
  SetSize = 1
  Null = Null
INVARIANTS
  BranchesApart
  ListsAsCaller
CHECK_DEADLOCK TRUE
