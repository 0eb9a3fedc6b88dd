CONSTANTS
  Elements <- MCElements
  MaxHeight = 4
  MaxBatch = 3
  Threads = {t1, t2, t3}
  Values = {3}
  Setups <- AllSetups
  Shapes <- ShapesOfAll
SYMMETRY ThreadSymmetry
SPECIFICATION Spec
ACTION_CONSTRAINT NoMarkMissed
INVARIANTS
  TypeOK
  SumsExact
  GetSumOfList
  SubsequenceSums
  MarksCleared
  TopsAreRoots
CHECK_DEADLOCK TRUE
