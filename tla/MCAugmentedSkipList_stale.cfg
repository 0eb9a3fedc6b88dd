CONSTANTS
  Elements <- MCElements
  MaxHeight = 3
  MaxBatch = 3
  Threads = {t1, t2}
  Values = {3}
  Setups <- HighRace
  Shapes <- ShapesOfHighRace
SYMMETRY ThreadSymmetry
SPECIFICATION Spec
INVARIANTS
  GetSumOfList
CHECK_DEADLOCK TRUE
