CONSTANTS
  Elements <- MCElements4
  MaxHeight = 3
  Threads = {t1, t2}
  Heights <- Towers4
  Orders <- RingsAndPath4
  Shapes <- MCShapes
SYMMETRY ThreadSymmetry
SPECIFICATION Spec
INVARIANTS
  QuietIsCanonical
  FoundRepresentative
CHECK_DEADLOCK TRUE
