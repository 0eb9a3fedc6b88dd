CONSTANTS
  Elements <- MCElements3
  MaxHeight = 3
  Threads = {t1, t2, t3}
  Heights <- Towers3
  Orders <- RingAndPath3
  Shapes <- MCShapes
SYMMETRY ThreadSymmetry
SPECIFICATION Spec
INVARIANTS
  TypeOK
  InBounds
  LinksInShape
  NeverBeyondRequest
  PointersPaired
  SplitAnswers
CHECK_DEADLOCK TRUE
