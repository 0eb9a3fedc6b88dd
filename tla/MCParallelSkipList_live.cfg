CONSTANTS
  Elements <- MCElements3
  MaxHeight = 3
  Threads = {t1, t2}
  Heights <- Towers3
  Orders <- RingAndPath3
  Shapes <- MCShapes
SPECIFICATION FairSpec
PROPERTIES
  CallsReturn
  Implements
CHECK_DEADLOCK TRUE
