SPECIFICATION Spec
CONSTANTS
  NumVertices = 4
  Height <- SomeHeights
  Null = Null
  Links <- LinkBatches
  Cuts <- CutBatches
  Questions <- FewQuestions
  MaxChanges <- FewChanges
INVARIANTS
  AnswersAsCaller
CHECK_DEADLOCK TRUE
