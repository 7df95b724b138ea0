SPECIFICATION FairSpec
CONSTANTS
  Capacity = 3
  Short = 2
  Long = 3
  MayFail = TRUE
  MayDie <- AnySide
INVARIANTS TypeOK AnswerAfterRequest ClientAnswered NeverStuck
PROPERTIES HalfClosed BothEnd
CHECK_DEADLOCK FALSE
