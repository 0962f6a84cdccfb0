SPECIFICATION KeySpec
CONSTANTS
  Workers = {tm, c1}
  Managers = {tm}
  SequenceLimit = 2
  MaxTime = 3
  MaxIds = 3
CHECK_DEADLOCK FALSE
INVARIANTS KeyTypeOK IdsIncrease OwnAnswers AnswersUnderWay
