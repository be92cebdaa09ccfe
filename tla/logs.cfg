SPECIFICATION LogSpec
CONSTANTS
  Handles = {1, 2}
  MaxMem = 2
  PerMsg = 2
  MaxLogMsg = 2
  MaxKey = 5
  MaxFails = 1
  MaxLives = 2
CHECK_DEADLOCK FALSE
INVARIANTS LogInOrder ToldAll AnswerComplete
