SPECIFICATION FairSpec
CONSTANTS
  Titles <- MCTitles
  Orders <- MCOrders
  Missing <- MCMissing
  Moving <- MCMoving
  Kinds <- MCKinds
  Attempts = 6
  Shots = 3
  Polls = 9
  DEAD_POLLS = 6
  Prompt = TRUE
INVARIANTS
  TypeOK
  RightTitle
  SurvivalRight
PROPERTIES
  Finishes
CHECK_DEADLOCK FALSE
