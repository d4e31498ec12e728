SPECIFICATION FairSpec
CONSTANTS
  AttemptsCount = 2
  Setups <- Worker
  MaxExecutes = 2
PROPERTY ExecuteEnds
CHECK_DEADLOCK FALSE
