SPECIFICATION FairSpec
CONSTANTS
  AttemptsCount = 2
  Setups <- AllSetups
  MaxExecutes = 1
INVARIANTS AnsweredOnce PoolEntryReturned
PROPERTIES AnswerIsFinal ExecuteIsAnswered
CHECK_DEADLOCK FALSE
