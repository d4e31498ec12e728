SPECIFICATION FairSpec
CONSTANTS
  Scripts <- MCScripts
  Manners = {"waits", "pipelines"}
  KeepAlives = {TRUE, FALSE}
INVARIANTS AnsweredAtMostOnce BatchAnswersComplete NotClosedBeforeAnswer
PROPERTY EveryRequestIsAnswered
CHECK_DEADLOCK FALSE
