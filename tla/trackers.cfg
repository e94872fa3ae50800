SPECIFICATION AnsweringSpec
CONSTANTS
  a = a
  b = b
  c = c
  Urls = {a, b, c}
  UrlList <- Three
  Answers <- SomeAnswers
  StatusBuffer = 0
  PromptAfter = 3
  MaxTasks = 7
  MaxPanics = 1
INVARIANTS
  TypeOK
  TiersInOrder
  NoneLeftUntried
PROPERTIES
  FoundPeersAreReported
  EveryTrackerIsTried
\* When every task has ended by an error the supervisor waits for ever.
CHECK_DEADLOCK FALSE
