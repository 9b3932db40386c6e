SPECIFICATION Spec
CONSTANTS
  NumCalls = 3
  InputFile <- AnyLines
  CountedLines = 3
  SubscribeCap = 1
  UnsubscribeCap = 3
  StateCap = 2
  SchedulerFlag = {TRUE}
INVARIANTS
  TypeOK
  OnlyTheBestIsTold
  NoSendWhilePaused
  SerialWithinPriority
  BoundedOverrun
  WaitsForAll
PROPERTY
  Implements
