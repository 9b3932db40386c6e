SPECIFICATION FairSpec
CONSTANTS
  NumCalls = 4
  InputFile <- Preempted
  CountedLines = 4
  SubscribeCap = 1
  UnsubscribeCap = 4
  StateCap = 2
  SchedulerFlag = {TRUE}
PROPERTY
  Terminates
CHECK_DEADLOCK FALSE
