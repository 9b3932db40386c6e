SPECIFICATION FairSpec
CONSTANTS
  NumCalls = 3
  InputFile <- AnyLines
  SubscribeCap = 1
  UnsubscribeCap = 1
  StateCap = 2
  SchedulerFlag = {TRUE, FALSE}
INVARIANTS
  TypeOK
  TheBestGroupIsTold
  NoSendWhilePaused
  BoundedOverrun
PROPERTIES
  Implements
  EndsUnlessWedged
CHECK_DEADLOCK FALSE
