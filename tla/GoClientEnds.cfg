SPECIFICATION FairSpec
CONSTANTS
  NumCalls = 4
  InputFile <- ShortLines
  CountedLines = 3
  SubscribeCap = 2
  UnsubscribeCap = 1
  StateCap = 2
  SchedulerFlag = {TRUE, FALSE}
INVARIANT
  WaitsForCounted
PROPERTY
  EndsUnlessWedged
CHECK_DEADLOCK FALSE
