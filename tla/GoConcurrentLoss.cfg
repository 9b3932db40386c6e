SPECIFICATION Spec
CONSTANTS
  NumCalls = 2
  InputFile <- AnyLines
  SubscribeCap = 1
  UnsubscribeCap = 2
  StateCap = 2
  SchedulerFlag = {TRUE}
INVARIANT
  WaitsForAll
