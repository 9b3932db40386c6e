SPECIFICATION FairSpec
CONSTANTS
  NumCalls = 2
  InputFiles <- TiedPair
  SchedulerFlag = {TRUE}
  Builds = {FALSE}
  UserInterrupts = FALSE
PROPERTY
  FallbackKeepsGoing
CHECK_DEADLOCK FALSE
