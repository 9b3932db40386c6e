SPECIFICATION FairSpec
CONSTANTS
  NumCalls = 3
  InputFiles <- Files
  SchedulerFlag = {TRUE, FALSE}
  Builds = {TRUE, FALSE}
  UserInterrupts = TRUE
INVARIANTS
  TypeOK
  AtMostOneRuns
  SerialWithinPriority
  NoGhost
PROPERTIES
  BroadcastOnlyWhenEmpty
  Implements
  EndsUnlessStuck
CHECK_DEADLOCK FALSE
