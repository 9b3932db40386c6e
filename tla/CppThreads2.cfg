SPECIFICATION FairSpec
CONSTANTS
  NumCalls = 3
  InputFile <- TwoNumbers
  StreamLimits = {1, 3}
INVARIANTS
  TypeOK
  OnlyTheBestIsAwake
  OneMoreWrite
  SerialWithinPriority
  TotalIsLast
PROPERTIES
  Implements
  EndsUnlessStreamHeld
CHECK_DEADLOCK FALSE
