SPECIFICATION FairSpec
CONSTANTS
  NumCalls = 3
  Inputs <- UntimedAndPairs
INVARIANTS
  TypeOK
  MaxIsFirstOfHighest
  AtMostOneAwake
  OneMoreWrite
  SerialWithinPriority
  NoGhost
PROPERTIES
  Implements
  EndsUnlessStuck
CHECK_DEADLOCK FALSE
