SPECIFICATION FairSpec
CONSTANTS
  NumCalls = 2
  Inputs <- TiedPair
PROPERTY
  Terminates
