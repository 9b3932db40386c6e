SPECIFICATION FairSpec
CONSTANTS
  Stream = {1, 2}
  Numbers <- SmallNumbers
  MaxMessages = 3
  Half = 3
  Inputs <- Pairs
INVARIANTS
  TypeOK
  HandlersAreIsolated
PROPERTY
  EveryStreamEnds
