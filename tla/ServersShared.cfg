SPECIFICATION Spec
CONSTANTS
  Stream = {1, 2}
  Numbers <- SmallNumbers
  MaxMessages = 2
  Half = 3
  Inputs <- TwoStreams
INVARIANT
  StreamsAreIsolated
