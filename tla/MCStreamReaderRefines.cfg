CONSTANTS
  Input <- MCTailInput
  InLen <- MCTailLen
  MaxArg = 1
  PeekNameCap = 1
  LargeRead = 8
  FillChunk = 2
  DirectInit = 1
  DirectMaxGrow = 2
  EofWithData = FALSE
SPECIFICATION FairSpec
CHECK_DEADLOCK FALSE
PROPERTY TracksBufferReader
PROPERTY CallReturns
