CONSTANTS
  Input <- MCInput
  InLen <- MCInLen
  MaxArg = 1
  PeekNameCap = 1
  LargeRead = 8
  FillChunk = 2
  DirectInit = 1
  DirectMaxGrow = 2
  EofWithData = TRUE
SPECIFICATION Spec
CHECK_DEADLOCK FALSE
INVARIANT WindowExact
INVARIANT DirectNeverOverreads
INVARIANT NeverWaitsPastToken
INVARIANT WindowBounded
INVARIANT LookaheadSound
PROPERTY WindowFaultSticks
