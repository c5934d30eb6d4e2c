CONSTANTS
  Addrs = {a, b}
  SweepEvery = 2
  SweepSample = 1
  SweepMax = 4
  MaxObjects = 3
  MaxEncodes = 2
  MaxPositions = 2
  Shapes = {}
SPECIFICATION Spec
SYMMETRY Swaps
CHECK_DEADLOCK FALSE
INVARIANT NeverMerged
INVARIANT SharingKept
INVARIANT RefusedForCause
PROPERTY SweepNeutral
