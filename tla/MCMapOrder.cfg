CONSTANTS
  Types <- MCTypes
  KeyTypes = {"int", "f64", "c64", "c128", "string", "big", "tail", "pnode", "pair", "any", "boxes"}
  Keys <- MCKeys
  Heap <- MCHeap
  Values = {0, 1, 2}
  BadValue = 0
  Placements <- MCPlacements
  NaNs <- MCNaNs
  MaxPairs = 3
SPECIFICATION Spec
CHECK_DEADLOCK FALSE
INVARIANT RanksMirror
INVARIANT OrderDecided
INVARIANT OwnKeysTaken
