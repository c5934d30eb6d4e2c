CONSTANTS
  Cells = 4
  Contents = {0, 1}
  Types = {"ints", "pairs"}
  Es <- MCEs
  Blob <- MCBlob
  Level <- MCLevel
  Windows <- MCWindows
  Memories <- MCMemories
  MaxValues = 3
  MaxScans = 4
  MaxMutations = 1
SPECIFICATION Spec
CHECK_DEADLOCK FALSE
INVARIANT SearchExact
INVARIANT SlotResolves
INVARIANT RecordReadable
INVARIANT SlicesDelivered
