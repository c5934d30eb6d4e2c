CONSTANTS
  Descs <- MCDescs
  Kind <- MCKind
  Name <- MCName
  Fields <- MCFields
  Kids <- MCKids
  Texts <- MCTexts
  Roots <- MCRoots
  Dyn <- MCDyn
  Drops <- MCDrops
  Hash <- MCHash
  InitSlots = 4
  LoadDiv = 4
  MaxValues = 1
  MaxRecords = 2
  Gaps = {"skipped_nil", "skipped_ref"}
SPECIFICATION Spec
CHECK_DEADLOCK FALSE
INVARIANT ReadsBack
