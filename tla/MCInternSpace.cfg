CONSTANTS
  Descs <- MCDescs
  Kind <- MCKind
  Name <- MCName
  Fields <- MCFields
  Kids <- MCKids
  Texts <- MCTexts
  Roots <- MCRoots
  Dyn <- MCDyn
  Drops <- MCDrops
  Hash <- MCHash
  InitSlots = 4
  LoadDiv = 4
  MaxValues = 2
  MaxRecords = 2
  Gaps = {}
SPECIFICATION Spec
CHECK_DEADLOCK FALSE
INVARIANT RefsResolve
INVARIANT DescsRebuilt
INVARIANT ReadsBack
