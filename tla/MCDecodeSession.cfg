CONSTANTS
  Names <- MCNames
  Stream <- MCStream
  MaxMisuse = 1
SPECIFICATION Spec
INVARIANT FailedDecodeRestores
INVARIANT EndMeansAllDelivered
INVARIANT MemoFresh
PROPERTY StickyError
