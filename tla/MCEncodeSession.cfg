CONSTANTS
  CoderTypes = {c1, c2}
  NoType = NoType
  Limits <- MCLimits
  MaxSent = 12
  MaxStack = 10
SPECIFICATION Spec
INVARIANT CodersExact
INVARIANT BytesExact
PROPERTY WholeValuesSent
PROPERTY StickyError
