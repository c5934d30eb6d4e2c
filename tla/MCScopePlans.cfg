CONSTANTS
  e1 = e1
  e2 = e2
  p1 = p1
  NoType = NoType
  Streams = {e1, e2}
  Pool = {p1}
  Types <- MCTypes
  Child <- MCChild
  Codable = {"T"}
  WireNames = {"n"}
  Bindable = {"T"}
  Reservable = {"T", "n"}
  Lead = {e1}
  MaxEpoch = 2
VIEW LiveView
SPECIFICATION Spec
INVARIANT ScopesIsolated
INVARIANT CoderScopeExact
INVARIANT ReservedGated
