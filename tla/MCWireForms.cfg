CONSTANTS
  argInlineMax = 1
  B1 = 8
  B2 = 64
  B4 = 4096
  B8 = 16777216
  extArgMinLen = 9
  Bad = Bad
  Nil = Nil
  Numbers <- MCNumbers
  Signed <- MCSigned
  BigNumbers <- MCBig
  Payloads <- MCPayloads
  Lengths <- MCLengths
  Bodies <- MCBodies
  MaxExt = 10
SPECIFICATION Spec
INVARIANT RoundTrip
INVARIANT OneSpelling
INVARIANT ViewInside
