CONSTANTS
  Streams <- MCStreams
  Limits <- MCLimits
  Descs <- MCDescs
  Word = 64
SPECIFICATION Spec
CHECK_DEADLOCK FALSE
INVARIANT BudgetsHeld
INVARIANT PathsAgree
INVARIANT SkipAccepts
INVARIANT ValueScope
