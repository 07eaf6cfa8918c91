CONSTANTS
  K = 2
  HIDDEN = 32
  LAYERS = 2
  Seed <- MCSeed
  Input <- MCInput
  Keystream <- MCKeystream
  CanFail = TRUE
  CanExit = FALSE
  Null = Null
SPECIFICATION Spec
INVARIANT OneShotOutputWritten
