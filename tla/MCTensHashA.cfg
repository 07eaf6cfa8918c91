CONSTANTS
  H = 4
  R = 3
  K = 2
  D = 3
  Seed <- MCSeed
  Input <- MCInput
  Keystream <- MCKeystream
  InputDigest <- MCInputDigest
  CanFail = TRUE
  Null = Null
SPECIFICATION Spec
PROPERTY DigestRefinementA
