CONSTANTS
  H = 4
  R = 3
  K = 2
  D = 3
  Seed <- MCSeed
  Input <- MCInput
  Keystream <- MCKeystream
  InputDigest <- MCInputDigest
  Null = Null
SPECIFICATION Spec
PROPERTY DigestRefinementC
