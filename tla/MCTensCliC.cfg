CONSTANTS
  K = 1
  R = 2
  SeedArgs <- MCSeedArgs
  InputArgs <- MCInputArgs
  Digest <- MCDigest
  FaultSites = {"sodium", "precompute", "generate", "buffers"}
SPECIFICATION Spec
INVARIANT TypeOK
INVARIANT CliContract
INVARIANT HeapReleased
