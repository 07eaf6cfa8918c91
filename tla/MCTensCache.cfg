\* Allocation may fail inside precompute_matrices and init_hash_buffers.
CONSTANTS
  Seed = {s0, s1, s2, s3}
  ZeroSeed = s0
  Input = {x0, x1, x2, x3}
  H = 2
  R = 2
  K = 2
  FaultSites = {"precompute", "buffers"}
  Null = Null
SPECIFICATION Spec
INVARIANT TypeOK
INVARIANT HeapOwned
PROPERTY CacheRefinesSlot
