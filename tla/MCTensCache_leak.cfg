CONSTANTS
  Seed = {s0, s1}
  ZeroSeed = s0
  Input = {x0, x1}
  H = 2
  R = 2
  K = 2
  FaultSites = {"generate_vector"}
  Null = Null
SPECIFICATION Spec
INVARIANT HeapOwned
