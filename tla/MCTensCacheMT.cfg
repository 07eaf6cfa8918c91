CONSTANTS
  Proc = {p1, p2}
  Seed = {s1, s2}
  Input = {x1}
  Calls = 2
  Locked = TRUE
  CanFail = TRUE
  Null = Null
SPECIFICATION Spec
INVARIANT TypeOK
INVARIANT MemorySafe
INVARIANT CorrectOutput
INVARIANT NoLeak
