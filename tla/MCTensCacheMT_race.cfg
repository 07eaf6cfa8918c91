CONSTANTS
  Proc = {p1, p2}
  Seed = {s1}
  Input = {x1}
  Calls = 1
  Locked = FALSE
  CanFail = FALSE
  Null = Null
SPECIFICATION Spec
INVARIANT CorrectOutput
