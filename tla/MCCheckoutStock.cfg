SPECIFICATION Spec
CONSTANTS
  a = a
  b = b
  k = k
  NoToken = NoToken
  NoKey = NoKey
  Attempts = {a, b}
  Keys = {k}
  Lines = {line, shelf}
  OnHand = 2
  MaxOutside = 0
  MaxFaults = 0
SYMMETRY Symmetry
CONSTRAINTS Watched SameActor
INVARIANT FailuresLeaveConsistent
CHECK_DEADLOCK FALSE
