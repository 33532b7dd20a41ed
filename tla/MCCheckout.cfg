SPECIFICATION Spec
CONSTANTS
  a = a
  b = b
  k = k
  NoToken = NoToken
  NoKey = NoKey
  Attempts = {a, b}
  Keys = {k}
  Lines = {line}
  OnHand = 1
  MaxOutside = 1
  MaxFaults = 1
SYMMETRY Symmetry
CONSTRAINTS Watched SameActor
INVARIANTS TypeOK ClaimIsHeld OneChargePerCart PaidOrdersHoldStock FailedCapturesHoldNothing
CHECK_DEADLOCK FALSE
