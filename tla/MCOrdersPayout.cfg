SPECIFICATION Spec
CONSTANTS
  line = line
  NoAmount = NoAmount
  Callers = {c1, c2}
  Lines = {line}
  Quantity <- MCQuantity
  LineValue <- MCLineValue
  Shipping = 1
  RefundInputs <- MCRefundInputs
  Captures = {4}
  Cap = 6
  MaxCalls = 3
  MaxCrashes = 0
SYMMETRY CallerSymmetry
INVARIANT PayoutWithinCapture
CHECK_DEADLOCK FALSE
