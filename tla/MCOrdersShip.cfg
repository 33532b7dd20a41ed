SPECIFICATION Spec
CONSTANTS
  line = line
  NoAmount = NoAmount
  Callers = {c1}
  Lines = {line}
  Quantity <- MCQuantity
  LineValue <- MCLineValue
  Shipping = 1
  RefundInputs <- MCRefundInputs
  Captures = {3, 4}
  Cap = 6
  MaxCalls = 5
  MaxCrashes = 0
INVARIANT RefundedLinesStay
CHECK_DEADLOCK FALSE
