SPECIFICATION StoresSpec
CONSTANTS
  line = line
  NoAmount = NoAmount
  Callers = {c1, c2}
  Lines = {line}
  Quantity <- MCQuantity
  LineValue <- MCLineValue
  Shipping = 1
  RefundInputs <- MCRefundInputs
  Captures = {3, 4}
  Cap = 6
  MaxCalls = 5
  MaxCrashes = 1
  MaxPushes = 2
  MaxPushCrashes = 1
  Refunds = {s1, s2}
  NoRefund = NoRefund
  Merchants = {m1, m2}
  Workers = {w1, w2}
  Units = 3
  MaxReturnCalls = 4
  MaxReturnCrashes = 1
  d1 = d1
  d2 = d2
  p1 = p1
  p2 = p2
  Deliveries = {d1, d2}
  Carries <- MCCarries
  Parcels = {p1, p2}
  Stores = {shop, other}
  Owner = shop
  Receivers = {q1, q2}
  NoDelivery = NoDelivery
  MaxSends = 2
  MaxHookFaults = 1
SYMMETRY CallerSymmetry
INVARIANTS TypesOK NeverOverpaid OrderRefundOnce  ShipsOnce  CancelReachesStore ReturnPaidOnce ReportPaidOnce AcceptedIsQueued 
PROPERTIES ImplementsLifecycle
CHECK_DEADLOCK FALSE
