\* Stock: one admin, so the level row is created at most once.
SPECIFICATION ShopSpec
CONSTANTS
  o1 = o1
  o2 = o2
  o3 = o3
  RowIds = {1}
  Orders = {o1, o2, o3}
  Qty <- MCQty
  Reserves <- MCReserves
  Admins = {a1}
  InitialStock = 3
  Amounts = {1, 2}
  MaxStock = 4
  MaxOps = 2
  Fulfils = TRUE
  Events = {e1}
  Endpoints = {p1, p2}
  Tries = 3
  MaxWebFaults = 2
  r1 = r1
  r2 = r2
  g1 = g1
  g2 = g2
  Checkouts = {r1, r2}
  Cards = {g1, g2}
  Codes <- MCCodes
  Due = 5
  Rebate = 1
  UsageLimit = 1
  FaceValue = 3
  Deltas <- MCDeltas
  NoCard = NoCard
  MaxAdjusts = 2
  Operations = {q1, q2}
  NoOperation = NoOperation
  SendAttempts = 2
  MaxManual = 1
  MaxOutages = 1
  MaxWrites = 1
  Slots = {1, 2}
  Bookings = {b1, b2, b3}
  Clerks = {k1, k2}
  NoBooking = NoBooking
  ByCard = TRUE
  MaxBookingCalls = 4
  MaxBookingCrashes = 1
SYMMETRY ShopSymmetry
INVARIANTS TypesOK ReservedIsHeld    RowsExplainBalance PriceIsPaid UsesWithinLimit NothingResolvedIsLost  NoDoubleBooking
CHECK_DEADLOCK FALSE
