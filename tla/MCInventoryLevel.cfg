\* Two admins adjust a key that has no level row yet.
SPECIFICATION Spec
CONSTANTS
  o1 = o1
  o2 = o2
  o3 = o3
  RowIds = {1, 2}
  Orders = {o1}
  Qty <- MCQty
  Reserves <- MCReserves
  Admins = {a1, a2}
  InitialStock = 3
  Amounts = {1, 2}
  MaxStock = 4
  MaxOps = 2
  Fulfils = FALSE
INVARIANT UniqueLevel
CHECK_DEADLOCK FALSE
