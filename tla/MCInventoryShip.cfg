\* An adjustment while an order ships.
SPECIFICATION Spec
CONSTANTS
  o1 = o1
  o2 = o2
  o3 = o3
  RowIds = {1}
  Orders = {o1}
  Qty <- MCQty
  Reserves <- MCReserves
  Admins = {a1}
  InitialStock = 3
  Amounts = {1, 2}
  MaxStock = 4
  MaxOps = 2
  Fulfils = TRUE
INVARIANT NoLostUpdate
CHECK_DEADLOCK FALSE
