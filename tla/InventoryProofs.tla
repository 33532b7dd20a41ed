--------------------------- MODULE InventoryProofs --------------------------
(***************************************************************************)
(* For any number of orders, admins and level rows: stock types, the       *)
(* ledger explains on-hand, the reserved quantity is what the orders hold, *)
(* and what is reserved is in the warehouse or on its way out of it.       *)
(*                                                                         *)
(* Each is a sum over the rows or the orders. A step changes one element   *)
(* of one such sum, so each action has a lemma that says by how much the   *)
(* sums move (SumTheorems), and the invariant follows by arithmetic.       *)
(***************************************************************************)
EXTENDS Inventory, SumTheorems

(* The orders whose handling has begun, and the rows, are finitely many:   *)
(* no assumption on the constants says so.                                 *)
Begun == {o \in Orders : phase[o] # "new"}

(* A row that was read, or a row that counts, is there. *)
RowsThere ==
  /\ IsFiniteSet(rows) /\ IsFiniteSet(Begun)
  /\ \A o \in Orders :
       /\ phase[o] = "read" => seen[o].row \in rows
       /\ phase[o] \in {"new", "placed"} => seen[o] = Nothing
  /\ rows = {} => holds = {}
  /\ holds \subseteq Begun

StockInv == TypeOK /\ RowsThere
LedgerInv == StockInv /\ LedgerExplainsStock

(* ReservedIsHeld and NeverOversold, of the one row. *)
Held ==
  ~phantom => \A r \in RowIds : rows = {r} => reserved[r] = QtyOf(holds)

Covered ==
  ~phantom /\ ~stale /\ ~removed =>
    \A r \in RowIds : rows = {r} => reserved[r] <= onHand[r] + QtyOf(InTransit)

HoldInv ==
  /\ StockInv
  /\ \A r \in RowIds \ rows : reserved[r] = 0
  /\ Held

OversoldInv == HoldInv /\ Covered

-----------------------------------------------------------------------------
(* The sums of this module are sums of SumTheorems. *)
LEMMA OnHandIsSum == Total(onHand) = SumOver(onHand, rows)
BY DEF Total, SumOver

LEMMA ReservedIsSum == Total(reserved) = SumOver(reserved, rows)
BY DEF Total, SumOver

LEMMA TotalIsSum ==
  /\ Total(onHand) = SumOver(onHand, rows)
  /\ Total(onHand)' = SumOver(onHand', rows')
  /\ Total(reserved) = SumOver(reserved, rows)
  /\ Total(reserved)' = SumOver(reserved', rows')
<1>1. (Total(onHand) = SumOver(onHand, rows))'
  BY OnHandIsSum, PTL
<1>2. (Total(reserved) = SumOver(reserved, rows))'
  BY ReservedIsSum, PTL
<1> QED
  BY <1>1, <1>2, OnHandIsSum, ReservedIsSum

LEMMA QtyOfIsSum == \A S : QtyOf(S) = SumOver(Qty, S)
BY DEF QtyOf, SumOver

LEMMA ClampFacts ==
  /\ \A n \in Int : AtLeastZero(n) \in Nat
  /\ \A n \in Nat : AtLeastZero(n) = n
BY DEF AtLeastZero

LEMMA FirstRowThere == FirstRow \in RowIds
<1> DEFINE Z == {0..r : r \in RowIds}
<1>0. \A r \in RowIds : IsFiniteSet(0..r)
  <2>1. \A r \in RowIds : r \in Int /\ 0 \in Int
    BY InventoryAssumption
  <2> QED
    BY <2>1, FS_Interval
<1>1. Z # {} /\ \A s \in Z : IsFiniteSet(s)
  BY <1>0, InventoryAssumption
<1>2. PICK s \in Z : \A t \in Z : t \subseteq s => t = s
  <2> HIDE DEF Z
  <2> QED
    BY <1>1, LeastSet
<1>3. PICK r \in RowIds : s = 0..r
  BY <1>2
<1>4. ASSUME NEW q \in RowIds PROVE r <= q
  <2>1. r \in Nat /\ q \in Nat
    BY InventoryAssumption
  <2>2. ASSUME q < r PROVE FALSE
    <3>1. 0..q \subseteq s /\ 0..q \in Z /\ r \in s /\ r \notin 0..q
      BY <1>3, <2>1, <2>2
    <3> QED
      BY <1>2, <3>1
  <2> QED
    BY <2>1, <2>2
<1> QED
  BY <1>4 DEF FirstRow

-----------------------------------------------------------------------------
(* Types, and that nothing refers to a row that is not there.              *)

LEMMA StockInvInit == Init => StockInv
<1> SUFFICES ASSUME Init PROVE StockInv
  OBVIOUS
<1>1. TypeOK
  <2>1. InitialStock \in Nat /\ MaxOps \in Nat
    BY InventoryAssumption
  <2>2. /\ rows \subseteq RowIds
        /\ onHand \in [RowIds -> Nat] /\ reserved \in [RowIds -> Nat]
        /\ ledger \in Int
    BY <2>1, FirstRowThere DEF Init
  <2>3. /\ phase \in [Orders -> Phases]
        /\ seen \in [Orders -> [row : RowIds \cup {0}, val : Nat]]
        /\ doing \in [Admins -> {"idle", "adjust", "create"}]
        /\ delta \in [Admins -> Int]
        /\ ops \in 0..MaxOps
    BY <2>1 DEF Init, Phases, Nothing
  <2> QED
    BY <2>2, <2>3 DEF Init, TypeOK
<1>2. Begun = {}
  BY DEF Init, Begun
<1>3. IsFiniteSet(rows)
  <2>1. IsFiniteSet({}) /\ IsFiniteSet({FirstRow})
    BY FS_EmptySet, FS_Singleton
  <2> QED
    BY <2>1 DEF Init
<1> QED
  BY <1>1, <1>2, <1>3, FS_EmptySet DEF Init, StockInv, RowsThere

(* A step of an order that leaves it begun. *)
LEMMA BegunGrows ==
  ASSUME StockInv, NEW o \in Orders, NEW p \in Phases \ {"new"},
         phase' = [phase EXCEPT ![o] = p]
  PROVE  Begun' = Begun \cup {o} /\ IsFiniteSet(Begun')
<1>1. Begun' = Begun \cup {o}
  BY DEF StockInv, TypeOK, Begun
<1> QED
  BY <1>1, FS_AddElement DEF StockInv, RowsThere

LEMMA PlacingKeepsStock ==
  ASSUME StockInv, NEW o \in Orders, Reserve(o) \/ Refuse(o) \/ PlaceUnreserved(o)
  PROVE  StockInv'
<1> USE DEF StockInv, stockVars, history
<1>1. CASE Reserve(o)
  <2>1. Begun' = Begun \cup {o} /\ IsFiniteSet(Begun')
    BY <1>1, BegunGrows DEF Reserve, Phases
  <2>2. TypeOK'
    <3>1. Qty[o] \in Nat
      BY InventoryAssumption
    <3>2. reserved' \in [RowIds -> Nat]
      BY <1>1, <3>1 DEF TypeOK, Reserve
    <3> QED
      BY <1>1, <3>2 DEF TypeOK, Reserve, Phases
  <2>3. RowsThere'
    BY <1>1, <2>1 DEF TypeOK, RowsThere, Reserve
  <2> QED
    BY <2>2, <2>3
<1>2. CASE Refuse(o) \/ PlaceUnreserved(o)
  <2>1. Begun' = Begun \cup {o} /\ IsFiniteSet(Begun')
    BY <1>2, BegunGrows DEF Refuse, PlaceUnreserved, Phases
  <2>2. TypeOK'
    BY <1>2 DEF TypeOK, Refuse, PlaceUnreserved, Phases
  <2>3. RowsThere'
    BY <1>2, <2>1 DEF TypeOK, RowsThere, Refuse, PlaceUnreserved
  <2> QED
    BY <2>2, <2>3
<1> QED
  BY <1>1, <1>2

(* What a release does to the row it finds. *)
LEMMA ReleaseFacts ==
  ASSUME StockInv, NEW o \in Orders, Release(o)
  PROVE  /\ reserved' \in [RowIds -> Nat]
         /\ holds' = holds \ {o}
         /\ phantom' \in BOOLEAN
<1>1. Qty[o] \in Nat
  BY InventoryAssumption
<1>2. \A r \in rows : AtLeastZero(reserved[r] - Qty[o]) \in Nat
  BY <1>1, ClampFacts DEF StockInv, TypeOK
<1> QED
  BY <1>2 DEF Release, StockInv, TypeOK

LEMMA ReleasingKeepsStock ==
  ASSUME StockInv, NEW o \in Orders, CancelOrder(o) \/ ShipRelease(o)
  PROVE  StockInv'
<1>1. Begun' = Begun \cup {o} /\ IsFiniteSet(Begun')
  BY BegunGrows DEF CancelOrder, ShipRelease, Phases
<1>2. Release(o)
  BY DEF CancelOrder, ShipRelease
<1>3. /\ reserved' \in [RowIds -> Nat]
      /\ holds' = holds \ {o}
      /\ phantom' \in BOOLEAN
  BY <1>2, ReleaseFacts
<1>4. TypeOK'
  <2>1. CASE CancelOrder(o)
    BY <1>3, <2>1 DEF StockInv, TypeOK, CancelOrder, Phases
  <2>2. CASE ShipRelease(o)
    <3>1. seen' \in [Orders -> [row : RowIds \cup {0}, val : Nat]]
      BY <2>2 DEF StockInv, TypeOK, ShipRelease, Nothing
    <3> QED
      BY <1>3, <2>2, <3>1 DEF StockInv, TypeOK, ShipRelease, Phases
  <2> QED
    BY <2>1, <2>2
<1>5. RowsThere'
  BY <1>1, <1>3 DEF StockInv, TypeOK, RowsThere, CancelOrder, ShipRelease
<1> QED
  BY <1>4, <1>5 DEF StockInv

LEMMA ShippingKeepsStock ==
  ASSUME StockInv, NEW o \in Orders,
         \/ DeductRead(o) \/ DeductNothing(o) \/ DeductWrite(o)
         \/ DeductRecord(o) \/ ShipDies(o)
  PROVE  StockInv'
<1> USE DEF StockInv, stockVars, history
<1>0. Qty[o] \in Nat
  BY InventoryAssumption
<1>1. CASE DeductRead(o)
  <2>1. Begun' = Begun \cup {o} /\ IsFiniteSet(Begun')
    BY <1>1, BegunGrows DEF DeductRead, Phases
  <2>2. TypeOK'
    BY <1>1 DEF TypeOK, DeductRead, Phases
  <2>3. RowsThere'
    BY <1>1, <2>1 DEF TypeOK, RowsThere, DeductRead
  <2> QED
    BY <2>2, <2>3
<1>2. CASE DeductNothing(o)
  <2>1. Begun' = Begun \cup {o} /\ IsFiniteSet(Begun')
    BY <1>2, BegunGrows DEF DeductNothing, Phases
  <2>2. TypeOK'
    BY <1>2 DEF TypeOK, DeductNothing, Phases
  <2>3. RowsThere'
    BY <1>2, <2>1 DEF TypeOK, RowsThere, DeductNothing
  <2> QED
    BY <2>2, <2>3
<1>3. CASE DeductWrite(o)
  <2>1. Begun' = Begun \cup {o} /\ IsFiniteSet(Begun')
    BY <1>3, BegunGrows DEF DeductWrite, Phases
  <2>2. AtLeastZero(seen[o].val - Qty[o]) \in Nat
    BY <1>0, ClampFacts DEF TypeOK
  <2>3. onHand' \in [RowIds -> Nat] /\ stale' \in BOOLEAN /\ removed' \in BOOLEAN
    BY <1>3, <2>2 DEF TypeOK, DeductWrite
  <2>4. TypeOK'
    BY <1>3, <2>3 DEF TypeOK, DeductWrite, Phases
  <2>5. RowsThere'
    BY <1>3, <2>1 DEF TypeOK, RowsThere, DeductWrite
  <2> QED
    BY <2>4, <2>5
<1>4. CASE DeductRecord(o)
  <2>1. Begun' = Begun \cup {o} /\ IsFiniteSet(Begun')
    BY <1>4, BegunGrows DEF DeductRecord, Phases
  <2>2. TypeOK'
    BY <1>0, <1>4 DEF TypeOK, DeductRecord, Phases
  <2>3. RowsThere'
    BY <1>4, <2>1 DEF TypeOK, RowsThere, DeductRecord
  <2> QED
    BY <2>2, <2>3
<1>5. CASE ShipDies(o)
  <2>1. PICK p \in {"stuckUnrecorded", "stuckShort", "stuck"} :
          phase' = [phase EXCEPT ![o] = p]
    BY <1>5 DEF ShipDies
  <2>2. Begun' = Begun \cup {o} /\ IsFiniteSet(Begun')
    BY <2>1, BegunGrows DEF Phases
  <2>3. TypeOK'
    BY <1>5, <2>1 DEF TypeOK, ShipDies, Phases
  <2>4. RowsThere'
    BY <1>5, <2>1, <2>2 DEF TypeOK, RowsThere, ShipDies
  <2> QED
    BY <2>3, <2>4
<1> QED
  BY <1>1, <1>2, <1>3, <1>4, <1>5

(* Adjustments move no order. *)
AdminsOnly == UNCHANGED <<storeOwned, reserved, phase, seen, holds, phantom, stale>>

Adjusting(a) ==
  \/ \E n \in Amounts : AdjustBy(a, n) \/ AdjustBy(a, -n) \/ AdjustSet(a, n)
  \/ SetAbsoluteAdjust(a)

(* What an adjustment does to the stock: one row is set, or nothing is.    *)
LEMMA AdjustingFacts ==
  ASSUME StockInv, NEW a \in Admins, Adjusting(a)
  PROVE  /\ AdminsOnly /\ UNCHANGED rows
         /\ ops' \in 0..MaxOps
         /\ doing' \in [Admins -> {"idle", "adjust", "create"}]
         /\ delta' \in [Admins -> Int]
         /\ \/ \E r \in rows : \E n \in Nat : SetOnHand(r, n)
            \/ UNCHANGED <<onHand, ledger, removed>>
<1> USE DEF StockInv, TypeOK, Start, AdminsOnly
<1>1. Amounts \subseteq Nat /\ MaxOps \in Nat
  BY InventoryAssumption
<1>2. ASSUME NEW d \in Int, ApplyDelta(a, d)
      PROVE  /\ doing' \in [Admins -> {"idle", "adjust", "create"}]
             /\ delta' \in [Admins -> Int]
             /\ \/ \E r \in rows : \E n \in Nat : SetOnHand(r, n)
                \/ UNCHANGED <<onHand, ledger, removed>>
  <2>1. \A r \in rows : AtLeastZero(onHand[r] + d) \in Nat
    BY ClampFacts
  <2> QED
    BY <1>2, <2>1 DEF ApplyDelta
<1>3. ASSUME NEW n \in Amounts, AdjustBy(a, n) \/ AdjustBy(a, -n)
      PROVE  \E d \in Int : AdjustBy(a, d)
  BY <1>1, <1>3
<1>4. CASE \E d \in Int : AdjustBy(a, d)
  BY <1>1, <1>2, <1>4 DEF AdjustBy
<1>5. CASE SetAbsoluteAdjust(a)
  <2>1. delta[a] \in Int
    OBVIOUS
  <2> QED
    BY <1>2, <1>5, <2>1 DEF SetAbsoluteAdjust
<1>6. CASE \E n \in Amounts : AdjustSet(a, n)
  BY <1>1, <1>6 DEF AdjustSet
<1> QED
  BY <1>3, <1>4, <1>5, <1>6 DEF Adjusting

LEMMA AdjustingKeepsStock ==
  ASSUME StockInv, NEW a \in Admins, Adjusting(a)
  PROVE  StockInv'
<1>1. /\ AdminsOnly /\ UNCHANGED rows
      /\ ops' \in 0..MaxOps
      /\ doing' \in [Admins -> {"idle", "adjust", "create"}]
      /\ delta' \in [Admins -> Int]
      /\ \/ \E r \in rows : \E n \in Nat : SetOnHand(r, n)
         \/ UNCHANGED <<onHand, ledger, removed>>
  BY AdjustingFacts
<1>2. /\ onHand' \in [RowIds -> Nat] /\ ledger' \in Int
      /\ removed' \in BOOLEAN
  <2>1. CASE UNCHANGED <<onHand, ledger, removed>>
    BY <2>1 DEF StockInv, TypeOK
  <2>2. ASSUME NEW r \in rows, NEW n \in Nat, SetOnHand(r, n)
        PROVE  /\ onHand' \in [RowIds -> Nat] /\ ledger' \in Int
               /\ removed' \in BOOLEAN
    <3>1. onHand[r] \in Nat
      BY DEF StockInv, TypeOK
    <3> QED
      BY <2>2, <3>1 DEF SetOnHand, StockInv, TypeOK
  <2> QED
    BY <1>1, <2>1, <2>2
<1>3. TypeOK'
  BY <1>1, <1>2 DEF AdminsOnly, StockInv, TypeOK
<1>4. RowsThere'
  BY <1>1 DEF AdminsOnly, StockInv, RowsThere, Begun
<1> QED
  BY <1>3, <1>4 DEF StockInv

LEMMA SetAbsoluteReadKeepsStock ==
  ASSUME StockInv, NEW a \in Admins, NEW n \in Amounts, SetAbsoluteRead(a, n)
  PROVE  StockInv'
<1>1. Amounts \subseteq Nat /\ MaxOps \in Nat
  BY InventoryAssumption
<1>2. /\ delta' \in [Admins -> Int]
      /\ doing' \in [Admins -> {"idle", "adjust", "create"}]
      /\ ops' \in 0..MaxOps
  BY <1>1 DEF SetAbsoluteRead, Start, StockInv, TypeOK
<1>3. TypeOK'
  BY <1>2 DEF SetAbsoluteRead, StockInv, TypeOK, stockVars, history
<1>4. RowsThere'
  BY DEF SetAbsoluteRead, StockInv, RowsThere, Begun, stockVars, history
<1> QED
  BY <1>3, <1>4 DEF StockInv

LEMMA CreateLevelKeepsStock ==
  ASSUME StockInv, NEW a \in Admins, CreateLevel(a)
  PROVE  StockInv'
<1>1. AtLeastZero(delta[a]) \in Nat
  BY ClampFacts DEF StockInv, TypeOK
<1>2. PICK r \in RowIds \ rows : rows' = rows \cup {r}
  BY DEF CreateLevel
<1>3. TypeOK'
  BY <1>1 DEF CreateLevel, StockInv, TypeOK, history
<1>4. IsFiniteSet(rows')
  BY <1>2, FS_AddElement DEF StockInv, RowsThere
<1>5. RowsThere'
  BY <1>2, <1>4 DEF CreateLevel, StockInv, RowsThere, Begun, history
<1> QED
  BY <1>3, <1>5 DEF StockInv

LEMMA StockInvStep ==
  ASSUME StockInv, [Next]_vars
  PROVE  StockInv'
<1>1. CASE UNCHANGED vars
  BY <1>1 DEF vars, StockInv, TypeOK, RowsThere, Begun
<1>2. ASSUME NEW o \in Orders,
             \/ Reserve(o) \/ Refuse(o) \/ PlaceUnreserved(o) \/ CancelOrder(o)
             \/ DeductRead(o) \/ DeductNothing(o) \/ DeductWrite(o)
             \/ DeductRecord(o) \/ ShipRelease(o) \/ ShipDies(o)
      PROVE  StockInv'
  BY <1>2, PlacingKeepsStock, ReleasingKeepsStock, ShippingKeepsStock
<1>3. ASSUME NEW a \in Admins, Adjusting(a)
      PROVE  StockInv'
  BY <1>3, AdjustingKeepsStock
<1>4. ASSUME NEW a \in Admins, \E n \in Amounts : SetAbsoluteRead(a, n)
      PROVE  StockInv'
  BY <1>4, SetAbsoluteReadKeepsStock
<1>5. ASSUME NEW a \in Admins, CreateLevel(a)
      PROVE  StockInv'
  BY <1>5, CreateLevelKeepsStock
<1> QED
  BY <1>1, <1>2, <1>3, <1>4, <1>5 DEF Next, Adjusting

LEMMA StockInvAlways == Spec => []StockInv
BY StockInvInit, StockInvStep, PTL DEF Spec

(* Stock is of its type whatever is ordered, shipped and adjusted: on-hand *)
(* and reserved never go below zero.                                       *)
THEOREM StockTypes == Spec => []TypeOK
<1>1. StockInv => TypeOK
  BY DEF StockInv
<1> QED
  BY <1>1, StockInvAlways, PTL

-----------------------------------------------------------------------------
(* The ledger. *)

LEMMA QtyNat == \A o \in Orders : Qty[o] \in Nat /\ Qty[o] > 0
BY InventoryAssumption

(* The quantities of begun orders add up. *)
LEMMA QtyOfFacts ==
  ASSUME StockInv, NEW S \in SUBSET Orders, IsFiniteSet(S)
  PROVE  /\ QtyOf(S) \in Nat
         /\ \A o \in Orders \ S : QtyOf(S \cup {o}) = QtyOf(S) + Qty[o]
         /\ \A o \in S : QtyOf(S \ {o}) = QtyOf(S) - Qty[o] /\ Qty[o] <= QtyOf(S)
<1>1. \A o \in S : Qty[o] \in Nat /\ Qty[o] \in Int
  BY QtyNat
<1>2. SumOver(Qty, S) \in Nat
  BY <1>1, SumPart
<1>3. ASSUME NEW o \in Orders \ S
      PROVE  SumOver(Qty, S \cup {o}) = SumOver(Qty, S) + Qty[o]
  <2>1. o \notin S /\ Qty[o] \in Int
    BY QtyNat
  <2> QED
    BY <1>1, <2>1, SumAdd
<1>4. ASSUME NEW o \in S
      PROVE  /\ SumOver(Qty, S \ {o}) = SumOver(Qty, S) - Qty[o]
             /\ Qty[o] <= SumOver(Qty, S)
  <2>1. SumOver(Qty, S) = Qty[o] + SumOver(Qty, S \ {o})
    BY <1>1, SumRemove
  <2>2. SumOver(Qty, S \ {o}) \in Nat /\ Qty[o] \in Nat
    BY <1>1, SumPart
  <2> QED
    BY <2>1, <2>2
<1> QED
  BY <1>2, <1>3, <1>4, QtyOfIsSum

LEMMA BegunFinite ==
  ASSUME StockInv
  PROVE  /\ \A S \in SUBSET Begun : IsFiniteSet(S) /\ S \subseteq Orders
         /\ Unrecorded \in SUBSET Begun /\ holds \in SUBSET Begun
         /\ InTransit \in SUBSET Begun
<1>1. \A S \in SUBSET Begun : IsFiniteSet(S)
  BY FS_Subset DEF StockInv, RowsThere
<1>2. /\ Unrecorded \in SUBSET Begun /\ holds \in SUBSET Begun
      /\ InTransit \in SUBSET Begun
  BY DEF StockInv, RowsThere, Begun, Unrecorded, InTransit
<1> QED
  BY <1>1, <1>2 DEF Begun

LEMMA LedgerInit == Init => LedgerInv
<1> SUFFICES ASSUME Init PROVE LedgerInv
  OBVIOUS
<1>1. StockInv
  BY StockInvInit
<1>2. Unrecorded = {}
  BY DEF Init, Unrecorded
<1>3. QtyOf(Unrecorded) = 0
  BY <1>2, QtyOfIsSum, SumEmpty
<1>4. ledger \in Int
  BY <1>1 DEF StockInv, TypeOK
<1>5. SumOver(onHand, rows) = ledger
  <2>1. CASE rows = {}
    BY <2>1, SumEmpty DEF Init
  <2>2. CASE rows # {}
    <3>1. rows = {FirstRow} /\ onHand[FirstRow] = InitialStock /\ ledger = InitialStock
      BY <2>2, FirstRowThere DEF Init
    <3>2. onHand[FirstRow] \in Int
      BY <1>4, <3>1
    <3> QED
      BY <3>1, <3>2, SumOne
  <2> QED
    BY <2>1, <2>2
<1> QED
  BY <1>1, <1>3, <1>4, <1>5, TotalIsSum DEF LedgerInv, LedgerExplainsStock

(* Steps that write neither on-hand nor a movement. *)
LEMMA LedgerAside ==
  ASSUME LedgerInv, UNCHANGED <<rows, onHand, ledger, stale>>, Unrecorded' = Unrecorded
  PROVE  LedgerExplainsStock'
BY TotalIsSum DEF LedgerInv, LedgerExplainsStock

LEMMA OrdersKeepLedger ==
  ASSUME LedgerInv, NEW o \in Orders,
         \/ Reserve(o) \/ Refuse(o) \/ PlaceUnreserved(o) \/ CancelOrder(o)
         \/ DeductRead(o) \/ DeductNothing(o) \/ ShipRelease(o) \/ ShipDies(o)
  PROVE  LedgerExplainsStock'
<1> USE DEF stockVars, history
<1>0. phase \in [Orders -> Phases]
  BY DEF LedgerInv, StockInv, TypeOK
<1>1. CASE ShipDies(o)
  <2>1. Unrecorded' = Unrecorded /\ UNCHANGED <<rows, onHand, ledger, stale>>
    BY <1>0, <1>1 DEF ShipDies, Unrecorded
  <2> QED
    BY <2>1, LedgerAside
<1>2. CASE Reserve(o) \/ CancelOrder(o) \/ ShipRelease(o)
  <2>1. Unrecorded' = Unrecorded /\ UNCHANGED <<rows, onHand, ledger, stale>>
    BY <1>0, <1>2 DEF Reserve, CancelOrder, ShipRelease, Unrecorded
  <2> QED
    BY <2>1, LedgerAside
<1>3. CASE Refuse(o) \/ PlaceUnreserved(o) \/ DeductRead(o) \/ DeductNothing(o)
  <2>1. Unrecorded' = Unrecorded /\ UNCHANGED <<rows, onHand, ledger, stale>>
    BY <1>0, <1>3 DEF Refuse, PlaceUnreserved, DeductRead, DeductNothing, Unrecorded
  <2> QED
    BY <2>1, LedgerAside
<1> QED
  BY <1>1, <1>2, <1>3

(* One row's on-hand is written. *)
LEMMA OneRowSet ==
  ASSUME StockInv, NEW r \in rows, NEW n \in Nat, UNCHANGED rows,
         onHand' = [onHand EXCEPT ![r] = n]
  PROVE  /\ Total(onHand)' = Total(onHand) + n - onHand[r]
         /\ Total(onHand) \in Nat /\ onHand[r] \in Nat
<1>1. IsFiniteSet(rows) /\ \A q \in rows : onHand[q] \in Nat
  BY DEF StockInv, TypeOK, RowsThere
<1>2. onHand'[r] = n /\ \A q \in rows \ {r} : onHand'[q] = onHand[q]
  BY DEF StockInv, TypeOK
<1>3. SumOver(onHand', rows) = SumOver(onHand, rows) + n - onHand[r]
  <2>1. \A q \in rows : onHand[q] \in Int
    BY <1>1
  <2>2. onHand'[r] \in Int
    BY <1>2
  <2> QED
    <3> DEFINE f == onHand
               g == onHand'
    <3>0. /\ \A q \in rows : f[q] \in Int
          /\ g[r] \in Int
          /\ \A q \in rows \ {r} : g[q] = f[q]
      BY <1>2, <2>1, <2>2
    <3> HIDE DEF f, g
    <3>1. SumOver(g, rows) = SumOver(f, rows) + g[r] - f[r]
      BY <1>1, <3>0, SumChange
    <3> USE DEF f, g
    <3> QED
      BY <1>2, <3>1
<1>4. SumOver(onHand, rows) \in Nat
  BY <1>1, SumPart
<1> QED
  BY <1>1, <1>3, <1>4, TotalIsSum

(* The level is written before its movement is recorded. *)
LEMMA DeductWriteKeepsLedger ==
  ASSUME LedgerInv, NEW o \in Orders, DeductWrite(o)
  PROVE  LedgerExplainsStock'
<1> DEFINE r == seen[o].row
           v == seen[o].val
<1>1. SUFFICES ASSUME ~stale' PROVE Total(onHand)' = ledger' - QtyOf(Unrecorded')
  BY DEF LedgerExplainsStock
<1>2. StockInv /\ r \in rows /\ v \in Nat /\ Qty[o] \in Nat
  BY QtyNat DEF LedgerInv, StockInv, TypeOK, RowsThere, DeductWrite
<1>3. ~stale /\ v = onHand[r] /\ v >= Qty[o]
  <2>1. stale' = (stale \/ v # onHand[r] \/ v < Qty[o])
    BY DEF DeductWrite
  <2>2. ~stale /\ ~(v # onHand[r]) /\ ~(v < Qty[o])
    BY <1>1, <2>1, Zenon
  <2> QED
    BY <1>2, <2>2
<1>4. AtLeastZero(v - Qty[o]) = v - Qty[o] /\ v - Qty[o] \in Nat
  BY <1>2, <1>3 DEF AtLeastZero
<1>5. onHand' = [onHand EXCEPT ![r] = v - Qty[o]] /\ UNCHANGED <<rows, ledger>>
  BY <1>4 DEF DeductWrite
<1>6. Total(onHand)' = Total(onHand) - Qty[o] /\ Total(onHand) \in Nat
  <2>1. Total(onHand)' = Total(onHand) + (v - Qty[o]) - onHand[r]
        /\ Total(onHand) \in Nat /\ onHand[r] \in Nat
    BY <1>2, <1>4, <1>5, OneRowSet
  <2> QED
    BY <1>2, <1>3, <2>1
<1>7. Unrecorded' = Unrecorded \cup {o} /\ o \notin Unrecorded
  BY DEF DeductWrite, Unrecorded, LedgerInv, StockInv, TypeOK
<1>8. QtyOf(Unrecorded') = QtyOf(Unrecorded) + Qty[o] /\ QtyOf(Unrecorded) \in Nat
  BY <1>2, <1>7, BegunFinite, QtyOfFacts
<1>9. Total(onHand) = ledger - QtyOf(Unrecorded) /\ ledger \in Int
  BY <1>3 DEF LedgerInv, LedgerExplainsStock, StockInv, TypeOK
<1> QED
  BY <1>2, <1>5, <1>6, <1>8, <1>9

LEMMA DeductRecordKeepsLedger ==
  ASSUME LedgerInv, NEW o \in Orders, DeductRecord(o)
  PROVE  LedgerExplainsStock'
<1>1. SUFFICES ASSUME ~stale' PROVE Total(onHand)' = ledger' - QtyOf(Unrecorded')
  BY DEF LedgerExplainsStock
<1>2. StockInv /\ Qty[o] \in Nat /\ ledger \in Int
  BY QtyNat DEF LedgerInv, StockInv, TypeOK
<1>3. ~stale /\ Total(onHand)' = Total(onHand) /\ ledger' = ledger - Qty[o]
  BY <1>1, TotalIsSum DEF DeductRecord, history
<1>4. Unrecorded' = Unrecorded \ {o} /\ o \in Unrecorded
  BY DEF DeductRecord, Unrecorded, LedgerInv, StockInv, TypeOK
<1>5. QtyOf(Unrecorded') = QtyOf(Unrecorded) - Qty[o] /\ QtyOf(Unrecorded) \in Nat
  BY <1>2, <1>4, BegunFinite, QtyOfFacts
<1>6. Total(onHand) = ledger - QtyOf(Unrecorded)
  BY <1>3 DEF LedgerInv, LedgerExplainsStock
<1> QED
  BY <1>2, <1>3, <1>5, <1>6

(* Unlocked or locked, an adjustment records what it changed. *)
LEMMA AdjustingKeepsLedger ==
  ASSUME LedgerInv, NEW a \in Admins, Adjusting(a)
  PROVE  LedgerExplainsStock'
<1>1. StockInv
  BY DEF LedgerInv
<1>2. /\ AdminsOnly /\ UNCHANGED rows
      /\ \/ \E r \in rows : \E n \in Nat : SetOnHand(r, n)
         \/ UNCHANGED <<onHand, ledger, removed>>
  BY <1>1, AdjustingFacts
<1>3. UNCHANGED stale /\ Unrecorded' = Unrecorded
  BY <1>2 DEF AdminsOnly, Unrecorded
<1>4. CASE UNCHANGED <<onHand, ledger, removed>>
  BY <1>2, <1>3, <1>4, LedgerAside
<1>5. ASSUME NEW r \in rows, NEW n \in Nat, SetOnHand(r, n)
      PROVE  LedgerExplainsStock'
  <2>1. onHand' = [onHand EXCEPT ![r] = n] /\ ledger' = ledger + (n - onHand[r])
    BY <1>5 DEF SetOnHand
  <2>2. /\ Total(onHand)' = Total(onHand) + n - onHand[r]
        /\ Total(onHand) \in Nat /\ onHand[r] \in Nat
    BY <1>1, <1>2, <2>1, OneRowSet
  <2>3. ledger \in Int /\ QtyOf(Unrecorded) \in Nat
    BY <1>1, BegunFinite, QtyOfFacts DEF StockInv, TypeOK
  <2>4. QtyOf(Unrecorded)' = QtyOf(Unrecorded)
    BY <1>3
  <2>5. ~stale => Total(onHand) = ledger - QtyOf(Unrecorded)
    BY DEF LedgerInv, LedgerExplainsStock
  <2>6. ~stale' => Total(onHand)' = ledger' - QtyOf(Unrecorded)'
    BY <1>3, <2>1, <2>2, <2>3, <2>4, <2>5
  <2> QED
    BY <2>6 DEF LedgerExplainsStock
<1> QED
  BY <1>2, <1>4, <1>5

LEMMA CreateLevelKeepsLedger ==
  ASSUME LedgerInv, NEW a \in Admins, CreateLevel(a)
  PROVE  LedgerExplainsStock'
<1> DEFINE n == AtLeastZero(delta[a])
<1>1. n \in Nat
  BY ClampFacts DEF LedgerInv, StockInv, TypeOK
<1>2. PICK r \in RowIds \ rows :
        /\ rows' = rows \cup {r}
        /\ onHand' = [onHand EXCEPT ![r] = n]
  BY DEF CreateLevel
<1>3. /\ IsFiniteSet(rows) /\ \A q \in rows : onHand[q] \in Nat
      /\ onHand'[r] = n /\ \A q \in rows : onHand'[q] = onHand[q]
  BY <1>2 DEF LedgerInv, StockInv, TypeOK, RowsThere
<1>4. SumOver(onHand', rows \cup {r}) = SumOver(onHand', rows) + n
  <2>1. \A q \in rows : onHand'[q] \in Int
    BY <1>3
  <2>2. onHand'[r] \in Int /\ r \notin rows
    BY <1>1, <1>3
  <2>3. SumOver(onHand', rows \cup {r}) = SumOver(onHand', rows) + onHand'[r]
    BY <1>3, <2>1, <2>2, SumAdd
  <2> QED
    BY <1>3, <2>3
<1>5. SumOver(onHand', rows) = SumOver(onHand, rows) /\ SumOver(onHand, rows) \in Nat
  BY <1>3, SumSame, SumPart
<1>6. Total(onHand)' = Total(onHand) + n /\ Total(onHand) \in Nat
  BY <1>2, <1>4, <1>5, TotalIsSum
<1>7. /\ UNCHANGED <<stale, phase>> /\ ledger' = ledger + n
  BY DEF CreateLevel, history
<1>8. QtyOf(Unrecorded)' = QtyOf(Unrecorded)
  <2>1. Unrecorded' = Unrecorded
    BY <1>7 DEF Unrecorded
  <2> QED
    BY <2>1
<1>9. ledger \in Int /\ QtyOf(Unrecorded) \in Nat
  BY BegunFinite, QtyOfFacts DEF LedgerInv, StockInv, TypeOK
<1>10. ~stale => Total(onHand) = ledger - QtyOf(Unrecorded)
  BY DEF LedgerInv, LedgerExplainsStock
<1> HIDE DEF n
<1>11. ~stale' => Total(onHand)' = ledger' - QtyOf(Unrecorded)'
  BY <1>1, <1>6, <1>7, <1>8, <1>9, <1>10
<1> QED
  BY <1>11 DEF LedgerExplainsStock

LEMMA LedgerStep ==
  ASSUME LedgerInv, [Next]_vars
  PROVE  LedgerInv'
<1>1. StockInv'
  BY StockInvStep DEF LedgerInv
<1>2. ASSUME UNCHANGED vars PROVE LedgerExplainsStock'
  BY <1>2, LedgerAside DEF vars, Unrecorded
<1>3. ASSUME NEW o \in Orders,
             \/ Reserve(o) \/ Refuse(o) \/ PlaceUnreserved(o) \/ CancelOrder(o)
             \/ DeductRead(o) \/ DeductNothing(o) \/ ShipRelease(o) \/ ShipDies(o)
      PROVE  LedgerExplainsStock'
  BY <1>3, OrdersKeepLedger
<1>4. ASSUME NEW o \in Orders, DeductWrite(o) \/ DeductRecord(o)
      PROVE  LedgerExplainsStock'
  BY <1>4, DeductWriteKeepsLedger, DeductRecordKeepsLedger
<1>5. ASSUME NEW a \in Admins, Adjusting(a) \/ CreateLevel(a)
      PROVE  LedgerExplainsStock'
  BY <1>5, AdjustingKeepsLedger, CreateLevelKeepsLedger
<1>6. ASSUME NEW a \in Admins, NEW n \in Amounts, SetAbsoluteRead(a, n)
      PROVE  LedgerExplainsStock'
  <2>1. UNCHANGED <<rows, onHand, ledger, stale, phase>>
    BY <1>6 DEF SetAbsoluteRead, stockVars, history
  <2> QED
    BY <2>1, LedgerAside DEF Unrecorded
<1>7. LedgerExplainsStock'
  BY <1>2, <1>3, <1>4, <1>5, <1>6 DEF Next, Adjusting
<1> QED
  BY <1>1, <1>7 DEF LedgerInv

(* However many orders ship and admins adjust at once, on-hand is the sum  *)
(* of the recorded movements, less shipments not yet recorded, until a     *)
(* shipment writes over a level that changed after it was read.            *)
THEOREM LedgerExplainsStockAlways == Spec => []LedgerExplainsStock
<1>1. LedgerInv /\ [Next]_vars => LedgerInv'
  BY LedgerStep
<1>2. LedgerInv => LedgerExplainsStock
  BY DEF LedgerInv
<1> QED
  BY LedgerInit, <1>1, <1>2, PTL DEF Spec

-----------------------------------------------------------------------------
(* Reservations. *)

(* What is asserted of the one row is asserted of the sums. *)
LEMMA OneRowTotals ==
  ASSUME StockInv, NEW r, rows = {r}
  PROVE  /\ r \in RowIds
         /\ Total(reserved) = reserved[r] /\ Total(onHand) = onHand[r]
<1>1. r \in RowIds /\ reserved[r] \in Int /\ onHand[r] \in Int
  BY DEF StockInv, TypeOK
<1>2. SumOver(reserved, {r}) = reserved[r] /\ SumOver(onHand, {r}) = onHand[r]
  BY <1>1, SumOne
<1> QED
  BY <1>1, <1>2, TotalIsSum

LEMMA OnlyRowIs == StockInv => (OnlyRow <=> \E r : rows = {r})
BY FS_Singleton DEF OnlyRow, StockInv, RowsThere

LEMMA HoldInvInit == Init => HoldInv
<1> SUFFICES ASSUME Init PROVE HoldInv
  OBVIOUS
<1>1. QtyOf(holds) = 0
  BY QtyOfIsSum, SumEmpty DEF Init
<1>2. Held
  BY <1>1 DEF Init, Held
<1> QED
  BY <1>2, StockInvInit DEF Init, HoldInv

LEMMA HoldAside ==
  ASSUME HoldInv, UNCHANGED <<rows, reserved, holds, phantom>>
  PROVE  (\A r \in RowIds \ rows' : reserved'[r] = 0) /\ Held'
<1>1. Held'
  BY DEF HoldInv, Held
<1> QED
  BY <1>1 DEF HoldInv

LEMMA HoldFacts ==
  ASSUME HoldInv
  PROVE  /\ QtyOf(holds) \in Nat
         /\ \A o \in Orders \ holds : QtyOf(holds \cup {o}) = QtyOf(holds) + Qty[o]
         /\ \A o \in holds : /\ QtyOf(holds \ {o}) = QtyOf(holds) - Qty[o]
                             /\ Qty[o] <= QtyOf(holds)
BY BegunFinite, QtyOfFacts DEF HoldInv

LEMMA ReserveKeepsHold ==
  ASSUME HoldInv, NEW o \in Orders, Reserve(o)
  PROVE  (\A r \in RowIds \ rows' : reserved'[r] = 0) /\ Held'
<1>1. PICK r \in rows : reserved' = [reserved EXCEPT ![r] = @ + Qty[o]]
  BY DEF Reserve
<1>2. /\ o \notin holds /\ holds' = holds \cup {o} /\ rows' = rows /\ phantom' = phantom
      /\ r \in RowIds /\ reserved \in [RowIds -> Nat]
  BY DEF Reserve, HoldInv, StockInv, TypeOK, RowsThere, Begun
<1>3. QtyOf(holds') = QtyOf(holds) + Qty[o]
  BY <1>2, HoldFacts
<1>4. \A q \in RowIds : rows' = {q} => q = r /\ reserved'[q] = reserved[q] + Qty[o]
  BY <1>1, <1>2
<1>5. Held'
  BY <1>2, <1>3, <1>4 DEF HoldInv, Held
<1> QED
  BY <1>1, <1>2, <1>5 DEF HoldInv

(* An order that holds its quantity gives back exactly that. *)
LEMMA ReleaseIsExact ==
  ASSUME HoldInv, NEW o \in Orders, Release(o), UNCHANGED rows, ~phantom',
         NEW r \in RowIds, rows = {r}
  PROVE  /\ o \in holds /\ ~phantom
         /\ reserved'[r] = reserved[r] - Qty[o]
<1>1. o \in holds /\ ~phantom
  <2>1. phantom' = (phantom \/ (rows # {} /\ o \notin holds))
    BY DEF Release
  <2> QED
    BY <2>1
<1>2. reserved[r] = QtyOf(holds) /\ Qty[o] <= QtyOf(holds) /\ Qty[o] \in Nat
      /\ QtyOf(holds) \in Nat
  BY <1>1, HoldFacts, QtyNat DEF HoldInv, Held
<1>3. reserved' = [reserved EXCEPT ![r] = AtLeastZero(@ - Qty[o])]
  BY DEF Release
<1>4. reserved'[r] = AtLeastZero(reserved[r] - Qty[o])
  BY <1>3 DEF HoldInv, StockInv, TypeOK
<1>5. AtLeastZero(reserved[r] - Qty[o]) = reserved[r] - Qty[o]
  BY <1>2 DEF AtLeastZero
<1> QED
  BY <1>1, <1>4, <1>5

LEMMA ReleaseKeepsHold ==
  ASSUME HoldInv, NEW o \in Orders, Release(o), UNCHANGED rows
  PROVE  (\A r \in RowIds \ rows' : reserved'[r] = 0) /\ Held'
<1>1. \A r \in RowIds \ rows' : reserved'[r] = reserved[r]
  BY DEF Release, HoldInv, StockInv, TypeOK
<1>2. ASSUME ~phantom', NEW r \in RowIds, rows' = {r}
      PROVE  reserved'[r] = QtyOf(holds')
  <2>1. o \in holds /\ ~phantom /\ reserved'[r] = reserved[r] - Qty[o]
    BY <1>2, ReleaseIsExact
  <2>2. holds' = holds \ {o}
    BY DEF Release
  <2>3. QtyOf(holds') = QtyOf(holds) - Qty[o]
    BY <2>1, <2>2, HoldFacts
  <2>4. reserved[r] = QtyOf(holds)
    BY <1>2, <2>1 DEF HoldInv, Held
  <2> QED
    BY <2>1, <2>3, <2>4
<1>3. Held'
  BY <1>2 DEF Held
<1> QED
  BY <1>1, <1>3 DEF HoldInv

(* The first row of the key begins with nothing reserved, and nobody holds.*)
LEMMA CreateLevelKeepsHold ==
  ASSUME HoldInv, NEW a \in Admins, CreateLevel(a)
  PROVE  (\A r \in RowIds \ rows' : reserved'[r] = 0) /\ Held'
<1>1. PICK q \in RowIds \ rows : rows' = rows \cup {q}
  BY DEF CreateLevel
<1>2. UNCHANGED <<reserved, holds, phantom>>
  BY DEF CreateLevel, history
<1>3. ASSUME NEW r \in RowIds, rows' = {r}
      PROVE  reserved'[r] = QtyOf(holds')
  <2>1. rows = {} /\ q = r
    BY <1>1, <1>3
  <2>2. holds' = {} /\ reserved'[r] = 0
    BY <1>2, <2>1 DEF HoldInv, StockInv, RowsThere
  <2> QED
    BY <2>2, QtyOfIsSum, SumEmpty
<1>4. Held'
  BY <1>3 DEF Held
<1> QED
  BY <1>1, <1>2, <1>4 DEF HoldInv

LEMMA HoldStep ==
  ASSUME HoldInv, [Next]_vars
  PROVE  HoldInv'
<1> DEFINE Keeps == (\A r \in RowIds \ rows' : reserved'[r] = 0) /\ Held'
<1>1. StockInv'
  BY StockInvStep DEF HoldInv
<1>2. ASSUME NEW o \in Orders, Reserve(o)
      PROVE  Keeps
  BY <1>2, ReserveKeepsHold
<1>3. ASSUME NEW o \in Orders, CancelOrder(o) \/ ShipRelease(o)
      PROVE  Keeps
  BY <1>3, ReleaseKeepsHold DEF CancelOrder, ShipRelease
<1>4. ASSUME NEW o \in Orders,
             \/ Refuse(o) \/ PlaceUnreserved(o) \/ DeductRead(o) \/ DeductNothing(o)
             \/ DeductWrite(o) \/ DeductRecord(o) \/ ShipDies(o)
      PROVE  Keeps
  <2>1. UNCHANGED <<rows, reserved, holds, phantom>>
    BY <1>4 DEF Refuse, PlaceUnreserved, DeductRead, DeductNothing, DeductWrite,
                DeductRecord, ShipDies, stockVars, history
  <2> QED
    BY <2>1, HoldAside
<1>5. ASSUME NEW a \in Admins, Adjusting(a)
      PROVE  Keeps
  <2>1. UNCHANGED <<rows, reserved, holds, phantom>>
    BY <1>5, AdjustingFacts DEF HoldInv, AdminsOnly
  <2> QED
    BY <2>1, HoldAside
<1>6. ASSUME NEW a \in Admins, NEW n \in Amounts, SetAbsoluteRead(a, n)
      PROVE  Keeps
  <2>1. UNCHANGED <<rows, reserved, holds, phantom>>
    BY <1>6 DEF SetAbsoluteRead, stockVars, history
  <2> QED
    BY <2>1, HoldAside
<1>7. ASSUME NEW a \in Admins, CreateLevel(a)
      PROVE  Keeps
  BY <1>7, CreateLevelKeepsHold
<1>8. ASSUME UNCHANGED vars
      PROVE  Keeps
  BY <1>8, HoldAside DEF vars
<1> HIDE DEF Keeps
<1>9. Keeps
  BY <1>2, <1>3, <1>4, <1>5, <1>6, <1>7, <1>8 DEF Next, Adjusting
<1> QED
  BY <1>1, <1>9 DEF HoldInv, Keeps

(* However many orders reserve, cancel and ship at once, the reserved      *)
(* quantity of the level is what the orders hold, until one releases a     *)
(* quantity nobody had reserved for it.                                    *)
THEOREM ReservedIsHeldAlways == Spec => []ReservedIsHeld
<1>1. HoldInv /\ [Next]_vars => HoldInv'
  BY HoldStep
<1>2. HoldInv => ReservedIsHeld
  <2> SUFFICES ASSUME HoldInv, OnlyRow, ~phantom
               PROVE  Total(reserved) = QtyOf(holds)
    BY DEF ReservedIsHeld
  <2>1. PICK r : rows = {r}
    BY OnlyRowIs DEF HoldInv
  <2> QED
    BY <2>1, OneRowTotals DEF HoldInv, Held
<1> QED
  BY HoldInvInit, <1>1, <1>2, PTL DEF Spec

-----------------------------------------------------------------------------
(* Nothing is promised twice. *)

LEMMA CoveredInit == Init => OversoldInv
<1> SUFFICES ASSUME Init PROVE OversoldInv
  OBVIOUS
<1>1. InTransit = {}
  BY DEF Init, InTransit
<1>2. QtyOf(InTransit) = 0
  BY <1>1, QtyOfIsSum, SumEmpty
<1>3. onHand \in [RowIds -> Nat] /\ reserved = [r \in RowIds |-> 0]
  BY HoldInvInit DEF HoldInv, StockInv, TypeOK, Init
<1>4. Covered
  BY <1>2, <1>3 DEF Covered
<1> QED
  BY <1>4, HoldInvInit DEF OversoldInv

LEMMA TransitFacts ==
  ASSUME HoldInv
  PROVE  /\ QtyOf(InTransit) \in Nat
         /\ \A o \in Orders \ InTransit :
              QtyOf(InTransit \cup {o}) = QtyOf(InTransit) + Qty[o]
         /\ \A o \in InTransit : QtyOf(InTransit \ {o}) = QtyOf(InTransit) - Qty[o]
BY BegunFinite, QtyOfFacts DEF HoldInv

(* Steps that take nothing away, reserve nothing and send nothing off. *)
LEMMA CoveredAside ==
  ASSUME OversoldInv, UNCHANGED <<rows, reserved, onHand>>, InTransit' = InTransit,
         phantom => phantom', stale => stale', removed => removed'
  PROVE  Covered'
BY DEF OversoldInv, Covered

LEMMA OrdersKeepCovered ==
  ASSUME OversoldInv, NEW o \in Orders,
         \/ Refuse(o) \/ PlaceUnreserved(o) \/ DeductRead(o) \/ DeductNothing(o)
         \/ DeductRecord(o) \/ ShipDies(o)
  PROVE  Covered'
<1> USE DEF stockVars, history
<1>1. /\ UNCHANGED <<rows, reserved, onHand, holds, phantom, stale, removed>>
      /\ \A p \in Orders \ {o} : phase'[p] = phase[p] /\ seen'[p] = seen[p]
  BY DEF Refuse, PlaceUnreserved, DeductRead, DeductNothing, DeductRecord, ShipDies,
         OversoldInv, HoldInv, StockInv, TypeOK
<1>2. o \in InTransit' <=> o \in InTransit
  <2>1. phase \in [Orders -> Phases] /\ seen = [p \in Orders |-> seen[p]]
        /\ holds \subseteq Begun
    BY DEF OversoldInv, HoldInv, StockInv, TypeOK, RowsThere
  <2>2. CASE Refuse(o) \/ PlaceUnreserved(o)
    BY <2>1, <2>2 DEF Refuse, PlaceUnreserved, InTransit, Begun
  <2>3. CASE DeductRead(o)
    BY <2>1, <2>3 DEF DeductRead, InTransit
  <2>4. CASE DeductRecord(o)
    BY <2>1, <2>4 DEF DeductRecord, InTransit
  <2>5. CASE ShipDies(o)
    BY <2>1, <2>5 DEF ShipDies, InTransit
  <2>6. CASE DeductNothing(o)
    <3>1. seen[o] = Nothing /\ UNCHANGED <<seen, holds>>
      BY <2>6 DEF DeductNothing, OversoldInv, HoldInv, StockInv, RowsThere
    <3> QED
      BY <3>1 DEF InTransit
  <2> QED
    BY <2>2, <2>3, <2>4, <2>5, <2>6
<1>3. InTransit' = InTransit
  <2>1. \A p \in Orders \ {o} : p \in InTransit' <=> p \in InTransit
    BY <1>1 DEF InTransit
  <2>2. InTransit \subseteq Orders /\ InTransit' \subseteq Orders
    BY <1>1 DEF InTransit, OversoldInv, HoldInv, StockInv, TypeOK
  <2> QED
    BY <1>2, <2>1, <2>2
<1> QED
  BY <1>1, <1>3, CoveredAside

(* An order reserves what is on hand and not reserved. *)
LEMMA ReserveKeepsCovered ==
  ASSUME OversoldInv, NEW o \in Orders, Reserve(o)
  PROVE  Covered'
<1>1. PICK r \in rows : /\ Enough(r, Qty[o])
                        /\ reserved' = [reserved EXCEPT ![r] = @ + Qty[o]]
  BY DEF Reserve
<1>2. /\ onHand \in [RowIds -> Nat] /\ reserved \in [RowIds -> Nat]
      /\ Qty[o] \in Nat /\ r \in RowIds
  BY QtyNat DEF OversoldInv, HoldInv, StockInv, TypeOK
<1>3. InTransit' = InTransit
  BY DEF Reserve, InTransit, OversoldInv, HoldInv, StockInv, TypeOK
<1>4. QtyOf(InTransit') \in Nat
  BY <1>3, TransitFacts DEF OversoldInv
<1>5. rows' = rows /\ onHand' = onHand
  BY DEF Reserve
<1>6. reserved'[r] = reserved[r] + Qty[o] /\ reserved[r] + Qty[o] <= onHand[r]
  BY <1>1, <1>2 DEF Enough
<1>7. reserved'[r] <= onHand'[r] + QtyOf(InTransit')
  BY <1>2, <1>4, <1>5, <1>6
<1> QED
  BY <1>5, <1>7 DEF Covered

(* A cancelled order gives its quantity back; a shipped one is no longer   *)
(* on its way, but no longer holds either.                                 *)
LEMMA ReleaseKeepsCovered ==
  ASSUME OversoldInv, NEW o \in Orders, CancelOrder(o) \/ ShipRelease(o)
  PROVE  Covered'
<1>1. /\ Release(o) /\ rows' = rows /\ onHand' = onHand /\ stale' = stale
      /\ removed' = removed /\ holds' = holds \ {o}
      /\ \A p \in Orders \ {o} : phase'[p] = phase[p] /\ seen'[p] = seen[p]
  BY DEF CancelOrder, ShipRelease, Release, OversoldInv, HoldInv, StockInv, TypeOK
<1>2. InTransit' = InTransit \ {o}
  BY <1>1 DEF InTransit, OversoldInv, HoldInv, StockInv, TypeOK
<1>3. QtyOf(InTransit') \in Nat /\ QtyOf(InTransit) \in Nat
      /\ QtyOf(InTransit') >= QtyOf(InTransit) - Qty[o] /\ Qty[o] \in Nat
  <2>1. QtyOf(InTransit) \in Nat /\ Qty[o] \in Nat
    BY TransitFacts, QtyNat DEF OversoldInv
  <2>2. CASE o \in InTransit
    <3>1. QtyOf(InTransit') = QtyOf(InTransit) - Qty[o]
      BY <1>2, <2>2, TransitFacts DEF OversoldInv
    <3>2. Qty[o] <= QtyOf(InTransit)
      BY <2>2, BegunFinite, QtyOfFacts DEF OversoldInv, HoldInv
    <3> QED
      BY <2>1, <3>1, <3>2
  <2>3. CASE o \notin InTransit
    <3>1. InTransit' = InTransit
      BY <1>2, <2>3
    <3> QED
      BY <2>1, <3>1
  <2> QED
    BY <2>2, <2>3
<1>4. ASSUME ~phantom', ~stale', ~removed', NEW r \in RowIds, rows' = {r}
      PROVE  reserved'[r] <= onHand'[r] + QtyOf(InTransit')
  <2>1. ~phantom /\ reserved'[r] = reserved[r] - Qty[o]
    BY <1>1, <1>4, ReleaseIsExact DEF OversoldInv
  <2>2. reserved[r] <= onHand[r] + QtyOf(InTransit)
    BY <1>1, <1>4, <2>1 DEF OversoldInv, Covered
  <2>3. reserved[r] \in Nat /\ onHand[r] \in Nat /\ onHand'[r] = onHand[r]
    BY <1>1 DEF OversoldInv, HoldInv, StockInv, TypeOK
  <2> QED
    BY <1>3, <2>1, <2>2, <2>3
<1> QED
  BY <1>4 DEF Covered

(* What leaves the level is on its way. *)
LEMMA DeductWriteKeepsCovered ==
  ASSUME OversoldInv, NEW o \in Orders, DeductWrite(o)
  PROVE  Covered'
<1> DEFINE v == seen[o].val
<1>1. ASSUME ~phantom', ~stale', ~removed', NEW r \in RowIds, rows' = {r}
      PROVE  reserved'[r] <= onHand'[r] + QtyOf(InTransit')
  <2>1. /\ rows = {r} /\ seen[o].row = r /\ v \in Nat /\ Qty[o] \in Nat /\ Qty[o] > 0
        /\ reserved'[r] = reserved[r] /\ onHand[r] \in Nat /\ reserved[r] \in Nat
    BY <1>1, QtyNat DEF DeductWrite, OversoldInv, HoldInv, StockInv, TypeOK, RowsThere
  <2>2. ~phantom /\ ~stale /\ ~removed /\ o \in holds
        /\ ~(v # onHand[seen[o].row]) /\ ~(v < Qty[o])
    <3>1. /\ stale' = (stale \/ v # onHand[seen[o].row] \/ v < Qty[o])
          /\ removed' = (removed \/ o \notin holds)
          /\ phantom' = phantom
      BY DEF DeductWrite
    <3> QED
      BY <1>1, <3>1, Zenon
  <2>3. onHand'[r] = onHand[r] - Qty[o]
    <3>1. AtLeastZero(v - Qty[o]) = v - Qty[o]
      BY <2>1, <2>2 DEF AtLeastZero
    <3>2. onHand' = [onHand EXCEPT ![r] = AtLeastZero(v - Qty[o])]
      BY <2>1 DEF DeductWrite
    <3> QED
      BY <2>1, <2>2, <3>1, <3>2 DEF OversoldInv, HoldInv, StockInv, TypeOK
  <2>4. seen[o] # Nothing
    BY <2>1, <2>2 DEF Nothing
  <2>5. InTransit' = InTransit \cup {o} /\ o \notin InTransit
    BY <2>2, <2>4 DEF DeductWrite, InTransit, OversoldInv, HoldInv, StockInv, TypeOK
  <2>6. QtyOf(InTransit') = QtyOf(InTransit) + Qty[o] /\ QtyOf(InTransit) \in Nat
    BY <2>5, TransitFacts DEF OversoldInv
  <2>7. reserved[r] <= onHand[r] + QtyOf(InTransit)
    BY <2>1, <2>2 DEF OversoldInv, Covered
  <2> QED
    BY <2>1, <2>3, <2>6, <2>7
<1> QED
  BY <1>1 DEF Covered

LEMMA AdjustingKeepsCovered ==
  ASSUME OversoldInv, NEW a \in Admins, Adjusting(a)
  PROVE  Covered'
<1>1. StockInv
  BY DEF OversoldInv, HoldInv
<1>2. /\ AdminsOnly /\ UNCHANGED rows
      /\ \/ \E r \in rows : \E n \in Nat : SetOnHand(r, n)
         \/ UNCHANGED <<onHand, ledger, removed>>
  BY <1>1, AdjustingFacts
<1>3. UNCHANGED <<reserved, stale, phantom>> /\ InTransit' = InTransit
  BY <1>2 DEF AdminsOnly, InTransit
<1>4. CASE UNCHANGED <<onHand, ledger, removed>>
  BY <1>2, <1>3, <1>4, CoveredAside
<1>5. ASSUME NEW r \in rows, NEW n \in Nat, SetOnHand(r, n)
      PROVE  Covered'
  <2>1. ASSUME ~phantom', ~stale', ~removed', rows' = {r}
        PROVE  reserved'[r] <= onHand'[r] + QtyOf(InTransit')
    <3>1. /\ onHand'[r] = n /\ onHand[r] \in Nat /\ reserved[r] \in Nat
          /\ r \in RowIds
      BY <1>1, <1>5 DEF SetOnHand, StockInv, TypeOK
    <3>2. ~removed /\ ~(n < onHand[r])
      <4>1. removed' = (removed \/ n < onHand[r])
        BY <1>5 DEF SetOnHand
      <4> QED
        BY <2>1, <4>1, Zenon
    <3>3. reserved[r] <= onHand[r] + QtyOf(InTransit)
      BY <1>2, <1>3, <2>1, <3>1, <3>2 DEF OversoldInv, Covered
    <3>4. QtyOf(InTransit) \in Nat
      BY TransitFacts DEF OversoldInv
    <3> QED
      BY <1>3, <3>1, <3>2, <3>3, <3>4
  <2> QED
    BY <1>2, <2>1 DEF Covered
<1> QED
  BY <1>2, <1>4, <1>5

LEMMA CreateLevelKeepsCovered ==
  ASSUME OversoldInv, NEW a \in Admins, CreateLevel(a)
  PROVE  Covered'
<1>1. PICK q \in RowIds \ rows : rows' = rows \cup {q}
  BY DEF CreateLevel
<1>2. UNCHANGED reserved /\ InTransit' = InTransit
  BY DEF CreateLevel, history, InTransit
<1>3. onHand' \in [RowIds -> Nat]
  BY CreateLevelKeepsStock DEF OversoldInv, HoldInv, StockInv, TypeOK
<1>4. QtyOf(InTransit') \in Nat
  BY <1>2, TransitFacts DEF OversoldInv
<1>5. ASSUME NEW r \in RowIds, rows' = {r}
      PROVE  reserved'[r] <= onHand'[r] + QtyOf(InTransit')
  <2>1. r \notin rows
    BY <1>1, <1>5
  <2>2. reserved'[r] = 0
    BY <1>2, <2>1 DEF OversoldInv, HoldInv
  <2> QED
    BY <1>3, <1>4, <2>2
<1> QED
  BY <1>5 DEF Covered

LEMMA CoveredStep ==
  ASSUME OversoldInv, [Next]_vars
  PROVE  OversoldInv'
<1>1. HoldInv'
  BY HoldStep DEF OversoldInv
<1>2. ASSUME NEW o \in Orders,
             \/ Refuse(o) \/ PlaceUnreserved(o) \/ DeductRead(o) \/ DeductNothing(o)
             \/ DeductRecord(o) \/ ShipDies(o)
      PROVE  Covered'
  BY <1>2, OrdersKeepCovered
<1>3. ASSUME NEW o \in Orders,
             Reserve(o) \/ CancelOrder(o) \/ ShipRelease(o) \/ DeductWrite(o)
      PROVE  Covered'
  BY <1>3, ReserveKeepsCovered, ReleaseKeepsCovered, DeductWriteKeepsCovered
<1>4. ASSUME NEW a \in Admins, Adjusting(a) \/ CreateLevel(a)
      PROVE  Covered'
  BY <1>4, AdjustingKeepsCovered, CreateLevelKeepsCovered
<1>5. ASSUME NEW a \in Admins, NEW n \in Amounts, SetAbsoluteRead(a, n)
      PROVE  Covered'
  <2>1. /\ UNCHANGED <<rows, reserved, onHand, phantom, stale, removed>>
        /\ InTransit' = InTransit
    BY <1>5 DEF SetAbsoluteRead, stockVars, history, InTransit
  <2> QED
    BY <2>1, CoveredAside
<1>6. ASSUME UNCHANGED vars
      PROVE  Covered'
  <2>1. InTransit' = InTransit
    BY <1>6 DEF vars, InTransit
  <2> QED
    BY <1>6, <2>1, CoveredAside DEF vars
<1>7. Covered'
  BY <1>2, <1>3, <1>4, <1>5, <1>6 DEF Next, Adjusting
<1> QED
  BY <1>1, <1>7 DEF OversoldInv

(* Concurrent orders never reserve the same stock twice: what is reserved  *)
(* is on hand or on its way out, until an adjustment takes stock away, a   *)
(* shipment writes over the level, or a quantity is released that nobody   *)
(* had reserved.                                                           *)
THEOREM NeverOversoldAlways == Spec => []NeverOversold
<1>1. OversoldInv /\ [Next]_vars => OversoldInv'
  BY CoveredStep
<1>2. OversoldInv => NeverOversold
  <2> SUFFICES ASSUME OversoldInv, OnlyRow, ~phantom, ~stale, ~removed
               PROVE  Total(reserved) <= Total(onHand) + QtyOf(InTransit)
    BY DEF NeverOversold
  <2>1. PICK r : rows = {r}
    BY OnlyRowIs DEF OversoldInv, HoldInv
  <2> QED
    BY <2>1, OneRowTotals DEF OversoldInv, HoldInv, Covered
<1> QED
  BY CoveredInit, <1>1, <1>2, PTL DEF Spec
=============================================================================
