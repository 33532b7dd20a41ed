----------------------------- MODULE Inventory ------------------------------
(***************************************************************************)
(* Stock of one sellable variant in one warehouse: the inventory_levels    *)
(* rows of that key, the movements recorded for it, the orders that        *)
(* reserve, release and ship it, and the back office and store-sync calls  *)
(* that adjust it.                                                         *)
(*                                                                         *)
(* A method that reads its row FOR UPDATE and writes it in the same        *)
(* transaction is one action: the row lock keeps every other writer out.   *)
(* A method that reads without the lock, or that finds no row to lock, is  *)
(* two actions, and anything may commit between them.                      *)
(*                                                                         *)
(* The key has no unique index, so it may get a second row: rows is a set. *)
(***************************************************************************)
EXTENDS Integers, FiniteSets, FiniteSetsExt

CONSTANTS
  RowIds,         \* level rows that may be created for the key
  Orders,
  Qty,            \* by order: the quantity of its line
  Reserves,       \* by order: does placing it reserve (stockPolicy)?
  Admins,         \* back-office users and store syncs
  InitialStock,   \* on-hand of the first row, when there is one
  Amounts,        \* quantities a caller passes to adjust and set
  MaxStock,       \* bound: on-hand reached by additions
  MaxOps,         \* bound: adjustments explored
  Fulfils         \* are orders shipped in this instance?

ASSUME InventoryAssumption ==
  /\ RowIds \subseteq Nat /\ RowIds # {}
  /\ Qty \in [Orders -> Nat \ {0}]
  /\ Reserves \in [Orders -> BOOLEAN]
  /\ Amounts \subseteq Nat
  /\ MaxStock \in Nat /\ InitialStock \in 0..MaxStock
  /\ MaxOps \in Nat
  /\ Fulfils \in BOOLEAN

VARIABLES
  storeOwned,  \* the entity was imported from a connected store
  rows,        \* level rows that exist
  onHand,      \* quantity_on_hand of each
  reserved,    \* quantity_reserved of each
  ledger,      \* sum of the adjustment and fulfillment movements
  phase,       \* how far each order's stock handling has come
  seen,        \* by order: the row and on-hand its shipment has read
  doing,       \* what each admin's call will do next
  delta,       \* by admin: the quantity that call carries
  ops,         \* adjustments started
  holds,       \* history: orders whose reservation has not been released
  phantom,     \* history: a quantity nobody had reserved has been released
  stale,       \* history: a shipment wrote over a newer or smaller on-hand
  removed      \* history: on-hand was lowered on no reservation's account

stockVars == <<rows, onHand, reserved, ledger>>
history   == <<holds, phantom, stale, removed>>
vars      == <<storeOwned, rows, onHand, reserved, ledger, phase, seen, doing,
               delta, ops, holds, phantom, stale, removed>>

Phases == {"new", "refused", "placed", "read", "written", "deducted",
           "shipped", "cancelled", "stuck", "stuckShort", "stuckUnrecorded"}
Nothing == [row |-> 0, val |-> 0]

(* mutant: GREATEST(0, ...) is dropped *)
Unclamped(n) == n

AtLeastZero(n) == IF n < 0 THEN 0 ELSE n

TypeOK ==
  /\ storeOwned \in BOOLEAN
  /\ rows \subseteq RowIds
  /\ onHand \in [RowIds -> Nat]
  /\ reserved \in [RowIds -> Nat]
  /\ ledger \in Int
  /\ phase \in [Orders -> Phases]
  /\ seen \in [Orders -> [row : RowIds \cup {0}, val : Nat]]
  /\ doing \in [Admins -> {"idle", "adjust", "create"}]
  /\ delta \in [Admins -> Int]
  /\ ops \in 0..MaxOps
  /\ holds \subseteq Orders
  /\ {phantom, stale, removed} \subseteq BOOLEAN

FirstRow == CHOOSE r \in RowIds : \A q \in RowIds : r <= q

Init ==
  /\ storeOwned \in BOOLEAN
  /\ rows \in {{}, {FirstRow}}
  /\ onHand = [r \in RowIds |-> IF r \in rows THEN InitialStock ELSE 0]
  /\ reserved = [r \in RowIds |-> 0]
  /\ ledger = IF rows = {} THEN 0 ELSE InitialStock
  /\ phase = [o \in Orders |-> "new"]
  /\ seen = [o \in Orders |-> Nothing]
  /\ doing = [a \in Admins |-> "idle"]
  /\ delta = [a \in Admins |-> 0]
  /\ ops = 0
  /\ holds = {}
  /\ phantom = FALSE /\ stale = FALSE /\ removed = FALSE

-----------------------------------------------------------------------------
(* Orders: reserve, then cancel or ship. *)

(* mutant: the check that stock is left is dropped *)
EnoughAlways(r, q) == onHand[r] >= q

Enough(r, q) == onHand[r] - reserved[r] >= q

Reserve(o) ==
  /\ phase[o] = "new"
  /\ Reserves[o]
  /\ \E r \in rows :
       /\ Enough(r, Qty[o])
       /\ reserved' = [reserved EXCEPT ![r] = @ + Qty[o]]
  /\ phase' = [phase EXCEPT ![o] = "placed"]
  /\ holds' = holds \cup {o}
  /\ UNCHANGED <<storeOwned, rows, onHand, ledger, seen, doing, delta, ops,
                 phantom, stale, removed>>

(* No level row, or not enough available. *)
Refuse(o) ==
  /\ phase[o] = "new"
  /\ Reserves[o]
  /\ \/ rows = {}
     \/ \E r \in rows : ~Enough(r, Qty[o])
  /\ phase' = [phase EXCEPT ![o] = "refused"]
  /\ UNCHANGED <<storeOwned, stockVars, seen, doing, delta, ops, history>>

PlaceUnreserved(o) ==
  /\ phase[o] = "new"
  /\ ~Reserves[o]
  /\ phase' = [phase EXCEPT ![o] = "placed"]
  /\ UNCHANGED <<storeOwned, stockVars, seen, doing, delta, ops, history>>

(* mutant: the row lock is not taken, so a release is lost *)
ReleaseNothing(o) ==
  /\ reserved' = reserved
  /\ holds'    = holds \ {o}
  /\ phantom'  = (phantom \/ (rows # {} /\ o \notin holds))

(* Subtracts the line's quantity, clamped at zero, whoever reserved it; a  *)
(* missing level row is tolerated by the callers.                          *)
Release(o) ==
  /\ \/ rows = {} /\ reserved' = reserved
     \/ \E r \in rows :
          reserved' = [reserved EXCEPT ![r] = AtLeastZero(@ - Qty[o])]
  /\ holds'   = holds \ {o}
  /\ phantom' = (phantom \/ (rows # {} /\ o \notin holds))

CancelOrder(o) ==
  /\ phase[o] = "placed"
  /\ Release(o)
  /\ phase' = [phase EXCEPT ![o] = "cancelled"]
  /\ UNCHANGED <<storeOwned, rows, onHand, ledger, seen, doing, delta, ops,
                 stale, removed>>

(* deductForFulfillment, first statement: the level is read without a lock.*)
DeductRead(o) ==
  /\ Fulfils
  /\ phase[o] = "placed"
  /\ ~storeOwned
  /\ \E r \in rows : seen' = [seen EXCEPT ![o] = [row |-> r, val |-> onHand[r]]]
  /\ phase' = [phase EXCEPT ![o] = "read"]
  /\ UNCHANGED <<storeOwned, stockVars, doing, delta, ops, history>>

(* Stock a connected store owns, or an untracked variant: nothing deducted.*)
DeductNothing(o) ==
  /\ Fulfils
  /\ phase[o] = "placed"
  /\ storeOwned \/ rows = {}
  /\ phase' = [phase EXCEPT ![o] = "deducted"]
  /\ UNCHANGED <<storeOwned, stockVars, seen, doing, delta, ops, history>>

(* Second statement: the absolute value computed from that read is written.*)
DeductWrite(o) ==
  /\ phase[o] = "read"
  /\ LET r == seen[o].row
         v == seen[o].val
     IN  /\ onHand' = [onHand EXCEPT ![r] = AtLeastZero(v - Qty[o])]
         /\ stale'  = (stale \/ v # onHand[r] \/ v < Qty[o])
  /\ removed' = (removed \/ o \notin holds)
  /\ phase' = [phase EXCEPT ![o] = "written"]
  /\ UNCHANGED <<storeOwned, rows, reserved, ledger, seen, doing, delta, ops,
                 holds, phantom>>

(* Third statement: the fulfillment movement. *)
DeductRecord(o) ==
  /\ phase[o] = "written"
  /\ ledger' = ledger - Qty[o]
  /\ phase'  = [phase EXCEPT ![o] = "deducted"]
  /\ UNCHANGED <<storeOwned, rows, onHand, reserved, seen, doing, delta, ops,
                 history>>

ShipRelease(o) ==
  /\ phase[o] = "deducted"
  /\ Release(o)
  /\ seen'  = [seen EXCEPT ![o] = Nothing]
  /\ phase' = [phase EXCEPT ![o] = "shipped"]
  /\ UNCHANGED <<storeOwned, rows, onHand, ledger, doing, delta, ops, stale,
                 removed>>

(* The statements are not one transaction: the server may die between two. *)
(* The order already says fulfilled, so nobody resumes.                    *)
ShipDies(o) ==
  /\ \/ phase[o] = "written" /\ phase' = [phase EXCEPT ![o] = "stuckUnrecorded"]
     \/ /\ phase[o] = "deducted" /\ seen[o] # Nothing
        /\ phase' = [phase EXCEPT ![o] = "stuckShort"]
     \/ /\ phase[o] = "read" \/ (phase[o] = "deducted" /\ seen[o] = Nothing)
        /\ phase' = [phase EXCEPT ![o] = "stuck"]
  /\ UNCHANGED <<storeOwned, stockVars, seen, doing, delta, ops, history>>

-----------------------------------------------------------------------------
(* Adjustments. *)

SetOnHand(r, n) ==
  /\ onHand'  = [onHand EXCEPT ![r] = n]
  /\ ledger'  = ledger + (n - onHand[r])
  /\ removed' = (removed \/ n < onHand[r])

(* mutant: the movement carries the requested, unclamped delta *)
ApplyDeltaUnclamped(a, d) ==
  \/ /\ \E r \in rows :
          /\ onHand[r] + d <= MaxStock
          /\ onHand'  = [onHand EXCEPT ![r] = AtLeastZero(@ + d)]
          /\ ledger'  = ledger + d
          /\ removed' = (removed \/ d < 0)
     /\ doing' = [doing EXCEPT ![a] = "idle"]
     /\ delta' = [delta EXCEPT ![a] = 0]
  \/ /\ rows = {}
     /\ doing' = [doing EXCEPT ![a] = "create"]
     /\ delta' = [delta EXCEPT ![a] = d]
     /\ UNCHANGED <<onHand, ledger, removed>>

(* adjustDetailed: the row is locked, GREATEST(0, on_hand + d) is written  *)
(* and the movement carries what changed.  With no row to lock the insert  *)
(* is a later statement.                                                   *)
ApplyDelta(a, d) ==
  \/ /\ \E r \in rows :
          /\ onHand[r] + d <= MaxStock
          /\ SetOnHand(r, AtLeastZero(onHand[r] + d))
     /\ doing' = [doing EXCEPT ![a] = "idle"]
     /\ delta' = [delta EXCEPT ![a] = 0]
  \/ /\ rows = {}
     /\ doing' = [doing EXCEPT ![a] = "create"]
     /\ delta' = [delta EXCEPT ![a] = d]
     /\ UNCHANGED <<onHand, ledger, removed>>

Start(a) ==
  /\ doing[a] = "idle"
  /\ ops < MaxOps
  /\ ops' = ops + 1

(* The add, remove and signed forms; none of them depends on the level. *)
AdjustBy(a, d) ==
  /\ Start(a)
  /\ ApplyDelta(a, d)
  /\ UNCHANGED <<storeOwned, rows, reserved, phase, seen, holds, phantom, stale>>

(* The set form, and one level of a setAbsoluteMany page: n is compared    *)
(* with the level read under the lock.                                     *)
AdjustSet(a, n) ==
  /\ Start(a)
  /\ \/ /\ \E r \in rows : SetOnHand(r, n)
        /\ UNCHANGED <<doing, delta>>
     \/ /\ rows = {}
        /\ doing' = [doing EXCEPT ![a] = "create"]
        /\ delta' = [delta EXCEPT ![a] = n]
        /\ UNCHANGED <<onHand, ledger, removed>>
  /\ UNCHANGED <<storeOwned, rows, reserved, phase, seen, holds, phantom, stale>>

(* setAbsolute reads without a lock, and hands the difference to adjust.   *)
SetAbsoluteRead(a, n) ==
  /\ Start(a)
  /\ \/ /\ rows = {} /\ delta' = [delta EXCEPT ![a] = n]
        /\ doing' = [doing EXCEPT ![a] = "adjust"]
     \/ \E r \in rows :
          IF onHand[r] = n
          THEN UNCHANGED <<doing, delta>>
          ELSE /\ delta' = [delta EXCEPT ![a] = n - onHand[r]]
               /\ doing' = [doing EXCEPT ![a] = "adjust"]
  /\ UNCHANGED <<storeOwned, stockVars, phase, seen, history>>

SetAbsoluteAdjust(a) ==
  /\ doing[a] = "adjust"
  /\ ApplyDelta(a, delta[a])
  /\ UNCHANGED <<storeOwned, rows, reserved, phase, seen, ops, holds, phantom,
                 stale>>

(* The INSERT of a caller that found no row: nothing refuses a second one. *)
CreateLevel(a) ==
  /\ doing[a] = "create"
  /\ \E r \in RowIds \ rows :
       /\ rows'   = rows \cup {r}
       /\ onHand' = [onHand EXCEPT ![r] = AtLeastZero(delta[a])]
  /\ ledger' = ledger + AtLeastZero(delta[a])
  /\ doing'  = [doing EXCEPT ![a] = "idle"]
  /\ delta'  = [delta EXCEPT ![a] = 0]
  /\ UNCHANGED <<storeOwned, reserved, phase, seen, ops, history>>

Next ==
  \/ \E o \in Orders : \/ Reserve(o)
                       \/ Refuse(o)
                       \/ PlaceUnreserved(o)
                       \/ CancelOrder(o)
                       \/ DeductRead(o)
                       \/ DeductNothing(o)
                       \/ DeductWrite(o)
                       \/ DeductRecord(o)
                       \/ ShipRelease(o)
                       \/ ShipDies(o)
  \/ \E a \in Admins : \/ \E n \in Amounts : \/ AdjustBy(a, n)
                                             \/ AdjustBy(a, -n)
                                             \/ AdjustSet(a, n)
                                             \/ SetAbsoluteRead(a, n)
                       \/ SetAbsoluteAdjust(a)
                       \/ CreateLevel(a)

Spec == Init /\ [][Next]_vars

-----------------------------------------------------------------------------
(* Properties. *)

OnlyRow == Cardinality(rows) = 1

Total(f) == MapThenSumSet(LAMBDA r : f[r], rows)
QtyOf(S) == MapThenSumSet(LAMBDA o : Qty[o], S)

(* The reserved quantity is what the orders hold, as long as nobody has    *)
(* released a quantity it never reserved: concurrent reservations, cancels *)
(* and shipments neither lose nor duplicate one.                           *)
ReservedIsHeld ==
  OnlyRow /\ ~phantom => Total(reserved) = QtyOf(holds)

(* Shipments that have left the warehouse but still hold their reservation.*)
InTransit ==
  {o \in holds : /\ seen[o] # Nothing
                 /\ phase[o] \in {"written", "deducted", "stuckShort",
                                  "stuckUnrecorded"}}

Unrecorded == {o \in Orders : phase[o] \in {"written", "stuckUnrecorded"}}

(* Stock is not promised twice: what is reserved is on hand or was just    *)
(* shipped, unless an adjustment took stock away, a shipment overwrote the *)
(* level, or a reservation was released by an order that never held it.    *)
NeverOversold ==
  OnlyRow /\ ~phantom /\ ~stale /\ ~removed
    => Total(reserved) <= Total(onHand) + QtyOf(InTransit)

(* On-hand is the sum of the recorded movements, less shipments whose      *)
(* movement is still to be written, unless a shipment overwrote a level    *)
(* another call changed after it was read.                                 *)
LedgerExplainsStock ==
  ~stale => Total(onHand) = ledger - QtyOf(Unrecorded)

(* What adjustDetailed promises, "concurrent adjustments can't lose        *)
(* updates": what has been recorded as a movement is in on-hand.           *)
NoLostUpdate ==
  Unrecorded = {} => Total(onHand) = ledger

(* A key has at most one level row. *)
UniqueLevel == Cardinality(rows) <= 1
=============================================================================
