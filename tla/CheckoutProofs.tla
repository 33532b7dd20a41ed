--------------------------- MODULE CheckoutProofs ---------------------------
(***************************************************************************)
(* For any number of attempts, keys, lines and faults: an attempt at work  *)
(* on the cart holds its claim as long as no status write overwrites a     *)
(* cart in or past checkout, and the cart is charged once if, besides,     *)
(* markAsCheckedOut never throws.                                          *)
(*                                                                         *)
(* A chain begins inside a claim and the cart never opens again under it,  *)
(* so at most one chain ever begins (Alone), and only a chain charges      *)
(* (Charged).                                                              *)
(*                                                                         *)
(* Besides, every variable keeps its type, a paid order's units stay       *)
(* reserved (Backed: an account of who holds the units of a line), and     *)
(* where nothing goes wrong that account is exact (Precise).               *)
(***************************************************************************)
EXTENDS Checkout, FiniteSetTheorems, TLAPS

Shape ==
  /\ caller \in [Attempts -> Callers]
  /\ req \in [Attempts -> Requests]
  /\ chain \in [Attempts -> Chains]
  /\ charges \in [Orders -> Nat]
  /\ overwritten \in BOOLEAN /\ markFailed \in BOOLEAN

Held ==
  \A a \in Attempts : req[a] \in Inside => cart = "checking_out" /\ token = a

Late == {"complete", "mark", "done", "dead"}

(* The request of a chain that has begun is past releasing its claim. *)
Begun == \A a \in Attempts : chain[a] # "off" => req[a] \in Late

(* A chain that has begun keeps the cart closed. *)
Chained ==
  \A a \in Attempts :
    chain[a] # "off" => cart = "checked_out" \/ (cart = "checking_out" /\ token = a)

Alone ==
  \A a, b \in Attempts :
    chain[a] # "off" /\ (chain[b] # "off" \/ req[b] \in Inside) => a = b

Charged ==
  /\ \A o \in Orders : charges[o] <= 1
  /\ \A o, p \in Orders : charges[o] > 0 /\ charges[p] > 0 => o = p
  /\ \A o \in Orders : charges[o] > 0 => \E a \in Attempts : chain[a] \in {"ok", "failed"}

Sole == Begun /\ Chained /\ Alone /\ Charged

IInv ==
  /\ Shape
  /\ ~overwritten => Held
  /\ ~overwritten /\ ~markFailed => Sole

-----------------------------------------------------------------------------
LEMMA InvInit == Init => IInv
<1> SUFFICES ASSUME Init PROVE IInv
  OBVIOUS
<1>1. Shape
  BY DEF Init, Shape, Requests, Chains
<1>2. Begun /\ Held /\ Chained /\ Alone
  BY DEF Init, Begun, Held, Chained, Alone, Inside
<1>3. Charged
  BY DEF Init, Charged
<1> QED
  BY <1>1, <1>2, <1>3 DEF IInv, Sole

(* A step that brings no attempt inside and begins no chain, and touches   *)
(* neither the cart nor the charges.                                       *)
Harmless ==
  /\ UNCHANGED <<caller, cart, token, charges, overwritten, markFailed>>
  /\ req' \in [Attempts -> Requests] /\ chain' \in [Attempts -> Chains]
  /\ \A a \in Attempts :
       /\ req'[a] \in Inside => req[a] \in Inside
       /\ req[a] \in Late => req'[a] \in Late
       /\ chain'[a] # "off" => chain[a] # "off"
       /\ chain[a] \in {"ok", "failed"} => chain'[a] \in {"ok", "failed"}

LEMMA HarmlessKeepsInv ==
  ASSUME IInv, Harmless
  PROVE  IInv'
<1>1. Shape'
  BY DEF Harmless, IInv, Shape
<1>2. ~overwritten => Held'
  BY DEF Harmless, IInv, Held
<1>3. ASSUME ~overwritten, ~markFailed PROVE Sole'
  <2>1. Begun' /\ Chained'
    BY <1>3 DEF Harmless, IInv, Sole, Begun, Chained
  <2>2. Alone'
    BY <1>3 DEF Harmless, IInv, Sole, Alone
  <2>3. Charged'
    BY <1>3 DEF Harmless, IInv, Sole, Charged
  <2> QED
    BY <2>1, <2>2, <2>3 DEF Sole
<1> QED
  BY <1>1, <1>2, <1>3 DEF IInv, Harmless

(* Most steps are harmless. *)
LEMMA HarmlessRequests ==
  ASSUME IInv, NEW a \in Attempts,
         \/ Replay(a) \/ ReadCart(a) \/ Validate(a) \/ Authorize(a) \/ CreateOrder(a)
         \/ AfterHooks(a)
  PROVE  Harmless
<1> USE DEF Harmless, IInv, Shape, At, Goto, Inside, Requests, Late, cartVars, history
<1>1. CASE Replay(a)
  BY <1>1 DEF Replay
<1>2. CASE ReadCart(a)
  BY <1>2 DEF ReadCart
<1>3. CASE Authorize(a)
  BY <1>3 DEF Authorize
<1>4. CASE CreateOrder(a)
  BY <1>4 DEF CreateOrder
<1>5. CASE AfterHooks(a)
  BY <1>5 DEF AfterHooks
<1>6. CASE Validate(a)
  BY <1>6 DEF Validate
<1> QED
  BY <1>1, <1>2, <1>3, <1>4, <1>5, <1>6

LEMMA HarmlessChains ==
  ASSUME IInv, NEW a \in Attempts,
         \/ ReserveLine(a) \/ UndoReserve(a) \/ CancelFailed(a) \/ ChainEnds(a)
         \/ Crash(a)
  PROVE  Harmless
<1> USE DEF Harmless, IInv, Shape, On, Step, Inside, Requests, Chains, Late, cartVars,
            history
<1>1. CASE ReserveLine(a)
  BY <1>1 DEF ReserveLine, OnShortage
<1>2. CASE UndoReserve(a)
  BY <1>2 DEF UndoReserve
<1>3. CASE CancelFailed(a)
  BY <1>3 DEF CancelFailed
<1>4. CASE ChainEnds(a)
  BY <1>4 DEF ChainEnds
<1>5. CASE Crash(a)
  BY <1>5 DEF Crash, Running
<1> QED
  BY <1>1, <1>2, <1>3, <1>4, <1>5

LEMMA HarmlessOthers ==
  ASSUME IInv,
         \/ \E o \in Orders : \/ StaffCancels(o) \/ CancelReleases(o)
                              \/ CancelEnds(o) \/ CrashCancel(o)
         \/ \E l \in Lines : OthersOrder(l)
         \/ Expire \/ RecoverRead \/ UNCHANGED vars
  PROVE  Harmless
<1>1. UNCHANGED <<caller, cart, token, charges, overwritten, markFailed, req, chain>>
  BY DEF StaffCancels, CancelReleases, CancelEnds, CrashCancel, OthersOrder, Expire,
         RecoverRead, vars, cartVars, callVars, history
<1> QED
  BY <1>1 DEF Harmless, IInv, Shape

-----------------------------------------------------------------------------
(* The steps that move the claim, begin a chain or charge. *)

(* The cart was active: nobody was inside and no chain had begun.          *)
LEMMA ClaimKeepsInv ==
  ASSUME IInv, NEW a \in Attempts, Claim(a)
  PROVE  IInv'
<1>1. CASE UNCHANGED <<cart, token>> /\ Goto(a, "release")
  <2>1. Harmless
    BY <1>1 DEF Claim, Harmless, IInv, Shape, At, Goto, Inside, Requests, Late, history
  <2> QED
    BY <2>1, HarmlessKeepsInv
<1>2. CASE Claimable /\ cart' = "checking_out" /\ token' = a /\ Goto(a, "validate")
  <2>1. UNCHANGED <<caller, chain, charges, overwritten, markFailed>>
        /\ req' = [req EXCEPT ![a] = "validate"]
    BY <1>2 DEF Claim, Goto, history
  <2>2. Shape'
    BY <2>1 DEF IInv, Shape, Requests
  <2>3. ASSUME ~overwritten PROVE Held'
    <3>1. \A b \in Attempts : req[b] \notin Inside
      BY <1>2, <2>3 DEF IInv, Held, Claimable
    <3> QED
      BY <1>2, <2>1, <3>1 DEF IInv, Shape, Held
  <2>4. ASSUME ~overwritten, ~markFailed PROVE Sole'
    <3>1. \A b \in Attempts : chain[b] = "off"
      BY <1>2, <2>4 DEF IInv, Sole, Chained, Claimable
    <3>2. Begun' /\ Chained' /\ Alone'
      BY <2>1, <3>1 DEF Begun, Chained, Alone
    <3>3. Charged'
      BY <2>1, <2>4 DEF IInv, Sole, Charged
    <3> QED
      BY <3>2, <3>3 DEF Sole
  <2> QED
    BY <2>1, <2>2, <2>3, <2>4 DEF IInv
<1> QED
  BY <1>1, <1>2 DEF Claim

(* The chain's attempt is inside, so no other chain has begun.             *)
LEMMA RecordUsageKeepsInv ==
  ASSUME IInv, NEW a \in Attempts, RecordUsage(a)
  PROVE  IInv'
<1>1. CASE Goto(a, "release")
  <2>1. Harmless
    BY <1>1 DEF RecordUsage, Harmless, IInv, Shape, At, Goto, Inside, Requests, Late,
                cartVars, history
  <2> QED
    BY <2>1, HarmlessKeepsInv
<1>2. CASE /\ req' = [req EXCEPT ![a] = "complete"]
           /\ chain' = [chain EXCEPT ![a] = "reserve"]
           /\ UNCHANGED caller
  <2>1. /\ UNCHANGED <<cart, token, charges, overwritten, markFailed>>
        /\ req[a] = "usage"
    BY DEF RecordUsage, At, cartVars, history
  <2>2. Shape'
    BY <1>2, <2>1 DEF IInv, Shape, Requests, Chains
  <2>3. ~overwritten => Held'
    BY <1>2, <2>1 DEF IInv, Shape, Held, Inside
  <2>4. ASSUME ~overwritten, ~markFailed PROVE Sole'
    <3>1. /\ cart = "checking_out" /\ token = a
          /\ \A b \in Attempts : req[b] \in Inside \/ chain[b] # "off" => b = a
          /\ chain[a] = "off"
      BY <2>1, <2>4 DEF IInv, Begun, Late, Sole, Held, Alone, Inside
    <3>2. Begun' /\ Chained' /\ Alone'
      BY <1>2, <2>1, <3>1 DEF IInv, Shape, Begun, Late, Chained, Alone
    <3>3. Charged'
      BY <1>2, <2>1, <2>4, <3>1 DEF IInv, Shape, Sole, Charged
    <3> QED
      BY <3>2, <3>3 DEF Sole
  <2> QED
    BY <2>1, <2>2, <2>3, <2>4 DEF IInv
<1> QED
  BY <1>1, <1>2 DEF RecordUsage

LEMMA MarkKeepsInv ==
  ASSUME IInv, NEW a \in Attempts, MarkAsCheckedOut(a)
  PROVE  IInv'
<1>1. /\ UNCHANGED <<caller, chain, charges, overwritten, markFailed>>
      /\ req[a] = "mark" /\ req' = [req EXCEPT ![a] = "done"]
      /\ cart' = "checked_out"
  BY DEF MarkAsCheckedOut, At, Goto, history
<1>2. Shape'
  BY <1>1 DEF IInv, Shape, Requests
<1>3. ASSUME ~overwritten PROVE \A b \in Attempts : req'[b] \notin Inside
  BY <1>1, <1>3 DEF IInv, Shape, Held, Inside
<1>4. ASSUME ~overwritten, ~markFailed PROVE Sole'
  <2>1. Begun' /\ Chained' /\ Alone'
    BY <1>1, <1>3, <1>4 DEF IInv, Shape, Sole, Begun, Late, Chained, Alone
  <2>2. Charged'
    BY <1>1, <1>4 DEF IInv, Sole, Charged
  <2> QED
    BY <2>1, <2>2 DEF Sole
<1> QED
  BY <1>1, <1>2, <1>3, <1>4 DEF IInv, Held

(* The claim is still held when the write that ends it throws.             *)
LEMMA MarkFailsKeepsInv ==
  ASSUME IInv, NEW a \in Attempts, MarkFails(a)
  PROVE  IInv'
<1>1. /\ UNCHANGED <<caller, chain, charges, cart, token, overwritten>>
      /\ markFailed' = TRUE /\ req' = [req EXCEPT ![a] = "release"]
  BY DEF MarkFails, At, Goto, cartVars
<1>2. Shape'
  BY <1>1 DEF IInv, Shape, Requests
<1>3. ~overwritten => Held'
  BY <1>1 DEF IInv, Shape, Held, Inside
<1> QED
  BY <1>1, <1>2, <1>3 DEF IInv

(* Whoever releases its claim has begun no chain, and nobody is inside.    *)
LEMMA ReleaseKeepsInv ==
  ASSUME IInv, NEW a \in Attempts, ReleaseCheckoutClaim(a)
  PROVE  IInv'
<1>1. /\ UNCHANGED <<caller, chain, charges, overwritten, markFailed>>
      /\ req[a] = "release" /\ req' = [req EXCEPT ![a] = "done"]
  BY DEF ReleaseCheckoutClaim, At, Goto, history
<1>2. Shape'
  BY <1>1 DEF IInv, Shape, Requests
<1>3. CASE UNCHANGED <<cart, token>>
  <2>1. Harmless
    BY <1>1, <1>2, <1>3 DEF Harmless, IInv, Shape, Inside, Late
  <2> QED
    BY <2>1, HarmlessKeepsInv
<1>4. CASE Holds(a)
  <2>1. ASSUME ~overwritten PROVE \A b \in Attempts : req'[b] \notin Inside
    BY <1>1, <1>4, <2>1 DEF IInv, Shape, Held, Holds, Inside
  <2>2. ASSUME ~overwritten, ~markFailed PROVE Sole'
    <3>1. \A b \in Attempts : chain[b] = "off"
      BY <1>1, <1>4, <2>2 DEF IInv, Sole, Begun, Late, Chained, Holds
    <3>2. Begun' /\ Chained' /\ Alone'
      BY <1>1, <3>1 DEF Begun, Chained, Alone
    <3>3. Charged'
      BY <1>1, <2>2 DEF IInv, Sole, Charged
    <3> QED
      BY <3>2, <3>3 DEF Sole
  <2> QED
    BY <1>1, <1>2, <2>1, <2>2 DEF IInv, Held
<1> QED
  BY <1>3, <1>4 DEF ReleaseCheckoutClaim

(* Only one chain has begun, and it has not ended: nothing was charged.    *)
LEMMA ChargeKeepsInv ==
  ASSUME IInv, NEW a \in Attempts, NEW end \in {"ok", "failed"},
         chain[a] = "capture", chain' = [chain EXCEPT ![a] = end],
         charges' = [charges EXCEPT ![OrderOf(a)] = @ + 1],
         UNCHANGED <<caller, req, cart, token, overwritten, markFailed>>
  PROVE  IInv'
<1>1. OrderOf(a) \in Orders
  BY DEF IInv, Shape, OrderOf, Orders, Callers
<1>2. Shape'
  BY <1>1 DEF IInv, Shape, Chains
<1>3. ~overwritten => Held'
  BY DEF IInv, Held
<1>4. ASSUME ~overwritten, ~markFailed PROVE Sole'
  <2>1. Begun' /\ Chained' /\ Alone'
    BY <1>4 DEF IInv, Shape, Sole, Begun, Chained, Alone
  <2>2. \A b \in Attempts : chain[b] \notin {"ok", "failed"}
    BY <1>4 DEF IInv, Sole, Alone
  <2>3. \A o \in Orders : charges[o] = 0
    BY <1>4, <2>2 DEF IInv, Shape, Sole, Charged
  <2>4. \A o \in Orders : charges'[o] = IF o = OrderOf(a) THEN 1 ELSE 0
    BY <1>1, <2>3 DEF IInv, Shape
  <2>5. chain'[a] = end
    BY DEF IInv, Shape
  <2>6. Charged'
    BY <2>4, <2>5 DEF Charged
  <2> QED
    BY <2>1, <2>6 DEF Sole
<1> QED
  BY <1>2, <1>3, <1>4 DEF IInv

LEMMA CaptureKeepsInv ==
  ASSUME IInv, NEW a \in Attempts, CapturePayment(a)
  PROVE  IInv'
<1>1. CASE UNCHANGED charges /\ Step(a, "undo")
  <2>1. Harmless
    BY <1>1 DEF CapturePayment, Harmless, IInv, Shape, On, Step, Chains, cartVars,
                history
  <2> QED
    BY <2>1, HarmlessKeepsInv
<1>2. CASE charges' = [charges EXCEPT ![OrderOf(a)] = @ + 1] /\ Step(a, "ok")
  BY <1>2, ChargeKeepsInv DEF CapturePayment, On, Step, cartVars, history
<1> QED
  BY <1>1, <1>2 DEF CapturePayment

LEMMA StepThrowsKeepsInv ==
  ASSUME IInv, NEW a \in Attempts, StepThrows(a)
  PROVE  IInv'
<1>1. CASE UNCHANGED charges
  <2>1. Harmless
    BY <1>1 DEF StepThrows, Harmless, IInv, Shape, On, Step, Chains, cartVars
  <2> QED
    BY <2>1, HarmlessKeepsInv
<1>2. CASE /\ chain[a] = "capture" /\ Step(a, "failed")
           /\ charges' = [charges EXCEPT ![OrderOf(a)] = @ + 1]
  BY <1>2, ChargeKeepsInv DEF StepThrows, Step, cartVars
<1> QED
  BY <1>1, <1>2 DEF StepThrows, On

(* A status write that overwrites no checkout finds nobody inside, and no  *)
(* chain begun.                                                            *)
LEMMA OverwriteKeepsInv ==
  ASSUME IInv,
         \/ \E a \in Attempts : AbandonExpired(a)
         \/ RecoverWrite
         \/ \E status \in {"abandoned", "merged"} : RetireCart(status)
  PROVE  IInv'
<1>1. /\ UNCHANGED <<caller, chain, charges, markFailed>>
      /\ \E status : Overwrite(status)
      /\ req' \in [Attempts -> Requests]
      /\ \A b \in Attempts : req'[b] \in Inside => req[b] \in Inside
  BY DEF AbandonExpired, RecoverWrite, RetireCart, callVars, At, Goto, IInv, Shape,
         Requests, Inside
<1>2. overwritten' \in BOOLEAN
  BY <1>1 DEF Overwrite, IInv, Shape
<1>3. Shape'
  BY <1>1, <1>2 DEF IInv, Shape
<1>4. ~overwritten' => ~overwritten /\ cart \notin {"checking_out", "checked_out"}
  BY <1>1 DEF Overwrite, IInv, Shape
<1>5. ~overwritten' => Held'
  BY <1>1, <1>4 DEF IInv, Held
<1>6. ASSUME ~overwritten', ~markFailed' PROVE Sole'
  <2>1. \A b \in Attempts : chain[b] = "off"
    BY <1>1, <1>4, <1>6 DEF IInv, Sole, Chained
  <2>2. Begun' /\ Chained' /\ Alone'
    BY <1>1, <2>1 DEF Begun, Chained, Alone
  <2>3. Charged'
    BY <1>1, <1>4, <1>6 DEF IInv, Sole, Charged
  <2> QED
    BY <2>2, <2>3 DEF Sole
<1> QED
  BY <1>3, <1>5, <1>6 DEF IInv

-----------------------------------------------------------------------------
LEMMA InvAlways == Spec => []IInv
<1>1. ASSUME IInv, [Next]_vars PROVE IInv'
  <2>1. CASE \/ \E a \in Attempts : \/ Replay(a) \/ ReadCart(a) \/ Validate(a)
                                    \/ Authorize(a) \/ CreateOrder(a) \/ AfterHooks(a)
             \/ \E a \in Attempts : \/ ReserveLine(a) \/ UndoReserve(a) \/ Crash(a)
                                    \/ CancelFailed(a) \/ ChainEnds(a)
             \/ \E o \in Orders : \/ StaffCancels(o) \/ CancelReleases(o)
                                  \/ CancelEnds(o) \/ CrashCancel(o)
             \/ \E l \in Lines : OthersOrder(l)
             \/ Expire \/ RecoverRead \/ UNCHANGED vars
    BY <1>1, <2>1, HarmlessRequests, HarmlessChains, HarmlessOthers, HarmlessKeepsInv
  <2>2. CASE \E a \in Attempts :
               \/ Claim(a) \/ RecordUsage(a) \/ MarkAsCheckedOut(a) \/ MarkFails(a)
               \/ ReleaseCheckoutClaim(a) \/ CapturePayment(a) \/ StepThrows(a)
    BY <1>1, <2>2, ClaimKeepsInv, RecordUsageKeepsInv, MarkKeepsInv, MarkFailsKeepsInv,
       ReleaseKeepsInv, CaptureKeepsInv, StepThrowsKeepsInv
  <2>3. CASE \/ \E a \in Attempts : AbandonExpired(a)
             \/ RecoverWrite
             \/ \E status \in {"abandoned", "merged"} : RetireCart(status)
    BY <1>1, <2>3, OverwriteKeepsInv
  <2> QED
    BY <1>1, <2>1, <2>2, <2>3 DEF Next
<1> QED
  BY InvInit, <1>1, PTL DEF Spec

(* Whoever works on the cart holds its claim, so nobody else works on it:  *)
(* no loser, retry or crash opens it, only a status write that overwrites. *)
THEOREM ClaimIsHeldAlways == Spec => []ClaimIsHeld
<1>1. IInv => ClaimIsHeld
  BY DEF IInv, Held, ClaimIsHeld
<1> QED
  BY <1>1, InvAlways, PTL

(* For any number of attempts and keys, a cart is charged at most once, so *)
(* long as neither an unguarded status write nor a failed last write opens *)
(* it again.                                                               *)
THEOREM OneChargePerCartAlways == Spec => []OneChargePerCart
<1>1. IInv => OneChargePerCart
  BY DEF IInv, Sole, Charged, OneChargePerCart
<1> QED
  BY <1>1, InvAlways, PTL
-----------------------------------------------------------------------------
(* The type invariant, and with it that stock is never reserved beyond what*)
(* is on hand: a unit is taken below that, and a release stops at zero.    *)
LEMMA OrderOfType ==
  ASSUME TypeOK, NEW a \in Attempts
  PROVE  OrderOf(a) \in Orders
BY DEF TypeOK, OrderOf, Orders, Callers

LEMMA GotoType ==
  ASSUME TypeOK, NEW a \in Attempts, NEW step \in Requests, Goto(a, step)
  PROVE  /\ req' \in [Attempts -> Requests]
         /\ UNCHANGED <<caller, chain, todo>>
BY DEF TypeOK, Goto

LEMMA StepType ==
  ASSUME TypeOK, NEW a \in Attempts, NEW step \in Chains, Step(a, step)
  PROVE  /\ chain' \in [Attempts -> Chains]
         /\ UNCHANGED <<caller, req>>
BY DEF TypeOK, Step

LEMMA StockType ==
  ASSUME TypeOK, NEW l \in Lines, Give(l) \/ (reserved[l] < OnHand /\ Take(l))
  PROVE  reserved' \in [Lines -> 0..OnHand]
BY CheckoutAssumption DEF TypeOK, Give, Take, AtLeastZero

LEMMA RequestsType ==
  ASSUME TypeOK, NEW a \in Attempts,
         \/ Replay(a) \/ ReadCart(a) \/ AbandonExpired(a) \/ Claim(a) \/ Validate(a)
         \/ Authorize(a) \/ CreateOrder(a) \/ RecordUsage(a) \/ AfterHooks(a)
         \/ MarkAsCheckedOut(a) \/ MarkFails(a) \/ ReleaseCheckoutClaim(a)
  PROVE  TypeOK'
<1> USE DEF cartVars, stockVars, history, Requests
<1>1. CASE Replay(a) \/ ReadCart(a) \/ Validate(a) \/ Authorize(a) \/ AfterHooks(a)
  BY <1>1, GotoType DEF Replay, ReadCart, Validate, Authorize, AfterHooks, TypeOK
<1>2. CASE AbandonExpired(a)
  BY <1>2, GotoType DEF AbandonExpired, Overwrite, TypeOK
<1>3. CASE Claim(a)
  BY <1>3, GotoType DEF Claim, TypeOK
<1>4. CASE CreateOrder(a)
  <2>1. OrderOf(a) \in Orders
    BY OrderOfType
  <2> QED
    BY <1>4, <2>1, GotoType DEF CreateOrder, TypeOK
<1>5. CASE RecordUsage(a)
  BY <1>5, GotoType DEF RecordUsage, Chains, TypeOK
<1>6. CASE MarkAsCheckedOut(a)
  BY <1>6, GotoType DEF MarkAsCheckedOut, TypeOK
<1>7. CASE MarkFails(a)
  BY <1>7, GotoType DEF MarkFails, TypeOK
<1>8. CASE ReleaseCheckoutClaim(a)
  BY <1>8, GotoType DEF ReleaseCheckoutClaim, TypeOK
<1> QED
  BY <1>1, <1>2, <1>3, <1>4, <1>5, <1>6, <1>7, <1>8

LEMMA ChainsType ==
  ASSUME TypeOK, NEW a \in Attempts,
         \/ ReserveLine(a) \/ CapturePayment(a) \/ UndoReserve(a) \/ CancelFailed(a)
         \/ StepThrows(a) \/ ChainEnds(a)
  PROVE  TypeOK'
<1> USE DEF cartVars, stockVars, history, Chains
<1>1. OrderOf(a) \in Orders
  BY OrderOfType
<1>2. CASE ReserveLine(a)
  <2>1. /\ chain' \in [Attempts -> Chains]
        /\ UNCHANGED <<caller, req>>
        /\ shortage' \in BOOLEAN
    BY <1>2, StepType DEF ReserveLine, OnShortage, TypeOK
  <2>2. reserved' \in [Lines -> 0..OnHand]
    BY <1>2, StockType DEF ReserveLine, TypeOK
  <2>3. todo' \in [Attempts -> SUBSET Lines]
    BY <1>2 DEF ReserveLine, TypeOK
  <2> QED
    BY <1>2, <2>1, <2>2, <2>3 DEF ReserveLine, TypeOK
<1>3. CASE CapturePayment(a)
  BY <1>1, <1>3, StepType DEF CapturePayment, ToUndo, TypeOK
<1>4. CASE UndoReserve(a)
  BY <1>4, StepType, StockType DEF UndoReserve, TypeOK
<1>5. CASE CancelFailed(a)
  BY <1>1, <1>5, StepType DEF CancelFailed, StartCancel, TypeOK
<1>6. CASE StepThrows(a)
  BY <1>1, <1>6, StepType DEF StepThrows, TypeOK
<1>7. CASE ChainEnds(a)
  BY <1>7, StepType DEF ChainEnds, TypeOK
<1> QED
  BY <1>2, <1>3, <1>4, <1>5, <1>6, <1>7

LEMMA OthersType ==
  ASSUME TypeOK,
         \/ \E o \in Orders : \/ StaffCancels(o) \/ CancelReleases(o)
                              \/ CancelEnds(o) \/ CrashCancel(o)
         \/ \E l \in Lines : OthersOrder(l)
         \/ \E a \in Attempts : Crash(a)
         \/ Expire \/ RecoverRead \/ RecoverWrite
         \/ \E status \in {"abandoned", "merged"} : RetireCart(status)
         \/ UNCHANGED vars
  PROVE  TypeOK'
<1> USE DEF cartVars, callVars, stockVars, history
<1>1. ASSUME NEW o \in Orders, StaffCancels(o) PROVE TypeOK'
  BY <1>1 DEF StaffCancels, StartCancel, TypeOK
<1>2. ASSUME NEW o \in Orders, CancelReleases(o) PROVE TypeOK'
  BY <1>2, StockType DEF CancelReleases, TypeOK
<1>3. ASSUME NEW o \in Orders, CancelEnds(o) \/ CrashCancel(o) PROVE TypeOK'
  BY <1>3 DEF CancelEnds, CrashCancel, CancelDies, TypeOK
<1>4. ASSUME NEW l \in Lines, OthersOrder(l) PROVE TypeOK'
  BY <1>4, StockType DEF OthersOrder, TypeOK
<1>5. ASSUME NEW a \in Attempts, Crash(a) PROVE TypeOK'
  <2>1. req' \in [Attempts -> Requests] /\ chain' \in [Attempts -> Chains]
    BY <1>5 DEF Crash, Requests, Chains, TypeOK
  <2>2. cancelling' \subseteq Orders /\ undoing' \in [Orders -> SUBSET Lines]
    BY <1>5 DEF Crash, CancelDies, TypeOK
  <2> QED
    BY <1>5, <2>1, <2>2 DEF Crash, TypeOK
<1>6. CASE Expire
  BY <1>6 DEF Expire, TypeOK
<1>7. CASE RecoverRead
  BY <1>7 DEF RecoverRead, TypeOK
<1>8. CASE RecoverWrite
  BY <1>8 DEF RecoverWrite, Overwrite, TypeOK
<1>9. ASSUME NEW status \in {"abandoned", "merged"}, RetireCart(status) PROVE TypeOK'
  BY <1>9 DEF RetireCart, Overwrite, TypeOK
<1>10. CASE UNCHANGED vars
  BY <1>10 DEF vars, TypeOK
<1> QED
  BY <1>1, <1>2, <1>3, <1>4, <1>5, <1>6, <1>7, <1>8, <1>9, <1>10

LEMMA InitType == Init => TypeOK
<1> SUFFICES ASSUME Init PROVE TypeOK
  OBVIOUS
<1>1. /\ caller \in [Attempts -> Callers]
      /\ order \in [Orders -> {"none", "pending", "cancelled"}]
      /\ charges \in [Orders -> Nat] /\ undoing \in [Orders -> SUBSET Lines]
  BY DEF Init
<1>2. /\ reserved \in [Lines -> 0..OnHand] /\ elsewhere \in [Lines -> Nat]
  BY CheckoutAssumption DEF Init
<1>3. /\ req \in [Attempts -> Requests] /\ chain \in [Attempts -> Chains]
      /\ todo \in [Attempts -> SUBSET Lines]
  BY DEF Init, Requests, Chains
<1> QED
  BY <1>1, <1>2, <1>3 DEF Init, TypeOK

LEMMA TypeStep ==
  ASSUME TypeOK, [Next]_vars
  PROVE  TypeOK'
BY RequestsType, ChainsType, OthersType DEF Next

(* In every behaviour every variable keeps its type, and checkout and its  *)
(* compensation never reserve more of a line than is on hand.              *)
THEOREM CheckoutTypes == Spec => []TypeOK
BY InitType, TypeStep, PTL DEF Spec

-----------------------------------------------------------------------------
(* Stock.  What is reserved of a line covers what other carts hold, the    *)
(* running chains' units (Holding) and the standing orders' (Standing);    *)
(* an order cancelled before a chain completed it may have given back one  *)
(* unit that was not its own (Overdrawn).                                  *)
InHand(a, l) ==
  \/ chain[a] = "reserve" /\ l \notin todo[a]
  \/ chain[a] = "capture"
  \/ chain[a] = "undo" /\ l \in todo[a]

Holding(l) == {a \in Attempts : InHand(a, l)}

Standing(l) == {o \in Orders : \/ order[o] = "pending" /\ charges[o] > 0
                               \/ l \in undoing[o] /\ Completed(o)}

Overdrawn(l) ==
  {o \in Orders : order[o] = "cancelled" /\ l \notin undoing[o] /\ ~Completed(o)}

Owed(l) == elsewhere[l] + Cardinality(Holding(l)) + Cardinality(Standing(l))

Covered(l) == reserved[l] + Cardinality(Overdrawn(l)) >= Owed(l)

Backed == \A l \in Lines : Covered(l)

Early == {"idle", "access", "abandon", "claim", "validate", "authorize", "create",
          "usage"}

(* A chain, and a charge, belongs to an order that exists; a cancellation  *)
(* has lines to release only while it runs.                                *)
Known ==
  /\ \A a \in Attempts : req[a] = "usage" \/ chain[a] # "off" => order[OrderOf(a)] # "none"
  /\ \A o \in Orders : charges[o] > 0 => order[o] # "none"
  /\ \A o \in Orders : undoing[o] # {} => order[o] = "cancelled" /\ o \in cancelling
  /\ \A a \in Attempts : chain[a] = "ok" => charges[OrderOf(a)] > 0
  /\ \A a \in Attempts : req[a] \in Early => chain[a] = "off"

Booked == TypeOK /\ Known

LEMMA Less ==
  ASSUME NEW T, IsFiniteSet(T), NEW x \in T, NEW S, S \subseteq T \ {x}
  PROVE  Cardinality(S) <= Cardinality(T) - 1
<1>1. IsFiniteSet(T \ {x}) /\ Cardinality(T \ {x}) = Cardinality(T) - 1
  BY FS_RemoveElement
<1> QED
  BY <1>1, FS_Subset

LEMMA More ==
  ASSUME NEW T, IsFiniteSet(T), NEW x, NEW S, S \subseteq T \cup {x}
  PROVE  Cardinality(S) <= Cardinality(T) + 1
<1>1. /\ IsFiniteSet(T \cup {x}) /\ Cardinality(T) \in Nat
      /\ Cardinality(T \cup {x}) <= Cardinality(T) + 1
  BY FS_AddElement, FS_CardinalityType
<1>2. Cardinality(S) <= Cardinality(T \cup {x}) /\ Cardinality(S) \in Nat
  BY <1>1, FS_Subset, FS_CardinalityType
<1>3. Cardinality(T \cup {x}) \in Nat
  BY <1>1, FS_CardinalityType
<1> QED
  BY <1>1, <1>2, <1>3

LEMMA FiniteOrders == IsFiniteSet(Orders)
BY CheckoutAssumption, FS_Union DEF Orders

LEMMA FiniteSets ==
  ASSUME NEW l
  PROVE  /\ IsFiniteSet(Holding(l)) /\ IsFiniteSet(Holding(l)')
         /\ IsFiniteSet(Standing(l)) /\ IsFiniteSet(Standing(l)')
         /\ IsFiniteSet(Overdrawn(l)) /\ IsFiniteSet(Overdrawn(l)')
         /\ Cardinality(Holding(l)) \in Nat /\ Cardinality(Holding(l)') \in Nat
         /\ Cardinality(Standing(l)) \in Nat /\ Cardinality(Standing(l)') \in Nat
         /\ Cardinality(Overdrawn(l)) \in Nat /\ Cardinality(Overdrawn(l)') \in Nat
<1>1. /\ Holding(l) \subseteq Attempts /\ Holding(l)' \subseteq Attempts
      /\ Standing(l) \subseteq Orders /\ Standing(l)' \subseteq Orders
      /\ Overdrawn(l) \subseteq Orders /\ Overdrawn(l)' \subseteq Orders
  BY DEF Holding, Standing, Overdrawn
<1>2. /\ IsFiniteSet(Holding(l)) /\ IsFiniteSet(Holding(l)')
      /\ IsFiniteSet(Standing(l)) /\ IsFiniteSet(Standing(l)')
      /\ IsFiniteSet(Overdrawn(l)) /\ IsFiniteSet(Overdrawn(l)')
  BY <1>1, CheckoutAssumption, FiniteOrders, FS_Subset
<1> QED
  BY <1>2, FS_CardinalityType

-----------------------------------------------------------------------------
(* A step that starts no order, chain or cancellation and charges nothing. *)
Idle ==
  /\ UNCHANGED <<caller, order, charges>>
  /\ \A a \in Attempts :
       /\ req'[a] = "usage" => req[a] = "usage"
       /\ req'[a] \in Early => req[a] \in Early /\ (chain[a] = "off" => chain'[a] = "off")
       /\ chain'[a] # "off" => chain[a] # "off" \/ req[a] = "usage"
       /\ chain'[a] = "ok" <=> chain[a] = "ok"
       /\ chain[a] \in {"await", "failed"} =>
            chain'[a] \in {"await", "failed"} \/ faults' > 0
  /\ \A o \in Orders :
       /\ undoing'[o] \subseteq undoing[o]
       /\ undoing'[o] # {} /\ o \in cancelling => o \in cancelling'

LEMMA IdleKeepsKnown ==
  ASSUME Booked, Idle
  PROVE  Known'
<1>1. \A a \in Attempts : OrderOf(a)' = OrderOf(a)
  BY DEF Idle, OrderOf
<1> QED
  BY <1>1 DEF Idle, Booked, Known

LEMMA IdleRequests ==
  ASSUME Booked, NEW a \in Attempts,
         \/ Replay(a) \/ ReadCart(a) \/ AbandonExpired(a) \/ Claim(a) \/ Validate(a)
         \/ Authorize(a) \/ RecordUsage(a) \/ AfterHooks(a)
         \/ MarkAsCheckedOut(a) \/ MarkFails(a) \/ ReleaseCheckoutClaim(a)
  PROVE  Idle
<1> USE DEF Idle, Booked, TypeOK, stockVars, At, Early
<1>1. CASE Replay(a) \/ ReadCart(a) \/ Validate(a) \/ Authorize(a)
  BY <1>1 DEF Replay, ReadCart, Validate, Authorize, Goto
<1>2. CASE AbandonExpired(a) \/ AfterHooks(a)
  BY <1>2 DEF AbandonExpired, AfterHooks, Goto
<1>3. CASE Claim(a) \/ ReleaseCheckoutClaim(a)
  BY <1>3 DEF Claim, ReleaseCheckoutClaim, Goto
<1>4. CASE MarkAsCheckedOut(a) \/ MarkFails(a)
  BY <1>4 DEF MarkAsCheckedOut, MarkFails, Goto
<1>5. CASE RecordUsage(a)
  BY <1>5 DEF RecordUsage, Goto, Known
<1> QED
  BY <1>1, <1>2, <1>3, <1>4, <1>5

LEMMA IdleChains ==
  ASSUME Booked, NEW a \in Attempts,
         \/ ReserveLine(a) \/ UndoReserve(a) \/ ChainEnds(a) \/ Crash(a)
         \/ (CapturePayment(a) \/ StepThrows(a)) /\ UNCHANGED charges
         \/ CancelFailed(a) /\ UNCHANGED <<order, undoing, cancelling>>
  PROVE  Idle
<1> USE DEF Idle, Booked, TypeOK, stockVars, On, Step, Early
<1>1. CASE ReserveLine(a)
  BY <1>1 DEF ReserveLine, OnShortage, Known
<1>2. CASE UndoReserve(a)
  BY <1>2 DEF UndoReserve, Known
<1>3. CASE ChainEnds(a)
  BY <1>3 DEF ChainEnds, Known
<1>4. CASE Crash(a)
  BY <1>4 DEF Crash, CancelDies, Running
<1>5. CASE CapturePayment(a) /\ UNCHANGED charges
  <2>1. charges[OrderOf(a)] + 1 # charges[OrderOf(a)]
    BY OrderOfType
  <2>2. chain' = [chain EXCEPT ![a] = "undo"]
    BY <1>5, <2>1, OrderOfType DEF CapturePayment
  <2> QED
    BY <1>5, <2>2 DEF CapturePayment
<1>6. CASE StepThrows(a) /\ UNCHANGED charges
  BY <1>6 DEF StepThrows
<1>7. CASE CancelFailed(a) /\ UNCHANGED <<order, undoing, cancelling>>
  BY <1>7 DEF CancelFailed
<1> QED
  BY <1>1, <1>2, <1>3, <1>4, <1>5, <1>6, <1>7

LEMMA IdleOthers ==
  ASSUME Booked,
         \/ \E o \in Orders : CancelReleases(o) \/ CancelEnds(o) \/ CrashCancel(o)
         \/ \E l \in Lines : OthersOrder(l)
         \/ Expire \/ RecoverRead \/ RecoverWrite
         \/ \E status \in {"abandoned", "merged"} : RetireCart(status)
         \/ UNCHANGED vars
  PROVE  Idle
<1> USE DEF Idle, Booked, TypeOK, stockVars, callVars
<1>1. ASSUME NEW o \in Orders, CancelReleases(o) PROVE Idle
  BY <1>1 DEF CancelReleases
<1>2. ASSUME NEW o \in Orders, CancelEnds(o) PROVE Idle
  BY <1>2 DEF CancelEnds
<1>3. ASSUME NEW o \in Orders, CrashCancel(o) PROVE Idle
  BY <1>3 DEF CrashCancel, CancelDies
<1>4. CASE \/ \E l \in Lines : OthersOrder(l)
           \/ Expire \/ RecoverRead \/ RecoverWrite
           \/ \E status \in {"abandoned", "merged"} : RetireCart(status)
           \/ UNCHANGED vars
  BY <1>4 DEF OthersOrder, Expire, RecoverRead, RecoverWrite, RetireCart, vars
<1> QED
  BY <1>1, <1>2, <1>3, <1>4

(* What the rest of the steps do: an order is created, charged, cancelled. *)
Charges(a, end) ==
  /\ chain[a] = "capture" /\ chain' = [chain EXCEPT ![a] = end]
  /\ charges' = [charges EXCEPT ![OrderOf(a)] = @ + 1]
  /\ \A b \in Attempts : b # a => todo'[b] = todo[b]
  /\ end = "failed" => faults' > 0
  /\ UNCHANGED <<caller, req, order, stockVars>>

Cancels(o) ==
  /\ StartCancel(o)
  /\ UNCHANGED <<caller, req, reserved, elsewhere, charges, todo>>
  /\ \/ UNCHANGED chain /\ (Completed(o) \/ midway')
     \/ \E a \in Attempts : /\ OrderOf(a) = o /\ chain[a] = "cancel"
                            /\ chain' = [chain EXCEPT ![a] = "await"]

LEMMA ChargesKeepsKnown ==
  ASSUME Booked, NEW a \in Attempts, NEW end \in {"ok", "failed"}, Charges(a, end)
  PROVE  Known'
<1>1. \A b \in Attempts : OrderOf(b)' = OrderOf(b) /\ OrderOf(b) \in Orders
  BY OrderOfType DEF Charges, OrderOf, Booked
<1>2. \A b \in Attempts : chain'[b] = "ok" => charges'[OrderOf(b)] > 0
  BY <1>1 DEF Charges, Booked, Known, TypeOK
<1> QED
  BY <1>1, <1>2 DEF Charges, Booked, Known, TypeOK, stockVars

LEMMA CancelsKeepsKnown ==
  ASSUME Booked, NEW o \in Orders, Cancels(o)
  PROVE  Known'
<1>1. \A b \in Attempts : OrderOf(b)' = OrderOf(b) /\ OrderOf(b) \in Orders
  BY OrderOfType DEF Cancels, OrderOf, Booked
<1>2. \A b \in Attempts : /\ chain'[b] = "ok" <=> chain[b] = "ok"
                          /\ chain'[b] # "off" <=> chain[b] # "off"
  BY DEF Cancels, Booked, TypeOK
<1> QED
  BY <1>1, <1>2 DEF Cancels, StartCancel, Booked, Known, TypeOK

LEMMA CreateKeepsKnown ==
  ASSUME Booked, NEW a \in Attempts, CreateOrder(a)
  PROVE  Known'
<1>1. \A b \in Attempts : OrderOf(b)' = OrderOf(b) /\ OrderOf(b) \in Orders
  BY OrderOfType DEF CreateOrder, Goto, OrderOf, Booked
<1> QED
  BY <1>1 DEF CreateOrder, At, Goto, Early, Booked, Known, TypeOK, stockVars

(* Every step is one of these. *)
LEMMA StepKinds ==
  ASSUME Booked, [Next]_vars
  PROVE  \/ Idle
         \/ \E a \in Attempts : CreateOrder(a)
         \/ \E a \in Attempts : \E end \in {"ok", "failed"} : Charges(a, end)
         \/ \E o \in Orders : Cancels(o)
<1>1. ASSUME NEW a \in Attempts, CapturePayment(a)
      PROVE  Idle \/ Charges(a, "ok")
  BY <1>1, IdleChains DEF CapturePayment, Charges, On, Step
<1>2. ASSUME NEW a \in Attempts, StepThrows(a)
      PROVE  Idle \/ Charges(a, "failed")
  <2>1. CASE UNCHANGED charges
    BY <1>2, <2>1, IdleChains
  <2>2. CASE charges' = [charges EXCEPT ![OrderOf(a)] = @ + 1] /\ On(a, "capture")
    BY <1>2, <2>2 DEF StepThrows, Charges, On, Step, stockVars, Booked, TypeOK
  <2> QED
    BY <1>2, <2>1, <2>2 DEF StepThrows
<1>3. ASSUME NEW a \in Attempts, CancelFailed(a)
      PROVE  Idle \/ \E o \in Orders : Cancels(o)
  <2>1. CASE StartCancel(OrderOf(a)) /\ Step(a, "await")
    <3>1. Cancels(OrderOf(a))
      BY <1>3, <2>1 DEF CancelFailed, Cancels, On, Step
    <3> QED
      BY <3>1, OrderOfType DEF Booked
  <2>2. CASE UNCHANGED <<order, undoing, cancelling>>
    BY <1>3, <2>2, IdleChains
  <2> QED
    BY <1>3, <2>1, <2>2 DEF CancelFailed
<1>4. ASSUME NEW o \in Orders, StaffCancels(o) PROVE Cancels(o)
  BY <1>4 DEF StaffCancels, Cancels, callVars
<1> QED
  BY <1>1, <1>2, <1>3, <1>4, IdleRequests, IdleChains, IdleOthers DEF Next

LEMMA BookedAlways == Spec => []Booked
<1>1. Init => Booked
  <2> SUFFICES ASSUME Init PROVE Booked
    OBVIOUS
  <2>1. TypeOK
    BY InitType
  <2>2. Known
    BY OrderOfType, <2>1 DEF Init, Known
  <2> QED
    BY <2>1, <2>2 DEF Booked
<1>2. ASSUME Booked, [Next]_vars PROVE Booked'
  <2>1. TypeOK'
    BY <1>2, TypeStep DEF Booked
  <2>2. Known'
    BY <1>2, StepKinds, IdleKeepsKnown, CreateKeepsKnown, ChargesKeepsKnown,
       CancelsKeepsKnown
  <2> QED
    BY <2>1, <2>2 DEF Booked
<1> QED
  BY <1>1, <1>2, PTL DEF Spec

-----------------------------------------------------------------------------
(* Step by step, every line stays covered. *)
Even(l) ==
  /\ reserved'[l] - elsewhere'[l] >= reserved[l] - elsewhere[l]
  /\ Holding(l)' \subseteq Holding(l)

LEMMA EvenKeepsCovered ==
  ASSUME TypeOK, TypeOK', NEW l \in Lines, Covered(l), Even(l),
         Standing(l)' \subseteq Standing(l), Overdrawn(l) \subseteq Overdrawn(l)'
  PROVE  Covered(l)'
<1>1. /\ Cardinality(Holding(l)') <= Cardinality(Holding(l))
      /\ Cardinality(Standing(l)') <= Cardinality(Standing(l))
      /\ Cardinality(Overdrawn(l)) <= Cardinality(Overdrawn(l)')
  BY FiniteSets, FS_Subset DEF Even
<1>2. /\ reserved[l] \in Int /\ reserved'[l] \in Int
      /\ elsewhere[l] \in Int /\ elsewhere'[l] \in Int
  BY CheckoutAssumption DEF TypeOK
<1> QED
  BY <1>1, <1>2, FiniteSets DEF Covered, Owed, Even

LEMMA CompletedStays ==
  ASSUME caller' = caller, \A a \in Attempts : chain'[a] = "ok" <=> chain[a] = "ok"
  PROVE  \A o \in Orders : Completed(o)' <=> Completed(o)
BY DEF Completed, OrderOf

LEMMA IdleSets ==
  ASSUME Booked, Idle, NEW l \in Lines
  PROVE  /\ Standing(l)' \subseteq Standing(l)
         /\ Overdrawn(l) \subseteq Overdrawn(l)'
<1>1. \A o \in Orders : Completed(o)' <=> Completed(o)
  BY CompletedStays DEF Idle
<1> QED
  BY <1>1 DEF Idle, Standing, Overdrawn

LEMMA EvenRequests ==
  ASSUME Booked, NEW l \in Lines, NEW a \in Attempts,
         \/ Replay(a) \/ ReadCart(a) \/ AbandonExpired(a) \/ Claim(a) \/ Validate(a)
         \/ Authorize(a) \/ CreateOrder(a) \/ RecordUsage(a) \/ AfterHooks(a)
         \/ MarkAsCheckedOut(a) \/ MarkFails(a) \/ ReleaseCheckoutClaim(a)
  PROVE  Even(l)
<1>1. UNCHANGED <<reserved, elsewhere>>
  BY DEF Replay, ReadCart, AbandonExpired, Claim, Validate, Authorize, CreateOrder,
         RecordUsage, AfterHooks, MarkAsCheckedOut, MarkFails, ReleaseCheckoutClaim,
         stockVars
<1>2. reserved[l] \in Int /\ elsewhere[l] \in Int
  BY CheckoutAssumption DEF Booked, TypeOK
<1>3. CASE UNCHANGED <<chain, todo>>
  BY <1>1, <1>2, <1>3 DEF Even, Holding, InHand
<1>4. CASE RecordUsage(a) /\ ~UNCHANGED <<chain, todo>>
  <2>1. /\ chain' = [chain EXCEPT ![a] = "reserve"]
        /\ todo' = [todo EXCEPT ![a] = Lines]
    BY <1>4 DEF RecordUsage, Goto
  <2>2. \A b \in Attempts : InHand(b, l)' => InHand(b, l)
    BY <2>1 DEF InHand, Booked, TypeOK
  <2> QED
    BY <1>1, <1>2, <2>2 DEF Even, Holding
<1> QED
  BY <1>3, <1>4 DEF Replay, ReadCart, AbandonExpired, Claim, Validate, Authorize, Goto,
         CreateOrder, AfterHooks, MarkAsCheckedOut, MarkFails, ReleaseCheckoutClaim

LEMMA EvenOthers ==
  ASSUME Booked, NEW l \in Lines,
         \/ \E a \in Attempts : ChainEnds(a) \/ Crash(a) \/ CancelFailed(a)
         \/ \E o \in Orders : StaffCancels(o) \/ CancelEnds(o) \/ CrashCancel(o)
         \/ \E k \in Lines : OthersOrder(k)
         \/ Expire \/ RecoverRead \/ RecoverWrite
         \/ \E status \in {"abandoned", "merged"} : RetireCart(status)
         \/ UNCHANGED vars
  PROVE  Even(l)
<1>1. /\ reserved[l] \in Nat /\ elsewhere[l] \in Nat
  BY CheckoutAssumption DEF Booked, TypeOK
<1>2. ASSUME UNCHANGED <<reserved, elsewhere>>,
             \A b \in Attempts : InHand(b, l)' => InHand(b, l)
      PROVE  Even(l)
  BY <1>1, <1>2 DEF Even, Holding
<1>3. ASSUME NEW a \in Attempts, ChainEnds(a) \/ Crash(a) \/ CancelFailed(a)
      PROVE  Even(l)
  <2>1. UNCHANGED <<reserved, elsewhere>>
    BY <1>3 DEF ChainEnds, Crash, CancelFailed, stockVars
  <2>2. CASE ChainEnds(a) \/ CancelFailed(a)
    <3>1. \A b \in Attempts : InHand(b, l)' => InHand(b, l)
      BY <2>2 DEF ChainEnds, CancelFailed, InHand, Booked, TypeOK, On, Step
    <3> QED
      BY <1>2, <2>1, <3>1
  <2>3. CASE Crash(a)
    <3>1. \A b \in Attempts : InHand(b, l)' => InHand(b, l)
      BY <2>3 DEF Crash, Running, InHand, Booked, TypeOK
    <3> QED
      BY <1>2, <2>1, <3>1
  <2> QED
    BY <1>3, <2>2, <2>3
<1>4. CASE \/ \E o \in Orders : StaffCancels(o) \/ CancelEnds(o) \/ CrashCancel(o)
           \/ Expire \/ RecoverRead \/ RecoverWrite
           \/ \E status \in {"abandoned", "merged"} : RetireCart(status)
           \/ UNCHANGED vars
  <2>1. UNCHANGED <<reserved, elsewhere, chain, todo>>
    BY <1>4 DEF StaffCancels, CancelEnds, CrashCancel, Expire, RecoverRead,
                RecoverWrite, RetireCart, callVars, stockVars, vars
  <2> QED
    BY <1>2, <2>1 DEF InHand
<1>5. ASSUME NEW k \in Lines, OthersOrder(k)
      PROVE  Even(l)
  <2>1. Holding(l)' = Holding(l)
    BY <1>5 DEF OthersOrder, Holding, InHand, callVars
  <2>2. reserved'[l] - elsewhere'[l] >= reserved[l] - elsewhere[l]
    BY <1>1, <1>5 DEF OthersOrder, Take, Give, AtLeastZero, Booked, TypeOK
  <2> QED
    BY <2>1, <2>2 DEF Even
<1> QED
  BY <1>3, <1>4, <1>5

(* A chain takes a unit of one line. *)
Takes(a, k) ==
  /\ chain[a] = "reserve" /\ k \in todo[a] /\ Take(k) /\ reserved[k] < OnHand
  /\ todo' = [todo EXCEPT ![a] = @ \ {k}]
  /\ UNCHANGED <<caller, chain, order, elsewhere, undoing, charges>>

(* A chain gives one back. *)
Returns(a, k) ==
  /\ chain[a] = "undo" /\ k \in todo[a] /\ Give(k)
  /\ todo' = [todo EXCEPT ![a] = @ \ {k}]
  /\ UNCHANGED <<caller, chain, order, elsewhere, undoing, charges>>

(* A cancellation gives one back. *)
Releases(o, k) ==
  /\ k \in undoing[o] /\ Give(k)
  /\ undoing' = [undoing EXCEPT ![o] = @ \ {k}]
  /\ UNCHANGED <<caller, chain, todo, order, elsewhere, charges>>

LEMMA TakesSets ==
  ASSUME Booked, NEW a \in Attempts, NEW k \in Lines, Takes(a, k), NEW l \in Lines
  PROVE  /\ Standing(l)' = Standing(l) /\ Overdrawn(l)' = Overdrawn(l)
         /\ elsewhere'[l] = elsewhere[l]
         /\ l # k => reserved'[l] = reserved[l] /\ Holding(l)' = Holding(l)
         /\ reserved'[k] = reserved[k] + 1
         /\ Holding(k)' = Holding(k) \cup {a} /\ a \notin Holding(k)
<1>1. Standing(l)' = Standing(l) /\ Overdrawn(l)' = Overdrawn(l)
  BY DEF Takes, Standing, Overdrawn, Completed, OrderOf
<1>2. \A b \in Attempts : b # a \/ l # k => (InHand(b, l)' <=> InHand(b, l))
  BY DEF Takes, InHand, Booked, TypeOK
<1>3. InHand(a, k)' /\ ~InHand(a, k)
  BY DEF Takes, InHand, Booked, TypeOK
<1>4. /\ elsewhere'[l] = elsewhere[l]
      /\ l # k => reserved'[l] = reserved[l]
      /\ reserved'[k] = reserved[k] + 1
  BY DEF Takes, Take, Booked, TypeOK
<1>5. l # k => Holding(l)' = Holding(l)
  BY <1>2 DEF Holding
<1>6. \A b \in Attempts : b # a => (InHand(b, k)' <=> InHand(b, k))
  BY DEF Takes, InHand, Booked, TypeOK
<1> QED
  BY <1>1, <1>3, <1>4, <1>5, <1>6 DEF Holding

LEMMA ReturnsSets ==
  ASSUME Booked, NEW a \in Attempts, NEW k \in Lines, Returns(a, k), NEW l \in Lines
  PROVE  /\ Standing(l)' = Standing(l) /\ Overdrawn(l)' = Overdrawn(l)
         /\ elsewhere'[l] = elsewhere[l]
         /\ l # k => reserved'[l] = reserved[l] /\ Holding(l)' = Holding(l)
         /\ reserved'[k] = AtLeastZero(reserved[k] - 1)
         /\ Holding(k)' = Holding(k) \ {a} /\ a \in Holding(k)
<1>1. Standing(l)' = Standing(l) /\ Overdrawn(l)' = Overdrawn(l)
  BY DEF Returns, Standing, Overdrawn, Completed, OrderOf
<1>2. \A b \in Attempts : b # a \/ l # k => (InHand(b, l)' <=> InHand(b, l))
  BY DEF Returns, InHand, Booked, TypeOK
<1>3. ~InHand(a, k)' /\ InHand(a, k)
  BY DEF Returns, InHand, Booked, TypeOK
<1>4. /\ elsewhere'[l] = elsewhere[l]
      /\ l # k => reserved'[l] = reserved[l]
      /\ reserved'[k] = AtLeastZero(reserved[k] - 1)
  BY DEF Returns, Give, Booked, TypeOK
<1>5. l # k => Holding(l)' = Holding(l)
  BY <1>2 DEF Holding
<1>6. \A b \in Attempts : b # a => (InHand(b, k)' <=> InHand(b, k))
  BY DEF Returns, InHand, Booked, TypeOK
<1> QED
  BY <1>1, <1>3, <1>4, <1>5, <1>6 DEF Holding

(* The order gives up its own unit if a chain had completed it, and        *)
(* otherwise overdraws the stock by one.                                   *)
LEMMA ReleasesSets ==
  ASSUME Booked, NEW o \in Orders, NEW k \in Lines, Releases(o, k), NEW l \in Lines
  PROVE  /\ Holding(l)' = Holding(l) /\ elsewhere'[l] = elsewhere[l]
         /\ l # k => /\ reserved'[l] = reserved[l]
                     /\ Standing(l)' = Standing(l) /\ Overdrawn(l)' = Overdrawn(l)
         /\ reserved'[k] = AtLeastZero(reserved[k] - 1)
         /\ \/ /\ Completed(o) /\ Overdrawn(k)' = Overdrawn(k)
               /\ Standing(k)' = Standing(k) \ {o} /\ o \in Standing(k)
            \/ /\ ~Completed(o) /\ Standing(k)' = Standing(k)
               /\ Overdrawn(k)' = Overdrawn(k) \cup {o} /\ o \notin Overdrawn(k)
<1>1. \A p \in Orders : Completed(p)' <=> Completed(p)
  BY CompletedStays DEF Releases
<1>2. Holding(l)' = Holding(l)
  BY DEF Releases, Holding, InHand
<1>3. order[o] = "cancelled"
  BY DEF Releases, Booked, Known
<1>4. /\ elsewhere'[l] = elsewhere[l]
      /\ l # k => reserved'[l] = reserved[l]
      /\ reserved'[k] = AtLeastZero(reserved[k] - 1)
  BY DEF Releases, Give, Booked, TypeOK
<1>5. /\ undoing'[o] = undoing[o] \ {k}
      /\ \A p \in Orders : p # o => undoing'[p] = undoing[p]
      /\ UNCHANGED <<order, charges>> /\ k \in undoing[o]
  BY DEF Releases, Booked, TypeOK
<1>6. l # k => Standing(l)' = Standing(l) /\ Overdrawn(l)' = Overdrawn(l)
  BY <1>1, <1>5 DEF Standing, Overdrawn
<1>7. CASE Completed(o)
  BY <1>1, <1>2, <1>3, <1>4, <1>5, <1>6, <1>7 DEF Standing, Overdrawn
<1>8. CASE ~Completed(o)
  BY <1>1, <1>2, <1>3, <1>4, <1>5, <1>6, <1>8 DEF Standing, Overdrawn
<1> QED
  BY <1>7, <1>8

(* The chain's unit becomes the order's, or covers what the order's early  *)
(* cancellation has overdrawn.                                             *)
LEMMA ChargesSets ==
  ASSUME Booked, NEW a \in Attempts, NEW end \in {"ok", "failed"}, Charges(a, end),
         NEW l \in Lines
  PROVE  /\ UNCHANGED <<reserved, elsewhere>>
         /\ a \in Holding(l) /\ Holding(l)' = Holding(l) \ {a}
         /\ \/ /\ Standing(l)' \subseteq Standing(l) \cup {OrderOf(a)}
               /\ Overdrawn(l) \subseteq Overdrawn(l)'
            \/ /\ Standing(l)' \subseteq Standing(l)
               /\ Overdrawn(l) \subseteq Overdrawn(l)' \cup {OrderOf(a)}
<1> DEFINE o == OrderOf(a)
<1>1. o \in Orders
  BY OrderOfType DEF Booked
<1>2. \A p \in Orders : /\ Completed(p)' => Completed(p) \/ p = o
                        /\ Completed(p) => Completed(p)'
  BY DEF Charges, Completed, OrderOf, Booked, TypeOK
<1>3. \A b \in Attempts : InHand(b, l)' <=> InHand(b, l) /\ b # a
  <2>1. /\ chain[a] = "capture" /\ chain'[a] = end
        /\ \A b \in Attempts : b # a => chain'[b] = chain[b] /\ todo'[b] = todo[b]
    BY DEF Charges, Booked, TypeOK
  <2> QED
    BY <2>1 DEF InHand
<1>4. UNCHANGED <<order, undoing, reserved, elsewhere>> /\ InHand(a, l)
  BY DEF Charges, stockVars, InHand
<1>5. \A p \in Orders : p # o => charges'[p] = charges[p]
  BY DEF Charges, Booked, TypeOK
<1>6. Holding(l)' = Holding(l) \ {a} /\ a \in Holding(l)
  BY <1>3, <1>4 DEF Holding
<1>7. CASE order[o] = "cancelled" /\ l \notin undoing[o]
  <2>1. Standing(l)' \subseteq Standing(l)
    BY <1>2, <1>4, <1>5, <1>7 DEF Standing
  <2>2. Overdrawn(l) \subseteq Overdrawn(l)' \cup {o}
    BY <1>2, <1>4 DEF Overdrawn
  <2> QED
    BY <1>4, <1>6, <2>1, <2>2
<1>8. CASE order[o] # "cancelled" \/ l \in undoing[o]
  <2>1. Standing(l)' \subseteq Standing(l) \cup {o}
    BY <1>2, <1>4, <1>5 DEF Standing
  <2>2. Overdrawn(l) \subseteq Overdrawn(l)'
    BY <1>2, <1>4, <1>8 DEF Overdrawn
  <2> QED
    BY <1>4, <1>6, <2>1, <2>2
<1> QED
  BY <1>7, <1>8

(* Cancelling a completed order keeps its units until they are released.   *)
LEMMA CancelsSets ==
  ASSUME Booked, NEW o \in Orders, Cancels(o), NEW l \in Lines
  PROVE  /\ Standing(l)' \subseteq Standing(l)
         /\ Overdrawn(l) \subseteq Overdrawn(l)'
         /\ Completed(o) => Standing(l)' = Standing(l)
<1>1. \A b \in Attempts : chain'[b] = "ok" <=> chain[b] = "ok"
  BY DEF Cancels, Booked, TypeOK
<1>2. \A p \in Orders : Completed(p)' <=> Completed(p)
  BY <1>1, CompletedStays DEF Cancels
<1>3. Completed(o) => charges[o] > 0
  BY DEF Completed, Booked, Known
<1>4. /\ order[o] = "pending" /\ order' = [order EXCEPT ![o] = "cancelled"]
      /\ undoing' = [undoing EXCEPT ![o] = Lines] /\ UNCHANGED charges
  BY DEF Cancels, StartCancel
<1> QED
  BY <1>2, <1>3, <1>4 DEF Standing, Overdrawn, Booked, TypeOK

LEMMA CreateSets ==
  ASSUME Booked, NEW a \in Attempts, CreateOrder(a), NEW l \in Lines
  PROVE  Standing(l)' = Standing(l) /\ Overdrawn(l)' = Overdrawn(l)
<1>1. UNCHANGED <<caller, chain, charges, undoing>>
  BY DEF CreateOrder, Goto, stockVars
<1>2. \A p \in Orders : Completed(p)' <=> Completed(p)
  BY <1>1 DEF Completed, OrderOf
<1>3. \A p \in Orders :
        order'[p] = order[p] \/ (order[p] = "none" /\ order'[p] = "pending")
  BY DEF CreateOrder, Booked, TypeOK
<1>4. \A p \in Orders : order[p] = "none" => charges[p] = 0
  BY DEF Booked, Known, TypeOK
<1> QED
  BY <1>1, <1>2, <1>3, <1>4 DEF Standing, Overdrawn

(* A step that moves stock by as much for others as it moves it at all, and*)
(* whose chains hold no more than before.                                  *)
Steady == \A l \in Lines : /\ Even(l)
                           /\ Standing(l)' \subseteq Standing(l)
                           /\ Overdrawn(l) \subseteq Overdrawn(l)'

LEMMA SteadyChains ==
  ASSUME Booked, NEW a \in Attempts,
         ReserveLine(a) \/ UndoReserve(a) \/ CapturePayment(a) \/ StepThrows(a)
  PROVE  \/ Steady
         \/ \E k \in Lines : Takes(a, k) \/ Returns(a, k)
         \/ \E end \in {"ok", "failed"} : Charges(a, end)
<1>1. \A l \in Lines : reserved[l] \in Nat /\ elsewhere[l] \in Nat
  BY CheckoutAssumption DEF Booked, TypeOK
<1>2. ASSUME Idle, UNCHANGED <<reserved, elsewhere>>,
             \A l \in Lines : \A b \in Attempts : InHand(b, l)' => InHand(b, l)
      PROVE  Steady
  BY <1>1, <1>2, IdleSets DEF Steady, Even, Holding
<1>3. CASE ReserveLine(a)
  <2>1. ASSUME NEW k \in todo[a], Take(k), reserved[k] < OnHand,
               todo' = [todo EXCEPT ![a] = @ \ {k}], UNCHANGED <<caller, req, chain>>
        PROVE  \E l \in Lines : Takes(a, l)
    BY <1>3, <2>1 DEF ReserveLine, On, Takes, Booked, TypeOK
  <2>2. ASSUME UNCHANGED <<reserved, todo>>, Step(a, OnShortage)
        PROVE  Steady
    <3>1. \A l \in Lines : \A b \in Attempts : InHand(b, l)' => InHand(b, l)
      BY <2>2 DEF Step, OnShortage, InHand, Booked, TypeOK
    <3> QED
      BY <1>2, <1>3, <2>2, <3>1, IdleChains DEF ReserveLine
  <2>3. ASSUME todo[a] = {}, UNCHANGED <<reserved, todo>>, Step(a, "capture")
        PROVE  Steady
    <3>1. \A l \in Lines : \A b \in Attempts : InHand(b, l)' => InHand(b, l)
      BY <1>3, <2>3 DEF ReserveLine, On, Step, InHand, Booked, TypeOK
    <3> QED
      BY <1>2, <1>3, <2>3, <3>1, IdleChains DEF ReserveLine
  <2> QED
    BY <1>3, <2>1, <2>2, <2>3 DEF ReserveLine
<1>4. CASE UndoReserve(a)
  <2>1. ASSUME NEW k \in todo[a], Give(k), todo' = [todo EXCEPT ![a] = @ \ {k}],
               UNCHANGED <<caller, req, chain>>
        PROVE  \E l \in Lines : Returns(a, l)
    BY <1>4, <2>1 DEF UndoReserve, On, Returns, Booked, TypeOK
  <2>2. ASSUME UNCHANGED <<reserved, todo>>, Step(a, "cancel")
        PROVE  Steady
    <3>1. \A l \in Lines : \A b \in Attempts : InHand(b, l)' => InHand(b, l)
      BY <2>2 DEF Step, InHand, Booked, TypeOK
    <3> QED
      BY <1>2, <1>4, <2>2, <3>1, IdleChains DEF UndoReserve
  <2> QED
    BY <1>4, <2>1, <2>2 DEF UndoReserve
<1>5. CASE CapturePayment(a)
  <2>1. CASE charges' = [charges EXCEPT ![OrderOf(a)] = @ + 1] /\ Step(a, "ok")
             /\ UNCHANGED todo
    BY <1>5, <2>1 DEF CapturePayment, Charges, On, Step
  <2>2. CASE todo' = [todo EXCEPT ![a] = ToUndo] /\ Step(a, "undo") /\ UNCHANGED charges
    <3>1. \A l \in Lines : \A b \in Attempts : InHand(b, l)' => InHand(b, l)
      BY <1>5, <2>2 DEF CapturePayment, On, Step, InHand, Booked, TypeOK
    <3> QED
      BY <1>2, <1>5, <2>2, <3>1, IdleChains DEF CapturePayment, stockVars
  <2> QED
    BY <1>5, <2>1, <2>2 DEF CapturePayment
<1>6. CASE StepThrows(a)
  <2>1. CASE charges' = [charges EXCEPT ![OrderOf(a)] = @ + 1] /\ On(a, "capture")
    BY <1>6, <2>1 DEF StepThrows, Charges, On, Step, stockVars, Booked, TypeOK
  <2>2. CASE UNCHANGED charges
    <3>1. \A l \in Lines : \A b \in Attempts : InHand(b, l)' => InHand(b, l)
      BY <1>6 DEF StepThrows, On, Step, InHand, Booked, TypeOK
    <3> QED
      BY <1>2, <1>6, <2>2, <3>1, IdleChains DEF StepThrows, stockVars
  <2> QED
    BY <1>6, <2>1, <2>2 DEF StepThrows
<1> QED
  BY <1>3, <1>4, <1>5, <1>6

LEMMA SteadyRequests ==
  ASSUME Booked, NEW a \in Attempts,
         \/ Replay(a) \/ ReadCart(a) \/ AbandonExpired(a) \/ Claim(a) \/ Validate(a)
         \/ Authorize(a) \/ CreateOrder(a) \/ RecordUsage(a) \/ AfterHooks(a)
         \/ MarkAsCheckedOut(a) \/ MarkFails(a) \/ ReleaseCheckoutClaim(a)
  PROVE  Steady
<1>1. \A l \in Lines : Even(l)
  BY EvenRequests
<1>2. CASE CreateOrder(a)
  BY <1>1, <1>2, CreateSets DEF Steady
<1>3. CASE ~CreateOrder(a)
  BY <1>1, <1>3, IdleRequests, IdleSets DEF Steady
<1> QED
  BY <1>2, <1>3

LEMMA SteadyOthers ==
  ASSUME Booked,
         \/ \E a \in Attempts : ChainEnds(a) \/ Crash(a) \/ CancelFailed(a)
         \/ \E o \in Orders : StaffCancels(o) \/ CancelEnds(o) \/ CrashCancel(o)
         \/ \E k \in Lines : OthersOrder(k)
         \/ Expire \/ RecoverRead \/ RecoverWrite
         \/ \E status \in {"abandoned", "merged"} : RetireCart(status)
         \/ UNCHANGED vars
  PROVE  Steady
<1>1. \A l \in Lines : Even(l)
  BY EvenOthers
<1>2. ASSUME Idle PROVE Steady
  BY <1>1, <1>2, IdleSets DEF Steady
<1>3. ASSUME NEW o \in Orders, Cancels(o) PROVE Steady
  BY <1>1, <1>3, CancelsSets DEF Steady
<1>4. ASSUME NEW a \in Attempts, CancelFailed(a) PROVE Steady
  <2>1. CASE StartCancel(OrderOf(a)) /\ Step(a, "await")
    <3>1. Cancels(OrderOf(a)) /\ OrderOf(a) \in Orders
      BY <1>4, <2>1, OrderOfType DEF CancelFailed, Cancels, On, Step, Booked
    <3> QED
      BY <1>3, <3>1
  <2>2. CASE UNCHANGED <<order, undoing, cancelling>>
    BY <1>2, <1>4, <2>2, IdleChains
  <2> QED
    BY <1>4, <2>1, <2>2 DEF CancelFailed
<1>5. ASSUME NEW o \in Orders, StaffCancels(o) PROVE Steady
  <2>1. Cancels(o)
    BY <1>5 DEF StaffCancels, Cancels, callVars
  <2> QED
    BY <1>3, <2>1
<1> QED
  BY <1>2, <1>4, <1>5, IdleChains, IdleOthers

LEMMA StockKinds ==
  ASSUME Booked, [Next]_vars
  PROVE  \/ Steady
         \/ \E a \in Attempts : \E k \in Lines : Takes(a, k) \/ Returns(a, k)
         \/ \E a \in Attempts : \E end \in {"ok", "failed"} : Charges(a, end)
         \/ \E o \in Orders : \E k \in Lines : Releases(o, k)
<1>1. ASSUME NEW o \in Orders, CancelReleases(o)
      PROVE  \E k \in Lines : Releases(o, k)
  <2>1. PICK k \in undoing[o] : Give(k) /\ undoing' = [undoing EXCEPT ![o] = @ \ {k}]
    BY <1>1 DEF CancelReleases
  <2> QED
    BY <1>1, <2>1 DEF CancelReleases, Releases, callVars, Booked, TypeOK
<1> QED
  BY <1>1, SteadyChains, SteadyRequests, SteadyOthers DEF Next

LEMMA CoveredStep ==
  ASSUME Booked, Booked', [Next]_vars, NEW l \in Lines, Covered(l)
  PROVE  Covered(l)'
<1>1. /\ reserved[l] \in Nat /\ reserved'[l] \in Nat
      /\ elsewhere[l] \in Nat /\ elsewhere'[l] \in Nat
  BY CheckoutAssumption DEF Booked, TypeOK
<1>2. ASSUME reserved'[l] = reserved[l], elsewhere'[l] = elsewhere[l],
             Holding(l)' = Holding(l), Standing(l)' = Standing(l),
             Overdrawn(l)' = Overdrawn(l)
      PROVE  Covered(l)'
  BY <1>2 DEF Covered, Owed
<1>3. CASE Steady
  BY <1>3, EvenKeepsCovered DEF Steady, Booked
<1>4. ASSUME NEW a \in Attempts, NEW k \in Lines, Takes(a, k)
      PROVE  Covered(l)'
  <2>1. CASE l = k
    <3>1. Cardinality(Holding(l)') <= Cardinality(Holding(l)) + 1
      BY <1>4, <2>1, TakesSets, FiniteSets, More
    <3> QED
      BY <1>1, <1>4, <2>1, <3>1, TakesSets, FiniteSets DEF Covered, Owed
  <2> QED
    BY <1>2, <1>4, <2>1, TakesSets
<1>5. ASSUME NEW a \in Attempts, NEW k \in Lines, Returns(a, k)
      PROVE  Covered(l)'
  <2>1. CASE l = k
    <3>1. Cardinality(Holding(l)') <= Cardinality(Holding(l)) - 1
      BY <1>5, <2>1, ReturnsSets, FiniteSets, Less
    <3> QED
      BY <1>1, <1>5, <2>1, <3>1, ReturnsSets, FiniteSets DEF Covered, Owed, AtLeastZero
  <2> QED
    BY <1>2, <1>5, <2>1, ReturnsSets
<1>6. ASSUME NEW o \in Orders, NEW k \in Lines, Releases(o, k)
      PROVE  Covered(l)'
  <2>1. CASE l # k
    BY <1>2, <1>6, <2>1, ReleasesSets
  <2>2. CASE l = k /\ Completed(o)
    <3>1. /\ Standing(l)' = Standing(l) \ {o} /\ o \in Standing(l)
          /\ Overdrawn(l)' = Overdrawn(l) /\ Holding(l)' = Holding(l)
      BY <1>6, <2>2, ReleasesSets
    <3>2. Cardinality(Standing(l)') <= Cardinality(Standing(l)) - 1
      BY <3>1, FiniteSets, Less
    <3>3. reserved'[l] >= reserved[l] - 1 /\ elsewhere'[l] = elsewhere[l]
      BY <1>1, <1>6, <2>2, ReleasesSets DEF AtLeastZero
    <3> QED
      <4> DEFINE held  == Cardinality(Holding(l))
                 over  == Cardinality(Overdrawn(l))
                 stand == Cardinality(Standing(l))
                 left  == Cardinality(Standing(l)')
      <4>1. /\ held \in Nat /\ over \in Nat /\ stand \in Nat /\ left \in Nat
            /\ left <= stand - 1
        BY <3>2, FiniteSets
      <4>2. reserved[l] + over >= elsewhere[l] + held + stand
        BY DEF Covered, Owed
      <4> HIDE DEF held, over, stand, left
      <4>3. reserved'[l] + over >= elsewhere'[l] + held + left
        BY <1>1, <3>3, <4>1, <4>2
      <4> QED
        BY <3>1, <4>3 DEF Covered, Owed, held, over, left
  <2>3. CASE l = k /\ ~Completed(o)
    <3>1. /\ Overdrawn(l)' = Overdrawn(l) \cup {o} /\ o \notin Overdrawn(l)
          /\ Standing(l)' = Standing(l) /\ Holding(l)' = Holding(l)
      BY <1>6, <2>3, ReleasesSets
    <3>2. Cardinality(Overdrawn(l)') = Cardinality(Overdrawn(l)) + 1
      BY <3>1, FiniteSets, FS_AddElement
    <3> QED
      BY <1>1, <1>6, <2>3, <3>1, <3>2, ReleasesSets, FiniteSets
         DEF Covered, Owed, AtLeastZero
  <2> QED
    BY <2>1, <2>2, <2>3
<1>7. ASSUME NEW a \in Attempts, NEW end \in {"ok", "failed"}, Charges(a, end)
      PROVE  Covered(l)'
  <2>1. Cardinality(Holding(l)') <= Cardinality(Holding(l)) - 1
    BY <1>7, ChargesSets, FiniteSets, Less
  <2>2. UNCHANGED <<reserved, elsewhere>>
    BY <1>7, ChargesSets
  <2>3. CASE /\ Standing(l)' \subseteq Standing(l) \cup {OrderOf(a)}
             /\ Overdrawn(l) \subseteq Overdrawn(l)'
    <3>1. /\ Cardinality(Standing(l)') <= Cardinality(Standing(l)) + 1
          /\ Cardinality(Overdrawn(l)) <= Cardinality(Overdrawn(l)')
      BY <2>3, FiniteSets, More, FS_Subset
    <3> QED
      BY <1>1, <2>1, <2>2, <3>1, FiniteSets DEF Covered, Owed
  <2>4. CASE /\ Standing(l)' \subseteq Standing(l)
             /\ Overdrawn(l) \subseteq Overdrawn(l)' \cup {OrderOf(a)}
    <3>1. /\ Cardinality(Standing(l)') <= Cardinality(Standing(l))
          /\ Cardinality(Overdrawn(l)) <= Cardinality(Overdrawn(l)') + 1
      BY <2>4, FiniteSets, More, FS_Subset
    <3> QED
      BY <1>1, <2>1, <2>2, <3>1, FiniteSets DEF Covered, Owed
  <2> QED
    BY <1>7, <2>3, <2>4, ChargesSets
<1> QED
  BY <1>3, <1>4, <1>5, <1>6, <1>7, StockKinds

LEMMA BackedAlways == Spec => []Backed
<1>1. Init => Backed
  <2> SUFFICES ASSUME Init, NEW l \in Lines PROVE Covered(l)
    BY DEF Backed
  <2>1. Holding(l) = {} /\ Standing(l) = {} /\ Overdrawn(l) = {}
    <3>1. \A o \in Orders : charges[o] = 0 /\ undoing[o] = {} /\ order[o] = "none"
      BY DEF Init
    <3>2. \A a \in Attempts : chain[a] = "off"
      BY DEF Init
    <3> QED
      BY <3>1, <3>2 DEF Holding, InHand, Standing, Overdrawn
  <2>2. reserved[l] = 0 /\ elsewhere[l] = 0
    BY DEF Init
  <2> QED
    BY <2>1, <2>2, FS_EmptySet DEF Covered, Owed
<1>2. ASSUME Backed, Booked, Booked', [Next]_vars PROVE Backed'
  BY <1>2, CoveredStep DEF Backed
<1> QED
  BY <1>1, <1>2, BookedAlways, PTL DEF Spec

(* For any number of attempts, keys, lines and faults: a paid order's units*)
(* stay reserved, whatever other attempts, other carts, staff or dying     *)
(* servers do, as long as no order is cancelled before a chain completed   *)
(* it.                                                                     *)
THEOREM PaidOrdersHoldStockAlways == Spec => []PaidOrdersHoldStock
<1>1. Booked /\ Backed => PaidOrdersHoldStock
  <2> SUFFICES ASSUME Booked, Backed, NoEarlyCancel, NEW l \in Lines
               PROVE  reserved[l] >= elsewhere[l] + Cardinality(Paid)
    BY DEF PaidOrdersHoldStock
  <2>1. Overdrawn(l) = {}
    BY DEF Overdrawn, NoEarlyCancel
  <2>2. Cardinality(Paid) <= Cardinality(Standing(l)) /\ Cardinality(Paid) \in Nat
    <3>1. Paid \subseteq Standing(l)
      BY DEF Paid, Standing
    <3> QED
      BY <3>1, FiniteSets, FS_Subset, FS_CardinalityType
  <2>3. reserved[l] \in Nat /\ elsewhere[l] \in Nat
    BY CheckoutAssumption DEF Booked, TypeOK
  <2> QED
    BY <2>1, <2>2, <2>3, FiniteSets, FS_EmptySet DEF Backed, Covered, Owed
<1> QED
  BY <1>1, BookedAlways, BackedAlways, PTL

-----------------------------------------------------------------------------
(* Where nothing went wrong the account is exact.                          *)
Precise == Undisturbed /\ NoEarlyCancel => \A l \in Lines : reserved[l] = Owed(l)

(* An order is cancelled once a chain completed it, or by the chain that   *)
(* failed it, and without a fault only a completed order is charged.       *)
Clean ==
  /\ markFailed => faults > 0
  /\ faults = 0 => \A o \in Orders : charges[o] > 0 => Completed(o)
  /\ Undisturbed => \A o \in Orders :
       order[o] = "cancelled" =>
         \/ Completed(o)
         \/ \E a \in Attempts : OrderOf(a) = o /\ chain[a] \in {"await", "failed"}

LEMMA CalmStays ==
  ASSUME TypeOK, [Next]_vars
  PROVE  /\ Undisturbed' => Undisturbed
         /\ faults' = 0 => faults = 0
         /\ markFailed' => markFailed \/ faults' > 0
<1> USE DEF Undisturbed, TypeOK, history
<1>1. ASSUME NEW a \in Attempts,
             \/ Replay(a) \/ ReadCart(a) \/ AbandonExpired(a) \/ Claim(a) \/ Validate(a)
             \/ Authorize(a) \/ CreateOrder(a) \/ RecordUsage(a)
      PROVE  UNCHANGED <<midway, faults, shortage, markFailed>>
             /\ (overwritten => overwritten')
  BY <1>1 DEF Replay, ReadCart, AbandonExpired, Overwrite, Claim, Validate, Authorize,
              CreateOrder, RecordUsage
<1>2. ASSUME NEW a \in Attempts,
             \/ AfterHooks(a) \/ MarkAsCheckedOut(a) \/ ReleaseCheckoutClaim(a)
             \/ CapturePayment(a) \/ UndoReserve(a) \/ CancelFailed(a) \/ ChainEnds(a)
      PROVE  UNCHANGED <<midway, faults, shortage, markFailed, overwritten>>
  BY <1>2 DEF AfterHooks, MarkAsCheckedOut, ReleaseCheckoutClaim, CapturePayment,
              UndoReserve, CancelFailed, ChainEnds
<1>3. ASSUME NEW a \in Attempts, MarkFails(a) \/ StepThrows(a) \/ Crash(a)
      PROVE  faults' > 0
  BY <1>3 DEF MarkFails, StepThrows, Crash
<1>4. ASSUME NEW a \in Attempts, ReserveLine(a)
      PROVE  UNCHANGED <<midway, faults, markFailed, overwritten>>
             /\ (shortage => shortage')
  BY <1>4 DEF ReserveLine
<1>5. ASSUME NEW o \in Orders, CrashCancel(o)
      PROVE  faults' > 0
  BY <1>5 DEF CrashCancel
<1>6. ASSUME NEW o \in Orders, StaffCancels(o) \/ CancelReleases(o) \/ CancelEnds(o)
      PROVE  UNCHANGED <<faults, shortage, markFailed, overwritten>>
             /\ (midway => midway')
  BY <1>6 DEF StaffCancels, CancelReleases, CancelEnds
<1>7. ASSUME \/ \E l \in Lines : OthersOrder(l)
             \/ Expire \/ RecoverRead \/ RecoverWrite
             \/ \E status \in {"abandoned", "merged"} : RetireCart(status)
             \/ UNCHANGED vars
      PROVE  UNCHANGED <<midway, faults, shortage, markFailed>>
             /\ (overwritten => overwritten')
  BY <1>7 DEF OthersOrder, Expire, RecoverRead, RecoverWrite, RetireCart, Overwrite, vars
<1> QED
  BY <1>1, <1>2, <1>3, <1>4, <1>5, <1>6, <1>7 DEF Next

(* The chain that charges is the only one that began. *)
LEMMA LoneCharge ==
  ASSUME Booked, IInv, Clean, Undisturbed, NEW a \in Attempts, chain[a] = "capture"
  PROVE  /\ \A b \in Attempts : chain[b] # "off" => b = a
         /\ \A o \in Orders : charges[o] = 0 /\ order[o] # "cancelled"
<1>1. Sole
  BY DEF IInv, Clean, Undisturbed
<1>2. \A b \in Attempts : chain[b] # "off" => b = a
  BY <1>1 DEF Sole, Alone
<1>3. \A o \in Orders : ~Completed(o)
  BY <1>2 DEF Completed
<1> QED
  BY <1>2, <1>3 DEF Clean, Undisturbed, Booked, TypeOK

LEMMA CleanStep ==
  ASSUME Booked, IInv, Clean, [Next]_vars
  PROVE  Clean'
<1>1. \A b \in Attempts : caller' = caller => OrderOf(b)' = OrderOf(b)
  BY DEF OrderOf
<1>2. (markFailed => faults > 0)' /\ (faults' = 0 => faults = 0)
      /\ (Undisturbed' => Undisturbed)
  <2>1. faults \in Nat /\ faults' \in Nat
    BY TypeStep DEF Booked, TypeOK
  <2> QED
    BY <2>1, CalmStays DEF Booked, Clean
<1>3. CASE Idle \/ \E a \in Attempts : CreateOrder(a)
  <2>1. \A o \in Orders : Completed(o)' <=> Completed(o)
    BY <1>3, CompletedStays DEF Idle, CreateOrder, Goto
  <2>2. \A o \in Orders :
          charges'[o] = charges[o] /\ (order'[o] = "cancelled" => order[o] = "cancelled")
    BY <1>3 DEF Idle, CreateOrder, stockVars, Booked, TypeOK
  <2>3. /\ UNCHANGED caller
        /\ Undisturbed' => \A a \in Attempts :
             chain[a] \in {"await", "failed"} => chain'[a] \in {"await", "failed"}
    BY <1>3 DEF Idle, CreateOrder, Goto, Undisturbed
  <2> QED
    BY <1>1, <1>2, <2>1, <2>2, <2>3 DEF Clean
<1>4. ASSUME NEW a \in Attempts, NEW end \in {"ok", "failed"}, Charges(a, end)
      PROVE  Clean'
  <2>1. \A b \in Attempts : OrderOf(b) \in Orders
    BY OrderOfType DEF Booked
  <2>2. /\ UNCHANGED <<caller, order>> /\ chain[a] = "capture" /\ chain'[a] = end
        /\ \A b \in Attempts : b # a => chain'[b] = chain[b]
        /\ \A o \in Orders : o # OrderOf(a) => charges'[o] = charges[o]
        /\ end = "failed" => faults' > 0
    BY <2>1, <1>4 DEF Charges, Booked, TypeOK
  <2>3. \A o \in Orders : Completed(o) => Completed(o)'
    BY <1>1, <2>2 DEF Completed
  <2>4. faults' = 0 => \A o \in Orders : o = OrderOf(a) => Completed(o)'
    BY <1>1, <2>2 DEF Completed
  <2>5. faults' = 0 => \A o \in Orders : charges'[o] > 0 => Completed(o)'
    <3> SUFFICES ASSUME faults' = 0, NEW o \in Orders, charges'[o] > 0
                 PROVE  Completed(o)'
      OBVIOUS
    <3>1. CASE o = OrderOf(a)
      BY <2>4, <3>1
    <3>2. CASE o # OrderOf(a)
      <4>1. Completed(o)
        BY <1>2, <2>2, <3>2 DEF Clean
      <4> QED
        BY <2>3, <4>1
    <3> QED
      BY <3>1, <3>2
  <2>6. Undisturbed' => \A o \in Orders : order'[o] # "cancelled"
    BY <1>2, <2>2, LoneCharge
  <2> QED
    BY <1>2, <2>5, <2>6 DEF Clean
<1>5. ASSUME NEW o \in Orders, Cancels(o)
      PROVE  Clean'
  <2>1. /\ UNCHANGED <<caller, charges>>
        /\ \A p \in Orders : p # o => order'[p] = order[p]
    BY <1>5 DEF Cancels, StartCancel, Booked, TypeOK
  <2>2. \A b \in Attempts : /\ chain'[b] = "ok" <=> chain[b] = "ok"
                            /\ chain[b] \in {"await", "failed"} => chain'[b] = chain[b]
    BY <1>5 DEF Cancels, Booked, TypeOK
  <2>3. \A p \in Orders : Completed(p)' <=> Completed(p)
    BY <2>1, <2>2, CompletedStays
  <2>4. Undisturbed' => \/ Completed(o)
                        \/ \E a \in Attempts : OrderOf(a) = o /\ chain'[a] = "await"
    BY <1>5 DEF Cancels, Undisturbed, Booked, TypeOK
  <2> QED
    BY <1>1, <1>2, <2>1, <2>2, <2>3, <2>4 DEF Clean
<1> QED
  BY <1>3, <1>4, <1>5, StepKinds

-----------------------------------------------------------------------------
(* A step that moves a line for others only. *)
Level(l) ==
  /\ reserved'[l] - elsewhere'[l] = reserved[l] - elsewhere[l]
  /\ Holding(l)' = Holding(l)
  /\ Standing(l)' = Standing(l)

LEMMA LevelIdle ==
  ASSUME Booked, Idle, UNCHANGED <<undoing, reserved, elsewhere>>, NEW l \in Lines,
         \A b \in Attempts : InHand(b, l)' <=> InHand(b, l)
  PROVE  Level(l)
<1>1. \A o \in Orders : Completed(o)' <=> Completed(o)
  BY CompletedStays DEF Idle
<1>2. reserved[l] \in Int /\ elsewhere[l] \in Int
  BY CheckoutAssumption DEF Booked, TypeOK
<1> QED
  BY <1>1, <1>2 DEF Idle, Level, Holding, Standing

LEMMA LevelRequests ==
  ASSUME Booked, NEW l \in Lines, NEW a \in Attempts,
         \/ Replay(a) \/ ReadCart(a) \/ AbandonExpired(a) \/ Claim(a) \/ Validate(a)
         \/ Authorize(a) \/ CreateOrder(a) \/ RecordUsage(a) \/ AfterHooks(a)
         \/ MarkAsCheckedOut(a) \/ MarkFails(a) \/ ReleaseCheckoutClaim(a)
  PROVE  Level(l)
<1>1. UNCHANGED <<reserved, elsewhere, undoing>>
  BY DEF Replay, ReadCart, AbandonExpired, Claim, Validate, Authorize, CreateOrder,
         RecordUsage, AfterHooks, MarkAsCheckedOut, MarkFails, ReleaseCheckoutClaim,
         stockVars
<1>2. CASE CreateOrder(a)
  <2>1. reserved[l] \in Int /\ elsewhere[l] \in Int
    BY CheckoutAssumption DEF Booked, TypeOK
  <2>2. Holding(l)' = Holding(l)
    BY <1>2 DEF CreateOrder, Goto, Holding, InHand
  <2> QED
    BY <1>1, <1>2, <2>1, <2>2, CreateSets DEF Level
<1>3. CASE UNCHANGED <<chain, todo>> /\ ~CreateOrder(a)
  <2>1. Idle
    BY <1>3, IdleRequests
  <2> QED
    BY <1>1, <1>3, <2>1, LevelIdle DEF InHand
<1>4. CASE RecordUsage(a) /\ ~UNCHANGED <<chain, todo>>
  <2>1. /\ chain[a] = "off" /\ chain' = [chain EXCEPT ![a] = "reserve"]
        /\ todo' = [todo EXCEPT ![a] = Lines]
    BY <1>4 DEF RecordUsage, At, Goto, Booked, Known, Early
  <2>2. \A b \in Attempts : InHand(b, l)' <=> InHand(b, l)
    BY <2>1 DEF InHand, Booked, TypeOK
  <2> QED
    BY <1>1, <1>4, <2>2, IdleRequests, LevelIdle
<1> QED
  BY <1>2, <1>3, <1>4 DEF Replay, ReadCart, AbandonExpired, Claim, Validate, Authorize,
         Goto, AfterHooks, MarkAsCheckedOut, MarkFails, ReleaseCheckoutClaim

LEMMA LevelCancels ==
  ASSUME Booked, NEW l \in Lines, NEW o \in Orders, Cancels(o), Completed(o)
  PROVE  Level(l)
<1>1. \A b \in Attempts : InHand(b, l)' <=> InHand(b, l)
  BY DEF Cancels, InHand, Booked, TypeOK
<1>2. reserved[l] \in Int /\ elsewhere[l] \in Int
  BY CheckoutAssumption DEF Booked, TypeOK
<1>3. UNCHANGED <<reserved, elsewhere>>
  BY DEF Cancels
<1> QED
  BY <1>1, <1>2, <1>3, CancelsSets DEF Level, Holding

LEMMA LevelOthers ==
  ASSUME Booked, NEW l \in Lines, reserved[l] >= elsewhere[l],
         \/ \E o \in Orders : CancelEnds(o)
         \/ \E k \in Lines : OthersOrder(k)
         \/ Expire \/ RecoverRead \/ RecoverWrite
         \/ \E status \in {"abandoned", "merged"} : RetireCart(status)
         \/ UNCHANGED vars
  PROVE  Level(l)
<1>1. reserved[l] \in Nat /\ elsewhere[l] \in Nat
  BY CheckoutAssumption DEF Booked, TypeOK
<1>2. UNCHANGED <<caller, chain, todo, order, charges, undoing>>
  BY DEF CancelEnds, OthersOrder, Expire, RecoverRead, RecoverWrite, RetireCart, callVars,
         stockVars, vars
<1>3. Holding(l)' = Holding(l) /\ Standing(l)' = Standing(l)
  BY <1>2 DEF Holding, InHand, Standing, Completed, OrderOf
<1>4. CASE UNCHANGED <<reserved, elsewhere>>
  BY <1>1, <1>3, <1>4 DEF Level
<1>5. ASSUME NEW k \in Lines, OthersOrder(k) PROVE Level(l)
  <2>1. reserved'[l] - elsewhere'[l] = reserved[l] - elsewhere[l]
    BY <1>1, <1>5 DEF OthersOrder, Take, Give, AtLeastZero, Booked, TypeOK
  <2> QED
    BY <1>3, <2>1 DEF Level
<1> QED
  BY <1>4, <1>5 DEF CancelEnds, Expire, RecoverRead, RecoverWrite, RetireCart,
         stockVars, vars

(* Without a fault and a shortage a chain's other steps change no account. *)
LEMMA LevelChains ==
  ASSUME Booked, TypeOK', Undisturbed', NEW l \in Lines, NEW a \in Attempts,
         \/ ReserveLine(a) \/ UndoReserve(a) \/ CapturePayment(a) \/ ChainEnds(a)
         \/ CancelFailed(a) /\ UNCHANGED <<order, undoing, cancelling>>
  PROVE  \/ Level(l)
         \/ \E k \in Lines : Takes(a, k) \/ Returns(a, k)
         \/ Charges(a, "ok")
<1>1. CASE ReserveLine(a)
  <2>1. ASSUME NEW k \in todo[a], Take(k), reserved[k] < OnHand,
               todo' = [todo EXCEPT ![a] = @ \ {k}], UNCHANGED <<caller, req, chain>>
        PROVE  \E j \in Lines : Takes(a, j)
    BY <1>1, <2>1 DEF ReserveLine, On, Takes, Booked, TypeOK
  <2>2. ASSUME todo[a] = {}, UNCHANGED <<reserved, todo>>, Step(a, "capture")
        PROVE  Level(l)
    <3>1. \A b \in Attempts : InHand(b, l)' <=> InHand(b, l)
      BY <1>1, <2>2 DEF ReserveLine, On, Step, InHand, Booked, TypeOK
    <3> QED
      BY <1>1, <2>2, <3>1, IdleChains, LevelIdle DEF ReserveLine
  <2> QED
    BY <1>1, <2>1, <2>2 DEF ReserveLine, Undisturbed
<1>2. CASE UndoReserve(a)
  <2>1. ASSUME NEW k \in todo[a], Give(k), todo' = [todo EXCEPT ![a] = @ \ {k}],
               UNCHANGED <<caller, req, chain>>
        PROVE  \E j \in Lines : Returns(a, j)
    BY <1>2, <2>1 DEF UndoReserve, On, Returns, Booked, TypeOK
  <2>2. ASSUME todo[a] = {}, UNCHANGED <<reserved, todo>>, Step(a, "cancel")
        PROVE  Level(l)
    <3>1. \A b \in Attempts : InHand(b, l)' <=> InHand(b, l)
      BY <1>2, <2>2 DEF UndoReserve, On, Step, InHand, Booked, TypeOK
    <3> QED
      BY <1>2, <2>2, <3>1, IdleChains, LevelIdle DEF UndoReserve
  <2> QED
    BY <1>2, <2>1, <2>2 DEF UndoReserve
<1>3. CASE CapturePayment(a)
  <2>1. CASE charges' = [charges EXCEPT ![OrderOf(a)] = @ + 1] /\ Step(a, "ok")
             /\ UNCHANGED todo
    BY <1>3, <2>1 DEF CapturePayment, Charges, On, Step
  <2>2. CASE todo' = [todo EXCEPT ![a] = ToUndo] /\ Step(a, "undo") /\ UNCHANGED charges
    <3>1. \A b \in Attempts : InHand(b, l)' <=> InHand(b, l)
      BY <1>3, <2>2 DEF CapturePayment, ToUndo, On, Step, InHand, Booked, TypeOK
    <3> QED
      BY <1>3, <2>2, <3>1, IdleChains, LevelIdle DEF CapturePayment, stockVars
  <2> QED
    BY <1>3, <2>1, <2>2 DEF CapturePayment
<1>4. CASE ChainEnds(a)
  <2>1. \A b \in Attempts : InHand(b, l)' <=> InHand(b, l)
    BY <1>4 DEF ChainEnds, On, Step, InHand, Booked, TypeOK
  <2> QED
    BY <1>4, <2>1, IdleChains, LevelIdle DEF ChainEnds, stockVars
<1>5. CASE CancelFailed(a) /\ UNCHANGED <<order, undoing, cancelling>>
  <2>1. \A b \in Attempts : InHand(b, l)' <=> InHand(b, l)
    BY <1>5 DEF CancelFailed, On, Step, InHand, Booked, TypeOK
  <2> QED
    BY <1>5, <2>1, IdleChains, LevelIdle DEF CancelFailed
<1> QED
  BY <1>1, <1>2, <1>3, <1>4, <1>5

-----------------------------------------------------------------------------
(* Every step keeps the account exact. *)
LEMMA ExactKinds ==
  ASSUME Booked, Booked', IInv, Clean, [Next]_vars, Undisturbed', NoEarlyCancel',
         NEW l \in Lines, reserved[l] >= elsewhere[l]
  PROVE  \/ Level(l)
         \/ \E a \in Attempts : \E k \in Lines : Takes(a, k) \/ Returns(a, k)
         \/ \E a \in Attempts : Charges(a, "ok")
         \/ \E o \in Orders : \E k \in Lines : Releases(o, k)
<1>1. faults' = 0 /\ ~midway'
  BY DEF Undisturbed
<1>2. ASSUME NEW o \in Orders, Cancels(o) PROVE Level(l)
  <2>1. \A p \in Orders : Completed(p)' <=> Completed(p)
    <3>1. \A b \in Attempts : chain'[b] = "ok" <=> chain[b] = "ok"
      BY <1>2 DEF Cancels, Booked, TypeOK
    <3> QED
      BY <1>2, <3>1, CompletedStays DEF Cancels
  <2>2. order'[o] = "cancelled"
    BY <1>2 DEF Cancels, StartCancel, Booked, TypeOK
  <2>3. Completed(o)
    BY <2>1, <2>2 DEF NoEarlyCancel
  <2> QED
    BY <1>2, <2>3, LevelCancels
<1>3. ASSUME NEW o \in Orders, StaffCancels(o) PROVE Level(l)
  <2>1. Completed(o) \/ midway'
    BY <1>3 DEF StaffCancels
  <2>2. Cancels(o)
    BY <1>3, <2>1 DEF StaffCancels, Cancels, callVars
  <2> QED
    BY <1>2, <2>2
<1>4. ASSUME NEW a \in Attempts, CancelFailed(a)
      PROVE  Level(l) \/ (CancelFailed(a) /\ UNCHANGED <<order, undoing, cancelling>>)
  <2>1. CASE StartCancel(OrderOf(a)) /\ Step(a, "await")
    <3>1. Cancels(OrderOf(a)) /\ OrderOf(a) \in Orders
      BY <1>4, <2>1, OrderOfType DEF CancelFailed, Cancels, On, Step, Booked
    <3> QED
      BY <1>2, <3>1
  <2> QED
    BY <1>4, <2>1 DEF CancelFailed
<1>5. ASSUME NEW o \in Orders, CancelReleases(o)
      PROVE  \E k \in Lines : Releases(o, k)
  <2>1. PICK k \in undoing[o] : Give(k) /\ undoing' = [undoing EXCEPT ![o] = @ \ {k}]
    BY <1>5 DEF CancelReleases
  <2> QED
    BY <1>5, <2>1 DEF CancelReleases, Releases, callVars, Booked, TypeOK
<1>6. \A a \in Attempts : ~StepThrows(a) /\ ~Crash(a)
  BY <1>1 DEF StepThrows, Crash, Booked, TypeOK
<1>7. \A o \in Orders : ~CrashCancel(o)
  BY <1>1 DEF CrashCancel, Booked, TypeOK
<1>8. TypeOK'
  BY DEF Booked
<1>9. ASSUME NEW a \in Attempts, ReserveLine(a) \/ UndoReserve(a) \/ CapturePayment(a)
                                 \/ ChainEnds(a) \/ CancelFailed(a)
      PROVE  \/ Level(l)
             \/ \E k \in Lines : Takes(a, k) \/ Returns(a, k)
             \/ Charges(a, "ok")
  BY <1>4, <1>8, <1>9, LevelChains
<1> QED
  BY <1>3, <1>5, <1>6, <1>7, <1>9, LevelRequests, LevelOthers DEF Next

LEMMA NoEarlyCancelBefore ==
  ASSUME Booked, IInv, Clean, [Next]_vars, Undisturbed', NoEarlyCancel'
  PROVE  NoEarlyCancel
<1>1. Undisturbed
  BY CalmStays DEF Booked
<1>2. ASSUME NEW a \in Attempts, NEW end \in {"ok", "failed"}, Charges(a, end)
      PROVE  NoEarlyCancel
  <2>1. chain[a] = "capture"
    BY <1>2 DEF Charges
  <2> QED
    BY <1>1, <2>1, LoneCharge DEF NoEarlyCancel
<1>3. CASE Idle \/ (\E a \in Attempts : CreateOrder(a)) \/ \E o \in Orders : Cancels(o)
  <2>1. caller' = caller /\ \A b \in Attempts : chain'[b] = "ok" <=> chain[b] = "ok"
    BY <1>3 DEF Idle, CreateOrder, Goto, Cancels, Booked, TypeOK
  <2>2. \A o \in Orders : Completed(o)' <=> Completed(o)
    BY <2>1, CompletedStays
  <2>3. \A o \in Orders : order[o] = "cancelled" => order'[o] = "cancelled"
    BY <1>3 DEF Idle, CreateOrder, Cancels, StartCancel, Booked, TypeOK
  <2> QED
    BY <2>2, <2>3 DEF NoEarlyCancel
<1> QED
  BY <1>2, <1>3, StepKinds

LEMMA PreciseStep ==
  ASSUME Booked, Booked', IInv, Clean, Precise, [Next]_vars
  PROVE  Precise'
<1> SUFFICES ASSUME Undisturbed', NoEarlyCancel', NEW l \in Lines
             PROVE  reserved'[l] = Owed(l)'
  BY DEF Precise
<1>1. Undisturbed /\ NoEarlyCancel
  BY CalmStays, NoEarlyCancelBefore DEF Booked
<1>2. \A k \in Lines : reserved[k] = Owed(k)
  BY <1>1 DEF Precise
<1>3. \A k \in Lines : /\ reserved[k] \in Nat /\ reserved'[k] \in Nat
                       /\ elsewhere[k] \in Nat /\ elsewhere'[k] \in Nat
  BY CheckoutAssumption DEF Booked, TypeOK
<1>4. reserved[l] >= elsewhere[l]
  BY <1>2, <1>3, FiniteSets DEF Owed
<1>5. CASE Level(l)
  BY <1>2, <1>3, <1>5, FiniteSets DEF Level, Owed
<1>6. ASSUME reserved'[l] = reserved[l], elsewhere'[l] = elsewhere[l],
             Holding(l)' = Holding(l), Standing(l)' = Standing(l)
      PROVE  reserved'[l] = Owed(l)'
  BY <1>2, <1>6 DEF Owed
<1>7. ASSUME NEW a \in Attempts, NEW k \in Lines, Takes(a, k)
      PROVE  reserved'[l] = Owed(l)'
  <2>1. CASE l = k
    <3>1. Cardinality(Holding(l)') = Cardinality(Holding(l)) + 1
      BY <1>7, <2>1, TakesSets, FiniteSets, FS_AddElement
    <3> QED
      BY <1>2, <1>3, <1>7, <2>1, <3>1, TakesSets, FiniteSets DEF Owed
  <2> QED
    BY <1>6, <1>7, <2>1, TakesSets
<1>8. ASSUME NEW a \in Attempts, NEW k \in Lines, Returns(a, k)
      PROVE  reserved'[l] = Owed(l)'
  <2>1. CASE l = k
    <3>1. Cardinality(Holding(l)') = Cardinality(Holding(l)) - 1
      BY <1>8, <2>1, ReturnsSets, FiniteSets, FS_RemoveElement
    <3> QED
      BY <1>2, <1>3, <1>8, <2>1, <3>1, ReturnsSets, FiniteSets DEF Owed, AtLeastZero
  <2> QED
    BY <1>6, <1>8, <2>1, ReturnsSets
<1>9. ASSUME NEW o \in Orders, NEW k \in Lines, Releases(o, k)
      PROVE  reserved'[l] = Owed(l)'
  <2>1. Completed(o)
    <3>1. order[o] = "cancelled"
      BY <1>9 DEF Releases, Booked, Known
    <3> QED
      BY <1>1, <3>1 DEF NoEarlyCancel
  <2>2. CASE l = k
    <3>1. /\ Standing(l)' = Standing(l) \ {o} /\ o \in Standing(l)
          /\ Holding(l)' = Holding(l) /\ elsewhere'[l] = elsewhere[l]
          /\ reserved'[l] = AtLeastZero(reserved[l] - 1)
      BY <1>9, <2>1, <2>2, ReleasesSets
    <3>2. Cardinality(Standing(l)') = Cardinality(Standing(l)) - 1
      BY <3>1, FiniteSets, FS_RemoveElement
    <3> QED
      <4> DEFINE held  == Cardinality(Holding(l))
                 stand == Cardinality(Standing(l))
                 left  == Cardinality(Standing(l)')
      <4>1. held \in Nat /\ stand \in Nat /\ left \in Nat /\ left = stand - 1
        BY <3>2, FiniteSets
      <4>2. reserved[l] = elsewhere[l] + held + stand
        BY <1>2 DEF Owed
      <4> HIDE DEF held, stand, left
      <4>3. reserved'[l] = elsewhere'[l] + held + left
        BY <1>3, <3>1, <4>1, <4>2 DEF AtLeastZero
      <4> QED
        BY <3>1, <4>3 DEF Owed, held, left
  <2> QED
    BY <1>6, <1>9, <2>2, ReleasesSets
<1>10. ASSUME NEW a \in Attempts, Charges(a, "ok")
       PROVE  reserved'[l] = Owed(l)'
  <2> DEFINE o == OrderOf(a)
  <2>1. /\ o \in Orders /\ chain[a] = "capture" /\ order[o] = "pending"
        /\ \A p \in Orders : charges[p] = 0 /\ undoing[p] = {}
    <3>1. chain[a] = "capture"
      BY <1>10 DEF Charges
    <3> QED
      BY <1>1, <3>1, LoneCharge, OrderOfType DEF Booked, Known, TypeOK
  <2>2. Standing(l) = {}
    BY <2>1 DEF Standing
  <2>3. Standing(l)' = {o}
    <3>1. UNCHANGED <<order, undoing>>
          /\ \A p \in Orders : charges'[p] = IF p = o THEN 1 ELSE 0
      BY <1>10, <2>1 DEF Charges, stockVars, Booked, TypeOK
    <3> QED
      BY <2>1, <3>1 DEF Standing
  <2>4. Cardinality(Standing(l)) = 0 /\ Cardinality(Standing(l)') = 1
    BY <2>2, <2>3, FS_EmptySet, FS_Singleton
  <2>5. Cardinality(Holding(l)') = Cardinality(Holding(l)) - 1
    BY <1>10, ChargesSets, FiniteSets, FS_RemoveElement
  <2>6. UNCHANGED <<reserved, elsewhere>>
    BY <1>10, ChargesSets
  <2> QED
    BY <1>2, <1>3, <2>4, <2>5, <2>6, FiniteSets DEF Owed
<1> QED
  BY <1>4, <1>5, <1>7, <1>8, <1>9, <1>10, ExactKinds

LEMMA PreciseAlways == Spec => [](Clean /\ Precise)
<1>1. Init => Clean /\ Precise
  <2> SUFFICES ASSUME Init PROVE Clean /\ Precise
    OBVIOUS
  <2>1. Clean
    BY DEF Init, Clean
  <2>2. ASSUME NEW l \in Lines PROVE reserved[l] = Owed(l)
    <3>1. \A o \in Orders : charges[o] = 0 /\ undoing[o] = {}
      BY DEF Init
    <3>2. \A a \in Attempts : chain[a] = "off"
      BY DEF Init
    <3>3. Holding(l) = {} /\ Standing(l) = {}
      BY <3>1, <3>2 DEF Holding, InHand, Standing
    <3> QED
      BY <3>3, FS_EmptySet DEF Init, Owed
  <2> QED
    BY <2>1, <2>2 DEF Precise
<1>2. ASSUME Booked, Booked', IInv, Clean, Precise, [Next]_vars
      PROVE  (Clean /\ Precise)'
  BY <1>2, CleanStep, PreciseStep
<1> QED
  BY <1>1, <1>2, BookedAlways, InvAlways, PTL DEF Spec

(* For any number of attempts, keys and lines: once every chain and every  *)
(* cancellation has ended, a failed capture's units and a cancelled order's*)
(* are given back exactly once, and only the orders that stand hold stock, *)
(* provided nothing threw, died or ran short half-way and no order was     *)
(* cancelled under a chain at work.                                        *)
THEOREM FailedCapturesHoldNothingAlways == Spec => []FailedCapturesHoldNothing
<1>1. Booked /\ Clean /\ Precise => FailedCapturesHoldNothing
  <2> SUFFICES ASSUME Booked, Clean, Precise, NoEarlyCancel, Undisturbed, Quiet,
                      NEW l \in Lines
               PROVE  reserved[l] = elsewhere[l] + Cardinality(Placed)
    BY DEF FailedCapturesHoldNothing
  <2>1. Holding(l) = {}
    BY DEF Quiet, Running, Holding, InHand
  <2>2. Standing(l) = Placed
    <3>1. \A o \in Orders : undoing[o] = {}
      BY DEF Quiet, Booked, Known
    <3>2. \A o \in Orders : charges[o] > 0 <=> Completed(o)
      BY DEF Completed, Clean, Undisturbed, Booked, Known
    <3> QED
      BY <3>1, <3>2 DEF Standing, Placed
  <2>3. reserved[l] = elsewhere[l] + 0 + Cardinality(Standing(l))
    BY <2>1, FS_EmptySet DEF Precise, Owed
  <2> QED
    BY <2>2, <2>3, CheckoutAssumption, FiniteSets DEF Booked, TypeOK
<1> QED
  BY <1>1, BookedAlways, PreciseAlways, PTL
=============================================================================
