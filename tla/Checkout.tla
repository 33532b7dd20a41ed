------------------------------ MODULE Checkout ------------------------------
(***************************************************************************)
(* POST /api/checkout over one cart: several attempts, each a request that *)
(* claims the cart, authorizes a payment, creates an order and runs the    *)
(* completion chain (reserve, capture) as an after-hook; beside them the   *)
(* services that write the cart's status, staff who cancel orders, faults. *)
(*                                                                         *)
(* Every statement and gateway request of an attempt is an action: the     *)
(* claim commits by itself, although the route opens a transaction around  *)
(* it, because the repository does not find the handle it is given.  A     *)
(* line is one unit.                                                       *)
(***************************************************************************)
EXTENDS Integers, FiniteSets

CONSTANTS
  Attempts,      \* checkout requests
  Keys,          \* idempotency keys
  NoKey,         \* a request without one
  Lines,         \* what the cart holds
  OnHand,        \* units on hand of each line's item
  MaxOutside,    \* bound: times the cart expires or is retired
  MaxFaults,     \* bound: servers that die, statements and requests that throw
  NoToken        \* checkoutClaimToken is NULL

ASSUME CheckoutAssumption ==
  /\ IsFiniteSet(Attempts) /\ IsFiniteSet(Keys)
  /\ Keys \cap Attempts = {} /\ NoKey \notin Keys
  /\ OnHand \in Nat
  /\ MaxOutside \in Nat /\ MaxFaults \in Nat
  /\ NoToken \notin Attempts

VARIABLES
  caller,       \* by attempt: its idempotency key, and may its actor update orders
  cart,         \* carts.status
  token,        \* carts.checkoutClaimToken
  expired,      \* the cart's expiresAt has passed
  recovering,   \* a recover() has read the cart and is about to write it
  order,        \* by id: "none", "pending" or "cancelled"
  reserved,     \* by line: units reserved
  elsewhere,    \* by line: units orders of other carts have reserved
  charges,      \* by id: captures the gateway made
  req,          \* by attempt: where its request is
  chain,        \* by attempt: where its completion chain is
  todo,         \* by attempt: lines the chain's step has still to handle
  cancelling,   \* orders whose cancellation is running
  undoing,      \* by id: lines it has still to release
  outside, faults,
  overwritten,  \* history: a status write hit a cart in or past checkout
  markFailed,   \* history: markAsCheckedOut threw
  shortage,     \* history: a chain ran out of stock half-way
  midway        \* history: staff cancelled an order no chain had completed

cartVars  == <<cart, token, expired>>
callVars  == <<caller, req, chain, todo>>
stockVars == <<reserved, elsewhere, cancelling, undoing>>
history   == <<outside, faults, overwritten, markFailed, shortage, midway>>
vars == <<cartVars, recovering, order, stockVars, charges, callVars, history>>

Requests == {"idle", "access", "abandon", "claim", "validate", "authorize", "create",
             "usage", "complete", "mark", "release", "done", "dead"}
Chains   == {"off", "reserve", "capture", "undo", "cancel", "await", "ok", "failed"}

(* The part of a request during which the cart is its own. *)
Inside == {"validate", "authorize", "create", "usage", "complete", "mark"}

Running == {"reserve", "capture", "undo", "cancel", "await"}

(* A key, with its actor, makes the order's id; without one it is the      *)
(* attempt's own.                                                          *)
Orders     == Attempts \cup Keys
OrderOf(a) == IF caller[a].key = NoKey THEN a ELSE caller[a].key

Callers == [key : Keys \cup {NoKey}, staff : BOOLEAN]

Init ==
  /\ caller \in [Attempts -> Callers]
  /\ \A a, b \in Attempts :
       caller[a].key = caller[b].key /\ caller[a].key # NoKey => caller[a] = caller[b]
  /\ cart = "active" /\ token = NoToken /\ expired = FALSE /\ recovering = FALSE
  /\ order = [o \in Orders |-> "none"]
  /\ reserved = [l \in Lines |-> 0] /\ elsewhere = [l \in Lines |-> 0]
  /\ charges = [o \in Orders |-> 0] /\ cancelling = {}
  /\ req = [a \in Attempts |-> "idle"] /\ chain = [a \in Attempts |-> "off"]
  /\ todo = [a \in Attempts |-> {}] /\ undoing = [o \in Orders |-> {}]
  /\ outside = 0 /\ faults = 0
  /\ overwritten = FALSE /\ markFailed = FALSE
  /\ shortage = FALSE /\ midway = FALSE

At(a, step)   == req[a] = step
Goto(a, step) == req' = [req EXCEPT ![a] = step] /\ UNCHANGED <<caller, chain, todo>>

On(a, step)      == chain[a] = step
Step(a, step)    == chain' = [chain EXCEPT ![a] = step] /\ UNCHANGED <<caller, req>>

(* mutant: reserved may fall below zero *)
Unclamped(n)     == n
AtLeastZero(n)   == IF n < 0 THEN 0 ELSE n
Take(l)          == reserved' = [reserved EXCEPT ![l] = @ + 1]
Give(l)          == reserved' = [reserved EXCEPT ![l] = AtLeastZero(@ - 1)]

(* carts.status is written without a condition on what it was. *)
Overwrite(status) ==
  /\ cart' = status
  /\ overwritten' = (overwritten \/ cart \in {"checking_out", "checked_out"})
  /\ UNCHANGED token

-----------------------------------------------------------------------------
(* The request. *)

(* A key that already has an order is answered with it. *)
Replay(a) ==
  /\ At(a, "idle")
  /\ Goto(a, IF caller[a].key # NoKey /\ order[OrderOf(a)] # "none" THEN "done" ELSE "access")
  /\ UNCHANGED <<cartVars, recovering, order, stockVars, charges, history>>

ReadCart(a) ==
  /\ At(a, "access")
  /\ Goto(a, IF cart = "active" /\ expired THEN "abandon" ELSE "claim")
  /\ UNCHANGED <<cartVars, recovering, order, stockVars, charges, history>>

AbandonExpired(a) ==
  /\ At(a, "abandon")
  /\ Overwrite("abandoned")
  /\ Goto(a, "claim")
  /\ UNCHANGED <<expired, recovering, order, stockVars, charges, outside,
                 faults, shortage, markFailed, midway>>

Claimable == cart = "active"

Claim(a) ==
  /\ At(a, "claim")
  /\ IF Claimable
     THEN cart' = "checking_out" /\ token' = a /\ Goto(a, "validate")
     ELSE Goto(a, "release") /\ UNCHANGED <<cart, token>>
  /\ UNCHANGED <<expired, recovering, order, stockVars, charges, history>>

(* The cart, its prices, the stock, the promotions: any check may refuse.  *)
Validate(a) ==
  /\ At(a, "validate")
  /\ \/ ~expired /\ Goto(a, "authorize")
     \/ Goto(a, "release")
  /\ UNCHANGED <<cartVars, recovering, order, stockVars, charges, history>>

Authorize(a) ==
  /\ At(a, "authorize")
  /\ \E step \in {"create", "release"} : Goto(a, step)
  /\ UNCHANGED <<cartVars, recovering, order, stockVars, charges, history>>

(* A key's second create returns the first order; a refusal returns the    *)
(* error to the shopper at once, a throw goes through the catch.           *)
CreateOrder(a) ==
  /\ At(a, "create")
  /\ \/ /\ order' = [order EXCEPT ![OrderOf(a)] = IF @ = "none" THEN "pending" ELSE @]
        /\ Goto(a, "usage")
     \/ /\ \E step \in {"done", "release"} : Goto(a, step)
        /\ UNCHANGED order
  /\ UNCHANGED <<cartVars, recovering, stockVars, charges, history>>

(* Promotion usage and tax report: they may throw, the order stays. *)
RecordUsage(a) ==
  /\ At(a, "usage")
  /\ \/ /\ req'   = [req EXCEPT ![a] = "complete"]
        /\ chain' = [chain EXCEPT ![a] = "reserve"]
        /\ todo'  = [todo EXCEPT ![a] = Lines]
        /\ UNCHANGED caller
     \/ Goto(a, "release")
  /\ UNCHANGED <<cartVars, recovering, order, stockVars, charges, history>>

(* The after-hook has ended, well or not, or its 20 seconds are up and the *)
(* chain runs on by itself: its error is only reported.                    *)
AfterHooks(a) ==
  /\ At(a, "complete")
  /\ Goto(a, "mark")
  /\ UNCHANGED <<cartVars, recovering, order, stockVars, charges, history>>

MarkAsCheckedOut(a) ==
  /\ At(a, "mark")
  /\ cart' = "checked_out" /\ token' = NoToken
  /\ Goto(a, "done")
  /\ UNCHANGED <<expired, recovering, order, stockVars, charges, history>>

(* The write throws, and the catch gives the claim back: the chain may have*)
(* charged the cart by then.                                               *)
MarkFails(a) ==
  /\ At(a, "mark")
  /\ faults < MaxFaults
  /\ faults' = faults + 1
  /\ markFailed' = TRUE
  /\ Goto(a, "release")
  /\ UNCHANGED <<cartVars, recovering, order, stockVars, charges, outside, overwritten,
                 shortage, midway>>

(* mutant: any attempt's failure releases the claim *)
HoldsAny(a) == cart = "checking_out"

Holds(a) == cart = "checking_out" /\ token = a

ReleaseCheckoutClaim(a) ==
  /\ At(a, "release")
  /\ IF Holds(a) THEN cart' = "active" /\ token' = NoToken
                 ELSE UNCHANGED <<cart, token>>
  /\ Goto(a, "done")
  /\ UNCHANGED <<expired, recovering, order, stockVars, charges, history>>

-----------------------------------------------------------------------------
(* completeCheckout: the chain and what it undoes. *)

(* mutant: a line out of stock does not end the chain *)
ShortageIgnored == "capture"

OnShortage == "cancel"

ReserveLine(a) ==
  /\ On(a, "reserve")
  /\ \/ \E l \in todo[a] :
          \/ /\ reserved[l] < OnHand
             /\ Take(l)
             /\ todo' = [todo EXCEPT ![a] = @ \ {l}]
             /\ UNCHANGED <<caller, req, chain, shortage>>
          \/ /\ reserved[l] >= OnHand
             /\ Step(a, OnShortage)
             /\ shortage' = TRUE
             /\ UNCHANGED <<reserved, todo>>
     \/ /\ todo[a] = {}
        /\ Step(a, "capture")
        /\ UNCHANGED <<reserved, todo, shortage>>
  /\ UNCHANGED <<cartVars, recovering, order, elsewhere, undoing, cancelling, charges,
                 outside, faults, overwritten, markFailed, midway>>

(* mutant: the reservations of a failed capture are kept *)
UndoNothing == {}

(* What the reserve step's compensation gives back. *)
ToUndo == Lines

(* mutant: a capture whose answer is lost is asked for again *)
CaptureUntilAnswered(a) ==
  /\ On(a, "capture")
  /\ charges' = [charges EXCEPT ![OrderOf(a)] = @ + 1]
  /\ \E step \in {"capture", "ok"} : Step(a, step)
  /\ UNCHANGED <<cartVars, recovering, order, stockVars, todo, history>>

(* Recording the captured amount and the two steps that follow cannot fail.*)
CapturePayment(a) ==
  /\ On(a, "capture")
  /\ \/ /\ charges' = [charges EXCEPT ![OrderOf(a)] = @ + 1]
        /\ Step(a, "ok")
        /\ UNCHANGED todo
     \/ /\ todo' = [todo EXCEPT ![a] = ToUndo]
        /\ Step(a, "undo")
        /\ UNCHANGED charges
  /\ UNCHANGED <<cartVars, recovering, order, stockVars, history>>

UndoReserve(a) ==
  /\ On(a, "undo")
  /\ \/ /\ \E l \in todo[a] : Give(l) /\ todo' = [todo EXCEPT ![a] = @ \ {l}]
        /\ UNCHANGED <<caller, req, chain>>
     \/ todo[a] = {} /\ Step(a, "cancel") /\ UNCHANGED <<reserved, todo>>
  /\ UNCHANGED <<cartVars, recovering, order, elsewhere, undoing, cancelling, charges,
                 history>>

(* What a step throws nobody catches, before or after the gateway charged: *)
(* nothing is undone or cancelled.  A throw among the releases ends them.  *)
StepThrows(a) ==
  /\ faults < MaxFaults
  /\ faults' = faults + 1
  /\ \/ /\ chain[a] \in {"reserve", "capture"}
        /\ Step(a, "failed")
        /\ \/ UNCHANGED charges
           \/ On(a, "capture") /\ charges' = [charges EXCEPT ![OrderOf(a)] = @ + 1]
     \/ On(a, "undo") /\ Step(a, "cancel") /\ UNCHANGED charges
  /\ todo' = [todo EXCEPT ![a] = {}]
  /\ UNCHANGED <<cartVars, recovering, order, stockVars, outside, overwritten,
                 markFailed, shortage, midway>>

(* changeStatus to cancelled: the compare-and-swap, then every line's      *)
(* release, then the payment is asked back.                                *)
StartCancel(o) ==
  /\ order[o] = "pending"
  /\ order'   = [order EXCEPT ![o] = "cancelled"]
  /\ undoing' = [undoing EXCEPT ![o] = Lines]
  /\ cancelling' = cancelling \cup {o}

(* A shopper may not update orders: the order stays pending. *)
CancelFailed(a) ==
  /\ On(a, "cancel")
  /\ \/ /\ caller[a].staff
        /\ StartCancel(OrderOf(a))
        /\ Step(a, "await")
     \/ /\ ~caller[a].staff \/ order[OrderOf(a)] # "pending"
        /\ Step(a, "failed")
        /\ UNCHANGED <<order, undoing, cancelling>>
  /\ UNCHANGED <<cartVars, recovering, reserved, elsewhere, charges, todo, history>>

ChainEnds(a) ==
  /\ On(a, "await")
  /\ OrderOf(a) \notin cancelling
  /\ Step(a, "failed")
  /\ UNCHANGED <<cartVars, recovering, order, stockVars, charges, todo, history>>

(* An attempt that may still work on order o, or has not completed it. *)
Unfinished(a, o) ==
  OrderOf(a) = o /\ (chain[a] \in Running \cup {"failed"}
                     \/ req[a] \in {"access", "abandon", "claim", "validate",
                                    "authorize", "create", "usage"})

Completed(o) == \E a \in Attempts : OrderOf(a) = o /\ chain[a] = "ok"

StaffCancels(o) ==
  /\ StartCancel(o)
  /\ midway' = (midway \/ ~Completed(o) \/ \E a \in Attempts : Unfinished(a, o))
  /\ UNCHANGED <<cartVars, recovering, reserved, elsewhere, charges, callVars, outside,
                 faults, overwritten, markFailed, shortage>>

CancelReleases(o) ==
  /\ \E l \in undoing[o] : Give(l) /\ undoing' = [undoing EXCEPT ![o] = @ \ {l}]
  /\ UNCHANGED <<cartVars, recovering, order, elsewhere, cancelling, charges, callVars,
                 history>>

(* The payment is asked back: the module Orders says how much. *)
CancelEnds(o) ==
  /\ o \in cancelling /\ undoing[o] = {}
  /\ cancelling' = cancelling \ {o}
  /\ UNCHANGED <<cartVars, recovering, order, reserved, elsewhere, undoing, charges,
                 callVars, history>>

-----------------------------------------------------------------------------
(* The cart service's other writers, time, and faults. *)

Expire ==
  /\ ~expired /\ outside < MaxOutside
  /\ expired' = TRUE
  /\ outside' = outside + 1
  /\ UNCHANGED <<cart, token, recovering, order, stockVars, charges, callVars,
                 faults, overwritten, shortage, markFailed, midway>>

RecoverRead ==
  /\ ~recovering
  /\ cart \notin {"checked_out", "merged", "checking_out"}
  /\ recovering' = TRUE
  /\ UNCHANGED <<cartVars, order, stockVars, charges, callVars, history>>

RecoverWrite ==
  /\ recovering
  /\ Overwrite("active")
  /\ expired' = FALSE /\ recovering' = FALSE
  /\ UNCHANGED <<order, stockVars, charges, callVars, outside, faults,
                 shortage, markFailed, midway>>

(* Orders of other carts take and give back the same item. *)
OthersOrder(l) ==
  /\ \/ /\ reserved[l] < OnHand
        /\ Take(l)
        /\ elsewhere' = [elsewhere EXCEPT ![l] = @ + 1]
     \/ /\ elsewhere[l] > 0
        /\ Give(l)
        /\ elsewhere' = [elsewhere EXCEPT ![l] = @ - 1]
  /\ UNCHANGED <<cartVars, recovering, order, cancelling, undoing, charges, callVars,
                 history>>

(* abandon() and the end of merge() and mergeCarts(). *)
RetireCart(status) ==
  /\ outside < MaxOutside
  /\ Overwrite(status)
  /\ outside' = outside + 1
  /\ UNCHANGED <<expired, recovering, order, stockVars, charges, callVars,
                 faults, shortage, markFailed, midway>>

(* A cancellation dies between two of its statements. *)
CancelDies(o) ==
  /\ cancelling' = cancelling \ {o}
  /\ undoing' = [undoing EXCEPT ![o] = {}]

(* The server dies with the request, the chain it runs and what that began.*)
Crash(a) ==
  /\ req[a] \notin {"idle", "dead"} /\ (req[a] # "done" \/ chain[a] \in Running)
  /\ faults < MaxFaults
  /\ faults' = faults + 1
  /\ req'   = [req EXCEPT ![a] = "dead"]
  /\ chain' = [chain EXCEPT ![a] = IF @ \in Running THEN "off" ELSE @]
  /\ todo'  = [todo EXCEPT ![a] = {}]
  /\ IF chain[a] = "await" THEN CancelDies(OrderOf(a))
     ELSE UNCHANGED <<cancelling, undoing>>
  /\ UNCHANGED <<caller, cartVars, recovering, order, reserved, elsewhere, charges,
                 outside, overwritten, shortage, markFailed, midway>>

CrashCancel(o) ==
  /\ o \in cancelling
  /\ \A a \in Attempts : OrderOf(a) = o => chain[a] # "await"
  /\ faults < MaxFaults
  /\ faults' = faults + 1
  /\ CancelDies(o)
  /\ UNCHANGED <<cartVars, recovering, order, reserved, elsewhere, charges, callVars,
                 outside, overwritten, shortage, markFailed, midway>>

Next ==
  \/ \E a \in Attempts :
       \/ Replay(a) \/ ReadCart(a) \/ AbandonExpired(a) \/ Claim(a) \/ Authorize(a)
       \/ CreateOrder(a) \/ RecordUsage(a) \/ AfterHooks(a) \/ MarkAsCheckedOut(a)
       \/ MarkFails(a) \/ ReleaseCheckoutClaim(a) \/ Validate(a)
       \/ ReserveLine(a) \/ CapturePayment(a) \/ UndoReserve(a) \/ CancelFailed(a)
       \/ StepThrows(a) \/ ChainEnds(a) \/ Crash(a)
  \/ \E o \in Orders : StaffCancels(o) \/ CancelReleases(o) \/ CancelEnds(o)
                     \/ CrashCancel(o)
  \/ \E l \in Lines : OthersOrder(l)
  \/ Expire \/ RecoverRead \/ RecoverWrite
  \/ \E status \in {"abandoned", "merged"} : RetireCart(status)

Spec == Init /\ [][Next]_vars

-----------------------------------------------------------------------------
(* Properties. *)

(* Every variable has its type, and no more is reserved than is on hand.   *)
TypeOK ==
  /\ cart \in {"active", "checking_out", "checked_out", "abandoned", "merged"}
  /\ token \in Attempts \cup {NoToken}
  /\ expired \in BOOLEAN /\ recovering \in BOOLEAN
  /\ caller \in [Attempts -> Callers]
  /\ order \in [Orders -> {"none", "pending", "cancelled"}]
  /\ reserved \in [Lines -> 0..OnHand] /\ elsewhere \in [Lines -> Nat]
  /\ charges \in [Orders -> Nat] /\ cancelling \subseteq Orders
  /\ req \in [Attempts -> Requests] /\ chain \in [Attempts -> Chains]
  /\ todo \in [Attempts -> SUBSET Lines] /\ undoing \in [Orders -> SUBSET Lines]
  /\ outside \in Nat /\ faults \in Nat
  /\ overwritten \in BOOLEAN /\ markFailed \in BOOLEAN
  /\ shortage \in BOOLEAN /\ midway \in BOOLEAN

(* While an attempt works on the cart, the cart says so and names it, so   *)
(* no other attempt is at work: neither a loser's failure, a retry nor a   *)
(* dead server opens the cart, only a status write that does not look.     *)
ClaimIsHeld ==
  ~overwritten =>
    \A a \in Attempts : req[a] \in Inside => cart = "checking_out" /\ token = a

(* A cart is charged once, whatever fails, dies or is retried under the    *)
(* same or another key, unless the write that closes it throws.            *)
OneChargePerCart ==
  ~overwritten /\ ~markFailed =>
    /\ \A o \in Orders : charges[o] <= 1
    /\ \A o, p \in Orders : charges[o] > 0 /\ charges[p] > 0 => o = p

Paid == {o \in Orders : charges[o] > 0 /\ order[o] = "pending"}

NoEarlyCancel == \A o \in Orders : order[o] = "cancelled" => Completed(o)

(* A paid order's units are reserved, through shortages, faults and the   *)
(* failures of other attempts, unless some order was cancelled before a   *)
(* chain completed it.                                                     *)
PaidOrdersHoldStock ==
  NoEarlyCancel => \A l \in Lines : reserved[l] >= elsewhere[l] + Cardinality(Paid)

Quiet ==
  /\ \A a \in Attempts : chain[a] \notin Running
  /\ cancelling = {}

Placed == {o \in Orders : Completed(o) /\ order[o] = "pending"}

(* Nothing went wrong that gives stock back twice or not at all. *)
Undisturbed == ~overwritten /\ ~midway /\ faults = 0 /\ ~shortage

(* A failed capture gives back what was reserved, and so does cancelling a *)
(* completed order: only the orders that stand hold stock.                 *)
FailedCapturesHoldNothing ==
  NoEarlyCancel /\ Undisturbed /\ Quiet =>
    \A l \in Lines : reserved[l] = elsewhere[l] + Cardinality(Placed)

(* What completeCheckout's comment promises: "Both failure modes leave the *)
(* system in a consistent state", so that only standing orders hold stock. *)
FailuresLeaveConsistent ==
  ~overwritten /\ ~midway /\ Quiet /\ faults = 0 =>
    \A l \in Lines : reserved[l] = elsewhere[l] + Cardinality(Placed)
=============================================================================
