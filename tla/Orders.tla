------------------------------- MODULE Orders -------------------------------
(***************************************************************************)
(* One paid order: its status, its lines, its refund ledger and the money  *)
(* asked back from the payment gateway, under concurrent calls of          *)
(* changeStatus, refundLines, undoRefund and capture, the gateway's        *)
(* webhook, and server crashes.                                            *)
(*                                                                         *)
(* No call runs in a transaction, so each is the sequence of its database  *)
(* statements and gateway requests: one action each.  Actors hold the      *)
(* permission a call asks for; a refused call changes nothing.             *)
(***************************************************************************)
EXTENDS Integers, Sequences, FiniteSets, FiniteSetsExt

CONSTANTS
  Callers,       \* concurrent back-office users, jobs and API clients
  Lines,         \* line items of the order
  Quantity,      \* by line: units ordered
  LineValue,     \* by line: total + tax - discount
  Shipping,      \* delivery charge
  RefundInputs,  \* bodies refundLines is called with
  Captures,      \* amounts capture is called with
  Cap,           \* daily refund cap of each operator
  MaxCalls,      \* bound: calls explored
  MaxCrashes,    \* bound: calls that die half-way
  NoAmount       \* a column that is still NULL

States == {"pending", "pending_payment", "confirmed", "processing",
           "partially_fulfilled", "fulfilled", "cancelled", "refunded"}
InitialStates == {"pending", "pending_payment"}

Moves ==
  { <<"pending", "confirmed">>,              <<"pending", "cancelled">>,
    <<"pending_payment", "confirmed">>,      <<"pending_payment", "cancelled">>,
    <<"confirmed", "processing">>,           <<"confirmed", "cancelled">>,
    <<"processing", "partially_fulfilled">>, <<"processing", "fulfilled">>,
    <<"processing", "cancelled">>,
    <<"partially_fulfilled", "fulfilled">>,  <<"partially_fulfilled", "cancelled">>,
    <<"fulfilled", "refunded">> }

Transitions == [s \in States |-> {t \in States : <<s, t>> \in Moves}]

Terminal == {"cancelled", "refunded"}
Undoing  == {"cancelled", "refunded"}
Shipments == {"partially_fulfilled", "fulfilled"}

GrandTotal == MapThenSumSet(LAMBDA l : LineValue[l], Lines) + Shipping

ASSUME OrdersAssumption ==
  /\ IsFiniteSet(Lines)
  /\ Quantity \in [Lines -> Nat \ {0}]
  /\ LineValue \in [Lines -> Nat]
  /\ Shipping \in Nat
  /\ RefundInputs \subseteq [quantity : [Lines -> Nat], less : Nat, shipping : Nat,
                           adjustment : Nat]
  /\ Captures \subseteq Nat \ {0}
  /\ Cap \in Nat
  /\ MaxCalls \in Nat
  /\ MaxCrashes \in Nat
  /\ NoAmount \notin Nat

VARIABLES
  status,        \* orders.status
  fulfilled,     \* lines whose fulfillmentStatus is "fulfilled"
  refunded,      \* by line: refundedQuantity
  captured,      \* amountCaptured
  ledger,        \* order_refunds rows, oldest first
  webhook,       \* the gateway's payment_intent.succeeded event
  pc,            \* by caller: the statement its call is about to execute
  call,          \* by caller: what its call was given and has read
  todo,          \* by caller: lines its call has still to handle
  calls,         \* calls started
  crashes,       \* calls that died
  paidBack,      \* history: money asked back from the gateway
  overpaid,      \* history: more was asked back than was there to refund
  orderRefunds,  \* history: order-level refunds sent to the gateway
  shipments,     \* history: by line, times its stock was deducted
  overlapped     \* history: two calls have overlapped

order   == <<status, fulfilled, refunded, captured, ledger>>
money   == <<paidBack, overpaid, orderRefunds>>
vars    == <<order, webhook, pc, call, todo, calls, crashes, money, shipments,
             overlapped>>

StatusSteps == {"lines", "cas", "release", "gateway", "deduct", "mark"}
RefundSteps == {"check", "pay", "bump", "record"}
UndoSteps   == {"undoRead", "undoWrite"}
Steps       == {"idle", "capture"} \cup StatusSteps \cup RefundSteps \cup UndoSteps

NoCall == [kind |-> "none"]

AtLeastZero(n) == IF n < 0 THEN 0 ELSE n
Least(a, b)    == IF a < b THEN a ELSE b

(* Math.round of a positive quotient *)
Rounded(a, b) == (2 * a + b) \div (2 * b)

Rows           == DOMAIN ledger
CompletedRows  == {i \in Rows : ledger[i].status = "completed"}
AmountOf(R)    == MapThenSumSet(LAMBDA i : ledger[i].amount, R)
ShippingOf(R)  == MapThenSumSet(LAMBDA i : ledger[i].shipping, R)
UsedToday(c)   == AmountOf({i \in CompletedRows : ledger[i].by = c})

LinesOf(in)    == {l \in Lines : in.quantity[l] > 0}
LinesValue(in) == MapThenSumSet(
                    LAMBDA l : Rounded(LineValue[l] * in.quantity[l], Quantity[l]),
                    LinesOf(in))
TotalAmount(in) == LinesValue(in) - in.less + in.shipping + in.adjustment

Init ==
  /\ status \in InitialStates
  /\ fulfilled = {}
  /\ refunded = [l \in Lines |-> 0]
  /\ captured = NoAmount
  /\ ledger = <<>>
  /\ webhook = "none"
  /\ pc = [c \in Callers |-> "idle"]
  /\ call = [c \in Callers |-> NoCall]
  /\ todo = [c \in Callers |-> {}]
  /\ calls = 0 /\ crashes = 0
  /\ paidBack = 0 /\ overpaid = FALSE /\ orderRefunds = 0
  /\ shipments = [l \in Lines |-> 0]
  /\ overlapped = FALSE

-----------------------------------------------------------------------------
(* How a call moves on. *)

Begin(c, step, what) ==
  /\ pc[c] = "idle"
  /\ calls < MaxCalls
  /\ calls' = calls + 1
  /\ overlapped' = (overlapped \/ \E d \in Callers \ {c} : pc[d] # "idle")
  /\ pc'   = [pc EXCEPT ![c] = step]
  /\ call' = [call EXCEPT ![c] = what]

At(c, step) == pc[c] = step /\ UNCHANGED <<calls, crashes, overlapped>>

Goto(c, step) == pc' = [pc EXCEPT ![c] = step] /\ UNCHANGED call

Return(c) ==
  /\ pc'   = [pc EXCEPT ![c] = "idle"]
  /\ call' = [call EXCEPT ![c] = NoCall]
  /\ todo' = [todo EXCEPT ![c] = {}]

(* The gateway is asked to pay n back; limit is what it could have left. *)
PayBack(n) ==
  /\ paidBack' = paidBack + n
  /\ overpaid' = (overpaid \/ (n > 0 /\ paidBack + n >
                    IF captured = NoAmount THEN GrandTotal ELSE captured))

-----------------------------------------------------------------------------
(* changeStatus. *)

StatusRead(c, to) ==
  /\ to \in Transitions[status]
  /\ Begin(c, "lines", [kind |-> "status", to |-> to, was |-> status,
                        captured |-> captured])
  /\ UNCHANGED <<order, webhook, todo, crashes, money, shipments>>

(* After the before-hooks: the lines; none may be refunded if all ship. *)
StatusLines(c) ==
  /\ At(c, "lines")
  /\ IF call[c].to = "fulfilled" /\ \E l \in Lines : refunded[l] > 0
     THEN Return(c)
     ELSE /\ todo' = [todo EXCEPT ![c] = Lines \ fulfilled]
          /\ Goto(c, "cas")
  /\ UNCHANGED <<order, webhook, money, shipments>>

(* mutant: side effects without winning the compare-and-swap *)
WinsAlways(c) == TRUE

Wins(c) == status = call[c].was

AfterCas(c) ==
  IF call[c].to \in Undoing THEN "release"
  ELSE IF call[c].to \in Shipments THEN "deduct" ELSE "idle"

StatusCas(c) ==
  /\ At(c, "cas")
  /\ \/ /\ Wins(c)
        /\ status' = call[c].to
        /\ IF AfterCas(c) = "idle" THEN Return(c)
           ELSE Goto(c, AfterCas(c)) /\ UNCHANGED todo
     \/ /\ ~Wins(c)
        /\ Return(c)
        /\ UNCHANGED status
  /\ UNCHANGED <<fulfilled, refunded, captured, ledger, webhook, money, shipments>>

(* The reservation of a line that has not shipped is released. *)
ReleaseLine(c) ==
  /\ At(c, "release")
  /\ \/ /\ \E l \in todo[c] : todo' = [todo EXCEPT ![c] = @ \ {l}]
        /\ UNCHANGED <<pc, call>>
     \/ /\ todo[c] = {}
        /\ Goto(c, "gateway")
        /\ UNCHANGED todo
  /\ UNCHANGED <<order, webhook, money, shipments>>

LeftToRefund(c) ==
  AtLeastZero(Least(GrandTotal,
    IF call[c].captured = NoAmount THEN GrandTotal ELSE call[c].captured)
      - AmountOf(Rows))

(* The order as read at the start of the call, and every earlier ledger    *)
(* row; refund may be called with a smaller amount.                        *)
GatewayRefund(c) ==
  /\ At(c, "gateway")
  /\ LET most == LeftToRefund(c)
     IN  \E n \in IF call[c].to = "refunded" /\ most > 0 THEN 1..most ELSE {most} :
           /\ PayBack(n)
           /\ orderRefunds' = orderRefunds + (IF n > 0 THEN 1 ELSE 0)
  /\ Return(c)
  /\ UNCHANGED <<order, webhook, shipments>>

(* Every line that has not shipped ships, whole. *)
DeductLine(c) ==
  /\ At(c, "deduct")
  /\ \/ /\ \E l \in todo[c] :
             /\ shipments' = [shipments EXCEPT ![l] = @ + 1]
             /\ call' = [call EXCEPT ![c] = [kind |-> "ship", line |-> l]]
        /\ pc' = [pc EXCEPT ![c] = "mark"]
        /\ UNCHANGED todo
     \/ todo[c] = {} /\ Return(c) /\ UNCHANGED shipments
  /\ UNCHANGED <<order, webhook, money>>

(* mutant: the line is not marked as fulfilled *)
MarkNothing(c) ==
  /\ At(c, "mark")
  /\ todo' = [todo EXCEPT ![c] = @ \ {call[c].line}]
  /\ Goto(c, "deduct")
  /\ UNCHANGED <<order, webhook, money, shipments>>

MarkLine(c) ==
  /\ At(c, "mark")
  /\ fulfilled' = fulfilled \cup {call[c].line}
  /\ todo' = [todo EXCEPT ![c] = @ \ {call[c].line}]
  /\ Goto(c, "deduct")
  /\ UNCHANGED <<status, refunded, captured, ledger, webhook, money, shipments>>

-----------------------------------------------------------------------------
(* refundLines. *)

Unpaid == captured = NoAmount /\ status = "pending"

RefundRead(c, in) ==
  /\ status \notin Terminal
  /\ ~Unpaid
  /\ \A l \in Lines : in.quantity[l] <= Quantity[l] - refunded[l]
  /\ in.less = 0 \/ in.less < LinesValue(in)
  /\ Begin(c, "check", [kind |-> "refund", in |-> in, was |-> refunded,
                        captured |-> captured])
  /\ UNCHANGED <<order, webhook, todo, crashes, money, shipments>>

(* What the order has left, and the operator's cap. *)
RefundCheck(c) ==
  /\ At(c, "check")
  /\ LET in == call[c].in
     IN  IF /\ in.shipping <= Shipping - ShippingOf(CompletedRows)
            /\ TotalAmount(in) <= GrandTotal - AmountOf(CompletedRows)
            /\ UsedToday(c) + TotalAmount(in) <= Cap
         THEN /\ todo' = [todo EXCEPT ![c] = LinesOf(in)]
              /\ Goto(c, "pay")
         ELSE Return(c)
  /\ UNCHANGED <<order, webhook, money, shipments>>

(* mutant: a refund that was undone may be paid again *)
PaidSoFarNet == AmountOf(CompletedRows)

(* An undone refund counts: the gateway never took its money back. *)
PaidSoFar == AmountOf(Rows)

RefundPay(c) ==
  /\ At(c, "pay")
  /\ IF call[c].captured = NoAmount
     THEN UNCHANGED <<paidBack, overpaid>>
     ELSE PayBack(Least(TotalAmount(call[c].in),
                        AtLeastZero(call[c].captured - PaidSoFar)))
  /\ Goto(c, "bump")
  /\ UNCHANGED <<order, webhook, todo, orderRefunds, shipments>>

(* refundedQuantity is written from the quantity read at the start. *)
RefundBump(c) ==
  /\ At(c, "bump")
  /\ \/ /\ \E l \in todo[c] :
             /\ refunded' = [refunded EXCEPT
                               ![l] = call[c].was[l] + call[c].in.quantity[l]]
             /\ todo' = [todo EXCEPT ![c] = @ \ {l}]
        /\ UNCHANGED <<pc, call>>
     \/ /\ todo[c] = {}
        /\ Goto(c, "record")
        /\ UNCHANGED <<refunded, todo>>
  /\ UNCHANGED <<status, fulfilled, captured, ledger, webhook, money, shipments>>

RefundRecord(c) ==
  /\ At(c, "record")
  /\ LET in == call[c].in
     IN  ledger' = Append(ledger, [amount |-> TotalAmount(in),
                                   shipping |-> in.shipping,
                                   quantity |-> in.quantity,
                                   by |-> c, status |-> "completed"])
  /\ Return(c)
  /\ UNCHANGED <<status, fulfilled, refunded, captured, webhook, money, shipments>>

-----------------------------------------------------------------------------
(* undoRefund: the row is marked by a compare-and-swap; then each line is  *)
(* read and written.  Time is abstracted: any row may be inside the window.*)

UndoMark(c, i) ==
  /\ i \in CompletedRows
  /\ Begin(c, "undoRead", [kind |-> "undo", quantity |-> ledger[i].quantity])
  /\ ledger' = [ledger EXCEPT ![i].status = "undone"]
  /\ todo' = [todo EXCEPT ![c] = LinesOf(ledger[i])]
  /\ UNCHANGED <<status, fulfilled, refunded, captured, webhook, crashes, money,
                 shipments>>

UndoRead(c) ==
  /\ At(c, "undoRead")
  /\ \/ /\ \E l \in todo[c] :
             call' = [call EXCEPT ![c] = [kind |-> "undoing", line |-> l,
                                          quantity |-> call[c].quantity,
                                          was |-> refunded[l]]]
        /\ pc' = [pc EXCEPT ![c] = "undoWrite"]
        /\ UNCHANGED todo
     \/ todo[c] = {} /\ Return(c)
  /\ UNCHANGED <<order, webhook, money, shipments>>

(* mutant: the units of an undone refund stay refunded *)
RestoredNothing(was, n) == was

(* mutant: the clamp at zero is dropped *)
RestoredBelowZero(was, n) == was - n

Restored(was, n) == AtLeastZero(was - n)

UndoWrite(c) ==
  /\ At(c, "undoWrite")
  /\ LET l == call[c].line
     IN  /\ refunded' = [refunded EXCEPT
                           ![l] = Restored(call[c].was, call[c].quantity[l])]
         /\ todo' = [todo EXCEPT ![c] = @ \ {l}]
  /\ pc' = [pc EXCEPT ![c] = "undoRead"]
  /\ UNCHANGED <<status, fulfilled, captured, ledger, webhook, call, money,
                 shipments>>

-----------------------------------------------------------------------------
(* capture, the gateway's event, and crashes. *)

CaptureRead(c, n) ==
  /\ Begin(c, "capture", [kind |-> "capture", amount |-> n])
  /\ UNCHANGED <<order, webhook, todo, crashes, money, shipments>>

(* The gateway captures, the amount is recorded; or it refuses. *)
CaptureWrite(c) ==
  /\ At(c, "capture")
  /\ \/ /\ captured' = call[c].amount
        /\ webhook'  = IF webhook = "none" THEN "due" ELSE webhook
     \/ UNCHANGED <<captured, webhook>>
  /\ Return(c)
  /\ UNCHANGED <<status, fulfilled, refunded, ledger, money, shipments>>

(* The event is claimed and the order confirmed in one transaction; when   *)
(* the order cannot move the claim rolls back and the gateway sends again. *)
WebhookConfirms ==
  /\ webhook = "due"
  /\ "confirmed" \in Transitions[status]
  /\ status'  = "confirmed"
  /\ webhook' = "processed"
  /\ UNCHANGED <<fulfilled, refunded, captured, ledger, pc, call, todo, calls,
                 crashes, money, shipments, overlapped>>

Crash(c) ==
  /\ pc[c] # "idle"
  /\ crashes < MaxCrashes
  /\ crashes' = crashes + 1
  /\ Return(c)
  /\ UNCHANGED <<order, webhook, calls, money, shipments, overlapped>>

Next ==
  \/ \E c \in Callers :
       \/ \E to \in States : StatusRead(c, to)
       \/ StatusLines(c)
       \/ StatusCas(c)
       \/ ReleaseLine(c)
       \/ GatewayRefund(c)
       \/ DeductLine(c)
       \/ MarkLine(c)
       \/ \E in \in RefundInputs : RefundRead(c, in)
       \/ RefundCheck(c)
       \/ RefundPay(c)
       \/ RefundBump(c)
       \/ RefundRecord(c)
       \/ \E i \in Rows : UndoMark(c, i)
       \/ UndoRead(c)
       \/ UndoWrite(c)
       \/ \E n \in Captures : CaptureRead(c, n)
       \/ CaptureWrite(c)
       \/ Crash(c)
  \/ WebhookConfirms

Spec == Init /\ [][Next]_vars

-----------------------------------------------------------------------------
(* Properties. *)

Calls ==
       {NoCall}
  \cup [kind : {"status"}, to : States, was : States, captured : Nat \cup {NoAmount}]
  \cup [kind : {"ship"}, line : Lines]
  \cup [kind : {"refund"}, in : RefundInputs, was : [Lines -> Nat],
        captured : Nat \cup {NoAmount}]
  \cup [kind : {"undo"}, quantity : [Lines -> Nat]]
  \cup [kind : {"undoing"}, line : Lines, quantity : [Lines -> Nat], was : Nat]
  \cup [kind : {"capture"}, amount : Captures]

RefundRow == [amount : Nat, shipping : Nat, quantity : [Lines -> Nat],
              by : Callers, status : {"completed", "undone"}]

(* Every variable has its type. *)
TypeOK ==
  /\ status \in States
  /\ fulfilled \subseteq Lines
  /\ refunded \in [Lines -> Nat]
  /\ captured \in Nat \cup {NoAmount}
  /\ ledger \in Seq(RefundRow)
  /\ webhook \in {"none", "due", "processed"}
  /\ pc \in [Callers -> Steps]
  /\ call \in [Callers -> Calls]
  /\ todo \in [Callers -> SUBSET Lines]
  /\ calls \in Nat /\ crashes \in Nat
  /\ paidBack \in Nat /\ overpaid \in BOOLEAN /\ orderRefunds \in Nat
  /\ shipments \in [Lines -> Nat]
  /\ overlapped \in BOOLEAN

Calm == ~overlapped /\ crashes = 0

(* Calls that follow one another, in any order and number, never ask the   *)
(* gateway for more than the order's payment: line refunds, undone and     *)
(* repeated ones, cancellation and order-level refund together.            *)
NeverOverpaid == Calm => ~overpaid

(* However many callers cancel and refund at once, and whatever dies, the  *)
(* order-level refund is sent at most once: only the winner of the status  *)
(* compare-and-swap sends it.                                              *)
OrderRefundOnce == orderRefunds <= 1

(* Calls that follow one another leave each line's refundedQuantity equal  *)
(* to what the refunds that stand say of it, through undos and clamps.     *)
RefundsExplainUnits ==
  Calm /\ (\A c \in Callers : pc[c] = "idle") =>
    \A l \in Lines :
      refunded[l] = MapThenSumSet(LAMBDA i : ledger[i].quantity[l], CompletedRows)

(* Calls that follow one another take a line out of stock once, though     *)
(* both partially_fulfilled and fulfilled ship every line not yet shipped. *)
ShipsOnce == Calm => \A l \in Lines : shipments[l] <= 1

(* The status only moves along the machine's transitions, whoever races:   *)
(* a caller's stale read never takes an order out of a terminal state.     *)
Lifecycle == INSTANCE OrderLifecycle
ImplementsLifecycle == Lifecycle!Spec

(* What refundLines' comment promises, "keeps total payout <= captured".   *)
PayoutWithinCapture == captured # NoAmount => paidBack <= captured

(* What R-04 promises, "goods must not ship against refunded lines".       *)
RefundedLinesStay ==
  \A c \in Callers : pc[c] = "deduct" => \A l \in todo[c] : refunded[l] = 0
=============================================================================
