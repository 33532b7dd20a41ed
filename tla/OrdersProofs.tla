---------------------------- MODULE OrdersProofs ----------------------------
(***************************************************************************)
(* For any number of callers, lines, calls and crashes: an order's status  *)
(* implements the lifecycle, and its order-level refund is sent at most    *)
(* once.  Both rest on Claimed: a caller past the compare-and-swap into    *)
(* cancelled or refunded is alone there, because those states are final.   *)
(* Calls that follow one another ship a line once, which rests on ShipInv. *)
(***************************************************************************)
EXTENDS Orders, SumTheorems, TLAPS

Holding == {"release", "gateway"}

(* What a caller read and asked for, until its compare-and-swap. *)
Legal ==
  \A c \in Callers :
    pc[c] \in {"lines", "cas"} =>
      call[c].was \in States /\ call[c].to \in Transitions[call[c].was]

Claimed ==
  /\ orderRefunds \in {0, 1}
  /\ orderRefunds = 1 => status \in Terminal
  /\ \A c \in Callers : pc[c] \in Holding => status \in Terminal /\ orderRefunds = 0
  /\ \A c, d \in Callers : pc[c] \in Holding /\ pc[d] \in Holding => c = d

Shape ==
  /\ status \in States
  /\ pc \in [Callers -> Steps]
  /\ call = [c \in Callers |-> call[c]]

IInv == Shape /\ Legal /\ Claimed

-----------------------------------------------------------------------------
(* The default table leads to states of the table, and nowhere from a      *)
(* terminal one.                                                           *)
LEMMA TransitionFacts ==
  ASSUME NEW s \in States
  PROVE  /\ Transitions[s] \subseteq States
         /\ s \in Terminal => Transitions[s] = {}
  BY DEF Transitions, Moves, States, Terminal

LEMMA InvInit == Init => IInv
BY DEF Init, IInv, Shape, Legal, Claimed, InitialStates, States, Steps, Holding,
       NoCall

(* The value of pc and call after a step of caller c: all others keep theirs. *)
OnlyMoves(c) ==
  /\ pc' \in [Callers -> Steps]
  /\ call' = [d \in Callers |-> call'[d]]
  /\ \A d \in Callers \ {c} : pc'[d] = pc[d] /\ call'[d] = call[d]

(* A step that leaves the status and the count of order-level refunds      *)
(* alone, and takes its caller neither to the compare-and-swap nor past it.*)
Aside(c) ==
  /\ UNCHANGED <<status, orderRefunds>>
  /\ OnlyMoves(c)
  /\ pc'[c] \notin {"lines", "cas"} \cup Holding

LEMMA AsideKeepsInv ==
  ASSUME IInv, NEW c \in Callers, Aside(c)
  PROVE  IInv'
<1>1. Shape'
  BY DEF IInv, Shape, Aside, OnlyMoves
<1>2. Legal'
  BY DEF IInv, Shape, Legal, Aside, OnlyMoves
<1>3. Claimed'
  BY DEF IInv, Shape, Claimed, Aside, OnlyMoves, Holding
<1> QED
  BY <1>1, <1>2, <1>3 DEF IInv

(* Refunds, undos, captures, the shipping steps and crashes are asides. *)
LEMMA Asides ==
  ASSUME IInv, NEW c \in Callers,
         \/ DeductLine(c) \/ MarkLine(c)
         \/ \E in \in RefundInputs : RefundRead(c, in)
         \/ RefundCheck(c) \/ RefundPay(c) \/ RefundBump(c) \/ RefundRecord(c)
         \/ \E i \in Rows : UndoMark(c, i)
         \/ UndoRead(c) \/ UndoWrite(c)
         \/ \E n \in Captures : CaptureRead(c, n)
         \/ CaptureWrite(c) \/ Crash(c)
  PROVE  Aside(c)
<1> USE DEF Aside, OnlyMoves, order, money, Holding,
            Steps, StatusSteps, RefundSteps, UndoSteps
<1>0. pc \in [Callers -> Steps] /\ call = [d \in Callers |-> call[d]]
  BY DEF IInv, Shape
<1>1. CASE DeductLine(c)
  BY <1>0, <1>1 DEF DeductLine, At, Return
<1>2. CASE MarkLine(c)
  BY <1>0, <1>2 DEF MarkLine, At, Goto
<1>3. CASE RefundCheck(c)
  BY <1>0, <1>3 DEF RefundCheck, At, Goto, Return
<1>4. CASE RefundPay(c)
  BY <1>0, <1>4 DEF RefundPay, PayBack, At, Goto
<1>5. CASE RefundBump(c)
  BY <1>0, <1>5 DEF RefundBump, At, Goto
<1>6. CASE RefundRecord(c)
  BY <1>0, <1>6 DEF RefundRecord, At, Return
<1>7. CASE UndoRead(c)
  BY <1>0, <1>7 DEF UndoRead, At, Return
<1>8. CASE UndoWrite(c)
  BY <1>0, <1>8 DEF UndoWrite, At
<1>9. CASE CaptureWrite(c)
  BY <1>0, <1>9 DEF CaptureWrite, At, Return
<1>10. CASE Crash(c)
  BY <1>0, <1>10 DEF Crash, Return
<1>11. CASE \E in \in RefundInputs : RefundRead(c, in)
  BY <1>0, <1>11 DEF RefundRead, Begin
<1>12. CASE \E i \in Rows : UndoMark(c, i)
  BY <1>0, <1>12 DEF UndoMark, Begin
<1>13. CASE \E n \in Captures : CaptureRead(c, n)
  BY <1>0, <1>13 DEF CaptureRead, Begin
<1> QED
  BY <1>1, <1>2, <1>3, <1>4, <1>5, <1>6, <1>7, <1>8, <1>9, <1>10, <1>11, <1>12, <1>13

-----------------------------------------------------------------------------
(* The steps of changeStatus up to the gateway, and the webhook. *)

LEMMA StatusReadKeepsInv ==
  ASSUME IInv, NEW c \in Callers, NEW to \in States, StatusRead(c, to)
  PROVE  IInv' /\ UNCHANGED status
<1> USE DEF StatusRead, Begin, order, money
<1>1. Shape'
  BY DEF IInv, Shape, Steps, StatusSteps
<1>2. Legal'
  BY DEF IInv, Shape, Legal
<1>3. Claimed'
  BY DEF IInv, Shape, Claimed, Holding
<1> QED
  BY <1>1, <1>2, <1>3 DEF IInv

LEMMA StatusLinesKeepsInv ==
  ASSUME IInv, NEW c \in Callers, StatusLines(c)
  PROVE  IInv' /\ UNCHANGED status
<1> USE DEF StatusLines, At, Goto, Return, order, money
<1>1. Shape'
  BY DEF IInv, Shape, Steps, StatusSteps
<1>2. Legal'
  BY DEF IInv, Shape, Legal
<1>3. Claimed'
  BY DEF IInv, Shape, Claimed, Holding
<1> QED
  BY <1>1, <1>2, <1>3 DEF IInv

(* The loser returns.  The winner read the current status, so it takes one *)
(* of its transitions; it was not terminal, so no caller holds it already. *)
LEMMA StatusCasKeepsInv ==
  ASSUME IInv, NEW c \in Callers, StatusCas(c)
  PROVE  IInv' /\ (UNCHANGED status \/ status' \in Transitions[status])
<1> USE DEF StatusCas, At, money
<1>1. CASE ~Wins(c) /\ Return(c) /\ UNCHANGED status
  <2>1. Aside(c)
    BY <1>1 DEF Aside, OnlyMoves, Return, IInv, Shape, Holding, Steps
  <2> QED
    BY <1>1, <2>1, AsideKeepsInv
<1>2. CASE Wins(c) /\ status' = call[c].to /\
           IF AfterCas(c) = "idle" THEN Return(c)
           ELSE Goto(c, AfterCas(c)) /\ UNCHANGED todo
  <2>1. status \in States /\ status' \in Transitions[status]
    BY <1>2 DEF Wins, IInv, Shape, Legal
  <2>2. status \notin Terminal /\ status' \in States
    BY <2>1, TransitionFacts
  <2>3. orderRefunds = 0 /\ \A d \in Callers : pc[d] \notin Holding
    BY <2>2 DEF IInv, Claimed
  <2>4. AfterCas(c) \in {"release", "deduct", "idle"}
        /\ (AfterCas(c) = "release" => status' \in Terminal)
    BY <1>2 DEF AfterCas, Undoing, Terminal
  <2>5. OnlyMoves(c) /\ pc'[c] = AfterCas(c)
    BY <1>2, <2>4 DEF OnlyMoves, Goto, Return, IInv, Shape, Steps, StatusSteps
  <2>6. Shape'
    BY <2>2, <2>5 DEF Shape, OnlyMoves
  <2>7. Legal'
    BY <2>4, <2>5 DEF IInv, Legal, OnlyMoves
  <2>8. Claimed'
    BY <2>3, <2>4, <2>5 DEF Claimed, OnlyMoves, Holding
  <2> QED
    BY <2>1, <2>6, <2>7, <2>8 DEF IInv
<1> QED
  BY <1>1, <1>2

LEMMA ReleaseLineKeepsInv ==
  ASSUME IInv, NEW c \in Callers, ReleaseLine(c)
  PROVE  IInv' /\ UNCHANGED status
<1> USE DEF ReleaseLine, At, Goto, order, money
<1>1. Shape'
  BY DEF IInv, Shape, Steps, StatusSteps
<1>2. Legal'
  BY DEF IInv, Shape, Legal
<1>3. Claimed'
  BY DEF IInv, Shape, Claimed, Holding
<1> QED
  BY <1>1, <1>2, <1>3 DEF IInv

(* The one caller that holds the order sends its refund and lets go.       *)
LEMMA GatewayRefundKeepsInv ==
  ASSUME IInv, NEW c \in Callers, GatewayRefund(c)
  PROVE  IInv' /\ UNCHANGED status
<1>1. orderRefunds = 0 /\ status \in Terminal
      /\ \A d \in Callers \ {c} : pc[d] \notin Holding
  BY DEF GatewayRefund, At, IInv, Claimed, Holding
<1>2. orderRefunds' \in {0, 1} /\ UNCHANGED status
  BY <1>1 DEF GatewayRefund, order
<1>3. OnlyMoves(c) /\ pc'[c] = "idle"
  BY DEF GatewayRefund, Return, OnlyMoves, IInv, Shape, Steps
<1>4. Shape'
  BY <1>2, <1>3 DEF IInv, Shape, OnlyMoves
<1>5. Legal'
  BY <1>3 DEF IInv, Legal, OnlyMoves
<1>6. Claimed'
  BY <1>1, <1>2, <1>3 DEF Claimed, OnlyMoves, Holding
<1> QED
  BY <1>2, <1>4, <1>5, <1>6 DEF IInv

LEMMA WebhookKeepsInv ==
  ASSUME IInv, WebhookConfirms
  PROVE  IInv' /\ status' \in Transitions[status]
<1>1. status \in States /\ status' \in Transitions[status]
      /\ UNCHANGED <<pc, call, orderRefunds>>
  BY DEF IInv, Shape, WebhookConfirms, money
<1>2. status' \in States /\ status \notin Terminal
  BY <1>1, TransitionFacts
<1>3. Shape' /\ Legal'
  BY <1>1, <1>2 DEF IInv, Shape, Legal
<1>4. Claimed'
  BY <1>1, <1>2 DEF IInv, Claimed, Holding
<1> QED
  BY <1>1, <1>3, <1>4 DEF IInv

-----------------------------------------------------------------------------
(* Every step keeps the invariant and is a step of the lifecycle.          *)
LEMMA StepKeepsInv ==
  ASSUME IInv, [Next]_vars
  PROVE  IInv' /\ (UNCHANGED status \/ status' \in Transitions[status])
<1>1. CASE UNCHANGED vars
  BY <1>1 DEF vars, order, money, IInv, Shape, Legal, Claimed, Holding
<1>2. CASE WebhookConfirms
  BY <1>2, WebhookKeepsInv
<1>3. ASSUME NEW c \in Callers,
             \/ \E to \in States : StatusRead(c, to)
             \/ StatusLines(c) \/ StatusCas(c) \/ ReleaseLine(c) \/ GatewayRefund(c)
      PROVE  IInv' /\ (UNCHANGED status \/ status' \in Transitions[status])
  BY <1>3, StatusReadKeepsInv, StatusLinesKeepsInv, StatusCasKeepsInv,
     ReleaseLineKeepsInv, GatewayRefundKeepsInv
<1>4. ASSUME NEW c \in Callers,
             \/ DeductLine(c) \/ MarkLine(c)
             \/ \E in \in RefundInputs : RefundRead(c, in)
             \/ RefundCheck(c) \/ RefundPay(c) \/ RefundBump(c) \/ RefundRecord(c)
             \/ \E i \in Rows : UndoMark(c, i)
             \/ UndoRead(c) \/ UndoWrite(c)
             \/ \E n \in Captures : CaptureRead(c, n)
             \/ CaptureWrite(c) \/ Crash(c)
      PROVE  IInv' /\ UNCHANGED status
  <2>1. Aside(c)
    BY <1>4, Asides
  <2> QED
    BY <2>1, AsideKeepsInv DEF Aside
<1> QED
  BY <1>1, <1>2, <1>3, <1>4 DEF Next

LEMMA InvAlways == Spec => []IInv
<1>1. IInv /\ [Next]_vars => IInv'
  BY StepKeepsInv
<1> QED
  BY InvInit, <1>1, PTL DEF Spec

(* However many callers cancel and refund one order at once, its           *)
(* order-level refund is sent to the gateway at most once.                 *)
THEOREM OrderRefundOnceAlways == Spec => []OrderRefundOnce
<1>1. IInv => OrderRefundOnce
  BY DEF IInv, Claimed, OrderRefundOnce
<1> QED
  BY <1>1, InvAlways, PTL

(* Whoever races, an order's status only takes the machine's transitions.  *)
THEOREM ImplementsLifecycleAlways == Spec => ImplementsLifecycle
<1>1. Init => Lifecycle!Init
  BY DEF Init, Lifecycle!Init
<1>2. IInv /\ IInv' /\ [Next]_vars => [Lifecycle!Next]_status
  <2> SUFFICES ASSUME IInv, IInv', [Next]_vars, status' # status
               PROVE  Lifecycle!Next
    OBVIOUS
  <2>1. status' \in States /\ status' \in Transitions[status]
    BY StepKeepsInv DEF IInv, Shape
  <2> QED
    BY <2>1 DEF Lifecycle!Next, Lifecycle!Move, Lifecycle!CanTransition
<1> QED
  BY <1>1, <1>2, InvAlways, PTL DEF Spec, ImplementsLifecycle, Lifecycle!Spec

-----------------------------------------------------------------------------
(* Calls that follow one another: a line in the loop of a caller has not   *)
(* shipped, except the one it is about to mark.                            *)

ShipTypes ==
  /\ pc \in [Callers -> Steps]
  /\ call = [c \in Callers |-> call[c]]
  /\ todo \in [Callers -> SUBSET Lines]
  /\ shipments \in [Lines -> Nat]
  /\ crashes \in Nat

OneAtATime == \A c, d \in Callers : pc[c] # "idle" /\ pc[d] # "idle" => c = d

Marking(c, l) == pc[c] = "mark" /\ call[c].line = l

ShippedIsMarked ==
  \A l \in Lines :
    shipments[l] # 0 =>
      /\ shipments[l] = 1
      /\ l \in fulfilled \/ \E c \in Callers : Marking(c, l)

TodoIsUnshipped ==
  \A c \in Callers : \A l \in todo[c] :
    /\ pc[c] \in {"cas", "deduct"} => l \notin fulfilled
    /\ pc[c] = "mark" /\ call[c].line # l => l \notin fulfilled

ShipInv ==
  /\ ShipTypes
  /\ Calm => OneAtATime /\ ShippedIsMarked /\ TodoIsUnshipped

(* A step of c that neither ships nor leads into the shipping steps. *)
ShipsNothing(c) ==
  /\ UNCHANGED <<fulfilled, shipments>>
  /\ OnlyMoves(c)
  /\ todo' \in [Callers -> SUBSET Lines]
  /\ \A d \in Callers \ {c} : todo'[d] = todo[d]
  /\ pc[c] # "mark"
  /\ pc'[c] \notin {"cas", "deduct", "mark"}
  /\ crashes' \in Nat
  /\ Calm' => Calm /\ \/ pc[c] # "idle"
                      \/ \A d \in Callers \ {c} : pc[d] = "idle"

LEMMA ShipInvInit == Init => ShipInv
BY DEF Init, ShipInv, ShipTypes, Steps, NoCall, OneAtATime, ShippedIsMarked,
       TodoIsUnshipped

LEMMA ShipsNothingKeeps ==
  ASSUME ShipInv, NEW c \in Callers, ShipsNothing(c)
  PROVE  ShipInv'
<1>1. ShipTypes'
  BY DEF ShipInv, ShipTypes, ShipsNothing, OnlyMoves
<1>2. ASSUME Calm'
      PROVE  OneAtATime' /\ ShippedIsMarked' /\ TodoIsUnshipped'
  <2>1. OneAtATime /\ ShippedIsMarked /\ TodoIsUnshipped
    BY <1>2 DEF ShipInv, ShipsNothing
  <2>2. OneAtATime'
    BY <1>2, <2>1 DEF OneAtATime, ShipsNothing, OnlyMoves
  <2>3. \A d \in Callers, l \in Lines : Marking(d, l) => Marking(d, l)'
    BY DEF Marking, ShipsNothing, OnlyMoves
  <2>4. ShippedIsMarked'
    BY <2>1, <2>3 DEF ShippedIsMarked, ShipsNothing
  <2>5. TodoIsUnshipped'
    BY <2>1 DEF TodoIsUnshipped, ShipsNothing, OnlyMoves
  <2> QED
    BY <2>2, <2>4, <2>5
<1> QED
  BY <1>1, <1>2 DEF ShipInv

LEMMA BeginsShipNothing ==
  ASSUME ShipInv, NEW c \in Callers,
         \/ \E to \in States : StatusRead(c, to)
         \/ \E in \in RefundInputs : RefundRead(c, in)
         \/ \E i \in Rows : UndoMark(c, i)
         \/ \E n \in Captures : CaptureRead(c, n)
  PROVE  ShipsNothing(c)
<1> USE DEF ShipsNothing, OnlyMoves, ShipInv, ShipTypes, Calm, Begin, order, money,
            Steps, StatusSteps, RefundSteps, UndoSteps
<1>1. CASE \E to \in States : StatusRead(c, to)
  BY <1>1 DEF StatusRead
<1>2. CASE \E in \in RefundInputs : RefundRead(c, in)
  BY <1>2 DEF RefundRead
<1>3. CASE \E i \in Rows : UndoMark(c, i)
  <2>1. PICK i \in Rows : UndoMark(c, i)
    BY <1>3
  <2>2. LinesOf(ledger[i]) \subseteq Lines
    BY DEF LinesOf
  <2>3. \E what : Begin(c, "undoRead", what)
    BY <2>1 DEF UndoMark
  <2> QED
    BY <2>1, <2>2, <2>3 DEF UndoMark
<1>4. CASE \E n \in Captures : CaptureRead(c, n)
  BY <1>4 DEF CaptureRead
<1> QED
  BY <1>1, <1>2, <1>3, <1>4

LEMMA OthersShipNothing ==
  ASSUME ShipInv, NEW c \in Callers,
         \/ ReleaseLine(c) \/ GatewayRefund(c)
         \/ RefundCheck(c) \/ RefundPay(c) \/ RefundBump(c) \/ RefundRecord(c)
         \/ UndoRead(c) \/ UndoWrite(c) \/ CaptureWrite(c)
  PROVE  ShipsNothing(c)
<1> USE DEF ShipsNothing, OnlyMoves, ShipInv, ShipTypes, Calm, At, Goto, Return,
            order, money, Steps, StatusSteps, RefundSteps, UndoSteps
<1>1. CASE ReleaseLine(c)
  BY <1>1 DEF ReleaseLine
<1>2. CASE GatewayRefund(c)
  BY <1>2 DEF GatewayRefund
<1>3. CASE RefundCheck(c)
  BY <1>3 DEF RefundCheck, LinesOf
<1>4. CASE RefundPay(c)
  BY <1>4 DEF RefundPay
<1>5. CASE RefundBump(c)
  BY <1>5 DEF RefundBump
<1>6. CASE RefundRecord(c)
  BY <1>6 DEF RefundRecord
<1>7. CASE UndoRead(c)
  BY <1>7 DEF UndoRead
<1>8. CASE UndoWrite(c)
  BY <1>8 DEF UndoWrite
<1>9. CASE CaptureWrite(c)
  BY <1>9 DEF CaptureWrite
<1> QED
  BY <1>1, <1>2, <1>3, <1>4, <1>5, <1>6, <1>7, <1>8, <1>9

(* What a step of the shipping loop does to a caller's own state. *)
ShipStep(c, from) ==
  /\ pc[c] = from
  /\ OnlyMoves(c)
  /\ todo' \in [Callers -> SUBSET Lines]
  /\ \A d \in Callers \ {c} : todo'[d] = todo[d]
  /\ UNCHANGED <<crashes, overlapped>>

LEMMA AloneInShipping ==
  ASSUME ShipInv, Calm', NEW c \in Callers, NEW from, ShipStep(c, from),
         from # "idle"
  PROVE  /\ OneAtATime /\ ShippedIsMarked /\ TodoIsUnshipped
         /\ \A d \in Callers \ {c} : pc[d] = "idle" /\ pc'[d] = "idle"
         /\ OneAtATime'
<1>1. OneAtATime /\ ShippedIsMarked /\ TodoIsUnshipped
  BY DEF ShipInv, ShipStep, Calm
<1> QED
  BY <1>1 DEF OneAtATime, ShipStep, OnlyMoves

LEMMA StatusLinesKeepsShip ==
  ASSUME ShipInv, NEW c \in Callers, StatusLines(c)
  PROVE  ShipInv'
<1>1. ShipStep(c, "lines") /\ UNCHANGED <<fulfilled, shipments>>
  BY DEF ShipStep, OnlyMoves, ShipInv, ShipTypes, StatusLines, At, Goto, Return,
         order, Steps, StatusSteps
<1>2. ShipTypes'
  BY <1>1 DEF ShipInv, ShipTypes, ShipStep, OnlyMoves
<1>3. \/ pc'[c] = "cas" /\ todo'[c] = Lines \ fulfilled
      \/ pc'[c] = "idle"
  BY DEF StatusLines, At, Goto, Return, ShipInv, ShipTypes
<1>4. ASSUME Calm'
      PROVE  OneAtATime' /\ ShippedIsMarked' /\ TodoIsUnshipped'
  <2>1. /\ OneAtATime' /\ ShippedIsMarked /\ TodoIsUnshipped
        /\ \A d \in Callers \ {c} : pc[d] = "idle" /\ pc'[d] = "idle"
    BY <1>1, <1>4, AloneInShipping
  <2>2. ShippedIsMarked'
    BY <1>1, <2>1 DEF ShippedIsMarked, Marking, ShipStep
  <2>3. TodoIsUnshipped'
    BY <1>1, <1>3, <2>1 DEF TodoIsUnshipped, ShipStep
  <2> QED
    BY <2>1, <2>2, <2>3
<1> QED
  BY <1>2, <1>4 DEF ShipInv

LEMMA StatusCasKeepsShip ==
  ASSUME ShipInv, NEW c \in Callers, StatusCas(c)
  PROVE  ShipInv'
<1>1. ShipStep(c, "cas") /\ UNCHANGED <<fulfilled, shipments>>
  BY DEF ShipStep, OnlyMoves, ShipInv, ShipTypes, StatusCas, AfterCas, At, Goto,
         Return, Steps, StatusSteps
<1>2. ShipTypes'
  BY <1>1 DEF ShipInv, ShipTypes, ShipStep, OnlyMoves
<1>3. \/ pc'[c] \in {"release", "deduct"} /\ todo'[c] = todo[c]
      \/ pc'[c] = "idle"
  BY DEF StatusCas, AfterCas, At, Goto, Return, ShipInv, ShipTypes
<1>4. ASSUME Calm'
      PROVE  OneAtATime' /\ ShippedIsMarked' /\ TodoIsUnshipped'
  <2>1. /\ OneAtATime' /\ ShippedIsMarked /\ TodoIsUnshipped
        /\ \A d \in Callers \ {c} : pc[d] = "idle" /\ pc'[d] = "idle"
    BY <1>1, <1>4, AloneInShipping
  <2>2. ShippedIsMarked'
    BY <1>1, <2>1 DEF ShippedIsMarked, Marking, ShipStep
  <2>3. TodoIsUnshipped'
    BY <1>1, <1>3, <2>1 DEF TodoIsUnshipped, ShipStep
  <2> QED
    BY <2>1, <2>2, <2>3
<1> QED
  BY <1>2, <1>4 DEF ShipInv

(* The line a caller takes out of stock has not been taken before: it is   *)
(* not marked as fulfilled, and nobody else is about to mark one.          *)
LEMMA DeductLineKeepsShip ==
  ASSUME ShipInv, NEW c \in Callers, DeductLine(c)
  PROVE  ShipInv'
<1>1. CASE pc'[c] = "idle"
  <2>1. todo[c] = {} /\ Return(c) /\ UNCHANGED <<shipments, fulfilled>> /\ At(c, "deduct")
    BY <1>1 DEF DeductLine, ShipInv, ShipTypes, order
  <2>2. ShipsNothing(c)
    BY <2>1 DEF ShipsNothing, OnlyMoves, ShipInv, ShipTypes, Calm, Return, At, Steps
  <2> QED
    BY <2>2, ShipsNothingKeeps
<1>2. CASE pc'[c] # "idle"
  <2>1. PICK l \in todo[c] :
          /\ shipments' = [shipments EXCEPT ![l] = @ + 1]
          /\ call' = [call EXCEPT ![c] = [kind |-> "ship", line |-> l]]
          /\ pc' = [pc EXCEPT ![c] = "mark"]
          /\ UNCHANGED <<todo, fulfilled>>
    BY <1>2 DEF DeductLine, Return, ShipInv, ShipTypes, order
  <2>2. ShipStep(c, "deduct")
    BY <2>1 DEF ShipStep, OnlyMoves, ShipInv, ShipTypes, DeductLine, At, Steps,
                StatusSteps
  <2>3. ShipTypes'
    BY <2>1, <2>2 DEF ShipInv, ShipTypes, ShipStep, OnlyMoves
  <2>4. ASSUME Calm'
        PROVE  OneAtATime' /\ ShippedIsMarked' /\ TodoIsUnshipped'
    <3>1. /\ OneAtATime' /\ ShippedIsMarked /\ TodoIsUnshipped
          /\ \A d \in Callers \ {c} : pc[d] = "idle" /\ pc'[d] = "idle"
      BY <2>2, <2>4, AloneInShipping
    <3>2. \A d \in Callers, k \in Lines : ~Marking(d, k)
      BY <2>2, <3>1 DEF Marking, ShipStep
    <3>3. l \in Lines /\ l \notin fulfilled /\ shipments[l] = 0
      BY <2>2, <3>1, <3>2 DEF ShipInv, ShipTypes, TodoIsUnshipped, ShippedIsMarked,
                              ShipStep
    <3>4. Marking(c, l)'
      BY <2>1 DEF Marking, ShipInv, ShipTypes
    <3>5. ShippedIsMarked'
      BY <2>1, <3>1, <3>2, <3>3, <3>4 DEF ShippedIsMarked, ShipInv, ShipTypes
    <3>6. TodoIsUnshipped'
      BY <2>1, <2>2, <3>1 DEF TodoIsUnshipped, ShipStep, ShipInv, ShipTypes
    <3> QED
      BY <3>1, <3>5, <3>6
  <2> QED
    BY <2>3, <2>4 DEF ShipInv
<1> QED
  BY <1>1, <1>2

LEMMA MarkLineKeepsShip ==
  ASSUME ShipInv, NEW c \in Callers, MarkLine(c)
  PROVE  ShipInv'
<1>1. /\ ShipStep(c, "mark")
      /\ fulfilled' = fulfilled \cup {call[c].line}
      /\ todo'[c] = todo[c] \ {call[c].line}
      /\ pc'[c] = "deduct"
      /\ UNCHANGED shipments
  BY DEF ShipStep, OnlyMoves, ShipInv, ShipTypes, MarkLine, At, Goto, Steps,
         StatusSteps
<1>2. ShipTypes'
  BY <1>1 DEF ShipInv, ShipTypes, ShipStep, OnlyMoves
<1>3. ASSUME Calm'
      PROVE  OneAtATime' /\ ShippedIsMarked' /\ TodoIsUnshipped'
  <2>1. /\ OneAtATime' /\ ShippedIsMarked /\ TodoIsUnshipped
        /\ \A d \in Callers \ {c} : pc[d] = "idle" /\ pc'[d] = "idle"
    BY <1>1, <1>3, AloneInShipping
  <2>2. ShippedIsMarked'
    BY <1>1, <2>1 DEF ShippedIsMarked, Marking
  <2>3. TodoIsUnshipped'
    BY <1>1, <2>1 DEF TodoIsUnshipped, ShipStep
  <2> QED
    BY <2>1, <2>2, <2>3
<1> QED
  BY <1>2, <1>3 DEF ShipInv

LEMMA CrashKeepsShip ==
  ASSUME ShipInv, NEW c \in Callers, Crash(c)
  PROVE  ShipInv'
<1>1. ShipTypes'
  BY DEF ShipInv, ShipTypes, Crash, Return, order, Steps
<1>2. ~Calm'
  BY DEF ShipInv, ShipTypes, Crash, Calm
<1> QED
  BY <1>1, <1>2 DEF ShipInv

LEMMA ShipStepKeepsInv ==
  ASSUME ShipInv, [Next]_vars
  PROVE  ShipInv'
<1>1. CASE UNCHANGED vars \/ WebhookConfirms
  <2>1. UNCHANGED <<pc, call, todo, fulfilled, shipments, crashes, overlapped>>
    BY <1>1 DEF vars, order, money, WebhookConfirms
  <2> QED
    BY <2>1 DEF ShipInv, ShipTypes, Calm, OneAtATime, ShippedIsMarked, Marking,
                TodoIsUnshipped
<1>2. ASSUME NEW c \in Callers,
             \/ \E to \in States : StatusRead(c, to)
             \/ \E in \in RefundInputs : RefundRead(c, in)
             \/ \E i \in Rows : UndoMark(c, i)
             \/ \E n \in Captures : CaptureRead(c, n)
             \/ ReleaseLine(c) \/ GatewayRefund(c)
             \/ RefundCheck(c) \/ RefundPay(c) \/ RefundBump(c) \/ RefundRecord(c)
             \/ UndoRead(c) \/ UndoWrite(c) \/ CaptureWrite(c)
      PROVE  ShipInv'
  BY <1>2, BeginsShipNothing, OthersShipNothing, ShipsNothingKeeps
<1>3. ASSUME NEW c \in Callers,
             \/ StatusLines(c) \/ StatusCas(c) \/ DeductLine(c) \/ MarkLine(c)
             \/ Crash(c)
      PROVE  ShipInv'
  BY <1>3, StatusLinesKeepsShip, StatusCasKeepsShip, DeductLineKeepsShip,
     MarkLineKeepsShip, CrashKeepsShip
<1> QED
  BY <1>1, <1>2, <1>3 DEF Next

(* For any number of calls that follow one another, partially_fulfilled    *)
(* and fulfilled together take each line out of stock at most once.        *)
THEOREM ShipsOnceAlways == Spec => []ShipsOnce
<1>1. ShipInv /\ [Next]_vars => ShipInv'
  BY ShipStepKeepsInv
<1>2. ShipInv => ShipsOnce
  BY DEF ShipInv, ShipTypes, ShipsOnce, ShippedIsMarked
<1> QED
  BY ShipInvInit, <1>1, <1>2, PTL DEF Spec

-----------------------------------------------------------------------------
(* What the rows R of a ledger L paid, and the units of line l that its    *)
(* refunds that stand took back.                                           *)
AmountIn(L, R) == SumOver([i \in DOMAIN L |-> L[i].amount], R)
Standing(L)    == {i \in DOMAIN L : L[i].status = "completed"}
UnitsIn(L, l)  == SumOver([i \in DOMAIN L |-> L[i].quantity[l]], Standing(L))

LEMMA LedgerFacts ==
  ASSUME NEW L \in Seq(RefundRow)
  PROVE  /\ DOMAIN L = 1..Len(L) /\ Len(L) \in Nat
         /\ IsFiniteSet(DOMAIN L) /\ \A R \in SUBSET DOMAIN L : IsFiniteSet(R)
         /\ \A i \in DOMAIN L : L[i] \in RefundRow
<1>1. DOMAIN L = 1..Len(L) /\ Len(L) \in Nat /\ \A i \in DOMAIN L : L[i] \in RefundRow
  OBVIOUS
<1>2. IsFiniteSet(DOMAIN L)
  BY <1>1, FS_Interval
<1> QED
  BY <1>1, <1>2, FS_Subset

LEMMA AmountIsSum ==
  ASSUME ledger \in Seq(RefundRow), NEW R \in SUBSET Rows
  PROVE  AmountOf(R) = AmountIn(ledger, R)
<1> DEFINE f == [i \in Rows |-> ledger[i].amount]
           P(g) == g = [s \in SUBSET R |->
                          IF s = {} THEN 0
                          ELSE ledger[PickFrom(s)].amount + g[s \ {PickFrom(s)}]]
<1>1. AmountOf(R) = (CHOOSE g : P(g))[R]
  BY DEF AmountOf, MapThenSumSet, MapThenFoldSet, PickFrom
<1>2. ASSUME NEW g PROVE P(g) <=> Totals(f, R, g)
  <2>1. \A s \in SUBSET R : s # {} => f[PickFrom(s)] = ledger[PickFrom(s)].amount
    BY PickFromIn
  <2>2. [s \in SUBSET R |-> IF s = {} THEN 0
                          ELSE ledger[PickFrom(s)].amount + g[s \ {PickFrom(s)}]]
      = [s \in SUBSET R |-> IF s = {} THEN 0 ELSE f[PickFrom(s)] + g[s \ {PickFrom(s)}]]
    BY <2>1
  <2> QED
    BY <2>2 DEF Totals
<1> HIDE DEF f, P
<1>3. IsFiniteSet(R)
  BY LedgerFacts DEF Rows
<1>4. P(TheTotals(f, R))
  BY <1>2, <1>3, TheTotalsExist
<1>5. P(CHOOSE g : P(g))
  BY <1>4
<1>6. AmountOf(R) = SumOver(f, R)
  BY <1>1, <1>2, <1>3, <1>5, SumOfTotals
<1> QED
  BY <1>6 DEF f, AmountIn, Rows

LEMMA UnitsAreSum ==
  ASSUME ledger \in Seq(RefundRow), NEW l \in Lines
  PROVE  MapThenSumSet(LAMBDA i : ledger[i].quantity[l], CompletedRows) = UnitsIn(ledger, l)
<1> DEFINE R == CompletedRows
           f == [i \in Rows |-> ledger[i].quantity[l]]
           P(g) == g = [s \in SUBSET R |->
                          IF s = {} THEN 0
                          ELSE ledger[PickFrom(s)].quantity[l] + g[s \ {PickFrom(s)}]]
<1>0. R \subseteq Rows /\ R = Standing(ledger)
  BY DEF CompletedRows, Rows, Standing
<1>1. MapThenSumSet(LAMBDA i : ledger[i].quantity[l], R) = (CHOOSE g : P(g))[R]
  BY DEF MapThenSumSet, MapThenFoldSet, PickFrom
<1> HIDE DEF R
<1>2. ASSUME NEW g PROVE P(g) <=> Totals(f, R, g)
  <2>1. \A s \in SUBSET R : s # {} => f[PickFrom(s)] = ledger[PickFrom(s)].quantity[l]
    BY <1>0, PickFromIn
  <2>2. [s \in SUBSET R |-> IF s = {} THEN 0
                          ELSE ledger[PickFrom(s)].quantity[l] + g[s \ {PickFrom(s)}]]
      = [s \in SUBSET R |-> IF s = {} THEN 0 ELSE f[PickFrom(s)] + g[s \ {PickFrom(s)}]]
    BY <2>1
  <2> QED
    BY <2>2 DEF Totals
<1> HIDE DEF f, P
<1>3. IsFiniteSet(R)
  BY <1>0, LedgerFacts DEF Rows
<1>4. P(TheTotals(f, R))
  BY <1>2, <1>3, TheTotalsExist
<1>5. P(CHOOSE g : P(g))
  BY <1>4
<1>6. MapThenSumSet(LAMBDA i : ledger[i].quantity[l], R) = SumOver(f, R)
  BY <1>1, <1>2, <1>3, <1>5, SumOfTotals
<1> QED
  BY <1>0, <1>6 DEF R, f, UnitsIn, Rows

(* The sums of a ledger are natural numbers. *)
LEMMA LedgerSums ==
  ASSUME NEW L \in Seq(RefundRow)
  PROVE  /\ AmountIn(L, DOMAIN L) \in Nat
         /\ \A R \in SUBSET DOMAIN L : AmountIn(L, R) \in Nat
         /\ \A l \in Lines : UnitsIn(L, l) \in Nat
<1>1. \A R \in SUBSET DOMAIN L : AmountIn(L, R) \in Nat
  <2> DEFINE f == [i \in DOMAIN L |-> L[i].amount]
  <2>1. \A i \in DOMAIN L : f[i] \in Nat
    BY LedgerFacts DEF RefundRow
  <2> HIDE DEF f
  <2>2. \A R \in SUBSET DOMAIN L : SumOver(f, R) \in Nat
    BY <2>1, LedgerFacts, SumPart
  <2> QED
    BY <2>2 DEF f, AmountIn
<1>2. ASSUME NEW l \in Lines PROVE UnitsIn(L, l) \in Nat
  <2> DEFINE f == [i \in DOMAIN L |-> L[i].quantity[l]]
  <2>1. \A i \in DOMAIN L : f[i] \in Nat
    <3>1. \A i \in DOMAIN L : L[i].quantity \in [Lines -> Nat]
      BY LedgerFacts DEF RefundRow
    <3> QED
      BY <3>1
  <2>2. Standing(L) \in SUBSET DOMAIN L
    BY DEF Standing
  <2> HIDE DEF f
  <2>3. SumOver(f, Standing(L)) \in Nat
    BY <2>1, <2>2, LedgerFacts, SumPart
  <2> QED
    BY <2>3 DEF f, UnitsIn
<1> QED
  BY <1>1, <1>2

(* A refund that is recorded adds its amount and its units. *)
LEMMA AppendedRow ==
  ASSUME NEW L \in Seq(RefundRow), NEW r \in RefundRow, r.status = "completed"
  PROVE  /\ Append(L, r) \in Seq(RefundRow)
         /\ AmountIn(Append(L, r), DOMAIN Append(L, r)) = AmountIn(L, DOMAIN L) + r.amount
         /\ \A l \in Lines : UnitsIn(Append(L, r), l) = UnitsIn(L, l) + r.quantity[l]
<1> DEFINE M == Append(L, r)
           n == Len(L) + 1
<1>1. /\ M \in Seq(RefundRow) /\ DOMAIN M = DOMAIN L \cup {n}
      /\ n \notin DOMAIN L /\ M[n] = r /\ \A i \in DOMAIN L : M[i] = L[i]
  OBVIOUS
<1> HIDE DEF M, n
<1>2. IsFiniteSet(DOMAIN L) /\ \A R \in SUBSET DOMAIN L : IsFiniteSet(R)
  BY LedgerFacts
<1>3. \A i \in DOMAIN M : M[i] \in RefundRow
  BY <1>1, LedgerFacts
<1>4. AmountIn(M, DOMAIN M) = AmountIn(L, DOMAIN L) + r.amount
  <2> DEFINE f == [i \in DOMAIN L |-> L[i].amount]
             g == [i \in DOMAIN M |-> M[i].amount]
  <2>1. /\ \A i \in DOMAIN L : f[i] = g[i] /\ g[i] \in Int
        /\ g[n] = r.amount /\ g[n] \in Int
    BY <1>1, <1>3 DEF RefundRow
  <2> HIDE DEF f, g
  <2>2. SumOver(f, DOMAIN L) = SumOver(g, DOMAIN L)
    BY <1>2, <2>1, SumSame
  <2>3. SumOver(g, DOMAIN L \cup {n}) = SumOver(g, DOMAIN L) + g[n]
    BY <1>1, <1>2, <2>1, SumAdd
  <2> QED
    BY <1>1, <2>1, <2>2, <2>3 DEF f, g, AmountIn
<1>5. ASSUME NEW l \in Lines PROVE UnitsIn(M, l) = UnitsIn(L, l) + r.quantity[l]
  <2> DEFINE f == [i \in DOMAIN L |-> L[i].quantity[l]]
             g == [i \in DOMAIN M |-> M[i].quantity[l]]
  <2>1. /\ \A i \in DOMAIN L : f[i] = g[i] /\ g[i] \in Int
        /\ g[n] = r.quantity[l] /\ g[n] \in Int
    BY <1>1, <1>3 DEF RefundRow
  <2>2. /\ Standing(M) = Standing(L) \cup {n} /\ n \notin Standing(L)
        /\ Standing(L) \subseteq DOMAIN L
    BY <1>1 DEF Standing
  <2> HIDE DEF f, g
  <2>3. SumOver(f, Standing(L)) = SumOver(g, Standing(L))
    BY <1>2, <2>1, <2>2, SumSame
  <2>4. SumOver(g, Standing(L) \cup {n}) = SumOver(g, Standing(L)) + g[n]
    BY <1>2, <2>1, <2>2, SumAdd
  <2> QED
    BY <2>1, <2>2, <2>3, <2>4 DEF f, g, UnitsIn
<1> QED
  BY <1>1, <1>4, <1>5 DEF M

(* A refund that is undone keeps its amount and gives its units back. *)
LEMMA UndoneRow ==
  ASSUME NEW L \in Seq(RefundRow), NEW i \in Standing(L)
  PROVE  LET M == [L EXCEPT ![i].status = "undone"] IN
         /\ M \in Seq(RefundRow)
         /\ AmountIn(M, DOMAIN M) = AmountIn(L, DOMAIN L)
         /\ \A l \in Lines : UnitsIn(L, l) = L[i].quantity[l] + UnitsIn(M, l)
<1> DEFINE r == [L[i] EXCEPT !.status = "undone"]
           M == [L EXCEPT ![i] = r]
<1>1. i \in DOMAIN L /\ L[i] \in RefundRow
  BY LedgerFacts DEF Standing
<1>2. r \in RefundRow /\ r.amount = L[i].amount /\ r.quantity = L[i].quantity
      /\ r.status = "undone"
  BY <1>1 DEF RefundRow
<1>3. M = [L EXCEPT ![i].status = "undone"]
  OBVIOUS
<1> HIDE DEF r
<1>4. /\ M \in Seq(RefundRow) /\ DOMAIN M = DOMAIN L /\ M[i] = r
      /\ \A j \in DOMAIN L : j # i => M[j] = L[j]
  BY <1>1, <1>2
<1> HIDE DEF M
<1>5. IsFiniteSet(DOMAIN L) /\ \A R \in SUBSET DOMAIN L : IsFiniteSet(R)
  BY LedgerFacts
<1>6. AmountIn(M, DOMAIN M) = AmountIn(L, DOMAIN L)
  <2> DEFINE f == [j \in DOMAIN L |-> L[j].amount]
             g == [j \in DOMAIN M |-> M[j].amount]
  <2>1. \A j \in DOMAIN L : g[j] = f[j]
    BY <1>2, <1>4
  <2> HIDE DEF f, g
  <2>2. SumOver(g, DOMAIN L) = SumOver(f, DOMAIN L)
    BY <1>5, <2>1, SumSame
  <2> QED
    BY <1>4, <2>2 DEF f, g, AmountIn
<1>7. ASSUME NEW l \in Lines PROVE UnitsIn(L, l) = L[i].quantity[l] + UnitsIn(M, l)
  <2> DEFINE f == [j \in DOMAIN L |-> L[j].quantity[l]]
             g == [j \in DOMAIN M |-> M[j].quantity[l]]
  <2>1. /\ \A j \in DOMAIN L : g[j] = f[j]
        /\ f[i] = L[i].quantity[l]
    BY <1>1, <1>2, <1>4
  <2>2. \A j \in DOMAIN L : f[j] \in Int
    <3>1. \A j \in DOMAIN L : L[j].quantity \in [Lines -> Nat]
      BY LedgerFacts DEF RefundRow
    <3> QED
      BY <3>1
  <2>3. Standing(M) = Standing(L) \ {i} /\ Standing(L) \subseteq DOMAIN L
    BY <1>2, <1>4 DEF Standing
  <2> HIDE DEF f, g
  <2>4. SumOver(f, Standing(L)) = f[i] + SumOver(f, Standing(L) \ {i})
    BY <1>5, <2>2, <2>3, SumRemove
  <2>5. SumOver(f, Standing(M)) = SumOver(g, Standing(M))
    BY <1>5, <2>1, <2>3, SumSame
  <2> QED
    BY <2>1, <2>3, <2>4, <2>5 DEF f, g, UnitsIn
<1> QED
  BY <1>3, <1>4, <1>6, <1>7

-----------------------------------------------------------------------------
(* Types. *)

LEMMA ProductNat == ASSUME NEW m \in Nat, NEW n \in Nat PROVE m * n \in Nat
OBVIOUS

LEMMA QuotientNat == ASSUME NEW m \in Nat, NEW n \in Nat \ {0} PROVE m \div n \in Nat
OBVIOUS

LEMMA RoundedNat ==
  ASSUME NEW m \in Nat, NEW n \in Nat \ {0}
  PROVE  Rounded(m, n) \in Nat
<1>1. 2 * m + n \in Nat /\ 2 * n \in Nat \ {0}
  OBVIOUS
<1> QED
  BY <1>1, QuotientNat DEF Rounded

LEMMA GrandTotalNat == GrandTotal \in Nat
<1>1. SumOver(LineValue, Lines) \in Nat
  BY OrdersAssumption, SumPart
<1> QED
  BY <1>1, OrdersAssumption DEF GrandTotal, SumOver

(* What the lines of a refund are worth. *)
LEMMA LinesValueNat ==
  ASSUME NEW in \in RefundInputs
  PROVE  LinesValue(in) \in Nat
<1> DEFINE R == LinesOf(in)
           worth(l) == Rounded(LineValue[l] * in.quantity[l], Quantity[l])
           f == [l \in Lines |-> worth(l)]
           P(g) == g = [s \in SUBSET R |->
                          IF s = {} THEN 0 ELSE worth(PickFrom(s)) + g[s \ {PickFrom(s)}]]
<1>0. R \in SUBSET Lines /\ IsFiniteSet(Lines) /\ IsFiniteSet(R)
  BY OrdersAssumption, FS_Subset DEF LinesOf
<1>1. LinesValue(in) = (CHOOSE g : P(g))[R]
  BY DEF LinesValue, MapThenSumSet, MapThenFoldSet, PickFrom
<1>2. \A l \in Lines : f[l] \in Nat
  <2> SUFFICES ASSUME NEW l \in Lines PROVE worth(l) \in Nat
    OBVIOUS
  <2>1. LineValue[l] \in Nat /\ in.quantity[l] \in Nat /\ Quantity[l] \in Nat \ {0}
    BY OrdersAssumption
  <2>2. LineValue[l] * in.quantity[l] \in Nat
    BY <2>1, ProductNat
  <2> QED
    BY <2>1, <2>2, RoundedNat
<1> HIDE DEF R
<1>3. ASSUME NEW g PROVE P(g) <=> Totals(f, R, g)
  <2>1. \A s \in SUBSET R : s # {} => f[PickFrom(s)] = worth(PickFrom(s))
    BY <1>0, PickFromIn
  <2> HIDE DEF worth, f
  <2>2. [s \in SUBSET R |-> IF s = {} THEN 0 ELSE worth(PickFrom(s)) + g[s \ {PickFrom(s)}]]
      = [s \in SUBSET R |-> IF s = {} THEN 0 ELSE f[PickFrom(s)] + g[s \ {PickFrom(s)}]]
    BY <2>1
  <2> QED
    BY <2>2 DEF Totals
<1> HIDE DEF worth, f, P
<1>4. P(TheTotals(f, R))
  BY <1>0, <1>3, TheTotalsExist
<1>5. P(CHOOSE g : P(g))
  BY <1>4
<1>6. LinesValue(in) = SumOver(f, R)
  BY <1>0, <1>1, <1>3, <1>5, SumOfTotals
<1>7. SumOver(f, R) \in Nat
  BY <1>0, <1>2, SumPart
<1> QED
  BY <1>6, <1>7

(* A refund that passed the first checks is of no negative amount. *)
LEMMA TotalAmountNat ==
  ASSUME NEW in \in RefundInputs, in.less = 0 \/ in.less < LinesValue(in)
  PROVE  TotalAmount(in) \in Nat
<1>1. in.less \in Nat /\ in.shipping \in Nat /\ in.adjustment \in Nat
  BY OrdersAssumption
<1> QED
  BY <1>1, LinesValueNat DEF TotalAmount

StatusCalls  == [kind : {"status"}, to : States, was : States,
                 captured : Nat \cup {NoAmount}]
ShipCalls    == [kind : {"ship"}, line : Lines]
RefundCalls  == [kind : {"refund"}, in : RefundInputs, was : [Lines -> Nat],
                 captured : Nat \cup {NoAmount}]
UndoCalls    == [kind : {"undo"}, quantity : [Lines -> Nat]]
UndoingCalls == [kind : {"undoing"}, line : Lines, quantity : [Lines -> Nat], was : Nat]
CaptureCalls == [kind : {"capture"}, amount : Captures]

(* What a call was given and has read, by the statement it is at. *)
CallFits(c) ==
  /\ pc[c] \in {"lines", "cas", "release", "gateway"} => call[c] \in StatusCalls
  /\ pc[c] = "mark" => call[c] \in ShipCalls
  /\ pc[c] \in RefundSteps => call[c] \in RefundCalls /\ TotalAmount(call[c].in) \in Nat
  /\ pc[c] = "undoRead" => call[c] \in UndoCalls \cup UndoingCalls
  /\ pc[c] = "undoWrite" => call[c] \in UndoingCalls
  /\ pc[c] = "capture" => call[c] \in CaptureCalls

TypeInv == TypeOK /\ \A c \in Callers : CallFits(c)

LEMMA CallKinds ==
  Calls = {NoCall} \cup StatusCalls \cup ShipCalls \cup RefundCalls \cup UndoCalls
            \cup UndoingCalls \cup CaptureCalls
BY DEF Calls, StatusCalls, ShipCalls, RefundCalls, UndoCalls, UndoingCalls, CaptureCalls

LEMMA TypeInvInit == Init => TypeInv
<1> SUFFICES ASSUME Init PROVE TypeInv
  OBVIOUS
<1>1. ledger \in Seq(RefundRow)
  BY DEF Init
<1>2. NoCall \in Calls
  BY CallKinds
<1>3. TypeOK
  BY <1>1, <1>2 DEF Init, TypeOK, InitialStates, States, Steps
<1>4. \A c \in Callers : CallFits(c)
  BY DEF Init, CallFits, RefundSteps
<1> QED
  BY <1>3, <1>4 DEF TypeInv

(* The types of everything but the calls. *)
StateTypes ==
  /\ status \in States /\ fulfilled \subseteq Lines /\ refunded \in [Lines -> Nat]
  /\ captured \in Nat \cup {NoAmount} /\ ledger \in Seq(RefundRow)
  /\ webhook \in {"none", "due", "processed"}
  /\ todo \in [Callers -> SUBSET Lines]
  /\ calls \in Nat /\ crashes \in Nat
  /\ paidBack \in Nat /\ overpaid \in BOOLEAN /\ orderRefunds \in Nat
  /\ shipments \in [Lines -> Nat] /\ overlapped \in BOOLEAN

(* A step of c is well typed if what it writes is, and the call it leaves  *)
(* fits the statement it goes to.                                          *)
LEMMA TypeInvStep ==
  ASSUME TypeInv, NEW c \in Callers, NEW step \in Steps, NEW what \in Calls,
         pc' = [pc EXCEPT ![c] = step], call' = [call EXCEPT ![c] = what],
         CallFits(c)', StateTypes'
  PROVE  TypeInv'
<1>1. pc' \in [Callers -> Steps] /\ call' \in [Callers -> Calls]
  BY DEF TypeInv, TypeOK
<1>2. ASSUME NEW d \in Callers PROVE CallFits(d)'
  <2>1. CASE d = c
    BY <2>1
  <2>2. CASE d # c
    <3>1. pc'[d] = pc[d] /\ call'[d] = call[d]
      BY <2>2 DEF TypeInv, TypeOK
    <3> QED
      BY <3>1 DEF CallFits, TypeInv
  <2> QED
    BY <2>1, <2>2
<1> QED
  BY <1>1, <1>2 DEF TypeInv, TypeOK, StateTypes

(* Where a call goes: it begins, moves on with or without a new reading,   *)
(* or returns.                                                             *)
LEMMA BeginTypes ==
  ASSUME TypeInv, NEW c \in Callers, NEW step \in Steps, NEW what \in Calls,
         Begin(c, step, what)
  PROVE  /\ pc' = [pc EXCEPT ![c] = step] /\ call' = [call EXCEPT ![c] = what]
         /\ pc'[c] = step /\ call'[c] = what
         /\ calls' \in Nat /\ overlapped' \in BOOLEAN
<1>1. calls \in Nat /\ c \in Callers /\ pc \in [Callers -> Steps] /\ call \in [Callers -> Calls]
  BY DEF TypeInv, TypeOK
<1>2. overlapped' \in BOOLEAN
  BY DEF Begin
<1> QED
  BY <1>1, <1>2 DEF Begin

LEMMA CallOverTypes ==
  ASSUME TypeInv, NEW c \in Callers, Return(c), 
         /\ status' \in States /\ fulfilled' \subseteq Lines /\ refunded' \in [Lines -> Nat]
         /\ captured' \in Nat \cup {NoAmount} /\ ledger' \in Seq(RefundRow)
         /\ webhook' \in {"none", "due", "processed"}
         /\ calls' \in Nat /\ crashes' \in Nat
         /\ paidBack' \in Nat /\ overpaid' \in BOOLEAN /\ orderRefunds' \in Nat
         /\ shipments' \in [Lines -> Nat] /\ overlapped' \in BOOLEAN
  PROVE  TypeInv'
<1>1. pc \in [Callers -> Steps] /\ call \in [Callers -> Calls] /\ todo \in [Callers -> SUBSET Lines]
  BY DEF TypeInv, TypeOK
<1>2. /\ pc' = [pc EXCEPT ![c] = "idle"] /\ call' = [call EXCEPT ![c] = NoCall]
      /\ todo' = [todo EXCEPT ![c] = {}]
  BY DEF Return
<1>3. "idle" \in Steps /\ NoCall \in Calls
  BY CallKinds DEF Steps
<1>4. pc'[c] = "idle" /\ todo' \in [Callers -> SUBSET Lines]
  BY <1>1, <1>2
<1>5. CallFits(c)'
  BY <1>4 DEF CallFits, RefundSteps
<1>6. StateTypes'
  BY <1>4 DEF StateTypes
<1> QED
  BY <1>2, <1>3, <1>5, <1>6, TypeInvStep

LEMMA StateTyped == TypeInv => StateTypes
BY DEF TypeInv, TypeOK, StateTypes

(* A call goes on as it is. *)
LEMMA GotoTypes ==
  ASSUME TypeInv, NEW c \in Callers, NEW step \in Steps, Goto(c, step), StateTypes',
         \/ /\ pc[c] \in {"lines", "cas", "release"}
            /\ step \in {"cas", "release", "gateway", "deduct"}
         \/ step = "deduct"
         \/ pc[c] \in RefundSteps /\ step \in RefundSteps
  PROVE  TypeInv'
<1>1. /\ pc \in [Callers -> Steps] /\ call \in [Callers -> Calls]
      /\ pc' = [pc EXCEPT ![c] = step] /\ call' = call
  BY DEF TypeInv, TypeOK, Goto
<1>2. pc'[c] = step /\ call' = [call EXCEPT ![c] = call[c]] /\ call[c] \in Calls
  BY <1>1
<1>3. CallFits(c)
  BY DEF TypeInv
<1>4. CallFits(c)'
  BY <1>1, <1>2, <1>3 DEF CallFits, RefundSteps
<1> QED
  BY <1>1, <1>2, <1>4, TypeInvStep

LEMMA BeginsKeepTypes ==
  ASSUME TypeInv, NEW c \in Callers,
         \/ \E to \in States : StatusRead(c, to)
         \/ \E in \in RefundInputs : RefundRead(c, in)
         \/ \E i \in Rows : UndoMark(c, i)
         \/ \E n \in Captures : CaptureRead(c, n)
  PROVE  TypeInv'
<1>0. StateTypes
  BY StateTyped
<1>1. ASSUME NEW to \in States, StatusRead(c, to) PROVE TypeInv'
  <2> DEFINE what == [kind |-> "status", to |-> to, was |-> status, captured |-> captured]
  <2>1. what \in StatusCalls /\ what \in Calls /\ "lines" \in Steps
    BY <1>0, CallKinds DEF StateTypes, StatusCalls, Steps, StatusSteps
  <2>2. Begin(c, "lines", what)
    BY <1>1 DEF StatusRead
  <2> HIDE DEF what
  <2>3. CallFits(c)'
    BY <2>1, <2>2, BeginTypes DEF CallFits, RefundSteps
  <2>4. StateTypes'
    BY <1>0, <1>1, <2>1, <2>2, BeginTypes DEF StatusRead, StateTypes, order, money
  <2> QED
    BY <2>1, <2>2, <2>3, <2>4, BeginTypes, TypeInvStep
<1>2. ASSUME NEW in \in RefundInputs, RefundRead(c, in) PROVE TypeInv'
  <2> DEFINE what == [kind |-> "refund", in |-> in, was |-> refunded, captured |-> captured]
  <2>1. what \in RefundCalls /\ what \in Calls /\ "check" \in Steps /\ what.in = in
    BY <1>0, CallKinds DEF StateTypes, RefundCalls, Steps, RefundSteps
  <2>2. Begin(c, "check", what) /\ TotalAmount(in) \in Nat
    BY <1>2, TotalAmountNat DEF RefundRead
  <2> HIDE DEF what
  <2>3. CallFits(c)'
    BY <2>1, <2>2, BeginTypes DEF CallFits, RefundSteps
  <2>4. StateTypes'
    BY <1>0, <1>2, <2>1, <2>2, BeginTypes DEF RefundRead, StateTypes, order, money
  <2> QED
    BY <2>1, <2>2, <2>3, <2>4, BeginTypes, TypeInvStep
<1>3. ASSUME NEW i \in Rows, UndoMark(c, i) PROVE TypeInv'
  <2> DEFINE what == [kind |-> "undo", quantity |-> ledger[i].quantity]
  <2>1. i \in Standing(ledger) /\ ledger[i] \in RefundRow
    BY <1>0, <1>3, LedgerFacts DEF UndoMark, CompletedRows, Rows, Standing, StateTypes
  <2>2. ledger[i].quantity \in [Lines -> Nat]
    BY <2>1 DEF RefundRow
  <2>3. what \in UndoCalls /\ what \in Calls /\ "undoRead" \in Steps
    BY <2>2, CallKinds DEF UndoCalls, Steps, UndoSteps
  <2>4. Begin(c, "undoRead", what)
    BY <1>3 DEF UndoMark
  <2> HIDE DEF what
  <2>5. CallFits(c)'
    BY <2>3, <2>4, BeginTypes DEF CallFits, RefundSteps
  <2>6. StateTypes'
    <3>1. ledger' = [ledger EXCEPT ![i].status = "undone"]
          /\ todo' = [todo EXCEPT ![c] = LinesOf(ledger[i])]
          /\ LinesOf(ledger[i]) \subseteq Lines
      BY <1>3 DEF UndoMark, LinesOf
    <3>2. ledger' \in Seq(RefundRow)
      BY <1>0, <2>1, <3>1, UndoneRow DEF StateTypes
    <3>3. todo' \in [Callers -> SUBSET Lines]
      BY <1>0, <3>1 DEF StateTypes
    <3> QED
      BY <1>0, <1>3, <2>3, <2>4, <3>2, <3>3, BeginTypes DEF UndoMark, StateTypes, money
  <2> QED
    BY <2>3, <2>4, <2>5, <2>6, BeginTypes, TypeInvStep
<1>4. ASSUME NEW n \in Captures, CaptureRead(c, n) PROVE TypeInv'
  <2> DEFINE what == [kind |-> "capture", amount |-> n]
  <2>1. what \in CaptureCalls /\ what \in Calls /\ "capture" \in Steps
    BY CallKinds DEF CaptureCalls, Steps
  <2>2. Begin(c, "capture", what)
    BY <1>4 DEF CaptureRead
  <2> HIDE DEF what
  <2>3. CallFits(c)'
    BY <2>1, <2>2, BeginTypes DEF CallFits, RefundSteps
  <2>4. StateTypes'
    BY <1>0, <1>4, <2>1, <2>2, BeginTypes DEF CaptureRead, StateTypes, order, money
  <2> QED
    BY <2>1, <2>2, <2>3, <2>4, BeginTypes, TypeInvStep
<1> QED
  BY <1>1, <1>2, <1>3, <1>4

LEMMA StatusStepsKeepTypes ==
  ASSUME TypeInv, NEW c \in Callers,
         StatusLines(c) \/ StatusCas(c) \/ ReleaseLine(c) \/ GatewayRefund(c)
  PROVE  TypeInv'
<1>0. /\ StateTypes /\ CallFits(c) /\ pc[c] \in Steps
      /\ {"cas", "release", "gateway", "deduct", "idle"} \subseteq Steps
  BY StateTyped DEF TypeInv, TypeOK, Steps, StatusSteps
<1>1. CASE StatusLines(c)
  <2>1. CASE Return(c)
    BY <1>0, <1>1, <2>1, CallOverTypes DEF StatusLines, At, StateTypes, order, money
  <2>2. CASE ~Return(c)
    <3>1. Goto(c, "cas") /\ todo' = [todo EXCEPT ![c] = Lines \ fulfilled] /\ pc[c] = "lines"
      BY <1>1, <2>2 DEF StatusLines, At
    <3>2. StateTypes'
      BY <1>0, <1>1, <3>1 DEF StatusLines, At, StateTypes, order, money
    <3> QED
      BY <1>0, <3>1, <3>2, GotoTypes
  <2> QED
    BY <2>1, <2>2
<1>2. CASE StatusCas(c)
  <2>1. pc[c] = "cas" /\ call[c] \in StatusCalls /\ call[c].to \in States
    BY <1>0, <1>2 DEF StatusCas, At, CallFits, StatusCalls
  <2>2. CASE Return(c)
    BY <1>0, <1>2, <2>1, <2>2, CallOverTypes DEF StatusCas, At, StateTypes, money
  <2>3. CASE ~Return(c)
    <3>1. /\ status' = call[c].to /\ AfterCas(c) # "idle"
          /\ Goto(c, AfterCas(c)) /\ UNCHANGED todo
      BY <1>2, <2>3 DEF StatusCas
    <3>2. AfterCas(c) \in {"release", "deduct"}
      BY <3>1 DEF AfterCas
    <3>3. StateTypes'
      BY <1>0, <1>2, <2>1, <3>1 DEF StatusCas, At, StateTypes, money
    <3> QED
      BY <1>0, <2>1, <3>1, <3>2, <3>3, GotoTypes
  <2> QED
    BY <2>2, <2>3
<1>3. CASE ReleaseLine(c)
  <2>1. todo' \in [Callers -> SUBSET Lines]
    BY <1>0, <1>3 DEF ReleaseLine, StateTypes
  <2>2. StateTypes'
    BY <1>0, <1>3, <2>1 DEF ReleaseLine, At, StateTypes, order, money
  <2>3. CASE UNCHANGED <<pc, call>>
    BY <2>2, <2>3 DEF TypeInv, TypeOK, CallFits, StateTypes
  <2>4. CASE Goto(c, "gateway")
    BY <1>0, <1>3, <2>2, <2>4, GotoTypes DEF ReleaseLine, At
  <2> QED
    BY <1>3, <2>3, <2>4 DEF ReleaseLine
<1>4. CASE GatewayRefund(c)
  <2> DEFINE most == LeftToRefund(c)
  <2>1. call[c] \in StatusCalls
    BY <1>0, <1>4 DEF GatewayRefund, At, CallFits
  <2>2. most \in Nat
    <3>1. AmountOf(Rows) \in Nat
      BY <1>0, AmountIsSum, LedgerSums DEF StateTypes, Rows
    <3>2. (IF call[c].captured = NoAmount THEN GrandTotal ELSE call[c].captured) \in Nat
      BY <2>1, GrandTotalNat DEF StatusCalls
    <3> HIDE DEF most
    <3>3. most = AtLeastZero(Least(GrandTotal,
                   IF call[c].captured = NoAmount THEN GrandTotal ELSE call[c].captured)
                     - AmountOf(Rows))
      BY DEF most, LeftToRefund
    <3> QED
      BY <3>1, <3>2, <3>3, GrandTotalNat DEF AtLeastZero, Least
  <2>3. PICK n \in Nat : PayBack(n) /\ orderRefunds' = orderRefunds + (IF n > 0 THEN 1 ELSE 0)
    BY <1>4, <2>2 DEF GatewayRefund
  <2>4. paidBack' \in Nat /\ overpaid' \in BOOLEAN /\ orderRefunds' \in Nat
    BY <1>0, <2>3 DEF PayBack, StateTypes
  <2> QED
    BY <1>0, <1>4, <2>4, CallOverTypes DEF GatewayRefund, At, StateTypes, order
<1> QED
  BY <1>1, <1>2, <1>3, <1>4

LEMMA ShippingKeepsTypes ==
  ASSUME TypeInv, NEW c \in Callers, DeductLine(c) \/ MarkLine(c)
  PROVE  TypeInv'
<1>0. /\ StateTypes /\ CallFits(c)
      /\ {"mark", "deduct"} \subseteq Steps
  BY StateTyped DEF TypeInv, TypeOK, Steps, StatusSteps
<1>1. CASE DeductLine(c)
  <2>1. CASE Return(c) /\ UNCHANGED shipments
    BY <1>0, <1>1, <2>1, CallOverTypes DEF DeductLine, At, StateTypes, order, money
  <2>2. CASE ~(Return(c) /\ UNCHANGED shipments)
    <3>1. PICK l \in todo[c] :
            /\ shipments' = [shipments EXCEPT ![l] = @ + 1]
            /\ call' = [call EXCEPT ![c] = [kind |-> "ship", line |-> l]]
            /\ pc' = [pc EXCEPT ![c] = "mark"] /\ UNCHANGED todo
      BY <1>1, <2>2 DEF DeductLine
    <3> DEFINE what == [kind |-> "ship", line |-> l]
    <3>2. l \in Lines /\ what \in ShipCalls /\ what \in Calls
      BY <1>0, CallKinds DEF StateTypes, ShipCalls
    <3>3. pc'[c] = "mark" /\ call'[c] = what
      BY <3>1 DEF TypeInv, TypeOK
    <3> HIDE DEF what
    <3>4. CallFits(c)'
      BY <3>2, <3>3 DEF CallFits, RefundSteps
    <3>5. shipments' \in [Lines -> Nat]
      BY <1>0, <3>1, <3>2 DEF StateTypes
    <3>6. StateTypes'
      BY <1>0, <1>1, <3>1, <3>5 DEF DeductLine, At, StateTypes, order, money
    <3> QED
      BY <1>0, <3>1, <3>2, <3>4, <3>6, TypeInvStep DEF what
  <2> QED
    BY <2>1, <2>2
<1>2. CASE MarkLine(c)
  <2>1. call[c].line \in Lines
    BY <1>0, <1>2 DEF MarkLine, At, CallFits, ShipCalls
  <2>2. fulfilled' \subseteq Lines /\ todo' \in [Callers -> SUBSET Lines]
    BY <1>0, <1>2, <2>1 DEF MarkLine, StateTypes
  <2>3. StateTypes'
    BY <1>0, <1>2, <2>2 DEF MarkLine, At, StateTypes, money
  <2> QED
    BY <1>0, <1>2, <2>3, GotoTypes DEF MarkLine
<1> QED
  BY <1>1, <1>2

LEMMA RefundsKeepTypes ==
  ASSUME TypeInv, NEW c \in Callers,
         RefundCheck(c) \/ RefundPay(c) \/ RefundBump(c) \/ RefundRecord(c)
  PROVE  TypeInv'
<1>0. /\ StateTypes /\ CallFits(c)
      /\ {"pay", "bump", "record"} \subseteq Steps
      /\ {"check", "pay", "bump", "record"} = RefundSteps
  BY StateTyped DEF TypeInv, TypeOK, Steps, RefundSteps
<1>1. /\ pc[c] \in RefundSteps
      /\ call[c] \in RefundCalls /\ TotalAmount(call[c].in) \in Nat
  BY <1>0 DEF RefundCheck, RefundPay, RefundBump, RefundRecord, At, CallFits
<1>2. /\ call[c].in \in RefundInputs /\ call[c].was \in [Lines -> Nat]
      /\ call[c].captured \in Nat \cup {NoAmount}
      /\ call[c].in.quantity \in [Lines -> Nat] /\ call[c].in.shipping \in Nat
  BY <1>1, OrdersAssumption DEF RefundCalls
<1>3. CASE RefundCheck(c)
  <2>1. CASE Return(c)
    BY <1>0, <1>3, <2>1, CallOverTypes DEF RefundCheck, At, StateTypes, order, money
  <2>2. CASE ~Return(c)
    <3>1. Goto(c, "pay") /\ todo' = [todo EXCEPT ![c] = LinesOf(call[c].in)]
      BY <1>3, <2>2 DEF RefundCheck
    <3>2. todo' \in [Callers -> SUBSET Lines]
      BY <1>0, <3>1 DEF StateTypes, LinesOf
    <3>3. StateTypes'
      BY <1>0, <1>3, <3>2 DEF RefundCheck, At, StateTypes, order, money
    <3> QED
      BY <1>0, <1>1, <3>1, <3>3, GotoTypes
  <2> QED
    BY <2>1, <2>2
<1>4. CASE RefundPay(c)
  <2>1. paidBack' \in Nat /\ overpaid' \in BOOLEAN
    <3>1. CASE call[c].captured = NoAmount
      BY <1>0, <1>4, <3>1 DEF RefundPay, StateTypes
    <3>2. CASE call[c].captured # NoAmount
      <4>1. PaidSoFar \in Nat
        BY <1>0, AmountIsSum, LedgerSums DEF StateTypes, Rows, PaidSoFar
      <4>2. call[c].captured \in Nat
        BY <1>2, <3>2
      <4> DEFINE n == Least(TotalAmount(call[c].in), AtLeastZero(call[c].captured - PaidSoFar))
      <4>3. n \in Nat
        BY <1>1, <4>1, <4>2 DEF Least, AtLeastZero
      <4>4. PayBack(n)
        BY <1>4, <3>2 DEF RefundPay
      <4> HIDE DEF n
      <4> QED
        BY <1>0, <4>3, <4>4 DEF PayBack, StateTypes
    <3> QED
      BY <3>1, <3>2
  <2>2. StateTypes'
    BY <1>0, <1>4, <2>1 DEF RefundPay, At, StateTypes, order
  <2> QED
    BY <1>0, <1>1, <1>4, <2>2, GotoTypes DEF RefundPay
<1>5. CASE RefundBump(c)
  <2>1. refunded' \in [Lines -> Nat] /\ todo' \in [Callers -> SUBSET Lines]
    <3>1. CASE UNCHANGED <<refunded, todo>>
      BY <1>0, <3>1 DEF StateTypes
    <3>2. ASSUME NEW l \in todo[c],
                 refunded' = [refunded EXCEPT ![l] = call[c].was[l] + call[c].in.quantity[l]],
                 todo' = [todo EXCEPT ![c] = @ \ {l}]
          PROVE  refunded' \in [Lines -> Nat] /\ todo' \in [Callers -> SUBSET Lines]
      <4>1. l \in Lines
        BY <1>0 DEF StateTypes
      <4>2. call[c].was[l] \in Nat /\ call[c].in.quantity[l] \in Nat
        BY <1>2, <4>1
      <4>3. call[c].was[l] + call[c].in.quantity[l] \in Nat
        BY <4>2
      <4> QED
        BY <1>0, <3>2, <4>3 DEF StateTypes
    <3> QED
      BY <1>5, <3>1, <3>2 DEF RefundBump
  <2>2. StateTypes'
    BY <1>0, <1>5, <2>1 DEF RefundBump, At, StateTypes, money
  <2>3. CASE UNCHANGED <<pc, call>>
    BY <2>2, <2>3 DEF TypeInv, TypeOK, CallFits, StateTypes
  <2>4. CASE Goto(c, "record")
    BY <1>0, <1>1, <2>2, <2>4, GotoTypes
  <2> QED
    BY <1>5, <2>3, <2>4 DEF RefundBump
<1>6. CASE RefundRecord(c)
  <2> DEFINE r == [amount |-> TotalAmount(call[c].in), shipping |-> call[c].in.shipping,
                   quantity |-> call[c].in.quantity, by |-> c, status |-> "completed"]
  <2>1. r \in RefundRow
    BY <1>1, <1>2 DEF RefundRow
  <2>2. ledger' = Append(ledger, r)
    BY <1>6 DEF RefundRecord
  <2> HIDE DEF r
  <2>3. ledger' \in Seq(RefundRow)
    BY <1>0, <2>1, <2>2 DEF StateTypes
  <2> QED
    BY <1>0, <1>6, <2>3, CallOverTypes DEF RefundRecord, At, StateTypes, money
<1> QED
  BY <1>3, <1>4, <1>5, <1>6

LEMMA UndosKeepTypes ==
  ASSUME TypeInv, NEW c \in Callers, UndoRead(c) \/ UndoWrite(c)
  PROVE  TypeInv'
<1>0. /\ StateTypes /\ CallFits(c) /\ call[c] \in Calls
      /\ {"undoRead", "undoWrite"} \subseteq Steps
      /\ pc \in [Callers -> Steps] /\ call \in [Callers -> Calls]
  BY StateTyped DEF TypeInv, TypeOK, Steps, UndoSteps
<1>1. CASE UndoRead(c)
  <2>1. CASE Return(c)
    BY <1>0, <1>1, <2>1, CallOverTypes DEF UndoRead, At, StateTypes, order, money
  <2>2. CASE ~Return(c)
    <3>1. PICK l \in todo[c] :
             /\ call' = [call EXCEPT ![c] = [kind |-> "undoing", line |-> l,
                                            quantity |-> call[c].quantity,
                                            was |-> refunded[l]]]
             /\ pc' = [pc EXCEPT ![c] = "undoWrite"] /\ UNCHANGED todo
      BY <1>1, <2>2 DEF UndoRead
    <3> DEFINE what == [kind |-> "undoing", line |-> l, quantity |-> call[c].quantity,
                        was |-> refunded[l]]
    <3>2. call[c].quantity \in [Lines -> Nat]
      BY <1>0, <1>1 DEF UndoRead, At, CallFits, UndoCalls, UndoingCalls
    <3>3. l \in Lines /\ refunded[l] \in Nat
      BY <1>0 DEF StateTypes
    <3>4. what \in UndoingCalls
      BY <3>2, <3>3 DEF UndoingCalls
    <3> HIDE DEF what
    <3>5. what \in Calls
      BY <3>4, CallKinds
    <3>6. pc'[c] = "undoWrite" /\ call'[c] = what
      BY <1>0, <3>1 DEF what
    <3>7. CallFits(c)'
      BY <3>4, <3>6 DEF CallFits, RefundSteps
    <3>8. StateTypes'
      BY <1>0, <1>1, <3>1 DEF UndoRead, At, StateTypes, order, money
    <3> QED
      BY <1>0, <3>1, <3>5, <3>7, <3>8, TypeInvStep DEF what
  <2> QED
    BY <2>1, <2>2
<1>2. CASE UndoWrite(c)
  <2>1. call[c] \in UndoingCalls
    BY <1>0, <1>2 DEF UndoWrite, At, CallFits
  <2>2. /\ call[c].line \in Lines /\ call[c].was \in Nat
        /\ call[c].quantity[call[c].line] \in Nat
    BY <2>1 DEF UndoingCalls
  <2>3. Restored(call[c].was, call[c].quantity[call[c].line]) \in Nat
    BY <2>2 DEF Restored, AtLeastZero
  <2>4. refunded' \in [Lines -> Nat] /\ todo' \in [Callers -> SUBSET Lines]
    BY <1>0, <1>2, <2>3 DEF UndoWrite, StateTypes
  <2>5. StateTypes'
    BY <1>0, <1>2, <2>4 DEF UndoWrite, At, StateTypes, money
  <2>6. pc' = [pc EXCEPT ![c] = "undoRead"] /\ call' = [call EXCEPT ![c] = call[c]]
        /\ pc'[c] = "undoRead" /\ call'[c] = call[c]
    BY <1>0, <1>2 DEF UndoWrite
  <2>7. CallFits(c)'
    BY <2>1, <2>6 DEF CallFits, RefundSteps
  <2> QED
    BY <1>0, <2>5, <2>6, <2>7, TypeInvStep
<1> QED
  BY <1>1, <1>2

LEMMA TypeInvKept ==
  ASSUME TypeInv, [Next]_vars
  PROVE  TypeInv'
<1>0. StateTypes
  BY StateTyped
<1>1. CASE UNCHANGED vars
  BY <1>1 DEF vars, order, money, TypeInv, TypeOK, CallFits
<1>2. CASE WebhookConfirms
  <2>1. UNCHANGED <<pc, call>> /\ StateTypes'
    BY <1>0, <1>2 DEF WebhookConfirms, StateTypes, States, money
  <2> QED
    BY <2>1 DEF TypeInv, TypeOK, CallFits, StateTypes
<1>3. ASSUME NEW c \in Callers, CaptureWrite(c) PROVE TypeInv'
  <2>1. call[c].amount \in Nat
    BY <1>3, OrdersAssumption DEF CaptureWrite, At, TypeInv, CallFits, CaptureCalls
  <2>2. captured' \in Nat \cup {NoAmount} /\ webhook' \in {"none", "due", "processed"}
    BY <1>0, <1>3, <2>1 DEF CaptureWrite, StateTypes
  <2> QED
    BY <1>0, <1>3, <2>2, CallOverTypes DEF CaptureWrite, At, StateTypes, money
<1>4. ASSUME NEW c \in Callers, Crash(c) PROVE TypeInv'
  BY <1>0, <1>4, CallOverTypes DEF Crash, StateTypes, order, money
<1>5. ASSUME NEW c \in Callers,
             \/ \E to \in States : StatusRead(c, to)
             \/ \E in \in RefundInputs : RefundRead(c, in)
             \/ \E i \in Rows : UndoMark(c, i)
             \/ \E n \in Captures : CaptureRead(c, n)
      PROVE  TypeInv'
  BY <1>5, BeginsKeepTypes
<1>6. ASSUME NEW c \in Callers,
             \/ StatusLines(c) \/ StatusCas(c) \/ ReleaseLine(c) \/ GatewayRefund(c)
             \/ DeductLine(c) \/ MarkLine(c)
             \/ RefundCheck(c) \/ RefundPay(c) \/ RefundBump(c) \/ RefundRecord(c)
             \/ UndoRead(c) \/ UndoWrite(c)
      PROVE  TypeInv'
  BY <1>6, StatusStepsKeepTypes, ShippingKeepsTypes, RefundsKeepTypes, UndosKeepTypes
<1> QED
  BY <1>1, <1>2, <1>3, <1>4, <1>5, <1>6 DEF Next

(* An order's columns, its calls and its ledger keep their types: amounts, *)
(* units and totals stay whole and never negative, whoever races.          *)
THEOREM OrderTypes == Spec => []TypeOK
<1>1. TypeInv /\ [Next]_vars => TypeInv'
  BY TypeInvKept
<1>2. TypeInv => TypeOK
  BY DEF TypeInv
<1> QED
  BY TypeInvInit, <1>1, <1>2, PTL DEF Spec

-----------------------------------------------------------------------------
(* What the rows paid, in this state and in the next. *)
LEMMA PaidRows ==
  ledger \in Seq(RefundRow) =>
    AmountOf(Rows) = AmountIn(ledger, DOMAIN ledger) /\ AmountOf(Rows) \in Nat
BY AmountIsSum, LedgerSums DEF Rows

(* What the rows paid, in the next state. *)
LEMMA PaidRowsNext ==
  ledger' \in Seq(RefundRow) =>
    AmountOf(Rows)' = AmountIn(ledger', DOMAIN ledger') /\ AmountOf(Rows)' \in Nat
<1>1. (ledger \in Seq(RefundRow) =>
        AmountOf(Rows) = AmountIn(ledger, DOMAIN ledger) /\ AmountOf(Rows) \in Nat)'
  BY PaidRows, PTL
<1> QED
  BY <1>1

(* A ledger that is not touched adds up to the same. *)
LEMMA SameLedger ==
  ASSUME ledger \in Seq(RefundRow), ledger' = ledger
  PROVE  AmountOf(Rows)' = AmountOf(Rows)
BY PaidRows, PaidRowsNext

-----------------------------------------------------------------------------
(* Calls that follow one another. *)

Quoting    == {"lines", "cas", "release", "gateway"} \cup RefundSteps
Unrecorded == {"bump", "record"}

(* What c has had paid and not recorded yet. *)
InFlight(c) == IF pc[c] \in Unrecorded THEN TotalAmount(call[c].in) ELSE 0

(* A call that may pay read the captured amount and a live order; what     *)
(* left the gateway before the order came to an end is in the ledger, or   *)
(* on its way there.                                                       *)
Explained(c) ==
  /\ ~overpaid
  /\ pc[c] \in Quoting => call[c].captured = captured
  /\ pc[c] \in RefundSteps => status \notin Terminal
  /\ status \notin Terminal \/ pc[c] \in Holding =>
       paidBack <= AmountOf(Rows) + InFlight(c)

(* A line's units are those of the refunds that stand, and of the lines    *)
(* that a refund has written and not recorded, or an undo has marked and   *)
(* not yet written.                                                        *)
UnitsFit(c) ==
  /\ pc[c] = "pay" => todo[c] = LinesOf(call[c].in)
  /\ pc[c] = "undoWrite" => call[c].line \in todo[c] /\ call[c].was = refunded[call[c].line]
  /\ \A l \in Lines :
       /\ pc[c] \notin Unrecorded \cup UndoSteps => refunded[l] = UnitsIn(ledger, l)
       /\ pc[c] \in RefundSteps => call[c].was[l] = UnitsIn(ledger, l)
       /\ pc[c] = "bump" =>
            refunded[l] = UnitsIn(ledger, l) +
                            (IF l \in todo[c] THEN 0 ELSE call[c].in.quantity[l])
       /\ pc[c] = "record" =>
            refunded[l] = UnitsIn(ledger, l) + call[c].in.quantity[l]
       /\ pc[c] \in UndoSteps =>
            refunded[l] = UnitsIn(ledger, l) +
                            (IF l \in todo[c] THEN call[c].quantity[l] ELSE 0)

Lone(c) == \A d \in Callers \ {c} : pc[d] = "idle"

SequentialInv ==
  Calm =>
    /\ ~overpaid
    /\ \A c \in Callers : Lone(c) => Explained(c) /\ UnitsFit(c)
    /\ Callers = {} => \A l \in Lines : refunded[l] = UnitsIn(ledger, l)

AllInv == IInv /\ ShipInv /\ TypeInv /\ SequentialInv

LEMMA SequentialInit == Init => SequentialInv
<1> SUFFICES ASSUME Init PROVE SequentialInv
  OBVIOUS
<1>1. /\ ledger \in Seq(RefundRow) /\ ledger = <<>> /\ ~overpaid /\ paidBack = 0
      /\ \A c \in Callers : pc[c] = "idle"
      /\ \A l \in Lines : refunded[l] = 0
  BY DEF Init
<1>2. ASSUME NEW c \in Callers PROVE Explained(c)
  BY <1>1, PaidRows DEF Explained, InFlight, Quoting, RefundSteps, Holding, Unrecorded
<1>3. ASSUME NEW l \in Lines PROVE UnitsIn(ledger, l) = 0
  <2>1. Standing(ledger) = {}
    BY <1>1 DEF Standing
  <2> QED
    BY <2>1, SumEmpty DEF UnitsIn
<1>4. ASSUME NEW c \in Callers PROVE UnitsFit(c)
  BY <1>1, <1>3 DEF UnitsFit, RefundSteps, UndoSteps, Unrecorded
<1> QED
  BY <1>1, <1>2, <1>3, <1>4 DEF SequentialInv

(* A call that is under way while calls follow one another is alone.       *)
LEMMA Alone ==
  ASSUME ShipInv, Calm, NEW c \in Callers, pc[c] # "idle"
  PROVE  \A d \in Callers \ {c} : pc[d] = "idle"
BY DEF ShipInv, OneAtATime

(* A call that begins while calls follow one another begins alone.         *)
LEMMA BeginsAlone ==
  ASSUME TypeInv, Calm', NEW c \in Callers, NEW step, NEW what, Begin(c, step, what),
         UNCHANGED crashes
  PROVE  Calm /\ \A d \in Callers : pc[d] = "idle"
BY DEF Begin, Calm


(* A step of the only call under way is all there is to look at.           *)
LEMMA LoneStep ==
  ASSUME AllInv, NEW c \in Callers, OnlyMoves(c), Calm' => Calm /\ Lone(c),
         Calm /\ Calm' /\ Explained(c) /\ UnitsFit(c) => Explained(c)' /\ UnitsFit(c)'
  PROVE  SequentialInv'
<1> SUFFICES ASSUME Calm'
             PROVE  ~overpaid' /\ \A d \in Callers : Lone(d)' => Explained(d)' /\ UnitsFit(d)'
  BY DEF SequentialInv
<1>1. Explained(c)' /\ UnitsFit(c)'
  BY DEF AllInv, SequentialInv
<1>2. ASSUME NEW d \in Callers, Lone(d)' PROVE Explained(d)' /\ UnitsFit(d)'
  <2>1. CASE d = c
    BY <1>1, <2>1
  <2>2. CASE d # c
    <3>1. pc'[c] = "idle" /\ pc'[d] = "idle"
      BY <1>2, <2>2 DEF Lone, OnlyMoves
    <3>2. Explained(d)'
      BY <1>1, <3>1 DEF Explained, InFlight, Quoting, RefundSteps, Holding, Unrecorded
    <3>3. UnitsFit(d)'
      BY <1>1, <3>1 DEF UnitsFit, RefundSteps, UndoSteps, Unrecorded
    <3> QED
      BY <3>2, <3>3
  <2> QED
    BY <2>1, <2>2
<1>3. ~overpaid'
  BY <1>1 DEF Explained
<1> QED
  BY <1>2, <1>3

Beginning(c) ==
  \/ \E to \in States : StatusRead(c, to)
  \/ \E in \in RefundInputs : RefundRead(c, in)
  \/ \E i \in Rows : UndoMark(c, i)
  \/ \E n \in Captures : CaptureRead(c, n)

GoingOn(c) ==
  \/ StatusLines(c) \/ StatusCas(c) \/ ReleaseLine(c) \/ GatewayRefund(c)
  \/ DeductLine(c) \/ MarkLine(c)
  \/ RefundCheck(c) \/ RefundPay(c) \/ RefundBump(c) \/ RefundRecord(c)
  \/ UndoRead(c) \/ UndoWrite(c) \/ CaptureWrite(c)

(* Every step moves its own call only, and in calm it is the only one.     *)
LEMMA StepsAreLone ==
  ASSUME AllInv, NEW c \in Callers, Beginning(c) \/ GoingOn(c)
  PROVE  OnlyMoves(c) /\ (Calm' => Calm /\ Lone(c))
<1>0. /\ pc \in [Callers -> Steps] /\ call = [d \in Callers |-> call[d]]
      /\ {"lines", "cas", "release", "gateway", "deduct", "idle"} \subseteq Steps
  BY DEF AllInv, IInv, Shape, Steps, StatusSteps
<1>1. OnlyMoves(c)
  <2>1. ASSUME NEW to \in States, StatusRead(c, to) PROVE OnlyMoves(c)
    BY <1>0, <2>1 DEF StatusRead, Begin, OnlyMoves
  <2>2. CASE StatusLines(c)
    BY <1>0, <2>2 DEF StatusLines, Goto, Return, OnlyMoves
  <2>3. CASE StatusCas(c)
    BY <1>0, <2>3 DEF StatusCas, AfterCas, Goto, Return, OnlyMoves
  <2>4. CASE ReleaseLine(c)
    BY <1>0, <2>4 DEF ReleaseLine, Goto, OnlyMoves
  <2>5. CASE GatewayRefund(c)
    BY <1>0, <2>5 DEF GatewayRefund, Return, OnlyMoves
  <2>6. CASE \/ DeductLine(c) \/ MarkLine(c)
             \/ \E in \in RefundInputs : RefundRead(c, in)
             \/ RefundCheck(c) \/ RefundPay(c) \/ RefundBump(c) \/ RefundRecord(c)
             \/ \E i \in Rows : UndoMark(c, i)
             \/ UndoRead(c) \/ UndoWrite(c)
             \/ \E n \in Captures : CaptureRead(c, n)
             \/ CaptureWrite(c)
    BY <2>6, Asides DEF Aside, AllInv
  <2> QED
    BY <2>1, <2>2, <2>3, <2>4, <2>5, <2>6 DEF Beginning, GoingOn
<1>2. ASSUME Beginning(c), Calm' PROVE Calm /\ Lone(c)
  <2>1. (\E step, what : Begin(c, step, what)) /\ UNCHANGED crashes
    BY <1>2 DEF Beginning, StatusRead, RefundRead, UndoMark, CaptureRead
  <2> QED
    BY <1>2, <2>1, BeginsAlone DEF AllInv, Lone
<1>3. ASSUME GoingOn(c), Calm' PROVE Calm /\ Lone(c)
  <2>1. (\E step \in Steps \ {"idle"} : At(c, step))
    <3>1. {"lines", "cas", "release", "gateway", "deduct", "mark", "check", "pay", "bump",
           "record", "undoRead", "undoWrite", "capture"} \subseteq Steps \ {"idle"}
      BY DEF Steps, StatusSteps, RefundSteps, UndoSteps
    <3> QED
      BY <1>3, <3>1 DEF GoingOn, StatusLines, StatusCas, ReleaseLine, GatewayRefund, DeductLine,
                        MarkLine, RefundCheck, RefundPay, RefundBump, RefundRecord, UndoRead,
                        UndoWrite, CaptureWrite
  <2>2. Calm /\ pc[c] # "idle"
    BY <1>3, <2>1 DEF At, Calm
  <2> QED
    BY <2>2, Alone DEF AllInv, Lone
<1> QED
  BY <1>1, <1>2, <1>3

-----------------------------------------------------------------------------
(* The money. *)

LEMMA BeginsExplained ==
  ASSUME AllInv, NEW c \in Callers, Beginning(c), Explained(c)
  PROVE  Explained(c)'
<1> USE DEF Explained, InFlight, Quoting, RefundSteps, Holding, Unrecorded
<1>0. /\ ledger \in Seq(RefundRow) /\ pc \in [Callers -> Steps] /\ call \in [Callers -> Calls]
  BY DEF AllInv, TypeInv, TypeOK
<1>1. ASSUME NEW to \in States, StatusRead(c, to) PROVE Explained(c)'
  <2>1. /\ pc[c] = "idle" /\ pc'[c] = "lines" /\ call'[c].captured = captured
        /\ UNCHANGED <<status, captured, ledger, paidBack, overpaid>>
    BY <1>0, <1>1 DEF StatusRead, Begin, order, money
  <2> QED
    BY <1>0, <2>1, SameLedger
<1>2. ASSUME NEW in \in RefundInputs, RefundRead(c, in) PROVE Explained(c)'
  <2>1. /\ pc[c] = "idle" /\ pc'[c] = "check" /\ call'[c].captured = captured
        /\ status \notin Terminal
        /\ UNCHANGED <<status, captured, ledger, paidBack, overpaid>>
    BY <1>0, <1>2 DEF RefundRead, Begin, order, money
  <2> QED
    BY <1>0, <2>1, SameLedger
<1>3. ASSUME NEW i \in Rows, UndoMark(c, i) PROVE Explained(c)'
  <2>1. /\ pc[c] = "idle" /\ pc'[c] = "undoRead"
        /\ UNCHANGED <<status, captured, paidBack, overpaid>>
        /\ i \in Standing(ledger) /\ ledger' = [ledger EXCEPT ![i].status = "undone"]
    BY <1>0, <1>3 DEF UndoMark, Begin, money, CompletedRows, Rows, Standing
  <2>2. /\ ledger' \in Seq(RefundRow)
        /\ AmountIn(ledger', DOMAIN ledger') = AmountIn(ledger, DOMAIN ledger)
    BY <1>0, <2>1, UndoneRow
  <2>3. AmountOf(Rows)' = AmountOf(Rows)
    BY <1>0, <2>2, PaidRows, PaidRowsNext
  <2> QED
    BY <2>1, <2>3
<1>4. ASSUME NEW n \in Captures, CaptureRead(c, n) PROVE Explained(c)'
  <2>1. /\ pc[c] = "idle" /\ pc'[c] = "capture"
        /\ UNCHANGED <<status, captured, ledger, paidBack, overpaid>>
    BY <1>0, <1>4 DEF CaptureRead, Begin, order, money
  <2> QED
    BY <1>0, <2>1, SameLedger
<1> QED
  BY <1>1, <1>2, <1>3, <1>4 DEF Beginning

(* The winner of the compare-and-swap found a live order; the order-level  *)
(* refund asks for what no refund, undone or not, has taken.               *)
LEMMA StatusStepsExplained ==
  ASSUME AllInv, NEW c \in Callers, Explained(c),
         StatusLines(c) \/ StatusCas(c) \/ ReleaseLine(c) \/ GatewayRefund(c)
  PROVE  Explained(c)'
<1> USE DEF Explained, InFlight, Quoting, RefundSteps, Holding, Unrecorded
<1>0. /\ ledger \in Seq(RefundRow) /\ pc \in [Callers -> Steps] /\ call \in [Callers -> Calls]
      /\ CallFits(c) /\ paidBack \in Nat /\ AmountOf(Rows) \in Nat
  BY PaidRows DEF AllInv, TypeInv, TypeOK
<1>1. CASE StatusLines(c)
  <2>1. /\ pc[c] = "lines" /\ UNCHANGED <<status, captured, ledger, paidBack, overpaid>>
        /\ pc'[c] = "idle" \/ (pc'[c] = "cas" /\ call'[c] = call[c])
    <3>1. pc[c] = "lines" /\ UNCHANGED <<status, captured, ledger, paidBack, overpaid>>
      BY <1>1 DEF StatusLines, At, order, money
    <3>2. Return(c) \/ Goto(c, "cas")
      BY <1>1 DEF StatusLines
    <3>3. CASE Return(c)
      <4>1. pc'[c] = "idle"
        BY <1>0, <3>3 DEF Return
      <4> QED
        BY <3>1, <4>1
    <3>4. CASE Goto(c, "cas")
      <4>1. pc'[c] = "cas" /\ call' = call
        BY <1>0, <3>4 DEF Goto
      <4> QED
        BY <3>1, <4>1
    <3> QED
      BY <3>2, <3>3, <3>4
  <2> QED
    BY <1>0, <2>1, SameLedger
<1>2. CASE StatusCas(c)
  <2>1. /\ pc[c] = "cas" /\ UNCHANGED <<captured, ledger, paidBack, overpaid>>
    BY <1>2 DEF StatusCas, At, money
  <2>2. CASE status' = status /\ pc'[c] = "idle"
    BY <1>0, <2>1, <2>2, SameLedger
  <2>3. CASE ~(status' = status /\ pc'[c] = "idle")
    <3>1. Wins(c) /\ (pc'[c] = "idle" \/ (pc'[c] \in {"release", "deduct"} /\ call'[c] = call[c]))
      <4>1. ~(Return(c) /\ UNCHANGED status)
        BY <1>0, <2>3 DEF Return
      <4>2. Wins(c) /\ (Return(c) \/ Goto(c, AfterCas(c)))
        BY <1>2, <4>1 DEF StatusCas
      <4>3. AfterCas(c) \in {"release", "deduct", "idle"}
        BY DEF AfterCas
      <4>4. CASE Return(c)
        <5>1. pc'[c] = "idle"
          BY <1>0, <4>4 DEF Return
        <5> QED
          BY <4>2, <5>1
      <4>5. CASE Goto(c, AfterCas(c))
        <5>1. pc'[c] = AfterCas(c) /\ call' = call
          BY <1>0, <4>5 DEF Goto
        <5> QED
          BY <4>2, <4>3, <5>1
      <4> QED
        BY <4>2, <4>4, <4>5
    <3>2. status \notin Terminal
      BY <2>1, <3>1, TransitionFacts DEF Wins, AllInv, IInv, Legal, Shape
    <3> QED
      BY <1>0, <2>1, <3>1, <3>2, SameLedger
  <2> QED
    BY <2>2, <2>3
<1>3. CASE ReleaseLine(c)
  <2>1. /\ pc[c] = "release" /\ UNCHANGED <<status, captured, ledger, paidBack, overpaid>>
        /\ pc'[c] \in {"release", "gateway"} /\ call'[c] = call[c]
    BY <1>0, <1>3 DEF ReleaseLine, At, Goto, order, money
  <2> QED
    BY <1>0, <2>1, SameLedger
<1>4. CASE GatewayRefund(c)
  <2> DEFINE most == LeftToRefund(c)
             limit == IF captured = NoAmount THEN GrandTotal ELSE captured
  <2>1. /\ pc[c] = "gateway" /\ pc'[c] = "idle" /\ UNCHANGED <<status, captured, ledger>>
        /\ \E n \in IF call[c].to = "refunded" /\ most > 0 THEN 1..most ELSE {most} : PayBack(n)
    BY <1>0, <1>4 DEF GatewayRefund, At, Return, order
  <2>2. status \in Terminal /\ call[c].captured = captured /\ paidBack <= AmountOf(Rows)
    BY <1>0, <2>1 DEF AllInv, IInv, Claimed
  <2>3. most = AtLeastZero(Least(GrandTotal, limit) - AmountOf(Rows))
    BY <2>2 DEF LeftToRefund
  <2>4. limit \in Nat /\ GrandTotal \in Nat
    BY GrandTotalNat DEF AllInv, TypeInv, TypeOK
  <2> HIDE DEF most, limit
  <2>5. most \in Nat /\ (most > 0 => AmountOf(Rows) + most <= limit)
    BY <1>0, <2>3, <2>4 DEF AtLeastZero, Least
  <2>6. PICK n \in Nat : n <= most /\ PayBack(n)
    BY <2>1, <2>5
  <2>7. n > 0 => paidBack + n <= limit
    BY <1>0, <2>2, <2>4, <2>5, <2>6
  <2>8. ~overpaid'
    <3>1. overpaid' = (overpaid \/ (n > 0 /\ paidBack + n > limit))
      BY <2>6 DEF PayBack, limit
    <3>2. ~(n > 0 /\ paidBack + n > limit)
      BY <1>0, <2>4, <2>6, <2>7
    <3> QED
      BY <3>1, <3>2, Zenon
  <2> QED
    BY <2>1, <2>2, <2>8
<1> QED
  BY <1>1, <1>2, <1>3, <1>4

(* A line refund pays no more than the captured amount leaves after all    *)
(* rows, and is recorded in full.                                          *)
LEMMA RefundsExplained ==
  ASSUME AllInv, NEW c \in Callers, Explained(c),
         RefundCheck(c) \/ RefundPay(c) \/ RefundBump(c) \/ RefundRecord(c)
  PROVE  Explained(c)'
<1> USE DEF Explained, InFlight, Quoting, RefundSteps, Holding, Unrecorded
<1>0. /\ ledger \in Seq(RefundRow) /\ pc \in [Callers -> Steps] /\ call \in [Callers -> Calls]
      /\ CallFits(c) /\ paidBack \in Nat /\ AmountOf(Rows) \in Nat
  BY PaidRows DEF AllInv, TypeInv, TypeOK
<1>1. CASE RefundCheck(c)
  <2>1. /\ pc[c] = "check" /\ UNCHANGED <<status, captured, ledger, paidBack, overpaid>>
        /\ pc'[c] = "idle" \/ (pc'[c] = "pay" /\ call'[c] = call[c])
    <3>1. pc[c] = "check" /\ UNCHANGED <<status, captured, ledger, paidBack, overpaid>>
      BY <1>1 DEF RefundCheck, At, order, money
    <3>2. Return(c) \/ Goto(c, "pay")
      BY <1>1 DEF RefundCheck
    <3>3. CASE Return(c)
      <4>1. pc'[c] = "idle"
        BY <1>0, <3>3 DEF Return
      <4> QED
        BY <3>1, <4>1
    <3>4. CASE Goto(c, "pay")
      <4>1. pc'[c] = "pay" /\ call' = call
        BY <1>0, <3>4 DEF Goto
      <4> QED
        BY <3>1, <4>1
    <3> QED
      BY <3>2, <3>3, <3>4
  <2> QED
    BY <1>0, <2>1, SameLedger
<1>2. CASE RefundPay(c)
  <2> DEFINE total == TotalAmount(call[c].in)
             n == Least(total, AtLeastZero(call[c].captured - PaidSoFar))
  <2>1. /\ pc[c] = "pay" /\ pc'[c] = "bump" /\ call'[c] = call[c]
        /\ UNCHANGED <<status, captured, ledger>>
    BY <1>0, <1>2 DEF RefundPay, At, Goto, order
  <2>2. /\ paidBack <= AmountOf(Rows) /\ status \notin Terminal
        /\ call[c].captured = captured /\ total \in Nat
    BY <1>0, <2>1 DEF CallFits
  <2>3. /\ ~overpaid' /\ paidBack' \in Nat
        /\ paidBack' <= AmountOf(Rows) + total
    <3>1. CASE captured = NoAmount
      <4>1. UNCHANGED <<paidBack, overpaid>>
        BY <1>2, <2>2, <3>1 DEF RefundPay
      <4> HIDE DEF total
      <4> QED
        BY <1>0, <2>2, <4>1
    <3>2. CASE captured # NoAmount
      <4>1. captured \in Nat /\ PaidSoFar = AmountOf(Rows)
        BY <3>2 DEF AllInv, TypeInv, TypeOK, PaidSoFar
      <4>2. PayBack(n)
        BY <1>2, <2>2, <3>2 DEF RefundPay
      <4> HIDE DEF total
      <4>3. n \in Nat /\ n <= total /\ (n > 0 => AmountOf(Rows) + n <= captured)
        BY <1>0, <2>2, <4>1 DEF Least, AtLeastZero
      <4> HIDE DEF n
      <4>4. ~(n > 0 /\ paidBack + n > captured)
        BY <1>0, <2>2, <4>1, <4>3
      <4>5. overpaid' = (overpaid \/ (n > 0 /\ paidBack + n > captured))
        BY <3>2, <4>2 DEF PayBack
      <4>6. ~overpaid'
        BY <4>4, <4>5, Zenon
      <4>7. paidBack' = paidBack + n
        BY <4>2 DEF PayBack
      <4> QED
        BY <1>0, <2>2, <4>3, <4>6, <4>7
    <3> QED
      BY <3>1, <3>2
  <2>4. AmountOf(Rows)' = AmountOf(Rows)
    BY <1>0, <2>1, SameLedger
  <2>5. TotalAmount(call'[c].in) = total
    BY <2>1
  <2> HIDE DEF total
  <2> QED
    BY <2>1, <2>2, <2>3, <2>4, <2>5
<1>3. CASE RefundBump(c)
  <2>1. /\ pc[c] = "bump" /\ UNCHANGED <<status, captured, ledger, paidBack, overpaid>>
        /\ pc'[c] \in {"bump", "record"} /\ call'[c] = call[c]
    BY <1>0, <1>3 DEF RefundBump, At, Goto, money
  <2> QED
    BY <1>0, <2>1, SameLedger
<1>4. CASE RefundRecord(c)
  <2> DEFINE in == call[c].in
             r == [amount |-> TotalAmount(in), shipping |-> in.shipping,
                   quantity |-> in.quantity, by |-> c, status |-> "completed"]
  <2>1. /\ pc[c] = "record" /\ pc'[c] = "idle"
        /\ UNCHANGED <<status, captured, paidBack, overpaid>>
        /\ ledger' = Append(ledger, r)
    BY <1>0, <1>4 DEF RefundRecord, At, Return, money
  <2>2. r \in RefundRow /\ r.amount = TotalAmount(in) /\ r.status = "completed"
    BY <1>0, <2>1, OrdersAssumption DEF CallFits, RefundCalls, RefundRow
  <2> HIDE DEF r
  <2>3. /\ ledger' \in Seq(RefundRow)
        /\ AmountIn(ledger', DOMAIN ledger') = AmountIn(ledger, DOMAIN ledger) + TotalAmount(in)
    BY <1>0, <2>1, <2>2, AppendedRow
  <2>4. AmountOf(Rows)' = AmountOf(Rows) + TotalAmount(in)
    BY <1>0, <2>3, PaidRows, PaidRowsNext
  <2>5. TotalAmount(in) \in Nat
    BY <1>0, <2>1 DEF CallFits
  <2>6. status \notin Terminal /\ paidBack <= AmountOf(Rows) + TotalAmount(in)
    BY <2>1
  <2> QED
    BY <1>0, <2>1, <2>4, <2>5, <2>6
<1> QED
  BY <1>1, <1>2, <1>3, <1>4

LEMMA OthersExplained ==
  ASSUME AllInv, NEW c \in Callers, Explained(c),
         \/ DeductLine(c) \/ MarkLine(c) \/ UndoRead(c) \/ UndoWrite(c) \/ CaptureWrite(c)
  PROVE  Explained(c)'
<1> USE DEF Explained, InFlight, Quoting, RefundSteps, Holding, Unrecorded
<1>0. /\ ledger \in Seq(RefundRow) /\ pc \in [Callers -> Steps]
  BY DEF AllInv, TypeInv, TypeOK
<1>1. /\ pc[c] \notin Quoting /\ pc'[c] \notin Quoting
      /\ UNCHANGED <<status, ledger, paidBack, overpaid>>
  BY <1>0 DEF DeductLine, MarkLine, UndoRead, UndoWrite, CaptureWrite, At, Goto, Return, order,
              money
<1> QED
  BY <1>0, <1>1, SameLedger

-----------------------------------------------------------------------------
(* The units. *)

LEMMA BeginsFit ==
  ASSUME AllInv, NEW c \in Callers, Beginning(c), UnitsFit(c)
  PROVE  UnitsFit(c)'
<1> USE DEF RefundSteps, UndoSteps, Unrecorded
<1>0. /\ ledger \in Seq(RefundRow) /\ pc \in [Callers -> Steps] /\ call \in [Callers -> Calls]
      /\ todo \in [Callers -> SUBSET Lines]
  BY DEF AllInv, TypeInv, TypeOK
<1>1. ASSUME NEW to \in States, StatusRead(c, to) PROVE UnitsFit(c)'
  <2>1. /\ pc[c] = "idle" /\ pc'[c] = "lines" /\ UNCHANGED <<refunded, ledger>>
    BY <1>0, <1>1 DEF StatusRead, Begin, order
  <2> QED
    BY <2>1 DEF UnitsFit
<1>2. ASSUME NEW in \in RefundInputs, RefundRead(c, in) PROVE UnitsFit(c)'
  <2>1. /\ pc[c] = "idle" /\ pc'[c] = "check" /\ call'[c].was = refunded
        /\ UNCHANGED <<refunded, ledger>>
    BY <1>0, <1>2 DEF RefundRead, Begin, order
  <2> QED
    BY <2>1 DEF UnitsFit
<1>3. ASSUME NEW i \in Rows, UndoMark(c, i) PROVE UnitsFit(c)'
  <2>1. /\ pc[c] = "idle" /\ pc'[c] = "undoRead" /\ UNCHANGED refunded
        /\ call'[c].quantity = ledger[i].quantity
        /\ todo'[c] = {l \in Lines : ledger[i].quantity[l] > 0}
        /\ i \in Standing(ledger) /\ ledger' = [ledger EXCEPT ![i].status = "undone"]
    BY <1>0, <1>3 DEF UndoMark, Begin, CompletedRows, Rows, Standing, LinesOf
  <2>2. /\ ledger' \in Seq(RefundRow)
        /\ \A l \in Lines : UnitsIn(ledger, l) = ledger[i].quantity[l] + UnitsIn(ledger', l)
    BY <1>0, <2>1, UndoneRow
  <2>3. \A l \in Lines : ledger[i].quantity[l] \in Nat /\ UnitsIn(ledger', l) \in Nat
    <3>1. ledger[i].quantity \in [Lines -> Nat]
      BY <1>0, <2>1, LedgerFacts DEF Standing, RefundRow
    <3> QED
      BY <2>2, <3>1, LedgerSums
  <2>4. ASSUME NEW l \in Lines
        PROVE  refunded'[l] = UnitsIn(ledger', l) +
                        (IF l \in todo'[c] THEN call'[c].quantity[l] ELSE 0)
    <3>1. refunded[l] = UnitsIn(ledger, l)
      BY <2>1 DEF UnitsFit
    <3>2. UnitsIn(ledger, l) = ledger[i].quantity[l] + UnitsIn(ledger', l)
          /\ ledger[i].quantity[l] \in Nat /\ UnitsIn(ledger', l) \in Nat
      BY <2>2, <2>3
    <3> QED
      BY <2>1, <3>1, <3>2
  <2> QED
    BY <2>1, <2>4 DEF UnitsFit
<1>4. ASSUME NEW n \in Captures, CaptureRead(c, n) PROVE UnitsFit(c)'
  <2>1. /\ pc[c] = "idle" /\ pc'[c] = "capture" /\ UNCHANGED <<refunded, ledger>>
    BY <1>0, <1>4 DEF CaptureRead, Begin, order
  <2> QED
    BY <2>1 DEF UnitsFit
<1> QED
  BY <1>1, <1>2, <1>3, <1>4 DEF Beginning

LEMMA RefundsFit ==
  ASSUME AllInv, NEW c \in Callers, UnitsFit(c),
         RefundCheck(c) \/ RefundPay(c) \/ RefundBump(c) \/ RefundRecord(c)
  PROVE  UnitsFit(c)'
<1> USE DEF RefundSteps, UndoSteps, Unrecorded
<1>0. /\ ledger \in Seq(RefundRow) /\ pc \in [Callers -> Steps] /\ call \in [Callers -> Calls]
      /\ todo \in [Callers -> SUBSET Lines] /\ refunded \in [Lines -> Nat] /\ CallFits(c)
      /\ \A l \in Lines : UnitsIn(ledger, l) \in Nat
  BY LedgerSums DEF AllInv, TypeInv, TypeOK
<1>1. pc[c] \in RefundSteps
  BY DEF RefundCheck, RefundPay, RefundBump, RefundRecord, At
<1>2. /\ call[c].in.quantity \in [Lines -> Nat] /\ call[c].was \in [Lines -> Nat]
  BY <1>0, <1>1, OrdersAssumption DEF CallFits, RefundCalls
<1>3. CASE RefundCheck(c)
  <2>1. pc[c] = "check" /\ UNCHANGED <<refunded, ledger>>
    BY <1>3 DEF RefundCheck, At, order
  <2>2. CASE Return(c)
    <3>1. pc'[c] = "idle"
      BY <1>0, <2>2 DEF Return
    <3> QED
      BY <2>1, <3>1 DEF UnitsFit
  <2>3. CASE ~Return(c)
    <3>1. /\ pc'[c] = "pay" /\ call'[c] = call[c] /\ todo'[c] = LinesOf(call[c].in)
      BY <1>0, <1>3, <2>3 DEF RefundCheck, Goto
    <3> QED
      BY <2>1, <3>1 DEF UnitsFit
  <2> QED
    BY <2>2, <2>3
<1>4. CASE RefundPay(c)
  <2>1. /\ pc[c] = "pay" /\ pc'[c] = "bump" /\ call'[c] = call[c] /\ todo'[c] = todo[c]
        /\ UNCHANGED <<refunded, ledger>>
    BY <1>0, <1>4 DEF RefundPay, At, Goto, order
  <2>2. ASSUME NEW l \in Lines
        PROVE  refunded[l] = UnitsIn(ledger, l) +
                        (IF l \in todo[c] THEN 0 ELSE call[c].in.quantity[l])
    <3>1. refunded[l] = UnitsIn(ledger, l) /\ todo[c] = LinesOf(call[c].in)
      BY <2>1 DEF UnitsFit
    <3>2. call[c].in.quantity[l] \in Nat /\ UnitsIn(ledger, l) \in Nat
      BY <1>0, <1>2
    <3>3. l \notin todo[c] => call[c].in.quantity[l] = 0
      BY <3>1, <3>2 DEF LinesOf
    <3> QED
      BY <3>1, <3>2, <3>3
  <2> QED
    BY <2>1, <2>2 DEF UnitsFit
<1>5. CASE RefundBump(c)
  <2>1. pc[c] = "bump" /\ UNCHANGED ledger
    BY <1>5 DEF RefundBump, At
  <2>2. \A l \in Lines : /\ call[c].was[l] = UnitsIn(ledger, l)
                         /\ refunded[l] = UnitsIn(ledger, l) +
                              (IF l \in todo[c] THEN 0 ELSE call[c].in.quantity[l])
    BY <2>1 DEF UnitsFit
  <2>3. ASSUME NEW k \in todo[c], UNCHANGED <<pc, call>>, 
               refunded' = [refunded EXCEPT ![k] = call[c].was[k] + call[c].in.quantity[k]],
               todo' = [todo EXCEPT ![c] = @ \ {k}]
        PROVE  UnitsFit(c)'
    <3>1. k \in Lines /\ todo'[c] = todo[c] \ {k}
      BY <1>0, <2>3
    <3>2. ASSUME NEW l \in Lines
          PROVE  refunded'[l] = UnitsIn(ledger, l) +
                    (IF l \in todo'[c] THEN 0 ELSE call[c].in.quantity[l])
      <4>1. CASE l = k
        BY <1>0, <2>2, <2>3, <3>1, <4>1
      <4>2. CASE l # k
        BY <1>0, <2>2, <2>3, <3>1, <4>2
      <4> QED
        BY <4>1, <4>2
    <3> QED
      BY <2>1, <2>2, <2>3, <3>2 DEF UnitsFit
  <2>4. CASE todo[c] = {} /\ Goto(c, "record") /\ UNCHANGED <<refunded, todo>>
    <3>1. pc'[c] = "record" /\ call'[c] = call[c]
      BY <1>0, <2>4 DEF Goto
    <3> QED
      BY <2>1, <2>2, <2>4, <3>1 DEF UnitsFit
  <2> QED
    BY <1>5, <2>3, <2>4 DEF RefundBump
<1>6. CASE RefundRecord(c)
  <2> DEFINE in == call[c].in
             r == [amount |-> TotalAmount(in), shipping |-> in.shipping,
                   quantity |-> in.quantity, by |-> c, status |-> "completed"]
  <2>1. /\ pc[c] = "record" /\ pc'[c] = "idle" /\ UNCHANGED refunded
        /\ ledger' = Append(ledger, r)
    BY <1>0, <1>6 DEF RefundRecord, At, Return
  <2>2. r \in RefundRow /\ r.quantity = in.quantity /\ r.status = "completed"
    BY <1>0, <2>1, OrdersAssumption DEF CallFits, RefundCalls, RefundRow
  <2> HIDE DEF r
  <2>3. \A l \in Lines : UnitsIn(ledger', l) = UnitsIn(ledger, l) + in.quantity[l]
    BY <1>0, <2>1, <2>2, AppendedRow
  <2>4. \A l \in Lines : refunded[l] = UnitsIn(ledger, l) + in.quantity[l]
    BY <2>1 DEF UnitsFit
  <2> QED
    BY <2>1, <2>3, <2>4 DEF UnitsFit
<1> QED
  BY <1>3, <1>4, <1>5, <1>6

LEMMA UndosFit ==
  ASSUME AllInv, NEW c \in Callers, UnitsFit(c), UndoRead(c) \/ UndoWrite(c)
  PROVE  UnitsFit(c)'
<1> USE DEF RefundSteps, UndoSteps, Unrecorded
<1>0. /\ ledger \in Seq(RefundRow) /\ pc \in [Callers -> Steps] /\ call \in [Callers -> Calls]
      /\ todo \in [Callers -> SUBSET Lines] /\ refunded \in [Lines -> Nat] /\ CallFits(c)
      /\ \A l \in Lines : UnitsIn(ledger, l) \in Nat
  BY LedgerSums DEF AllInv, TypeInv, TypeOK
<1>1. /\ pc[c] \in UndoSteps /\ UNCHANGED ledger
      /\ call[c].quantity \in [Lines -> Nat]
  BY <1>0 DEF UndoRead, UndoWrite, At, order, CallFits, UndoCalls, UndoingCalls
<1>2. \A l \in Lines : refunded[l] = UnitsIn(ledger, l) +
                         (IF l \in todo[c] THEN call[c].quantity[l] ELSE 0)
  BY <1>1 DEF UnitsFit
<1>3. CASE UndoRead(c)
  <2>1. UNCHANGED refunded
    BY <1>3 DEF UndoRead, order
  <2>2. ASSUME NEW k \in todo[c], UNCHANGED todo,
               call' = [call EXCEPT ![c] = [kind |-> "undoing", line |-> k,
                                            quantity |-> call[c].quantity,
                                            was |-> refunded[k]]],
               pc' = [pc EXCEPT ![c] = "undoWrite"]
        PROVE  UnitsFit(c)'
    <3>1. /\ pc'[c] = "undoWrite" /\ call'[c].line = k /\ call'[c].was = refunded[k]
          /\ call'[c].quantity = call[c].quantity
      BY <1>0, <2>2
    <3> QED
      BY <1>1, <1>2, <2>1, <2>2, <3>1 DEF UnitsFit
  <2>3. CASE todo[c] = {} /\ Return(c)
    <3>1. pc'[c] = "idle"
      BY <1>0, <2>3 DEF Return
    <3>2. \A l \in Lines : refunded[l] = UnitsIn(ledger, l)
      BY <1>0, <1>2, <2>3
    <3> QED
      BY <1>1, <2>1, <3>1, <3>2 DEF UnitsFit
  <2> QED
    BY <1>3, <2>2, <2>3 DEF UndoRead
<1>4. CASE UndoWrite(c)
  <2> DEFINE k == call[c].line
             n == call[c].quantity[k]
  <2>1. /\ pc[c] = "undoWrite" /\ pc'[c] = "undoRead" /\ UNCHANGED call
        /\ refunded' = [refunded EXCEPT ![k] = Restored(call[c].was, n)]
        /\ todo'[c] = todo[c] \ {k}
    BY <1>0, <1>4 DEF UndoWrite, At
  <2>2. k \in todo[c] /\ k \in Lines /\ call[c].was = refunded[k] /\ n \in Nat
    BY <1>0, <1>1, <2>1 DEF UnitsFit
  <2>3. Restored(call[c].was, n) = UnitsIn(ledger, k)
    <3>1. call[c].was = UnitsIn(ledger, k) + n /\ UnitsIn(ledger, k) \in Nat
      BY <1>0, <1>2, <2>2
    <3> HIDE DEF n, k
    <3> QED
      BY <2>2, <3>1 DEF Restored, AtLeastZero
  <2>4. ASSUME NEW l \in Lines
        PROVE  refunded'[l] = UnitsIn(ledger, l) +
                        (IF l \in todo'[c] THEN call[c].quantity[l] ELSE 0)
    <3>0. UnitsIn(ledger, l) \in Nat
      BY <1>0
    <3>1. CASE l = k
      <4>1. refunded'[l] = UnitsIn(ledger, l) /\ l \notin todo'[c]
        BY <1>0, <2>1, <2>2, <2>3, <3>1
      <4> QED
        BY <3>0, <4>1
    <3>2. CASE l # k
      <4>1. refunded'[l] = refunded[l] /\ (l \in todo'[c] <=> l \in todo[c])
        BY <1>0, <2>1, <2>2, <3>2
      <4> QED
        BY <1>2, <4>1
    <3> QED
      BY <3>1, <3>2
  <2> HIDE DEF k, n
  <2> QED
    BY <1>1, <2>1, <2>4 DEF UnitsFit
<1> QED
  BY <1>3, <1>4

LEMMA OthersFit ==
  ASSUME AllInv, NEW c \in Callers, UnitsFit(c),
         \/ StatusLines(c) \/ StatusCas(c) \/ ReleaseLine(c) \/ GatewayRefund(c)
         \/ DeductLine(c) \/ MarkLine(c) \/ CaptureWrite(c)
  PROVE  UnitsFit(c)'
<1>0. pc \in [Callers -> Steps]
  BY DEF AllInv, TypeInv, TypeOK
<1>1. /\ pc[c] \notin RefundSteps \cup UndoSteps /\ UNCHANGED <<refunded, ledger>>
  BY DEF StatusLines, StatusCas, ReleaseLine, GatewayRefund, DeductLine, MarkLine, CaptureWrite,
         At, order, RefundSteps, UndoSteps
<1>2. pc'[c] \notin RefundSteps \cup UndoSteps
  BY <1>0, <1>1 DEF StatusLines, StatusCas, AfterCas, ReleaseLine, GatewayRefund, DeductLine,
         MarkLine, CaptureWrite, Goto, Return, RefundSteps, UndoSteps
<1> QED
  BY <1>1, <1>2 DEF UnitsFit, RefundSteps, UndoSteps, Unrecorded

-----------------------------------------------------------------------------
LEMMA SequentialKept ==
  ASSUME AllInv, [Next]_vars
  PROVE  SequentialInv'
<1>0. ledger \in Seq(RefundRow)
  BY DEF AllInv, TypeInv, TypeOK
<1>1. ASSUME UNCHANGED <<pc, call, todo, refunded, captured, ledger, paidBack, overpaid,
                         crashes, overlapped>>,
             status' = status \/ (status \notin Terminal /\ status' \notin Terminal)
      PROVE  SequentialInv'
  <2>1. AmountOf(Rows)' = AmountOf(Rows)
    BY <1>0, <1>1, SameLedger
  <2>2. ASSUME NEW c \in Callers, Explained(c) PROVE Explained(c)'
    <3>1. pc[c] \in RefundSteps => status' \notin Terminal
      BY <1>1, <2>2 DEF Explained
    <3> QED
      BY <1>1, <2>1, <2>2, <3>1 DEF Explained, InFlight
  <2>3. \A c \in Callers : UnitsFit(c) => UnitsFit(c)'
    BY <1>1 DEF UnitsFit
  <2> QED
    BY <1>1, <2>2, <2>3 DEF AllInv, SequentialInv, Calm, Lone
<1>2. CASE UNCHANGED vars
  BY <1>1, <1>2 DEF vars, order, money
<1>3. CASE WebhookConfirms
  <2>1. UNCHANGED <<pc, call, todo, refunded, captured, ledger, paidBack, overpaid,
                    crashes, overlapped>> /\ status \notin Terminal /\ status' \notin Terminal
    BY <1>3, TransitionFacts DEF Terminal, WebhookConfirms, money, AllInv, TypeInv, TypeOK
  <2> QED
    BY <1>1, <2>1
<1>4. ASSUME NEW c \in Callers, Beginning(c) \/ GoingOn(c)
      PROVE  SequentialInv'
  <2>1. OnlyMoves(c) /\ (Calm' => Calm /\ Lone(c))
    BY <1>4, StepsAreLone
  <2>2. Explained(c) => Explained(c)'
    BY <1>4, BeginsExplained, StatusStepsExplained, RefundsExplained, OthersExplained
       DEF GoingOn
  <2>3. UnitsFit(c) => UnitsFit(c)'
    BY <1>4, BeginsFit, RefundsFit, UndosFit, OthersFit DEF GoingOn
  <2> QED
    BY <2>1, <2>2, <2>3, LoneStep
<1>5. ASSUME NEW c \in Callers, Crash(c)
      PROVE  SequentialInv'
  <2>1. ~Calm'
    BY <1>5 DEF Crash, Calm, AllInv, TypeInv, TypeOK
  <2> QED
    BY <2>1 DEF SequentialInv
<1> QED
  BY <1>2, <1>3, <1>4, <1>5 DEF Next, Beginning, GoingOn

LEMMA SequentialAlways == Spec => []AllInv
<1>1. Init => AllInv
  BY InvInit, ShipInvInit, TypeInvInit, SequentialInit DEF AllInv
<1>2. AllInv /\ [Next]_vars => AllInv'
  BY StepKeepsInv, ShipStepKeepsInv, TypeInvKept, SequentialKept DEF AllInv
<1> QED
  BY <1>1, <1>2, PTL DEF Spec

(* For any number of refunds, undos, captures and status changes that      *)
(* follow one another, the gateway is never asked for more than the        *)
(* order's payment: what left it is in the ledger, undone rows included.   *)
THEOREM NeverOverpaidAlways == Spec => []NeverOverpaid
<1>1. AllInv => NeverOverpaid
  BY DEF AllInv, SequentialInv, NeverOverpaid
<1> QED
  BY <1>1, SequentialAlways, PTL

(* For any number of refunds and undos that follow one another, a line's   *)
(* refundedQuantity is the sum of the refunds that stand.                  *)
THEOREM RefundsExplainUnitsAlways == Spec => []RefundsExplainUnits
<1>1. ASSUME AllInv, Calm, \A c \in Callers : pc[c] = "idle",
             NEW l \in Lines
      PROVE  refunded[l] = MapThenSumSet(LAMBDA i : ledger[i].quantity[l], CompletedRows)
  <2>1. refunded[l] = UnitsIn(ledger, l)
    <3>1. CASE Callers = {}
      BY <1>1, <3>1 DEF AllInv, SequentialInv
    <3>2. ASSUME NEW c \in Callers PROVE refunded[l] = UnitsIn(ledger, l)
      BY <1>1 DEF AllInv, SequentialInv, Lone, UnitsFit, Unrecorded, UndoSteps
    <3> QED
      BY <3>1, <3>2
  <2>2. ledger \in Seq(RefundRow)
    BY <1>1 DEF AllInv, TypeInv, TypeOK
  <2>3. UnitsIn(ledger, l) = MapThenSumSet(LAMBDA i : ledger[i].quantity[l], CompletedRows)
    BY <2>2, UnitsAreSum, Zenon
  <2> QED
    BY <2>1, <2>3, Zenon
<1>2. AllInv => RefundsExplainUnits
  BY <1>1 DEF RefundsExplainUnits
<1> QED
  BY <1>2, SequentialAlways, PTL
=============================================================================
