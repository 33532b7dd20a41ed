------------------------------ MODULE Bookings ------------------------------
(***************************************************************************)
(* Appointments of one provider. Slots are numbered; two neighbours touch, *)
(* which the conflict check takes for an overlap. A booking is created in  *)
(* a transaction whose row locks bind existing bookings only; a status is  *)
(* read, judged and written without one.                                   *)
(***************************************************************************)
EXTENDS Naturals

CONSTANTS
  Slots,           \* a set of naturals
  Bookings,        \* ids of rows
  Clerks,
  NoBooking,
  ByCard,          \* paid through a payment adapter
  MaxBookingCalls,
  MaxBookingCrashes

ASSUME BookingAssumption ==
  /\ Slots \subseteq Nat
  /\ NoBooking \notin Bookings
  /\ ByCard \in BOOLEAN
  /\ MaxBookingCalls \in Nat /\ MaxBookingCrashes \in Nat

VARIABLES
  status,    \* [Bookings -> status, or none: no row]
  slot,      \* [Bookings -> slot]
  payment,   \* [Bookings -> the status of its payment row, or none]
  clerk,     \* [Clerks -> the call being served]
  refunds,   \* history: [Bookings -> refunds asked of the gateway]
  together,  \* history: slots checked by one clerk before another inserted
  staleWrites, \* history: bookings written on a status that had changed
  calls, bookingCrashes

rowVars     == <<status, slot, payment>>
bookingVars == <<rowVars, clerk, refunds, together, staleWrites, calls, bookingCrashes>>

Statuses == {"provisional", "confirmed", "completed", "cancelled", "no_show"}
Ended    == {"completed", "cancelled", "no_show"}
Asked    == {"create", "confirm", "complete", "no_show", "cancel", "reschedule"}
NewCall(call, step, b, s, t) ==
  [call |-> call, at |-> step, booking |-> b, slot |-> s, target |-> t, seen |-> "none"]
NoCall   == NewCall("none", "idle", NoBooking, 0, "none")

BookingTypeOK ==
  /\ status \in [Bookings -> Statuses \cup {"none"}]
  /\ slot \in [Bookings -> Slots \cup {0}]
  /\ payment \in [Bookings -> {"none", "pending", "refunded"}]
  /\ clerk \in [Clerks -> [call : Asked \cup {"none"},
                           at : {"idle", "check", "insert", "read", "write", "refund", "settle"},
                           booking : Bookings \cup {NoBooking}, slot : Slots \cup {0},
                           target : Statuses \cup {"none"}, seen : Statuses \cup {"none"}]]
  /\ refunds \in [Bookings -> Nat]
  /\ together \subseteq Slots
  /\ staleWrites \subseteq Bookings
  /\ calls \in 0..MaxBookingCalls /\ bookingCrashes \in 0..MaxBookingCrashes

BookingInit ==
  /\ status   = [b \in Bookings |-> "none"]
  /\ slot     = [b \in Bookings |-> 0]
  /\ payment  = [b \in Bookings |-> "none"]
  /\ clerk    = [c \in Clerks |-> NoCall]
  /\ refunds  = [b \in Bookings |-> 0]
  /\ together = {} /\ staleWrites = {}
  /\ calls    = 0 /\ bookingCrashes = 0

transitions(s) ==
  CASE s = "provisional" -> {"confirmed", "cancelled"}
    [] s = "confirmed"   -> {"completed", "cancelled", "no_show"}
    [] OTHER             -> {}

Active(b)       == status[b] \notin {"none", "cancelled"}
Conflicts(s, t) == s <= t + 1 /\ t <= s + 1

-----------------------------------------------------------------------------
Stage(c, step)  == clerk[c].at = step
To(c, step)     == clerk' = [clerk EXCEPT ![c].at = step]
Finish(c)       == clerk' = [clerk EXCEPT ![c] = NoCall]
ToStatus(c, s)  == clerk' = [clerk EXCEPT ![c].at = "read", ![c].target = s]
Target(call)    == CASE call \in {"confirm", "complete"} -> "confirmed"
                     [] call \in {"cancel", "reschedule"} -> "cancelled"
                     [] OTHER -> "no_show"

Call == calls < MaxBookingCalls /\ calls' = calls + 1

(* A payment intent is created before the slot is looked at, and stays     *)
(* when the slot is taken.                                                 *)
AskCreate(c) ==
  \E s \in Slots :
    /\ Stage(c, "idle") /\ Call
    /\ clerk' = [clerk EXCEPT ![c] = NewCall("create", "check", NoBooking, s, "none")]
    /\ UNCHANGED <<rowVars, refunds, together, staleWrites, bookingCrashes>>

(* reschedule looks at the status once more than the others, and not after *)
AskChange(c) ==
  \E b \in Bookings, call \in Asked \ {"create"}, s \in Slots :
    /\ Stage(c, "idle") /\ Call
    /\ status[b] # "none"
    /\ call = "reschedule" => status[b] \notin Ended
    /\ call # "reschedule" => s = slot[b]
    /\ clerk' = [clerk EXCEPT ![c] = NewCall(call, "read", b, s, Target(call))]
    /\ UNCHANGED <<rowVars, refunds, together, staleWrites, bookingCrashes>>

(* mutant: only a booking of the very same status blocks a slot *)
TakenIfConfirmed(s) == \E b \in Bookings : status[b] = "confirmed" /\ Conflicts(slot[b], s)

(* The check of the transaction: what had been committed when it began.    *)
Taken(s) == \E b \in Bookings : Active(b) /\ Conflicts(slot[b], s)

CheckSlot(c) ==
  /\ Stage(c, "check")
  /\ IF Taken(clerk[c].slot) THEN Finish(c) ELSE To(c, "insert")
  /\ UNCHANGED <<rowVars, refunds, together, staleWrites, calls, bookingCrashes>>

InsertBooking(c) ==
  \E b \in Bookings :
    LET s == clerk[c].slot IN
    /\ Stage(c, "insert")
    /\ status[b] = "none"
    /\ status'  = [status EXCEPT ![b] = "provisional"]
    /\ slot'    = [slot EXCEPT ![b] = s]
    /\ payment' = [payment EXCEPT ![b] = IF ByCard THEN "pending" ELSE "none"]
    /\ together' = together \cup
         {clerk[d].slot : d \in {e \in Clerks \ {c} :
            Stage(e, "insert") /\ Conflicts(clerk[e].slot, s)}}
    /\ Finish(c)
    /\ UNCHANGED <<refunds, staleWrites, calls, bookingCrashes>>

(* changeStatus: read, then written if the table allows it from what was   *)
(* read. complete confirms first and goes on whatever that came to.        *)
ReadStatus(c) ==
  LET k == clerk[c] IN
  /\ Stage(c, "read")
  /\ IF k.target \in transitions(status[k.booking])
     THEN clerk' = [clerk EXCEPT ![c].at = "write", ![c].seen = status[k.booking]]
     ELSE IF k.call = "complete" /\ k.target = "confirmed"
          THEN ToStatus(c, "completed")
          ELSE Finish(c)
  /\ UNCHANGED <<rowVars, refunds, together, staleWrites, calls, bookingCrashes>>

(* The rest of the call: complete's second change, cancel's refund, the    *)
(* new booking of a reschedule (the old payment is left as it is).         *)
GoOn(c) ==
  LET k == clerk[c] IN
  CASE k.call = "complete" /\ k.target = "confirmed" -> ToStatus(c, "completed")
    [] k.call = "cancel"     -> To(c, "refund")
    [] k.call = "reschedule" -> To(c, "check")
    [] OTHER                 -> Finish(c)

WriteStatus(c) ==
  LET b == clerk[c].booking IN
  /\ Stage(c, "write")
  /\ status' = [status EXCEPT ![b] = clerk[c].target]
  /\ staleWrites' = IF status[b] = clerk[c].seen THEN staleWrites ELSE staleWrites \cup {b}
  /\ GoOn(c)
  /\ UNCHANGED <<slot, payment, refunds, together, calls, bookingCrashes>>

(* cancel: a payment row is enough for a refund, paid or not.              *)
RefundBooking(c) ==
  LET b == clerk[c].booking IN
  /\ Stage(c, "refund")
  /\ IF payment[b] = "none"
     THEN Finish(c) /\ UNCHANGED refunds
     ELSE To(c, "settle") /\ refunds' = [refunds EXCEPT ![b] = @ + 1]
  /\ UNCHANGED <<rowVars, together, staleWrites, calls, bookingCrashes>>

SettleRefund(c) ==
  /\ Stage(c, "settle")
  /\ payment' = [payment EXCEPT ![clerk[c].booking] = "refunded"]
  /\ Finish(c)
  /\ UNCHANGED <<status, slot, refunds, together, staleWrites, calls, bookingCrashes>>

ClerkDies(c) ==
  /\ ~Stage(c, "idle")
  /\ bookingCrashes < MaxBookingCrashes /\ bookingCrashes' = bookingCrashes + 1
  /\ Finish(c)
  /\ UNCHANGED <<rowVars, refunds, together, staleWrites, calls>>

BookingNext ==
  \E c \in Clerks :
    \/ AskCreate(c) \/ AskChange(c) \/ CheckSlot(c) \/ InsertBooking(c)
    \/ ReadStatus(c) \/ WriteStatus(c) \/ RefundBooking(c) \/ SettleRefund(c) \/ ClerkDies(c)

BookingSpec == BookingInit /\ [][BookingNext]_bookingVars

-----------------------------------------------------------------------------
(* A slot has two bookings that stand only if two clerks had both found it *)
(* free (no row lock covers a row that is not there), or a status written  *)
(* on an old read brought a cancelled booking back.                        *)
NoDoubleBooking ==
  \A a, b \in Bookings :
    a # b /\ Active(a) /\ Active(b) /\ slot[a] = slot[b]
      => slot[a] \in together \/ {a, b} \cap staleWrites # {}

(* The money of a booking is asked back at most once, unless two changes   *)
(* of its status overlapped.                                               *)
RefundedOnce == \A b \in Bookings : refunds[b] <= 1 \/ b \in staleWrites
=============================================================================
