--------------------------- MODULE ChannelReturns ---------------------------
(***************************************************************************)
(* Money that goes back on an order a store delivered: a return the        *)
(* platform holds for its merchant, whose refund is then booked at the     *)
(* store, and the refunds the store reports, its own and the booked ones,  *)
(* each kept as a request under the store's refund id. Every refund is of  *)
(* one unit of the order's line; refundLines of Orders is one step here.   *)
(***************************************************************************)
EXTENDS Naturals, FiniteSetsExt

CONSTANTS
  Refunds,     \* ids the store gives its refunds
  Merchants,   \* calls of approveReturn
  Workers,     \* webhook and refresh jobs, and operators
  Units,       \* units of the order's line
  NoRefund,    \* no refund
  MaxReturnCalls,   \* approvals, deliveries and decisions
  MaxReturnCrashes

ASSUME ChannelReturnsAssumption ==
  /\ Units \in Nat
  /\ NoRefund \notin Refunds
  /\ MaxReturnCalls \in Nat /\ MaxReturnCrashes \in Nat

VARIABLES
  return,      \* the held return's status
  request,     \* [Refunds -> the state of its request]
  atStore,     \* [Refunds -> who made it at the store]
  merchant,    \* [Merchants -> where the approval is, and the refund it booked]
  worker,      \* [Workers -> where it is, for which refund, decided how]
  paidReturn,  \* units paid back for the return
  paid,        \* [Refunds -> units paid back for its request]
  races,       \* history: the windows that opened
  returnCalls, returnCrashes

backVars == <<paidReturn, paid>>
returnVars  == <<return, request, atStore, merchant, worker, backVars, races, returnCalls, returnCrashes>>

Requests == {"none", "requested", "approved", "rejected", "executed"}

ReturnTypeOK ==
  /\ return \in {"requested", "approved", "declined", "closed"}
  /\ request \in [Refunds -> Requests]
  /\ atStore \in [Refunds -> {"none", "own", "booked"}]
  /\ merchant \in [Merchants -> [at : {"idle", "pay", "mark", "book", "save", "close"},
                                 refund : Refunds \cup {NoRefund}]]
  /\ worker \in [Workers -> [at : {"idle", "insert", "execute", "mark", "undo"},
                             refund : Refunds \cup {NoRefund}, auto : BOOLEAN]]
  /\ paidReturn \in Nat
  /\ paid \in [Refunds -> Nat]
  /\ races \subseteq {"overlap", "crash", "overtaken"}
  /\ returnCalls \in 0..MaxReturnCalls
  /\ returnCrashes \in 0..MaxReturnCrashes

NoMerchant == [at |-> "idle", refund |-> NoRefund]
NoWorker   == [at |-> "idle", refund |-> NoRefund, auto |-> FALSE]

ReturnInit ==
  /\ return   = "requested"
  /\ request  = [r \in Refunds |-> "none"]
  /\ atStore  = [r \in Refunds |-> "none"]
  /\ merchant = [m \in Merchants |-> NoMerchant]
  /\ worker   = [w \in Workers |-> NoWorker]
  /\ paidReturn = 0
  /\ paid     = [r \in Refunds |-> 0]
  /\ races    = {}
  /\ returnCalls    = 0
  /\ returnCrashes  = 0

(* What refundLines still lets go of the line. *)
Left == paidReturn + MapThenSumSet(LAMBDA r : paid[r], Refunds) < Units

ReturnCall == returnCalls < MaxReturnCalls /\ returnCalls' = returnCalls + 1

-----------------------------------------------------------------------------
(* approveReturn: pay the shopper, mark, book at the store, keep, close.   *)
MerchantAt(m, step)        == merchant[m].at = step
MerchantTo(m, step)      == merchant' = [merchant EXCEPT ![m].at = step]
Paying == {n \in Merchants : merchant[n].at \in {"pay", "mark"}}

ApproveReturn(m) ==
  /\ MerchantAt(m, "idle")
  /\ ReturnCall
  /\ return \in {"requested", "approved"}
  /\ MerchantTo(m, IF return = "requested" THEN "pay" ELSE "book")
  /\ races' = IF return = "requested" /\ Paying # {} THEN races \cup {"overlap"} ELSE races
  /\ UNCHANGED <<return, request, atStore, worker, backVars, returnCrashes>>

PayReturn(m) ==
  /\ MerchantAt(m, "pay")
  /\ \/ Left /\ paidReturn' = paidReturn + 1 /\ MerchantTo(m, "mark")
     \/ UNCHANGED paidReturn /\ MerchantTo(m, "idle")
  /\ UNCHANGED <<return, request, atStore, worker, paid, races, returnCalls, returnCrashes>>

(* mutant: approving again pays again *)
MarkForgotten(m) ==
  /\ MerchantAt(m, "mark")
  /\ MerchantTo(m, "book")
  /\ UNCHANGED <<return, request, atStore, worker, backVars, races, returnCalls, returnCrashes>>

(* The status is written whatever it has become. *)
MarkApproved(m) ==
  /\ MerchantAt(m, "mark")
  /\ return' = "approved"
  /\ MerchantTo(m, "book")
  /\ UNCHANGED <<request, atStore, worker, backVars, races, returnCalls, returnCrashes>>

(* The store books the refund and answers, books it and the answer is      *)
(* lost, or refuses: the return then stays approved.                       *)
RecordRefund(m) ==
  /\ MerchantAt(m, "book")
  /\ \/ \E r \in Refunds :
          /\ atStore[r] = "none"
          /\ atStore' = [atStore EXCEPT ![r] = "booked"]
          /\ \/ merchant' = [merchant EXCEPT ![m] = [at |-> "save", refund |-> r]]
             \/ MerchantTo(m, "idle")
     \/ MerchantTo(m, "idle") /\ UNCHANGED atStore
  /\ UNCHANGED <<return, request, worker, backVars, races, returnCalls, returnCrashes>>

(* mutant: the booked refund is kept like one that waits for an operator *)
SaveBookedAsRequest(m) ==
  /\ MerchantAt(m, "save")
  /\ request' = [request EXCEPT ![merchant[m].refund] = "requested"]
  /\ merchant' = [merchant EXCEPT ![m] = [NoMerchant EXCEPT !.at = "close"]]
  /\ UNCHANGED <<return, atStore, worker, backVars, races, returnCalls, returnCrashes>>

SaveBooked(m) ==
  /\ MerchantAt(m, "save")
  /\ request' = [request EXCEPT ![merchant[m].refund] = "executed"]
  /\ merchant' = [merchant EXCEPT ![m] = [NoMerchant EXCEPT !.at = "close"]]
  /\ UNCHANGED <<return, atStore, worker, backVars, races, returnCalls, returnCrashes>>

CloseReturn(m) ==
  /\ MerchantAt(m, "close")
  /\ return' = "closed"
  /\ MerchantTo(m, "idle")
  /\ UNCHANGED <<request, atStore, worker, backVars, races, returnCalls, returnCrashes>>

DeclineReturn ==
  /\ return = "requested"
  /\ ReturnCall
  /\ return' = "declined"
  /\ races' = IF Paying # {} THEN races \cup {"overlap"} ELSE races
  /\ UNCHANGED <<request, atStore, merchant, worker, backVars, returnCrashes>>

-----------------------------------------------------------------------------
(* The store refunds by itself, and tells of each refund, again and again. *)
OwnRefund ==
  \E r \in Refunds :
    /\ atStore[r] = "none"
    /\ atStore' = [atStore EXCEPT ![r] = "own"]
    /\ UNCHANGED <<return, request, merchant, worker, backVars, races, returnCalls, returnCrashes>>

Does(w, step) == worker[w].at = step
To(w, step)   == worker' = [worker EXCEPT ![w] = IF step = "idle" THEN NoWorker
                                                 ELSE [@ EXCEPT !.at = step]]

(* createRefundRequest: a refund with a request, or of more than is left,  *)
(* asks for nothing; a clean one is approved at once.                      *)
RefundReported(w) ==
  \E r \in Refunds, auto \in BOOLEAN :
    /\ Does(w, "idle")
    /\ atStore[r] # "none"
    /\ request[r] = "none"
    /\ Left
    /\ ReturnCall
    /\ worker' = [worker EXCEPT ![w] = [at |-> "insert", refund |-> r, auto |-> auto]]
    /\ races'  = IF atStore[r] = "booked" THEN races \cup {"overtaken"} ELSE races
    /\ UNCHANGED <<return, request, atStore, merchant, backVars, returnCrashes>>

(* The unique key of the request refuses the second of two reports. *)
InsertRequest(w) ==
  /\ Does(w, "insert")
  /\ LET r == worker[w].refund IN
       IF request[r] # "none"
       THEN To(w, "idle") /\ UNCHANGED request
       ELSE /\ request' = [request EXCEPT ![r] =
                             IF worker[w].auto THEN "approved" ELSE "requested"]
            /\ To(w, IF worker[w].auto THEN "execute" ELSE "idle")
  /\ UNCHANGED <<return, atStore, merchant, backVars, races, returnCalls, returnCrashes>>

(* approveRefund and rejectRefund: each a compare-and-set from requested.  *)
ApproveRefund(w) ==
  \E r \in Refunds :
    /\ Does(w, "idle")
    /\ request[r] = "requested"
    /\ ReturnCall
    /\ request' = [request EXCEPT ![r] = "approved"]
    /\ worker'  = [worker EXCEPT ![w] = [at |-> "execute", refund |-> r, auto |-> FALSE]]
    /\ UNCHANGED <<return, atStore, merchant, backVars, races, returnCrashes>>

RejectRefund ==
  \E r \in Refunds :
    /\ request[r] = "requested"
    /\ ReturnCall
    /\ request' = [request EXCEPT ![r] = "rejected"]
    /\ UNCHANGED <<return, atStore, merchant, worker, backVars, races, returnCrashes>>

ExecuteRefund(w) ==
  /\ Does(w, "execute")
  /\ \/ Left /\ paid' = [paid EXCEPT ![worker[w].refund] = @ + 1] /\ To(w, "mark")
     \/ UNCHANGED paid /\ To(w, "undo")
  /\ UNCHANGED <<return, request, atStore, merchant, paidReturn, races, returnCalls, returnCrashes>>

(* Both ends look for the request in the state they left it in. *)
Settle(w, step, state) ==
  /\ Does(w, step)
  /\ request' = [request EXCEPT ![worker[w].refund] = IF @ = "approved" THEN state ELSE @]
  /\ To(w, "idle")
  /\ UNCHANGED <<return, atStore, merchant, backVars, races, returnCalls, returnCrashes>>

MarkExecuted(w) == Settle(w, "mark", "executed")
UndoApproval(w) == Settle(w, "undo", "requested")

ReturnCrash ==
  /\ returnCrashes < MaxReturnCrashes
  /\ returnCrashes' = returnCrashes + 1
  /\ \/ \E m \in Merchants :
          /\ ~MerchantAt(m, "idle")
          /\ merchant' = [merchant EXCEPT ![m] = NoMerchant]
          /\ races' = IF MerchantAt(m, "mark") THEN races \cup {"crash"} ELSE races
          /\ UNCHANGED worker
     \/ \E w \in Workers :
          /\ ~Does(w, "idle")
          /\ To(w, "idle")
          /\ UNCHANGED <<merchant, races>>
  /\ UNCHANGED <<return, request, atStore, backVars, returnCalls>>

-----------------------------------------------------------------------------
ReturnNext ==
  \/ \E m \in Merchants : \/ ApproveReturn(m) \/ PayReturn(m) \/ MarkApproved(m)
                          \/ RecordRefund(m) \/ SaveBooked(m) \/ CloseReturn(m)
  \/ \E w \in Workers : \/ RefundReported(w) \/ InsertRequest(w) \/ ApproveRefund(w)
                        \/ ExecuteRefund(w) \/ MarkExecuted(w) \/ UndoApproval(w)
  \/ DeclineReturn \/ OwnRefund \/ RejectRefund \/ ReturnCrash

ReturnSpec == ReturnInit /\ [][ReturnNext]_returnVars

-----------------------------------------------------------------------------
(* One payment for a return, and none for a declined one: two calls paid   *)
(* it only if they overlapped, or the first died with the money moved and  *)
(* the return not marked. Approving again after the store refused does not *)
(* pay again.                                                              *)
ReturnPaidOnce ==
  /\ paidReturn > 1 => races \cap {"overlap", "crash"} # {}
  /\ return = "declined" /\ paidReturn > 0 => races \cap {"overlap", "crash"} # {}

(* A refund the store reports pays the shopper at most once, however often *)
(* it is reported, approved, undone and approved again; one that waits for *)
(* an operator, or was rejected, has paid nothing; and the store's report  *)
(* of a refund the platform booked there pays nobody, unless the report    *)
(* overtook the row that says so.                                          *)
ReportPaidOnce ==
  \A r \in Refunds :
    /\ paid[r] <= 1
    /\ request[r] \in {"none", "requested", "rejected"} => paid[r] = 0
    /\ atStore[r] = "booked" /\ paid[r] > 0 => "overtaken" \in races
=============================================================================
