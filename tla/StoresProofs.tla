---------------------------- MODULE StoresProofs -----------------------------
(***************************************************************************)
(* What happens to an order around the order service, for every value of   *)
(* the constants.                                                          *)
(*   The push: a store is made to create one order, and a cancel reaches   *)
(*   it.                                                                   *)
(*   Returns and refunds: a return is paid once, and so is a refund the    *)
(*   store reports.                                                        *)
(*   Deliveries: one the route accepted has been queued for every store,   *)
(*   and a parcel is recorded once.                                        *)
(* Each but for the windows the properties name. The parts share no state  *)
(* with the order service of OrdersProofs: together they keep their types. *)
(***************************************************************************)
EXTENDS MCStores, OrdersProofs

-----------------------------------------------------------------------------
(* The push. What a cancel found closed at the store stays closed, and     *)
(* what it found not to exist is not on its way.                           *)
MadeOnce == made \in {0, 1} /\ (made = 0 <=> store = "none")

CancelKnows ==
  cancel.at # "idle" =>
    /\ CanMove(cancel.was, "cancelled")
    /\ cancel.at = "cas" /\ ~cancel.unasked => store = "cancelled"

CancelledIsClosed ==
  orderStatus = "cancelled" /\ ~unasked =>
    store = "cancelled" \/ (made = 0 /\ push \in {"idle", "check"})

PushTypes ==
  /\ orderStatus \in OrderStatuses
  /\ unasked \in BOOLEAN
  /\ store \in StoreStates
  /\ cancel \in [at : {"idle", "ask", "cas"}, was : OrderStatuses, unasked : BOOLEAN]

PushInv == PushTypes /\ MadeOnce /\ CancelKnows /\ CancelledIsClosed

LEMMA NoWayBack == \A to : ~CanMove("cancelled", to)
BY DEF CanMove, OrderMoves

LEMMA JobKept == ASSUME PushInv, Push PROVE PushInv'
<1> USE DEF PushInv
<1>1. UNCHANGED cancel
  BY DEF Push, PushStart, PushCheck, CreateExport, BuildOrderSlice, SliceFailed, ExportOrder,
         PushOrder, PushFailed, CancelSoldOut, SaveRemoteId, FetchOrderStatus, PushCrash
<1>2. CASE PushOrder \/ PushCrash
  <2>1. UNCHANGED <<orderStatus, unasked>> /\ push \notin {"idle"}
    BY <1>2 DEF PushOrder, PushCrash, sale
  <2>2. \/ UNCHANGED <<store, made>>
        \/ push = "request" /\ made = 0 /\ made' = 1 /\ store' \in {"open", "cancelled"}
    <3>1. made \in Nat /\ (~(made > 0) => made = 0 /\ made + 1 = 1)
      BY DEF MadeOnce
    <3>2. \/ UNCHANGED <<store, made>>
          \/ push = "request" /\ ~(made > 0) /\ made' = made + 1 /\ store' \in {"open", "cancelled"}
      BY <1>2 DEF PushOrder, PushCrash, Found, Created, Refused, OutOfStock, StoreHasIt
    <3> QED
      BY <3>1, <3>2
  <2>3. PushTypes' /\ MadeOnce'
    BY <1>1, <2>1, <2>2 DEF PushTypes, StoreStates, MadeOnce
  <2>4. CancelKnows'
    BY <1>1, <2>2 DEF CancelKnows, MadeOnce
  <2>5. CancelledIsClosed'
    <3>1. CASE PushOrder
      BY <2>1, <2>2, <3>1 DEF CancelledIsClosed, MadeOnce, PushOrder
    <3>2. CASE PushCrash
      BY <2>1, <2>2, <3>2 DEF CancelledIsClosed, MadeOnce, PushCrash, PushTo
    <3> QED
      BY <1>2, <3>1, <3>2
  <2> QED
    BY <2>3, <2>4, <2>5
<1>3. CASE CancelSoldOut
  <2>1. /\ UNCHANGED <<store, made>> /\ push' = "idle" /\ push = "soldout"
        /\ \/ /\ orderStatus' = "cancelled" /\ unasked' \in BOOLEAN
              /\ unasked' <=> made > 0
           \/ UNCHANGED <<orderStatus, unasked>>
    <3>1. /\ UNCHANGED <<store, made>> /\ push' = "idle" /\ push = "soldout"
          /\ \/ orderStatus' = "cancelled" /\ unasked' = (made > 0)
             \/ UNCHANGED <<orderStatus, unasked>>
      BY <1>3 DEF CancelSoldOut, PushTo, sale
    <3>2. (made > 0) \in BOOLEAN
      BY DEF MadeOnce
    <3> QED
      BY <3>1, <3>2
  <2>2. PushTypes' /\ MadeOnce' /\ CancelKnows'
    BY <1>1, <2>1 DEF PushTypes, OrderStatuses, MadeOnce, CancelKnows
  <2>3. ~(made > 0) => made = 0
    BY DEF MadeOnce
  <2>4. CancelledIsClosed'
    BY <2>1, <2>3 DEF CancelledIsClosed
  <2> QED
    BY <2>2, <2>4
<1>4. CASE /\ UNCHANGED <<orderStatus, unasked, store, made>>
           /\ \/ push' \in {"idle", "check"}
              \/ push = "check" /\ orderStatus # "cancelled"
              \/ push \notin {"idle", "check"}
  BY <1>1, <1>4 DEF PushTypes, MadeOnce, CancelKnows, CancelledIsClosed
<1> QED
  BY <1>2, <1>3, <1>4
     DEF Push, PushStart, PushCheck, CreateExport, BuildOrderSlice, SliceFailed, ExportOrder,
         PushFailed, SaveRemoteId, FetchOrderStatus, PushTo, Throw, sale, Closed

LEMMA PlatformKept == ASSUME PushInv, Platform PROVE PushInv'
<1> USE DEF PushInv
<1>1. UNCHANGED <<made, push>>
  BY DEF Platform, Pay, StaffProcesses, Disconnect, RetryExport, CancelBegin, CancelAsks,
         CancelCommits, pushing
<1>2. CASE Pay \/ StaffProcesses \/ Disconnect \/ RetryExport
  <2>1. UNCHANGED <<store, cancel, unasked>>
    BY <1>2 DEF Pay, StaffProcesses, Disconnect, RetryExport, sale
  <2>2. UNCHANGED orderStatus \/ orderStatus' \in {"confirmed", "processing"}
    BY <1>2 DEF Pay, StaffProcesses, Disconnect, RetryExport, sale
  <2> QED
    BY <1>1, <2>1, <2>2
       DEF PushTypes, OrderStatuses, MadeOnce, CancelKnows, CancelledIsClosed
<1>3. CASE CancelBegin
  <2>1. /\ UNCHANGED <<orderStatus, unasked, store>> /\ CanMove(orderStatus, "cancelled")
        /\ cancel' = [at |-> "ask", was |-> orderStatus, unasked |-> FALSE]
    BY <1>3 DEF CancelBegin, sale
  <2> QED
    BY <1>1, <2>1 DEF PushTypes, MadeOnce, CancelKnows, CancelledIsClosed
<1>4. CASE CancelAsks
  <2>1. UNCHANGED <<orderStatus, unasked>> /\ cancel.at = "ask"
    BY <1>4 DEF CancelAsks, sale
  <2>2. \/ /\ store \in {"open", "cancelled"} /\ store' = "cancelled"
           /\ cancel' = [cancel EXCEPT !.at = "cas"]
        \/ cancel' = NoCancel /\ UNCHANGED store
        \/ cancel' = [cancel EXCEPT !.at = "cas", !.unasked = TRUE] /\ UNCHANGED store
    BY <1>4 DEF CancelAsks
  <2>3. /\ cancel' \in [at : {"idle", "ask", "cas"}, was : OrderStatuses, unasked : BOOLEAN]
        /\ cancel'.at = "idle" \/ cancel'.was = cancel.was
        /\ cancel'.at = "idle" \/ cancel'.unasked \/ store' = "cancelled"
    <3> DEFINE Cancels == [at : {"idle", "ask", "cas"}, was : OrderStatuses, unasked : BOOLEAN]
    <3>1. cancel \in Cancels
      BY DEF PushTypes
    <3>2. /\ [cancel EXCEPT !.at = "cas"] \in Cancels
          /\ [cancel EXCEPT !.at = "cas"].was = cancel.was
      BY <3>1
    <3>3. /\ [cancel EXCEPT !.at = "cas", !.unasked = TRUE] \in Cancels
          /\ [cancel EXCEPT !.at = "cas", !.unasked = TRUE].was = cancel.was
          /\ [cancel EXCEPT !.at = "cas", !.unasked = TRUE].unasked
      BY <3>1
    <3>4. NoCancel \in Cancels /\ NoCancel.at = "idle"
      BY DEF NoCancel, OrderStatuses
    <3> HIDE DEF Cancels
    <3> QED
      BY <2>2, <3>2, <3>3, <3>4 DEF Cancels
  <2>4. store' = store \/ (store # "none" /\ store' = "cancelled")
    BY <2>2
  <2>5. PushTypes' /\ MadeOnce' /\ CancelledIsClosed'
    BY <1>1, <2>1, <2>3, <2>4 DEF PushTypes, StoreStates, MadeOnce, CancelledIsClosed
  <2>6. CancelKnows'
    BY <2>1, <2>3 DEF CancelKnows
  <2> QED
    BY <2>5, <2>6
<1>5. CASE CancelCommits
  <2>1. cancel' = NoCancel /\ UNCHANGED store /\ cancel.at = "cas"
    BY <1>5 DEF CancelCommits
  <2>2. CASE orderStatus = cancel.was
    <3>1. /\ orderStatus' = "cancelled"
          /\ unasked' \in BOOLEAN
          /\ unasked' <=> cancel.unasked /\ (made > 0 \/ push \notin {"idle", "check"})
      BY <1>5, <2>2 DEF CancelCommits, Underway, PushTypes
    <3>2. cancel.unasked \/ store = "cancelled"
      BY <2>1 DEF CancelKnows
    <3>3. ~(made > 0) => made = 0
      BY DEF MadeOnce
    <3>4. CancelledIsClosed'
      BY <1>1, <2>1, <3>1, <3>2, <3>3 DEF CancelledIsClosed
    <3> QED
      BY <1>1, <2>1, <3>1, <3>4 DEF PushTypes, OrderStatuses, MadeOnce, CancelKnows, NoCancel
  <2>3. CASE orderStatus # cancel.was
    <3>1. UNCHANGED <<orderStatus, unasked>>
      BY <1>5, <2>3 DEF CancelCommits, sale
    <3> QED
      BY <1>1, <2>1, <3>1
         DEF PushTypes, OrderStatuses, MadeOnce, CancelKnows, CancelledIsClosed, NoCancel
  <2> QED
    BY <2>2, <2>3
<1> QED
  BY <1>2, <1>3, <1>4, <1>5 DEF Platform

LEMMA StoreKept == ASSUME PushInv, Store \/ Reaper PROVE PushInv'
<1> USE DEF PushInv
<1>1. UNCHANGED <<made, push, cancel>>
  BY DEF Store, Reaper, StoreMoves, StoreCancelled, StoreFulfilled, StoreFulfils, Age, ReapExports,
         AbandonExport, RefundAbandoned, pushing
<1>2. \/ UNCHANGED store
      \/ UNCHANGED <<orderStatus, unasked>> /\ store = "open" /\ store' \in {"shipped", "cancelled"}
  BY DEF Store, Reaper, StoreMoves, StoreCancelled, StoreFulfilled, StoreFulfils, Age, ReapExports,
         AbandonExport, RefundAbandoned, sale
<1>3. \/ UNCHANGED <<orderStatus, unasked>>
      \/ store = "cancelled" /\ orderStatus' = "cancelled" /\ unasked' = FALSE
      \/ orderStatus' \in {"processing", "fulfilled", "refunded"} /\ UNCHANGED unasked
  BY DEF Store, Reaper, StoreMoves, StoreCancelled, StoreFulfilled, StoreFulfils, Age, ReapExports,
         AbandonExport, RefundAbandoned, sale
<1>4. PushTypes' /\ MadeOnce'
  BY <1>1, <1>2, <1>3 DEF PushTypes, OrderStatuses, StoreStates, MadeOnce
<1>5. CancelKnows'
  BY <1>1, <1>2 DEF CancelKnows
<1>6. CancelledIsClosed'
  BY <1>1, <1>2, <1>3 DEF CancelledIsClosed, MadeOnce
<1> QED
  BY <1>4, <1>5, <1>6

(* What the store holds, what a cancel learnt of it, and what the order    *)
(* says, agree.                                                            *)
THEOREM PushInvariant == PushSpec => []PushInv
<1>1. ASSUME PushInit PROVE PushInv
  <2>1. NoCancel \in [at : {"idle", "ask", "cas"}, was : OrderStatuses, unasked : BOOLEAN]
    BY DEF NoCancel, OrderStatuses
  <2>2. PushTypes
    BY <1>1, <2>1 DEF PushInit, PushTypes, OrderStatuses, StoreStates
  <2>3. MadeOnce
    BY <1>1 DEF PushInit, MadeOnce
  <2>4. CancelKnows /\ CancelledIsClosed
    BY <1>1 DEF PushInit, CancelKnows, CancelledIsClosed, NoCancel
  <2> QED
    BY <2>2, <2>3, <2>4 DEF PushInv
<1>2. ASSUME PushInv, [PushNext]_pushVars PROVE PushInv'
  <2>1. CASE UNCHANGED pushVars
    BY <1>2, <2>1 DEF pushVars, sale, pushing, PushInv, PushTypes, MadeOnce, CancelKnows,
                      CancelledIsClosed
  <2> QED
    BY <1>2, <2>1, JobKept, PlatformKept, StoreKept DEF PushNext
<1> QED
  BY <1>1, <1>2, PTL DEF PushSpec

(* The rest of the push's state. *)
Exports == [state : ExportStates, remote : BOOLEAN, old : BOOLEAN]

ExportTypes ==
  /\ export \in Exports
  /\ connected \in BOOLEAN /\ queued \in BOOLEAN
  /\ push \in PushSteps
  /\ reaper \in {"idle", "abandon", "refund"}
  /\ delivery \in {"idle", "ship"}
  /\ pushes \in 0..MaxPushes
  /\ pushCrashes \in 0..MaxPushCrashes

LEMMA ExportTyped ==
  ASSUME ExportTypes, [PushNext]_pushVars
  PROVE  ExportTypes'
<1> USE DEF ExportTypes
<1>0. MaxPushes \in Nat /\ MaxPushCrashes \in Nat
  BY ChannelOrdersAssumption
<1>1. CASE UNCHANGED pushVars
  BY <1>1 DEF pushVars, pushing
<1>2. CASE PushNext
  <2>1. \A s \in ExportStates : Now(s) \in Exports
    BY DEF Now, Exports
  <2>2. /\ [export EXCEPT !.remote = TRUE, !.old = FALSE] \in Exports
        /\ [export EXCEPT !.old = TRUE] \in Exports
    BY DEF Exports
  <2>3. \A s : CanExport(s) => s \in ExportStates
    BY DEF CanExport, ExportMoves, ExportStates
  <2>4. {"pending", "exported"} \cup {"failed", "abandoned"} \subseteq ExportStates
    BY DEF ExportStates
  <2>5. export' \in Exports
    <3>1. CASE Push
      BY <2>1, <2>2, <2>3, <2>4, <3>1
         DEF Push, PushStart, PushCheck, CreateExport, BuildOrderSlice, SliceFailed, ExportOrder,
             PushOrder, PushFailed, CancelSoldOut, SaveRemoteId, FetchOrderStatus, PushCrash
    <3>2. CASE Platform
      BY <2>1, <2>4, <3>2
         DEF Platform, Pay, StaffProcesses, Disconnect, RetryExport, CancelBegin, CancelAsks,
             CancelCommits
    <3>3. CASE Store \/ Reaper
      BY <2>1, <2>2, <2>4, <3>3
         DEF Store, Reaper, StoreMoves, StoreCancelled, StoreFulfilled, StoreFulfils, Age,
             ReapExports, AbandonExport, RefundAbandoned
    <3> QED
      BY <1>2, <3>1, <3>2, <3>3 DEF PushNext
  <2>6. push' \in PushSteps /\ pushes' \in 0..MaxPushes
    <3>1. CASE Push
      <4>1. push' \in PushSteps
        BY <3>1
           DEF Push, PushStart, PushCheck, CreateExport, BuildOrderSlice, SliceFailed,
               ExportOrder, PushOrder, PushFailed, CancelSoldOut, SaveRemoteId,
               FetchOrderStatus, PushCrash, PushTo, Throw, Found, Created, Refused,
               OutOfStock, PushSteps
      <4>2. UNCHANGED pushes \/ (pushes < MaxPushes /\ pushes' = pushes + 1)
        BY <3>1
           DEF Push, PushStart, PushCheck, CreateExport, BuildOrderSlice, SliceFailed,
               ExportOrder, PushOrder, PushFailed, CancelSoldOut, SaveRemoteId,
               FetchOrderStatus, PushCrash
      <4> QED
        BY <1>0, <4>1, <4>2
    <3>2. CASE Platform \/ Store \/ Reaper
      BY <3>2
         DEF Platform, Pay, StaffProcesses, Disconnect, RetryExport, CancelBegin, CancelAsks,
             CancelCommits, Store, Reaper, StoreMoves, StoreCancelled, StoreFulfilled,
             StoreFulfils, Age, ReapExports, AbandonExport, RefundAbandoned, pushing
    <3> QED
      BY <1>2, <3>1, <3>2 DEF PushNext
  <2>7. queued' \in BOOLEAN
    <3>1. UNCHANGED queued \/ queued' \in {TRUE, FALSE} \/ queued' \in {queued, TRUE}
      BY <1>2
         DEF PushNext, Push, PushStart, PushCheck, CreateExport, BuildOrderSlice, SliceFailed,
             ExportOrder, PushOrder, PushFailed, CancelSoldOut, SaveRemoteId, FetchOrderStatus,
             PushCrash, Platform, Pay, StaffProcesses, Disconnect, RetryExport, CancelBegin,
             CancelAsks, CancelCommits, Store, Reaper, StoreMoves, StoreCancelled,
             StoreFulfilled, StoreFulfils, Age, ReapExports, AbandonExport, RefundAbandoned,
             pushing
    <3> QED
      BY <3>1, Zenon
  <2>8. connected' \in BOOLEAN
    <3>1. UNCHANGED connected \/ connected' = ~connected
      BY <1>2
         DEF PushNext, Push, PushStart, PushCheck, CreateExport, BuildOrderSlice, SliceFailed,
             ExportOrder, PushOrder, PushFailed, CancelSoldOut, SaveRemoteId, FetchOrderStatus,
             PushCrash, Platform, Pay, StaffProcesses, Disconnect, RetryExport, CancelBegin,
             CancelAsks, CancelCommits, Store, Reaper, StoreMoves, StoreCancelled,
             StoreFulfilled, StoreFulfils, Age, ReapExports, AbandonExport, RefundAbandoned
    <3> QED
      BY <3>1
  <2>9. /\ reaper' \in {"idle", "abandon", "refund"} /\ delivery' \in {"idle", "ship"}
        /\ \/ UNCHANGED pushCrashes
           \/ pushCrashes < MaxPushCrashes /\ pushCrashes' = pushCrashes + 1
    <3>1. CASE Push
      BY <3>1
         DEF Push, PushStart, PushCheck, CreateExport, BuildOrderSlice, SliceFailed, ExportOrder,
             PushOrder, PushFailed, CancelSoldOut, SaveRemoteId, FetchOrderStatus, PushCrash
    <3>2. CASE Platform
      BY <3>2
         DEF Platform, Pay, StaffProcesses, Disconnect, RetryExport, CancelBegin, CancelAsks,
             CancelCommits
    <3>3. CASE Store \/ Reaper
      BY <3>3
         DEF Store, Reaper, StoreMoves, StoreCancelled, StoreFulfilled, StoreFulfils, Age,
             ReapExports, AbandonExport, RefundAbandoned
    <3> QED
      BY <1>2, <3>1, <3>2, <3>3 DEF PushNext
  <2>10. pushCrashes' \in 0..MaxPushCrashes
    BY <1>0, <2>9
  <2> QED
    BY <2>5, <2>6, <2>7, <2>8, <2>9, <2>10
<1> QED
  BY <1>1, <1>2

(* However it is pushed, cancelled, shipped, retried and reaped, an        *)
(* order's export is a row of the table, and the store has made an order   *)
(* exactly if it holds one.                                                *)
THEOREM PushTypesAlways == PushSpec => []PushTypeOK
<1>1. PushInit => ExportTypes
  <2>1. 0 \in 0..MaxPushes /\ 0 \in 0..MaxPushCrashes
    BY ChannelOrdersAssumption
  <2>2. [state |-> "none", remote |-> FALSE, old |-> FALSE] \in Exports
    BY DEF Exports, ExportStates
  <2> QED
    BY <2>1, <2>2 DEF PushInit, ExportTypes, PushSteps
<1>2. PushSpec => []ExportTypes
  BY <1>1, ExportTyped, PTL DEF PushSpec
<1>3. PushInv /\ ExportTypes => PushTypeOK
  BY DEF PushInv, PushTypes, MadeOnce, ExportTypes, Exports, PushTypeOK
<1> QED
  BY <1>2, <1>3, PushInvariant, PTL

(* However often the push runs, crashes or loses the store's answer, the   *)
(* store holds one order for the platform's one.                           *)
THEOREM StoreOrderOnceAlways == PushSpec => []StoreOrderOnce
<1>1. PushInv => StoreOrderOnce
  BY DEF PushInv, MadeOnce, StoreOrderOnce
<1> QED
  BY <1>1, PushInvariant, PTL

(* Whatever pushes, cancels and deliveries interleave, a cancelled order   *)
(* is cancelled at the store too, unless the cancel could not ask it.      *)
THEOREM CancelReachesStoreAlways == PushSpec => []CancelReachesStore
<1>1. PushInv => CancelReachesStore
  BY DEF PushInv, MadeOnce, CancelledIsClosed, CancelReachesStore
<1> QED
  BY <1>1, PushInvariant, PTL

-----------------------------------------------------------------------------
(* The returns and refunds. *)
Approvals == [at : {"idle", "pay", "mark", "book", "save", "close"},
              refund : Refunds \cup {NoRefund}]
Handlings == [at : {"idle", "insert", "execute", "mark", "undo"},
              refund : Refunds \cup {NoRefund}, auto : BOOLEAN]

ReturnTypes ==
  /\ return \in {"requested", "approved", "declined", "closed"}
  /\ merchant \in [Merchants -> Approvals]
  /\ paidReturn \in Nat

RequestTypes ==
  /\ request \in [Refunds -> Requests]
  /\ atStore \in [Refunds -> {"none", "own", "booked"}]
  /\ worker \in [Workers -> Handlings]
  /\ paid \in [Refunds -> Nat]

WindowTypes ==
  /\ races \subseteq {"overlap", "crash", "overtaken"}
  /\ returnCalls \in 0..MaxReturnCalls
  /\ returnCrashes \in 0..MaxReturnCrashes

-----------------------------------------------------------------------------
(* The held return. Before any window has opened, one approval at a time   *)
(* is paying or about to mark, and the money and the status agree with it. *)
NoWindow == races \cap {"overlap", "crash"} = {}

ReturnAgrees ==
  NoWindow =>
    /\ \A m, n \in Paying : m = n
    /\ Paying # {} => return = "requested"
    /\ \A m \in Merchants : merchant[m].at = "pay" => paidReturn = 0
    /\ Paying = {} /\ return \in {"requested", "declined"} => paidReturn = 0
    /\ \A m \in Merchants : merchant[m].at \in {"book", "save", "close"} =>
         return \in {"approved", "closed"}
    /\ paidReturn <= 1

ReturnInv == ReturnTypes /\ ReturnAgrees

(* The requests. One worker at a time handles an approved request, and has *)
(* paid it exactly if it is about to say so.                               *)
Handles(w) == worker[w].at \in {"execute", "mark", "undo"}

OneHandler ==
  \A v, w \in Workers : Handles(v) /\ Handles(w) /\ worker[v].refund = worker[w].refund => v = w

Handled ==
  \A w \in Workers :
    /\ worker[w].at # "idle" => worker[w].refund \in Refunds
    /\ Handles(w) => request[worker[w].refund] \in {"approved", "executed"}
    /\ worker[w].at \in {"execute", "undo"} => paid[worker[w].refund] = 0

PaidOnce ==
  \A r \in Refunds : /\ paid[r] <= 1
                     /\ request[r] \in {"none", "requested", "rejected"} => paid[r] = 0

(* What the platform booked at the store becomes a request to pay only by  *)
(* a report that overtook the row that says so.                            *)
Reported(r) ==
  \/ request[r] \in {"requested", "approved", "rejected"} \/ paid[r] > 0
  \/ \E w \in Workers : worker[w].at # "idle" /\ worker[w].refund = r

Overtaken ==
  \A r \in Refunds :
    /\ atStore[r] = "none" => ~Reported(r)
    /\ atStore[r] = "booked" /\ Reported(r) => "overtaken" \in races

Saves == \A m \in Merchants :
           merchant[m].at = "save" => /\ merchant[m].refund \in Refunds
                                      /\ atStore[merchant[m].refund] # "none"

RequestInv == RequestTypes /\ OneHandler /\ Handled /\ PaidOnce /\ Overtaken /\ Saves

-----------------------------------------------------------------------------
(* An approval, or a worker, that becomes x. *)
LEMMA MerchantBecomes ==
  ASSUME ReturnTypes, NEW m \in Merchants, NEW x \in Approvals,
         merchant' = [merchant EXCEPT ![m] = x]
  PROVE  /\ merchant' \in [Merchants -> Approvals] /\ merchant'[m] = x
         /\ \A n \in Merchants : n # m => merchant'[n] = merchant[n]
BY DEF ReturnTypes

LEMMA MerchantGoes ==
  ASSUME ReturnTypes, NEW m \in Merchants,
         NEW step \in {"idle", "pay", "mark", "book", "save", "close"},
         MerchantTo(m, step)
  PROVE  /\ merchant' \in [Merchants -> Approvals] /\ merchant'[m].at = step
         /\ merchant'[m].refund = merchant[m].refund
         /\ \A n \in Merchants : n # m => merchant'[n] = merchant[n]
<1> DEFINE x == [merchant[m] EXCEPT !.at = step]
<1>1. merchant[m] \in Approvals
  BY DEF ReturnTypes
<1>2. x \in Approvals /\ x.at = step /\ x.refund = merchant[m].refund
  BY <1>1 DEF Approvals
<1>3. merchant' = [merchant EXCEPT ![m] = x]
  BY DEF MerchantTo
<1> HIDE DEF x
<1> QED
  BY <1>2, <1>3, MerchantBecomes

LEMMA WorkerBecomes ==
  ASSUME RequestTypes, NEW w \in Workers, NEW x \in Handlings, worker' = [worker EXCEPT ![w] = x]
  PROVE  /\ worker' \in [Workers -> Handlings] /\ worker'[w] = x
         /\ \A v \in Workers : v # w => worker'[v] = worker[v]
BY DEF RequestTypes

LEMMA WorkerGoes ==
  ASSUME RequestTypes, NEW w \in Workers,
         NEW step \in {"idle", "insert", "execute", "mark", "undo"},
         To(w, step)
  PROVE  /\ worker' \in [Workers -> Handlings] /\ worker'[w].at = step
         /\ step # "idle" => worker'[w].refund = worker[w].refund
         /\ \A v \in Workers : v # w => worker'[v] = worker[v]
<1>1. CASE step = "idle"
  <2>1. worker' = [worker EXCEPT ![w] = NoWorker]
    BY <1>1 DEF To
  <2>2. NoWorker \in Handlings /\ NoWorker.at = "idle"
    BY DEF NoWorker, Handlings
  <2> QED
    BY <1>1, <2>1, <2>2, WorkerBecomes
<1>2. CASE step # "idle"
  <2> DEFINE x == [worker[w] EXCEPT !.at = step]
  <2>1. worker[w] \in Handlings
    BY DEF RequestTypes
  <2>2. x \in Handlings /\ x.at = step /\ x.refund = worker[w].refund
    BY <2>1 DEF Handlings
  <2>3. worker' = [worker EXCEPT ![w] = x]
    BY <1>2 DEF To
  <2> HIDE DEF x
  <2> QED
    BY <2>2, <2>3, WorkerBecomes
<1> QED
  BY <1>1, <1>2

LEMMA WindowsTyped == ASSUME WindowTypes, ReturnNext PROVE WindowTypes'
<1> USE DEF ReturnNext, ApproveReturn, PayReturn, MarkApproved, RecordRefund, SaveBooked,
            CloseReturn,
            RefundReported, InsertRequest, ApproveRefund, ExecuteRefund, MarkExecuted, UndoApproval,
            Settle, DeclineReturn, OwnRefund, RejectRefund, ReturnCrash
<1>1. UNCHANGED returnCalls \/ ReturnCall
  OBVIOUS
<1>2. \/ UNCHANGED returnCrashes
      \/ returnCrashes < MaxReturnCrashes /\ returnCrashes' = returnCrashes + 1
  OBVIOUS
<1>3. \/ UNCHANGED races \/ races' = races \cup {"overlap"}
      \/ races' = races \cup {"crash"} \/ races' = races \cup {"overtaken"}
  OBVIOUS
<1> USE ChannelReturnsAssumption
<1>4. returnCalls' \in 0..MaxReturnCalls
  BY <1>1 DEF ReturnCall, WindowTypes
<1>5. returnCrashes' \in 0..MaxReturnCrashes
  BY <1>2 DEF WindowTypes
<1> QED
  BY <1>3, <1>4, <1>5 DEF WindowTypes

-----------------------------------------------------------------------------
LEMMA ReturnStarts ==
  ASSUME ReturnInv, NEW m \in Merchants, ApproveReturn(m)
  PROVE  ReturnInv'
<1> USE DEF ReturnInv
<1>1. /\ merchant[m].at = "idle" /\ UNCHANGED <<return, paidReturn>>
      /\ return \in {"requested", "approved"}
      /\ MerchantTo(m, IF return = "requested" THEN "pay" ELSE "book")
      /\ races' = IF return = "requested" /\ Paying # {} THEN races \cup {"overlap"} ELSE races
  BY DEF ApproveReturn, MerchantAt, backVars
<1> DEFINE step == IF return = "requested" THEN "pay" ELSE "book"
<1>2. step \in {"idle", "pay", "mark", "book", "save", "close"} /\ MerchantTo(m, step)
  BY <1>1
<1> HIDE DEF step
<1>3. /\ merchant' \in [Merchants -> Approvals] /\ merchant'[m].at = step
      /\ \A n \in Merchants : n # m => merchant'[n] = merchant[n]
  BY <1>2, MerchantGoes
<1>4. ReturnTypes'
  BY <1>1, <1>3 DEF ReturnTypes
<1>5. NoWindow' => NoWindow /\ (return = "requested" => Paying = {})
  BY <1>1 DEF NoWindow
<1>6. CASE return = "requested"
  <2>1. step = "pay" /\ merchant'[m].at = "pay"
    BY <1>3, <1>6 DEF step
  <2>2. Paying = {} => Paying' = {m}
    BY <1>3, <2>1 DEF Paying
  <2> QED
    BY <1>1, <1>3, <1>4, <1>5, <1>6, <2>1, <2>2 DEF ReturnAgrees
<1>7. CASE return = "approved"
  <2>1. step = "book" /\ merchant'[m].at = "book"
    BY <1>3, <1>7 DEF step
  <2>2. Paying' = Paying
    BY <1>1, <1>3, <2>1 DEF Paying
  <2> QED
    BY <1>1, <1>3, <1>4, <1>5, <1>7, <2>1, <2>2 DEF ReturnAgrees
<1> QED
  BY <1>1, <1>6, <1>7

LEMMA ReturnPays ==
  ASSUME ReturnInv, NEW m \in Merchants, PayReturn(m)
  PROVE  ReturnInv'
<1> USE DEF ReturnInv
<1>1. merchant[m].at = "pay" /\ UNCHANGED <<return, races>> /\ m \in Paying
  BY DEF PayReturn, MerchantAt, Paying
<1>2. PICK step \in {"mark", "idle"} :
        /\ MerchantTo(m, step)
        /\ paidReturn' = IF step = "mark" THEN paidReturn + 1 ELSE paidReturn
  BY DEF PayReturn
<1>3. /\ merchant' \in [Merchants -> Approvals] /\ merchant'[m].at = step
      /\ \A n \in Merchants : n # m => merchant'[n] = merchant[n]
  BY <1>2, MerchantGoes
<1>4. ReturnTypes'
  BY <1>1, <1>2, <1>3 DEF ReturnTypes
<1>5. CASE step = "mark"
  <2>1. Paying' = Paying
    BY <1>1, <1>3, <1>5 DEF Paying
  <2>2. NoWindow => paidReturn = 0 /\ \A n \in Merchants : n # m => merchant[n].at # "pay"
    BY <1>1 DEF ReturnAgrees, Paying
  <2> QED
    BY <1>1, <1>2, <1>3, <1>4, <1>5, <2>1, <2>2 DEF ReturnAgrees, NoWindow
<1>6. CASE step = "idle"
  <2>1. Paying' = Paying \ {m}
    BY <1>3, <1>6 DEF Paying
  <2> QED
    BY <1>1, <1>2, <1>3, <1>4, <1>6, <2>1 DEF ReturnAgrees, NoWindow
<1> QED
  BY <1>5, <1>6

LEMMA ReturnMarked ==
  ASSUME ReturnInv, NEW m \in Merchants, MarkApproved(m)
  PROVE  ReturnInv'
<1> USE DEF ReturnInv
<1>1. /\ merchant[m].at = "mark" /\ UNCHANGED <<paidReturn, races>> /\ m \in Paying
      /\ return' = "approved" /\ MerchantTo(m, "book")
  BY DEF MarkApproved, MerchantAt, Paying, backVars
<1>2. /\ merchant' \in [Merchants -> Approvals] /\ merchant'[m].at = "book"
      /\ \A n \in Merchants : n # m => merchant'[n] = merchant[n]
  BY <1>1, MerchantGoes
<1>3. ReturnTypes'
  BY <1>1, <1>2 DEF ReturnTypes
<1>4. Paying' = Paying \ {m}
  BY <1>2 DEF Paying
<1>5. NoWindow => Paying' = {} /\ \A n \in Merchants : merchant'[n].at # "pay"
  <2>1. NoWindow => Paying' = {}
    BY <1>1, <1>4 DEF ReturnAgrees
  <2> QED
    BY <2>1 DEF Paying
<1> QED
  BY <1>1, <1>2, <1>3, <1>5 DEF ReturnAgrees, NoWindow

(* Booking at the store, keeping what it said, and closing.                *)
LEMMA ReturnBooked ==
  ASSUME ReturnInv, NEW m \in Merchants, RecordRefund(m) \/ SaveBooked(m) \/ CloseReturn(m)
  PROVE  ReturnInv'
<1> USE DEF ReturnInv
<1>1. /\ merchant[m].at \in {"book", "save", "close"} /\ UNCHANGED <<paidReturn, races>>
      /\ UNCHANGED return \/ return' = "closed"
  BY DEF RecordRefund, SaveBooked, CloseReturn, MerchantAt, backVars
<1>2. /\ merchant' \in [Merchants -> Approvals] /\ merchant'[m].at \in {"save", "close", "idle"}
      /\ \A n \in Merchants : n # m => merchant'[n] = merchant[n]
  <2>1. CASE MerchantTo(m, "idle")
    BY <2>1, MerchantGoes
  <2>2. ASSUME NEW r \in Refunds, merchant' = [merchant EXCEPT ![m] = [at |-> "save", refund |-> r]]
        PROVE  /\ merchant' \in [Merchants -> Approvals] /\ merchant'[m].at = "save"
               /\ \A n \in Merchants : n # m => merchant'[n] = merchant[n]
    <3>1. [at |-> "save", refund |-> r] \in Approvals
      BY DEF Approvals
    <3> QED
      BY <2>2, <3>1, MerchantBecomes
  <2>3. CASE merchant' = [merchant EXCEPT ![m] = [NoMerchant EXCEPT !.at = "close"]]
    <3> DEFINE x == [NoMerchant EXCEPT !.at = "close"]
    <3>1. x \in Approvals /\ x.at = "close"
      BY DEF Approvals, NoMerchant
    <3>2. merchant' = [merchant EXCEPT ![m] = x]
      BY <2>3
    <3> HIDE DEF x
    <3> QED
      BY <3>1, <3>2, MerchantBecomes
  <2> QED
    BY <2>1, <2>2, <2>3 DEF RecordRefund, SaveBooked, CloseReturn
<1>3. ReturnTypes'
  BY <1>1, <1>2 DEF ReturnTypes
<1>4. Paying' = Paying
  BY <1>1, <1>2 DEF Paying
<1>5. NoWindow => Paying = {} /\ return \in {"approved", "closed"}
  BY <1>1 DEF ReturnAgrees
<1>6. \A n \in Merchants : merchant'[n].at = "pay" => merchant[n].at = "pay"
  BY <1>2
<1> QED
  BY <1>1, <1>2, <1>3, <1>4, <1>5, <1>6 DEF ReturnAgrees, NoWindow

LEMMA ReturnElse ==
  ASSUME ReturnInv, DeclineReturn \/ ReturnCrash
  PROVE  ReturnInv'
<1> USE DEF ReturnInv
<1>1. CASE DeclineReturn
  <2>1. /\ UNCHANGED <<merchant, paidReturn>> /\ return = "requested" /\ return' = "declined"
        /\ races' = IF Paying # {} THEN races \cup {"overlap"} ELSE races
    BY <1>1 DEF DeclineReturn, backVars
  <2>2. NoWindow' => NoWindow /\ Paying = {}
    BY <2>1 DEF NoWindow
  <2>3. Paying' = Paying /\ ReturnTypes'
    BY <2>1 DEF Paying, ReturnTypes
  <2> QED
    BY <2>1, <2>2, <2>3 DEF ReturnAgrees
<1>2. CASE ReturnCrash /\ UNCHANGED <<merchant, races>>
  <2>1. UNCHANGED <<return, paidReturn>>
    BY <1>2 DEF ReturnCrash, backVars
  <2> QED
    BY <1>2, <2>1 DEF ReturnAgrees, NoWindow, Paying, ReturnTypes
<1>3. CASE ReturnCrash /\ ~UNCHANGED <<merchant, races>>
  <2>1. PICK m \in Merchants :
          /\ merchant[m].at # "idle"
          /\ merchant' = [merchant EXCEPT ![m] = NoMerchant]
          /\ races' = IF merchant[m].at = "mark" THEN races \cup {"crash"} ELSE races
    BY <1>3 DEF ReturnCrash, MerchantAt
  <2>2. UNCHANGED <<return, paidReturn>>
    BY <1>3 DEF ReturnCrash, backVars
  <2>3. NoMerchant \in Approvals /\ NoMerchant.at = "idle"
    BY DEF NoMerchant, Approvals
  <2>4. /\ merchant' \in [Merchants -> Approvals] /\ merchant'[m].at = "idle"
        /\ \A n \in Merchants : n # m => merchant'[n] = merchant[n]
    BY <2>1, <2>3, MerchantBecomes
  <2>5. Paying' = Paying \ {m} /\ ReturnTypes'
    BY <2>2, <2>4 DEF Paying, ReturnTypes
  <2>6. NoWindow' => NoWindow /\ merchant[m].at # "mark"
    BY <2>1 DEF NoWindow
  <2>7. NoWindow /\ m \in Paying /\ merchant[m].at # "mark" => paidReturn = 0
    BY DEF ReturnAgrees, Paying
  <2> QED
    BY <2>2, <2>4, <2>5, <2>6, <2>7 DEF ReturnAgrees
<1> QED
  BY <1>1, <1>2, <1>3

(* What the workers do to the requests does not touch the return. *)
LEMMA ReturnAlone ==
  ASSUME ReturnInv,
         \/ OwnRefund \/ RejectRefund
         \/ \E w \in Workers : \/ RefundReported(w) \/ InsertRequest(w) \/ ApproveRefund(w)
                               \/ ExecuteRefund(w) \/ MarkExecuted(w) \/ UndoApproval(w)
  PROVE  ReturnInv'
<1>1. UNCHANGED <<return, merchant, paidReturn>>
  BY DEF OwnRefund, RejectRefund, RefundReported, InsertRequest, ApproveRefund, ExecuteRefund,
         MarkExecuted, UndoApproval, Settle, backVars
<1>2. UNCHANGED races \/ races' = races \cup {"overtaken"}
  BY DEF OwnRefund, RejectRefund, RefundReported, InsertRequest, ApproveRefund, ExecuteRefund,
         MarkExecuted, UndoApproval, Settle
<1>3. NoWindow' <=> NoWindow
  BY <1>2 DEF NoWindow
<1> QED
  BY <1>1, <1>3 DEF ReturnInv, ReturnTypes, ReturnAgrees, Paying

-----------------------------------------------------------------------------
(* The requests. Approvals touch them where a booked refund is kept.       *)
LEMMA RequestsAlone ==
  ASSUME RequestInv, UNCHANGED <<request, atStore, worker, paid, merchant>>,
         races \subseteq races'
  PROVE  RequestInv'
BY DEF RequestInv, RequestTypes, OneHandler, Handled, Handles, PaidOnce, Overtaken, Reported, Saves

LEMMA ApprovalsLeaveRequests ==
  ASSUME ReturnTypes, RequestInv,
         \/ DeclineReturn
         \/ \E m \in Merchants : \/ ApproveReturn(m) \/ PayReturn(m)
                                 \/ MarkApproved(m) \/ CloseReturn(m)
  PROVE  RequestInv'
<1> USE DEF RequestInv
<1>1. UNCHANGED <<request, atStore, worker, paid>> /\ races \subseteq races'
  BY DEF DeclineReturn, ApproveReturn, PayReturn, MarkApproved, CloseReturn, backVars
<1>2. CASE UNCHANGED merchant
  BY <1>1, <1>2, RequestsAlone
<1>3. ASSUME NEW m \in Merchants, NEW step \in {"idle", "pay", "mark", "book"}, MerchantTo(m, step)
      PROVE  Saves'
  <2>1. /\ merchant'[m].at = step /\ \A n \in Merchants : n # m => merchant'[n] = merchant[n]
    BY <1>3, MerchantGoes
  <2> QED
    BY <1>1, <2>1 DEF Saves
<1>4. \/ UNCHANGED merchant
      \/ \E m \in Merchants, step \in {"idle", "pay", "mark", "book"} : MerchantTo(m, step)
  BY DEF DeclineReturn, ApproveReturn, PayReturn, MarkApproved, CloseReturn
<1>5. RequestTypes' /\ OneHandler' /\ Handled' /\ PaidOnce' /\ Overtaken'
  BY <1>1 DEF RequestTypes, OneHandler, Handled, Handles, PaidOnce, Overtaken, Reported
<1> QED
  BY <1>2, <1>3, <1>4, <1>5

(* Nothing is reported of a refund that does not exist yet. *)
LEMMA RefundMade ==
  ASSUME ReturnTypes, RequestInv,
         OwnRefund \/ \E m \in Merchants : RecordRefund(m)
  PROVE  RequestInv'
<1> USE DEF RequestInv
<1>1. UNCHANGED <<request, worker, paid, races>>
  BY DEF OwnRefund, RecordRefund, backVars
<1>2. /\ atStore' \in [Refunds -> {"none", "own", "booked"}]
      /\ \A r \in Refunds :
            atStore'[r] = atStore[r] \/ (atStore[r] = "none" /\ atStore'[r] # "none")
  BY DEF OwnRefund, RecordRefund, RequestTypes
<1>3. RequestTypes' /\ OneHandler' /\ Handled' /\ PaidOnce'
  BY <1>1, <1>2 DEF RequestTypes, OneHandler, Handled, Handles, PaidOnce
<1>4. Overtaken'
  <2>1. \A r \in Refunds : Reported(r)' <=> Reported(r)
    BY <1>1 DEF Reported
  <2> QED
    BY <1>1, <1>2, <2>1 DEF Overtaken
<1>5. Saves'
  <2>1. CASE UNCHANGED merchant
    BY <1>2, <2>1 DEF Saves
  <2>2. ASSUME NEW m \in Merchants, MerchantTo(m, "idle") PROVE Saves'
    <3>1. merchant'[m].at = "idle" /\ \A n \in Merchants : n # m => merchant'[n] = merchant[n]
      BY <2>2, MerchantGoes
    <3> QED
      BY <1>2, <3>1 DEF Saves
  <2>3. ASSUME NEW m \in Merchants, NEW r \in Refunds, atStore[r] = "none",
               atStore' = [atStore EXCEPT ![r] = "booked"],
               merchant' = [merchant EXCEPT ![m] = [at |-> "save", refund |-> r]]
        PROVE  Saves'
    <3>1. [at |-> "save", refund |-> r] \in Approvals
      BY DEF Approvals
    <3>2. /\ merchant'[m] = [at |-> "save", refund |-> r]
          /\ \A n \in Merchants : n # m => merchant'[n] = merchant[n]
      BY <2>3, <3>1, MerchantBecomes
    <3>3. atStore'[r] = "booked"
      BY <2>3 DEF RequestTypes
    <3> QED
      BY <1>2, <3>2, <3>3 DEF Saves
  <2> QED
    BY <2>1, <2>2, <2>3 DEF OwnRefund, RecordRefund
<1> QED
  BY <1>3, <1>4, <1>5

LEMMA BookedKept ==
  ASSUME ReturnTypes, RequestInv, NEW m \in Merchants, SaveBooked(m)
  PROVE  RequestInv'
<1> USE DEF RequestInv
<1> DEFINE r == merchant[m].refund
           x == [NoMerchant EXCEPT !.at = "close"]
<1>1. /\ merchant[m].at = "save" /\ UNCHANGED <<atStore, worker, paid, races>>
      /\ request' = [request EXCEPT ![r] = "executed"]
      /\ merchant' = [merchant EXCEPT ![m] = x]
  BY DEF SaveBooked, MerchantAt, backVars
<1>2. r \in Refunds
  BY <1>1 DEF Saves
<1>3. x \in Approvals /\ x.at = "close"
  BY DEF NoMerchant, Approvals
<1> HIDE DEF x, r
<1>4. /\ merchant'[m].at = "close" /\ \A n \in Merchants : n # m => merchant'[n] = merchant[n]
  BY <1>1, <1>3, MerchantBecomes
<1>5. /\ request' \in [Refunds -> Requests]
      /\ \A q \in Refunds : request'[q] = request[q] \/ request'[q] = "executed"
  BY <1>1, <1>2 DEF RequestTypes, Requests
<1>6. RequestTypes' /\ OneHandler'
  BY <1>1, <1>5 DEF RequestTypes, OneHandler, Handles
<1>7. Handled' /\ PaidOnce'
  BY <1>1, <1>5 DEF Handled, Handles, PaidOnce
<1>8. Overtaken'
  <2>1. \A q \in Refunds : Reported(q)' => Reported(q)
    BY <1>1, <1>5 DEF Reported
  <2> QED
    BY <1>1, <2>1 DEF Overtaken
<1>9. Saves'
  BY <1>1, <1>4 DEF Saves
<1> QED
  BY <1>6, <1>7, <1>8, <1>9

(* A worker that takes up a refund nobody handles. *)
LEMMA TakenUp ==
  ASSUME RequestInv, NEW w \in Workers, NEW r \in Refunds, NEW step \in {"insert", "execute"},
         NEW auto \in BOOLEAN,
         worker' = [worker EXCEPT ![w] = [at |-> step, refund |-> r, auto |-> auto]],
         request' \in [Refunds -> Requests],
         \A q \in Refunds : q # r => request'[q] = request[q],
         UNCHANGED <<atStore, merchant, paid>>, races \subseteq races',
         request[r] \in {"none", "requested"},
         step = "execute" => request'[r] = "approved",
         step = "insert"  => request'[r] = request[r],
         atStore[r] # "none", atStore[r] = "booked" => "overtaken" \in races'
  PROVE  RequestInv'
<1> USE DEF RequestInv
<1> DEFINE x == [at |-> step, refund |-> r, auto |-> auto]
<1>1. x \in Handlings /\ x.at = step /\ x.refund = r
  BY DEF Handlings
<1>2. worker' = [worker EXCEPT ![w] = x]
  OBVIOUS
<1> HIDE DEF x
<1>3. /\ worker' \in [Workers -> Handlings] /\ worker'[w] = x
      /\ \A v \in Workers : v # w => worker'[v] = worker[v]
  BY <1>1, <1>2, WorkerBecomes
<1>4. RequestTypes'
  BY <1>3 DEF RequestTypes
<1>5. \A v \in Workers : Handles(v) => worker[v].refund # r
  BY DEF Handled
<1>6. \A v \in Workers : v # w => (Handles(v)' <=> Handles(v))
  BY <1>3 DEF Handles
<1>7. OneHandler'
  BY <1>1, <1>3, <1>5, <1>6 DEF OneHandler
<1>8. paid[r] = 0
  BY DEF PaidOnce
<1>9. Handled'
  <2>1. ASSUME NEW v \in Workers, v # w
        PROVE  /\ worker'[v].at # "idle" => worker'[v].refund \in Refunds
               /\ Handles(v)' => request'[worker'[v].refund] \in {"approved", "executed"}
               /\ worker'[v].at \in {"execute", "undo"} => paid'[worker'[v].refund] = 0
    <3>1. Handles(v) => worker[v].refund \in Refunds
      BY DEF Handled, Handles
    <3> QED
      BY <1>3, <1>5, <1>6, <2>1, <3>1 DEF Handled
  <2>2. /\ Handles(w)' => step = "execute"
        /\ worker'[w].refund = r /\ paid'[r] = 0
    BY <1>1, <1>3, <1>8 DEF Handles
  <2> QED
    BY <2>1, <2>2 DEF Handled
<1>10. PaidOnce'
  BY <1>8 DEF PaidOnce
<1>11. Overtaken'
  <2>1. \A q \in Refunds : q # r => (Reported(q)' => Reported(q))
    BY <1>1, <1>3 DEF Reported
  <2> QED
    BY <2>1 DEF Overtaken
<1>12. Saves'
  BY DEF Saves
<1> QED
  BY <1>4, <1>7, <1>9, <1>10, <1>11, <1>12

LEMMA ReportTakenUp ==
  ASSUME RequestInv, NEW w \in Workers, RefundReported(w) \/ ApproveRefund(w)
  PROVE  RequestInv'
<1> USE DEF RequestInv
<1>1. CASE RefundReported(w)
  <2>1. PICK r \in Refunds, auto \in BOOLEAN :
          /\ atStore[r] # "none" /\ request[r] = "none"
          /\ worker' = [worker EXCEPT ![w] = [at |-> "insert", refund |-> r, auto |-> auto]]
          /\ races' = IF atStore[r] = "booked" THEN races \cup {"overtaken"} ELSE races
    BY <1>1 DEF RefundReported
  <2>2. UNCHANGED <<request, atStore, merchant, paid>>
    BY <1>1 DEF RefundReported, backVars
  <2>3. request' \in [Refunds -> Requests]
    BY <2>2 DEF RequestTypes
  <2> QED
    BY <2>1, <2>2, <2>3, TakenUp
<1>2. CASE ApproveRefund(w)
  <2>1. PICK r \in Refunds :
          /\ request[r] = "requested"
          /\ request' = [request EXCEPT ![r] = "approved"]
          /\ worker' = [worker EXCEPT ![w] = [at |-> "execute", refund |-> r, auto |-> FALSE]]
    BY <1>2 DEF ApproveRefund
  <2>2. UNCHANGED <<atStore, merchant, paid, races>>
    BY <1>2 DEF ApproveRefund, backVars
  <2>3. /\ request' \in [Refunds -> Requests] /\ request'[r] = "approved"
        /\ \A q \in Refunds : q # r => request'[q] = request[q]
    BY <2>1 DEF RequestTypes, Requests
  <2>4. atStore[r] # "none" /\ (atStore[r] = "booked" => "overtaken" \in races)
    BY <2>1 DEF Overtaken, Reported
  <2> QED
    BY <2>1, <2>2, <2>3, <2>4, TakenUp
<1> QED
  BY <1>1, <1>2

(* A worker that goes on with its refund, or is done with it: it handles   *)
(* an approved request that nobody else handles, unpaid unless it marks.   *)
LEMMA GoesOn ==
  ASSUME RequestInv, NEW w \in Workers, worker[w].at # "idle",
         NEW step \in {"idle", "execute", "mark", "undo"}, To(w, step),
         NEW r \in Refunds, r = worker[w].refund,
         request' \in [Refunds -> Requests], paid' \in [Refunds -> Nat],
         \A q \in Refunds : q # r => request'[q] = request[q] /\ paid'[q] = paid[q],
         UNCHANGED <<atStore, merchant, races>>,
         \/ Handles(w) \/ request[r] = "none"
         \/ step = "idle" /\ UNCHANGED <<request, paid>>,
         step # "idle" => request'[r] \in {"approved", "executed"},
         step \in {"execute", "undo"} => paid'[r] = 0,
         paid'[r] <= 1,
         request'[r] \in {"none", "requested", "rejected"} => paid'[r] = 0
  PROVE  RequestInv'
<1> USE DEF RequestInv
<1>1. /\ worker' \in [Workers -> Handlings] /\ worker'[w].at = step
      /\ step # "idle" => worker'[w].refund = r
      /\ \A v \in Workers : v # w => worker'[v] = worker[v]
  BY WorkerGoes
<1>2. RequestTypes'
  BY <1>1 DEF RequestTypes
<1>3. \A v \in Workers : v # w => (Handles(v)' <=> Handles(v))
  BY <1>1 DEF Handles
<1>4. \/ \A v \in Workers : v # w /\ Handles(v) => worker[v].refund # r
      \/ step = "idle" /\ UNCHANGED <<request, paid>>
  BY DEF OneHandler, Handled
<1>5. Handles(w)' => step # "idle"
  BY <1>1 DEF Handles
<1>6. OneHandler'
  BY <1>1, <1>3, <1>4, <1>5 DEF OneHandler
<1>7. Handled'
  <2>1. ASSUME NEW v \in Workers, v # w
        PROVE  /\ worker'[v].at # "idle" => worker'[v].refund \in Refunds
               /\ Handles(v)' => request'[worker'[v].refund] \in {"approved", "executed"}
               /\ worker'[v].at \in {"execute", "undo"} => paid'[worker'[v].refund] = 0
    <3>1. Handles(v) => worker[v].refund \in Refunds
      BY DEF Handled, Handles
    <3>2. worker[v].at \in {"execute", "undo"} => Handles(v)
      BY DEF Handles
    <3>3. Handles(v) => \/ worker[v].refund # r
                        \/ UNCHANGED <<request, paid>>
      BY <1>4, <2>1
    <3> QED
      BY <1>1, <1>3, <2>1, <3>1, <3>2, <3>3 DEF Handled
  <2>2. /\ step # "idle" => worker'[w].refund \in Refunds
        /\ Handles(w)' => request'[worker'[w].refund] \in {"approved", "executed"}
        /\ step \in {"execute", "undo"} => paid'[worker'[w].refund] = 0
    BY <1>1, <1>5
  <2> QED
    BY <1>1, <2>1, <2>2 DEF Handled
<1>8. PaidOnce'
  BY DEF PaidOnce
<1>9. Overtaken'
  <2>1. Reported(r)
    BY DEF Reported
  <2>2. \A q \in Refunds : q # r => (Reported(q)' => Reported(q))
    BY <1>1 DEF Reported
  <2> QED
    BY <2>1, <2>2 DEF Overtaken
<1>10. Saves'
  BY DEF Saves
<1> QED
  BY <1>2, <1>6, <1>7, <1>8, <1>9, <1>10

LEMMA WorkerKept ==
  ASSUME RequestInv, NEW w \in Workers,
         InsertRequest(w) \/ ExecuteRefund(w) \/ MarkExecuted(w) \/ UndoApproval(w)
  PROVE  RequestInv'
<1> USE DEF RequestInv
<1> DEFINE r == worker[w].refund
<1>1. worker[w].at # "idle" /\ UNCHANGED <<atStore, merchant, races>>
  BY DEF InsertRequest, ExecuteRefund, MarkExecuted, UndoApproval, Settle, Does, backVars
<1>2. /\ r \in Refunds /\ paid[r] <= 1 /\ paid[r] \in Nat
      /\ request[r] \in {"none", "requested", "rejected"} => paid[r] = 0
  BY <1>1 DEF Handled, PaidOnce, RequestTypes
<1>3. request \in [Refunds -> Requests] /\ paid \in [Refunds -> Nat]
  BY DEF RequestTypes
<1>4. CASE InsertRequest(w)
  <2>1. UNCHANGED paid
    BY <1>4 DEF InsertRequest, backVars
  <2>2. CASE request[r] # "none"
    <3>1. To(w, "idle") /\ UNCHANGED request
      BY <1>4, <2>2 DEF InsertRequest
    <3> HIDE DEF r
    <3> QED
      BY <1>1, <1>2, <1>3, <2>1, <3>1, GoesOn DEF r
  <2>3. CASE request[r] = "none"
    <3> DEFINE step == IF worker[w].auto THEN "execute" ELSE "idle"
               state == IF worker[w].auto THEN "approved" ELSE "requested"
    <3>1. request' = [request EXCEPT ![r] = state] /\ To(w, step)
      BY <1>4, <2>3 DEF InsertRequest
    <3>2. /\ step \in {"idle", "execute"} /\ state \in Requests
          /\ step # "idle" => state = "approved"
      BY DEF Requests
    <3> HIDE DEF step, state, r
    <3>3. /\ request' \in [Refunds -> Requests] /\ request'[r] = state
          /\ \A q \in Refunds : q # r => request'[q] = request[q]
      BY <1>2, <1>3, <3>1, <3>2
    <3>4. paid[r] = 0
      BY <1>2, <2>3
    <3> QED
      BY <1>1, <1>2, <1>3, <2>1, <2>3, <3>1, <3>2, <3>3, <3>4, GoesOn DEF r
  <2> QED
    BY <2>2, <2>3
<1>5. CASE ExecuteRefund(w)
  <2>1. /\ UNCHANGED request /\ worker[w].at = "execute"
        /\ \/ paid' = [paid EXCEPT ![r] = @ + 1] /\ To(w, "mark")
           \/ UNCHANGED paid /\ To(w, "undo")
    BY <1>5 DEF ExecuteRefund, Does
  <2>2. Handles(w) /\ paid[r] = 0 /\ request[r] \in {"approved", "executed"}
    BY <2>1 DEF Handles, Handled
  <2> HIDE DEF r
  <2>3. CASE paid' = [paid EXCEPT ![r] = @ + 1] /\ To(w, "mark")
    <3>1. /\ paid' \in [Refunds -> Nat] /\ paid'[r] = 1
          /\ \A q \in Refunds : q # r => paid'[q] = paid[q]
      BY <1>2, <1>3, <2>2, <2>3
    <3> QED
      BY <1>1, <1>2, <1>3, <2>1, <2>2, <2>3, <3>1, GoesOn DEF r
  <2>4. CASE UNCHANGED paid /\ To(w, "undo")
    BY <1>1, <1>2, <1>3, <2>1, <2>2, <2>4, GoesOn DEF r
  <2> QED
    BY <2>1, <2>3, <2>4
<1>6. ASSUME NEW state \in {"executed", "requested"}, NEW step \in {"mark", "undo"},
             Settle(w, step, state), step = "mark" => state = "executed"
      PROVE  RequestInv'
  <2>1. /\ UNCHANGED paid /\ worker[w].at = step /\ To(w, "idle")
        /\ request' = [request EXCEPT ![r] = IF @ = "approved" THEN state ELSE @]
    BY <1>6 DEF Settle, Does, backVars
  <2>2. Handles(w) /\ (step = "undo" => paid[r] = 0) /\ request[r] \in {"approved", "executed"}
    BY <2>1 DEF Handles, Handled
  <2> HIDE DEF r
  <2>3. /\ request' \in [Refunds -> Requests] /\ request'[r] \in {"executed", state}
        /\ \A q \in Refunds : q # r => request'[q] = request[q]
    BY <1>2, <1>3, <2>1, <2>2 DEF Requests
  <2> QED
    BY <1>1, <1>2, <1>3, <1>6, <2>1, <2>2, <2>3, GoesOn DEF r
<1> QED
  BY <1>4, <1>5, <1>6 DEF MarkExecuted, UndoApproval

LEMMA RejectKept ==
  ASSUME RequestInv, RejectRefund PROVE RequestInv'
<1> USE DEF RequestInv
<1>1. PICK r \in Refunds :
        request[r] = "requested" /\ request' = [request EXCEPT ![r] = "rejected"]
  BY DEF RejectRefund
<1>2. UNCHANGED <<atStore, worker, paid, races, merchant>>
  BY DEF RejectRefund, backVars
<1>3. /\ request' \in [Refunds -> Requests] /\ request'[r] = "rejected"
      /\ \A q \in Refunds : q # r => request'[q] = request[q]
  BY <1>1 DEF RequestTypes, Requests
<1>4. \A w \in Workers : Handles(w) => worker[w].refund # r
  BY <1>1 DEF Handled
<1>5. RequestTypes' /\ OneHandler' /\ PaidOnce' /\ Saves'
  BY <1>1, <1>2, <1>3 DEF RequestTypes, OneHandler, Handles, PaidOnce, Saves
<1>6. Handled'
  <2>1. \A w \in Workers : Handles(w) => worker[w].refund \in Refunds
    BY DEF Handled, Handles
  <2> QED
    BY <1>2, <1>3, <1>4, <2>1 DEF Handled, Handles
<1>7. Overtaken'
  <2>1. \A q \in Refunds : Reported(q)' => Reported(q)
    BY <1>1, <1>2, <1>3 DEF Reported
  <2> QED
    BY <1>2, <2>1 DEF Overtaken
<1> QED
  BY <1>5, <1>6, <1>7

LEMMA CrashKept ==
  ASSUME ReturnTypes, RequestInv, ReturnCrash PROVE RequestInv'
<1> USE DEF RequestInv
<1>1. UNCHANGED <<request, atStore, paid>> /\ races \subseteq races'
  BY DEF ReturnCrash, backVars
<1>2. ASSUME NEW m \in Merchants, merchant' = [merchant EXCEPT ![m] = NoMerchant], UNCHANGED worker
      PROVE  RequestInv'
  <2>1. NoMerchant \in Approvals /\ NoMerchant.at = "idle"
    BY DEF NoMerchant, Approvals
  <2>2. /\ merchant'[m].at = "idle" /\ \A n \in Merchants : n # m => merchant'[n] = merchant[n]
    BY <1>2, <2>1, MerchantBecomes
  <2>3. Saves'
    BY <1>1, <2>2 DEF Saves
  <2>4. RequestTypes' /\ OneHandler' /\ Handled' /\ PaidOnce' /\ Overtaken'
    BY <1>1, <1>2 DEF RequestTypes, OneHandler, Handled, Handles, PaidOnce, Overtaken, Reported
  <2> QED
    BY <2>3, <2>4
<1>3. ASSUME NEW w \in Workers, worker[w].at # "idle", To(w, "idle"), UNCHANGED <<merchant, races>>
      PROVE  RequestInv'
  <2> DEFINE r == worker[w].refund
  <2>1. /\ r \in Refunds /\ paid[r] <= 1
        /\ request[r] \in {"none", "requested", "rejected"} => paid[r] = 0
    BY <1>3 DEF Handled, PaidOnce
  <2>2. request \in [Refunds -> Requests] /\ paid \in [Refunds -> Nat]
    BY DEF RequestTypes
  <2> HIDE DEF r
  <2> QED
    BY <1>1, <1>3, <2>1, <2>2, GoesOn DEF r
<1> QED
  BY <1>2, <1>3 DEF ReturnCrash, Does

-----------------------------------------------------------------------------
BackInv == ReturnInv /\ RequestInv /\ WindowTypes

LEMMA BackInitially == ReturnInit => BackInv
<1> SUFFICES ASSUME ReturnInit PROVE BackInv
  OBVIOUS
<1>1. /\ NoMerchant \in Approvals /\ NoMerchant.at = "idle"
      /\ NoWorker \in Handlings /\ NoWorker.at = "idle"
  BY DEF NoMerchant, NoWorker, Approvals, Handlings
<1>2. Paying = {} /\ ReturnTypes
  BY <1>1 DEF ReturnInit, Paying, ReturnTypes
<1>3. ReturnAgrees
  BY <1>1, <1>2 DEF ReturnInit, ReturnAgrees
<1>4. RequestTypes
  BY <1>1 DEF ReturnInit, RequestTypes, Requests
<1>5. OneHandler /\ Handled /\ PaidOnce /\ Overtaken /\ Saves
  BY <1>1 DEF ReturnInit, OneHandler, Handled, Handles, PaidOnce, Overtaken, Reported, Saves
<1>6. WindowTypes
  BY ChannelReturnsAssumption DEF ReturnInit, WindowTypes
<1> QED
  BY <1>2, <1>3, <1>4, <1>5, <1>6 DEF BackInv, ReturnInv, RequestInv

(* The money a return or a refund has moved agrees with where it stands.   *)
THEOREM BackInvariant == ReturnSpec => []BackInv
<1>1. ASSUME BackInv, [ReturnNext]_returnVars
      PROVE  BackInv'
  <2> USE DEF BackInv
  <2>1. CASE UNCHANGED returnVars
    BY <1>1, <2>1 DEF returnVars, backVars, ReturnInv, ReturnTypes, ReturnAgrees, NoWindow, Paying,
       RequestInv, RequestTypes, OneHandler, Handled, Handles, PaidOnce, Overtaken, Reported, Saves,
       WindowTypes
  <2>2. CASE ReturnNext
    <3>1. WindowTypes' /\ ReturnTypes
      BY <1>1, <2>2, WindowsTyped DEF ReturnInv
    <3>2. ReturnInv'
      BY <1>1, <2>2, ReturnStarts, ReturnPays, ReturnMarked, ReturnBooked, ReturnElse, ReturnAlone
         DEF ReturnNext
    <3>3. RequestInv'
      BY <1>1, <2>2, <3>1, ApprovalsLeaveRequests, RefundMade, BookedKept, ReportTakenUp,
         WorkerKept,
         RejectKept, CrashKept DEF ReturnNext
    <3> QED
      BY <3>1, <3>2, <3>3
  <2> QED
    BY <1>1, <2>1, <2>2
<1> QED
  BY BackInitially, <1>1, PTL DEF ReturnSpec

(* The return, the requests and the calls on them keep their types.        *)
THEOREM ReturnTypesAlways == ReturnSpec => []ReturnTypeOK
<1>1. BackInv => ReturnTypeOK
  BY DEF BackInv, ReturnInv, RequestInv, ReturnTypes, RequestTypes, WindowTypes, ReturnTypeOK,
         Approvals, Handlings
<1> QED
  BY <1>1, BackInvariant, PTL

(* However approvals, refusals and crashes interleave, a return is paid    *)
(* once, and a declined one never, but for the two windows of the property.*)
THEOREM ReturnPaidOnceAlways == ReturnSpec => []ReturnPaidOnce
<1>1. BackInv => ReturnPaidOnce
  <2> SUFFICES ASSUME BackInv PROVE ReturnPaidOnce
    OBVIOUS
  <2>1. CASE ~NoWindow
    BY <2>1 DEF NoWindow, ReturnPaidOnce
  <2>2. CASE NoWindow
    <3>1. paidReturn <= 1 /\ (return = "declined" => paidReturn = 0)
      BY <2>2 DEF BackInv, ReturnInv, ReturnAgrees
    <3>2. paidReturn \in Nat
      BY DEF BackInv, ReturnInv, ReturnTypes
    <3> QED
      BY <3>1, <3>2 DEF ReturnPaidOnce
  <2> QED
    BY <2>1, <2>2
<1> QED
  BY <1>1, BackInvariant, PTL

(* However often a refund is reported, approved, undone and approved       *)
(* again, it pays once; and none the platform booked itself, unless the    *)
(* report overtook the row.                                                *)
THEOREM ReportPaidOnceAlways == ReturnSpec => []ReportPaidOnce
<1>1. BackInv => ReportPaidOnce
  BY DEF BackInv, RequestInv, PaidOnce, Overtaken, Reported, ReportPaidOnce
<1> QED
  BY <1>1, BackInvariant, PTL

-----------------------------------------------------------------------------
(* The deliveries. *)

Served    == [at : {"idle", "mark", "queue", "unmark"},
              delivery : Deliveries \cup {NoDelivery}, stores : SUBSET Stores]
Applied   == [at : {"idle", "read", "record"},
              delivery : Deliveries \cup {NoDelivery}, parcels : SUBSET Parcels]
Refreshed == [at : {"idle", "read", "record"}, parcels : SUBSET Parcels]

IntakeTypes ==
  /\ shipped \subseteq Parcels
  /\ known \in BOOLEAN
  /\ marked \subseteq Deliveries /\ accepted \subseteq Deliveries
  /\ receiver \in [Receivers -> Served]
  /\ waiting \in [Deliveries -> [Stores -> Nat]]
  /\ given \in [Deliveries -> SUBSET Stores]
  /\ sends \in 0..MaxSends

RecordTypes ==
  /\ applier \in [Stores -> Applied]
  /\ refresher \in Refreshed
  /\ records \in [Parcels -> Nat]

SlipTypes ==
  /\ slips \subseteq {"mark kept", "answered early", "overlap"}
  /\ hookFaults \in 0..MaxHookFaults

-----------------------------------------------------------------------------
(* The route. A request past the mark is alone with its delivery, and has  *)
(* queued what it no longer has to queue.                                  *)
PastMark(q) == receiver[q].at \in {"queue", "unmark"}

Serves ==
  \A q \in Receivers :
    /\ receiver[q].at # "idle" => receiver[q].delivery \in Deliveries
    /\ receiver[q].at = "mark" => receiver[q].stores = Stores
    /\ PastMark(q) => receiver[q].delivery \in marked
    /\ receiver[q].at = "queue" =>
         Stores \subseteq receiver[q].stores \cup given[receiver[q].delivery]

AloneWithIt ==
  \A q, r \in Receivers :
    PastMark(q) /\ PastMark(r) /\ receiver[q].delivery = receiver[r].delivery => q = r

Clean == slips \cap {"mark kept", "answered early"} = {}

(* While nothing went wrong, a mark whose request is over is of a delivery *)
(* that is queued.                                                         *)
MarkedIsQueued ==
  Clean =>
    \A d \in marked :
      given[d] = Stores \/ \E q \in Receivers : PastMark(q) /\ receiver[q].delivery = d

IntakeInv == IntakeTypes /\ SlipTypes /\ Serves /\ AloneWithIt /\ MarkedIsQueued /\ AcceptedIsQueued

(* The jobs. Only the Owner's has anything to do, and what a job is about  *)
(* to record nobody has recorded.                                          *)
OwnersJob == \A s \in Stores : applier[s].at # "idle" => s = Owner

NotRecordedYet ==
  "overlap" \notin slips =>
    /\ ~(applier[Owner].at = "record" /\ refresher.at = "record")
    /\ applier[Owner].at = "record" => \A p \in applier[Owner].parcels : records[p] = 0
    /\ refresher.at = "record" => \A p \in refresher.parcels : records[p] = 0

RecordInv == RecordTypes /\ SlipTypes /\ OwnersJob /\ NotRecordedYet /\ ParcelRecordedOnce

-----------------------------------------------------------------------------
(* What each step leaves alone. *)
RouteStep(q) == \/ Send(q) \/ MarkDelivery(q) \/ QueueJob(q) \/ QueueFails(q)
                \/ ForgetDelivery(q) \/ Accept(q) \/ ReceiverDies(q)
ApplyStep(s) == \/ ApplyStart(s) \/ ApplyRead(s) \/ ApplyRecord(s)
                \/ ApplyEnd(s) \/ ApplyBreaks(s)
RefreshStep  == RefreshStart \/ RefreshRead \/ RefreshRecord \/ RefreshEnd

LEMMA FaultTyped ==
  ASSUME SlipTypes, UNCHANGED hookFaults \/ Fault PROVE hookFaults' \in 0..MaxHookFaults
<1>1. hookFaults \in 0..MaxHookFaults /\ MaxHookFaults \in Nat
  BY ChannelDeliveriesAssumption DEF SlipTypes
<1>2. CASE UNCHANGED hookFaults
  BY <1>1, <1>2
<1>3. CASE Fault
  BY <1>1, <1>3 DEF Fault
<1> QED
  BY <1>2, <1>3

LEMMA SlipsTyped == ASSUME SlipTypes, HookNext PROVE SlipTypes'
<1>1. UNCHANGED hookFaults \/ Fault
  BY DEF HookNext, Ship, LearnRemoteId, Send, MarkDelivery, QueueJob, QueueFails, ForgetDelivery,
         Accept, ReceiverDies, ApplyStart, ApplyRead, ApplyRecord, ApplyEnd, ApplyBreaks,
         RefreshStart, RefreshRead, RefreshRecord, RefreshEnd
<1>2. \/ UNCHANGED slips \/ slips' = slips \cup {"mark kept"}
      \/ slips' = slips \cup {"answered early"} \/ slips' = slips \cup {"overlap"}
  BY DEF HookNext, Ship, LearnRemoteId, Send, MarkDelivery, QueueJob, QueueFails, ForgetDelivery,
         Accept, ReceiverDies, ApplyStart, ApplyRead, ApplyRecord, ApplyEnd, ApplyBreaks,
         RefreshStart, RefreshRead, RefreshRecord, RefreshEnd, Overlap
<1> QED
  BY <1>1, <1>2, FaultTyped DEF SlipTypes

(* A step of the jobs hands out no delivery, and none of the route's       *)
(* touches the records.                                                    *)
LEMMA JobsLeaveIntake ==
  ASSUME IntakeTypes, RecordTypes, SlipTypes,
         NEW s \in Stores, Ship \/ LearnRemoteId \/ ApplyStep(s) \/ RefreshStep
  PROVE  /\ UNCHANGED <<marked, receiver, accepted, given, sends>>
         /\ waiting' \in [Deliveries -> [Stores -> Nat]]
         /\ shipped' \subseteq Parcels /\ known' \in BOOLEAN
         /\ Clean' <=> Clean
         /\ Clean => slips' \cap {"mark kept", "answered early"} = {}
<1> USE DEF ApplyStep, RefreshStep
<1>1. UNCHANGED <<marked, receiver, accepted, given, sends>>
  BY DEF Ship, LearnRemoteId, ApplyStart, ApplyRead, ApplyRecord, ApplyEnd, ApplyBreaks,
         RefreshStart, RefreshRead, RefreshRecord, RefreshEnd, intake
<1>2. UNCHANGED slips \/ slips' = slips \cup {"overlap"}
  BY DEF Ship, LearnRemoteId, ApplyStart, ApplyRead, ApplyRecord, ApplyEnd, ApplyBreaks,
         RefreshStart, RefreshRead, RefreshRecord, RefreshEnd, Overlap
<1>3. shipped' \subseteq Parcels /\ known' \in BOOLEAN
  BY DEF Ship, LearnRemoteId, ApplyStart, ApplyRead, ApplyRecord, ApplyEnd, ApplyBreaks,
         RefreshStart, RefreshRead, RefreshRecord, RefreshEnd, IntakeTypes
<1>4. waiting' \in [Deliveries -> [Stores -> Nat]]
  <2>1. CASE UNCHANGED waiting
    BY <2>1 DEF IntakeTypes
  <2>2. CASE ApplyStart(s)
    <3>1. PICK d \in Deliveries :
            waiting[d][s] > 0 /\ waiting' = [waiting EXCEPT ![d][s] = @ - 1]
      BY <2>2 DEF ApplyStart
    <3>2. waiting[d] \in [Stores -> Nat] /\ waiting[d][s] - 1 \in Nat
      BY <3>1 DEF IntakeTypes
    <3>3. waiting' = [waiting EXCEPT ![d] = [waiting[d] EXCEPT ![s] = waiting[d][s] - 1]]
      BY <3>1
    <3>4. [waiting[d] EXCEPT ![s] = waiting[d][s] - 1] \in [Stores -> Nat]
      BY <3>2
    <3> QED
      BY <3>3, <3>4 DEF IntakeTypes
  <2>3. CASE ApplyBreaks(s) /\ ~UNCHANGED waiting
    <3> DEFINE d == applier[s].delivery
    <3>1. waiting' = [waiting EXCEPT ![d][s] = @ + 1]
      BY <2>3 DEF ApplyBreaks
    <3> HIDE DEF d
    <3>2. CASE d \in Deliveries
      <4>1. waiting[d] \in [Stores -> Nat] /\ waiting[d][s] + 1 \in Nat
        BY <3>2 DEF IntakeTypes
      <4>2. waiting' = [waiting EXCEPT ![d] = [waiting[d] EXCEPT ![s] = waiting[d][s] + 1]]
        BY <3>1
      <4>3. [waiting[d] EXCEPT ![s] = waiting[d][s] + 1] \in [Stores -> Nat]
        BY <4>1
      <4> QED
        BY <4>2, <4>3 DEF IntakeTypes
    <3>3. CASE d \notin Deliveries
      BY <3>1, <3>3 DEF IntakeTypes
    <3> QED
      BY <3>2, <3>3
  <2> QED
    BY <2>1, <2>2, <2>3
       DEF Ship, LearnRemoteId, ApplyRead, ApplyRecord, ApplyEnd, ApplyBreaks,
           RefreshStart, RefreshRead, RefreshRecord, RefreshEnd, intake
<1> QED
  BY <1>1, <1>2, <1>3, <1>4 DEF Clean

LEMMA IntakeLeftAlone ==
  ASSUME IntakeInv, RecordTypes, SlipTypes',
         NEW s \in Stores, Ship \/ LearnRemoteId \/ ApplyStep(s) \/ RefreshStep
  PROVE  IntakeInv'
<1> USE DEF IntakeInv
<1>1. /\ UNCHANGED <<marked, receiver, accepted, given, sends>>
      /\ waiting' \in [Deliveries -> [Stores -> Nat]]
      /\ shipped' \subseteq Parcels /\ known' \in BOOLEAN
      /\ Clean' <=> Clean
  BY JobsLeaveIntake
<1>2. IntakeTypes'
  BY <1>1 DEF IntakeTypes
<1>3. Serves' /\ AloneWithIt'
  BY <1>1 DEF Serves, AloneWithIt, PastMark
<1>4. MarkedIsQueued'
  BY <1>1 DEF MarkedIsQueued, PastMark
<1>5. AcceptedIsQueued'
  BY <1>1 DEF AcceptedIsQueued, Clean
<1> QED
  BY <1>2, <1>3, <1>4, <1>5

-----------------------------------------------------------------------------
(* A request that becomes w. *)
LEMMA Becomes ==
  ASSUME IntakeTypes, NEW q \in Receivers, NEW w \in Served, receiver' = [receiver EXCEPT ![q] = w]
  PROVE  /\ receiver' \in [Receivers -> Served] /\ receiver'[q] = w
         /\ \A r \in Receivers : r # q => receiver'[r] = receiver[r]
         /\ \A r \in Receivers : r # q => (PastMark(r)' <=> PastMark(r))
<1>1. /\ receiver' \in [Receivers -> Served] /\ receiver'[q] = w
      /\ \A r \in Receivers : r # q => receiver'[r] = receiver[r]
  BY DEF IntakeTypes
<1> QED
  BY <1>1 DEF PastMark

LEMMA BecomesAt ==
  ASSUME IntakeTypes, NEW q \in Receivers, NEW step \in {"mark", "queue", "unmark"},
         Receive(q, step)
  PROVE  \E w \in Served :
           /\ receiver' = [receiver EXCEPT ![q] = w]
           /\ w.at = step /\ w.delivery = receiver[q].delivery /\ w.stores = receiver[q].stores
<1> DEFINE w == [receiver[q] EXCEPT !.at = step]
<1>1. receiver[q] \in Served
  BY DEF IntakeTypes
<1>2. /\ w \in Served /\ w.at = step
      /\ w.delivery = receiver[q].delivery /\ w.stores = receiver[q].stores
  BY <1>1 DEF Served
<1>3. receiver' = [receiver EXCEPT ![q] = w]
  BY DEF Receive
<1> QED
  BY <1>2, <1>3

LEMMA BecomesIdle == NoRequest \in Served /\ NoRequest.at = "idle"
BY DEF NoRequest, Served

LEMMA SendKept ==
  ASSUME IntakeInv, SlipTypes', NEW q \in Receivers, Send(q)
  PROVE  IntakeInv'
<1> USE DEF IntakeInv
<1>1. PICK d \in Deliveries :
        receiver' = [receiver EXCEPT ![q] = [at |-> "mark", delivery |-> d, stores |-> Stores]]
  BY DEF Send
<1>2. /\ UNCHANGED <<shipped, known, marked, accepted, waiting, given, slips>>
      /\ receiver[q].at = "idle" /\ sends < MaxSends /\ sends' = sends + 1
  BY DEF Send, Receives
<1> DEFINE w == [at |-> "mark", delivery |-> d, stores |-> Stores]
<1>3. w \in Served /\ w.at = "mark" /\ w.delivery = d /\ w.stores = Stores
  BY DEF Served
<1>4. receiver' = [receiver EXCEPT ![q] = w]
  BY <1>1
<1> HIDE DEF w
<1>5. /\ receiver' \in [Receivers -> Served] /\ receiver'[q] = w
      /\ \A r \in Receivers : r # q => receiver'[r] = receiver[r]
  BY <1>3, <1>4, Becomes
<1>6. sends' \in 0..MaxSends
  BY <1>2, ChannelDeliveriesAssumption DEF IntakeTypes
<1>7. IntakeTypes'
  BY <1>2, <1>5, <1>6 DEF IntakeTypes
<1>8. ~PastMark(q) /\ ~PastMark(q)'
  BY <1>2, <1>3, <1>5 DEF PastMark
<1>9. Serves' /\ AloneWithIt'
  BY <1>2, <1>3, <1>5, <1>8 DEF Serves, AloneWithIt, PastMark
<1>10. AcceptedIsQueued'
  BY <1>2 DEF AcceptedIsQueued
<1>11. MarkedIsQueued'
  <2>1. \A r \in Receivers : PastMark(r) => PastMark(r)' /\ receiver'[r] = receiver[r]
    BY <1>5, <1>8 DEF PastMark
  <2> QED
    BY <1>2, <2>1 DEF MarkedIsQueued, Clean
<1> QED
  BY <1>7, <1>9, <1>10, <1>11

LEMMA MarkKept ==
  ASSUME IntakeInv, SlipTypes', NEW q \in Receivers, MarkDelivery(q)
  PROVE  IntakeInv'
<1> USE DEF IntakeInv
<1> DEFINE d == receiver[q].delivery
<1>1. /\ UNCHANGED <<shipped, known, waiting, given, sends>>
      /\ receiver[q].at = "mark" /\ d \in Deliveries
  BY DEF MarkDelivery, Receives, Serves
<1>2. ~PastMark(q)
  BY <1>1 DEF PastMark
<1>3. CASE d \notin marked
  <2>1. marked' = marked \cup {d} /\ Receive(q, "queue") /\ UNCHANGED <<accepted, slips>>
    BY <1>3 DEF MarkDelivery
  <2>2. PICK w \in Served :
          /\ receiver' = [receiver EXCEPT ![q] = w]
          /\ w.at = "queue" /\ w.delivery = d /\ w.stores = receiver[q].stores
    BY <2>1, BecomesAt
  <2>3. /\ receiver' \in [Receivers -> Served] /\ receiver'[q] = w
        /\ \A r \in Receivers : r # q => receiver'[r] = receiver[r]
        /\ \A r \in Receivers : r # q => (PastMark(r)' <=> PastMark(r))
    BY <2>2, Becomes
  <2>4. /\ receiver[q].stores = Stores
        /\ \A r \in Receivers : PastMark(r) => receiver[r].delivery # d
    BY <1>1, <1>3 DEF Serves
  <2>5. IntakeTypes'
    BY <1>1, <2>1, <2>3 DEF IntakeTypes
  <2>6. Serves'
    <3>1. ASSUME NEW r \in Receivers, r # q
          PROVE  /\ receiver'[r].at # "idle" => receiver'[r].delivery \in Deliveries
                 /\ receiver'[r].at = "mark" => receiver'[r].stores = Stores
                 /\ PastMark(r)' => receiver'[r].delivery \in marked'
                 /\ receiver'[r].at = "queue" =>
                      Stores \subseteq receiver'[r].stores \cup given'[receiver'[r].delivery]
      BY <1>1, <2>1, <2>3, <3>1 DEF Serves
    <3> QED
      BY <1>1, <2>1, <2>2, <2>3, <2>4, <3>1 DEF Serves
  <2>7. AloneWithIt'
    BY <2>2, <2>3, <2>4 DEF AloneWithIt
  <2>8. MarkedIsQueued'
    <3>1. PastMark(q)' /\ receiver'[q].delivery = d
      BY <2>2, <2>3 DEF PastMark
    <3> QED
      BY <1>1, <1>2, <2>1, <2>3, <3>1 DEF MarkedIsQueued, Clean
  <2>9. AcceptedIsQueued'
    BY <1>1, <2>1 DEF AcceptedIsQueued
  <2> QED
    BY <2>5, <2>6, <2>7, <2>8, <2>9
<1>4. CASE d \in marked
  <2>1. /\ UNCHANGED marked /\ accepted' = accepted \cup {d}
        /\ receiver' = [receiver EXCEPT ![q] = NoRequest]
        /\ slips' = IF \E r \in Receivers \ {q} : receiver[r].delivery = d /\ ~Receives(r, "mark")
                    THEN slips \cup {"answered early"} ELSE slips
    BY <1>4 DEF MarkDelivery, Answer
  <2>2. /\ receiver' \in [Receivers -> Served] /\ receiver'[q].at = "idle"
        /\ \A r \in Receivers : r # q => receiver'[r] = receiver[r]
        /\ \A r \in Receivers : r # q => (PastMark(r)' <=> PastMark(r))
    BY <2>1, Becomes, BecomesIdle
  <2>3. ~PastMark(q)'
    BY <2>2 DEF PastMark
  <2>4. Clean' => /\ Clean
                  /\ \A r \in Receivers : PastMark(r) => receiver[r].delivery # d
    BY <1>2, <2>1 DEF Clean, PastMark, Receives
  <2>5. IntakeTypes'
    BY <1>1, <2>1, <2>2 DEF IntakeTypes
  <2>6. Serves' /\ AloneWithIt'
    BY <1>1, <2>1, <2>2, <2>3 DEF Serves, AloneWithIt
  <2>7. MarkedIsQueued'
    BY <1>1, <1>2, <2>1, <2>2, <2>4 DEF MarkedIsQueued
  <2>8. Clean' => given[d] = Stores
    BY <1>4, <2>4 DEF MarkedIsQueued
  <2>9. AcceptedIsQueued'
    BY <1>1, <2>1, <2>4, <2>8 DEF AcceptedIsQueued, Clean
  <2> QED
    BY <2>5, <2>6, <2>7, <2>9
<1> QED
  BY <1>3, <1>4

(* A store gets its job, or, when that fails, the request goes to forget.  *)
LEMMA QueueKept ==
  ASSUME IntakeInv, SlipTypes', NEW q \in Receivers, QueueJob(q)
  PROVE  IntakeInv'
<1> USE DEF IntakeInv
<1> DEFINE d == receiver[q].delivery
<1>1. PICK s \in receiver[q].stores :
        /\ waiting' = [waiting EXCEPT ![d][s] = @ + 1]
        /\ given' = [given EXCEPT ![d] = @ \cup {s}]
        /\ receiver' = [receiver EXCEPT ![q].stores = @ \ {s}]
  BY DEF QueueJob
<1>2. /\ UNCHANGED <<shipped, known, marked, accepted, slips, sends>>
      /\ receiver[q].at = "queue" /\ receiver[q] \in Served
  BY DEF QueueJob, Receives, IntakeTypes
<1>3. d \in Deliveries /\ s \in Stores
  BY <1>2 DEF Serves, Served
<1> DEFINE w == [receiver[q] EXCEPT !.stores = receiver[q].stores \ {s}]
<1>4. /\ w \in Served /\ w.at = "queue" /\ w.delivery = d /\ w.stores = receiver[q].stores \ {s}
  BY <1>2 DEF Served
<1>5. receiver' = [receiver EXCEPT ![q] = w]
  BY <1>1
<1> HIDE DEF w
<1>6. /\ receiver' \in [Receivers -> Served] /\ receiver'[q] = w
      /\ \A r \in Receivers : r # q => receiver'[r] = receiver[r]
      /\ \A r \in Receivers : r # q => (PastMark(r)' <=> PastMark(r))
  BY <1>4, <1>5, Becomes
<1>7. PastMark(q) /\ PastMark(q)'
  BY <1>2, <1>4, <1>6 DEF PastMark
<1> HIDE DEF d
<1>8. /\ given' \in [Deliveries -> SUBSET Stores] /\ given'[d] = given[d] \cup {s}
      /\ \A e \in Deliveries : given[e] \subseteq given'[e]
  BY <1>1, <1>3 DEF IntakeTypes
<1>9. waiting' \in [Deliveries -> [Stores -> Nat]]
  <2>1. waiting[d] \in [Stores -> Nat] /\ waiting[d][s] + 1 \in Nat
    BY <1>3 DEF IntakeTypes
  <2>2. waiting' = [waiting EXCEPT ![d] = [waiting[d] EXCEPT ![s] = waiting[d][s] + 1]]
    BY <1>1
  <2>3. [waiting[d] EXCEPT ![s] = waiting[d][s] + 1] \in [Stores -> Nat]
    BY <2>1
  <2> QED
    BY <2>2, <2>3 DEF IntakeTypes
<1>10. IntakeTypes'
  BY <1>2, <1>6, <1>8, <1>9 DEF IntakeTypes
<1>11. receiver[q].delivery = d /\ receiver'[q].delivery = d
  BY <1>4, <1>6 DEF d
<1>12. Serves'
  <2>1. ASSUME NEW r \in Receivers, r # q
        PROVE  /\ receiver'[r].at # "idle" => receiver'[r].delivery \in Deliveries
               /\ receiver'[r].at = "mark" => receiver'[r].stores = Stores
               /\ PastMark(r)' => receiver'[r].delivery \in marked'
               /\ receiver'[r].at = "queue" =>
                    Stores \subseteq receiver'[r].stores \cup given'[receiver'[r].delivery]
    BY <1>2, <1>6, <1>8, <2>1 DEF Serves
  <2>2. Stores \subseteq receiver[q].stores \cup given[d] /\ d \in marked
    BY <1>2, <1>7, <1>11 DEF Serves
  <2>3. Stores \subseteq w.stores \cup given'[d]
    BY <1>4, <1>8, <2>2
  <2> QED
    BY <1>2, <1>3, <1>4, <1>6, <1>11, <2>1, <2>2, <2>3 DEF Serves
<1>13. AloneWithIt'
  BY <1>6, <1>7, <1>11 DEF AloneWithIt
<1>14. MarkedIsQueued'
  <2>1. \A r \in Receivers :
          (PastMark(r)' <=> PastMark(r)) /\ receiver'[r].delivery = receiver[r].delivery
    BY <1>6, <1>7, <1>11
  <2>2. \A e \in marked : given[e] = Stores => given'[e] = Stores
    BY <1>8, <1>10 DEF IntakeTypes
  <2> QED
    BY <1>2, <2>1, <2>2 DEF MarkedIsQueued, Clean
<1>15. AcceptedIsQueued'
  <2>1. \A e \in accepted : given[e] = Stores => given'[e] = Stores
    BY <1>8, <1>10 DEF IntakeTypes
  <2> QED
    BY <1>2, <2>1 DEF AcceptedIsQueued
<1> QED
  BY <1>10, <1>12, <1>13, <1>14, <1>15

LEMMA QueueFailsKept ==
  ASSUME IntakeInv, SlipTypes', NEW q \in Receivers, QueueFails(q)
  PROVE  IntakeInv'
<1> USE DEF IntakeInv
<1>1. /\ UNCHANGED <<shipped, known, marked, accepted, waiting, given, slips, sends>>
      /\ receiver[q].at = "queue" /\ Receive(q, "unmark")
  BY DEF QueueFails, Receives
<1>2. PICK w \in Served :
        /\ receiver' = [receiver EXCEPT ![q] = w]
        /\ w.at = "unmark" /\ w.delivery = receiver[q].delivery
  BY <1>1, BecomesAt
<1>3. /\ receiver' \in [Receivers -> Served] /\ receiver'[q] = w
      /\ \A r \in Receivers : r # q => receiver'[r] = receiver[r]
  BY <1>2, Becomes
<1>4. /\ \A r \in Receivers : PastMark(r)' <=> PastMark(r)
      /\ \A r \in Receivers : receiver'[r].delivery = receiver[r].delivery
  BY <1>1, <1>2, <1>3 DEF PastMark
<1>5. IntakeTypes'
  BY <1>1, <1>3 DEF IntakeTypes
<1>6. Serves' /\ AloneWithIt'
  BY <1>1, <1>2, <1>3, <1>4 DEF Serves, AloneWithIt
<1>7. MarkedIsQueued' /\ AcceptedIsQueued'
  BY <1>1, <1>4 DEF MarkedIsQueued, AcceptedIsQueued, Clean
<1> QED
  BY <1>5, <1>6, <1>7

(* The end of a request: its mark goes, or all its stores have their jobs, *)
(* or something went wrong.                                                *)
LEMMA EndKept ==
  ASSUME IntakeInv, SlipTypes', NEW q \in Receivers,
         ForgetDelivery(q) \/ Accept(q) \/ ReceiverDies(q)
  PROVE  IntakeInv'
<1> USE DEF IntakeInv
<1> DEFINE d == receiver[q].delivery
<1>1. /\ UNCHANGED <<shipped, known, waiting, given, sends>>
      /\ receiver' = [receiver EXCEPT ![q] = NoRequest]
      /\ d \in Deliveries
  BY DEF ForgetDelivery, Accept, ReceiverDies, Answer, Receives, Serves
<1>2. /\ receiver' \in [Receivers -> Served] /\ receiver'[q].at = "idle"
      /\ \A r \in Receivers : r # q => receiver'[r] = receiver[r]
      /\ \A r \in Receivers : r # q => (PastMark(r)' <=> PastMark(r))
  BY <1>1, Becomes, BecomesIdle
<1>3. ~PastMark(q)'
  BY <1>2 DEF PastMark
<1>4. CASE ForgetDelivery(q)
  <2>1. marked' = marked \ {d} /\ UNCHANGED <<accepted, slips>> /\ PastMark(q)
    BY <1>4 DEF ForgetDelivery, Receives, PastMark
  <2>2. \A r \in Receivers : r # q /\ PastMark(r) => receiver[r].delivery # d
    BY <2>1 DEF AloneWithIt
  <2>3. IntakeTypes'
    BY <1>1, <1>2, <2>1 DEF IntakeTypes
  <2>4. Serves' /\ AloneWithIt'
    BY <1>1, <1>2, <1>3, <2>1, <2>2 DEF Serves, AloneWithIt
  <2>5. MarkedIsQueued' /\ AcceptedIsQueued'
    BY <1>1, <1>2, <2>1 DEF MarkedIsQueued, AcceptedIsQueued, Clean
  <2> QED
    BY <2>3, <2>4, <2>5
<1>5. CASE Accept(q)
  <2>1. /\ accepted' = accepted \cup {d} /\ UNCHANGED <<marked, slips>>
        /\ receiver[q].at = "queue" /\ receiver[q].stores = {}
    BY <1>5 DEF Accept, Receives
  <2>2. given[d] = Stores
    BY <1>1, <2>1 DEF Serves, IntakeTypes
  <2>3. IntakeTypes'
    BY <1>1, <1>2, <2>1 DEF IntakeTypes
  <2>4. Serves' /\ AloneWithIt'
    BY <1>1, <1>2, <1>3, <2>1 DEF Serves, AloneWithIt
  <2>5. MarkedIsQueued' /\ AcceptedIsQueued'
    BY <1>1, <1>2, <2>1, <2>2 DEF MarkedIsQueued, AcceptedIsQueued, Clean
  <2> QED
    BY <2>3, <2>4, <2>5
<1>6. CASE ReceiverDies(q)
  <2>1. /\ UNCHANGED <<marked, accepted>>
        /\ slips' = IF receiver[q].at = "mark" THEN slips ELSE slips \cup {"mark kept"}
    BY <1>6 DEF ReceiverDies, Receives
  <2>2. IntakeTypes'
    BY <1>1, <1>2, <2>1 DEF IntakeTypes
  <2>3. Serves' /\ AloneWithIt'
    BY <1>1, <1>2, <1>3, <2>1 DEF Serves, AloneWithIt
  <2>4. Clean' => Clean /\ ~PastMark(q)
    BY <2>1 DEF Clean, PastMark
  <2>5. MarkedIsQueued'
    BY <1>1, <1>2, <2>1, <2>4 DEF MarkedIsQueued
  <2>6. AcceptedIsQueued'
    BY <1>1, <2>1 DEF AcceptedIsQueued
  <2> QED
    BY <2>2, <2>3, <2>5, <2>6
<1> QED
  BY <1>4, <1>5, <1>6

-----------------------------------------------------------------------------
(* The records.                                                            *)
LEMMA RouteLeavesRecords ==
  ASSUME RecordInv, SlipTypes',
         Ship \/ LearnRemoteId \/ \E q \in Receivers : RouteStep(q)
  PROVE  RecordInv'
<1>1. UNCHANGED <<applier, refresher, records>>
  BY DEF RouteStep, Ship, LearnRemoteId, Send, MarkDelivery, QueueJob, QueueFails, ForgetDelivery,
         Accept, ReceiverDies, recording
<1>2. UNCHANGED slips \/ slips' = slips \cup {"mark kept"} \/ slips' = slips \cup {"answered early"}
  BY DEF RouteStep, Ship, LearnRemoteId, Send, MarkDelivery, QueueJob, QueueFails, ForgetDelivery,
         Accept, ReceiverDies
<1>3. "overlap" \in slips' <=> "overlap" \in slips
  BY <1>2
<1> QED
  BY <1>1, <1>3 DEF RecordInv, RecordTypes, OwnersJob, NotRecordedYet, ParcelRecordedOnce

(* One more record of a parcel. *)
LEMMA RecordFacts ==
  ASSUME RecordTypes, NEW p \in Parcels, records' = [records EXCEPT ![p] = @ + 1]
  PROVE  /\ records' \in [Parcels -> Nat] /\ records'[p] = records[p] + 1
         /\ \A o \in Parcels : o # p => records'[o] = records[o]
BY DEF RecordTypes

(* A job of a store that becomes w. *)
LEMMA JobBecomes ==
  ASSUME RecordTypes, NEW s \in Stores, NEW w \in Applied, applier' = [applier EXCEPT ![s] = w]
  PROVE  /\ applier' \in [Stores -> Applied] /\ applier'[s] = w
         /\ \A t \in Stores : t # s => applier'[t] = applier[t]
BY DEF RecordTypes

LEMMA ApplyKept ==
  ASSUME IntakeTypes, RecordInv, SlipTypes', NEW s \in Stores, ApplyStep(s)
  PROVE  RecordInv'
<1> USE DEF RecordInv
<1>0. NoJob \in Applied /\ NoJob.at = "idle" /\ Owner \in Stores
  BY ChannelDeliveriesAssumption DEF NoJob, Applied
<1>1. CASE applier' = applier /\ UNCHANGED <<refresher, records, slips>>
  BY <1>1 DEF RecordTypes, OwnersJob, NotRecordedYet, ParcelRecordedOnce
<1>2. CASE ApplyStart(s) /\ ~UNCHANGED applier
  <2>1. PICK d \in Deliveries :
          applier' = [applier EXCEPT ![s] = [at |-> "read", delivery |-> d, parcels |-> Carries[d]]]
    BY <1>2 DEF ApplyStart
  <2>2. s = Owner /\ UNCHANGED <<refresher, records, slips>>
    BY <1>2 DEF ApplyStart
  <2> DEFINE w == [at |-> "read", delivery |-> d, parcels |-> Carries[d]]
  <2>3. w \in Applied /\ w.at = "read"
    BY ChannelDeliveriesAssumption DEF Applied
  <2>4. applier' = [applier EXCEPT ![s] = w]
    BY <2>1
  <2> HIDE DEF w
  <2>5. /\ applier' \in [Stores -> Applied] /\ applier'[s] = w
        /\ \A t \in Stores : t # s => applier'[t] = applier[t]
    BY <2>3, <2>4, JobBecomes
  <2> QED
    BY <2>2, <2>3, <2>5 DEF RecordTypes, OwnersJob, NotRecordedYet, ParcelRecordedOnce
<1>3. CASE ApplyRead(s)
  <2> DEFINE w == [applier[s] EXCEPT !.at = "record", !.parcels = Missing(applier[s].parcels)]
  <2>1. /\ applier[s].at = "read" /\ UNCHANGED <<refresher, records>>
        /\ applier' = [applier EXCEPT ![s] = w]
        /\ slips' = IF refresher.at = "record" THEN slips \cup {"overlap"} ELSE slips
    BY <1>3 DEF ApplyRead, Applies, Overlap
  <2>2. applier[s] \in Applied
    BY DEF RecordTypes
  <2>3. /\ w \in Applied /\ w.at = "record"
        /\ \A p \in w.parcels : records[p] = 0
    BY <2>2 DEF Applied, Missing
  <2> HIDE DEF w
  <2>4. /\ applier' \in [Stores -> Applied] /\ applier'[s] = w
        /\ \A t \in Stores : t # s => applier'[t] = applier[t]
    BY <2>1, <2>3, JobBecomes
  <2>5. s = Owner
    BY <2>1 DEF OwnersJob
  <2>6. OwnersJob' /\ RecordTypes'
    BY <2>1, <2>4, <2>5 DEF OwnersJob, RecordTypes
  <2>7. NotRecordedYet' /\ ParcelRecordedOnce'
    BY <2>1, <2>3, <2>4, <2>5 DEF NotRecordedYet, ParcelRecordedOnce
  <2> QED
    BY <2>6, <2>7
<1>4. CASE ApplyRecord(s)
  <2>1. PICK p \in applier[s].parcels :
          /\ records' = [records EXCEPT ![p] = @ + 1]
          /\ applier' = [applier EXCEPT ![s].parcels = @ \ {p}]
    BY <1>4 DEF ApplyRecord
  <2>2. UNCHANGED <<refresher, slips>> /\ applier[s].at = "record" /\ applier[s] \in Applied
    BY <1>4 DEF ApplyRecord, Applies, RecordTypes
  <2>3. s = Owner /\ p \in Parcels
    BY <2>2 DEF OwnersJob, Applied
  <2> DEFINE w == [applier[s] EXCEPT !.parcels = applier[s].parcels \ {p}]
  <2>4. w \in Applied /\ w.at = "record" /\ w.parcels = applier[s].parcels \ {p}
    BY <2>2 DEF Applied
  <2>5. applier' = [applier EXCEPT ![s] = w]
    BY <2>1
  <2> HIDE DEF w
  <2>6. /\ applier' \in [Stores -> Applied] /\ applier'[s] = w
        /\ \A t \in Stores : t # s => applier'[t] = applier[t]
    BY <2>4, <2>5, JobBecomes
  <2>7. /\ records' \in [Parcels -> Nat] /\ records'[p] = records[p] + 1
        /\ \A o \in Parcels : o # p => records'[o] = records[o]
    BY <2>1, <2>3, RecordFacts
  <2>8. OwnersJob' /\ RecordTypes'
    BY <2>2, <2>3, <2>6, <2>7 DEF OwnersJob, RecordTypes
  <2>9. ASSUME "overlap" \notin slips
        PROVE  /\ refresher.at # "record" /\ records[p] = 0
               /\ \A o \in w.parcels : records'[o] = 0
    <3>1. \A o \in applier[s].parcels : records[o] = 0 /\ o \in Parcels
      BY <2>2, <2>3, <2>9 DEF NotRecordedYet, Applied
    <3> QED
      BY <2>1, <2>2, <2>3, <2>4, <2>7, <2>9, <3>1 DEF NotRecordedYet
  <2>10. NotRecordedYet'
    BY <2>2, <2>3, <2>6, <2>9 DEF NotRecordedYet
  <2>11. ParcelRecordedOnce'
    BY <2>2, <2>3, <2>7, <2>9 DEF ParcelRecordedOnce
  <2> QED
    BY <2>8, <2>10, <2>11
<1>5. CASE ApplyEnd(s) \/ ApplyBreaks(s)
  <2>1. UNCHANGED <<refresher, records, slips>> /\ applier' = [applier EXCEPT ![s] = NoJob]
    BY <1>5 DEF ApplyEnd, ApplyBreaks, Done
  <2>2. /\ applier' \in [Stores -> Applied] /\ applier'[s].at = "idle"
        /\ \A t \in Stores : t # s => applier'[t] = applier[t]
    BY <1>0, <2>1, JobBecomes
  <2>3. OwnersJob' /\ RecordTypes'
    BY <2>1, <2>2 DEF OwnersJob, RecordTypes
  <2>4. NotRecordedYet' /\ ParcelRecordedOnce'
    BY <1>0, <2>1, <2>2 DEF NotRecordedYet, ParcelRecordedOnce
  <2> QED
    BY <2>3, <2>4
<1>6. ApplyStart(s) => UNCHANGED <<refresher, records, slips>>
  BY DEF ApplyStart
<1> QED
  BY <1>1, <1>2, <1>3, <1>4, <1>5, <1>6 DEF ApplyStep

LEMMA RefreshKept ==
  ASSUME IntakeTypes, RecordInv, SlipTypes', RefreshStep
  PROVE  RecordInv'
<1> USE DEF RecordInv
<1>1. UNCHANGED applier /\ OwnersJob'
  BY DEF RefreshStep, RefreshStart, RefreshRead, RefreshRecord, RefreshEnd, OwnersJob
<1>2. CASE RefreshStart \/ RefreshEnd
  <2>1. UNCHANGED <<records, slips>> /\ refresher'.at # "record" /\ refresher' \in Refreshed
    BY <1>2 DEF RefreshStart, RefreshEnd, RecordTypes, Refreshed, IntakeTypes
  <2> QED
    BY <1>1, <2>1 DEF RecordTypes, NotRecordedYet, ParcelRecordedOnce
<1>3. CASE RefreshRead
  <2>1. /\ refresher' = [at |-> "record", parcels |-> Missing(refresher.parcels)]
        /\ slips' = IF applier[Owner].at = "record" THEN slips \cup {"overlap"} ELSE slips
        /\ UNCHANGED records
    BY <1>3 DEF RefreshRead, Applies, Overlap
  <2>2. /\ refresher' \in Refreshed
        /\ \A p \in refresher'.parcels : records[p] = 0
    BY <2>1 DEF Missing, RecordTypes, Refreshed
  <2> QED
    BY <1>1, <2>1, <2>2 DEF RecordTypes, NotRecordedYet, ParcelRecordedOnce
<1>4. CASE RefreshRecord
  <2>1. PICK p \in refresher.parcels :
          /\ records' = [records EXCEPT ![p] = @ + 1]
          /\ refresher' = [refresher EXCEPT !.parcels = @ \ {p}]
    BY <1>4 DEF RefreshRecord
  <2>2. UNCHANGED slips /\ refresher.at = "record" /\ refresher \in Refreshed
    BY <1>4 DEF RefreshRecord, RecordTypes
  <2>3. p \in Parcels
    BY <2>2 DEF Refreshed
  <2>4. /\ refresher' \in Refreshed /\ refresher'.at = "record"
        /\ refresher'.parcels = refresher.parcels \ {p}
    BY <2>1, <2>2 DEF Refreshed
  <2>5. /\ records' \in [Parcels -> Nat] /\ records'[p] = records[p] + 1
        /\ \A o \in Parcels : o # p => records'[o] = records[o]
    BY <2>1, <2>3, RecordFacts
  <2>6. ASSUME "overlap" \notin slips
        PROVE  /\ applier[Owner].at # "record" /\ records[p] = 0
               /\ \A o \in refresher'.parcels : records'[o] = 0
    <3>1. \A o \in refresher.parcels : records[o] = 0 /\ o \in Parcels
      BY <2>2, <2>6 DEF NotRecordedYet, Refreshed
    <3> QED
      BY <2>1, <2>2, <2>4, <2>5, <2>6, <3>1 DEF NotRecordedYet
  <2>7. NotRecordedYet'
    BY <1>1, <2>2, <2>6 DEF NotRecordedYet
  <2>8. ParcelRecordedOnce'
    BY <2>2, <2>5, <2>6 DEF ParcelRecordedOnce
  <2>9. RecordTypes'
    BY <1>1, <2>4, <2>5 DEF RecordTypes
  <2> QED
    BY <1>1, <2>7, <2>8, <2>9
<1> QED
  BY <1>2, <1>3, <1>4 DEF RefreshStep

-----------------------------------------------------------------------------
HookInv == IntakeInv /\ RecordInv

LEMMA HookInitially == HookInit => HookInv
<1> SUFFICES ASSUME HookInit PROVE HookInv
  OBVIOUS
<1>1. NoRequest \in Served /\ NoJob \in Applied /\ NoRequest.at = "idle" /\ NoJob.at = "idle"
  BY DEF NoRequest, NoJob, Served, Applied
<1>2. sends \in 0..MaxSends /\ SlipTypes
  BY ChannelDeliveriesAssumption DEF HookInit, SlipTypes
<1>3. IntakeTypes
  BY <1>1, <1>2 DEF HookInit, IntakeTypes
<1>4. RecordTypes
  BY <1>1 DEF HookInit, RecordTypes, Refreshed
<1>5. Serves /\ AloneWithIt /\ MarkedIsQueued /\ AcceptedIsQueued
  BY <1>1 DEF HookInit, Serves, AloneWithIt, PastMark, MarkedIsQueued, AcceptedIsQueued
<1>6. OwnersJob /\ NotRecordedYet /\ ParcelRecordedOnce
  BY <1>1, ChannelDeliveriesAssumption DEF HookInit, OwnersJob, NotRecordedYet, ParcelRecordedOnce
<1> QED
  BY <1>2, <1>3, <1>4, <1>5, <1>6 DEF HookInv, IntakeInv, RecordInv

(* The route keeps whom it has served, the jobs what they have recorded.   *)
THEOREM HookInvariant == HookSpec => []HookInv
<1>1. ASSUME HookInv, [HookNext]_hookVars
      PROVE  HookInv'
  <2> USE DEF HookInv
  <2>1. CASE UNCHANGED hookVars
    BY <1>1, <2>1 DEF hookVars, intake, recording, IntakeInv, RecordInv, IntakeTypes, RecordTypes,
       SlipTypes, Serves, AloneWithIt, PastMark, MarkedIsQueued, Clean, AcceptedIsQueued, OwnersJob,
       NotRecordedYet, ParcelRecordedOnce
  <2>2. CASE HookNext
    <3>1. SlipTypes' /\ RecordTypes /\ IntakeTypes
      BY <1>1, <2>2, SlipsTyped DEF IntakeInv, RecordInv
    <3>2. CASE Ship \/ LearnRemoteId \/ RefreshStep
      BY <1>1, <3>1, <3>2, IntakeLeftAlone, RouteLeavesRecords, RefreshKept,
         ChannelDeliveriesAssumption
    <3>3. ASSUME NEW q \in Receivers, RouteStep(q) PROVE HookInv'
      BY <1>1, <3>1, <3>3, SendKept, MarkKept, QueueKept, QueueFailsKept, EndKept,
         RouteLeavesRecords DEF RouteStep
    <3>4. ASSUME NEW s \in Stores, ApplyStep(s) PROVE HookInv'
      BY <1>1, <3>1, <3>4, IntakeLeftAlone, ApplyKept
    <3> QED
      BY <2>2, <3>2, <3>3, <3>4 DEF HookNext, RouteStep, ApplyStep, RefreshStep
  <2> QED
    BY <1>1, <2>1, <2>2
<1> QED
  BY HookInitially, <1>1, PTL DEF HookSpec

(* The marks, requests, jobs and records keep their types; in particular,  *)
(* no job is taken that was never queued.                                  *)
THEOREM HookTypesAlways == HookSpec => []HookTypeOK
<1>1. HookInv => HookTypeOK
  BY DEF HookInv, IntakeInv, RecordInv, IntakeTypes, RecordTypes, SlipTypes, HookTypeOK, Served,
         Applied, Refreshed
<1> QED
  BY <1>1, HookInvariant, PTL

(* Whatever the sender repeats, and however requests for one delivery      *)
(* overlap, a delivery answered 200 was queued for every store, but for    *)
(* the two windows the property names.                                     *)
THEOREM AcceptedIsQueuedAlways == HookSpec => []AcceptedIsQueued
<1>1. HookInv => AcceptedIsQueued
  BY DEF HookInv, IntakeInv
<1> QED
  BY <1>1, HookInvariant, PTL

(* However deliveries, retried jobs and refreshes interleave, a parcel is  *)
(* recorded once, unless a refresh and a delivery overlapped.              *)
THEOREM ParcelRecordedOnceAlways == HookSpec => []ParcelRecordedOnce
<1>1. HookInv => ParcelRecordedOnce
  BY DEF HookInv, RecordInv
<1> QED
  BY <1>1, HookInvariant, PTL

-----------------------------------------------------------------------------
(* Around one order. A step of one part leaves the others where they are.  *)
LEMMA StoresParts ==
  StoresSpec => Spec /\ PushSpec /\ ReturnSpec /\ HookSpec
<1>1. StoresInit => Init /\ PushInit /\ ReturnInit /\ HookInit
  BY DEF StoresInit
<1> DEFINE allVars == <<scene, vars, pushVars, returnVars, hookVars>>
<1>2. [StoresNext]_allVars => [Next]_vars
  BY DEF StoresNext
<1>3. [StoresNext]_allVars => [PushNext]_pushVars
  BY DEF StoresNext
<1>4. [StoresNext]_allVars => [ReturnNext]_returnVars
  BY DEF StoresNext
<1>5. [StoresNext]_allVars => [HookNext]_hookVars
  BY DEF StoresNext
<1> QED
  BY <1>1, <1>2, <1>3, <1>4, <1>5, PTL DEF StoresSpec, Spec, PushSpec, ReturnSpec, HookSpec

(* Whatever happens to an order, its status, ledger, calls under way,      *)
(* export, returns and deliveries keep their types.                        *)
THEOREM StoresTypes == StoresSpec => []TypesOK
BY StoresParts, OrderTypes, PushTypesAlways, ReturnTypesAlways, HookTypesAlways, PTL DEF TypesOK

(* An order and what surrounds it, as the run explores them, for every     *)
(* value of the constants: every part keeps its promises beside the others.*)
THEOREM StoresAreSafe ==
  StoresSpec => /\ []( /\ NeverOverpaid /\ OrderRefundOnce /\ RefundsExplainUnits /\ ShipsOnce
                       /\ StoreOrderOnce /\ CancelReachesStore
                       /\ ReturnPaidOnce /\ ReportPaidOnce
                       /\ AcceptedIsQueued /\ ParcelRecordedOnce )
                /\ ImplementsLifecycle
BY StoresParts, NeverOverpaidAlways, OrderRefundOnceAlways, RefundsExplainUnitsAlways,
   ShipsOnceAlways, StoreOrderOnceAlways, CancelReachesStoreAlways, ReturnPaidOnceAlways,
   ReportPaidOnceAlways, AcceptedIsQueuedAlways, ParcelRecordedOnceAlways,
   ImplementsLifecycleAlways, PTL
=============================================================================
