--------------------------- MODULE ChannelOrders ----------------------------
(***************************************************************************)
(* One order sold on the platform and delivered by the merchant's store:   *)
(* the push job that creates it there, the cancels of either side, the     *)
(* store's shipment, the operator's retry and the reaper of old exports.   *)
(* A step is one committed statement, transaction or request to the store. *)
(***************************************************************************)
EXTENDS Naturals

CONSTANTS
  MaxPushes,      \* runs of the push job
  MaxPushCrashes  \* processes lost in the middle of their work

ASSUME ChannelOrdersAssumption == MaxPushes \in Nat /\ MaxPushCrashes \in Nat

VARIABLES
  orderStatus, \* the platform order
  export,      \* the export row: its state, its remote id, and whether
               \* its last change is past the deadline of the reaper
  connected,   \* the store row's status
  store,       \* the store's own order for this one
  made,        \* how many orders the store was made to create
  queued,      \* a push job waits
  push,        \* where the running push job is
  cancel,      \* where a platform cancel is, and the status it read
  reaper,      \* where the export reaper is
  delivery,    \* where the handler of a store's delivery is
  unasked,     \* history: cancelled while the store had an order, or was
               \* about to get one, that the cancel could not ask it about
  pushes, pushCrashes

sale     == <<orderStatus, unasked>>
pushing  == <<queued, push, pushes>>
pushVars  == <<sale, pushing, export, connected, store, made, cancel, reaper,
           delivery, pushCrashes>>

OrderStatuses == {"pending_payment", "confirmed", "processing", "fulfilled",
             "cancelled", "refunded"}
Closed   == {"cancelled", "refunded"}
OrderMoves == {<<"pending_payment", "confirmed">>, <<"pending_payment", "cancelled">>,
          <<"confirmed", "processing">>, <<"confirmed", "cancelled">>,
          <<"processing", "fulfilled">>, <<"processing", "cancelled">>,
          <<"fulfilled", "refunded">>}
CanMove(from, to) == <<from, to>> \in OrderMoves

ExportStates == {"none", "pending", "exported", "confirmed", "failed", "abandoned"}
ExportMoves  == {<<"pending", "exported">>, <<"pending", "abandoned">>,
                 <<"exported", "confirmed">>, <<"exported", "failed">>,
                 <<"exported", "abandoned">>, <<"confirmed", "abandoned">>,
                 <<"failed", "exported">>, <<"failed", "abandoned">>}
CanExport(to) == <<export.state, to>> \in ExportMoves
Now(state) == [export EXCEPT !.state = state, !.old = FALSE]

StoreStates == {"none", "open", "shipped", "cancelled"}
PushSteps == {"idle", "check", "create", "slice", "unsliced", "export",
              "request", "refused", "out", "soldout", "remote", "read"}

PushTypeOK ==
  /\ orderStatus \in OrderStatuses
  /\ export \in [state : ExportStates, remote : BOOLEAN, old : BOOLEAN]
  /\ store \in StoreStates
  /\ made \in Nat /\ (made = 0 <=> store = "none")
  /\ connected \in BOOLEAN /\ queued \in BOOLEAN /\ unasked \in BOOLEAN
  /\ push \in PushSteps
  /\ cancel \in [at : {"idle", "ask", "cas"}, was : OrderStatuses, unasked : BOOLEAN]
  /\ reaper \in {"idle", "abandon", "refund"}
  /\ delivery \in {"idle", "ship"}
  /\ pushes \in 0..MaxPushes
  /\ pushCrashes \in 0..MaxPushCrashes

NoCancel == [at |-> "idle", was |-> "pending_payment", unasked |-> FALSE]

PushInit ==
  /\ orderStatus = "pending_payment"
  /\ export = [state |-> "none", remote |-> FALSE, old |-> FALSE]
  /\ connected = TRUE
  /\ store = "none"
  /\ made = 0
  /\ queued = FALSE
  /\ push = "idle"
  /\ cancel = NoCancel
  /\ reaper = "idle"
  /\ delivery = "idle"
  /\ unasked = FALSE
  /\ pushes = 0
  /\ pushCrashes = 0

-----------------------------------------------------------------------------
(* The order. The hook that queues the push runs after the commit.         *)
Pay ==
  /\ CanMove(orderStatus, "confirmed")
  /\ orderStatus' = "confirmed"
  /\ \/ queued' = TRUE /\ UNCHANGED pushCrashes
     \/ /\ pushCrashes < MaxPushCrashes
        /\ pushCrashes' = pushCrashes + 1
        /\ UNCHANGED queued
  /\ UNCHANGED <<export, connected, store, made, push, cancel, reaper, delivery,
                 unasked, pushes>>

StaffProcesses ==
  /\ CanMove(orderStatus, "processing")
  /\ orderStatus' = "processing"
  /\ UNCHANGED <<pushing, export, connected, store, made, cancel, reaper, delivery,
                 unasked, pushCrashes>>

(* The store row: revoked or disconnected, and connected again. *)
Disconnect ==
  /\ connected' = ~connected
  /\ UNCHANGED <<sale, pushing, export, store, made, cancel, reaper, delivery, pushCrashes>>

-----------------------------------------------------------------------------
(* The push job. One runs at a time: its key is exclusive, which the queue *)
(* promises of runners that do not claim together.                         *)
PushTo(step) == push' = step

(* The handler threw, and the task has one attempt: the job is over. *)
Throw == PushTo("idle")

PushStart ==
  /\ queued
  /\ push = "idle"
  /\ pushes < MaxPushes
  /\ pushes' = pushes + 1
  /\ queued' = FALSE
  /\ PushTo("check")
  /\ UNCHANGED <<sale, export, connected, store, made, cancel, reaper, delivery, pushCrashes>>

(* mutant: a closed order is pushed all the same *)
PushCheckSkipped ==
  /\ push = "check"
  /\ PushTo("create")
  /\ UNCHANGED <<sale, queued, pushes, export, connected, store, made, cancel,
                 reaper, delivery, pushCrashes>>

PushCheck ==
  /\ push = "check"
  /\ PushTo(IF orderStatus \in Closed THEN "idle" ELSE "create")
  /\ UNCHANGED <<sale, queued, pushes, export, connected, store, made, cancel,
                 reaper, delivery, pushCrashes>>

CreateExport ==
  /\ push = "create"
  /\ IF ~connected
     THEN Throw /\ UNCHANGED export
     ELSE /\ export' = IF export.state = "none"
                       THEN Now("pending") ELSE export
          /\ PushTo("slice")
  /\ UNCHANGED <<sale, queued, pushes, connected, store, made, cancel, reaper, delivery, pushCrashes>>

(* A line without a mapping, or an order without an address, cannot be sent. *)
BuildOrderSlice ==
  /\ push = "slice"
  /\ \/ PushTo("export") /\ UNCHANGED export
     \/ /\ PushTo("unsliced")
        /\ export' = IF export.state = "pending"
                     THEN Now("exported") ELSE export
  /\ UNCHANGED <<sale, queued, pushes, connected, store, made, cancel, reaper,
                 delivery, pushCrashes>>

SliceFailed ==
  /\ push = "unsliced"
  /\ export' = IF CanExport("failed") THEN Now("failed") ELSE export
  /\ PushTo("idle")
  /\ UNCHANGED <<sale, queued, pushes, connected, store, made, cancel, reaper,
                 delivery, pushCrashes>>

ExportOrder ==
  /\ push = "export"
  /\ \/ /\ connected /\ CanExport("exported")
        /\ export' = Now("exported")
        /\ PushTo("request")
     \/ /\ connected /\ export.state = "exported"
        /\ PushTo("request")
        /\ UNCHANGED export
     \/ /\ connected /\ export.state = "confirmed"
        /\ PushTo("idle")
        /\ UNCHANGED export
     \/ /\ ~connected \/ export.state = "abandoned"
        /\ Throw
        /\ UNCHANGED export
  /\ UNCHANGED <<sale, queued, pushes, connected, store, made, cancel, reaper,
                 delivery, pushCrashes>>

(* The connector looks for the order before it creates one. *)
StoreHasIt == made > 0

Found ==
  /\ StoreHasIt
  /\ PushTo("remote")
  /\ UNCHANGED <<store, made>>

(* mutant: the connector creates without looking *)
CreatedAgain ==
  /\ made' = made + 1
  /\ store' = "open"
  /\ push' \in {"remote", "refused"}

(* The order is created and the answer arrives, or is lost on the way. *)
Created ==
  /\ ~StoreHasIt
  /\ made' = made + 1
  /\ store' = "open"
  /\ push' \in {"remote", "refused"}

Refused ==
  /\ PushTo("refused")
  /\ UNCHANGED <<store, made>>

(* No stock: read before the order is created, or found out after, when    *)
(* the connector cancels what it created.                                  *)
OutOfStock ==
  /\ ~StoreHasIt
  /\ PushTo("out")
  /\ \/ UNCHANGED <<store, made>>
     \/ made' = made + 1 /\ store' = "cancelled"

PushOrder ==
  /\ push = "request"
  /\ Found \/ Created \/ Refused \/ OutOfStock
  /\ UNCHANGED <<sale, queued, pushes, export, connected, cancel, reaper,
                 delivery, pushCrashes>>

(* The failure is recorded, if the export is still the one being pushed.   *)
PushFailed ==
  /\ push \in {"refused", "out"}
  /\ export' = IF CanExport("failed") THEN Now("failed") ELSE export
  /\ PushTo(IF push = "out" THEN "soldout" ELSE "idle")
  /\ UNCHANGED <<sale, queued, pushes, connected, store, made, cancel, reaper,
                 delivery, pushCrashes>>

(* Nobody will send these goods: the platform cancels. The cancel hook     *)
(* finds no remote id, for an order the store holds is never out of stock. *)
CancelSoldOut ==
  /\ push = "soldout"
  /\ IF CanMove(orderStatus, "cancelled")
     THEN orderStatus' = "cancelled" /\ unasked' = (made > 0)
     ELSE UNCHANGED sale
  /\ PushTo("idle")
  /\ UNCHANGED <<queued, pushes, export, connected, store, made, cancel, reaper,
                 delivery, pushCrashes>>

SaveRemoteId ==
  /\ push = "remote"
  /\ export' = [export EXCEPT !.remote = TRUE, !.old = FALSE]
  /\ PushTo("read")
  /\ UNCHANGED <<sale, queued, pushes, connected, store, made, cancel, reaper,
                 delivery, pushCrashes>>

(* What the store says of its order; "exported" is an answer not yet given. *)
Answers == CASE store = "shipped"   -> {"confirmed", "failed"}
             [] store = "cancelled" -> {"failed"}
             [] OTHER               -> {"confirmed", "exported", "failed"}

FetchOrderStatus ==
  /\ push = "read"
  /\ \E to \in Answers :
       IF to = "exported" \/ CanExport(to)
       THEN /\ export' = IF to = "exported" THEN export ELSE Now(to)
            /\ PushTo("idle")
       ELSE Throw /\ UNCHANGED export
  /\ UNCHANGED <<sale, queued, pushes, connected, store, made, cancel, reaper, delivery, pushCrashes>>

(* The process dies: the stale-job reaper may bring the job back, and a    *)
(* request on its way may already have been served.                        *)
PushCrash ==
  /\ push # "idle"
  /\ pushCrashes < MaxPushCrashes
  /\ pushCrashes' = pushCrashes + 1
  /\ PushTo("idle")
  /\ queued' \in {queued, TRUE}
  /\ \/ UNCHANGED <<store, made>>
     \/ push = "request" /\ ~StoreHasIt /\ made' = made + 1 /\ store' = "open"
  /\ UNCHANGED <<sale, pushes, export, connected, cancel, reaper, delivery>>

(* The operator's retry, which then queues the job. *)
RetryExport ==
  /\ CanExport("exported")
  /\ export' = Now("exported")
  /\ \/ queued' = TRUE /\ UNCHANGED pushCrashes
     \/ /\ pushCrashes < MaxPushCrashes
        /\ pushCrashes' = pushCrashes + 1
        /\ UNCHANGED queued
  /\ UNCHANGED <<sale, push, pushes, connected, store, made, cancel, reaper, delivery>>

-----------------------------------------------------------------------------
(* The platform cancels: the store is asked first, by the before-hook.     *)
CancelBegin ==
  /\ cancel.at = "idle"
  /\ CanMove(orderStatus, "cancelled")
  /\ cancel' = [at |-> "ask", was |-> orderStatus, unasked |-> FALSE]
  /\ UNCHANGED <<sale, pushing, export, connected, store, made, reaper, delivery, pushCrashes>>

CancelAsks ==
  /\ cancel.at = "ask"
  /\ IF export.remote /\ connected
     THEN \/ /\ store \in {"open", "cancelled"}
             /\ store'  = "cancelled"
             /\ cancel' = [cancel EXCEPT !.at = "cas"]
          \/ cancel' = NoCancel /\ UNCHANGED store   \* shipped, or no answer
     ELSE /\ cancel' = [cancel EXCEPT !.at = "cas", !.unasked = TRUE]
          /\ UNCHANGED store
  /\ UNCHANGED <<sale, pushing, export, connected, made, reaper, delivery, pushCrashes>>

(* A push past its check may still bring the order to the store. *)
Underway == push \notin {"idle", "check"}

CancelCommits ==
  /\ cancel.at = "cas"
  /\ IF orderStatus = cancel.was
     THEN /\ orderStatus'  = "cancelled"
          /\ unasked' = (cancel.unasked /\ (made > 0 \/ Underway))
     ELSE UNCHANGED sale
  /\ cancel' = NoCancel
  /\ UNCHANGED <<pushing, export, connected, store, made, reaper, delivery, pushCrashes>>

-----------------------------------------------------------------------------
(* The store works its order and tells the platform, once, again or never. *)
StoreMoves ==
  /\ store = "open"
  /\ store' \in {"shipped", "cancelled"}
  /\ UNCHANGED <<sale, pushing, export, connected, made, cancel, reaper, delivery, pushCrashes>>

(* The reason names the store, so the cancel hook does not ask it back. *)
StoreCancelled ==
  /\ delivery = "idle"
  /\ store = "cancelled" /\ export.remote
  /\ CanMove(orderStatus, "cancelled")
  /\ orderStatus' = "cancelled"
  /\ unasked' = FALSE
  /\ UNCHANGED <<pushing, export, connected, store, made, cancel, reaper, delivery, pushCrashes>>

StoreFulfilled ==
  /\ delivery = "idle"
  /\ store = "shipped" /\ export.remote
  /\ orderStatus' = IF orderStatus = "confirmed" THEN "processing" ELSE orderStatus
  /\ delivery' = "ship"
  /\ UNCHANGED <<pushing, unasked, export, connected, store, made, cancel, reaper, pushCrashes>>

StoreFulfils ==
  /\ delivery = "ship"
  /\ orderStatus' = IF orderStatus = "processing" THEN "fulfilled" ELSE orderStatus
  /\ delivery' = "idle"
  /\ UNCHANGED <<pushing, unasked, export, connected, store, made, cancel, reaper, pushCrashes>>

-----------------------------------------------------------------------------
(* Hours pass, with no push running. *)
Age ==
  /\ push = "idle" /\ export.state # "none" /\ ~export.old
  /\ export' = [export EXCEPT !.old = TRUE]
  /\ UNCHANGED <<sale, pushing, connected, store, made, cancel, reaper, delivery, pushCrashes>>

(* The reaper: an export past its deadline is abandoned and its order      *)
(* refunded; an order the machine will not refund keeps its status.        *)
ReapExports ==
  /\ reaper = "idle"
  /\ export.state \in {"exported", "failed"} /\ export.old
  /\ reaper' = "abandon"
  /\ UNCHANGED <<sale, pushing, export, connected, store, made, cancel, delivery, pushCrashes>>

AbandonExport ==
  /\ reaper = "abandon"
  /\ IF CanExport("abandoned")
     THEN export' = Now("abandoned") /\ reaper' = "refund"
     ELSE reaper' = "idle" /\ UNCHANGED export
  /\ UNCHANGED <<sale, pushing, connected, store, made, cancel, delivery, pushCrashes>>

RefundAbandoned ==
  /\ reaper = "refund"
  /\ orderStatus' = IF CanMove(orderStatus, "refunded") THEN "refunded" ELSE orderStatus
  /\ reaper' = "idle"
  /\ UNCHANGED <<pushing, unasked, export, connected, store, made, cancel, delivery, pushCrashes>>

-----------------------------------------------------------------------------
Push == \/ PushStart \/ PushCheck \/ CreateExport \/ BuildOrderSlice \/ SliceFailed
        \/ ExportOrder \/ PushOrder \/ PushFailed \/ CancelSoldOut \/ SaveRemoteId
        \/ FetchOrderStatus \/ PushCrash
Platform == Pay \/ StaffProcesses \/ Disconnect \/ RetryExport
            \/ CancelBegin \/ CancelAsks \/ CancelCommits
Store  == StoreMoves \/ StoreCancelled \/ StoreFulfilled \/ StoreFulfils
Reaper == Age \/ ReapExports \/ AbandonExport \/ RefundAbandoned

PushNext == Push \/ Platform \/ Store \/ Reaper

PushSpec == PushInit /\ [][PushNext]_pushVars

-----------------------------------------------------------------------------
(* However often the job runs, is retried, crashes or loses the store's    *)
(* answer, the store holds one order for the platform's one.               *)
StoreOrderOnce == made <= 1

(* A platform cancel never stands beside an order the store still means to *)
(* deliver, or has delivered, unless that order was there or on its way    *)
(* when the cancel committed and could not be asked about: its remote id   *)
(* was not known yet, or the store was not connected. An order cancelled   *)
(* before its push looked never reaches the store.                         *)
CancelReachesStore ==
  orderStatus = "cancelled" /\ store \in {"open", "shipped"} => unasked
=============================================================================
