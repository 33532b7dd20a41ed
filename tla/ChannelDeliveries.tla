------------------------- MODULE ChannelDeliveries --------------------------
(***************************************************************************)
(* Webhook deliveries of a provider: marked, queued as one job per store   *)
(* and answered; then applied by the job. What is applied here is the list *)
(* of parcels of one order, which the Owner's store ships; the job that    *)
(* refreshes an order somebody looked at records the same parcels.         *)
(***************************************************************************)
EXTENDS Naturals

CONSTANTS
  Deliveries,  \* delivery ids; each names the parcels shipped when it was made
  Carries,     \* [Deliveries -> SUBSET Parcels]
  Parcels,
  Stores,      \* stores connected to the sender's shop domain
  Owner,       \* the store the order was pushed to
  Receivers,    \* requests the route serves at a time
  NoDelivery,
  MaxSends,
  MaxHookFaults  \* failed statements and lost processes

ASSUME ChannelDeliveriesAssumption ==
  /\ Carries \in [Deliveries -> SUBSET Parcels]
  /\ Owner \in Stores
  /\ NoDelivery \notin Deliveries
  /\ MaxSends \in Nat /\ MaxHookFaults \in Nat

VARIABLES
  shipped,   \* parcels the store has sent
  known,     \* the export row has the remote order id
  marked,    \* processed_webhook_events
  receiver,  \* [Receivers -> the delivery it serves, its step, stores to queue]
  accepted,  \* deliveries answered 200
  waiting,   \* [Deliveries -> [Stores -> jobs waiting]]
  given,     \* history: [Deliveries -> stores that got a job]
  applier,   \* [Stores -> the running job: its delivery, step, parcels to record]
  refresher, \* the refresh job of the Owner's order
  records,   \* [Parcels -> fulfilment records]
  slips,     \* history: what went wrong
  sends, hookFaults

intake    == <<marked, receiver, accepted, waiting, given, sends>>
recording == <<applier, refresher, records>>
hookVars  == <<shipped, known, intake, recording, slips, hookFaults>>

NoRequest == [at |-> "idle", delivery |-> NoDelivery, stores |-> {}]
NoJob     == [at |-> "idle", delivery |-> NoDelivery, parcels |-> {}]

HookTypeOK ==
  /\ shipped \subseteq Parcels
  /\ known \in BOOLEAN
  /\ marked \subseteq Deliveries /\ accepted \subseteq Deliveries
  /\ receiver \in [Receivers -> [at : {"idle", "mark", "queue", "unmark"},
                                delivery : Deliveries \cup {NoDelivery},
                                stores : SUBSET Stores]]
  /\ waiting \in [Deliveries -> [Stores -> Nat]]
  /\ given \in [Deliveries -> SUBSET Stores]
  /\ applier \in [Stores -> [at : {"idle", "read", "record"},
                             delivery : Deliveries \cup {NoDelivery},
                             parcels : SUBSET Parcels]]
  /\ refresher \in [at : {"idle", "read", "record"}, parcels : SUBSET Parcels]
  /\ records \in [Parcels -> Nat]
  /\ slips \subseteq {"mark kept", "answered early", "overlap"}
  /\ sends \in 0..MaxSends
  /\ hookFaults \in 0..MaxHookFaults

HookInit ==
  /\ shipped   = {}
  /\ known     = FALSE
  /\ marked    = {} /\ accepted = {}
  /\ receiver  = [q \in Receivers |-> NoRequest]
  /\ waiting   = [d \in Deliveries |-> [s \in Stores |-> 0]]
  /\ given     = [d \in Deliveries |-> {}]
  /\ applier   = [s \in Stores |-> NoJob]
  /\ refresher = [at |-> "idle", parcels |-> {}]
  /\ records   = [p \in Parcels |-> 0]
  /\ slips     = {}
  /\ sends     = 0
  /\ hookFaults = 0

Fault == hookFaults < MaxHookFaults /\ hookFaults' = hookFaults + 1

-----------------------------------------------------------------------------
(* The store ships; the push job saves the remote id in its own time.      *)
Ship ==
  \E p \in Parcels \ shipped :
    /\ shipped' = shipped \cup {p}
    /\ UNCHANGED <<known, intake, recording, slips, hookFaults>>

LearnRemoteId ==
  /\ ~known
  /\ known' = TRUE
  /\ UNCHANGED <<shipped, intake, recording, slips, hookFaults>>

-----------------------------------------------------------------------------
(* The route. The sender sends a delivery that was not accepted again, and *)
(* sends it a second time while the first request is still being served.   *)
Receives(q, step) == receiver[q].at = step
Receive(q, step)  == receiver' = [receiver EXCEPT ![q].at = step]
Answer(q)         == receiver' = [receiver EXCEPT ![q] = NoRequest]
Serving(d) == \E q \in Receivers : receiver[q].delivery = d

Send(q) ==
  \E d \in Deliveries :
    /\ Receives(q, "idle")
    /\ Carries[d] \subseteq shipped
    /\ d \notin accepted \/ Serving(d)
    /\ sends < MaxSends
    /\ sends' = sends + 1
    /\ receiver' = [receiver EXCEPT ![q] = [at |-> "mark", delivery |-> d, stores |-> Stores]]
    /\ UNCHANGED <<shipped, known, marked, accepted, waiting, given, recording, slips,
                   hookFaults>>

(* The insert tells the first delivery from its duplicates, which are      *)
(* answered as received while the first may still be served.               *)
MarkDelivery(q) ==
  /\ Receives(q, "mark")
  /\ LET d == receiver[q].delivery IN
       IF d \notin marked
       THEN /\ marked' = marked \cup {d}
            /\ Receive(q, "queue")
            /\ UNCHANGED <<accepted, slips>>
       ELSE /\ accepted' = accepted \cup {d}
            /\ slips' = IF \E r \in Receivers \ {q} : /\ receiver[r].delivery = d
                                                     /\ ~Receives(r, "mark")
                        THEN slips \cup {"answered early"} ELSE slips
            /\ Answer(q)
            /\ UNCHANGED marked
  /\ UNCHANGED <<shipped, known, waiting, given, recording, sends, hookFaults>>

QueueJob(q) ==
  \E s \in receiver[q].stores :
    /\ Receives(q, "queue")
    /\ LET d == receiver[q].delivery IN
         /\ waiting' = [waiting EXCEPT ![d][s] = @ + 1]
         /\ given' = [given EXCEPT ![d] = @ \cup {s}]
    /\ receiver' = [receiver EXCEPT ![q].stores = @ \ {s}]
    /\ UNCHANGED <<shipped, known, marked, accepted, recording, slips, sends, hookFaults>>

QueueFails(q) ==
  /\ Receives(q, "queue") /\ receiver[q].stores # {}
  /\ Fault
  /\ Receive(q, "unmark")
  /\ UNCHANGED <<shipped, known, marked, accepted, waiting, given, recording, slips, sends>>

(* mutant: the mark of a delivery that was not accepted stays *)
ForgetNothing(q) ==
  /\ Receives(q, "unmark")
  /\ Answer(q)
  /\ UNCHANGED <<shipped, known, marked, accepted, waiting, given, recording, slips, sends,
                 hookFaults>>

(* Not accepted: the mark is deleted, so that the next attempt is no duplicate. *)
ForgetDelivery(q) ==
  /\ Receives(q, "unmark")
  /\ marked' = marked \ {receiver[q].delivery}
  /\ Answer(q)
  /\ UNCHANGED <<shipped, known, accepted, waiting, given, recording, slips, sends, hookFaults>>

Accept(q) ==
  /\ Receives(q, "queue") /\ receiver[q].stores = {}
  /\ accepted' = accepted \cup {receiver[q].delivery}
  /\ Answer(q)
  /\ UNCHANGED <<shipped, known, marked, waiting, given, recording, slips, sends, hookFaults>>

(* The process dies, or the delete fails: the mark stays without its jobs. *)
ReceiverDies(q) ==
  /\ ~Receives(q, "idle")
  /\ Fault
  /\ slips' = IF Receives(q, "mark") THEN slips ELSE slips \cup {"mark kept"}
  /\ Answer(q)
  /\ UNCHANGED <<shipped, known, marked, accepted, waiting, given, recording, sends>>

-----------------------------------------------------------------------------
(* apply-webhook: one job of a store at a time, and one attempt. An order  *)
(* whose remote id is not known, or of another store, is nobody's.         *)
Applies(s, step) == applier[s].at = step
Done(s)          == applier' = [applier EXCEPT ![s] = NoJob]

ApplyStart(s) ==
  \E d \in Deliveries :
    /\ Applies(s, "idle")
    /\ waiting[d][s] > 0
    /\ waiting' = [waiting EXCEPT ![d][s] = @ - 1]
    /\ applier' = IF s = Owner /\ known
                  THEN [applier EXCEPT ![s] = [at |-> "read", delivery |-> d,
                                               parcels |-> Carries[d]]]
                  ELSE applier
    /\ UNCHANGED <<shipped, known, marked, receiver, accepted, given, refresher, records,
                   slips, sends, hookFaults>>

(* mutant: every parcel of the delivery is taken for new *)
MissingAll(parcels) == parcels

(* recordChannelFulfillments: read what is recorded, then add the rest.    *)
Missing(parcels) == {p \in parcels : records[p] = 0}

Overlap == slips \cup {"overlap"}

ApplyRead(s) ==
  /\ Applies(s, "read")
  /\ applier' = [applier EXCEPT ![s].at = "record", ![s].parcels = Missing(@)]
  /\ slips' = IF refresher.at = "record" THEN Overlap ELSE slips
  /\ UNCHANGED <<shipped, known, intake, refresher, records, hookFaults>>

ApplyRecord(s) ==
  \E p \in applier[s].parcels :
    /\ Applies(s, "record")
    /\ records' = [records EXCEPT ![p] = @ + 1]
    /\ applier' = [applier EXCEPT ![s].parcels = @ \ {p}]
    /\ UNCHANGED <<shipped, known, intake, refresher, slips, hookFaults>>

ApplyEnd(s) ==
  /\ Applies(s, "record") /\ applier[s].parcels = {}
  /\ Done(s)
  /\ UNCHANGED <<shipped, known, intake, refresher, records, slips, hookFaults>>

(* A job that threw is over; one whose process died is run again.          *)
ApplyBreaks(s) ==
  /\ ~Applies(s, "idle")
  /\ Fault
  /\ \/ UNCHANGED waiting
     \/ waiting' = [waiting EXCEPT ![applier[s].delivery][s] = @ + 1]
  /\ Done(s)
  /\ UNCHANGED <<shipped, known, marked, receiver, accepted, given, refresher, records,
                 slips, sends>>

-----------------------------------------------------------------------------
(* refresh-order: its key is the deliveries', but not its task, so it does *)
(* not wait for them.                                                      *)
RefreshStart ==
  /\ known
  /\ refresher.at = "idle"
  /\ Missing(shipped) # {}   \* bound: a refresh that has something to record
  /\ refresher' = [at |-> "read", parcels |-> shipped]
  /\ UNCHANGED <<shipped, known, intake, applier, records, slips, hookFaults>>

RefreshRead ==
  /\ refresher.at = "read"
  /\ refresher' = [at |-> "record", parcels |-> Missing(refresher.parcels)]
  /\ slips' = IF Applies(Owner, "record") THEN Overlap ELSE slips
  /\ UNCHANGED <<shipped, known, intake, applier, records, hookFaults>>

RefreshRecord ==
  \E p \in refresher.parcels :
    /\ refresher.at = "record"
    /\ records' = [records EXCEPT ![p] = @ + 1]
    /\ refresher' = [refresher EXCEPT !.parcels = @ \ {p}]
    /\ UNCHANGED <<shipped, known, intake, applier, slips, hookFaults>>

RefreshEnd ==
  /\ refresher.at = "record" /\ refresher.parcels = {}
  /\ refresher' = [refresher EXCEPT !.at = "idle"]
  /\ UNCHANGED <<shipped, known, intake, applier, records, slips, hookFaults>>

-----------------------------------------------------------------------------
HookNext ==
  \/ Ship \/ LearnRemoteId
  \/ \E q \in Receivers : \/ Send(q) \/ MarkDelivery(q) \/ QueueJob(q) \/ QueueFails(q)
                         \/ ForgetDelivery(q) \/ Accept(q) \/ ReceiverDies(q)
  \/ \E s \in Stores : \/ ApplyStart(s) \/ ApplyRead(s) \/ ApplyRecord(s)
                       \/ ApplyEnd(s) \/ ApplyBreaks(s)
  \/ RefreshStart \/ RefreshRead \/ RefreshRecord \/ RefreshEnd

HookSpec == HookInit /\ [][HookNext]_hookVars

-----------------------------------------------------------------------------
(* A delivery answered 200, which the sender never sends again, was handed *)
(* to a job of every store, unless its mark outlived the request that made *)
(* it (a crash, or a failed delete), or a duplicate was answered while the *)
(* first request was still queueing.                                       *)
AcceptedIsQueued ==
  \A d \in accepted : given[d] = Stores \/ slips \cap {"mark kept", "answered early"} # {}

(* However often a parcel is delivered, queued twice by a retried fan-out, *)
(* applied again after a crash or read by a refresh, it is recorded once,  *)
(* unless a refresh read the records while a delivery was adding to them   *)
(* (or the other way round): the two do not exclude each other.            *)
ParcelRecordedOnce ==
  \A p \in Parcels : records[p] <= 1 \/ "overlap" \in slips
=============================================================================
