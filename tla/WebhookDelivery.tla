-------------------------- MODULE WebhookDelivery ---------------------------
(***************************************************************************)
(* Outbound webhooks: the after-commit hook of an event queues one job per *)
(* active endpoint, with a copy of its URL; the job posts the event and    *)
(* leaves a delivery row. Deleting an endpoint does not reach its jobs.    *)
(***************************************************************************)
EXTENDS Naturals

CONSTANTS
  Events,
  Endpoints,
  Tries,          \* maxAttempts of a delivery job
  MaxWebFaults    \* lost answers, failed statements, lost processes

ASSUME WebhookAssumption == Tries \in Nat \ {0} /\ MaxWebFaults \in Nat

VARIABLES
  endpoints,  \* the endpoints that exist
  hook,       \* [Events -> the hook's step and the endpoints it has still to queue]
  post,       \* [Events -> [Endpoints -> the job: its step, attempts, answer]]
  webRows,    \* [Endpoints -> delivery rows that refer to it]
  taken,      \* history: [Events -> [Endpoints -> times the endpoint took the event]]
  blurs,      \* history: [Events -> [Endpoints -> an answer was not recorded]]
  webFaults

webVars == <<endpoints, hook, post, webRows, taken, blurs, webFaults>>

NoPost == [at |-> "none", attempts |-> 0, answer |-> "none"]

WebTypeOK ==
  /\ endpoints \subseteq Endpoints
  /\ hook \in [Events -> [at : {"none", "queue", "over"}, left : SUBSET Endpoints]]
  /\ post \in [Events -> [Endpoints ->
       [at : {"none", "queued", "sent", "succeeded", "failed"},
        attempts : 0..Tries, answer : {"none", "ok", "refused", "lost"}]]]
  /\ webRows \in [Endpoints -> Nat]
  /\ taken \in [Events -> [Endpoints -> Nat]]
  /\ blurs \in [Events -> [Endpoints -> BOOLEAN]]
  /\ webFaults \in 0..MaxWebFaults

WebInit ==
  /\ endpoints = Endpoints
  /\ hook  = [e \in Events |-> [at |-> "none", left |-> {}]]
  /\ post  = [e \in Events |-> [p \in Endpoints |-> NoPost]]
  /\ webRows = [p \in Endpoints |-> 0]
  /\ taken = [e \in Events |-> [p \in Endpoints |-> 0]]
  /\ blurs = [e \in Events |-> [p \in Endpoints |-> FALSE]]
  /\ webFaults = 0

WebFault == webFaults < MaxWebFaults /\ webFaults' = webFaults + 1

-----------------------------------------------------------------------------
(* deliverWebhooks: the lookup, then one enqueue after the other. Its      *)
(* failure is reported by the hook executor and not made good.             *)
LookUp(e) ==
  /\ hook[e].at = "none"
  /\ hook' = [hook EXCEPT ![e] = [at |-> "queue", left |-> endpoints]]
  /\ UNCHANGED <<endpoints, post, webRows, taken, blurs, webFaults>>

QueuePost(e) ==
  \E p \in hook[e].left :
    /\ hook' = [hook EXCEPT ![e].left = @ \ {p}]
    /\ post' = [post EXCEPT ![e][p].at = "queued"]
    /\ UNCHANGED <<endpoints, webRows, taken, blurs, webFaults>>

HookOver(e) ==
  /\ hook[e].at = "queue"
  /\ \/ hook[e].left = {} /\ UNCHANGED webFaults
     \/ hook[e].left # {} /\ WebFault
  /\ hook' = [hook EXCEPT ![e] = [at |-> "over", left |-> {}]]
  /\ UNCHANGED <<endpoints, post, webRows, taken, blurs>>

(* deleteEndpoint: the rows that refer to an endpoint keep it.             *)
DeleteEndpoint ==
  \E p \in endpoints :
    /\ webRows[p] = 0
    /\ endpoints' = endpoints \ {p}
    /\ UNCHANGED <<hook, post, webRows, taken, blurs, webFaults>>

-----------------------------------------------------------------------------
Posts(e, p, step) == post[e][p].at = step

(* The request: answered, refused, or cut off before or after it was taken. *)
SendEvent(e, p) ==
  /\ Posts(e, p, "queued")
  /\ \E answer \in {"ok", "refused", "lost"} :
       /\ post' = [post EXCEPT ![e][p].at = "sent", ![e][p].answer = answer]
       /\ IF answer = "lost" THEN WebFault ELSE UNCHANGED webFaults
       /\ \/ /\ answer # "refused"
             /\ taken' = [taken EXCEPT ![e][p] = @ + 1]
             /\ blurs' = [blurs EXCEPT ![e][p] = @ \/ answer = "lost"]
          \/ answer # "ok" /\ UNCHANGED <<taken, blurs>>
  /\ UNCHANGED <<endpoints, hook, webRows>>

(* The runner counts the attempt and gives up at the last. *)
Throws(e, p) ==
  LET n == post[e][p].attempts + 1 IN
  post' = [post EXCEPT ![e][p] = [at |-> IF n >= Tries THEN "failed" ELSE "queued",
                                  attempts |-> n, answer |-> "none"]]

Wrote(p) == webRows' = [webRows EXCEPT ![p] = @ + 1]

(* mutant: the worker goes on after a recorded success *)
ThrowsAlways(e, p) ==
  /\ Posts(e, p, "sent") /\ p \in endpoints
  /\ Wrote(p)
  /\ Throws(e, p)
  /\ UNCHANGED <<endpoints, hook, taken, blurs, webFaults>>

(* The answer is recorded; a good one ends the job.                        *)
RecordAnswer(e, p) ==
  /\ Posts(e, p, "sent") /\ p \in endpoints
  /\ Wrote(p)
  /\ IF post[e][p].answer = "ok"
     THEN post' = [post EXCEPT ![e][p].at = "succeeded", ![e][p].attempts = @ + 1]
     ELSE Throws(e, p)
  /\ UNCHANGED <<endpoints, hook, taken, blurs, webFaults>>

(* The row is refused, because the endpoint is gone or the statement       *)
(* fails: the worker takes it for a failed delivery, records that if it    *)
(* can, and throws.                                                        *)
RecordRefused(e, p) ==
  /\ Posts(e, p, "sent")
  /\ IF p \in endpoints THEN WebFault /\ (Wrote(p) \/ UNCHANGED webRows)
                        ELSE UNCHANGED <<webRows, webFaults>>
  /\ blurs' = [blurs EXCEPT ![e][p] = @ \/ post[e][p].answer = "ok"]
  /\ Throws(e, p)
  /\ UNCHANGED <<endpoints, hook, taken>>

(* The process dies with the job; the reaper gives it back an attempt.     *)
SenderDies(e, p) ==
  /\ Posts(e, p, "sent")
  /\ WebFault
  /\ blurs' = [blurs EXCEPT ![e][p] = @ \/ post[e][p].answer = "ok"]
  /\ post' = [post EXCEPT ![e][p] =
                [at |-> "queued", answer |-> "none",
                 attempts |-> IF @.attempts = 0 THEN 0 ELSE @.attempts - 1]]
  /\ UNCHANGED <<endpoints, hook, webRows, taken>>

WebNext ==
  \/ \E e \in Events : LookUp(e) \/ QueuePost(e) \/ HookOver(e)
  \/ DeleteEndpoint
  \/ \E e \in Events, p \in Endpoints : \/ SendEvent(e, p) \/ RecordAnswer(e, p)
                                        \/ RecordRefused(e, p) \/ SenderDies(e, p)

WebSpec == WebInit /\ [][WebNext]_webVars

-----------------------------------------------------------------------------
(* An endpoint takes an event a second time only when an answer by which   *)
(* it took it was not put on record: cut off, refused by the database, or  *)
(* lost with the process. Retries and reaped jobs alone repeat nothing.    *)
TakenOnce ==
  \A e \in Events, p \in Endpoints : taken[e][p] <= 1 \/ blurs[e][p]
=============================================================================
