---------------------------- MODULE OfflineQueue ----------------------------
(***************************************************************************)
(* The SDK's queue of a client that may be offline: operations in memory,  *)
(* written whole to a storage that may take its time; a flush that sends   *)
(* what was queued when it began; one retry timer. The server answers a    *)
(* repeated operation by its key, so it is applied once.                   *)
(***************************************************************************)
EXTENDS Naturals, Sequences, SequencesExt

CONSTANTS
  Operations,
  NoOperation,
  SendAttempts,    \* maxAttempts
  MaxManual,       \* retries and drops by hand
  MaxOutages,      \* requests cut off, restarts
  MaxWrites        \* writes under way when a call adds one

ASSUME OfflineAssumption ==
  /\ NoOperation \notin Operations
  /\ SendAttempts \in Nat \ {0} /\ MaxManual \in Nat /\ MaxOutages \in Nat
  /\ MaxWrites \in Nat \ {0}

VARIABLES
  queued,    \* operations in the list
  object,    \* [Operations -> status and attempts], in the list or not
  stored,    \* what the storage holds: a list and its objects
  saves,     \* writes under way, in the order they were asked for
  flush,     \* the flush: step, operations left, the one being sent
  timer,     \* the retry timer is armed
  resolved,  \* operations whose enqueue has resolved
  applied,   \* operations the server has carried out
  dropped,   \* operations dropped by hand
  missed,    \* history: what became of a call nobody made good
  manual, outages

offlineVars == <<queued, object, stored, saves, flush, timer, resolved, applied,
                 dropped, missed, manual, outages>>

Fresh == [status |-> "pending", attempts |-> 0]
Image == [queued : SUBSET Operations,
          object : [Operations -> [status : {"pending", "failed"}, attempts : Nat]]]
Idle  == [at |-> "idle", left |-> {}, op |-> NoOperation]

OfflineTypeOK ==
  /\ queued \subseteq Operations
  /\ object \in [Operations -> [status : {"pending", "failed"}, attempts : Nat]]
  /\ stored \in Image
  /\ saves \in Seq([image : Image, by : {"enqueue", "retry", "drop", "flush", "offline"},
                    op : Operations \cup {NoOperation}])
  /\ flush \in [at : {"idle", "next", "sent", "saving"}, left : SUBSET Operations,
                op : Operations \cup {NoOperation}]
  /\ timer \in BOOLEAN
  /\ resolved \subseteq Operations /\ applied \subseteq Operations /\ dropped \subseteq Operations
  /\ missed \subseteq {"write overtaken", "woken while busy", "restarted"}
  /\ manual \in 0..MaxManual /\ outages \in 0..MaxOutages

OfflineInit ==
  /\ queued   = {}
  /\ object   = [o \in Operations |-> Fresh]
  /\ stored   = [queued |-> {}, object |-> [o \in Operations |-> Fresh]]
  /\ saves    = <<>>
  /\ flush    = Idle
  /\ timer    = FALSE
  /\ resolved = {} /\ applied = {} /\ dropped = {}
  /\ missed   = {}
  /\ manual   = 0 /\ outages = 0

Outage  == outages < MaxOutages /\ outages' = outages + 1
ByHand  == manual < MaxManual /\ manual' = manual + 1
Room    == Len(saves) < MaxWrites

(* persist: a write of the list as it is after the step *)
Save(by, o) ==
  saves' = Append(saves, [image |-> [queued |-> queued', object |-> object'],
                          by |-> by, op |-> o])

-----------------------------------------------------------------------------
(* mutant: enqueue does not wait for its write *)
EnqueueAtOnce(o) ==
  /\ o \notin queued \cup resolved \cup dropped \cup applied
  /\ Room
  /\ queued' = queued \cup {o}
  /\ object' = [object EXCEPT ![o] = Fresh]
  /\ Save("drop", o)
  /\ resolved' = resolved \cup {o}
  /\ UNCHANGED <<stored, flush, timer, applied, dropped, missed, manual, outages>>

(* enqueue resolves when its write is done (SaveDone).                     *)
Enqueue(o) ==
  /\ o \notin queued \cup resolved \cup dropped \cup applied
  /\ \A i \in DOMAIN saves : saves[i].op # o
  /\ Room
  /\ queued' = queued \cup {o}
  /\ object' = [object EXCEPT ![o] = Fresh]
  /\ Save("enqueue", o)
  /\ UNCHANGED <<stored, flush, timer, resolved, applied, dropped, missed, manual, outages>>

Retry(o) ==
  /\ o \in queued /\ object[o].status = "failed"
  /\ ByHand /\ Room
  /\ object' = [object EXCEPT ![o] = Fresh]
  /\ UNCHANGED queued
  /\ Save("retry", o)
  /\ UNCHANGED <<stored, flush, timer, resolved, applied, dropped, missed, outages>>

(* A flush under way keeps its own list and still sends what is dropped.   *)
Drop(o) ==
  /\ o \in queued
  /\ ByHand /\ Room
  /\ queued'  = queued \ {o}
  /\ dropped' = dropped \cup {o}
  /\ UNCHANGED object
  /\ Save("drop", o)
  /\ UNCHANGED <<stored, flush, timer, resolved, applied, missed, outages>>

-----------------------------------------------------------------------------
(* flush: a call while another is under way does nothing.                  *)
Began  == flush' = [at |-> "next", left |-> queued, op |-> NoOperation]
Busy   == flush.at # "idle"
Woken  == IF Busy THEN UNCHANGED flush /\ missed' = missed \cup {"woken while busy"}
                  ELSE Began /\ UNCHANGED missed

CallFlush ==
  /\ ~Busy /\ queued # {}
  /\ Began
  /\ UNCHANGED <<queued, object, stored, saves, timer, resolved, applied, dropped, missed,
                 manual, outages>>

TimerFires ==
  /\ timer
  /\ timer' = FALSE
  /\ Woken
  /\ UNCHANGED <<queued, object, stored, saves, resolved, applied, dropped, manual, outages>>

SendNext(o) ==
  /\ flush.at = "next" /\ o \in flush.left
  /\ flush' = IF object[o].status = "pending"
              THEN [at |-> "sent", left |-> flush.left \ {o}, op |-> o]
              ELSE [flush EXCEPT !.left = @ \ {o}]
  /\ UNCHANGED <<queued, object, stored, saves, timer, resolved, applied, dropped, missed,
                 manual, outages>>

FlushOver ==
  /\ flush.at = "next" /\ flush.left = {}
  /\ flush' = Idle
  /\ UNCHANGED <<queued, object, stored, saves, timer, resolved, applied, dropped, missed,
                 manual, outages>>

Serves(o) == applied' = applied \cup {o}
Saving    == flush' = [flush EXCEPT !.at = "saving"]

Delivered ==
  LET o == flush.op IN
  /\ flush.at = "sent"
  /\ Serves(o)
  /\ queued' = queued \ {o}
  /\ UNCHANGED object
  /\ Save("flush", NoOperation) /\ Saving
  /\ UNCHANGED <<stored, timer, resolved, dropped, missed, manual, outages>>

(* mutant: the old timer is cleared and no new one set *)
Cleared(failed) == timer /\ failed

(* scheduleRetry, unless the operation has failed for good *)
Armed(failed) == timer \/ ~failed

(* The server says no, for good or for now; it may have carried the        *)
(* operation out before it failed.                                         *)
Refused ==
  \E forGood \in BOOLEAN :
    LET o == flush.op
        failed == forGood \/ object[o].attempts + 1 >= SendAttempts
    IN
    /\ flush.at = "sent"
    /\ \/ UNCHANGED applied
       \/ ~forGood /\ Serves(o)
    /\ object' = [object EXCEPT ![o] = [status   |-> IF failed THEN "failed" ELSE "pending",
                                        attempts |-> object[o].attempts + 1]]
    /\ timer' = Armed(failed)
    /\ UNCHANGED queued
    /\ Save("flush", NoOperation) /\ Saving
    /\ UNCHANGED <<stored, resolved, dropped, missed, manual, outages>>

(* No answer: the flush stops; the timer is armed when that is stored.     *)
CutOff ==
  LET o == flush.op IN
  /\ flush.at = "sent"
  /\ Outage
  /\ UNCHANGED applied \/ Serves(o)
  /\ object' = [object EXCEPT ![o].attempts = @ + 1]
  /\ UNCHANGED queued
  /\ Save("offline", NoOperation) /\ Saving
  /\ UNCHANGED <<stored, timer, resolved, dropped, missed, manual>>

-----------------------------------------------------------------------------
(* A write ends, and with it what waited for it. One asked for earlier and *)
(* still under way will put an older list in its place.                    *)
Overtaken(i) == IF i > 1 THEN {"write overtaken"} ELSE {}

SaveDone ==
  \E i \in DOMAIN saves :
    LET s == saves[i] IN
    /\ stored' = s.image
    /\ saves'  = RemoveAt(saves, i)
    /\ resolved' = IF s.by = "enqueue" THEN resolved \cup {s.op} ELSE resolved
    /\ timer' = (timer \/ s.by = "offline")
    /\ CASE s.by = "flush"   -> flush' = [flush EXCEPT !.at = "next", !.op = NoOperation]
         [] s.by = "offline" -> flush' = Idle
         [] s.by = "retry" /\ ~Busy -> Began
         [] OTHER -> UNCHANGED flush
    /\ missed' = missed \cup Overtaken(i)
                   \cup (IF s.by = "retry" /\ Busy THEN {"woken while busy"} ELSE {})
    /\ UNCHANGED <<queued, object, applied, dropped, manual, outages>>

(* The client is closed: the request it was sending may still arrive.      *)
Restart ==
  /\ Outage
  /\ queued' = stored.queued
  /\ object' = stored.object
  /\ saves'  = <<>>
  /\ flush'  = Idle
  /\ timer'  = FALSE
  /\ missed' = missed \cup {"restarted"}
  /\ \/ UNCHANGED applied
     \/ flush.at = "sent" /\ Serves(flush.op)
  /\ UNCHANGED <<stored, resolved, dropped, manual>>

OfflineNext ==
  \/ \E o \in Operations : Enqueue(o) \/ Retry(o) \/ Drop(o) \/ SendNext(o)
  \/ CallFlush \/ TimerFires \/ FlushOver \/ Delivered \/ Refused \/ CutOff
  \/ SaveDone \/ Restart

OfflineSpec == OfflineInit /\ [][OfflineNext]_offlineVars

-----------------------------------------------------------------------------
(* An operation whose enqueue has resolved survives whatever comes: it is  *)
(* stored, or carried out, or dropped by hand, unless the storage finished *)
(* two writes in the wrong order.                                          *)
NothingResolvedIsLost ==
  \A o \in resolved \ (applied \cup dropped) :
    o \in stored.queued \/ "write overtaken" \in missed

(* An operation that failed and is to be tried again has the timer, or a   *)
(* flush, to wait for, unless the timer or a retry by hand called a flush  *)
(* that found another under way, or the client was closed.                 *)
FailureIsRetried ==
  \A o \in queued :
    object[o].status = "pending" /\ object[o].attempts > 0 =>
      timer \/ Busy \/ missed \cap {"woken while busy", "restarted"} # {}
=============================================================================
