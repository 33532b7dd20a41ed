---------------------------- MODULE Coordinator -----------------------------
(***************************************************************************)
(* One concurrency key on the Cloudflare engine. A Durable Object keeps    *)
(* who runs and who waits; each of its steps here is one pass through its  *)
(* gate. What it asks the Workflow binding it asks outside the gate, so    *)
(* the answer may be old when it is used. An enqueue call and the instance *)
(* it creates share an id.                                                 *)
(***************************************************************************)
EXTENDS Naturals, Sequences, SequencesExt

CONSTANTS
  Instances,
  Hash,        \* [Instances -> the hash of the job's input]
  Replaces,    \* [Instances -> whether its enqueue may supersede, or not, or both]
  Nobody,
  MaxLapses    \* lost callers, lost releases, calls that fail for no reason

ASSUME CoordinatorAssumption ==
  /\ Nobody \notin Instances
  /\ Replaces \in [Instances -> SUBSET BOOLEAN]
  /\ MaxLapses \in Nat

VARIABLES
  running,   \* the instance the key is granted to
  pending,   \* the instances that wait, oldest first
  hashed,    \* the pending instances whose input hash is kept
  enqueue,   \* [Instances -> the enqueue call: step, candidate, verdict, victims]
  instance,  \* [Instances -> the workflow instance: step, holder asked about, verdict]
  release,   \* [Instances -> its release call: step, whose turn it gives away]
  answer,    \* [Instances -> the id its enqueue call answered]
  saw,       \* history: [Instances -> calls made before its handler started]
  lapses,
  breaches   \* history: what was done on an answer that had become false

gate      == <<running, pending, hashed>>
coordVars == <<gate, enqueue, instance, release, answer, saw, lapses, breaches>>

NoEnqueue  == [at |-> "idle", candidate |-> Nobody, stale |-> FALSE, victims |-> {}]
NoInstance == [at |-> "none", holder |-> Nobody, stale |-> FALSE]
NoRelease  == [at |-> "none", holder |-> Nobody]
Over       == {"ended", "killed"}
Waiting    == {"turn", "ask", "told", "parked"}

Calls     == [at : {"idle", "ask", "told", "kill", "answered", "lost"},
              candidate : Instances \cup {Nobody}, stale : BOOLEAN, victims : SUBSET Instances]
Workflows == [at : {"none", "handler", "release"} \cup Over \cup Waiting,
              holder : Instances \cup {Nobody}, stale : BOOLEAN]
Releases  == [at : {"none", "free", "wake", "unwoken"}, holder : Instances \cup {Nobody}]

CoordTypeOK ==
  /\ running \in Instances \cup {Nobody}
  /\ pending \in Seq(Instances) /\ IsInjective(pending)
  /\ hashed \subseteq ToSet(pending)
  /\ enqueue \in [Instances -> Calls]
  /\ instance \in [Instances -> Workflows]
  /\ release \in [Instances -> Releases]
  /\ answer \in [Instances -> Instances \cup {Nobody}]
  /\ saw \in [Instances -> SUBSET Instances]
  /\ lapses \in 0..MaxLapses
  /\ breaches \subseteq {"taken from a starter", "killed a starter", "caller lost"}

CoordInit ==
  /\ running  = Nobody
  /\ pending  = <<>>
  /\ hashed   = {}
  /\ enqueue  = [i \in Instances |-> NoEnqueue]
  /\ instance = [i \in Instances |-> NoInstance]
  /\ release  = [i \in Instances |-> NoRelease]
  /\ answer   = [i \in Instances |-> Nobody]
  /\ saw      = [i \in Instances |-> {}]
  /\ lapses   = 0
  /\ breaches = {}

Lapse == lapses < MaxLapses /\ lapses' = lapses + 1

(* The waiting list without i, which it holds at most once. *)
Without(s, i) ==
  IF Contains(s, i) THEN RemoveAt(s, CHOOSE n \in DOMAIN s : s[n] = i) ELSE s

(* isStale: an instance that is over, that does not exist yet, or that the *)
(* binding could not be asked about.                                       *)
GoneIfEnded(i) == instance[i].at = "ended"   \* mutant: terminated ones are alive
Gone(i) == instance[i].at \in Over \cup {"none"}

Stale(i, verdict) ==
  \/ verdict = Gone(i) /\ UNCHANGED lapses
  \/ verdict /\ ~Gone(i) /\ Lapse

(* Instances whose handler may be under way: the key is theirs to keep.    *)
Working(i) == instance[i].at = "handler"

-----------------------------------------------------------------------------
(* enqueue of the Durable Object, in two phases when a pending job has the *)
(* same input, then termination of what was superseded, then creation.     *)
Enqueuing(i, step) == enqueue[i].at = step

(* commitEnqueue *)
Enqueued(i, supersedes) ==
  /\ pending' = IF supersedes THEN <<i>> ELSE Append(Without(pending, i), i)
  /\ hashed'  = IF supersedes THEN {i} ELSE hashed \cup {i}
  /\ enqueue' = [enqueue EXCEPT ![i] =
                   [NoEnqueue EXCEPT !.at = "kill",
                      !.victims = IF supersedes THEN ToSet(pending) \ {i} ELSE {}]]

(* mutant: the job that runs will do as well *)
TwinsOrHolder(i) == {c \in hashed \cup {running} : c # Nobody /\ Hash[c] = Hash[i]}

(* Pending jobs with the same input. *)
Twins(i) == {c \in hashed : Hash[c] = Hash[i]}

EnqueueRead(i) ==
  /\ Enqueuing(i, "idle")
  /\ \E supersedes \in Replaces[i] :
       IF supersedes /\ Twins(i) # {}
       THEN \E c \in Twins(i) :
              /\ enqueue' = [enqueue EXCEPT ![i] = [NoEnqueue EXCEPT !.at = "ask",
                                                                    !.candidate = c]]
              /\ UNCHANGED gate
       ELSE Enqueued(i, supersedes) /\ UNCHANGED running
  /\ UNCHANGED <<instance, release, answer, saw, lapses, breaches>>

AskCandidate(i) ==
  \E verdict \in BOOLEAN :
    /\ Enqueuing(i, "ask")
    /\ Stale(enqueue[i].candidate, verdict)
    /\ enqueue' = [enqueue EXCEPT ![i].at = "told", ![i].stale = verdict]
    /\ UNCHANGED <<gate, instance, release, answer, saw, breaches>>

(* The candidate still waits with the same input. *)
StillTwin(i) == enqueue[i].candidate \in Twins(i)

EnqueueAfterCandidate(i) ==
  /\ Enqueuing(i, "told")
  /\ IF ~enqueue[i].stale /\ StillTwin(i)
     THEN /\ enqueue' = [enqueue EXCEPT ![i].at = "answered"]
          /\ answer'  = [answer EXCEPT ![i] = enqueue[i].candidate]
          /\ UNCHANGED gate
     ELSE Enqueued(i, TRUE) /\ UNCHANGED <<running, answer>>
  /\ UNCHANGED <<instance, release, saw, lapses, breaches>>

(* A termination that fails is swallowed; one that comes late kills an     *)
(* instance that got the key by asking for it.                             *)
Terminate(i) ==
  \E v \in enqueue[i].victims :
    /\ Enqueuing(i, "kill")
    /\ enqueue' = [enqueue EXCEPT ![i].victims = @ \ {v}]
    /\ \/ /\ ~Gone(v)
          /\ instance' = [instance EXCEPT ![v] = [NoInstance EXCEPT !.at = "killed"]]
          /\ breaches' = IF instance[v].at \in {"handler", "release"}
                         THEN breaches \cup {"killed a starter"} ELSE breaches
          /\ UNCHANGED lapses
       \/ Gone(v) /\ UNCHANGED <<instance, lapses, breaches>>
       \/ ~Gone(v) /\ Lapse /\ UNCHANGED <<instance, breaches>>
    /\ UNCHANGED <<gate, release, answer, saw>>

Create(i) ==
  /\ Enqueuing(i, "kill") /\ enqueue[i].victims = {}
  /\ enqueue'  = [enqueue EXCEPT ![i].at = "answered"]
  /\ instance' = [instance EXCEPT ![i].at = "turn"]
  /\ answer'   = [answer EXCEPT ![i] = i]
  /\ UNCHANGED <<gate, release, saw, lapses, breaches>>

(* The caller dies before it has created what it registered. *)
CallerDies(i) ==
  /\ enqueue[i].at \in {"ask", "told", "kill"}
  /\ Lapse
  /\ enqueue'  = [enqueue EXCEPT ![i] = [NoEnqueue EXCEPT !.at = "lost"]]
  /\ breaches' = breaches \cup {"caller lost"}
  /\ UNCHANGED <<gate, instance, release, answer, saw>>

-----------------------------------------------------------------------------
(* run: acquire, in two phases when the key is held, or wait and ask again. *)
Stands(i, step) == instance[i].at = step
Goes(i, step)   == instance' = [instance EXCEPT ![i] = [NoInstance EXCEPT !.at = step]]

(* mutant: the granted instance stays a candidate *)
GrantKeyOnly(i) ==
  /\ running' = i
  /\ pending' = Without(pending, i)
  /\ UNCHANGED hashed

GrantKey(i) ==
  /\ running' = i
  /\ pending' = Without(pending, i)
  /\ hashed'  = hashed \ {i}

Starts(i) ==
  /\ Goes(i, "handler")
  /\ saw' = [saw EXCEPT ![i] = {j \in Instances : ~Enqueuing(j, "idle")}]

(* acquireRead *)
AcquireRead(i) ==
  /\ Stands(i, "turn")
  /\ \/ running = i      /\ Starts(i)   /\ UNCHANGED gate
     \/ running = Nobody /\ GrantKey(i) /\ Starts(i)
     \/ /\ running \notin {i, Nobody}
        /\ instance' = [instance EXCEPT ![i] = [at |-> "ask", holder |-> running, stale |-> FALSE]]
        /\ UNCHANGED <<gate, saw>>
  /\ UNCHANGED <<enqueue, release, answer, lapses, breaches>>

AskHolder(i) ==
  \E verdict \in BOOLEAN :
    /\ Stands(i, "ask")
    /\ Stale(instance[i].holder, verdict)
    /\ instance' = [instance EXCEPT ![i].at = "told", ![i].stale = verdict]
    /\ UNCHANGED <<gate, enqueue, release, answer, saw, breaches>>

(* mutant: whoever holds the key now *)
MayTakeAny(i) ==
  running \in {i, Nobody} \/ instance[i].stale

(* acquireAfterStale, acquireWhenHolderLive *)
MayTake(i) ==
  running \in {i, Nobody} \/ (instance[i].stale /\ running = instance[i].holder)

AcquireAfterAsking(i) ==
  /\ Stands(i, "told")
  /\ IF MayTake(i)
     THEN /\ breaches' = IF running # Nobody /\ running # i /\ running = instance[i].holder
                            /\ Working(running)
                         THEN breaches \cup {"taken from a starter"} ELSE breaches
          /\ IF running = i THEN UNCHANGED gate ELSE GrantKey(i)
          /\ Starts(i)
     ELSE /\ pending' = IF Contains(pending, i) THEN pending ELSE Append(pending, i)
          /\ Goes(i, "parked")
          /\ UNCHANGED <<running, hashed, saw, breaches>>
  /\ UNCHANGED <<enqueue, release, answer, lapses>>

(* The turn event, or the timeout of the wait. *)
Unpark(i) ==
  /\ Stands(i, "parked")
  /\ Goes(i, "turn")
  /\ UNCHANGED <<gate, enqueue, release, answer, saw, lapses, breaches>>

HandlerEnds(i) ==
  /\ Stands(i, "handler")
  /\ \/ /\ Goes(i, "release")
        /\ release' = [release EXCEPT ![i] = [at |-> "free", holder |-> i]]
        /\ UNCHANGED lapses
     \/ Goes(i, "ended") /\ Lapse /\ UNCHANGED release
  /\ UNCHANGED <<gate, enqueue, answer, saw, breaches>>

-----------------------------------------------------------------------------
(* releaseAndWake: free the key, hand it on, wake its new holder; when the *)
(* wake fails, free it again on the new holder's behalf.                   *)
Released(i) == IF Stands(i, "release") THEN Goes(i, "ended") ELSE UNCHANGED instance

ReleaseKey(i) ==
  /\ release[i].at \in {"free", "unwoken"}
  /\ IF running # release[i].holder
     THEN /\ release' = [release EXCEPT ![i] = NoRelease]
          /\ Released(i)
          /\ UNCHANGED <<gate, breaches>>
     ELSE /\ IF pending = <<>>
             THEN /\ running' = Nobody
                  /\ release' = [release EXCEPT ![i] = NoRelease]
                  /\ Released(i)
                  /\ UNCHANGED <<pending, hashed>>
             ELSE /\ running' = Head(pending)
                  /\ pending' = Tail(pending)
                  /\ hashed'  = hashed \ {Head(pending)}
                  /\ release' = [release EXCEPT ![i] = [at |-> "wake", holder |-> Head(pending)]]
                  /\ UNCHANGED instance
          /\ breaches' = IF release[i].at = "unwoken" /\ Working(running)
                         THEN breaches \cup {"taken from a starter"} ELSE breaches
  /\ UNCHANGED <<enqueue, answer, saw, lapses>>

Wake(i) ==
  \E failed \in BOOLEAN :
    /\ release[i].at = "wake"
    /\ Stale(release[i].holder, failed)
    /\ IF failed
       THEN release' = [release EXCEPT ![i].at = "unwoken"] /\ UNCHANGED instance
       ELSE release' = [release EXCEPT ![i] = NoRelease] /\ Released(i)
    /\ UNCHANGED <<gate, enqueue, answer, saw, breaches>>

-----------------------------------------------------------------------------
EnqueueStep(i)  == \/ AskCandidate(i) \/ EnqueueAfterCandidate(i)
                   \/ Terminate(i) \/ Create(i)
InstanceStep(i) == \/ AcquireRead(i) \/ AskHolder(i) \/ AcquireAfterAsking(i)
                   \/ Unpark(i) \/ HandlerEnds(i)
ReleaseStep(i)  == ReleaseKey(i) \/ Wake(i)

CoordNext ==
  \E i \in Instances : \/ EnqueueRead(i) \/ EnqueueStep(i) \/ CallerDies(i)
                       \/ InstanceStep(i) \/ ReleaseStep(i)

(* Every step of a call, an instance and a release is retried by the       *)
(* platform until it is made; nobody has to enqueue.                       *)
CoordFairness ==
  \A i \in Instances : /\ WF_coordVars(EnqueueStep(i))
                       /\ WF_coordVars(InstanceStep(i))
                       /\ WF_coordVars(ReleaseStep(i))

CoordSpec     == CoordInit /\ [][CoordNext]_coordVars
CoordFairSpec == CoordSpec /\ CoordFairness

-----------------------------------------------------------------------------
(* Two handlers of the key run at once only after the key was taken from   *)
(* an instance that had started in the meantime: judged dead, or not to be *)
(* woken, on an answer that was no longer true when it was used.           *)
OneHandlerPerKey ==
  \A i, j \in Instances :
    Working(i) /\ Working(j) /\ i # j => "taken from a starter" \in breaches

(* A call that was answered with another call's job is served by a job     *)
(* that starts after it: the job will see what the caller wrote.           *)
CoalescedSeesWrite ==
  \A i \in Instances :
    LET c == answer[i] IN
    c # Nobody /\ instance[c].at \in {"handler", "release", "ended"} => i \in saw[c]

(* Whoever waits for the key gets it, runs and ends: no release, crash or  *)
(* termination leaves the key with an instance that will not give it back. *)
EveryInstanceEnds ==
  \A i \in Instances : Stands(i, "turn") ~> instance[i].at \in Over

(* An answered call is worked: some handler starts after it, unless a      *)
(* caller died after it had superseded others, or a handler was killed.    *)
EveryCallIsWorked ==
  \A i \in Instances :
    Enqueuing(i, "answered") ~>
      \/ \E j \in Instances : i \in saw[j]
      \/ breaches \cap {"caller lost", "killed a starter"} # {}
=============================================================================
