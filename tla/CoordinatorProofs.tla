-------------------------- MODULE CoordinatorProofs -------------------------
(***************************************************************************)
(* For any number of instances, inputs and lapses: while no call acted on  *)
(* an answer that had become false, whoever runs its handler is whom the   *)
(* key is granted to, so one handler runs at a time; and a call answered   *)
(* with another's job is always served by a handler that starts later.     *)
(***************************************************************************)
EXTENDS Coordinator, SequenceTheorems, TLAPS

Started == {"handler", "release", "ended"}

(* An instance exists once its call has created it, and releases once its  *)
(* handler has ended; it begins by giving away its own turn.               *)
Order ==
  \A i \in Instances :
    /\ enqueue[i].at # "answered" => instance[i].at = "none" /\ answer[i] = Nobody
    /\ release[i].at # "none" => instance[i].at \in {"release"} \cup Over
    /\ release[i].at = "free" => release[i].holder = i
    /\ release[i].at = "wake" => release[i].holder \in Instances

(* Only calls that were registered wait for the key or have it. *)
Registered ==
  \A i \in Instances :
    i \in ToSet(pending) \/ running = i => enqueue[i].at \notin {"idle", "ask", "told"}

(* Whose hash is kept has not started; the holder's is not kept. *)
Unstarted ==
  /\ running \notin hashed
  /\ \A c \in hashed : instance[c].at \notin Started

(* The key is with whoever works. *)
KeyHeld ==
  "taken from a starter" \notin breaches =>
    \A i \in Instances : Working(i) => running = i

CoordInv ==
  CoordTypeOK /\ Order /\ Registered /\ Unstarted /\ KeyHeld /\ CoalescedSeesWrite

-----------------------------------------------------------------------------
(* Who waits, and whose hash is kept, are instances. *)
LEMMA Known == CoordTypeOK => hashed \subseteq Instances /\ ToSet(pending) \subseteq Instances
<1> SUFFICES ASSUME pending \in Seq(Instances), hashed \subseteq ToSet(pending)
             PROVE  hashed \subseteq Instances /\ ToSet(pending) \subseteq Instances
  BY DEF CoordTypeOK
<1> QED
  BY DEF ToSet

LEMMA LapseTyped ==
  ASSUME CoordTypeOK, UNCHANGED lapses \/ Lapse PROVE lapses' \in 0..MaxLapses
<1>1. lapses \in 0..MaxLapses /\ MaxLapses \in Nat
  BY CoordinatorAssumption DEF CoordTypeOK
<1>2. CASE UNCHANGED lapses
  BY <1>1, <1>2
<1>3. CASE Lapse
  BY <1>1, <1>3 DEF Lapse
<1> QED
  BY <1>2, <1>3

(* The waiting list without one of its members. *)
LEMMA WithoutFacts ==
  ASSUME NEW s \in Seq(Instances), IsInjective(s), NEW i \in Instances
  PROVE  /\ Without(s, i) \in Seq(Instances) /\ IsInjective(Without(s, i))
         /\ ToSet(Without(s, i)) = ToSet(s) \ {i}
<1>1. CASE ~Contains(s, i)
  BY <1>1 DEF Without, Contains, ToSet
<1>2. CASE Contains(s, i)
  <2> DEFINE n == CHOOSE m \in DOMAIN s : s[m] = i
             a == SubSeq(s, 1, n - 1)
             b == SubSeq(s, n + 1, Len(s))
             t == a \o b
  <2>1. n \in 1..Len(s) /\ s[n] = i
    BY <1>2 DEF Contains
  <2>2. Without(s, i) = t
    BY <1>2 DEF Without, RemoveAt
  <2> HIDE DEF n
  <2>3. /\ a \in Seq(Instances) /\ Len(a) = n - 1
        /\ \A k \in 1..(n - 1) : a[k] = s[k]
    <3>1. \A k \in 1..(n - 1) : s[k] \in Instances
      BY <2>1
    <3> QED
      BY <2>1, <3>1, SubSeqProperties
  <2>4. /\ b \in Seq(Instances) /\ Len(b) = Len(s) - n
        /\ \A k \in 1..(Len(s) - n) : b[k] = s[n + k]
    <3>1. \A k \in (n + 1)..Len(s) : s[k] \in Instances
      BY <2>1
    <3> QED
      BY <2>1, <3>1, SubSeqProperties
  <2> HIDE DEF a, b
  <2>5. /\ t \in Seq(Instances) /\ Len(t) = Len(s) - 1
        /\ \A k \in 1..(n - 1) : t[k] = s[k]
        /\ \A k \in n..(Len(s) - 1) : t[k] = s[k + 1]
    <3>1. /\ t \in Seq(Instances) /\ Len(t) = Len(a) + Len(b)
          /\ \A k \in 1..Len(t) : t[k] = IF k <= Len(a) THEN a[k] ELSE b[k - Len(a)]
      BY <2>3, <2>4, ConcatProperties
    <3> HIDE DEF t
    <3>2. Len(t) = Len(s) - 1
      BY <2>1, <2>3, <2>4, <3>1
    <3>3. ASSUME NEW k \in 1..(n - 1) PROVE t[k] = s[k]
      <4>1. k \in 1..Len(t) /\ k <= Len(a)
        BY <2>1, <2>3, <3>2
      <4> QED
        BY <2>3, <3>1, <4>1
    <3>4. ASSUME NEW k \in n..(Len(s) - 1) PROVE t[k] = s[k + 1]
      <4>1. k - (n - 1) \in 1..(Len(s) - n) /\ n + (k - (n - 1)) = k + 1
        BY <2>1
      <4>2. t[k] = b[k - (n - 1)]
        BY <2>1, <2>3, <3>1, <3>2
      <4> QED
        BY <2>4, <4>1, <4>2
    <3> QED
      BY <3>1, <3>2, <3>3, <3>4
  <2> HIDE DEF t
  <2>6. IsInjective(t)
    <3> SUFFICES ASSUME NEW k \in 1..Len(t), NEW l \in 1..Len(t), t[k] = t[l]
                 PROVE  k = l
      BY <2>5 DEF IsInjective
    <3> DEFINE at(m) == IF m < n THEN m ELSE m + 1
    <3>1. at(k) \in 1..Len(s) /\ t[k] = s[at(k)]
      BY <2>1, <2>5
    <3>2. at(l) \in 1..Len(s) /\ t[l] = s[at(l)]
      BY <2>1, <2>5
    <3>3. at(k) = at(l)
      <4> HIDE DEF at
      <4>1. DOMAIN s = 1..Len(s)
        OBVIOUS
      <4> QED
        BY <3>1, <3>2, <4>1 DEF IsInjective
    <3> QED
      BY <2>1, <2>5, <3>3
  <2>7. ToSet(t) = ToSet(s) \ {i}
    <3>1. ASSUME NEW e \in ToSet(t) PROVE e \in ToSet(s) \ {i}
      BY <2>1, <2>5, <3>1 DEF ToSet, IsInjective
    <3>2. ASSUME NEW e \in ToSet(s) \ {i} PROVE e \in ToSet(t)
      <4>1. PICK m \in 1..Len(s) : s[m] = e
        BY <3>2 DEF ToSet
      <4>2. m # n
        BY <2>1, <3>2, <4>1
      <4> DEFINE k == IF m < n THEN m ELSE m - 1
      <4>3. k \in 1..Len(t) /\ t[k] = e
        BY <2>1, <2>5, <4>1, <4>2
      <4> QED
        BY <2>5, <4>3 DEF ToSet
    <3> QED
      BY <3>1, <3>2
  <2> QED
    BY <2>2, <2>5, <2>6, <2>7
<1> QED
  BY <1>1, <1>2

(* The waiting list with a new last member. *)
LEMMA AppendFacts ==
  ASSUME NEW s \in Seq(Instances), IsInjective(s), NEW i \in Instances, i \notin ToSet(s)
  PROVE  /\ Append(s, i) \in Seq(Instances) /\ IsInjective(Append(s, i))
         /\ ToSet(Append(s, i)) = ToSet(s) \cup {i}
<1>1. /\ Append(s, i) \in Seq(Instances) /\ Len(Append(s, i)) = Len(s) + 1
      /\ \A k \in 1..Len(s) : Append(s, i)[k] = s[k]
      /\ Append(s, i)[Len(s) + 1] = i
  BY AppendProperties
<1> DEFINE t == Append(s, i)
<1> HIDE DEF t
<1>2. IsInjective(t)
  BY <1>1 DEF t, IsInjective, ToSet
<1>3. ToSet(t) = ToSet(s) \cup {i}
  BY <1>1 DEF t, ToSet
<1> QED
  BY <1>1, <1>2, <1>3 DEF t

(* The waiting list once its first member has been taken. *)
LEMMA TailFacts ==
  ASSUME NEW s \in Seq(Instances), IsInjective(s), s # <<>>
  PROVE  /\ Head(s) \in ToSet(s) /\ Head(s) \in Instances
         /\ Tail(s) \in Seq(Instances) /\ IsInjective(Tail(s))
         /\ ToSet(Tail(s)) = ToSet(s) \ {Head(s)}
<1>1. /\ Tail(s) \in Seq(Instances) /\ Len(Tail(s)) = Len(s) - 1
      /\ \A k \in 1..Len(Tail(s)) : Tail(s)[k] = s[k + 1]
      /\ Head(s) = s[1] /\ Len(s) >= 1
  BY HeadTailProperties
<1> DEFINE t == Tail(s)
<1> HIDE DEF t
<1>2. IsInjective(t)
  BY <1>1 DEF t, IsInjective
<1>3. ToSet(t) = ToSet(s) \ {Head(s)}
  <2>1. ASSUME NEW e \in ToSet(t) PROVE e \in ToSet(s) \ {Head(s)}
    BY <1>1, <2>1 DEF t, ToSet, IsInjective
  <2>2. ASSUME NEW e \in ToSet(s) \ {Head(s)} PROVE e \in ToSet(t)
    <3>1. PICK m \in 1..Len(s) : s[m] = e
      BY <2>2 DEF ToSet
    <3>2. m - 1 \in 1..Len(t) /\ t[m - 1] = e
      BY <1>1, <2>2, <3>1 DEF t
    <3>3. DOMAIN t = 1..Len(t)
      BY <1>1 DEF t
    <3> QED
      BY <3>2, <3>3 DEF ToSet
  <2> QED
    BY <2>1, <2>2
<1> QED
  BY <1>1, <1>2, <1>3 DEF t, ToSet

-----------------------------------------------------------------------------
LEMMA CoordInitially == CoordInit => CoordInv
<1> SUFFICES ASSUME CoordInit PROVE CoordInv
  OBVIOUS
<1>1. /\ pending \in Seq(Instances) /\ IsInjective(pending) /\ ToSet(pending) = {}
  BY DEF CoordInit, IsInjective, ToSet
<1>2. NoEnqueue \in Calls /\ NoInstance \in Workflows /\ NoRelease \in Releases
  BY DEF NoEnqueue, NoInstance, NoRelease, Calls, Workflows, Releases
<1>3. lapses \in 0..MaxLapses
  BY CoordinatorAssumption DEF CoordInit
<1>4. /\ enqueue \in [Instances -> Calls] /\ instance \in [Instances -> Workflows]
      /\ release \in [Instances -> Releases] /\ saw \in [Instances -> SUBSET Instances]
      /\ answer \in [Instances -> Instances \cup {Nobody}]
  BY <1>2 DEF CoordInit
<1>5. CoordTypeOK
  BY <1>1, <1>3, <1>4 DEF CoordInit, CoordTypeOK
<1> QED
  BY <1>1, <1>5, CoordinatorAssumption
     DEF CoordInit, CoordInv, Order, Registered, Unstarted, KeyHeld, CoalescedSeesWrite,
         NoEnqueue, NoInstance, NoRelease, Working

(* What the two phases of an enqueue call do to the list that waits. *)
LEMMA EnqueuedFacts ==
  ASSUME CoordTypeOK, NEW i \in Instances, NEW supersedes \in BOOLEAN, Enqueued(i, supersedes)
  PROVE  /\ pending' \in Seq(Instances) /\ IsInjective(pending')
         /\ hashed' \subseteq ToSet(pending')
         /\ ToSet(pending') \subseteq ToSet(pending) \cup {i}
         /\ hashed' \subseteq hashed \cup {i}
<1>1. CASE supersedes
  <2>1. pending' = <<i>> /\ hashed' = {i}
    BY <1>1 DEF Enqueued
  <2>2. <<i>> \in Seq(Instances) /\ IsInjective(<<i>>) /\ ToSet(<<i>>) = {i}
    BY DEF IsInjective, ToSet
  <2> QED
    BY <2>1, <2>2
<1>2. CASE ~supersedes
  <2> DEFINE s == Without(pending, i)
  <2>1. /\ s \in Seq(Instances) /\ IsInjective(s) /\ ToSet(s) = ToSet(pending) \ {i}
    BY WithoutFacts DEF CoordTypeOK
  <2> HIDE DEF s
  <2>2. /\ Append(s, i) \in Seq(Instances) /\ IsInjective(Append(s, i))
        /\ ToSet(Append(s, i)) = ToSet(s) \cup {i}
    BY <2>1, AppendFacts
  <2>3. pending' = Append(s, i) /\ hashed' = hashed \cup {i}
    BY <1>2 DEF Enqueued, s
  <2> QED
    BY <2>1, <2>2, <2>3 DEF CoordTypeOK
<1> QED
  BY <1>1, <1>2

LEMMA EnqueueKept ==
  ASSUME CoordInv, NEW i \in Instances,
         EnqueueRead(i) \/ AskCandidate(i) \/ EnqueueAfterCandidate(i) \/ CallerDies(i)
  PROVE  CoordInv'
<1> USE DEF CoordInv
<1>1. /\ UNCHANGED <<instance, release, running, saw>>
      /\ "taken from a starter" \in breaches' <=> "taken from a starter" \in breaches
      /\ lapses' \in 0..MaxLapses
      /\ breaches' \subseteq {"taken from a starter", "killed a starter", "caller lost"}
  <2>1. UNCHANGED lapses \/ Lapse
    BY DEF EnqueueRead, AskCandidate, EnqueueAfterCandidate, CallerDies, Stale
  <2>2. UNCHANGED breaches \/ breaches' = breaches \cup {"caller lost"}
    BY DEF EnqueueRead, AskCandidate, EnqueueAfterCandidate, CallerDies
  <2>3. UNCHANGED <<instance, release, running, saw>>
    BY DEF EnqueueRead, AskCandidate, EnqueueAfterCandidate, CallerDies, gate
  <2> QED
    BY <2>1, <2>2, <2>3, LapseTyped DEF CoordTypeOK
<1>2. enqueue[i].at \in {"idle", "ask", "told", "kill"} /\ enqueue[i] \in Calls
  BY DEF EnqueueRead, AskCandidate, EnqueueAfterCandidate, CallerDies, Enqueuing, CoordTypeOK, Calls
<1>3. PICK e \in Calls :
        /\ enqueue' = [enqueue EXCEPT ![i] = e]
        /\ \/ e.at \in {"ask", "told", "lost"} /\ UNCHANGED <<pending, hashed, answer>>
              /\ (e.at \in {"ask", "told"} => enqueue[i].at \in {"idle", "ask", "told"})
           \/ /\ e.at = "kill" /\ UNCHANGED answer /\ enqueue[i].at \in {"idle", "told"}
              /\ \E supersedes \in BOOLEAN : Enqueued(i, supersedes)
           \/ /\ e.at = "answered" /\ UNCHANGED <<pending, hashed>>
              /\ \E c \in hashed : answer' = [answer EXCEPT ![i] = c]
  <2> USE DEF CoordTypeOK, NoEnqueue, Enqueuing, Calls
  <2>1. ASSUME NEW supersedes \in BOOLEAN, Enqueued(i, supersedes)
        PROVE  \E e \in Calls : e.at = "kill" /\ enqueue' = [enqueue EXCEPT ![i] = e]
    <3> DEFINE v == IF supersedes THEN ToSet(pending) \ {i} ELSE {}
    <3>1. v \subseteq Instances
      BY Known
    <3>2. enqueue' = [enqueue EXCEPT ![i] = [NoEnqueue EXCEPT !.at = "kill", !.victims = v]]
      BY <2>1 DEF Enqueued
    <3> HIDE DEF v
    <3>3. [NoEnqueue EXCEPT !.at = "kill", !.victims = v] \in Calls
      BY <3>1
    <3> QED
      BY <3>2, <3>3
  <2>2. CASE EnqueueRead(i)
    <3>1. PICK supersedes \in Replaces[i] :
            \/ Enqueued(i, supersedes)
            \/ \E c \in Twins(i) :
                 /\ enqueue' = [enqueue EXCEPT ![i] = [NoEnqueue EXCEPT !.at = "ask", !.candidate = c]]
                 /\ UNCHANGED gate
      BY <2>2 DEF EnqueueRead
    <3>2. supersedes \in BOOLEAN
      BY CoordinatorAssumption
    <3>3. CASE Enqueued(i, supersedes)
      BY <2>1, <2>2, <3>2, <3>3 DEF EnqueueRead
    <3>4. ASSUME NEW c \in Twins(i),
                 enqueue' = [enqueue EXCEPT ![i] = [NoEnqueue EXCEPT !.at = "ask", !.candidate = c]],
                 UNCHANGED gate
          PROVE  \E e \in Calls : /\ enqueue' = [enqueue EXCEPT ![i] = e] /\ e.at = "ask"
      <4>1. c \in Instances
        BY Known DEF Twins
      <4>2. [NoEnqueue EXCEPT !.at = "ask", !.candidate = c] \in Calls
        BY <4>1
      <4> QED
        BY <3>4, <4>2
    <3> QED
      BY <2>2, <3>1, <3>3, <3>4 DEF EnqueueRead, gate
  <2>3. CASE AskCandidate(i)
    <3>1. PICK verdict \in BOOLEAN : enqueue' = [enqueue EXCEPT ![i].at = "told", ![i].stale = verdict]
      BY <2>3 DEF AskCandidate
    <3>2. enqueue' = [enqueue EXCEPT ![i] = [enqueue[i] EXCEPT !.at = "told", !.stale = verdict]]
      BY <3>1
    <3>3. [enqueue[i] EXCEPT !.at = "told", !.stale = verdict] \in Calls
      BY <1>2
    <3>4. [enqueue[i] EXCEPT !.at = "told", !.stale = verdict].at = "told"
      BY <1>2
    <3> QED
      BY <2>3, <3>2, <3>3, <3>4 DEF AskCandidate, gate
  <2>4. CASE EnqueueAfterCandidate(i)
    <3>1. CASE Enqueued(i, TRUE) /\ UNCHANGED answer
      BY <2>1, <2>4, <3>1 DEF EnqueueAfterCandidate
    <3>2. CASE /\ enqueue' = [enqueue EXCEPT ![i].at = "answered"]
               /\ answer' = [answer EXCEPT ![i] = enqueue[i].candidate]
               /\ UNCHANGED gate /\ StillTwin(i)
      <4>1. enqueue[i].candidate \in hashed
        BY <3>2 DEF StillTwin, Twins
      <4>2. enqueue' = [enqueue EXCEPT ![i] = [enqueue[i] EXCEPT !.at = "answered"]]
        BY <3>2
      <4>3. /\ [enqueue[i] EXCEPT !.at = "answered"] \in Calls
            /\ [enqueue[i] EXCEPT !.at = "answered"].at = "answered"
        BY <1>2
      <4> QED
        BY <3>2, <4>1, <4>2, <4>3 DEF gate
    <3> QED
      BY <2>4, <3>1, <3>2 DEF EnqueueAfterCandidate
  <2>5. CASE CallerDies(i)
    <3>1. enqueue' = [enqueue EXCEPT ![i] = [NoEnqueue EXCEPT !.at = "lost"]]
      BY <2>5 DEF CallerDies
    <3>2. [NoEnqueue EXCEPT !.at = "lost"] \in Calls
      OBVIOUS
    <3> QED
      BY <2>5, <3>1, <3>2 DEF CallerDies, gate
  <2> QED
    BY <2>2, <2>3, <2>4, <2>5
<1>4. /\ enqueue' \in [Instances -> Calls] /\ enqueue'[i] = e
      /\ \A j \in Instances \ {i} : enqueue'[j] = enqueue[j]
  BY <1>3 DEF CoordTypeOK, Calls
<1>5. /\ pending' \in Seq(Instances) /\ IsInjective(pending') /\ hashed' \subseteq ToSet(pending')
      /\ ToSet(pending') \subseteq ToSet(pending) \cup {i}
      /\ hashed' \subseteq hashed \cup {i}
      /\ e.at # "kill" => UNCHANGED <<pending, hashed>>
  BY <1>3, EnqueuedFacts DEF CoordTypeOK
<1>6. /\ answer' \in [Instances -> Instances \cup {Nobody}]
      /\ \A j \in Instances \ {i} : answer'[j] = answer[j]
      /\ answer'[i] = answer[i] \/ (e.at = "answered" /\ answer'[i] \in hashed)
  <2>1. hashed \subseteq Instances
    BY Known
  <2> QED
    BY <1>3, <2>1 DEF CoordTypeOK
<1>7. CoordTypeOK'
  BY <1>1, <1>4, <1>5, <1>6 DEF CoordTypeOK, Calls
<1>8. Order'
  BY <1>1, <1>2, <1>3, <1>4, <1>6 DEF Order
<1>9. Registered'
  BY <1>1, <1>3, <1>4, <1>5 DEF Registered
<1>10. Unstarted'
  <2>1. e.at = "kill" => running # i /\ instance[i].at = "none"
    BY <1>2, <1>3 DEF Registered, Order
  <2> QED
    BY <1>1, <1>5, <2>1 DEF Unstarted, Started
<1>11. KeyHeld'
  BY <1>1 DEF KeyHeld, Working
<1>12. CoalescedSeesWrite'
  BY <1>1, <1>6 DEF CoalescedSeesWrite, Unstarted, Started
<1> QED
  BY <1>7, <1>8, <1>9, <1>10, <1>11, <1>12

(* A termination ends a handler and starts none.                           *)
LEMMA TerminateKept ==
  ASSUME CoordInv, NEW i \in Instances, Terminate(i)
  PROVE  CoordInv'
<1> USE DEF CoordInv
<1>1. PICK v \in enqueue[i].victims :
        /\ enqueue' = [enqueue EXCEPT ![i].victims = @ \ {v}]
        /\ \/ /\ ~Gone(v)
              /\ instance' = [instance EXCEPT ![v] = [NoInstance EXCEPT !.at = "killed"]]
           \/ UNCHANGED instance
        /\ UNCHANGED <<gate, release, answer, saw>>
  BY DEF Terminate
<1>2. /\ "taken from a starter" \in breaches' <=> "taken from a starter" \in breaches
      /\ breaches' \subseteq {"taken from a starter", "killed a starter", "caller lost"}
      /\ lapses' \in 0..MaxLapses
  <2>1. UNCHANGED lapses \/ Lapse
    BY DEF Terminate
  <2>2. UNCHANGED breaches \/ breaches' = breaches \cup {"killed a starter"}
    BY DEF Terminate
  <2> QED
    BY <2>1, <2>2, LapseTyped DEF CoordTypeOK
<1>3. /\ enqueue' \in [Instances -> Calls]
      /\ \A j \in Instances : enqueue'[j].at = enqueue[j].at
  <2>1. enqueue[i] \in Calls
    BY DEF CoordTypeOK, Calls
  <2>2. enqueue' = [enqueue EXCEPT ![i] = [enqueue[i] EXCEPT !.victims = @ \ {v}]]
    BY <1>1
  <2>3. /\ [enqueue[i] EXCEPT !.victims = @ \ {v}] \in Calls
        /\ [enqueue[i] EXCEPT !.victims = @ \ {v}].at = enqueue[i].at
    BY <2>1 DEF Calls
  <2> QED
    BY <2>2, <2>3 DEF CoordTypeOK, Calls
<1>4. /\ instance' \in [Instances -> Workflows]
      /\ \A j \in Instances : \/ instance'[j] = instance[j]
                              \/ instance'[j].at = "killed" /\ instance[j].at # "none"
  <2>1. /\ [NoInstance EXCEPT !.at = "killed"] \in Workflows
        /\ [NoInstance EXCEPT !.at = "killed"].at = "killed"
    BY DEF NoInstance, Workflows, Over
  <2> QED
    BY <1>1, <2>1 DEF CoordTypeOK, Gone
<1>5. CoordTypeOK'
  BY <1>1, <1>2, <1>3, <1>4 DEF CoordTypeOK, gate, Calls, Workflows
<1>6. Order'
  BY <1>1, <1>3, <1>4 DEF Order, Over
<1>7. Registered' /\ Unstarted'
  BY <1>1, <1>3, <1>4, Known DEF Registered, Unstarted, Started, gate
<1>8. KeyHeld'
  BY <1>1, <1>2, <1>4 DEF KeyHeld, Working, gate
<1>9. CoalescedSeesWrite'
  BY <1>1, <1>4 DEF CoalescedSeesWrite, CoordTypeOK
<1> QED
  BY <1>5, <1>6, <1>7, <1>8, <1>9

LEMMA CreateKept ==
  ASSUME CoordInv, NEW i \in Instances, Create(i)
  PROVE  CoordInv'
<1> USE DEF CoordInv
<1>1. /\ enqueue' = [enqueue EXCEPT ![i].at = "answered"]
      /\ instance' = [instance EXCEPT ![i].at = "turn"]
      /\ answer' = [answer EXCEPT ![i] = i]
      /\ UNCHANGED <<gate, release, saw, lapses, breaches>>
      /\ enqueue[i].at = "kill"
  BY DEF Create, Enqueuing
<1>2. /\ enqueue' \in [Instances -> Calls] /\ enqueue'[i].at = "answered"
      /\ instance' \in [Instances -> Workflows] /\ instance'[i].at = "turn"
      /\ answer' \in [Instances -> Instances \cup {Nobody}] /\ answer'[i] = i
      /\ \A j \in Instances \ {i} : /\ enqueue'[j] = enqueue[j] /\ instance'[j] = instance[j]
                                     /\ answer'[j] = answer[j]
  <2>1. enqueue[i] \in Calls /\ instance[i] \in Workflows
    BY DEF CoordTypeOK
  <2>2. /\ [enqueue[i] EXCEPT !.at = "answered"] \in Calls
        /\ [enqueue[i] EXCEPT !.at = "answered"].at = "answered"
    BY <2>1 DEF Calls
  <2>3. /\ [instance[i] EXCEPT !.at = "turn"] \in Workflows
        /\ [instance[i] EXCEPT !.at = "turn"].at = "turn"
    BY <2>1 DEF Workflows, Waiting
  <2>4. /\ enqueue' = [enqueue EXCEPT ![i] = [enqueue[i] EXCEPT !.at = "answered"]]
        /\ instance' = [instance EXCEPT ![i] = [instance[i] EXCEPT !.at = "turn"]]
    BY <1>1
  <2> QED
    BY <1>1, <2>2, <2>3, <2>4 DEF CoordTypeOK
<1>3. release[i].at = "none"
  BY <1>1 DEF Order, Over
<1>4. CoordTypeOK'
  BY <1>1, <1>2 DEF CoordTypeOK, gate, Calls, Workflows
<1>5. Order'
  BY <1>1, <1>2, <1>3 DEF Order
<1>6. Registered' /\ Unstarted'
  BY <1>1, <1>2, Known DEF Registered, Unstarted, Started, gate
<1>7. KeyHeld'
  BY <1>1, <1>2 DEF KeyHeld, Working, gate
<1>8. CoalescedSeesWrite'
  BY <1>1, <1>2 DEF CoalescedSeesWrite, CoordTypeOK
<1> QED
  BY <1>4, <1>5, <1>6, <1>7, <1>8

-----------------------------------------------------------------------------
(* A step of an instance that exists and is ahead of its release: it works *)
(* only as the holder, and has then seen every call made before.           *)
InstanceMoves(i) ==
  /\ UNCHANGED <<enqueue, release, answer>>
  /\ instance[i].at \in Waiting
  /\ instance' \in [Instances -> Workflows]
  /\ instance'[i].at \in Waiting \cup {"handler"}
  /\ \A j \in Instances \ {i} : instance'[j] = instance[j] /\ saw'[j] = saw[j]
  /\ IF instance'[i].at = "handler"
     THEN /\ running' = i /\ i \notin hashed'
          /\ saw'[i] = {j \in Instances : enqueue[j].at # "idle"}
     ELSE UNCHANGED <<running, saw, hashed>>
  /\ running' \in {running, i} /\ hashed' \subseteq hashed
  /\ ToSet(pending') \subseteq ToSet(pending) \cup {i}

LEMMA MovesKept ==
  ASSUME CoordInv, NEW i \in Instances, InstanceMoves(i)
  PROVE  Order' /\ Registered' /\ Unstarted' /\ CoalescedSeesWrite'
<1> USE DEF CoordInv
<1>1. instance[i].at \notin {"none"} \cup Started \cup Over /\ enqueue[i].at = "answered"
  BY DEF InstanceMoves, Waiting, Order, Started, Over
<1>2. Order'
  BY <1>1 DEF Order, InstanceMoves, Over, Started
<1>3. Registered'
  BY <1>1 DEF Registered, InstanceMoves
<1>4. hashed' \subseteq Instances
  BY Known DEF InstanceMoves
<1>5. Unstarted'
  <2>1. CASE instance'[i].at = "handler"
    BY <1>4, <2>1 DEF Unstarted, InstanceMoves
  <2>2. CASE instance'[i].at # "handler"
    BY <1>4, <2>2 DEF Unstarted, InstanceMoves, Waiting, Started
  <2> QED
    BY <2>1, <2>2
<1>6. CoalescedSeesWrite'
  <2> SUFFICES ASSUME NEW j \in Instances, answer'[j] # Nobody,
                      instance'[answer'[j]].at \in Started
               PROVE  j \in saw'[answer'[j]]
    BY DEF CoalescedSeesWrite, Started
  <2>1. answer'[j] = answer[j] /\ answer[j] \in Instances
    BY DEF InstanceMoves, CoordTypeOK
  <2>2. enqueue[j].at # "idle"
    BY <2>1 DEF Order
  <2>3. CASE answer[j] = i
    BY <2>1, <2>2, <2>3 DEF InstanceMoves, Waiting, Started
  <2>4. CASE answer[j] # i
    BY <2>1, <2>4 DEF InstanceMoves, CoalescedSeesWrite, Started
  <2> QED
    BY <2>3, <2>4
<1> QED
  BY <1>2, <1>3, <1>5, <1>6

(* The three ways to come to a handler leave the key with its instance.    *)
LEMMA GrantFacts ==
  ASSUME CoordTypeOK, NEW i \in Instances, GrantKey(i)
  PROVE  /\ running' = i /\ hashed' = hashed \ {i}
         /\ pending' \in Seq(Instances) /\ IsInjective(pending')
         /\ hashed' \subseteq ToSet(pending') /\ ToSet(pending') \subseteq ToSet(pending)
<1>1. /\ pending' \in Seq(Instances) /\ IsInjective(pending')
      /\ ToSet(pending') = ToSet(pending) \ {i}
  BY WithoutFacts DEF GrantKey, CoordTypeOK
<1> QED
  BY <1>1 DEF GrantKey, CoordTypeOK

LEMMA StartFacts ==
  ASSUME CoordTypeOK, NEW i \in Instances, Starts(i)
  PROVE  /\ instance' \in [Instances -> Workflows] /\ instance'[i].at = "handler"
         /\ saw' \in [Instances -> SUBSET Instances]
         /\ saw'[i] = {j \in Instances : enqueue[j].at # "idle"}
         /\ \A j \in Instances \ {i} : instance'[j] = instance[j] /\ saw'[j] = saw[j]
<1>1. instance' = [instance EXCEPT ![i] = [NoInstance EXCEPT !.at = "handler"]]
  BY DEF Starts, Goes
<1>2. [NoInstance EXCEPT !.at = "handler"] \in Workflows
  BY DEF NoInstance, Workflows
<1>3. saw' = [saw EXCEPT ![i] = {j \in Instances : enqueue[j].at # "idle"}]
  BY DEF Starts, Enqueuing
<1> QED
  BY <1>1, <1>2, <1>3 DEF CoordTypeOK, Workflows, NoInstance

LEMMA StartKept ==
  ASSUME CoordInv, NEW i \in Instances, Starts(i), instance[i].at \in Waiting,
         GrantKey(i) \/ (running = i /\ UNCHANGED gate),
         UNCHANGED <<enqueue, release, answer, lapses>>,
         \/ UNCHANGED breaches /\ (running \in {i, Nobody} \/ ~Working(running))
         \/ breaches' = breaches \cup {"taken from a starter"}
  PROVE  CoordInv'
<1> USE DEF CoordInv
<1>1. /\ running' = i /\ i \notin hashed' /\ hashed' \subseteq hashed
      /\ pending' \in Seq(Instances) /\ IsInjective(pending')
      /\ hashed' \subseteq ToSet(pending') /\ ToSet(pending') \subseteq ToSet(pending)
  BY GrantFacts DEF gate, CoordTypeOK, Unstarted
<1>2. /\ instance' \in [Instances -> Workflows] /\ instance'[i].at = "handler"
      /\ saw' \in [Instances -> SUBSET Instances]
      /\ saw'[i] = {j \in Instances : enqueue[j].at # "idle"}
      /\ \A j \in Instances \ {i} : instance'[j] = instance[j] /\ saw'[j] = saw[j]
  BY StartFacts
<1>3. InstanceMoves(i)
  BY <1>1, <1>2 DEF InstanceMoves
<1>4. CoordTypeOK'
  BY <1>1, <1>2 DEF CoordTypeOK, Workflows
<1>5. KeyHeld'
  <2> SUFFICES ASSUME "taken from a starter" \notin breaches', NEW j \in Instances, Working(j)'
               PROVE  j = i
    BY <1>1 DEF KeyHeld
  <2>1. /\ running \in {i, Nobody} \/ ~Working(running)
        /\ \A k \in Instances : Working(k) => running = k
    BY DEF KeyHeld
  <2>2. \A k \in Instances \ {i} : ~Working(k)
    BY <2>1, CoordinatorAssumption
  <2> QED
    BY <1>2, <2>2 DEF Working
<1> QED
  BY <1>3, <1>4, <1>5, MovesKept

(* Asking about the holder, parking and waking up start no handler. *)
LEMMA WaitKept ==
  ASSUME CoordInv, NEW i \in Instances, instance[i].at \in Waiting,
         NEW w \in Workflows, w.at \in Waiting, instance' = [instance EXCEPT ![i] = w],
         UNCHANGED <<running, hashed, enqueue, release, answer, saw, breaches>>,
         lapses' \in 0..MaxLapses,
         pending' = pending \/ (i \notin ToSet(pending) /\ pending' = Append(pending, i))
  PROVE  CoordInv'
<1> USE DEF CoordInv
<1>1. /\ instance' \in [Instances -> Workflows] /\ instance'[i] = w
      /\ \A j \in Instances \ {i} : instance'[j] = instance[j]
  BY DEF CoordTypeOK, Workflows
<1>2. /\ pending' \in Seq(Instances) /\ IsInjective(pending')
      /\ ToSet(pending) \subseteq ToSet(pending') /\ ToSet(pending') \subseteq ToSet(pending) \cup {i}
  <2>1. pending \in Seq(Instances) /\ IsInjective(pending)
    BY DEF CoordTypeOK
  <2>2. CASE pending' = pending
    BY <2>1, <2>2
  <2>3. CASE i \notin ToSet(pending) /\ pending' = Append(pending, i)
    <3> DEFINE t == Append(pending, i)
    <3>1. t \in Seq(Instances) /\ IsInjective(t) /\ ToSet(t) = ToSet(pending) \cup {i}
      BY <2>1, <2>3, AppendFacts
    <3> HIDE DEF t
    <3>2. pending' = t
      BY <2>3 DEF t
    <3> QED
      BY <3>1, <3>2
  <2> QED
    BY <2>2, <2>3
<1>3. w.at # "handler"
  BY DEF Waiting
<1>4. InstanceMoves(i)
  BY <1>1, <1>2, <1>3 DEF InstanceMoves
<1>5. CoordTypeOK'
  BY <1>1, <1>2 DEF CoordTypeOK, Workflows
<1>6. KeyHeld'
  BY <1>1, <1>3 DEF KeyHeld, Working
<1> QED
  BY <1>4, <1>5, <1>6, MovesKept

LEMMA AcquireKept ==
  ASSUME CoordInv, NEW i \in Instances,
         AcquireRead(i) \/ AskHolder(i) \/ AcquireAfterAsking(i) \/ Unpark(i)
  PROVE  CoordInv'
<1>1. /\ instance[i].at \in Waiting /\ instance[i] \in Workflows
      /\ lapses \in 0..MaxLapses /\ running \in Instances \cup {Nobody}
  BY DEF AcquireRead, AskHolder, AcquireAfterAsking, Unpark, Stands, Waiting, CoordInv,
         CoordTypeOK, Workflows
<1>2. CASE AcquireRead(i)
  <2>1. CASE running \in {i, Nobody} /\ Starts(i)
    BY <1>1, <1>2, <2>1, StartKept, CoordinatorAssumption DEF AcquireRead, Starts, Goes
  <2>2. CASE /\ UNCHANGED <<gate, saw>>
             /\ instance' = [instance EXCEPT ![i] = [at |-> "ask", holder |-> running, stale |-> FALSE]]
    <3>1. [at |-> "ask", holder |-> running, stale |-> FALSE] \in Workflows
      BY <1>1 DEF Workflows, Waiting
    <3> QED
      BY <1>1, <1>2, <2>2, <3>1, WaitKept DEF AcquireRead, Waiting, gate
  <2> QED
    BY <1>2, <2>1, <2>2 DEF AcquireRead
<1>3. CASE AskHolder(i)
  <2>1. PICK verdict \in BOOLEAN :
          /\ instance' = [instance EXCEPT ![i].at = "told", ![i].stale = verdict]
          /\ UNCHANGED lapses \/ Lapse
    BY <1>3 DEF AskHolder, Stale
  <2> DEFINE w == [instance[i] EXCEPT !.at = "told", !.stale = verdict]
  <2>2. instance' = [instance EXCEPT ![i] = w]
    BY <2>1
  <2>3. w \in Workflows /\ w.at \in Waiting
    BY <1>1 DEF Workflows, Waiting
  <2>4. lapses' \in 0..MaxLapses
    BY <1>1, <2>1, CoordinatorAssumption DEF Lapse
  <2> HIDE DEF w
  <2> QED
    BY <1>1, <1>3, <2>2, <2>3, <2>4, WaitKept DEF AskHolder, gate
<1>4. CASE AcquireAfterAsking(i)
  <2>1. CASE MayTake(i)
    <3>1. /\ Starts(i) /\ UNCHANGED <<enqueue, release, answer, lapses>>
          /\ IF running = i THEN UNCHANGED gate ELSE GrantKey(i)
      BY <1>4, <2>1 DEF AcquireAfterAsking
    <3>2. \/ UNCHANGED breaches /\ (running \in {i, Nobody} \/ ~Working(running))
          \/ breaches' = breaches \cup {"taken from a starter"}
      BY <1>4, <2>1 DEF AcquireAfterAsking, MayTake
    <3> QED
      BY <1>1, <3>1, <3>2, StartKept
  <2>2. CASE ~MayTake(i)
    <3>1. /\ Goes(i, "parked")
          /\ pending' = IF Contains(pending, i) THEN pending ELSE Append(pending, i)
          /\ UNCHANGED <<running, hashed, saw, breaches, enqueue, release, answer, lapses>>
      BY <1>4, <2>2 DEF AcquireAfterAsking
    <3> DEFINE w == [NoInstance EXCEPT !.at = "parked"]
    <3>2. w \in Workflows /\ w.at \in Waiting
      BY DEF NoInstance, Workflows, Waiting
    <3>3. instance' = [instance EXCEPT ![i] = w]
      BY <3>1 DEF Goes
    <3>4. ~Contains(pending, i) => i \notin ToSet(pending)
      BY DEF Contains, ToSet
    <3> HIDE DEF w
    <3> QED
      BY <1>1, <3>1, <3>2, <3>3, <3>4, WaitKept
  <2> QED
    BY <2>1, <2>2
<1>5. CASE Unpark(i)
  <2> DEFINE w == [NoInstance EXCEPT !.at = "turn"]
  <2>1. w \in Workflows /\ w.at \in Waiting
    BY DEF NoInstance, Workflows, Waiting
  <2>2. instance' = [instance EXCEPT ![i] = w]
    BY <1>5 DEF Unpark, Goes
  <2> HIDE DEF w
  <2> QED
    BY <1>1, <1>5, <2>1, <2>2, WaitKept DEF Unpark, gate
<1> QED
  BY <1>2, <1>3, <1>4, <1>5

-----------------------------------------------------------------------------
LEMMA HandlerEndsKept ==
  ASSUME CoordInv, NEW i \in Instances, HandlerEnds(i)
  PROVE  CoordInv'
<1> USE DEF CoordInv
<1>1. PICK step \in {"release", "ended"} :
        /\ instance' = [instance EXCEPT ![i] = [NoInstance EXCEPT !.at = step]]
        /\ \/ step = "release" /\ release' = [release EXCEPT ![i] = [at |-> "free", holder |-> i]]
           \/ UNCHANGED release
        /\ UNCHANGED lapses \/ Lapse
  BY DEF HandlerEnds, Goes
<1>2. UNCHANGED <<gate, enqueue, answer, saw, breaches>> /\ instance[i].at = "handler"
  BY DEF HandlerEnds, Stands
<1>3. /\ instance' \in [Instances -> Workflows] /\ instance'[i].at = step
      /\ \A j \in Instances \ {i} : instance'[j] = instance[j]
  <2>1. [NoInstance EXCEPT !.at = step] \in Workflows /\ [NoInstance EXCEPT !.at = step].at = step
    BY DEF NoInstance, Workflows, Over
  <2> QED
    BY <1>1, <2>1 DEF CoordTypeOK, Workflows
<1>4. /\ release' \in [Instances -> Releases]
      /\ \A j \in Instances \ {i} : release'[j] = release[j]
      /\ release'[i].at = "none" \/ (step = "release" /\ release'[i] = [at |-> "free", holder |-> i])
  <2>1. release[i].at = "none"
    BY <1>2 DEF Order, Over
  <2>2. [at |-> "free", holder |-> i] \in Releases
    BY DEF Releases
  <2> QED
    BY <1>1, <2>1, <2>2 DEF CoordTypeOK
<1>5. CoordTypeOK'
  <2>1. lapses' \in 0..MaxLapses
    BY <1>1, LapseTyped
  <2> QED
    BY <1>2, <1>3, <1>4, <2>1 DEF CoordTypeOK, gate, Workflows, Releases
<1>6. Order'
  BY <1>2, <1>3, <1>4 DEF Order, Over
<1>7. Registered'
  BY <1>2 DEF Registered, gate
<1>8. Unstarted'
  <2>1. i \notin hashed
    BY <1>2 DEF Unstarted, Started
  <2> QED
    BY <1>2, <1>3, <2>1, Known DEF Unstarted, gate
<1>9. KeyHeld'
  BY <1>2, <1>3 DEF KeyHeld, Working, gate
<1>10. CoalescedSeesWrite'
  BY <1>2, <1>3 DEF CoalescedSeesWrite, CoordTypeOK
<1> QED
  BY <1>5, <1>6, <1>7, <1>8, <1>9, <1>10

(* Who frees the key has no handler, or takes it from one that had started.*)
LEMMA ReleaseKept ==
  ASSUME CoordInv, NEW i \in Instances, ReleaseKey(i) \/ Wake(i)
  PROVE  CoordInv'
<1> USE DEF CoordInv
<1>1. /\ UNCHANGED <<enqueue, answer, saw>> /\ release[i].at # "none"
      /\ \/ instance' = instance
         \/ /\ instance[i].at = "release"
            /\ instance' = [instance EXCEPT ![i] = [NoInstance EXCEPT !.at = "ended"]]
  BY DEF ReleaseKey, Wake, Released, Stands, Goes
<1>2. /\ instance' \in [Instances -> Workflows]
      /\ \A j \in Instances :
           \/ instance'[j] = instance[j]
           \/ j = i /\ instance[i].at = "release" /\ instance'[i].at = "ended"
  <2>1. /\ [NoInstance EXCEPT !.at = "ended"] \in Workflows
        /\ [NoInstance EXCEPT !.at = "ended"].at = "ended"
    BY DEF NoInstance, Workflows, Over
  <2>2. CASE instance' = instance
    <3>1. instance' \in [Instances -> Workflows]
      BY <2>2 DEF CoordTypeOK
    <3>2. \A j \in Instances : instance'[j] = instance[j]
      BY <2>2
    <3> QED
      BY <3>1, <3>2
  <2>3. CASE /\ instance[i].at = "release"
             /\ instance' = [instance EXCEPT ![i] = [NoInstance EXCEPT !.at = "ended"]]
    <3> DEFINE w == [NoInstance EXCEPT !.at = "ended"]
    <3>1. w \in Workflows /\ w.at = "ended" /\ instance' = [instance EXCEPT ![i] = w]
      BY <2>1, <2>3
    <3> HIDE DEF w
    <3>2. instance' \in [Instances -> Workflows] /\ instance'[i] = w
      BY <3>1 DEF CoordTypeOK
    <3>3. \A j \in Instances : j # i => instance'[j] = instance[j]
      BY <3>1 DEF CoordTypeOK
    <3> QED
      BY <2>3, <3>1, <3>2, <3>3
  <2> QED
    BY <1>1, <2>2, <2>3
<1>3. /\ pending' \in Seq(Instances) /\ IsInjective(pending') /\ hashed' \subseteq ToSet(pending')
      /\ ToSet(pending') \subseteq ToSet(pending) /\ hashed' \subseteq hashed
      /\ \/ running' \in {running, Nobody} /\ UNCHANGED <<pending, hashed>>
         \/ running' \in ToSet(pending) /\ running' \notin hashed'
      /\ running' \in Instances \cup {Nobody}
  <2>1. CASE UNCHANGED <<pending, hashed>> /\ running' \in {running, Nobody}
    BY <2>1 DEF CoordTypeOK
  <2>2. CASE /\ pending # <<>> /\ running' = Head(pending)
             /\ pending' = Tail(pending) /\ hashed' = hashed \ {Head(pending)}
    BY <2>2, TailFacts DEF CoordTypeOK
  <2> QED
    BY <2>1, <2>2 DEF ReleaseKey, Wake, gate
<1>4. /\ release' \in [Instances -> Releases]
      /\ \A j \in Instances \ {i} : release'[j] = release[j]
      /\ release'[i].at # "free"
      /\ release'[i].at = "wake" => release'[i].holder \in Instances
  <2>1. CASE release' = [release EXCEPT ![i] = NoRelease]
    BY <2>1 DEF CoordTypeOK, Releases, NoRelease
  <2>2. CASE pending # <<>> /\ release' = [release EXCEPT ![i] = [at |-> "wake", holder |-> Head(pending)]]
    BY <2>2, TailFacts DEF CoordTypeOK, Releases
  <2>3. CASE release' = [release EXCEPT ![i].at = "unwoken"]
    BY <2>3 DEF CoordTypeOK, Releases
  <2> QED
    BY <2>1, <2>2, <2>3 DEF ReleaseKey, Wake
<1>5. /\ lapses' \in 0..MaxLapses
      /\ breaches' \subseteq {"taken from a starter", "killed a starter", "caller lost"}
      /\ breaches \subseteq breaches'
  <2>1. UNCHANGED lapses \/ Lapse
    BY DEF ReleaseKey, Wake, Stale
  <2>2. UNCHANGED breaches \/ breaches' = breaches \cup {"taken from a starter"}
    BY DEF ReleaseKey, Wake
  <2> QED
    BY <2>1, <2>2, LapseTyped DEF CoordTypeOK
<1>6. CoordTypeOK'
  BY <1>1, <1>2, <1>3, <1>4, <1>5 DEF CoordTypeOK, Workflows, Releases
<1>7. Order'
  <2>1. instance[i].at \in {"release"} \cup Over
    BY <1>1 DEF Order
  <2> QED
    BY <1>1, <1>2, <1>4, <2>1 DEF Order, Over
<1>8. Registered'
  BY <1>1, <1>3, CoordinatorAssumption DEF Registered
<1>9. Unstarted'
  <2>1. running' \notin hashed' /\ hashed' \subseteq Instances
    <3>1. Nobody \notin hashed'
      BY <1>3, Known, CoordinatorAssumption
    <3> QED
      BY <1>3, <3>1, Known DEF Unstarted
  <2>2. instance[i].at = "release" => i \notin hashed
    BY DEF Unstarted, Started
  <2> QED
    BY <1>2, <1>3, <2>1, <2>2 DEF Unstarted
<1>10. CoalescedSeesWrite'
  BY <1>1, <1>2 DEF CoalescedSeesWrite, CoordTypeOK
<1>11. KeyHeld'
  <2> SUFFICES ASSUME "taken from a starter" \notin breaches', NEW j \in Instances, Working(j)'
               PROVE  running' = j
    BY DEF KeyHeld
  <2>1. Working(j) /\ running = j
    BY <1>2, <1>5 DEF Working, KeyHeld
  <2>2. CASE UNCHANGED running
    BY <2>1, <2>2
  <2>3. CASE ReleaseKey(i) /\ running = release[i].holder
    <3>1. release[i].at # "free"
      <4>1. instance[i].at # "handler"
        BY <1>1 DEF Order, Over
      <4>2. release[i].at = "free" => release[i].holder = i
        BY DEF Order
      <4>3. instance[j].at = "handler"
        BY <2>1 DEF Working
      <4> QED
        BY <2>1, <2>3, <4>1, <4>2, <4>3
    <3>2. "taken from a starter" \in breaches'
      BY <2>1, <2>3, <3>1 DEF ReleaseKey
    <3> QED
      BY <3>2
  <2> QED
    BY <2>2, <2>3 DEF ReleaseKey, Wake, gate
<1> QED
  BY <1>6, <1>7, <1>8, <1>9, <1>10, <1>11

-----------------------------------------------------------------------------
(* The coordinator's record of who runs and who waits agrees with what the *)
(* instances do, and every answered call is ahead of the job that serves it.*)
THEOREM CoordInvariant == CoordSpec => []CoordInv
<1>1. ASSUME CoordInv, [CoordNext]_coordVars
      PROVE  CoordInv'
  <2>1. CASE UNCHANGED coordVars
    BY <1>1, <2>1 DEF coordVars, gate, CoordInv, CoordTypeOK, Order, Registered, Unstarted, KeyHeld,
                      CoalescedSeesWrite, Working
  <2> QED
    BY <1>1, <2>1, EnqueueKept, TerminateKept, CreateKept, AcquireKept, HandlerEndsKept, ReleaseKept
       DEF CoordNext, EnqueueStep, InstanceStep, ReleaseStep
<1> QED
  BY CoordInitially, <1>1, PTL DEF CoordSpec

(* The coordinator's lists and tables keep their types; in particular, no  *)
(* instance waits twice, and a kept hash belongs to one that waits.        *)
THEOREM CoordTypesAlways == CoordSpec => []CoordTypeOK
<1>1. CoordInv => CoordTypeOK
  BY DEF CoordInv
<1> QED
  BY <1>1, CoordInvariant, PTL

(* However calls, acquisitions, releases and terminations interleave, two  *)
(* handlers of one key run at once only after the key was taken from an    *)
(* instance that had started while another was asking about it.            *)
THEOREM OneHandlerPerKeyAlways == CoordSpec => []OneHandlerPerKey
<1>1. CoordInv => OneHandlerPerKey
  BY DEF CoordInv, KeyHeld, OneHandlerPerKey
<1> QED
  BY <1>1, CoordInvariant, PTL

(* A call that is answered with a job already waiting is served by a       *)
(* handler that starts after the call, whatever happens in between.        *)
THEOREM CoalescedSeesWriteAlways == CoordSpec => []CoalescedSeesWrite
<1>1. CoordInv => CoalescedSeesWrite
  BY DEF CoordInv
<1> QED
  BY <1>1, CoordInvariant, PTL
=============================================================================
