------------------------------ MODULE JobQueue ------------------------------
(***************************************************************************)
(* The PostgreSQL job queue of the kernel: rows of commerce_jobs, the      *)
(* callers that enqueue and cancel them, and the runners that claim, run   *)
(* and settle them, with the stale-job reaper each runner triggers.        *)
(*                                                                         *)
(* A runner's claim is one READ COMMITTED transaction of several           *)
(* statements; each statement is an action here, because other runners     *)
(* commit between two of them.  What the transaction writes becomes        *)
(* visible in CommitClaim only; the row locks it takes are visible at once.*)
(*                                                                         *)
(* Time is abstracted to the three questions the code asks of the clock:   *)
(* has a row's wait_until passed (waiting), has a processing row outlived  *)
(* the reap threshold (stale), is a runner's reaper due (due).             *)
(***************************************************************************)
EXTENDS Naturals, FiniteSets

CONSTANTS
  Jobs,            \* one element per enqueue() call
  Runners,         \* processes that call DrizzleJobsAdapter.execution.run
  NoRunner,        \* "not locked"
  NoKey,           \* concurrency_key IS NULL
  Org, Task, Key,  \* what each enqueue() call passes, by job
  Supersedes,      \* by job: options.supersedes ?? task.concurrency?.supersedes
  MaxAttempts,     \* by job: options.maxAttempts ?? task.retries?.attempts ?? 1
  KnownTasks,      \* tasks registered with the runners
  ExclusiveTasks,  \* tasks with concurrency and exclusive !== false
  Limit,           \* the batch limit of a run
  SlowHandlers,    \* may a handler outlive the reap threshold?
  MaxFaults        \* bound: crashes and failed reaper transactions explored

ASSUME ConstantsAssumption ==
  /\ IsFiniteSet(Jobs)
  /\ NoRunner \notin Runners
  /\ Supersedes \in [Jobs -> BOOLEAN]
  /\ MaxAttempts \in [Jobs -> Nat \ {0}]
  /\ Limit \in Nat \ {0}
  /\ SlowHandlers \in BOOLEAN
  /\ MaxFaults \in Nat

VARIABLES
  status,    \* the row: none (no enqueue yet), cleared (enqueue between its
             \* DELETE and its INSERT), dropped (enqueue died there),
             \* superseded (row deleted), or the status column
  attempts,  \* the row: attempts
  waiting,   \* the row: wait_until is in the future
  stale,     \* the row: processing_started_at is before the reaper's cutoff
  created,   \* the row: created_at, as the rank of its INSERT
  lock,      \* the claim transaction that holds the row lock, if any
  pc,        \* where each runner is in execution.run
  due,       \* the runner's reaper interval has elapsed
  busy,      \* rows the runner's transaction saw processing (processingKeys)
  cand,      \* candidates the runner has not looked at yet
  batch,     \* rows the runner's transaction has locked
  run,       \* jobs whose handler the runner is executing
  snap,      \* job.attempts as the claim read it, for each of them
  faults,    \* crashes and reaper failures so far
  reaped     \* history: jobs some reaper put back to pending

rowVars == <<status, attempts, waiting, stale, created>>
txVars  == <<lock, busy, cand, batch>>
vars    == <<status, attempts, waiting, stale, created, lock, pc, due, busy,
             cand, batch, run, snap, faults, reaped>>

Absent   == {"none", "cleared", "dropped", "superseded"}
Settled  == {"succeeded", "failed", "cancelled"}
Statuses == Absent \cup Settled \cup {"pending", "processing"}
Places   == {"idle", "reaping", "busyRead", "candRead", "locking", "executing"}

TypeOK ==
  /\ status   \in [Jobs -> Statuses]
  /\ attempts \in [Jobs -> Nat]
  /\ waiting  \in [Jobs -> BOOLEAN]
  /\ stale    \in [Jobs -> BOOLEAN]
  /\ created  \in [Jobs -> Nat]
  /\ lock     \in [Jobs -> Runners \cup {NoRunner}]
  /\ pc       \in [Runners -> Places]
  /\ due      \in [Runners -> BOOLEAN]
  /\ busy     \in [Runners -> SUBSET Jobs]
  /\ cand     \in [Runners -> SUBSET Jobs]
  /\ batch    \in [Runners -> SUBSET Jobs]
  /\ run      \in [Runners -> SUBSET Jobs]
  /\ snap     \in [Runners -> [Jobs -> Nat]]
  /\ faults   \in Nat
  /\ reaped   \in SUBSET Jobs

(* A row the concurrency slot of an exclusive task applies to. *)
Exclusive(j) ==
  /\ Key[j] # NoKey
  /\ Task[j] \in KnownTasks
  /\ Task[j] \in ExclusiveTasks

SameSlot(j, k) == Task[j] = Task[k] /\ Key[j] = Key[k]

(* Supersession also compares the organization. *)
SameScope(j, k) == SameSlot(j, k) /\ Org[j] = Org[k]

Init ==
  /\ status   = [j \in Jobs |-> "none"]
  /\ attempts = [j \in Jobs |-> 0]
  /\ waiting  = [j \in Jobs |-> FALSE]
  /\ stale    = [j \in Jobs |-> FALSE]
  /\ created  = [j \in Jobs |-> 0]
  /\ lock     = [j \in Jobs |-> NoRunner]
  /\ pc       = [r \in Runners |-> "idle"]
  /\ due      = [r \in Runners |-> TRUE]
  /\ busy     = [r \in Runners |-> {}]
  /\ cand     = [r \in Runners |-> {}]
  /\ batch    = [r \in Runners |-> {}]
  /\ run      = [r \in Runners |-> {}]
  /\ snap     = [r \in Runners |-> [j \in Jobs |-> 0]]
  /\ faults   = 0
  /\ reaped   = {}

-----------------------------------------------------------------------------
(* Callers: enqueue and cancel. *)

(* The rows the supersede DELETE of enqueue j matches. *)
Superseded(j) ==
  {k \in Jobs : status[k] = "pending" /\ SameScope(j, k)}

MustClear(j) == Supersedes[j] /\ Key[j] # NoKey

(* The DELETE waits for the row locks of claim transactions, then deletes  *)
(* what is still pending.                                                  *)
EnqueueClear(j) ==
  /\ status[j] = "none"
  /\ MustClear(j)
  /\ \A k \in Superseded(j) : lock[k] = NoRunner
  /\ status' = [k \in Jobs |-> IF k = j THEN "cleared"
                               ELSE IF k \in Superseded(j) THEN "superseded"
                               ELSE status[k]]
  /\ UNCHANGED <<attempts, waiting, stale, created, lock, pc, due, busy, cand,
                 batch, run, snap, faults, reaped>>

Inserted == {k \in Jobs : status[k] \notin {"none", "cleared", "dropped"}}

EnqueueInsert(j) ==
  /\ status[j] = IF MustClear(j) THEN "cleared" ELSE "none"
  /\ status'  = [status EXCEPT ![j] = "pending"]
  /\ created' = [created EXCEPT ![j] = Cardinality(Inserted) + 1]
  /\ \E delayed \in BOOLEAN : waiting' = [waiting EXCEPT ![j] = delayed]
  /\ UNCHANGED <<attempts, stale, lock, pc, due, busy, cand, batch, run, snap,
                 faults, reaped>>

(* The two statements are not one transaction: the caller can die between. *)
EnqueueDies(j) ==
  /\ status[j] = "cleared"
  /\ faults < MaxFaults
  /\ faults' = faults + 1
  /\ status' = [status EXCEPT ![j] = "dropped"]
  /\ UNCHANGED <<attempts, waiting, stale, created, lock, pc, due, busy, cand,
                 batch, run, snap, reaped>>

(* mutant: the UPDATE does not ask for status = 'pending' *)
CancelAnyRow(j) ==
  /\ status[j] \in {"pending", "processing"}
  /\ lock[j] = NoRunner
  /\ status' = [status EXCEPT ![j] = "cancelled"]
  /\ UNCHANGED <<attempts, waiting, stale, created, lock, pc, due, busy, cand,
                 batch, run, snap, faults, reaped>>

(* Cancelling anything but a pending row matches no row. *)
Cancel(j) ==
  /\ status[j] = "pending"
  /\ lock[j] = NoRunner
  /\ status' = [status EXCEPT ![j] = "cancelled"]
  /\ UNCHANGED <<attempts, waiting, stale, created, lock, pc, due, busy, cand,
                 batch, run, snap, faults, reaped>>

-----------------------------------------------------------------------------
(* A runner: the reaper, the claim transaction, the handlers. *)

StartRun(r) ==
  /\ pc[r] = "idle"
  /\ pc'  = [pc EXCEPT ![r] = IF due[r] THEN "reaping" ELSE "busyRead"]
  /\ due' = [due EXCEPT ![r] = FALSE]
  /\ UNCHANGED <<rowVars, txVars, run, snap, faults, reaped>>

NothingIsStuck == {}   \* mutant: the reaper matches no row

Stuck == {j \in Jobs : status[j] = "processing" /\ stale[j]}

(* mutant: attempts - 1 without the Math.max(..., 0) *)
ReapBelowZero(r) ==
  /\ pc[r] = "reaping"
  /\ status'   = [j \in Jobs |-> IF j \in Stuck THEN "pending" ELSE status[j]]
  /\ attempts' = [j \in Jobs |-> IF j \in Stuck THEN attempts[j] - 1
                                 ELSE attempts[j]]
  /\ stale'    = [j \in Jobs |-> stale[j] /\ j \notin Stuck]
  /\ reaped'   = reaped \cup Stuck
  /\ pc'       = [pc EXCEPT ![r] = "busyRead"]
  /\ UNCHANGED <<waiting, created, txVars, due, run, snap, faults>>

Reap(r) ==
  /\ pc[r] = "reaping"
  /\ status'   = [j \in Jobs |-> IF j \in Stuck THEN "pending" ELSE status[j]]
  /\ attempts' = [j \in Jobs |-> IF j \in Stuck /\ attempts[j] > 0
                                 THEN attempts[j] - 1 ELSE attempts[j]]
  /\ stale'    = [j \in Jobs |-> stale[j] /\ j \notin Stuck]
  /\ reaped'   = reaped \cup Stuck
  /\ pc'       = [pc EXCEPT ![r] = "busyRead"]
  /\ UNCHANGED <<waiting, created, txVars, due, run, snap, faults>>

(* The reaper's transaction fails; the error is logged, the run goes on. *)
ReapFails(r) ==
  /\ pc[r] = "reaping"
  /\ faults < MaxFaults
  /\ faults' = faults + 1
  /\ pc' = [pc EXCEPT ![r] = "busyRead"]
  /\ UNCHANGED <<rowVars, txVars, due, run, snap, reaped>>

ReadBusy(r) ==
  /\ pc[r] = "busyRead"
  /\ busy' = [busy EXCEPT ![r] =
                {j \in Jobs : status[j] = "processing" /\ Key[j] # NoKey}]
  /\ pc' = [pc EXCEPT ![r] = "candRead"]
  /\ UNCHANGED <<rowVars, lock, cand, batch, due, run, snap, faults, reaped>>

ReadCandidates(r) ==
  /\ pc[r] = "candRead"
  /\ cand' = [cand EXCEPT ![r] =
                {j \in Jobs : status[j] = "pending" /\ ~waiting[j]}]
  /\ pc' = [pc EXCEPT ![r] = "locking"]
  /\ UNCHANGED <<rowVars, lock, busy, batch, due, run, snap, faults, reaped>>

(* The claim loop looks at the candidates in order of created_at. *)
NextCandidate(r, j) ==
  /\ pc[r] = "locking"
  /\ Cardinality(batch[r]) < Limit
  /\ j \in cand[r]
  /\ \A k \in cand[r] : created[j] <= created[k]

SlotBusy(r, j) == Exclusive(j) /\ \E k \in busy[r] : SameSlot(j, k)

LockableIfPending(j) == status[j] = "pending"     \* mutant: no row lock
LockableIfUnlocked(j) == lock[j] = NoRunner       \* mutant: no status re-check

(* FOR UPDATE SKIP LOCKED, with the status re-checked under the lock. *)
Lockable(j) == status[j] = "pending" /\ lock[j] = NoRunner

LockCandidate(r, j) ==
  /\ NextCandidate(r, j)
  /\ ~SlotBusy(r, j)
  /\ Lockable(j)
  /\ lock'  = [lock EXCEPT ![j] = r]
  /\ batch' = [batch EXCEPT ![r] = @ \cup {j}]
  /\ cand'  = [cand EXCEPT ![r] = @ \ {j}]
  /\ UNCHANGED <<rowVars, pc, due, busy, run, snap, faults, reaped>>

PassOver(r, j) ==
  /\ NextCandidate(r, j)
  /\ SlotBusy(r, j) \/ ~Lockable(j)
  /\ cand' = [cand EXCEPT ![r] = @ \ {j}]
  /\ UNCHANGED <<rowVars, pc, lock, due, busy, batch, run, snap, faults, reaped>>

KeptAll(r) == batch[r]   \* mutant: no row of the batch is released

(* Of the locked rows of one exclusive slot only the oldest is kept. *)
Kept(r) ==
  {j \in batch[r] : Exclusive(j) =>
     \A k \in batch[r] : Exclusive(k) /\ SameSlot(j, k)
                            => created[j] <= created[k]}

CommitClaim(r) ==
  /\ pc[r] = "locking"
  /\ cand[r] = {} \/ Cardinality(batch[r]) >= Limit
  /\ status' = [j \in Jobs |-> IF j \in Kept(r) THEN "processing" ELSE status[j]]
  /\ stale'  = [j \in Jobs |-> stale[j] /\ j \notin Kept(r)]
  /\ lock'   = [j \in Jobs |-> IF lock[j] = r THEN NoRunner ELSE lock[j]]
  /\ run'    = [run EXCEPT ![r] = Kept(r)]
  /\ snap'   = [snap EXCEPT ![r] =
                  [j \in Jobs |-> IF j \in Kept(r) THEN attempts[j] ELSE 0]]
  /\ pc'     = [pc EXCEPT ![r] = "executing"]
  /\ busy'   = [busy EXCEPT ![r] = {}]
  /\ cand'   = [cand EXCEPT ![r] = {}]
  /\ batch'  = [batch EXCEPT ![r] = {}]
  /\ UNCHANGED <<attempts, waiting, created, due, faults, reaped>>

(* A handler of the batch ends; its row is written by id, whatever the row *)
(* holds by then.  A row a claim transaction has locked is waited for; a   *)
(* deleted row is not there to be written.                                 *)
Settle(r, j, s, n) ==
  /\ pc[r] = "executing"
  /\ j \in run[r]
  /\ lock[j] = NoRunner
  /\ run'  = [run EXCEPT ![r] = @ \ {j}]
  /\ snap' = [snap EXCEPT ![r][j] = 0]
  /\ status' = [status EXCEPT ![j] = IF @ = "superseded" THEN @ ELSE s]
  /\ attempts' = [attempts EXCEPT ![j] =
                    IF status[j] = "superseded" THEN @ ELSE n]
  /\ UNCHANGED <<created, pc, due, lock, busy, cand, batch, faults, reaped>>

UnknownTask(r, j) ==
  /\ Task[j] \notin KnownTasks
  /\ Settle(r, j, "failed", attempts[j])
  /\ UNCHANGED <<waiting, stale>>

HandlerSucceeds(r, j) ==
  /\ Task[j] \in KnownTasks
  /\ Settle(r, j, "succeeded", snap[r][j] + 1)
  /\ UNCHANGED <<waiting, stale>>

(* The last attempt failed, or any attempt with a TaskNonRetryableError. *)
HandlerFails(r, j) ==
  /\ Task[j] \in KnownTasks
  /\ Settle(r, j, "failed", snap[r][j] + 1)
  /\ UNCHANGED <<waiting, stale>>

(* mutant: attempts > maxAttempts instead of attempts >= maxAttempts *)
HandlerRetriesOnceMore(r, j) ==
  /\ Task[j] \in KnownTasks
  /\ snap[r][j] + 1 <= MaxAttempts[j]
  /\ Settle(r, j, "pending", snap[r][j] + 1)
  /\ waiting' = [waiting EXCEPT ![j] = status[j] # "superseded"]
  /\ stale'   = [stale EXCEPT ![j] = FALSE]

HandlerRetries(r, j) ==
  /\ Task[j] \in KnownTasks
  /\ snap[r][j] + 1 < MaxAttempts[j]
  /\ Settle(r, j, "pending", snap[r][j] + 1)
  /\ waiting' = [waiting EXCEPT ![j] = status[j] # "superseded"]
  /\ stale'   = [stale EXCEPT ![j] = FALSE]

EndRun(r) ==
  /\ pc[r] = "executing"
  /\ run[r] = {}
  /\ pc' = [pc EXCEPT ![r] = "idle"]
  /\ UNCHANGED <<rowVars, txVars, due, run, snap, faults, reaped>>

(* The process dies: an open claim transaction rolls back, the handlers    *)
(* stop, and the next process has a fresh adapter (lastStaleJobReaperAt 0).*)
Crash(r) ==
  /\ pc[r] # "idle"
  /\ faults < MaxFaults
  /\ faults' = faults + 1
  /\ pc'    = [pc EXCEPT ![r] = "idle"]
  /\ due'   = [due EXCEPT ![r] = TRUE]
  /\ lock'  = [j \in Jobs |-> IF lock[j] = r THEN NoRunner ELSE lock[j]]
  /\ busy'  = [busy EXCEPT ![r] = {}]
  /\ cand'  = [cand EXCEPT ![r] = {}]
  /\ batch' = [batch EXCEPT ![r] = {}]
  /\ run'   = [run EXCEPT ![r] = {}]
  /\ snap'  = [snap EXCEPT ![r] = [j \in Jobs |-> 0]]
  /\ UNCHANGED <<rowVars, reaped>>

-----------------------------------------------------------------------------
(* Time passes. *)

WaitOver(j) ==
  /\ waiting[j]
  /\ waiting' = [waiting EXCEPT ![j] = FALSE]
  /\ UNCHANGED <<status, attempts, stale, created, txVars, pc, due, run, snap,
                 faults, reaped>>

Running(j) == \E r \in Runners : j \in run[r]

GoStale(j) ==
  /\ status[j] = "processing"
  /\ ~stale[j]
  /\ SlowHandlers \/ ~Running(j)
  /\ stale' = [stale EXCEPT ![j] = TRUE]
  /\ UNCHANGED <<status, attempts, waiting, created, txVars, pc, due, run, snap,
                 faults, reaped>>

ReaperDue(r) ==
  /\ ~due[r]
  /\ due' = [due EXCEPT ![r] = TRUE]
  /\ UNCHANGED <<rowVars, txVars, pc, run, snap, faults, reaped>>

Next ==
  \/ \E j \in Jobs : \/ EnqueueClear(j)
                     \/ EnqueueInsert(j)
                     \/ EnqueueDies(j)
                     \/ Cancel(j)
                     \/ WaitOver(j)
                     \/ GoStale(j)
  \/ \E r \in Runners : \/ StartRun(r)
                        \/ Reap(r)
                        \/ ReapFails(r)
                        \/ ReadBusy(r)
                        \/ ReadCandidates(r)
                        \/ CommitClaim(r)
                        \/ EndRun(r)
                        \/ Crash(r)
                        \/ ReaperDue(r)
  \/ \E r \in Runners, j \in Jobs : \/ LockCandidate(r, j)
                                    \/ PassOver(r, j)
                                    \/ UnknownTask(r, j)
                                    \/ HandlerSucceeds(r, j)
                                    \/ HandlerFails(r, j)
                                    \/ HandlerRetries(r, j)

Spec == Init /\ [][Next]_vars

(* Runs are polled (autorun) or triggered by a cron; a runner that has     *)
(* started goes on unless it crashes, a handler ends, and time passes.     *)
RunnerStep(r) ==
  \/ StartRun(r) \/ Reap(r) \/ ReadBusy(r) \/ ReadCandidates(r)
  \/ CommitClaim(r) \/ EndRun(r)
  \/ \E j \in Jobs : LockCandidate(r, j) \/ PassOver(r, j)

HandlerEnds(r, j) ==
  \/ UnknownTask(r, j) \/ HandlerSucceeds(r, j)
  \/ HandlerFails(r, j) \/ HandlerRetries(r, j)

Fairness ==
  /\ \A r \in Runners : WF_vars(RunnerStep(r)) /\ WF_vars(ReaperDue(r))
  /\ \A r \in Runners, j \in Jobs : WF_vars(HandlerEnds(r, j))
  /\ \A j \in Jobs : WF_vars(WaitOver(j)) /\ WF_vars(GoStale(j))

FairSpec == Spec /\ Fairness

-----------------------------------------------------------------------------
(* Properties. *)

(* A job no reaper has touched is executed by at most one runner at a time, *)
(* and its row says processing while it is: the SKIP LOCKED claim of one    *)
(* runner never hands out a row another runner has claimed.                 *)
SoleExecutor ==
  \A j \in Jobs \ reaped, r \in Runners :
    j \in run[r] =>
      /\ status[j] = "processing"
      /\ \A q \in Runners : j \in run[q] => q = r

(* One claim never starts two jobs of the same exclusive slot, and of the   *)
(* jobs it locked for the slot it keeps the oldest.                         *)
OneJobPerSlot ==
  \A r \in Runners : \A j, k \in run[r] :
    Exclusive(j) /\ Exclusive(k) /\ SameSlot(j, k) => j = k

(* A row that can still be claimed has an attempt left, and no row counts   *)
(* more attempts than it may have, whatever late handlers and reapers       *)
(* write over each other.                                                   *)
RetryBudget ==
  \A j \in Jobs :
    /\ attempts[j] <= MaxAttempts[j]
    /\ status[j] \in {"pending", "processing"} => attempts[j] < MaxAttempts[j]

(* A job that has succeeded, failed or been cancelled stays so, unless it   *)
(* was reaped while a handler that outlived the threshold still ran it.     *)
TerminalIsFinal ==
  [][\A j \in Jobs : status[j] \in Settled /\ j \notin reaped
                        => status'[j] = status[j]]_vars

(* Two jobs of one exclusive slot are never executed at once, by whichever  *)
(* runners ("At most one running job per concurrency key").                 *)
ExclusivePerKey ==
  \A j, k \in Jobs :
    /\ Running(j) /\ Running(k)
    /\ Exclusive(j) /\ Exclusive(k) /\ SameSlot(j, k)
    => j = k

(* Every job that was inserted is eventually settled or superseded: a crash *)
(* of its runner, a busy slot or a back-off only delays it.                 *)
EveryJobSettles ==
  \A j \in Jobs : status[j] \in {"pending", "processing"}
                   ~> status[j] \in Settled \cup {"superseded"}

(* The row's status as DrizzleJobsAdapter.status() reports it. *)
InstanceStatus(s) ==
  CASE s \in {"none", "cleared", "dropped"} -> "unknown"
    [] s = "superseded" -> "removed"
    [] s = "pending"    -> "queued"
    [] s = "processing" -> "running"
    [] s = "succeeded"  -> "complete"
    [] s = "failed"     -> "errored"
    [] s = "cancelled"  -> "terminated"

Lifecycle ==
  INSTANCE JobLifecycle WITH state <- [j \in Jobs |-> InstanceStatus(status[j])]

(* If no handler outlives the reap threshold, what status() reports of each *)
(* job follows the lifecycle the engines promise.                           *)
ImplementsLifecycle == Lifecycle!Spec
=============================================================================
