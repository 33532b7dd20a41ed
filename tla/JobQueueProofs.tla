--------------------------- MODULE JobQueueProofs ---------------------------
(* Theorems about JobQueue, for any jobs, runners, limits and faults.       *)
EXTENDS JobQueue, FiniteSetTheorems, TLAPS

-----------------------------------------------------------------------------
(* Types. *)

LEMMA InsertedRank == TypeOK => Cardinality(Inserted) \in Nat
  BY ConstantsAssumption, FS_Subset, FS_CardinalityType DEF Inserted

(* Every state of the job queue is well typed: no interleaving of claims,  *)
(* late handlers and reapers writes a negative attempt count or a status   *)
(* outside the column's enumeration.                                       *)
THEOREM TypeCorrect == Spec => []TypeOK
<1>1. Init => TypeOK
  BY ConstantsAssumption DEF Init, TypeOK, Statuses, Absent, Settled, Places
<1>2. TypeOK /\ [Next]_vars => TypeOK'
  <2> SUFFICES ASSUME TypeOK, [Next]_vars
               PROVE  TypeOK'
    OBVIOUS
  <2> USE DEF TypeOK, Statuses, Absent, Settled, Places
  <2>1. ASSUME NEW j \in Jobs, EnqueueClear(j) PROVE TypeOK'
    BY <2>1 DEF EnqueueClear
  <2>2. ASSUME NEW j \in Jobs, EnqueueInsert(j) PROVE TypeOK'
    BY <2>2, InsertedRank DEF EnqueueInsert
  <2>3. ASSUME NEW j \in Jobs, EnqueueDies(j) PROVE TypeOK'
    BY <2>3 DEF EnqueueDies
  <2>4. ASSUME NEW j \in Jobs, Cancel(j) PROVE TypeOK'
    BY <2>4 DEF Cancel
  <2>5. ASSUME NEW j \in Jobs, WaitOver(j) PROVE TypeOK'
    BY <2>5 DEF WaitOver, txVars
  <2>6. ASSUME NEW j \in Jobs, GoStale(j) PROVE TypeOK'
    BY <2>6 DEF GoStale, txVars
  <2>7. ASSUME NEW r \in Runners, StartRun(r) PROVE TypeOK'
    BY <2>7 DEF StartRun, rowVars, txVars
  <2>8. ASSUME NEW r \in Runners, Reap(r) PROVE TypeOK'
    BY <2>8 DEF Reap, Stuck, txVars
  <2>9. ASSUME NEW r \in Runners, ReapFails(r) PROVE TypeOK'
    BY <2>9 DEF ReapFails, rowVars, txVars
  <2>10. ASSUME NEW r \in Runners, ReadBusy(r) PROVE TypeOK'
    BY <2>10 DEF ReadBusy, rowVars
  <2>11. ASSUME NEW r \in Runners, ReadCandidates(r) PROVE TypeOK'
    BY <2>11 DEF ReadCandidates, rowVars
  <2>12. ASSUME NEW r \in Runners, CommitClaim(r) PROVE TypeOK'
    BY <2>12 DEF CommitClaim, Kept
  <2>13. ASSUME NEW r \in Runners, EndRun(r) PROVE TypeOK'
    BY <2>13 DEF EndRun, rowVars, txVars
  <2>14. ASSUME NEW r \in Runners, Crash(r) PROVE TypeOK'
    BY <2>14 DEF Crash, rowVars
  <2>15. ASSUME NEW r \in Runners, ReaperDue(r) PROVE TypeOK'
    BY <2>15 DEF ReaperDue, rowVars, txVars
  <2>16. ASSUME NEW r \in Runners, NEW j \in Jobs, LockCandidate(r, j) PROVE TypeOK'
    BY <2>16 DEF LockCandidate, rowVars
  <2>17. ASSUME NEW r \in Runners, NEW j \in Jobs, PassOver(r, j) PROVE TypeOK'
    BY <2>17 DEF PassOver, rowVars
  <2>18. ASSUME NEW r \in Runners, NEW j \in Jobs, UnknownTask(r, j) PROVE TypeOK'
    BY <2>18 DEF UnknownTask, Settle
  <2>19. ASSUME NEW r \in Runners, NEW j \in Jobs, HandlerSucceeds(r, j) PROVE TypeOK'
    BY <2>19 DEF HandlerSucceeds, Settle
  <2>20. ASSUME NEW r \in Runners, NEW j \in Jobs, HandlerFails(r, j) PROVE TypeOK'
    BY <2>20 DEF HandlerFails, Settle
  <2>21. ASSUME NEW r \in Runners, NEW j \in Jobs, HandlerRetries(r, j) PROVE TypeOK'
    BY <2>21 DEF HandlerRetries, Settle
  <2>22. CASE UNCHANGED vars
    BY <2>22 DEF vars
  <2>23. QED
    BY <2>1, <2>2, <2>3, <2>4, <2>5, <2>6, <2>7, <2>8, <2>9, <2>10, <2>11,
       <2>12, <2>13, <2>14, <2>15, <2>16, <2>17, <2>18, <2>19, <2>20, <2>21,
       <2>22 DEF Next
<1>3. QED
  BY <1>1, <1>2, PTL DEF Spec

-----------------------------------------------------------------------------
(* Claims. *)

(* A locked row is in the batch of the transaction that locked it and is   *)
(* still pending; a runner locks only inside its claim and executes only   *)
(* after it.                                                               *)
LockInv ==
  /\ \A j \in Jobs, r \in Runners : lock[j] = r <=> j \in batch[r]
  /\ \A j \in Jobs : lock[j] # NoRunner => status[j] = "pending"
  /\ \A r \in Runners : pc[r] # "locking" => batch[r] = {}
  /\ \A r \in Runners : pc[r] # "executing" => run[r] = {}

ClaimInv == TypeOK /\ LockInv /\ SoleExecutor

LEMMA ClaimInvInit == Init => ClaimInv
  BY ConstantsAssumption
  DEF Init, ClaimInv, TypeOK, LockInv, SoleExecutor, Statuses, Absent, Settled,
      Places

LEMMA LockInvStep == ClaimInv /\ [Next]_vars /\ TypeOK' => LockInv'
<1> SUFFICES ASSUME ClaimInv, [Next]_vars, TypeOK'
             PROVE  LockInv'
  OBVIOUS
<1> USE ConstantsAssumption DEF ClaimInv, TypeOK, LockInv
<1>1. ASSUME NEW j \in Jobs, EnqueueClear(j) PROVE LockInv'
  BY <1>1 DEF EnqueueClear, Superseded
<1>2. ASSUME NEW j \in Jobs, EnqueueInsert(j) PROVE LockInv'
  BY <1>2 DEF EnqueueInsert
<1>3. ASSUME NEW j \in Jobs, EnqueueDies(j) PROVE LockInv'
  BY <1>3 DEF EnqueueDies
<1>4. ASSUME NEW j \in Jobs, Cancel(j) PROVE LockInv'
  BY <1>4 DEF Cancel
<1>5. ASSUME NEW j \in Jobs, WaitOver(j) \/ GoStale(j) PROVE LockInv'
  BY <1>5 DEF WaitOver, GoStale, txVars
<1>6. ASSUME NEW r \in Runners, StartRun(r) PROVE LockInv'
  BY <1>6 DEF StartRun, rowVars, txVars
<1>7. ASSUME NEW r \in Runners, Reap(r) PROVE LockInv'
  BY <1>7 DEF Reap, Stuck, txVars
<1>8. ASSUME NEW r \in Runners, ReapFails(r) PROVE LockInv'
  BY <1>8 DEF ReapFails, rowVars, txVars
<1>9. ASSUME NEW r \in Runners, ReadBusy(r) PROVE LockInv'
  BY <1>9 DEF ReadBusy, rowVars
<1>10. ASSUME NEW r \in Runners, ReadCandidates(r) PROVE LockInv'
  BY <1>10 DEF ReadCandidates, rowVars
<1>11. ASSUME NEW r \in Runners, CommitClaim(r) PROVE LockInv'
  <2>1. \A j \in Jobs : lock'[j] = (IF lock[j] = r THEN NoRunner ELSE lock[j])
    BY <1>11 DEF CommitClaim
  <2>2. Kept(r) \subseteq batch[r]
    BY DEF Kept
  <2>3. \A j \in Jobs, q \in Runners : lock'[j] = q <=> j \in batch'[q]
    BY <1>11, <2>1 DEF CommitClaim
  <2>4. \A j \in Jobs : lock'[j] # NoRunner => status'[j] = "pending"
    BY <1>11, <2>1, <2>2 DEF CommitClaim
  <2>5. /\ \A q \in Runners : pc'[q] # "locking" => batch'[q] = {}
        /\ \A q \in Runners : pc'[q] # "executing" => run'[q] = {}
    BY <1>11 DEF CommitClaim
  <2>6. QED
    BY <2>3, <2>4, <2>5
<1>12. ASSUME NEW r \in Runners, EndRun(r) PROVE LockInv'
  BY <1>12 DEF EndRun, rowVars, txVars
<1>13. ASSUME NEW r \in Runners, Crash(r) PROVE LockInv'
  BY <1>13 DEF Crash, rowVars
<1>14. ASSUME NEW r \in Runners, ReaperDue(r) PROVE LockInv'
  BY <1>14 DEF ReaperDue, rowVars, txVars
<1>15. ASSUME NEW r \in Runners, NEW j \in Jobs, LockCandidate(r, j)
       PROVE LockInv'
  BY <1>15 DEF LockCandidate, NextCandidate, Lockable, rowVars
<1>16. ASSUME NEW r \in Runners, NEW j \in Jobs, PassOver(r, j) PROVE LockInv'
  BY <1>16 DEF PassOver, rowVars
<1>17. ASSUME NEW r \in Runners, NEW j \in Jobs,
              \/ UnknownTask(r, j) \/ HandlerSucceeds(r, j)
              \/ HandlerFails(r, j) \/ HandlerRetries(r, j)
       PROVE LockInv'
  BY <1>17
  DEF UnknownTask, HandlerSucceeds, HandlerFails, HandlerRetries, Settle
<1>18. CASE UNCHANGED vars
  BY <1>18 DEF vars
<1>19. QED
  BY <1>1, <1>2, <1>3, <1>4, <1>5, <1>6, <1>7, <1>8, <1>9, <1>10, <1>11, <1>12,
     <1>13, <1>14, <1>15, <1>16, <1>17, <1>18 DEF Next

LEMMA SoleExecutorStep == ClaimInv /\ [Next]_vars /\ TypeOK' => SoleExecutor'
<1> SUFFICES ASSUME ClaimInv, [Next]_vars, TypeOK'
             PROVE  SoleExecutor'
  OBVIOUS
<1> USE ConstantsAssumption DEF ClaimInv, TypeOK, LockInv, SoleExecutor
<1>1. ASSUME NEW j \in Jobs, EnqueueClear(j) PROVE SoleExecutor'
  BY <1>1 DEF EnqueueClear, Superseded
<1>2. ASSUME NEW j \in Jobs, EnqueueInsert(j) PROVE SoleExecutor'
  BY <1>2 DEF EnqueueInsert
<1>3. ASSUME NEW j \in Jobs, EnqueueDies(j) PROVE SoleExecutor'
  BY <1>3 DEF EnqueueDies
<1>4. ASSUME NEW j \in Jobs, Cancel(j) PROVE SoleExecutor'
  BY <1>4 DEF Cancel
<1>5. ASSUME NEW j \in Jobs, WaitOver(j) \/ GoStale(j) PROVE SoleExecutor'
  BY <1>5 DEF WaitOver, GoStale, txVars
<1>6. ASSUME NEW r \in Runners,
             \/ StartRun(r) \/ ReapFails(r) \/ ReadBusy(r)
             \/ ReadCandidates(r) \/ EndRun(r) \/ ReaperDue(r)
      PROVE SoleExecutor'
  BY <1>6 DEF StartRun, ReapFails, ReadBusy, ReadCandidates, EndRun, ReaperDue,
              rowVars, txVars
<1>7. ASSUME NEW r \in Runners, Reap(r) PROVE SoleExecutor'
  BY <1>7 DEF Reap, Stuck, txVars
<1>8. ASSUME NEW r \in Runners, CommitClaim(r) PROVE SoleExecutor'
  \* What the batch keeps was locked, hence pending, hence executed by nobody.
  <2>1. \A j \in Kept(r) : j \in Jobs /\ status[j] = "pending"
    BY DEF Kept
  <2>2. \A j \in Kept(r) \ reaped, q \in Runners : j \notin run[q]
    BY <2>1
  <2>3. /\ run' = [run EXCEPT ![r] = Kept(r)]
        /\ reaped' = reaped
        /\ \A j \in Jobs : status'[j] = (IF j \in Kept(r) THEN "processing"
                                         ELSE status[j])
    BY <1>8 DEF CommitClaim
  <2>4. QED
    BY <2>2, <2>3
<1>9. ASSUME NEW r \in Runners, Crash(r) PROVE SoleExecutor'
  BY <1>9 DEF Crash, rowVars
<1>10. ASSUME NEW r \in Runners, NEW j \in Jobs,
              LockCandidate(r, j) \/ PassOver(r, j)
       PROVE SoleExecutor'
  BY <1>10 DEF LockCandidate, PassOver, rowVars
<1>11. ASSUME NEW r \in Runners, NEW j \in Jobs,
              \/ UnknownTask(r, j) \/ HandlerSucceeds(r, j)
              \/ HandlerFails(r, j) \/ HandlerRetries(r, j)
       PROVE SoleExecutor'
  \* The writer leaves run[r]; as the sole executor it is the last to leave.
  <2>1. /\ j \in run[r]
        /\ run' = [run EXCEPT ![r] = @ \ {j}]
        /\ reaped' = reaped
        /\ \A k \in Jobs : k # j => status'[k] = status[k]
    BY <1>11
    DEF UnknownTask, HandlerSucceeds, HandlerFails, HandlerRetries, Settle
  <2>2. \A q \in Runners : run'[q] = IF q = r THEN run[r] \ {j} ELSE run[q]
    BY <2>1
  <2>3. j \notin reaped => \A q \in Runners : j \notin run'[q]
    BY <2>1, <2>2
  <2>4. QED
    BY <2>1, <2>2, <2>3
<1>12. CASE UNCHANGED vars
  BY <1>12 DEF vars
<1>13. QED
  BY <1>1, <1>2, <1>3, <1>4, <1>5, <1>6, <1>7, <1>8, <1>9, <1>10, <1>11, <1>12
  DEF Next

(* No two runners ever execute the same unreaped job, and its row says     *)
(* processing while it runs: the SKIP LOCKED claim is safe for any number  *)
(* of runners and jobs.                                                    *)
THEOREM ClaimsAreSafe == Spec => []ClaimInv
<1>1. TypeOK /\ ClaimInv /\ [Next]_vars /\ TypeOK' => ClaimInv'
  BY LockInvStep, SoleExecutorStep DEF ClaimInv
<1>2. QED
  BY <1>1, ClaimInvInit, TypeCorrect, PTL DEF Spec

(* Stated for the invariant the runs check. *)
THEOREM SoleExecutorAlways == Spec => []SoleExecutor
<1>1. ClaimInv => SoleExecutor
  BY DEF ClaimInv
<1>2. QED
  BY <1>1, ClaimsAreSafe, PTL

(* A settled status survives every step unless a reaper once gave the job  *)
(* back while its first handler still ran.                                 *)
THEOREM TerminalIsFinalAlways == Spec => TerminalIsFinal
<1> DEFINE Final == \A j \in Jobs : status[j] \in Settled /\ j \notin reaped
                                      => status'[j] = status[j]
<1>1. ClaimInv /\ [Next]_vars => [Final]_vars
  <2> SUFFICES ASSUME ClaimInv, [Next]_vars, NEW k \in Jobs,
                      status[k] \in Settled, k \notin reaped
               PROVE  status'[k] = status[k]
    OBVIOUS
  <2> USE DEF ClaimInv, TypeOK, LockInv, SoleExecutor, Settled
  <2>1. ASSUME NEW j \in Jobs, \/ EnqueueClear(j) \/ EnqueueInsert(j)
                               \/ EnqueueDies(j) \/ Cancel(j)
                               \/ WaitOver(j) \/ GoStale(j)
        PROVE status'[k] = status[k]
    <3>1. CASE EnqueueClear(j)
      BY <3>1 DEF EnqueueClear, Superseded
    <3>2. CASE EnqueueInsert(j)
      BY <3>2 DEF EnqueueInsert
    <3>3. CASE EnqueueDies(j) \/ Cancel(j) \/ WaitOver(j) \/ GoStale(j)
      BY <3>3 DEF EnqueueDies, Cancel, WaitOver, GoStale
    <3>4. QED
      BY <2>1, <3>1, <3>2, <3>3
  <2>2. ASSUME NEW r \in Runners,
               \/ StartRun(r) \/ Reap(r) \/ ReapFails(r) \/ ReadBusy(r)
               \/ ReadCandidates(r) \/ EndRun(r) \/ Crash(r) \/ ReaperDue(r)
        PROVE status'[k] = status[k]
    BY <2>2 DEF StartRun, Reap, Stuck, ReapFails, ReadBusy, ReadCandidates,
                EndRun, Crash, ReaperDue, rowVars
  <2>3. ASSUME NEW r \in Runners, CommitClaim(r)
        PROVE status'[k] = status[k]
    <3>1. k \notin batch[r]
      <4>1. r # NoRunner
        BY ConstantsAssumption
      <4>2. status[k] # "pending"
        OBVIOUS
      <4>3. QED
        BY <4>1, <4>2
    <3>2. k \notin Kept(r)
      BY <3>1 DEF Kept
    <3>3. QED
      BY <2>3, <3>2 DEF CommitClaim
  <2>4. ASSUME NEW r \in Runners, NEW j \in Jobs,
               LockCandidate(r, j) \/ PassOver(r, j)
        PROVE status'[k] = status[k]
    BY <2>4 DEF LockCandidate, PassOver, rowVars
  <2>5. ASSUME NEW r \in Runners, NEW j \in Jobs,
               \/ UnknownTask(r, j) \/ HandlerSucceeds(r, j)
               \/ HandlerFails(r, j) \/ HandlerRetries(r, j)
        PROVE status'[k] = status[k]
    \* A row somebody executes says processing, so the row written is not k.
    BY <2>5
    DEF UnknownTask, HandlerSucceeds, HandlerFails, HandlerRetries, Settle
  <2>6. CASE UNCHANGED vars
    BY <2>6 DEF vars
  <2>7. QED
    BY <2>1, <2>2, <2>3, <2>4, <2>5, <2>6 DEF Next
<1>2. QED
  BY <1>1, ClaimsAreSafe, PTL DEF Spec, TerminalIsFinal

-----------------------------------------------------------------------------
(* Attempts. *)

(* The count a claim remembers for a running job, and the count of a row   *)
(* that may still be claimed, are below the budget.                        *)
BudgetInv ==
  /\ TypeOK
  /\ \A j \in Jobs : attempts[j] <= MaxAttempts[j]
  /\ \A j \in Jobs : status[j] \in {"none", "cleared", "pending", "processing"}
                       => attempts[j] < MaxAttempts[j]
  /\ \A r \in Runners : \A j \in run[r] : snap[r][j] < MaxAttempts[j]
  /\ \A r \in Runners : \A j \in batch[r] : attempts[j] < MaxAttempts[j]

LEMMA BudgetStep ==
  BudgetInv /\ ClaimInv /\ [Next]_vars /\ TypeOK' /\ ClaimInv' => BudgetInv'
<1> SUFFICES ASSUME BudgetInv, ClaimInv, [Next]_vars, TypeOK', ClaimInv'
             PROVE  BudgetInv'
  OBVIOUS
<1> DEFINE Below == \A r \in Runners : \A j \in run[r] : snap[r][j] < MaxAttempts[j]
           Rows == /\ \A j \in Jobs : attempts[j] <= MaxAttempts[j]
                   /\ \A j \in Jobs :
                        status[j] \in {"none", "cleared", "pending", "processing"}
                          => attempts[j] < MaxAttempts[j]
<1>0. Rows' /\ Below' => BudgetInv'
  \* A locked row is pending.
  BY ConstantsAssumption DEF BudgetInv, ClaimInv, LockInv, TypeOK
<1> USE ConstantsAssumption DEF BudgetInv, TypeOK
<1>1. ASSUME NEW j \in Jobs, \/ EnqueueClear(j) \/ EnqueueInsert(j)
                             \/ EnqueueDies(j) \/ Cancel(j)
                             \/ WaitOver(j) \/ GoStale(j)
      PROVE Rows' /\ Below'
  BY <1>1 DEF EnqueueClear, Superseded, EnqueueInsert, EnqueueDies, Cancel,
              WaitOver, GoStale
<1>2. ASSUME NEW r \in Runners,
             \/ StartRun(r) \/ ReapFails(r) \/ ReadBusy(r) \/ ReadCandidates(r)
             \/ EndRun(r) \/ ReaperDue(r)
      PROVE Rows' /\ Below'
  BY <1>2 DEF StartRun, ReapFails, ReadBusy, ReadCandidates, EndRun, ReaperDue,
              rowVars
<1>3. ASSUME NEW r \in Runners, Reap(r) PROVE Rows' /\ Below'
  BY <1>3 DEF Reap, Stuck
<1>4. ASSUME NEW r \in Runners, CommitClaim(r) PROVE Rows' /\ Below'
  <2>1. Kept(r) \subseteq batch[r]
    BY DEF Kept
  <2>2. Rows'
    BY <1>4, <2>1 DEF CommitClaim
  <2>3. Below'
    BY <1>4, <2>1 DEF CommitClaim
  <2>4. QED
    BY <2>2, <2>3
<1>5. ASSUME NEW r \in Runners, Crash(r) PROVE Rows' /\ Below'
  BY <1>5 DEF Crash, rowVars
<1>6. ASSUME NEW r \in Runners, NEW j \in Jobs,
             LockCandidate(r, j) \/ PassOver(r, j)
      PROVE Rows' /\ Below'
  BY <1>6 DEF LockCandidate, PassOver, rowVars
<1>7. ASSUME NEW r \in Runners, NEW j \in Jobs,
             \/ UnknownTask(r, j) \/ HandlerSucceeds(r, j)
             \/ HandlerFails(r, j) \/ HandlerRetries(r, j)
      PROVE Rows' /\ Below'
  <2>1. PICK s \in {"succeeded", "failed", "pending"}, n \in Nat :
          /\ Settle(r, j, s, n)
          /\ n <= MaxAttempts[j]
          /\ s = "pending" => n < MaxAttempts[j]
    <3>1. j \in run[r]
      BY <1>7
      DEF UnknownTask, HandlerSucceeds, HandlerFails, HandlerRetries, Settle
    <3>2. /\ snap[r][j] \in Nat
          /\ snap[r][j] < MaxAttempts[j]
          /\ MaxAttempts[j] \in Nat
          /\ attempts[j] \in Nat
          /\ attempts[j] <= MaxAttempts[j]
      BY <3>1
    <3>3. QED
      BY <1>7, <3>2 DEF UnknownTask, HandlerSucceeds, HandlerFails, HandlerRetries
  <2>2. /\ j \in run[r]
        /\ run' = [run EXCEPT ![r] = @ \ {j}]
        /\ snap' = [snap EXCEPT ![r][j] = 0]
        /\ status' = [status EXCEPT ![j] = IF @ = "superseded" THEN @ ELSE s]
        /\ attempts' = [attempts EXCEPT ![j] =
                          IF status[j] = "superseded" THEN @ ELSE n]
    BY <2>1 DEF Settle
  <2>3. Below'
    BY <2>2
  <2>4. Rows'
    BY <2>1, <2>2
  <2>5. QED
    BY <2>3, <2>4
<1>8. CASE UNCHANGED vars
  BY <1>8 DEF vars
<1>9. QED
  BY <1>0, <1>1, <1>2, <1>3, <1>4, <1>5, <1>6, <1>7, <1>8 DEF Next

(* No row ever counts more attempts than its budget, and a row that can    *)
(* still be claimed has one left.                                          *)
THEOREM RetryBudgetAlways == Spec => []RetryBudget
<1>1. Init => BudgetInv
  BY ConstantsAssumption
  DEF Init, BudgetInv, TypeOK, Statuses, Absent, Settled, Places
<1>2. BudgetInv => RetryBudget
  BY DEF BudgetInv, RetryBudget
<1>3. QED
  BY <1>1, <1>2, BudgetStep, TypeCorrect, ClaimsAreSafe, PTL DEF Spec

-----------------------------------------------------------------------------
(* Slots. *)

(* created_at orders the inserted rows: no two share a rank.  What a runner *)
(* executes has been inserted, and holds one job per exclusive slot.        *)
RankInv ==
  /\ ClaimInv
  /\ \A j \in Inserted : created[j] <= Cardinality(Inserted)
  /\ \A j, k \in Inserted : created[j] = created[k] => j = k
  /\ \A r \in Runners : run[r] \subseteq Inserted
  /\ OneJobPerSlot

LEMMA InsertRanks ==
  ASSUME RankInv, NEW j \in Jobs, EnqueueInsert(j), ClaimInv'
  PROVE  RankInv'
<1> USE ConstantsAssumption DEF RankInv, ClaimInv, TypeOK
<1>1. Inserted' = Inserted \cup {j} /\ j \notin Inserted
  BY DEF EnqueueInsert, Inserted
<1>2. IsFiniteSet(Inserted) /\ Cardinality(Inserted) \in Nat
  BY FS_Subset, FS_CardinalityType DEF Inserted
<1>3. Cardinality(Inserted') = Cardinality(Inserted) + 1
  BY <1>1, <1>2, FS_AddElement
<1>4. /\ created'[j] = Cardinality(Inserted) + 1
      /\ \A k \in Inserted : created'[k] = created[k]
  BY <1>1 DEF EnqueueInsert, Inserted
<1>5. /\ \A k \in Inserted' : created'[k] <= Cardinality(Inserted')
      /\ \A k, l \in Inserted' : created'[k] = created'[l] => k = l
  <2>1. \A k \in Inserted : created[k] \in Nat
    BY DEF Inserted
  <2>2. QED
    BY <1>1, <1>2, <1>3, <1>4, <2>1
<1>6. run' = run
  BY DEF EnqueueInsert
<1>7. OneJobPerSlot'
  BY <1>6 DEF OneJobPerSlot, Exclusive, SameSlot
<1>8. QED
  BY <1>1, <1>5, <1>6, <1>7

(* Every other step leaves the set of inserted rows and their ranks alone. *)
LEMMA OthersKeepRanks ==
  ASSUME RankInv, [Next]_vars, ~ \E j \in Jobs : EnqueueInsert(j)
  PROVE  Inserted' = Inserted /\ created' = created
<1> USE DEF RankInv, ClaimInv, TypeOK
<1> DEFINE Same == Inserted' = Inserted /\ created' = created
<1>1. ASSUME NEW j \in Jobs, \/ EnqueueClear(j) \/ EnqueueDies(j) \/ Cancel(j)
                             \/ WaitOver(j) \/ GoStale(j)
      PROVE Same
  BY <1>1 DEF EnqueueClear, Superseded, EnqueueDies, Cancel, WaitOver, GoStale,
              Inserted
<1>2. ASSUME NEW r \in Runners,
             \/ StartRun(r) \/ ReapFails(r) \/ ReadBusy(r) \/ ReadCandidates(r)
             \/ EndRun(r) \/ Crash(r) \/ ReaperDue(r)
      PROVE Same
  BY <1>2 DEF StartRun, ReapFails, ReadBusy, ReadCandidates, EndRun, Crash,
              ReaperDue, rowVars, Inserted
<1>3. ASSUME NEW r \in Runners, Reap(r) PROVE Same
  BY <1>3 DEF Reap, Stuck, Inserted
<1>4. ASSUME NEW r \in Runners, CommitClaim(r) PROVE Same
  <2>1. \A k \in Kept(r) : status[k] = "pending"
    BY ConstantsAssumption DEF Kept, LockInv
  <2>2. QED
    BY <1>4, <2>1 DEF CommitClaim, Inserted
<1>5. ASSUME NEW r \in Runners, NEW j \in Jobs,
             LockCandidate(r, j) \/ PassOver(r, j)
      PROVE Same
  BY <1>5 DEF LockCandidate, PassOver, rowVars, Inserted
<1>6. ASSUME NEW r \in Runners, NEW j \in Jobs,
             \/ UnknownTask(r, j) \/ HandlerSucceeds(r, j)
             \/ HandlerFails(r, j) \/ HandlerRetries(r, j)
      PROVE Same
  <2>1. /\ j \in Inserted
        /\ created' = created
        /\ \/ status' = status
           \/ \E s \in {"succeeded", "failed", "pending"} :
                status' = [status EXCEPT ![j] = s]
    BY <1>6
    DEF UnknownTask, HandlerSucceeds, HandlerFails, HandlerRetries, Settle
  <2>2. QED
    BY <2>1 DEF Inserted
<1>7. CASE UNCHANGED vars
  BY <1>7 DEF vars, Inserted
<1>8. QED
  BY <1>1, <1>2, <1>3, <1>4, <1>5, <1>6, <1>7 DEF Next

(* What a runner executes only shrinks, except when it commits a claim.    *)
LEMMA RunShrinks ==
  ASSUME RankInv, [Next]_vars, NEW q \in Runners, ~ CommitClaim(q)
  PROVE  run'[q] \subseteq run[q]
<1> USE DEF RankInv, ClaimInv, TypeOK
<1> DEFINE Shrinks == run'[q] \subseteq run[q]
<1>1. ASSUME NEW j \in Jobs, \/ EnqueueClear(j) \/ EnqueueInsert(j)
                             \/ EnqueueDies(j) \/ Cancel(j)
                             \/ WaitOver(j) \/ GoStale(j)
      PROVE Shrinks
  BY <1>1 DEF EnqueueClear, EnqueueInsert, EnqueueDies, Cancel, WaitOver, GoStale
<1>2. ASSUME NEW r \in Runners,
             \/ StartRun(r) \/ Reap(r) \/ ReapFails(r) \/ ReadBusy(r)
             \/ ReadCandidates(r) \/ EndRun(r) \/ Crash(r) \/ ReaperDue(r)
             \/ CommitClaim(r)
      PROVE Shrinks
  BY <1>2 DEF StartRun, Reap, ReapFails, ReadBusy, ReadCandidates, EndRun, Crash,
              ReaperDue, CommitClaim
<1>3. ASSUME NEW r \in Runners, NEW j \in Jobs,
             \/ LockCandidate(r, j) \/ PassOver(r, j)
             \/ UnknownTask(r, j) \/ HandlerSucceeds(r, j)
             \/ HandlerFails(r, j) \/ HandlerRetries(r, j)
      PROVE Shrinks
  <2>1. run' = run \/ run' = [run EXCEPT ![r] = @ \ {j}]
    BY <1>3 DEF LockCandidate, PassOver, UnknownTask, HandlerSucceeds,
                HandlerFails, HandlerRetries, Settle
  <2>2. QED
    BY <2>1
<1>4. CASE UNCHANGED vars
  BY <1>4 DEF vars
<1>5. QED
  BY <1>1, <1>2, <1>3, <1>4 DEF Next

LEMMA RankStep == RankInv /\ [Next]_vars /\ ClaimInv' => RankInv'
<1> SUFFICES ASSUME RankInv, [Next]_vars, ClaimInv'
             PROVE  RankInv'
  OBVIOUS
<1>1. CASE \E j \in Jobs : EnqueueInsert(j)
  BY <1>1, InsertRanks
<1>2. CASE ~ \E j \in Jobs : EnqueueInsert(j)
  <2>1. Inserted' = Inserted /\ created' = created
    BY <1>2, OthersKeepRanks
  <2>2. ASSUME NEW r \in Runners
        PROVE  /\ run'[r] \subseteq Inserted
               /\ \A j, k \in run'[r] :
                    Exclusive(j) /\ Exclusive(k) /\ SameSlot(j, k) => j = k
    <3>1. CASE ~ CommitClaim(r)
      BY <3>1, RunShrinks DEF RankInv, OneJobPerSlot
    <3>2. CASE CommitClaim(r)
      \* Two kept rows of a slot are both its oldest, and ranks are unique.
      <4>1. run'[r] = Kept(r)
        BY <3>2 DEF CommitClaim, RankInv, ClaimInv, TypeOK
      <4>2. batch[r] \subseteq Inserted
        <5>1. \A j \in batch[r] : lock[j] = r /\ j \in Jobs
          BY DEF RankInv, ClaimInv, LockInv, TypeOK
        <5>2. r # NoRunner
          BY ConstantsAssumption
        <5>3. QED
          BY <5>1, <5>2 DEF RankInv, ClaimInv, LockInv, Inserted
      <4>3. \A j \in Inserted : created[j] \in Nat
        BY DEF RankInv, ClaimInv, TypeOK, Inserted
      <4>4. ASSUME NEW j \in Kept(r), NEW k \in Kept(r),
                   Exclusive(j), Exclusive(k), SameSlot(j, k)
            PROVE  j = k
        <5>1. j \in batch[r] /\ k \in batch[r] /\ SameSlot(k, j)
          BY <4>4 DEF Kept, SameSlot
        <5>2. created[j] <= created[k] /\ created[k] <= created[j]
          BY <4>4, <5>1 DEF Kept
        <5>3. QED
          BY <4>2, <4>3, <5>1, <5>2 DEF RankInv
      <4>5. QED
        BY <4>1, <4>2, <4>4 DEF Kept
    <3>3. QED
      BY <3>1, <3>2
  <2>3. OneJobPerSlot'
    BY <2>2 DEF OneJobPerSlot, Exclusive, SameSlot
  <2>4. QED
    BY <2>1, <2>2, <2>3 DEF RankInv
<1>3. QED
  BY <1>1, <1>2

(* A claim never starts two jobs of one exclusive slot, whatever the limit *)
(* and however many jobs share the slot.                                   *)
THEOREM OneJobPerSlotAlways == Spec => []OneJobPerSlot
<1>1. Init => RankInv
  <2>1. Init => Inserted = {}
    BY DEF Init, Inserted
  <2>2. QED
    BY <2>1, ClaimInvInit DEF Init, RankInv, OneJobPerSlot
<1>2. RankInv => OneJobPerSlot
  BY DEF RankInv
<1>3. QED
  BY <1>1, <1>2, RankStep, ClaimsAreSafe, PTL DEF Spec

-----------------------------------------------------------------------------
(* The lifecycle the engines promise, where no handler outlives the reap   *)
(* threshold: the row of a job that runs says so, is fresh, and is written *)
(* by its one runner, so that no late handler writes over another's row.   *)

Prompt ==
  \A r \in Runners : \A j \in run[r] :
    /\ status[j] = "processing" /\ ~stale[j]
    /\ \A q \in Runners : j \in run[q] => q = r

HandlerStep(r, j) ==
  \/ UnknownTask(r, j) \/ HandlerSucceeds(r, j)
  \/ HandlerFails(r, j) \/ HandlerRetries(r, j)

(* What one statement may make of a row. *)
RowMoves ==
  { <<"none", "cleared">>,         <<"none", "pending">>,
    <<"cleared", "pending">>,      <<"cleared", "dropped">>,
    <<"pending", "superseded">>,   <<"pending", "cancelled">>,
    <<"pending", "processing">>,   <<"processing", "pending">>,
    <<"processing", "succeeded">>, <<"processing", "failed">> }

RowsMove == \A j \in Jobs : status'[j] = status[j] \/ <<status[j], status'[j]>> \in RowMoves

LEMMA PromptStep ==
  ASSUME ~SlowHandlers, ClaimInv, Prompt, [Next]_vars
  PROVE  Prompt'
<1> USE ConstantsAssumption DEF ClaimInv, TypeOK, LockInv, Prompt
<1>1. ASSUME NEW j \in Jobs,
             \/ EnqueueClear(j) \/ EnqueueInsert(j) \/ EnqueueDies(j)
             \/ Cancel(j) \/ WaitOver(j) \/ GoStale(j)
      PROVE Prompt'
  <2>1. UNCHANGED run /\ \A k \in Jobs : Running(k) => status'[k] = status[k] /\ ~stale'[k]
    BY <1>1 DEF EnqueueClear, Superseded, EnqueueInsert, EnqueueDies, Cancel, WaitOver,
                GoStale, MustClear, Running
  <2> QED
    BY <2>1 DEF Running
<1>2. ASSUME NEW r \in Runners,
             \/ StartRun(r) \/ ReapFails(r) \/ ReadBusy(r)
             \/ ReadCandidates(r) \/ EndRun(r) \/ ReaperDue(r)
      PROVE Prompt'
  BY <1>2 DEF StartRun, ReapFails, ReadBusy, ReadCandidates, EndRun, ReaperDue,
              rowVars, txVars
<1>3. ASSUME NEW r \in Runners, Reap(r) PROVE Prompt'
  BY <1>3 DEF Reap, Stuck, txVars
<1>4. ASSUME NEW r \in Runners, CommitClaim(r) PROVE Prompt'
  <2>1. \A j \in Kept(r) : j \in Jobs /\ status[j] = "pending"
    BY DEF Kept
  <2>2. \A j \in Kept(r), q \in Runners : j \notin run[q]
    BY <2>1
  <2>3. /\ run' = [run EXCEPT ![r] = Kept(r)]
        /\ \A j \in Jobs : status'[j] = IF j \in Kept(r) THEN "processing" ELSE status[j]
        /\ \A j \in Jobs : stale'[j] = (stale[j] /\ j \notin Kept(r))
    BY <1>4 DEF CommitClaim
  <2>4. \A q \in Runners : run'[q] = IF q = r THEN Kept(r) ELSE run[q]
    BY <2>3
  <2> QED
    BY <2>1, <2>2, <2>3, <2>4
<1>5. ASSUME NEW r \in Runners, Crash(r) PROVE Prompt'
  BY <1>5 DEF Crash, rowVars
<1>6. ASSUME NEW r \in Runners, NEW j \in Jobs, LockCandidate(r, j) \/ PassOver(r, j)
      PROVE Prompt'
  BY <1>6 DEF LockCandidate, PassOver, rowVars
<1>7. ASSUME NEW r \in Runners, NEW j \in Jobs, HandlerStep(r, j)
      PROVE Prompt'
  \* The writer leaves run[r], and j runs nowhere else.
  <2>1. /\ j \in run[r]
        /\ run' = [run EXCEPT ![r] = @ \ {j}]
        /\ \A k \in Jobs : k # j => status'[k] = status[k] /\ stale'[k] = stale[k]
    BY <1>7
    DEF HandlerStep, UnknownTask, HandlerSucceeds, HandlerFails, HandlerRetries, Settle
  <2>2. \A q \in Runners : run'[q] = IF q = r THEN run[r] \ {j} ELSE run[q]
    BY <2>1
  <2>3. \A q \in Runners : j \notin run'[q]
    BY <2>1, <2>2
  <2> QED
    BY <2>1, <2>2, <2>3
<1>8. CASE UNCHANGED vars
  BY <1>8 DEF vars
<1> QED
  BY <1>1, <1>2, <1>3, <1>4, <1>5, <1>6, <1>7, <1>8 DEF Next, HandlerStep

LEMMA RowsMoveStep ==
  ASSUME ClaimInv, Prompt, [Next]_vars
  PROVE  RowsMove
<1> USE ConstantsAssumption DEF ClaimInv, TypeOK, LockInv, RowsMove, RowMoves
<1>1. ASSUME NEW j \in Jobs, EnqueueClear(j) PROVE RowsMove
  BY <1>1 DEF EnqueueClear, Superseded
<1>2. ASSUME NEW j \in Jobs,
             \/ EnqueueInsert(j) \/ EnqueueDies(j) \/ Cancel(j) \/ WaitOver(j) \/ GoStale(j)
      PROVE RowsMove
  BY <1>2 DEF EnqueueInsert, EnqueueDies, Cancel, WaitOver, GoStale
<1>3. ASSUME NEW r \in Runners,
             \/ StartRun(r) \/ ReapFails(r) \/ ReadBusy(r) \/ ReadCandidates(r)
             \/ EndRun(r) \/ ReaperDue(r) \/ Crash(r)
             \/ \E j \in Jobs : LockCandidate(r, j) \/ PassOver(r, j)
      PROVE RowsMove
  BY <1>3 DEF StartRun, ReapFails, ReadBusy, ReadCandidates, EndRun, ReaperDue, Crash,
              LockCandidate, PassOver, rowVars
<1>4. ASSUME NEW r \in Runners, Reap(r) PROVE RowsMove
  BY <1>4 DEF Reap, Stuck
<1>5. ASSUME NEW r \in Runners, CommitClaim(r) PROVE RowsMove
  <2>1. \A j \in Kept(r) : j \in Jobs /\ status[j] = "pending"
    BY DEF Kept
  <2> QED
    BY <1>5, <2>1 DEF CommitClaim
<1>6. ASSUME NEW r \in Runners, NEW j \in Jobs, HandlerStep(r, j)
      PROVE RowsMove
  <2>1. status[j] = "processing"
    BY <1>6
    DEF HandlerStep, UnknownTask, HandlerSucceeds, HandlerFails, HandlerRetries, Settle,
        Prompt
  <2> QED
    BY <1>6, <2>1
    DEF HandlerStep, UnknownTask, HandlerSucceeds, HandlerFails, HandlerRetries, Settle
<1>7. CASE UNCHANGED vars
  BY <1>7 DEF vars
<1> QED
  BY <1>1, <1>2, <1>3, <1>4, <1>5, <1>6, <1>7 DEF Next, HandlerStep

(* What status() reports moves as a job of any engine does. *)
LEMMA InstanceMoves ==
  /\ \A s \in Statuses :
       InstanceStatus(s) \in {"unknown", "queued", "running", "complete", "errored",
                             "terminated", "removed"}
  /\ \A s, t \in Statuses :
       <<s, t>> \in RowMoves =>
         InstanceStatus(s) = InstanceStatus(t)
           \/ <<InstanceStatus(s), InstanceStatus(t)>> \in Lifecycle!Legal
BY DEF InstanceStatus, Statuses, Absent, Settled, RowMoves, Lifecycle!Legal

(* If no handler outlives the reap threshold, then for any jobs, runners,  *)
(* crashes, back-offs and supersessions, what status() reports of a job    *)
(* follows the lifecycle every engine promises: the queue implements it.   *)
THEOREM ImplementsLifecycleAlways ==
  ~SlowHandlers => (Spec => ImplementsLifecycle)
<1> SUFFICES ASSUME ~SlowHandlers PROVE Spec => ImplementsLifecycle
  OBVIOUS
<1> DEFINE reported == [j \in Jobs |-> InstanceStatus(status[j])]
<1>1. Init => Lifecycle!Init
  BY DEF Init, Lifecycle!Init, InstanceStatus
<1>2. ClaimInv /\ ClaimInv' /\ Prompt /\ [Next]_vars => [Lifecycle!Next]_reported
  <2> SUFFICES ASSUME ClaimInv, ClaimInv', Prompt, [Next]_vars PROVE Lifecycle!Next
    OBVIOUS
  <2>1. RowsMove
    BY RowsMoveStep
  <2>2. status \in [Jobs -> Statuses] /\ status' \in [Jobs -> Statuses]
    BY DEF ClaimInv, TypeOK
  <2> QED
    BY <2>1, <2>2, InstanceMoves DEF Lifecycle!Next, RowsMove
<1>3. Init => Prompt
  BY DEF Init, Prompt
<1>4. ClaimInv /\ Prompt /\ [Next]_vars => Prompt'
  BY PromptStep
<1> QED
  BY <1>1, <1>2, <1>3, <1>4, ClaimsAreSafe, PTL DEF Spec, ImplementsLifecycle, Lifecycle!Spec
=============================================================================
