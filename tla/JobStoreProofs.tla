--------------------------- MODULE JobStoreProofs ---------------------------
(***************************************************************************)
(* Type correctness and the main safety invariants of the job store, for   *)
(* every job graph, runner set and limit.                                  *)
(***************************************************************************)
EXTENDS JobStore, FiniteSetTheorems, TLAPS

-----------------------------------------------------------------------------
(* The re-evaluation of dependents and runs                                *)

\* What RecomputeDependents returns, row by row.
LEMMA RecomputeForm ==
    ASSUME NEW st \in [Jobs -> JobStatus], NEW S \in SUBSET Jobs,
           NEW after \in RecomputeDependents(st, S)
    PROVE  /\ after \in [Jobs -> JobStatus]
           /\ \A j \in Jobs : j \notin Dependents(S) => after[j] = st[j]
           /\ \A j \in Dependents(S) :
                 after[j] \in {RecomputeDependent(st, st, j),
                               RecomputeDependent(st, after, j)}
<1>1. PICK new \in [Dependents(S) -> JobStatus] :
        after = [j \in Jobs |-> IF j \in Dependents(S) THEN new[j] ELSE st[j]]
  BY DEF RecomputeDependents
<1>2. \A j \in Dependents(S) :
         after[j] \in {RecomputeDependent(st, st, j), RecomputeDependent(st, after, j)}
  BY DEF RecomputeDependents
<1>3. QED
  BY <1>1, <1>2

\* A dependent that is not running keeps its status or, if it was waiting, is
\* skipped or blocked.
LEMMA RecomputeRow ==
    ASSUME NEW st \in [Jobs -> JobStatus], NEW S \in SUBSET Jobs,
           NEW after \in RecomputeDependents(st, S), NEW j \in Jobs,
           j \in Dependents(S) => st[j] # "running"
    PROVE  after[j] = st[j] \/ (st[j] \in Pending /\ after[j] \in {"skipped", "blocked"})
<1>1. CASE j \notin Dependents(S)
  BY <1>1, RecomputeForm
<1>2. CASE j \in Dependents(S) /\ st[j] # "running"
  BY <1>2, RecomputeForm DEF RecomputeDependent, PayloadStatus
<1>3. QED
  BY <1>1, <1>2

\* A recomputed run has a status of a run that exists.
LEMMA RecomputeRunType ==
    ASSUME NEW rs \in [Runs -> JobStatus], NEW st \in [Jobs -> JobStatus], NEW run \in Runs
    PROVE  RecomputeRun(rs, st, run) \in JobStatus \ {"none"}
BY DEF RecomputeRun, AggregateStatus, JobStatus, Pending, Terminal

\* What a transaction that moved some jobs leaves behind, when none of their
\* dependents was running.
LEMMA PropagateEffect ==
    ASSUME NEW st \in [Jobs -> JobStatus], NEW moved \in SUBSET Jobs,
           GraphAssumption, runStatus \in [Runs -> JobStatus],
           \A j \in Dependents(moved) : st[j] # "running",
           Propagate(st, moved)
    PROVE  /\ status' \in [Jobs -> JobStatus]
           /\ runStatus' \in [Runs -> JobStatus]
           /\ \A j \in Jobs : \/ status'[j] = st[j]
                              \/ st[j] \in Pending /\ status'[j] \in {"skipped", "blocked"}
           /\ \A run \in Runs : \/ runStatus'[run] = runStatus[run]
                                \/ /\ runStatus'[run] # "none"
                                   /\ \E j \in moved : RunOf[j] = run
<1>1. PICK after \in RecomputeDependents(st, moved) :
        /\ status' = after
        /\ runStatus' = [run \in Runs |->
                            IF run \in {RunOf[j] : j \in moved}
                              THEN RecomputeRun(runStatus, after, run)
                              ELSE runStatus[run]]
  BY DEF Propagate
<1>2. after \in [Jobs -> JobStatus]
  BY RecomputeForm
<1>3. \A run \in Runs : RecomputeRun(runStatus, after, run) \in JobStatus \ {"none"}
  BY <1>2, RecomputeRunType
<1>4. \A j \in Jobs : \/ after[j] = st[j]
                      \/ st[j] \in Pending /\ after[j] \in {"skipped", "blocked"}
  BY RecomputeRow
<1>5. QED
  BY <1>1, <1>2, <1>3, <1>4

-----------------------------------------------------------------------------
(* The inductive invariant                                                 *)

\* The rows of a run exist exactly when the run does.
RowsExist == \A j \in Jobs : status[j] = "none" <=> runStatus[RunOf[j]] = "none"

\* The dependencies of a running job, and of a job some poll is about to
\* claim, have ended.
RunningReady ==
    /\ \A j \in Jobs : status[j] = "running" => Ready(status, j)
    /\ \A p \in poll : Ready(status, p.job)

\* RetryBudgetRespected, and what it needs of the rows that were never claimed.
BudgetInv ==
    /\ RetryBudgetRespected
    /\ \A j \in Jobs : status[j] \in {"none", "waiting_approval"} => attempts[j] = 0

\* A gated job that is past the gate was approved.
ApprovalInv ==
    \A j \in ApprovalRequired :
        (status[j] \in {"queued", "running"} \/ attempts[j] > 0) => j \in approved

StoreInv ==
    /\ TypeOK /\ RowsExist /\ RunningReady /\ ReservationsMatchLeases
    /\ BudgetInv /\ ApprovalInv

-----------------------------------------------------------------------------
(* How the row of a job may move                                           *)

JobMove(j) ==
    \/ status'[j] = status[j] /\ attempts'[j] = attempts[j]
    \/ /\ status[j] \in Pending \cup {"running"} /\ status'[j] \in Terminal
       /\ attempts'[j] = attempts[j]
    \/ /\ status[j] = "none" /\ status'[j] = InitialStatus(j)
       /\ attempts'[j] = attempts[j]
    \/ /\ status[j] = "waiting_approval" /\ status'[j] = "queued" /\ j \in approved'
       /\ attempts'[j] = attempts[j]
    \/ /\ status[j] = "queued" /\ status'[j] = "running" /\ Ready(status, j)
       /\ attempts'[j] = attempts[j] + 1
    \/ /\ status[j] = "running" /\ status'[j] = "queued" /\ MayRetry(j)
       /\ attempts'[j] = attempts[j]

Moves ==
    /\ \A j \in Jobs : JobMove(j)
    /\ approved \subseteq approved'
    /\ \A p \in poll' : p \in poll \/ Ready(status, p.job)

\* Such moves keep dependencies ended, the retry budget and the approval gate.
LEMMA MovesKeep ==
    StoreInv /\ TypeOK' /\ Moves => RunningReady' /\ BudgetInv' /\ ApprovalInv'
<1> SUFFICES ASSUME StoreInv, TypeOK', Moves
             PROVE  RunningReady' /\ BudgetInv' /\ ApprovalInv'
  OBVIOUS
<1> USE GraphAssumption, StoreAssumption
<1>1. \A j \in Jobs : Ready(status, j) => Ready(status', j)
  BY DEF Ready, Moves, JobMove, Terminal, Pending
<1>2. RunningReady'
  <2>1. ASSUME NEW j \in Jobs, status'[j] = "running" PROVE Ready(status', j)
    <3>1. status[j] = "running" \/ Ready(status, j)
      BY <2>1 DEF Moves, JobMove, Terminal, InitialStatus
    <3>2. QED
      BY <1>1, <3>1 DEF StoreInv, RunningReady
  <2>2. ASSUME NEW p \in poll' PROVE Ready(status', p.job)
    BY <1>1, <2>2 DEF StoreInv, RunningReady, Moves, TypeOK
  <2>3. QED
    BY <2>1, <2>2 DEF RunningReady
<1>3. BudgetInv'
  <2> SUFFICES ASSUME NEW j \in Jobs
               PROVE  /\ attempts'[j] <= MaxInfraRetries + 1
                      /\ status'[j] = "queued" => attempts'[j] <= MaxInfraRetries
                      /\ status'[j] \in {"none", "waiting_approval"} => attempts'[j] = 0
    BY DEF BudgetInv, RetryBudgetRespected
  <2>1. /\ attempts[j] <= MaxInfraRetries + 1
        /\ status[j] = "queued" => attempts[j] <= MaxInfraRetries
        /\ status[j] \in {"none", "waiting_approval"} => attempts[j] = 0
    BY DEF StoreInv, BudgetInv, RetryBudgetRespected
  <2>2. attempts[j] \in Nat
    BY DEF StoreInv, TypeOK
  <2>3. JobMove(j)
    BY DEF Moves
  <2>4. QED
    BY <2>1, <2>2, <2>3 DEF JobMove, MayRetry, Terminal, Pending, InitialStatus
<1>4. ApprovalInv'
  BY DEF StoreInv, ApprovalInv, BudgetInv, Moves, JobMove, TypeOK, Terminal, InitialStatus
<1>5. QED
  BY <1>2, <1>3, <1>4

-----------------------------------------------------------------------------
(* Releasing leases                                                        *)

\* Jobs that have not ended have no running dependent.
LEMMA NoRunningDependent ==
    ASSUME RunningReady, NEW V \in SUBSET Jobs, \A j \in V : status[j] \notin Terminal
    PROVE  \A d \in Dependents(V) : status[d] # "running"
BY DEF RunningReady, Dependents, Ready

\* The steps that release leases keep the types of what they release.
LEMMA ReleaseType ==
    ASSUME TypeOK, NEW V \in SUBSET Jobs, ReleaseLeases(V)
    PROVE  /\ leaseRunner' \in [Jobs -> Runners \cup {NoRunner}]
           /\ ttl' \in [Jobs -> 0..LeaseTTL]
           /\ active' \in [Runners -> SUBSET Jobs]
           /\ ledger' \subseteq [job : Jobs, runner : Runners, gen : Nat]
BY StoreAssumption DEF ReleaseLeases, ClearLeases, ReleaseRunnerSlots, ReleaseResources, TypeOK

\* When exactly the released jobs stop running, the three records of a lease
\* still agree.
LEMMA ReleaseKeeps ==
    ASSUME TypeOK, ReservationsMatchLeases, NEW V \in SUBSET Jobs, ReleaseLeases(V),
           UNCHANGED leaseGen, status' \in [Jobs -> JobStatus],
           \A j \in Jobs : status'[j] = "running" <=> (status[j] = "running" /\ j \notin V)
    PROVE  ReservationsMatchLeases'
<1> USE StoreAssumption DEF TypeOK, ReservationsMatchLeases, ReleaseLeases, ClearLeases
<1>1. \A j \in Jobs : /\ leaseRunner'[j] # NoRunner <=> status'[j] = "running"
                      /\ ttl'[j] > 0 => status'[j] = "running"
  OBVIOUS
<1>2. ASSUME NEW r \in Runners PROVE active'[r] = LeasedTo(r)'
  BY DEF ReleaseRunnerSlots, LeasedTo
<1>3. ledger' = {[job |-> j, runner |-> leaseRunner'[j], gen |-> leaseGen'[j]] : j \in Running'}
  BY DEF ReleaseResources, Running
<1>4. QED
  BY <1>1, <1>2, <1>3

\* Counters stay natural numbers.
LEMMA CardinalityType == ASSUME NEW S \in SUBSET Jobs PROVE Cardinality(S) \in Nat
BY GraphAssumption, FS_Subset, FS_CardinalityType

\* The quota counters too, thanks to the clamp.
LEMMA AdjustQuotaType ==
    ASSUME TypeOK, NEW x \in Nat, NEW y \in Nat, NEW z \in Nat, AdjustQuota(x, y, z)
    PROVE  quotaRunning' \in Nat /\ quotaQueued' \in Nat
BY DEF AdjustQuota, Minus, TypeOK

-----------------------------------------------------------------------------
(* One lemma per transaction                                               *)

StepKeeps == TypeOK' /\ RowsExist' /\ ReservationsMatchLeases' /\ Moves

\* Completion, recovery, expiry and revocation share this: the jobs V end or are
\* put back in the queue, their leases are released and the effects propagated.
LEMMA SettleStep ==
    ASSUME StoreInv, NEW V \in SUBSET Jobs, NEW st \in [Jobs -> JobStatus],
           \A j \in V : /\ status[j] \in Pending \cup {"running"}
                        /\ \/ st[j] \in Terminal
                           \/ status[j] = "running" /\ st[j] = "queued" /\ MayRetry(j),
           \A j \in Jobs \ V : st[j] = status[j],
           Propagate(st, V), ReleaseLeases(V),
           UNCHANGED <<leaseGen, attempts, approved, poll>>
    PROVE  /\ status' \in [Jobs -> JobStatus] /\ runStatus' \in [Runs -> JobStatus]
           /\ RowsExist' /\ ReservationsMatchLeases' /\ Moves
<1> USE GraphAssumption DEF StoreInv, Pending, Terminal
<1>1. \A d \in Dependents(V) : st[d] # "running"
  <2>1. \A d \in Dependents(V) : status[d] # "running"
    BY NoRunningDependent
  <2>2. QED
    BY <2>1 DEF Dependents
<1>2. /\ status' \in [Jobs -> JobStatus] /\ runStatus' \in [Runs -> JobStatus]
      /\ \A j \in Jobs : \/ status'[j] = st[j]
                         \/ st[j] \in Pending /\ status'[j] \in {"skipped", "blocked"}
      /\ \A run \in Runs : \/ runStatus'[run] = runStatus[run]
                           \/ /\ runStatus'[run] # "none"
                              /\ \E j \in V : RunOf[j] = run
  BY <1>1, PropagateEffect DEF TypeOK
<1>3. RowsExist'
  <2> SUFFICES ASSUME NEW j \in Jobs
               PROVE  status'[j] = "none" <=> runStatus'[RunOf[j]] = "none"
    BY DEF RowsExist
  <2>1. status'[j] = "none" <=> status[j] = "none"
    BY <1>2
  <2>2. runStatus'[RunOf[j]] = "none" <=> runStatus[RunOf[j]] = "none"
    BY <1>2 DEF RowsExist
  <2>3. QED
    BY <2>1, <2>2 DEF RowsExist
<1>4. \A j \in Jobs : status'[j] = "running" <=> (status[j] = "running" /\ j \notin V)
  BY <1>2
<1>5. ReservationsMatchLeases'
  BY <1>2, <1>4, ReleaseKeeps
<1>6. Moves
  BY <1>2 DEF Moves, JobMove
<1>7. QED
  BY <1>2, <1>3, <1>5, <1>6

\* Steps that only read the rows, or move their clocks and flags.
LEMMA QuietStep ==
    ASSUME StoreInv, UNCHANGED <<status, leaseRunner, leaseGen, attempts, runStatus,
                                 active, ledger>>,
           approved \subseteq approved',
           \A j \in Jobs : ttl'[j] > 0 => ttl[j] > 0,
           \A p \in poll' : p \in poll \/ Ready(status, p.job)
    PROVE  RowsExist' /\ ReservationsMatchLeases' /\ Moves
<1>1. RowsExist'
  BY DEF StoreInv, RowsExist
<1>2. ReservationsMatchLeases'
  BY DEF StoreInv, ReservationsMatchLeases, LeasedTo, Running
<1>3. Moves
  BY DEF Moves, JobMove
<1>4. QED
  BY <1>1, <1>2, <1>3

\* A completion ends one running job.
LEMMA CompleteStep ==
    ASSUME StoreInv, NEW l \in issued, NEW result \in Results, CompleteJob(l, result)
    PROVE  StepKeeps
<1> DEFINE st == [status EXCEPT ![l.job] = result]
<1>1. l.job \in Jobs /\ l.gen \in Nat /\ l.runner \in Runners /\ status[l.job] = "running"
  BY DEF StoreInv, TypeOK, Leases, CompleteJob, LeaseHeld
<1>2. result \in {"success", "failure", "cancelled", "skipped"}
  BY StoreAssumption
<1>3. st \in [Jobs -> JobStatus] /\ st[l.job] \in Terminal
      /\ \A j \in Jobs \ {l.job} : st[j] = status[j]
  BY <1>1, <1>2 DEF StoreInv, TypeOK, JobStatus, Terminal
<1>4. /\ Propagate(st, {l.job}) /\ ReleaseLeases({l.job}) /\ AdjustQuota(1, 0, 0)
      /\ UNCHANGED <<leaseGen, attempts, approved, poll>>
  BY DEF CompleteJob
<1> HIDE DEF st
<1>5. /\ status' \in [Jobs -> JobStatus] /\ runStatus' \in [Runs -> JobStatus]
      /\ RowsExist' /\ ReservationsMatchLeases' /\ Moves
  BY <1>1, <1>3, <1>4, SettleStep
<1>6. TypeOK'
  BY <1>1, <1>4, <1>5, ReleaseType, AdjustQuotaType
     DEF StoreInv, TypeOK, CompleteJob, ReceiptOf
<1>7. QED
  BY <1>5, <1>6 DEF StepKeeps

\* A recovery requeues or fails one expired lease, or drops a candidate that is
\* not recoverable any more.
LEMMA RecoverStep ==
    ASSUME StoreInv, NEW k \in sweep, RecoverExpiredLease(k)
    PROVE  StepKeeps
<1> DEFINE st == [status EXCEPT ![k.job] = IF MayRetry(k.job) THEN "queued" ELSE "failure"]
<1>1. k.job \in Jobs
  BY DEF StoreInv, TypeOK
<1>2. CASE Recoverable(k)
  <2>1. /\ Propagate(st, {k.job}) /\ ReleaseLeases({k.job})
        /\ AdjustQuota(1, 0, IF MayRetry(k.job) THEN 1 ELSE 0)
        /\ UNCHANGED <<leaseGen, attempts, approved, poll>>
    BY <1>2 DEF RecoverExpiredLease
  <2>2. status[k.job] = "running"
    BY <1>2 DEF Recoverable
  <2>3. /\ st \in [Jobs -> JobStatus]
        /\ st[k.job] \in Terminal \/ (st[k.job] = "queued" /\ MayRetry(k.job))
        /\ \A j \in Jobs \ {k.job} : st[j] = status[j]
    BY <1>1 DEF StoreInv, TypeOK, JobStatus, Terminal, Pending
  <2> HIDE DEF st
  <2>4. /\ status' \in [Jobs -> JobStatus] /\ runStatus' \in [Runs -> JobStatus]
        /\ RowsExist' /\ ReservationsMatchLeases' /\ Moves
    BY <1>1, <2>1, <2>2, <2>3, SettleStep
  <2>5. quotaRunning' \in Nat /\ quotaQueued' \in Nat
    BY <2>1, AdjustQuotaType DEF StoreInv
  <2>6. TypeOK'
    BY <1>1, <2>1, <2>4, <2>5, ReleaseType DEF StoreInv, TypeOK, RecoverExpiredLease,
       evidenceVars
  <2>7. QED
    BY <2>4, <2>6 DEF StepKeeps
<1>3. CASE ~Recoverable(k)
  <2>1. TypeOK'
    BY <1>3 DEF StoreInv, TypeOK, RecoverExpiredLease, quotaVars, evidenceVars
  <2>2. RowsExist' /\ ReservationsMatchLeases' /\ Moves
    BY <1>3, QuietStep DEF RecoverExpiredLease
  <2>3. QED
    BY <2>1, <2>2 DEF StepKeeps
<1>4. QED
  BY <1>2, <1>3

\* A queue deadline cancels one waiting job.
LEMMA ExpireStep ==
    ASSUME StoreInv, NEW j \in Jobs, ExpireQueuedJob(j)
    PROVE  StepKeeps
<1> DEFINE st == [status EXCEPT ![j] = "cancelled"]
<1>1. /\ Propagate(st, {j}) /\ ReleaseLeases({j}) /\ AdjustQuota(0, 1, 0)
      /\ UNCHANGED <<leaseGen, attempts, approved, poll>> /\ status[j] \in Pending
  BY DEF ExpireQueuedJob, clientVars
<1>2. /\ st \in [Jobs -> JobStatus] /\ st[j] \in Terminal
      /\ \A x \in Jobs \ {j} : st[x] = status[x]
  BY DEF StoreInv, TypeOK, JobStatus, Terminal
<1> HIDE DEF st
<1>3. /\ status' \in [Jobs -> JobStatus] /\ runStatus' \in [Runs -> JobStatus]
      /\ RowsExist' /\ ReservationsMatchLeases' /\ Moves
  BY <1>1, <1>2, SettleStep
<1>4. TypeOK'
  BY <1>1, <1>3, ReleaseType, AdjustQuotaType
     DEF StoreInv, TypeOK, ExpireQueuedJob, evidenceVars, clientVars
<1>5. QED
  BY <1>3, <1>4 DEF StepKeeps

\* Disabling a runner requeues or cancels the leases it was seen to hold.
LEMMA DisableStep ==
    ASSUME StoreInv, NEW k \in disabling, DisableRunner(k)
    PROVE  StepKeeps
<1> DEFINE revoked == LeasedTo(k.runner) \ k.missed
           retried == {j \in revoked : MayRetry(j)}
           st == [j \in Jobs |-> IF j \in retried THEN "queued"
                                 ELSE IF j \in revoked THEN "cancelled" ELSE status[j]]
<1>1. /\ Propagate(st, revoked) /\ ReleaseLeases(revoked)
      /\ AdjustQuota(Cardinality(revoked), 0, Cardinality(retried))
      /\ UNCHANGED <<leaseGen, attempts, approved, poll>>
  BY DEF DisableRunner
<1>2. /\ revoked \in SUBSET Jobs /\ retried \in SUBSET Jobs
      /\ \A j \in revoked : status[j] = "running"
  BY DEF LeasedTo
<1>3. /\ st \in [Jobs -> JobStatus]
      /\ \A j \in revoked : st[j] \in Terminal \/ (st[j] = "queued" /\ MayRetry(j))
      /\ \A j \in Jobs \ revoked : st[j] = status[j]
  BY <1>2 DEF StoreInv, TypeOK, JobStatus, Terminal, Pending
<1>4. quotaRunning' \in Nat /\ quotaQueued' \in Nat
  <2>1. Cardinality(revoked) \in Nat /\ Cardinality(retried) \in Nat
    BY <1>2, CardinalityType
  <2> HIDE DEF revoked, retried
  <2>2. QED
    BY <1>1, <2>1, AdjustQuotaType DEF StoreInv
<1> HIDE DEF revoked, retried, st
<1>5. /\ status' \in [Jobs -> JobStatus] /\ runStatus' \in [Runs -> JobStatus]
      /\ RowsExist' /\ ReservationsMatchLeases' /\ Moves
  BY <1>1, <1>2, <1>3, SettleStep
<1>6. TypeOK'
  <2>1. k.runner \in Runners /\ disabling' \subseteq disabling
        /\ disabled' = disabled \cup {k.runner}
        /\ UNCHANGED <<overdue, evidenceVars, sweep, issued, authorized, acked>>
    BY DEF StoreInv, TypeOK, DisableRunner
  <2>2. QED
    BY <1>1, <1>2, <1>4, <1>5, <2>1, ReleaseType DEF StoreInv, TypeOK, evidenceVars
<1>7. QED
  BY <1>5, <1>6 DEF StepKeeps

\* A cancellation ends every job of the run that has not ended.
LEMMA CancelStep ==
    ASSUME StoreInv, NEW run \in Runs, CancelRunJobs(run)
    PROVE  StepKeeps
<1> DEFINE victims == {j \in JobsOf(run) : status[j] \notin Terminal}
           stopped == victims \cap Running
<1>1. /\ runStatus[run] # "none" /\ ReleaseLeases(victims)
      /\ status' = [j \in Jobs |-> IF j \in victims THEN "cancelled" ELSE status[j]]
      /\ runStatus' = [runStatus EXCEPT ![run] = IF @ \in Terminal THEN @ ELSE "cancelled"]
      /\ AdjustQuota(Cardinality(stopped), Cardinality(victims \ stopped), 0)
      /\ UNCHANGED <<leaseGen, attempts, approved, poll>>
  BY DEF CancelRunJobs, clientVars
<1>2. /\ victims \in SUBSET Jobs /\ stopped \in SUBSET Jobs
      /\ victims \ stopped \in SUBSET Jobs
      /\ \A j \in victims : status[j] \in Pending \cup {"running"}
  BY <1>1 DEF JobsOf, StoreInv, TypeOK, RowsExist, JobStatus
<1>3. quotaRunning' \in Nat /\ quotaQueued' \in Nat
  <2>1. Cardinality(stopped) \in Nat /\ Cardinality(victims \ stopped) \in Nat
    BY <1>2, CardinalityType
  <2> HIDE DEF victims, stopped
  <2>2. QED
    BY <1>1, <2>1, AdjustQuotaType DEF StoreInv
<1> HIDE DEF victims, stopped
<1>4. status' \in [Jobs -> JobStatus] /\ runStatus' \in [Runs -> JobStatus]
  BY <1>1 DEF StoreInv, TypeOK, JobStatus, Terminal
<1>5. RowsExist'
  BY <1>1, <1>2, GraphAssumption DEF StoreInv, TypeOK, RowsExist, Pending
<1>6. ReservationsMatchLeases'
  BY <1>1, <1>2, <1>4, ReleaseKeeps DEF StoreInv
<1>7. Moves
  BY <1>1, <1>2 DEF Moves, JobMove, Terminal
<1>8. TypeOK'
  BY <1>1, <1>2, <1>3, <1>4, ReleaseType
     DEF StoreInv, TypeOK, CancelRunJobs, evidenceVars, clientVars
<1>9. QED
  BY <1>5, <1>6, <1>7, <1>8 DEF StepKeeps

\* An insertion creates the rows of one run and cancels the runs it supersedes.
LEMMA InsertStep ==
    ASSUME StoreInv, NEW run \in Runs, InsertCompiledRun(run)
    PROVE  StepKeeps
<1> DEFINE victims == {j \in Jobs : /\ RunOf[j] \in Superseded(run)
                                    /\ status[j] \notin Terminal}
           stopped == victims \cap Running
<1>1. /\ runStatus[run] = "none" /\ ReleaseLeases(victims)
      /\ quotaRunning' = Minus(quotaRunning, Cardinality(stopped))
      /\ quotaQueued' = Minus(quotaQueued, Cardinality(victims \ stopped))
                          + Cardinality(JobsOf(run))
      /\ status' = [j \in Jobs |-> IF j \in victims THEN "cancelled"
                                   ELSE IF RunOf[j] = run THEN InitialStatus(j)
                                   ELSE status[j]]
      /\ runStatus' = [x \in Runs |->
                          IF x = run THEN "queued"
                          ELSE IF \E j \in victims : RunOf[j] = x THEN "cancelled"
                          ELSE runStatus[x]]
      /\ UNCHANGED <<leaseGen, attempts, approved, poll>>
  BY DEF InsertCompiledRun, clientVars
<1>2. /\ victims \in SUBSET Jobs /\ stopped \in SUBSET Jobs
      /\ victims \ stopped \in SUBSET Jobs /\ JobsOf(run) \in SUBSET Jobs
      /\ \A j \in victims : /\ status[j] \in Pending \cup {"running"}
                            /\ RunOf[j] # run /\ runStatus[RunOf[j]] # "none"
  BY GraphAssumption DEF JobsOf, Superseded, StoreInv, TypeOK, RowsExist, JobStatus
<1>3. quotaRunning' \in Nat /\ quotaQueued' \in Nat
  <2>1. /\ Cardinality(stopped) \in Nat /\ Cardinality(victims \ stopped) \in Nat
        /\ Cardinality(JobsOf(run)) \in Nat
    BY <1>2, CardinalityType
  <2> HIDE DEF victims, stopped
  <2>2. QED
    BY <1>1, <2>1 DEF StoreInv, TypeOK, Minus
<1> HIDE DEF victims, stopped
<1>4. \A j \in Jobs : RunOf[j] = run => status[j] = "none"
  BY <1>1 DEF StoreInv, RowsExist
<1>5. /\ status' \in [Jobs -> JobStatus] /\ runStatus' \in [Runs -> JobStatus]
      /\ \A j \in Jobs : InitialStatus(j) \in {"blocked", "waiting_approval", "queued"}
  BY <1>1 DEF StoreInv, TypeOK, InitialStatus, JobStatus, Terminal, Pending
<1>6. RowsExist'
  BY <1>1, <1>2, <1>5, GraphAssumption DEF StoreInv, TypeOK, RowsExist
<1>7. ReservationsMatchLeases'
  BY <1>1, <1>2, <1>4, <1>5, ReleaseKeeps DEF StoreInv
<1>8. Moves
  BY <1>1, <1>2, <1>4 DEF Moves, JobMove, Terminal
<1>9. TypeOK'
  BY <1>1, <1>2, <1>3, <1>5, ReleaseType
     DEF StoreInv, TypeOK, InsertCompiledRun, evidenceVars, clientVars
<1>10. QED
  BY <1>6, <1>7, <1>8, <1>9 DEF StepKeeps

\* A claim takes a slot, a reservation and the row together.
LEMMA AcquireStep ==
    ASSUME StoreInv, NEW p \in poll, AcquireLeaseAtomic(p)
    PROVE  StepKeeps
<1> DEFINE lease == [job |-> p.job, runner |-> p.runner, gen |-> p.gen + 1]
<1>1. /\ p.job \in Jobs /\ p.runner \in Runners /\ p.gen \in Nat
      /\ status[p.job] = "queued" /\ Ready(status, p.job)
  BY DEF StoreInv, TypeOK, RunningReady, AcquireLeaseAtomic, ClaimAdmitted
<1>2. /\ status' = [status EXCEPT ![p.job] = "running"]
      /\ leaseRunner' = [leaseRunner EXCEPT ![p.job] = p.runner]
      /\ leaseGen' = [leaseGen EXCEPT ![p.job] = p.gen + 1]
      /\ attempts' = [attempts EXCEPT ![p.job] = @ + 1]
      /\ ttl' = [ttl EXCEPT ![p.job] = LeaseTTL]
      /\ ledger' = {row \in ledger : row.job # p.job} \cup {lease}
      /\ active' = [active EXCEPT ![p.runner] = @ \cup {p.job}]
      /\ quotaRunning' = quotaRunning + 1 /\ quotaQueued' = Minus(quotaQueued, 1)
      /\ poll' = poll \ {p} /\ UNCHANGED <<approved, runStatus>>
  BY DEF AcquireLeaseAtomic, ClaimGeneration
<1>3. issued' \subseteq Leases /\ authorized' \subseteq issued'
  BY <1>1 DEF StoreInv, TypeOK, AcquireLeaseAtomic, ClaimGeneration, Leases
<1>4. disabling' \subseteq [runner : Runners, missed : SUBSET Jobs]
  BY <1>1 DEF StoreInv, TypeOK, AcquireLeaseAtomic
<1>5. TypeOK'
  BY <1>1, <1>2, <1>3, <1>4, StoreAssumption DEF StoreInv, TypeOK, AcquireLeaseAtomic, Minus,
     JobStatus, evidenceVars
<1>6. RowsExist'
  BY <1>1, <1>2 DEF StoreInv, TypeOK, RowsExist
<1>7. ReservationsMatchLeases'
  <2> USE <1>1, <1>2, StoreAssumption DEF StoreInv, TypeOK, ReservationsMatchLeases
  <2>1. \A j \in Jobs : /\ leaseRunner'[j] # NoRunner <=> status'[j] = "running"
                        /\ ttl'[j] > 0 => status'[j] = "running"
    OBVIOUS
  <2>2. ASSUME NEW r \in Runners PROVE active'[r] = LeasedTo(r)'
    BY DEF LeasedTo
  <2>3. Running' = Running \cup {p.job} /\ p.job \notin Running
    BY DEF Running
  <2>4. ledger' = {[job |-> j, runner |-> leaseRunner'[j], gen |-> leaseGen'[j]] :
                     j \in Running'}
    BY <2>3 DEF Running
  <2>5. QED
    BY <2>1, <2>2, <2>4
<1>8. Moves
  BY <1>1, <1>2 DEF StoreInv, TypeOK, Moves, JobMove
<1>9. QED
  BY <1>5, <1>6, <1>7, <1>8 DEF StepKeeps

\* An approval puts one gated job into the queue.
LEMMA ApproveStep ==
    ASSUME StoreInv, NEW j \in Jobs, ApproveJob(j)
    PROVE  StepKeeps
<1>1. /\ status[j] = "waiting_approval" /\ status' = [status EXCEPT ![j] = "queued"]
      /\ approved' = approved \cup {j}
      /\ UNCHANGED <<leaseRunner, leaseGen, attempts, ttl, runStatus, active, ledger, poll>>
  BY DEF ApproveJob, clientVars
<1>2. TypeOK'
  BY <1>1 DEF StoreInv, TypeOK, ApproveJob, JobStatus, Pending, quotaVars, evidenceVars,
     clientVars
<1>3. RowsExist'
  BY <1>1 DEF StoreInv, TypeOK, RowsExist
<1>4. ReservationsMatchLeases'
  BY <1>1 DEF StoreInv, TypeOK, ReservationsMatchLeases, LeasedTo, Running
<1>5. Moves
  BY <1>1 DEF StoreInv, TypeOK, Moves, JobMove
<1>6. QED
  BY <1>2, <1>3, <1>4, <1>5 DEF StepKeeps

\* The steps around a poll.
LEMMA PollStep ==
    ASSUME StoreInv,
           \/ \E r \in Runners, j \in Jobs : PollCandidate(r, j)
           \/ \E p \in poll : AbandonPoll(p)
    PROVE  StepKeeps
<1>1. ASSUME NEW r \in Runners, NEW j \in Jobs, PollCandidate(r, j) PROVE StepKeeps
  <2>1. TypeOK'
    BY <1>1 DEF StoreInv, TypeOK, PollCandidate, rowVars, quotaVars, evidenceVars
  <2>2. RowsExist' /\ ReservationsMatchLeases' /\ Moves
    BY <1>1, QuietStep DEF PollCandidate, rowVars
  <2>3. QED
    BY <2>1, <2>2 DEF StepKeeps
<1>2. ASSUME NEW p \in poll, AbandonPoll(p) PROVE StepKeeps
  <2>1. TypeOK'
    BY <1>2 DEF StoreInv, TypeOK, AbandonPoll, rowVars, quotaVars, evidenceVars
  <2>2. RowsExist' /\ ReservationsMatchLeases' /\ Moves
    BY <1>2, QuietStep DEF AbandonPoll, rowVars
  <2>3. QED
    BY <2>1, <2>2 DEF StepKeeps
<1>3. QED
  BY <1>1, <1>2

\* The requests that leave the rows as they are, a heartbeat's clock apart.
LEMMA RequestStep ==
    ASSUME StoreInv, NEW l \in issued,
           \/ AuthorizeRunnerLease(l) \/ HeartbeatLease(l) \/ InsertArtifactOnce(l)
           \/ \E result \in Results : ReplayCompletion(l, result)
    PROVE  StepKeeps
<1>1. l.job \in Jobs /\ l.gen \in Nat /\ l.runner \in Runners /\ l.token \in Nat
  BY DEF StoreInv, TypeOK, Leases
<1>2. TypeOK'
  <2>1. CASE AuthorizeRunnerLease(l)
    BY <2>1 DEF StoreInv, TypeOK, AuthorizeRunnerLease, rowVars, quotaVars, evidenceVars
  <2>2. CASE HeartbeatLease(l)
    BY <1>1, <2>2, StoreAssumption
       DEF StoreInv, TypeOK, HeartbeatLease, quotaVars, evidenceVars, clientVars
  <2>3. CASE InsertArtifactOnce(l)
    BY <1>1, <2>3 DEF StoreInv, TypeOK, InsertArtifactOnce, rowVars, quotaVars, clientVars
  <2>4. CASE \E result \in Results : ReplayCompletion(l, result)
    BY <1>1, <2>4 DEF StoreInv, TypeOK, ReplayCompletion, ReceiptOf, rowVars, quotaVars,
       evidenceVars
  <2>5. QED
    BY <2>1, <2>2, <2>3, <2>4
<1>3. /\ UNCHANGED <<status, leaseRunner, leaseGen, attempts, runStatus, active, ledger,
                     approved, poll>>
      /\ ttl' = ttl \/ (ttl[l.job] > 0 /\ ttl' = [ttl EXCEPT ![l.job] = LeaseTTL])
  BY DEF AuthorizeRunnerLease, HeartbeatLease, InsertArtifactOnce, ReplayCompletion,
     LeaseHeld, rowVars, clientVars
<1>4. \A j \in Jobs : ttl'[j] > 0 => ttl[j] > 0
  BY <1>1, <1>3 DEF StoreInv, TypeOK
<1>5. RowsExist' /\ ReservationsMatchLeases' /\ Moves
  BY <1>3, <1>4, QuietStep
<1>6. QED
  BY <1>2, <1>5 DEF StepKeeps

\* Time, the sweep's discovery, receipt retention, the beginning of a disable
\* and the return of a runner.
LEMMA BackgroundStep ==
    ASSUME StoreInv,
           \/ Tick \/ ListExpiredRunningJobs \/ \E rc \in receipts : ExpireReceipt(rc)
           \/ \E j \in Jobs : QueueDeadlinePasses(j)
           \/ \E r \in Runners : EnableRunner(r)
           \/ \E r \in Administered : BeginDisable(r)
    PROVE  StepKeeps
<1>1. TypeOK'
  <2> USE DEF StoreInv, TypeOK, rowVars, quotaVars, evidenceVars, clientVars
  <2>1. CASE Tick
    BY <2>1, StoreAssumption DEF Tick, Minus
  <2>2. CASE ListExpiredRunningJobs
    BY <2>2 DEF ListExpiredRunningJobs, Running
  <2>3. CASE \E rc \in receipts : ExpireReceipt(rc)
    BY <2>3 DEF ExpireReceipt
  <2>4. CASE \E j \in Jobs : QueueDeadlinePasses(j)
    BY <2>4 DEF QueueDeadlinePasses
  <2>5. CASE \E r \in Runners : EnableRunner(r)
    BY <2>5 DEF EnableRunner
  <2>6. CASE \E r \in Administered : BeginDisable(r)
    BY <2>6, StoreAssumption DEF BeginDisable
  <2>7. QED
    BY <2>1, <2>2, <2>3, <2>4, <2>5, <2>6
<1>2. /\ UNCHANGED <<status, leaseRunner, leaseGen, attempts, runStatus, active, ledger,
                     approved, poll>>
      /\ ttl' = ttl \/ ttl' = [j \in Jobs |-> Minus(ttl[j], 1)]
  BY DEF Tick, ListExpiredRunningJobs, ExpireReceipt, QueueDeadlinePasses, EnableRunner,
     BeginDisable, rowVars, clientVars
<1>3. \A j \in Jobs : ttl'[j] > 0 => ttl[j] > 0
  BY <1>2 DEF StoreInv, TypeOK, Minus
<1>4. RowsExist' /\ ReservationsMatchLeases' /\ Moves
  BY <1>2, <1>3, QuietStep
<1>5. QED
  BY <1>1, <1>4 DEF StepKeeps

-----------------------------------------------------------------------------
(* The theorems                                                            *)

\* Every step moves rows only in the allowed ways and keeps the invariant.
LEMMA NextKeeps == StoreInv /\ [Next]_vars => StoreInv' /\ Moves
<1> SUFFICES ASSUME StoreInv, [Next]_vars PROVE StoreInv' /\ Moves
  OBVIOUS
<1>1. CASE Next
  <2>1. StepKeeps
    BY <1>1, InsertStep, CancelStep, ApproveStep, ExpireStep, PollStep, DisableStep,
       AcquireStep, RequestStep, CompleteStep, BackgroundStep, RecoverStep DEF Next
  <2>2. QED
    BY <2>1, MovesKeep DEF StepKeeps, StoreInv
<1>2. CASE UNCHANGED vars
  <2>1. TypeOK'
    BY <1>2 DEF StoreInv, TypeOK, vars, rowVars, quotaVars, evidenceVars, clientVars
  <2>2. RowsExist' /\ ReservationsMatchLeases' /\ Moves
    BY <1>2, QuietStep DEF vars, rowVars, clientVars
  <2>3. QED
    BY <2>1, <2>2, MovesKeep DEF StoreInv
<1>3. QED
  BY <1>1, <1>2

\* Nothing is submitted yet.
LEMMA InitInv == Init => StoreInv
<1> SUFFICES ASSUME Init PROVE StoreInv
  OBVIOUS
<1> USE GraphAssumption, StoreAssumption DEF Init
<1>1. TypeOK
  BY DEF TypeOK, JobStatus
<1>2. RowsExist /\ RunningReady
  BY DEF RowsExist, RunningReady
<1>3. ReservationsMatchLeases
  BY DEF ReservationsMatchLeases, LeasedTo, Running
<1>4. BudgetInv /\ ApprovalInv
  BY DEF BudgetInv, RetryBudgetRespected, ApprovalInv
<1>5. QED
  BY <1>1, <1>2, <1>3, <1>4 DEF StoreInv

\* The invariant holds of every reachable state.
THEOREM Invariance == Spec => []StoreInv
BY InitInv, NextKeeps, PTL DEF Spec

\* Every column and record has its type, for any graph, runners and limits.
THEOREM TypeCorrect == Spec => []TypeOK
<1>1. StoreInv => TypeOK
  BY DEF StoreInv
<1>2. QED
  BY <1>1, Invariance, PTL

\* No transaction, in any order, leaves a runner slot or a resource reservation
\* without its lease or a lease without them.
THEOREM ReservationsConsistent == Spec => []ReservationsMatchLeases
<1>1. StoreInv => ReservationsMatchLeases
  BY DEF StoreInv
<1>2. QED
  BY <1>1, Invariance, PTL

\* A job is claimed at most MaxInfraRetries + 1 times.
THEOREM RetriesBounded == Spec => []RetryBudgetRespected
<1>1. StoreInv => RetryBudgetRespected
  BY DEF StoreInv, BudgetInv
<1>2. QED
  BY <1>1, Invariance, PTL

\* No gated job is ever claimed without its approval.
THEOREM ApprovalsRespected == Spec => []ApprovalBeforeExecution
<1>1. StoreInv => ApprovalBeforeExecution
  BY DEF StoreInv, ApprovalInv, ApprovalBeforeExecution
<1>2. QED
  BY <1>1, Invariance, PTL

\* An outcome is given once: no late completion, recovery, supersession or
\* re-evaluation changes the status of a job that has ended.
THEOREM OutcomesFinal ==
    Spec => [][\A j \in Jobs : status[j] \in Terminal => status'[j] = status[j]]_vars
<1> DEFINE Final == \A j \in Jobs : status[j] \in Terminal => status'[j] = status[j]
<1>1. StoreInv /\ [Next]_vars => [Final]_vars
  BY NextKeeps DEF Moves, JobMove, Terminal, Pending
<1>2. QED
  BY <1>1, Invariance, PTL DEF Spec

\* Work done under an expired lease never counts, recovered or not.
THEOREM ExpiredStaysDead == Spec => ExpiredLeaseIsDead
<1> DEFINE Dead == \A j \in Jobs : (status[j] = "running" /\ ttl[j] = 0) =>
                      /\ attempts'[j] = attempts[j] => ttl'[j] = 0
                      /\ \A rc \in receipts' \ receipts : rc.job # j
                      /\ \A a \in artifacts' \ artifacts : a.job # j
<1>1. ASSUME StoreInv, Next, NEW j \in Jobs, status[j] = "running", ttl[j] = 0
      PROVE  /\ attempts'[j] = attempts[j] => ttl'[j] = 0
             /\ \A rc \in receipts' \ receipts : rc.job # j
             /\ \A a \in artifacts' \ artifacts : a.job # j
  <2> USE <1>1 DEF StoreInv, TypeOK, rowVars, evidenceVars
  <2>1. CASE UNCHANGED <<ttl, artifacts>> /\ receipts' \subseteq receipts
    BY <2>1
  <2>2. ASSUME NEW V \in SUBSET Jobs, ReleaseLeases(V), UNCHANGED evidenceVars
        PROVE  Dead
    BY <2>2 DEF ReleaseLeases, ClearLeases
  <2>3. ASSUME NEW p \in poll, AcquireLeaseAtomic(p) PROVE Dead
    BY <2>3 DEF AcquireLeaseAtomic, ClaimAdmitted
  <2>4. ASSUME NEW l \in issued, HeartbeatLease(l) \/ InsertArtifactOnce(l) PROVE Dead
    BY <2>4 DEF HeartbeatLease, InsertArtifactOnce, LeaseHeld
  <2>5. ASSUME NEW l \in issued, NEW result \in Results, CompleteJob(l, result) PROVE Dead
    BY <2>5 DEF CompleteJob, LeaseHeld, ReceiptOf, ReleaseLeases, ClearLeases
  <2>6. CASE Tick
    BY <2>6 DEF Tick, Minus
  <2>7. ASSUME NEW run \in Runs, InsertCompiledRun(run) \/ CancelRunJobs(run) PROVE Dead
    BY <2>2, <2>7 DEF InsertCompiledRun, CancelRunJobs, JobsOf
  <2>8. ASSUME NEW x \in Jobs, ExpireQueuedJob(x) PROVE Dead
    BY <2>2, <2>8 DEF ExpireQueuedJob
  <2>9. ASSUME NEW k \in disabling, DisableRunner(k) PROVE Dead
    BY <2>2, <2>9 DEF DisableRunner, LeasedTo
  <2>10. ASSUME NEW k \in sweep, RecoverExpiredLease(k) PROVE Dead
    BY <2>2, <2>10 DEF RecoverExpiredLease
  <2> HIDE DEF StoreInv, TypeOK
  <2>11. QED
    BY <2>1, <2>3, <2>4, <2>5, <2>6, <2>7, <2>8, <2>9, <2>10 DEF Next, ApproveJob,
       QueueDeadlinePasses, PollCandidate, BeginDisable, EnableRunner, AbandonPoll,
       AuthorizeRunnerLease, ReplayCompletion, ExpireReceipt, ListExpiredRunningJobs
<1>2. StoreInv /\ [Next]_vars => [Dead]_vars
  BY <1>1
<1>3. QED
  BY <1>2, Invariance, PTL DEF Spec, ExpiredLeaseIsDead

\* A completed job has the reported result and a new receipt for it.
LEMMA CompletionRecorded ==
    ASSUME StoreInv, NEW l \in issued, NEW result \in Results, CompleteJob(l, result)
    PROVE  /\ l.job \in Jobs /\ leaseRunner[l.job] = l.runner /\ leaseGen[l.job] = l.gen
           /\ status'[l.job] = result
           /\ ReceiptOf(l, result) \in receipts' \ receipts
<1>1. /\ l.job \in Jobs /\ status[l.job] = "running"
      /\ leaseRunner[l.job] = l.runner /\ leaseGen[l.job] = l.gen
  BY DEF StoreInv, TypeOK, Leases, CompleteJob, LeaseHeld
<1>2. ReceiptOf(l, result) \in receipts' \ receipts
  BY DEF CompleteJob, ReceiptOf
<1> DEFINE st == [status EXCEPT ![l.job] = result]
<1>3. /\ st \in [Jobs -> JobStatus] /\ st[l.job] = result /\ result \in Terminal
      /\ \A d \in Jobs : st[d] = "running" => status[d] = "running"
  BY <1>1, StoreAssumption DEF StoreInv, TypeOK, JobStatus, Terminal
<1>4. Propagate(st, {l.job})
  BY DEF CompleteJob
<1> HIDE DEF st
<1>5. \A d \in Dependents({l.job}) : st[d] # "running"
  BY <1>1, <1>3, NoRunningDependent DEF StoreInv, Dependents, Terminal
<1>6. status'[l.job] = result
  <2>1. runStatus \in [Runs -> JobStatus]
    BY DEF StoreInv, TypeOK
  <2>2. \/ status'[l.job] = st[l.job]
        \/ st[l.job] \in Pending
    BY <1>1, <1>3, <1>4, <1>5, <2>1, GraphAssumption, PropagateEffect
  <2>3. QED
    BY <1>3, <2>2 DEF Terminal, Pending
<1>7. QED
  BY <1>1, <1>2, <1>6

\* Nothing but its holder's completion, a cancellation or the disabling of its
\* runner ends a live lease.
THEOREM LiveLeasesSafe == Spec => LiveLeaseUndisturbed
<1> DEFINE Allowed(j) ==
              \/ status'[j] = "cancelled"
              \/ \E k \in disabling \ disabling' : k.runner = leaseRunner[j]
              \/ \E rc \in receipts' \ receipts :
                    /\ rc.job = j /\ rc.runner = leaseRunner[j]
                    /\ rc.gen = leaseGen[j] /\ rc.result = status'[j]
           Live == \A j \in Jobs :
              (status[j] = "running" /\ ttl[j] > 0 /\ status'[j] # "running") => Allowed(j)
<1>1. ASSUME StoreInv, StoreInv', Next, NEW j \in Jobs,
             status[j] = "running", ttl[j] > 0, status'[j] # "running"
      PROVE  Allowed(j)
  <2>1. leaseRunner[j] # NoRunner /\ leaseRunner'[j] = NoRunner
    BY <1>1 DEF StoreInv, ReservationsMatchLeases
  <2>2. \A V \in SUBSET Jobs : ReleaseLeases(V) => j \in V
    BY <2>1 DEF ReleaseLeases, ClearLeases
  <2>3. ASSUME NEW l \in issued, NEW result \in Results, CompleteJob(l, result)
        PROVE  Allowed(j)
    <3>1. l.job = j
      BY <1>1, <2>2, <2>3, CompletionRecorded DEF CompleteJob
    <3>2. QED
      BY <1>1, <2>3, <3>1, CompletionRecorded DEF ReceiptOf
  <2>4. ASSUME NEW run \in Runs, InsertCompiledRun(run) \/ CancelRunJobs(run)
        PROVE  Allowed(j)
    BY <1>1, <2>2, <2>4 DEF InsertCompiledRun, CancelRunJobs, JobsOf
  <2>5. ASSUME NEW x \in Jobs, ExpireQueuedJob(x) PROVE FALSE
    BY <1>1, <2>2, <2>5 DEF ExpireQueuedJob, Pending
  <2>6. ASSUME NEW k \in disabling, DisableRunner(k) PROVE Allowed(j)
    BY <1>1, <2>2, <2>6 DEF DisableRunner, LeasedTo
  <2>7. ASSUME NEW k \in sweep, RecoverExpiredLease(k) PROVE FALSE
    BY <1>1, <2>2, <2>7 DEF RecoverExpiredLease, Recoverable, StoreInv, TypeOK
  <2>8. ~UNCHANGED leaseRunner
    BY <2>1
  <2>9. ASSUME NEW p \in poll, AcquireLeaseAtomic(p) PROVE FALSE
    BY <1>1, <2>1, <2>9, StoreAssumption DEF AcquireLeaseAtomic, ClaimAdmitted, StoreInv, TypeOK
  <2>10. QED
    BY <1>1, <2>3, <2>4, <2>5, <2>6, <2>7, <2>8, <2>9 DEF Next, ApproveJob,
       QueueDeadlinePasses, PollCandidate, BeginDisable, EnableRunner, AbandonPoll,
       AuthorizeRunnerLease,
       HeartbeatLease, InsertArtifactOnce, ReplayCompletion, ExpireReceipt, Tick,
       ListExpiredRunningJobs, rowVars
<1>2. StoreInv /\ StoreInv' /\ [Next]_vars => [Live]_vars
  BY <1>1
<1>3. QED
  BY <1>2, Invariance, PTL DEF Spec, LiveLeaseUndisturbed
=============================================================================
