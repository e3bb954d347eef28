------------------------- MODULE JobStoreRefinement -------------------------
(***************************************************************************)
(* The job store implements JobLifecycle.  Each transaction is first       *)
(* described by what it does to the status columns of jobs and runs, which *)
(* is where the concurrency is; that description is then mapped to the     *)
(* abstract steps.                                                         *)
(***************************************************************************)
EXTENDS JobStoreProofs

-----------------------------------------------------------------------------
(* The rows the re-evaluation of dependents settles                        *)

\* Dependencies that have ended decide the same from either table.
LEMMA SameOutcome ==
    ASSUME NEW st, NEW view, NEW j \in Jobs, Ready(st, j),
           \A d \in Needs[j] : view[d] = st[d]
    PROVE  Ready(view, j) /\ DependencyOutcome(view, j) = DependencyOutcome(st, j)
BY DEF Ready, DependencyOutcome

\* The outcomes in view reject job j.
RejectedBy(view, j) ==
    /\ Ready(view, j)
    /\ ~ConditionAllows(j, DependencyOutcome(view, j))

\* What a rejected job becomes.
RejectedAs(view, j) ==
    IF DependencyOutcome(view, j) = "success" THEN "skipped" ELSE "blocked"

\* A dependent the re-evaluation settles is rejected by the outcomes in the table
\* it leaves behind, whichever of the two views it was judged on: recomputeDependentTx
\* may read a sibling before or after that sibling is settled itself, and a
\* dependency that had ended by then is not settled again.
LEMMA RejectedRow ==
    ASSUME NEW st \in [Jobs -> JobStatus], NEW S \in SUBSET Jobs, GraphAssumption,
           NEW after \in RecomputeDependents(st, S), NEW j \in Jobs,
           \A d \in Dependents(S) : st[d] # "running", after[j] # st[j]
    PROVE  RejectedBy(after, j) /\ after[j] = RejectedAs(after, j)
<1>1. j \in Dependents(S) /\ st[j] \in Pending
  BY RecomputeForm, RecomputeRow
<1>2. ASSUME NEW view, after[j] = RecomputeDependent(st, view, j)
      PROVE  RejectedBy(view, j) /\ after[j] = RejectedAs(view, j)
  BY <1>1, <1>2 DEF RecomputeDependent, PayloadStatus, Pending, RejectedBy, RejectedAs
<1>3. CASE after[j] = RecomputeDependent(st, after, j)
  BY <1>2, <1>3
<1>4. CASE after[j] = RecomputeDependent(st, st, j)
  <2>1. RejectedBy(st, j) /\ after[j] = RejectedAs(st, j)
    BY <1>2, <1>4
  <2>2. \A d \in Needs[j] : d \in Jobs /\ st[d] \in Terminal
    BY <2>1 DEF RejectedBy, Ready
  <2>3. \A d \in Needs[j] : after[d] = st[d]
    BY <2>2, RecomputeRow DEF Terminal, Pending
  <2>4. QED
    BY <2>1, <2>3, SameOutcome DEF RejectedBy, RejectedAs
<1>5. QED
  BY <1>1, <1>3, <1>4, RecomputeForm

-----------------------------------------------------------------------------
(* What a step does to the rows, and to the runs                           *)

\* The ways the status column of a job moves, with the reason where the abstract
\* lifecycle asks for one.
RowStep(j) ==
    \/ status'[j] = status[j]
    \/ status[j] = "none" /\ status'[j] = InitialStatus(j)
    \/ status[j] = "waiting_approval" /\ status'[j] = "queued"
    \/ /\ status[j] = "queued" /\ status'[j] = "running" /\ Ready(status, j)
       /\ ConditionAllows(j, DependencyOutcome(status, j))
    \/ /\ status[j] = "running"
       /\ status'[j] \in {"queued", "success", "failure", "cancelled", "skipped"}
    \/ status[j] \in Pending /\ status'[j] = "cancelled"
    \/ /\ status[j] \in Pending /\ RejectedBy(status', j)
       /\ status'[j] = RejectedAs(status', j)

\* Nothing of the run ends.
RunQuiet(run) ==
    /\ runStatus'[run] = runStatus[run]
    /\ \A j \in JobsOf(run) : status[j] \notin Terminal => status'[j] \notin Terminal

\* The run is inserted.
RunSubmitted(run) ==
    /\ runStatus[run] = "none" /\ runStatus'[run] = "queued"
    /\ \A j \in JobsOf(run) : status[j] = "none"

\* The run is recomputed from its jobs.
RunRecomputed(run) ==
    /\ runStatus[run] \notin Terminal
    /\ runStatus'[run] = AggregateStatus(status', run)

\* The run and what is left of its jobs are cancelled.
RunCancelled(run) ==
    /\ runStatus[run] \notin Terminal /\ runStatus'[run] = "cancelled"
    /\ \A j \in JobsOf(run) : IF status[j] \in Terminal THEN status'[j] = status[j]
                                                        ELSE status'[j] = "cancelled"

RunStep(run) ==
    RunQuiet(run) \/ RunSubmitted(run) \/ RunRecomputed(run) \/ RunCancelled(run)

TableStep == (\A j \in Jobs : RowStep(j)) /\ (\A run \in Runs : RunStep(run))

-----------------------------------------------------------------------------
(* The invariant, and one lemma per transaction                            *)

\* A run has a verdict only when all its jobs have ended.
VerdictInv == \A run \in Runs : \A j \in JobsOf(run) :
                 runStatus[run] \in Terminal => status[j] \in Terminal

\* The condition a poll evaluated still holds when its claim commits.
PollInv == \A p \in poll : ConditionAllows(p.job, DependencyOutcome(status, p.job))

RefinementInv == StoreInv /\ VerdictInv /\ PollInv

\* Completion, recovery, expiry and revocation: the jobs V move, their waiting
\* dependents may be rejected, and exactly the runs of V are recomputed.  A run
\* with a job that has not ended is not frozen, so it gets the aggregate.
LEMMA SettleTable ==
    ASSUME RefinementInv, NEW V \in SUBSET Jobs, NEW st \in [Jobs -> JobStatus],
           \A j \in V : \/ status[j] \in Pending /\ st[j] = "cancelled"
                        \/ /\ status[j] = "running"
                           /\ st[j] \in {"queued", "success", "failure", "cancelled", "skipped"},
           \A j \in Jobs \ V : st[j] = status[j],
           Propagate(st, V)
    PROVE  TableStep
<1> USE GraphAssumption
<1>1. PICK after \in RecomputeDependents(st, V) :
        /\ status' = after
        /\ runStatus' = [run \in Runs |->
                            IF run \in {RunOf[j] : j \in V}
                              THEN RecomputeRun(runStatus, after, run)
                              ELSE runStatus[run]]
  BY DEF Propagate
<1>2. \A j \in V : status[j] \notin Terminal
  BY DEF Pending, Terminal
<1>3. \A d \in Dependents(V) : status[d] # "running"
  BY <1>2, NoRunningDependent DEF RefinementInv, StoreInv
<1>4. \A d \in Dependents(V) : d \in Jobs /\ st[d] # "running"
  BY <1>3 DEF Pending, Dependents
<1>5. ASSUME NEW j \in Jobs PROVE RowStep(j)
  <2>1. CASE status'[j] = st[j]
    BY <2>1 DEF RowStep
  <2>2. CASE status'[j] # st[j]
    <3>1. RejectedBy(status', j) /\ status'[j] = RejectedAs(status', j)
      BY <1>1, <1>4, <2>2, RejectedRow
    <3>2. j \in Dependents(V) /\ st[j] \in Pending
      BY <1>1, <1>4, <2>2, RecomputeForm, RecomputeRow
    <3>3. status[j] \in Pending
      BY <1>3, <3>2 DEF Pending
    <3>4. QED
      BY <3>1, <3>3 DEF RowStep
  <2>3. QED
    BY <2>1, <2>2
<1>6. ASSUME NEW run \in Runs PROVE RunStep(run)
  <2>1. CASE run \in {RunOf[j] : j \in V}
    <3>1. PICK j \in V : RunOf[j] = run
      BY <2>1
    <3>2. runStatus[run] \notin Terminal
      BY <1>2, <3>1 DEF RefinementInv, VerdictInv, JobsOf
    <3>3. runStatus'[run] = AggregateStatus(status', run)
      BY <1>1, <2>1, <3>2 DEF RecomputeRun, Terminal
    <3>4. QED
      BY <3>2, <3>3 DEF RunStep, RunRecomputed
  <2>2. CASE run \notin {RunOf[j] : j \in V}
    <3>1. runStatus'[run] = runStatus[run]
      BY <1>1, <2>2
    <3>2. \A j \in JobsOf(run) : j \notin V /\ j \notin Dependents(V)
      BY <2>2 DEF JobsOf, Dependents
    <3>3. \A j \in JobsOf(run) : status'[j] = status[j]
      BY <1>1, <3>2, RecomputeForm DEF JobsOf
    <3>4. QED
      BY <3>1, <3>3 DEF RunStep, RunQuiet
  <2>3. QED
    BY <2>1, <2>2
<1>7. QED
  BY <1>5, <1>6 DEF TableStep

\* A step that leaves jobs and runs alone.
LEMMA QuietTable == UNCHANGED <<status, runStatus>> => TableStep
BY DEF TableStep, RowStep, RunStep, RunQuiet

\* A completion, with any result a runner may report.
LEMMA CompleteTable ==
    ASSUME RefinementInv, NEW l \in issued, NEW result \in Results, CompleteJob(l, result)
    PROVE  TableStep
<1> DEFINE st == [status EXCEPT ![l.job] = result]
<1>1. l.job \in Jobs /\ status[l.job] = "running"
  BY DEF RefinementInv, StoreInv, TypeOK, Leases, CompleteJob, LeaseHeld
<1>2. /\ st \in [Jobs -> JobStatus]
      /\ st[l.job] \in {"queued", "success", "failure", "cancelled", "skipped"}
      /\ \A j \in Jobs \ {l.job} : st[j] = status[j]
  BY <1>1, StoreAssumption DEF RefinementInv, StoreInv, TypeOK, JobStatus, Terminal
<1>3. Propagate(st, {l.job})
  BY DEF CompleteJob
<1> HIDE DEF st
<1>4. QED
  BY <1>1, <1>2, <1>3, SettleTable

\* A recovery, or the dropping of a stale candidate.
LEMMA RecoverTable ==
    ASSUME RefinementInv, NEW k \in sweep, RecoverExpiredLease(k)
    PROVE  TableStep
<1> DEFINE st == [status EXCEPT ![k.job] = IF MayRetry(k.job) THEN "queued" ELSE "failure"]
<1>1. CASE Recoverable(k)
  <2>1. k.job \in Jobs /\ status[k.job] = "running"
    BY <1>1 DEF RefinementInv, StoreInv, TypeOK, Recoverable
  <2>2. /\ st \in [Jobs -> JobStatus] /\ st[k.job] \in {"queued", "failure"}
        /\ \A j \in Jobs \ {k.job} : st[j] = status[j]
    BY <2>1 DEF RefinementInv, StoreInv, TypeOK, JobStatus, Terminal, Pending
  <2>3. Propagate(st, {k.job})
    BY <1>1 DEF RecoverExpiredLease
  <2> HIDE DEF st
  <2>4. QED
    BY <2>1, <2>2, <2>3, SettleTable
<1>2. CASE ~Recoverable(k)
  BY <1>2, QuietTable DEF RecoverExpiredLease
<1>3. QED
  BY <1>1, <1>2

\* A queue deadline.
LEMMA ExpireTable ==
    ASSUME RefinementInv, NEW x \in Jobs, ExpireQueuedJob(x)
    PROVE  TableStep
<1> DEFINE st == [status EXCEPT ![x] = "cancelled"]
<1>1. status[x] \in Pending /\ Propagate(st, {x})
  BY DEF ExpireQueuedJob
<1>2. /\ st \in [Jobs -> JobStatus] /\ st[x] = "cancelled"
      /\ \A j \in Jobs \ {x} : st[j] = status[j]
  BY DEF RefinementInv, StoreInv, TypeOK, JobStatus, Terminal
<1> HIDE DEF st
<1>3. QED
  BY <1>1, <1>2, SettleTable

\* A kill switch.
LEMMA DisableTable ==
    ASSUME RefinementInv, NEW k \in disabling, DisableRunner(k)
    PROVE  TableStep
<1> DEFINE revoked == LeasedTo(k.runner) \ k.missed
           retried == {j \in revoked : MayRetry(j)}
           st == [j \in Jobs |-> IF j \in retried THEN "queued"
                                 ELSE IF j \in revoked THEN "cancelled" ELSE status[j]]
<1>1. Propagate(st, revoked)
  BY DEF DisableRunner
<1>2. revoked \in SUBSET Jobs /\ \A j \in revoked : status[j] = "running"
  BY DEF LeasedTo
<1>3. /\ st \in [Jobs -> JobStatus] /\ \A j \in revoked : st[j] \in {"queued", "cancelled"}
      /\ \A j \in Jobs \ revoked : st[j] = status[j]
  BY <1>2 DEF RefinementInv, StoreInv, TypeOK, JobStatus, Terminal, Pending
<1> HIDE DEF revoked, retried, st
<1>4. QED
  BY <1>1, <1>2, <1>3, SettleTable

\* An operator's cancellation; of a run with its verdict it changes nothing.
LEMMA CancelTable ==
    ASSUME RefinementInv, NEW run \in Runs, CancelRunJobs(run)
    PROVE  TableStep
<1>1. /\ runStatus[run] # "none"
      /\ status' = [j \in Jobs |-> IF j \in JobsOf(run) /\ status[j] \notin Terminal
                                     THEN "cancelled" ELSE status[j]]
      /\ runStatus' = [runStatus EXCEPT ![run] = IF @ \in Terminal THEN @ ELSE "cancelled"]
  BY DEF CancelRunJobs, JobsOf
<1>2. ASSUME NEW j \in Jobs PROVE RowStep(j)
  <2>1. j \in JobsOf(run) => status[j] # "none"
    BY <1>1 DEF RefinementInv, StoreInv, RowsExist, JobsOf
  <2>2. status[j] \in JobStatus
    BY DEF RefinementInv, StoreInv, TypeOK
  <2>3. QED
    BY <1>1, <2>1, <2>2 DEF RowStep, JobStatus
<1>3. ASSUME NEW x \in Runs PROVE RunStep(x)
  <2>1. CASE x = run /\ runStatus[run] \notin Terminal
    <3>1. runStatus'[x] = "cancelled"
      BY <1>1, <2>1 DEF RefinementInv, StoreInv, TypeOK
    <3>2. QED
      BY <1>1, <2>1, <3>1 DEF RunStep, RunCancelled, JobsOf
  <2>2. CASE x = run /\ runStatus[run] \in Terminal
    <3>1. runStatus'[x] = runStatus[x]
      BY <1>1, <2>2 DEF RefinementInv, StoreInv, TypeOK
    <3>2. \A j \in JobsOf(x) : status[j] \in Terminal
      BY <2>2 DEF RefinementInv, VerdictInv
    <3>3. QED
      BY <3>1, <3>2 DEF RunStep, RunQuiet
  <2>3. CASE x # run
    <3>1. runStatus'[x] = runStatus[x]
      BY <1>1, <2>3 DEF RefinementInv, StoreInv, TypeOK
    <3>2. \A j \in JobsOf(x) : status'[j] = status[j]
      BY <1>1, <2>3 DEF JobsOf
    <3>3. QED
      BY <3>1, <3>2 DEF RunStep, RunQuiet
  <2>4. QED
    BY <2>1, <2>2, <2>3
<1>4. QED
  BY <1>2, <1>3 DEF TableStep

\* An insertion with the cancellations it causes.
LEMMA InsertTable ==
    ASSUME RefinementInv, NEW run \in Runs, InsertCompiledRun(run)
    PROVE  TableStep
<1> USE GraphAssumption
<1> DEFINE victims == {j \in Jobs : /\ RunOf[j] \in Superseded(run)
                                    /\ status[j] \notin Terminal}
<1>1. /\ runStatus[run] = "none"
      /\ status' = [j \in Jobs |-> IF j \in victims THEN "cancelled"
                                   ELSE IF RunOf[j] = run THEN InitialStatus(j)
                                   ELSE status[j]]
      /\ runStatus' = [x \in Runs |->
                          IF x = run THEN "queued"
                          ELSE IF \E j \in victims : RunOf[j] = x THEN "cancelled"
                          ELSE runStatus[x]]
  BY DEF InsertCompiledRun
<1>2. \A j \in victims : /\ status[j] \in Pending \cup {"running"} /\ RunOf[j] # run
                         /\ runStatus[RunOf[j]] \notin Terminal
  BY DEF Superseded, RefinementInv, StoreInv, TypeOK, RowsExist, JobStatus
<1>3. \A j \in victims, o \in Jobs :
         RunOf[o] = RunOf[j] /\ status[o] \notin Terminal => o \in victims
  OBVIOUS
<1>4. \A j \in Jobs : RunOf[j] = run => status[j] = "none"
  BY <1>1 DEF RefinementInv, StoreInv, RowsExist
<1>5. victims \subseteq Jobs
  OBVIOUS
<1> HIDE DEF victims
<1>6. \A j \in Jobs : RowStep(j)
  BY <1>1, <1>2, <1>4 DEF RowStep
<1>7. ASSUME NEW x \in Runs PROVE RunStep(x)
  <2>1. CASE x = run
    BY <1>1, <1>4, <2>1 DEF RunStep, RunSubmitted, JobsOf
  <2>2. CASE x # run /\ \E j \in victims : RunOf[j] = x
    <3>1. PICK j \in victims : RunOf[j] = x
      BY <2>2
    <3>2. runStatus[x] \notin Terminal /\ runStatus'[x] = "cancelled"
      BY <1>1, <1>2, <2>2, <3>1
    <3>3. \A o \in JobsOf(x) : IF status[o] \in Terminal THEN status'[o] = status[o]
                                                         ELSE status'[o] = "cancelled"
      <4>1. \A o \in victims : status[o] \notin Terminal
        BY <1>2 DEF Pending, Terminal
      <4>2. QED
        BY <1>1, <1>3, <1>5, <2>2, <3>1, <4>1 DEF JobsOf
    <3>4. QED
      BY <3>2, <3>3 DEF RunStep, RunCancelled
  <2>3. CASE x # run /\ ~\E j \in victims : RunOf[j] = x
    BY <1>1, <2>3 DEF RunStep, RunQuiet, JobsOf
  <2>4. QED
    BY <2>1, <2>2, <2>3
<1>8. QED
  BY <1>6, <1>7 DEF TableStep

\* A claim starts a job whose condition was evaluated by an earlier poll.
LEMMA AcquireTable ==
    ASSUME RefinementInv, NEW p \in poll, AcquireLeaseAtomic(p)
    PROVE  TableStep
<1>1. /\ p.job \in Jobs /\ status[p.job] = "queued" /\ Ready(status, p.job)
      /\ ConditionAllows(p.job, DependencyOutcome(status, p.job))
  BY DEF RefinementInv, StoreInv, TypeOK, RunningReady, PollInv, AcquireLeaseAtomic,
     ClaimAdmitted
<1>2. status' = [status EXCEPT ![p.job] = "running"] /\ UNCHANGED runStatus
  BY DEF AcquireLeaseAtomic
<1>3. \A j \in Jobs : status'[j] = IF j = p.job THEN "running" ELSE status[j]
  BY <1>2 DEF RefinementInv, StoreInv, TypeOK
<1>4. \A j \in Jobs : RowStep(j)
  BY <1>1, <1>3 DEF RowStep
<1>5. \A run \in Runs : RunStep(run)
  BY <1>2, <1>3 DEF RunStep, RunQuiet, JobsOf, Terminal
<1>6. QED
  BY <1>4, <1>5 DEF TableStep

\* An approval is not visible.
LEMMA ApproveTable ==
    ASSUME RefinementInv, NEW x \in Jobs, ApproveJob(x)
    PROVE  TableStep
<1>1. /\ status[x] = "waiting_approval" /\ UNCHANGED runStatus
      /\ \A j \in Jobs : status'[j] = IF j = x THEN "queued" ELSE status[j]
  BY DEF ApproveJob, RefinementInv, StoreInv, TypeOK
<1>2. \A j \in Jobs : RowStep(j)
  BY <1>1 DEF RowStep
<1>3. \A run \in Runs : RunStep(run)
  BY <1>1 DEF RunStep, RunQuiet, JobsOf, Terminal
<1>4. QED
  BY <1>2, <1>3 DEF TableStep

\* Every step moves every row and every run in one of these ways.
LEMMA NextTable == ASSUME RefinementInv, [Next]_vars PROVE TableStep
BY InsertTable, CancelTable, ApproveTable, ExpireTable, DisableTable, AcquireTable,
   CompleteTable, RecoverTable, QuietTable DEF Next, QueueDeadlinePasses, PollCandidate,
   EnableRunner, BeginDisable, AbandonPoll, AuthorizeRunnerLease, HeartbeatLease,
   InsertArtifactOnce, ReplayCompletion, ExpireReceipt, Tick, ListExpiredRunningJobs,
   rowVars, vars

\* Verdicts stay behind outcomes, and what a poll evaluated stays true: the
\* dependencies it looked at have ended.
LEMMA RefinementKept == ASSUME RefinementInv, [Next]_vars PROVE RefinementInv'
<1> USE GraphAssumption
<1>1. StoreInv' /\ Moves /\ TableStep
  BY NextKeeps, NextTable DEF RefinementInv
<1>2. \A j \in Jobs : status[j] \in Terminal => status'[j] = status[j]
  BY <1>1 DEF Moves, JobMove, Terminal, Pending
<1>3. VerdictInv'
  <2> SUFFICES ASSUME NEW run \in Runs, NEW j \in JobsOf(run), runStatus'[run] \in Terminal
               PROVE  status'[j] \in Terminal
    BY DEF VerdictInv, JobsOf
  <2>1. j \in Jobs /\ RunStep(run)
    BY <1>1 DEF TableStep, JobsOf
  <2>2. CASE RunQuiet(run)
    BY <1>2, <2>1, <2>2 DEF RunQuiet, RefinementInv, VerdictInv
  <2>3. CASE RunSubmitted(run)
    BY <2>3 DEF RunSubmitted, Terminal
  <2>4. CASE RunRecomputed(run)
    <3>1. {status'[o] : o \in JobsOf(run)} \subseteq Terminal
      BY <2>4 DEF RunRecomputed, AggregateStatus, Terminal
    <3>2. QED
      BY <3>1
  <2>5. CASE RunCancelled(run)
    BY <2>5 DEF RunCancelled, Terminal
  <2>6. QED
    BY <2>1, <2>2, <2>3, <2>4, <2>5 DEF RunStep
<1>4. PollInv'
  <2> SUFFICES ASSUME NEW p \in poll'
               PROVE  ConditionAllows(p.job, DependencyOutcome(status', p.job))
    BY DEF PollInv
  <2>1. /\ p.job \in Jobs /\ Ready(status, p.job)
        /\ ConditionAllows(p.job, DependencyOutcome(status, p.job))
    <3>1. p.job \in Jobs
      BY <1>1 DEF StoreInv, TypeOK
    <3>2. CASE p \in poll
      BY <3>1, <3>2 DEF RefinementInv, PollInv, StoreInv, RunningReady
    <3>3. CASE p \notin poll
      <4>1. PICK r \in Runners, j \in Jobs : PollCandidate(r, j)
        BY <3>3 DEF Next, InsertCompiledRun, CancelRunJobs, ApproveJob,
           QueueDeadlinePasses, ExpireQueuedJob, EnableRunner, BeginDisable,
           DisableRunner, AcquireLeaseAtomic, AbandonPoll, AuthorizeRunnerLease,
           HeartbeatLease, InsertArtifactOnce, CompleteJob, ReplayCompletion,
           ExpireReceipt, Tick, ListExpiredRunningJobs, RecoverExpiredLease,
           clientVars, vars
      <4>2. p.job = j
        BY <3>3, <4>1 DEF PollCandidate
      <4>3. QED
        BY <4>1, <4>2 DEF PollCandidate
    <3>4. QED
      BY <3>2, <3>3
  <2>2. \A d \in Needs[p.job] : status'[d] = status[d]
    BY <1>2, <2>1 DEF Ready
  <2>3. QED
    BY <2>1, <2>2, SameOutcome
<1>5. QED
  BY <1>1, <1>3, <1>4 DEF RefinementInv

-----------------------------------------------------------------------------
(* The refinement                                                          *)

\* The refinement mapping, row by row.
VisibleFacts ==
    /\ \A j \in Jobs : /\ VisibleState[j] \in Terminal <=> status[j] \in Terminal
                       /\ status[j] \in Terminal => VisibleState[j] = status[j]
                       /\ VisibleState[j] = "absent" <=> status[j] = "none"
                       /\ VisibleState[j] = "open" <=> status[j] \in Pending
                       /\ VisibleState[j] = "running" <=> status[j] = "running"
                       /\ VisibleState[j] \in Lifecycle!States
    /\ \A run \in Runs : VisibleVerdict[run] = IF runStatus[run] \in Terminal
                                                 THEN runStatus[run] ELSE "none"

\* How the visible state reads the columns, before and after a step.
LEMMA VisibleRows == (TypeOK => VisibleFacts) /\ (TypeOK' => VisibleFacts')
<1>1. TypeOK => VisibleFacts
  <2> SUFFICES ASSUME TypeOK PROVE VisibleFacts
    OBVIOUS
  <2>1. \A j \in Jobs : VisibleState[j] = JobState(j) /\ status[j] \in JobStatus
    BY DEF VisibleState, TypeOK
  <2>2. QED
    BY <2>1 DEF VisibleFacts, JobState, JobStatus, Terminal, Pending, VisibleVerdict,
       Lifecycle!States, Lifecycle!Terminal
<1>2. QED
  BY <1>1, PTL

\* Ended dependencies look alike in both tables.
LEMMA VisibleOutcome ==
    ASSUME NEW st, NEW visible, NEW j \in Jobs, Ready(st, j),
           \A d \in Jobs : st[d] \in Terminal => visible[d] = st[d]
    PROVE  /\ Lifecycle!Ready(visible, j)
           /\ \A outcome : Lifecycle!ConditionAllows(j, outcome) <=> ConditionAllows(j, outcome)
           /\ Lifecycle!DependencyOutcome(visible, j) = DependencyOutcome(st, j)
<1>1. \A d \in Needs[j] : st[d] \in Terminal /\ visible[d] = st[d]
  BY GraphAssumption DEF Ready
<1>2. Lifecycle!Ready(visible, j)
  BY <1>1 DEF Lifecycle!Ready, Lifecycle!Terminal, Terminal
<1>3. Lifecycle!DependencyOutcome(visible, j) = DependencyOutcome(st, j)
  BY <1>1 DEF Lifecycle!DependencyOutcome, DependencyOutcome
<1>4. QED
  BY <1>2, <1>3 DEF Lifecycle!ConditionAllows, ConditionAllows

\* A row's step is a step of the job in the abstract lifecycle.
LEMMA RowMaps ==
    ASSUME TypeOK, TypeOK', NEW j \in Jobs, RowStep(j)
    PROVE  Lifecycle!JobStep(j)
<1>1. /\ VisibleState[j] = "absent" <=> status[j] = "none"
      /\ VisibleState[j] = "open" <=> status[j] \in Pending
      /\ VisibleState[j] = "running" <=> status[j] = "running"
  BY VisibleRows DEF VisibleFacts
<1>2. /\ status'[j] \in Terminal => VisibleState'[j] = status'[j]
      /\ VisibleState'[j] = "open" <=> status'[j] \in Pending
      /\ VisibleState'[j] = "running" <=> status'[j] = "running"
  BY VisibleRows DEF VisibleFacts
<1>3. CASE status'[j] = status[j]
  BY <1>3 DEF Lifecycle!JobStep, VisibleState, JobState
<1>4. CASE status[j] = "none" /\ status'[j] = InitialStatus(j)
  BY <1>1, <1>2, <1>4 DEF InitialStatus, Pending, Terminal, Lifecycle!JobStep,
     Lifecycle!Submitted
<1>5. CASE status[j] = "waiting_approval" /\ status'[j] = "queued"
  BY <1>1, <1>2, <1>5 DEF Pending, Lifecycle!JobStep
<1>6. CASE /\ status[j] = "queued" /\ status'[j] = "running" /\ Ready(status, j)
           /\ ConditionAllows(j, DependencyOutcome(status, j))
  <2>1. /\ Lifecycle!Ready(VisibleState, j)
        /\ Lifecycle!ConditionAllows(j, Lifecycle!DependencyOutcome(VisibleState, j))
    BY <1>6, VisibleRows, VisibleOutcome DEF VisibleFacts
  <2>2. VisibleState[j] = "open" /\ VisibleState'[j] = "running"
    BY <1>1, <1>2, <1>6 DEF Pending
  <2>3. QED
    BY <2>1, <2>2 DEF Lifecycle!JobStep, Lifecycle!Started
<1>7. CASE /\ status[j] = "running"
           /\ status'[j] \in {"queued", "success", "failure", "cancelled", "skipped"}
  BY <1>1, <1>2, <1>7 DEF Pending, Terminal, Lifecycle!JobStep, Lifecycle!Lost,
     Lifecycle!Finished
<1>8. CASE status[j] \in Pending /\ status'[j] = "cancelled"
  BY <1>1, <1>2, <1>8 DEF Terminal, Lifecycle!JobStep, Lifecycle!Cancelled
<1>9. CASE /\ status[j] \in Pending /\ RejectedBy(status', j)
           /\ status'[j] = RejectedAs(status', j)
  <2>1. Ready(status', j) /\ ~ConditionAllows(j, DependencyOutcome(status', j))
    BY <1>9 DEF RejectedBy
  <2>2. /\ Lifecycle!Ready(VisibleState', j)
        /\ ~Lifecycle!ConditionAllows(j, Lifecycle!DependencyOutcome(VisibleState', j))
        /\ Lifecycle!DependencyOutcome(VisibleState', j) = DependencyOutcome(status', j)
    BY <2>1, VisibleRows, VisibleOutcome DEF VisibleFacts
  <2>3. VisibleState[j] = "open" /\ VisibleState'[j] = RejectedAs(status', j)
    BY <1>1, <1>2, <1>9 DEF RejectedAs, Terminal
  <2>4. QED
    BY <2>2, <2>3 DEF Lifecycle!JobStep, Lifecycle!Rejected, RejectedAs
<1>10. QED
  BY <1>3, <1>4, <1>5, <1>6, <1>7, <1>8, <1>9 DEF RowStep

\* A run's step is a step of its verdict in the abstract lifecycle.
LEMMA RunMaps ==
    ASSUME TypeOK, TypeOK', NEW run \in Runs, RunStep(run)
    PROVE  Lifecycle!VerdictStep(run)
<1> DEFINE decided == \A j \in JobsOf(run) : VisibleState'[j] \in Terminal
           worked == \E j \in JobsOf(run) : VisibleState[j] \in {"open", "running"}
<1>1. /\ Lifecycle!JobsOf(run) = JobsOf(run) /\ JobsOf(run) \subseteq Jobs
      /\ Lifecycle!Terminal = Terminal
  BY DEF Lifecycle!JobsOf, JobsOf, Lifecycle!Terminal, Terminal
<1>2. \A j \in JobsOf(run) : /\ VisibleState'[j] \in Terminal <=> status'[j] \in Terminal
                             /\ status'[j] \in Terminal => VisibleState'[j] = status'[j]
  BY <1>1, VisibleRows DEF VisibleFacts
<1>3. \A j \in JobsOf(run) : /\ VisibleState[j] \in Terminal <=> status[j] \in Terminal
                             /\ status[j] \in Terminal => VisibleState[j] = status[j]
                             /\ VisibleState[j] = "open" <=> status[j] \in Pending
                             /\ VisibleState[j] = "running" <=> status[j] = "running"
                             /\ VisibleState[j] = "absent" <=> status[j] = "none"
  BY <1>1, VisibleRows DEF VisibleFacts
<1>4. /\ VisibleVerdict[run] = IF runStatus[run] \in Terminal THEN runStatus[run] ELSE "none"
      /\ VisibleVerdict'[run] =
           IF runStatus'[run] \in Terminal THEN runStatus'[run] ELSE "none"
  BY VisibleRows DEF VisibleFacts
<1>5. worked => \E j \in JobsOf(run) : status[j] \in Pending \cup {"running"}
  BY <1>3
<1>6. CASE RunQuiet(run)
  <2>1. VisibleVerdict'[run] = VisibleVerdict[run] /\ (~decided \/ ~worked)
    BY <1>2, <1>4, <1>5, <1>6 DEF RunQuiet, Pending, Terminal
  <2>2. QED
    BY <1>1, <2>1 DEF Lifecycle!VerdictStep
<1>7. CASE RunSubmitted(run)
  <2>1. VisibleVerdict'[run] = VisibleVerdict[run] /\ ~worked
    BY <1>4, <1>5, <1>7 DEF RunSubmitted, Pending, Terminal
  <2>2. QED
    BY <1>1, <2>1 DEF Lifecycle!VerdictStep
<1>8. CASE RunRecomputed(run)
  <2>1. VisibleVerdict[run] = "none"
    BY <1>4, <1>8 DEF RunRecomputed
  <2>2. CASE decided
    <3>1. \A j \in JobsOf(run) : status'[j] \in Terminal /\ VisibleState'[j] = status'[j]
      BY <1>2, <2>2
    <3>2. {VisibleState'[j] : j \in JobsOf(run)} = {status'[j] : j \in JobsOf(run)}
      BY <3>1
    <3>3. AggregateStatus(status', run) \in Terminal
      BY <3>1 DEF AggregateStatus, Terminal
    <3>4. Lifecycle!AggregateStatus(VisibleState', run) = AggregateStatus(status', run)
      BY <1>1, <3>2 DEF Lifecycle!AggregateStatus, AggregateStatus
    <3>5. VisibleVerdict'[run] = Lifecycle!AggregateStatus(VisibleState', run)
      BY <1>4, <1>8, <3>3, <3>4 DEF RunRecomputed
    <3>6. QED
      BY <1>1, <2>1, <2>2, <3>5 DEF Lifecycle!VerdictStep
  <2>3. CASE ~decided
    <3>1. \E j \in JobsOf(run) : status'[j] \notin Terminal
      BY <1>2, <2>3
    <3>2. AggregateStatus(status', run) \notin Terminal
      BY <3>1 DEF AggregateStatus, Terminal
    <3>3. VisibleVerdict'[run] = VisibleVerdict[run]
      BY <1>4, <1>8, <2>1, <3>2 DEF RunRecomputed
    <3>4. QED
      BY <1>1, <2>3, <3>3 DEF Lifecycle!VerdictStep
  <2>4. QED
    BY <2>2, <2>3
<1>9. CASE RunCancelled(run)
  <2>1. VisibleVerdict[run] = "none" /\ VisibleVerdict'[run] = "cancelled"
    BY <1>4, <1>9 DEF RunCancelled, Terminal
  <2>2. decided
    BY <1>2, <1>9 DEF RunCancelled, Terminal
  <2>3. worked => \E j \in JobsOf(run) : /\ VisibleState[j] # "cancelled"
                                         /\ VisibleState'[j] = "cancelled"
    BY <1>2, <1>3, <1>9 DEF RunCancelled, Terminal, Pending
  <2>4. QED
    BY <1>1, <2>1, <2>2, <2>3 DEF Lifecycle!VerdictStep
<1>10. QED
  BY <1>6, <1>7, <1>8, <1>9 DEF RunStep

\* The invariant of the refinement holds of every reachable state.
THEOREM RefinementInvariance == Spec => []RefinementInv
<1>1. Init => RefinementInv
  <2> SUFFICES ASSUME Init PROVE RefinementInv
    OBVIOUS
  <2>1. VerdictInv /\ PollInv
    BY DEF Init, VerdictInv, PollInv, Terminal
  <2>2. QED
    BY <2>1, InitInv DEF RefinementInv
<1>2. RefinementInv /\ [Next]_vars => RefinementInv'
  BY RefinementKept
<1>3. QED
  BY <1>1, <1>2, PTL DEF Spec

\* The job store implements the lifecycle its users see, for every job graph,
\* runner set and limit: every transaction, in any order, is a step the abstract
\* specification allows or is invisible in it.
THEOREM StoreImplementsLifecycle == Spec => ImplementsLifecycle
<1>1. Init => Lifecycle!Init
  BY GraphAssumption DEF Init, Lifecycle!Init, VisibleState, JobState, VisibleVerdict, Terminal
<1>2. RefinementInv /\ RefinementInv' /\ [Next]_vars
        => [Lifecycle!Next]_<<VisibleState, VisibleVerdict>>
  <2> SUFFICES ASSUME RefinementInv, RefinementInv', [Next]_vars PROVE Lifecycle!Next
    OBVIOUS
  <2>1. TypeOK /\ TypeOK' /\ TableStep
    BY NextTable DEF RefinementInv, StoreInv
  <2>2. VisibleState' \in [Jobs -> Lifecycle!States]
    <3>1. \A j \in Jobs : VisibleState'[j] \in Lifecycle!States
      BY <2>1, VisibleRows DEF VisibleFacts
    <3>2. QED
      BY <3>1 DEF VisibleState
  <2>3. VisibleVerdict' \in [Runs -> {"none"} \cup Lifecycle!Terminal]
    BY DEF VisibleVerdict, Lifecycle!Terminal, Terminal
  <2>4. \A j \in Jobs : Lifecycle!JobStep(j)
    BY <2>1, RowMaps DEF TableStep
  <2>5. \A run \in Runs : Lifecycle!VerdictStep(run)
    BY <2>1, RunMaps DEF TableStep
  <2>6. QED
    BY <2>2, <2>3, <2>4, <2>5 DEF Lifecycle!Next
<1>3. QED
  BY <1>1, <1>2, RefinementInvariance, PTL DEF Spec, ImplementsLifecycle, Lifecycle!Spec
=============================================================================
