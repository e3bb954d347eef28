------------------------------ MODULE JobStore ------------------------------
(***************************************************************************)
(* The database-mode job lifecycle of the control plane: the jobs, runs,   *)
(* runners, quota_reservations, job_resource_reservations,                 *)
(* completion_receipts and artifacts tables, with one action for each      *)
(* transaction that changes them.  The store locks the job row first and   *)
(* holds every row it writes until commit, so a transaction is one step;   *)
(* what is NOT one step with it is modelled apart: the candidate read a    *)
(* runner's poll makes before its claim, the lease authorization a request *)
(* passes before its transaction, the sweep's discovery of expired leases  *)
(* before each recovery, the kill switch's listing of a runner's leases,   *)
(* and the acknowledgement of a completion.                                *)
(***************************************************************************)
EXTENDS JobGraph, FiniteSetsExt

CONSTANTS
    Runners,
    NoRunner,           \* the NULL of jobs.lease_runner_id
    Administered,       \* runners an operator may take out of service
    Results,            \* the outcomes a runner may report for an attempt
    ApprovalRequired,   \* jobs with a manual approval gate
    BranchDenied,       \* jobs whose environment refuses the run's ref
    HasDeadline,        \* jobs with a queue_timeout
    RequiresArtifact,   \* jobs with a required artifact contract
    Environment,        \* the deployment environment of a job, or ""
    EnvConcurrency,     \* running jobs an environment admits; 0 is unlimited
    CancelInProgress,   \* runs of the one concurrency group that supersede
    Capacity,           \* job slots of each runner
    Request,            \* resource units a job asks for
    ResourceCapacity,   \* resource units of each runner; 0 is unconstrained
    RepoConcurrency,    \* running jobs the repository may hold; 0 is unlimited
    RepoQueueDepth,     \* queued jobs the repository may hold; 0 is unlimited
    MaxInfraRetries,    \* attempts that may be lost and retried
    LeaseTTL,           \* ticks a lease lives without a heartbeat
    MaxPolls            \* polls of one runner the server may be working on

ASSUME StoreAssumption ==
    /\ NoRunner \notin Runners /\ Administered \subseteq Runners
    /\ Results \subseteq {"success", "failure", "cancelled", "skipped"}
    /\ ApprovalRequired \subseteq Jobs /\ BranchDenied \subseteq Jobs
    /\ HasDeadline \subseteq Jobs /\ RequiresArtifact \subseteq Jobs
    /\ Environment \in [Jobs -> STRING] /\ EnvConcurrency \in Nat
    /\ CancelInProgress \subseteq Runs
    /\ Capacity \in [Runners -> Nat]
    /\ Request \in [Jobs -> Nat] /\ ResourceCapacity \in [Runners -> Nat]
    /\ RepoConcurrency \in Nat /\ RepoQueueDepth \in Nat
    /\ MaxInfraRetries \in Nat /\ LeaseTTL \in Nat \ {0}
    /\ MaxPolls \in Nat

VARIABLES
    \* jobs: the columns of a row
    status, leaseRunner, leaseGen, attempts, ttl, approved, overdue,
    \* runs, runners, reservations
    runStatus, active, disabled, ledger, quotaRunning, quotaQueued,
    \* completion_receipts, outbox, artifacts
    receipts, outbox, artifacts,
    \* state outside the database: candidates read by polls and by the sweep,
    \* leases handed to runners, requests past authorization, results answered
    \* OK, kill switches under way with the claims they have missed
    poll, sweep, issued, authorized, acked, disabling

rowVars == <<status, leaseRunner, leaseGen, attempts, ttl, approved, overdue>>
quotaVars == <<quotaRunning, quotaQueued>>
evidenceVars == <<receipts, outbox, artifacts>>
clientVars == <<poll, sweep, issued, authorized, acked, disabling>>
vars == <<rowVars, runStatus, active, disabled, ledger, quotaVars, evidenceVars,
          clientVars>>

\* A lease as its runner holds it.  The token is fresh for every claim; the
\* row's attempts counter, which every claim increments, stands for it.
Leases == [job : Jobs, runner : Runners, gen : Nat, token : Nat]

LeasedTo(r) == {j \in Jobs : status[j] = "running" /\ leaseRunner[j] = r}

Running == {j \in Jobs : status[j] = "running"}

Init ==
    /\ status = [j \in Jobs |-> "none"]
    /\ leaseRunner = [j \in Jobs |-> NoRunner]
    /\ leaseGen = [j \in Jobs |-> 0]
    /\ attempts = [j \in Jobs |-> 0]
    /\ ttl = [j \in Jobs |-> 0]
    /\ approved = {} /\ overdue = {}
    /\ runStatus = [run \in Runs |-> "none"]
    /\ active = [r \in Runners |-> {}]
    /\ disabled = {} /\ ledger = {}
    /\ quotaRunning = 0 /\ quotaQueued = 0
    /\ receipts = {} /\ outbox = {} /\ artifacts = {}
    /\ poll = {} /\ sweep = {} /\ issued = {} /\ authorized = {} /\ acked = {}
    /\ disabling = {}

-----------------------------------------------------------------------------
(* Shared steps of the transactions                                        *)

\* GREATEST(a - b, 0)
Minus(a, b) == IF a >= b THEN a - b ELSE 0

\* Fault: a queued unit is returned from both counters.
AdjustQuotaTwice(doneRunning, doneQueued, requeued) ==
    /\ quotaRunning' = Minus(quotaRunning, doneRunning + doneQueued)
    /\ quotaQueued' = Minus(quotaQueued, doneQueued) + requeued

\* Fault: a lost attempt does not count as queued again.
AdjustQuotaRequeueForgotten(doneRunning, doneQueued, requeued) ==
    /\ requeued \in Nat
    /\ quotaRunning' = Minus(quotaRunning, doneRunning)
    /\ quotaQueued' = Minus(quotaQueued, doneQueued)

\* Fault: one unit is returned, however many leases end.
AdjustQuotaByOne(doneRunning, doneQueued, requeued) ==
    /\ quotaRunning' = Minus(quotaRunning, IF doneRunning > 0 THEN 1 ELSE 0)
    /\ quotaQueued' = Minus(quotaQueued, doneQueued) + requeued

AdjustQuota(doneRunning, doneQueued, requeued) ==
    /\ quotaRunning' = Minus(quotaRunning, doneRunning)
    /\ quotaQueued' = Minus(quotaQueued, doneQueued) + requeued

\* Fault: a lease that is cleared keeps its runner's slot.
ReleaseRunnerSlotsForgotten(V) == V \subseteq Jobs /\ active' = active

ReleaseRunnerSlots(V) ==
    active' = [r \in Runners |-> active[r] \ {j \in V : leaseRunner[j] = r}]

\* Fault: the reservation is left for the sweep to find.
ReleaseResourcesForgotten(V) == V \subseteq Jobs /\ ledger' = ledger

ReleaseResources(V) == ledger' = {row \in ledger : row.job \notin V}

\* lease_runner_id, lease_token_hash and lease_expires_at become NULL;
\* lease_generation and attempts keep their values.
ClearLeases(V) ==
    /\ leaseRunner' = [j \in Jobs |-> IF j \in V THEN NoRunner ELSE leaseRunner[j]]
    /\ ttl' = [j \in Jobs |-> IF j \in V THEN 0 ELSE ttl[j]]

ReleaseLeases(V) ==
    /\ ClearLeases(V)
    /\ ReleaseRunnerSlots(V)
    /\ ReleaseResources(V)

\* Fault: the run is not recomputed.
PropagateJobsOnly(st, moved) ==
    /\ status' \in RecomputeDependents(st, moved)
    /\ runStatus' = runStatus

\* The dependents of the moved jobs and the runs of the affected jobs are
\* recomputed in the transaction that moved them.
Propagate(st, moved) ==
    \E after \in RecomputeDependents(st, moved) :
        /\ status' = after
        /\ runStatus' = [run \in Runs |->
                            IF run \in {RunOf[j] : j \in moved}
                              THEN RecomputeRun(runStatus, after, run)
                              ELSE runStatus[run]]

-----------------------------------------------------------------------------
(* Submission                                                              *)

InitialStatus(j) ==
    IF j \in BranchDenied THEN "blocked"
    ELSE IF j \in ApprovalRequired THEN "waiting_approval" ELSE "queued"

Superseded(run) ==
    IF run \in CancelInProgress
      THEN {other \in Runs \ {run} : runStatus[other] \notin Terminal \cup {"none"}}
      ELSE {}

\* Every pending dependent of a superseded job belongs to the same run and is
\* itself cancelled, so the recomputation of dependents finds nothing to do.
InsertCompiledRun(run) ==
    LET victims == {j \in Jobs : /\ RunOf[j] \in Superseded(run)
                                 /\ status[j] \notin Terminal}
        stopped == victims \cap Running
        left == Minus(quotaRunning, Cardinality(stopped))
        depth == Minus(quotaQueued, Cardinality(victims \ stopped))
                   + Cardinality(JobsOf(run))
    IN  /\ runStatus[run] = "none"
        /\ RepoConcurrency > 0 => left < RepoConcurrency
        /\ RepoQueueDepth > 0 => depth <= RepoQueueDepth
        /\ quotaRunning' = left /\ quotaQueued' = depth
        /\ status' = [j \in Jobs |-> IF j \in victims THEN "cancelled"
                                     ELSE IF RunOf[j] = run THEN InitialStatus(j)
                                     ELSE status[j]]
        /\ runStatus' = [x \in Runs |->
                            IF x = run THEN "queued"
                            ELSE IF \E j \in victims : RunOf[j] = x THEN "cancelled"
                            ELSE runStatus[x]]
        /\ ReleaseLeases(victims)
        /\ UNCHANGED <<leaseGen, attempts, approved, overdue, disabled,
                       evidenceVars, clientVars>>

ApproveJob(j) ==
    /\ j \in ApprovalRequired
    /\ status[j] = "waiting_approval"
    /\ status' = [status EXCEPT ![j] = "queued"]
    /\ approved' = approved \cup {j}
    /\ UNCHANGED <<leaseRunner, leaseGen, attempts, ttl, overdue, runStatus,
                   active, disabled, ledger, quotaVars, evidenceVars, clientVars>>

-----------------------------------------------------------------------------
(* Lease acquisition                                                       *)

RunEligible(j) == runStatus[RunOf[j]] \notin Terminal

EnvironmentHasRoom(j) ==
    (Environment[j] # "" /\ EnvConcurrency > 0) =>
        Cardinality({o \in Running \ {j} : Environment[o] = Environment[j]})
            < EnvConcurrency

\* Only rows that still describe a live lease count against a runner.
ReservedOn(r, except) ==
    {row.job : row \in {x \in ledger : /\ x.runner = r /\ x.job # except
                                       /\ status[x.job] = "running"
                                       /\ leaseRunner[x.job] # NoRunner
                                       /\ leaseGen[x.job] = x.gen}}

\* The resource units the jobs of S ask for together.
RequestedUnits(S) == MapThenSumSet(LAMBDA o : Request[o], S)

ResourcesFit(r, j) ==
    ResourceCapacity[r] > 0 =>
        RequestedUnits(ReservedOn(r, j)) + Request[j] <= ResourceCapacity[r]

RunnerHasRoom(r) == r \notin disabled /\ Cardinality(active[r]) < Capacity[r]

\* The scheduler reads a candidate without a lock, with the generation its
\* claim will use, and evaluates the dependencies and the condition once.  An
\* unready job is never claimed, so its generation at the candidate read and
\* at the dependency read agree and the two reads are one step.  The agent
\* polls in a loop, but a poll it gave up may still be under way in the server
\* when the next one arrives: slot tells the polls of a runner apart.
PollCandidate(r, j) ==
    /\ status[j] = "queued" /\ j \notin overdue /\ RunEligible(j)
    /\ RunnerHasRoom(r) /\ EnvironmentHasRoom(j) /\ ResourcesFit(r, j)
    /\ Ready(status, j)
    /\ ConditionAllows(j, DependencyOutcome(status, j))
    /\ \E n \in 1..MaxPolls :
          /\ \A p \in poll : <<p.runner, p.slot>> # <<r, n>>
          /\ poll' = poll \cup
                 {[runner |-> r, slot |-> n, job |-> j, gen |-> leaseGen[j]]}
    /\ UNCHANGED <<rowVars, runStatus, active, disabled, ledger, quotaVars,
                   evidenceVars, sweep, issued, authorized, acked, disabling>>

ClaimGeneration(p) == p.gen + 1

\* Fault: the claim trusts the environment's room the poll has seen.
ClaimAdmittedAsPolled(p) ==
    /\ status[p.job] = "queued"
    /\ p.job \notin overdue
    /\ RunEligible(p.job)
    /\ RunnerHasRoom(p.runner)
    /\ ResourcesFit(p.runner, p.job)
    /\ RepoConcurrency > 0 => quotaRunning < RepoConcurrency

ClaimAdmitted(p) ==
    /\ status[p.job] = "queued"
    /\ p.job \notin overdue
    /\ RunEligible(p.job)
    /\ EnvironmentHasRoom(p.job)
    /\ RunnerHasRoom(p.runner)
    /\ ResourcesFit(p.runner, p.job)
    /\ RepoConcurrency > 0 => quotaRunning < RepoConcurrency

\* The claim stores the generation computed from the candidate read; nothing
\* compares it with the row.
AcquireLeaseAtomic(p) ==
    LET j == p.job  r == p.runner  g == ClaimGeneration(p)
    IN  /\ p \in poll /\ ClaimAdmitted(p)
        /\ status' = [status EXCEPT ![j] = "running"]
        /\ leaseRunner' = [leaseRunner EXCEPT ![j] = r]
        /\ leaseGen' = [leaseGen EXCEPT ![j] = g]
        /\ attempts' = [attempts EXCEPT ![j] = @ + 1]
        /\ ttl' = [ttl EXCEPT ![j] = LeaseTTL]
        /\ ledger' = {row \in ledger : row.job # j}
                       \cup {[job |-> j, runner |-> r, gen |-> g]}
        /\ quotaRunning' = quotaRunning + 1
        /\ quotaQueued' = Minus(quotaQueued, 1)
        /\ active' = [active EXCEPT ![r] = @ \cup {j}]
        /\ poll' = poll \ {p}
        /\ issued' = issued \cup
               {[job |-> j, runner |-> r, gen |-> g, token |-> attempts[j] + 1]}
        /\ disabling' = {IF k.runner = r THEN [k EXCEPT !.missed = @ \cup {j}] ELSE k :
                            k \in disabling}
        /\ UNCHANGED <<approved, overdue, runStatus, disabled, evidenceVars,
                       sweep, authorized, acked>>

\* A refused claim, or a poll whose request failed: the runner polls again.
AbandonPoll(p) ==
    /\ p \in poll
    /\ poll' = poll \ {p}
    /\ UNCHANGED <<rowVars, runStatus, active, disabled, ledger, quotaVars,
                   evidenceVars, sweep, issued, authorized, acked, disabling>>

-----------------------------------------------------------------------------
(* Requests made under a lease                                             *)

\* The request gate: the only place the token is compared.
AuthorizeRunnerLease(l) ==
    /\ l \in issued \ authorized
    /\ status[l.job] = "running" /\ leaseRunner[l.job] = l.runner
    /\ leaseGen[l.job] = l.gen /\ attempts[l.job] = l.token /\ ttl[l.job] > 0
    /\ authorized' = authorized \cup {l}
    /\ UNCHANGED <<rowVars, runStatus, active, disabled, ledger, quotaVars,
                   evidenceVars, poll, sweep, issued, acked, disabling>>

\* Fault: the expiry is checked at the request gate only.
LeaseHeldIgnoringExpiry(l) ==
    /\ status[l.job] = "running"
    /\ leaseRunner[l.job] = l.runner
    /\ leaseGen[l.job] = l.gen

\* The predicate every commit re-evaluates on the locked row.  Any number of
\* requests that passed the gate may still be waiting for it.
LeaseHeld(l) ==
    /\ status[l.job] = "running"
    /\ leaseRunner[l.job] = l.runner
    /\ leaseGen[l.job] = l.gen
    /\ ttl[l.job] > 0

\* Fault: the expiry is moved on by the TTL instead of set to now plus the TTL.
HeartbeatLeaseAdds(l) ==
    /\ l \in authorized /\ LeaseHeld(l)
    /\ ttl' = [ttl EXCEPT ![l.job] = @ + LeaseTTL]
    /\ UNCHANGED <<status, leaseRunner, leaseGen, attempts, approved, overdue,
                   runStatus, active, disabled, ledger, quotaVars, evidenceVars,
                   clientVars>>

HeartbeatLease(l) ==
    /\ l \in authorized /\ LeaseHeld(l)
    /\ ttl' = [ttl EXCEPT ![l.job] = LeaseTTL]
    /\ UNCHANGED <<status, leaseRunner, leaseGen, attempts, approved, overdue,
                   runStatus, active, disabled, ledger, quotaVars, evidenceVars,
                   clientVars>>

\* One artifact per (job, generation); token records which claim stored it.
InsertArtifactOnce(l) ==
    /\ l \in authorized /\ LeaseHeld(l)
    /\ \A a \in artifacts : <<a.job, a.gen>> # <<l.job, l.gen>>
    /\ artifacts' = artifacts \cup
           {[job |-> l.job, gen |-> l.gen, token |-> l.token]}
    /\ UNCHANGED <<rowVars, runStatus, active, disabled, ledger, quotaVars,
                   receipts, outbox, clientVars>>

RequiredArtifactPresent(l) ==
    l.job \in RequiresArtifact =>
        \E a \in artifacts : a.job = l.job /\ a.gen = l.gen

ReceiptOf(l, result) ==
    [job |-> l.job, gen |-> l.gen, runner |-> l.runner, result |-> result]

\* The answer may be lost after the commit: the runner then repeats the
\* request (ReplayCompletion).
CompleteJob(l, result) ==
    LET j == l.job
    IN  /\ l \in authorized /\ LeaseHeld(l)
        /\ result = "success" => RequiredArtifactPresent(l)
        /\ \A rc \in receipts :
               <<rc.job, rc.gen, rc.runner>> # <<j, l.gen, l.runner>>
        /\ [job |-> j, gen |-> l.gen] \notin outbox
        /\ Propagate([status EXCEPT ![j] = result], {j})
        /\ ReleaseLeases({j})
        /\ AdjustQuota(1, 0, 0)
        /\ receipts' = receipts \cup {ReceiptOf(l, result)}
        /\ outbox' = outbox \cup {[job |-> j, gen |-> l.gen]}
        /\ acked' = acked \cup {ReceiptOf(l, result)}
        /\ UNCHANGED <<leaseGen, attempts, approved, overdue, disabled, artifacts,
                       poll, sweep, issued, authorized, disabling>>

\* Fault: any result matches the receipt of its key.
ReplayMatchesKey(rc, l, result) == rc = ReceiptOf(l, rc.result) /\ result \in Results

\* A repeated completion is answered from its receipt, before the token is
\* looked at; a different result under the same key is refused.
ReplayMatches(rc, l, result) == rc = ReceiptOf(l, result)

ReplayCompletion(l, result) ==
    /\ l \in issued
    /\ \E rc \in receipts : ReplayMatches(rc, l, result)
    /\ acked' = acked \cup {ReceiptOf(l, result)}
    /\ UNCHANGED <<rowVars, runStatus, active, disabled, ledger, quotaVars,
                   evidenceVars, poll, sweep, issued, authorized, disabling>>

\* Receipts past their retention are pruned.
ExpireReceipt(rc) ==
    /\ rc \in receipts
    /\ receipts' = receipts \ {rc}
    /\ UNCHANGED <<rowVars, runStatus, active, disabled, ledger, quotaVars,
                   outbox, artifacts, clientVars>>

-----------------------------------------------------------------------------
(* Time, recovery, cancellation and runner administration                  *)

Tick ==
    /\ \E j \in Jobs : ttl[j] > 0
    /\ ttl' = [j \in Jobs |-> Minus(ttl[j], 1)]
    /\ UNCHANGED <<status, leaseRunner, leaseGen, attempts, approved, overdue,
                   runStatus, active, disabled, ledger, quotaVars, evidenceVars,
                   clientVars>>

\* One page of the leader's sweep: the expired leases with the generation
\* each was seen at.
ListExpiredRunningJobs ==
    LET page == {[job |-> j, gen |-> leaseGen[j]] : j \in {x \in Running : ttl[x] = 0}}
    IN  /\ ~(page \subseteq sweep)
        /\ sweep' = sweep \cup page
        /\ UNCHANGED <<rowVars, runStatus, active, disabled, ledger, quotaVars,
                       evidenceVars, poll, issued, authorized, acked, disabling>>

\* Fault: the expiry is not read again under the row lock.
RecoverableAsSeen(c) ==
    /\ status[c.job] = "running"
    /\ leaseGen[c.job] = c.gen

\* Fault: the generation compared is the next one.
RecoverableNextGeneration(c) ==
    /\ status[c.job] = "running"
    /\ leaseGen[c.job] = c.gen + 1
    /\ ttl[c.job] = 0

Recoverable(c) ==
    /\ status[c.job] = "running"
    /\ leaseGen[c.job] = c.gen
    /\ ttl[c.job] = 0

\* Fault: off by one.
MayRetryOnceMore(j) == attempts[j] <= MaxInfraRetries + 1

\* A claim consumed the attempt; recovery only reads the budget.
MayRetry(j) == attempts[j] <= MaxInfraRetries

\* A candidate that is not recoverable any more is dropped.
RecoverExpiredLease(c) ==
    LET j == c.job
        retry == MayRetry(j)
    IN  /\ c \in sweep
        /\ sweep' = sweep \ {c}
        /\ IF Recoverable(c)
             THEN /\ Propagate([status EXCEPT ![j] =
                                  IF retry THEN "queued" ELSE "failure"], {j})
                  /\ ReleaseLeases({j})
                  /\ AdjustQuota(1, 0, IF retry THEN 1 ELSE 0)
             ELSE UNCHANGED <<status, leaseRunner, ttl, runStatus, active, ledger,
                              quotaVars>>
        /\ UNCHANGED <<leaseGen, attempts, approved, overdue, disabled,
                       evidenceVars, poll, issued, authorized, acked, disabling>>

\* The deadline is fixed when the job is inserted; a requeue does not move it.
QueueDeadlinePasses(j) ==
    /\ j \in HasDeadline \ overdue
    /\ status[j] \in Pending \cup {"running"}
    /\ overdue' = overdue \cup {j}
    /\ UNCHANGED <<status, leaseRunner, leaseGen, attempts, ttl, approved,
                   runStatus, active, disabled, ledger, quotaVars, evidenceVars,
                   clientVars>>

ExpireQueuedJob(j) ==
    /\ status[j] \in Pending
    /\ j \in overdue
    /\ Propagate([status EXCEPT ![j] = "cancelled"], {j})
    /\ ReleaseLeases({j})
    /\ AdjustQuota(0, 1, 0)
    /\ UNCHANGED <<leaseGen, attempts, approved, overdue, disabled, evidenceVars,
                   clientVars>>

\* An operator cancels every non-terminal job of the run and then the run.
CancelRunJobs(run) ==
    LET victims == {j \in JobsOf(run) : status[j] \notin Terminal}
        stopped == victims \cap Running
    IN  /\ runStatus[run] # "none"
        /\ victims # {} \/ runStatus[run] \notin Terminal
        /\ status' = [j \in Jobs |-> IF j \in victims THEN "cancelled" ELSE status[j]]
        /\ runStatus' = [runStatus EXCEPT ![run] =
                            IF @ \in Terminal THEN @ ELSE "cancelled"]
        /\ ReleaseLeases(victims)
        /\ AdjustQuota(Cardinality(stopped), Cardinality(victims \ stopped), 0)
        /\ UNCHANGED <<leaseGen, attempts, approved, overdue, disabled,
                       evidenceVars, clientVars>>

\* The kill switch first selects and locks the running leases of the runner,
\* and only then waits for the runner row.  A claim of the runner that commits
\* in between (AcquireLeaseAtomic) is missed.
BeginDisable(r) ==
    /\ disabling' = {d \in disabling : d.runner # r} \cup
           {[runner |-> r, missed |-> {}]}
    /\ UNCHANGED <<rowVars, runStatus, active, disabled, ledger, quotaVars,
                   evidenceVars, poll, sweep, issued, authorized, acked>>

\* The flag and the revocation of the selected leases commit together.
DisableRunner(d) ==
    LET revoked == LeasedTo(d.runner) \ d.missed
        retried == {j \in revoked : MayRetry(j)}
        after == [j \in Jobs |-> IF j \in retried THEN "queued"
                                 ELSE IF j \in revoked THEN "cancelled"
                                 ELSE status[j]]
    IN  /\ d \in disabling
        /\ disabling' = disabling \ {d}
        /\ disabled' = disabled \cup {d.runner}
        /\ Propagate(after, revoked)
        /\ ReleaseLeases(revoked)
        /\ AdjustQuota(Cardinality(revoked), 0, Cardinality(retried))
        /\ UNCHANGED <<leaseGen, attempts, approved, overdue, evidenceVars,
                       poll, sweep, issued, authorized, acked>>

EnableRunner(r) ==
    /\ r \in disabled
    /\ disabled' = disabled \ {r}
    /\ UNCHANGED <<rowVars, runStatus, active, ledger, quotaVars, evidenceVars,
                   clientVars>>

-----------------------------------------------------------------------------
Next ==
    \/ \E run \in Runs : InsertCompiledRun(run) \/ CancelRunJobs(run)
    \/ \E j \in Jobs : \/ ApproveJob(j)
                       \/ QueueDeadlinePasses(j) \/ ExpireQueuedJob(j)
    \/ \E r \in Runners : \/ \E j \in Jobs : PollCandidate(r, j)
                          \/ EnableRunner(r)
    \/ \E r \in Administered : BeginDisable(r)
    \/ \E k \in disabling : DisableRunner(k)
    \/ \E p \in poll : AcquireLeaseAtomic(p) \/ AbandonPoll(p)
    \/ \E l \in issued : \/ AuthorizeRunnerLease(l)
                         \/ HeartbeatLease(l) \/ InsertArtifactOnce(l)
                         \/ \E result \in Results :
                               CompleteJob(l, result) \/ ReplayCompletion(l, result)
    \/ \E rc \in receipts : ExpireReceipt(rc)
    \/ Tick
    \/ ListExpiredRunningJobs
    \/ \E c \in sweep : RecoverExpiredLease(c)

Spec == Init /\ [][Next]_vars

\* Runners keep polling, a poll ends (the agent's request has a timeout), and a
\* candidate that can be claimed again and again is claimed in the end; time
\* passes; the leader's sweep runs periodically; an
\* executor that keeps its lease alive ends the attempt (job timeout).  A
\* runner may crash at any time: nothing it does is assumed but the last.
Fairness ==
    /\ \A r \in Runners, j \in Jobs :
          /\ SF_vars(PollCandidate(r, j))
          /\ SF_vars(\E p \in poll : p.runner = r /\ p.job = j /\ AcquireLeaseAtomic(p))
    /\ \A r \in Runners : WF_vars(\E p \in poll : p.runner = r /\ AbandonPoll(p))
    /\ \A j \in Jobs :
          /\ WF_vars(\E l \in authorized : l.job = j /\ \E result \in Results :
                        CompleteJob(l, result))
          /\ WF_vars(\E k \in sweep : k.job = j /\ RecoverExpiredLease(k))
          /\ WF_vars(QueueDeadlinePasses(j))
          /\ WF_vars(ExpireQueuedJob(j))
    /\ WF_vars(Tick)
    /\ WF_vars(ListExpiredRunningJobs)

FairSpec == Spec /\ Fairness

-----------------------------------------------------------------------------
(* Properties                                                              *)

\* Every column and every record has its type; no lease lives longer than the
\* TTL from the last claim or heartbeat.
TypeOK ==
    /\ status \in [Jobs -> JobStatus]
    /\ leaseRunner \in [Jobs -> Runners \cup {NoRunner}]
    /\ leaseGen \in [Jobs -> Nat] /\ attempts \in [Jobs -> Nat]
    /\ ttl \in [Jobs -> 0..LeaseTTL]
    /\ approved \subseteq Jobs /\ overdue \subseteq Jobs
    /\ runStatus \in [Runs -> JobStatus]
    /\ active \in [Runners -> SUBSET Jobs]
    /\ disabled \subseteq Runners
    /\ ledger \subseteq [job : Jobs, runner : Runners, gen : Nat]
    /\ quotaRunning \in Nat /\ quotaQueued \in Nat
    /\ receipts \subseteq [job : Jobs, gen : Nat, runner : Runners, result : Results]
    /\ outbox \subseteq [job : Jobs, gen : Nat]
    /\ artifacts \subseteq [job : Jobs, gen : Nat, token : Nat]
    /\ poll \subseteq [runner : Runners, slot : 1..MaxPolls, job : Jobs, gen : Nat]
    /\ sweep \subseteq [job : Jobs, gen : Nat]
    /\ issued \subseteq Leases /\ authorized \subseteq issued
    /\ acked \subseteq [job : Jobs, gen : Nat, runner : Runners, result : Results]
    /\ disabling \subseteq [runner : Runners, missed : SUBSET Jobs]

\* The lease columns, the runner's active_jobs and the reservation ledger are
\* three records of one fact: whatever order claims, completions, recoveries,
\* cancellations and disables commit in, no slot and no reservation outlives
\* its lease and none is missing.
ReservationsMatchLeases ==
    /\ \A j \in Jobs : /\ leaseRunner[j] # NoRunner <=> status[j] = "running"
                       /\ ttl[j] > 0 => status[j] = "running"
    /\ \A r \in Runners : active[r] = LeasedTo(r)
    /\ ledger = {[job |-> j, runner |-> leaseRunner[j], gen |-> leaseGen[j]] :
                    j \in Running}

\* Concurrent polls, of several runners and of one, whose candidates were read
\* when there was room, never overrun a runner's slots, its resource units, an
\* environment or the repository's concurrency limit.
LimitsRespected ==
    /\ \A r \in Runners :
          /\ Cardinality(LeasedTo(r)) <= Capacity[r]
          /\ ResourceCapacity[r] > 0 =>
                RequestedUnits(LeasedTo(r)) <= ResourceCapacity[r]
    /\ EnvConcurrency > 0 => \A j \in Running : Environment[j] # "" =>
          Cardinality({o \in Running : Environment[o] = Environment[j]}) <= EnvConcurrency
    /\ RepoConcurrency > 0 => Cardinality(Running) <= RepoConcurrency

\* The counters admission relies on are exact: a running unit for each lease, and
\* a queued unit for each job that waits and for each job that was blocked or
\* skipped without having run, whose unit recomputeDependentTx and the insertion
\* of a branch-denied job leave behind for good.  So the clamp at zero in
\* adjustQuotaTx never hides a unit returned twice, and nothing else leaks one.
QuotaAccountsForJobs ==
    /\ quotaRunning = Cardinality(Running)
    /\ quotaQueued = Cardinality({j \in Jobs :
           \/ status[j] \in Pending
           \/ status[j] \in {"blocked", "skipped"} /\ attempts[j] = 0})

\* A runner is told "completed" only with the result the job ended in, and
\* all acknowledgements of a job, replays after retries and receipt expiry
\* included, are for one lease and one result.
AckMatchesOutcome ==
    \A a \in acked \cup receipts :
        /\ status[a.job] = a.result
        /\ \A b \in acked \cup receipts : a.job = b.job => a = b

\* The commit fence does not look at the token; it still admits only the
\* lease of the claim that is current (docs/INVARIANTS.md I3).
FenceImpliesToken ==
    \A l \in authorized : LeaseHeld(l) => l.token = attempts[l.job]

\* A job is claimed at most MaxInfraRetries + 1 times, over lease expiries and
\* runner kill switches together.
RetryBudgetRespected ==
    \A j \in Jobs : /\ attempts[j] <= MaxInfraRetries + 1
                    /\ status[j] = "queued" => attempts[j] <= MaxInfraRetries

\* A gated job never runs without its approval: neither the re-evaluation that
\* follows the end of its dependencies, which writes its status back, nor the
\* requeue of a lost attempt puts it past the gate.
ApprovalBeforeExecution ==
    \A j \in ApprovalRequired :
        attempts[j] > 0 => j \in approved

\* Once a lease has expired nothing done under it counts: it is not revived by
\* a late heartbeat, and no late completion or artifact commits, even while
\* recovery has not reached it yet.
ExpiredLeaseIsDead ==
    [][\A j \in Jobs : (status[j] = "running" /\ ttl[j] = 0) =>
          /\ attempts'[j] = attempts[j] => ttl'[j] = 0
          /\ \A rc \in receipts' \ receipts : rc.job # j
          /\ \A a \in artifacts' \ artifacts : a.job # j]_vars

\* A live lease ends by its own holder's completion, by a cancellation or by
\* the disabling of its runner, never by a recovery working on what it saw
\* earlier.
LiveLeaseUndisturbed ==
    [][\A j \in Jobs :
          (status[j] = "running" /\ ttl[j] > 0 /\ status'[j] # "running") =>
              \/ status'[j] = "cancelled"
              \/ \E k \in disabling \ disabling' : k.runner = leaseRunner[j]
              \/ \E rc \in receipts' \ receipts :
                    /\ rc.job = j /\ rc.runner = leaseRunner[j]
                    /\ rc.gen = leaseGen[j] /\ rc.result = status'[j]]_vars
-----------------------------------------------------------------------------
(* Implementation of the abstract lifecycle                                *)

JobState(j) ==
    IF status[j] = "none" THEN "absent"
    ELSE IF status[j] \in Pending THEN "open" ELSE status[j]

VisibleState == [j \in Jobs |-> JobState(j)]

VisibleVerdict ==
    [run \in Runs |-> IF runStatus[run] \in Terminal THEN runStatus[run] ELSE "none"]

Lifecycle == INSTANCE JobLifecycle WITH state <- VisibleState, verdict <- VisibleVerdict

\* The store implements the lifecycle its users see: outcomes and verdicts are
\* given once and never change, nothing starts before its dependencies ended
\* or against its condition, a job is skipped or blocked only by its
\* condition, and a run's verdict is the aggregate of its jobs.
ImplementsLifecycle == Lifecycle!Spec
-----------------------------------------------------------------------------
(* Liveness                                                                *)

\* The run has unfinished jobs, and each of them is one that nothing in the
\* store settles: it has no queue deadline, and its condition rejects what its
\* dependencies ended in (only direct dependents of a moved job are
\* re-evaluated, see RejectedJobSettles), or it waits for an approval, or for
\* another such job.
LeftBehind(run) ==
    LET open == {j \in JobsOf(run) : status[j] \notin Terminal}
    IN  /\ open # {}
        /\ \A j \in open :
              /\ status[j] \in Pending /\ j \notin HasDeadline
              /\ \/ ~Ready(status, j)
                 \/ ~ConditionAllows(j, DependencyOutcome(status, j))
                 \/ status[j] = "waiting_approval"

\* While runners come back into service, every submitted run gets a verdict,
\* except one whose open jobs are left behind: lost runners, expired leases,
\* polls that fail and unanswered approval gates with a queue deadline do not
\* leave it hanging, and neither does an approval or a cancellation that comes
\* after it was left behind.
RunsTerminate ==
    (\A r \in Runners : []<>(r \notin disabled)) =>
        \A run \in Runs :
            (runStatus[run] # "none") ~>
                (runStatus[run] \in Terminal \/ LeftBehind(run))

\* An expired lease is not held for ever by a runner that is gone: the row
\* leaves "running" or is claimed anew.
ExpiredLeaseRecovered ==
    \A j \in Jobs : []<>~(status[j] = "running" /\ ttl[j] = 0)

\* A job whose dependencies have ended in a way its condition rejects is
\* itself settled.
RejectedJobSettles ==
    \A j \in Jobs :
        (/\ status[j] \in Pending /\ Ready(status, j)
         /\ ~ConditionAllows(j, DependencyOutcome(status, j)))
            ~> (status[j] \in Terminal)

\* A runner out of service holds no lease (the kill switch invalidates every
\* lease of the runner it disables).
DisabledRunnerHoldsNothing == \A r \in disabled : LeasedTo(r) = {}
=============================================================================
