# Kiwi CI: TLA+ models of the control plane

TLA+ models, TLC configurations and TLAPS proofs for the part of Kiwi CI that
is hardest to test: the PostgreSQL-backed job lifecycle shared by several
control-plane replicas and many runners, the leadership protocol that decides
which replica may run maintenance, and the work the leader does: delivering the
outbox, firing schedules and collecting unreferenced objects.

The repository has a small model of its own, `formal/kiwi_lease.tla`, of one
job's lease. The modules here are independent of it and are translated from the
Go code; they cover the store's transactions, the dependency graph, quotas,
reservations, the kill switch, leadership, the outbox, schedules, runner
administration and the content-addressed store as well.

## 1. Inventory

The system is a Go monolith (`cmd/kiwi`, `internal/...`): a control plane that
accepts pipeline runs, a scheduler that leases jobs to runners, runner agents
that execute them, and satellites (forges, object store, secrets, evidence).
The control plane has a file-system mode (one process, one mutex) and a database
mode (any number of replicas over one PostgreSQL database). The models are of
the database mode.

| Part | State | Operations | Hard because |
|---|---|---|---|
| Job store (`storage/postgres.go`, `lease_commit.go`, `lease_predicate.go`) | `jobs`, `runs`, `runners`, `quota_reservations`, `completion_receipts`, `artifacts` | insert a run (superseding older ones), approve, claim, heartbeat, store artifact, complete, replay, cancel | requests of many runners and replicas interleave; every lease end must settle four tables |
| Resource ledger (`postgres_resource_reservation.go`) | `job_resource_reservations` | reserve, release, live sum | stale rows, own row, generations |
| Recovery (`postgres_recovery.go`, `recovery.go`) | the same rows | find and recover expired leases, expire queued jobs | acts on what it read earlier, races completions |
| Kill switch (`postgres_disable.go`) | `runners.disabled`, leases | disable and revoke | races claims, ends several leases at once |
| Scheduler (`scheduler/`) | per-poll reads, scan cursors | candidate walk, eligibility, periodic sweep | decides on unlocked reads |
| Request gate (`server/runner_lease.go`) | none | authorise a lease-bound request | time between gate and commit |
| Leadership (`storage/leader_fence.go`, `postgres.go` 5935-6235) | advisory lock, `leader_fence.epoch`; per replica: cached session, proof age, retained epoch | probe, acquire, publish, release, fence | session loss is noticed late; answers are lost |
| Outbox (`server/outbox.go`, `github_status.go`, `checkruns.go`, `postgres.go` 4201-4650) | `outbox`, `forge_check_state`, `check_runs`, a fence per check, resident copies | enqueue a version, claim, dispatch, acknowledge, retry, dead letter, requeue | at-least-once delivery by changing leaders to a forge whose answers get lost |
| Schedules (`server/schedules.go`, `storage/schedule_advance.go`) | `schedules.last_run`, `schedule_occurrences` | tick, manual trigger, update, advance | a fire is three transactions; ticks, triggers and edits overlap |
| Runner administration (`server/server.go` 3430-4400, `postgres.go` 3340-3560) | one row of `runners` | register, drain, enable, disable, incarnation gate | read in one transaction, written back in another |
| Content-addressed store (`server/blobs.go`, `cas_gc.go`, `storage/digest_fence.go`) | objects, `artifacts`, manifests, digest fences on a small connection pool | artifact and cache uploads, collector, prune | two fences per upload from a bounded pool; the collector deletes what it listed earlier |
| Downstream launches, log journal, evidence ledger, deployments | tables of their own | launch once, append, chain | not modelled yet, see the plan |
| Pipeline compiler, expressions, importers, policy, forge clients, executor, workspaces, caches, PKI, secrets, CLI, TUI | local or none | pure transformations, I/O | no shared protocol state; `PROJECT.json` gives the reason for each |

Interaction: the server's handlers and the scheduler call the store; the store's
transactions are the only way shared state changes; runners act through HTTP
requests that carry a lease (job, runner, generation, token); the leader runs the
sweep; the database clock decides expiry.

What makes it correct: no job is run twice at once or beyond its budget; no work
done under a dead lease counts; a runner is told the truth about a result; the
slots, reservations and counters that admission depends on never drift; gates and
dependencies are respected through every retry; every run gets a verdict; two
replicas never carry out leader-only work together; a forge shows the newest state of a
check, once; a schedule's occurrence runs once and is not forgotten; a disabled runner
stays disabled; nothing that is referenced is deleted and nothing else is kept.

## 2. Modules

| Module | Content |
|---|---|
| `JobGraph` | static graph of jobs; dependency outcome, condition, re-evaluation of dependents, run aggregation, as operators over a status table |
| `JobLifecycle` | the abstract specification: what a user sees of jobs and runs |
| `JobStore` | the database-mode store, one action per transaction; properties, fairness, refinement mapping to `JobLifecycle` |
| `JobStoreProofs` | the inductive invariant of `JobStore`; leases, reservations, retries, approvals |
| `JobStoreAccountingProofs` | quota counters, limits and acknowledgements of `JobStore` |
| `JobStoreRefinement` | `JobStore` implements `JobLifecycle` |
| `LeaderFence` | leadership of the replicas and the fence of leader-only transactions |
| `LeaderFenceProofs` | theorems about `LeaderFence` |
| `Outbox` | the versioned check intents of the outbox, the leader's flush and the forge |
| `Schedules` | due discovery, tick, manual trigger, occurrence claim and update of schedules |
| `RunnerAdmin` | everyone who writes one runner's row |
| `CasStore` | uploads, digest fences and the collector |
| `OutboxProofs`, `SchedulesProofs`, `RunnerAdminProofs`, `CasStoreProofs` | theorems about these four |
| `MCJobStore`, `MCLeaderFence`, `MCOutbox`, `MCSchedules`, `MCRunnerAdmin`, `MCCasStore` | instances for TLC |

Definitions commented `Fault:` are not part of the models: each is a plausible bug
in the definition that follows it, and `PROJECT.json` ("mutants") says which property
TLC finds violated when it takes that definition's place.

### JobStore

State. `status, leaseRunner, leaseGen, attempts, ttl, approved, overdue` are columns
of `jobs`: `ttl` is what is left of `lease_expires_at` in ticks of the database
clock, `overdue` the jobs past `queue_deadline`. `active` is
`runners.active_jobs`, `ledger` the reservation rows, `quotaRunning` and
`quotaQueued` the two counters of the one repository, `receipts` and `outbox` what
a completion writes with the result. Outside the database: `poll`, the candidates
that polls have read and not yet claimed (`slot` tells the polls of one runner apart: the
agent polls in a loop, but a poll it gave up may still be under way in the server); `sweep`, the candidates of the leader's
sweep; `issued`, leases in the hands of runners; `authorized`, leases with a
request past the gate; `acked`, results answered with success; `disabling`, kill
switches between their selection and their commit.

Granularity. A store transaction locks the job row first and keeps its row locks to
its commit, so it is one action. Four operations are not one transaction, or take
a lock too late, and are split:

* a poll reads a candidate and its dependencies without a lock (`PollCandidate`,
  `scheduler.go` `eligible`) and claims it later (`AcquireLeaseAtomic`) under a
  generation computed from that read;
* a request is authorised (`AuthorizeRunnerLease`, the only comparison of the
  token) and commits later, behind a fence that compares runner, generation and
  expiry (`LeaseHeld`); `authorized` is never cleared, so any number of such
  requests may be in flight for any time;
* the sweep lists expired leases (`ListExpiredRunningJobs`) and recovers each
  later (`RecoverExpiredLease`). A listing has no owner, so the model covers
  several replicas sweeping at once;
* the kill switch selects the leases of a runner (`BeginDisable`) before it owns
  the runner's row, and revokes them with its commit (`DisableRunner`). The leases
  it selected are locked; a change to one of them commits before the selection or
  after the switch, so revoking what is left of them at the commit is the same.
  A claim that commits in between is recorded in `missed`. Starting again stands
  for a kill switch that was rolled back.

Each action includes what the transaction does at its end: lease columns cleared,
slot and ledger row released, quota adjusted, dependents re-evaluated, run
recomputed, receipt and outbox row written. `RecomputeDependents` follows two
traits of the code that matter: the payload's status, which a claim does not
update, decides whether a dependent is still open; and dependents are visited in
the order of random ids, which is a choice.

`token` is the row's `attempts` at the claim (every claim draws a fresh token and
increments `attempts`). A claim that fails, for whatever reason, is `AbandonPoll`.

### LeaderFence

`lock` is the session that holds the advisory lock, `epoch` the durable
`leader_fence.epoch`; `conn`, `proof` and `retained` are a replica's
`leaderConn`, the age of `leaderProbedAt`/`leaderHeldUntil`, and its atomic
`leaderEpoch`. Acquisition is broken at every round trip (connect, lock, publish,
retain, cache), a leader-only transaction into load, compare, commit or clear.
`SessionEnds` is the end of the holder's session for any reason, and tells no
replica. `PublishUnanswered` is a publication whose answer was lost.
The share lock of `assertLeaderEpoch` is `EpochRowFree`: an open fenced transaction
holds off the next publication. `RecoverExpiredLease` and the other leader-only
transactions of the store are `tx` here; claims are not leader-only in the code.

### Outbox

`rows` is the table, one row per check and state version, with the claim on it and
whether `OutboxClaimTTL` has passed; `watermark` and `mapped` are
`forge_check_state.delivered_version` and the recorded check-run id; `fence` the
advisory lock of a check's publication; `local` the copies a replica keeps resident;
`work` the flush it is in; `remote` and `created` the forge. A flush is broken at every call:
claim a batch (`ClaimOutbox`), read the guard (`Begin`), take the fence and read the
guard again (`FenceVersionedCheck`), publish (`PublishCheckRun`), record the id
(`PutCheckRun`), acknowledge or count the attempt (`OutboxAck`, `OutboxRetryClaimed`),
release what is left (`ReleaseOutboxClaims`). Each may fail before or after its effect.
Enqueue, requeue and delete are one transaction each. `Crash` and `LeaderChanges` may
fall between any two steps; a former leader goes on until a fenced statement refuses it.
Two traits of the code show: a flush dispatches the copy it already holds rather than the
row it claimed, and the guard does not count dead letters.

### Schedules

`row` is a schedule's enabled flag and last_run in minutes, `claimed` the occurrence
table, `runs` the runs committed. A tick collects (`CollectDue`, at most `MaxDues`) and then
fires each in turn: `Reread` the row, `Enqueue` the run with its claim in one fenced
transaction, `Advance` in another. A tick works by the database clock and of one schedule collects
`MaxScan` occurrences at most; a manual trigger of the running minute, which is that of its
replica's own clock (`ClockSkew`), goes through the same three steps. An update reads the row and writes it back with the last_run it read
(`UpsertReads`, `UpsertSchedule`). `FireFails` is a failure of a step,
`EnqueueAnswerLost` a committed enqueue whose answer was lost. `skipped`, `failed`,
`overtaken` record why an occurrence was passed.

### RunnerAdmin

`runner` is the row, `lease` the leases with the process (incarnation) that holds each.
Register, drain and enable are `ReadRunner` then `WriteProfile`, which merges the profile
with the locked row as `mergeRunnerProfile` does; a disable reads, locks the leases it
selected (`LockLeases`) and commits (`DisableRunner`). A runner's request passes the
incarnation gate (`PassGate`) and has its effect later (`Claim`, `RenewLease`,
`CompleteJob`) or is refused. The gate (`IncarnationCurrent`) compares the incarnation a
process sends with the row, and accepts any while the row has none (`LegacyRow`). A process
that sends none (`Headerless`) is refused under `RequireIncarnation`; otherwise
the replica decides by what it remembers of the runner (protocol, registrations it has
seen), which is a choice here: such a request may pass or not. This module refines the one flag `disabled` of `JobStore`
into the row with all its writers, and leaves out what `JobStore` has of jobs.

### CasStore

`object` is the age of each object, `record` what the durable records reference, `fence`
the digest fences. An artifact upload takes a connection and the payload's fence, puts
the payload, takes a second connection and the envelope's fence, for a bounded time, puts the envelope
and commits; a cache upload takes one fence. The collector lists old unreferenced objects
(`GCBegin`) and for each takes its fence, reads the references again, stats and
deletes. Every step before the commit may fail and leaves its objects behind.

### Composition

`JobStore` extends `JobGraph` and is shown to implement `JobLifecycle`, which states
its steps with the same graph. `JobStore` and `LeaderFence` share no variable: the
fence decides whether a sweep's transaction may commit, and `JobStore` lets any
sweep commit at any time, so what holds of `JobStore` holds with or without the
fence. `Outbox` and `Schedules` take from `LeaderFence` what it shows: at any moment
the fenced transactions of one replica at most can commit (`leader`), while others may
still believe in their reign and go on with steps that are not fenced.

## 3. Runs

| Run | Instance | Shows |
|---|---|---|
| graph | 2 runs, 5 jobs (a chain with an `always()` job, a gated job, a branch-denied job), 1 runner with 2 slots and 3 units, environment limit 1, repository limit 2, queue depth 4, supersede | slots, reservations and counters never drift through supersede, cancellation, expiry and claims at every limit, and the store implements the lifecycle |
| lease | 1 job, 2 interchangeable runners, 2 retries, TTL 2, required artifact, kill switch on both | acknowledgements match the outcome, a dead lease stays dead, a live one is not disturbed, budget and counters hold |
| fleet | 3 root jobs in 2 runs, 2 runners with 2 and 1 slots and 3 and 1 units, environment limit 1 for two of the jobs, repository limit 2, queue depth 2, kill switch | polls of two runners that overlap overrun no limit; submissions, cancellations and the end of several leases in one transaction leave quota and lifecycle right |
| liveness | chain of 3, the second gated with a deadline and never necessarily approved, the third with a condition that admits nothing, 1 retry, a runner that crashes and is disabled again and again | the run ends unless it is left behind as in finding 1, every expired lease is recovered, re-evaluation and requeue keep the gate closed |
| transitive | chain of 3 | finding 1 |
| stale_token | 1 job, 2 runners, 3 retries | finding 2 |
| kill_switch | 1 job, 2 runners | finding 3 |
| leader | 2 replicas, 2 sessions, 2 transactions | exclusion, no lock-out, reigns in order, no clobbering; dead sessions are dropped, the lock is not orphaned |
| outbox | 2 replicas, 1 check with 2 versions, 2 attempts, 1 disruption | one check run at the forge, no accepted state dropped, no older state over a newer, every row resolved |
| schedules | 2 replicas with clocks a minute off, 1 schedule due every minute, 2 minutes, one failure, trigger, edit and disruption | one run per occurrence, no occurrence passed silently, none of a distrusted schedule, every due one settled |
| runner_admin | 1 runner with 1 slot, 2 jobs, 2 handlers, 2 incarnations, the second of which sends no header, a row that starts without an incarnation, 4 administrative writes | the slot list matches the leases, a disable is undone only as stated, a superseded process loses its lease |
| cas | 2 artifact uploads and a cache upload of one content, collector, 3 connections | no reference dangles, uploads end although the pool is exhausted, orphans are collected |

The properties, each with its statement above its definition, are listed per run in
`PROJECT.json`, with the hazards they answer to.

Bounds. `MaxInfraRetries` bounds claims, and with them generations, leases and
receipts: two retries are three claims, enough for a stale claim to overtake a
whole lease and for a replay to meet a later attempt; the fourth claim is needed to
reuse a generation on the same runner (stale_token). `LeaseTTL` 2 distinguishes a
heartbeat from a claim; 1 suffices elsewhere. `MaxPolls` is 1: the polls that overlap are those of two runners (lease, fleet); the
theorems cover any number of polls of one runner. The larger runner of the fleet run can
hold both jobs that the repository's limit admits, the smaller one competes with it for the
job of the environment. `Administered` names the runners the kill switch may be
used on: none in the graph run, one or two in the fleet, lease and
liveness runs. The third job of the liveness run is there to be left behind: when
the second is blocked without having run, nothing re-evaluates it; otherwise it is skipped or blocked. A third job that
may run as well is beyond what liveness checking reaches with requeues and the kill
switch. `MaxSessions` bounds the reigns: with two, an old transaction and the
reign that fences it out coexist, on the same replica or on two; the proofs cover any
number. All runs of an instance belong to one
repository and one concurrency group, the case in which they interact.
`CHECK_DEADLOCK FALSE` in all runs but leader: when every job has ended and nobody
polls, or every budget is spent, the system rests.

Outbox: `Budget` bounds enqueues and operator requeues and `MaxDisruptions` crashes and
changes of leader; two enqueues and one disruption are what it takes for two dispatchers
to hold different versions of a check. `MaxAttempts` 2 (8 in the code) has a retry and a
dead letter. The last version has two payloads, so that a refresh of it says something new.
Schedules: two minutes, both due, give a tick two occurrences, one of which may fail;
`MaxDues` and `MaxScan` equal the horizon, so the limits of a tick (100 in the code) and of a
schedule (64) are not reached; the theorems cover any.
RunnerAdmin: two incarnations are a process and its successor; `MaxWrites` 4 lets a
disable fall between the read and the write of two others. CasStore: `PoolSize` 3 (4 in
the code) is less than what two artifact uploads and the collector want together, which
is the case the timeout is for; one attempt per record, so a replayed upload is
covered by the theorem and not by the run.

Fairness. Store: runners poll for ever, a poll ends (the agent's request has a timeout) and a claim
that is possible again and again is made (strong fairness; polling is periodic, and a
refused poll is repeated);
the clock runs; the leader's maintenance loop sweeps, recovers and expires
(weak fairness); an executor whose lease is alive ends its attempt, because jobs
have timeouts. No heartbeat, approval or artifact upload is assumed, and a runner
may vanish: the lease then expires. `RunsTerminate` also supposes that no runner is
disabled for good. Leadership: the maintenance loop calls `IsLeader` on each tick,
so stale proofs are probed and unusable sessions dropped; every round trip is
bounded by a timeout; a connection nobody refers to is closed. Outbox: the leader flushes on
every tick, each call ends because its context is bounded, a statement of the database
that is tried for ever succeeds once (strong fairness), claims age; nothing is assumed of
the forge. Schedules: the leader ticks and a fire that began goes on; failures and edits
are bounded. RunnerAdmin: handlers end, leases age, the leader recovers expired ones; no
heartbeat is assumed or excluded. CasStore: handlers run on, the wait for a second
connection is bounded (`provenanceFenceTimeout`), the collector runs on its timer,
objects age.

## 4. Findings

1. **transitive**: only direct dependents of a moved job are re-evaluated
   (`postgres.go:2857`). With a <- b <- c, a failure of a blocks b and leaves c
   queued and the run open for ever, unless c has a queue timeout. The reference
   (`docs/pipeline-reference.md:90`) says it is blocked. The same holds for
   dependents of a branch-denied job. `RunsTerminate` excepts such runs by name
   (`LeftBehind`): every unfinished job of the run has no queue deadline and is rejected
   by what its dependencies ended in, waits for an approval, or waits for another such job.
2. **stale_token**: a claim's generation comes from an unlocked read and is stored
   without comparison (`scheduler.go:926`, `postgres.go:1819`), so generations can
   repeat, and a request authorised under an old lease can pass the fence of a
   new lease of the same runner (`docs/INVARIANTS.md` I3 excludes it).
3. **kill_switch**: a claim that commits between the kill switch's selection
   (`postgres_recovery.go:84`) and its lock on the runner's row
   (`postgres_disable.go:75`) leaves a live lease on a disabled runner
   (`server.go:4311` says there is none).

Where the code falls short of the plainest statement in a way the models reproduce, the
property that passes is a weaker one whose comment says what it excepts:

* A dependent that is blocked or skipped, and a branch-denied job, keep their queued quota
  unit for good (`postgres.go:2882`); with a queue depth limit the repository loses it.
  `QuotaAccountsForJobs` shows that these are the only units lost. (Of a job that does end,
  `postgres_recovery.go:529` returns the unit.)
* A drain or a registration that read the row before a disable writes the flag
  back as it read it (`server.go:3492` says that a disabled runner "stays disabled [...]
  until an admin re-enables it", `server.go:4311` that "re-registering cannot clear the
  flag"). `DisabledClearedByEnable` excepts such requests and no others.
* A process superseded after it passed the gate can still claim. `SupersededLeaseEnds`
  shows that it cannot keep what it claimed: the lease ends by expiry. It excepts a process
  that sends no incarnation where `RequireRunnerIncarnation` is off (`server.go:4125-4148`),
  which may renew its lease after it was superseded, and a row that has no incarnation
  (`server.go:4154`).
* A new payload of the same version is lost when it is enqueued while a flush holds the
  row, whose acknowledgement deletes it, or while another replica keeps the older payload
  resident, which that replica dispatches in its place (`outbox.go:1293`;
  `postgres.go:4388` speaks of a refresh in place). `AcceptedStateKept` excepts exactly
  these.
* A dead letter is not part of the version guard, so an older state may be published over
  what a given-up delivery had put there. `RemoteNeverRegresses` excepts these versions.
* An occurrence whose fire failed is passed when a later one of the same tick, or a manual
  trigger, advances the marker (`schedules.go:894`). `PassedOccurrencesAccounted` names the
  reasons for which an occurrence may be passed.
* A fire that admission or policy refuses for good is retried on every tick.
  `DueOccurrenceSettled` is about failures that end.

## 5. Proofs

Every safety property and every action property that a passing run checks is also a
theorem, and so is the refinement of `JobLifecycle`. All theorems hold for every value of
the constants that satisfies the named assumptions: `GraphAssumption` (a finite set of
jobs, needs within a run, none on itself), `StoreAssumption` (types of the parameters, a
positive TTL), `FenceAssumption`, and those of the four later modules, which give the
constants their types. No assumption is made on limits, graph shape, or the number of
runners, replicas, transactions, checks, schedules or uploads.

**JobStore** (`JobStoreProofs`). The inductive invariant is

    StoreInv = TypeOK /\ RowsExist /\ RunningReady /\ ReservationsMatchLeases
               /\ BudgetInv /\ ApprovalInv

`ReservationsMatchLeases` is not inductive: a re-evaluation writes the payload's
status, and the payload of a running job reads "queued", so a running dependent of
a moved job would be requeued with its lease in place. `RunningReady` (every
dependency of a running job has ended) excludes it: a job moved by a transaction
was not terminal, so nothing that needs it runs. `BudgetInv` ties `attempts` to the
status and `ApprovalInv` every gated job past its gate to its approval.
One lemma per kind of step, most through `SettleStep`, the common form of all
transactions that end leases. From it: `TypeCorrect`, `ReservationsConsistent`,
`RetriesBounded`, `ApprovalsRespected`, `OutcomesFinal` (a terminal status never
changes), `ExpiredStaysDead` and `LiveLeasesSafe`.

**Accounting** (`JobStoreAccountingProofs`). The invariant is

    AccountInv = StoreInv /\ AttemptInv /\ QuotaAccountsForJobs /\ LimitsRespected
                 /\ AckMatchesOutcome

The counters are cardinalities of sets of jobs and the resource units a sum over one.
The counter of queued jobs also counts the jobs that were blocked or skipped without
having run (`quota_reservations` gives nothing back for them), so exactness
needs to know that a job which has run is never rejected: `AttemptInv` says that the
dependencies of a job with an attempt have ended. The sum `RequestedUnits` is recursive;
what is needed of it (it is a natural number, and adding or removing a job adds or removes its
request) is proved without an induction rule, by taking a set of least cardinality for
which it fails. From it: `QuotaExact`, `LimitsNeverOverrun`, `AcknowledgementsTrue`.

**Refinement** (`JobStoreRefinement`). Each transaction is first described by what it
does to the status columns (`RowStep`, `TableStep`), then mapped to a step of
`JobLifecycle` (`StoreImplementsLifecycle`). Beyond `StoreInv` this needs `VerdictInv`
(a run with a verdict has no unfinished job, so no step reopens it) and `PollInv` (the
condition a poll evaluated on an unlocked read still holds when its claim commits, because
the dependencies had ended). The re-evaluation of dependents may read a sibling before or
after that sibling is settled; `RejectedRow` shows that both orders leave a row the
abstract step allows.

**LeaderFence.** The inductive invariant is

    LeadershipInv = TypeOK /\ SessionsOwned /\ CandidatesFormed /\ EpochsPublished
                    /\ FenceExact /\ HolderCurrent /\ EpochsOwned

A session has one owner; no retained, loaded or committed epoch exceeds the durable
one; an open transaction has exactly the durable one (the share lock); the holder of
the lock, cached or still acquiring, knows the durable one; an epoch is known to one
replica only. From it: `TypeCorrect`, `Exclusion`, `HolderNotFenced`,
`NoInterleaving` and `NoClobbering`.

**Outbox.** The inductive invariant is

    OutboxInv = TypeOK /\ OneCheckRun /\ RowsFormed /\ ShownCovered /\ FlushesSafe
                /\ AllOwedSafe

The version guard reads the table, and the forge is not in it. `ShownCovered` closes the
gap: the version the forge shows was delivered, or given up, or is not above what is pending,
so a guard that finds nothing newer knows that nothing newer is shown, unless it was given
up. `FlushesSafe` carries this from the guard to the publication: between the two the
fence keeps every other publication of the check away, and no step uncovers a version.
`AllOwedSafe` is about the state accepted last: its row is there and undelivered, or a
newer version went beyond it; every resident copy and every batch that holds it says the
same; and a flush about to acknowledge its row without having shown it was refused by the
guard for a newer version. From it: `TypeCorrect`, `OneRemoteCheck`, `AcceptedKept`,
`RemoteMonotone`.

**Schedules.** The inductive invariant is

    ScheduleInv = Typed /\ ClaimsCounted /\ FiresEligible
                  /\ FiresAccounted(Accounted) /\ MarkersAccounted(Accounted)

A run has its claim, which gives `AtMostOneRun`. last_run alone says too little: it moves to
whatever a tick fired, so the order in which a tick works through what it collected
(everything before its occurrence is accounted for) is part of the invariant, and so is
the older marker that an update in progress may still write back. From it:
`NothingPassedSilently`, and with `FiresEligible` the action property `RunsEligible`. `TypeOK` also says that no marker
is further ahead of the database clock than a replica's clock may be. That is a second
invariant on top of the first, `ClockInv`: it holds of the markers because it holds of every fire
and of every marker in the hands of an update (`TypeCorrect`).

**RunnerAdmin.** The inductive invariant is

    AdminInv = TypeOK /\ LocksHeld /\ RegistrationsMinted /\ OverlapKnown
               /\ ActiveJobsMatchLeases

A disable releases in a later step the leases it locked in an earlier one: `LocksHeld` says
they are still there and locked by nobody else. `OverlapKnown` says that a request which would write
back a cleared flag read the row before the flag was set. From it: `TypeCorrect`,
`SlotsAreLeases`, `FlagClearedByEnable`.

**CasStore.** The inductive invariant is

    CasInv = Typed /\ UploadsCovered /\ CollectorCovered /\ NoDanglingReference

How far an upload is determines which fences it holds and which objects it has put;
between its second look at the references and its deletion the collector holds the
object's fence and the object is unreferenced. Neither half is enough: a commit is safe
because the collector cannot hold the same fence, a deletion because no upload can. From
it: `TypeCorrect`, `ReferencesPresent`.

**Only model-checked**: the liveness properties (`RunsTerminate`,
`ExpiredLeaseRecovered`, `DeadSessionDropped`, `LockNotOrphaned`, `PendingStateResolves`,
`DueOccurrenceSettled`, `SupersededLeaseEnds`, `UploadsFinish`, `OrphansReclaimed`),
because fairness and ENABLED are out of the prover's reach, and the three findings,
which are counterexamples.

## 6. Not modelled

Within the modelled parts: rows whose payload no longer decodes, repository
quarantine, audit and execution events, counters kept for display, labels, regions
and runtime placement, live profiles, the per-group concurrency limit (the
environment limit has the same form), the scheduler's bounded walk, aging and
backfill, certificates, reconciliation of stale ledger
rows, the schema fence, all of the file-system mode. Outbox: the other intent kinds and
forges, backoff times, pruning, the loss of a check fence's session while its dispatcher
runs on, and a forge request that timed out and takes effect later (`OneCheckRun` and
`RemoteNeverRegresses` suppose that neither happens). Schedules: cron parsing and the
budget of evaluations all schedules share, deletion, refusals that last (failures are
bounded).
RunnerAdmin: a registration that itself asks for drain or disable, the forced release of
undecodable rows. CasStore: the loss of a fence's session while its handler runs on,
corrupt objects (the collector reads an object's content again
before it deletes it, `cas_gc.go:275`, and keeps one that does not match its digest),
pending SBOM sidecars and their pruning, the collector's batch bound. Database errors
before a commit leave no trace and are, in `JobStore`, a request that is not made. Each of
the four later modules is checked on its own instance: their joint state space is out of
TLC's reach. The other components, with
reasons, are in `PROJECT.json`.

## 7. Plan

Done: `JobGraph`, `JobLifecycle`, `JobStore`, `LeaderFence`, `Outbox`, `Schedules`,
`RunnerAdmin`, `CasStore`, their runs, the proofs of all their safety and action
properties, and the refinement. In order:

1. More about the proved modules: what holds of the two findings under the conditions the
   documents name (`DisabledRunnerHoldsNothing` for leases taken before the selection,
   `FenceImpliesToken` while generations do not repeat).
2. `LeaseScan`: the paged candidate walk, cursor and backfill reservation
   (`scheduler.go` 584-1058); an eligible job is reached.
3. Downstream launch, `LogJournal`, execution ledger, staging budget, deployments,
   dynamic fragments.
