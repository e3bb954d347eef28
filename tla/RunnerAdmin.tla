---------------------------- MODULE RunnerAdmin ----------------------------
(***************************************************************************)
(* The row of one runner in database mode and everyone who writes it: the  *)
(* registration of a new runner process, the administrator's drain, enable *)
(* and disable, and the claims, completions and recoveries of leases.      *)
(*                                                                         *)
(* Registration, drain and enable read the row, decide, and write the      *)
(* profile back in a later transaction.  A runner process is the           *)
(* incarnation its registration gave it.  One that sends it with its       *)
(* requests is compared with the row before the server acts, and the store *)
(* does not compare again; one that does not is accepted or refused by     *)
(* what the replica remembers, or always refused (RequireIncarnation).     *)
(*                                                                         *)
(* A completed job stands for the next one: Jobs are the leases there can  *)
(* be at a time.  Bounds: MaxIncarnations, MaxWrites (administrative       *)
(* writes).                                                                *)
(***************************************************************************)
EXTENDS Naturals, FiniteSets

CONSTANTS
    Jobs,             \* jobs the runner can be given
    Capacity,         \* jobs it may hold at a time
    Handlers,         \* requests the control plane handles at a time
    RequireIncarnation,   \* the production setting RequireRunnerIncarnation
    Headerless,       \* processes that do not send their incarnation
    LegacyRow,        \* the row exists before incarnations are recorded
    MaxIncarnations, MaxWrites

ASSUME RunnerAssumption ==
    /\ IsFiniteSet(Jobs)
    /\ Capacity \in Nat /\ MaxIncarnations \in Nat /\ MaxWrites \in Nat
    /\ RequireIncarnation \in BOOLEAN /\ LegacyRow \in BOOLEAN
    /\ Headerless \subseteq 1..MaxIncarnations

VARIABLES
    runner,      \* disabled, draining, incarnation, active_jobs of the runner
    lease,       \* the incarnation that holds a lease on a job and its age
    admin,       \* the administrative request each handler is in
    request,     \* the runner request each incarnation has past the gate
    minted,      \* incarnations given out
    acked,       \* incarnations some runner process knows to be its own
    overlapped,  \* history: handlers that were in flight when the flag was set
    writes

vars == <<runner, lease, admin, request, minted, acked, overlapped, writes>>

Incarnations == 1..MaxIncarnations
NoLease == [holder |-> 0, age |-> "none"]
Leases == [holder : Incarnations, age : {"fresh", "aging", "expired"}] \cup {NoLease}
Row == [disabled : BOOLEAN, draining : BOOLEAN, incarnation : 0..MaxIncarnations,
        active : SUBSET Jobs]
NewRow == [disabled |-> FALSE, draining |-> FALSE, incarnation |-> 0, active |-> {}]
Idle == [pc |-> "idle", kind |-> "none", read |-> NewRow, locked |-> {}]

TypeOK ==
    /\ runner \in Row
    /\ lease \in [Jobs -> Leases]
    /\ admin \in [Handlers ->
                     [pc : {"idle", "decide", "commit"},
                      kind : {"none", "register", "drain", "enable", "disable"},
                      read : Row, locked : SUBSET Jobs]]
    /\ request \in [Incarnations -> {"none", "next", "heartbeat", "complete"}]
    /\ minted \in 0..MaxIncarnations
    /\ acked \subseteq Incarnations
    /\ overlapped \subseteq Handlers
    /\ writes \in 0..MaxWrites

Init ==
    /\ runner = NewRow
    /\ lease = [j \in Jobs |-> NoLease]
    /\ admin = [h \in Handlers |-> Idle]
    /\ request = [i \in Incarnations |-> "none"]
    /\ minted = 0 /\ acked = {} /\ overlapped = {} /\ writes = 0

Leased == {j \in Jobs : lease[j] # NoLease}
LockedJobs == UNION {admin[h].locked : h \in Handlers}
-----------------------------------------------------------------------------
(* Administrative requests. *)

\* GetRunner, at the start of every one of them.
ReadRunner(h, kind) ==
    /\ admin[h].pc = "idle"
    /\ writes < MaxWrites
    /\ kind = "register" => minted < MaxIncarnations
    /\ kind # "register" => LegacyRow \/ runner.incarnation # 0
    /\ writes' = writes + 1
    /\ minted' = IF kind = "register" THEN minted + 1 ELSE minted
    /\ admin' = [admin EXCEPT ![h] =
                    [pc |-> IF kind \in {"register", "disable"} THEN "decide" ELSE "commit",
                     kind |-> kind, locked |-> {},
                     read |-> IF kind = "register"
                              THEN [runner EXCEPT !.incarnation = minted + 1] ELSE runner]]
    /\ overlapped' = overlapped \ {h}
    /\ UNCHANGED <<runner, lease, request, acked>>

\* revokeRunnerLeasesTx, first phase: the running leases are selected and their
\* jobs locked.  The runner row is locked later.
LockLeases(h) ==
    /\ admin[h].pc = "decide"
    /\ Leased \cap LockedJobs = {}
    /\ admin' = [admin EXCEPT ![h].pc = "commit", ![h].locked = Leased]
    /\ UNCHANGED <<runner, lease, request, minted, acked, overlapped, writes>>

\* Fault: a registration starts from a clean administrative state.
IntendedClean(kind, read) ==
    CASE kind = "drain"  -> [read EXCEPT !.draining = TRUE]
      [] OTHER           -> [read EXCEPT !.draining = FALSE, !.disabled = FALSE]

\* The row a drain, an enable and a registration intend to write; the latter keeps
\* the administrative state it read.
Intended(kind, read) ==
    CASE kind = "drain"  -> [read EXCEPT !.draining = TRUE]
      [] kind = "enable" -> [read EXCEPT !.draining = FALSE, !.disabled = FALSE]
      [] OTHER           -> read

\* Fault: the caller's active set is written too.
MergeRunnerProfileAll(caller, existing) == caller

\* mergeRunnerProfile: the lease-owned fields of the existing row are kept, all the
\* others are the caller's.
MergeRunnerProfile(caller, existing) == [caller EXCEPT !.active = existing.active]

\* Fault: the expiry of a revoked lease is cleared and its holder is not.
ReleasedInPart(locked) ==
    [j \in Jobs |-> IF j \in locked THEN [lease[j] EXCEPT !.age = "none"] ELSE lease[j]]

\* The leases a transaction locked are released, and their slots with them.
Released(locked) == [j \in Jobs |-> IF j \in locked THEN NoLease ELSE lease[j]]
WithoutSlots(locked) == [runner EXCEPT !.active = @ \ locked]

\* The other requests being handled.
InFlight(h) == {g \in Handlers \ {h} : admin[g].pc # "idle"}

\* writeRunnerProfileTx (drain, enable), RegisterRunnerAndRevokeLeases.
WriteProfile(h) ==
    LET a == admin[h]
    IN  /\ a.pc = "commit"
        /\ a.kind # "disable"
        /\ lease' = Released(a.locked)
        /\ runner' = MergeRunnerProfile(Intended(a.kind, a.read), WithoutSlots(a.locked))
        /\ acked' = IF a.kind = "register" THEN acked \cup {a.read.incarnation} ELSE acked
        /\ admin' = [admin EXCEPT ![h] = Idle]
        /\ overlapped' = IF runner'.disabled /\ ~ runner.disabled THEN InFlight(h) ELSE overlapped
        /\ UNCHANGED <<request, minted, writes>>

\* DisableRunnerAndRevokeCert: the flag is set on the row as it is.
DisableRunner(h) ==
    /\ admin[h].pc = "commit"
    /\ admin[h].kind = "disable"
    /\ lease' = Released(admin[h].locked)
    /\ runner' = [WithoutSlots(admin[h].locked) EXCEPT !.disabled = TRUE]
    /\ admin' = [admin EXCEPT ![h] = Idle]
    /\ overlapped' = InFlight(h)
    /\ UNCHANGED <<request, minted, acked, writes>>
-----------------------------------------------------------------------------
(* Requests of runner processes. *)

\* Fault: any process of the runner passes.
IncarnationCurrentAny(i) == TRUE

\* runnerIncarnationCurrent, when the request arrives: a row without an
\* incarnation accepts every process.  A request without the header is refused
\* in production; otherwise the replica accepts it if it does not know the
\* runner, knows it by an old protocol or has seen it register once only.
\* That is memory of the replica that is asked, so it may or may not pass.
IncarnationCurrent(i) ==
    IF i \in Headerless THEN ~ RequireIncarnation ELSE runner.incarnation \in {0, i}

PassGate(i, kind) ==
    /\ i \in acked
    /\ request[i] = "none"
    /\ IncarnationCurrent(i)
    /\ request' = [request EXCEPT ![i] = kind]
    /\ UNCHANGED <<runner, lease, admin, minted, acked, overlapped, writes>>

Answered(i) == request' = [request EXCEPT ![i] = "none"]

\* AcquireLeaseAtomic, from the lock on the runner row on.
Claim(i, j) ==
    /\ request[i] = "next"
    /\ lease[j] = NoLease
    /\ ~ runner.disabled /\ ~ runner.draining
    /\ Cardinality(runner.active) < Capacity
    /\ lease' = [lease EXCEPT ![j] = [holder |-> i, age |-> "fresh"]]
    /\ runner' = [runner EXCEPT !.active = @ \cup {j}]
    /\ Answered(i)
    /\ UNCHANGED <<admin, minted, acked, overlapped, writes>>

\* i holds a lease on j that has not expired, and its token.
Holds(i, j) == lease[j].holder = i /\ lease[j].age # "expired"

\* HeartbeatLease: the lease gets its full time again.
RenewLease(i, j) ==
    /\ request[i] = "heartbeat"
    /\ Holds(i, j)
    /\ j \notin LockedJobs
    /\ lease' = [lease EXCEPT ![j].age = "fresh"]
    /\ Answered(i)
    /\ UNCHANGED <<runner, admin, minted, acked, overlapped, writes>>

\* CompleteJob: the lease and its slot are released together.
CompleteJob(i, j) ==
    /\ request[i] = "complete"
    /\ Holds(i, j)
    /\ j \notin LockedJobs
    /\ lease' = [lease EXCEPT ![j] = NoLease]
    /\ runner' = [runner EXCEPT !.active = @ \ {j}]
    /\ Answered(i)
    /\ UNCHANGED <<admin, minted, acked, overlapped, writes>>

\* A request past the gate ends without effect: nothing to claim, no such lease,
\* or a failure.
RequestRefused(i) ==
    /\ request[i] # "none"
    /\ Answered(i)
    /\ UNCHANGED <<runner, lease, admin, minted, acked, overlapped, writes>>

\* The database clock passes over a lease, twice over one that is not renewed.
LeaseAges(j) ==
    /\ lease[j].age \in {"fresh", "aging"}
    /\ lease' = [lease EXCEPT ![j].age = IF @ = "fresh" THEN "aging" ELSE "expired"]
    /\ UNCHANGED <<runner, admin, request, minted, acked, overlapped, writes>>

\* RecoverExpiredLease: the slot goes with the lease.
RecoverExpiredLease(j) ==
    /\ lease[j].age = "expired"
    /\ j \notin LockedJobs
    /\ lease' = [lease EXCEPT ![j] = NoLease]
    /\ runner' = [runner EXCEPT !.active = @ \ {j}]
    /\ UNCHANGED <<admin, request, minted, acked, overlapped, writes>>

AdminStep(h) == LockLeases(h) \/ WriteProfile(h) \/ DisableRunner(h)

Next ==
    \/ \E h \in Handlers :
           \/ \E kind \in {"register", "drain", "enable", "disable"} : ReadRunner(h, kind)
           \/ AdminStep(h)
    \/ \E i \in Incarnations :
           \/ \E kind \in {"next", "heartbeat", "complete"} : PassGate(i, kind)
           \/ \E j \in Jobs : Claim(i, j) \/ RenewLease(i, j) \/ CompleteJob(i, j)
           \/ RequestRefused(i)
    \/ \E j \in Jobs : LeaseAges(j) \/ RecoverExpiredLease(j)

Spec == Init /\ [][Next]_vars

\* A transaction that began ends, requests are answered, the clock runs and the
\* leader recovers what expired.
Fairness ==
    /\ \A h \in Handlers : WF_vars(AdminStep(h))
    /\ \A i \in Incarnations : WF_vars(RequestRefused(i))
    /\ \A j \in Jobs : WF_vars(LeaseAges(j)) /\ WF_vars(RecoverExpiredLease(j))

FairSpec == Spec /\ Fairness
-----------------------------------------------------------------------------
(* Properties. *)

\* However registration, drain and enable interleave with claims and completions,
\* the active set of the row is the set of leases the runner holds
\* (mergeRunnerProfile preserves the lease-owned fields).
ActiveJobsMatchLeases == runner.active = Leased

\* The disabled flag is cleared by an enable, or else by a request that was
\* already being handled when the flag was set, by a disable or by a request that
\* wrote back the flag it had read (register: a disabled runner stays disabled
\* until an admin re-enables it).
DisabledClearedByEnable ==
    [][runner.disabled /\ ~ runner'.disabled =>
           \E h \in Handlers :
               /\ admin[h].pc = "commit" /\ admin'[h].pc = "idle"
               /\ admin[h].kind = "enable" \/ h \in overlapped]_vars

\* A process whose requests the gate can tell from those of its successor.
Fenced(i) == i \notin Headerless \/ RequireIncarnation

\* The row names another process than i.
SupersededBy(i) == runner.incarnation \notin {0, i}

\* A process that is no longer the current incarnation loses its leases in the
\* end: it may have claimed one past the gate while the next process registered,
\* and then cannot renew it (heartbeat: the incarnation is checked).  Excepted is
\* the compatibility mode: a process that sends no incarnation, outside
\* RequireRunnerIncarnation, may renew its lease for ever, and so may any process
\* while the row has no incarnation.
SupersededLeaseEnds ==
    \A j \in Jobs, i \in Incarnations : Fenced(i) =>
        ((lease[j].holder = i /\ SupersededBy(i))
            ~> (lease[j].holder # i \/ ~ SupersededBy(i)))
=============================================================================
