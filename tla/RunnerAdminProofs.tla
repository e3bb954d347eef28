------------------------- MODULE RunnerAdminProofs -------------------------
(***************************************************************************)
(* The row of a runner stays in step with its leases, and a disabled       *)
(* runner stays disabled, whatever requests overlap.                       *)
(***************************************************************************)
EXTENDS RunnerAdmin, TLAPS

\* What the record of an administrative request can be.
Requests ==
    [pc : {"idle", "decide", "commit"},
     kind : {"none", "register", "drain", "enable", "disable"},
     read : Row, locked : SUBSET Jobs]

\* A lease that a request has locked is still there, and locked by that request
\* only.
LocksHeld ==
    /\ \A h \in Handlers :
          /\ admin[h].pc # "commit" => admin[h].locked = {}
          /\ admin[h].locked \subseteq Leased
    /\ \A h, g \in Handlers : h # g => admin[h].locked \cap admin[g].locked = {}

\* A registration in flight has an incarnation of its own.
RegistrationsMinted ==
    \A h \in Handlers :
        (admin[h].pc # "idle" /\ admin[h].kind = "register")
            => admin[h].read.incarnation \in Incarnations

\* A request that would clear the flag without enabling read the row before the
\* flag was set.
OverlapKnown ==
    \A h \in Handlers :
        (/\ runner.disabled /\ ~ admin[h].read.disabled
         /\ admin[h].pc # "idle" /\ admin[h].kind \notin {"enable", "disable"})
            => h \in overlapped

\* The inductive invariant.  ActiveJobsMatchLeases needs LocksHeld: a request
\* releases, in a later transaction, the leases it locked in an earlier one.
AdminInv ==
    TypeOK /\ LocksHeld /\ RegistrationsMinted /\ OverlapKnown /\ ActiveJobsMatchLeases

-----------------------------------------------------------------------------
(* Rows and leases                                                         *)

\* The fields of the runner's row, and the row with the flag set.
LEMMA RowFacts ==
    ASSUME NEW r \in Row
    PROVE  /\ r.disabled \in BOOLEAN /\ r.active \subseteq Jobs
           /\ [r EXCEPT !.disabled = TRUE] \in Row
           /\ [r EXCEPT !.disabled = TRUE].disabled = TRUE
           /\ [r EXCEPT !.disabled = TRUE].active = r.active
BY DEF Row

\* The row with other slots.
LEMMA RowWithSlots ==
    ASSUME NEW r \in Row, NEW S \in SUBSET Jobs
    PROVE  LET row == [r EXCEPT !.active = S]
           IN  row \in Row /\ row.active = S /\ row.disabled = r.disabled
BY DEF Row

\* The row a registration means to write.
LEMMA RowOfIncarnation ==
    ASSUME NEW r \in Row, NEW n \in 0..MaxIncarnations
    PROVE  LET row == [r EXCEPT !.incarnation = n]
           IN  row \in Row /\ row.incarnation = n /\ row.disabled = r.disabled
BY DEF Row

\* Of drain, enable and registration only enable changes the flag it read, and no
\* one the incarnation.
LEMMA IntendedFacts ==
    ASSUME NEW r \in Row, NEW kind
    PROVE  /\ Intended(kind, r) \in Row
           /\ kind # "enable" => Intended(kind, r).disabled = r.disabled
           /\ Intended(kind, r).incarnation = r.incarnation
BY DEF Row, Intended

\* A lease some incarnation holds is no free job, whatever its age becomes.
LEMMA LeaseFacts ==
    /\ NoLease \in Leases
    /\ \A i \in Incarnations : \A age \in {"fresh", "aging", "expired"} :
           /\ [holder |-> i, age |-> age] \in Leases
           /\ [holder |-> i, age |-> age] # NoLease
    /\ \A l \in Leases : (l.holder \in Incarnations \/ l.age # "none") =>
           /\ l # NoLease
           /\ \A age \in {"fresh", "aging", "expired"} :
                  [l EXCEPT !.age = age] \in Leases /\ [l EXCEPT !.age = age] # NoLease
<1>1. \A i \in Incarnations : i # 0
  BY DEF Incarnations
<1>2. NoLease \in Leases
  BY DEF Leases
<1>3. ASSUME NEW i \in Incarnations, NEW age \in {"fresh", "aging", "expired"}
      PROVE  [holder |-> i, age |-> age] \in Leases /\ [holder |-> i, age |-> age] # NoLease
  BY <1>1 DEF Leases, NoLease
<1>4. ASSUME NEW l \in Leases, l.holder \in Incarnations \/ l.age # "none",
             NEW age \in {"fresh", "aging", "expired"}
      PROVE  /\ l # NoLease
             /\ [l EXCEPT !.age = age] \in Leases /\ [l EXCEPT !.age = age] # NoLease
  <2>1. l # NoLease /\ l \in [holder : Incarnations, age : {"fresh", "aging", "expired"}]
    BY <1>1, <1>4 DEF Leases, NoLease
  <2>2. [l EXCEPT !.age = age] = [holder |-> l.holder, age |-> age]
    BY <2>1
  <2> QED
    BY <2>1, <2>2, <1>3
<1> QED
  BY <1>2, <1>3, <1>4

-----------------------------------------------------------------------------
(* Administrative requests                                                 *)

\* A runner nobody has registered.
LEMMA InitKept == Init => AdminInv
<1> SUFFICES ASSUME Init PROVE AdminInv
  OBVIOUS
<1>1. NewRow \in Row
  BY RunnerAssumption DEF NewRow, Row
<1>2. Idle \in Requests
  BY <1>1 DEF Idle, Requests
<1>3. TypeOK
  <2>1. lease \in [Jobs -> Leases]
    BY LeaseFacts DEF Init
  <2>2. admin \in [Handlers -> Requests]
    BY <1>2 DEF Init
  <2> QED
    BY <1>1, <2>1, <2>2, RunnerAssumption DEF Init, TypeOK, Requests
<1>4. LocksHeld /\ RegistrationsMinted /\ OverlapKnown
  BY DEF Init, LocksHeld, RegistrationsMinted, OverlapKnown, Idle
<1>5. ActiveJobsMatchLeases
  BY DEF Init, ActiveJobsMatchLeases, Leased, NewRow
<1> QED
  BY <1>3, <1>4, <1>5 DEF AdminInv

\* A request reads the row as it is: the flag it read is the flag of the row
\* (GetRunner).
LEMMA ReadRunnerKept ==
    ASSUME AdminInv, NEW h \in Handlers,
           NEW kind \in {"register", "drain", "enable", "disable"}, ReadRunner(h, kind)
    PROVE  AdminInv'
<1> DEFINE seen == IF kind = "register" THEN [runner EXCEPT !.incarnation = minted + 1] ELSE runner
           stage == IF kind \in {"register", "disable"} THEN "decide" ELSE "commit"
<1>1. /\ runner \in Row /\ minted \in 0..MaxIncarnations
      /\ kind = "register" => minted + 1 \in Incarnations
  BY RunnerAssumption DEF AdminInv, TypeOK, ReadRunner, Incarnations
<1>2. seen \in Row /\ seen.disabled = runner.disabled /\ stage \in {"decide", "commit"}
  <2>1. kind = "register" => minted + 1 \in 0..MaxIncarnations
    BY <1>1, RunnerAssumption DEF Incarnations
  <2> QED
    BY <1>1, <2>1, RowOfIncarnation
<1>3. kind = "register" => seen.incarnation \in Incarnations
  <2>1. kind = "register" => minted + 1 \in 0..MaxIncarnations
    BY <1>1, RunnerAssumption DEF Incarnations
  <2> QED
    BY <1>1, <2>1, RowOfIncarnation
<1>4. admin' = [admin EXCEPT ![h] = [pc |-> stage, kind |-> kind, locked |-> {}, read |-> seen]]
  BY DEF ReadRunner
<1> HIDE DEF seen, stage
<1>5. admin' \in [Handlers -> Requests]
  BY <1>2, <1>4 DEF AdminInv, TypeOK, Requests
<1>6. minted' \in 0..MaxIncarnations /\ writes' \in 0..MaxWrites
  BY RunnerAssumption DEF AdminInv, TypeOK, ReadRunner
<1>7. TypeOK'
  BY <1>5, <1>6 DEF AdminInv, TypeOK, Requests, ReadRunner
<1>8. LocksHeld'
  BY <1>4 DEF AdminInv, TypeOK, LocksHeld, Leased, ReadRunner
<1>9. RegistrationsMinted'
  BY <1>3, <1>4 DEF AdminInv, TypeOK, RegistrationsMinted
<1>10. OverlapKnown'
  BY <1>2, <1>4 DEF AdminInv, TypeOK, OverlapKnown, ReadRunner
<1>11. ActiveJobsMatchLeases'
  BY DEF AdminInv, ActiveJobsMatchLeases, Leased, ReadRunner
<1> QED
  BY <1>7, <1>8, <1>9, <1>10, <1>11 DEF AdminInv

\* The leases a request locks were locked by no other.
LEMMA LockLeasesKept ==
    ASSUME AdminInv, NEW h \in Handlers, LockLeases(h)
    PROVE  AdminInv'
<1>1. admin[h] \in Requests /\ Leased \subseteq Jobs
  BY DEF AdminInv, TypeOK, Requests, Leased
<1>2. /\ admin'[h].pc = "commit" /\ admin'[h].locked = Leased
      /\ admin'[h].kind = admin[h].kind /\ admin'[h].read = admin[h].read
      /\ \A g \in Handlers : g # h => admin'[g] = admin[g]
      /\ admin' \in [Handlers -> Requests]
  BY <1>1 DEF AdminInv, TypeOK, Requests, LockLeases
<1>3. TypeOK'
  BY <1>2 DEF AdminInv, TypeOK, Requests, LockLeases
<1>4. LocksHeld'
  <2>1. \A g \in Handlers : admin[g].locked \cap Leased = {}
    BY DEF LockLeases, LockedJobs
  <2>2. Leased' = Leased
    BY DEF LockLeases, Leased
  <2> QED
    BY <1>2, <2>1, <2>2 DEF AdminInv, LocksHeld
<1>5. RegistrationsMinted'
  BY <1>2 DEF AdminInv, RegistrationsMinted, LockLeases
<1>6. OverlapKnown'
  BY <1>2 DEF AdminInv, OverlapKnown, LockLeases
<1>7. ActiveJobsMatchLeases'
  BY DEF AdminInv, ActiveJobsMatchLeases, Leased, LockLeases
<1> QED
  BY <1>3, <1>4, <1>5, <1>6, <1>7 DEF AdminInv

\* What the end of a request does, whoever made it: the leases it locked are gone,
\* and those of other requests are not (revokeRunnerLeasesTx).
LEMMA LocksReleased ==
    ASSUME AdminInv, NEW h \in Handlers,
           lease' = Released(admin[h].locked), admin' = [admin EXCEPT ![h] = Idle]
    PROVE  /\ lease' \in [Jobs -> Leases]
           /\ admin' \in [Handlers -> Requests]
           /\ \A g \in Handlers : g # h => admin'[g] = admin[g]
           /\ admin'[h] = Idle
           /\ Leased' = Leased \ admin[h].locked
           /\ LocksHeld'
           /\ RegistrationsMinted'
<1>1. NewRow \in Row
  BY RunnerAssumption DEF NewRow, Row
<1>2. Idle \in Requests
  BY <1>1 DEF Idle, Requests
<1>3. lease' \in [Jobs -> Leases] /\ Leased' = Leased \ admin[h].locked
  BY LeaseFacts DEF AdminInv, TypeOK, Released, Leased
<1>4. /\ admin' \in [Handlers -> Requests]
      /\ \A g \in Handlers : g # h => admin'[g] = admin[g]
      /\ admin'[h] = Idle
  BY <1>2 DEF AdminInv, TypeOK, Requests
<1>5. LocksHeld'
  <2>1. \A g \in Handlers : admin'[g].locked \subseteq Leased'
    BY <1>3, <1>4 DEF AdminInv, LocksHeld, Idle
  <2> QED
    BY <1>4, <2>1 DEF AdminInv, LocksHeld, Idle
<1>6. RegistrationsMinted'
  BY <1>4 DEF AdminInv, RegistrationsMinted, Idle
<1> QED
  BY <1>3, <1>4, <1>5, <1>6

\* The row after mergeRunnerProfile: the slots are the stored ones less those
\* released, the flag is the one the request had read unless it enables.
LEMMA WriteProfileRow ==
    ASSUME AdminInv, NEW h \in Handlers, WriteProfile(h)
    PROVE  /\ runner' \in Row
           /\ runner'.active = runner.active \ admin[h].locked
           /\ admin[h].kind # "enable" => runner'.disabled = admin[h].read.disabled
<1> DEFINE read == admin[h].read
           caller == Intended(admin[h].kind, read)
           slots == runner.active \ admin[h].locked
<1>1. read \in Row /\ runner \in Row
  BY DEF AdminInv, TypeOK
<1>2. caller \in Row /\ (admin[h].kind # "enable" => caller.disabled = read.disabled)
  BY <1>1, IntendedFacts
<1>3. slots \in SUBSET Jobs
  BY <1>1, RowFacts
<1>4. runner' = [caller EXCEPT !.active = slots]
  BY <1>1, RowFacts DEF WriteProfile, MergeRunnerProfile, WithoutSlots
<1> QED
  BY <1>2, <1>3, <1>4, RowWithSlots

\* A profile written back takes no slot of a lease with it, and a flag it sets is
\* known to every request in flight (writeRunnerProfileTx,
\* RegisterRunnerAndRevokeLeases).
LEMMA WriteProfileKept ==
    ASSUME AdminInv, NEW h \in Handlers, WriteProfile(h)
    PROVE  AdminInv'
<1>1. /\ lease' = Released(admin[h].locked)
      /\ admin' = [admin EXCEPT ![h] = Idle]
      /\ admin[h].pc = "commit" /\ admin[h].kind # "disable"
  BY DEF WriteProfile
<1>2. acked' \subseteq Incarnations
  BY DEF AdminInv, TypeOK, RegistrationsMinted, WriteProfile
<1>3. overlapped' \subseteq Handlers
  BY DEF AdminInv, TypeOK, WriteProfile, InFlight
<1>4. TypeOK'
  BY <1>1, <1>2, <1>3, LocksReleased, WriteProfileRow
     DEF AdminInv, TypeOK, Requests, WriteProfile
<1>5. LocksHeld' /\ RegistrationsMinted'
  BY <1>1, LocksReleased
<1>6. OverlapKnown'
  <2> SUFFICES ASSUME NEW g \in Handlers, runner'.disabled, ~ admin'[g].read.disabled,
                      admin'[g].pc # "idle", admin'[g].kind \notin {"enable", "disable"}
               PROVE  g \in overlapped'
    BY DEF OverlapKnown
  <2>1. g # h /\ admin'[g] = admin[g]
    BY <1>1, LocksReleased DEF Idle
  <2>2. CASE runner.disabled
    BY <2>1, <2>2 DEF AdminInv, OverlapKnown, WriteProfile
  <2>3. CASE ~ runner.disabled
    BY <2>1, <2>3 DEF WriteProfile, InFlight
  <2> QED
    BY <2>2, <2>3
<1>7. ActiveJobsMatchLeases'
  BY <1>1, LocksReleased, WriteProfileRow DEF AdminInv, ActiveJobsMatchLeases
<1> QED
  BY <1>4, <1>5, <1>6, <1>7 DEF AdminInv

\* The flag is set on the row as it is (DisableRunnerAndRevokeCert).
LEMMA DisableRunnerKept ==
    ASSUME AdminInv, NEW h \in Handlers, DisableRunner(h)
    PROVE  AdminInv'
<1>1. /\ lease' = Released(admin[h].locked)
      /\ admin' = [admin EXCEPT ![h] = Idle]
  BY DEF DisableRunner
<1>2. runner' \in Row /\ runner'.active = runner.active \ admin[h].locked
  <2>1. runner \in Row /\ runner.active \ admin[h].locked \in SUBSET Jobs
    BY RowFacts DEF AdminInv, TypeOK
  <2>2. PICK S \in SUBSET Jobs : S = runner.active \ admin[h].locked
    BY <2>1
  <2>3. PICK r \in Row : r = [runner EXCEPT !.active = S] /\ r.active = S
    BY <2>1, RowWithSlots
  <2>4. runner' = [r EXCEPT !.disabled = TRUE]
    BY <2>2, <2>3 DEF DisableRunner, WithoutSlots
  <2> QED
    BY <2>2, <2>3, <2>4, RowFacts
<1>3. overlapped' = InFlight(h) /\ overlapped' \subseteq Handlers
  BY DEF DisableRunner, InFlight
<1>4. TypeOK'
  BY <1>1, <1>2, <1>3, LocksReleased DEF AdminInv, TypeOK, Requests, DisableRunner
<1>5. LocksHeld' /\ RegistrationsMinted'
  BY <1>1, LocksReleased
<1>6. OverlapKnown'
  <2> SUFFICES ASSUME NEW g \in Handlers, admin'[g].pc # "idle"
               PROVE  g \in overlapped'
    BY DEF OverlapKnown
  <2>1. g # h /\ admin'[g] = admin[g]
    BY <1>1, LocksReleased DEF Idle
  <2> QED
    BY <2>1, <1>3 DEF InFlight
<1>7. ActiveJobsMatchLeases'
  BY <1>1, <1>2, LocksReleased DEF AdminInv, ActiveJobsMatchLeases
<1> QED
  BY <1>4, <1>5, <1>6, <1>7 DEF AdminInv

-----------------------------------------------------------------------------
(* Leases                                                                  *)

\* A step of the runner's own requests or of the clock may change leases as long as
\* the slots change with them and no locked lease goes.
LEMMA LeaseStepKept ==
    ASSUME AdminInv, lease' \in [Jobs -> Leases], runner' \in Row,
           runner'.active = Leased', LockedJobs \cap Leased \subseteq Leased',
           request' \in [Incarnations -> {"none", "next", "heartbeat", "complete"}],
           runner'.disabled = runner.disabled,
           UNCHANGED <<admin, minted, acked, overlapped, writes>>
    PROVE  AdminInv'
<1>1. TypeOK'
  BY DEF AdminInv, TypeOK
<1>2. LocksHeld'
  BY DEF AdminInv, LocksHeld, LockedJobs
<1>3. RegistrationsMinted' /\ OverlapKnown' /\ ActiveJobsMatchLeases'
  BY DEF AdminInv, RegistrationsMinted, OverlapKnown, ActiveJobsMatchLeases
<1> QED
  BY <1>1, <1>2, <1>3 DEF AdminInv

\* A step that changes nothing but the requests of the runner.
LEMMA RequestKept ==
    ASSUME AdminInv, UNCHANGED <<runner, lease>>,
           request' \in [Incarnations -> {"none", "next", "heartbeat", "complete"}],
           UNCHANGED <<admin, minted, acked, overlapped, writes>>
    PROVE  AdminInv'
<1>1. Leased' = Leased
  BY DEF Leased
<1> QED
  BY <1>1, LeaseStepKept DEF AdminInv, TypeOK, ActiveJobsMatchLeases

\* A claim takes the lease and the slot together (AcquireLeaseAtomic).
LEMMA ClaimKept ==
    ASSUME AdminInv, NEW i \in Incarnations, NEW j \in Jobs, Claim(i, j)
    PROVE  AdminInv'
<1>1. lease' = [lease EXCEPT ![j] = [holder |-> i, age |-> "fresh"]]
  BY DEF Claim
<1>2. lease' \in [Jobs -> Leases] /\ Leased' = Leased \cup {j}
  BY <1>1, LeaseFacts DEF AdminInv, TypeOK, Leased
<1>3. /\ runner' = [runner EXCEPT !.active = runner.active \cup {j}]
      /\ runner.active \cup {j} \in SUBSET Jobs
  BY RowFacts DEF AdminInv, TypeOK, Claim
<1>4. /\ runner' \in Row /\ runner'.active = runner.active \cup {j}
      /\ runner'.disabled = runner.disabled
  BY <1>3, RowWithSlots DEF AdminInv, TypeOK
<1>5. request' \in [Incarnations -> {"none", "next", "heartbeat", "complete"}]
  BY DEF AdminInv, TypeOK, Claim, Answered
<1> QED
  BY <1>2, <1>4, <1>5, LeaseStepKept DEF AdminInv, ActiveJobsMatchLeases, Claim

\* A lease that no request has locked ends with its slot.
LEMMA LeaseEndsKept ==
    ASSUME AdminInv, NEW j \in Jobs, j \notin LockedJobs,
           lease' = [lease EXCEPT ![j] = NoLease],
           runner' = [runner EXCEPT !.active = @ \ {j}],
           request' \in [Incarnations -> {"none", "next", "heartbeat", "complete"}],
           UNCHANGED <<admin, minted, acked, overlapped, writes>>
    PROVE  AdminInv'
<1>1. lease' \in [Jobs -> Leases] /\ Leased' = Leased \ {j}
  BY LeaseFacts DEF AdminInv, TypeOK, Leased
<1>2. /\ runner' = [runner EXCEPT !.active = runner.active \ {j}]
      /\ runner.active \ {j} \in SUBSET Jobs
  BY RowFacts DEF AdminInv, TypeOK
<1>3. /\ runner' \in Row /\ runner'.active = runner.active \ {j}
      /\ runner'.disabled = runner.disabled
  <2>1. runner \in Row
    BY DEF AdminInv, TypeOK
  <2>2. PICK S \in SUBSET Jobs : S = runner.active \ {j}
    BY <1>2
  <2>3. runner' = [runner EXCEPT !.active = S]
    BY <1>2, <2>2
  <2> QED
    BY <2>1, <2>2, <2>3, RowWithSlots
<1> QED
  BY <1>1, <1>3, LeaseStepKept DEF AdminInv, ActiveJobsMatchLeases

\* CompleteJob ends a lease.
LEMMA CompleteJobKept ==
    ASSUME AdminInv, NEW i \in Incarnations, NEW j \in Jobs, CompleteJob(i, j)
    PROVE  AdminInv'
<1>1. request' \in [Incarnations -> {"none", "next", "heartbeat", "complete"}]
  BY DEF AdminInv, TypeOK, CompleteJob, Answered
<1> QED
  BY <1>1, LeaseEndsKept DEF CompleteJob

\* RecoverExpiredLease ends a lease.
LEMMA RecoverExpiredLeaseKept ==
    ASSUME AdminInv, NEW j \in Jobs, RecoverExpiredLease(j)
    PROVE  AdminInv'
BY LeaseEndsKept DEF RecoverExpiredLease, AdminInv, TypeOK

\* The age of a lease is not whether there is one.
LEMMA LeaseAgedKept ==
    ASSUME AdminInv, NEW j \in Jobs, lease[j].holder \in Incarnations \/ lease[j].age # "none",
           NEW age \in {"fresh", "aging", "expired"}, lease' = [lease EXCEPT ![j].age = age],
           request' \in [Incarnations -> {"none", "next", "heartbeat", "complete"}],
           UNCHANGED <<runner, admin, minted, acked, overlapped, writes>>
    PROVE  AdminInv'
<1>1. /\ lease[j] \in Leases /\ lease[j] # NoLease
      /\ [lease[j] EXCEPT !.age = age] \in Leases
      /\ [lease[j] EXCEPT !.age = age] # NoLease
  BY LeaseFacts DEF AdminInv, TypeOK
<1>2. lease' = [lease EXCEPT ![j] = [lease[j] EXCEPT !.age = age]]
  BY DEF AdminInv, TypeOK
<1>3. lease' \in [Jobs -> Leases] /\ Leased' = Leased
  BY <1>1, <1>2 DEF AdminInv, TypeOK, Leased
<1> QED
  BY <1>3, LeaseStepKept DEF AdminInv, TypeOK, ActiveJobsMatchLeases

\* HeartbeatLease renews a lease.
LEMMA RenewLeaseKept ==
    ASSUME AdminInv, NEW i \in Incarnations, NEW j \in Jobs, RenewLease(i, j)
    PROVE  AdminInv'
<1>1. request' \in [Incarnations -> {"none", "next", "heartbeat", "complete"}]
  BY DEF AdminInv, TypeOK, RenewLease, Answered
<1> QED
  BY <1>1, LeaseAgedKept DEF RenewLease, Holds

\* The clock ages a lease.
LEMMA LeaseAgesKept ==
    ASSUME AdminInv, NEW j \in Jobs, LeaseAges(j)
    PROVE  AdminInv'
<1> DEFINE age == IF lease[j].age = "fresh" THEN "aging" ELSE "expired"
<1>1. age \in {"fresh", "aging", "expired"} /\ lease[j].age # "none"
  BY DEF LeaseAges
<1>2. lease' = [lease EXCEPT ![j].age = age]
  BY DEF AdminInv, TypeOK, LeaseAges
<1> QED
  BY <1>1, <1>2, LeaseAgedKept DEF LeaseAges, AdminInv, TypeOK

-----------------------------------------------------------------------------
(* The theorems                                                            *)

\* Every step keeps the invariant.
LEMMA NextKept == AdminInv /\ [Next]_vars => AdminInv'
<1> SUFFICES ASSUME AdminInv, [Next]_vars PROVE AdminInv'
  OBVIOUS
<1>1. ASSUME NEW h \in Handlers, NEW kind \in {"register", "drain", "enable", "disable"},
             ReadRunner(h, kind)
      PROVE  AdminInv'
  BY <1>1, ReadRunnerKept
<1>2. ASSUME NEW h \in Handlers, AdminStep(h) PROVE AdminInv'
  BY <1>2, LockLeasesKept, WriteProfileKept, DisableRunnerKept DEF AdminStep
<1>3. ASSUME NEW i \in Incarnations, NEW kind \in {"next", "heartbeat", "complete"},
             PassGate(i, kind)
      PROVE  AdminInv'
  <2>1. request' \in [Incarnations -> {"none", "next", "heartbeat", "complete"}]
    BY <1>3 DEF AdminInv, TypeOK, PassGate
  <2> QED
    BY <1>3, <2>1, RequestKept DEF PassGate
<1>4. ASSUME NEW i \in Incarnations, RequestRefused(i) PROVE AdminInv'
  <2>1. request' \in [Incarnations -> {"none", "next", "heartbeat", "complete"}]
    BY <1>4 DEF AdminInv, TypeOK, RequestRefused, Answered
  <2> QED
    BY <1>4, <2>1, RequestKept DEF RequestRefused
<1>5. ASSUME NEW i \in Incarnations, NEW j \in Jobs,
             Claim(i, j) \/ RenewLease(i, j) \/ CompleteJob(i, j)
      PROVE  AdminInv'
  BY <1>5, ClaimKept, RenewLeaseKept, CompleteJobKept
<1>6. ASSUME NEW j \in Jobs, LeaseAges(j) \/ RecoverExpiredLease(j) PROVE AdminInv'
  BY <1>6, LeaseAgesKept, RecoverExpiredLeaseKept
<1>7. CASE UNCHANGED vars
  BY <1>7, RequestKept DEF vars, AdminInv, TypeOK
<1> QED
  BY <1>1, <1>2, <1>3, <1>4, <1>5, <1>6, <1>7 DEF Next

\* AdminInv is an invariant of the runner's row, for any number of handlers, jobs
\* and incarnations.
THEOREM AdminInvariance == Spec => []AdminInv
BY InitKept, NextKept, PTL DEF Spec

\* The type invariant; that a runner process only knows incarnations that were given
\* out needs the invariant.
THEOREM TypeCorrect == Spec => []TypeOK
<1>1. AdminInv => TypeOK
  BY DEF AdminInv
<1> QED
  BY AdminInvariance, <1>1, PTL

\* The active set of the row is the set of leases the runner holds, although
\* registration, drain and enable write back a row they read before other leases
\* began and ended (mergeRunnerProfile keeps the lease-owned fields, and
\* revokeRunnerLeasesTx releases only jobs it locked).
THEOREM SlotsAreLeases == Spec => []ActiveJobsMatchLeases
<1>1. AdminInv => ActiveJobsMatchLeases
  BY DEF AdminInv
<1> QED
  BY AdminInvariance, <1>1, PTL

\* Only a profile that is written back clears the flag, and then it enables or had
\* read the row before the flag was set.
LEMMA FlagCleared ==
    ASSUME AdminInv, Next, runner.disabled, ~ runner'.disabled
    PROVE  \E h \in Handlers :
               /\ admin[h].pc = "commit" /\ admin'[h].pc = "idle"
               /\ admin[h].kind = "enable" \/ h \in overlapped
<1>1. ASSUME NEW h \in Handlers, WriteProfile(h)
      PROVE  /\ admin[h].pc = "commit" /\ admin'[h].pc = "idle"
             /\ admin[h].kind = "enable" \/ h \in overlapped
  <2>1. admin[h].pc = "commit" /\ admin[h].kind # "disable" /\ admin'[h].pc = "idle"
    BY <1>1 DEF AdminInv, TypeOK, WriteProfile, Idle
  <2>2. admin[h].kind # "enable" => ~ admin[h].read.disabled
    BY <1>1, WriteProfileRow
  <2> QED
    BY <2>1, <2>2 DEF AdminInv, OverlapKnown
<1>2. ASSUME NEW h \in Handlers, DisableRunner(h) PROVE FALSE
  <2>1. runner \in Row
    BY DEF AdminInv, TypeOK
  <2> QED
    BY <1>2, <2>1 DEF DisableRunner, WithoutSlots, Row
<1>3. runner'.disabled # runner.disabled
  OBVIOUS
<1>4. ASSUME NEW S \in SUBSET Jobs, runner' = [runner EXCEPT !.active = S] PROVE FALSE
  BY <1>3, <1>4, RowWithSlots DEF AdminInv, TypeOK
<1>5. ASSUME UNCHANGED runner PROVE FALSE
  BY <1>3, <1>5
<1>6. \E h \in Handlers : WriteProfile(h)
  <2>1. ASSUME NEW i \in Incarnations, NEW j \in Jobs,
               Claim(i, j) \/ RenewLease(i, j) \/ CompleteJob(i, j)
        PROVE  FALSE
    <3>1. CASE Claim(i, j)
      BY <3>1, <1>4, RowFacts DEF Claim, AdminInv, TypeOK
    <3>2. CASE RenewLease(i, j)
      BY <3>2, <1>5 DEF RenewLease
    <3>3. CASE CompleteJob(i, j)
      BY <3>3, <1>4, RowFacts DEF CompleteJob, AdminInv, TypeOK
    <3> QED
      BY <2>1, <3>1, <3>2, <3>3
  <2>2. ASSUME NEW j \in Jobs, LeaseAges(j) \/ RecoverExpiredLease(j) PROVE FALSE
    <3>1. CASE LeaseAges(j)
      BY <3>1, <1>5 DEF LeaseAges
    <3>2. CASE RecoverExpiredLease(j)
      BY <3>2, <1>4, RowFacts DEF RecoverExpiredLease, AdminInv, TypeOK
    <3> QED
      BY <2>2, <3>1, <3>2
  <2>3. ASSUME NEW h \in Handlers, NEW kind, ReadRunner(h, kind) PROVE FALSE
    BY <2>3, <1>5 DEF ReadRunner
  <2>4. ASSUME NEW h \in Handlers, LockLeases(h) PROVE FALSE
    BY <2>4, <1>5 DEF LockLeases
  <2>5. ASSUME NEW i \in Incarnations, NEW kind, PassGate(i, kind) PROVE FALSE
    BY <2>5, <1>5 DEF PassGate
  <2>6. ASSUME NEW i \in Incarnations, RequestRefused(i) PROVE FALSE
    BY <2>6, <1>5 DEF RequestRefused
  <2> QED
    BY <1>2, <2>1, <2>2, <2>3, <2>4, <2>5, <2>6 DEF Next, AdminStep
<1> QED
  BY <1>1, <1>6

\* A runner that was disabled stays disabled until an administrator enables it,
\* unless a request that was in flight when the flag was set writes back what it
\* read (a registration keeps the administrative state it read).
THEOREM FlagClearedByEnable == Spec => DisabledClearedByEnable
<1>1. ASSUME AdminInv, [Next]_vars
      PROVE  [runner.disabled /\ ~ runner'.disabled =>
                 \E h \in Handlers :
                     /\ admin[h].pc = "commit" /\ admin'[h].pc = "idle"
                     /\ admin[h].kind = "enable" \/ h \in overlapped]_vars
  BY <1>1, FlagCleared
<1> QED
  BY AdminInvariance, <1>1, PTL DEF Spec, DisabledClearedByEnable
=============================================================================
