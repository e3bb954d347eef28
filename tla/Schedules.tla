------------------------------ MODULE Schedules ------------------------------
(***************************************************************************)
(* Cron schedules in database mode: the leader's maintenance tick collects *)
(* the due occurrences and fires them, an operator triggers a schedule by  *)
(* hand, and an administrator's update reads a row and writes it back.     *)
(*                                                                         *)
(* A fire is three steps with nothing held between them: re-read the row,  *)
(* enqueue the run with its occurrence claim in one transaction fenced by  *)
(* the leadership epoch, advance last_run in another one.                  *)
(*                                                                         *)
(* Time is the number of minutes the database clock has passed; a          *)
(* replica's own clock may differ from it by ClockSkew.  Bounds: Horizon   *)
(* (minutes), MaxFailures (failures of a read, a forge, admission or a     *)
(* transaction, all of them transient), MaxTriggers, MaxEdits (updates and *)
(* revocations), MaxDisruptions (crashes and changes of leader).           *)
(***************************************************************************)
EXTENDS Naturals, FiniteSets

CONSTANTS
    Replicas,        \* control-plane processes
    FirstLeader,     \* the one that leads at the start
    Schedules,       \* schedule ids
    Cron,            \* the minutes each schedule's cron expression names
    MaxDues,         \* occurrences one tick collects: 100 in fireDueSchedules
    MaxScan,         \* of them, of one schedule: 64 in nextDueScheduleFromBudget
    ClockSkew,       \* minutes between a replica's clock and the database's
    Horizon, MaxFailures, MaxTriggers, MaxEdits, MaxDisruptions

ASSUME SchedulesAssumption ==
    /\ FirstLeader \in Replicas
    /\ Horizon \in Nat
    /\ Cron \in [Schedules -> SUBSET (1..Horizon)]
    /\ MaxDues \in Nat \ {0} /\ MaxScan \in Nat \ {0}
    /\ ClockSkew \in Nat
    /\ MaxFailures \in Nat /\ MaxTriggers \in Nat
    /\ MaxEdits \in Nat /\ MaxDisruptions \in Nat

VARIABLES
    now,         \* the database clock
    row,         \* schedules: enabled, last_run (0: never)
    revoked,     \* schedules whose creator lost the trusted_run grant
    runs,        \* committed runs of each occurrence
    claimed,     \* schedule_occurrences
    leader,      \* the replica whose fenced transactions commit
    work,        \* the tick and the manual trigger of each replica
    edit,        \* the update each replica is handling
    skipped,     \* history: occurrences passed because they may not fire
    failed,      \* history: occurrences whose fire failed
    overtaken,   \* history: occurrences due when a manual trigger advanced
    failures, triggers, edits, disruptions

bounds == <<failures, triggers, edits, disruptions>>
history == <<skipped, failed, overtaken>>
vars == <<now, row, revoked, runs, claimed, leader, work, edit, history, bounds>>

Minutes == 1..Horizon
Occurrences == Schedules \X Minutes
NoOccurrence == <<>>
Workers == Replicas \X {"tick", "trigger"}
IsTick(w) == w[2] = "tick"

\* `eligible' is history: the schedule was fit to fire at some moment of this
\* fire.
Idle == [pc |-> "idle", dues |-> {}, item |-> NoOccurrence, eligible |-> FALSE]
NoEdit == [pc |-> "idle", id |-> NoOccurrence, last |-> 0]

\* Every column and every record has its type.
Columns ==
    /\ now \in 0..Horizon
    /\ row \in [Schedules -> [enabled : BOOLEAN, last : 0..Horizon]]
    /\ revoked \subseteq Schedules
    /\ runs \in [Occurrences -> Nat]
    /\ claimed \subseteq Occurrences
    /\ leader \in Replicas
    /\ work \in [Workers -> [pc : {"idle", "read", "enqueue", "advance"},
                             dues : SUBSET Occurrences,
                             item : Occurrences \cup {NoOccurrence},
                             eligible : BOOLEAN]]
    /\ \A r \in Replicas : edit[r].last \in 0..Horizon
    /\ skipped \cup failed \cup overtaken \subseteq Occurrences

\* No marker is further ahead of the database clock than a replica's clock may be.
MarkersOnTime == \A s \in Schedules : row[s].last <= now + ClockSkew

\* Every column has its type, and no marker is so far ahead of the database clock
\* that it passes an occurrence before a tick finds it due, further than the clock
\* of a replica that a trigger was sent to is ahead (triggerSchedule,
\* AdvanceScheduleLastRun).
TypeOK == Columns /\ MarkersOnTime

Init ==
    /\ now = 0
    /\ row = [s \in Schedules |-> [enabled |-> TRUE, last |-> 0]]
    /\ revoked = {}
    /\ runs = [o \in Occurrences |-> 0]
    /\ claimed = {}
    /\ leader = FirstLeader
    /\ work = [w \in Workers |-> Idle]
    /\ edit = [r \in Replicas |-> NoEdit]
    /\ skipped = {} /\ failed = {} /\ overtaken = {}
    /\ failures = 0 /\ triggers = 0 /\ edits = 0 /\ disruptions = 0

\* Fault: the marker is set past the minute after the nominal.
LaterByOne(m, n) == IF m < n THEN n + 1 ELSE m

\* GREATEST of the stored marker and the nominal.
Later(m, n) == IF m < n THEN n ELSE m

\* Enabled, and trusted by a creator who still has the grant.
MayFire(s) == row[s].enabled /\ s \notin revoked
-----------------------------------------------------------------------------
(* Starting a fire. *)

\* Fault: of the occurrences that passed, only the last is due.
DueOfLatest(s) ==
    IF row[s].enabled
    THEN {<<s, n>> : n \in {m \in Cron[s] : row[s].last < m /\ m = now}}
    ELSE {}

\* What is due on the authoritative rows: derived from last_run, disabled
\* schedules left out.
DueOf(s) ==
    IF row[s].enabled
    THEN {<<s, n>> : n \in {m \in Cron[s] : row[s].last < m /\ m <= now}}
    ELSE {}
Due == UNION {DueOf(s) : s \in Schedules}

\* Of each schedule, the first MaxScan due occurrences.
Scanned ==
    {o \in Due : Cardinality({p \in DueOf(o[1]) : p[2] < o[2]}) < MaxScan}

\* The due occurrences a tick may collect: of each schedule the earliest, up to
\* the limit of the scan and of the tick.
Collected ==
    {dues \in SUBSET Scanned :
        /\ \A o \in dues : \A p \in DueOf(o[1]) : p[2] < o[2] => p \in dues
        /\ \/ dues = Scanned /\ Cardinality(Scanned) <= MaxDues
           \/ Cardinality(dues) = MaxDues}

\* The occurrences of `dues' that a tick fires next: in the order of a schedule.
Foremost(dues) == {o \in dues : \A p \in dues : p[1] = o[1] => p[2] >= o[2]}

\* A worker goes on with its next due occurrence; a trigger has none.
NextItem(w) ==
    IF work[w].dues = {} THEN {Idle}
    ELSE {[pc |-> "read", dues |-> work[w].dues \ {o}, item |-> o,
           eligible |-> MayFire(o[1])] : o \in Foremost(work[w].dues)}

\* reloadSchedulesFromStore and the collection loop.
CollectDue(r) ==
    /\ r = leader
    /\ work[<<r, "tick">>].pc = "idle"
    /\ Due # {}
    /\ \E dues \in Collected : \E o \in Foremost(dues) :
           work' = [work EXCEPT ![<<r, "tick">>] =
                       [pc |-> "read", dues |-> dues \ {o}, item |-> o,
                        eligible |-> MayFire(o[1])]]
    /\ UNCHANGED <<now, row, revoked, runs, claimed, leader, edit, history, bounds>>

\* What a replica's own clock may show.
LocalMinutes == {n \in Minutes : n <= now + ClockSkew /\ now <= n + ClockSkew}

\* The nominal of a manual trigger is the current minute of the replica's clock.
TriggerSchedule(r, s) ==
    /\ work[<<r, "trigger">>].pc = "idle"
    /\ triggers < MaxTriggers
    /\ triggers' = triggers + 1
    /\ \E n \in LocalMinutes :
           work' = [work EXCEPT ![<<r, "trigger">>] =
                       [pc |-> "read", dues |-> {}, item |-> <<s, n>>,
                        eligible |-> MayFire(s)]]
    /\ UNCHANGED <<now, row, revoked, runs, claimed, leader, edit, history,
                   failures, edits, disruptions>>
-----------------------------------------------------------------------------
(* The steps of a fire. *)

\* Fault: the fire trusts the copy its tick collected.
FireAllowedAsCollected(s) == TRUE

\* The re-read of the row and of the creator's grant.
FireAllowed(s) == MayFire(s)

\* A schedule that may not fire is passed by a tick and refused to a trigger.
Reread(w) ==
    /\ work[w].pc = "read"
    /\ IF FireAllowed(work[w].item[1])
       THEN /\ work' = [work EXCEPT ![w].pc = "enqueue"]
            /\ UNCHANGED skipped
       ELSE /\ work' = [work EXCEPT ![w] =
                           IF IsTick(w) THEN [@ EXCEPT !.pc = "advance"] ELSE Idle]
            /\ skipped' = IF IsTick(w) THEN skipped \cup {work[w].item} ELSE skipped
    /\ UNCHANGED <<now, row, revoked, runs, claimed, leader, edit, failed,
                   overtaken, bounds>>

\* Fault: an existing claim does not fail the enqueue.
ClaimLostNever(o) == FALSE

\* The claim inserted with the run: the occurrence must be free.
ClaimLost(o) == o \in claimed

\* Fault: a lost claim is left to the next tick.
AfterLostClaimMovesOn(w) == NextItem(w)

\* What a fire does once its claim is lost: a tick skips ahead durably, a trigger
\* answers a conflict.
AfterLostClaim(w) ==
    IF IsTick(w) THEN {[work[w] EXCEPT !.pc = "advance"]} ELSE {Idle}

\* InsertCompiledRun with a schedule claim.  A replica that no longer leads fails
\* on the fence and ends its tick.
Enqueue(w) ==
    LET o == work[w].item
    IN  /\ work[w].pc = "enqueue"
        /\ \/ /\ w[1] # leader
              /\ work' = [work EXCEPT ![w] = Idle]
              /\ UNCHANGED <<runs, claimed>>
           \/ /\ w[1] = leader
              /\ ClaimLost(o)
              /\ \E after \in AfterLostClaim(w) : work' = [work EXCEPT ![w] = after]
              /\ UNCHANGED <<runs, claimed>>
           \/ /\ w[1] = leader
              /\ ~ ClaimLost(o)
              /\ runs' = [runs EXCEPT ![o] = @ + 1]
              /\ claimed' = claimed \cup {o}
              /\ work' = [work EXCEPT ![w].pc = "advance"]
        /\ UNCHANGED <<now, row, revoked, leader, edit, history, bounds>>

\* AdvanceScheduleLastRun: GREATEST of the stored marker and the nominal, fenced;
\* a refused advance is logged and the worker goes on.
Advance(w) ==
    LET s == work[w].item[1]
        n == work[w].item[2]
    IN  /\ work[w].pc = "advance"
        /\ row' = IF w[1] # leader THEN row
                  ELSE [row EXCEPT ![s].last = Later(@, n)]
        /\ overtaken' = IF IsTick(w) \/ w[1] # leader THEN overtaken
                        ELSE overtaken \cup {o \in Occurrences : o[1] = s /\ o[2] < n}
        /\ \E next \in NextItem(w) : work' = [work EXCEPT ![w] = next]
        /\ UNCHANGED <<now, revoked, runs, claimed, leader, edit, skipped, failed, bounds>>

\* A step fails: the worker sees an error and goes on, and a tick leaves the
\* occurrence to the next one.
SeesFailure(w) ==
    /\ failures < MaxFailures
    /\ failures' = failures + 1
    /\ failed' = IF IsTick(w) /\ work[w].pc # "advance"
                 THEN failed \cup {work[w].item} ELSE failed
    /\ \E next \in NextItem(w) : work' = [work EXCEPT ![w] = next]
    /\ UNCHANGED <<now, row, revoked, leader, edit, skipped, overtaken,
                   triggers, edits, disruptions>>

\* The read, the forge or the transaction fails with no effect.
FireFails(w) ==
    /\ work[w].pc # "idle"
    /\ SeesFailure(w)
    /\ UNCHANGED <<runs, claimed>>

\* The enqueue commits and its answer is lost.
EnqueueAnswerLost(w) ==
    LET o == work[w].item
    IN  /\ work[w].pc = "enqueue"
        /\ w[1] = leader
        /\ ~ ClaimLost(o)
        /\ runs' = [runs EXCEPT ![o] = @ + 1]
        /\ claimed' = claimed \cup {o}
        /\ SeesFailure(w)
-----------------------------------------------------------------------------
(* Administration and the environment. *)

\* An update of a schedule reads the row ...
UpsertReads(r, s) ==
    /\ edit[r].pc = "idle"
    /\ edits < MaxEdits
    /\ edits' = edits + 1
    /\ edit' = [edit EXCEPT ![r] = [pc |-> "write", id |-> s, last |-> row[s].last]]
    /\ UNCHANGED <<now, row, revoked, runs, claimed, leader, work, history,
                   failures, triggers, disruptions>>

\* ... and UpsertSchedule writes all of it back, last_run included.
UpsertSchedule(r, on) ==
    LET s == edit[r].id
    IN  /\ edit[r].pc = "write"
        /\ row' = [row EXCEPT ![s] = [enabled |-> on, last |-> edit[r].last]]
        /\ work' = [w \in Workers |->
                       IF work[w].item # NoOccurrence /\ work[w].item[1] = s
                       THEN [work[w] EXCEPT !.eligible = @ \/ (on /\ s \notin revoked)]
                       ELSE work[w]]
        /\ edit' = [edit EXCEPT ![r] = NoEdit]
        /\ UNCHANGED <<now, revoked, runs, claimed, leader, history, bounds>>

\* The creator of a trusted schedule loses the grant.
RevokeGrant(s) ==
    /\ edits < MaxEdits
    /\ s \notin revoked
    /\ edits' = edits + 1
    /\ revoked' = revoked \cup {s}
    /\ UNCHANGED <<now, row, runs, claimed, leader, work, edit, history,
                   failures, triggers, disruptions>>

\* A minute passes on the database clock.
MinutePasses ==
    /\ now < Horizon
    /\ now' = now + 1
    /\ UNCHANGED <<row, revoked, runs, claimed, leader, work, edit, history, bounds>>

\* Another replica is promoted.
ChangeLeader(r) ==
    /\ r # leader
    /\ disruptions < MaxDisruptions
    /\ disruptions' = disruptions + 1
    /\ leader' = r
    /\ UNCHANGED <<now, row, revoked, runs, claimed, work, edit, history,
                   failures, triggers, edits>>

\* A replica restarts: what it was handling is lost.
Crash(r) ==
    /\ disruptions < MaxDisruptions
    /\ disruptions' = disruptions + 1
    /\ work' = [w \in Workers |-> IF w[1] = r THEN Idle ELSE work[w]]
    /\ edit' = [edit EXCEPT ![r] = NoEdit]
    /\ UNCHANGED <<now, row, revoked, runs, claimed, leader, history,
                   failures, triggers, edits>>

WorkerStep(w) == Reread(w) \/ Enqueue(w) \/ Advance(w)

Next ==
    \/ \E w \in Workers : WorkerStep(w) \/ FireFails(w) \/ EnqueueAnswerLost(w)
    \/ \E r \in Replicas :
           \/ CollectDue(r)
           \/ \E s \in Schedules : TriggerSchedule(r, s) \/ UpsertReads(r, s)
           \/ \E on \in BOOLEAN : UpsertSchedule(r, on)
           \/ ChangeLeader(r)
           \/ Crash(r)
    \/ \E s \in Schedules : RevokeGrant(s)
    \/ MinutePasses

Spec == Init /\ [][Next]_vars

\* The leader ticks again and again, and a fire that began goes on.
Fairness ==
    /\ \A r \in Replicas : WF_vars(CollectDue(r))
    /\ \A w \in Workers : WF_vars(WorkerStep(w))

FairSpec == Spec /\ Fairness
-----------------------------------------------------------------------------
(* Properties. *)

\* However ticks, manual triggers, crashes and changes of leader interleave, an
\* occurrence has at most one run (fireSchedule, insertScheduleClaimTx).
OneRunPerOccurrence == \A o \in Occurrences : runs[o] <= 1

\* The marker passes no occurrence of the cron expression silently: each one ran,
\* was skipped because its schedule may not fire, failed, or was overtaken by a
\* manual trigger of a later minute (fireDueSchedules, nextDueScheduleFromBudget).
PassedOccurrencesAccounted ==
    \A o \in Occurrences :
        (o[2] \in Cron[o[1]] /\ o[2] <= row[o[1]].last)
            => o \in claimed \cup skipped \cup failed \cup overtaken

\* A run is only created for a schedule that was enabled and trusted at some
\* moment of that fire, however long ago its tick collected it (fireSchedule:
\* the re-read of the row immediately before firing).
RunsOnlyWhileEligible ==
    [][\A o \in Occurrences : runs'[o] > runs[o] =>
           \E w \in Workers : work[w].item = o /\ work[w].eligible]_vars

\* A due occurrence of an enabled schedule is settled in the end, also when its
\* run was committed and the advance of the marker was lost (fireDueSchedules:
\* the claim that is lost advances durably).  Failures end: an occurrence that
\* admission or policy refuses for good is retried on every tick instead.
DueOccurrenceSettled ==
    \A o \in Occurrences :
        o \in Due ~> (o[2] <= row[o[1]].last \/ ~ row[o[1]].enabled)
=============================================================================
