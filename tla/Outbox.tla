------------------------------- MODULE Outbox -------------------------------
(***************************************************************************)
(* The durable outbox of the control plane in database mode: the intents   *)
(* of the outbox table, the delivered watermark of each remote check, and  *)
(* the leader's flush that claims rows, publishes them to the forge and    *)
(* acknowledges them.                                                      *)
(*                                                                         *)
(* An intent is the state of a remote check: a row per logical key and     *)
(* state version (internal/server/github_status.go).  The forge is         *)
(* GitHub's check API, which has the most steps: find the check by its     *)
(* external id, create or patch it, record the id it got.                  *)
(*                                                                         *)
(* Time is abstracted: a claim may outlive OutboxClaimTTL at any moment    *)
(* and a backed-off row may be due at once.  Bounds: Budget (enqueues and  *)
(* operator requeues) and MaxDisruptions (crashes and changes of leader).  *)
(* Left out: the loss of a check fence's session while its dispatcher runs *)
(* on, and a forge request that timed out and takes effect later.          *)
(***************************************************************************)
EXTENDS Naturals, FiniteSets

CONSTANTS
    Replicas,        \* control-plane processes
    FirstLeader,     \* the one that leads at the start
    NoReplica,       \* nobody
    Checks,          \* logical keys of remote checks
    MaxVersion,      \* state versions of a check: queued, in progress, completed
    Contents,        \* what a payload can say
    Payloads,        \* what the payload of each version can say
    NoContent,       \* no payload
    MaxAttempts,     \* maxOutboxAttempts
    Budget, MaxDisruptions

ASSUME OutboxAssumption ==
    /\ FirstLeader \in Replicas
    /\ NoReplica \notin Replicas
    /\ NoContent \notin Contents
    /\ Payloads \in [1..MaxVersion -> SUBSET Contents]
    /\ MaxVersion \in Nat \ {0}
    /\ MaxAttempts \in Nat \ {0}
    /\ Budget \in Nat /\ MaxDisruptions \in Nat

VARIABLES
    rows,        \* the outbox table, by id
    watermark,   \* forge_check_state.delivered_version
    mapped,      \* whether check_runs holds the remote id of a check
    fence,       \* holder of the publication fence of a check
    leader,      \* the replica whose fenced transactions commit
    local,       \* the resident copy each replica holds of an intent
    work,        \* the flush each replica is in
    remote,      \* what the forge shows for a check
    created,     \* how many check runs the forge has for a check
    owed,        \* history: the last accepted state of a check not shown yet
    raced,       \* history: the checks accepted while an older copy of their row
                 \* was in a flush or resident in another replica
    abandoned,   \* history: the highest version of a check ever dead-lettered
    budget, disruptions

store == <<rows, watermark, mapped>>
forge == <<remote, created>>
bounds == <<budget, disruptions>>
history == <<owed, raced, abandoned>>
vars == <<store, fence, leader, local, work, forge, history, bounds>>

Versions == 1..MaxVersion
Ids == Checks \X Versions
KeyOf(id) == id[1]
VersionOf(id) == id[2]

Absent == [state |-> "absent", content |-> NoContent, attempts |-> 0,
           claim |-> NoReplica, stale |-> FALSE]
Fresh(c) == [Absent EXCEPT !.state = "pending", !.content = c]
Row == [state : {"absent", "pending", "dead"}, content : Contents \cup {NoContent},
        attempts : 0..MaxAttempts, claim : Replicas \cup {NoReplica}, stale : BOOLEAN]

\* A state of a check: its version and what the payload says.
State(v, c) == [version |-> v, content |-> c]
Nothing == State(0, NoContent)
CheckState == [version : 0..MaxVersion, content : Contents \cup {NoContent}]

Intent(id, c) == [id |-> id, content |-> c]
Intents == [id : Ids, content : Contents]
NoIntent == [id |-> <<>>, content |-> NoContent]

\* A flush: where it is, the claimed intents it has still to dispatch, the claimed
\* ids it has not acknowledged and the intent it is dispatching.
Idle == [pc |-> "idle", todo |-> {}, unacked |-> {}, item |-> NoIntent]
Flush == [pc : {"idle", "next", "fence", "publish", "map", "ack", "retry", "sweep"},
          todo : SUBSET Intents, unacked : SUBSET Ids, item : Intents \cup {NoIntent}]

Init ==
    /\ rows = [id \in Ids |-> Absent]
    /\ watermark = [k \in Checks |-> 0]
    /\ mapped = [k \in Checks |-> FALSE]
    /\ fence = [k \in Checks |-> NoReplica]
    /\ leader = FirstLeader
    /\ local = [r \in Replicas |-> [id \in Ids |-> NoContent]]
    /\ work = [r \in Replicas |-> Idle]
    /\ remote = [k \in Checks |-> Nothing]
    /\ created = [k \in Checks |-> 0]
    /\ owed = [k \in Checks |-> Nothing]
    /\ raced = {}
    /\ abandoned = [k \in Checks |-> 0]
    /\ budget = Budget /\ disruptions = 0

Higher(m, n) == IF m < n THEN n ELSE m
Pending(id) == rows[id].state = "pending"
PendingVersions(k) == {v \in Versions : Pending(<<k, v>>)}
-----------------------------------------------------------------------------
(* Enqueueing. *)

\* A state that is not newer than what was delivered, or older than what is
\* pending, is not inserted.
Outdated(k, v) == v <= watermark[k] \/ \E w \in PendingVersions(k) : v < w

\* The pending rows at or below the version are deleted, then the row is
\* inserted unless a dead letter has its id.
Superseding(k, v, c) ==
    [id \in Ids |->
        IF KeyOf(id) = k /\ VersionOf(id) <= v /\ rows[id].state # "dead"
        THEN IF VersionOf(id) = v THEN Fresh(c) ELSE Absent
        ELSE rows[id]]

\* The resident copies an enqueue of version v leaves: supersedeLocked drops
\* the older ones whatever the outcome, the new one is added if it was inserted.
LocalAfter(r, k, v, c, inserted) ==
    [id \in Ids |->
        IF id = <<k, v>> /\ inserted THEN c
        ELSE IF KeyOf(id) = k /\ VersionOf(id) <= v THEN NoContent
        ELSE local[r][id]]

\* Some flush has the row in its batch.
InHand(id) ==
    \E r \in Replicas : work[r].item.id = id \/ \E t \in work[r].todo : t.id = id

\* Another replica keeps a resident copy of the row that says something else.
HeldElsewhere(r, id, c) ==
    \E q \in Replicas \ {r} : local[q][id] \notin {NoContent, c}

OutboxEnqueueVersioned(r, k, v, c) ==
    LET inserted == ~ Outdated(k, v) /\ rows[<<k, v>>].state # "dead"
    IN  /\ budget > 0
        /\ budget' = budget - 1
        /\ rows' = IF Outdated(k, v) THEN rows ELSE Superseding(k, v, c)
        /\ local' = [local EXCEPT ![r] = LocalAfter(r, k, v, c, inserted)]
        /\ owed' = IF ~ inserted THEN owed
                   ELSE [owed EXCEPT ![k] = IF remote[k] = State(v, c) THEN Nothing
                                            ELSE State(v, c)]
        /\ raced' = IF ~ inserted THEN raced
                    ELSE IF InHand(<<k, v>>) \/ HeldElsewhere(r, <<k, v>>, c)
                    THEN raced \cup {k} ELSE raced \ {k}
        /\ UNCHANGED <<watermark, mapped, fence, leader, work, forge, abandoned,
                       disruptions>>
-----------------------------------------------------------------------------
(* Claiming a batch. *)

\* Fault: a claim never grows old.
ClaimableUnclaimed(id) == Pending(id) /\ rows[id].claim = NoReplica

\* A row is claimable when it is not a dead letter and nobody holds it, or the
\* claim on it is older than OutboxClaimTTL.
Claimable(id) == Pending(id) /\ (rows[id].claim = NoReplica \/ rows[id].stale)

\* ClaimOutbox and the start of flushDBBatch.  The flush dispatches the copy it
\* already holds of an intent, and the claimed one only where it holds none; a
\* flush filtered by kind (flushOutboxKind) skips every check and only sweeps.
\* When the answer is lost the rows stay claimed and the flush ends.
ClaimOutbox(r, filtered, answered) ==
    LET claimed == {id \in Ids : Claimable(id)}
        copy == [id \in Ids |->
                    IF id \in claimed /\ local[r][id] = NoContent
                    THEN rows[id].content ELSE local[r][id]]
    IN  /\ work[r].pc = "idle"
        /\ leader = r
        /\ claimed # {}
        /\ rows' = [id \in Ids |-> IF id \in claimed
                                   THEN [rows[id] EXCEPT !.claim = r, !.stale = FALSE]
                                   ELSE rows[id]]
        /\ IF answered
           THEN /\ local' = [local EXCEPT ![r] = copy]
                /\ work' = [work EXCEPT ![r] =
                       [pc |-> IF filtered THEN "sweep" ELSE "next",
                        todo |-> IF filtered THEN {} ELSE {Intent(id, copy[id]) : id \in claimed},
                        unacked |-> claimed, item |-> NoIntent]]
           ELSE UNCHANGED <<local, work>>
        /\ UNCHANGED <<watermark, mapped, fence, leader, forge, history, bounds>>

\* OutboxClaimTTL passes over a claim.
ClaimExpires(id) ==
    /\ rows[id].claim # NoReplica
    /\ ~ rows[id].stale
    /\ rows' = [rows EXCEPT ![id].stale = TRUE]
    /\ UNCHANGED <<watermark, mapped, fence, leader, local, work, forge, history, bounds>>
-----------------------------------------------------------------------------
(* Dispatching one intent. *)

\* Publish only while the row exists, no version at or above it was delivered
\* and no newer version is pending.
OutboxVersionGuard(id) ==
    /\ rows[id].state # "absent"
    /\ watermark[KeyOf(id)] < VersionOf(id)
    /\ \A v \in PendingVersions(KeyOf(id)) : v <= VersionOf(id)

Item(r) == work[r].item
Key(r) == KeyOf(Item(r).id)
ItemState(r) == State(VersionOf(Item(r).id), Item(r).content)

\* The next step of r's flush.
Goto(r, pc) == work' = [work EXCEPT ![r].pc = pc]
ReleaseFence(r) == fence' = [fence EXCEPT ![Key(r)] = IF @ = r THEN NoReplica ELSE @]
FlushStep == UNCHANGED <<store, leader, local, history, bounds>>

\* The flush takes an intent, and the guard is read a first time without the
\* fence.
Begin(r) ==
    \E t \in work[r].todo :
        /\ work[r].pc = "next"
        /\ work' = [work EXCEPT ![r].pc = IF OutboxVersionGuard(t.id) THEN "fence" ELSE "ack",
                                ![r].item = t, ![r].todo = @ \ {t}]
        /\ UNCHANGED <<fence, forge>>
        /\ FlushStep

\* Fault: a publication does not wait for the one in progress.
PublishUnfenced(r) ==
    /\ work[r].pc = "fence"
    /\ IF OutboxVersionGuard(Item(r).id)
       THEN Goto(r, "publish") /\ fence' = [fence EXCEPT ![Key(r)] = r]
       ELSE Goto(r, "ack") /\ UNCHANGED fence
    /\ UNCHANGED forge
    /\ FlushStep

\* The fence of the check (AcquireNamedFence), and the guard again inside it.
FenceVersionedCheck(r) ==
    /\ work[r].pc = "fence"
    /\ fence[Key(r)] = NoReplica
    /\ IF OutboxVersionGuard(Item(r).id)
       THEN Goto(r, "publish") /\ fence' = [fence EXCEPT ![Key(r)] = r]
       ELSE Goto(r, "ack") /\ UNCHANGED fence
    /\ UNCHANGED forge
    /\ FlushStep

\* Fault: without a recorded id the check is created, not looked for.
CreateUnlessMapped(k) == IF mapped[k] THEN created[k] ELSE created[k] + 1

\* PublishCheckRun creates a check only when no id is recorded (getCheckRunID)
\* and FindCheckRun knows none with its external id.
CheckRunsAfter(k) == IF mapped[k] \/ created[k] > 0 THEN created[k] ELSE created[k] + 1

\* The check is created or patched.  The answer may be lost: the dispatch fails
\* although the forge shows the state.
PublishCheckRun(r, answered) ==
    /\ work[r].pc = "publish"
    /\ remote' = [remote EXCEPT ![Key(r)] = ItemState(r)]
    /\ created' = [created EXCEPT ![Key(r)] = CheckRunsAfter(Key(r))]
    /\ owed' = [owed EXCEPT ![Key(r)] = IF @ = ItemState(r) THEN Nothing ELSE @]
    /\ IF answered /\ ~ mapped[Key(r)]
       THEN Goto(r, "map") /\ UNCHANGED fence
       ELSE Goto(r, IF answered THEN "ack" ELSE "retry") /\ ReleaseFence(r)
    /\ UNCHANGED <<store, leader, local, raced, abandoned, bounds>>

\* The id is recorded before the intent can be acknowledged.
PutCheckRun(r) ==
    /\ work[r].pc = "map"
    /\ mapped' = [mapped EXCEPT ![Key(r)] = TRUE]
    /\ ReleaseFence(r)
    /\ Goto(r, "ack")
    /\ UNCHANGED <<rows, watermark, leader, local, forge, history, bounds>>

\* Fault: a failed call is taken for a success.
FailureSwallowed(r) ==
    /\ work[r].pc \in {"fence", "publish", "map"}
    /\ Goto(r, "ack")
    /\ ReleaseFence(r)
    /\ UNCHANGED forge
    /\ FlushStep

\* A call of the dispatch fails before it had an effect.
DispatchFails(r) ==
    /\ work[r].pc \in {"fence", "publish", "map"}
    /\ Goto(r, "retry")
    /\ ReleaseFence(r)
    /\ UNCHANGED forge
    /\ FlushStep
-----------------------------------------------------------------------------
(* After the dispatch. *)

\* The flush goes on with the rest of the batch.
Finished(r) == [work EXCEPT ![r].pc = "next", ![r].item = NoIntent]
FinishedAcked(r) ==
    [work EXCEPT ![r].pc = "next", ![r].item = NoIntent, ![r].unacked = @ \ {Item(r).id}]

\* Fault: the watermark is added to, not raised.
WatermarkAdds(id) ==
    IF rows[id].state # "absent"
    THEN [watermark EXCEPT ![KeyOf(id)] = @ + VersionOf(id)]
    ELSE watermark

\* The watermark after the row is deleted: never lowered.
WatermarkAfter(id) ==
    IF rows[id].state # "absent"
    THEN [watermark EXCEPT ![KeyOf(id)] = Higher(@, VersionOf(id))]
    ELSE watermark

\* OutboxAck deletes the row by its id, in a transaction only the leader's epoch
\* may commit, and the flush forgets the intent.  When the transaction fails, or
\* its answer is lost, the flush ends.
OutboxAck(r, committed, answered) ==
    LET id == Item(r).id
    IN  /\ work[r].pc = "ack"
        /\ committed => leader = r
        /\ answered => committed
        /\ IF committed
           THEN rows' = [rows EXCEPT ![id] = Absent] /\ watermark' = WatermarkAfter(id)
           ELSE UNCHANGED <<rows, watermark>>
        /\ IF answered
           THEN /\ work' = FinishedAcked(r)
                /\ local' = [local EXCEPT ![r][id] = NoContent]
           ELSE Goto(r, "sweep") /\ UNCHANGED local
        /\ UNCHANGED <<mapped, fence, leader, forge, history, bounds>>

\* The failure that makes a row a dead letter.
LastAttempt(id) == rows[id].attempts + 1 >= MaxAttempts

\* retryOutboxRow: the attempt is counted and the claim dropped, unless another
\* flusher holds the row or the statement fails; the resident copy goes.
OutboxRetryClaimed(r, recorded) ==
    LET id == Item(r).id
        row == rows[id]
        dies == LastAttempt(id)
        counted == /\ recorded
                   /\ row.state # "absent"
                   /\ row.claim \in {NoReplica, r}
    IN  /\ work[r].pc = "retry"
        /\ rows' = IF ~ counted THEN rows
                   ELSE [rows EXCEPT ![id] =
                            [row EXCEPT !.attempts = IF @ < MaxAttempts THEN @ + 1 ELSE @,
                                        !.claim = NoReplica, !.stale = FALSE,
                                        !.state = IF dies THEN "dead" ELSE @]]
        /\ abandoned' = IF counted /\ dies
                        THEN [abandoned EXCEPT ![KeyOf(id)] = Higher(@, VersionOf(id))]
                        ELSE abandoned
        /\ local' = [local EXCEPT ![r][id] = NoContent]
        /\ work' = Finished(r)
        /\ UNCHANGED <<watermark, mapped, fence, leader, forge, owed, raced, bounds>>

\* The claims the sweep drops: of rows not acknowledged, and still the caller's.
Released(r) == {id \in work[r].unacked : rows[id].claim = r}

\* The deferred sweep of a batch, fenced like the claim.  When it fails the rows
\* stay claimed until OutboxClaimTTL.
ReleaseOutboxClaims(r, succeeds) ==
    /\ work[r].pc = "sweep" \/ (work[r].pc = "next" /\ work[r].todo = {})
    /\ succeeds => leader = r
    /\ rows' = [id \in Ids |-> IF succeeds /\ id \in Released(r)
                               THEN [rows[id] EXCEPT !.claim = NoReplica, !.stale = FALSE]
                               ELSE rows[id]]
    /\ work' = [work EXCEPT ![r] = Idle]
    /\ UNCHANGED <<watermark, mapped, fence, leader, local, forge, history,
                   bounds>>
-----------------------------------------------------------------------------
(* The operator and the environment. *)

OutboxRequeue(id) ==
    /\ rows[id].state = "dead"
    /\ budget > 0
    /\ budget' = budget - 1
    /\ rows' = [rows EXCEPT ![id] = Fresh(@.content)]
    /\ UNCHANGED <<watermark, mapped, fence, leader, local, work, forge, history, disruptions>>

\* The operator gives up a state, and the older ones it stood for.
OutboxDelete(id) ==
    /\ rows[id].state = "dead"
    /\ rows' = [rows EXCEPT ![id] = Absent]
    /\ owed' = [owed EXCEPT ![KeyOf(id)] =
                   IF @.version <= VersionOf(id) THEN Nothing ELSE @]
    /\ UNCHANGED <<watermark, mapped, fence, leader, local, work, forge, raced, abandoned,
                   bounds>>

\* Another replica acquires leadership, which LeaderFence models.
LeaderChanges(r) ==
    /\ leader # r
    /\ disruptions < MaxDisruptions
    /\ disruptions' = disruptions + 1
    /\ leader' = r
    /\ UNCHANGED <<store, fence, local, work, forge, history, budget>>

\* A replica restarts: its memory is gone and its fence sessions are closed.
Crash(r) ==
    /\ disruptions < MaxDisruptions
    /\ disruptions' = disruptions + 1
    /\ work' = [work EXCEPT ![r] = Idle]
    /\ local' = [local EXCEPT ![r] = [id \in Ids |-> NoContent]]
    /\ fence' = [k \in Checks |-> IF fence[k] = r THEN NoReplica ELSE fence[k]]
    /\ UNCHANGED <<store, leader, forge, history, budget>>

FlushNext(r) ==
    \/ \E filtered, answered \in BOOLEAN : ClaimOutbox(r, filtered, answered)
    \/ Begin(r)
    \/ FenceVersionedCheck(r)
    \/ \E answered \in BOOLEAN : PublishCheckRun(r, answered)
    \/ PutCheckRun(r)
    \/ DispatchFails(r)
    \/ \E committed, answered \in BOOLEAN : OutboxAck(r, committed, answered)
    \/ \E recorded \in BOOLEAN : OutboxRetryClaimed(r, recorded)
    \/ \E succeeds \in BOOLEAN : ReleaseOutboxClaims(r, succeeds)

Next ==
    \/ \E r \in Replicas, k \in Checks, v \in Versions :
           \E c \in Payloads[v] : OutboxEnqueueVersioned(r, k, v, c)
    \/ \E r \in Replicas : FlushNext(r) \/ LeaderChanges(r) \/ Crash(r)
    \/ \E id \in Ids : ClaimExpires(id)
    \/ \E k \in Checks, v \in Versions : OutboxRequeue(<<k, v>>) \/ OutboxDelete(<<k, v>>)

Spec == Init /\ [][Next]_vars
-----------------------------------------------------------------------------
(* Fairness: the leader's maintenance loop flushes on every tick, every call of *)
(* a flush ends because its context is bounded, a statement that is tried for   *)
(* ever succeeds once, and the database clock passes over every claim.  Nothing *)
(* is assumed of the forge.                                                     *)

FlushWork(r) ==
    \/ Begin(r) \/ FenceVersionedCheck(r)
    \/ \E answered \in BOOLEAN : PublishCheckRun(r, answered)
    \/ PutCheckRun(r) \/ DispatchFails(r)
    \/ \E committed, answered \in BOOLEAN : OutboxAck(r, committed, answered)
    \/ \E b \in BOOLEAN : OutboxRetryClaimed(r, b) \/ ReleaseOutboxClaims(r, b)

FairSpec ==
    /\ Spec
    /\ \A r \in Replicas : WF_vars(FlushWork(r))
    /\ SF_vars(\E r \in Replicas : ClaimOutbox(r, FALSE, TRUE))
    /\ SF_vars(\E r \in Replicas : OutboxAck(r, TRUE, TRUE))
    /\ SF_vars(\E r \in Replicas : OutboxRetryClaimed(r, TRUE))
    /\ \A id \in Ids : WF_vars(ClaimExpires(id))
-----------------------------------------------------------------------------
(* Properties. *)

TypeOK ==
    /\ rows \in [Ids -> Row]
    /\ watermark \in [Checks -> 0..MaxVersion]
    /\ mapped \in [Checks -> BOOLEAN]
    /\ fence \in [Checks -> Replicas \cup {NoReplica}]
    /\ leader \in Replicas
    /\ local \in [Replicas -> [Ids -> Contents \cup {NoContent}]]
    /\ work \in [Replicas -> Flush]
    /\ remote \in [Checks -> CheckState]
    /\ created \in [Checks -> Nat]
    /\ owed \in [Checks -> CheckState]
    /\ raced \subseteq Checks
    /\ abandoned \in [Checks -> 0..MaxVersion]
    /\ budget \in 0..Budget /\ disruptions \in 0..MaxDisruptions

\* A logical check has one check run at the forge: a lost answer, a crash between
\* the creation and the record of its id, or a second dispatcher never makes the
\* dispatch create another (dispatchOutbox, checkruns.go).
OneCheckRun == \A k \in Checks : created[k] <= 1

\* What the forge shows of a check never goes back to an older version.  The one
\* exception is a version whose delivery was given up: a dead letter does not
\* take part in the version guard, so a stale state may be published over what a
\* dead-lettered delivery, or one it superseded, had put there.
RemoteNeverRegresses ==
    [][\A k \in Checks : \/ remote[k].version <= remote'[k].version
                         \/ remote[k].version <= abandoned[k]]_vars

\* What is owed is not lost: it is a row of the table, pending or a dead letter,
\* or was passed over for a newer version that is a row or was delivered.
Kept(k) ==
    LET v == owed[k].version
    IN  \/ rows[<<k, v>>].state # "absent" /\ rows[<<k, v>>].content = owed[k].content
        \/ \E w \in Versions : w > v /\ rows[<<k, w>>].state # "absent"
        \/ watermark[k] > v

\* The state the outbox accepted last for a check is kept until the forge shows it,
\* if no flush held the row of that version, and no other replica an older payload
\* of it, when it was accepted: claims, retries, dead letters, late
\* acknowledgements and crashes never drop an intent (flushDBBatch, OutboxAck).
AcceptedStateKept == \A k \in Checks : owed[k] # Nothing => k \in raced \/ Kept(k)

\* The pending states of a check are all delivered, passed over or dead-lettered in
\* the end, whatever the forge does and whichever replica leads: no claim, retry
\* or crash leaves one stuck (flushDBBatch, ClaimOutbox).
PendingStateResolves ==
    \A k \in Checks : PendingVersions(k) # {} ~> PendingVersions(k) = {}
=============================================================================
