---------------------------- MODULE LeaderFence ----------------------------
(***************************************************************************)
(* Leadership of the control-plane replicas.  A replica is leader while the *)
(* PostgreSQL session it caches holds the advisory lock; it learns of the  *)
(* loss of that session only when it probes.  What keeps a replica that    *)
(* does not know yet from mutating shared state is the leadership epoch:   *)
(* an acquisition publishes a greater one on the session that took the     *)
(* lock, and every leader-only transaction compares the epoch its replica  *)
(* retains with the durable one under a share lock on the row.             *)
(*                                                                         *)
(* Acquisitions are serialised per replica (leaderAcquireMu) and probes    *)
(* are single-flight (leaderProbeWait); everything else interleaves.       *)
(***************************************************************************)
EXTENDS Naturals, FiniteSets

CONSTANTS
    Replicas,
    NoReplica,
    Txns,          \* leader-only transactions that may be in flight at once
    MaxSessions    \* bound on the sessions the replicas open

ASSUME FenceAssumption ==
    /\ NoReplica \notin Replicas
    /\ MaxSessions \in Nat

VARIABLES
    \* the database
    lock,        \* the session that holds the advisory lock, 0 for none
    epoch,       \* leader_fence.epoch
    lastCommit,  \* who committed the last leader-only mutation, and its epoch
    opened,      \* sessions that took the lock so far; session ids are 1..opened
    \* each replica
    conn,        \* leaderConn, 0 for nil
    proof,       \* age of leaderProbedAt and leaderHeldUntil
    retained,    \* leaderEpoch, 0 for none
    probe,       \* the session a probe in flight pings, 0 for none
    cand,        \* the acquisition under leaderAcquireMu
    tx           \* the leader-only transactions in flight

dbVars == <<lock, epoch, lastCommit, opened>>
cacheVars == <<conn, proof, retained>>
vars == <<dbVars, cacheVars, probe, cand, tx>>

NoCandidate == [step |-> "idle", session |-> 0, epoch |-> 0]
NoTx == [step |-> "idle", by |-> NoReplica, epoch |-> 0]

Init ==
    /\ lock = 0 /\ epoch = 0 /\ opened = 0
    /\ lastCommit = [by |-> NoReplica, epoch |-> 0]
    /\ conn = [r \in Replicas |-> 0]
    /\ proof = [r \in Replicas |-> "lapsed"]
    /\ retained = [r \in Replicas |-> 0]
    /\ probe = [r \in Replicas |-> 0]
    /\ cand = [r \in Replicas |-> NoCandidate]
    /\ tx = [t \in Txns |-> NoTx]

-----------------------------------------------------------------------------
(* The cached session                                                      *)

\* Clears the whole cache and the retained epoch; the connection is closed
\* afterwards, outside the mutex (SessionEnds).
DetachLeaderSession(r) ==
    /\ conn' = [conn EXCEPT ![r] = 0]
    /\ proof' = [proof EXCEPT ![r] = "lapsed"]
    /\ retained' = [retained EXCEPT ![r] = 0]

\* The PostgreSQL session that holds the lock goes away: closed by its
\* replica, or lost with its connection or backend.  No replica is told.
SessionEnds ==
    /\ lock # 0
    /\ lock' = 0
    /\ UNCHANGED <<epoch, lastCommit, opened, cacheVars, probe, cand, tx>>

\* A proof is fresh for leaderProbeInterval; a claim nobody renewed lapses
\* after its TTL.
ProofAges(r) ==
    /\ conn[r] # 0 /\ proof[r] # "lapsed"
    /\ proof' = [proof EXCEPT ![r] = IF @ = "fresh" THEN "stale" ELSE "lapsed"]
    /\ UNCHANGED <<dbVars, conn, retained, probe, cand, tx>>

StartProbe(r) ==
    /\ conn[r] # 0 /\ proof[r] = "stale" /\ retained[r] > 0 /\ probe[r] = 0
    /\ probe' = [probe EXCEPT ![r] = conn[r]]
    /\ UNCHANGED <<dbVars, cacheVars, cand, tx>>

\* Fault: the probe pings the database on a connection of its own.
ProbeAnswersAnywhere(r) == probe[r] # 0

\* The ping runs on the cached connection and opens no other.
ProbeAnswers(r) == lock = probe[r]

\* The answer counts only while the probed session is still the cached one.  A
\* probe of a live session may time out.
EndProbe(r, alive) ==
    /\ probe[r] # 0
    /\ alive => ProbeAnswers(r)
    /\ probe' = [probe EXCEPT ![r] = 0]
    /\ IF conn[r] = probe[r] /\ proof[r] # "lapsed"
         THEN IF alive THEN /\ proof' = [proof EXCEPT ![r] = "fresh"]
                            /\ UNCHANGED <<conn, retained>>
                       ELSE DetachLeaderSession(r)
         ELSE UNCHANGED cacheVars
    /\ UNCHANGED <<dbVars, cand, tx>>

\* TryAcquireLeadership finds a cached session it may not use: its claim
\* lapsed, no epoch is retained, or a failed probe just closed it.
DropSession(r) ==
    /\ conn[r] # 0
    /\ proof[r] = "lapsed" \/ retained[r] = 0 \/ probe[r] = conn[r]
    /\ DetachLeaderSession(r)
    /\ UNCHANGED <<dbVars, probe, cand, tx>>

ReleaseLeadership(r) ==
    /\ conn[r] # 0
    /\ DetachLeaderSession(r)
    /\ UNCHANGED <<dbVars, probe, cand, tx>>

-----------------------------------------------------------------------------
(* Acquisition                                                             *)

\* With no usable session cached, acquireLeaderSession drops what is cached
\* and connects.
BeginAcquire(r) ==
    /\ cand[r].step = "idle"
    /\ conn[r] = 0 \/ proof[r] = "lapsed" \/ retained[r] = 0
    /\ DetachLeaderSession(r)
    /\ cand' = [cand EXCEPT ![r].step = "connecting"]
    /\ UNCHANGED <<dbVars, probe, tx>>

TryAdvisoryLock(r) ==
    /\ cand[r].step = "connecting"
    /\ lock = 0 /\ opened < MaxSessions
    /\ opened' = opened + 1
    /\ lock' = opened + 1
    /\ cand' = [cand EXCEPT ![r] =
           [step |-> "locked", session |-> opened + 1, epoch |-> 0]]
    /\ UNCHANGED <<epoch, lastCommit, cacheVars, probe, tx>>

\* Fault: the epoch is read without FOR SHARE.
EpochRowFreeAlways == TRUE

\* The share locks of the open leader-only transactions hold off the update of
\* the epoch row.
EpochRowFree == \A t \in Txns : tx[t].step # "open"

\* Fault: the epoch is published through the pool, whatever became of the session
\* that took the lock.
PublishThroughPool(r) ==
    /\ cand[r].step = "locked"
    /\ EpochRowFree
    /\ epoch' = epoch + 1
    /\ cand' = [cand EXCEPT ![r] =
           [step |-> "published", session |-> cand[r].session, epoch |-> epoch + 1]]
    /\ UNCHANGED <<lock, lastCommit, opened, cacheVars, probe, tx>>

\* One transaction on the session that took the lock: it commits only while
\* that session lives.
PublishLeaderEpoch(r) ==
    /\ cand[r].step = "locked" /\ lock = cand[r].session
    /\ EpochRowFree
    /\ epoch' = epoch + 1
    /\ cand' = [cand EXCEPT ![r] =
           [step |-> "published", session |-> lock, epoch |-> epoch + 1]]
    /\ UNCHANGED <<lock, lastCommit, opened, cacheVars, probe, tx>>

\* The increment committed and the answer was lost: nobody retains the epoch.
PublishUnanswered(r) ==
    /\ cand[r].step = "locked" /\ lock = cand[r].session
    /\ EpochRowFree
    /\ epoch' = epoch + 1
    /\ cand' = [cand EXCEPT ![r] = NoCandidate]
    /\ UNCHANGED <<lock, lastCommit, opened, cacheVars, probe, tx>>

\* Fault: publishing has no time limit.
AcquireFailsToConnect(r) ==
    /\ cand[r].step = "connecting"
    /\ cand' = [cand EXCEPT ![r] = NoCandidate]
    /\ UNCHANGED <<dbVars, cacheVars, probe, tx>>

\* The lock is taken, or a round trip failed or timed out: the candidate
\* session is closed (SessionEnds).
AcquireFails(r) ==
    /\ cand[r].step \in {"connecting", "locked"}
    /\ cand' = [cand EXCEPT ![r] = NoCandidate]
    /\ UNCHANGED <<dbVars, cacheVars, probe, tx>>

RetainEpoch(r) ==
    /\ cand[r].step = "published"
    /\ retained' = [retained EXCEPT ![r] = cand[r].epoch]
    /\ cand' = [cand EXCEPT ![r].step = "retained"]
    /\ UNCHANGED <<dbVars, conn, proof, probe, tx>>

CacheSession(r) ==
    /\ cand[r].step = "retained"
    /\ conn' = [conn EXCEPT ![r] = cand[r].session]
    /\ proof' = [proof EXCEPT ![r] = "fresh"]
    /\ cand' = [cand EXCEPT ![r] = NoCandidate]
    /\ UNCHANGED <<dbVars, retained, probe, tx>>

-----------------------------------------------------------------------------
(* Leader-only transactions                                                *)

\* fenceLeaderTx loads the retained epoch; whatever made the replica believe
\* it leads was read before and is not read again.
LoadEpoch(t, r) ==
    /\ tx[t].step = "idle"
    /\ retained[r] > 0
    /\ tx' = [tx EXCEPT ![t] = [step |-> "loaded", by |-> r, epoch |-> retained[r]]]
    /\ UNCHANGED <<dbVars, cacheVars, probe, cand>>

\* Fault: any epoch that was ever published passes.
FenceHoldsForOlder(t) == tx[t].epoch <= epoch

FenceHolds(t) == tx[t].epoch = epoch

AssertLeaderEpoch(t) ==
    /\ tx[t].step = "loaded"
    /\ tx' = [tx EXCEPT ![t].step = IF FenceHolds(t) THEN "open" ELSE "stale"]
    /\ UNCHANGED <<dbVars, cacheVars, probe, cand>>

\* Fault: whatever is retained is cleared.
ClearedEpochAlways(t) == IF tx[t].step = "stale" THEN 0 ELSE retained[tx[t].by]

\* Fault: the stale epoch is subtracted, although something else may be retained
\* by now.
ClearedEpochSubtracted(t) == retained[tx[t].by] - tx[t].epoch

\* The compare-and-swap after a mismatch: only the epoch found stale is
\* cleared.
ClearedEpoch(t) ==
    IF retained[tx[t].by] = tx[t].epoch THEN 0 ELSE retained[tx[t].by]

ClearStaleEpoch(t) ==
    /\ tx[t].step = "stale"
    /\ retained' = [retained EXCEPT ![tx[t].by] = ClearedEpoch(t)]
    /\ tx' = [tx EXCEPT ![t] = NoTx]
    /\ UNCHANGED <<dbVars, conn, proof, probe, cand>>

CommitFencedTx(t) ==
    /\ tx[t].step = "open"
    /\ lastCommit' = [by |-> tx[t].by, epoch |-> tx[t].epoch]
    /\ tx' = [tx EXCEPT ![t] = NoTx]
    /\ UNCHANGED <<lock, epoch, opened, cacheVars, probe, cand>>

RollbackFencedTx(t) ==
    /\ tx[t].step \in {"loaded", "open"}
    /\ tx' = [tx EXCEPT ![t] = NoTx]
    /\ UNCHANGED <<dbVars, cacheVars, probe, cand>>

\* The process dies.  A transaction it had open stays in the database, to be
\* rolled back or, if its COMMIT was on the way, committed.
Crash(r) ==
    /\ DetachLeaderSession(r)
    /\ probe' = [probe EXCEPT ![r] = 0]
    /\ cand' = [cand EXCEPT ![r] = NoCandidate]
    /\ tx' = [t \in Txns |-> IF tx[t].by = r /\ tx[t].step # "open" THEN NoTx ELSE tx[t]]
    /\ UNCHANGED dbVars

-----------------------------------------------------------------------------
CacheNext(r) ==
    \/ ProofAges(r) \/ StartProbe(r) \/ \E alive \in BOOLEAN : EndProbe(r, alive)
    \/ DropSession(r) \/ ReleaseLeadership(r)

AcquireNext(r) ==
    \/ BeginAcquire(r) \/ TryAdvisoryLock(r)
    \/ PublishLeaderEpoch(r) \/ PublishUnanswered(r) \/ AcquireFails(r)
    \/ RetainEpoch(r) \/ CacheSession(r)

TxNext(t) ==
    \/ \E r \in Replicas : LoadEpoch(t, r)
    \/ AssertLeaderEpoch(t) \/ ClearStaleEpoch(t)
    \/ CommitFencedTx(t) \/ RollbackFencedTx(t)

Next ==
    \/ SessionEnds
    \/ \E r \in Replicas : CacheNext(r) \/ AcquireNext(r) \/ Crash(r)
    \/ \E t \in Txns : TxNext(t)

Spec == Init /\ [][Next]_vars

\* Time passes, and the maintenance loop calls IsLeader on every tick: a stale
\* proof is probed, a probe ends, an unusable session is dropped, an
\* acquisition that started comes to its end.  A session that no replica caches
\* or is acquiring is closed.
Abandoned(s) == \A r \in Replicas : conn[r] # s /\ cand[r].session # s

Fairness ==
    /\ \A r \in Replicas :
          /\ WF_vars(ProofAges(r)) /\ WF_vars(StartProbe(r))
          /\ WF_vars(\E alive \in BOOLEAN : EndProbe(r, alive))
          /\ WF_vars(DropSession(r))
          /\ WF_vars(PublishLeaderEpoch(r) \/ PublishUnanswered(r) \/ AcquireFails(r))
          /\ WF_vars(RetainEpoch(r)) /\ WF_vars(CacheSession(r))
    /\ WF_vars(Abandoned(lock) /\ SessionEnds)

FairSpec == Spec /\ Fairness

-----------------------------------------------------------------------------
(* Properties                                                              *)

Steps == {"idle", "connecting", "locked", "published", "retained"}

\* Every variable has its type.
TypeOK ==
    /\ lock \in Nat /\ epoch \in Nat /\ opened \in Nat
    /\ lastCommit \in [by : Replicas \cup {NoReplica}, epoch : Nat]
    /\ conn \in [Replicas -> Nat]
    /\ proof \in [Replicas -> {"fresh", "stale", "lapsed"}]
    /\ retained \in [Replicas -> Nat]
    /\ probe \in [Replicas -> Nat]
    /\ cand \in [Replicas -> [step : Steps, session : Nat, epoch : Nat]]
    /\ tx \in [Txns -> [step : {"idle", "loaded", "open", "stale"},
                        by : Replicas \cup {NoReplica}, epoch : Nat]]

\* Leader-only transactions of two replicas, or of two reigns of one replica,
\* are never past the fence at the same time, however long a dead session is
\* still believed in (leader_fence.go, assertLeaderEpoch).
FencedTransactionsExclusive ==
    \A t, u \in Txns :
        (tx[t].step = "open" /\ tx[u].step = "open") =>
            tx[t].by = tx[u].by /\ tx[t].epoch = tx[u].epoch

\* The converse risk: a replica whose session does hold the lock is never
\* fenced out, by its own stale transactions or by an acquisition that failed
\* half way on another replica.
LockHolderIsCurrent ==
    \A r \in Replicas : (conn[r] # 0 /\ conn[r] = lock) => retained[r] = epoch

\* A dead session with a fenced mutation still in flight does not let two
\* reigns interleave: the committed mutations change hands only towards a
\* greater epoch, and an epoch belongs to one replica for good.
ReignsDoNotInterleave ==
    [][lastCommit' # lastCommit => lastCommit'.epoch > lastCommit.epoch]_vars

\* Only giving up the session (or dying) takes a current epoch from a replica:
\* the late clean-up of a transaction fenced out in an earlier reign does not
\* (fenceLeaderTx, compare-and-swap).
CurrentEpochNotClobbered ==
    [][\A r \in Replicas :
          (retained[r] # 0 /\ retained[r] = epoch /\ retained'[r] # retained[r]) =>
              conn'[r] = 0 /\ cand'[r].step # "retained"]_vars

\* A replica does not go on believing in a session that has lost the lock.
DeadSessionDropped ==
    \A r \in Replicas : \A s \in 1..MaxSessions :
        (conn[r] = s /\ lock # s) ~> (conn[r] # s)

\* An acquisition that dies between the lock and the cache does not keep the
\* lock from the other replicas.
LockNotOrphaned ==
    \A s \in 1..MaxSessions :
        (lock = s) ~> (lock # s \/ \E r \in Replicas : conn[r] = s)
============================================================================
