------------------------- MODULE LeaderFenceProofs -------------------------
(***************************************************************************)
(* The leadership fence is safe for any number of replicas, sessions and   *)
(* transactions.                                                           *)
(***************************************************************************)
EXTENDS LeaderFence, TLAPS

\* Sessions are numbered in the order they took the lock, and a session has
\* one owner: the cache or the acquisition of one replica.
SessionsOwned ==
    /\ lock <= opened
    /\ \A r \in Replicas : conn[r] <= opened /\ cand[r].session <= opened
    /\ \A r, s \in Replicas :
          /\ (conn[r] # 0 /\ conn[r] = conn[s]) => r = s
          /\ (cand[r].session # 0 /\ cand[r].session = cand[s].session) => r = s
          /\ conn[r] # 0 => conn[r] # cand[s].session

\* How far an acquisition is determines what its record holds.
CandidatesFormed ==
    \A r \in Replicas :
        /\ cand[r].step \in {"idle", "connecting"} =>
              cand[r].session = 0 /\ cand[r].epoch = 0
        /\ cand[r].step # "idle" => conn[r] = 0
        /\ cand[r].step \in {"connecting", "locked", "published"} => retained[r] = 0
        /\ cand[r].step \in {"locked", "published", "retained"} => cand[r].session # 0

\* No epoch is known anywhere before it is durable.
EpochsPublished ==
    /\ lastCommit.epoch <= epoch
    /\ lastCommit.by = NoReplica => lastCommit.epoch = 0
    /\ \A r \in Replicas : retained[r] <= epoch /\ cand[r].epoch <= epoch
    /\ \A t \in Txns : tx[t].epoch <= epoch

\* What the share lock gives: the epoch does not move under an open
\* transaction.
FenceExact ==
    \A t \in Txns :
        /\ tx[t].step # "idle" => tx[t].by \in Replicas /\ tx[t].epoch # 0
        /\ tx[t].step = "open" => tx[t].epoch = epoch
        /\ tx[t].step = "stale" => tx[t].epoch # epoch

\* Only the holder of the lock moves the epoch, so the last one to publish
\* holds the durable value for as long as it holds the lock.
HolderCurrent ==
    \A r \in Replicas :
        /\ (conn[r] # 0 /\ conn[r] = lock) => retained[r] = epoch
        /\ (cand[r].step \in {"published", "retained"} /\ cand[r].session = lock)
              => cand[r].epoch = epoch
        /\ (cand[r].step = "retained" /\ cand[r].session = lock)
              => retained[r] = epoch

\* Replica r knows epoch e as its own.
Claims(r, e) ==
    \/ retained[r] = e \/ cand[r].epoch = e
    \/ \E t \in Txns : tx[t].by = r /\ tx[t].epoch = e
    \/ lastCommit = [by |-> r, epoch |-> e]

\* An epoch belongs to one replica for good.
EpochsOwned ==
    \A r, s \in Replicas : \A e \in Nat :
        (e # 0 /\ Claims(r, e) /\ Claims(s, e)) => r = s

LeadershipInv ==
    /\ TypeOK /\ SessionsOwned /\ CandidatesFormed /\ EpochsPublished
    /\ FenceExact /\ HolderCurrent /\ EpochsOwned

-----------------------------------------------------------------------------
(* Preservation of the invariant                                           *)


\* Every step keeps the types.
LEMMA TypeStep == TypeOK /\ [Next]_vars => TypeOK'
<1> SUFFICES ASSUME TypeOK, [Next]_vars PROVE TypeOK'
  OBVIOUS
<1> USE FenceAssumption DEF TypeOK, Steps, vars, dbVars, cacheVars
<1>1. ASSUME SessionEnds PROVE TypeOK'
  BY <1>1 DEF SessionEnds
<1>2. ASSUME NEW r \in Replicas, ProofAges(r) PROVE TypeOK'
  BY <1>2 DEF ProofAges
<1>3. ASSUME NEW r \in Replicas, StartProbe(r) PROVE TypeOK'
  BY <1>3 DEF StartProbe
<1>4. ASSUME NEW r \in Replicas, NEW alive \in BOOLEAN, EndProbe(r, alive) PROVE TypeOK'
  BY <1>4 DEF EndProbe, DetachLeaderSession, cacheVars
<1>5. ASSUME NEW r \in Replicas, DropSession(r) PROVE TypeOK'
  BY <1>5 DEF DropSession, DetachLeaderSession
<1>6. ASSUME NEW r \in Replicas, ReleaseLeadership(r) PROVE TypeOK'
  BY <1>6 DEF ReleaseLeadership, DetachLeaderSession
<1>7. ASSUME NEW r \in Replicas, BeginAcquire(r) PROVE TypeOK'
  BY <1>7 DEF BeginAcquire, DetachLeaderSession
<1>8. ASSUME NEW r \in Replicas, TryAdvisoryLock(r) PROVE TypeOK'
  BY <1>8 DEF TryAdvisoryLock
<1>9. ASSUME NEW r \in Replicas, PublishLeaderEpoch(r) PROVE TypeOK'
  BY <1>9 DEF PublishLeaderEpoch, EpochRowFree
<1>10. ASSUME NEW r \in Replicas, PublishUnanswered(r) PROVE TypeOK'
  BY <1>10 DEF PublishUnanswered, NoCandidate, EpochRowFree
<1>11. ASSUME NEW r \in Replicas, AcquireFails(r) PROVE TypeOK'
  BY <1>11 DEF AcquireFails, NoCandidate
<1>12. ASSUME NEW r \in Replicas, RetainEpoch(r) PROVE TypeOK'
  BY <1>12 DEF RetainEpoch
<1>13. ASSUME NEW r \in Replicas, CacheSession(r) PROVE TypeOK'
  BY <1>13 DEF CacheSession, NoCandidate
<1>14. ASSUME NEW t \in Txns, NEW r \in Replicas, LoadEpoch(t, r) PROVE TypeOK'
  BY <1>14 DEF LoadEpoch
<1>15. ASSUME NEW t \in Txns, AssertLeaderEpoch(t) PROVE TypeOK'
  BY <1>15 DEF AssertLeaderEpoch, FenceHolds
<1>16. ASSUME NEW t \in Txns, ClearStaleEpoch(t) PROVE TypeOK'
  BY <1>16 DEF ClearStaleEpoch, ClearedEpoch, NoTx
<1>17. ASSUME NEW t \in Txns, CommitFencedTx(t) PROVE TypeOK'
  BY <1>17 DEF CommitFencedTx, NoTx
<1>18. ASSUME NEW t \in Txns, RollbackFencedTx(t) PROVE TypeOK'
  BY <1>18 DEF RollbackFencedTx, NoTx
<1>19. ASSUME NEW r \in Replicas, Crash(r) PROVE TypeOK'
  BY <1>19 DEF Crash, DetachLeaderSession, NoCandidate, NoTx
<1>20. CASE UNCHANGED vars
  BY <1>20
<1> HIDE DEF TypeOK, Steps
<1>21. QED
  BY <1>1, <1>2, <1>3, <1>4, <1>5, <1>6, <1>7, <1>8, <1>9, <1>10, <1>11, <1>12, <1>13, <1>14, <1>15, <1>16, <1>17, <1>18, <1>19, <1>20 DEF vars, Next, CacheNext, AcquireNext, TxNext

\* A new session gets a new number, and caching moves it from the acquisition
\* to the cache of the same replica.
LEMMA SessionsStep == TypeOK /\ SessionsOwned /\ CandidatesFormed /\
    [Next]_vars => SessionsOwned'
<1> SUFFICES ASSUME TypeOK, SessionsOwned, CandidatesFormed, [Next]_vars PROVE
    SessionsOwned'
  OBVIOUS
<1>1. CASE UNCHANGED <<lock, opened, conn, cand>>
  BY <1>1 DEF TypeOK, SessionsOwned, CandidatesFormed
<1>2. ASSUME SessionEnds PROVE SessionsOwned'
  BY <1>2, FenceAssumption DEF SessionEnds, TypeOK, SessionsOwned,
       CandidatesFormed, dbVars, cacheVars
<1>3. ASSUME NEW r \in Replicas, NEW alive \in BOOLEAN, EndProbe(r, alive) PROVE SessionsOwned'
  <2>1. CASE conn' = [conn EXCEPT ![r] = 0]
    BY <1>3, <2>1 DEF EndProbe, TypeOK, SessionsOwned, dbVars, cacheVars
  <2>2. CASE UNCHANGED conn
    BY <1>3, <2>2 DEF EndProbe, SessionsOwned, dbVars, cacheVars
  <2>3. QED
    BY <1>3, <2>1, <2>2 DEF EndProbe, DetachLeaderSession, cacheVars
<1>4. ASSUME NEW r \in Replicas, DropSession(r) PROVE SessionsOwned'
  BY <1>4, FenceAssumption DEF DropSession, DetachLeaderSession, TypeOK,
       SessionsOwned, CandidatesFormed, dbVars, cacheVars
<1>5. ASSUME NEW r \in Replicas, ReleaseLeadership(r) PROVE SessionsOwned'
  BY <1>5, FenceAssumption DEF ReleaseLeadership, DetachLeaderSession, TypeOK,
       SessionsOwned, CandidatesFormed, dbVars, cacheVars
<1>6. ASSUME NEW r \in Replicas, BeginAcquire(r) PROVE SessionsOwned'
  BY <1>6, FenceAssumption DEF BeginAcquire, DetachLeaderSession, TypeOK,
       SessionsOwned, CandidatesFormed, dbVars, cacheVars
<1>7. ASSUME NEW r \in Replicas, TryAdvisoryLock(r) PROVE SessionsOwned'
  BY <1>7, FenceAssumption DEF TryAdvisoryLock, TypeOK, SessionsOwned,
       CandidatesFormed, dbVars, cacheVars
<1>8. ASSUME NEW r \in Replicas, PublishLeaderEpoch(r) PROVE SessionsOwned'
  BY <1>8, FenceAssumption DEF PublishLeaderEpoch, EpochRowFree, TypeOK,
       SessionsOwned, CandidatesFormed, dbVars, cacheVars
<1>9. ASSUME NEW r \in Replicas, PublishUnanswered(r) PROVE SessionsOwned'
  BY <1>9, FenceAssumption DEF PublishUnanswered, NoCandidate, EpochRowFree,
       TypeOK, SessionsOwned, CandidatesFormed, dbVars, cacheVars
<1>10. ASSUME NEW r \in Replicas, AcquireFails(r) PROVE SessionsOwned'
  BY <1>10, FenceAssumption DEF AcquireFails, NoCandidate, TypeOK,
       SessionsOwned, CandidatesFormed, dbVars, cacheVars
<1>11. ASSUME NEW r \in Replicas, RetainEpoch(r) PROVE SessionsOwned'
  BY <1>11, FenceAssumption DEF RetainEpoch, TypeOK, SessionsOwned,
       CandidatesFormed, dbVars, cacheVars
<1>12. ASSUME NEW r \in Replicas, CacheSession(r) PROVE SessionsOwned'
  BY <1>12, FenceAssumption DEF CacheSession, NoCandidate, TypeOK,
       SessionsOwned, CandidatesFormed, dbVars, cacheVars
<1>13. ASSUME NEW r \in Replicas, Crash(r) PROVE SessionsOwned'
  BY <1>13, FenceAssumption DEF Crash, DetachLeaderSession, NoCandidate, NoTx,
       TypeOK, SessionsOwned, CandidatesFormed, dbVars, cacheVars
<1>14. QED
  BY <1>1, <1>2, <1>3, <1>4, <1>5, <1>6, <1>7, <1>8, <1>9, <1>10, <1>11, <1>12,
       <1>13 DEF Next, CacheNext, AcquireNext, TxNext, ProofAges, StartProbe,
       LoadEpoch, AssertLeaderEpoch, ClearStaleEpoch, CommitFencedTx,
       RollbackFencedTx, dbVars, cacheVars, vars

\* An acquisition starts with the cache empty and nothing else fills it.
LEMMA CandidatesStep == TypeOK /\ CandidatesFormed /\ [Next]_vars =>
    CandidatesFormed'
<1> SUFFICES ASSUME TypeOK, CandidatesFormed, [Next]_vars PROVE
    CandidatesFormed'
  OBVIOUS
<1>1. CASE UNCHANGED <<conn, retained, cand>>
  BY <1>1 DEF TypeOK, CandidatesFormed
<1>2. ASSUME NEW r \in Replicas, NEW alive \in BOOLEAN, EndProbe(r, alive) PROVE CandidatesFormed'
  BY <1>2, FenceAssumption DEF EndProbe, DetachLeaderSession, cacheVars,
       TypeOK, CandidatesFormed, dbVars
<1>3. ASSUME NEW r \in Replicas, DropSession(r) PROVE CandidatesFormed'
  BY <1>3, FenceAssumption DEF DropSession, DetachLeaderSession, TypeOK,
       CandidatesFormed, dbVars, cacheVars
<1>4. ASSUME NEW r \in Replicas, ReleaseLeadership(r) PROVE CandidatesFormed'
  BY <1>4, FenceAssumption DEF ReleaseLeadership, DetachLeaderSession, TypeOK,
       CandidatesFormed, dbVars, cacheVars
<1>5. ASSUME NEW r \in Replicas, BeginAcquire(r) PROVE CandidatesFormed'
  BY <1>5, FenceAssumption DEF BeginAcquire, DetachLeaderSession, TypeOK,
       CandidatesFormed, dbVars, cacheVars
<1>6. ASSUME NEW r \in Replicas, TryAdvisoryLock(r) PROVE CandidatesFormed'
  BY <1>6, FenceAssumption DEF TryAdvisoryLock, TypeOK, CandidatesFormed,
       dbVars, cacheVars
<1>7. ASSUME NEW r \in Replicas, PublishLeaderEpoch(r) PROVE CandidatesFormed'
  BY <1>7, FenceAssumption DEF PublishLeaderEpoch, EpochRowFree, TypeOK,
       CandidatesFormed, dbVars, cacheVars
<1>8. ASSUME NEW r \in Replicas, PublishUnanswered(r) PROVE CandidatesFormed'
  BY <1>8, FenceAssumption DEF PublishUnanswered, NoCandidate, EpochRowFree,
       TypeOK, CandidatesFormed, dbVars, cacheVars
<1>9. ASSUME NEW r \in Replicas, AcquireFails(r) PROVE CandidatesFormed'
  BY <1>9, FenceAssumption DEF AcquireFails, NoCandidate, TypeOK,
       CandidatesFormed, dbVars, cacheVars
<1>10. ASSUME NEW r \in Replicas, RetainEpoch(r) PROVE CandidatesFormed'
  BY <1>10, FenceAssumption DEF RetainEpoch, TypeOK, CandidatesFormed, dbVars,
       cacheVars
<1>11. ASSUME NEW r \in Replicas, CacheSession(r) PROVE CandidatesFormed'
  BY <1>11, FenceAssumption DEF CacheSession, NoCandidate, TypeOK,
       CandidatesFormed, dbVars, cacheVars
<1>12. ASSUME NEW t \in Txns, ClearStaleEpoch(t) PROVE CandidatesFormed'
  BY <1>12, FenceAssumption DEF ClearStaleEpoch, ClearedEpoch, NoTx, TypeOK,
       CandidatesFormed, dbVars, cacheVars
<1>13. ASSUME NEW r \in Replicas, Crash(r) PROVE CandidatesFormed'
  BY <1>13, FenceAssumption DEF Crash, DetachLeaderSession, NoCandidate, NoTx,
       TypeOK, CandidatesFormed, dbVars, cacheVars
<1>14. QED
  BY <1>1, <1>2, <1>3, <1>4, <1>5, <1>6, <1>7, <1>8, <1>9, <1>10, <1>11, <1>12,
       <1>13 DEF Next, CacheNext, AcquireNext, TxNext, SessionEnds, ProofAges,
       StartProbe, LoadEpoch, AssertLeaderEpoch, CommitFencedTx,
       RollbackFencedTx, dbVars, cacheVars, vars

\* Epochs are copied from the durable row and the row only grows.
LEMMA PublishedStep == TypeOK /\ EpochsPublished /\ FenceExact /\ [Next]_vars
    => EpochsPublished'
<1> SUFFICES ASSUME TypeOK, EpochsPublished, FenceExact, [Next]_vars PROVE
    EpochsPublished'
  OBVIOUS
<1>1. CASE UNCHANGED <<epoch, lastCommit, retained, cand, tx>>
  BY <1>1 DEF TypeOK, EpochsPublished, FenceExact
<1>2. ASSUME NEW r \in Replicas, NEW alive \in BOOLEAN, EndProbe(r, alive) PROVE EpochsPublished'
  BY <1>2, FenceAssumption DEF EndProbe, DetachLeaderSession, cacheVars,
       TypeOK, EpochsPublished, FenceExact, dbVars
<1>3. ASSUME NEW r \in Replicas, DropSession(r) PROVE EpochsPublished'
  BY <1>3, FenceAssumption DEF DropSession, DetachLeaderSession, TypeOK,
       EpochsPublished, FenceExact, dbVars, cacheVars
<1>4. ASSUME NEW r \in Replicas, ReleaseLeadership(r) PROVE EpochsPublished'
  BY <1>4, FenceAssumption DEF ReleaseLeadership, DetachLeaderSession, TypeOK,
       EpochsPublished, FenceExact, dbVars, cacheVars
<1>5. ASSUME NEW r \in Replicas, BeginAcquire(r) PROVE EpochsPublished'
  BY <1>5, FenceAssumption DEF BeginAcquire, DetachLeaderSession, TypeOK,
       EpochsPublished, FenceExact, dbVars, cacheVars
<1>6. ASSUME NEW r \in Replicas, TryAdvisoryLock(r) PROVE EpochsPublished'
  BY <1>6, FenceAssumption DEF TryAdvisoryLock, TypeOK, EpochsPublished,
       FenceExact, dbVars, cacheVars
<1>7. ASSUME NEW r \in Replicas, PublishLeaderEpoch(r) PROVE EpochsPublished'
  BY <1>7, FenceAssumption DEF PublishLeaderEpoch, EpochRowFree, TypeOK,
       EpochsPublished, FenceExact, dbVars, cacheVars
<1>8. ASSUME NEW r \in Replicas, PublishUnanswered(r) PROVE EpochsPublished'
  BY <1>8, FenceAssumption DEF PublishUnanswered, NoCandidate, EpochRowFree,
       TypeOK, EpochsPublished, FenceExact, dbVars, cacheVars
<1>9. ASSUME NEW r \in Replicas, AcquireFails(r) PROVE EpochsPublished'
  BY <1>9, FenceAssumption DEF AcquireFails, NoCandidate, TypeOK,
       EpochsPublished, FenceExact, dbVars, cacheVars
<1>10. ASSUME NEW r \in Replicas, RetainEpoch(r) PROVE EpochsPublished'
  BY <1>10, FenceAssumption DEF RetainEpoch, TypeOK, EpochsPublished,
       FenceExact, dbVars, cacheVars
<1>11. ASSUME NEW r \in Replicas, CacheSession(r) PROVE EpochsPublished'
  BY <1>11, FenceAssumption DEF CacheSession, NoCandidate, TypeOK,
       EpochsPublished, FenceExact, dbVars, cacheVars
<1>12. ASSUME NEW t \in Txns, NEW r \in Replicas, LoadEpoch(t, r) PROVE EpochsPublished'
  BY <1>12, FenceAssumption DEF LoadEpoch, TypeOK, EpochsPublished, FenceExact,
       dbVars, cacheVars
<1>13. ASSUME NEW t \in Txns, AssertLeaderEpoch(t) PROVE EpochsPublished'
  BY <1>13, FenceAssumption DEF AssertLeaderEpoch, FenceHolds, TypeOK,
       EpochsPublished, FenceExact, dbVars, cacheVars
<1>14. ASSUME NEW t \in Txns, ClearStaleEpoch(t) PROVE EpochsPublished'
  BY <1>14, FenceAssumption DEF ClearStaleEpoch, ClearedEpoch, NoTx, TypeOK,
       EpochsPublished, FenceExact, dbVars, cacheVars
<1>15. ASSUME NEW t \in Txns, CommitFencedTx(t) PROVE EpochsPublished'
  BY <1>15, FenceAssumption DEF CommitFencedTx, NoTx, TypeOK, EpochsPublished,
       FenceExact, dbVars, cacheVars
<1>16. ASSUME NEW t \in Txns, RollbackFencedTx(t) PROVE EpochsPublished'
  BY <1>16, FenceAssumption DEF RollbackFencedTx, NoTx, TypeOK,
       EpochsPublished, FenceExact, dbVars, cacheVars
<1>17. ASSUME NEW r \in Replicas, Crash(r) PROVE EpochsPublished'
  BY <1>17, FenceAssumption DEF Crash, DetachLeaderSession, NoCandidate, NoTx,
       TypeOK, EpochsPublished, FenceExact, dbVars, cacheVars
<1>18. QED
  BY <1>1, <1>2, <1>3, <1>4, <1>5, <1>6, <1>7, <1>8, <1>9, <1>10, <1>11, <1>12,
       <1>13, <1>14, <1>15, <1>16, <1>17 DEF Next, CacheNext, AcquireNext,
       TxNext, SessionEnds, ProofAges, StartProbe, dbVars, cacheVars, vars

\* The epoch moves only when no transaction is past the fence, and a stale
\* epoch stays stale.
LEMMA FenceStep == TypeOK /\ EpochsPublished /\ FenceExact /\ [Next]_vars =>
    FenceExact'
<1> SUFFICES ASSUME TypeOK, EpochsPublished, FenceExact, [Next]_vars PROVE
    FenceExact'
  OBVIOUS
<1>1. CASE UNCHANGED <<epoch, tx>>
  BY <1>1 DEF TypeOK, EpochsPublished, FenceExact
<1>2. ASSUME NEW r \in Replicas, PublishLeaderEpoch(r) PROVE FenceExact'
  BY <1>2, FenceAssumption DEF PublishLeaderEpoch, EpochRowFree, TypeOK,
       EpochsPublished, FenceExact, dbVars, cacheVars
<1>3. ASSUME NEW r \in Replicas, PublishUnanswered(r) PROVE FenceExact'
  BY <1>3, FenceAssumption DEF PublishUnanswered, NoCandidate, EpochRowFree,
       TypeOK, EpochsPublished, FenceExact, dbVars, cacheVars
<1>4. ASSUME NEW t \in Txns, NEW r \in Replicas, LoadEpoch(t, r) PROVE FenceExact'
  BY <1>4, FenceAssumption DEF LoadEpoch, TypeOK, EpochsPublished, FenceExact,
       dbVars, cacheVars
<1>5. ASSUME NEW t \in Txns, AssertLeaderEpoch(t) PROVE FenceExact'
  BY <1>5, FenceAssumption DEF AssertLeaderEpoch, FenceHolds, TypeOK,
       EpochsPublished, FenceExact, dbVars, cacheVars
<1>6. ASSUME NEW t \in Txns, ClearStaleEpoch(t) PROVE FenceExact'
  BY <1>6, FenceAssumption DEF ClearStaleEpoch, ClearedEpoch, NoTx, TypeOK,
       EpochsPublished, FenceExact, dbVars, cacheVars
<1>7. ASSUME NEW t \in Txns, CommitFencedTx(t) PROVE FenceExact'
  BY <1>7, FenceAssumption DEF CommitFencedTx, NoTx, TypeOK, EpochsPublished,
       FenceExact, dbVars, cacheVars
<1>8. ASSUME NEW t \in Txns, RollbackFencedTx(t) PROVE FenceExact'
  BY <1>8, FenceAssumption DEF RollbackFencedTx, NoTx, TypeOK, EpochsPublished,
       FenceExact, dbVars, cacheVars
<1>9. ASSUME NEW r \in Replicas, Crash(r) PROVE FenceExact'
  BY <1>9, FenceAssumption DEF Crash, DetachLeaderSession, NoCandidate, NoTx,
       TypeOK, EpochsPublished, FenceExact, dbVars, cacheVars
<1>10. QED
  BY <1>1, <1>2, <1>3, <1>4, <1>5, <1>6, <1>7, <1>8, <1>9 DEF Next, CacheNext,
       AcquireNext, TxNext, SessionEnds, ProofAges, StartProbe, EndProbe,
       DetachLeaderSession, cacheVars, DropSession, ReleaseLeadership,
       BeginAcquire, TryAdvisoryLock, AcquireFails, RetainEpoch, CacheSession,
       dbVars, vars

\* Whoever moves the epoch holds the lock, so no cached session does; and the
\* epoch a transaction clears is not the durable one.
LEMMA HolderStep == TypeOK /\ SessionsOwned /\ CandidatesFormed /\ FenceExact
    /\ HolderCurrent /\ [Next]_vars => HolderCurrent'
<1> SUFFICES ASSUME TypeOK, SessionsOwned, CandidatesFormed, FenceExact,
    HolderCurrent, [Next]_vars PROVE HolderCurrent'
  OBVIOUS
<1>1. CASE UNCHANGED <<lock, epoch, conn, retained, cand>>
  BY <1>1 DEF TypeOK, SessionsOwned, CandidatesFormed, FenceExact,
           HolderCurrent
<1>2. ASSUME SessionEnds PROVE HolderCurrent'
  BY <1>2, FenceAssumption DEF SessionEnds, TypeOK, SessionsOwned,
       CandidatesFormed, FenceExact, HolderCurrent, dbVars, cacheVars
<1>3. ASSUME NEW r \in Replicas, NEW alive \in BOOLEAN, EndProbe(r, alive) PROVE HolderCurrent'
  BY <1>3, FenceAssumption DEF EndProbe, DetachLeaderSession, cacheVars,
       TypeOK, SessionsOwned, CandidatesFormed, FenceExact, HolderCurrent,
       dbVars
<1>4. ASSUME NEW r \in Replicas, DropSession(r) PROVE HolderCurrent'
  BY <1>4, FenceAssumption DEF DropSession, DetachLeaderSession, TypeOK,
       SessionsOwned, CandidatesFormed, FenceExact, HolderCurrent, dbVars,
       cacheVars
<1>5. ASSUME NEW r \in Replicas, ReleaseLeadership(r) PROVE HolderCurrent'
  BY <1>5, FenceAssumption DEF ReleaseLeadership, DetachLeaderSession, TypeOK,
       SessionsOwned, CandidatesFormed, FenceExact, HolderCurrent, dbVars,
       cacheVars
<1>6. ASSUME NEW r \in Replicas, BeginAcquire(r) PROVE HolderCurrent'
  BY <1>6, FenceAssumption DEF BeginAcquire, DetachLeaderSession, TypeOK,
       SessionsOwned, CandidatesFormed, FenceExact, HolderCurrent, dbVars,
       cacheVars
<1>7. ASSUME NEW r \in Replicas, TryAdvisoryLock(r) PROVE HolderCurrent'
  BY <1>7, FenceAssumption DEF TryAdvisoryLock, TypeOK, SessionsOwned,
       CandidatesFormed, FenceExact, HolderCurrent, dbVars, cacheVars
<1>8. ASSUME NEW r \in Replicas, PublishLeaderEpoch(r) PROVE HolderCurrent'
  BY <1>8, FenceAssumption DEF PublishLeaderEpoch, EpochRowFree, TypeOK,
       SessionsOwned, CandidatesFormed, FenceExact, HolderCurrent, dbVars,
       cacheVars
<1>9. ASSUME NEW r \in Replicas, PublishUnanswered(r) PROVE HolderCurrent'
  BY <1>9, FenceAssumption DEF PublishUnanswered, NoCandidate, EpochRowFree,
       TypeOK, SessionsOwned, CandidatesFormed, FenceExact, HolderCurrent,
       dbVars, cacheVars
<1>10. ASSUME NEW r \in Replicas, AcquireFails(r) PROVE HolderCurrent'
  BY <1>10, FenceAssumption DEF AcquireFails, NoCandidate, TypeOK,
       SessionsOwned, CandidatesFormed, FenceExact, HolderCurrent, dbVars,
       cacheVars
<1>11. ASSUME NEW r \in Replicas, RetainEpoch(r) PROVE HolderCurrent'
  BY <1>11, FenceAssumption DEF RetainEpoch, TypeOK, SessionsOwned,
       CandidatesFormed, FenceExact, HolderCurrent, dbVars, cacheVars
<1>12. ASSUME NEW r \in Replicas, CacheSession(r) PROVE HolderCurrent'
  BY <1>12, FenceAssumption DEF CacheSession, NoCandidate, TypeOK,
       SessionsOwned, CandidatesFormed, FenceExact, HolderCurrent, dbVars,
       cacheVars
<1>13. ASSUME NEW t \in Txns, ClearStaleEpoch(t) PROVE HolderCurrent'
  BY <1>13, FenceAssumption DEF ClearStaleEpoch, ClearedEpoch, NoTx, TypeOK,
       SessionsOwned, CandidatesFormed, FenceExact, HolderCurrent, dbVars,
       cacheVars
<1>14. ASSUME NEW r \in Replicas, Crash(r) PROVE HolderCurrent'
  BY <1>14, FenceAssumption DEF Crash, DetachLeaderSession, NoCandidate, NoTx,
       TypeOK, SessionsOwned, CandidatesFormed, FenceExact, HolderCurrent,
       dbVars, cacheVars
<1>15. QED
  BY <1>1, <1>2, <1>3, <1>4, <1>5, <1>6, <1>7, <1>8, <1>9, <1>10, <1>11, <1>12,
       <1>13, <1>14 DEF Next, CacheNext, AcquireNext, TxNext, ProofAges,
       StartProbe, LoadEpoch, AssertLeaderEpoch, CommitFencedTx,
       RollbackFencedTx, dbVars, cacheVars, vars

\* Only publishing makes a replica know an epoch it did not know before, and
\* that epoch is new.
LEMMA ClaimsStep ==
    ASSUME TypeOK, [Next]_vars, NEW s \in Replicas, NEW e \in Nat \ {0}, Claims(s, e)'
    PROVE  Claims(s, e) \/ (e = epoch + 1 /\ PublishLeaderEpoch(s))
<1> USE DEF Claims
<1>1. CASE UNCHANGED <<lastCommit, retained, cand, tx>>
  BY <1>1
<1>2. ASSUME NEW r \in Replicas, CacheNext(r) PROVE Claims(s, e)
  BY <1>2 DEF CacheNext, ProofAges, StartProbe, EndProbe, DropSession,
       ReleaseLeadership, DetachLeaderSession, TypeOK, dbVars, cacheVars
<1>3. ASSUME NEW r \in Replicas, BeginAcquire(r) PROVE Claims(s, e)
  BY <1>3 DEF BeginAcquire, DetachLeaderSession, TypeOK, dbVars, cacheVars
<1>4. ASSUME NEW r \in Replicas, TryAdvisoryLock(r) PROVE Claims(s, e)
  BY <1>4 DEF TryAdvisoryLock, TypeOK, dbVars, cacheVars
<1>5. ASSUME NEW r \in Replicas, PublishLeaderEpoch(r)
      PROVE Claims(s, e) \/ (e = epoch + 1 /\ r = s)
  BY <1>5 DEF PublishLeaderEpoch, TypeOK, dbVars, cacheVars
<1>6. ASSUME NEW r \in Replicas, cand' = [cand EXCEPT ![r] = NoCandidate],
             UNCHANGED <<lastCommit, retained, tx>>
      PROVE Claims(s, e)
  BY <1>6 DEF NoCandidate, TypeOK
<1>7. ASSUME NEW r \in Replicas, RetainEpoch(r) PROVE Claims(s, e)
  BY <1>7 DEF RetainEpoch, TypeOK, dbVars, cacheVars
<1>8. ASSUME NEW r \in Replicas, Crash(r) PROVE Claims(s, e)
  BY <1>8 DEF Crash, DetachLeaderSession, NoCandidate, NoTx, TypeOK, dbVars, cacheVars
<1>9. ASSUME NEW t \in Txns, NEW r \in Replicas, LoadEpoch(t, r) PROVE Claims(s, e)
  BY <1>9 DEF LoadEpoch, TypeOK, dbVars, cacheVars
<1>10. ASSUME NEW t \in Txns, AssertLeaderEpoch(t) PROVE Claims(s, e)
  BY <1>10 DEF AssertLeaderEpoch, TypeOK, dbVars, cacheVars
<1>11. ASSUME NEW t \in Txns, ClearStaleEpoch(t) PROVE Claims(s, e)
  BY <1>11 DEF ClearStaleEpoch, ClearedEpoch, NoTx, TypeOK, dbVars, cacheVars
<1>12. ASSUME NEW t \in Txns, CommitFencedTx(t) PROVE Claims(s, e)
  BY <1>12 DEF CommitFencedTx, NoTx, TypeOK, dbVars, cacheVars
<1>13. ASSUME NEW t \in Txns, RollbackFencedTx(t) PROVE Claims(s, e)
  BY <1>13 DEF RollbackFencedTx, NoTx, TypeOK, dbVars, cacheVars
<1> HIDE DEF Claims
<1>14. CASE SessionEnds
  BY <1>1, <1>14 DEF SessionEnds, cacheVars
<1>15. QED
  BY <1>1, <1>2, <1>3, <1>4, <1>5, <1>6, <1>7, <1>8, <1>9, <1>10, <1>11, <1>12,
     <1>13, <1>14 DEF Next, AcquireNext, TxNext, PublishUnanswered, AcquireFails,
     CacheSession, vars, dbVars, cacheVars

\* A published epoch has one owner, because it was nobody's before.
LEMMA OwnedStep == TypeOK /\ EpochsPublished /\ EpochsOwned /\ [Next]_vars => EpochsOwned'
<1> SUFFICES ASSUME TypeOK, EpochsPublished, EpochsOwned, [Next]_vars,
                    NEW r \in Replicas, NEW s \in Replicas, NEW e \in Nat,
                    e # 0, Claims(r, e)', Claims(s, e)'
             PROVE  r = s
  BY DEF EpochsOwned
<1>1. Claims(r, e) \/ (e = epoch + 1 /\ PublishLeaderEpoch(r))
  BY ClaimsStep
<1>2. Claims(s, e) \/ (e = epoch + 1 /\ PublishLeaderEpoch(s))
  BY ClaimsStep
<1>3. \A x \in Replicas : ~Claims(x, epoch + 1)
  BY DEF Claims, TypeOK, EpochsPublished
<1>4. CASE Claims(r, e) /\ Claims(s, e)
  BY <1>4 DEF EpochsOwned
<1>5. CASE PublishLeaderEpoch(r) /\ PublishLeaderEpoch(s)
  BY <1>5 DEF PublishLeaderEpoch, TypeOK
<1>6. QED
  BY <1>1, <1>2, <1>3, <1>4, <1>5

-----------------------------------------------------------------------------
(* The theorems                                                            *)

\* The invariant holds of every reachable state.
THEOREM Invariance == Spec => []LeadershipInv
<1>1. Init => LeadershipInv
  <2> SUFFICES ASSUME Init PROVE LeadershipInv
    OBVIOUS
  <2>1. TypeOK
    BY DEF Init, TypeOK, Steps, NoCandidate, NoTx
  <2>2. SessionsOwned /\ CandidatesFormed /\ EpochsPublished
    BY DEF Init, SessionsOwned, CandidatesFormed, EpochsPublished, NoCandidate, NoTx
  <2>3. FenceExact /\ HolderCurrent
    BY DEF Init, FenceExact, HolderCurrent, NoCandidate, NoTx
  <2>4. EpochsOwned
    BY DEF Init, EpochsOwned, Claims, NoCandidate, NoTx
  <2>5. QED
    BY <2>1, <2>2, <2>3, <2>4 DEF LeadershipInv
<1>2. LeadershipInv /\ [Next]_vars => LeadershipInv'
  BY TypeStep, SessionsStep, CandidatesStep, PublishedStep, FenceStep, HolderStep,
     OwnedStep DEF LeadershipInv
<1>3. QED
  BY <1>1, <1>2, PTL DEF Spec

\* Every variable keeps its type.
THEOREM TypeCorrect == Spec => []TypeOK
<1>1. LeadershipInv => TypeOK
  BY DEF LeadershipInv
<1>2. QED
  BY <1>1, Invariance, PTL

\* Whatever replicas believe about their sessions, the leader-only transactions
\* past the fence at any moment are of one replica and one epoch.
THEOREM Exclusion == Spec => []FencedTransactionsExclusive
<1>1. LeadershipInv => FencedTransactionsExclusive
  <2> SUFFICES ASSUME LeadershipInv, NEW t \in Txns, NEW u \in Txns,
                      tx[t].step = "open", tx[u].step = "open"
               PROVE  tx[t].by = tx[u].by /\ tx[t].epoch = tx[u].epoch
    BY DEF FencedTransactionsExclusive
  <2>1. tx[t].epoch = epoch /\ tx[u].epoch = epoch
    BY DEF LeadershipInv, FenceExact
  <2>2. Claims(tx[t].by, epoch) /\ Claims(tx[u].by, epoch)
    BY <2>1 DEF Claims
  <2>3. tx[t].by \in Replicas /\ tx[u].by \in Replicas
    BY DEF LeadershipInv, FenceExact
  <2>4. epoch \in Nat /\ epoch # 0
    BY <2>1 DEF LeadershipInv, TypeOK, FenceExact
  <2>5. QED
    BY <2>1, <2>2, <2>3, <2>4 DEF LeadershipInv, EpochsOwned
<1>2. QED
  BY <1>1, Invariance, PTL

\* A replica whose cached session holds the lock presents the durable epoch: it
\* is never fenced out.
THEOREM HolderNotFenced == Spec => []LockHolderIsCurrent
<1>1. LeadershipInv => LockHolderIsCurrent
  BY DEF LeadershipInv, HolderCurrent, LockHolderIsCurrent
<1>2. QED
  BY <1>1, Invariance, PTL

\* The mutations of two reigns never interleave.
THEOREM NoInterleaving == Spec => ReignsDoNotInterleave
<1>1. LeadershipInv /\ [Next]_vars =>
        [lastCommit' # lastCommit => lastCommit'.epoch > lastCommit.epoch]_vars
  <2> SUFFICES ASSUME LeadershipInv, Next, lastCommit' # lastCommit
               PROVE  lastCommit'.epoch > lastCommit.epoch
    BY DEF vars, dbVars
  <2>1. PICK t \in Txns : CommitFencedTx(t)
    BY DEF Next, CacheNext, AcquireNext, TxNext, SessionEnds, ProofAges, StartProbe,
       EndProbe, DropSession, ReleaseLeadership, BeginAcquire, TryAdvisoryLock,
       PublishLeaderEpoch, PublishUnanswered, AcquireFails, RetainEpoch, CacheSession,
       LoadEpoch, AssertLeaderEpoch, ClearStaleEpoch, RollbackFencedTx, Crash, dbVars
  <2>2. /\ tx[t].by \in Replicas /\ tx[t].epoch = epoch /\ epoch \in Nat \ {0}
        /\ lastCommit' = [by |-> tx[t].by, epoch |-> epoch]
    BY <2>1 DEF CommitFencedTx, LeadershipInv, TypeOK, FenceExact
  <2>3. /\ lastCommit.epoch \in Nat /\ lastCommit.epoch <= epoch
        /\ lastCommit = [by |-> lastCommit.by, epoch |-> lastCommit.epoch]
    BY DEF LeadershipInv, TypeOK, EpochsPublished
  <2>4. ASSUME lastCommit.epoch = epoch PROVE FALSE
    <3>1. lastCommit.by \in Replicas
      BY <2>2, <2>4 DEF LeadershipInv, TypeOK, EpochsPublished
    <3>2. Claims(tx[t].by, epoch) /\ Claims(lastCommit.by, epoch)
      BY <2>2, <2>3, <2>4 DEF Claims
    <3>3. tx[t].by = lastCommit.by
      BY <2>2, <3>1, <3>2 DEF LeadershipInv, EpochsOwned
    <3>4. QED
      BY <2>2, <2>3, <2>4, <3>3
  <2>5. QED
    BY <2>2, <2>3, <2>4
<1>2. QED
  BY <1>1, Invariance, PTL DEF Spec, ReignsDoNotInterleave

\* A current epoch is lost only with its session: no compare-and-swap of an
\* earlier reign clears it.
THEOREM NoClobbering == Spec => CurrentEpochNotClobbered
<1> DEFINE Kept == \A r \in Replicas :
          (retained[r] # 0 /\ retained[r] = epoch /\ retained'[r] # retained[r]) =>
              conn'[r] = 0 /\ cand'[r].step # "retained"
<1>1. LeadershipInv /\ [Next]_vars => [Kept]_vars
  <2> SUFFICES ASSUME LeadershipInv, Next, NEW r \in Replicas,
                      retained[r] # 0, retained[r] = epoch, retained'[r] # retained[r]
               PROVE  conn'[r] = 0 /\ cand'[r].step # "retained"
    OBVIOUS
  <2> USE DEF LeadershipInv, TypeOK, dbVars, cacheVars
  <2>1. ASSUME NEW s \in Replicas, CacheNext(s) PROVE conn'[r] = 0 /\ cand'[r].step # "retained"
    BY <2>1 DEF CacheNext, ProofAges, StartProbe, EndProbe, DropSession,
       ReleaseLeadership, DetachLeaderSession, CandidatesFormed
  <2>2. ASSUME NEW s \in Replicas, AcquireNext(s) PROVE conn'[r] = 0 /\ cand'[r].step # "retained"
    BY <2>2 DEF AcquireNext, BeginAcquire, TryAdvisoryLock, PublishLeaderEpoch,
       PublishUnanswered, AcquireFails, RetainEpoch, CacheSession, DetachLeaderSession,
       CandidatesFormed
  <2>3. ASSUME NEW s \in Replicas, Crash(s) PROVE conn'[r] = 0 /\ cand'[r].step # "retained"
    BY <2>3 DEF Crash, DetachLeaderSession, NoCandidate
  <2>4. ASSUME NEW t \in Txns, TxNext(t) PROVE FALSE
    BY <2>4 DEF TxNext, LoadEpoch, AssertLeaderEpoch, ClearStaleEpoch, ClearedEpoch,
       CommitFencedTx, RollbackFencedTx, FenceExact
  <2>5. ~SessionEnds
    BY DEF SessionEnds
  <2>6. QED
    BY <2>1, <2>2, <2>3, <2>4, <2>5 DEF Next
<1>2. QED
  BY <1>1, Invariance, PTL DEF Spec, CurrentEpochNotClobbered
=============================================================================
