------------------------------ MODULE CasStore ------------------------------
(***************************************************************************)
(* The content-addressed store in database mode: uploads that publish an   *)
(* object and commit the record that references it, and the collector that *)
(* deletes what nothing references.  Both take the digest fence of the     *)
(* object, an advisory lock on a connection of a small pool of its own.    *)
(*                                                                         *)
(* An artifact upload holds two fences: that of its payload and that of    *)
(* the provenance envelope it signs, whose digest is new with every        *)
(* attempt.  A cache upload (a snapshot upload and an execution            *)
(* attestation have the same shape) holds one.  The collector holds its    *)
(* lease and one fence.                                                    *)
(*                                                                         *)
(* An object is young when an upload put or touched it and old once it is  *)
(* past the collector's age floor.  Bounds: MaxAttempts (uploads of each   *)
(* record), MaxPrunes, MaxAborts (collector passes cut short).             *)
(* Left out: corrupt objects, which the collector, reading an object again *)
(* before it deletes it, keeps; the loss of a fence's session.             *)
(***************************************************************************)
EXTENDS Naturals, FiniteSets

CONSTANTS
    Artifacts,       \* artifact records: one per job, generation and name
    CacheKeys,       \* cache manifests: one per repository, domain and key
    Payloads,        \* digests of uploaded content
    Nobody,          \* no holder of a fence
    Collector,       \* the collector as a holder
    PoolSize,        \* advisoryPoolMaxConns
    MaxAttempts, MaxPrunes, MaxAborts

ASSUME CasAssumption ==
    /\ Artifacts \cap CacheKeys = {}
    /\ Collector \notin Artifacts \cup CacheKeys
    /\ Nobody \notin Artifacts \cup CacheKeys \cup {Collector}
    /\ Payloads \cap (Artifacts \X (1..MaxAttempts)) = {}
    /\ <<>> \notin Payloads
    /\ PoolSize \in Nat /\ MaxAttempts \in Nat
    /\ MaxPrunes \in Nat /\ MaxAborts \in Nat

VARIABLES
    object,      \* age of each object in the blob store
    record,      \* digests each durable record references
    fence,       \* holder of each digest fence
    up,          \* the upload of each record
    gc,          \* the collector's pass
    attempts, prunes, aborts

bounds == <<attempts, prunes, aborts>>
vars == <<object, record, fence, up, gc, bounds>>

Records == Artifacts \cup CacheKeys
Envelopes == Artifacts \X (1..MaxAttempts)
Digests == Payloads \cup Envelopes
Envelope(u) == <<u, attempts[u]>>
NoDigest == <<>>

Idle == [pc |-> "idle", digest |-> NoDigest, conns |-> 0, envelope |-> FALSE]
Resting == [pc |-> "idle", todo |-> {}, past |-> {}, item |-> NoDigest, conns |-> 0]

TypeOK ==
    /\ object \in [Digests -> {"absent", "young", "old"}]
    /\ record \in [Records -> SUBSET Digests]
    /\ fence \in [Digests -> Records \cup {Collector, Nobody}]
    /\ up \in [Records -> [pc : {"idle", "conn", "lock", "put", "second", "envelope",
                                 "commit", "return"},
                           digest : Payloads \cup {NoDigest}, conns : 0..2,
                           envelope : BOOLEAN]]
    /\ gc.pc \in {"idle", "next", "conn", "lock", "reread", "stat", "delete"}
    /\ gc.todo \cup gc.past \subseteq Digests
    /\ gc.conns \in 0..2
    /\ attempts \in [Records -> 0..MaxAttempts]
    /\ prunes \in 0..MaxPrunes /\ aborts \in 0..MaxAborts

Init ==
    /\ object = [d \in Digests |-> "absent"]
    /\ record = [u \in Records |-> {}]
    /\ fence = [d \in Digests |-> Nobody]
    /\ up = [u \in Records |-> Idle]
    /\ gc = Resting
    /\ attempts = [u \in Records |-> 0]
    /\ prunes = 0 /\ aborts = 0

Present(d) == object[d] # "absent"
Referenced(d) == \E u \in Records : d \in record[u]

\* Connections of the pool that nobody holds: each upload and the collector hold at
\* most two.
ConnsHeld ==
    Cardinality({u \in Records : up[u].conns >= 1})
        + Cardinality({u \in Records : up[u].conns = 2}) + gc.conns
ConnFree == ConnsHeld < PoolSize

\* Fault: the fence is local to a replica.
FenceFreeHere(d, who) == TRUE

\* pg_advisory_lock grants the fence.
FenceFree(d, who) == fence[d] = Nobody

\* Fault: the payload fence outlives an upload that committed nothing.
FencesReleasedOnCommit(who) ==
    [d \in Digests |-> IF fence[d] = who /\ Referenced(d) THEN Nobody ELSE fence[d]]

\* The release of everything a handler deferred.
FencesReleased(who) == [d \in Digests |-> IF fence[d] = who THEN Nobody ELSE fence[d]]
-----------------------------------------------------------------------------
(* Uploads. *)

Goes(u, pc) == up' = [up EXCEPT ![u].pc = pc]

\* The body is staged and hashed; the fence comes next.
BeginUpload(u, d) ==
    /\ up[u].pc = "idle"
    /\ attempts[u] < MaxAttempts
    /\ attempts' = [attempts EXCEPT ![u] = @ + 1]
    /\ up' = [up EXCEPT ![u] = [Idle EXCEPT !.pc = "conn", !.digest = d]]
    /\ UNCHANGED <<object, record, fence, gc, prunes, aborts>>

\* AcquireDigestFence: a connection of the pool, then the lock on it.
TakeConn(u) ==
    /\ up[u].pc = "conn"
    /\ ConnFree
    /\ up' = [up EXCEPT ![u].pc = "lock", ![u].conns = 1]
    /\ UNCHANGED <<object, record, fence, gc, bounds>>

TakeFence(u) ==
    /\ up[u].pc = "lock"
    /\ FenceFree(up[u].digest, u)
    /\ fence' = [fence EXCEPT ![up[u].digest] = u]
    /\ Goes(u, "put")
    /\ UNCHANGED <<object, record, gc, bounds>>

\* A put writes the object, or refreshes the age of the one that is there; the
\* collector's cutoff is before it.
Put(d) ==
    /\ object' = [object EXCEPT ![d] = "young"]
    /\ gc' = [gc EXCEPT !.past = @ \ {d}]

PutPayload(u) ==
    /\ up[u].pc = "put"
    /\ Put(up[u].digest)
    /\ Goes(u, IF u \in Artifacts THEN "second" ELSE "commit")
    /\ UNCHANGED <<record, fence, bounds>>

\* The second fence of an artifact upload, while it holds the first.
TakeSecondFence(u) ==
    /\ up[u].pc = "second"
    /\ ConnFree
    /\ FenceFree(Envelope(u), u)
    /\ fence' = [fence EXCEPT ![Envelope(u)] = u]
    /\ up' = [up EXCEPT ![u].pc = "envelope", ![u].conns = 2]
    /\ UNCHANGED <<object, record, gc, bounds>>

\* Fault: the wait for the second fence is unbounded.
SecondWaitNeverEnds(u) == FALSE

\* provenanceFenceTimeout bounds the wait.
SecondWaitEnds(u) == up[u].pc = "second"

\* Without provenance the upload is refused if the contract requires it, and
\* otherwise goes on without it.
SecondFenceTimesOut(u) ==
    /\ SecondWaitEnds(u)
    /\ \E pc \in {"return", "commit"} : Goes(u, pc)
    /\ UNCHANGED <<object, record, fence, gc, bounds>>

PutEnvelope(u) ==
    /\ up[u].pc = "envelope"
    /\ Put(Envelope(u))
    /\ up' = [up EXCEPT ![u].pc = "commit", ![u].envelope = TRUE]
    /\ UNCHANGED <<record, fence, bounds>>

\* The envelope is not stored and the contract does not require it.
EnvelopeFails(u) ==
    /\ up[u].pc = "envelope"
    /\ Goes(u, "commit")
    /\ UNCHANGED <<object, record, fence, gc, bounds>>

\* InsertArtifactOnceForLease keeps an existing record, PutCacheManifestForLease
\* replaces it.
Commit(u) ==
    LET references == {up[u].digest} \cup (IF up[u].envelope THEN {Envelope(u)} ELSE {})
    IN  /\ up[u].pc = "commit"
        /\ record' = IF u \in Artifacts /\ record[u] # {} THEN record
                     ELSE [record EXCEPT ![u] = references]
        /\ Goes(u, "return")
        /\ UNCHANGED <<object, fence, gc, bounds>>

\* The lease was lost, a put or a transaction failed, or the client went away.
UploadFails(u) ==
    /\ up[u].pc \in {"conn", "lock", "put", "second", "envelope", "commit"}
    /\ Goes(u, "return")
    /\ UNCHANGED <<object, record, fence, gc, bounds>>

\* The handler returns: the deferred releases run.  A replica that dies releases the
\* same locks with its sessions.
Return(u) ==
    /\ up[u].pc = "return"
    /\ fence' = FencesReleased(u)
    /\ up' = [up EXCEPT ![u] = Idle]
    /\ UNCHANGED <<object, record, gc, bounds>>

UploadStep(u) ==
    \/ TakeConn(u) \/ TakeFence(u) \/ PutPayload(u) \/ TakeSecondFence(u)
    \/ PutEnvelope(u) \/ Commit(u) \/ Return(u)
-----------------------------------------------------------------------------
(* The collector: runCASGC. *)

\* The lease, the references and the cutoff of a pass.  A pass over an empty store
\* does nothing.
GCBegin ==
    /\ gc.pc = "idle"
    /\ \E d \in Digests : Present(d)
    /\ ConnFree
    /\ LET past == {d \in Digests : object[d] = "old"}
       IN  gc' = [gc EXCEPT !.pc = "next", !.conns = 1, !.past = past,
                            !.todo = {d \in past : ~ Referenced(d)}]
    /\ UNCHANGED <<object, record, fence, up, bounds>>

GCNext(d) ==
    /\ gc.pc = "next"
    /\ d \in gc.todo
    /\ gc' = [gc EXCEPT !.pc = "conn", !.item = d, !.todo = @ \ {d}]
    /\ UNCHANGED <<object, record, fence, up, bounds>>

GCTakesConn ==
    /\ gc.pc = "conn"
    /\ ConnFree
    /\ gc' = [gc EXCEPT !.pc = "lock", !.conns = 2]
    /\ UNCHANGED <<object, record, fence, up, bounds>>

GCTakesFence ==
    /\ gc.pc = "lock"
    /\ FenceFree(gc.item, Collector)
    /\ fence' = [fence EXCEPT ![gc.item] = Collector]
    /\ gc' = [gc EXCEPT !.pc = "reread"]
    /\ UNCHANGED <<object, record, up, bounds>>

\* The fence of an object is given back and the pass goes on.
GCMovesOn ==
    /\ gc' = [gc EXCEPT !.pc = "next", !.conns = 1, !.item = NoDigest]
    /\ fence' = FencesReleased(Collector)

\* Under the fence the references are read again ...
GCRereads ==
    /\ gc.pc = "reread"
    /\ IF Referenced(gc.item) THEN GCMovesOn
       ELSE gc' = [gc EXCEPT !.pc = "stat"] /\ UNCHANGED fence
    /\ UNCHANGED <<object, record, up, bounds>>

\* ... and the age of the object, which must still be past the cutoff.
GCStats ==
    /\ gc.pc = "stat"
    /\ IF Present(gc.item) /\ gc.item \in gc.past
       THEN gc' = [gc EXCEPT !.pc = "delete"] /\ UNCHANGED fence
       ELSE GCMovesOn
    /\ UNCHANGED <<object, record, up, bounds>>

GCDeletes ==
    /\ gc.pc = "delete"
    /\ object' = [object EXCEPT ![gc.item] = "absent"]
    /\ GCMovesOn
    /\ UNCHANGED <<record, up, bounds>>

GCEnd ==
    /\ gc.pc = "next"
    /\ gc.todo = {}
    /\ gc' = Resting
    /\ UNCHANGED <<object, record, fence, up, bounds>>

\* A pass fails, or its replica stops: the locks go with the sessions.
GCAborts ==
    /\ gc.pc # "idle"
    /\ aborts < MaxAborts
    /\ aborts' = aborts + 1
    /\ gc' = Resting
    /\ fence' = FencesReleased(Collector)
    /\ UNCHANGED <<object, record, up, attempts, prunes>>

GCStep ==
    \/ GCBegin \/ (\E d \in Digests : GCNext(d)) \/ GCTakesConn \/ GCTakesFence
    \/ GCRereads \/ GCStats \/ GCDeletes \/ GCEnd
-----------------------------------------------------------------------------
(* The environment. *)

\* PruneCacheManifests drops a reference.
PruneManifest(u) ==
    /\ u \in CacheKeys
    /\ record[u] # {}
    /\ prunes < MaxPrunes
    /\ prunes' = prunes + 1
    /\ record' = [record EXCEPT ![u] = {}]
    /\ UNCHANGED <<object, fence, up, gc, attempts, aborts>>

\* CASGCMinAge passes.
Age(d) ==
    /\ object[d] = "young"
    /\ object' = [object EXCEPT ![d] = "old"]
    /\ UNCHANGED <<record, fence, up, gc, bounds>>

Next ==
    \/ \E u \in Records :
           \/ \E d \in Payloads : BeginUpload(u, d)
           \/ UploadStep(u) \/ SecondFenceTimesOut(u) \/ EnvelopeFails(u) \/ UploadFails(u)
           \/ PruneManifest(u)
    \/ GCStep
    \/ GCAborts
    \/ \E d \in Digests : Age(d)

Spec == Init /\ [][Next]_vars

\* Handlers run on, the bounded wait ends, the collector runs again and again, and
\* time passes.
Fairness ==
    /\ \A u \in Records : WF_vars(UploadStep(u)) /\ WF_vars(SecondFenceTimesOut(u))
    /\ WF_vars(GCStep)
    /\ \A d \in Digests : WF_vars(Age(d))

FairSpec == Spec /\ Fairness
-----------------------------------------------------------------------------
(* Properties. *)

\* Every digest a durable record references is in the blob store, however uploads,
\* replays, prunes and the collector interleave (acquireDigestFence is held across
\* publication and commit, runCASGC re-reads under it).
NoDanglingReference == \A d \in Digests : Referenced(d) => Present(d)

\* An upload ends, although each holds one connection of the pool while it waits
\* for a second (provenanceFenceTimeout).
UploadsFinish == \A u \in Records : up[u].pc # "idle" ~> up[u].pc = "idle"

\* What an upload left behind, or a prune set free, is deleted in the end or
\* referenced again (removeStagedArtifact leaves objects to the collector).
OrphansReclaimed ==
    \A d \in Digests : (Present(d) /\ ~ Referenced(d)) ~> (~ Present(d) \/ Referenced(d))
=============================================================================
