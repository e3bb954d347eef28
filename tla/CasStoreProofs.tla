--------------------------- MODULE CasStoreProofs ---------------------------
(***************************************************************************)
(* No record of the content-addressed store references an object that is   *)
(* gone.  Each lemma is one step of an upload, of the collector or of the  *)
(* environment; what a step leaves alone is settled by the three           *)
(* undisturbed lemmas.                                                     *)
(***************************************************************************)
EXTENDS CasStore, TLAPS

\* The connections of the fence pool an upload or the collector can hold.
Held == 0..2

\* What the collector's record can be.
Passes ==
    [pc : {"idle", "next", "conn", "lock", "reread", "stat", "delete"},
     todo : SUBSET Digests, past : SUBSET Digests,
     item : Digests \cup {NoDigest}, conns : Held]

\* What the record of an upload can be.
Uploads ==
    [pc : {"idle", "conn", "lock", "put", "second", "envelope", "commit", "return"},
     digest : Payloads \cup {NoDigest}, conns : Held, envelope : BOOLEAN]

\* The type invariant, with the type of the collector's record.
Typed == TypeOK /\ gc \in Passes

\* How far upload u is determines what it has put and fenced: from the put of the
\* payload to the commit it holds the payload's fence, from the put on the payload
\* is there, and an envelope it will reference is there and fenced too.
UploadCovered(u) ==
    /\ up[u].pc # "idle" => up[u].digest \in Payloads /\ attempts[u] \in 1..MaxAttempts
    /\ up[u].envelope => up[u].pc \in {"commit", "return"}
    /\ up[u].pc \in {"second", "envelope"} => u \in Artifacts
    /\ up[u].pc \in {"put", "second", "envelope", "commit"} => fence[up[u].digest] = u
    /\ up[u].pc \in {"second", "envelope", "commit"} => Present(up[u].digest)
    /\ up[u].pc = "envelope" => fence[Envelope(u)] = u
    /\ up[u].pc = "commit" /\ up[u].envelope =>
           u \in Artifacts /\ fence[Envelope(u)] = u /\ Present(Envelope(u))

\* All uploads are covered that way.
UploadsCovered == \A u \in Records : UploadCovered(u)

\* The collector deletes under the fence of the object, and between its second look
\* at the references and the deletion the object is unreferenced.
CollectorCovered ==
    /\ gc.pc \in {"conn", "lock", "reread", "stat", "delete"} => gc.item \in Digests
    /\ gc.pc \in {"reread", "stat", "delete"} => fence[gc.item] = Collector
    /\ gc.pc \in {"stat", "delete"} => ~ Referenced(gc.item)

\* The inductive invariant.  NoDanglingReference alone is not inductive: that a
\* commit references only present objects, and a deletion only an unreferenced one,
\* follows from who holds the fence.
CasInv == Typed /\ UploadsCovered /\ CollectorCovered /\ NoDanglingReference

-----------------------------------------------------------------------------
(* What a step leaves alone                                                *)

\* The numbers of connections a holder can have.
LEMMA HeldFacts == 0 \in Held /\ 1 \in Held /\ 2 \in Held
BY DEF Held

\* The envelope an upload signs has a digest of the store.
LEMMA EnvelopeInStore ==
    ASSUME NEW u \in Artifacts, attempts[u] \in 1..MaxAttempts
    PROVE  Envelope(u) \in Digests
BY DEF Digests, Envelopes, Envelope

\* What covers an upload is disturbed only through its own fences: a step that
\* leaves its record and attempt alone, and the objects whose fence it holds, keeps
\* it covered.
LEMMA UploadUndisturbed ==
    ASSUME CasInv, NEW w \in Records,
           up'[w] = up[w], attempts'[w] = attempts[w],
           \A d \in Digests :
               fence[d] = w => fence'[d] = w /\ (Present(d) => Present(d)')
    PROVE  UploadCovered(w)'
<1>1. UploadCovered(w)
  BY DEF CasInv, UploadsCovered
<1>2. up[w].pc # "idle" => up[w].digest \in Digests
  BY <1>1 DEF UploadCovered, Digests
<1>3. Envelope(w)' = Envelope(w)
  BY DEF Envelope
<1>4. /\ up[w].pc = "envelope" => Envelope(w) \in Digests
      /\ up[w].pc = "commit" /\ up[w].envelope => Envelope(w) \in Digests
  BY <1>1, EnvelopeInStore DEF UploadCovered
<1>5. /\ up[w].pc = "envelope" => fence'[Envelope(w)] = w
      /\ up[w].pc = "commit" /\ up[w].envelope =>
             fence'[Envelope(w)] = w /\ Present(Envelope(w))'
  BY <1>1, <1>3, <1>4 DEF UploadCovered, Present
<1> QED
  BY <1>1, <1>2, <1>3, <1>5 DEF UploadCovered, Present

\* The collector stays covered when a step leaves its pass and its fence alone and
\* adds no reference to an object the collector has fenced.
LEMMA CollectorUndisturbed ==
    ASSUME CasInv, gc'.pc = gc.pc, gc'.item = gc.item,
           \A d \in Digests :
               fence[d] = Collector => fence'[d] = Collector /\ (Referenced(d)' => Referenced(d))
    PROVE  CollectorCovered'
<1>1. CollectorCovered
  BY DEF CasInv
<1> QED
  BY <1>1 DEF CollectorCovered, Referenced

\* References stay present when none is added and no object goes.
LEMMA ReferencesUndisturbed ==
    ASSUME CasInv,
           \A d \in Digests : (Referenced(d)' => Referenced(d)) /\ (Present(d) => Present(d)')
    PROVE  NoDanglingReference'
BY DEF CasInv, NoDanglingReference, Present, Referenced

-----------------------------------------------------------------------------
(* The start, and the steps of an upload                                   *)

\* The store starts empty, with no fence held.
LEMMA InitCovered == Init => CasInv
<1> SUFFICES ASSUME Init PROVE CasInv
  OBVIOUS
<1>1. Typed
  BY CasAssumption DEF Init, Typed, TypeOK, Passes, Held, Idle, Resting
<1>2. UploadsCovered
  BY DEF Init, UploadsCovered, UploadCovered, Idle
<1>3. CollectorCovered
  BY DEF Init, CollectorCovered, Resting
<1>4. NoDanglingReference
  BY DEF Init, NoDanglingReference, Referenced
<1> QED
  BY <1>1, <1>2, <1>3, <1>4 DEF CasInv

\* An upload begins, with nothing held and a new attempt number (acquireDigestFence
\* is still to come).
LEMMA BeginUploadCovered ==
    ASSUME CasInv, NEW u \in Records, NEW d \in Payloads, BeginUpload(u, d)
    PROVE  CasInv'
<1>1. Typed'
  <2>1. [Idle EXCEPT !.pc = "conn", !.digest = d] \in Uploads
    BY HeldFacts DEF Idle, Uploads
  <2>2. up' \in [Records -> Uploads]
    BY <2>1 DEF CasInv, Typed, TypeOK, Uploads, Held, BeginUpload
  <2> QED
    BY <2>2, CasAssumption DEF CasInv, Typed, TypeOK, Uploads, Held, BeginUpload
<1>2. UploadsCovered'
  <2> SUFFICES ASSUME NEW w \in Records PROVE UploadCovered(w)'
    BY DEF UploadsCovered
  <2>1. CASE w = u
    BY <2>1, CasAssumption DEF CasInv, Typed, TypeOK, BeginUpload, UploadCovered, Idle
  <2>2. CASE w # u
    BY <2>2, UploadUndisturbed DEF CasInv, Typed, TypeOK, BeginUpload, Present
  <2> QED
    BY <2>1, <2>2
<1>3. CollectorCovered'
  BY CollectorUndisturbed DEF BeginUpload, Referenced
<1>4. NoDanglingReference'
  BY ReferencesUndisturbed DEF BeginUpload, Referenced, Present
<1> QED
  BY <1>1, <1>2, <1>3, <1>4 DEF CasInv

\* A connection of the pool is no fence.
LEMMA TakeConnCovered ==
    ASSUME CasInv, NEW u \in Records, TakeConn(u)
    PROVE  CasInv'
<1>1. Typed'
  <2>1. up[u] \in Uploads
    BY DEF CasInv, Typed, TypeOK, Uploads, Held
  <2>2. [up[u] EXCEPT !.pc = "lock", !.conns = 1] \in Uploads
    BY <2>1, HeldFacts DEF Uploads
  <2>3. up' = [up EXCEPT ![u] = [up[u] EXCEPT !.pc = "lock", !.conns = 1]]
    BY DEF CasInv, Typed, TypeOK, TakeConn
  <2>4. up' \in [Records -> Uploads]
    BY <2>2, <2>3 DEF CasInv, Typed, TypeOK, Uploads, Held
  <2> QED
    BY <2>4 DEF CasInv, Typed, TypeOK, Uploads, Held, TakeConn, bounds
<1>2. UploadsCovered'
  <2> SUFFICES ASSUME NEW w \in Records PROVE UploadCovered(w)'
    BY DEF UploadsCovered
  <2>1. CASE w = u
    BY <2>1 DEF CasInv, Typed, TypeOK, UploadsCovered, TakeConn, UploadCovered, bounds
  <2>2. CASE w # u
    BY <2>2, UploadUndisturbed DEF CasInv, Typed, TypeOK, TakeConn, Present, bounds
  <2> QED
    BY <2>1, <2>2
<1>3. CollectorCovered'
  BY CollectorUndisturbed DEF TakeConn, Referenced
<1>4. NoDanglingReference'
  BY ReferencesUndisturbed DEF TakeConn, Referenced, Present
<1> QED
  BY <1>1, <1>2, <1>3, <1>4 DEF CasInv

\* The fence was free, so no other upload and not the collector relied on it
\* (AcquireDigestFence).
LEMMA TakeFenceCovered ==
    ASSUME CasInv, NEW u \in Records, TakeFence(u)
    PROVE  CasInv'
<1>1. up[u].digest \in Digests /\ UploadCovered(u)
  BY DEF CasInv, UploadsCovered, UploadCovered, TakeFence, Digests
<1>2. Typed'
  BY <1>1 DEF CasInv, Typed, TypeOK, TakeFence, Goes, bounds
<1>3. UploadsCovered'
  <2> SUFFICES ASSUME NEW w \in Records PROVE UploadCovered(w)'
    BY DEF UploadsCovered
  <2>1. CASE w = u
    BY <2>1, <1>1 DEF CasInv, Typed, TypeOK, TakeFence, UploadCovered, Goes, bounds
  <2>2. CASE w # u
    BY <2>2, <1>1, UploadUndisturbed, CasAssumption
       DEF CasInv, Typed, TypeOK, TakeFence, FenceFree, Goes, Present, bounds, Records
  <2> QED
    BY <2>1, <2>2
<1>4. CollectorCovered'
  BY <1>1, CollectorUndisturbed, CasAssumption
     DEF CasInv, Typed, TypeOK, TakeFence, FenceFree, Referenced
<1>5. NoDanglingReference'
  BY ReferencesUndisturbed DEF TakeFence, Referenced, Present
<1> QED
  BY <1>2, <1>3, <1>4, <1>5 DEF CasInv

\* The payload is put under its fence; a put only adds.
LEMMA PutPayloadCovered ==
    ASSUME CasInv, NEW u \in Records, PutPayload(u)
    PROVE  CasInv'
<1>1. up[u].digest \in Digests /\ UploadCovered(u)
  BY DEF CasInv, UploadsCovered, UploadCovered, PutPayload, Digests
<1>2. \A d \in Digests : Present(d) => Present(d)'
  BY <1>1 DEF CasInv, Typed, TypeOK, PutPayload, Put, Present
<1>3. Typed'
  BY <1>1 DEF CasInv, Typed, TypeOK, Passes, Held, PutPayload, Put, Goes, bounds
<1>4. UploadsCovered'
  <2> SUFFICES ASSUME NEW w \in Records PROVE UploadCovered(w)'
    BY DEF UploadsCovered
  <2>1. CASE w = u
    BY <2>1, <1>1 DEF CasInv, Typed, TypeOK, PutPayload, Put, UploadCovered, Goes, Present, bounds
  <2>2. CASE w # u
    BY <2>2, <1>2, UploadUndisturbed DEF CasInv, Typed, TypeOK, PutPayload, Goes, bounds
  <2> QED
    BY <2>1, <2>2
<1>5. CollectorCovered'
  BY CollectorUndisturbed DEF CasInv, Typed, Passes, PutPayload, Put, Referenced
<1>6. NoDanglingReference'
  BY <1>2, ReferencesUndisturbed DEF PutPayload, Referenced
<1> QED
  BY <1>3, <1>4, <1>5, <1>6 DEF CasInv

\* The envelope's fence is taken while the payload's is held.
LEMMA TakeSecondFenceCovered ==
    ASSUME CasInv, NEW u \in Records, TakeSecondFence(u)
    PROVE  CasInv'
<1>1. up[u].digest \in Digests /\ UploadCovered(u) /\ Envelope(u) \in Digests
  BY EnvelopeInStore DEF CasInv, UploadsCovered, UploadCovered, TakeSecondFence, Digests
<1>2. Typed'
  <2>1. up[u] \in Uploads
    BY DEF CasInv, Typed, TypeOK, Uploads, Held
  <2>2. [up[u] EXCEPT !.pc = "envelope", !.conns = 2] \in Uploads
    BY <2>1, HeldFacts DEF Uploads
  <2>3. up' = [up EXCEPT ![u] = [up[u] EXCEPT !.pc = "envelope", !.conns = 2]]
    BY DEF CasInv, Typed, TypeOK, TakeSecondFence
  <2>4. up' \in [Records -> Uploads]
    BY <2>2, <2>3 DEF CasInv, Typed, TypeOK, Uploads, Held
  <2> QED
    BY <1>1, <2>4 DEF CasInv, Typed, TypeOK, Uploads, Held, TakeSecondFence, bounds
<1>3. UploadsCovered'
  <2> SUFFICES ASSUME NEW w \in Records PROVE UploadCovered(w)'
    BY DEF UploadsCovered
  <2>1. CASE w = u
    <3>1. Envelope(u)' = Envelope(u)
      BY DEF TakeSecondFence, Envelope, bounds
    <3> QED
      BY <2>1, <3>1, <1>1 DEF CasInv, Typed, TypeOK, TakeSecondFence, UploadCovered, Present, bounds
  <2>2. CASE w # u
    BY <2>2, <1>1, UploadUndisturbed, CasAssumption
       DEF CasInv, Typed, TypeOK, TakeSecondFence, FenceFree, Present, bounds, Records
  <2> QED
    BY <2>1, <2>2
<1>4. CollectorCovered'
  BY <1>1, CollectorUndisturbed, CasAssumption
     DEF CasInv, Typed, TypeOK, TakeSecondFence, FenceFree, Referenced
<1>5. NoDanglingReference'
  BY ReferencesUndisturbed DEF TakeSecondFence, Referenced, Present
<1> QED
  BY <1>2, <1>3, <1>4, <1>5 DEF CasInv

\* An upload that goes on without an envelope still holds the payload's fence
\* (provenanceFenceTimeout).
LEMMA SecondFenceTimesOutCovered ==
    ASSUME CasInv, NEW u \in Records, SecondFenceTimesOut(u)
    PROVE  CasInv'
<1>1. Typed'
  BY DEF CasInv, Typed, TypeOK, SecondFenceTimesOut, Goes, bounds
<1>2. UploadsCovered'
  <2> SUFFICES ASSUME NEW w \in Records PROVE UploadCovered(w)'
    BY DEF UploadsCovered
  <2>1. CASE w = u
    BY <2>1 DEF CasInv, Typed, TypeOK, UploadsCovered, SecondFenceTimesOut, SecondWaitEnds,
                UploadCovered, Goes, Present, bounds
  <2>2. CASE w # u
    BY <2>2, UploadUndisturbed
       DEF CasInv, Typed, TypeOK, SecondFenceTimesOut, Goes, Present, bounds
  <2> QED
    BY <2>1, <2>2
<1>3. CollectorCovered'
  BY CollectorUndisturbed DEF SecondFenceTimesOut, Referenced
<1>4. NoDanglingReference'
  BY ReferencesUndisturbed DEF SecondFenceTimesOut, Referenced, Present
<1> QED
  BY <1>1, <1>2, <1>3, <1>4 DEF CasInv

\* The envelope is put under its fence.
LEMMA PutEnvelopeCovered ==
    ASSUME CasInv, NEW u \in Records, PutEnvelope(u)
    PROVE  CasInv'
<1>1. up[u].digest \in Digests /\ UploadCovered(u) /\ Envelope(u) \in Digests
  BY EnvelopeInStore DEF CasInv, UploadsCovered, UploadCovered, PutEnvelope, Digests
<1>2. \A d \in Digests : Present(d) => Present(d)'
  BY <1>1 DEF CasInv, Typed, TypeOK, PutEnvelope, Put, Present
<1>3. Typed'
  <2>1. up[u] \in Uploads
    BY DEF CasInv, Typed, TypeOK, Uploads, Held
  <2>2. [up[u] EXCEPT !.pc = "commit", !.envelope = TRUE] \in Uploads
    BY <2>1, HeldFacts DEF Uploads
  <2>3. up' = [up EXCEPT ![u] = [up[u] EXCEPT !.pc = "commit", !.envelope = TRUE]]
    BY DEF CasInv, Typed, TypeOK, PutEnvelope
  <2>4. up' \in [Records -> Uploads]
    BY <2>2, <2>3 DEF CasInv, Typed, TypeOK, Uploads, Held
  <2> QED
    BY <1>1, <2>4 DEF CasInv, Typed, TypeOK, Uploads, Held, PutEnvelope, Passes, Put, bounds
<1>4. UploadsCovered'
  <2> SUFFICES ASSUME NEW w \in Records PROVE UploadCovered(w)'
    BY DEF UploadsCovered
  <2>1. CASE w = u
    <3>1. Envelope(u)' = Envelope(u)
      BY DEF PutEnvelope, Envelope, bounds
    <3>2. Present(Envelope(u))' /\ Present(up[u].digest)'
      BY <3>1, <1>1, <1>2 DEF CasInv, Typed, TypeOK, PutEnvelope, Put, Present, UploadCovered
    <3> QED
      BY <2>1, <3>1, <3>2, <1>1 DEF CasInv, Typed, TypeOK, PutEnvelope, UploadCovered, Present, bounds
  <2>2. CASE w # u
    BY <2>2, <1>2, UploadUndisturbed DEF CasInv, Typed, TypeOK, PutEnvelope, bounds
  <2> QED
    BY <2>1, <2>2
<1>5. CollectorCovered'
  BY CollectorUndisturbed DEF CasInv, Typed, Passes, PutEnvelope, Put, Referenced
<1>6. NoDanglingReference'
  BY <1>2, ReferencesUndisturbed DEF PutEnvelope, Referenced
<1> QED
  BY <1>3, <1>4, <1>5, <1>6 DEF CasInv

\* The record will not reference an envelope that was not stored.
LEMMA EnvelopeFailsCovered ==
    ASSUME CasInv, NEW u \in Records, EnvelopeFails(u)
    PROVE  CasInv'
<1>1. Typed'
  BY DEF CasInv, Typed, TypeOK, EnvelopeFails, Goes, bounds
<1>2. UploadsCovered'
  <2> SUFFICES ASSUME NEW w \in Records PROVE UploadCovered(w)'
    BY DEF UploadsCovered
  <2>1. CASE w = u
    BY <2>1 DEF CasInv, Typed, TypeOK, UploadsCovered, EnvelopeFails, UploadCovered, Goes, Present,
                bounds
  <2>2. CASE w # u
    BY <2>2, UploadUndisturbed DEF CasInv, Typed, TypeOK, EnvelopeFails, Goes, Present, bounds
  <2> QED
    BY <2>1, <2>2
<1>3. CollectorCovered'
  BY CollectorUndisturbed DEF EnvelopeFails, Referenced
<1>4. NoDanglingReference'
  BY ReferencesUndisturbed DEF EnvelopeFails, Referenced, Present
<1> QED
  BY <1>1, <1>2, <1>3, <1>4 DEF CasInv

\* The record references only what its upload put, and the upload has held the
\* fences since: the collector is not past its second look at any of it
\* (InsertArtifactOnceForLease, PutCacheManifestForLease).
LEMMA CommitCovered ==
    ASSUME CasInv, NEW u \in Records, Commit(u)
    PROVE  CasInv'
<1> DEFINE references == {up[u].digest} \cup (IF up[u].envelope THEN {Envelope(u)} ELSE {})
<1>1. /\ UploadCovered(u)
      /\ up[u].envelope => Envelope(u) \in Digests
  BY EnvelopeInStore DEF CasInv, UploadsCovered, UploadCovered, Commit
<1>2. references \subseteq Digests
  BY <1>1 DEF UploadCovered, Commit, Digests
<1>3. \A d \in references : fence[d] = u /\ Present(d)
  BY <1>1 DEF UploadCovered, Commit
<1>4. \/ record' = record
      \/ record' = [record EXCEPT ![u] = references]
  BY DEF Commit
<1>5. \A d \in Digests : Referenced(d)' => Referenced(d) \/ d \in references
  BY <1>4 DEF CasInv, Typed, TypeOK, Referenced
<1> HIDE DEF references
<1>6. Typed'
  <2>1. record' \in [Records -> SUBSET Digests]
    BY <1>2, <1>4 DEF CasInv, Typed, TypeOK
  <2> QED
    BY <2>1 DEF CasInv, Typed, TypeOK, Commit, Goes, bounds
<1>7. UploadsCovered'
  <2> SUFFICES ASSUME NEW w \in Records PROVE UploadCovered(w)'
    BY DEF UploadsCovered
  <2>1. CASE w = u
    BY <2>1, <1>1 DEF CasInv, Typed, TypeOK, Commit, UploadCovered, Goes, bounds
  <2>2. CASE w # u
    BY <2>2, UploadUndisturbed DEF CasInv, Typed, TypeOK, Commit, Goes, Present, bounds
  <2> QED
    BY <2>1, <2>2
<1>8. CollectorCovered'
  <2>1. \A d \in Digests : fence[d] = Collector => (Referenced(d)' => Referenced(d))
    BY <1>3, <1>5, CasAssumption DEF Records
  <2> QED
    BY <2>1, CollectorUndisturbed DEF Commit
<1>9. NoDanglingReference'
  BY <1>3, <1>5 DEF CasInv, NoDanglingReference, Present, Commit
<1> QED
  BY <1>6, <1>7, <1>8, <1>9 DEF CasInv

\* A failed upload keeps its fences until the handler returns.
LEMMA UploadFailsCovered ==
    ASSUME CasInv, NEW u \in Records, UploadFails(u)
    PROVE  CasInv'
<1>1. Typed'
  BY DEF CasInv, Typed, TypeOK, UploadFails, Goes, bounds
<1>2. UploadsCovered'
  <2> SUFFICES ASSUME NEW w \in Records PROVE UploadCovered(w)'
    BY DEF UploadsCovered
  <2>1. CASE w = u
    BY <2>1 DEF CasInv, Typed, TypeOK, UploadsCovered, UploadFails, UploadCovered, Goes, bounds
  <2>2. CASE w # u
    BY <2>2, UploadUndisturbed DEF CasInv, Typed, TypeOK, UploadFails, Goes, Present, bounds
  <2> QED
    BY <2>1, <2>2
<1>3. CollectorCovered'
  BY CollectorUndisturbed DEF UploadFails, Referenced
<1>4. NoDanglingReference'
  BY ReferencesUndisturbed DEF UploadFails, Referenced, Present
<1> QED
  BY <1>1, <1>2, <1>3, <1>4 DEF CasInv

\* The releases give back the fences of this upload and no others.
LEMMA ReturnCovered ==
    ASSUME CasInv, NEW u \in Records, Return(u)
    PROVE  CasInv'
<1>1. Typed'
  BY CasAssumption DEF CasInv, Typed, TypeOK, Return, FencesReleased, Idle, bounds
<1>2. UploadsCovered'
  <2> SUFFICES ASSUME NEW w \in Records PROVE UploadCovered(w)'
    BY DEF UploadsCovered
  <2>1. CASE w = u
    BY <2>1 DEF CasInv, Typed, TypeOK, Return, UploadCovered, Idle
  <2>2. CASE w # u
    BY <2>2, UploadUndisturbed DEF CasInv, Typed, TypeOK, Return, FencesReleased, Present, bounds
  <2> QED
    BY <2>1, <2>2
<1>3. CollectorCovered'
  BY CollectorUndisturbed, CasAssumption DEF Return, FencesReleased, Referenced, Records
<1>4. NoDanglingReference'
  BY ReferencesUndisturbed DEF Return, Referenced, Present
<1> QED
  BY <1>1, <1>2, <1>3, <1>4 DEF CasInv

-----------------------------------------------------------------------------
(* The steps of the collector                                              *)

\* A pass begins with stale references, and covers nothing yet.
LEMMA GCBeginCovered ==
    ASSUME CasInv, GCBegin
    PROVE  CasInv'
<1>1. Typed'
  <2>1. gc' \in Passes
    BY HeldFacts DEF CasInv, Typed, Passes, GCBegin
  <2> QED
    BY <2>1 DEF CasInv, Typed, TypeOK, Passes, Held, GCBegin, bounds
<1>2. UploadsCovered'
  BY UploadUndisturbed DEF UploadsCovered, GCBegin, Present, bounds
<1>3. CollectorCovered'
  BY DEF CasInv, Typed, Passes, GCBegin, CollectorCovered
<1>4. NoDanglingReference'
  BY ReferencesUndisturbed DEF GCBegin, Referenced, Present
<1> QED
  BY <1>1, <1>2, <1>3, <1>4 DEF CasInv

\* The pass picks an object.
LEMMA GCNextCovered ==
    ASSUME CasInv, NEW d \in Digests, GCNext(d)
    PROVE  CasInv'
<1>1. Typed'
  BY DEF CasInv, Typed, TypeOK, Passes, Held, GCNext, bounds
<1>2. UploadsCovered'
  BY UploadUndisturbed DEF UploadsCovered, GCNext, Present, bounds
<1>3. CollectorCovered'
  BY DEF CasInv, Typed, Passes, GCNext, CollectorCovered
<1>4. NoDanglingReference'
  BY ReferencesUndisturbed DEF GCNext, Referenced, Present
<1> QED
  BY <1>1, <1>2, <1>3, <1>4 DEF CasInv

\* The pass takes a connection for the fence.
LEMMA GCTakesConnCovered ==
    ASSUME CasInv, GCTakesConn
    PROVE  CasInv'
<1>1. Typed'
  <2>1. gc' \in Passes
    BY HeldFacts DEF CasInv, Typed, Passes, GCTakesConn
  <2> QED
    BY <2>1 DEF CasInv, Typed, TypeOK, Passes, Held, GCTakesConn, bounds
<1>2. UploadsCovered'
  BY UploadUndisturbed DEF UploadsCovered, GCTakesConn, Present, bounds
<1>3. CollectorCovered'
  BY DEF CasInv, Typed, Passes, GCTakesConn, CollectorCovered
<1>4. NoDanglingReference'
  BY ReferencesUndisturbed DEF GCTakesConn, Referenced, Present
<1> QED
  BY <1>1, <1>2, <1>3, <1>4 DEF CasInv

\* The collector's fence was free, so no upload of the object is past its put.
LEMMA GCTakesFenceCovered ==
    ASSUME CasInv, GCTakesFence
    PROVE  CasInv'
<1>1. gc.item \in Digests
  BY DEF CasInv, CollectorCovered, GCTakesFence
<1>2. Typed'
  BY <1>1 DEF CasInv, Typed, TypeOK, Passes, Held, GCTakesFence, bounds
<1>3. UploadsCovered'
  BY <1>1, UploadUndisturbed, CasAssumption
     DEF CasInv, Typed, TypeOK, UploadsCovered, GCTakesFence, FenceFree, Present, bounds, Records
<1>4. CollectorCovered'
  BY <1>1 DEF CasInv, Typed, TypeOK, Passes, Held, GCTakesFence, CollectorCovered
<1>5. NoDanglingReference'
  BY ReferencesUndisturbed DEF GCTakesFence, Referenced, Present
<1> QED
  BY <1>2, <1>3, <1>4, <1>5 DEF CasInv

\* Giving the fence back and going on covers nothing and disturbs no upload, as
\* long as only objects the collector had fenced changed.
LEMMA MovedOn ==
    ASSUME CasInv, GCMovesOn, UNCHANGED <<record, up, bounds>>,
           \A d \in Digests : fence[d] # Collector => object'[d] = object[d],
           object' \in [Digests -> {"absent", "young", "old"}]
    PROVE  Typed' /\ UploadsCovered' /\ CollectorCovered'
<1>1. Typed'
  <2>1. gc' \in Passes
    BY HeldFacts DEF CasInv, Typed, Passes, GCMovesOn
  <2> QED
    BY <2>1 DEF CasInv, Typed, TypeOK, Passes, Held, GCMovesOn, FencesReleased, bounds
<1>2. UploadsCovered'
  BY UploadUndisturbed, CasAssumption
     DEF UploadsCovered, GCMovesOn, FencesReleased, Present, bounds, Records
<1>3. CollectorCovered'
  BY DEF CasInv, Typed, Passes, GCMovesOn, CollectorCovered
<1> QED
  BY <1>1, <1>2, <1>3

\* Under the fence the references are read again: an object that is referenced is
\* left, one that is not cannot become referenced while the fence is held
\* (runCASGC).
LEMMA GCRereadsCovered ==
    ASSUME CasInv, GCRereads
    PROVE  CasInv'
<1>1. NoDanglingReference'
  BY ReferencesUndisturbed DEF GCRereads, Referenced, Present
<1>2. CASE Referenced(gc.item)
  <2>1. GCMovesOn
    BY <1>2 DEF GCRereads
  <2> QED
    BY <1>1, <2>1, MovedOn DEF CasInv, Typed, TypeOK, GCRereads
<1>3. CASE ~ Referenced(gc.item)
  <2>1. gc' = [gc EXCEPT !.pc = "stat"] /\ UNCHANGED fence
    BY <1>3 DEF GCRereads
  <2>2. Typed'
    BY <2>1 DEF CasInv, Typed, TypeOK, Passes, Held, GCRereads, bounds
  <2>3. UploadsCovered'
    BY <2>1, UploadUndisturbed DEF UploadsCovered, GCRereads, Present, bounds
  <2>4. CollectorCovered'
    BY <1>3, <2>1 DEF CasInv, Typed, Passes, GCRereads, CollectorCovered, Referenced
  <2> QED
    BY <1>1, <2>2, <2>3, <2>4 DEF CasInv
<1> QED
  BY <1>2, <1>3

\* The second look at the age keeps the fence or gives it back.
LEMMA GCStatsCovered ==
    ASSUME CasInv, GCStats
    PROVE  CasInv'
<1>1. NoDanglingReference'
  BY ReferencesUndisturbed DEF GCStats, Referenced, Present
<1>2. CASE ~ (Present(gc.item) /\ gc.item \in gc.past)
  <2>1. GCMovesOn
    BY <1>2 DEF GCStats
  <2> QED
    BY <1>1, <2>1, MovedOn DEF CasInv, Typed, TypeOK, GCStats
<1>3. CASE Present(gc.item) /\ gc.item \in gc.past
  <2>1. gc' = [gc EXCEPT !.pc = "delete"] /\ UNCHANGED fence
    BY <1>3 DEF GCStats
  <2>2. Typed'
    BY <2>1 DEF CasInv, Typed, TypeOK, Passes, Held, GCStats, bounds
  <2>3. UploadsCovered'
    BY <2>1, UploadUndisturbed DEF UploadsCovered, GCStats, Present, bounds
  <2>4. CollectorCovered'
    BY <1>3, <2>1 DEF CasInv, Typed, Passes, GCStats, CollectorCovered, Referenced
  <2> QED
    BY <1>1, <2>2, <2>3, <2>4 DEF CasInv
<1> QED
  BY <1>2, <1>3

\* The object is deleted under its fence, unreferenced since the second look.
LEMMA GCDeletesCovered ==
    ASSUME CasInv, GCDeletes
    PROVE  CasInv'
<1>1. gc.item \in Digests /\ fence[gc.item] = Collector /\ ~ Referenced(gc.item)
  BY DEF CasInv, CollectorCovered, GCDeletes
<1>2. object' = [object EXCEPT ![gc.item] = "absent"] /\ UNCHANGED record
  BY DEF GCDeletes
<1>3. Typed' /\ UploadsCovered' /\ CollectorCovered'
  BY <1>1, <1>2, MovedOn DEF CasInv, Typed, TypeOK, GCDeletes
<1>4. NoDanglingReference'
  BY <1>1, <1>2 DEF CasInv, Typed, TypeOK, NoDanglingReference, Referenced, Present
<1> QED
  BY <1>3, <1>4 DEF CasInv

\* A pass that is done holds nothing.
LEMMA GCEndCovered ==
    ASSUME CasInv, GCEnd
    PROVE  CasInv'
<1>1. Typed'
  BY DEF CasInv, Typed, TypeOK, Passes, Held, GCEnd, Resting, bounds
<1>2. UploadsCovered'
  BY UploadUndisturbed DEF UploadsCovered, GCEnd, Present, bounds
<1>3. CollectorCovered'
  BY DEF GCEnd, Resting, CollectorCovered
<1>4. NoDanglingReference'
  BY ReferencesUndisturbed DEF GCEnd, Referenced, Present
<1> QED
  BY <1>1, <1>2, <1>3, <1>4 DEF CasInv

\* A pass that dies gives back its fence and covers nothing.
LEMMA GCAbortsCovered ==
    ASSUME CasInv, GCAborts
    PROVE  CasInv'
<1>1. Typed'
  BY CasAssumption DEF CasInv, Typed, TypeOK, Passes, Held, GCAborts, FencesReleased, Resting
<1>2. UploadsCovered'
  BY UploadUndisturbed, CasAssumption
     DEF UploadsCovered, GCAborts, FencesReleased, Present, Records
<1>3. CollectorCovered'
  BY DEF GCAborts, Resting, CollectorCovered
<1>4. NoDanglingReference'
  BY ReferencesUndisturbed DEF GCAborts, Referenced, Present
<1> QED
  BY <1>1, <1>2, <1>3, <1>4 DEF CasInv

-----------------------------------------------------------------------------
(* The environment, and the theorems                                       *)

\* A prune only takes references away.
LEMMA PruneManifestCovered ==
    ASSUME CasInv, NEW u \in Records, PruneManifest(u)
    PROVE  CasInv'
<1>1. \A d \in Digests : Referenced(d)' => Referenced(d)
  BY DEF CasInv, Typed, TypeOK, PruneManifest, Referenced
<1>2. Typed'
  BY CasAssumption DEF CasInv, Typed, TypeOK, PruneManifest
<1>3. UploadsCovered'
  BY UploadUndisturbed DEF UploadsCovered, PruneManifest, Present
<1>4. CollectorCovered'
  BY <1>1, CollectorUndisturbed DEF PruneManifest
<1>5. NoDanglingReference'
  BY <1>1, ReferencesUndisturbed DEF PruneManifest, Present
<1> QED
  BY <1>2, <1>3, <1>4, <1>5 DEF CasInv

\* An object that grows old is still there.
LEMMA AgeCovered ==
    ASSUME CasInv, NEW d \in Digests, Age(d)
    PROVE  CasInv'
<1>1. \A e \in Digests : Present(e) => Present(e)'
  BY DEF CasInv, Typed, TypeOK, Age, Present
<1>2. Typed'
  BY DEF CasInv, Typed, TypeOK, Age, bounds
<1>3. UploadsCovered'
  BY <1>1, UploadUndisturbed DEF UploadsCovered, Age, bounds
<1>4. CollectorCovered'
  BY CollectorUndisturbed DEF Age, Referenced
<1>5. NoDanglingReference'
  BY <1>1, ReferencesUndisturbed DEF Age, Referenced
<1> QED
  BY <1>2, <1>3, <1>4, <1>5 DEF CasInv

\* Every step of uploads, collector and environment keeps the invariant.
LEMMA NextCovered == CasInv /\ [Next]_vars => CasInv'
<1> SUFFICES ASSUME CasInv, [Next]_vars PROVE CasInv'
  OBVIOUS
<1>1. ASSUME NEW u \in Records, NEW d \in Payloads, BeginUpload(u, d) PROVE CasInv'
  BY <1>1, BeginUploadCovered
<1>2. ASSUME NEW u \in Records, UploadStep(u) PROVE CasInv'
  BY <1>2, TakeConnCovered, TakeFenceCovered, PutPayloadCovered, TakeSecondFenceCovered,
     PutEnvelopeCovered, CommitCovered, ReturnCovered DEF UploadStep
<1>3. ASSUME NEW u \in Records,
             SecondFenceTimesOut(u) \/ EnvelopeFails(u) \/ UploadFails(u) \/ PruneManifest(u)
      PROVE  CasInv'
  BY <1>3, SecondFenceTimesOutCovered, EnvelopeFailsCovered, UploadFailsCovered,
     PruneManifestCovered
<1>4. CASE GCStep
  BY <1>4, GCBeginCovered, GCNextCovered, GCTakesConnCovered, GCTakesFenceCovered,
     GCRereadsCovered, GCStatsCovered, GCDeletesCovered, GCEndCovered DEF GCStep
<1>5. CASE GCAborts
  BY <1>5, GCAbortsCovered
<1>6. ASSUME NEW d \in Digests, Age(d) PROVE CasInv'
  BY <1>6, AgeCovered
<1>7. CASE UNCHANGED vars
  <2>1. Typed'
    BY <1>7 DEF CasInv, Typed, TypeOK, Passes, Held, vars, bounds
  <2>2. UploadsCovered'
    BY <1>7, UploadUndisturbed DEF UploadsCovered, Present, vars, bounds
  <2>3. CollectorCovered'
    BY <1>7, CollectorUndisturbed DEF Referenced, vars
  <2>4. NoDanglingReference'
    BY <1>7, ReferencesUndisturbed DEF Referenced, Present, vars
  <2> QED
    BY <2>1, <2>2, <2>3, <2>4 DEF CasInv
<1> QED
  BY <1>1, <1>2, <1>3, <1>4, <1>5, <1>6, <1>7 DEF Next

\* CasInv is an invariant of the content-addressed store, for any number of
\* records, payloads, attempts, prunes and aborted passes and any pool size.
THEOREM CasInvariance == Spec => []CasInv
BY InitCovered, NextCovered, PTL DEF Spec

\* The type invariant of the store.
THEOREM TypeCorrect == Spec => []TypeOK
<1>1. CasInv => TypeOK
  BY DEF CasInv, Typed
<1> QED
  BY CasInvariance, <1>1, PTL

\* No durable record ever references an object that is not in the blob store,
\* however uploads, replays, prunes and the collector interleave: the digest fence
\* held across publication and commit (acquireDigestFence), and the second read of
\* the references under it (runCASGC), are enough together.
THEOREM ReferencesPresent == Spec => []NoDanglingReference
<1>1. CasInv => NoDanglingReference
  BY DEF CasInv
<1> QED
  BY CasInvariance, <1>1, PTL
=============================================================================
