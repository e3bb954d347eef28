---------------------------- MODULE OutboxProofs ----------------------------
(***************************************************************************)
(* The outbox keeps what it accepted until the forge shows it, makes one   *)
(* check run of a check, and never takes the forge back to an older        *)
(* version, except from one that was given up.                             *)
(***************************************************************************)
EXTENDS Outbox, TLAPS

\* Where a flush has an intent in hand.
Dispatching == {"fence", "publish", "map", "ack", "retry"}

\* A row has a content, and a dead letter was recorded as given up.
RowsFormed ==
    \A id \in Ids :
        /\ rows[id].state # "absent" => rows[id].content \in Contents
        /\ rows[id].state = "dead" => VersionOf(id) <= abandoned[KeyOf(id)]

\* Version v of check k was delivered or given up, or is not above what is pending.
Covered(k, v) ==
    \/ v <= watermark[k]
    \/ v <= abandoned[k]
    \/ \E w \in PendingVersions(k) : v <= w

\* What the forge shows is covered: a version guard that finds nothing newer pending or
\* delivered knows that nothing newer is shown, or that it was given up.
ShownCovered == \A k \in Checks : Covered(k, remote[k].version)

\* Flush f of replica r has an intent, holds the fence while it publishes and records
\* the id, and publishes nothing older than what is shown and was not given up.
FlushSafe(r, f) ==
    LET k == KeyOf(f.item.id)
        v == VersionOf(f.item.id)
    IN  /\ f.pc \in Dispatching => f.item \in Intents
        /\ f.pc \in {"publish", "map"} => fence[k] = r
        /\ f.pc = "publish" =>
               /\ Covered(k, v)
               /\ remote[k].version <= v \/ remote[k].version <= abandoned[k]

\* All flushes are safe in that sense.
FlushesSafe == \A r \in Replicas : FlushSafe(r, work[r])

\* A version of check k above v is in the table or was delivered.
Beyond(k, v) ==
    \/ \E w \in Versions : w > v /\ rows[<<k, w>>].state # "absent"
    \/ watermark[k] > v

\* A state of check k is owed that no flush and no other replica raced with.
Owes(k) == owed[k] # Nothing /\ k \notin raced
\* The id of the row of the owed state.
OwedId(k) == <<k, owed[k].version>>

\* Flush f carries the owed state with its own content, and acknowledges its row only
\* when a newer version was passed over to.
FlushFaithful(k, f) ==
    /\ \A t \in f.todo \cup {f.item} : t.id = OwedId(k) => t.content = owed[k].content
    /\ f.pc \in {"map", "ack"} /\ f.item.id = OwedId(k) => Beyond(k, owed[k].version)

\* The owed state of check k has its row, undelivered, or a newer version went beyond
\* it, and every copy of it says the same.
OwedSafe(k) ==
    /\ rows[OwedId(k)].state # "absent" => rows[OwedId(k)].content = owed[k].content
    /\ \/ rows[OwedId(k)].state # "absent" /\ watermark[k] < owed[k].version
       \/ Beyond(k, owed[k].version)
    /\ \A r \in Replicas : local[r][OwedId(k)] \in {NoContent, owed[k].content}
    /\ \A r \in Replicas : FlushFaithful(k, work[r])

\* All owed states are states of a check and safe.
AllOwedSafe ==
    \A k \in Checks :
        /\ owed[k] # Nothing => owed[k].version \in Versions /\ owed[k].content \in Contents
        /\ Owes(k) => OwedSafe(k)

\* The inductive invariant.  AcceptedStateKept needs what the flushes carry: a flush
\* that would acknowledge the row of an owed state it has not shown must have passed
\* it over for a newer version.  RemoteNeverRegresses needs ShownCovered and the
\* fence: the guard reads the table, and the forge is not in it.
OutboxInv ==
    TypeOK /\ OneCheckRun /\ RowsFormed /\ ShownCovered /\ FlushesSafe /\ AllOwedSafe

\* The rows keep their state and content.
RowsAlike ==
    \A id \in Ids : rows'[id].state = rows[id].state /\ rows'[id].content = rows[id].content

-----------------------------------------------------------------------------
(* Ids, versions, rows and flushes                                         *)

\* An id is a check and a version.
LEMMA IdFacts ==
    /\ \A id \in Ids : id = <<KeyOf(id), VersionOf(id)>> /\ KeyOf(id) \in Checks
                       /\ VersionOf(id) \in Versions /\ VersionOf(id) \in Nat
                       /\ VersionOf(id) \in 0..MaxVersion
    /\ \A k \in Checks, v \in Versions :
           <<k, v>> \in Ids /\ KeyOf(<<k, v>>) = k /\ VersionOf(<<k, v>>) = v
    /\ NoIntent \notin Intents
<1>1. \A v \in Versions : v \in Nat /\ v \in 0..MaxVersion
  BY OutboxAssumption DEF Versions
<1>2. NoIntent \notin Intents
  BY OutboxAssumption DEF NoIntent, Intents
<1> QED
  BY <1>1, <1>2 DEF Ids, KeyOf, VersionOf

\* Versions are numbers, and none is zero.
LEMMA VersionFacts ==
    /\ \A v \in Versions : v \in Nat /\ v \in 0..MaxVersion /\ v # 0
    /\ \A v \in 0..MaxVersion : v \in Nat
    /\ 0 \in 0..MaxVersion
BY OutboxAssumption DEF Versions

\* The higher of two versions.
LEMMA HigherFacts ==
    ASSUME NEW m \in 0..MaxVersion, NEW n \in 0..MaxVersion
    PROVE  Higher(m, n) \in 0..MaxVersion /\ m <= Higher(m, n) /\ n <= Higher(m, n)
BY DEF Higher

\* A missing row and a fresh one.
LEMMA AbsentFacts ==
    /\ Absent \in Row /\ Absent.state = "absent"
    /\ \A c \in Contents : Fresh(c) \in Row /\ Fresh(c).state = "pending" /\ Fresh(c).content = c
<1>1. 0 \in 0..MaxAttempts
  BY OutboxAssumption
<1>2. Absent \in Row /\ Absent.state = "absent"
  BY <1>1 DEF Absent, Row
<1>3. ASSUME NEW c \in Contents
      PROVE  Fresh(c) \in Row /\ Fresh(c).state = "pending" /\ Fresh(c).content = c
  <2>1. PICK row \in Row : row = Absent
    BY <1>2
  <2>2. Fresh(c) = [row EXCEPT !.state = "pending", !.content = c]
    BY <2>1 DEF Fresh
  <2> QED
    BY <2>2 DEF Row
<1> QED
  BY <1>2, <1>3

\* An idle flush, and the states of a check.
LEMMA FlushFacts ==
    /\ Idle \in Flush /\ Idle.pc = "idle" /\ Idle.todo = {} /\ Idle.item = NoIntent
    /\ Nothing \in CheckState /\ Nothing.version = 0
    /\ \A v \in Versions, c \in Contents :
           State(v, c) \in CheckState /\ State(v, c).version = v /\ State(v, c).content = c
           /\ State(v, c) # Nothing
<1>1. Idle \in Flush /\ Idle.pc = "idle" /\ Idle.todo = {} /\ Idle.item = NoIntent
  BY DEF Idle, Flush
<1>2. Nothing \in CheckState /\ Nothing.version = 0
  BY VersionFacts DEF Nothing, State, CheckState
<1>3. ASSUME NEW v \in Versions, NEW c \in Contents
      PROVE  State(v, c) \in CheckState /\ State(v, c).version = v /\ State(v, c).content = c
             /\ State(v, c) # Nothing
  BY <1>2, VersionFacts DEF State, CheckState
<1> QED
  BY <1>1, <1>2, <1>3

\* A flush that dispatches has an intent in hand.
LEMMA ItemFacts ==
    ASSUME OutboxInv, NEW r \in Replicas, work[r].pc \in Dispatching
    PROVE  /\ Item(r) \in Intents /\ Item(r).id \in Ids /\ Item(r).content \in Contents
           /\ Key(r) \in Checks /\ VersionOf(Item(r).id) \in Versions
           /\ Key(r) = KeyOf(Item(r).id) /\ Item(r).id = <<Key(r), VersionOf(Item(r).id)>>
<1>1. Item(r) \in Intents
  BY DEF OutboxInv, FlushesSafe, FlushSafe, Item
<1>2. Item(r).id \in Ids /\ Item(r).content \in Contents
  BY <1>1 DEF Intents
<1> QED
  BY <1>1, <1>2, IdFacts DEF Key

-----------------------------------------------------------------------------
(* What keeps the parts of the invariant                                   *)

\* A step keeps the flushes safe when it uncovers no version, and keeps the fence and
\* the remote state of every check a flush it does not move holds the fence of.
LEMMA FlushesKept ==
    ASSUME OutboxInv, work' \in [Replicas -> Flush],
           \A k \in Checks, v \in 0..MaxVersion : Covered(k, v) => Covered(k, v)',
           \A k \in Checks : abandoned'[k] \in Nat /\ abandoned[k] <= abandoned'[k],
           \A r \in Replicas :
               \/ FlushSafe(r, work[r])'
               \/ /\ work'[r] = work[r]
                  /\ \A k \in Checks : fence[k] = r => fence'[k] = r /\ remote'[k] = remote[k]
    PROVE  FlushesSafe'
<1> SUFFICES ASSUME NEW r \in Replicas,
                    work'[r] = work[r],
                    \A k \in Checks : fence[k] = r => fence'[k] = r /\ remote'[k] = remote[k]
             PROVE  FlushSafe(r, work[r])'
  BY DEF FlushesSafe
<1>1. FlushSafe(r, work[r])
  BY DEF OutboxInv, FlushesSafe
<1> DEFINE k == KeyOf(work[r].item.id)
           v == VersionOf(work[r].item.id)
<1>2. work[r].pc \in Dispatching => k \in Checks /\ v \in 0..MaxVersion
  BY ItemFacts, VersionFacts DEF Key, Item
<1>3. work[r].pc \in {"publish", "map"} => fence'[k] = r /\ remote'[k] = remote[k]
  BY <1>1, <1>2 DEF FlushSafe, Dispatching
<1>4. work[r].pc = "publish" =>
          /\ Covered(k, v)'
          /\ remote'[k].version <= v \/ remote'[k].version <= abandoned'[k]
  <2> SUFFICES ASSUME work[r].pc = "publish"
               PROVE  /\ Covered(k, v)'
                      /\ remote'[k].version <= v \/ remote'[k].version <= abandoned'[k]
    OBVIOUS
  <2>1. k \in Checks /\ v \in 0..MaxVersion
    BY <1>2 DEF Dispatching
  <2>2. k' = k /\ v' = v
    OBVIOUS
  <2>3. Covered(k, v)
    BY <1>1 DEF FlushSafe
  <2>4. remote[k].version <= v \/ remote[k].version <= abandoned[k]
    BY <1>1 DEF FlushSafe
  <2>5. abandoned[k] \in Nat /\ abandoned'[k] \in Nat /\ remote[k].version \in Nat
    BY <2>1, VersionFacts DEF OutboxInv, TypeOK, CheckState
  <2> QED
    BY <1>3, <2>1, <2>2, <2>3, <2>4, <2>5
<1> QED
  BY <1>1, <1>3, <1>4 DEF FlushSafe

\* An owed state stays safe when its row keeps its content, what was beyond it stays
\* beyond it, and the copies of it stay faithful.
LEMMA OwedStays ==
    ASSUME OutboxInv, NEW k \in Checks, Owes(k), owed'[k] = owed[k],
           LET id == OwedId(k)
               v == owed[k].version
               c == owed[k].content
           IN  /\ rows'[id].state # "absent" => rows'[id].content = c
               /\ Beyond(k, v) => Beyond(k, v)'
               /\ rows[id].state # "absent" /\ watermark[k] < v =>
                      (rows'[id].state # "absent" /\ watermark'[k] < v) \/ Beyond(k, v)'
               /\ \A r \in Replicas : local'[r][id] \in {NoContent, c}
               /\ \A r \in Replicas : work'[r] = work[r] \/ FlushFaithful(k, work[r])'
    PROVE  OwedSafe(k)'
<1>1. OwedSafe(k)
  BY DEF OutboxInv, AllOwedSafe
<1>2. OwedId(k)' = OwedId(k)
  BY DEF OwedId
<1>3. ASSUME NEW r \in Replicas PROVE FlushFaithful(k, work[r])'
  <2>1. CASE work'[r] = work[r]
    BY <1>1, <1>2, <2>1 DEF OwedSafe, FlushFaithful
  <2> QED
    BY <2>1
<1>4. \/ rows'[OwedId(k)].state # "absent" /\ watermark'[k] < owed[k].version
      \/ Beyond(k, owed[k].version)'
  BY <1>1 DEF OwedSafe
<1> QED
  BY <1>2, <1>3, <1>4 DEF OwedSafe

\* Versions stay covered, and passed over, when the rows keep state and content.
LEMMA AlikeFacts ==
    ASSUME RowsAlike, UNCHANGED <<watermark, abandoned>>, NEW k \in Checks
    PROVE  /\ PendingVersions(k)' = PendingVersions(k)
           /\ \A v : Covered(k, v)' <=> Covered(k, v)
           /\ \A v : Beyond(k, v)' <=> Beyond(k, v)
<1>1. \A v \in Versions : rows'[<<k, v>>].state = rows[<<k, v>>].state
  BY IdFacts DEF RowsAlike
<1>2. PendingVersions(k)' = PendingVersions(k)
  BY <1>1 DEF PendingVersions, Pending
<1>3. \A v : Covered(k, v)' <=> Covered(k, v)
  BY <1>2 DEF Covered
<1>4. \A v : Beyond(k, v)' <=> Beyond(k, v)
  BY <1>1 DEF Beyond
<1> QED
  BY <1>2, <1>3, <1>4

\* A step of one flush that changes claims only keeps the invariant when the flush it
\* leaves is safe and faithful.
LEMMA AlikeKept ==
    ASSUME OutboxInv, NEW r \in Replicas, NEW f \in Flush, work' = [work EXCEPT ![r] = f],
           RowsAlike, rows' \in [Ids -> Row],
           UNCHANGED <<watermark, forge, history>>, budget' \in 0..Budget,
           mapped' \in [Checks -> BOOLEAN], fence' \in [Checks -> Replicas \cup {NoReplica}],
           leader' \in Replicas, disruptions' \in 0..MaxDisruptions,
           local' \in [Replicas -> [Ids -> Contents \cup {NoContent}]],
           \A q \in Replicas \ {r} : \A k \in Checks : fence[k] = q => fence'[k] = q,
           FlushSafe(r, f)',
           \A k \in Checks : Owes(k) =>
               /\ FlushFaithful(k, f)
               /\ \A q \in Replicas : local'[q][OwedId(k)] \in {NoContent, owed[k].content}
    PROVE  OutboxInv'
<1>1. work' \in [Replicas -> Flush] /\ \A q \in Replicas : work'[q] = IF q = r THEN f ELSE work[q]
  BY DEF OutboxInv, TypeOK
<1>2. UNCHANGED <<remote, created, owed, raced, abandoned>>
  BY DEF forge, history
<1>3. TypeOK'
  BY <1>1, <1>2 DEF OutboxInv, TypeOK
<1>4. OneCheckRun'
  BY <1>2 DEF OutboxInv, OneCheckRun
<1>5. RowsFormed'
  BY <1>2 DEF OutboxInv, RowsFormed, RowsAlike
<1>6. ShownCovered'
  BY <1>2, AlikeFacts DEF OutboxInv, ShownCovered
<1>7. FlushesSafe'
  <2>1. \A k \in Checks : abandoned'[k] \in Nat /\ abandoned[k] <= abandoned'[k]
    BY <1>2, VersionFacts DEF OutboxInv, TypeOK
  <2>2. \A k \in Checks, v \in 0..MaxVersion : Covered(k, v) => Covered(k, v)'
    BY <1>2, AlikeFacts
  <2>3. ASSUME NEW q \in Replicas
        PROVE  \/ FlushSafe(q, work[q])'
               \/ /\ work'[q] = work[q]
                  /\ \A k \in Checks : fence[k] = q => fence'[k] = q /\ remote'[k] = remote[k]
    <3>1. CASE q = r
      <4>1. work'[q] = f
        BY <1>1, <3>1
      <4> QED
        BY <3>1, <4>1 DEF FlushSafe, Covered, PendingVersions, Pending
    <3>2. CASE q # r
      BY <1>1, <1>2, <3>2
    <3> QED
      BY <3>1, <3>2
  <2> QED
    BY <1>1, <2>1, <2>2, <2>3, FlushesKept
<1>8. AllOwedSafe'
  <2> SUFFICES ASSUME NEW k \in Checks
               PROVE  /\ owed'[k] # Nothing =>
                             owed'[k].version \in Versions /\ owed'[k].content \in Contents
                      /\ Owes(k)' => OwedSafe(k)'
    BY DEF AllOwedSafe
  <2>1. /\ owed[k] # Nothing => owed[k].version \in Versions /\ owed[k].content \in Contents
        /\ Owes(k)' => Owes(k)
    BY <1>2 DEF OutboxInv, AllOwedSafe, Owes
  <2>2. ASSUME Owes(k) PROVE OwedSafe(k)'
    <3>1. OwedSafe(k) /\ OwedId(k) \in Ids
      BY <2>1, <2>2, IdFacts DEF OutboxInv, AllOwedSafe, Owes, OwedId
    <3>2. /\ rows'[OwedId(k)].state = rows[OwedId(k)].state
          /\ rows'[OwedId(k)].content = rows[OwedId(k)].content
      BY <3>1 DEF RowsAlike
    <3>3. \A v : Beyond(k, v)' <=> Beyond(k, v)
      BY <1>2, AlikeFacts
    <3>4. ASSUME NEW q \in Replicas PROVE work'[q] = work[q] \/ FlushFaithful(k, work[q])'
      <4>1. CASE q = r
        <5>1. FlushFaithful(k, f) /\ work'[q] = f
          BY <1>1, <2>2, <4>1
        <5> QED
          BY <1>2, <3>3, <5>1 DEF FlushFaithful, OwedId
      <4>2. CASE q # r
        BY <1>1, <4>2
      <4> QED
        BY <4>1, <4>2
    <3>5. Beyond(k, owed[k].version) => Beyond(k, owed[k].version)'
      BY <1>2, <3>3
    <3> QED
      BY <1>2, <2>2, <3>1, <3>2, <3>4, <3>5, OwedStays DEF OwedSafe
  <2> QED
    BY <1>2, <2>1, <2>2
<1> QED
  BY <1>3, <1>4, <1>5, <1>6, <1>7, <1>8 DEF OutboxInv

-----------------------------------------------------------------------------
(* The version guard                                                       *)

\* The version guard implies that publishing is safe: the version is covered, and the
\* forge shows nothing newer that was not given up.
LEMMA GuardHolds ==
    ASSUME OutboxInv, NEW id \in Ids, OutboxVersionGuard(id)
    PROVE  LET k == KeyOf(id)
               v == VersionOf(id)
           IN  /\ Covered(k, v)
               /\ remote[k].version <= v \/ remote[k].version <= abandoned[k]
<1> DEFINE k == KeyOf(id)
           v == VersionOf(id)
<1>1. k \in Checks /\ v \in Versions /\ v \in Nat /\ id = <<k, v>>
  BY IdFacts
<1>2. /\ watermark[k] \in Nat /\ abandoned[k] \in Nat /\ remote[k].version \in Nat
      /\ remote[k].version \in 0..MaxVersion
  BY <1>1, VersionFacts DEF OutboxInv, TypeOK, CheckState
<1>3. /\ rows[id].state # "absent" /\ watermark[k] < v
      /\ \A w \in PendingVersions(k) : w <= v
  BY DEF OutboxVersionGuard
<1>4. Covered(k, v)
  <2>1. CASE rows[id].state = "pending"
    BY <1>1, <2>1 DEF Covered, PendingVersions, Pending
  <2>2. CASE rows[id].state = "dead"
    BY <2>2 DEF OutboxInv, RowsFormed, Covered
  <2> QED
    BY <1>3, <2>1, <2>2 DEF OutboxInv, TypeOK, Row
<1>5. remote[k].version <= v \/ remote[k].version <= abandoned[k]
  <2>1. Covered(k, remote[k].version)
    BY <1>1 DEF OutboxInv, ShownCovered
  <2>2. \A w \in PendingVersions(k) : w \in Nat
    BY VersionFacts DEF PendingVersions
  <2> HIDE DEF k, v
  <2> QED
    BY <1>1, <1>2, <1>3, <2>1, <2>2 DEF Covered
<1> QED
  BY <1>4, <1>5

\* The guard refuses the row of an owed state only for a newer version.
LEMMA GuardFails ==
    ASSUME OutboxInv, NEW k \in Checks, Owes(k), ~ OutboxVersionGuard(OwedId(k))
    PROVE  Beyond(k, owed[k].version)
<1>1. OwedSafe(k) /\ owed[k].version \in Versions
  BY DEF OutboxInv, AllOwedSafe, Owes
<1>2. /\ OwedId(k) \in Ids /\ KeyOf(OwedId(k)) = k
      /\ VersionOf(OwedId(k)) = owed[k].version
  BY <1>1, IdFacts DEF OwedId
<1>3. owed[k].version \in Nat /\ watermark[k] \in Nat
  BY <1>1, VersionFacts DEF OutboxInv, TypeOK
<1>4. ASSUME NEW w \in PendingVersions(k), ~ (w <= owed[k].version)
      PROVE  Beyond(k, owed[k].version)
  <2>1. w \in Versions /\ w > owed[k].version /\ rows[<<k, w>>].state = "pending"
    BY <1>3, <1>4, VersionFacts DEF PendingVersions, Pending
  <2> QED
    BY <2>1 DEF Beyond
<1> QED
  BY <1>1, <1>2, <1>3, <1>4 DEF OutboxVersionGuard, OwedSafe

\* A flush that moves on keeps its intent and the rest of its batch.
LEMMA FlushRecord ==
    ASSUME OutboxInv, NEW r \in Replicas,
           NEW pc \in {"idle", "next", "fence", "publish", "map", "ack", "retry", "sweep"}
    PROVE  LET f == [work[r] EXCEPT !.pc = pc]
           IN  /\ [work EXCEPT ![r].pc = pc] = [work EXCEPT ![r] = f]
               /\ f \in Flush /\ f.pc = pc
               /\ f.todo = work[r].todo /\ f.item = work[r].item
               /\ f.unacked = work[r].unacked
<1>1. work \in [Replicas -> Flush] /\ work[r] \in Flush
  BY DEF OutboxInv, TypeOK
<1> QED
  BY <1>1 DEF Flush

\* What the invariant says of an owed state.
LEMMA OwedHere ==
    ASSUME OutboxInv, NEW k \in Checks, Owes(k)
    PROVE  /\ OwedSafe(k)
           /\ owed[k].version \in Versions /\ owed[k].content \in Contents
           /\ OwedId(k) \in Ids /\ KeyOf(OwedId(k)) = k /\ VersionOf(OwedId(k)) = owed[k].version
           /\ OwedId(k) # <<>>
           /\ \A q \in Replicas :
                  /\ local[q][OwedId(k)] \in {NoContent, owed[k].content}
                  /\ FlushFaithful(k, work[q])
BY IdFacts DEF OutboxInv, AllOwedSafe, Owes, OwedId, OwedSafe

\* Rows that do not change are alike.
LEMMA SameRows ==
    ASSUME OutboxInv, UNCHANGED rows
    PROVE  RowsAlike /\ rows' \in [Ids -> Row]
BY DEF OutboxInv, TypeOK, RowsAlike

-----------------------------------------------------------------------------
(* Dispatching one intent                                                  *)

\* The first reading of the guard decides between the fence and the acknowledgement.
LEMMA BeginKept ==
    ASSUME OutboxInv, NEW r \in Replicas, Begin(r)
    PROVE  OutboxInv'
<1>1. PICK t \in work[r].todo :
          /\ work[r].pc = "next"
          /\ work' = [work EXCEPT ![r].pc = IF OutboxVersionGuard(t.id) THEN "fence" ELSE "ack",
                                  ![r].item = t, ![r].todo = @ \ {t}]
          /\ UNCHANGED <<fence, forge>>
          /\ FlushStep
  BY DEF Begin
<1>2. work \in [Replicas -> Flush] /\ work[r] \in Flush /\ t \in Intents
  BY DEF OutboxInv, TypeOK, Flush
<1>3. PICK f : f = [work[r] EXCEPT !.pc = IF OutboxVersionGuard(t.id) THEN "fence" ELSE "ack",
                                   !.item = t, !.todo = @ \ {t}]
  OBVIOUS
<1>4. /\ f \in Flush /\ f.item = t /\ f.todo = work[r].todo \ {t}
      /\ f.pc \in {"fence", "ack"} /\ (f.pc = "ack" => ~ OutboxVersionGuard(t.id))
  BY <1>2, <1>3 DEF Flush
<1>5. work' = [work EXCEPT ![r] = f]
  BY <1>1, <1>2, <1>3
<1>6. FlushSafe(r, f)'
  BY <1>2, <1>4 DEF FlushSafe
<1>7. ASSUME NEW k \in Checks, Owes(k) PROVE FlushFaithful(k, f)
  <2>1. FlushFaithful(k, work[r])
    BY <1>7, OwedHere
  <2>2. t.id = OwedId(k) /\ f.pc = "ack" => Beyond(k, owed[k].version)
    BY <1>4, <1>7, GuardFails
  <2> QED
    BY <1>4, <2>1, <2>2 DEF FlushFaithful
<1> QED
  BY <1>1, <1>4, <1>5, <1>6, <1>7, SameRows, OwedHere, AlikeKept
     DEF FlushStep, store, bounds, OutboxInv, TypeOK

\* The second reading, inside the fence: the guard makes the publication safe.
LEMMA FenceVersionedCheckKept ==
    ASSUME OutboxInv, NEW r \in Replicas, FenceVersionedCheck(r)
    PROVE  OutboxInv'
<1>1. /\ work[r].pc = "fence" /\ fence[Key(r)] = NoReplica
      /\ UNCHANGED <<rows, watermark, mapped, leader, local, forge, history, budget, disruptions>>
  BY DEF FenceVersionedCheck, FlushStep, store, bounds
<1>2. /\ Item(r) \in Intents /\ Item(r).id \in Ids /\ Key(r) \in Checks
      /\ Key(r) = KeyOf(Item(r).id)
  BY <1>1, ItemFacts DEF Dispatching
<1>3. CASE OutboxVersionGuard(Item(r).id)
  <2>1. PICK f : f = [work[r] EXCEPT !.pc = "publish"]
    OBVIOUS
  <2>2. /\ work' = [work EXCEPT ![r] = f] /\ f \in Flush /\ f.pc = "publish"
        /\ f.todo = work[r].todo /\ f.item = work[r].item
    BY <1>3, <2>1, FlushRecord DEF FenceVersionedCheck, Goto
  <2>3. /\ fence' = [fence EXCEPT ![Key(r)] = r]
        /\ fence' \in [Checks -> Replicas \cup {NoReplica}]
    BY <1>2, <1>3 DEF FenceVersionedCheck, OutboxInv, TypeOK
  <2>4. fence'[Key(r)] = r /\ \A k \in Checks : k # Key(r) => fence'[k] = fence[k]
    BY <1>2, <2>3 DEF OutboxInv, TypeOK
  <2>5. \A q \in Replicas \ {r} : \A k \in Checks : fence[k] = q => fence'[k] = q
    BY <1>1, <2>4, OutboxAssumption
  <2>6. FlushSafe(r, f)'
    <3>1. /\ Covered(Key(r), VersionOf(Item(r).id))
          /\ \/ remote[Key(r)].version <= VersionOf(Item(r).id)
             \/ remote[Key(r)].version <= abandoned[Key(r)]
      BY <1>2, <1>3, GuardHolds
    <3>3. Item(r) = f.item /\ Key(r) = KeyOf(f.item.id)
      BY <2>2 DEF Key, Item
    <3>4. UNCHANGED <<remote, abandoned>>
      BY <1>1 DEF forge, history
    <3>5. Covered(KeyOf(f.item.id), VersionOf(f.item.id))'
      <4>1. PICK k \in Checks : k = KeyOf(f.item.id)
        BY <1>2, <3>3
      <4>2. PICK v : v = VersionOf(f.item.id)
        OBVIOUS
      <4>3. Covered(k, v)' <=> Covered(k, v)
        BY <1>1, SameRows, AlikeFacts DEF history
      <4> QED
        BY <3>1, <3>3, <4>1, <4>2, <4>3
    <3> QED
      BY <1>2, <2>2, <2>4, <3>1, <3>3, <3>4, <3>5 DEF FlushSafe
  <2>7. ASSUME NEW k \in Checks, Owes(k) PROVE FlushFaithful(k, f)
    BY <2>2, <2>7, OwedHere DEF FlushFaithful
  <2> QED
    BY <1>1, <2>2, <2>3, <2>5, <2>6, <2>7, SameRows, OwedHere, AlikeKept DEF OutboxInv, TypeOK
<1>4. CASE ~ OutboxVersionGuard(Item(r).id)
  <2>1. PICK f : f = [work[r] EXCEPT !.pc = "ack"]
    OBVIOUS
  <2>2. /\ work' = [work EXCEPT ![r] = f] /\ f \in Flush /\ f.pc = "ack"
        /\ f.todo = work[r].todo /\ f.item = work[r].item
    BY <1>4, <2>1, FlushRecord DEF FenceVersionedCheck, Goto
  <2>3. UNCHANGED fence
    BY <1>4 DEF FenceVersionedCheck
  <2>4. FlushSafe(r, f)'
    BY <1>2, <2>2 DEF FlushSafe, Item
  <2>5. ASSUME NEW k \in Checks, Owes(k) PROVE FlushFaithful(k, f)
    BY <1>4, <2>2, <2>5, OwedHere, GuardFails DEF FlushFaithful, Item
  <2> QED
    BY <1>1, <2>2, <2>3, <2>4, <2>5, SameRows, OwedHere, AlikeKept DEF OutboxInv, TypeOK
<1> QED
  BY <1>3, <1>4

\* Releasing a fence takes nothing from another flush.
LEMMA FenceReleased ==
    ASSUME OutboxInv, NEW r \in Replicas, work[r].pc \in Dispatching, ReleaseFence(r)
    PROVE  /\ fence' \in [Checks -> Replicas \cup {NoReplica}]
           /\ \A q \in Replicas \ {r} : \A k \in Checks : fence[k] = q => fence'[k] = q
<1>1. Key(r) \in Checks /\ fence \in [Checks -> Replicas \cup {NoReplica}]
  BY ItemFacts DEF OutboxInv, TypeOK
<1> QED
  BY <1>1 DEF ReleaseFence

\* Recording the id of a check moves the flush on to the acknowledgement.
LEMMA PutCheckRunKept ==
    ASSUME OutboxInv, NEW r \in Replicas, PutCheckRun(r)
    PROVE  OutboxInv'
<1>1. work[r].pc = "map" /\ work[r].pc \in Dispatching /\ ReleaseFence(r)
  BY DEF PutCheckRun, Dispatching
<1>2. PICK f : f = [work[r] EXCEPT !.pc = "ack"]
  OBVIOUS
<1>3. /\ work' = [work EXCEPT ![r] = f] /\ f \in Flush /\ f.pc = "ack"
      /\ f.todo = work[r].todo /\ f.item = work[r].item
  BY <1>2, FlushRecord DEF PutCheckRun, Goto
<1>4. mapped' \in [Checks -> BOOLEAN]
  BY DEF PutCheckRun, OutboxInv, TypeOK
<1>5. FlushSafe(r, f)'
  BY <1>1, <1>3, ItemFacts DEF FlushSafe, Item
<1>6. ASSUME NEW k \in Checks, Owes(k) PROVE FlushFaithful(k, f)
  BY <1>1, <1>3, <1>6, OwedHere DEF FlushFaithful
<1> QED
  BY <1>1, <1>3, <1>4, <1>5, <1>6, FenceReleased, SameRows, OwedHere, AlikeKept
     DEF PutCheckRun, bounds, OutboxInv, TypeOK

\* A failed dispatch keeps its intent for the retry.
LEMMA DispatchFailsKept ==
    ASSUME OutboxInv, NEW r \in Replicas, DispatchFails(r)
    PROVE  OutboxInv'
<1>1. work[r].pc \in Dispatching /\ ReleaseFence(r)
  BY DEF DispatchFails, Dispatching
<1>2. PICK f : f = [work[r] EXCEPT !.pc = "retry"]
  OBVIOUS
<1>3. /\ work' = [work EXCEPT ![r] = f] /\ f \in Flush /\ f.pc = "retry"
      /\ f.todo = work[r].todo /\ f.item = work[r].item
  BY <1>2, FlushRecord DEF DispatchFails, Goto
<1>4. FlushSafe(r, f)'
  BY <1>1, <1>3, ItemFacts DEF FlushSafe, Item
<1>5. ASSUME NEW k \in Checks, Owes(k) PROVE FlushFaithful(k, f)
  BY <1>3, <1>5, OwedHere DEF FlushFaithful
<1> QED
  BY <1>1, <1>3, <1>4, <1>5, FenceReleased, SameRows, OwedHere, AlikeKept
     DEF DispatchFails, FlushStep, store, bounds, OutboxInv, TypeOK

-----------------------------------------------------------------------------
(* Claims, leaders and crashes                                             *)

\* Claims and their age leave the state and the content of a row alone.
LEMMA RowClaimed ==
    ASSUME NEW row \in Row, NEW who \in Replicas \cup {NoReplica}, NEW stale \in BOOLEAN
    PROVE  /\ LET new == [row EXCEPT !.claim = who, !.stale = stale]
              IN  new \in Row /\ new.state = row.state /\ new.content = row.content
           /\ LET new == [row EXCEPT !.stale = stale]
              IN  new \in Row /\ new.state = row.state /\ new.content = row.content
BY DEF Row

\* A claim takes the content of a row, or the resident copy of it.
LEMMA ClaimOutboxKept ==
    ASSUME OutboxInv, NEW r \in Replicas, NEW filtered \in BOOLEAN, NEW answered \in BOOLEAN,
           ClaimOutbox(r, filtered, answered)
    PROVE  OutboxInv'
<1> DEFINE claimed == {id \in Ids : Claimable(id)}
           copy == [id \in Ids |->
                       IF id \in claimed /\ local[r][id] = NoContent
                       THEN rows[id].content ELSE local[r][id]]
           todo == IF filtered THEN {} ELSE {Intent(id, copy[id]) : id \in claimed}
<1>1. rows \in [Ids -> Row] /\ local \in [Replicas -> [Ids -> Contents \cup {NoContent}]]
  BY DEF OutboxInv, TypeOK
<1>2. RowsAlike /\ rows' \in [Ids -> Row]
  <2>1. rows' = [id \in Ids |-> IF id \in claimed
                                THEN [rows[id] EXCEPT !.claim = r, !.stale = FALSE]
                                ELSE rows[id]]
    BY DEF ClaimOutbox
  <2>2. ASSUME NEW id \in Ids
        PROVE  /\ rows'[id] \in Row /\ rows'[id].state = rows[id].state
               /\ rows'[id].content = rows[id].content
    <3>1. rows[id] \in Row
      BY <1>1
    <3>2. PICK new \in Row : /\ new = [rows[id] EXCEPT !.claim = r, !.stale = FALSE]
                             /\ new.state = rows[id].state /\ new.content = rows[id].content
      BY <3>1, RowClaimed
    <3>3. rows'[id] = new \/ rows'[id] = rows[id]
      BY <2>1, <3>2
    <3> QED
      BY <3>1, <3>2, <3>3
  <2> QED
    BY <2>1, <2>2 DEF RowsAlike
<1>3. \A id \in claimed : rows[id].state = "pending" /\ rows[id].content \in Contents
  BY DEF Claimable, Pending, OutboxInv, RowsFormed
<1>4. copy \in [Ids -> Contents \cup {NoContent}] /\ \A id \in claimed : copy[id] \in Contents
  BY <1>1, <1>3
<1>5. todo \subseteq Intents
  BY <1>4 DEF Intent, Intents
<1>6. UNCHANGED <<watermark, mapped, fence, leader, forge, history, budget, disruptions>>
  BY DEF ClaimOutbox, bounds
<1>7. CASE answered
  <2>1. PICK f : f = [pc |-> IF filtered THEN "sweep" ELSE "next", todo |-> todo,
                      unacked |-> claimed, item |-> NoIntent]
    OBVIOUS
  <2>2. f \in Flush /\ f.pc \in {"sweep", "next"} /\ f.todo = todo /\ f.item = NoIntent
    <3>1. claimed \subseteq Ids
      OBVIOUS
    <3> HIDE DEF claimed, todo
    <3> QED
      BY <1>5, <2>1, <3>1 DEF Flush
  <2>3. work' = [work EXCEPT ![r] = f] /\ local' = [local EXCEPT ![r] = copy]
    BY <1>7, <2>1 DEF ClaimOutbox
  <2>4. FlushSafe(r, f)'
    BY <2>2 DEF FlushSafe, Dispatching
  <2>5. ASSUME NEW k \in Checks, Owes(k)
        PROVE  /\ FlushFaithful(k, f)
               /\ \A q \in Replicas : local'[q][OwedId(k)] \in {NoContent, owed[k].content}
    <3>1. /\ OwedId(k) \in Ids /\ OwedId(k) # <<>> /\ OwedSafe(k)
          /\ \A q \in Replicas : local[q][OwedId(k)] \in {NoContent, owed[k].content}
      BY <2>5, OwedHere
    <3>2. OwedId(k) \in claimed => copy[OwedId(k)] = owed[k].content
      BY <1>3, <3>1 DEF OwedSafe
    <3>3. copy[OwedId(k)] \in {NoContent, owed[k].content}
      BY <3>1, <3>2
    <3>4. \A t \in todo : t.id = OwedId(k) => t.content = owed[k].content
      BY <3>2 DEF Intent
    <3>5. FlushFaithful(k, f)
      <4>1. NoIntent.id = <<>>
        BY DEF NoIntent
      <4> HIDE DEF todo
      <4> QED
        BY <2>2, <3>1, <3>4, <4>1 DEF FlushFaithful
    <3>6. ASSUME NEW q \in Replicas PROVE local'[q] = IF q = r THEN copy ELSE local[q]
      BY <1>1, <2>3
    <3> QED
      BY <3>1, <3>3, <3>5, <3>6
  <2>6. local' \in [Replicas -> [Ids -> Contents \cup {NoContent}]]
    BY <1>1, <1>4, <2>3
  <2> QED
    BY <1>2, <1>6, <2>2, <2>3, <2>4, <2>5, <2>6, AlikeKept DEF OutboxInv, TypeOK
<1>8. CASE ~ answered
  <2>1. UNCHANGED <<local, work>>
    BY <1>8 DEF ClaimOutbox
  <2>2. work[r] \in Flush /\ work' = [work EXCEPT ![r] = work[r]]
    BY <2>1 DEF OutboxInv, TypeOK
  <2>3. work[r].pc = "idle"
    BY DEF ClaimOutbox
  <2>4. PICK f : f = work[r]
    OBVIOUS
  <2>5. FlushSafe(r, f)'
    BY <2>3, <2>4 DEF FlushSafe, Dispatching
  <2> QED
    BY <1>2, <1>6, <2>1, <2>2, <2>4, <2>5, OwedHere, AlikeKept DEF OutboxInv, TypeOK
<1> QED
  BY <1>7, <1>8

\* A step that leaves the flushes alone and changes at most the claims of rows.
LEMMA FlushesStay ==
    ASSUME OutboxInv, RowsAlike, rows' \in [Ids -> Row], leader' \in Replicas,
           disruptions' \in 0..MaxDisruptions, budget' \in 0..Budget,
           UNCHANGED <<watermark, mapped, fence, local, work, forge, history>>
    PROVE  OutboxInv'
<1>1. FirstLeader \in Replicas
  BY OutboxAssumption
<1>2. PICK f : f = work[FirstLeader]
  OBVIOUS
<1>3. f \in Flush /\ work' = [work EXCEPT ![FirstLeader] = f]
  BY <1>1, <1>2 DEF OutboxInv, TypeOK
<1>4. FlushSafe(FirstLeader, f)
  BY <1>1, <1>2 DEF OutboxInv, FlushesSafe
<1>5. FlushSafe(FirstLeader, f)'
  <2>1. f.pc = "publish" => KeyOf(f.item.id) \in Checks
    BY <1>1, <1>2, ItemFacts DEF Key, Item, Dispatching
  <2>2. f.pc = "publish" => Covered(KeyOf(f.item.id), VersionOf(f.item.id))'
    <3> SUFFICES ASSUME f.pc = "publish"
                 PROVE  Covered(KeyOf(f.item.id), VersionOf(f.item.id))'
      OBVIOUS
    <3>1. PICK k \in Checks : k = KeyOf(f.item.id)
      BY <2>1
    <3>2. PICK v : v = VersionOf(f.item.id)
      OBVIOUS
    <3>3. Covered(k, v)' <=> Covered(k, v)
      BY AlikeFacts DEF history
    <3> QED
      BY <1>4, <3>1, <3>2, <3>3 DEF FlushSafe
  <2> QED
    BY <1>4, <2>2 DEF FlushSafe, forge, history
<1> QED
  BY <1>1, <1>2, <1>3, <1>5, OwedHere, AlikeKept DEF OutboxInv, TypeOK

\* A claim grows old.
LEMMA ClaimExpiresKept ==
    ASSUME OutboxInv, NEW id \in Ids, ClaimExpires(id)
    PROVE  OutboxInv'
<1>1. rows \in [Ids -> Row] /\ rows[id] \in Row
  BY DEF OutboxInv, TypeOK
<1>2. rows' = [rows EXCEPT ![id] = [rows[id] EXCEPT !.stale = TRUE]]
  BY <1>1 DEF ClaimExpires
<1>3. RowsAlike /\ rows' \in [Ids -> Row]
  <2>1. PICK new \in Row : /\ new = [rows[id] EXCEPT !.stale = TRUE]
                           /\ new.state = rows[id].state /\ new.content = rows[id].content
    BY <1>1, RowClaimed
  <2> QED
    BY <1>1, <1>2, <2>1 DEF RowsAlike
<1> QED
  BY <1>3, FlushesStay DEF ClaimExpires, bounds, OutboxInv, TypeOK

\* Another replica leads.
LEMMA LeaderChangesKept ==
    ASSUME OutboxInv, NEW r \in Replicas, LeaderChanges(r)
    PROVE  OutboxInv'
<1>1. disruptions' \in 0..MaxDisruptions
  BY OutboxAssumption DEF LeaderChanges, OutboxInv, TypeOK
<1> QED
  BY <1>1, SameRows, FlushesStay DEF LeaderChanges, store, OutboxInv, TypeOK

\* The sweep of a batch drops claims.
LEMMA ReleaseOutboxClaimsKept ==
    ASSUME OutboxInv, NEW r \in Replicas, NEW succeeds \in BOOLEAN,
           ReleaseOutboxClaims(r, succeeds)
    PROVE  OutboxInv'
<1>1. rows \in [Ids -> Row]
  BY DEF OutboxInv, TypeOK
<1>2. RowsAlike /\ rows' \in [Ids -> Row]
  <2>1. rows' = [id \in Ids |-> IF succeeds /\ id \in Released(r)
                                THEN [rows[id] EXCEPT !.claim = NoReplica, !.stale = FALSE]
                                ELSE rows[id]]
    BY DEF ReleaseOutboxClaims
  <2>2. ASSUME NEW id \in Ids
        PROVE  /\ rows'[id] \in Row /\ rows'[id].state = rows[id].state
               /\ rows'[id].content = rows[id].content
    <3>1. rows[id] \in Row
      BY <1>1
    <3>2. PICK new \in Row : /\ new = [rows[id] EXCEPT !.claim = NoReplica, !.stale = FALSE]
                             /\ new.state = rows[id].state /\ new.content = rows[id].content
      BY <3>1, RowClaimed
    <3>3. rows'[id] = new \/ rows'[id] = rows[id]
      BY <2>1, <3>2
    <3> QED
      BY <3>1, <3>2, <3>3
  <2> QED
    BY <2>1, <2>2 DEF RowsAlike
<1>3. work' = [work EXCEPT ![r] = Idle]
  BY DEF ReleaseOutboxClaims
<1>4. PICK f : f = Idle
  OBVIOUS
<1>5. FlushSafe(r, f)'
  BY <1>4, FlushFacts DEF FlushSafe, Dispatching
<1>6. ASSUME NEW k \in Checks, Owes(k) PROVE FlushFaithful(k, f)
  <2>1. OwedId(k) # NoIntent.id
    BY <1>6, OwedHere DEF NoIntent
  <2> QED
    BY <1>4, <2>1, FlushFacts DEF FlushFaithful
<1> QED
  BY <1>2, <1>3, <1>4, <1>5, <1>6, FlushFacts, OwedHere, AlikeKept
     DEF ReleaseOutboxClaims, bounds, OutboxInv, TypeOK

\* A crash drops copies, a flush and its fences.
LEMMA CrashKept ==
    ASSUME OutboxInv, NEW r \in Replicas, Crash(r)
    PROVE  OutboxInv'
<1>1. disruptions' \in 0..MaxDisruptions
  BY OutboxAssumption DEF Crash, OutboxInv, TypeOK
<1>2. /\ fence' \in [Checks -> Replicas \cup {NoReplica}]
      /\ \A q \in Replicas \ {r} : \A k \in Checks : fence[k] = q => fence'[k] = q
  BY DEF Crash, OutboxInv, TypeOK
<1>3. /\ local' \in [Replicas -> [Ids -> Contents \cup {NoContent}]]
      /\ \A q \in Replicas : \A id \in Ids : local'[q][id] \in {NoContent, local[q][id]}
  BY DEF Crash, OutboxInv, TypeOK
<1>4. PICK f : f = Idle
  OBVIOUS
<1>5. FlushSafe(r, f)'
  BY <1>4, FlushFacts DEF FlushSafe, Dispatching
<1>6. ASSUME NEW k \in Checks, Owes(k)
      PROVE  /\ FlushFaithful(k, f)
             /\ \A q \in Replicas : local'[q][OwedId(k)] \in {NoContent, owed[k].content}
  <2>1. OwedId(k) # NoIntent.id
    BY <1>6, OwedHere DEF NoIntent
  <2>2. FlushFaithful(k, f)
    BY <1>4, <2>1, FlushFacts DEF FlushFaithful
  <2> QED
    BY <1>3, <1>6, <2>2, OwedHere
<1> QED
  BY <1>1, <1>2, <1>3, <1>4, <1>5, <1>6, FlushFacts, SameRows, AlikeKept
     DEF Crash, store, OutboxInv, TypeOK

-----------------------------------------------------------------------------
(* Steps that change the table                                             *)

\* A version stays covered when each pending version stays pending, is below one that
\* is, was delivered or was given up.
LEMMA CoveredStays ==
    ASSUME OutboxInv, TypeOK',
           \A k \in Checks : watermark[k] <= watermark'[k] /\ abandoned[k] <= abandoned'[k],
           \A k \in Checks : \A w \in PendingVersions(k) :
               \/ w <= watermark'[k]
               \/ w <= abandoned'[k]
               \/ \E u \in PendingVersions(k)' : w <= u
    PROVE  \A k \in Checks, v \in 0..MaxVersion : Covered(k, v) => Covered(k, v)'
<1> SUFFICES ASSUME NEW k \in Checks, NEW v \in 0..MaxVersion, Covered(k, v)
             PROVE  Covered(k, v)'
  OBVIOUS
<1>1. /\ watermark[k] \in Nat /\ watermark'[k] \in Nat
      /\ abandoned[k] \in Nat /\ abandoned'[k] \in Nat /\ v \in Nat
  BY VersionFacts DEF OutboxInv, TypeOK
<1>2. ASSUME NEW w \in PendingVersions(k), v <= w PROVE Covered(k, v)'
  <2>1. w \in Nat /\ \A u \in PendingVersions(k)' : u \in Nat
    BY VersionFacts DEF PendingVersions
  <2> QED
    BY <1>1, <1>2, <2>1 DEF Covered
<1> QED
  BY <1>1, <1>2 DEF Covered

\* A step that changes rows, watermarks or history, and takes a flush out of its
\* dispatch, keeps the invariant when it keeps the named parts.
LEMMA StoreKept ==
    ASSUME OutboxInv, TypeOK', RowsFormed', AllOwedSafe',
           UNCHANGED <<fence, remote, created>>,
           NEW r \in Replicas, NEW f \in Flush, work' = [work EXCEPT ![r] = f],
           f.pc \notin Dispatching \/ f = work[r],
           \A k \in Checks : watermark[k] <= watermark'[k] /\ abandoned[k] <= abandoned'[k],
           \A k \in Checks : \A w \in PendingVersions(k) :
               \/ w <= watermark'[k]
               \/ w <= abandoned'[k]
               \/ \E u \in PendingVersions(k)' : w <= u
    PROVE  OutboxInv'
<1>1. work' \in [Replicas -> Flush] /\ \A q \in Replicas : work'[q] = IF q = r THEN f ELSE work[q]
  BY DEF OutboxInv, TypeOK
<1>2. \A k \in Checks, v \in 0..MaxVersion : Covered(k, v) => Covered(k, v)'
  BY CoveredStays
<1>3. ShownCovered'
  <2>1. \A k \in Checks : remote[k].version \in 0..MaxVersion
    BY DEF OutboxInv, TypeOK, CheckState
  <2>2. ASSUME NEW k \in Checks PROVE Covered(k, remote[k].version)'
    <3>1. PICK v \in 0..MaxVersion : v = remote[k].version
      BY <2>1
    <3>2. Covered(k, v) /\ v = remote'[k].version
      BY <3>1 DEF OutboxInv, ShownCovered
    <3>3. Covered(k, v)'
      BY <1>2, <3>2
    <3> QED
      BY <3>2, <3>3
  <2> QED
    BY <2>2 DEF ShownCovered
<1>4. FlushesSafe'
  <2>1. \A k \in Checks : abandoned'[k] \in Nat
    BY VersionFacts DEF TypeOK
  <2>2. ASSUME NEW q \in Replicas
        PROVE  FlushSafe(q, work[q])' \/ work'[q] = work[q]
    <3>1. CASE q = r /\ f.pc \notin Dispatching
      BY <1>1, <3>1 DEF FlushSafe, Dispatching
    <3> QED
      BY <1>1, <3>1
  <2> QED
    BY <1>1, <1>2, <2>1, <2>2, FlushesKept
<1>5. OneCheckRun'
  BY DEF OutboxInv, OneCheckRun
<1> QED
  BY <1>3, <1>4, <1>5 DEF OutboxInv

\* The owed states are safe when those that remain are.
LEMMA OwedAgree ==
    ASSUME OutboxInv,
           \A k \in Checks :
               \/ owed'[k] = Nothing
               \/ owed'[k] = owed[k] /\ (Owes(k) /\ Owes(k)' => OwedSafe(k)'),
           UNCHANGED raced
    PROVE  AllOwedSafe'
<1> SUFFICES ASSUME NEW k \in Checks, owed'[k] = owed[k],
                    Owes(k) /\ Owes(k)' => OwedSafe(k)'
             PROVE  /\ owed'[k] # Nothing =>
                           owed'[k].version \in Versions /\ owed'[k].content \in Contents
                    /\ Owes(k)' => OwedSafe(k)'
  BY DEF AllOwedSafe, Owes
<1>1. owed[k] # Nothing => owed[k].version \in Versions /\ owed[k].content \in Contents
  BY DEF OutboxInv, AllOwedSafe
<1>2. Owes(k)' <=> Owes(k)
  BY DEF Owes
<1> QED
  BY <1>1, <1>2

-----------------------------------------------------------------------------
(* The start, and the rest of the steps                                    *)

\* At the start nothing is owed or shown.
LEMMA InitKept == Init => OutboxInv
<1> SUFFICES ASSUME Init PROVE OutboxInv
  OBVIOUS
<1>1. TypeOK
  BY OutboxAssumption, AbsentFacts, FlushFacts, VersionFacts DEF Init, TypeOK
<1>2. OneCheckRun
  BY DEF Init, OneCheckRun
<1>3. RowsFormed
  BY AbsentFacts DEF Init, RowsFormed
<1>4. ShownCovered
  <2>1. \A k \in Checks : remote[k].version = 0 /\ watermark[k] = 0
    BY FlushFacts DEF Init
  <2> QED
    BY <2>1 DEF ShownCovered, Covered
<1>5. FlushesSafe
  BY FlushFacts DEF Init, FlushesSafe, FlushSafe, Dispatching
<1>6. AllOwedSafe
  BY DEF Init, AllOwedSafe, Owes
<1> QED
  BY <1>1, <1>2, <1>3, <1>4, <1>5, <1>6 DEF OutboxInv

\* A publication settles the owed state, or is of another version of the check; the
\* fence keeps every other flush from publishing the check at the same time.
LEMMA PublishCheckRunKept ==
    ASSUME OutboxInv, NEW r \in Replicas, NEW answered \in BOOLEAN,
           PublishCheckRun(r, answered)
    PROVE  OutboxInv'
<1> DEFINE K == Key(r)
           V == VersionOf(Item(r).id)
<1>1. /\ work[r].pc = "publish" /\ work[r].pc \in Dispatching
      /\ remote' = [remote EXCEPT ![K] = ItemState(r)]
      /\ created' = [created EXCEPT ![K] = CheckRunsAfter(K)]
      /\ owed' = [owed EXCEPT ![K] = IF @ = ItemState(r) THEN Nothing ELSE @]
      /\ UNCHANGED <<rows, watermark, mapped, leader, local, raced, abandoned, budget,
                     disruptions>>
  BY DEF PublishCheckRun, Dispatching, store, bounds
<1>2. /\ Item(r) \in Intents /\ Item(r).id \in Ids /\ Item(r).content \in Contents
      /\ K \in Checks /\ V \in Versions /\ K = KeyOf(Item(r).id) /\ Item(r).id = <<K, V>>
  BY <1>1, ItemFacts
<1>3. ItemState(r) \in CheckState /\ ItemState(r).version = V
  BY <1>2, FlushFacts DEF ItemState
<1>4. fence[K] = r /\ Covered(K, V)
  <2>1. FlushSafe(r, work[r])
    BY DEF OutboxInv, FlushesSafe
  <2> QED
    BY <1>1, <2>1 DEF FlushSafe, Key, Item
<1>5. PICK pc \in {"map", "ack", "retry"} :
          /\ Goto(r, pc)
          /\ IF pc = "map" THEN UNCHANGED fence ELSE ReleaseFence(r)
  BY DEF PublishCheckRun
<1>6. PICK f : f = [work[r] EXCEPT !.pc = pc]
  OBVIOUS
<1>7. /\ work' = [work EXCEPT ![r] = f] /\ f \in Flush /\ f.pc = pc
      /\ f.todo = work[r].todo /\ f.item = work[r].item
  <2>1. pc \in {"idle", "next", "fence", "publish", "map", "ack", "retry", "sweep"}
    OBVIOUS
  <2>2. work' = [work EXCEPT ![r].pc = pc]
    BY <1>5 DEF Goto
  <2> QED
    BY <1>6, <2>1, <2>2, FlushRecord
<1>8. work' \in [Replicas -> Flush] /\ \A q \in Replicas : work'[q] = IF q = r THEN f ELSE work[q]
  BY <1>7 DEF OutboxInv, TypeOK
<1>9. /\ fence' \in [Checks -> Replicas \cup {NoReplica}]
      /\ \A q \in Replicas \ {r} : \A k \in Checks : fence[k] = q => fence'[k] = q
      /\ pc = "map" => fence'[K] = r
  BY <1>1, <1>4, <1>5, FenceReleased DEF OutboxInv, TypeOK
<1>10. CheckRunsAfter(K) \in Nat /\ CheckRunsAfter(K) <= 1
  BY <1>2 DEF CheckRunsAfter, OutboxInv, TypeOK, OneCheckRun
<1>11. \A k \in Checks : /\ remote'[k] = IF k = K THEN ItemState(r) ELSE remote[k]
                         /\ created'[k] = IF k = K THEN CheckRunsAfter(K) ELSE created[k]
                         /\ owed'[k] = IF k = K /\ owed[K] = ItemState(r)
                                       THEN Nothing ELSE owed[k]
  BY <1>1, <1>2 DEF OutboxInv, TypeOK
<1> HIDE DEF K, V
<1>12. TypeOK'
  <2>1. remote' \in [Checks -> CheckState] /\ created' \in [Checks -> Nat]
    BY <1>1, <1>2, <1>3, <1>10 DEF OutboxInv, TypeOK
  <2>2. owed' \in [Checks -> CheckState]
    BY <1>1, <1>11, FlushFacts DEF OutboxInv, TypeOK
  <2> QED
    BY <1>1, <1>8, <1>9, <2>1, <2>2 DEF OutboxInv, TypeOK
<1>13. OneCheckRun'
  BY <1>10, <1>11 DEF OutboxInv, OneCheckRun
<1>14. RowsFormed'
  BY <1>1 DEF OutboxInv, RowsFormed
<1>15. ASSUME NEW k \in Checks PROVE \A v : Covered(k, v)' <=> Covered(k, v)
  BY <1>1, SameRows, AlikeFacts
<1>16. ShownCovered'
  <2>1. ASSUME NEW k \in Checks PROVE Covered(k, remote[k].version)'
    <3>1. PICK v : v = remote'[k].version
      OBVIOUS
    <3>2. Covered(k, v)
      BY <1>3, <1>4, <1>11, <3>1 DEF OutboxInv, ShownCovered
    <3>3. Covered(k, v)'
      BY <1>15, <3>2
    <3> QED
      BY <3>1, <3>3
  <2> QED
    BY <2>1 DEF ShownCovered
<1>17. FlushesSafe'
  <2>1. \A k \in Checks : abandoned'[k] \in Nat /\ abandoned[k] <= abandoned'[k]
    BY <1>1, VersionFacts DEF OutboxInv, TypeOK
  <2>2. ASSUME NEW q \in Replicas
        PROVE  \/ FlushSafe(q, work[q])'
               \/ /\ work'[q] = work[q]
                  /\ \A k \in Checks : fence[k] = q => fence'[k] = q /\ remote'[k] = remote[k]
    <3>1. CASE q = r
      <4>1. work'[q] = f /\ f.item \in Intents /\ KeyOf(f.item.id) = K
        BY <1>2, <1>7, <1>8, <3>1 DEF Item
      <4> QED
        BY <1>5, <1>7, <1>9, <3>1, <4>1 DEF FlushSafe
    <3>2. CASE q # r
      BY <1>4, <1>8, <1>9, <1>11, <3>2
    <3> QED
      BY <3>1, <3>2
  <2> QED
    BY <1>8, <1>15, <2>1, <2>2, FlushesKept
<1>18. AllOwedSafe'
  <2>1. ASSUME NEW k \in Checks, owed'[k] = owed[k], owed'[k] # Nothing, Owes(k)
        PROVE  OwedSafe(k)'
    <3>1. /\ OwedSafe(k) /\ OwedId(k)' = OwedId(k)
          /\ OwedId(k) = <<k, owed[k].version>>
          /\ \A q \in Replicas : local[q][OwedId(k)] \in {NoContent, owed[k].content}
      BY <2>1, OwedHere DEF OwedId
    <3>2. Item(r).id # OwedId(k)
      <4> SUFFICES ASSUME Item(r).id = OwedId(k) PROVE FALSE
        OBVIOUS
      <4>1. k = K /\ owed[k].version = V
        <5>1. <<K, V>> = <<k, owed[k].version>>
          BY <1>2, <3>1
        <5> QED
          BY <5>1
      <4>2. Item(r).content = owed[k].content
        BY <2>1, OwedHere DEF FlushFaithful, Item
      <4>3. owed[k] = State(owed[k].version, owed[k].content)
        BY DEF OutboxInv, TypeOK, CheckState, State
      <4>4. owed[k] = ItemState(r)
        BY <4>1, <4>2, <4>3 DEF ItemState, V
      <4> QED
        BY <1>11, <2>1, <4>1, <4>4
    <3>3. \A v : Beyond(k, v)' <=> Beyond(k, v)
      BY <1>1, SameRows, AlikeFacts
    <3>4. ASSUME NEW q \in Replicas PROVE work'[q] = work[q] \/ FlushFaithful(k, work[q])'
      <4>1. CASE q = r
        <5>1. FlushFaithful(k, work[r]) /\ work'[q] = f /\ f.item.id # OwedId(k)
          BY <1>7, <1>8, <2>1, <3>2, <4>1, OwedHere DEF Item
        <5> QED
          BY <1>7, <2>1, <3>1, <5>1 DEF FlushFaithful
      <4> QED
        BY <1>8, <4>1
    <3> QED
      BY <1>1, <2>1, <3>1, <3>3, <3>4, OwedStays DEF OwedSafe
  <2>2. \A k \in Checks : owed'[k] = Nothing \/ owed'[k] = owed[k]
    BY <1>11
  <2> QED
    BY <1>1, <2>1, <2>2, OwedAgree DEF Owes
<1> QED
  BY <1>12, <1>13, <1>14, <1>16, <1>17, <1>18 DEF OutboxInv

\* An acknowledgement deletes the row and raises the watermark: the row of an owed
\* state is only deleted when a newer version was passed over to.
LEMMA OutboxAckKept ==
    ASSUME OutboxInv, NEW r \in Replicas, NEW committed \in BOOLEAN, NEW answered \in BOOLEAN,
           OutboxAck(r, committed, answered)
    PROVE  OutboxInv'
<1>1. /\ work[r].pc = "ack" /\ work[r].pc \in Dispatching
      /\ UNCHANGED <<mapped, fence, leader, remote, created, owed, raced, abandoned, budget,
                     disruptions>>
  BY DEF OutboxAck, Dispatching, forge, history, bounds
<1>2. PICK id \in Ids : id = Item(r).id
  BY <1>1, ItemFacts
<1>3. /\ KeyOf(id) \in Checks /\ VersionOf(id) \in Versions /\ VersionOf(id) \in Nat
      /\ VersionOf(id) \in 0..MaxVersion /\ id = <<KeyOf(id), VersionOf(id)>>
  BY IdFacts
<1>4. PICK f \in Flush :
          /\ work' = [work EXCEPT ![r] = f] /\ f.pc \in {"next", "sweep"}
          /\ f.todo = work[r].todo /\ f.item \in {NoIntent, work[r].item}
  <2>1. CASE answered
    <3>1. PICK f : f = [work[r] EXCEPT !.pc = "next", !.item = NoIntent,
                                       !.unacked = @ \ {id}]
      OBVIOUS
    <3>2. work \in [Replicas -> Flush] /\ work[r] \in Flush
      BY DEF OutboxInv, TypeOK
    <3>3. /\ f \in Flush /\ f.pc = "next" /\ f.todo = work[r].todo /\ f.item = NoIntent
      BY <3>1, <3>2 DEF Flush
    <3>4. work' = [work EXCEPT ![r] = f]
      BY <1>2, <2>1, <3>1, <3>2 DEF OutboxAck, FinishedAcked
    <3> QED
      BY <3>3, <3>4
  <2>2. CASE ~ answered
    <3>1. work' = [work EXCEPT ![r].pc = "sweep"]
      BY <2>2 DEF OutboxAck, Goto
    <3> QED
      BY <3>1, FlushRecord
  <2> QED
    BY <2>1, <2>2
<1>5. /\ local' \in [Replicas -> [Ids -> Contents \cup {NoContent}]]
      /\ \A q \in Replicas : \A i \in Ids : local'[q][i] \in {NoContent, local[q][i]}
  <2>1. local \in [Replicas -> [Ids -> Contents \cup {NoContent}]]
    BY DEF OutboxInv, TypeOK
  <2>2. local' = local \/ local' = [local EXCEPT ![r][id] = NoContent]
    BY <1>2 DEF OutboxAck
  <2> QED
    BY <2>1, <2>2
<1>6. ASSUME NEW k \in Checks, Owes(k) PROVE FlushFaithful(k, f)
  <2>1. OwedId(k) # NoIntent.id /\ FlushFaithful(k, work[r])
    BY <1>6, OwedHere DEF NoIntent
  <2> QED
    BY <1>4, <2>1 DEF FlushFaithful
<1>7. CASE ~ committed
  <2>1. UNCHANGED <<rows, watermark>>
    BY <1>7 DEF OutboxAck
  <2>2. FlushSafe(r, f)'
    BY <1>4 DEF FlushSafe, Dispatching
  <2>3. UNCHANGED <<watermark, forge, history>> /\ budget' \in 0..Budget
        /\ mapped' \in [Checks -> BOOLEAN] /\ fence' \in [Checks -> Replicas \cup {NoReplica}]
        /\ leader' \in Replicas /\ disruptions' \in 0..MaxDisruptions
    BY <1>1, <2>1 DEF forge, history, OutboxInv, TypeOK
  <2>4. ASSUME NEW k \in Checks, Owes(k)
        PROVE  \A q \in Replicas : local'[q][OwedId(k)] \in {NoContent, owed[k].content}
    BY <1>5, <2>4, OwedHere
  <2> QED
    BY <1>1, <1>4, <1>5, <1>6, <2>1, <2>2, <2>3, <2>4, SameRows, AlikeKept
<1>8. CASE committed
  <2>1. rows' = [rows EXCEPT ![id] = Absent] /\ watermark' = WatermarkAfter(id)
    BY <1>2, <1>8 DEF OutboxAck
  <2>2. /\ rows' \in [Ids -> Row] /\ rows'[id] = Absent
        /\ \A i \in Ids : i # id => rows'[i] = rows[i]
    BY <2>1, AbsentFacts DEF OutboxInv, TypeOK
  <2>3. /\ watermark' \in [Checks -> 0..MaxVersion]
        /\ \A k \in Checks :
               watermark'[k] = IF k = KeyOf(id) /\ rows[id].state # "absent"
                               THEN Higher(watermark[k], VersionOf(id)) ELSE watermark[k]
    BY <1>3, <2>1, HigherFacts DEF WatermarkAfter, OutboxInv, TypeOK
  <2>4. /\ \A k \in Checks : /\ watermark[k] \in Nat /\ watermark'[k] \in Nat
                             /\ watermark[k] <= watermark'[k]
        /\ rows[id].state # "absent" => VersionOf(id) <= watermark'[KeyOf(id)]
    <3>1. \A k \in Checks : watermark[k] \in 0..MaxVersion /\ watermark[k] \in Nat
      BY VersionFacts DEF OutboxInv, TypeOK
    <3>2. PICK h \in 0..MaxVersion :
              /\ h = Higher(watermark[KeyOf(id)], VersionOf(id))
              /\ watermark[KeyOf(id)] <= h /\ VersionOf(id) <= h
      BY <1>3, <3>1, HigherFacts
    <3> QED
      BY <1>3, <2>3, <3>1, <3>2, VersionFacts
  <2>5. TypeOK'
    <3>1. work' \in [Replicas -> Flush]
      BY <1>4 DEF OutboxInv, TypeOK
    <3> QED
      BY <1>1, <1>5, <2>2, <2>3, <3>1 DEF OutboxInv, TypeOK
  <2>6. RowsFormed'
    BY <1>1, <2>2, AbsentFacts DEF OutboxInv, RowsFormed
  <2>7. ASSUME NEW k \in Checks, NEW w \in PendingVersions(k)
        PROVE  w <= watermark'[k] \/ \E u \in PendingVersions(k)' : w <= u
    <3>1. w \in Versions /\ w \in Nat /\ <<k, w>> \in Ids /\ rows[<<k, w>>].state = "pending"
      BY IdFacts, VersionFacts DEF PendingVersions, Pending
    <3>2. CASE <<k, w>> = id
      <4>1. KeyOf(id) = k /\ VersionOf(id) = w
        BY <3>1, <3>2, IdFacts
      <4> QED
        BY <2>4, <3>1, <3>2, <4>1
    <3>3. CASE <<k, w>> # id
      <4>1. w \in PendingVersions(k)'
        BY <2>2, <3>1, <3>3 DEF PendingVersions, Pending
      <4> QED
        BY <3>1, <4>1
    <3> QED
      BY <3>2, <3>3
  <2>8. ASSUME NEW k \in Checks, NEW v \in Nat, Beyond(k, v) PROVE Beyond(k, v)'
    <3>1. CASE watermark[k] > v
      BY <2>4, <3>1 DEF Beyond
    <3>2. ASSUME NEW w \in Versions, w > v, rows[<<k, w>>].state # "absent"
          PROVE  Beyond(k, v)'
      <4>1. <<k, w>> \in Ids /\ w \in Nat
        BY IdFacts, VersionFacts
      <4>2. CASE <<k, w>> = id
        <5>1. KeyOf(id) = k /\ VersionOf(id) = w
          BY <4>2, IdFacts
        <5> QED
          BY <2>4, <3>2, <4>1, <4>2, <5>1 DEF Beyond
      <4>3. CASE <<k, w>> # id
        BY <2>2, <3>2, <4>1, <4>3 DEF Beyond
      <4> QED
        BY <4>2, <4>3
    <3> QED
      BY <2>8, <3>1, <3>2 DEF Beyond
  <2>9. AllOwedSafe'
    <3>1. ASSUME NEW k \in Checks, Owes(k) PROVE OwedSafe(k)'
      <4>0. PICK v : v = owed[k].version
        OBVIOUS
      <4>1. /\ OwedSafe(k) /\ v \in Versions /\ v \in Nat /\ OwedId(k) \in Ids
            /\ KeyOf(OwedId(k)) = k /\ VersionOf(OwedId(k)) = v
        BY <3>1, <4>0, OwedHere, VersionFacts
      <4>2. rows'[OwedId(k)].state # "absent" => rows'[OwedId(k)].content = owed[k].content
        BY <2>2, <4>1, AbsentFacts DEF OwedSafe
      <4>3. Beyond(k, v) => Beyond(k, v)'
        BY <2>8, <4>1
      <4>4. ASSUME rows[OwedId(k)].state # "absent", watermark[k] < v
            PROVE  (rows'[OwedId(k)].state # "absent" /\ watermark'[k] < v) \/ Beyond(k, v)'
        <5>1. CASE OwedId(k) = id
          <6>1. Beyond(k, v)
            BY <1>1, <1>2, <3>1, <4>0, <5>1, OwedHere DEF FlushFaithful, Item
          <6> QED
            BY <4>3, <6>1
        <5>2. CASE OwedId(k) # id
          <6>1. rows'[OwedId(k)].state # "absent"
            BY <2>2, <4>1, <4>4, <5>2
          <6>2. KeyOf(id) = k => VersionOf(id) # v
            BY <1>3, <4>0, <5>2 DEF OwedId
          <6>3. watermark'[k] < v \/ watermark'[k] > v
            BY <1>3, <2>3, <2>4, <4>1, <4>4, <6>2 DEF Higher
          <6> QED
            BY <6>1, <6>3 DEF Beyond
        <5> QED
          BY <5>1, <5>2
      <4>5. \A q \in Replicas : local'[q][OwedId(k)] \in {NoContent, owed[k].content}
        BY <1>5, <3>1, OwedHere
      <4>6. ASSUME NEW q \in Replicas PROVE work'[q] = work[q] \/ FlushFaithful(k, work[q])'
        <5>1. CASE q = r
          <6>1. work'[q] = f /\ FlushFaithful(k, f)
            BY <1>4, <1>6, <3>1, <5>1 DEF OutboxInv, TypeOK
          <6> QED
            BY <1>1, <1>4, <6>1 DEF FlushFaithful, OwedId
        <5> QED
          BY <1>4, <5>1 DEF OutboxInv, TypeOK
      <4> QED
        BY <1>1, <3>1, <4>0, <4>2, <4>3, <4>4, <4>5, <4>6, OwedStays
    <3> QED
      BY <1>1, <3>1, OwedAgree
  <2>10. \A k \in Checks : abandoned[k] <= abandoned'[k]
    BY <1>1, VersionFacts DEF OutboxInv, TypeOK
  <2>11. f.pc \notin Dispatching
    BY <1>4 DEF Dispatching
  <2> QED
    BY <1>1, <1>4, <2>4, <2>5, <2>6, <2>7, <2>9, <2>10, <2>11, StoreKept
<1> QED
  BY <1>7, <1>8

\* A counted attempt changes the state of a row only to make it a dead letter.
LEMMA RowRetried ==
    ASSUME NEW row \in Row, NEW dies \in BOOLEAN
    PROVE  \E new \in Row :
               /\ new = [row EXCEPT !.attempts = IF @ < MaxAttempts THEN @ + 1 ELSE @,
                                    !.claim = NoReplica, !.stale = FALSE,
                                    !.state = IF dies THEN "dead" ELSE @]
               /\ new.content = row.content
               /\ new.state = IF dies THEN "dead" ELSE row.state
<1>1. /\ row.attempts \in 0..MaxAttempts
      /\ (IF row.attempts < MaxAttempts THEN row.attempts + 1 ELSE row.attempts) \in 0..MaxAttempts
  BY OutboxAssumption DEF Row
<1>2. PICK n \in 0..MaxAttempts :
          n = IF row.attempts < MaxAttempts THEN row.attempts + 1 ELSE row.attempts
  BY <1>1
<1>3. PICK s : s = IF dies THEN "dead" ELSE row.state
  OBVIOUS
<1>4. s \in {"absent", "pending", "dead"}
  BY <1>3 DEF Row
<1>5. [row EXCEPT !.attempts = n, !.claim = NoReplica, !.stale = FALSE, !.state = s] \in Row
  BY <1>2, <1>4 DEF Row
<1>6. PICK new \in Row :
          new = [row EXCEPT !.attempts = n, !.claim = NoReplica, !.stale = FALSE, !.state = s]
  BY <1>5
<1>7. new.content = row.content /\ new.state = s
  BY <1>6 DEF Row
<1>8. new = [row EXCEPT !.attempts = IF @ < MaxAttempts THEN @ + 1 ELSE @,
                        !.claim = NoReplica, !.stale = FALSE,
                        !.state = IF dies THEN "dead" ELSE @]
  BY <1>2, <1>3, <1>6
<1> QED
  BY <1>3, <1>7, <1>8

\* A retry keeps the row; a row it dead-letters is recorded as given up.
LEMMA OutboxRetryClaimedKept ==
    ASSUME OutboxInv, NEW r \in Replicas, NEW recorded \in BOOLEAN,
           OutboxRetryClaimed(r, recorded)
    PROVE  OutboxInv'
<1>1. /\ work[r].pc = "retry" /\ work[r].pc \in Dispatching
      /\ UNCHANGED <<watermark, mapped, fence, leader, remote, created, owed, raced, budget,
                     disruptions>>
  BY DEF OutboxRetryClaimed, Dispatching, forge, bounds
<1>2. PICK id \in Ids : id = Item(r).id
  BY <1>1, ItemFacts
<1>3. /\ KeyOf(id) \in Checks /\ VersionOf(id) \in Versions /\ VersionOf(id) \in Nat
      /\ VersionOf(id) \in 0..MaxVersion /\ id = <<KeyOf(id), VersionOf(id)>>
  BY IdFacts
<1>4. PICK f \in Flush :
          /\ work' = [work EXCEPT ![r] = f] /\ f.pc = "next"
          /\ f.todo = work[r].todo /\ f.item = NoIntent
  <2>1. PICK f : f = [work[r] EXCEPT !.pc = "next", !.item = NoIntent]
    OBVIOUS
  <2>2. work \in [Replicas -> Flush] /\ work[r] \in Flush
    BY DEF OutboxInv, TypeOK
  <2>3. f \in Flush /\ f.pc = "next" /\ f.todo = work[r].todo /\ f.item = NoIntent
    BY <2>1, <2>2 DEF Flush
  <2>4. work' = [work EXCEPT ![r] = f]
    BY <2>1, <2>2 DEF OutboxRetryClaimed, Finished
  <2> QED
    BY <2>3, <2>4
<1>5. /\ local' \in [Replicas -> [Ids -> Contents \cup {NoContent}]]
      /\ \A q \in Replicas : \A i \in Ids : local'[q][i] \in {NoContent, local[q][i]}
  BY <1>2 DEF OutboxRetryClaimed, OutboxInv, TypeOK
<1>6. PICK dies \in BOOLEAN : dies <=> LastAttempt(id)
  OBVIOUS
<1>7. rows \in [Ids -> Row] /\ rows[id] \in Row
  BY DEF OutboxInv, TypeOK
<1>8. PICK new \in Row :
          /\ new = [rows[id] EXCEPT !.attempts = IF @ < MaxAttempts THEN @ + 1 ELSE @,
                                    !.claim = NoReplica, !.stale = FALSE,
                                    !.state = IF dies THEN "dead" ELSE @]
          /\ new.content = rows[id].content
          /\ new.state = IF dies THEN "dead" ELSE rows[id].state
  BY <1>7, RowRetried
<1>9. \/ UNCHANGED <<rows, abandoned>>
      \/ /\ rows[id].state # "absent" /\ rows' = [rows EXCEPT ![id] = new]
         /\ abandoned' = IF dies
                         THEN [abandoned EXCEPT ![KeyOf(id)] = Higher(@, VersionOf(id))]
                         ELSE abandoned
  BY <1>2, <1>6, <1>8 DEF OutboxRetryClaimed
<1>10. /\ abandoned' \in [Checks -> 0..MaxVersion]
       /\ \A k \in Checks : /\ abandoned[k] \in Nat /\ abandoned'[k] \in Nat
                            /\ abandoned[k] <= abandoned'[k]
       /\ dies /\ rows' # rows => VersionOf(id) <= abandoned'[KeyOf(id)]
  <2>1. abandoned \in [Checks -> 0..MaxVersion]
    BY DEF OutboxInv, TypeOK
  <2>2. \A k \in Checks : abandoned[k] \in 0..MaxVersion /\ abandoned[k] \in Nat
    BY <2>1, VersionFacts
  <2>3. PICK h \in 0..MaxVersion : /\ h = Higher(abandoned[KeyOf(id)], VersionOf(id))
                                   /\ abandoned[KeyOf(id)] <= h /\ VersionOf(id) <= h
    BY <1>3, <2>2, HigherFacts
  <2>4. CASE abandoned' = abandoned /\ ~ (dies /\ rows' # rows)
    BY <2>1, <2>2, <2>4
  <2>5. CASE abandoned' = [abandoned EXCEPT ![KeyOf(id)] = h]
    BY <1>3, <2>1, <2>2, <2>3, <2>5, VersionFacts
  <2> QED
    BY <1>9, <2>3, <2>4, <2>5
<1>11. /\ rows' \in [Ids -> Row]
       /\ \A i \in Ids :
              /\ rows'[i].content = rows[i].content
              /\ rows'[i].state = "absent" <=> rows[i].state = "absent"
              /\ \/ rows'[i].state = rows[i].state
                 \/ rows'[i].state = "dead" /\ VersionOf(i) <= abandoned'[KeyOf(i)]
  <2>1. CASE rows' = rows
    BY <1>7, <2>1
  <2>2. CASE rows' # rows
    <3>1. rows[id].state # "absent" /\ rows' = [rows EXCEPT ![id] = new]
      BY <1>9, <2>2
    <3>2. rows' \in [Ids -> Row] /\ rows'[id] = new /\ \A i \in Ids : i # id => rows'[i] = rows[i]
      BY <1>7, <3>1
    <3>3. /\ new.content = rows[id].content /\ new.state # "absent"
          /\ \/ new.state = rows[id].state
             \/ new.state = "dead" /\ VersionOf(id) <= abandoned'[KeyOf(id)]
      BY <1>8, <1>10, <2>2, <3>1
    <3> QED
      BY <3>1, <3>2, <3>3
  <2> QED
    BY <2>1, <2>2
<1>12. TypeOK'
  <2>1. work' \in [Replicas -> Flush]
    BY <1>4 DEF OutboxInv, TypeOK
  <2> QED
    BY <1>1, <1>5, <1>10, <1>11, <2>1 DEF OutboxInv, TypeOK
<1>13. RowsFormed'
  <2> SUFFICES ASSUME NEW i \in Ids
               PROVE  /\ rows'[i].state # "absent" => rows'[i].content \in Contents
                      /\ rows'[i].state = "dead" => VersionOf(i) <= abandoned'[KeyOf(i)]
    BY DEF RowsFormed
  <2>1. /\ rows[i].state # "absent" => rows[i].content \in Contents
        /\ rows[i].state = "dead" => VersionOf(i) <= abandoned[KeyOf(i)]
    BY DEF OutboxInv, RowsFormed
  <2>2. KeyOf(i) \in Checks /\ VersionOf(i) \in Nat
    BY IdFacts
  <2> QED
    BY <1>10, <1>11, <2>1, <2>2
<1>14. ASSUME NEW k \in Checks, NEW w \in PendingVersions(k)
       PROVE  w <= abandoned'[k] \/ \E u \in PendingVersions(k)' : w <= u
  <2>1. /\ w \in Versions /\ w \in Nat /\ <<k, w>> \in Ids /\ rows[<<k, w>>].state = "pending"
        /\ KeyOf(<<k, w>>) = k /\ VersionOf(<<k, w>>) = w
    BY IdFacts, VersionFacts DEF PendingVersions, Pending
  <2>2. w <= abandoned'[k] \/ rows'[<<k, w>>].state = "pending"
    BY <1>11, <2>1
  <2>3. rows'[<<k, w>>].state = "pending" => w \in PendingVersions(k)'
    BY <2>1 DEF PendingVersions, Pending
  <2> QED
    BY <2>1, <2>2, <2>3
<1>15. AllOwedSafe'
  <2>1. ASSUME NEW k \in Checks, Owes(k) PROVE OwedSafe(k)'
    <3>1. OwedSafe(k) /\ OwedId(k) \in Ids /\ OwedId(k) # NoIntent.id
      BY <2>1, OwedHere DEF NoIntent
    <3>2. /\ rows'[OwedId(k)].content = rows[OwedId(k)].content
          /\ rows'[OwedId(k)].state = "absent" <=> rows[OwedId(k)].state = "absent"
      BY <1>11, <3>1
    <3>3. Beyond(k, owed[k].version)' <=> Beyond(k, owed[k].version)
      BY <1>1, <1>11, IdFacts DEF Beyond
    <3>4. \A q \in Replicas : local'[q][OwedId(k)] \in {NoContent, owed[k].content}
      BY <1>5, <2>1, OwedHere
    <3>5. ASSUME NEW q \in Replicas PROVE work'[q] = work[q] \/ FlushFaithful(k, work[q])'
      <4>1. CASE q = r
        <5>1. work'[q] = f /\ FlushFaithful(k, work[r]) /\ OwedId(k)' = OwedId(k)
          BY <1>1, <1>4, <2>1, <4>1, OwedHere DEF OutboxInv, TypeOK, OwedId
        <5> QED
          BY <1>1, <1>4, <3>1, <5>1 DEF FlushFaithful
      <4> QED
        BY <1>4, <4>1 DEF OutboxInv, TypeOK
    <3> QED
      BY <1>1, <2>1, <3>1, <3>2, <3>3, <3>4, <3>5, OwedStays DEF OwedSafe
  <2> QED
    BY <1>1, <2>1, OwedAgree
<1>16. \A k \in Checks : watermark[k] <= watermark'[k]
  BY <1>1, VersionFacts DEF OutboxInv, TypeOK
<1>17. f.pc \notin Dispatching
  BY <1>4 DEF Dispatching
<1> QED
  BY <1>1, <1>4, <1>10, <1>12, <1>13, <1>14, <1>15, <1>16, <1>17, StoreKept

\* No flush moves.
LEMMA SameFlushes ==
    ASSUME OutboxInv, UNCHANGED work
    PROVE  \E r \in Replicas : \E f \in Flush : work' = [work EXCEPT ![r] = f] /\ f = work[r]
<1>1. FirstLeader \in Replicas /\ work[FirstLeader] \in Flush
  BY OutboxAssumption DEF OutboxInv, TypeOK
<1>2. work' = [work EXCEPT ![FirstLeader] = work[FirstLeader]]
  BY <1>1 DEF OutboxInv, TypeOK
<1> QED
  BY <1>1, <1>2

\* A requeue makes a dead letter pending again.
LEMMA OutboxRequeueKept ==
    ASSUME OutboxInv, NEW id \in Ids, OutboxRequeue(id)
    PROVE  OutboxInv'
<1>1. /\ rows[id].state = "dead" /\ budget > 0 /\ budget' = budget - 1
      /\ rows' = [rows EXCEPT ![id] = Fresh(rows[id].content)]
      /\ UNCHANGED <<watermark, mapped, fence, leader, local, work, remote, created, owed, raced,
                     abandoned, disruptions>>
  BY DEF OutboxRequeue, OutboxInv, TypeOK, forge, history
<1>2. rows[id].content \in Contents
  BY <1>1 DEF OutboxInv, RowsFormed
<1>3. PICK new \in Row : /\ new = Fresh(rows[id].content) /\ new.state = "pending"
                         /\ new.content = rows[id].content
  BY <1>2, AbsentFacts
<1>4. /\ rows' \in [Ids -> Row] /\ rows'[id] = new
      /\ \A i \in Ids : i # id => rows'[i] = rows[i]
  BY <1>1, <1>3 DEF OutboxInv, TypeOK
<1>5. \A i \in Ids : /\ rows'[i].content = rows[i].content
                     /\ rows'[i].state = "absent" <=> rows[i].state = "absent"
                     /\ rows'[i].state = rows[i].state \/ rows'[i].state = "pending"
  BY <1>1, <1>3, <1>4
<1>6. TypeOK'
  <2>1. budget' \in 0..Budget
    BY <1>1, OutboxAssumption DEF OutboxInv, TypeOK
  <2> QED
    BY <1>1, <1>4, <2>1 DEF OutboxInv, TypeOK
<1>7. RowsFormed'
  BY <1>1, <1>5 DEF OutboxInv, RowsFormed
<1>8. ASSUME NEW k \in Checks, NEW w \in PendingVersions(k)
      PROVE  \E u \in PendingVersions(k)' : w <= u
  <2>1. /\ w \in Versions /\ w \in Nat /\ <<k, w>> \in Ids /\ rows[<<k, w>>].state = "pending"
    BY IdFacts, VersionFacts DEF PendingVersions, Pending
  <2>2. w \in PendingVersions(k)'
    BY <1>5, <2>1 DEF PendingVersions, Pending
  <2> QED
    BY <2>1, <2>2
<1>9. AllOwedSafe'
  <2>1. ASSUME NEW k \in Checks, Owes(k) PROVE OwedSafe(k)'
    <3>1. OwedSafe(k) /\ OwedId(k) \in Ids
      BY <2>1, OwedHere
    <3>2. Beyond(k, owed[k].version)' <=> Beyond(k, owed[k].version)
      BY <1>1, <1>5, IdFacts DEF Beyond
    <3> QED
      BY <1>1, <1>5, <2>1, <3>1, <3>2, OwedStays DEF OwedSafe
  <2> QED
    BY <1>1, <2>1, OwedAgree
<1>10. \A k \in Checks : watermark[k] <= watermark'[k] /\ abandoned[k] <= abandoned'[k]
  BY <1>1, VersionFacts DEF OutboxInv, TypeOK
<1> QED
  BY <1>1, <1>6, <1>7, <1>8, <1>9, <1>10, SameFlushes, StoreKept

\* The operator's deletion gives up the owed states it stood for.
LEMMA OutboxDeleteKept ==
    ASSUME OutboxInv, NEW id \in Ids, OutboxDelete(id)
    PROVE  OutboxInv'
<1>1. /\ rows[id].state = "dead" /\ rows' = [rows EXCEPT ![id] = Absent]
      /\ owed' = [owed EXCEPT ![KeyOf(id)] =
                     IF owed[KeyOf(id)].version <= VersionOf(id) THEN Nothing
                     ELSE owed[KeyOf(id)]]
      /\ UNCHANGED <<watermark, mapped, fence, leader, local, work, remote, created, raced,
                     abandoned, budget, disruptions>>
  BY IdFacts DEF OutboxDelete, OutboxInv, TypeOK, forge, bounds
<1>2. /\ KeyOf(id) \in Checks /\ VersionOf(id) \in Nat /\ id = <<KeyOf(id), VersionOf(id)>>
  BY IdFacts
<1>3. /\ rows' \in [Ids -> Row] /\ rows'[id] = Absent
      /\ \A i \in Ids : i # id => rows'[i] = rows[i]
  BY <1>1, AbsentFacts DEF OutboxInv, TypeOK
<1>4. /\ owed' \in [Checks -> CheckState]
      /\ \A k \in Checks :
             owed'[k] = IF k = KeyOf(id) /\ owed[k].version <= VersionOf(id)
                        THEN Nothing ELSE owed[k]
  BY <1>1, <1>2, FlushFacts DEF OutboxInv, TypeOK
<1>5. TypeOK'
  BY <1>1, <1>3, <1>4 DEF OutboxInv, TypeOK
<1>6. RowsFormed'
  BY <1>1, <1>3, AbsentFacts DEF OutboxInv, RowsFormed
<1>7. ASSUME NEW k \in Checks, NEW w \in PendingVersions(k)
      PROVE  \E u \in PendingVersions(k)' : w <= u
  <2>1. /\ w \in Versions /\ w \in Nat /\ <<k, w>> \in Ids /\ rows[<<k, w>>].state = "pending"
    BY IdFacts, VersionFacts DEF PendingVersions, Pending
  <2>2. w \in PendingVersions(k)'
    BY <1>1, <1>3, <2>1 DEF PendingVersions, Pending
  <2> QED
    BY <2>1, <2>2
<1>8. ASSUME NEW k \in Checks, Owes(k), owed'[k] = owed[k], owed'[k] # Nothing
      PROVE  OwedSafe(k)'
  <2>0. PICK v : v = owed[k].version
    OBVIOUS
  <2>1. OwedSafe(k) /\ OwedId(k) \in Ids /\ v \in Nat /\ OwedId(k) = <<k, v>>
    BY <1>8, <2>0, OwedHere, VersionFacts DEF OwedId
  <2>2. KeyOf(id) = k => VersionOf(id) < v
    BY <1>2, <1>4, <1>8, <2>0, <2>1
  <2>3. OwedId(k) # id
    BY <1>2, <2>1, <2>2, IdFacts
  <2>4. Beyond(k, v) => Beyond(k, v)'
    <3>1. ASSUME NEW w \in Versions, w > v, rows[<<k, w>>].state # "absent"
          PROVE  Beyond(k, v)'
      <4>1. <<k, w>> \in Ids /\ w \in Nat /\ KeyOf(<<k, w>>) = k /\ VersionOf(<<k, w>>) = w
        BY IdFacts, VersionFacts
      <4>2. <<k, w>> # id
        BY <1>2, <2>1, <2>2, <3>1, <4>1
      <4> QED
        BY <1>3, <3>1, <4>1, <4>2 DEF Beyond
    <3> QED
      BY <1>1, <3>1 DEF Beyond
  <2> QED
    BY <1>1, <1>3, <1>8, <2>0, <2>1, <2>3, <2>4, OwedStays DEF OwedSafe
<1>9. AllOwedSafe'
  <2>1. \A k \in Checks : owed'[k] = Nothing \/ owed'[k] = owed[k]
    BY <1>4
  <2> QED
    BY <1>1, <1>8, <2>1, OwedAgree DEF Owes
<1>10. \A k \in Checks : watermark[k] <= watermark'[k] /\ abandoned[k] <= abandoned'[k]
  BY <1>1, VersionFacts DEF OutboxInv, TypeOK
<1> QED
  BY <1>1, <1>5, <1>6, <1>7, <1>9, <1>10, SameFlushes, StoreKept

\* An enqueue replaces the pending rows at or below its version by its own, or by a
\* dead letter of its version; the state it accepts is owed from then on.
LEMMA OutboxEnqueueVersionedKept ==
    ASSUME OutboxInv, NEW r \in Replicas, NEW k \in Checks, NEW v \in Versions,
           NEW c \in Contents, OutboxEnqueueVersioned(r, k, v, c)
    PROVE  OutboxInv'
<1> DEFINE id == <<k, v>>
<1>1. PICK inserted \in BOOLEAN :
          inserted <=> ~ Outdated(k, v) /\ rows[id].state # "dead"
  OBVIOUS
<1>2. /\ budget > 0 /\ budget' = budget - 1
      /\ rows' = IF Outdated(k, v) THEN rows ELSE Superseding(k, v, c)
      /\ UNCHANGED <<watermark, mapped, fence, leader, work, remote, created, abandoned,
                     disruptions>>
  BY DEF OutboxEnqueueVersioned, forge
<1>3. local' = [local EXCEPT ![r] = LocalAfter(r, k, v, c, inserted)]
  BY <1>1 DEF OutboxEnqueueVersioned, LocalAfter
<1>4. /\ owed' = IF ~ inserted THEN owed
                 ELSE [owed EXCEPT ![k] = IF remote[k] = State(v, c) THEN Nothing
                                          ELSE State(v, c)]
      /\ raced' = IF ~ inserted THEN raced
                  ELSE IF InHand(id) \/ HeldElsewhere(r, id, c)
                  THEN raced \cup {k} ELSE raced \ {k}
  BY <1>1 DEF OutboxEnqueueVersioned
<1>5. id \in Ids /\ KeyOf(id) = k /\ VersionOf(id) = v /\ v \in Nat
  BY IdFacts, VersionFacts
<1>6. rows \in [Ids -> Row] /\ \A w \in Versions : w \in Nat
  BY VersionFacts DEF OutboxInv, TypeOK
<1>7. rows' \in [Ids -> Row]
  <2>1. Absent \in Row /\ Fresh(c) \in Row
    BY AbsentFacts
  <2> QED
    BY <1>2, <1>6, <2>1 DEF Superseding
<1>8. ASSUME ~ Outdated(k, v)
      PROVE  /\ rows[id].state # "dead" => rows'[id].state = "pending" /\ rows'[id].content = c
             /\ rows[id].state = "dead" => rows'[id] = rows[id]
             /\ \A i \in Ids \ {id} :
                    \/ rows'[i] = rows[i]
                    \/ /\ rows'[i] = Absent /\ rows[i].state # "dead"
                       /\ KeyOf(i) = k /\ VersionOf(i) < v
  <2>1. \A i \in Ids : rows'[i] = IF KeyOf(i) = k /\ VersionOf(i) <= v /\ rows[i].state # "dead"
                                  THEN IF VersionOf(i) = v THEN Fresh(c) ELSE Absent
                                  ELSE rows[i]
    BY <1>2, <1>8 DEF Superseding
  <2>2. \A i \in Ids : /\ VersionOf(i) \in Nat
                       /\ i # id => KeyOf(i) # k \/ VersionOf(i) # v
    BY IdFacts
  <2>3. Fresh(c).state = "pending" /\ Fresh(c).content = c
    BY AbsentFacts
  <2>4. /\ rows[id].state # "dead" => rows'[id].state = "pending" /\ rows'[id].content = c
        /\ rows[id].state = "dead" => rows'[id] = rows[id]
    BY <1>5, <2>1, <2>3
  <2>5. ASSUME NEW i \in Ids, i # id, rows'[i] # rows[i]
        PROVE  /\ rows'[i] = Absent /\ rows[i].state # "dead"
               /\ KeyOf(i) = k /\ VersionOf(i) < v
    <3>1. KeyOf(i) = k /\ VersionOf(i) <= v /\ rows[i].state # "dead"
      BY <2>1, <2>5
    <3>2. VersionOf(i) # v /\ VersionOf(i) \in Nat
      BY <2>2, <2>5, <3>1
    <3> QED
      BY <1>5, <2>1, <2>5, <3>1, <3>2
  <2> QED
    BY <2>4, <2>5
<1>9. Outdated(k, v) => rows' = rows
  BY <1>2
<1>10. /\ local' \in [Replicas -> [Ids -> Contents \cup {NoContent}]]
       /\ \A q \in Replicas : \A i \in Ids :
              \/ local'[q][i] \in {NoContent, local[q][i]}
              \/ q = r /\ i = id /\ inserted /\ local'[q][i] = c
       /\ inserted => local'[r][id] = c /\ \A q \in Replicas \ {r} : local'[q] = local[q]
  <2>1. local \in [Replicas -> [Ids -> Contents \cup {NoContent}]]
    BY DEF OutboxInv, TypeOK
  <2>2. PICK new : new = LocalAfter(r, k, v, c, inserted)
    OBVIOUS
  <2>3. /\ new \in [Ids -> Contents \cup {NoContent}]
        /\ \A i \in Ids : \/ new[i] \in {NoContent, local[r][i]}
                          \/ i = id /\ inserted /\ new[i] = c
        /\ inserted => new[id] = c
    BY <1>5, <2>1, <2>2 DEF LocalAfter
  <2>4. \A q \in Replicas : local'[q] = IF q = r THEN new ELSE local[q]
    BY <1>3, <2>1, <2>2
  <2>5. local' \in [Replicas -> [Ids -> Contents \cup {NoContent}]]
    BY <1>3, <2>1, <2>2, <2>3
  <2> QED
    BY <2>3, <2>4, <2>5
<1>11. TypeOK'
  <2>1. budget' \in 0..Budget
    BY <1>2, OutboxAssumption DEF OutboxInv, TypeOK
  <2>2. owed' \in [Checks -> CheckState] /\ raced' \subseteq Checks
    BY <1>4, FlushFacts DEF OutboxInv, TypeOK
  <2> QED
    BY <1>2, <1>7, <1>10, <2>1, <2>2 DEF OutboxInv, TypeOK
<1>12. RowsFormed'
  <2> SUFFICES ASSUME NEW i \in Ids
               PROVE  /\ rows'[i].state # "absent" => rows'[i].content \in Contents
                      /\ rows'[i].state = "dead" => VersionOf(i) <= abandoned[KeyOf(i)]
    BY <1>2 DEF RowsFormed
  <2>1. /\ rows[i].state # "absent" => rows[i].content \in Contents
        /\ rows[i].state = "dead" => VersionOf(i) <= abandoned[KeyOf(i)]
    BY DEF OutboxInv, RowsFormed
  <2> QED
    BY <1>8, <1>9, <2>1, AbsentFacts
<1>13. ASSUME NEW j \in Checks, NEW w \in PendingVersions(j)
       PROVE  w <= abandoned'[j] \/ \E u \in PendingVersions(j)' : w <= u
  <2>1. /\ w \in Versions /\ w \in Nat /\ <<j, w>> \in Ids /\ rows[<<j, w>>].state = "pending"
        /\ KeyOf(<<j, w>>) = j /\ VersionOf(<<j, w>>) = w
    BY <1>6, IdFacts DEF PendingVersions, Pending
  <2>2. CASE rows'[<<j, w>>].state = "pending"
    <3>1. w \in PendingVersions(j)'
      BY <2>1, <2>2 DEF PendingVersions, Pending
    <3> QED
      BY <2>1, <3>1
  <2>3. CASE rows'[<<j, w>>].state # "pending"
    <3>1. ~ Outdated(k, v) /\ j = k /\ w < v
      BY <1>8, <1>9, <2>1, <2>3
    <3>2. CASE rows[id].state = "dead"
      <4>1. v <= abandoned[k] /\ abandoned[k] \in Nat
        BY <1>5, <3>2, VersionFacts DEF OutboxInv, RowsFormed, TypeOK
      <4> QED
        BY <1>2, <1>5, <2>1, <3>1, <4>1
    <3>3. CASE rows[id].state # "dead"
      <4>1. v \in PendingVersions(k)'
        BY <1>8, <3>1, <3>3 DEF PendingVersions, Pending
      <4> QED
        BY <1>5, <2>1, <3>1, <4>1
    <3> QED
      BY <3>2, <3>3
  <2> QED
    BY <2>2, <2>3
<1>14. ASSUME NEW j \in Checks, Owes(j), owed'[j] = owed[j], ~ inserted \/ j # k
       PROVE  OwedSafe(j)'
  <2>0. PICK u : u = owed[j].version
    OBVIOUS
  <2>1. /\ OwedSafe(j) /\ OwedId(j) \in Ids /\ u \in Versions /\ u \in Nat
        /\ OwedId(j) = <<j, u>> /\ KeyOf(OwedId(j)) = j /\ VersionOf(OwedId(j)) = u
    BY <1>14, <2>0, OwedHere, VersionFacts DEF OwedId
  <2>2. ASSUME NEW w \in Versions, w >= u, rows[<<j, w>>].state # "absent"
        PROVE  rows'[<<j, w>>] = rows[<<j, w>>] \/ Beyond(j, u)'
    <3>1. /\ <<j, w>> \in Ids /\ w \in Nat /\ KeyOf(<<j, w>>) = j /\ VersionOf(<<j, w>>) = w
      BY <1>6, IdFacts
    <3>2. CASE rows'[<<j, w>>] # rows[<<j, w>>]
      <4>1. ~ Outdated(k, v) /\ j = k
        <5>1. ~ Outdated(k, v)
          BY <1>9, <3>2
        <5>2. <<j, w>> = id => j = k
          OBVIOUS
        <5> QED
          BY <1>8, <3>1, <3>2, <5>1, <5>2
      <4>2. rows[id].state = "dead"
        BY <1>1, <1>14, <4>1
      <4>3. w < v
        BY <1>8, <3>1, <3>2, <4>1, <4>2
      <4>4. v > u /\ rows'[<<j, v>>].state # "absent"
        BY <1>5, <1>8, <2>1, <2>2, <3>1, <4>1, <4>2, <4>3
      <4> QED
        BY <4>4 DEF Beyond
    <3> QED
      BY <3>2
  <2>3. Beyond(j, u) => Beyond(j, u)'
    <3>1. ASSUME NEW w \in Versions, w > u, rows[<<j, w>>].state # "absent"
          PROVE  Beyond(j, u)'
      <4>1. w >= u
        BY <1>6, <2>1, <3>1
      <4> QED
        BY <2>2, <3>1, <4>1 DEF Beyond
    <3> QED
      BY <1>2, <3>1 DEF Beyond
  <2>4. rows[OwedId(j)].state # "absent" => rows'[OwedId(j)] = rows[OwedId(j)] \/ Beyond(j, u)'
    BY <2>1, <2>2
  <2>5. rows'[OwedId(j)].state # "absent" => rows'[OwedId(j)].content = owed[j].content
    <3>1. OwedId(j) = id => ~ inserted
      BY <1>5, <1>14, <2>1
    <3>2. rows'[OwedId(j)].state # "absent" => rows'[OwedId(j)] = rows[OwedId(j)]
      BY <1>1, <1>8, <1>9, <2>1, <3>1, AbsentFacts
    <3> QED
      BY <2>1, <3>2 DEF OwedSafe
  <2>6. \A q \in Replicas : local'[q][OwedId(j)] \in {NoContent, owed[j].content}
    <3>1. OwedId(j) = id => ~ inserted
      BY <1>5, <1>14, <2>1
    <3> QED
      BY <1>10, <1>14, <2>1, <3>1, OwedHere
  <2> QED
    BY <1>2, <1>14, <2>0, <2>1, <2>3, <2>4, <2>5, <2>6, OwedStays
<1>15. ASSUME inserted, Owes(k)' PROVE OwedSafe(k)'
  <2>1. /\ owed'[k] = State(v, c) /\ ~ InHand(id) /\ ~ HeldElsewhere(r, id, c)
    BY <1>4, <1>15 DEF Owes, OutboxInv, TypeOK
  <2>2. /\ owed'[k].version = v /\ owed'[k].content = c /\ OwedId(k)' = id
    BY <2>1, FlushFacts DEF OwedId
  <2>3. rows'[id].state # "absent" /\ rows'[id].content = c
    BY <1>1, <1>8, <1>15
  <2>4. watermark'[k] < v
    <3>1. ~ (v <= watermark[k]) /\ watermark[k] \in Nat
      BY <1>1, <1>15, VersionFacts DEF Outdated, OutboxInv, TypeOK
    <3> QED
      BY <1>2, <1>5, <3>1
  <2>5. \A q \in Replicas : local'[q][id] \in {NoContent, c}
    BY <1>10, <1>15, <2>1 DEF HeldElsewhere
  <2>6. \A q \in Replicas : FlushFaithful(k, work[q])'
    BY <1>2, <2>1, <2>2 DEF FlushFaithful, InHand
  <2> QED
    BY <2>2, <2>3, <2>4, <2>5, <2>6 DEF OwedSafe
<1>16. AllOwedSafe'
  <2>1. CASE ~ inserted
    BY <1>4, <1>14, <2>1, OwedAgree
  <2>2. CASE inserted
    <3> SUFFICES ASSUME NEW j \in Checks
                 PROVE  /\ owed'[j] # Nothing =>
                               owed'[j].version \in Versions /\ owed'[j].content \in Contents
                        /\ Owes(j)' => OwedSafe(j)'
      BY DEF AllOwedSafe
    <3>1. CASE j = k
      <4>1. owed'[k] = Nothing \/ owed'[k] = State(v, c)
        BY <1>4, <2>2 DEF OutboxInv, TypeOK
      <4> QED
        BY <1>15, <2>2, <3>1, <4>1, FlushFacts
    <3>2. CASE j # k
      <4>1. owed'[j] = owed[j] /\ (j \in raced' <=> j \in raced)
        BY <1>4, <3>2 DEF OutboxInv, TypeOK
      <4>2. owed[j] # Nothing => owed[j].version \in Versions /\ owed[j].content \in Contents
        BY DEF OutboxInv, AllOwedSafe
      <4> QED
        BY <1>14, <3>2, <4>1, <4>2 DEF Owes
    <3> QED
      BY <3>1, <3>2
  <2> QED
    BY <2>1, <2>2
<1>17. \A j \in Checks : watermark[j] <= watermark'[j] /\ abandoned[j] <= abandoned'[j]
  BY <1>2, VersionFacts DEF OutboxInv, TypeOK
<1> QED
  BY <1>2, <1>11, <1>12, <1>13, <1>16, <1>17, SameFlushes, StoreKept

\* A step that changes nothing.
LEMMA StutterKept == ASSUME OutboxInv, UNCHANGED vars PROVE OutboxInv'
BY SameRows, FlushesStay DEF vars, store, forge, history, bounds, OutboxInv, TypeOK

-----------------------------------------------------------------------------
(* The theorems                                                            *)

\* Every step keeps the invariant.
LEMMA NextKept == ASSUME OutboxInv, [Next]_vars PROVE OutboxInv'
<1>1. CASE UNCHANGED vars
  BY <1>1, StutterKept
<1>2. ASSUME NEW r \in Replicas, NEW k \in Checks, NEW v \in Versions, NEW c \in Payloads[v],
             OutboxEnqueueVersioned(r, k, v, c)
      PROVE  OutboxInv'
  <2>1. c \in Contents
    BY OutboxAssumption DEF Versions
  <2> QED
    BY <1>2, <2>1, OutboxEnqueueVersionedKept
<1>3. ASSUME NEW r \in Replicas, FlushNext(r) PROVE OutboxInv'
  BY <1>3, ClaimOutboxKept, BeginKept, FenceVersionedCheckKept, PublishCheckRunKept,
     PutCheckRunKept, DispatchFailsKept, OutboxAckKept, OutboxRetryClaimedKept,
     ReleaseOutboxClaimsKept
     DEF FlushNext
<1>4. ASSUME NEW r \in Replicas, LeaderChanges(r) \/ Crash(r) PROVE OutboxInv'
  BY <1>4, LeaderChangesKept, CrashKept
<1>5. ASSUME NEW k \in Checks, NEW v \in Versions,
             OutboxRequeue(<<k, v>>) \/ OutboxDelete(<<k, v>>)
      PROVE  OutboxInv'
  BY <1>5, IdFacts, OutboxRequeueKept, OutboxDeleteKept
<1> QED
  BY <1>1, <1>2, <1>3, <1>4, <1>5, ClaimExpiresKept DEF Next

\* OutboxInv is an invariant of the outbox, for any number of replicas, checks and
\* versions and any limit of attempts.
THEOREM OutboxInvariance == Spec => []OutboxInv
<1>1. Init => OutboxInv
  BY InitKept
<1>2. OutboxInv /\ [Next]_vars => OutboxInv'
  BY NextKept
<1> QED
  BY <1>1, <1>2, PTL DEF Spec

\* The type invariant of the outbox.
THEOREM TypeCorrect == Spec => []TypeOK
<1>1. OutboxInv => TypeOK
  BY DEF OutboxInv
<1> QED
  BY <1>1, OutboxInvariance, PTL

\* The forge has at most one check run for a check, however publications are lost,
\* repeated and raced (PublishCheckRun looks for the check before it creates one).
THEOREM OneRemoteCheck == Spec => []OneCheckRun
<1>1. OutboxInv => OneCheckRun
  BY DEF OutboxInv
<1> QED
  BY <1>1, OutboxInvariance, PTL

\* An accepted state is kept until the forge shows it, whatever claims, retries, dead
\* letters, late acknowledgements and crashes intervene (flushDBBatch, OutboxAck).
THEOREM AcceptedKept == Spec => []AcceptedStateKept
<1>1. ASSUME OutboxInv PROVE AcceptedStateKept
  <2> SUFFICES ASSUME NEW k \in Checks, Owes(k) PROVE Kept(k)
    BY DEF AcceptedStateKept, Owes
  <2>1. OwedSafe(k)
    BY OwedHere, <1>1
  <2> QED
    BY <2>1 DEF OwedSafe, OwedId, Beyond, Kept
<1> QED
  BY <1>1, OutboxInvariance, PTL

\* Only a publication changes what the forge shows, and a safe one never puts an
\* older version over a newer one that was not given up.
LEMMA RemoteStep ==
    ASSUME OutboxInv, [Next]_vars, NEW k \in Checks
    PROVE  remote[k].version <= remote'[k].version \/ remote[k].version <= abandoned[k]
<1>1. CASE remote' = remote
  <2>1. remote[k].version \in Nat
    BY VersionFacts DEF OutboxInv, TypeOK, CheckState
  <2> QED
    BY <1>1, <2>1
<1>2. ASSUME NEW r \in Replicas, NEW answered \in BOOLEAN, PublishCheckRun(r, answered)
      PROVE  remote[k].version <= remote'[k].version \/ remote[k].version <= abandoned[k]
  <2>1. work[r].pc = "publish" /\ work[r].pc \in Dispatching
        /\ remote' = [remote EXCEPT ![Key(r)] = ItemState(r)]
    BY <1>2 DEF PublishCheckRun, Dispatching
  <2>2. CASE k = Key(r)
    <3>1. remote'[k].version = VersionOf(Item(r).id)
      BY <2>1, <2>2 DEF OutboxInv, TypeOK, ItemState, State
    <3>2. FlushSafe(r, work[r])
      BY DEF OutboxInv, FlushesSafe
    <3> QED
      BY <2>1, <2>2, <3>1, <3>2 DEF FlushSafe, Key, Item
  <2>3. CASE k # Key(r)
    <3>1. remote'[k] = remote[k]
      BY <2>1, <2>3 DEF OutboxInv, TypeOK
    <3>2. remote[k].version \in Nat
      BY VersionFacts DEF OutboxInv, TypeOK, CheckState
    <3> QED
      BY <3>1, <3>2
  <2> QED
    BY <2>2, <2>3
<1>3. \/ remote' = remote
      \/ \E r \in Replicas, answered \in BOOLEAN : PublishCheckRun(r, answered)
  <2>1. CASE UNCHANGED vars
    BY <2>1 DEF vars, forge
  <2>2. ASSUME NEW r \in Replicas, FlushNext(r)
        PROVE  remote' = remote \/ \E answered \in BOOLEAN : PublishCheckRun(r, answered)
    BY <2>2 DEF FlushNext, ClaimOutbox, Begin, FenceVersionedCheck, PutCheckRun, DispatchFails,
       OutboxAck, OutboxRetryClaimed, ReleaseOutboxClaims, forge
  <2>3. CASE Next /\ ~ \E r \in Replicas : FlushNext(r)
    <3>1. ASSUME NEW r \in Replicas, NEW j \in Checks, NEW v \in Versions, NEW c \in Payloads[v],
                 OutboxEnqueueVersioned(r, j, v, c)
          PROVE  remote' = remote
      BY <3>1 DEF OutboxEnqueueVersioned, forge
    <3>2. ASSUME NEW r \in Replicas, LeaderChanges(r) \/ Crash(r) PROVE remote' = remote
      BY <3>2 DEF LeaderChanges, Crash, forge
    <3>3. ASSUME NEW id \in Ids, ClaimExpires(id) \/ OutboxRequeue(id) \/ OutboxDelete(id)
          PROVE  remote' = remote
      BY <3>3 DEF ClaimExpires, OutboxRequeue, OutboxDelete, forge
    <3> QED
      BY <2>3, <3>1, <3>2, <3>3, IdFacts DEF Next
  <2> QED
    BY <2>1, <2>2, <2>3
<1> QED
  BY <1>1, <1>2, <1>3

\* What the forge shows of a check never goes back, except from a version whose
\* delivery was given up (fenceVersionedCheck reads the guard inside the fence).
THEOREM RemoteMonotone == Spec => RemoteNeverRegresses
<1>1. ASSUME OutboxInv, [Next]_vars
      PROVE  [\A k \in Checks : \/ remote[k].version <= remote'[k].version
                                \/ remote[k].version <= abandoned[k]]_vars
  BY <1>1, RemoteStep
<1> QED
  BY <1>1, OutboxInvariance, PTL DEF Spec, RemoteNeverRegresses
=============================================================================
