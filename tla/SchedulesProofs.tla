-------------------------- MODULE SchedulesProofs --------------------------
(***************************************************************************)
(* Cron occurrences run at most once, only while their schedule is fit to  *)
(* fire, and none is passed without account.                               *)
(***************************************************************************)
EXTENDS Schedules, TLAPS

\* What the record of a worker can be.
Fires ==
    [pc : {"idle", "read", "enqueue", "advance"}, dues : SUBSET Occurrences,
     item : Occurrences \cup {NoOccurrence}, eligible : BOOLEAN]

\* What the record of an update can be.
Edits == [pc : {"idle", "write"}, id : Schedules \cup {NoOccurrence}, last : 0..Horizon]

\* The type invariant, with the type of an update and what a busy worker works on.
Typed ==
    /\ Columns
    /\ edit \in [Replicas -> Edits]
    /\ \A r \in Replicas : edit[r].pc = "write" => edit[r].id \in Schedules
    /\ \A w \in Workers : work[w].pc # "idle" => work[w].item \in Occurrences

\* A run has its claim.
ClaimsCounted == \A o \in Occurrences : runs[o] <= 1 /\ (o \notin claimed => runs[o] = 0)

\* Fire f saw its schedule fit to fire, or its re-read will refuse it.
FireEligible(f) ==
    /\ f.pc = "read" /\ MayFire(f.item[1]) => f.eligible
    /\ f.pc = "enqueue" => f.eligible

\* All fires are eligible in that sense.
FiresEligible == \A w \in Workers : FireEligible(work[w])

\* The occurrences that ran, were skipped, failed or were overtaken.
Accounted == claimed \cup skipped \cup failed \cup overtaken

\* Every occurrence of schedule s up to minute n is in acc.
Passed(acc, s, n) ==
    \A o \in Occurrences : (o[1] = s /\ o[2] \in Cron[s] /\ o[2] <= n) => o \in acc

\* Every occurrence of o's schedule before o is in acc.
Before(acc, o) ==
    \A p \in Occurrences : (p[1] = o[1] /\ p[2] \in Cron[o[1]] /\ p[2] < o[2]) => p \in acc

\* A fire that is about to advance the marker has settled its occurrence.
FireDone(f, acc) == f.pc = "advance" => f.item \in acc

\* A tick works through a schedule in order: everything before its occurrence is
\* accounted for, and everything before one it has still to fire is, or is among
\* those it collected.
FireOrdered(f, acc) ==
    f.pc # "idle" =>
        /\ Before(acc, f.item)
        /\ \A o \in f.dues : Before(acc \cup f.dues \cup {f.item}, o)

\* All fires are settled and in order that way.
FiresAccounted(acc) ==
    \A w \in Workers :
        FireDone(work[w], acc) /\ (IsTick(w) => FireOrdered(work[w], acc))

\* What the markers have passed is accounted for, and so is what the markers in the
\* hands of an update had passed.
MarkersAccounted(acc) ==
    /\ \A s \in Schedules : Passed(acc, s, row[s].last)
    /\ \A r \in Replicas : edit[r].pc = "write" => Passed(acc, edit[r].id, edit[r].last)

\* The inductive invariant.  The marker alone says too little: it moves to the
\* occurrence a tick fired, so the order in which the tick works, and the older marker
\* an update may still write back, are part of it.
ScheduleInv ==
    /\ Typed
    /\ ClaimsCounted
    /\ FiresEligible
    /\ FiresAccounted(Accounted)
    /\ MarkersAccounted(Accounted)

-----------------------------------------------------------------------------
(* Occurrences, and what is accounted for                                  *)

\* An occurrence is a schedule and a minute.
LEMMA OccurrenceFacts ==
    ASSUME NEW o \in Occurrences
    PROVE  /\ o = <<o[1], o[2]>> /\ o # NoOccurrence
           /\ o[1] \in Schedules /\ o[2] \in Minutes
BY DEF Occurrences, NoOccurrence

\* Two occurrences of a schedule in the same minute are one.
LEMMA SameOccurrence ==
    ASSUME NEW o \in Occurrences, NEW p \in Occurrences, o[1] = p[1], o[2] = p[2]
    PROVE  o = p
BY OccurrenceFacts

\* Minutes are numbers, and a cron expression names minutes.
LEMMA MinuteFacts ==
    /\ \A m \in Minutes : m \in Nat /\ m \in 0..Horizon
    /\ \A m \in 0..Horizon : m \in Nat
    /\ \A s \in Schedules : \A m \in Cron[s] : m \in Minutes
BY SchedulesAssumption DEF Minutes

\* What was accounted for stays so when more is.
LEMMA BeforeGrows ==
    ASSUME NEW acc, NEW more, acc \subseteq more, NEW o, Before(acc, o)
    PROVE  Before(more, o)
BY DEF Before

\* The same for what a marker has passed.
LEMMA PassedGrows ==
    ASSUME NEW acc, NEW more, acc \subseteq more, NEW s, NEW n, Passed(acc, s, n)
    PROVE  Passed(more, s, n)
BY DEF Passed

\* The same for a fire.
LEMMA FireGrows ==
    ASSUME NEW acc, NEW more, acc \subseteq more, NEW f
    PROVE  /\ FireDone(f, acc) => FireDone(f, more)
           /\ FireOrdered(f, acc) => FireOrdered(f, more)
<1>1. FireDone(f, acc) => FireDone(f, more)
  BY DEF FireDone
<1>2. ASSUME FireOrdered(f, acc), f.pc # "idle"
      PROVE  /\ Before(more, f.item)
             /\ \A o \in f.dues : Before(more \cup f.dues \cup {f.item}, o)
  <2>1. Before(acc, f.item)
    BY <1>2 DEF FireOrdered
  <2>2. ASSUME NEW o \in f.dues PROVE Before(more \cup f.dues \cup {f.item}, o)
    <3>1. Before(acc \cup f.dues \cup {f.item}, o)
      BY <1>2 DEF FireOrdered
    <3>2. acc \cup f.dues \cup {f.item} \subseteq more \cup f.dues \cup {f.item}
      OBVIOUS
    <3> QED
      BY <3>1, <3>2, BeforeGrows
  <2> QED
    BY <2>1, <2>2, BeforeGrows
<1> QED
  BY <1>1, <1>2 DEF FireOrdered

\* A worker that fires nothing owes nothing.
LEMMA IdleFacts ==
    /\ Idle \in Fires /\ Idle.pc = "idle" /\ FireEligible(Idle)
    /\ \A acc : FireDone(Idle, acc) /\ FireOrdered(Idle, acc)
BY DEF Idle, Fires, FireEligible, FireDone, FireOrdered

\* The record of every worker.
LEMMA WorkTyped ==
    ASSUME Typed
    PROVE  /\ work \in [Workers -> Fires]
           /\ \A w \in Workers : work[w].pc # "idle" => work[w].item \in Occurrences
BY DEF Typed, Columns, Fires

-----------------------------------------------------------------------------
(* The start, and what one worker does                                     *)

\* At the start no minute has passed and no marker moved.
LEMMA InitAccounted == Init => ScheduleInv
<1> SUFFICES ASSUME Init PROVE ScheduleInv
  OBVIOUS
<1>1. work \in [Workers -> Fires] /\ \A w \in Workers : work[w] = Idle
  BY IdleFacts DEF Init
<1>2. 0 \in 0..Horizon
  BY SchedulesAssumption
<1>3. edit \in [Replicas -> Edits] /\ \A r \in Replicas : edit[r].pc = "idle" /\ edit[r].last = 0
  BY <1>2 DEF Init, NoEdit, Edits
<1>4. row \in [Schedules -> [enabled : BOOLEAN, last : 0..Horizon]]
  BY <1>2 DEF Init
<1>5. runs \in [Occurrences -> Nat]
  BY DEF Init
<1>6. Columns
  BY <1>1, <1>2, <1>3, <1>4, <1>5, SchedulesAssumption DEF Init, Columns, Fires
<1>7. Typed
  BY <1>1, <1>3, <1>6, IdleFacts DEF Typed
<1>8. ClaimsCounted
  BY DEF Init, ClaimsCounted
<1>9. FiresEligible /\ FiresAccounted(Accounted)
  BY <1>1, IdleFacts DEF FiresEligible, FiresAccounted
<1>10. MarkersAccounted(Accounted)
  <2>1. ASSUME NEW s \in Schedules PROVE Passed(Accounted, s, row[s].last)
    <3>1. row[s].last = 0
      BY DEF Init
    <3>2. \A o \in Occurrences : ~ (o[2] <= 0)
      BY OccurrenceFacts DEF Minutes
    <3> QED
      BY <3>1, <3>2 DEF Passed
  <2> QED
    BY <2>1, <1>3 DEF MarkersAccounted
<1> QED
  BY <1>7, <1>8, <1>9, <1>10 DEF ScheduleInv

\* A worker that goes on with a fire f in good order leaves all fires in good order.
LEMMA FireTaken ==
    ASSUME ScheduleInv, NEW w \in Workers, NEW f \in Fires,
           work' = [work EXCEPT ![w] = f],
           f.pc # "idle" => f.item \in Occurrences,
           FireEligible(f),
           FireDone(f, Accounted'), IsTick(w) => FireOrdered(f, Accounted'),
           Accounted \subseteq Accounted',
           \A s \in Schedules : MayFire(s)' => MayFire(s)
    PROVE  /\ work' \in [Workers -> Fires]
           /\ \A v \in Workers : work'[v].pc # "idle" => work'[v].item \in Occurrences
           /\ FiresEligible'
           /\ FiresAccounted(Accounted)'
<1>1. work \in [Workers -> Fires]
  BY WorkTyped DEF ScheduleInv
<1>2. \A v \in Workers : work'[v] = IF v = w THEN f ELSE work[v]
  BY <1>1
<1>3. \A v \in Workers : work'[v].pc # "idle" => work'[v].item \in Occurrences
  BY <1>2, WorkTyped DEF ScheduleInv
<1>4. FiresEligible'
  <2> SUFFICES ASSUME NEW v \in Workers PROVE FireEligible(work[v])'
    BY DEF FiresEligible
  <2>1. FireEligible(work'[v])
    BY <1>2 DEF ScheduleInv, FiresEligible
  <2>2. work'[v].pc = "read" => work'[v].item[1] \in Schedules
    BY <1>3, OccurrenceFacts
  <2> QED
    BY <2>1, <2>2 DEF FireEligible
<1>5. FiresAccounted(Accounted)'
  <2> SUFFICES ASSUME NEW v \in Workers
               PROVE  /\ FireDone(work'[v], Accounted')
                      /\ IsTick(v) => FireOrdered(work'[v], Accounted')
    BY DEF FiresAccounted
  <2>1. CASE v = w
    BY <2>1, <1>2
  <2>2. CASE v # w
    BY <2>2, <1>2, FireGrows DEF ScheduleInv, FiresAccounted
  <2> QED
    BY <2>1, <2>2
<1> QED
  BY <1>1, <1>3, <1>4, <1>5

\* Markers that stay are still accounted for.
LEMMA MarkersStay ==
    ASSUME ScheduleInv, UNCHANGED <<row, edit>>, Accounted \subseteq Accounted'
    PROVE  MarkersAccounted(Accounted)'
BY PassedGrows DEF ScheduleInv, MarkersAccounted

\* A step of one worker that moves no marker keeps the invariant when its new fire
\* is in good order.
LEMMA FireKept ==
    ASSUME ScheduleInv, NEW w \in Workers, NEW f \in Fires,
           work' = [work EXCEPT ![w] = f],
           f.pc # "idle" => f.item \in Occurrences,
           FireEligible(f),
           FireDone(f, Accounted'), IsTick(w) => FireOrdered(f, Accounted'),
           Accounted \subseteq Accounted', Accounted' \subseteq Occurrences,
           runs' \in [Occurrences -> Nat], ClaimsCounted',
           UNCHANGED <<now, row, revoked, leader, edit>>
    PROVE  ScheduleInv'
<1>1. \A s \in Schedules : MayFire(s)' = MayFire(s)
  BY DEF MayFire
<1>2. /\ work' \in [Workers -> Fires]
      /\ \A v \in Workers : work'[v].pc # "idle" => work'[v].item \in Occurrences
      /\ FiresEligible'
      /\ FiresAccounted(Accounted)'
  BY <1>1, FireTaken
<1>3. Typed'
  BY <1>2 DEF ScheduleInv, Typed, Columns, Fires, Accounted
<1>4. MarkersAccounted(Accounted)'
  BY MarkersStay
<1> QED
  BY <1>2, <1>3, <1>4 DEF ScheduleInv

\* Only occurrences are accounted for.
LEMMA HistoryTyped == ScheduleInv => Accounted \subseteq Occurrences
BY DEF ScheduleInv, Typed, Columns, Accounted

\* The next occurrence of a tick is in good order once the one it leaves is
\* accounted for: the earlier ones of its schedule were taken before it.
LEMMA NextItemFacts ==
    ASSUME ScheduleInv, NEW w \in Workers, work[w].pc # "idle", NEW acc,
           Accounted \subseteq acc, IsTick(w) => work[w].item \in acc, NEW f \in NextItem(w)
    PROVE  /\ f \in Fires
           /\ f.pc # "idle" => f.item \in Occurrences
           /\ FireEligible(f) /\ FireDone(f, acc)
           /\ IsTick(w) => FireOrdered(f, acc)
<1> DEFINE old == work[w]
<1>1. old \in Fires /\ old.dues \subseteq Occurrences
  BY WorkTyped DEF ScheduleInv, Fires
<1>2. CASE old.dues = {}
  BY <1>2, IdleFacts DEF NextItem
<1>3. CASE old.dues # {}
  <2>1. PICK o \in Foremost(old.dues) :
            f = [pc |-> "read", dues |-> old.dues \ {o}, item |-> o, eligible |-> MayFire(o[1])]
    BY <1>3 DEF NextItem
  <2>2. o \in old.dues /\ o \in Occurrences /\ old.dues \ {o} \in SUBSET Occurrences
    BY <1>1 DEF Foremost
  <2>3. \A p \in old.dues : p[1] = o[1] => p[2] >= o[2]
    BY DEF Foremost
  <2>4. MayFire(o[1]) \in BOOLEAN
    BY <2>2, OccurrenceFacts DEF MayFire, ScheduleInv, Typed, Columns
  <2>5. f \in Fires /\ f.pc = "read" /\ f.item = o /\ f.dues = old.dues \ {o}
    BY <2>1, <2>2, <2>4 DEF Fires
  <2>6. FireEligible(f) /\ FireDone(f, acc)
    BY <2>1 DEF FireEligible, FireDone
  <2>7. ASSUME IsTick(w) PROVE FireOrdered(f, acc)
    <3>1. FireOrdered(old, Accounted) /\ old.item \in acc
      BY <2>7 DEF ScheduleInv, FiresAccounted
    <3>2. ASSUME NEW q \in old.dues PROVE Before(acc \cup old.dues, q)
      <4>1. Before(Accounted \cup old.dues \cup {old.item}, q)
        BY <3>1 DEF FireOrdered
      <4>2. Accounted \cup old.dues \cup {old.item} \subseteq acc \cup old.dues
        BY <3>1
      <4> QED
        BY <4>1, <4>2, BeforeGrows
    <3>3. Before(acc, o)
      <4> SUFFICES ASSUME NEW p \in Occurrences, p[1] = o[1], p[2] \in Cron[o[1]], p[2] < o[2]
                   PROVE  p \in acc
        BY DEF Before
      <4>1. p \in acc \cup old.dues
        BY <2>2, <3>2 DEF Before
      <4>2. p \notin old.dues
        <5>1. p[2] \in Nat /\ o[2] \in Nat
          BY <2>2, OccurrenceFacts, MinuteFacts
        <5> QED
          BY <2>3, <5>1
      <4> QED
        BY <4>1, <4>2
    <3>4. ASSUME NEW q \in f.dues PROVE Before(acc \cup f.dues \cup {f.item}, q)
      <4>1. acc \cup f.dues \cup {f.item} = acc \cup old.dues /\ q \in old.dues
        BY <2>2, <2>5
      <4> QED
        BY <3>2, <4>1
    <3> QED
      BY <2>5, <3>3, <3>4 DEF FireOrdered
  <2> QED
    BY <2>2, <2>5, <2>6, <2>7
<1> QED
  BY <1>2, <1>3

-----------------------------------------------------------------------------
(* Starting a fire                                                         *)

\* Of the occurrences of a schedule before a due one, those after the marker are due
\* too.
LEMMA DueFacts ==
    ASSUME Typed, NEW o \in Due
    PROVE  /\ o \in Occurrences
           /\ \A p \in Occurrences :
                  (p[1] = o[1] /\ p[2] \in Cron[o[1]] /\ p[2] < o[2] /\ row[o[1]].last < p[2])
                      => p \in DueOf(o[1])
<1>1. PICK s \in Schedules : o \in DueOf(s)
  BY DEF Due
<1>2. PICK n \in Cron[s] : o = <<s, n>> /\ row[s].last < n /\ n <= now /\ row[s].enabled
  BY <1>1 DEF DueOf
<1>3. o \in Occurrences
  BY <1>2, MinuteFacts DEF Occurrences
<1>4. ASSUME NEW p \in Occurrences,
             p[1] = o[1], p[2] \in Cron[o[1]], p[2] < o[2], row[o[1]].last < p[2]
      PROVE  p \in DueOf(o[1])
  <2>1. o[1] = s /\ o[2] = n /\ p = <<s, p[2]>>
    BY <1>2, <1>4, OccurrenceFacts
  <2>2. p[2] \in Nat /\ n \in Nat /\ now \in Nat
    BY <1>2, <1>4, <2>1, MinuteFacts DEF Typed, Columns
  <2>3. p[2] <= now
    BY <1>2, <1>4, <2>1, <2>2
  <2> QED
    BY <1>2, <1>4, <2>1, <2>3 DEF DueOf
<1> QED
  BY <1>3, <1>4

\* A tick collects, of each schedule, everything due up to where its limit cuts it
\* off, and starts with the earliest (fireDueSchedules).
LEMMA CollectDueAccounted ==
    ASSUME ScheduleInv, NEW r \in Replicas, CollectDue(r)
    PROVE  ScheduleInv'
<1> DEFINE w == <<r, "tick">>
<1>1. w \in Workers
  BY DEF Workers
<1>0. PICK dues \in Collected : \E o \in Foremost(dues) :
          work' = [work EXCEPT ![w] = [pc |-> "read", dues |-> dues \ {o}, item |-> o,
                                       eligible |-> MayFire(o[1])]]
  BY DEF CollectDue
<1>2. PICK o \in Foremost(dues) :
          work' = [work EXCEPT ![w] = [pc |-> "read", dues |-> dues \ {o}, item |-> o,
                                       eligible |-> MayFire(o[1])]]
  BY <1>0
<1>3. PICK f : f = [pc |-> "read", dues |-> dues \ {o}, item |-> o, eligible |-> MayFire(o[1])]
  OBVIOUS
<1>4. dues \subseteq Due /\ o \in dues
  BY DEF Collected, Scanned, Foremost
<1>5. dues \subseteq Occurrences /\ o \in Occurrences
  BY <1>4, DueFacts DEF ScheduleInv
<1>6. MayFire(o[1]) \in BOOLEAN
  BY <1>5, OccurrenceFacts DEF MayFire, ScheduleInv, Typed, Columns
<1>7. f \in Fires /\ f.item = o /\ f.dues = dues \ {o} /\ f.pc = "read"
  BY <1>3, <1>5, <1>6 DEF Fires
<1>8. FireEligible(f) /\ FireDone(f, Accounted)
  BY <1>3 DEF FireEligible, FireDone
<1>9. ASSUME NEW q \in dues PROVE Before(Accounted \cup dues, q)
  <2> SUFFICES ASSUME NEW p \in Occurrences, p[1] = q[1], p[2] \in Cron[q[1]], p[2] < q[2]
               PROVE  p \in Accounted \cup dues
    BY DEF Before
  <2>1. q[1] \in Schedules /\ q \in Due
    BY <1>4, <1>5, OccurrenceFacts
  <2>2. p[2] \in Nat /\ row[q[1]].last \in Nat
    BY <2>1, MinuteFacts, OccurrenceFacts DEF ScheduleInv, Typed, Columns
  <2>3. CASE p[2] <= row[q[1]].last
    BY <2>1, <2>3 DEF ScheduleInv, MarkersAccounted, Passed
  <2>4. CASE row[q[1]].last < p[2]
    <3>1. p \in DueOf(q[1])
      BY <2>1, <2>4, DueFacts DEF ScheduleInv
    <3> QED
      BY <3>1 DEF Collected
  <2> QED
    BY <2>2, <2>3, <2>4
<1>10. FireOrdered(f, Accounted)
  <2>1. Before(Accounted, o)
    <3> SUFFICES ASSUME NEW p \in Occurrences, p[1] = o[1], p[2] \in Cron[o[1]], p[2] < o[2]
                 PROVE  p \in Accounted
      BY DEF Before
    <3>1. p \in Accounted \cup dues
      BY <1>4, <1>9 DEF Before
    <3>2. p \notin dues
      <4>1. p[2] \in Nat /\ o[2] \in Nat
        BY <1>5, OccurrenceFacts, MinuteFacts
      <4> QED
        BY <4>1 DEF Foremost
    <3> QED
      BY <3>1, <3>2
  <2>2. ASSUME NEW q \in f.dues PROVE Before(Accounted \cup f.dues \cup {f.item}, q)
    <3>1. Accounted \cup f.dues \cup {f.item} = Accounted \cup dues /\ q \in dues
      BY <1>4, <1>7
    <3> QED
      BY <1>9, <3>1
  <2> QED
    BY <1>7, <2>1, <2>2 DEF FireOrdered
<1>11. Accounted' = Accounted
  BY DEF CollectDue, Accounted, history
<1>12. runs' \in [Occurrences -> Nat] /\ ClaimsCounted'
  BY DEF ScheduleInv, Typed, Columns, ClaimsCounted, CollectDue
<1> HIDE DEF w
<1> QED
  BY <1>1, <1>2, <1>3, <1>5, <1>7, <1>8, <1>10, <1>11, <1>12, HistoryTyped, FireKept
     DEF CollectDue

\* A manual trigger starts a fire of the minute its replica's clock shows.
LEMMA TriggerScheduleAccounted ==
    ASSUME ScheduleInv, NEW r \in Replicas, NEW s \in Schedules, TriggerSchedule(r, s)
    PROVE  ScheduleInv'
<1> DEFINE w == <<r, "trigger">>
<1>1. w \in Workers /\ ~ IsTick(w)
  BY DEF Workers, IsTick
<1>0. PICK n \in LocalMinutes :
          work' = [work EXCEPT ![w] = [pc |-> "read", dues |-> {}, item |-> <<s, n>>,
                                       eligible |-> MayFire(s)]]
  BY DEF TriggerSchedule
<1>2. PICK f : f = [pc |-> "read", dues |-> {}, item |-> <<s, n>>, eligible |-> MayFire(s)]
  OBVIOUS
<1>3. <<s, n>> \in Occurrences /\ MayFire(s) \in BOOLEAN
  BY DEF LocalMinutes, MayFire, ScheduleInv, Typed, Columns, Occurrences
<1>4. f \in Fires /\ f.item \in Occurrences
  BY <1>2, <1>3 DEF Fires
<1>5. FireEligible(f) /\ FireDone(f, Accounted')
  BY <1>2 DEF FireEligible, FireDone
<1>6. Accounted' = Accounted
  BY DEF TriggerSchedule, Accounted, history
<1>7. runs' \in [Occurrences -> Nat] /\ ClaimsCounted'
  BY DEF ScheduleInv, Typed, Columns, ClaimsCounted, TriggerSchedule
<1>8. work' = [work EXCEPT ![w] = f]
  BY <1>0, <1>2
<1> HIDE DEF w
<1> QED
  BY <1>1, <1>4, <1>5, <1>6, <1>7, <1>8, HistoryTyped, FireKept DEF TriggerSchedule

-----------------------------------------------------------------------------
(* The steps of a fire                                                     *)

\* A fire that goes on with the same occurrence: to the enqueue if it was eligible,
\* to the advance if it is accounted for.
LEMMA FireGoesOn ==
    ASSUME ScheduleInv, NEW w \in Workers, work[w].pc # "idle",
           NEW pc \in {"enqueue", "advance"}, NEW acc, Accounted \subseteq acc,
           pc = "enqueue" => work[w].eligible, pc = "advance" => work[w].item \in acc
    PROVE  LET f == [work[w] EXCEPT !.pc = pc]
           IN  /\ f \in Fires /\ f.item \in Occurrences
               /\ FireEligible(f) /\ FireDone(f, acc)
               /\ IsTick(w) => FireOrdered(f, acc)
<1>1. work[w] \in Fires /\ work[w].item \in Occurrences
  BY WorkTyped DEF ScheduleInv
<1>2. PICK f : f = [work[w] EXCEPT !.pc = pc]
  OBVIOUS
<1>3. /\ f \in Fires /\ f.pc = pc /\ f.item = work[w].item
      /\ f.dues = work[w].dues /\ f.eligible = work[w].eligible
  BY <1>1, <1>2 DEF Fires
<1>4. FireEligible(f) /\ FireDone(f, acc)
  BY <1>3 DEF FireEligible, FireDone
<1>5. ASSUME IsTick(w) PROVE FireOrdered(f, acc)
  <2>1. FireOrdered(work[w], acc)
    BY <1>5, FireGrows DEF ScheduleInv, FiresAccounted
  <2> QED
    BY <1>3, <2>1 DEF FireOrdered
<1> QED
  BY <1>1, <1>2, <1>3, <1>4, <1>5

\* The re-read goes on only with a schedule that is fit to fire now, and records what
\* it skips (fireSchedule).
LEMMA RereadAccounted ==
    ASSUME ScheduleInv, NEW w \in Workers, Reread(w)
    PROVE  ScheduleInv'
<1>1. work[w].pc = "read" /\ work[w] \in Fires /\ work[w].item \in Occurrences
  BY WorkTyped DEF ScheduleInv, Reread
<1>2. Accounted \subseteq Accounted' /\ Accounted' \subseteq Occurrences
  BY <1>1, HistoryTyped DEF Reread, Accounted
<1>3. runs' \in [Occurrences -> Nat] /\ ClaimsCounted'
  BY DEF ScheduleInv, Typed, Columns, ClaimsCounted, Reread
<1>4. work \in [Workers -> Fires]
  BY WorkTyped DEF ScheduleInv
<1>5. CASE FireAllowed(work[w].item[1])
  <2>1. work[w].eligible
    BY <1>1, <1>5 DEF ScheduleInv, FiresEligible, FireEligible, FireAllowed
  <2>2. PICK f : f = [work[w] EXCEPT !.pc = "enqueue"]
    OBVIOUS
  <2>3. work' = [work EXCEPT ![w] = f]
    BY <1>4, <1>5, <2>2 DEF Reread
  <2>4. /\ f \in Fires /\ f.item \in Occurrences /\ FireEligible(f) /\ FireDone(f, Accounted')
        /\ IsTick(w) => FireOrdered(f, Accounted')
    BY <1>1, <1>2, <2>1, <2>2, FireGoesOn
  <2> QED
    BY <1>2, <1>3, <2>3, <2>4, FireKept DEF Reread
<1>6. CASE ~ FireAllowed(work[w].item[1]) /\ IsTick(w)
  <2>1. work[w].item \in Accounted'
    BY <1>6 DEF Reread, Accounted
  <2>2. PICK f : f = [work[w] EXCEPT !.pc = "advance"]
    OBVIOUS
  <2>3. work' = [work EXCEPT ![w] = f]
    BY <1>6, <2>2 DEF Reread
  <2>4. /\ f \in Fires /\ f.item \in Occurrences /\ FireEligible(f) /\ FireDone(f, Accounted')
        /\ IsTick(w) => FireOrdered(f, Accounted')
    BY <1>1, <1>2, <2>1, <2>2, FireGoesOn
  <2> QED
    BY <1>2, <1>3, <2>3, <2>4, FireKept DEF Reread
<1>7. CASE ~ FireAllowed(work[w].item[1]) /\ ~ IsTick(w)
  <2>1. work' = [work EXCEPT ![w] = Idle]
    BY <1>7 DEF Reread
  <2> QED
    BY <1>2, <1>3, <2>1, IdleFacts, FireKept DEF Reread
<1> QED
  BY <1>5, <1>6, <1>7

\* A run is only added to an occurrence whose claim was free (insertScheduleClaimTx).
LEMMA RunCounted ==
    ASSUME ScheduleInv, NEW o \in Occurrences, ~ ClaimLost(o),
           runs' = [runs EXCEPT ![o] = @ + 1], claimed' = claimed \cup {o}
    PROVE  runs' \in [Occurrences -> Nat] /\ ClaimsCounted'
<1>1. runs \in [Occurrences -> Nat] /\ runs[o] = 0
  BY DEF ScheduleInv, Typed, Columns, ClaimsCounted, ClaimLost
<1>2. \A p \in Occurrences : runs'[p] = IF p = o THEN 1 ELSE runs[p]
  BY <1>1
<1> QED
  BY <1>1, <1>2 DEF ScheduleInv, ClaimsCounted

\* The enqueue claims the occurrence, or finds it claimed, before a tick advances.
LEMMA EnqueueAccounted ==
    ASSUME ScheduleInv, NEW w \in Workers, Enqueue(w)
    PROVE  ScheduleInv'
<1>1. work[w].pc = "enqueue" /\ work[w] \in Fires /\ work[w].item \in Occurrences
  BY WorkTyped DEF ScheduleInv, Enqueue
<1>2. Accounted \subseteq Accounted' /\ Accounted' \subseteq Occurrences
  BY <1>1, HistoryTyped DEF Enqueue, Accounted, history
<1>3. work \in [Workers -> Fires]
  BY WorkTyped DEF ScheduleInv
<1>4. runs' \in [Occurrences -> Nat] /\ ClaimsCounted'
  <2>1. CASE UNCHANGED <<runs, claimed>>
    BY <2>1 DEF ScheduleInv, Typed, Columns, ClaimsCounted
  <2>2. CASE ~ UNCHANGED <<runs, claimed>>
    BY <1>1, <2>2, RunCounted DEF Enqueue
  <2> QED
    BY <2>1, <2>2
<1>5. CASE work' = [work EXCEPT ![w] = Idle]
  BY <1>2, <1>4, <1>5, IdleFacts, FireKept DEF Enqueue
<1>6. CASE work' = [work EXCEPT ![w] = [work[w] EXCEPT !.pc = "advance"]]
           /\ work[w].item \in claimed'
  <2>1. work[w].item \in Accounted'
    BY <1>6 DEF Accounted
  <2>2. PICK f : f = [work[w] EXCEPT !.pc = "advance"]
    OBVIOUS
  <2>3. /\ f \in Fires /\ f.item \in Occurrences /\ FireEligible(f) /\ FireDone(f, Accounted')
        /\ IsTick(w) => FireOrdered(f, Accounted')
    BY <1>1, <1>2, <2>1, <2>2, FireGoesOn
  <2> QED
    BY <1>2, <1>4, <1>6, <2>2, <2>3, FireKept DEF Enqueue
<1>7. work' = [work EXCEPT ![w] = Idle]
      \/ /\ work' = [work EXCEPT ![w] = [work[w] EXCEPT !.pc = "advance"]]
         /\ work[w].item \in claimed'
  <2>1. CASE w[1] # leader
    BY <2>1 DEF Enqueue
  <2>2. CASE w[1] = leader /\ ClaimLost(work[w].item)
    BY <2>2 DEF Enqueue, AfterLostClaim, ClaimLost
  <2>3. CASE w[1] = leader /\ ~ ClaimLost(work[w].item)
    BY <1>3, <2>3 DEF Enqueue
  <2> QED
    BY <2>1, <2>2, <2>3
<1> QED
  BY <1>5, <1>6, <1>7

\* A worker that sees an error leaves a failed occurrence behind, or one that was
\* settled already.
LEMMA SeesFailureAccounted ==
    ASSUME ScheduleInv, NEW w \in Workers, work[w].pc # "idle", SeesFailure(w),
           runs' \in [Occurrences -> Nat], ClaimsCounted',
           claimed \subseteq claimed', claimed' \subseteq Occurrences
    PROVE  ScheduleInv'
<1>1. work[w] \in Fires /\ work[w].item \in Occurrences
  BY WorkTyped DEF ScheduleInv
<1>2. Accounted \subseteq Accounted' /\ Accounted' \subseteq Occurrences
  BY <1>1, HistoryTyped DEF SeesFailure, Accounted
<1>3. IsTick(w) => work[w].item \in Accounted'
  <2>1. work[w].pc = "advance" => work[w].item \in Accounted
    BY DEF ScheduleInv, FiresAccounted, FireDone
  <2>2. IsTick(w) /\ work[w].pc # "advance" => work[w].item \in failed'
    BY DEF SeesFailure
  <2> QED
    BY <1>2, <2>1, <2>2 DEF Accounted
<1>4. PICK f \in NextItem(w) : work' = [work EXCEPT ![w] = f]
  BY DEF SeesFailure
<1>5. /\ f \in Fires /\ (f.pc # "idle" => f.item \in Occurrences)
      /\ FireEligible(f) /\ FireDone(f, Accounted')
      /\ IsTick(w) => FireOrdered(f, Accounted')
  BY <1>2, <1>3, NextItemFacts
<1> QED
  BY <1>2, <1>4, <1>5, FireKept DEF SeesFailure

\* A step that fails without effect.
LEMMA FireFailsAccounted ==
    ASSUME ScheduleInv, NEW w \in Workers, FireFails(w)
    PROVE  ScheduleInv'
<1>1. runs' \in [Occurrences -> Nat] /\ ClaimsCounted' /\ claimed' \subseteq Occurrences
  BY DEF ScheduleInv, Typed, Columns, ClaimsCounted, FireFails
<1> QED
  BY <1>1, SeesFailureAccounted DEF FireFails

\* An enqueue that commits and is taken for a failure: the claim keeps the next
\* attempt from running it again.
LEMMA EnqueueAnswerLostAccounted ==
    ASSUME ScheduleInv, NEW w \in Workers, EnqueueAnswerLost(w)
    PROVE  ScheduleInv'
<1>1. work[w].item \in Occurrences /\ work[w].pc # "idle"
  BY WorkTyped DEF ScheduleInv, EnqueueAnswerLost
<1>2. runs' \in [Occurrences -> Nat] /\ ClaimsCounted'
  BY <1>1, RunCounted DEF EnqueueAnswerLost
<1>3. claimed \subseteq claimed' /\ claimed' \subseteq Occurrences
  BY <1>1 DEF ScheduleInv, Typed, Columns, EnqueueAnswerLost
<1> QED
  BY <1>1, <1>2, <1>3, SeesFailureAccounted DEF EnqueueAnswerLost

\* The marker moves to an occurrence that is accounted for, past earlier ones that
\* are (AdvanceScheduleLastRun); a trigger's advance overtakes the rest.
LEMMA AdvanceAccounted ==
    ASSUME ScheduleInv, NEW w \in Workers, Advance(w)
    PROVE  ScheduleInv'
<1> DEFINE s == work[w].item[1]
           n == work[w].item[2]
<1>1. /\ work[w].pc = "advance" /\ work[w].item \in Occurrences
      /\ s \in Schedules /\ n \in Minutes /\ n \in Nat /\ n \in 0..Horizon
  BY WorkTyped, OccurrenceFacts, MinuteFacts DEF ScheduleInv, Advance
<1>2. Accounted \subseteq Accounted' /\ Accounted' \subseteq Occurrences
  BY HistoryTyped DEF Advance, Accounted
<1>3. work[w].item \in Accounted
  BY <1>1 DEF ScheduleInv, FiresAccounted, FireDone
<1>4. row[s].last \in Nat /\ row[s].last \in 0..Horizon /\ row[s].enabled \in BOOLEAN
  BY <1>1, MinuteFacts DEF ScheduleInv, Typed, Columns
<1>5. CASE row' = row
  <2>1. PICK f \in NextItem(w) : work' = [work EXCEPT ![w] = f]
    BY DEF Advance
  <2>2. /\ f \in Fires /\ (f.pc # "idle" => f.item \in Occurrences)
        /\ FireEligible(f) /\ FireDone(f, Accounted')
        /\ IsTick(w) => FireOrdered(f, Accounted')
    BY <1>1, <1>2, <1>3, NextItemFacts
  <2>3. runs' \in [Occurrences -> Nat] /\ ClaimsCounted'
    BY DEF ScheduleInv, Typed, Columns, ClaimsCounted, Advance
  <2> QED
    BY <1>2, <1>5, <2>1, <2>2, <2>3, FireKept DEF Advance
<1>6. CASE w[1] = leader
  <2>1. /\ row' = [row EXCEPT ![s].last = Later(@, n)]
        /\ ~ IsTick(w) => overtaken' = overtaken \cup {o \in Occurrences : o[1] = s /\ o[2] < n}
    BY <1>6 DEF Advance
  <2>2. Later(row[s].last, n) \in 0..Horizon
    BY <1>1, <1>4 DEF Later
  <2>3. /\ row' \in [Schedules -> [enabled : BOOLEAN, last : 0..Horizon]]
        /\ \A t \in Schedules : row'[t].enabled = row[t].enabled
        /\ row'[s].last = Later(row[s].last, n)
        /\ \A t \in Schedules : t # s => row'[t].last = row[t].last
    BY <1>1, <2>1, <2>2 DEF ScheduleInv, Typed, Columns
  <2>4. PICK f \in NextItem(w) : work' = [work EXCEPT ![w] = f]
    BY DEF Advance
  <2>5. /\ f \in Fires /\ (f.pc # "idle" => f.item \in Occurrences)
        /\ FireEligible(f) /\ FireDone(f, Accounted')
        /\ IsTick(w) => FireOrdered(f, Accounted')
    BY <1>1, <1>2, <1>3, NextItemFacts
  <2>6. \A t \in Schedules : MayFire(t)' = MayFire(t)
    BY <2>3 DEF MayFire, Advance
  <2>7. /\ work' \in [Workers -> Fires]
        /\ \A v \in Workers : work'[v].pc # "idle" => work'[v].item \in Occurrences
        /\ FiresEligible'
        /\ FiresAccounted(Accounted)'
    BY <1>2, <2>4, <2>5, <2>6, FireTaken
  <2>8. Typed'
    BY <1>2, <2>3, <2>7 DEF ScheduleInv, Typed, Columns, Fires, Accounted, Advance
  <2>9. ClaimsCounted'
    BY DEF ScheduleInv, ClaimsCounted, Advance
  <2>10. Before(Accounted', work[w].item)
    <3>1. CASE IsTick(w)
      <4>1. Before(Accounted, work[w].item)
        BY <3>1, <1>1 DEF ScheduleInv, FiresAccounted, FireOrdered
      <4> QED
        BY <4>1, <1>2, BeforeGrows
    <3>2. CASE ~ IsTick(w)
      BY <3>2, <2>1 DEF Before, Accounted
    <3> QED
      BY <3>1, <3>2
  <2>11. Passed(Accounted', s, n)
    <3> SUFFICES ASSUME NEW o \in Occurrences, o[1] = s, o[2] \in Cron[s], o[2] <= n
                 PROVE  o \in Accounted'
      BY DEF Passed
    <3>1. o[2] \in Nat
      BY OccurrenceFacts, MinuteFacts
    <3>2. CASE o[2] < n
      BY <3>2, <2>10 DEF Before
    <3>3. CASE o[2] = n
      <4>1. o = work[w].item
        BY <3>3, <1>1, SameOccurrence
      <4> QED
        BY <4>1, <1>2, <1>3
    <3> QED
      BY <3>1, <3>2, <3>3, <1>1
  <2>12. MarkersAccounted(Accounted)'
    <3>1. ASSUME NEW t \in Schedules PROVE Passed(Accounted', t, row'[t].last)
      <4>1. Passed(Accounted', t, row[t].last)
        BY <1>2, PassedGrows DEF ScheduleInv, MarkersAccounted
      <4>2. row'[t].last = row[t].last \/ (t = s /\ row'[t].last = n)
        BY <2>3 DEF Later
      <4> QED
        BY <4>1, <4>2, <2>11
    <3>2. ASSUME NEW r \in Replicas, edit'[r].pc = "write"
          PROVE  Passed(Accounted', edit'[r].id, edit'[r].last)
      BY <3>2, <1>2, PassedGrows DEF ScheduleInv, MarkersAccounted, Advance
    <3> QED
      BY <3>1, <3>2 DEF MarkersAccounted
  <2> QED
    BY <2>7, <2>8, <2>9, <2>12 DEF ScheduleInv
<1> QED
  BY <1>5, <1>6 DEF Advance

-----------------------------------------------------------------------------
(* Administration and the environment                                      *)

\* An update reads a marker that is accounted for ...
LEMMA UpsertReadsAccounted ==
    ASSUME ScheduleInv, NEW r \in Replicas, NEW s \in Schedules, UpsertReads(r, s)
    PROVE  ScheduleInv'
<1>1. row[s].last \in 0..Horizon
  BY DEF ScheduleInv, Typed, Columns
<1>2. PICK e : e = [pc |-> "write", id |-> s, last |-> row[s].last]
  OBVIOUS
<1>3. e \in Edits /\ e.pc = "write" /\ e.id = s /\ e.last = row[s].last
  BY <1>1, <1>2 DEF Edits
<1>4. /\ edit' \in [Replicas -> Edits]
      /\ \A q \in Replicas : edit'[q] = IF q = r THEN e ELSE edit[q]
  BY <1>2, <1>3 DEF ScheduleInv, Typed, UpsertReads
<1>5. \A q \in Replicas : edit'[q].last \in 0..Horizon
  BY <1>4 DEF Edits
<1>6. Typed'
  BY <1>3, <1>4, <1>5 DEF ScheduleInv, Typed, Columns, UpsertReads, history
<1>7. Accounted' = Accounted
  BY DEF UpsertReads, Accounted, history
<1>8. ClaimsCounted' /\ FiresEligible' /\ FiresAccounted(Accounted)'
  BY <1>7 DEF ScheduleInv, ClaimsCounted, FiresEligible, FireEligible, MayFire, FiresAccounted,
              UpsertReads
<1>9. MarkersAccounted(Accounted)'
  BY <1>3, <1>4, <1>7 DEF ScheduleInv, MarkersAccounted, UpsertReads
<1> QED
  BY <1>6, <1>8, <1>9 DEF ScheduleInv

\* ... and may write it back later, below the one it replaces; a schedule it enables
\* makes the fires that are in progress eligible.
LEMMA UpsertScheduleAccounted ==
    ASSUME ScheduleInv, NEW r \in Replicas, NEW on \in BOOLEAN, UpsertSchedule(r, on)
    PROVE  ScheduleInv'
<1> DEFINE s == edit[r].id
<1>1. s \in Schedules /\ edit[r].last \in 0..Horizon /\ edit[r].pc = "write"
  BY DEF ScheduleInv, Typed, Columns, UpsertSchedule
<1>2. PICK new : new = [enabled |-> on, last |-> edit[r].last]
  OBVIOUS
<1>3. new \in [enabled : BOOLEAN, last : 0..Horizon] /\ new.enabled = on /\ new.last = edit[r].last
  BY <1>1, <1>2
<1>4. /\ row' \in [Schedules -> [enabled : BOOLEAN, last : 0..Horizon]]
      /\ \A t \in Schedules : row'[t] = IF t = s THEN new ELSE row[t]
  BY <1>1, <1>2, <1>3 DEF ScheduleInv, Typed, Columns, UpsertSchedule
<1>5. NoEdit \in Edits /\ NoEdit.pc = "idle"
  BY SchedulesAssumption DEF NoEdit, Edits
<1>6. /\ edit' \in [Replicas -> Edits]
      /\ \A q \in Replicas : edit'[q] = IF q = r THEN NoEdit ELSE edit[q]
  BY <1>5 DEF ScheduleInv, Typed, UpsertSchedule
<1>7. ASSUME NEW w \in Workers
      PROVE  /\ work'[w] \in Fires
             /\ work'[w].pc = work[w].pc /\ work'[w].item = work[w].item
             /\ work'[w].dues = work[w].dues
             /\ work[w].eligible => work'[w].eligible
             /\ (work[w].item \in Occurrences /\ work[w].item[1] = s /\ on /\ s \notin revoked)
                    => work'[w].eligible
  <2>1. work[w] \in Fires
    BY WorkTyped DEF ScheduleInv
  <2>2. work[w].item \in Occurrences => work[w].item # NoOccurrence
    BY OccurrenceFacts
  <2> QED
    BY <2>1, <2>2 DEF UpsertSchedule, Fires
<1>8. work' \in [Workers -> Fires]
  BY <1>7 DEF UpsertSchedule
<1>9. \A w \in Workers : work'[w].pc # "idle" => work'[w].item \in Occurrences
  BY <1>7, WorkTyped DEF ScheduleInv
<1>10. \A q \in Replicas : edit'[q].last \in 0..Horizon
  BY <1>6 DEF Edits
<1>11. Typed'
  BY <1>4, <1>5, <1>6, <1>8, <1>9, <1>10
     DEF ScheduleInv, Typed, Columns, Fires, UpsertSchedule, history
<1>12. Accounted' = Accounted
  BY DEF UpsertSchedule, Accounted, history
<1>13. FiresEligible'
  <2> SUFFICES ASSUME NEW w \in Workers PROVE FireEligible(work[w])'
    BY DEF FiresEligible
  <2>1. FireEligible(work[w])
    BY DEF ScheduleInv, FiresEligible
  <2>2. work'[w].pc = "enqueue" => work'[w].eligible
    BY <1>7, <2>1 DEF FireEligible
  <2>3. ASSUME work'[w].pc = "read", MayFire(work[w].item[1])' PROVE work'[w].eligible
    <3>1. work[w].pc = "read" /\ work[w].item \in Occurrences /\ work'[w].item = work[w].item
      BY <1>7, <2>3, WorkTyped DEF ScheduleInv
    <3>2. work[w].item[1] \in Schedules
      BY <3>1, OccurrenceFacts
    <3>3. row'[work[w].item[1]].enabled /\ work[w].item[1] \notin revoked
      BY <2>3, <3>1 DEF MayFire, UpsertSchedule
    <3>4. CASE work[w].item[1] = s
      BY <1>3, <1>4, <1>7, <3>1, <3>2, <3>3, <3>4
    <3>5. CASE work[w].item[1] # s
      BY <1>4, <1>7, <2>1, <3>1, <3>2, <3>3, <3>5 DEF FireEligible, MayFire
    <3> QED
      BY <3>4, <3>5
  <2> QED
    BY <2>2, <2>3 DEF FireEligible
<1>14. ClaimsCounted'
  BY DEF ScheduleInv, ClaimsCounted, UpsertSchedule
<1>15. FiresAccounted(Accounted)'
  <2> SUFFICES ASSUME NEW w \in Workers
               PROVE  /\ FireDone(work'[w], Accounted)
                      /\ IsTick(w) => FireOrdered(work'[w], Accounted)
    BY <1>12 DEF FiresAccounted
  <2>1. FireDone(work[w], Accounted) /\ (IsTick(w) => FireOrdered(work[w], Accounted))
    BY DEF ScheduleInv, FiresAccounted
  <2>2. /\ work'[w].pc = work[w].pc /\ work'[w].item = work[w].item
        /\ work'[w].dues = work[w].dues
    BY <1>7
  <2> QED
    BY <2>1, <2>2 DEF FireDone, FireOrdered
<1>16. MarkersAccounted(Accounted)'
  <2>1. Passed(Accounted, s, edit[r].last)
    BY <1>1 DEF ScheduleInv, MarkersAccounted
  <2>2. ASSUME NEW t \in Schedules PROVE Passed(Accounted', t, row'[t].last)
    BY <1>3, <1>4, <1>12, <2>1 DEF ScheduleInv, MarkersAccounted
  <2>3. ASSUME NEW q \in Replicas, edit'[q].pc = "write"
        PROVE  Passed(Accounted', edit'[q].id, edit'[q].last)
    BY <1>5, <1>6, <1>12, <2>3 DEF ScheduleInv, MarkersAccounted
  <2> QED
    BY <2>2, <2>3 DEF MarkersAccounted
<1> QED
  BY <1>11, <1>13, <1>14, <1>15, <1>16 DEF ScheduleInv

\* A revocation makes no schedule fit to fire.
LEMMA RevokeGrantAccounted ==
    ASSUME ScheduleInv, NEW s \in Schedules, RevokeGrant(s)
    PROVE  ScheduleInv'
<1>1. Accounted' = Accounted
  BY DEF RevokeGrant, Accounted, history
<1>2. Typed'
  BY DEF ScheduleInv, Typed, Columns, RevokeGrant, history
<1>3. FiresEligible'
  BY DEF ScheduleInv, FiresEligible, FireEligible, MayFire, RevokeGrant
<1>4. ClaimsCounted' /\ FiresAccounted(Accounted)' /\ MarkersAccounted(Accounted)'
  BY <1>1 DEF ScheduleInv, ClaimsCounted, FiresAccounted, MarkersAccounted, RevokeGrant
<1> QED
  BY <1>2, <1>3, <1>4 DEF ScheduleInv

\* The clock and a change of leader leave fires and markers alone.
LEMMA ClockAndLeaderAccounted ==
    ASSUME ScheduleInv, now' \in 0..Horizon, leader' \in Replicas,
           UNCHANGED <<row, revoked, runs, claimed, work, edit, history>>
    PROVE  ScheduleInv'
<1>1. Accounted' = Accounted
  BY DEF Accounted, history
<1>2. Typed'
  BY DEF ScheduleInv, Typed, Columns, history
<1>3. ClaimsCounted' /\ FiresEligible' /\ FiresAccounted(Accounted)' /\ MarkersAccounted(Accounted)'
  BY <1>1 DEF ScheduleInv, ClaimsCounted, FiresEligible, FireEligible, MayFire, FiresAccounted,
              MarkersAccounted
<1> QED
  BY <1>2, <1>3 DEF ScheduleInv

\* A crash drops fires and updates.
LEMMA CrashAccounted ==
    ASSUME ScheduleInv, NEW r \in Replicas, Crash(r)
    PROVE  ScheduleInv'
<1>1. Accounted' = Accounted
  BY DEF Crash, Accounted, history
<1>2. work' \in [Workers -> Fires] /\ \A w \in Workers : work'[w] \in {Idle, work[w]}
  BY IdleFacts, WorkTyped DEF ScheduleInv, Crash
<1>3. NoEdit \in Edits /\ NoEdit.pc = "idle"
  BY SchedulesAssumption DEF NoEdit, Edits
<1>4. /\ edit' \in [Replicas -> Edits]
      /\ \A q \in Replicas : edit'[q] = IF q = r THEN NoEdit ELSE edit[q]
  BY <1>3 DEF ScheduleInv, Typed, Crash
<1>5. \A q \in Replicas : edit'[q].last \in 0..Horizon
  BY <1>4 DEF Edits
<1>6. \A w \in Workers : work'[w].pc # "idle" => work'[w].item \in Occurrences
  BY <1>2, IdleFacts, WorkTyped DEF ScheduleInv
<1>7. Typed'
  BY <1>2, <1>3, <1>4, <1>5, <1>6 DEF ScheduleInv, Typed, Columns, Fires, Crash, history
<1>8. FiresEligible'
  <2>1. \A w \in Workers : FireEligible(work'[w])
    BY <1>2, IdleFacts DEF ScheduleInv, FiresEligible
  <2> QED
    BY <2>1 DEF FiresEligible, FireEligible, MayFire, Crash
<1>9. ClaimsCounted'
  BY DEF ScheduleInv, ClaimsCounted, Crash
<1>10. FiresAccounted(Accounted)'
  BY <1>1, <1>2, IdleFacts DEF ScheduleInv, FiresAccounted
<1>11. MarkersAccounted(Accounted)'
  <2>1. ASSUME NEW q \in Replicas, edit'[q].pc = "write"
        PROVE  Passed(Accounted', edit'[q].id, edit'[q].last)
    BY <1>1, <1>3, <1>4, <2>1 DEF ScheduleInv, MarkersAccounted
  <2> QED
    BY <1>1, <2>1 DEF ScheduleInv, MarkersAccounted, Crash
<1> QED
  BY <1>7, <1>8, <1>9, <1>10, <1>11 DEF ScheduleInv

-----------------------------------------------------------------------------
(* The theorems                                                            *)

\* Every step keeps the invariant.
LEMMA NextAccounted == ScheduleInv /\ [Next]_vars => ScheduleInv'
<1> SUFFICES ASSUME ScheduleInv, [Next]_vars PROVE ScheduleInv'
  OBVIOUS
<1>1. ASSUME NEW w \in Workers, WorkerStep(w) \/ FireFails(w) \/ EnqueueAnswerLost(w)
      PROVE  ScheduleInv'
  BY <1>1, RereadAccounted, EnqueueAccounted, AdvanceAccounted, FireFailsAccounted,
     EnqueueAnswerLostAccounted DEF WorkerStep
<1>2. ASSUME NEW r \in Replicas, CollectDue(r) PROVE ScheduleInv'
  BY <1>2, CollectDueAccounted
<1>3. ASSUME NEW r \in Replicas, NEW s \in Schedules, TriggerSchedule(r, s) \/ UpsertReads(r, s)
      PROVE  ScheduleInv'
  BY <1>3, TriggerScheduleAccounted, UpsertReadsAccounted
<1>4. ASSUME NEW r \in Replicas, NEW on \in BOOLEAN, UpsertSchedule(r, on) PROVE ScheduleInv'
  BY <1>4, UpsertScheduleAccounted
<1>5. ASSUME NEW r \in Replicas, ChangeLeader(r) PROVE ScheduleInv'
  BY <1>5, ClockAndLeaderAccounted DEF ChangeLeader, ScheduleInv, Typed, Columns
<1>6. ASSUME NEW r \in Replicas, Crash(r) PROVE ScheduleInv'
  BY <1>6, CrashAccounted
<1>7. ASSUME NEW s \in Schedules, RevokeGrant(s) PROVE ScheduleInv'
  BY <1>7, RevokeGrantAccounted
<1>8. CASE MinutePasses
  <2>1. now' \in 0..Horizon
    BY <1>8, SchedulesAssumption DEF MinutePasses, ScheduleInv, Typed, Columns
  <2> QED
    BY <1>8, <2>1, ClockAndLeaderAccounted DEF MinutePasses, ScheduleInv, Typed, Columns
<1>9. CASE UNCHANGED vars
  BY <1>9, ClockAndLeaderAccounted DEF vars, ScheduleInv, Typed, Columns
<1> QED
  BY <1>1, <1>2, <1>3, <1>4, <1>5, <1>6, <1>7, <1>8, <1>9 DEF Next

\* ScheduleInv is an invariant of the schedules, for any cron expressions, horizon,
\* number of replicas and limit of a tick.
THEOREM ScheduleInvariance == Spec => []ScheduleInv
BY InitAccounted, NextAccounted, PTL DEF Spec

-----------------------------------------------------------------------------
(* Markers and the clock                                                   *)

\* Fire f is of a minute up to n, and so is what it has still to fire.
FireBy(f, n) ==
    /\ f.pc # "idle" => f.item[2] <= n
    /\ \A o \in f.dues : o[2] <= n

\* No marker, no marker in the hands of an update and no fire is of a minute that no
\* replica's clock can show yet.
ClockInv ==
    /\ MarkersOnTime
    /\ \A r \in Replicas : edit[r].last <= now + ClockSkew
    /\ \A w \in Workers : FireBy(work[w], now + ClockSkew)

\* Nothing is late at the start.
LEMMA InitOnTime == Init => ClockInv
BY SchedulesAssumption
   DEF Init, ClockInv, MarkersOnTime, FireBy, Idle, NoEdit, Occurrences, NoOccurrence

\* A worker that goes on with a fire of such a minute.
LEMMA FireOnTime ==
    ASSUME ScheduleInv, ClockInv, NEW w \in Workers, NEW f, FireBy(f, now + ClockSkew),
           work' = [work EXCEPT ![w] = f], UNCHANGED <<now, row, edit>>
    PROVE  ClockInv'
<1>1. work \in [Workers -> Fires]
  BY WorkTyped DEF ScheduleInv
<1>2. \A v \in Workers : work'[v] = IF v = w THEN f ELSE work[v]
  BY <1>1
<1>3. \A v \in Workers : FireBy(work'[v], now + ClockSkew)
  BY <1>2 DEF ClockInv
<1> QED
  BY <1>3 DEF ClockInv, MarkersOnTime

\* What a worker may go on with.
LEMMA GoesOnOnTime ==
    ASSUME ScheduleInv, ClockInv, NEW w \in Workers
    PROVE  /\ FireBy(Idle, now + ClockSkew)
           /\ \A f \in NextItem(w) : FireBy(f, now + ClockSkew)
           /\ work[w].pc # "idle" =>
                 \A pc : FireBy([work[w] EXCEPT !.pc = pc], now + ClockSkew)
<1>1. work[w] \in Fires /\ FireBy(work[w], now + ClockSkew)
  BY WorkTyped DEF ScheduleInv, ClockInv
<1>2. FireBy(Idle, now + ClockSkew)
  BY DEF FireBy, Idle
<1>3. ASSUME NEW f \in NextItem(w) PROVE FireBy(f, now + ClockSkew)
  <2>1. CASE work[w].dues = {}
    BY <2>1, <1>2 DEF NextItem
  <2>2. CASE work[w].dues # {}
    <3>1. PICK o \in work[w].dues :
              f = [pc |-> "read", dues |-> work[w].dues \ {o}, item |-> o,
                   eligible |-> MayFire(o[1])]
      BY <2>2 DEF NextItem, Foremost
    <3> QED
      BY <1>1, <3>1 DEF FireBy
  <2> QED
    BY <2>1, <2>2
<1>4. ASSUME work[w].pc # "idle", NEW pc
      PROVE  FireBy([work[w] EXCEPT !.pc = pc], now + ClockSkew)
  BY <1>1, <1>4 DEF FireBy, Fires
<1> QED
  BY <1>2, <1>3, <1>4

\* A tick collects what is due, and a trigger takes what its replica's clock shows.
LEMMA StartOnTime ==
    ASSUME ScheduleInv, ClockInv, NEW r \in Replicas,
           CollectDue(r) \/ \E s \in Schedules : TriggerSchedule(r, s)
    PROVE  ClockInv'
<1>1. CASE CollectDue(r)
  <2> DEFINE w == <<r, "tick">>
  <2>1. w \in Workers
    BY DEF Workers
  <2>a. PICK dues \in Collected : \E o \in Foremost(dues) :
            work' = [work EXCEPT ![w] = [pc |-> "read", dues |-> dues \ {o}, item |-> o,
                                         eligible |-> MayFire(o[1])]]
    BY <1>1 DEF CollectDue
  <2>2. PICK o \in Foremost(dues) :
            work' = [work EXCEPT ![w] = [pc |-> "read", dues |-> dues \ {o}, item |-> o,
                                         eligible |-> MayFire(o[1])]]
    BY <2>a
  <2>3. dues \subseteq Due /\ o \in dues
    BY <2>2 DEF Collected, Scanned, Foremost
  <2>4. ASSUME NEW p \in Due PROVE p[2] <= now + ClockSkew
    <3>a. PICK s \in Schedules : \E n \in Cron[s] : p = <<s, n>> /\ n <= now
      BY DEF Due, DueOf
    <3>1. PICK n \in Cron[s] : p = <<s, n>> /\ n <= now
      BY <3>a
    <3>2. n \in Nat /\ now \in Nat
      BY MinuteFacts DEF ScheduleInv, Typed, Columns
    <3> QED
      BY <3>1, <3>2, SchedulesAssumption
  <2>5. PICK f : f = [pc |-> "read", dues |-> dues \ {o}, item |-> o, eligible |-> MayFire(o[1])]
    OBVIOUS
  <2>6. FireBy(f, now + ClockSkew)
    BY <2>3, <2>4, <2>5 DEF FireBy
  <2> HIDE DEF w
  <2> QED
    BY <1>1, <2>1, <2>2, <2>5, <2>6, FireOnTime DEF CollectDue
<1>2. ASSUME NEW s \in Schedules, TriggerSchedule(r, s) PROVE ClockInv'
  <2> DEFINE w == <<r, "trigger">>
  <2>1. w \in Workers
    BY DEF Workers
  <2>2. PICK n \in LocalMinutes :
            work' = [work EXCEPT ![w] = [pc |-> "read", dues |-> {}, item |-> <<s, n>>,
                                         eligible |-> MayFire(s)]]
    BY <1>2 DEF TriggerSchedule
  <2>3. PICK f : f = [pc |-> "read", dues |-> {}, item |-> <<s, n>>, eligible |-> MayFire(s)]
    OBVIOUS
  <2>4. FireBy(f, now + ClockSkew)
    BY <2>3 DEF FireBy, LocalMinutes
  <2> HIDE DEF w
  <2> QED
    BY <1>2, <2>1, <2>2, <2>3, <2>4, FireOnTime DEF TriggerSchedule
<1> QED
  BY <1>1, <1>2

\* The steps of a fire; an advance takes the marker to the minute of its fire.
LEMMA WorkerOnTime ==
    ASSUME ScheduleInv, ClockInv, NEW w \in Workers,
           WorkerStep(w) \/ FireFails(w) \/ EnqueueAnswerLost(w)
    PROVE  ClockInv'
<1>1. PICK f : work' = [work EXCEPT ![w] = f] /\ FireBy(f, now + ClockSkew)
  <2>1. CASE Reread(w)
    BY <2>1, GoesOnOnTime DEF Reread
  <2>2. CASE Enqueue(w)
    <3>1. \A f \in AfterLostClaim(w) : FireBy(f, now + ClockSkew)
      BY <2>2, GoesOnOnTime DEF Enqueue, AfterLostClaim
    <3> QED
      BY <2>2, <3>1, GoesOnOnTime DEF Enqueue
  <2>3. CASE Advance(w) \/ FireFails(w) \/ EnqueueAnswerLost(w)
    BY <2>3, GoesOnOnTime DEF Advance, FireFails, EnqueueAnswerLost, SeesFailure
  <2> QED
    BY <2>1, <2>2, <2>3 DEF WorkerStep
<1>2. CASE row' = row
  BY <1>1, <1>2, FireOnTime
     DEF WorkerStep, Reread, Enqueue, Advance, FireFails, EnqueueAnswerLost, SeesFailure
<1>3. CASE row' # row
  <2> DEFINE s == work[w].item[1]
             n == work[w].item[2]
  <2>1. Advance(w) /\ row' = [row EXCEPT ![s].last = Later(@, n)]
    BY <1>3 DEF WorkerStep, Reread, Enqueue, Advance, FireFails, EnqueueAnswerLost, SeesFailure
  <2>2. work[w].pc # "idle" /\ n <= now + ClockSkew
    BY <2>1 DEF Advance, ClockInv, FireBy
  <2>3. \A t \in Schedules : row'[t].last \in {row[t].last, n}
    BY <2>1 DEF ScheduleInv, Typed, Columns, Later
  <2>4. MarkersOnTime'
    BY <2>1, <2>2, <2>3 DEF Advance, ClockInv, MarkersOnTime
  <2>5. \A v \in Workers : work'[v] = IF v = w THEN f ELSE work[v]
    BY <1>1, WorkTyped DEF ScheduleInv
  <2>6. \A v \in Workers : FireBy(work'[v], now + ClockSkew)
    BY <1>1, <2>5 DEF ClockInv
  <2> QED
    BY <2>1, <2>4, <2>6 DEF Advance, ClockInv
<1> QED
  BY <1>2, <1>3

\* Every step keeps the markers on time.
LEMMA NextOnTime == ScheduleInv /\ ClockInv /\ [Next]_vars => ClockInv'
<1> SUFFICES ASSUME ScheduleInv, ClockInv, [Next]_vars PROVE ClockInv'
  OBVIOUS
<1>1. ASSUME NEW r \in Replicas, NEW s \in Schedules, UpsertReads(r, s) PROVE ClockInv'
  <2>1. \A q \in Replicas : edit'[q].last \in {edit[q].last, row[s].last}
    BY <1>1 DEF UpsertReads, ScheduleInv, Typed
  <2> QED
    BY <1>1, <2>1 DEF UpsertReads, ClockInv, MarkersOnTime
<1>2. ASSUME NEW r \in Replicas, NEW on \in BOOLEAN, UpsertSchedule(r, on) PROVE ClockInv'
  <2>1. \A t \in Schedules : row'[t].last \in {row[t].last, edit[r].last}
    BY <1>2 DEF UpsertSchedule, ScheduleInv, Typed, Columns
  <2>2. \A q \in Replicas : edit'[q].last \in {edit[q].last, 0}
    BY <1>2 DEF UpsertSchedule, NoEdit, ScheduleInv, Typed
  <2>3. \A w \in Workers : /\ work'[w].pc = work[w].pc /\ work'[w].item = work[w].item
                           /\ work'[w].dues = work[w].dues
    BY <1>2, WorkTyped DEF UpsertSchedule, ScheduleInv, Fires
  <2>4. \A w \in Workers : FireBy(work'[w], now + ClockSkew)
    BY <2>3 DEF ClockInv, FireBy
  <2>5. 0 <= now + ClockSkew
    BY SchedulesAssumption, MinuteFacts DEF ScheduleInv, Typed, Columns
  <2> QED
    BY <1>2, <2>1, <2>2, <2>4, <2>5 DEF UpsertSchedule, ClockInv, MarkersOnTime
<1>3. ASSUME NEW r \in Replicas, Crash(r) PROVE ClockInv'
  <2>1. \A w \in Workers : work'[w] \in {work[w], Idle}
    BY <1>3 DEF Crash
  <2>2. \A w \in Workers : FireBy(work'[w], now + ClockSkew)
    BY <2>1, GoesOnOnTime DEF ClockInv
  <2>3. \A q \in Replicas : edit'[q].last \in {edit[q].last, 0}
    BY <1>3 DEF Crash, NoEdit, ScheduleInv, Typed
  <2>4. 0 <= now + ClockSkew
    BY SchedulesAssumption, MinuteFacts DEF ScheduleInv, Typed, Columns
  <2> QED
    BY <1>3, <2>2, <2>3, <2>4 DEF Crash, ClockInv, MarkersOnTime
<1>4. CASE MinutePasses
  <2>1. now \in Nat /\ now' = now + 1 /\ ClockSkew \in Nat
    BY <1>4, SchedulesAssumption, MinuteFacts DEF MinutePasses, ScheduleInv, Typed, Columns
  <2>2. \A m \in Nat : m <= now + ClockSkew => m <= now' + ClockSkew
    BY <2>1
  <2>3. \A s \in Schedules : row[s].last \in Nat
    BY MinuteFacts DEF ScheduleInv, Typed, Columns
  <2>4. \A r \in Replicas : edit[r].last \in Nat
    BY MinuteFacts DEF ScheduleInv, Typed, Columns
  <2>5. ASSUME NEW w \in Workers PROVE FireBy(work[w], now' + ClockSkew)
    <3>1. /\ work[w].dues \subseteq Occurrences
          /\ work[w].pc # "idle" => work[w].item \in Occurrences
      BY WorkTyped DEF ScheduleInv, Fires
    <3>2. \A o \in Occurrences : o[2] \in Nat
      BY OccurrenceFacts, MinuteFacts
    <3> QED
      BY <2>2, <3>1, <3>2 DEF ClockInv, FireBy
  <2> QED
    BY <1>4, <2>2, <2>3, <2>4, <2>5 DEF MinutePasses, ClockInv, MarkersOnTime
<1>5. CASE UNCHANGED <<now, row, edit, work>>
  BY <1>5 DEF ClockInv, MarkersOnTime
<1> QED
  BY <1>1, <1>2, <1>3, <1>4, <1>5, StartOnTime, WorkerOnTime
     DEF Next, RevokeGrant, ChangeLeader, vars

\* Every column of the schedules keeps its type, and no marker runs further ahead of
\* the database clock than a replica's clock may, although a trigger takes its minute
\* from the latter (triggerSchedule, AdvanceScheduleLastRun).
THEOREM TypeCorrect == Spec => []TypeOK
<1>1. ScheduleInv /\ ClockInv => TypeOK
  BY DEF ScheduleInv, ClockInv, Typed, TypeOK
<1> QED
  BY ScheduleInvariance, InitOnTime, NextOnTime, <1>1, PTL DEF Spec

\* An occurrence has at most one run, however ticks, triggers, lost answers, crashes
\* and changes of leader interleave (fireSchedule, insertScheduleClaimTx).
THEOREM AtMostOneRun == Spec => []OneRunPerOccurrence
<1>1. ScheduleInv => OneRunPerOccurrence
  BY DEF ScheduleInv, ClaimsCounted, OneRunPerOccurrence
<1> QED
  BY ScheduleInvariance, <1>1, PTL

\* last_run passes no occurrence that did not run, was not skipped, did not fail and
\* was not overtaken by a manual trigger, although updates write back an older marker
\* and the tick is cut off at its limit (fireDueSchedules, UpsertSchedule).
THEOREM NothingPassedSilently == Spec => []PassedOccurrencesAccounted
<1>1. ScheduleInv => PassedOccurrencesAccounted
  BY OccurrenceFacts
     DEF ScheduleInv, MarkersAccounted, Passed, Accounted, PassedOccurrencesAccounted
<1> QED
  BY ScheduleInvariance, <1>1, PTL

\* A step that adds a run is an enqueue of a worker whose fire is eligible.
LEMMA RunEligible ==
    ASSUME ScheduleInv, Next, NEW o \in Occurrences, runs'[o] > runs[o]
    PROVE  \E w \in Workers : work[w].item = o /\ work[w].eligible
<1>1. runs \in [Occurrences -> Nat]
  BY DEF ScheduleInv, Typed, Columns
<1>2. ASSUME UNCHANGED runs PROVE FALSE
  BY <1>1, <1>2
<1>3. ASSUME NEW w \in Workers, Enqueue(w) \/ EnqueueAnswerLost(w)
      PROVE  work[w].item = o /\ work[w].eligible
  <2>1. work[w].pc = "enqueue" /\ work[w].item \in Occurrences
    BY <1>3, WorkTyped DEF ScheduleInv, Enqueue, EnqueueAnswerLost
  <2>2. work[w].eligible
    BY <2>1 DEF ScheduleInv, FiresEligible, FireEligible
  <2>3. runs' = [runs EXCEPT ![work[w].item] = @ + 1]
    BY <1>2, <1>3 DEF Enqueue, EnqueueAnswerLost
  <2> QED
    BY <1>1, <2>1, <2>2, <2>3
<1>4. \E w \in Workers : Enqueue(w) \/ EnqueueAnswerLost(w)
  <2>1. ASSUME NEW w \in Workers, Reread(w) \/ Advance(w) \/ FireFails(w) PROVE FALSE
    BY <1>2, <2>1 DEF Reread, Advance, FireFails
  <2>2. ASSUME NEW r \in Replicas, CollectDue(r) \/ ChangeLeader(r) \/ Crash(r) PROVE FALSE
    BY <1>2, <2>2 DEF CollectDue, ChangeLeader, Crash
  <2>3. ASSUME NEW r \in Replicas, NEW s \in Schedules, TriggerSchedule(r, s) \/ UpsertReads(r, s)
        PROVE  FALSE
    BY <1>2, <2>3 DEF TriggerSchedule, UpsertReads
  <2>4. ASSUME NEW r \in Replicas, NEW on \in BOOLEAN, UpsertSchedule(r, on) PROVE FALSE
    BY <1>2, <2>4 DEF UpsertSchedule
  <2>5. ASSUME NEW s \in Schedules, RevokeGrant(s) PROVE FALSE
    BY <1>2, <2>5 DEF RevokeGrant
  <2>6. CASE MinutePasses
    BY <1>2, <2>6 DEF MinutePasses
  <2> QED
    BY <2>1, <2>2, <2>3, <2>4, <2>5, <2>6 DEF Next, WorkerStep
<1> QED
  BY <1>3, <1>4

\* A run is only created for a schedule that was enabled and trusted at some moment
\* of its fire (fireSchedule re-reads the row and the grant).
THEOREM RunsEligible == Spec => RunsOnlyWhileEligible
<1>1. ASSUME ScheduleInv, [Next]_vars
      PROVE  [\A o \in Occurrences : runs'[o] > runs[o] =>
                 \E w \in Workers : work[w].item = o /\ work[w].eligible]_vars
  BY <1>1, RunEligible
<1> QED
  BY ScheduleInvariance, <1>1, PTL DEF Spec, RunsOnlyWhileEligible
=============================================================================
