---------------------- MODULE JobStoreAccountingProofs ----------------------
(***************************************************************************)
(* What the job store counts is true: the quota counters, the limits that  *)
(* admission enforces with them, and the acknowledgements given to         *)
(* runners, for every job graph, runner set and limit.  The sum of the     *)
(* requested units is a recursive definition; the facts needed of it are   *)
(* proved by looking for a counterexample of least cardinality.            *)
(***************************************************************************)
EXTENDS JobStoreProofs

-----------------------------------------------------------------------------
(* Sums of requested units                                                 *)

\* The element the sum takes first.
Chosen(s) == CHOOSE x \in s : TRUE

\* One step of the sum, the rest read from the table g.
UnitsOf(g, s) == IF s = {} THEN 0 ELSE Request[Chosen(s)] + g[s \ {Chosen(s)}]

\* Every nonempty set of naturals has a least element.
LEMMA LeastNatural ==
    ASSUME NEW T \in SUBSET Nat, T # {}
    PROVE  \E n \in T : \A m \in T : n <= m
<1> DEFINE R == OpToRel(<, Nat)
<1>1. \A x, y \in Nat : <<y, x>> \in R <=> y < x
  BY DEF OpToRel
<1>2. IsWellFoundedOn(R, Nat)
  BY NatLessThanWellFounded
<1> HIDE DEF R
<1>3. PICK x \in T : \A y \in T : ~(<<y, x>> \in R)
  BY <1>2, WFMin
<1>4. \A y \in T : x <= y
  <2> TAKE y \in T
  <2>1. ~(y < x)
    BY <1>1, <1>3
  <2>2. x \in Nat /\ y \in Nat
    OBVIOUS
  <2>3. QED
    BY <2>1, <2>2
<1>5. QED
  BY <1>4

\* Taking the chosen element out makes a set smaller.
LEMMA ChosenLess ==
    ASSUME NEW s \in SUBSET Jobs, s # {}
    PROVE  /\ Chosen(s) \in s /\ s \ {Chosen(s)} \in SUBSET Jobs
           /\ Cardinality(s) \in Nat \ {0}
           /\ Cardinality(s \ {Chosen(s)}) = Cardinality(s) - 1
<1>1. Chosen(s) \in s
  BY DEF Chosen
<1>2. IsFiniteSet(s)
  BY GraphAssumption, FS_Subset
<1>3. Cardinality(s) \in Nat /\ Cardinality(s) # 0
  BY <1>2, FS_EmptySet, FS_CardinalityType
<1>4. Cardinality(s \ {Chosen(s)}) = Cardinality(s) - 1
  BY <1>1, <1>2, FS_RemoveElement
<1>5. QED
  BY <1>1, <1>3, <1>4

\* There is a table of the sums of all sets of jobs: one that is right up to
\* cardinality n - 1 is extended to cardinality n.
LEMMA UnitsTable ==
    \E g \in [SUBSET Jobs -> Nat] : \A s \in SUBSET Jobs : g[s] = UnitsOf(g, s)
<1> DEFINE Upto(n) == \E g \in [SUBSET Jobs -> Nat] :
              \A s \in SUBSET Jobs : Cardinality(s) <= n => g[s] = UnitsOf(g, s)
           Bad == {n \in Nat : ~Upto(n)}
<1>1. ASSUME NEW n \in Nat, n = 0 PROVE Upto(n)
  <2> DEFINE g == [s \in SUBSET Jobs |-> 0]
  <2>1. ASSUME NEW s \in SUBSET Jobs, s # {} PROVE ~(Cardinality(s) <= n)
    <3>1. Cardinality(s) \in Nat \ {0}
      BY <2>1, ChosenLess
    <3>2. QED
      BY <1>1, <3>1
  <2>2. \A s \in SUBSET Jobs : Cardinality(s) <= n => g[s] = UnitsOf(g, s)
    BY <2>1 DEF UnitsOf
  <2>3. g \in [SUBSET Jobs -> Nat]
    OBVIOUS
  <2>4. QED
    BY <2>2, <2>3
<1>2. ASSUME NEW n \in Nat, n # 0, Upto(n - 1) PROVE Upto(n)
  <2>1. PICK g \in [SUBSET Jobs -> Nat] :
          \A s \in SUBSET Jobs : Cardinality(s) <= n - 1 => g[s] = UnitsOf(g, s)
    BY <1>2
  <2> DEFINE h == [s \in SUBSET Jobs |->
                      IF Cardinality(s) <= n - 1 THEN g[s] ELSE UnitsOf(g, s)]
  <2>2. \A s \in SUBSET Jobs : h[s] = UnitsOf(g, s)
    BY <2>1
  <2>3. \A s \in SUBSET Jobs : UnitsOf(g, s) \in Nat
    <3> TAKE s \in SUBSET Jobs
    <3>1. CASE s = {}
      BY <3>1 DEF UnitsOf
    <3>2. CASE s # {}
      <4>1. Request[Chosen(s)] \in Nat /\ g[s \ {Chosen(s)}] \in Nat
        BY <3>2, ChosenLess, StoreAssumption
      <4>2. QED
        BY <3>2, <4>1 DEF UnitsOf
    <3>3. QED
      BY <3>1, <3>2
  <2>4. ASSUME NEW s \in SUBSET Jobs, Cardinality(s) <= n PROVE h[s] = UnitsOf(h, s)
    <3>1. CASE s = {}
      BY <2>2, <3>1 DEF UnitsOf
    <3>2. CASE s # {}
      <4>1. Cardinality(s \ {Chosen(s)}) <= n - 1 /\ s \ {Chosen(s)} \in SUBSET Jobs
        BY <2>4, <3>2, ChosenLess
      <4>2. h[s \ {Chosen(s)}] = g[s \ {Chosen(s)}]
        BY <4>1
      <4>3. QED
        BY <2>2, <4>2 DEF UnitsOf
    <3>3. QED
      BY <3>1, <3>2
  <2>5. h \in [SUBSET Jobs -> Nat]
    BY <2>3
  <2> HIDE DEF h
  <2>6. QED
    BY <2>4, <2>5
<1>3. Bad = {}
  <2> SUFFICES ASSUME Bad # {} PROVE FALSE
    OBVIOUS
  <2> HIDE DEF Upto
  <2>1. PICK n \in Bad : \A m \in Bad : n <= m
    BY LeastNatural
  <2>2. CASE n = 0
    BY <1>1, <2>2
  <2>3. CASE n # 0
    <3>1. n - 1 \in Nat /\ n - 1 \notin Bad
      BY <2>1, <2>3
    <3>2. QED
      BY <1>2, <2>3, <3>1
  <2>4. QED
    BY <2>2, <2>3
<1>4. Upto(Cardinality(Jobs))
  <2> HIDE DEF Upto
  <2>1. QED
    BY <1>3, CardinalityType
<1>5. \A s \in SUBSET Jobs : Cardinality(s) <= Cardinality(Jobs)
  BY GraphAssumption, FS_Subset
<1>6. QED
  BY <1>4, <1>5

\* RequestedUnits, which the store sums over a runner's reservations, reads
\* that table.
LEMMA UnitsFollow ==
    ASSUME NEW g \in [SUBSET Jobs -> Nat], \A s \in SUBSET Jobs : g[s] = UnitsOf(g, s),
           NEW S \in SUBSET Jobs
    PROVE  RequestedUnits(S) = g[S]
<1> DEFINE Table(f) == f = [s \in SUBSET S |-> UnitsOf(f, s)]
           iter == CHOOSE f : Table(f)
<1>1. RequestedUnits(S) = iter[S]
  BY DEF RequestedUnits, MapThenSumSet, MapThenFoldSet, UnitsOf, Chosen
<1>2. Table(iter)
  <2> DEFINE f == [s \in SUBSET S |-> g[s]]
  <2>1. ASSUME NEW s \in SUBSET S PROVE f[s] = UnitsOf(f, s)
    BY DEF UnitsOf
  <2>2. Table(f)
    BY <2>1
  <2> HIDE DEF Table, f
  <2>3. QED
    BY <2>2
<1>3. \A s \in SUBSET S : iter[s] = UnitsOf(iter, s)
  <2> HIDE DEF iter
  <2>1. QED
    BY <1>2
<1> HIDE DEF iter, Table
<1> DEFINE Bad == {n \in Nat : \E s \in SUBSET S : Cardinality(s) = n /\ iter[s] # g[s]}
<1>4. Bad = {}
  <2> SUFFICES ASSUME Bad # {} PROVE FALSE
    OBVIOUS
  <2>1. PICK n \in Bad : \A m \in Bad : n <= m
    BY LeastNatural
  <2>2. PICK s \in SUBSET S : Cardinality(s) = n /\ iter[s] # g[s]
    OBVIOUS
  <2>3. CASE s = {}
    BY <1>3, <2>2, <2>3 DEF UnitsOf
  <2>4. CASE s # {}
    <3>1. s \ {Chosen(s)} \in SUBSET S /\ s \in SUBSET Jobs
      OBVIOUS
    <3>2. Cardinality(s \ {Chosen(s)}) = n - 1 /\ n - 1 \in Nat
      BY <2>2, <2>4, <3>1, ChosenLess
    <3>3. n - 1 \notin Bad
      BY <2>1, <3>2
    <3>4. iter[s \ {Chosen(s)}] = g[s \ {Chosen(s)}]
      BY <3>1, <3>2, <3>3
    <3>5. iter[s] = UnitsOf(iter, s) /\ g[s] = UnitsOf(g, s)
      BY <1>3, <3>1
    <3>6. QED
      BY <2>2, <3>4, <3>5 DEF UnitsOf
  <2>5. QED
    BY <2>3, <2>4
<1>5. Cardinality(S) \in Nat
  BY CardinalityType
<1>6. QED
  BY <1>1, <1>4, <1>5

\* A sum of requests is a natural number.
LEMMA UnitsType == ASSUME NEW S \in SUBSET Jobs PROVE RequestedUnits(S) \in Nat
<1>1. PICK g \in [SUBSET Jobs -> Nat] : \A s \in SUBSET Jobs : g[s] = UnitsOf(g, s)
  BY UnitsTable
<1>2. RequestedUnits(S) = g[S]
  BY <1>1, UnitsFollow
<1>3. QED
  BY <1>2

\* A job adds its request, whichever element the sum takes first.
LEMMA UnitsAdd ==
    ASSUME NEW S \in SUBSET Jobs, NEW x \in Jobs \ S
    PROVE  RequestedUnits(S \cup {x}) = RequestedUnits(S) + Request[x]
<1>1. PICK g \in [SUBSET Jobs -> Nat] : \A s \in SUBSET Jobs : g[s] = UnitsOf(g, s)
  BY UnitsTable
<1> DEFINE Adds(s) == \A y \in Jobs \ s : g[s \cup {y}] = g[s] + Request[y]
           Bad == {n \in Nat : \E s \in SUBSET Jobs : Cardinality(s) = n /\ ~Adds(s)}
<1>2. ASSUME NEW s \in SUBSET Jobs,
             \A u \in SUBSET s : Cardinality(u) = Cardinality(s) - 1 => Adds(u)
      PROVE  Adds(s)
  <2> SUFFICES ASSUME NEW y \in Jobs \ s PROVE g[s \cup {y}] = g[s] + Request[y]
    OBVIOUS
  <2>1. PICK t \in SUBSET Jobs : t = s \cup {y}
    OBVIOUS
  <2>2. PICK k \in t : g[t] = Request[k] + g[t \ {k}]
    <3>1. t # {}
      BY <2>1
    <3>2. g[t] = Request[Chosen(t)] + g[t \ {Chosen(t)}]
      BY <1>1, <3>1 DEF UnitsOf
    <3>3. QED
      BY <3>1, <3>2, ChosenLess
  <2>3. CASE k = y
    <3>1. t \ {k} = s
      BY <2>1, <2>3
    <3>2. g[s] \in Nat /\ Request[y] \in Nat
      BY StoreAssumption
    <3>3. g[t] = Request[y] + g[s]
      BY <2>2, <2>3, <3>1
    <3>4. QED
      BY <2>1, <3>2, <3>3
  <2>4. CASE k # y
    <3>1. PICK u \in SUBSET s : u = s \ {k}
      OBVIOUS
    <3>2. k \in s /\ t \ {k} = u \cup {y} /\ s = u \cup {k} /\ y \notin u /\ k \notin u
      BY <2>1, <2>4, <3>1
    <3>3. Cardinality(u) = Cardinality(s) - 1
      <4>1. IsFiniteSet(s)
        BY GraphAssumption, FS_Subset
      <4>2. QED
        BY <3>1, <3>2, <4>1, FS_RemoveElement
    <3>4. Adds(u)
      BY <1>2, <3>3
    <3>5. g[u \cup {y}] = g[u] + Request[y] /\ g[u \cup {k}] = g[u] + Request[k]
      BY <3>2, <3>4
    <3>6. g[u] \in Nat /\ Request[k] \in Nat /\ Request[y] \in Nat
      BY <3>2, StoreAssumption
    <3>7. g[t] = Request[k] + (g[u] + Request[y]) /\ g[s] = g[u] + Request[k]
      BY <2>2, <3>2, <3>5
    <3>8. QED
      BY <2>1, <3>6, <3>7
  <2>5. QED
    BY <2>3, <2>4
<1>3. Bad = {}
  <2> HIDE DEF Adds
  <2> SUFFICES ASSUME Bad # {} PROVE FALSE
    OBVIOUS
  <2>1. PICK n \in Bad : \A m \in Bad : n <= m
    BY LeastNatural
  <2>2. PICK s \in SUBSET Jobs : Cardinality(s) = n /\ ~Adds(s)
    OBVIOUS
  <2>3. \A u \in SUBSET s : Cardinality(u) = n - 1 => Adds(u)
    <3> SUFFICES ASSUME NEW u \in SUBSET s, Cardinality(u) = n - 1, ~Adds(u) PROVE FALSE
      OBVIOUS
    <3>1. n \in Nat /\ n - 1 \in Nat
      BY CardinalityType
    <3>2. n - 1 \in Bad
      BY <3>1
    <3>3. QED
      BY <2>1, <3>1, <3>2
  <2>4. QED
    BY <1>2, <2>2, <2>3
<1>4. Adds(S)
  <2> HIDE DEF Adds
  <2>1. Cardinality(S) \in Nat
    BY CardinalityType
  <2>2. QED
    BY <1>3, <2>1
<1>5. RequestedUnits(S) = g[S] /\ RequestedUnits(S \cup {x}) = g[S \cup {x}]
  BY <1>1, UnitsFollow
<1>6. QED
  BY <1>4, <1>5

\* Fewer jobs ask for no more.
LEMMA UnitsMonotone ==
    ASSUME NEW T \in SUBSET Jobs, NEW S \in SUBSET T
    PROVE  RequestedUnits(S) <= RequestedUnits(T)
<1> DEFINE Fails(t) == S \subseteq t /\ ~(RequestedUnits(S) <= RequestedUnits(t))
           Bad == {n \in Nat : \E t \in SUBSET Jobs : Cardinality(t) = n /\ Fails(t)}
<1>1. Bad = {}
  <2> SUFFICES ASSUME Bad # {} PROVE FALSE
    OBVIOUS
  <2>1. PICK n \in Bad : \A m \in Bad : n <= m
    BY LeastNatural
  <2>2. PICK t \in SUBSET Jobs : Cardinality(t) = n /\ Fails(t)
    OBVIOUS
  <2>3. RequestedUnits(S) \in Nat /\ RequestedUnits(t) \in Nat
    BY UnitsType
  <2>4. PICK x \in t : x \notin S
    BY <2>2, <2>3
  <2> DEFINE u == t \ {x}
  <2>5. u \in SUBSET Jobs /\ x \in Jobs \ u /\ t = u \cup {x} /\ S \subseteq u
    BY <2>2, <2>4
  <2>6. Cardinality(u) = n - 1 /\ n - 1 \in Nat
    <3>1. IsFiniteSet(u)
      BY <2>5, GraphAssumption, FS_Subset
    <3>2. Cardinality(u) \in Nat /\ Cardinality(u \cup {x}) = Cardinality(u) + 1
      BY <2>5, <3>1, FS_AddElement, FS_CardinalityType
    <3> HIDE DEF u
    <3>3. QED
      BY <2>2, <2>5, <3>2
  <2> HIDE DEF u
  <2>7. RequestedUnits(S) <= RequestedUnits(u)
    <3>1. n - 1 \notin Bad
      BY <2>1, <2>6
    <3>2. QED
      BY <2>5, <2>6, <3>1
  <2>8. /\ RequestedUnits(t) = RequestedUnits(u) + Request[x] /\ RequestedUnits(u) \in Nat
        /\ Request[x] \in Nat
    BY <2>5, UnitsAdd, UnitsType, StoreAssumption
  <2>9. QED
    BY <2>2, <2>3, <2>7, <2>8
<1>2. Cardinality(T) \in Nat
  BY CardinalityType
<1>3. QED
  BY <1>1, <1>2

-----------------------------------------------------------------------------
(* Quota units                                                             *)

\* A job that was ever claimed had its dependencies ended, and still has; a
\* running job was claimed.
AttemptInv ==
    /\ \A j \in Jobs : attempts[j] > 0 => Ready(status, j)
    /\ \A j \in Running : attempts[j] > 0

\* The jobs that hold a queued unit.
QueuedUnits == {j \in Jobs : \/ status[j] \in Pending
                             \/ status[j] \in {"blocked", "skipped"} /\ attempts[j] = 0}

\* The moves a row may make keep that.
LEMMA AttemptKept ==
    StoreInv /\ TypeOK' /\ AttemptInv /\ Moves => AttemptInv'
<1> SUFFICES ASSUME StoreInv, TypeOK', AttemptInv, Moves, NEW j \in Jobs
             PROVE  /\ attempts'[j] > 0 => Ready(status', j)
                    /\ status'[j] = "running" => attempts'[j] > 0
  BY DEF AttemptInv, Running
<1>1. JobMove(j) /\ attempts[j] \in Nat /\ attempts'[j] \in Nat
  BY DEF Moves, StoreInv, TypeOK
<1>2. /\ attempts[j] > 0 => Ready(status, j)
      /\ status[j] = "running" => attempts[j] > 0
  BY DEF AttemptInv, Running
<1>3. Ready(status, j) => Ready(status', j)
  BY GraphAssumption DEF Ready, Moves, JobMove, Terminal, Pending
<1>4. QED
  BY <1>1, <1>2, <1>3 DEF JobMove, Terminal, InitialStatus

\* Taking out a part is the clamped subtraction adjustQuotaTx makes.
LEMMA CardinalityMinus ==
    ASSUME NEW S \in SUBSET Jobs, NEW T \in SUBSET S
    PROVE  Cardinality(S \ T) = Minus(Cardinality(S), Cardinality(T))
<1>1. IsFiniteSet(S) /\ IsFiniteSet(T) /\ S \cap T = T
  BY GraphAssumption, FS_Subset
<1>2. Cardinality(S \ T) = Cardinality(S) - Cardinality(T)
  BY <1>1, FS_Difference
<1>3. Cardinality(T) <= Cardinality(S) /\ Cardinality(S) \in Nat /\ Cardinality(T) \in Nat
  BY <1>1, FS_Subset, FS_CardinalityType
<1>4. QED
  BY <1>2, <1>3 DEF Minus

\* Disjoint sets add up.
LEMMA CardinalityPlus ==
    ASSUME NEW S \in SUBSET Jobs, NEW T \in SUBSET Jobs, S \cap T = {}
    PROVE  Cardinality(S \cup T) = Cardinality(S) + Cardinality(T)
<1>1. IsFiniteSet(S) /\ IsFiniteSet(T)
  BY GraphAssumption, FS_Subset
<1>2. Cardinality(S \cup T) = Cardinality(S) + Cardinality(T) - Cardinality({})
  BY <1>1, FS_Union
<1>3. Cardinality(S) \in Nat /\ Cardinality(T) \in Nat /\ Cardinality({}) = 0
  BY <1>1, FS_EmptySet, FS_CardinalityType
<1>4. QED
  BY <1>2, <1>3

\* One job is one unit.
LEMMA CardinalityOne == ASSUME NEW j PROVE Cardinality({j}) = 1
BY FS_Singleton

\* When jobs V end or return to the queue, the running units they held are
\* exactly what stops, and the dependents re-evaluated with them keep their queued
\* unit: none of them has run, since a dependency of theirs had not ended.
LEMMA SettleUnits ==
    ASSUME StoreInv, AttemptInv, NEW V \in SUBSET Jobs, NEW st \in [Jobs -> JobStatus],
           \A j \in V : \/ status[j] \in Pending /\ st[j] = "cancelled"
                        \/ status[j] = "running" /\ st[j] \in Terminal \cup {"queued"},
           \A j \in Jobs \ V : st[j] = status[j],
           Propagate(st, V), UNCHANGED attempts
    PROVE  /\ Running' = Running \ V
           /\ QueuedUnits' = (QueuedUnits \ V) \cup {j \in V : st[j] = "queued"}
<1> USE DEF Pending, Terminal
<1>1. PICK after \in RecomputeDependents(st, V) : status' = after
  BY DEF Propagate
<1>2. \A j \in V : status[j] \notin Terminal
  OBVIOUS
<1>3. \A d \in Dependents(V) : status[d] # "running" /\ ~Ready(status, d)
  BY <1>2, NoRunningDependent DEF StoreInv, Dependents, Ready
<1>4. \A d \in Dependents(V) : st[d] # "running"
  BY <1>3 DEF Dependents
<1>5. \A j \in Jobs : \/ status'[j] = st[j]
                      \/ /\ st[j] \in Pending /\ status'[j] \in {"skipped", "blocked"}
                         /\ j \in Dependents(V)
  BY <1>1, <1>4, RecomputeForm, RecomputeRow
<1>6. \A d \in Dependents(V) : attempts[d] = 0
  BY <1>3 DEF AttemptInv, StoreInv, TypeOK, Dependents
<1>7. \A j \in V : status[j] = "running" => attempts[j] # 0
  BY DEF AttemptInv, Running, StoreInv, TypeOK
<1>8. Running' = Running \ V
  <2>1. \A j \in Jobs : status'[j] = "running" <=> (status[j] = "running" /\ j \notin V)
    BY <1>5
  <2>2. QED
    BY <2>1 DEF Running
<1>9. ASSUME NEW j \in Jobs
      PROVE  j \in QueuedUnits' <=> \/ j \in QueuedUnits /\ j \notin V
                                    \/ j \in V /\ st[j] = "queued"
  <2>1. CASE j \notin V
    BY <1>5, <1>6, <2>1 DEF QueuedUnits
  <2>2. CASE j \in V
    <3>1. j \in Dependents(V) => status[j] # "running"
      BY <1>3
    <3>2. QED
      BY <1>5, <1>7, <2>2, <3>1 DEF QueuedUnits
  <2>3. QED
    BY <2>1, <2>2
<1>10. QED
  BY <1>8, <1>9 DEF QueuedUnits

\* If exactly the stopped, left and entered units are adjusted, the counters
\* stay exact and the clamp hides nothing.
LEMMA UnitsMoved ==
    ASSUME QuotaAccountsForJobs, NEW stopped \in SUBSET Jobs, NEW left \in SUBSET Jobs,
           NEW entered \in SUBSET Jobs,
           stopped \subseteq Running, left \subseteq QueuedUnits,
           entered \cap (QueuedUnits \ left) = {},
           Running' = Running \ stopped, QueuedUnits' = (QueuedUnits \ left) \cup entered,
           AdjustQuota(Cardinality(stopped), Cardinality(left), Cardinality(entered))
    PROVE  QuotaAccountsForJobs'
<1>1. Running \in SUBSET Jobs /\ QueuedUnits \in SUBSET Jobs
  BY DEF Running, QueuedUnits
<1>2. quotaRunning = Cardinality(Running) /\ quotaQueued = Cardinality(QueuedUnits)
  BY DEF QuotaAccountsForJobs, QueuedUnits
<1>3. Cardinality(Running') = Minus(Cardinality(Running), Cardinality(stopped))
  BY <1>1, CardinalityMinus
<1>4. Cardinality(QueuedUnits \ left) = Minus(Cardinality(QueuedUnits), Cardinality(left))
  BY <1>1, CardinalityMinus
<1>5. Cardinality(QueuedUnits') = Cardinality(QueuedUnits \ left) + Cardinality(entered)
  BY <1>1, CardinalityPlus
<1>6. quotaRunning' = Cardinality(Running') /\ quotaQueued' = Cardinality(QueuedUnits')
  BY <1>2, <1>3, <1>4, <1>5 DEF AdjustQuota
<1>7. QED
  BY <1>6 DEF QuotaAccountsForJobs, QueuedUnits

\* The two together, for completion, recovery, expiry and revocation.
LEMMA SettleAccounts ==
    ASSUME StoreInv, AttemptInv, QuotaAccountsForJobs,
           NEW V \in SUBSET Jobs, NEW st \in [Jobs -> JobStatus],
           \A j \in V : \/ status[j] \in Pending /\ st[j] = "cancelled"
                        \/ status[j] = "running" /\ st[j] \in Terminal \cup {"queued"},
           \A j \in Jobs \ V : st[j] = status[j],
           Propagate(st, V), UNCHANGED attempts,
           AdjustQuota(Cardinality(V \cap Running), Cardinality(V \ Running),
                       Cardinality({j \in V : st[j] = "queued"}))
    PROVE  QuotaAccountsForJobs'
<1> DEFINE stopped == V \cap Running
           left == V \ Running
           entered == {j \in V : st[j] = "queued"}
<1>1. /\ Running' = Running \ V
      /\ QueuedUnits' = (QueuedUnits \ V) \cup entered
  BY SettleUnits
<1>2. /\ stopped \in SUBSET Jobs /\ left \in SUBSET Jobs /\ entered \in SUBSET Jobs
      /\ stopped \subseteq Running /\ left \subseteq QueuedUnits
      /\ stopped \cap QueuedUnits = {} /\ entered \subseteq stopped
  BY DEF Running, QueuedUnits, Pending
<1>3. /\ Running' = Running \ stopped
      /\ QueuedUnits' = (QueuedUnits \ left) \cup entered
      /\ entered \cap (QueuedUnits \ left) = {}
  BY <1>1, <1>2
<1>4. AdjustQuota(Cardinality(stopped), Cardinality(left), Cardinality(entered))
  OBVIOUS
<1> HIDE DEF stopped, left, entered
<1>5. QED
  BY <1>2, <1>3, <1>4, UnitsMoved

\* A completion returns one running unit.
LEMMA CompleteAccounts ==
    ASSUME StoreInv, AttemptInv, QuotaAccountsForJobs,
           NEW l \in issued, NEW result \in Results, CompleteJob(l, result)
    PROVE  QuotaAccountsForJobs'
<1> DEFINE V == {l.job}
           st == [status EXCEPT ![l.job] = result]
<1>1. l.job \in Jobs /\ status[l.job] = "running"
  BY DEF StoreInv, TypeOK, Leases, CompleteJob, LeaseHeld
<1>2. /\ st \in [Jobs -> JobStatus] /\ st[l.job] \in Terminal /\ st[l.job] # "queued"
      /\ \A j \in Jobs \ V : st[j] = status[j]
  BY <1>1, StoreAssumption DEF StoreInv, TypeOK, JobStatus, Terminal
<1>3. Propagate(st, V) /\ AdjustQuota(1, 0, 0) /\ UNCHANGED attempts
  BY DEF CompleteJob
<1> HIDE DEF st
<1>4. V \cap Running = {l.job} /\ V \ Running = {} /\ {j \in V : st[j] = "queued"} = {}
  BY <1>1, <1>2 DEF Running
<1>5. AdjustQuota(Cardinality(V \cap Running), Cardinality(V \ Running),
                  Cardinality({j \in V : st[j] = "queued"}))
  BY <1>3, <1>4, CardinalityOne, FS_EmptySet
<1>6. QED
  BY <1>1, <1>2, <1>3, <1>5, SettleAccounts

\* A recovery returns a running unit and, if it retries, takes a queued one.
LEMMA RecoverAccounts ==
    ASSUME StoreInv, AttemptInv, QuotaAccountsForJobs,
           NEW k \in sweep, RecoverExpiredLease(k), Recoverable(k)
    PROVE  QuotaAccountsForJobs'
<1> DEFINE V == {k.job}
           st == [status EXCEPT ![k.job] = IF MayRetry(k.job) THEN "queued" ELSE "failure"]
           entered == {j \in V : st[j] = "queued"}
<1>1. k.job \in Jobs /\ status[k.job] = "running"
  BY DEF StoreInv, TypeOK, Recoverable
<1>2. /\ st \in [Jobs -> JobStatus] /\ st[k.job] \in Terminal \cup {"queued"}
      /\ \A j \in Jobs \ V : st[j] = status[j]
      /\ entered = IF MayRetry(k.job) THEN {k.job} ELSE {}
  BY <1>1 DEF StoreInv, TypeOK, JobStatus, Terminal, Pending
<1>3. /\ Propagate(st, V) /\ UNCHANGED attempts
      /\ AdjustQuota(1, 0, IF MayRetry(k.job) THEN 1 ELSE 0)
  BY DEF RecoverExpiredLease
<1>4. V \cap Running = {k.job} /\ V \ Running = {}
  BY <1>1 DEF Running
<1>5. Cardinality(entered) = IF MayRetry(k.job) THEN 1 ELSE 0
  BY <1>2, CardinalityOne, FS_EmptySet
<1> HIDE DEF st
<1>6. AdjustQuota(Cardinality(V \cap Running), Cardinality(V \ Running), Cardinality(entered))
  BY <1>3, <1>4, <1>5, CardinalityOne, FS_EmptySet
<1>7. QED
  BY <1>1, <1>2, <1>3, <1>6, SettleAccounts

\* A queue deadline returns one queued unit.
LEMMA ExpireAccounts ==
    ASSUME StoreInv, AttemptInv, QuotaAccountsForJobs, NEW x \in Jobs, ExpireQueuedJob(x)
    PROVE  QuotaAccountsForJobs'
<1> DEFINE V == {x}
           st == [status EXCEPT ![x] = "cancelled"]
<1>1. /\ status[x] \in Pending /\ Propagate(st, V) /\ AdjustQuota(0, 1, 0)
      /\ UNCHANGED attempts
  BY DEF ExpireQueuedJob
<1>2. /\ st \in [Jobs -> JobStatus] /\ st[x] = "cancelled"
      /\ \A j \in Jobs \ V : st[j] = status[j]
  BY DEF StoreInv, TypeOK, JobStatus, Terminal
<1> HIDE DEF st
<1>3. V \cap Running = {} /\ V \ Running = {x} /\ {j \in V : st[j] = "queued"} = {}
  BY <1>1, <1>2 DEF Running, Pending
<1>4. AdjustQuota(Cardinality(V \cap Running), Cardinality(V \ Running),
                  Cardinality({j \in V : st[j] = "queued"}))
  BY <1>1, <1>3, CardinalityOne, FS_EmptySet
<1>5. QED
  BY <1>1, <1>2, <1>4, SettleAccounts

\* A kill switch returns a unit for each lease it revokes and takes a queued
\* one for each job it requeues.
LEMMA DisableAccounts ==
    ASSUME StoreInv, AttemptInv, QuotaAccountsForJobs, NEW k \in disabling, DisableRunner(k)
    PROVE  QuotaAccountsForJobs'
<1> DEFINE revoked == LeasedTo(k.runner) \ k.missed
           retried == {j \in revoked : MayRetry(j)}
           st == [j \in Jobs |-> IF j \in retried THEN "queued"
                                 ELSE IF j \in revoked THEN "cancelled" ELSE status[j]]
<1>1. /\ Propagate(st, revoked) /\ UNCHANGED attempts
      /\ AdjustQuota(Cardinality(revoked), 0, Cardinality(retried))
  BY DEF DisableRunner
<1>2. revoked \in SUBSET Jobs /\ \A j \in revoked : status[j] = "running"
  BY DEF LeasedTo
<1>3. /\ st \in [Jobs -> JobStatus]
      /\ \A j \in revoked : st[j] \in Terminal \cup {"queued"}
      /\ \A j \in Jobs \ revoked : st[j] = status[j]
      /\ {j \in revoked : st[j] = "queued"} = retried
  BY <1>2 DEF StoreInv, TypeOK, JobStatus, Terminal, Pending
<1>4. revoked \cap Running = revoked /\ revoked \ Running = {}
  BY <1>2 DEF Running
<1> HIDE DEF revoked, retried, st
<1>5. AdjustQuota(Cardinality(revoked \cap Running), Cardinality(revoked \ Running),
                  Cardinality({j \in revoked : st[j] = "queued"}))
  BY <1>1, <1>3, <1>4, FS_EmptySet
<1>6. QED
  BY <1>1, <1>2, <1>3, <1>5, SettleAccounts

\* A cancellation returns the unit of every job it ends.
LEMMA CancelAccounts ==
    ASSUME StoreInv, AttemptInv, QuotaAccountsForJobs, NEW run \in Runs, CancelRunJobs(run)
    PROVE  QuotaAccountsForJobs'
<1> DEFINE victims == {j \in JobsOf(run) : status[j] \notin Terminal}
           stopped == victims \cap Running
           left == victims \ stopped
<1>1. /\ runStatus[run] # "none" /\ UNCHANGED attempts
      /\ status' = [j \in Jobs |-> IF j \in victims THEN "cancelled" ELSE status[j]]
      /\ AdjustQuota(Cardinality(stopped), Cardinality(left), 0)
  BY DEF CancelRunJobs
<1>2. /\ victims \in SUBSET Jobs
      /\ \A j \in victims : status[j] \in Pending \cup {"running"}
  BY <1>1 DEF JobsOf, StoreInv, TypeOK, RowsExist, JobStatus
<1>3. stopped \subseteq Running /\ left \subseteq QueuedUnits
  BY <1>2 DEF Running, QueuedUnits
<1> HIDE DEF victims
<1>4. Running' = Running \ stopped
  BY <1>1 DEF Running
<1>5. QueuedUnits' = (QueuedUnits \ left) \cup {}
  BY <1>1, <1>2 DEF QueuedUnits, Running, Pending
<1>6. AdjustQuota(Cardinality(stopped), Cardinality(left), Cardinality({}))
  BY <1>1, FS_EmptySet
<1> HIDE DEF stopped, left
<1>7. stopped \in SUBSET Jobs /\ left \in SUBSET Jobs
  BY <1>2 DEF stopped, left
<1>8. QED
  BY <1>3, <1>4, <1>5, <1>6, <1>7, UnitsMoved

\* An insertion returns the units of the jobs it supersedes and takes one for
\* each job it adds, the branch-denied ones included.
LEMMA InsertAccounts ==
    ASSUME StoreInv, AttemptInv, QuotaAccountsForJobs, NEW run \in Runs,
           InsertCompiledRun(run)
    PROVE  QuotaAccountsForJobs'
<1> DEFINE victims == {j \in Jobs : /\ RunOf[j] \in Superseded(run)
                                    /\ status[j] \notin Terminal}
           stopped == victims \cap Running
           left == victims \ stopped
           entered == JobsOf(run)
<1>1. /\ runStatus[run] = "none" /\ UNCHANGED attempts
      /\ status' = [j \in Jobs |-> IF j \in victims THEN "cancelled"
                                   ELSE IF RunOf[j] = run THEN InitialStatus(j)
                                   ELSE status[j]]
      /\ AdjustQuota(Cardinality(stopped), Cardinality(left), Cardinality(entered))
  BY DEF InsertCompiledRun, AdjustQuota
<1>2. /\ victims \in SUBSET Jobs
      /\ \A j \in victims : status[j] \in Pending \cup {"running"} /\ RunOf[j] # run
  BY GraphAssumption DEF Superseded, StoreInv, TypeOK, RowsExist, JobStatus
<1>3. \A j \in Jobs : RunOf[j] = run => status[j] = "none" /\ attempts[j] = 0
  BY <1>1 DEF StoreInv, RowsExist, BudgetInv
<1>4. \A j \in Jobs : InitialStatus(j) \in Pending \cup {"blocked"}
  BY DEF InitialStatus, Pending
<1>5. stopped \subseteq Running /\ left \subseteq QueuedUnits
  BY <1>2 DEF Running, QueuedUnits
<1> HIDE DEF victims
<1>6. Running' = Running \ stopped
  BY <1>1, <1>2, <1>3, <1>4 DEF Running, Pending
<1>7. /\ QueuedUnits' = (QueuedUnits \ left) \cup entered
      /\ entered \cap (QueuedUnits \ left) = {}
  BY <1>1, <1>2, <1>3, <1>4 DEF QueuedUnits, Running, Pending, JobsOf
<1>8. stopped \in SUBSET Jobs /\ left \in SUBSET Jobs /\ entered \in SUBSET Jobs
  BY <1>2 DEF JobsOf
<1> HIDE DEF stopped, left, entered
<1>9. QED
  BY <1>1, <1>5, <1>6, <1>7, <1>8, UnitsMoved

\* A claim turns a queued unit into a running one.
LEMMA AcquireAccounts ==
    ASSUME StoreInv, AttemptInv, QuotaAccountsForJobs, NEW p \in poll, AcquireLeaseAtomic(p)
    PROVE  /\ QuotaAccountsForJobs'
           /\ p.job \in Jobs \ Running /\ Running' = Running \cup {p.job}
<1>1. p.job \in Jobs /\ status[p.job] = "queued"
  BY DEF StoreInv, TypeOK, AcquireLeaseAtomic, ClaimAdmitted
<1>2. /\ status' = [status EXCEPT ![p.job] = "running"]
      /\ attempts' = [attempts EXCEPT ![p.job] = @ + 1]
      /\ quotaRunning' = quotaRunning + 1 /\ quotaQueued' = Minus(quotaQueued, 1)
  BY DEF AcquireLeaseAtomic
<1>3. p.job \in Jobs \ Running /\ Running' = Running \cup {p.job}
  BY <1>1, <1>2 DEF StoreInv, TypeOK, Running
<1>4. p.job \in QueuedUnits /\ QueuedUnits' = QueuedUnits \ {p.job}
  BY <1>1, <1>2 DEF StoreInv, TypeOK, QueuedUnits, Pending
<1>5. Running \in SUBSET Jobs /\ QueuedUnits \in SUBSET Jobs
  BY DEF Running, QueuedUnits
<1> DEFINE one == {p.job}
<1>6. Cardinality(one) = 1
  BY CardinalityOne
<1>7. /\ one \in SUBSET Jobs /\ Running \cap one = {} /\ Running' = Running \cup one
      /\ one \in SUBSET QueuedUnits /\ QueuedUnits' = QueuedUnits \ one
  BY <1>1, <1>3, <1>4
<1> HIDE DEF one
<1>8. Cardinality(Running') = Cardinality(Running) + 1
  BY <1>5, <1>6, <1>7, CardinalityPlus
<1>9. Cardinality(QueuedUnits') = Minus(Cardinality(QueuedUnits), 1)
  BY <1>5, <1>6, <1>7, CardinalityMinus
<1>10. QuotaAccountsForJobs'
  BY <1>2, <1>8, <1>9 DEF QuotaAccountsForJobs, QueuedUnits
<1>11. QED
  BY <1>3, <1>10

-----------------------------------------------------------------------------
(* Admission limits                                                        *)

\* Whatever runs after a step that is not a claim ran before it, on the same
\* runner.
LEMMA OnlyClaimsStart ==
    ASSUME StoreInv, StoreInv', [Next]_vars, \A p \in poll : ~AcquireLeaseAtomic(p)
    PROVE  \A j \in Running' : j \in Running /\ leaseRunner'[j] = leaseRunner[j]
<1>1. ASSUME NEW V \in SUBSET Jobs, ReleaseLeases(V)
      PROVE  \A j \in Jobs : leaseRunner'[j] \in {leaseRunner[j], NoRunner}
  BY <1>1 DEF ReleaseLeases, ClearLeases
<1>2. \A j \in Jobs : leaseRunner'[j] \in {leaseRunner[j], NoRunner}
  <2>1. CASE UNCHANGED leaseRunner
    BY <2>1
  <2>2. ASSUME NEW l \in issued, NEW result \in Results, CompleteJob(l, result)
        PROVE  \E V \in SUBSET Jobs : ReleaseLeases(V)
    <3>1. l.job \in Jobs /\ ReleaseLeases({l.job})
      BY <2>2 DEF CompleteJob, StoreInv, TypeOK, Leases
    <3>2. QED
      BY <3>1
  <2>3. ASSUME NEW run \in Runs, InsertCompiledRun(run) \/ CancelRunJobs(run)
        PROVE  \E V \in SUBSET Jobs : ReleaseLeases(V)
    BY <2>3 DEF InsertCompiledRun, CancelRunJobs, JobsOf
  <2>4. ASSUME NEW x \in Jobs, ExpireQueuedJob(x)
        PROVE  \E V \in SUBSET Jobs : ReleaseLeases(V)
    <3>1. ReleaseLeases({x})
      BY <2>4 DEF ExpireQueuedJob
    <3>2. QED
      BY <3>1
  <2>5. ASSUME NEW k \in disabling, DisableRunner(k)
        PROVE  \E V \in SUBSET Jobs : ReleaseLeases(V)
    BY <2>5 DEF DisableRunner, LeasedTo
  <2>6. ASSUME NEW k \in sweep, RecoverExpiredLease(k)
        PROVE  UNCHANGED leaseRunner \/ \E V \in SUBSET Jobs : ReleaseLeases(V)
    <3>1. k.job \in Jobs /\ (UNCHANGED leaseRunner \/ ReleaseLeases({k.job}))
      BY <2>6 DEF RecoverExpiredLease, StoreInv, TypeOK
    <3>2. QED
      BY <3>1
  <2>7. QED
    BY <1>1, <2>1, <2>2, <2>3, <2>4, <2>5, <2>6 DEF Next, ApproveJob,
       QueueDeadlinePasses, PollCandidate, BeginDisable, EnableRunner, AbandonPoll,
       AuthorizeRunnerLease, HeartbeatLease, InsertArtifactOnce, ReplayCompletion,
       ExpireReceipt, Tick, ListExpiredRunningJobs, rowVars, vars
<1>3. \A j \in Jobs : status'[j] = "running" <=> leaseRunner'[j] # NoRunner
  BY DEF StoreInv, ReservationsMatchLeases
<1>4. \A j \in Jobs : status[j] = "running" <=> leaseRunner[j] # NoRunner
  BY DEF StoreInv, ReservationsMatchLeases
<1>5. QED
  BY <1>2, <1>3, <1>4 DEF Running

\* A part of what fits, fits.
LEMMA CardinalityBound ==
    ASSUME NEW T \in SUBSET Jobs, NEW S \in SUBSET T, NEW n \in Nat, Cardinality(T) <= n
    PROVE  Cardinality(S) <= n
<1>1. IsFiniteSet(T)
  BY GraphAssumption, FS_Subset
<1>2. Cardinality(S) <= Cardinality(T)
  BY <1>1, FS_Subset
<1>3. Cardinality(S) \in Nat /\ Cardinality(T) \in Nat
  BY CardinalityType
<1>4. QED
  BY <1>2, <1>3

\* The jobs that run in the environment of j.
SameEnvironment(j) == {o \in Running : Environment[o] = Environment[j]}

\* So such a step cannot break a limit.
LEMMA FewerLeasesFit ==
    ASSUME LimitsRespected, \A j \in Running' : j \in Running /\ leaseRunner'[j] = leaseRunner[j]
    PROVE  LimitsRespected'
<1> USE StoreAssumption
<1>1. Running' \in SUBSET Running /\ Running \in SUBSET Jobs
  BY DEF Running
<1>2. ASSUME NEW r \in Runners
      PROVE  /\ Cardinality(LeasedTo(r)') <= Capacity[r]
             /\ ResourceCapacity[r] > 0 => RequestedUnits(LeasedTo(r)') <= ResourceCapacity[r]
  <2>1. LeasedTo(r)' \in SUBSET LeasedTo(r) /\ LeasedTo(r) \in SUBSET Jobs
    BY DEF LeasedTo, Running
  <2>2. /\ Cardinality(LeasedTo(r)) <= Capacity[r]
        /\ ResourceCapacity[r] > 0 => RequestedUnits(LeasedTo(r)) <= ResourceCapacity[r]
    BY DEF LimitsRespected
  <2>3. Cardinality(LeasedTo(r)') <= Capacity[r]
    BY <2>1, <2>2, CardinalityBound
  <2>4. /\ RequestedUnits(LeasedTo(r)') <= RequestedUnits(LeasedTo(r))
        /\ RequestedUnits(LeasedTo(r)') \in Nat /\ RequestedUnits(LeasedTo(r)) \in Nat
    <3>1. LeasedTo(r)' \in SUBSET Jobs
      BY <2>1
    <3>2. QED
      BY <2>1, <3>1, UnitsMonotone, UnitsType
  <2>5. ResourceCapacity[r] \in Nat
    OBVIOUS
  <2>6. QED
    BY <2>2, <2>3, <2>4, <2>5
<1>3. ASSUME EnvConcurrency > 0, NEW j \in Running', Environment[j] # ""
      PROVE  Cardinality(SameEnvironment(j)') <= EnvConcurrency
  <2>1. /\ SameEnvironment(j)' \in SUBSET SameEnvironment(j)
        /\ SameEnvironment(j) \in SUBSET Jobs
    BY <1>1 DEF SameEnvironment
  <2>2. Cardinality(SameEnvironment(j)) <= EnvConcurrency
    BY <1>1, <1>3 DEF LimitsRespected, SameEnvironment
  <2>3. QED
    BY <2>1, <2>2, CardinalityBound
<1>4. RepoConcurrency > 0 => Cardinality(Running') <= RepoConcurrency
  BY <1>1, CardinalityBound DEF LimitsRespected
<1>5. QED
  BY <1>2, <1>3, <1>4 DEF LimitsRespected, SameEnvironment

\* A claim keeps the slots, the units, the environment and the repository
\* within their limits: it reads them under the locks it commits with, and the
\* reservations and the counter it reads describe exactly the leases there are.
LEMMA ClaimFits ==
    ASSUME StoreInv, StoreInv', AttemptInv, QuotaAccountsForJobs, LimitsRespected,
           NEW p \in poll, AcquireLeaseAtomic(p)
    PROVE  LimitsRespected'
<1> USE StoreAssumption
<1> DEFINE j == p.job
<1>1. /\ j \in Jobs \ Running /\ Running' = Running \cup {j} /\ Running \in SUBSET Jobs
  BY AcquireAccounts DEF Running
<1>2. /\ p.runner \in Runners /\ ClaimAdmitted(p)
      /\ leaseRunner' = [leaseRunner EXCEPT ![j] = p.runner]
  BY DEF AcquireLeaseAtomic, StoreInv, TypeOK
<1>3. \A o \in Running : leaseRunner'[o] = leaseRunner[o]
  BY <1>1, <1>2 DEF StoreInv, TypeOK, Running
<1>4. leaseRunner'[j] = p.runner
  BY <1>1, <1>2 DEF StoreInv, TypeOK
<1> HIDE DEF j
<1>5. \A r \in Runners : LeasedTo(r) = {o \in Running : leaseRunner[o] = r}
  BY DEF LeasedTo, Running
<1>6. \A r \in Runners : LeasedTo(r)' = {o \in Running' : leaseRunner'[o] = r}
  BY DEF LeasedTo, Running
<1>7. ASSUME NEW r \in Runners, r # p.runner PROVE LeasedTo(r)' = LeasedTo(r)
  <2>1. /\ LeasedTo(r) = {o \in Running : leaseRunner[o] = r}
        /\ LeasedTo(r)' = {o \in Running' : leaseRunner'[o] = r}
    BY <1>5, <1>6
  <2>2. QED
    BY <1>1, <1>3, <1>4, <1>7, <2>1
<1>8. /\ LeasedTo(p.runner)' = LeasedTo(p.runner) \cup {j}
      /\ LeasedTo(p.runner) \in SUBSET Jobs /\ j \in Jobs \ LeasedTo(p.runner)
  <2>1. /\ LeasedTo(p.runner) = {o \in Running : leaseRunner[o] = p.runner}
        /\ LeasedTo(p.runner)' = {o \in Running' : leaseRunner'[o] = p.runner}
    BY <1>2, <1>5, <1>6
  <2>2. QED
    BY <1>1, <1>3, <1>4, <2>1
<1>9. Cardinality(LeasedTo(p.runner)') <= Capacity[p.runner]
  <2>1. Cardinality(LeasedTo(p.runner)) < Capacity[p.runner]
    BY <1>2 DEF ClaimAdmitted, RunnerHasRoom, StoreInv, ReservationsMatchLeases
  <2>2. IsFiniteSet(LeasedTo(p.runner))
    BY <1>8, GraphAssumption, FS_Subset
  <2>3. Cardinality(LeasedTo(p.runner) \cup {j}) = Cardinality(LeasedTo(p.runner)) + 1
    BY <1>8, <2>2, FS_AddElement
  <2>4. Cardinality(LeasedTo(p.runner)) \in Nat /\ Capacity[p.runner] \in Nat
    BY <1>2, <1>8, CardinalityType
  <2>5. QED
    BY <1>8, <2>1, <2>3, <2>4
<1>10. ASSUME ResourceCapacity[p.runner] > 0
       PROVE  RequestedUnits(LeasedTo(p.runner)') <= ResourceCapacity[p.runner]
  <2>1. ReservedOn(p.runner, j) = LeasedTo(p.runner)
    <3>1. \A o \in Running : leaseRunner[o] # NoRunner
      BY DEF StoreInv, ReservationsMatchLeases, Running
    <3>2. ledger = {[job |-> o, runner |-> leaseRunner[o], gen |-> leaseGen[o]] : o \in Running}
      BY DEF StoreInv, ReservationsMatchLeases
    <3>3. ASSUME NEW o PROVE o \in ReservedOn(p.runner, j) <=> o \in LeasedTo(p.runner)
      <4>1. o \in ReservedOn(p.runner, j) =>
              \E row \in ledger : row.job = o /\ row.runner = p.runner
        BY DEF ReservedOn
      <4>2. o \in ReservedOn(p.runner, j) => o \in Running /\ leaseRunner[o] = p.runner
        BY <3>2, <4>1
      <4>3. ASSUME o \in Running, leaseRunner[o] = p.runner
            PROVE  o \in ReservedOn(p.runner, j)
        <5> DEFINE row == [job |-> o, runner |-> leaseRunner[o], gen |-> leaseGen[o]]
        <5>1. row \in ledger /\ row.job = o /\ row.runner = p.runner /\ row.gen = leaseGen[o]
          BY <3>2, <4>3
        <5>2. o # j /\ status[o] = "running" /\ leaseRunner[o] # NoRunner
          BY <1>1, <3>1, <4>3 DEF Running
        <5> HIDE DEF row
        <5>3. QED
          BY <5>1, <5>2 DEF ReservedOn
      <4>4. QED
        BY <1>2, <1>5, <4>2, <4>3
    <3>4. QED
      BY <3>3
  <2>2. RequestedUnits(LeasedTo(p.runner)) + Request[j] <= ResourceCapacity[p.runner]
    BY <1>2, <1>10, <2>1 DEF ClaimAdmitted, ResourcesFit, j
  <2>3. RequestedUnits(LeasedTo(p.runner) \cup {j})
          = RequestedUnits(LeasedTo(p.runner)) + Request[j]
    BY <1>8, UnitsAdd
  <2>4. QED
    BY <1>8, <2>2, <2>3
<1>11. ASSUME NEW r \in Runners
       PROVE  /\ Cardinality(LeasedTo(r)') <= Capacity[r]
              /\ ResourceCapacity[r] > 0 => RequestedUnits(LeasedTo(r)') <= ResourceCapacity[r]
  <2>1. CASE r = p.runner
    BY <1>9, <1>10, <2>1
  <2>2. CASE r # p.runner
    BY <1>7, <2>2 DEF LimitsRespected
  <2>3. QED
    BY <2>1, <2>2
<1>12. ASSUME EnvConcurrency > 0, NEW o \in Running', Environment[o] # ""
       PROVE  Cardinality(SameEnvironment(o)') <= EnvConcurrency
  <2>1. CASE Environment[o] = Environment[j]
    <3>1. /\ Running \ {j} = Running
          /\ SameEnvironment(j) \in SUBSET Jobs /\ j \notin SameEnvironment(j)
          /\ SameEnvironment(o)' = SameEnvironment(j) \cup {j}
      BY <1>1, <2>1 DEF SameEnvironment
    <3>2. Cardinality(SameEnvironment(j)) < EnvConcurrency
      BY <1>2, <1>12, <2>1, <3>1
         DEF ClaimAdmitted, EnvironmentHasRoom, SameEnvironment, j
    <3>3. IsFiniteSet(SameEnvironment(j)) /\ Cardinality(SameEnvironment(j)) \in Nat
      BY <3>1, GraphAssumption, FS_Subset, FS_CardinalityType
    <3>4. Cardinality(SameEnvironment(j) \cup {j}) = Cardinality(SameEnvironment(j)) + 1
      BY <3>1, <3>3, FS_AddElement
    <3>5. QED
      BY <3>1, <3>2, <3>3, <3>4
  <2>2. CASE Environment[o] # Environment[j]
    <3>1. o \in Running /\ SameEnvironment(o)' = SameEnvironment(o)
      BY <1>1, <2>2 DEF SameEnvironment
    <3>2. Cardinality(SameEnvironment(o)) <= EnvConcurrency
      BY <1>12, <3>1 DEF LimitsRespected, SameEnvironment
    <3>3. QED
      BY <3>1, <3>2
  <2>3. QED
    BY <2>1, <2>2
<1>13. RepoConcurrency > 0 => Cardinality(Running') <= RepoConcurrency
  <2>1. RepoConcurrency > 0 => Cardinality(Running) < RepoConcurrency
    BY <1>2 DEF ClaimAdmitted, QuotaAccountsForJobs
  <2>2. IsFiniteSet(Running) /\ Cardinality(Running) \in Nat
    BY <1>1, GraphAssumption, FS_Subset, FS_CardinalityType
  <2>3. Cardinality(Running \cup {j}) = Cardinality(Running) + 1
    BY <1>1, <2>2, FS_AddElement
  <2>4. QED
    BY <1>1, <2>1, <2>2, <2>3
<1>14. QED
  BY <1>11, <1>12, <1>13 DEF LimitsRespected, SameEnvironment

-----------------------------------------------------------------------------
(* Acknowledgements, and the theorems                                      *)

\* An acknowledged job has ended, and a completion finds its job running, so a
\* completion never adds a second acknowledgement and nothing outdates the first.
LEMMA AckKept ==
    ASSUME StoreInv, StoreInv', Moves, AckMatchesOutcome, [Next]_vars
    PROVE  AckMatchesOutcome'
<1> USE DEF AckMatchesOutcome
<1>1. Results \subseteq Terminal
  BY StoreAssumption DEF Terminal
<1>2. \A a \in acked \cup receipts :
         a.job \in Jobs /\ a.result \in Terminal /\ status[a.job] = a.result
  BY <1>1 DEF StoreInv, TypeOK
<1>3. \A a \in acked \cup receipts : status'[a.job] = status[a.job]
  BY <1>2 DEF Moves, JobMove, Terminal, Pending
<1>4. CASE acked' \cup receipts' \subseteq acked \cup receipts
  BY <1>3, <1>4
<1>5. ASSUME NEW l \in issued, NEW result \in Results, CompleteJob(l, result)
      PROVE  AckMatchesOutcome'
  <2> DEFINE rc == ReceiptOf(l, result)
  <2>1. /\ l.job \in Jobs /\ status[l.job] = "running" /\ status'[l.job] = result
        /\ rc.job = l.job /\ rc.result = result
    BY <1>5, CompletionRecorded DEF CompleteJob, LeaseHeld, ReceiptOf
  <2>2. acked' = acked \cup {rc} /\ receipts' = receipts \cup {rc}
    BY <1>5 DEF CompleteJob
  <2>3. \A a \in acked \cup receipts : a.job # l.job
    BY <1>2, <2>1 DEF Terminal
  <2> HIDE DEF rc
  <2>4. QED
    BY <1>3, <2>1, <2>2, <2>3
<1>6. ASSUME NEW l \in issued, NEW result \in Results, ReplayCompletion(l, result)
      PROVE  acked' \cup receipts' \subseteq acked \cup receipts
  BY <1>6 DEF ReplayCompletion, ReplayMatches, evidenceVars
<1>7. QED
  BY <1>4, <1>5, <1>6 DEF Next, InsertCompiledRun, CancelRunJobs, ApproveJob,
     QueueDeadlinePasses, ExpireQueuedJob, PollCandidate, EnableRunner, BeginDisable,
     DisableRunner, AcquireLeaseAtomic, AbandonPoll, AuthorizeRunnerLease, HeartbeatLease,
     InsertArtifactOnce, ExpireReceipt, Tick, ListExpiredRunningJobs, RecoverExpiredLease,
     evidenceVars, clientVars, vars

\* The inductive invariant: exact counters need to know which rows were never
\* claimed, the repository limit needs exact counters.
AccountInv == StoreInv /\ AttemptInv /\ QuotaAccountsForJobs /\ LimitsRespected
                /\ AckMatchesOutcome

\* Every step keeps the counters exact.
LEMMA QuotaKept ==
    ASSUME StoreInv, AttemptInv, QuotaAccountsForJobs, [Next]_vars
    PROVE  QuotaAccountsForJobs'
<1>1. CASE UNCHANGED <<status, attempts, quotaVars>>
  BY <1>1 DEF QuotaAccountsForJobs, Running, quotaVars
<1>2. ASSUME NEW j \in Jobs, ApproveJob(j) PROVE QuotaAccountsForJobs'
  <2>1. /\ status[j] = "waiting_approval" /\ status' = [status EXCEPT ![j] = "queued"]
        /\ UNCHANGED <<attempts, quotaVars>>
    BY <1>2 DEF ApproveJob
  <2>2. Running' = Running /\ QueuedUnits' = QueuedUnits
    BY <2>1 DEF StoreInv, TypeOK, Running, QueuedUnits, Pending
  <2>3. QED
    BY <2>1, <2>2 DEF QuotaAccountsForJobs, QueuedUnits, quotaVars
<1>3. ASSUME NEW k \in sweep, RecoverExpiredLease(k)
      PROVE  UNCHANGED <<status, attempts, quotaVars>> \/ QuotaAccountsForJobs'
  <2>1. CASE Recoverable(k)
    BY <1>3, <2>1, RecoverAccounts
  <2>2. CASE ~Recoverable(k)
    BY <1>3, <2>2 DEF RecoverExpiredLease
  <2>3. QED
    BY <2>1, <2>2
<1>4. QED
  BY <1>1, <1>2, <1>3, InsertAccounts, CancelAccounts, ExpireAccounts, DisableAccounts,
     AcquireAccounts, CompleteAccounts DEF Next, QueueDeadlinePasses, PollCandidate,
     EnableRunner, BeginDisable, AbandonPoll, AuthorizeRunnerLease, HeartbeatLease,
     InsertArtifactOnce, ReplayCompletion, ExpireReceipt, Tick, ListExpiredRunningJobs,
     rowVars, vars

\* The accounting invariant holds of every reachable state.
THEOREM AccountInvariance == Spec => []AccountInv
<1>1. Init => AccountInv
  <2> SUFFICES ASSUME Init PROVE AccountInv
    OBVIOUS
  <2> USE DEF Init
  <2>1. StoreInv
    BY InitInv
  <2>2. AttemptInv /\ AckMatchesOutcome
    BY DEF AttemptInv, Running, AckMatchesOutcome
  <2>3. Running = {} /\ QueuedUnits = {} /\ \A r \in Runners : LeasedTo(r) = {}
    BY DEF Running, QueuedUnits, LeasedTo, Pending
  <2>4. QuotaAccountsForJobs
    BY <2>3, FS_EmptySet DEF QuotaAccountsForJobs, QueuedUnits
  <2>5. LimitsRespected
    <3>1. PICK g \in [SUBSET Jobs -> Nat] : \A s \in SUBSET Jobs : g[s] = UnitsOf(g, s)
      BY UnitsTable
    <3>2. RequestedUnits({}) = 0
      BY <3>1, UnitsFollow DEF UnitsOf
    <3>3. Cardinality({}) = 0 /\ \A n \in Nat : 0 <= n
      BY FS_EmptySet
    <3>4. \A r \in Runners : Capacity[r] \in Nat /\ ResourceCapacity[r] \in Nat
      BY StoreAssumption
    <3>5. RepoConcurrency \in Nat
      BY StoreAssumption
    <3>6. QED
      BY <2>3, <3>2, <3>3, <3>4, <3>5 DEF LimitsRespected
  <2>6. QED
    BY <2>1, <2>2, <2>4, <2>5 DEF AccountInv
<1>2. AccountInv /\ [Next]_vars => AccountInv'
  <2> SUFFICES ASSUME AccountInv, [Next]_vars PROVE AccountInv'
    OBVIOUS
  <2> USE DEF AccountInv
  <2>1. StoreInv' /\ Moves
    BY NextKeeps
  <2>2. AttemptInv'
    BY <2>1, AttemptKept DEF StoreInv
  <2>3. QuotaAccountsForJobs'
    BY QuotaKept
  <2>4. LimitsRespected'
    <3>1. CASE \E p \in poll : AcquireLeaseAtomic(p)
      BY <2>1, <3>1, ClaimFits
    <3>2. CASE \A p \in poll : ~AcquireLeaseAtomic(p)
      BY <2>1, <3>2, OnlyClaimsStart, FewerLeasesFit
    <3>3. QED
      BY <3>1, <3>2
  <2>5. AckMatchesOutcome'
    BY <2>1, AckKept
  <2>6. QED
    BY <2>1, <2>2, <2>3, <2>4, <2>5
<1>3. QED
  BY <1>1, <1>2, PTL DEF Spec

\* The quota counters are exact in every reachable state: no order of claims,
\* completions, recoveries, expiries, cancellations, supersessions and kill
\* switches returns a unit twice or loses one, and the clamp never applies.
THEOREM QuotaExact == Spec => []QuotaAccountsForJobs
<1>1. AccountInv => QuotaAccountsForJobs
  BY DEF AccountInv
<1>2. QED
  BY <1>1, AccountInvariance, PTL

\* No interleaving of polls overruns a runner's slots or resource units, an
\* environment's concurrency or the repository's.
THEOREM LimitsNeverOverrun == Spec => []LimitsRespected
<1>1. AccountInv => LimitsRespected
  BY DEF AccountInv
<1>2. QED
  BY <1>1, AccountInvariance, PTL

\* A runner is told "completed" only with the result its job ended in, and a job
\* is acknowledged for one lease and one result, through retries and receipt
\* expiry.
THEOREM AcknowledgementsTrue == Spec => []AckMatchesOutcome
<1>1. AccountInv => AckMatchesOutcome
  BY DEF AccountInv
<1>2. QED
  BY <1>1, AccountInvariance, PTL
=============================================================================
