----------------------------- MODULE MCJobStore -----------------------------
(***************************************************************************)
(* Instances of JobStore for TLC.                                          *)
(***************************************************************************)
EXTENDS JobStore, TLC

CONSTANTS a, b, c, d, e, run1, run2, r1, r2

\* Graph: in run1 b needs a and c needs both; run2 is the gated d and the
\* branch-denied e.  The environment keeps c and d apart, the units b and d.
GraphRunOf == a :> run1 @@ b :> run1 @@ c :> run1 @@ d :> run2 @@ e :> run2
GraphNeeds == a :> {} @@ b :> {a} @@ c :> {a, b} @@ d :> {} @@ e :> {}
GraphCondition ==
    a :> "success" @@ b :> "success" @@ c :> "always" @@ d :> "success" @@ e :> "success"
GraphEnvironment == a :> "" @@ b :> "" @@ c :> "prod" @@ d :> "prod" @@ e :> "prod"
GraphRequest == a :> 2 @@ b :> 3 @@ c :> 2 @@ d :> 1 @@ e :> 1
GraphCapacity == r1 :> 2
GraphResources == r1 :> 3

\* Lease: one job that two runners compete for.
LeaseRunOf == a :> run1
LeaseNeeds == a :> {}
LeaseCondition == a :> "success"
LeaseEnvironment == a :> ""
LeaseRequest == a :> 1
LeaseCapacity == r1 :> 1 @@ r2 :> 1
LeaseResources == r1 :> 0 @@ r2 :> 0
LeaseSymmetry == Permutations({r1, r2})

\* Fleet: the root jobs of two runs of one repository, two of them bound to one
\* environment, and two runners, one of which may be disabled while it holds
\* two leases.
FleetRunOf == a :> run1 @@ b :> run1 @@ c :> run2
FleetNeeds == [j \in {a, b, c} |-> {}]
FleetEnvironment == a :> "prod" @@ b :> "" @@ c :> "prod"
FleetRequest == a :> 1 @@ b :> 2 @@ c :> 1
FleetCapacity == r1 :> 2 @@ r2 :> 1
FleetResources == r1 :> 3 @@ r2 :> 1

\* Chain: b needs a and c needs b.  Tail: c has a condition that never admits it.
ChainRunOf == a :> run1 @@ b :> run1 @@ c :> run1
ChainNeeds == a :> {} @@ b :> {a} @@ c :> {b}
ChainCondition == a :> "success" @@ b :> "success" @@ c :> "success"
TailCondition == a :> "success" @@ b :> "success" @@ c :> "never"
ChainEnvironment == a :> "" @@ b :> "" @@ c :> ""
ChainRequest == a :> 1 @@ b :> 1 @@ c :> 1
OneSlot == r1 :> 1
Unconstrained == r1 :> 0
=============================================================================
