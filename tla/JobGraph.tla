------------------------------ MODULE JobGraph ------------------------------
(***************************************************************************)
(* The static job graph of the submitted runs and the pure rules the store *)
(* evaluates over a table of job statuses: dependency readiness and        *)
(* outcome, the job condition, the re-evaluation of the dependents of a    *)
(* job, and the aggregation of a run.  A status table is a function from   *)
(* Jobs to JobStatus.                                                      *)
(***************************************************************************)
EXTENDS Naturals, FiniteSets

CONSTANTS
    Jobs,       \* every job a run of the instance may insert
    Runs,       \* every run the instance may submit
    RunOf,      \* the run a job belongs to
    Needs,      \* the direct dependencies of a job
    Condition   \* the job's `if`, by what it accepts of the dependency outcome

\* An empty `if` is "success"; "never" stands for an expression about the
\* branch or the event that is false for this run.
Conditions == {"success", "failure", "cancelled", "always", "never"}

ASSUME GraphAssumption ==
    /\ IsFiniteSet(Jobs)
    /\ RunOf \in [Jobs -> Runs]
    /\ Needs \in [Jobs -> SUBSET Jobs]
    /\ \A j \in Jobs : \A d \in Needs[j] : d # j /\ RunOf[d] = RunOf[j]
    /\ Condition \in [Jobs -> Conditions]

Pending == {"queued", "waiting_approval"}

Terminal == {"success", "failure", "cancelled", "skipped", "blocked"}

\* "none" is a row that does not exist yet.
JobStatus == {"none", "running"} \cup Pending \cup Terminal

JobsOf(run) == {j \in Jobs : RunOf[j] = run}

Dependents(S) == {d \in Jobs : Needs[d] \cap S # {}}

-----------------------------------------------------------------------------
(* Dependency outcome and condition                                        *)

Ready(st, j) == \A d \in Needs[j] : st[d] \in Terminal

\* Failure dominates cancellation; a skipped dependency counts as success.
DependencyOutcome(st, j) ==
    IF \E d \in Needs[j] : st[d] \in {"failure", "blocked"} THEN "failure"
    ELSE IF \E d \in Needs[j] : st[d] = "cancelled" THEN "cancelled"
    ELSE "success"

ConditionAllows(j, outcome) ==
    \/ Condition[j] = "always"
    \/ Condition[j] \in {"success", "failure", "cancelled"} /\ Condition[j] = outcome

-----------------------------------------------------------------------------
(* Re-evaluation of dependents                                             *)

\* The status inside a row's jsonb payload.  A claim updates the columns
\* only, so the payload of a running row still reads "queued".
PayloadStatus(st, j) == IF st[j] = "running" THEN "queued" ELSE st[j]

\* Fault: the dependency outcome is not looked at when a condition rejects.
RecomputeDependentSkips(st, view, d) ==
    IF PayloadStatus(st, d) \notin Pending \/ ~Ready(view, d)
      THEN st[d]
    ELSE IF ConditionAllows(d, DependencyOutcome(view, d))
      THEN PayloadStatus(st, d)
    ELSE "skipped"

\* Fault: a dependent that may run is put in the queue, past its gate.
RecomputeDependentUngates(st, view, d) ==
    IF PayloadStatus(st, d) \notin Pending \/ ~Ready(view, d)
      THEN st[d]
    ELSE IF ConditionAllows(d, DependencyOutcome(view, d))
      THEN "queued"
    ELSE IF DependencyOutcome(view, d) = "success" THEN "skipped" ELSE "blocked"

\* What the re-evaluation writes for dependent d, whose own row is read from
\* st and whose needs are read from view.
RecomputeDependent(st, view, d) ==
    IF PayloadStatus(st, d) \notin Pending \/ ~Ready(view, d)
      THEN st[d]
    ELSE IF ConditionAllows(d, DependencyOutcome(view, d))
      THEN PayloadStatus(st, d)
    ELSE IF DependencyOutcome(view, d) = "success" THEN "skipped" ELSE "blocked"

\* The tables that re-evaluating the direct dependents of S, one after the
\* other in the order of their random ids, can produce.  A dependent that
\* needs another dependent may see it before or after its re-evaluation.
RecomputeDependents(st, S) ==
    {after \in {[j \in Jobs |-> IF j \in Dependents(S) THEN new[j] ELSE st[j]] :
                    new \in [Dependents(S) -> JobStatus]} :
        \A d \in Dependents(S) :
            after[d] \in {RecomputeDependent(st, st, d),
                          RecomputeDependent(st, after, d)}}

-----------------------------------------------------------------------------
(* Run aggregation                                                         *)

AggregateStatus(st, run) ==
    LET seen == {st[j] : j \in JobsOf(run)}
    IN  IF seen \subseteq Terminal
          THEN IF seen \cap {"failure", "blocked"} # {} THEN "failure"
               ELSE IF "cancelled" \in seen THEN "cancelled" ELSE "success"
        ELSE IF "running" \in seen THEN "running"
        ELSE IF "waiting_approval" \in seen THEN "waiting_approval"
        ELSE "queued"

\* A cancelled run is frozen.
RecomputeRun(rs, st, run) ==
    IF rs[run] = "cancelled" THEN rs[run] ELSE AggregateStatus(st, run)
=============================================================================
