---------------------------- MODULE JobLifecycle ----------------------------
(***************************************************************************)
(* What the job store promises its users, with no leases, runners, clocks, *)
(* quotas or receipts: how the visible state of a job may move and when a  *)
(* run gets its verdict.  JobStore is shown to implement it.               *)
(***************************************************************************)
EXTENDS JobGraph

VARIABLES state,    \* "absent", "open" or "running", then an outcome for good
          verdict   \* "none" until every job of the run has an outcome

States == {"absent", "open", "running"} \cup Terminal

Init ==
    /\ state = [j \in Jobs |-> "absent"]
    /\ verdict = [run \in Runs |-> "none"]

\* A job is submitted open, or refused at once.
Submitted(j) == state[j] = "absent" /\ state'[j] \in {"open", "blocked"}

\* An attempt starts only when every dependency has its outcome and the
\* job's condition accepts it.
Started(j) ==
    /\ state[j] = "open" /\ state'[j] = "running"
    /\ Ready(state, j)
    /\ ConditionAllows(j, DependencyOutcome(state, j))

\* An attempt is lost and the job waits for another.
Lost(j) == state[j] = "running" /\ state'[j] = "open"

Finished(j) ==
    state[j] = "running" /\ state'[j] \in {"success", "failure", "cancelled", "skipped"}

Cancelled(j) == state[j] = "open" /\ state'[j] = "cancelled"

\* A job that was never started is skipped or blocked only by its condition,
\* judged on the outcomes its dependencies have when the step ends.
Rejected(j) ==
    /\ state[j] = "open"
    /\ Ready(state', j)
    /\ ~ConditionAllows(j, DependencyOutcome(state', j))
    /\ state'[j] = IF DependencyOutcome(state', j) = "success" THEN "skipped" ELSE "blocked"

JobStep(j) ==
    \/ state'[j] = state[j]
    \/ Submitted(j) \/ Started(j) \/ Lost(j) \/ Finished(j) \/ Cancelled(j) \/ Rejected(j)

\* The verdict is given once, in the step in which the last job of the run
\* gets its outcome.  It is the aggregate of the outcomes, or "cancelled" when
\* that step cancelled what was left of the run.
VerdictStep(run) ==
    LET decided == \A j \in JobsOf(run) : state'[j] \in Terminal
        worked  == \E j \in JobsOf(run) : state[j] \in {"open", "running"}
    IN  \/ verdict'[run] = verdict[run] /\ (verdict[run] # "none" \/ ~decided \/ ~worked)
        \/ /\ verdict[run] = "none" /\ decided
           /\ \/ verdict'[run] = AggregateStatus(state', run)
              \/ /\ verdict'[run] = "cancelled"
                 /\ worked => \E j \in JobsOf(run) : /\ state[j] # "cancelled"
                                                     /\ state'[j] = "cancelled"

Next ==
    /\ state' \in [Jobs -> States]
    /\ verdict' \in [Runs -> {"none"} \cup Terminal]
    /\ \A j \in Jobs : JobStep(j)
    /\ \A run \in Runs : VerdictStep(run)

Spec == Init /\ [][Next]_<<state, verdict>>
=============================================================================
