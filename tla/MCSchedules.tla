----------------------------- MODULE MCSchedules -----------------------------
(***************************************************************************)
(* Instance of Schedules for TLC: a schedule whose cron expression names   *)
(* every minute.                                                           *)
(***************************************************************************)
EXTENDS Schedules

CONSTANTS p, q, nightly

EveryMinute == [id \in {nightly} |-> 1..2]
=============================================================================
