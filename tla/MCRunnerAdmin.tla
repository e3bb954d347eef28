--------------------------- MODULE MCRunnerAdmin ---------------------------
(***************************************************************************)
(* Instance of RunnerAdmin for TLC.                                        *)
(***************************************************************************)
EXTENDS RunnerAdmin

CONSTANTS job1, job2, h1, h2
=============================================================================
