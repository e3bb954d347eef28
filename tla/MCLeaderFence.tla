--------------------------- MODULE MCLeaderFence ---------------------------
(***************************************************************************)
(* Instance of LeaderFence for TLC.                                        *)
(***************************************************************************)
EXTENDS LeaderFence

CONSTANTS p, q, t1, t2
============================================================================
