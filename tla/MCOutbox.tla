------------------------------ MODULE MCOutbox ------------------------------
(***************************************************************************)
(* Instance of Outbox for TLC: the last state of a check may be refreshed  *)
(* with another payload.                                                   *)
(***************************************************************************)
EXTENDS Outbox

CONSTANTS p, q, check, c1, c2

LastRefreshed == <<{c1}, {c1, c2}>>
=============================================================================
