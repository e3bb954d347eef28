----------------------------- MODULE MCCasStore -----------------------------
(***************************************************************************)
(* Instance of CasStore for TLC.                                           *)
(***************************************************************************)
EXTENDS CasStore

CONSTANTS u1, u2, k, x
=============================================================================
