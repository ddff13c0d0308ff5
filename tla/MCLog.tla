------------------------------- MODULE MCLog -------------------------------
(* The log, with its invariant, on a small instance. *)
EXTENDS LogInv
=============================================================================
