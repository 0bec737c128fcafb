------------------------------ MODULE MCClient ------------------------------
(* The configuration client on a small instance. *)
EXTENDS ClientSafety
=============================================================================
