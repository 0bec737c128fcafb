---------------------------- MODULE MCMetallica ----------------------------
(* The Metallica sensor on a small instance. *)
EXTENDS MetallicaSafety
=============================================================================
