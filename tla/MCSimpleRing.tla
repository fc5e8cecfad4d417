---------------------------- MODULE MCSimpleRing ----------------------------
(* Small instances of SimpleRing for TLC. *)
EXTENDS SimpleRing, TLC
=============================================================================
