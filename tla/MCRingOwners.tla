---------------------------- MODULE MCRingOwners ----------------------------
(* Small instances of RingOwners for TLC. *)
EXTENDS RingOwners, TLC

(* Variables and rings are interchangeable *)
Symmetry == Permutations(Vars) \cup Permutations(Rings)
=============================================================================
