------------------------- MODULE MCDynamicAllocator -------------------------
(* Small instances of DynamicAllocator for TLC. *)
EXTENDS DynamicAllocator, TLC

(* Names are interchangeable *)
Symmetry == Permutations(Names)
=============================================================================
