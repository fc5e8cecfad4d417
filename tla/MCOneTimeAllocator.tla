------------------------- MODULE MCOneTimeAllocator -------------------------
(* Small instances of OneTimeAllocator for TLC. *)
EXTENDS OneTimeAllocator, TLC

(* Places and mappings are interchangeable *)
Symmetry == Permutations(Handles) \cup Permutations(Chunks)
=============================================================================
