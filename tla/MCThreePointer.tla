--------------------------- MODULE MCThreePointer ---------------------------
(* Small instances of ThreePointer for TLC. *)
EXTENDS ThreePointer, TLC

(* Producers are interchangeable; for the runs without liveness only *)
Symmetry == Permutations(Producers)
=============================================================================
