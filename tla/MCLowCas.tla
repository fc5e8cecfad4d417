------------------------------ MODULE MCLowCas ------------------------------
(* Small instances of LowCas for TLC. *)
EXTENDS LowCas, TLC

(* Producers are interchangeable *)
Symmetry == Permutations(Producers)
=============================================================================
