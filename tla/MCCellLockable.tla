--------------------------- MODULE MCCellLockable ---------------------------
(* Small instances of CellLockable for TLC. *)
EXTENDS CellLockable, TLC

(* Producers are interchangeable; for the runs without liveness only *)
Symmetry == Permutations(Producers)
=============================================================================
