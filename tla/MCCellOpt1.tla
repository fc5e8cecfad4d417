----------------------------- MODULE MCCellOpt1 -----------------------------
(* Small instances of CellOpt1 for TLC. *)
EXTENDS CellOpt1, TLC
=============================================================================
