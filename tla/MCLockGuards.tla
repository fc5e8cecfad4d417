---------------------------- MODULE MCLockGuards ----------------------------
(* Small instances of LockGuards for TLC. *)
EXTENDS LockGuards, TLC

(* Threads are interchangeable, and so are their variables and the entries *)
Symmetry == Permutations(Threads) \cup Permutations(Places) \cup Permutations(Entries)
=============================================================================
