----------------------------- MODULE MCLllLock -----------------------------
(***************************************************************************)
(* LllLock for TLC: the tasks are interchangeable (no action chooses one in *)
(* particular), so a run of invariants alone is reduced by permutation.     *)
(***************************************************************************)
EXTENDS LllLock, TLC

Symmetry == Permutations(Tasks)
=============================================================================
