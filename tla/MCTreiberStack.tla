--------------------------- MODULE MCTreiberStack ---------------------------
(***************************************************************************)
(* TreiberStack for TLC: threads and nodes are each alike.                  *)
(***************************************************************************)
EXTENDS TreiberStack, TLC

Symmetry == Permutations(Threads) \cup Permutations(Nodes)
=============================================================================
