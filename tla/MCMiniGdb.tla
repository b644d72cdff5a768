----------------------------- MODULE MCMiniGdb -----------------------------
(***************************************************************************)
(* MiniGdb for TLC: a program of five instructions on two source lines and  *)
(* one without line information; 2 is a branch and 4 may jump back to it,   *)
(* so that a breakpoint can be hit again.                                   *)
(***************************************************************************)
EXTENDS MiniGdb

MCSucc == <<{2}, {3, 4}, {5}, {2, 5}, {0}>>
MCLine == <<10, 10, 10, 11, 0>>
=============================================================================
