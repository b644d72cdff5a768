-------------------------- MODULE AbstractProgram --------------------------
(***************************************************************************)
(* A program that runs with nobody watching: it moves from an instruction   *)
(* to one of its successors, and in no other way.                           *)
(***************************************************************************)
CONSTANTS
    Entry,              \* the first instruction
    Succ                \* the successors of each instruction

VARIABLE at             \* the instruction to execute next, or "exit"

Init == at = Entry

Next == at \in DOMAIN Succ /\ at' \in Succ[at]

Spec == Init /\ [][Next]_at
=============================================================================
