--------------------------- MODULE AbstractStack ---------------------------
(***************************************************************************)
(* What thread/atomic/test.cpp promises: a stack whose operations happen    *)
(* one at a time, each as a single step.                                    *)
(***************************************************************************)
EXTENDS Sequences

CONSTANTS Threads, Nodes

VARIABLES
    stack,              \* the nodes pushed and not popped, the newest first
    got                 \* what the last pop of each thread got

vars == <<stack, got>>

Init ==
    /\ stack = << >>
    /\ got = [t \in Threads |-> "none"]

Push(n) ==
    /\ stack' = <<n>> \o stack
    /\ UNCHANGED got

Pop(t) ==
    /\ stack # << >>
    /\ stack' = Tail(stack)
    /\ got' = [got EXCEPT ![t] = Head(stack)]

PopEmpty(t) ==
    /\ stack = << >>
    /\ got' = [got EXCEPT ![t] = "empty"]
    /\ UNCHANGED stack

Next ==
    \/ \E n \in Nodes : Push(n)
    \/ \E t \in Threads : Pop(t) \/ PopEmpty(t)

Spec == Init /\ [][Next]_vars
=============================================================================
