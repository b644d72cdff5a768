--------------------------- MODULE AbstractMutex ---------------------------
(***************************************************************************)
(* What thread/lock-impl promises its caller, with no lock word, no sleeping *)
(* and no waking: the body `sum++` between lll_lock and lll_unlock is done  *)
(* by one task at a time, exactly once per acquisition, as one atomic step. *)
(***************************************************************************)
EXTENDS Naturals, FiniteSets

CONSTANT Tasks          \* the threads that run fn()

VARIABLES
    holders,            \* the tasks between lll_lock's return and lll_unlock
    added,              \* TRUE once the present holder has added its one
    sum                 \* the shared counter

vars == <<holders, added, sum>>

Init ==
    /\ holders = {}
    /\ added = FALSE
    /\ sum = 0

(* lll_lock returns: nobody else is inside.                                *)
Acquire(t) ==
    /\ holders = {}
    /\ holders' = {t}
    /\ added' = FALSE
    /\ UNCHANGED sum

(* sum++ by the one task inside.                                           *)
Add(t) ==
    /\ holders = {t}
    /\ ~added
    /\ sum' = sum + 1
    /\ added' = TRUE
    /\ UNCHANGED holders

(* lll_unlock: the critical section is over and its increment is done.     *)
Release(t) ==
    /\ holders = {t}
    /\ added
    /\ holders' = {}
    /\ added' = FALSE
    /\ UNCHANGED sum

Next == \E t \in Tasks : Acquire(t) \/ Add(t) \/ Release(t)

Spec == Init /\ [][Next]_vars
=============================================================================
