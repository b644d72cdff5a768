----------------------------- MODULE AbstractPQ -----------------------------
(***************************************************************************)
(* What cpu/pqueue.h promises: a set of nodes with priorities, from which   *)
(* peek and pop return a node none of the others precedes.  No array, no    *)
(* positions, no loop.                                                      *)
(***************************************************************************)
EXTENDS Naturals

CONSTANTS Nodes, Priorities

VARIABLES
    queue,              \* the nodes in the queue
    pri,                \* the priority stored in each node
    ret                 \* what the last call returned

vars == <<queue, pri, ret>>

Init ==
    /\ queue = {}
    /\ pri \in [Nodes -> Priorities]
    /\ ret = "none"

(* The nodes pqueue_pop may return.                                        *)
Front == {n \in queue : \A m \in queue : pri[n] <= pri[m]}

(* pqueue_insert of a node its caller gave priority p; it can run out of   *)
(* memory, and then the queue is as it was.                                *)
Insert(n, p) ==
    /\ n \notin queue
    /\ pri' = [pri EXCEPT ![n] = p]
    /\ \/ queue' = queue \cup {n} /\ ret' = "ok"
       \/ queue' = queue /\ ret' = "error"

Pop ==
    /\ \/ queue = {} /\ ret' = "NULL" /\ UNCHANGED queue
       \/ \E n \in Front : ret' = n /\ queue' = queue \ {n}
    /\ UNCHANGED pri

Peek ==
    /\ \/ queue = {} /\ ret' = "NULL"
       \/ \E n \in Front : ret' = n
    /\ UNCHANGED <<queue, pri>>

ChangePriority(n, p) ==
    /\ n \in queue
    /\ pri' = [pri EXCEPT ![n] = p]
    /\ ret' = "ok"
    /\ UNCHANGED queue

Remove(n) ==
    /\ n \in queue
    /\ queue' = queue \ {n}
    /\ ret' = "ok"
    /\ UNCHANGED pri

Next ==
    \/ Pop
    \/ Peek
    \/ \E n \in Nodes : Remove(n)
    \/ \E n \in Nodes, p \in Priorities : Insert(n, p) \/ ChangePriority(n, p)

Spec == Init /\ [][Next]_vars
=============================================================================
