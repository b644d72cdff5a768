------------------------------- MODULE PQueue -------------------------------
(***************************************************************************)
(* cpu/pqueue.c: the binary heap behind the coroutine scheduler's timers.   *)
(* Nodes know their own priority and their own position in the array        *)
(* (getpri/setpri, getpos/setpos); slot 0 of the array is never used and    *)
(* `size` is the first free slot.                                           *)
(*                                                                          *)
(* The program is single-threaded: while a call runs, no other one starts.  *)
(* A call does its own work in one step and leaves the hole it opened to    *)
(* the loop of bubble_up or percolate_down, whose every turn is a step; the *)
(* next call waits for op = "idle".                                         *)
(***************************************************************************)
EXTENDS Naturals, FiniteSets

CONSTANTS
    Nodes,              \* the entries callers put into the queue
    Priorities,         \* the values of pqueue_pri_t in use
    N,                  \* pqueue_init's estimate of the number of items
    MaxAvail,           \* bound: realloc of more slots than this fails
    Garbage             \* what malloc and realloc leave in a slot

ASSUME PrioritiesAssumption == Priorities \subseteq Nat
ASSUME SizesAssumption == N \in Nat /\ MaxAvail \in Nat
ASSUME GarbageAssumption == Garbage \notin Nodes

VARIABLES
    d,                  \* the array, slots 0..avail-1
    size,               \* the first free slot
    avail,              \* slots allocated
    pri,                \* each node's priority
    pos,                \* each node's position
    op,                 \* the loop that runs: "up", "down" or none ("idle")
    hole,               \* bubble_up's and percolate_down's i
    moving_node,        \* the node to settle in the hole
    ret                 \* what the last call returned

vars == <<d, size, avail, pri, pos, op, hole, moving_node, ret>>

step == N + 1

left(i) == 2 * i
right(i) == 2 * i + 1
parent(i) == i \div 2

(* my_coroutine.c's cmp_pri: the greater expiry gives way.                 *)
cmppri_mutant_max(next, curr) == next < curr

cmppri(next, curr) == next > curr

(* The array as it will be once moving_node is in the hole.                *)
Slot(j) == IF op # "idle" /\ j = hole THEN moving_node ELSE d[j]
Queued == {Slot(j) : j \in 1..(size - 1)}

TypeOK ==
    /\ avail \in Nat \ {0}
    /\ size \in 1..avail
    /\ d \in [0..(avail - 1) -> Nodes \cup {Garbage}]
    /\ pri \in [Nodes -> Priorities]
    /\ pos \in [Nodes -> Nat]
    /\ op \in {"idle", "up", "down"}
    /\ hole \in Nat
    /\ moving_node \in Nodes \cup {Garbage}
    /\ ret \in Nodes \cup {"none", "ok", "error", "NULL"}

(* pqueue_init.                                                            *)
Init ==
    /\ d = [j \in 0..N |-> Garbage]
    /\ size = 1
    /\ avail = step
    /\ pri \in [Nodes -> Priorities]
    /\ pos = [n \in Nodes |-> 0]
    /\ op = "idle"
    /\ hole = 0
    /\ moving_node = Garbage
    /\ ret = "none"

-----------------------------------------------------------------------------
(* The loops.                                                              *)

(* Enter bubble_up or percolate_down at slot i of array a.                 *)
Enter(loop, i, a) ==
    /\ d' = a
    /\ op' = loop
    /\ hole' = i
    /\ moving_node' = a[i]

(* The body of either loop: the node in slot j moves into the hole.        *)
ShiftInto_mutant_nopos(j) ==
    /\ d' = [d EXCEPT ![hole] = d[j]]
    /\ hole' = j
    /\ UNCHANGED <<size, avail, pri, pos, op, moving_node, ret>>

ShiftInto(j) ==
    /\ d' = [d EXCEPT ![hole] = d[j]]
    /\ pos' = [pos EXCEPT ![d[j]] = hole]
    /\ hole' = j
    /\ UNCHANGED <<size, avail, pri, op, moving_node, ret>>

(* The condition of bubble_up's loop.                                      *)
Rises == hole > 1 /\ cmppri(pri[d[parent(hole)]], pri[moving_node])

maxchild_mutant_left(i) == IF left(i) >= size THEN 0 ELSE left(i)

(* The child that must not be above the other one; 0 if there is no child. *)
maxchild(i) ==
    IF left(i) >= size THEN 0
    ELSE IF /\ right(i) < size
            /\ cmppri(pri[d[left(i)]], pri[d[right(i)]])
         THEN right(i)
         ELSE left(i)

(* The condition of percolate_down's loop.                                 *)
Sinks ==
    /\ maxchild(hole) # 0
    /\ cmppri(pri[moving_node], pri[d[maxchild(hole)]])

BubbleUp == op = "up" /\ Rises /\ ShiftInto(parent(hole))

PercolateDown == op = "down" /\ Sinks /\ ShiftInto(maxchild(hole))

(* After either loop: the node goes into the hole, and the call returns.   *)
Settle ==
    /\ \/ op = "up" /\ ~Rises
       \/ op = "down" /\ ~Sinks
    /\ d' = [d EXCEPT ![hole] = moving_node]
    /\ pos' = [pos EXCEPT ![moving_node] = hole]
    /\ op' = "idle"
    /\ UNCHANGED <<size, avail, pri, hole, moving_node, ret>>

Loop == BubbleUp \/ PercolateDown \/ Settle

-----------------------------------------------------------------------------
(* The calls.                                                              *)

(* Slot size of array a receives n and starts to rise.                     *)
PutLast(n, a) ==
    /\ Enter("up", size, [a EXCEPT ![size] = n])
    /\ size' = size + 1
    /\ ret' = "ok"
    /\ UNCHANGED pos

(* The array realloc returns.                                              *)
Grown(newsize) ==
    [j \in 0..(newsize - 1) |-> IF j < avail THEN d[j] ELSE Garbage]

(* pqueue_insert, by a caller that has just set the node's priority.  A    *)
(* full array grows by step, or realloc fails and the call returns 1.      *)
Insert(n, p) ==
    /\ op = "idle"
    /\ n \notin Queued
    /\ pri' = [pri EXCEPT ![n] = p]
    /\ \/ /\ size < avail
          /\ PutLast(n, d)
          /\ UNCHANGED avail
       \/ /\ size >= avail
          /\ size + step <= MaxAvail
          /\ PutLast(n, Grown(size + step))
          /\ avail' = size + step
       \/ /\ size >= avail
          /\ ret' = "error"
          /\ UNCHANGED <<d, size, avail, pos, op, hole, moving_node>>

(* pqueue_pop: the last node takes the head's slot and sinks from there.   *)
Pop_mutant_noempty ==
    /\ op = "idle"
    /\ ret' = d[1]
    /\ size' = size - 1
    /\ Enter("down", 1, [d EXCEPT ![1] = d[size - 1]])
    /\ UNCHANGED <<avail, pri, pos>>

Pop ==
    /\ op = "idle"
    /\ \/ /\ size = 1
          /\ ret' = "NULL"
          /\ UNCHANGED <<d, size, op, hole, moving_node>>
       \/ /\ size # 1
          /\ ret' = d[1]
          /\ size' = size - 1
          /\ Enter("down", 1, [d EXCEPT ![1] = d[size - 1]])
    /\ UNCHANGED <<avail, pri, pos>>

(* pqueue_peek.                                                            *)
Peek ==
    /\ op = "idle"
    /\ ret' = IF size = 1 THEN "NULL" ELSE d[1]
    /\ UNCHANGED <<d, size, avail, pri, pos, op, hole, moving_node>>

(* pqueue_change_priority of an entry of the queue.                        *)
ChangePriority(n, p) ==
    /\ op = "idle"
    /\ n \in Queued
    /\ pri' = [pri EXCEPT ![n] = p]
    /\ Enter(IF cmppri(pri[n], p) THEN "up" ELSE "down", pos[n], d)
    /\ ret' = "ok"
    /\ UNCHANGED <<size, avail, pos>>

(* pqueue_remove of an entry: the last node takes its slot and moves to    *)
(* where its own priority belongs.                                         *)
Remove_mutant_down(n) ==
    /\ op = "idle"
    /\ n \in Queued
    /\ size' = size - 1
    /\ Enter("down", pos[n], [d EXCEPT ![pos[n]] = d[size - 1]])
    /\ ret' = "ok"
    /\ UNCHANGED <<avail, pri, pos>>

Remove_mutant_keepsize(n) ==
    /\ op = "idle"
    /\ n \in Queued
    /\ LET last == d[size - 1]
       IN  Enter(IF cmppri(pri[n], pri[last]) THEN "up" ELSE "down",
                 pos[n], [d EXCEPT ![pos[n]] = last])
    /\ ret' = "ok"
    /\ UNCHANGED <<size, avail, pri, pos>>

Remove(n) ==
    /\ op = "idle"
    /\ n \in Queued
    /\ size' = size - 1
    /\ LET last == d[size - 1]
       IN  Enter(IF cmppri(pri[n], pri[last]) THEN "up" ELSE "down",
                 pos[n], [d EXCEPT ![pos[n]] = last])
    /\ ret' = "ok"
    /\ UNCHANGED <<avail, pri, pos>>

Next ==
    \/ Loop
    \/ Pop
    \/ Peek
    \/ \E n \in Nodes : Remove(n)
    \/ \E n \in Nodes, p \in Priorities : Insert(n, p) \/ ChangePriority(n, p)

Spec == Init /\ [][Next]_vars

-----------------------------------------------------------------------------
(* pqueue_is_valid: what subtree_is_valid returns for each slot, and the   *)
(* verdict at the root.                                                    *)
subtree_is_valid_mutant_shallow ==
    [j \in 1..size |->
        /\ left(j) < size => ~cmppri(pri[d[j]], pri[d[left(j)]])
        /\ right(j) < size => ~cmppri(pri[d[j]], pri[d[right(j)]])]

subtree_is_valid ==
    LET valid[j \in 1..size] ==
            /\ left(j) < size =>
                  ~cmppri(pri[d[j]], pri[d[left(j)]]) /\ valid[left(j)]
            /\ right(j) < size =>
                  ~cmppri(pri[d[j]], pri[d[right(j)]]) /\ valid[right(j)]
    IN  valid

pqueue_is_valid == subtree_is_valid[1]

-----------------------------------------------------------------------------
(* Properties                                                              *)

(* Between calls the array is a heap: no node has to give way to one of    *)
(* its children, whatever mixture of inserts, pops, removals of inner      *)
(* entries and changes of priority came before.                            *)
HeapOrder ==
    op = "idle" =>
        \A j \in 2..(size - 1) : pri[d[parent(j)]] <= pri[d[j]]

(* Between calls getpos is exact for every entry, so that the next         *)
(* pqueue_remove or pqueue_change_priority edits the right slot (and no    *)
(* entry sits in two slots).                                               *)
Positions == op = "idle" => \A j \in 1..(size - 1) : pos[d[j]] = j

(* No call loses or duplicates an entry, not even in the middle of a loop: *)
(* there are always size - 1 different ones, and none is an unset slot.    *)
NothingLost ==
    Cardinality(Queued) = size - 1 /\ Queued \subseteq Nodes

(* pqueue_is_valid is an exact oracle: at any moment, also while a loop    *)
(* has the array out of order, it says TRUE exactly when every node is no  *)
(* later than every node below it.  The slots below j are those in every   *)
(* set that has j and, with a slot, its children.                          *)
Children(i) == {left(i), right(i)} \cap (1..(size - 1))
Below(j, k) ==
    \A S \in SUBSET (1..(size - 1)) :
        j \in S /\ UNION {Children(i) : i \in S} \subseteq S => k \in S
ValidIsExact ==
    pqueue_is_valid <=>
        \A j, k \in 1..(size - 1) : Below(j, k) => pri[d[j]] <= pri[d[k]]

(* The heap implements the abstract queue: pop and peek return a minimum,  *)
(* every other call has its effect on the set and nothing else.            *)
Abs == INSTANCE AbstractPQ WITH queue <- Queued
RefinesAbstractPQ == Abs!Spec
=============================================================================
