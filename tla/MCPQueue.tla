------------------------------ MODULE MCPQueue ------------------------------
(***************************************************************************)
(* PQueue for TLC.  Six nodes are the fewest with which pqueue_remove can   *)
(* send the last node upwards: it has to come from the other subtree.       *)
(***************************************************************************)
EXTENDS PQueue

(* States are told apart up to a renaming of the nodes and up to data that *)
(* is written before it is read again: what nodes outside the queue hold,  *)
(* the slots from size on, and which node the last call returned.  For     *)
(* each slot: the priority and position of its node, which slots hold the  *)
(* same node, and the priority of the raw array entry.                     *)
PriOf(n) == IF n \in Nodes THEN pri[n] ELSE 0
PosOf(n) == IF n \in Nodes THEN pos[n] ELSE 0
View ==
    <<size, avail, op, IF op = "idle" THEN 0 ELSE hole,
      [j \in 1..(size - 1) |->
          <<PriOf(Slot(j)), IF op # "idle" /\ j = hole THEN 0 ELSE PosOf(d[j]), PriOf(d[j]),
            {k \in 1..(size - 1) : Slot(k) = Slot(j)}>>],
      IF op = "idle" THEN 0 ELSE PriOf(moving_node),
      IF ret \in Nodes THEN "node" ELSE ret>>
=============================================================================
