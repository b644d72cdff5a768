---------------------------- MODULE PQueueProofs ----------------------------
(***************************************************************************)
(* Proofs about PQueue, for every set of nodes, every set of priorities,    *)
(* every initial capacity and every limit of memory.                        *)
(***************************************************************************)
EXTENDS PQueue, FiniteSetTheorems, WellFoundedInduction, TLAPS

-----------------------------------------------------------------------------
(* Arithmetic of the heap's index functions.                               *)

LEMMA ParentFacts ==
  ASSUME NEW j \in Nat, j >= 2
  PROVE  /\ parent(j) \in Nat
         /\ 1 <= parent(j)
         /\ parent(j) < j
  BY DEF parent

LEMMA ChildFacts ==
  ASSUME NEW j \in Nat, j >= 2, NEW h \in Nat
  PROVE  parent(j) = h <=> (j = left(h) \/ j = right(h))
  BY DEF parent, left, right

(* A non-empty set of natural numbers has a least element.                 *)
LEMMA LeastNatural ==
  ASSUME NEW T \in SUBSET Nat, T # {}
  PROVE  \E x \in T : \A y \in T : x <= y
<1>1. \E x \in T : \A y \in T : ~ (<<y, x>> \in OpToRel(<, Nat))
  BY NatLessThanWellFounded, WFMin
<1>2. PICK x \in T : \A y \in T : ~ (<<y, x>> \in OpToRel(<, Nat))
  BY <1>1
<1>3. ASSUME NEW y \in T PROVE x <= y
  <2>1. x \in Nat /\ y \in Nat
    OBVIOUS
  <2>2. ~ (y < x)
    BY <1>2, <2>1 DEF OpToRel
  <2>3. QED
    BY <2>1, <2>2
<1>4. QED
  BY <1>3
-----------------------------------------------------------------------------
(* The inductive invariant.  While a loop runs the array has a hole, and   *)
(* everything is said of the array with moving_node in it (Slot).          *)

Live == 1..(size - 1)

NodesInv == \A j \in Live : Slot(j) \in Nodes

HoleInv ==
    /\ op # "idle" => moving_node \in Nodes /\ hole \in 1..size /\ hole < avail
    /\ op = "up" => hole < size

PosInv == \A j \in Live : op = "idle" \/ j # hole => pos[d[j]] = j

MoveInv == op # "idle" => \A j \in Live : j # hole => d[j] # moving_node

(* The heap order may fail in one place only: above the hole while a node  *)
(* rises, below it while a node sinks ...                                  *)
OrderInv ==
    \A j \in 2..(size - 1) :
        \/ op = "up" /\ j = hole
        \/ op = "down" /\ parent(j) = hole
        \/ pri[Slot(parent(j))] <= pri[Slot(j)]

(* ... and across the hole it holds in either case.                        *)
BridgeInv ==
    op # "idle" /\ hole > 1 =>
        \A j \in 2..(size - 1) :
            parent(j) = hole => pri[d[parent(hole)]] <= pri[d[j]]

HeapInv == /\ TypeOK /\ NodesInv /\ HoleInv /\ PosInv /\ MoveInv
           /\ OrderInv /\ BridgeInv

LEMMA InitHeap == Init => HeapInv
  BY SizesAssumption
  DEF Init, HeapInv, TypeOK, NodesInv, HoleInv, PosInv, MoveInv, OrderInv,
      BridgeInv, Live, step

LEMMA PriType == HeapInv => pri \in [Nodes -> Nat]
  BY PrioritiesAssumption DEF HeapInv, TypeOK

LEMMA BubbleUpHeap == HeapInv /\ BubbleUp => HeapInv'
<1> SUFFICES ASSUME HeapInv, BubbleUp PROVE HeapInv'
  OBVIOUS
<1>0. PICK p : p = parent(hole)
  OBVIOUS
<1>1. /\ op = "up" /\ op' = "up" /\ hole' = p
      /\ d' = [d EXCEPT ![hole] = d[p]]
      /\ pos' = [pos EXCEPT ![d[p]] = hole]
      /\ UNCHANGED <<size, avail, pri, moving_node, ret>>
      /\ hole > 1 /\ pri[d[p]] > pri[moving_node]
  BY <1>0 DEF BubbleUp, ShiftInto, Rises, cmppri
<1>2. /\ size \in Nat /\ avail \in Nat /\ size <= avail
      /\ hole \in Nat /\ hole < size /\ hole < avail
      /\ p \in Nat /\ 1 <= p /\ p < hole
  BY <1>0, <1>1, ParentFacts DEF HeapInv, TypeOK, HoleInv
<1>3. d[p] \in Nodes
  BY <1>1, <1>2 DEF HeapInv, NodesInv, Slot, Live
<1>4. TypeOK'
  BY <1>1, <1>2, <1>3 DEF HeapInv, TypeOK
<1>5. NodesInv'
  BY <1>1, <1>2, <1>3 DEF HeapInv, TypeOK, HoleInv, NodesInv, Slot, Live
<1>6. HoleInv'
  BY <1>1, <1>2 DEF HeapInv, TypeOK, HoleInv
<1>7. PosInv'
  BY <1>1, <1>2, <1>3 DEF HeapInv, TypeOK, PosInv, NodesInv, Slot, Live
<1>8. MoveInv'
  BY <1>1, <1>2, <1>3 DEF HeapInv, TypeOK, MoveInv, Live
<1>9. OrderInv'
  <2> SUFFICES ASSUME NEW j \in 2..(size - 1), j # p
               PROVE  pri'[Slot(parent(j))'] <= pri'[Slot(j)']
    BY <1>1, <1>2 DEF OrderInv
  <2>1. parent(j) \in Nat /\ 1 <= parent(j) /\ parent(j) < j /\ j \in Nat
    BY <1>2, ParentFacts
  <2>2. pri \in [Nodes -> Nat] /\ moving_node \in Nodes
    BY <1>1, PriType DEF HeapInv, HoleInv
  <2>3. CASE j = hole
    BY <1>0, <1>1, <1>2, <2>1, <2>2, <2>3, <1>3 DEF Slot, HeapInv, TypeOK
  <2>4. CASE j # hole /\ parent(j) = hole
    BY <1>0, <1>1, <1>2, <2>1, <2>2, <2>4, <1>3
    DEF Slot, HeapInv, TypeOK, BridgeInv
  <2>5. CASE j # hole /\ parent(j) = p
    <3>1. pri[d[p]] <= pri[d[j]]
      BY <1>1, <1>2, <2>1, <2>5 DEF HeapInv, OrderInv, Slot
    <3>2. d[j] \in Nodes
      BY <1>1, <1>2, <2>1, <2>5 DEF HeapInv, NodesInv, Slot, Live
    <3>3. QED
      BY <1>1, <1>2, <1>3, <2>1, <2>2, <2>5, <3>1, <3>2
      DEF Slot, HeapInv, TypeOK
  <2>6. CASE j # hole /\ parent(j) # hole /\ parent(j) # p
    BY <1>1, <1>2, <2>1, <2>6 DEF HeapInv, TypeOK, OrderInv, Slot
  <2>7. QED
    BY <2>3, <2>4, <2>5, <2>6
<1>10. BridgeInv'
  <2> SUFFICES ASSUME p > 1, NEW j \in 2..(size - 1), parent(j) = p
               PROVE  pri'[d'[parent(p)]] <= pri'[d'[j]]
    BY <1>1, <1>2 DEF BridgeInv
  <2>1. /\ parent(j) < j /\ j \in Nat
        /\ parent(p) \in Nat /\ 1 <= parent(p) /\ parent(p) < p
    BY <1>2, ParentFacts
  <2>2. pri \in [Nodes -> Nat]
    BY PriType
  <2>3. d[parent(p)] \in Nodes /\ pri[d[parent(p)]] <= pri[d[p]]
    BY <1>1, <1>2, <2>1 DEF HeapInv, NodesInv, OrderInv, Slot, Live
  <2>4. CASE j = hole
    BY <1>1, <1>2, <2>1, <2>3, <2>4 DEF HeapInv, TypeOK
  <2>5. CASE j # hole
    <3>1. d[j] \in Nodes /\ pri[d[p]] <= pri[d[j]]
      BY <1>1, <1>2, <2>1, <2>5 DEF HeapInv, NodesInv, OrderInv, Slot, Live
    <3>2. pri' = pri /\ d'[parent(p)] = d[parent(p)] /\ d'[j] = d[j]
      BY <1>1, <1>2, <2>1, <2>5 DEF HeapInv, TypeOK
    <3>3. /\ pri[d[parent(p)]] \in Nat
          /\ pri[d[p]] \in Nat
          /\ pri[d[j]] \in Nat
      BY <1>3, <2>2, <2>3, <3>1
    <3>4. QED
      BY <2>3, <3>1, <3>2, <3>3
  <2>6. QED
    BY <2>4, <2>5
<1>11. QED
  BY <1>4, <1>5, <1>6, <1>7, <1>8, <1>9, <1>10 DEF HeapInv

(* maxchild finds the child that gives way to no other child, if any.      *)
LEMMA MaxchildFacts ==
  ASSUME HeapInv, op = "down"
  PROVE  /\ maxchild(hole) = 0 =>
              \A j \in 2..(size - 1) : parent(j) # hole
         /\ maxchild(hole) # 0 =>
              /\ maxchild(hole) \in 2..(size - 1)
              /\ parent(maxchild(hole)) = hole
              /\ hole < maxchild(hole)
              /\ \A j \in 2..(size - 1) :
                    parent(j) = hole => pri[d[maxchild(hole)]] <= pri[d[j]]
<1>1. size \in Nat /\ hole \in Nat /\ 1 <= hole
  BY DEF HeapInv, TypeOK, HoleInv
<1>2. left(hole) \in Nat /\ right(hole) = left(hole) + 1 /\ hole < left(hole)
  BY <1>1 DEF left, right
<1>3. \A j \in 2..(size - 1) :
        parent(j) = hole <=> (j = left(hole) \/ j = right(hole))
  BY <1>1, ChildFacts
<1>4. \A j \in 2..(size - 1) : j # hole => pri[d[j]] \in Nat
  <2>1. \A j \in 2..(size - 1) : j # hole => d[j] \in Nodes
    BY <1>1 DEF HeapInv, NodesInv, Slot, Live
  <2>2. QED
    BY <2>1, PriType
<1>5. CASE left(hole) >= size
  BY <1>1, <1>2, <1>3, <1>5 DEF maxchild
<1>6. CASE left(hole) < size /\ ~(right(hole) < size)
  BY <1>1, <1>2, <1>3, <1>4, <1>6 DEF maxchild
<1>7. CASE right(hole) < size
  BY <1>1, <1>2, <1>3, <1>4, <1>7 DEF maxchild, cmppri
<1>8. QED
  BY <1>1, <1>2, <1>5, <1>6, <1>7

LEMMA PercolateDownHeap == HeapInv /\ PercolateDown => HeapInv'
<1> SUFFICES ASSUME HeapInv, PercolateDown PROVE HeapInv'
  OBVIOUS
<1>0. PICK c : c = maxchild(hole)
  OBVIOUS
<1>1. /\ op = "down" /\ op' = "down" /\ hole' = c
      /\ d' = [d EXCEPT ![hole] = d[c]]
      /\ pos' = [pos EXCEPT ![d[c]] = hole]
      /\ UNCHANGED <<size, avail, pri, moving_node, ret>>
      /\ c # 0 /\ pri[moving_node] > pri[d[c]]
  BY <1>0 DEF PercolateDown, ShiftInto, Sinks, cmppri
<1>2. /\ size \in Nat /\ avail \in Nat /\ size <= avail
      /\ hole \in Nat /\ 1 <= hole /\ hole < c
      /\ c \in Nat /\ 2 <= c /\ c < size /\ parent(c) = hole
  BY <1>0, <1>1, MaxchildFacts DEF HeapInv, TypeOK, HoleInv
<1>3. \A j \in 2..(size - 1) : parent(j) = hole => pri[d[c]] <= pri[d[j]]
  BY <1>0, <1>1, MaxchildFacts
<1>4. d[c] \in Nodes /\ moving_node \in Nodes /\ pri \in [Nodes -> Nat]
  <2>1. d[c] \in Nodes
    BY <1>1, <1>2 DEF HeapInv, NodesInv, Slot, Live
  <2>2. moving_node \in Nodes
    BY <1>1 DEF HeapInv, HoleInv
  <2>3. QED
    BY <2>1, <2>2, PriType
<1>5. TypeOK'
  BY <1>1, <1>2, <1>4 DEF HeapInv, TypeOK
<1>6. NodesInv'
  BY <1>1, <1>2, <1>4 DEF HeapInv, TypeOK, NodesInv, Slot, Live
<1>7. HoleInv'
  BY <1>1, <1>2, <1>4 DEF HeapInv, TypeOK, HoleInv
<1>8. PosInv'
  BY <1>1, <1>2, <1>4 DEF HeapInv, TypeOK, PosInv, NodesInv, Slot, Live
<1>9. MoveInv'
  BY <1>1, <1>2, <1>4 DEF HeapInv, TypeOK, MoveInv, Live
<1>10. OrderInv'
  <2> SUFFICES ASSUME NEW j \in 2..(size - 1), parent(j) # c
               PROVE  pri'[Slot(parent(j))'] <= pri'[Slot(j)']
    BY <1>1, <1>2 DEF OrderInv
  <2>1. parent(j) \in Nat /\ 1 <= parent(j) /\ parent(j) < j /\ j \in Nat
    BY <1>2, ParentFacts
  <2>2. CASE j = c
    BY <1>1, <1>2, <1>4, <2>1, <2>2 DEF Slot, HeapInv, TypeOK
  <2>3. CASE j # c /\ parent(j) = hole
    BY <1>1, <1>2, <1>3, <2>1, <2>3 DEF Slot, HeapInv, TypeOK
  <2>4. CASE j = hole
    BY <1>1, <1>2, <2>1, <2>4 DEF Slot, HeapInv, TypeOK, BridgeInv
  <2>5. CASE j # c /\ j # hole /\ parent(j) # hole
    BY <1>1, <1>2, <2>1, <2>5 DEF Slot, HeapInv, TypeOK, OrderInv
  <2>6. QED
    BY <2>2, <2>3, <2>4, <2>5
<1>11. BridgeInv'
  <2> SUFFICES ASSUME NEW j \in 2..(size - 1), parent(j) = c
               PROVE  pri'[d'[parent(c)]] <= pri'[d'[j]]
    BY <1>1, <1>2 DEF BridgeInv
  <2>1. parent(j) < j /\ j \in Nat
    BY <1>2, ParentFacts
  <2>2. pri[d[c]] <= pri[d[j]]
    BY <1>1, <1>2, <2>1 DEF HeapInv, OrderInv, Slot
  <2>3. QED
    BY <1>1, <1>2, <2>1, <2>2 DEF HeapInv, TypeOK
<1>12. QED
  BY <1>5, <1>6, <1>7, <1>8, <1>9, <1>10, <1>11 DEF HeapInv

LEMMA SettleHeap == HeapInv /\ Settle => HeapInv'
<1> SUFFICES ASSUME HeapInv, Settle PROVE HeapInv'
  OBVIOUS
<1>1. /\ op # "idle" /\ op' = "idle"
      /\ d' = [d EXCEPT ![hole] = moving_node]
      /\ pos' = [pos EXCEPT ![moving_node] = hole]
      /\ UNCHANGED <<size, avail, pri, hole, moving_node, ret>>
  BY DEF Settle
<1>2. /\ size \in Nat /\ avail \in Nat /\ size <= avail
      /\ hole \in Nat /\ 1 <= hole /\ hole < avail
      /\ moving_node \in Nodes /\ pri \in [Nodes -> Nat]
  BY <1>1, PriType DEF HeapInv, TypeOK, HoleInv
<1>3. \A j \in Live : d'[j] = Slot(j)
  BY <1>1, <1>2 DEF HeapInv, TypeOK, Slot, Live
<1>4. TypeOK'
  BY <1>1, <1>2 DEF HeapInv, TypeOK
<1>5. NodesInv' /\ HoleInv' /\ MoveInv' /\ BridgeInv'
  BY <1>1, <1>2, <1>3
  DEF HeapInv, NodesInv, HoleInv, MoveInv, BridgeInv, Slot, Live
<1>6. PosInv'
  BY <1>1, <1>2 DEF HeapInv, TypeOK, PosInv, MoveInv, NodesInv, Slot, Live
<1>7. OrderInv'
  <2> SUFFICES ASSUME NEW j \in 2..(size - 1)
               PROVE  pri[Slot(parent(j))] <= pri[Slot(j)]
    <3>1. ASSUME NEW j \in 2..(size - 1)
          PROVE  (pri[Slot(parent(j))] <= pri[Slot(j)])'
      <4>1. pri[Slot(parent(j))] <= pri[Slot(j)]
        OBVIOUS
      <4>2. j \in Live /\ parent(j) \in Live
        BY <1>2, ParentFacts DEF Live
      <4>3. QED
        BY <1>1, <1>3, <4>1, <4>2 DEF Slot
    <3>2. QED
      BY <1>1, <3>1 DEF OrderInv
  <2>1. parent(j) \in Nat /\ 1 <= parent(j) /\ parent(j) < j /\ j \in Nat
    BY <1>2, ParentFacts
  <2>2. Slot(j) \in Nodes /\ Slot(parent(j)) \in Nodes
    BY <1>2, <2>1 DEF HeapInv, NodesInv, Live
  <2>3. CASE op = "up" /\ ~Rises
    <3>1. CASE j # hole
      BY <2>3, <3>1 DEF HeapInv, OrderInv
    <3>2. CASE j = hole
      BY <1>2, <2>1, <2>2, <2>3, <3>2 DEF Rises, cmppri, Slot
    <3>3. QED
      BY <3>1, <3>2
  <2>4. CASE op = "down" /\ ~Sinks
    <3>1. CASE parent(j) # hole
      BY <2>4, <3>1 DEF HeapInv, OrderInv
    <3>2. CASE parent(j) = hole
      <4>0. PICK c : c = maxchild(hole)
        OBVIOUS
      <4>1. /\ c \in 2..(size - 1) /\ hole < c
            /\ pri[d[c]] <= pri[d[j]]
        BY <2>4, <3>2, <4>0, MaxchildFacts
      <4>2. ~(pri[moving_node] > pri[d[c]])
        BY <1>2, <2>4, <4>0, <4>1 DEF Sinks, cmppri
      <4>3. d[c] \in Nodes /\ d[j] \in Nodes
        BY <1>2, <2>1, <3>2, <4>1 DEF HeapInv, NodesInv, Slot, Live
      <4>4. Slot(parent(j)) = moving_node /\ Slot(j) = d[j]
        BY <1>1, <2>1, <3>2 DEF Slot
      <4>5. /\ pri[moving_node] \in Nat
            /\ pri[d[c]] \in Nat
            /\ pri[d[j]] \in Nat
        BY <1>2, <4>3
      <4>6. QED
        BY <4>1, <4>2, <4>4, <4>5
    <3>3. QED
      BY <3>1, <3>2
  <2>5. QED
    BY <2>3, <2>4 DEF Settle
<1>8. QED
  BY <1>4, <1>5, <1>6, <1>7 DEF HeapInv

(* The calls.  Between calls the array is a plain heap.                    *)
LEMMA IdleFacts ==
  ASSUME HeapInv, op = "idle"
  PROVE  /\ size \in Nat /\ 1 <= size /\ avail \in Nat /\ size <= avail
         /\ \A j \in Live : j \in Nat /\ d[j] \in Nodes /\ pos[d[j]] = j
         /\ \A j \in Live : j >= 2 =>
              /\ parent(j) \in Live /\ parent(j) < j
              /\ pri[d[parent(j)]] <= pri[d[j]]
         /\ Queued = {d[j] : j \in Live}
<1>1. size \in Nat /\ 1 <= size /\ avail \in Nat /\ size <= avail
  BY DEF HeapInv, TypeOK
<1>2. \A j \in Live : j \in Nat /\ d[j] \in Nodes /\ pos[d[j]] = j
  BY <1>1 DEF HeapInv, NodesInv, PosInv, Slot, Live
<1>3. ASSUME NEW j \in Live, j >= 2
      PROVE  /\ parent(j) \in Live /\ parent(j) < j
             /\ pri[d[parent(j)]] <= pri[d[j]]
  <2>1. j \in Nat /\ parent(j) \in Nat /\ 1 <= parent(j) /\ parent(j) < j
    BY <1>1, <1>3, ParentFacts DEF Live
  <2>2. pri[d[parent(j)]] <= pri[d[j]]
    BY <1>1, <1>3, <2>1 DEF HeapInv, OrderInv, Slot, Live
  <2>3. QED
    BY <1>1, <2>1, <2>2 DEF Live
<1>4. Queued = {d[j] : j \in Live}
  BY DEF Queued, Slot, Live
<1>5. QED
  BY <1>1, <1>2, <1>3, <1>4

LEMMA PutLastHeap ==
  ASSUME HeapInv, op = "idle", NEW n \in Nodes, n \notin Queued,
         NEW p \in Priorities, pri' = [pri EXCEPT ![n] = p],
         NEW av \in Nat, avail' = av, size < av,
         NEW a \in [0..(av - 1) -> Nodes \cup {Garbage}],
         \A j \in Live : a[j] = d[j],
         PutLast(n, a)
  PROVE  HeapInv'
<1>1. /\ d' = [a EXCEPT ![size] = n]
      /\ op' = "up" /\ hole' = size /\ size' = size + 1
      /\ pos' = pos /\ ret' = "ok"
  BY DEF PutLast, Enter
<1>2. size \in Nat /\ 1 <= size
  BY IdleFacts
<1>3. moving_node' = n
  <2>1. moving_node' = d'[size]
    BY DEF PutLast, Enter
  <2>2. size \in DOMAIN a
    BY <1>2
  <2>3. QED
    BY <1>1, <2>1, <2>2
<1>4. \A j \in Live : d'[j] = d[j] /\ d[j] \in Nodes /\ d[j] # n
  <2>1. \A j \in Live : d[j] \in Nodes /\ d[j] # n
    BY IdleFacts
  <2>2. \A j \in Live : j # size /\ j \in DOMAIN a
    BY <1>2 DEF Live
  <2>3. QED
    BY <1>1, <2>1, <2>2
<1>5. \A j \in Live' : j = size \/ j \in Live
  BY <1>1, <1>2 DEF Live
<1>6. TypeOK'
  BY <1>1, <1>2, <1>3 DEF HeapInv, TypeOK
<1>7. NodesInv' /\ HoleInv' /\ MoveInv'
  BY <1>1, <1>2, <1>3, <1>4, <1>5 DEF NodesInv, HoleInv, MoveInv, Slot
<1>8. PosInv'
  BY <1>1, <1>4, <1>5, IdleFacts DEF PosInv
<1>9. OrderInv'
  <2> SUFFICES ASSUME NEW j \in 2..size, j # size
               PROVE  pri'[Slot(parent(j))'] <= pri'[Slot(j)']
    BY <1>1, <1>2 DEF OrderInv
  <2>1. /\ j \in Live /\ parent(j) \in Live /\ parent(j) # size
        /\ pri[d[parent(j)]] <= pri[d[j]]
    BY <1>2, IdleFacts DEF Live
  <2>2. Slot(parent(j))' = d[parent(j)] /\ Slot(j)' = d[j]
    BY <1>1, <1>4, <2>1 DEF Slot
  <2>3. pri'[d[parent(j)]] = pri[d[parent(j)]] /\ pri'[d[j]] = pri[d[j]]
    BY <1>4, <2>1, PriType
  <2>4. QED
    BY <2>1, <2>2, <2>3
<1>10. BridgeInv'
  <2> SUFFICES ASSUME NEW j \in 2..size, parent(j) = size
               PROVE  FALSE
    BY <1>1, <1>2 DEF BridgeInv
  <2>1. QED
    BY <1>2, ParentFacts
<1>11. QED
  BY <1>6, <1>7, <1>8, <1>9, <1>10 DEF HeapInv

LEMMA InsertHeap ==
  ASSUME HeapInv, NEW n \in Nodes, NEW p \in Priorities, Insert(n, p)
  PROVE  HeapInv'
<1> USE DEF Insert
<1>0. /\ size \in Nat /\ 1 <= size /\ avail \in Nat /\ size <= avail
      /\ step \in Nat /\ step >= 1
  BY IdleFacts, SizesAssumption DEF step
<1>1. CASE size < avail /\ PutLast(n, d) /\ avail' = avail
  <2>1. d \in [0..(avail' - 1) -> Nodes \cup {Garbage}]
    BY <1>1 DEF HeapInv, TypeOK
  <2>2. QED
    BY <1>0, <1>1, <2>1, PutLastHeap
<1>2. CASE /\ size >= avail
           /\ PutLast(n, Grown(size + step))
           /\ avail' = size + step
  <2>1. Grown(size + step) \in [0..(avail' - 1) -> Nodes \cup {Garbage}]
    BY <1>0, <1>2 DEF Grown, HeapInv, TypeOK
  <2>2. \A j \in Live : Grown(size + step)[j] = d[j]
    BY <1>0 DEF Grown, Live
  <2>3. avail' \in Nat /\ size < avail'
    BY <1>0, <1>2
  <2>4. QED
    BY <1>2, <2>1, <2>2, <2>3, PutLastHeap
<1>3. CASE ret' = "error" /\ UNCHANGED <<d, size, avail, pos, op, hole, moving_node>>
  <2>1. op' = "idle" /\ \A j \in Live : d[j] \in Nodes /\ d[j] # n
    BY <1>3, IdleFacts
  <2>2. \A j \in Live : pri'[d[j]] = pri[d[j]]
    BY <2>1, PriType
  <2>3. TypeOK'
    BY <1>3 DEF HeapInv, TypeOK
  <2>4. NodesInv' /\ HoleInv' /\ PosInv' /\ MoveInv' /\ BridgeInv'
    BY <1>3, <2>1
    DEF HeapInv, NodesInv, HoleInv, PosInv, MoveInv, BridgeInv, Slot, Live
  <2>5. OrderInv'
    <3> SUFFICES ASSUME NEW j \in 2..(size - 1)
                 PROVE  pri'[d[parent(j)]] <= pri'[d[j]]
      BY <1>3, <2>1 DEF OrderInv, Slot
    <3>1. j \in Live /\ parent(j) \in Live /\ pri[d[parent(j)]] <= pri[d[j]]
      BY <1>0, IdleFacts DEF Live
    <3>2. QED
      BY <2>2, <3>1
  <2>6. QED
    BY <2>3, <2>4, <2>5 DEF HeapInv
<1>4. QED
  BY <1>1, <1>2, <1>3

LEMMA PopHeap == HeapInv /\ Pop => HeapInv'
<1> SUFFICES ASSUME HeapInv, Pop PROVE HeapInv'
  OBVIOUS
<1>1. op = "idle" /\ UNCHANGED <<avail, pri, pos>>
  BY DEF Pop
<1>2. CASE /\ size = 1 /\ ret' = "NULL"
           /\ UNCHANGED <<d, size, op, hole, moving_node>>
  BY <1>1, <1>2
  DEF HeapInv, TypeOK, NodesInv, HoleInv, PosInv, MoveInv, OrderInv,
      BridgeInv, Slot, Live
<1>3. CASE /\ size # 1 /\ ret' = d[1] /\ size' = size - 1
           /\ Enter("down", 1, [d EXCEPT ![1] = d[size - 1]])
  <2>1. /\ size \in Nat /\ 2 <= size /\ avail \in Nat /\ size <= avail
        /\ 1 \in Live /\ size - 1 \in Live
    BY <1>1, <1>3, IdleFacts DEF Live
  <2>2. /\ d' = [d EXCEPT ![1] = d[size - 1]]
        /\ op' = "down" /\ hole' = 1 /\ moving_node' = d[size - 1]
    BY <1>3, <2>1 DEF Enter, HeapInv, TypeOK
  <2>3. \A j \in Live' : j \in Live /\ j < size - 1
    BY <1>3, <2>1 DEF Live
  <2>4. \A j \in Live' : j # 1 => d'[j] = d[j]
    BY <2>1, <2>2, <2>3 DEF HeapInv, TypeOK, Live
  <2>5. TypeOK'
    BY <1>1, <1>3, <2>1, <2>2, IdleFacts DEF HeapInv, TypeOK
  <2>6. NodesInv' /\ HoleInv'
    BY <1>1, <1>3, <2>1, <2>2, <2>3, <2>4, IdleFacts
    DEF NodesInv, HoleInv, Slot
  <2>7. PosInv' /\ MoveInv'
    <3>1. \A j \in Live' : d[j] # d[size - 1]
      BY <1>1, <2>1, <2>3, IdleFacts
    <3>2. QED
      BY <1>1, <2>2, <2>3, <2>4, <3>1, IdleFacts DEF PosInv, MoveInv
  <2>8. OrderInv'
    <3> SUFFICES ASSUME NEW j \in 2..(size - 2), parent(j) # 1
                 PROVE  pri[Slot(parent(j))'] <= pri[Slot(j)']
      BY <1>1, <1>3, <2>1, <2>2 DEF OrderInv
    <3>1. /\ j \in Live /\ parent(j) \in Live /\ j # 1
          /\ parent(j) < j /\ pri[d[parent(j)]] <= pri[d[j]]
      BY <1>1, <2>1, IdleFacts DEF Live
    <3>2. j \in Live' /\ parent(j) \in Live'
      BY <1>3, <2>1, <3>1 DEF Live
    <3>3. QED
      BY <2>2, <2>4, <3>1, <3>2 DEF Slot
  <2>9. BridgeInv'
    BY <2>2 DEF BridgeInv
  <2>10. QED
    BY <2>5, <2>6, <2>7, <2>8, <2>9 DEF HeapInv
<1>4. QED
  BY <1>2, <1>3 DEF Pop

LEMMA ChangePriorityHeap ==
  ASSUME HeapInv, NEW n \in Nodes, NEW p \in Priorities, ChangePriority(n, p)
  PROVE  HeapInv'
<1>0. op = "idle"
  BY DEF ChangePriority
<1>1. PICK h \in Live : d[h] = n
  BY <1>0, IdleFacts DEF ChangePriority
<1>2. /\ size \in Nat /\ avail \in Nat /\ size <= avail /\ h \in Nat
      /\ 1 <= h /\ h < size /\ pos[n] = h
  BY <1>0, <1>1, IdleFacts DEF Live
<1>3. /\ d' = d /\ hole' = h /\ moving_node' = n
      /\ pri' = [pri EXCEPT ![n] = p] /\ ret' = "ok"
      /\ UNCHANGED <<size, avail, pos>>
      /\ op' = IF pri[n] > p THEN "up" ELSE "down"
  BY <1>1, <1>2 DEF ChangePriority, Enter, cmppri
<1>4. \A j \in Live : d[j] \in Nodes /\ (j # h => d[j] # n)
  BY <1>0, <1>1, <1>2, IdleFacts
<1>5. pri \in [Nodes -> Nat] /\ p \in Nat
  BY PriType, PrioritiesAssumption
<1>6. \A j \in Live : Slot(j)' = d[j]
  BY <1>1, <1>3 DEF Slot
<1>7. \A j \in Live : j # h => pri'[d[j]] = pri[d[j]]
  BY <1>3, <1>4, <1>5
<1>8. pri'[d[h]] = p
  BY <1>1, <1>3, <1>5
<1>9. TypeOK'
  BY <1>2, <1>3 DEF HeapInv, TypeOK
<1>10. Live' = Live
  BY <1>3 DEF Live
<1>11. NodesInv' /\ HoleInv' /\ PosInv' /\ MoveInv'
  <2>1. NodesInv'
    BY <1>4, <1>6, <1>10 DEF NodesInv
  <2>2. HoleInv'
    BY <1>2, <1>3 DEF HoleInv
  <2>3. PosInv'
    BY <1>0, <1>3, <1>10, IdleFacts DEF PosInv
  <2>4. MoveInv'
    BY <1>3, <1>4, <1>10 DEF MoveInv
  <2>5. QED
    BY <2>1, <2>2, <2>3, <2>4
<1>12. OrderInv'
  <2> SUFFICES ASSUME NEW j \in 2..(size - 1),
                      ~(op' = "up" /\ j = h),
                      ~(op' = "down" /\ parent(j) = h)
               PROVE  pri'[Slot(parent(j))'] <= pri'[Slot(j)']
    BY <1>3 DEF OrderInv
  <2>1. /\ j \in Live /\ parent(j) \in Live /\ parent(j) < j /\ j \in Nat
        /\ pri[d[parent(j)]] <= pri[d[j]]
    BY <1>0, <1>2, IdleFacts DEF Live
  <2>2. Slot(parent(j))' = d[parent(j)] /\ Slot(j)' = d[j]
    BY <1>6, <2>1
  <2>3. pri[d[parent(j)]] \in Nat /\ pri[d[j]] \in Nat
    BY <1>4, <1>5, <2>1
  <2>4. CASE j = h
    <3>1. parent(j) # h /\ ~(pri[n] > p)
      BY <1>2, <1>3, <2>1, <2>4
    <3>2. pri'[d[parent(j)]] = pri[d[parent(j)]] /\ pri'[d[j]] = p
      BY <1>7, <1>8, <2>1, <2>4, <3>1
    <3>3. pri[d[j]] <= p
      BY <1>1, <1>5, <2>3, <2>4, <3>1
    <3>4. QED
      BY <1>5, <2>1, <2>2, <2>3, <3>2, <3>3
  <2>5. CASE parent(j) = h
    <3>1. j # h /\ pri[n] > p
      BY <1>3, <2>1, <2>5
    <3>2. QED
      BY <1>1, <1>5, <1>7, <1>8, <2>1, <2>2, <2>3, <2>5, <3>1
  <2>6. CASE j # h /\ parent(j) # h
    BY <1>7, <2>1, <2>2, <2>6
  <2>7. QED
    BY <2>4, <2>5, <2>6
<1>13. BridgeInv'
  <2> SUFFICES ASSUME h > 1, NEW j \in 2..(size - 1), parent(j) = h
               PROVE  pri'[d[parent(h)]] <= pri'[d[j]]
    BY <1>3 DEF BridgeInv
  <2>1. /\ j \in Live /\ j # h /\ pri[d[h]] <= pri[d[j]]
        /\ parent(h) \in Live /\ parent(h) # h
        /\ pri[d[parent(h)]] <= pri[d[h]]
    BY <1>0, <1>2, IdleFacts DEF Live
  <2>2. /\ pri[d[parent(h)]] \in Nat /\ pri[d[h]] \in Nat
        /\ pri[d[j]] \in Nat
    BY <1>1, <1>4, <1>5, <2>1
  <2>3. QED
    BY <1>7, <2>1, <2>2
<1>14. QED
  BY <1>9, <1>11, <1>12, <1>13 DEF HeapInv

LEMMA RemoveHeap ==
  ASSUME HeapInv, NEW n \in Nodes, Remove(n)
  PROVE  HeapInv'
<1>0. op = "idle"
  BY DEF Remove
<1>1. PICK h \in Live : d[h] = n
  BY <1>0, IdleFacts DEF Remove
<1>2. /\ size \in Nat /\ avail \in Nat /\ size <= avail /\ h \in Nat
      /\ 1 <= h /\ h < size /\ pos[n] = h /\ size - 1 \in Live
  BY <1>0, <1>1, IdleFacts DEF Live
<1>3. PICK last \in Nodes : last = d[size - 1]
  BY <1>0, <1>2, IdleFacts
<1>4. /\ d' = [d EXCEPT ![h] = last] /\ hole' = h /\ moving_node' = d'[h]
      /\ size' = size - 1 /\ ret' = "ok"
      /\ UNCHANGED <<avail, pri, pos>>
      /\ op' = IF pri[n] > pri[last] THEN "up" ELSE "down"
  BY <1>2, <1>3 DEF Remove, Enter, cmppri
<1>5. moving_node' = last /\ \A j \in Live : j # h => d'[j] = d[j]
  BY <1>2, <1>4 DEF HeapInv, TypeOK, Live
<1>6. \A j \in Live : d[j] \in Nodes /\ (j # size - 1 => d[j] # last)
  BY <1>0, <1>2, <1>3, IdleFacts
<1>7. \A j \in Live' : j \in Live /\ j < size - 1 /\ j \in Nat
  BY <1>2, <1>4 DEF Live
<1>8. pri \in [Nodes -> Nat] /\ pri[n] \in Nat /\ pri[last] \in Nat
  BY PriType
<1>9. \A j \in Live' : Slot(j)' = IF j = h THEN last ELSE d[j]
  BY <1>4, <1>5, <1>7 DEF Slot
<1>10. TypeOK'
  BY <1>2, <1>3, <1>4, <1>5 DEF HeapInv, TypeOK
<1>11. NodesInv' /\ HoleInv' /\ PosInv' /\ MoveInv'
  <2>1. NodesInv'
    BY <1>6, <1>7, <1>9 DEF NodesInv
  <2>2. HoleInv'
    <3>1. h = size - 1 => op' = "down"
      BY <1>1, <1>3, <1>4, <1>8
    <3>2. QED
      BY <1>2, <1>4, <1>5, <3>1 DEF HoleInv
  <2>3. PosInv'
    BY <1>0, <1>4, <1>5, <1>7, IdleFacts DEF PosInv
  <2>4. MoveInv'
    BY <1>4, <1>5, <1>6, <1>7 DEF MoveInv
  <2>5. QED
    BY <2>1, <2>2, <2>3, <2>4
<1>12. OrderInv'
  <2> SUFFICES ASSUME NEW j \in 2..(size - 2),
                      ~(op' = "up" /\ j = h),
                      ~(op' = "down" /\ parent(j) = h)
               PROVE  pri[Slot(parent(j))'] <= pri[Slot(j)']
    BY <1>2, <1>4 DEF OrderInv
  <2>1. /\ j \in Live /\ parent(j) \in Live /\ parent(j) < j /\ j \in Nat
        /\ pri[d[parent(j)]] <= pri[d[j]]
    BY <1>0, <1>2, IdleFacts DEF Live
  <2>2. j \in Live' /\ parent(j) \in Live'
    BY <1>2, <1>4, <2>1 DEF Live
  <2>3. pri[d[parent(j)]] \in Nat /\ pri[d[j]] \in Nat
    BY <1>6, <1>8, <2>1
  <2>4. CASE j = h
    <3>1. parent(j) # h /\ ~(pri[n] > pri[last])
      BY <1>4, <2>1, <2>4
    <3>2. Slot(parent(j))' = d[parent(j)] /\ Slot(j)' = last
      BY <1>9, <2>2, <2>4, <3>1
    <3>3. pri[d[j]] <= pri[last]
      BY <1>1, <1>8, <2>4, <3>1
    <3>4. QED
      BY <1>8, <2>1, <2>3, <3>2, <3>3
  <2>5. CASE parent(j) = h
    <3>1. j # h /\ pri[n] > pri[last]
      BY <1>4, <2>1, <2>5
    <3>2. QED
      BY <1>1, <1>8, <1>9, <2>1, <2>2, <2>3, <2>5, <3>1
  <2>6. CASE j # h /\ parent(j) # h
    BY <1>9, <2>1, <2>2, <2>6
  <2>7. QED
    BY <2>4, <2>5, <2>6
<1>13. BridgeInv'
  <2> SUFFICES ASSUME h > 1, NEW j \in 2..(size - 2), parent(j) = h
               PROVE  pri[d'[parent(h)]] <= pri[d'[j]]
    BY <1>2, <1>4 DEF BridgeInv
  <2>1. /\ j \in Live /\ j # h /\ pri[d[h]] <= pri[d[j]]
        /\ parent(h) \in Live /\ parent(h) # h
        /\ pri[d[parent(h)]] <= pri[d[h]]
    BY <1>0, <1>2, IdleFacts DEF Live
  <2>2. /\ pri[d[parent(h)]] \in Nat /\ pri[d[h]] \in Nat
        /\ pri[d[j]] \in Nat
    BY <1>1, <1>6, <1>8, <2>1
  <2>3. d'[parent(h)] = d[parent(h)] /\ d'[j] = d[j]
    BY <1>5, <2>1
  <2>4. QED
    BY <2>1, <2>2, <2>3
<1>14. QED
  BY <1>10, <1>11, <1>12, <1>13 DEF HeapInv

LEMMA NextHeap == HeapInv /\ [Next]_vars => HeapInv'
<1> SUFFICES ASSUME HeapInv, [Next]_vars PROVE HeapInv'
  OBVIOUS
<1>1. CASE Loop
  BY <1>1, BubbleUpHeap, PercolateDownHeap, SettleHeap DEF Loop
<1>2. CASE Pop
  BY <1>2, PopHeap
<1>3. CASE \E n \in Nodes : Remove(n)
  BY <1>3, RemoveHeap
<1>4. CASE \E n \in Nodes, p \in Priorities : Insert(n, p)
  BY <1>4, InsertHeap
<1>5. CASE \E n \in Nodes, p \in Priorities : ChangePriority(n, p)
  BY <1>5, ChangePriorityHeap
<1>6. CASE Peek
  <2>1. /\ op = "idle"
        /\ UNCHANGED <<d, size, avail, pri, pos, op, hole, moving_node>>
    BY <1>6 DEF Peek
  <2>2. size # 1 => 1 \in Live
    BY <2>1, IdleFacts DEF Live
  <2>3. ret' \in Nodes \cup {"none", "ok", "error", "NULL"}
    BY <1>6, <2>1, <2>2, IdleFacts DEF Peek
  <2>4. QED
    BY <2>1, <2>3
    DEF HeapInv, TypeOK, NodesInv, HoleInv, PosInv, MoveInv, OrderInv,
        BridgeInv, Slot, Live
<1>7. CASE UNCHANGED vars
  BY <1>7 DEF vars, HeapInv, TypeOK, NodesInv, HoleInv, PosInv, MoveInv,
      OrderInv, BridgeInv, Slot, Live
<1>8. QED
  BY <1>1, <1>2, <1>3, <1>4, <1>5, <1>6, <1>7 DEF Next

LEMMA HeapInvariant == Spec => []HeapInv
  BY InitHeap, NextHeap, PTL DEF Spec

-----------------------------------------------------------------------------
(* Every variable keeps its type; in particular size never passes avail,   *)
(* so no call writes beyond the array that realloc gave.                   *)
THEOREM TypeCorrect == Spec => []TypeOK
<1>1. HeapInv => TypeOK
  BY DEF HeapInv
<1>2. QED
  BY <1>1, HeapInvariant, PTL

(* Between calls the array is a heap, after any sequence of calls.         *)
THEOREM HeapOrderHolds == Spec => []HeapOrder
<1>1. HeapInv => HeapOrder
  BY IdleFacts DEF HeapOrder, HeapInv, OrderInv, Slot
<1>2. QED
  BY <1>1, HeapInvariant, PTL

(* Between calls every entry knows its slot.                               *)
THEOREM PositionsHold == Spec => []Positions
<1>1. HeapInv => Positions
  BY DEF Positions, HeapInv, PosInv, Live
<1>2. QED
  BY <1>1, HeapInvariant, PTL

-----------------------------------------------------------------------------
(* The turns a loop can still take, and how a turn moves the hole.         *)
TurnsLeft ==
    IF op = "up" THEN hole ELSE IF op = "down" THEN size + 1 - hole ELSE 0

Halves == 2 * hole' <= hole
Doubles == 2 * hole <= hole' /\ hole' < size

(* While a call is in a loop every step takes it nearer to its end: the    *)
(* hole rises to at most half its index, or sinks to at least twice its    *)
(* index and stays inside the queue, until the node settles.               *)
LoopShrinks ==
    op # "idle" =>
        /\ TurnsLeft \in 1..size /\ TurnsLeft' < TurnsLeft
        /\ \/ op' = "idle"
           \/ op = "up" /\ op' = "up" /\ Halves
           \/ op = "down" /\ op' = "down" /\ Doubles

LEMMA BubbleUpShrinks == HeapInv /\ BubbleUp => LoopShrinks
<1> SUFFICES ASSUME HeapInv, BubbleUp PROVE LoopShrinks
  OBVIOUS
<1>1. op = "up" /\ op' = "up" /\ hole' = parent(hole) /\ hole > 1
  BY DEF BubbleUp, ShiftInto, Rises
<1>2. hole \in Nat /\ size \in Nat /\ hole < size
  BY <1>1 DEF HeapInv, TypeOK, HoleInv
<1>3. hole' \in Nat /\ hole' < hole /\ 2 * hole' <= hole
  BY <1>1, <1>2 DEF parent
<1> QED
  BY <1>1, <1>2, <1>3 DEF LoopShrinks, TurnsLeft, Halves

LEMMA PercolateDownShrinks == HeapInv /\ PercolateDown => LoopShrinks
<1> SUFFICES ASSUME HeapInv, PercolateDown PROVE LoopShrinks
  OBVIOUS
<1>1. /\ op = "down" /\ op' = "down" /\ size' = size
      /\ hole' = maxchild(hole) /\ maxchild(hole) # 0
  BY DEF PercolateDown, ShiftInto, Sinks
<1>2. hole \in Nat /\ size \in Nat /\ 1 <= hole /\ hole <= size
  BY <1>1 DEF HeapInv, TypeOK, HoleInv
<1>3. hole' \in 2..(size - 1) /\ parent(hole') = hole
  BY <1>1, MaxchildFacts
<1>4. hole' = left(hole) \/ hole' = right(hole)
  BY <1>2, <1>3, ChildFacts
<1>5. hole' \in Nat /\ 2 * hole <= hole' /\ hole' < size
  BY <1>2, <1>3, <1>4 DEF left, right
<1> QED
  BY <1>1, <1>2, <1>5 DEF LoopShrinks, TurnsLeft, Doubles

(* Every call of the queue comes to an end, after a number of turns that   *)
(* the logarithm of its size bounds.                                       *)
THEOREM LoopsShrink == Spec => [][LoopShrinks]_vars
<1>1. HeapInv /\ [Next]_vars => [LoopShrinks]_vars
  <2> SUFFICES ASSUME HeapInv, Next PROVE LoopShrinks
    OBVIOUS
  <2>1. CASE Settle
    <3>1. hole \in 1..size /\ size \in Nat /\ (op = "up" => hole < size)
      BY <2>1 DEF Settle, HeapInv, TypeOK, HoleInv
    <3> QED
      BY <2>1, <3>1 DEF Settle, LoopShrinks, TurnsLeft
  <2>2. CASE op = "idle"
    BY <2>2 DEF LoopShrinks
  <2> QED
    BY <2>1, <2>2, BubbleUpShrinks, PercolateDownShrinks
    DEF Next, Loop, Pop, Peek, Remove, Insert, ChangePriority
<1> QED
  BY <1>1, HeapInvariant, PTL DEF Spec

-----------------------------------------------------------------------------
(* Slots and entries correspond one to one, also while a loop runs.        *)
LEMMA SlotsInjective ==
  ASSUME HeapInv, NEW j \in Live, NEW k \in Live, Slot(j) = Slot(k)
  PROVE  j = k
<1>1. CASE op = "idle"
  BY <1>1 DEF HeapInv, PosInv, Slot
<1>2. CASE op # "idle"
  BY <1>2 DEF HeapInv, PosInv, MoveInv, Slot
<1>3. QED
  BY <1>1, <1>2

(* No call loses or duplicates an entry, at any moment.                    *)
THEOREM NothingLostHolds == Spec => []NothingLost
<1>1. HeapInv => NothingLost
  <2> SUFFICES ASSUME HeapInv PROVE NothingLost
    OBVIOUS
  <2> DEFINE f == [j \in Live |-> Slot(j)]
  <2>1. f \in Injection(Live, Queued)
    BY SlotsInjective DEF Injection, IsInjective, Queued, Live
  <2>2. f \in Surjection(Live, Queued)
    BY DEF Surjection, Queued, Live
  <2>3. ExistsBijection(Live, Queued)
    BY <2>1, <2>2 DEF ExistsBijection, Bijection
  <2>4. IsFiniteSet(Live) /\ Cardinality(Live) = size - 1
    <3>1. size \in Nat /\ 1 <= size /\ size - 1 \in Int /\ 1 \in Int
      BY DEF HeapInv, TypeOK
    <3>2. /\ IsFiniteSet(1..(size - 1))
          /\ Cardinality(1..(size - 1))
               = IF 1 > size - 1 THEN 0 ELSE (size - 1) - 1 + 1
      BY <3>1, FS_Interval
    <3>3. QED
      BY <3>1, <3>2 DEF Live
  <2>5. Cardinality(Queued) = size - 1
    BY <2>3, <2>4, FS_Bijection
  <2>6. Queued \subseteq Nodes
    BY DEF Queued, HeapInv, NodesInv, Live
  <2>7. QED
    BY <2>5, <2>6 DEF NothingLost
<1>2. QED
  BY <1>1, HeapInvariant, PTL

-----------------------------------------------------------------------------
(* The head of a heap precedes everything: otherwise the least slot whose  *)
(* node precedes it would have a parent that does not.                     *)
LEMMA HeadIsMinimal ==
  ASSUME HeapInv, op = "idle", size # 1
  PROVE  d[1] \in Queued /\ \A m \in Queued : pri[d[1]] <= pri[m]
<1>1. size \in Nat /\ 1 \in Live /\ Live \subseteq Nat
  BY IdleFacts DEF Live
<1>2. \A j \in Live : d[j] \in Nodes /\ pri[d[j]] \in Nat
  BY IdleFacts, PriType
<1> DEFINE Bad == {j \in Live : ~(pri[d[1]] <= pri[d[j]])}
<1>3. Bad = {}
  <2> SUFFICES ASSUME Bad # {} PROVE FALSE
    OBVIOUS
  <2>1. PICK m \in Bad : \A k \in Bad : m <= k
    BY <1>1, LeastNatural
  <2>2. m \in Live /\ ~(pri[d[1]] <= pri[d[m]])
    BY <2>1
  <2>3. m # 1 /\ m \in Nat /\ m >= 2
    BY <1>1, <1>2, <2>2 DEF Live
  <2>4. /\ parent(m) \in Live /\ parent(m) < m
        /\ pri[d[parent(m)]] <= pri[d[m]]
    BY <2>2, <2>3, IdleFacts
  <2>5. parent(m) \notin Bad
    <3> SUFFICES ASSUME parent(m) \in Bad PROVE FALSE
      OBVIOUS
    <3>1. m <= parent(m)
      BY <2>1
    <3>2. parent(m) \in Nat
      BY <1>1, <2>4
    <3>3. QED
      BY <2>3, <2>4, <3>1, <3>2
  <2>6. pri[d[1]] <= pri[d[parent(m)]]
    BY <2>4, <2>5
  <2>7. /\ pri[d[1]] \in Nat
        /\ pri[d[m]] \in Nat
        /\ pri[d[parent(m)]] \in Nat
    BY <1>1, <1>2, <2>2, <2>4
  <2>8. QED
    BY <2>2, <2>4, <2>6, <2>7
<1>4. \A j \in Live : pri[d[1]] <= pri[d[j]]
  BY <1>3
<1>5. QED
  BY <1>1, <1>4, IdleFacts

-----------------------------------------------------------------------------
(* Refinement: a call is one step of the abstract queue, taken when it     *)
(* opens the hole; the loops stutter.                                      *)

LEMMA LoopKeeps ==
  ASSUME HeapInv, Loop
  PROVE  Queued' = Queued /\ UNCHANGED <<pri, ret>>
<1>1. CASE BubbleUp
  <2>0. PICK p, h : p = parent(hole) /\ h = hole
    OBVIOUS
  <2>1. /\ op = "up" /\ op' = "up" /\ hole' = p /\ hole > 1
        /\ d' = [d EXCEPT ![hole] = d[p]]
        /\ UNCHANGED <<size, pri, moving_node, ret>>
    BY <1>1, <2>0 DEF BubbleUp, ShiftInto, Rises
  <2>2. /\ hole \in Live /\ p \in Live /\ p # hole /\ Live' = Live
        /\ Live \subseteq DOMAIN d
    BY <2>0, <2>1, ParentFacts DEF HeapInv, TypeOK, HoleInv, Live
  <2>3. /\ Slot(h)' = Slot(p) /\ Slot(p)' = Slot(h)
        /\ \A j \in Live : j # p /\ j # h => Slot(j)' = Slot(j)
    BY <2>0, <2>1, <2>2 DEF Slot
  <2>4. QED
    <3>1. Queued = {Slot(j) : j \in Live} /\ Queued' = {Slot(j)' : j \in Live}
      BY <2>2 DEF Queued, Live
    <3>2. QED
      BY <2>0, <2>1, <2>2, <2>3, <3>1
<1>2. CASE PercolateDown
  <2>0. PICK c, h : c = maxchild(hole) /\ h = hole
    OBVIOUS
  <2>1. /\ op = "down" /\ op' = "down" /\ hole' = c /\ c # 0
        /\ d' = [d EXCEPT ![hole] = d[c]]
        /\ UNCHANGED <<size, pri, moving_node, ret>>
    BY <1>2, <2>0 DEF PercolateDown, ShiftInto, Sinks
  <2>2. /\ hole \in Live /\ c \in Live /\ c # hole /\ Live' = Live
        /\ Live \subseteq DOMAIN d
    BY <2>0, <2>1, MaxchildFacts DEF HeapInv, TypeOK, HoleInv, Live
  <2>3. /\ Slot(h)' = Slot(c) /\ Slot(c)' = Slot(h)
        /\ \A j \in Live : j # c /\ j # h => Slot(j)' = Slot(j)
    BY <2>0, <2>1, <2>2 DEF Slot
  <2>4. QED
    <3>1. Queued = {Slot(j) : j \in Live} /\ Queued' = {Slot(j)' : j \in Live}
      BY <2>2 DEF Queued, Live
    <3>2. QED
      BY <2>0, <2>1, <2>2, <2>3, <3>1
<1>3. CASE Settle
  <2>1. /\ op # "idle" /\ op' = "idle" /\ Live' = Live
        /\ d' = [d EXCEPT ![hole] = moving_node]
        /\ UNCHANGED <<size, pri, ret>>
    BY <1>3 DEF Settle, Live
  <2>2. Live \subseteq DOMAIN d
    BY DEF HeapInv, TypeOK, Live
  <2>3. \A j \in Live : Slot(j)' = Slot(j)
    BY <2>1, <2>2 DEF Slot
  <2>4. QED
    BY <2>1, <2>3 DEF Queued, Live
<1>4. QED
  BY <1>1, <1>2, <1>3 DEF Loop

LEMMA InsertRefines ==
  ASSUME HeapInv, NEW n \in Nodes, NEW p \in Priorities, Insert(n, p)
  PROVE  Abs!Insert(n, p)
<1>1. /\ op = "idle" /\ n \notin Queued /\ pri' = [pri EXCEPT ![n] = p]
      /\ size \in Nat /\ 1 <= size /\ avail \in Nat /\ size <= avail
      /\ step \in Nat /\ step >= 1
  BY IdleFacts, SizesAssumption DEF Insert, step
<1>2. ASSUME NEW av \in Nat, size < av,
             NEW a \in [0..(av - 1) -> Nodes \cup {Garbage}],
             \A j \in Live : a[j] = d[j], PutLast(n, a)
      PROVE  Queued' = Queued \cup {n} /\ ret' = "ok"
  <2>0. PICK z : z = size
    OBVIOUS
  <2>1. /\ d' = [a EXCEPT ![z] = n] /\ op' = "up" /\ hole' = z
        /\ size' = z + 1 /\ ret' = "ok" /\ moving_node' = d'[z]
    BY <1>2, <2>0 DEF PutLast, Enter
  <2>2. /\ z \in DOMAIN a
        /\ \A j \in Live : j # z /\ j \in DOMAIN a
        /\ Live' = Live \cup {z}
    BY <1>1, <1>2, <2>0, <2>1 DEF Live
  <2>3. Slot(z)' = n /\ \A j \in Live : Slot(j)' = d[j]
    BY <1>2, <2>1, <2>2 DEF Slot
  <2>4. Queued = {d[j] : j \in Live} /\ Queued' = {Slot(j)' : j \in Live'}
    BY <1>1, IdleFacts DEF Queued, Live
  <2>5. QED
    BY <2>1, <2>2, <2>3, <2>4
<1>3. CASE size < avail /\ PutLast(n, d)
  <2>1. d \in [0..(avail - 1) -> Nodes \cup {Garbage}]
    BY DEF HeapInv, TypeOK
  <2>2. QED
    BY <1>1, <1>2, <1>3, <2>1 DEF Abs!Insert
<1>4. CASE size >= avail /\ PutLast(n, Grown(size + step))
  <2>1. Grown(size + step) \in [0..(size + step - 1) -> Nodes \cup {Garbage}]
    BY <1>1 DEF Grown, HeapInv, TypeOK
  <2>2. \A j \in Live : Grown(size + step)[j] = d[j]
    BY <1>1 DEF Grown, Live
  <2>3. Queued' = Queued \cup {n} /\ ret' = "ok"
    BY <1>1, <1>2, <1>4, <2>1, <2>2
  <2>4. QED
    BY <1>1, <2>3 DEF Abs!Insert
<1>5. CASE ret' = "error" /\ UNCHANGED <<d, size, avail, pos, op, hole, moving_node>>
  BY <1>1, <1>5 DEF Abs!Insert, Queued, Slot
<1>6. QED
  BY <1>3, <1>4, <1>5 DEF Insert

LEMMA PopRefines == HeapInv /\ Pop => Abs!Pop
<1> SUFFICES ASSUME HeapInv, Pop PROVE Abs!Pop
  OBVIOUS
<1>1. op = "idle" /\ UNCHANGED pri /\ Queued = {d[j] : j \in Live}
  BY IdleFacts DEF Pop
<1>2. CASE /\ size = 1 /\ ret' = "NULL"
           /\ UNCHANGED <<d, size, op, hole, moving_node>>
  BY <1>1, <1>2 DEF Abs!Pop, Queued, Slot, Live
<1>3. CASE /\ size # 1 /\ ret' = d[1] /\ size' = size - 1
           /\ Enter("down", 1, [d EXCEPT ![1] = d[size - 1]])
  <2>1. /\ size \in Nat /\ 2 <= size
        /\ 1 \in Live /\ size - 1 \in Live /\ Live \subseteq DOMAIN d
    BY <1>1, <1>3, IdleFacts DEF Live, HeapInv, TypeOK
  <2>2. /\ d' = [d EXCEPT ![1] = d[size - 1]]
        /\ op' = "down" /\ hole' = 1 /\ moving_node' = d'[1]
    BY <1>3 DEF Enter
  <2>3. Live' = Live \ {size - 1}
    BY <1>3, <2>1 DEF Live
  <2>4. \A j \in Live : Slot(j)' = IF j = 1 THEN d[size - 1] ELSE d[j]
    BY <2>1, <2>2 DEF Slot
  <2>5. \A j, k \in Live : d[j] = d[k] => j = k
    BY <1>1, IdleFacts
  <2>6. Queued' = {Slot(j)' : j \in Live'}
    BY DEF Queued, Live
  <2>7. Queued' = Queued \ {d[1]}
    <3>1. ASSUME NEW m \in Queued' PROVE m \in Queued \ {d[1]}
      <4>1. PICK j \in Live : j # size - 1 /\ m = Slot(j)'
        BY <2>3, <2>6, <3>1
      <4>2. QED
        BY <1>1, <2>1, <2>4, <2>5, <4>1
    <3>2. ASSUME NEW m \in Queued \ {d[1]} PROVE m \in Queued'
      <4>1. PICK j \in Live : j # 1 /\ m = d[j]
        BY <1>1, <3>2
      <4>2. CASE j = size - 1
        BY <2>1, <2>3, <2>4, <2>6, <4>1, <4>2
      <4>3. CASE j # size - 1
        BY <2>1, <2>3, <2>4, <2>6, <4>1, <4>3
      <4>4. QED
        BY <4>2, <4>3
    <3>3. QED
      BY <3>1, <3>2
  <2>8. d[1] \in Abs!Front
    BY <1>1, <1>3, HeadIsMinimal DEF Abs!Front
  <2>9. QED
    BY <1>1, <1>3, <2>7, <2>8 DEF Abs!Pop
<1>4. QED
  BY <1>2, <1>3 DEF Pop

LEMMA RemoveRefines ==
  ASSUME HeapInv, NEW n \in Nodes, Remove(n)
  PROVE  Abs!Remove(n)
<1>1. op = "idle" /\ n \in Queued /\ Queued = {d[j] : j \in Live}
  BY IdleFacts DEF Remove
<1>2. PICK h \in Live : d[h] = n
  BY <1>1
<1>3. /\ size \in Nat /\ pos[n] = h /\ size - 1 \in Live
      /\ Live \subseteq DOMAIN d
  BY <1>1, <1>2, IdleFacts DEF Live, HeapInv, TypeOK
<1>4. /\ d' = [d EXCEPT ![h] = d[size - 1]] /\ hole' = h
      /\ moving_node' = d'[h] /\ size' = size - 1 /\ ret' = "ok"
      /\ UNCHANGED pri
  BY <1>3 DEF Remove, Enter
<1>5. Live' = Live \ {size - 1}
  BY <1>3, <1>4 DEF Live
<1>6. \A j \in Live : Slot(j)' = IF j = h THEN d[size - 1] ELSE d[j]
  BY <1>2, <1>3, <1>4 DEF Slot
<1>7. \A j, k \in Live : d[j] = d[k] => j = k
  BY <1>1, IdleFacts
<1>8. Queued' = {Slot(j)' : j \in Live'}
  BY DEF Queued, Live
<1>9. Queued' = Queued \ {n}
  <2>1. ASSUME NEW m \in Queued' PROVE m \in Queued \ {n}
    <3>1. PICK j \in Live : j # size - 1 /\ m = Slot(j)'
      BY <1>5, <1>8, <2>1
    <3>2. QED
      BY <1>1, <1>2, <1>3, <1>6, <1>7, <3>1
  <2>2. ASSUME NEW m \in Queued \ {n} PROVE m \in Queued'
    <3>1. PICK j \in Live : j # h /\ m = d[j]
      BY <1>1, <1>2, <2>2
    <3>2. CASE j = size - 1
      BY <1>2, <1>3, <1>5, <1>6, <1>8, <3>1, <3>2
    <3>3. CASE j # size - 1
      BY <1>3, <1>5, <1>6, <1>8, <3>1, <3>3
    <3>4. QED
      BY <3>2, <3>3
  <2>3. QED
    BY <2>1, <2>2
<1>10. QED
  BY <1>1, <1>4, <1>9 DEF Abs!Remove

(* Any sequence of calls does to the queue what it does to a set: pop and  *)
(* peek return a minimum, nothing else enters or leaves.                   *)
THEOREM Refinement == Spec => RefinesAbstractPQ
<1>1. Init => Abs!Init
  BY DEF Init, Abs!Init, Queued
<1>2. HeapInv /\ [Next]_vars => [Abs!Next]_(Abs!vars)
  <2> SUFFICES ASSUME HeapInv, [Next]_vars PROVE [Abs!Next]_(Abs!vars)
    OBVIOUS
  <2>1. CASE Loop
    BY <2>1, LoopKeeps DEF Abs!vars
  <2>2. CASE Pop
    BY <2>2, PopRefines DEF Abs!Next
  <2>3. CASE \E n \in Nodes : Remove(n)
    BY <2>3, RemoveRefines DEF Abs!Next
  <2>4. CASE \E n \in Nodes, p \in Priorities : Insert(n, p)
    BY <2>4, InsertRefines DEF Abs!Next
  <2>5. ASSUME NEW n \in Nodes, NEW p \in Priorities, ChangePriority(n, p)
        PROVE  Abs!ChangePriority(n, p)
    <3>1. op = "idle" /\ n \in Queued
      BY <2>5 DEF ChangePriority
    <3>2. PICK h \in Live : d[h] = n /\ pos[n] = h
      BY <3>1, IdleFacts
    <3>3. /\ d' = d /\ hole' = h /\ moving_node' = n
          /\ pri' = [pri EXCEPT ![n] = p] /\ ret' = "ok" /\ size' = size
      BY <2>5, <3>2 DEF ChangePriority, Enter
    <3>4. Queued' = Queued
      BY <3>1, <3>2, <3>3 DEF Queued, Slot, Live
    <3>5. QED
      BY <3>1, <3>3, <3>4 DEF Abs!ChangePriority
  <2>6. CASE \E n \in Nodes, p \in Priorities : ChangePriority(n, p)
    BY <2>5, <2>6 DEF Abs!Next
  <2>7. CASE Peek
    <3>1. op = "idle" /\ Queued' = Queued /\ pri' = pri
      BY <2>7 DEF Peek, Queued, Slot
    <3>2. CASE size = 1
      BY <2>7, <3>1, <3>2 DEF Peek, Queued, Abs!Next, Abs!Peek
    <3>3. CASE size # 1
      <4>1. d[1] \in Abs!Front
        BY <3>1, <3>3, HeadIsMinimal DEF Abs!Front
      <4>2. QED
        BY <2>7, <3>1, <3>3, <4>1 DEF Peek, Abs!Next, Abs!Peek
    <3>4. QED
      BY <3>2, <3>3
  <2>8. CASE UNCHANGED vars
    BY <2>8 DEF vars, Abs!vars, Queued, Slot
  <2>9. QED
    BY <2>1, <2>2, <2>3, <2>4, <2>6, <2>7, <2>8 DEF Next
<1>3. QED
  BY <1>1, <1>2, HeapInvariant, PTL DEF Spec, RefinesAbstractPQ, Abs!Spec

-----------------------------------------------------------------------------
(* pqueue_is_valid.                                                        *)

(* Every slot in use holds a node, the hole what it held before.          *)
RawInv == \A j \in Live : d[j] \in Nodes

(* A slot is no later than its children.                                  *)
Ordered(k) == \A c \in Children(k) : pri[d[k]] <= pri[d[c]]

(* The equation of subtree_is_valid.  It has a solution (see ValidSubtrees *)
(* for one), so the function is one.                                       *)
ValidBody(v) ==
    [j \in 1..size |->
        /\ left(j) < size => ~cmppri(pri[d[j]], pri[d[left(j)]]) /\ v[left(j)]
        /\ right(j) < size => ~cmppri(pri[d[j]], pri[d[right(j)]]) /\ v[right(j)]]

LEMMA RecursionHolds ==
    ASSUME NEW w, w = ValidBody(w)
    PROVE  subtree_is_valid = ValidBody(subtree_is_valid)
<1>1. subtree_is_valid = CHOOSE v : v = ValidBody(v)
  BY DEF subtree_is_valid, ValidBody
<1>2. \E v : v = ValidBody(v)
  OBVIOUS
<1> QED
  BY <1>1, <1>2, Zenon

(* Below a slot are itself and what is below its children.                *)
LEMMA BelowFacts ==
    ASSUME size \in Nat, NEW j \in Live
    PROVE  /\ Below(j, j)
           /\ \A c \in Children(j), k \in Live : Below(c, k) => Below(j, k)
           /\ \A k \in Live : Below(j, k) => k = j \/ \E c \in Children(j) : Below(c, k)
<1> DEFINE Closed(S) == UNION {Children(i) : i \in S} \subseteq S
<1>0. ASSUME NEW a, NEW b PROVE Below(a, b) <=> \A S \in SUBSET Live : a \in S /\ Closed(S) => b \in S
  BY DEF Below, Live
<1> HIDE DEF Closed
<1>1. Below(j, j)
  BY <1>0
<1>2. ASSUME NEW c \in Children(j), NEW k \in Live, Below(c, k) PROVE Below(j, k)
  <2>1. ASSUME NEW S \in SUBSET Live, j \in S, Closed(S) PROVE c \in S
    BY <1>2, <2>1 DEF Closed
  <2> QED
    BY <1>0, <1>2, <2>1
<1>3. ASSUME NEW k \in Live, Below(j, k), k # j PROVE \E c \in Children(j) : Below(c, k)
  <2> DEFINE D == {i \in Live : \E c \in Children(j) : Below(c, i)}
  <2>1. ASSUME NEW i \in D, NEW e \in Children(i) PROVE e \in D
    <3>1. PICK c \in Children(j) : Below(c, i)
      OBVIOUS
    <3>2. ASSUME NEW S \in SUBSET Live, c \in S, Closed(S) PROVE e \in S
      <4>1. i \in S
        BY <1>0, <3>1, <3>2
      <4> QED
        BY <2>1, <3>2, <4>1 DEF Closed
    <3>3. Below(c, e)
      BY <1>0, <3>2
    <3>4. e \in Live
      BY <2>1 DEF Children, Live
    <3> QED
      BY <3>3, <3>4
  <2>2. Children(j) \subseteq D
    <3>1. ASSUME NEW c \in Children(j) PROVE c \in Live /\ Below(c, c)
      BY <1>0 DEF Children, Live
    <3> QED
      BY <3>1
  <2>3. Closed({j} \cup D)
    BY <2>1, <2>2 DEF Closed
  <2>4. k \in {j} \cup D
    BY <1>0, <1>3, <2>3
  <2> QED
    BY <1>3, <2>4
<1> QED
  BY <1>1, <1>2, <1>3

LEMMA ValidBodyFacts ==
    ASSUME HeapInv, RawInv, NEW v, NEW j \in 1..size
    PROVE  ValidBody(v)[j] <=> Ordered(j) /\ \A c \in Children(j) : v[c]
<1>1. size \in Nat /\ j \in Nat /\ 1 <= j
  BY DEF HeapInv, TypeOK
<1>2. /\ left(j) \in Nat /\ right(j) \in Nat /\ j < left(j) /\ j < right(j)
  BY <1>1 DEF left, right
<1>3. \A c : c \in Children(j) <=> (c = left(j) \/ c = right(j)) /\ c < size
  BY <1>1, <1>2 DEF Children
<1>4. ASSUME NEW c \in Children(j)
      PROVE  ~cmppri(pri[d[j]], pri[d[c]]) <=> pri[d[j]] <= pri[d[c]]
  <2>1. c \in Live /\ j \in Live
    BY <1>1, <1>2, <1>4 DEF Children, Live
  <2>2. pri[d[c]] \in Nat /\ pri[d[j]] \in Nat
    BY <2>1, PriType DEF RawInv
  <2> QED
    BY <2>2 DEF cmppri
<1>5. ValidBody(v)[j] <=>
        /\ left(j) < size => ~cmppri(pri[d[j]], pri[d[left(j)]]) /\ v[left(j)]
        /\ right(j) < size => ~cmppri(pri[d[j]], pri[d[right(j)]]) /\ v[right(j)]
  BY Zenon DEF ValidBody
<1>6. ValidBody(v)[j] <=> \A c \in Children(j) : ~cmppri(pri[d[j]], pri[d[c]]) /\ v[c]
  BY <1>3, <1>5, Zenon
<1> QED
  BY <1>4, <1>6, Zenon DEF Ordered

(* A subtree is valid if its root is in order and its subtrees are valid.  *)
LEMMA ValidSubtrees ==
    ASSUME HeapInv, RawInv, NEW j \in 1..size
    PROVE  subtree_is_valid[j] <=>
               Ordered(j) /\ \A c \in Children(j) : subtree_is_valid[c]
<1> DEFINE w == [i \in 1..size |-> \A k \in Live : i \in Live /\ Below(i, k) => Ordered(k)]
<1>0. size \in Nat
  BY DEF HeapInv, TypeOK
<1>1. ASSUME NEW i \in 1..size
      PROVE  (\A k \in Live : i \in Live /\ Below(i, k) => Ordered(k)) <=> ValidBody(w)[i]
  <2>1. Children(i) \subseteq Live /\ Live \subseteq 1..size
    BY <1>0 DEF Children, Live
  <2>2. CASE i \in Live
    <3>1. ASSUME NEW c \in Children(i)
          PROVE  w[c] <=> \A k \in Live : Below(c, k) => Ordered(k)
      <4>1. c \in 1..size /\ c \in Live
        BY <2>1
      <4> QED
        BY <4>1, Zenon
    <3>2. (\A k \in Live : Below(i, k) => Ordered(k)) <=>
             Ordered(i) /\ \A c \in Children(i) : \A k \in Live : Below(c, k) => Ordered(k)
      BY <1>0, <2>2, BelowFacts
    <3>3. (\A c \in Children(i) : w[c]) <=> 
             \A c \in Children(i) : \A k \in Live : Below(c, k) => Ordered(k)
      BY <3>1, Zenon
    <3> HIDE DEF w
    <3>4. ValidBody(w)[i] <=> Ordered(i) /\ \A c \in Children(i) : w[c]
      BY ValidBodyFacts
    <3> QED
      BY <2>2, <3>2, <3>3, <3>4, Zenon
  <2>3. CASE i \notin Live
    <3>1. Children(i) = {}
      BY <1>0, <2>3 DEF Live, Children, left, right
    <3> HIDE DEF w
    <3>2. Ordered(i) /\ \A c \in Children(i) : w[c]
      BY <3>1 DEF Ordered
    <3>3. ValidBody(w)[i]
      BY <3>2, ValidBodyFacts
    <3> QED
      BY <2>3, <3>3, Zenon
  <2> QED
    BY <2>2, <2>3
<1>2. w = ValidBody(w)
  <2>1. ValidBody(w) = [i \in 1..size |-> ValidBody(w)[i]]
    BY DEF ValidBody
  <2>2. \A i \in 1..size : ValidBody(w)[i] \in BOOLEAN
    BY Zenon DEF ValidBody
  <2>3. \A i \in 1..size : w[i] = ValidBody(w)[i]
    BY <1>1, <2>2, Zenon
  <2> QED
    BY <2>1, <2>3, Zenon
<1> HIDE DEF w
<1>3. subtree_is_valid = ValidBody(subtree_is_valid)
  BY <1>2, RecursionHolds
<1>4. ValidBody(subtree_is_valid)[j] <=>
         Ordered(j) /\ \A c \in Children(j) : subtree_is_valid[c]
  BY ValidBodyFacts
<1> QED
  BY <1>3, <1>4, Zenon

(* If the root is valid, so is every slot: the least one that were not     *)
(* would be the child of one that is.                                      *)
LEMMA ValidDownwards ==
    ASSUME HeapInv, RawInv, subtree_is_valid[1], NEW j \in Live
    PROVE  subtree_is_valid[j]
<1> DEFINE T == {i \in Live : ~subtree_is_valid[i]}
<1>1. size \in Nat /\ T \subseteq Nat
  BY DEF HeapInv, TypeOK, Live
<1>2. ASSUME T # {} PROVE FALSE
  <2>1. PICK i \in T : \A k \in T : i <= k
    BY <1>1, <1>2, LeastNatural
  <2>2. i \in Nat /\ i >= 2 /\ i < size /\ ~subtree_is_valid[i]
    <3>1. i # 1 /\ i \in Live
      BY <2>1
    <3> QED
      BY <1>1, <2>1, <3>1 DEF Live
  <2>3. parent(i) \in Nat /\ 1 <= parent(i) /\ parent(i) < i
    BY <2>2, ParentFacts
  <2>4. parent(i) \in Live /\ parent(i) \in 1..size /\ i \in Children(parent(i))
    BY <1>1, <2>2, <2>3, ChildFacts DEF Live, Children
  <2>5. subtree_is_valid[parent(i)]
    <3>1. parent(i) \notin T
      BY <1>1, <2>1, <2>2, <2>3
    <3> QED
      BY <2>4, <3>1
  <2> QED
    BY <2>2, <2>4, <2>5, ValidSubtrees
<1> QED
  BY <1>2

(* If every slot is in order with its children, the root is valid: the     *)
(* greatest slot that were not would have valid children.                  *)
LEMMA ValidUpwards ==
    ASSUME HeapInv, RawInv, \A k \in Live : Ordered(k)
    PROVE  subtree_is_valid[1]
<1> DEFINE T == {m \in 0..size : \E i \in 1..size : m = size - i /\ ~subtree_is_valid[i]}
<1>1. size \in Nat /\ 1 \in 1..size
  BY DEF HeapInv, TypeOK
<1>2. T \in SUBSET Nat
  BY <1>1
<1>3. ASSUME T # {} PROVE FALSE
  <2>1. PICK m \in T : \A y \in T : m <= y
    BY <1>2, <1>3, LeastNatural
  <2>2. PICK i \in 1..size : m = size - i /\ ~subtree_is_valid[i]
    BY <2>1
  <2>3. i \in Nat /\ 1 <= i /\ i <= size
    BY <1>1, <2>2
  <2>4. Ordered(i)
    <3>1. CASE i \in Live
      BY <3>1
    <3>2. CASE i \notin Live
      <4>1. Children(i) = {}
        BY <1>1, <2>3, <3>2 DEF Live, Children, left, right
      <4> QED
        BY <4>1 DEF Ordered
    <3> QED
      BY <3>1, <3>2
  <2>5. ASSUME NEW c \in Children(i) PROVE subtree_is_valid[c]
    <3>1. c \in Nat /\ i < c /\ c < size
      BY <1>1, <2>3, <2>5 DEF Children, left, right
    <3>2. size - c \in 0..size /\ c \in 1..size /\ size - c < m
      BY <1>1, <2>2, <2>3, <3>1
    <3>3. size - c \notin T
      BY <1>1, <2>1, <2>2, <2>3, <3>1, <3>2
    <3> QED
      BY <3>2, <3>3
  <2> QED
    BY <2>2, <2>4, <2>5, ValidSubtrees
<1>4. ASSUME ~subtree_is_valid[1] PROVE size - 1 \in T
  <2>1. size - 1 \in 0..size
    BY <1>1
  <2> QED
    BY <1>1, <1>4, <2>1
<1> QED
  BY <1>3, <1>4

(* Every slot is in order with its children exactly if it is with all      *)
(* below it.                                                               *)
LEMMA OrderedBelow ==
    ASSUME HeapInv, RawInv
    PROVE  (\A k \in Live : Ordered(k)) <=>
               \A j, k \in Live : Below(j, k) => pri[d[j]] <= pri[d[k]]
<1>0. size \in Nat /\ \A j \in Live : pri[d[j]] \in Nat
  BY PriType DEF HeapInv, TypeOK, RawInv
<1>1. ASSUME \A j, k \in Live : Below(j, k) => pri[d[j]] <= pri[d[k]],
             NEW j \in Live, NEW c \in Children(j)
      PROVE  pri[d[j]] <= pri[d[c]]
  <2>1. c \in Live
    BY DEF Children, Live
  <2>2. Below(c, c)
    BY <1>0, <2>1, BelowFacts
  <2>3. Below(j, c)
    BY <1>0, <2>1, <2>2, BelowFacts
  <2> QED
    BY <1>1, <2>1, <2>3
<1>2. ASSUME \A k \in Live : Ordered(k), NEW j \in Live, NEW k \in Live, Below(j, k)
      PROVE  pri[d[j]] <= pri[d[k]]
  <2> DEFINE S == {i \in Live : pri[d[j]] <= pri[d[i]]}
  <2>1. j \in S /\ S \in SUBSET (1..(size - 1))
    BY <1>0 DEF Live
  <2>2. ASSUME NEW i \in S, NEW c \in Children(i) PROVE c \in S
    <3>1. c \in Live /\ i \in Live /\ pri[d[j]] <= pri[d[i]]
      BY DEF Children, Live
    <3>2. pri[d[i]] <= pri[d[c]]
      BY <1>2, <3>1 DEF Ordered
    <3>3. pri[d[j]] <= pri[d[c]]
      BY <1>0, <3>1, <3>2
    <3> QED
      BY <3>1, <3>3
  <2>3. UNION {Children(i) : i \in S} \subseteq S
    BY <2>2
  <2>4. k \in S
    BY <1>2, <2>1, <2>3, Zenon DEF Below
  <2> QED
    BY <2>4
<1> QED
  BY <1>1, <1>2 DEF Ordered

(* The slots in use hold nodes, the hole among them.                       *)
LEMMA RawKept == HeapInv /\ RawInv /\ [Next]_vars => RawInv'
<1> SUFFICES ASSUME HeapInv, RawInv, [Next]_vars PROVE RawInv'
  OBVIOUS
<1> USE DEF RawInv, Live
<1>0. /\ size \in Nat /\ avail \in Nat /\ 1 <= size /\ size <= avail
      /\ d \in [0..(avail - 1) -> Nodes \cup {Garbage}]
  BY DEF HeapInv, TypeOK
<1>1. CASE BubbleUp \/ PercolateDown
  <2>1. PICK s \in {parent(hole), maxchild(hole)} :
            size' = size /\ d' = [d EXCEPT ![hole] = d[s]] /\ s \in Live
    <3>1. CASE BubbleUp
      <4>1. hole \in Nat /\ hole > 1 /\ hole < size
        BY <3>1 DEF BubbleUp, Rises, HeapInv, HoleInv, TypeOK
      <4>2. parent(hole) \in Live
        BY <1>0, <4>1, ParentFacts
      <4> QED
        BY <3>1, <4>2 DEF BubbleUp, ShiftInto
    <3>2. CASE PercolateDown
      <4>1. hole \in Nat /\ maxchild(hole) # 0
        BY <3>2 DEF PercolateDown, Sinks, HeapInv, TypeOK
      <4>2. maxchild(hole) \in Live
        BY <1>0, <4>1 DEF maxchild, left, right, HoleInv, HeapInv
      <4> QED
        BY <3>2, <4>2 DEF PercolateDown, ShiftInto
    <3> QED
      BY <1>1, <3>1, <3>2
  <2> QED
    BY <1>0, <2>1
<1>2. CASE Settle
  BY <1>0, <1>2 DEF Settle, HeapInv, HoleInv
<1>3. CASE Pop
  BY <1>0, <1>3 DEF Pop, Enter
<1>4. CASE \E n \in Nodes : Remove(n)
  BY <1>0, <1>4 DEF Remove, Enter
<1>5. ASSUME NEW n \in Nodes, NEW p \in Priorities, Insert(n, p) PROVE RawInv'
  <2>1. CASE size < avail /\ PutLast(n, d)
    BY <1>0, <2>1 DEF PutLast, Enter
  <2>2. CASE size + step <= MaxAvail /\ size >= avail /\ PutLast(n, Grown(size + step))
    <3>1. size + step \in Nat /\ size < size + step
      BY <1>0, SizesAssumption DEF step
    <3>2. d' = [Grown(size + step) EXCEPT ![size] = n] /\ size' = size + 1
      BY <2>2 DEF PutLast, Enter
    <3>3. \A j \in 0..size : d'[j] = IF j = size THEN n ELSE Grown(size + step)[j]
      BY <1>0, <3>1, <3>2 DEF Grown
    <3>4. \A j \in Live : Grown(size + step)[j] = d[j]
      BY <1>0, <3>1 DEF Grown
    <3> QED
      BY <1>0, <3>2, <3>3, <3>4
  <2>3. CASE UNCHANGED <<d, size>>
    BY <2>3
  <2> QED
    BY <1>5, <2>1, <2>2, <2>3 DEF Insert
<1>6. CASE \E n \in Nodes, p \in Priorities : ChangePriority(n, p)
  BY <1>6 DEF ChangePriority, Enter
<1>7. CASE Peek \/ UNCHANGED vars
  BY <1>7 DEF Peek, vars
<1> QED
  BY <1>1, <1>2, <1>3, <1>4, <1>5, <1>6, <1>7 DEF Next, Loop

(* pqueue_is_valid says TRUE exactly when no slot is later than one below  *)
(* it, at any moment.                                                      *)
THEOREM ValidIsExactHolds == Spec => []ValidIsExact
<1>1. Init => RawInv
  BY DEF Init, RawInv, Live
<1>2. Spec => [](HeapInv /\ RawInv)
  BY <1>1, InitHeap, NextHeap, RawKept, PTL DEF Spec
<1>3. HeapInv /\ RawInv => ValidIsExact
  <2> SUFFICES ASSUME HeapInv, RawInv PROVE ValidIsExact
    OBVIOUS
  <2>1. 1 \in 1..size /\ Live \subseteq 1..size
    BY DEF HeapInv, TypeOK, Live
  <2>2. subtree_is_valid[1] <=> \A k \in Live : Ordered(k)
    <3>1. ASSUME subtree_is_valid[1], NEW k \in Live PROVE Ordered(k)
      BY <2>1, <3>1, ValidDownwards, ValidSubtrees
    <3> QED
      BY <3>1, ValidUpwards
  <2>3. subtree_is_valid[1] <=>
            \A j, k \in Live : Below(j, k) => pri[d[j]] <= pri[d[k]]
    BY <2>2, OrderedBelow
  <2> QED
    BY <2>3, Zenon DEF ValidIsExact, pqueue_is_valid, Live
<1> QED
  BY <1>2, <1>3, PTL
=============================================================================
