------------------------ MODULE TreiberStackProofs ------------------------
(***************************************************************************)
(* The safety of the lock-free stack, for any number of threads and nodes.  *)
(***************************************************************************)
EXTENDS TreiberStack, FiniteSetTheorems, WellFoundedInduction, TLAPS

(* The nodes no thread but the one that is pushing it can know.            *)
Unpublished == free \cup UNION {Private(t) : t \in Threads}

(* No pointer of the stack or of a thread leads to such a node.            *)
Hidden ==
    \A n \in Unpublished :
        /\ n # top
        /\ \A m \in Nodes : next[m] # n
        /\ \A u \in Threads : n # oldTop[u]

(* Two pushes never have the same node, and none has one that new can      *)
(* still return.                                                           *)
Distinct ==
    \A t \in Threads : pc[t] \in {"push", "pushcas"} =>
        /\ newTop[t] \in Nodes \ free
        /\ \A u \in Threads \ {t} :
              pc[u] \in {"push", "pushcas"} => newTop[u] # newTop[t]

(* What a pop remembers of the node it took for the top stays true, also   *)
(* when that node is no longer on the stack.                               *)
Remembered ==
    \A t \in Threads :
        /\ pc[t] \in {"popnext", "popcas"} => oldTop[t] \in Nodes
        /\ pc[t] = "popcas" => after[t] = next[oldTop[t]]

IInv == TypeOK /\ Hidden /\ Distinct /\ Remembered

-----------------------------------------------------------------------------
(* Before any call nothing is known to anybody.                            *)
LEMMA InitIInv == Init => IInv
BY NullAssumption DEF Init, IInv, TypeOK, Hidden, Distinct, Remembered,
   Unpublished, Private, Pointers, Points

(* new returns a node nobody has.                                          *)
LEMMA NewIInv ==
    ASSUME IInv, NEW t \in Threads, New(t)
    PROVE  IInv'
<1>1. PICK n \in free :
        /\ newTop' = [newTop EXCEPT ![t] = n]
        /\ next' = [next EXCEPT ![n] = Null]
        /\ free' = free \ {n}
  BY DEF New
<1>2. TypeOK'
  BY <1>1 DEF New, GoTo, IInv, TypeOK, Pointers, Points
<1>3. Distinct'
  BY <1>1 DEF New, GoTo, IInv, TypeOK, Distinct
<1>4. Unpublished' = Unpublished
  BY <1>1 DEF New, GoTo, IInv, TypeOK, Unpublished, Private
<1>5. Hidden'
  BY <1>1, <1>4, NullAssumption
     DEF New, IInv, TypeOK, Hidden, Unpublished, Distinct, Private
<1>6. n \in Unpublished
  BY <1>1 DEF Unpublished
<1>7. Remembered'
  BY <1>1, <1>6 DEF New, GoTo, IInv, TypeOK, Hidden, Remembered
<1> QED
  BY <1>2, <1>3, <1>5, <1>7 DEF IInv

(* push writes next of a hidden node only: no pop can have remembered it.  *)
LEMMA PushLoadIInv ==
    ASSUME IInv, NEW t \in Threads, PushLoad(t)
    PROVE  IInv'
<1>1. newTop[t] \in Nodes /\ newTop[t] \in Unpublished
  BY DEF PushLoad, IInv, Distinct, Unpublished, Private
<1>2. TypeOK'
  BY DEF PushLoad, GoTo, IInv, TypeOK, Pointers, Points
<1>3. Distinct'
  BY DEF PushLoad, GoTo, IInv, TypeOK, Distinct
<1>4. Unpublished' = Unpublished
  BY DEF PushLoad, GoTo, IInv, TypeOK, Unpublished, Private
<1>5. Hidden'
  BY <1>1, <1>4 DEF PushLoad, IInv, TypeOK, Hidden
<1>6. Remembered'
  BY <1>1 DEF PushLoad, GoTo, IInv, TypeOK, Hidden, Remembered
<1> QED
  BY <1>2, <1>3, <1>5, <1>6 DEF IInv

(* The node is published when, and only when, the compare-and-swap wins.   *)
LEMMA PushCasIInv ==
    ASSUME IInv, NEW t \in Threads, PushCas(t)
    PROVE  IInv'
<1>1. TypeOK'
  BY DEF PushCas, GoTo, IInv, TypeOK, Pointers, Points
<1>2. Distinct'
  BY DEF PushCas, GoTo, IInv, TypeOK, Distinct
<1>3. Unpublished' \subseteq Unpublished
  BY DEF PushCas, GoTo, IInv, TypeOK, Unpublished, Private
<1>4. top' = newTop[t] => newTop[t] \notin Unpublished' \/ top' = top
  <2>1. CASE top = oldTop[t]
    <3>1. Unpublished' = free \cup UNION {Private(u)' : u \in Threads}
      BY DEF PushCas, Unpublished
    <3>2. newTop[t] \notin free
      BY DEF PushCas, IInv, Distinct
    <3>3. ASSUME NEW u \in Threads PROVE newTop[t] \notin Private(u)'
      BY <2>1, <3>3 DEF PushCas, GoTo, IInv, TypeOK, Distinct, Private
    <3> QED
      BY <3>1, <3>2, <3>3
  <2>2. CASE top # oldTop[t]
    BY <2>2 DEF PushCas
  <2> QED
    BY <2>1, <2>2
<1>5. top' = top \/ top' = newTop[t]
  BY DEF PushCas
<1>6. Hidden'
  BY <1>3, <1>4, <1>5 DEF PushCas, IInv, Hidden
<1>7. Remembered'
  BY DEF PushCas, GoTo, IInv, TypeOK, Remembered
<1> QED
  BY <1>1, <1>2, <1>6, <1>7 DEF IInv

(* A call of pop by itself changes nothing.                                *)
LEMMA CallPopIInv ==
    ASSUME IInv, NEW t \in Threads, CallPop(t)
    PROVE  IInv'
<1>1. Unpublished' = Unpublished
  BY DEF CallPop, GoTo, IInv, TypeOK, Unpublished, Private
<1> QED
  BY <1>1 DEF CallPop, GoTo, IInv, TypeOK, Hidden, Distinct, Remembered,
     Pointers, Points

(* What pop loads from top is not hidden.                                  *)
LEMMA PopLoadIInv ==
    ASSUME IInv, NEW t \in Threads, PopLoad(t)
    PROVE  IInv'
<1>1. TypeOK'
  BY DEF PopLoad, GoTo, IInv, TypeOK, Pointers, Points
<1>2. Distinct'
  BY DEF PopLoad, GoTo, IInv, TypeOK, Distinct
<1>3. Unpublished' = Unpublished
  BY DEF PopLoad, GoTo, IInv, TypeOK, Unpublished, Private
<1>4. Hidden'
  BY <1>3 DEF PopLoad, IInv, TypeOK, Hidden
<1>5. Remembered'
  BY DEF PopLoad, GoTo, IInv, TypeOK, Remembered, Pointers
<1> QED
  BY <1>1, <1>2, <1>4, <1>5 DEF IInv

(* What pop reads from a node it once saw on the top is not hidden.        *)
LEMMA PopNextIInv ==
    ASSUME IInv, NEW t \in Threads, PopNext(t)
    PROVE  IInv'
<1>1. TypeOK'
  BY DEF PopNext, GoTo, IInv, TypeOK, Remembered, Pointers, Points
<1>2. Unpublished' = Unpublished
  BY DEF PopNext, GoTo, IInv, TypeOK, Unpublished, Private
<1>3. Hidden' /\ Distinct'
  BY <1>2 DEF PopNext, GoTo, IInv, TypeOK, Hidden, Distinct
<1>4. Remembered'
  BY DEF PopNext, GoTo, IInv, TypeOK, Remembered
<1> QED
  BY <1>1, <1>3, <1>4 DEF IInv

(* The new top is what follows the old one, so it is not hidden.           *)
LEMMA PopCasIInv ==
    ASSUME IInv, NEW t \in Threads, PopCas(t)
    PROVE  IInv'
<1>1. oldTop[t] \in Nodes /\ after[t] = next[oldTop[t]]
  BY DEF PopCas, IInv, Remembered
<1>2. TypeOK'
  BY <1>1 DEF PopCas, GoTo, IInv, TypeOK, Pointers, Points
<1>3. Unpublished' = Unpublished
  BY DEF PopCas, GoTo, IInv, TypeOK, Unpublished, Private
<1>4. Hidden'
  BY <1>1, <1>3 DEF PopCas, IInv, TypeOK, Hidden
<1>5. Distinct' /\ Remembered'
  BY DEF PopCas, GoTo, IInv, TypeOK, Distinct, Remembered
<1> QED
  BY <1>2, <1>4, <1>5 DEF IInv

(* The inductive invariant holds throughout.                               *)
LEMMA Invariance == Spec => []IInv
<1>1. IInv /\ [Next]_vars => IInv'
  <2> SUFFICES ASSUME IInv, [Next]_vars PROVE IInv'
    OBVIOUS
  <2>1. CASE UNCHANGED vars
    BY <2>1 DEF vars, IInv, TypeOK, Hidden, Distinct, Remembered, Unpublished,
       Private
  <2>2. ASSUME NEW t \in Threads, New(t) \/ CallPop(t) \/ Step(t)
        PROVE  IInv'
    BY <2>2, NewIInv, CallPopIInv, PushLoadIInv, PushCasIInv, PopLoadIInv,
       PopNextIInv, PopCasIInv DEF Step
  <2> QED
    BY <2>1, <2>2 DEF Next
<1> QED
  BY InitIInv, <1>1, PTL DEF Spec

-----------------------------------------------------------------------------
(* The pointers of the stack and the locals of its callers have the types  *)
(* the code gives them; in particular pop never hands out a null node.     *)
THEOREM TypeCorrect == Spec => []TypeOK
<1>1. IInv => TypeOK
  BY DEF IInv
<1> QED
  BY Invariance, <1>1, PTL

(* pop is safe from ABA, with any number of threads, because no node is    *)
(* ever reused: the next it read before its compare-and-swap is right      *)
(* whenever that succeeds.                                                 *)
THEOREM NoABAHolds == Spec => []NoABA
<1>1. IInv => NoABA
  BY DEF IInv, Remembered, NoABA
<1> QED
  BY Invariance, <1>1, PTL

(* push may write newTop->next without synchronisation: nobody else can    *)
(* get at the node before its compare-and-swap succeeds.                   *)
THEOREM PushOwnsNodeHolds == Spec => []PushOwnsNode
<1>1. IInv => PushOwnsNode
  BY DEF IInv, Hidden, Distinct, Unpublished, Private, PushOwnsNode
<1> QED
  BY Invariance, <1>1, PTL

-----------------------------------------------------------------------------
(* A non-empty set of natural numbers has a least element.                 *)
LEMMA LeastNatural ==
  ASSUME NEW T \in SUBSET Nat, T # {}
  PROVE  \E x \in T : \A y \in T : x <= y
<1>1. \E x \in T : \A y \in T : ~ (<<y, x>> \in OpToRel(<, Nat))
  BY NatLessThanWellFounded, WFMin
<1>2. PICK x \in T : \A y \in T : ~ (<<y, x>> \in OpToRel(<, Nat))
  BY <1>1
<1>3. ASSUME NEW y \in T PROVE x <= y
  <2>1. x \in Nat /\ y \in Nat
    OBVIOUS
  <2>2. ~ (y < x)
    BY <1>2, <2>1 DEF OpToRel
  <2>3. QED
    BY <2>1, <2>2
<1>4. QED
  BY <1>3
-----------------------------------------------------------------------------
(* The list that hangs from top, as a sequence.  It ends, and no node is   *)
(* in it twice.                                                            *)
At(s, k) == IF k \in 1..Len(s) THEN s[k] ELSE Null

IsList(s) ==
    /\ s \in Seq(Nodes)
    /\ top = At(s, 1)
    /\ \A i \in 1..Len(s) : next[s[i]] = At(s, i + 1)
    /\ \A i, j \in 1..Len(s) : s[i] = s[j] => i = j

ListInv == \E s : IsList(s)

(* A node about to be published already leads to what its push saw.        *)
Linked == \A t \in Threads : pc[t] = "pushcas" => next[newTop[t]] = oldTop[t]

StackInv == IInv /\ Linked /\ ListInv

LEMMA IntervalSize ==
    ASSUME NEW n \in Nat
    PROVE  Cardinality(1..n) = n /\ Cardinality(0..(n - 1)) = n
<1>1. 1 \in Int /\ 0 \in Int /\ n \in Int /\ n - 1 \in Int
  OBVIOUS
<1>2. /\ Cardinality(1..n) = IF 1 > n THEN 0 ELSE n - 1 + 1
      /\ Cardinality(0..(n - 1)) = IF 0 > n - 1 THEN 0 ELSE n - 1 - 0 + 1
  BY <1>1, FS_Interval, Zenon
<1> QED
  BY <1>2

LEMMA ListLength ==
    ASSUME NEW s, IsList(s)
    PROVE  Len(s) \in Nat /\ Cardinality(Nodes) \in Nat /\ Len(s) <= Cardinality(Nodes)
<1>1. s \in [1..Len(s) -> Nodes] /\ Len(s) \in Nat
  BY DEF IsList
<1>2. s \in Injection(1..Len(s), Nodes)
  BY <1>1 DEF IsList, Injection, IsInjective
<1>3. Cardinality(1..Len(s)) = Len(s)
  BY <1>1, IntervalSize
<1>4. Cardinality(1..Len(s)) <= Cardinality(Nodes)
  BY <1>2, NodesAssumption, FS_Injection
<1> QED
  BY <1>1, <1>3, <1>4, NodesAssumption, FS_CardinalityType

(* The equation of Below.                                                  *)
Walk(b) ==
    [k \in 0..Cardinality(Nodes) |->
        IF k = 0 THEN top ELSE IF b[k - 1] = Null THEN Null ELSE next[b[k - 1]]]

LEMMA WalkHolds ==
    ASSUME NEW w, w = Walk(w)
    PROVE  Below = Walk(Below)
<1>1. Below = CHOOSE b : b = Walk(b)
  BY DEF Below, Walk
<1>2. \E b : b = Walk(b)
  OBVIOUS
<1> QED
  BY <1>1, <1>2, Zenon

(* Below visits the list in order, and then stays at the null pointer.     *)
LEMMA BelowIsAt ==
    ASSUME NEW s, IsList(s), NEW k \in 0..Cardinality(Nodes)
    PROVE  Below[k] = At(s, k + 1)
<1> DEFINE C == Cardinality(Nodes)
           w == [i \in 0..C |-> At(s, i + 1)]
           T == {i \in 0..C : Below[i] # At(s, i + 1)}
<1>1. Len(s) \in Nat /\ C \in Nat
  BY ListLength
<1>2. ASSUME NEW i \in 1..C
      PROVE  At(s, i + 1) = IF At(s, i) = Null THEN Null ELSE next[At(s, i)]
  <2>1. CASE i \in 1..Len(s)
    <3>1. At(s, i) = s[i] /\ s[i] \in Nodes
      BY <2>1 DEF At, IsList
    <3> QED
      BY <2>1, <3>1, NullAssumption DEF IsList
  <2>2. CASE i \notin 1..Len(s)
    BY <1>1, <2>2 DEF At
  <2> QED
    BY <2>1, <2>2
<1>3. w = Walk(w)
  <2>1. ASSUME NEW i \in 0..C PROVE w[i] = Walk(w)[i]
    <3>1. CASE i = 0
      BY <1>1, <3>1 DEF Walk, IsList
    <3>2. CASE i # 0
      <4>1. i \in 1..C /\ i - 1 \in 0..C /\ (i - 1) + 1 = i
        BY <1>1, <3>2
      <4>2. w[i] = At(s, i + 1) /\ w[i - 1] = At(s, i)
        BY <4>1
      <4> HIDE DEF w
      <4>3. Walk(w)[i] = IF w[i - 1] = Null THEN Null ELSE next[w[i - 1]]
        BY <3>2 DEF Walk
      <4> QED
        BY <1>2, <4>1, <4>2, <4>3
    <3> QED
      BY <3>1, <3>2
  <2>2. Walk(w) = [i \in 0..C |-> Walk(w)[i]]
    BY DEF Walk
  <2> QED
    BY <2>1, <2>2
<1>4. Below = Walk(Below)
  BY <1>3, WalkHolds
<1>5. ASSUME T # {} PROVE FALSE
  <2>1. PICK i \in T : \A j \in T : i <= j
    <3>1. T \in SUBSET Nat
      BY <1>1
    <3> QED
      BY <1>5, <3>1, LeastNatural
  <2>2. i \in 0..C /\ Below[i] # At(s, i + 1)
    BY <2>1
  <2>3. i # 0
    <3>1. 0 \in 0..C
      BY <1>1
    <3>2. Below[0] = top
      BY <1>4, <3>1 DEF Walk
    <3> QED
      BY <2>2, <3>2 DEF IsList
  <2>4. i \in 1..C /\ i - 1 \in 0..C /\ (i - 1) + 1 = i /\ i - 1 < i
    BY <1>1, <2>2, <2>3
  <2>5. Below[i - 1] = At(s, i)
    <3>1. i - 1 \notin T
      BY <1>1, <2>1, <2>4
    <3> QED
      BY <2>4, <3>1
  <2>6. Below[i] = IF Below[i - 1] = Null THEN Null ELSE next[Below[i - 1]]
    BY <1>4, <2>2, <2>3 DEF Walk
  <2> QED
    BY <1>2, <2>2, <2>4, <2>5, <2>6
<1> QED
  BY <1>5

(* So Chain is the list.                                                   *)
LEMMA ChainIsList == \A s : IsList(s) => Chain = s
<1> SUFFICES ASSUME NEW s, IsList(s) PROVE Chain = s
  OBVIOUS
<1> DEFINE C == Cardinality(Nodes)
<1>1. Len(s) \in Nat /\ C \in Nat /\ Len(s) <= C
  BY ListLength
<1>2. ASSUME NEW k \in 0..C PROVE Below[k] # Null <=> k < Len(s)
  <2>1. Below[k] = At(s, k + 1)
    BY BelowIsAt
  <2>2. \A i \in 1..Len(s) : s[i] \in Nodes
    BY DEF IsList
  <2> QED
    BY <1>1, <2>1, <2>2, NullAssumption DEF At
<1>3. {k \in 0..C : Below[k] # Null} = 0..(Len(s) - 1)
  BY <1>1, <1>2
<1>4. Depth = Len(s)
  <2>1. Cardinality(0..(Len(s) - 1)) = Len(s)
    BY <1>1, IntervalSize
  <2> QED
    BY <1>3, <2>1 DEF Depth
<1>5. ASSUME NEW i \in 1..Len(s) PROVE Below[i - 1] = s[i]
  <2>1. i - 1 \in 0..C /\ (i - 1) + 1 = i
    BY <1>1
  <2>2. Below[i - 1] = At(s, i)
    BY <2>1, BelowIsAt
  <2> QED
    BY <2>2 DEF At
<1>6. s = [i \in 1..Len(s) |-> s[i]]
  BY DEF IsList
<1> QED
  BY <1>4, <1>5, <1>6 DEF Chain

(* Nobody's private nodes are in the list.                                 *)
LEMMA ListPublished ==
    ASSUME IInv, NEW s, IsList(s), NEW i \in 1..Len(s)
    PROVE  s[i] \notin Unpublished
<1>1. Len(s) \in Nat /\ s \in Seq(Nodes)
  BY DEF IsList
<1>2. CASE i = 1
  BY <1>2 DEF IsList, At, IInv, Hidden
<1>3. CASE i # 1
  <2>1. i - 1 \in 1..Len(s) /\ (i - 1) + 1 = i
    BY <1>1, <1>3
  <2>2. next[s[i - 1]] = s[i] /\ s[i - 1] \in Nodes
    BY <1>1, <2>1 DEF IsList, At
  <2> QED
    BY <2>2 DEF IInv, Hidden
<1> QED
  BY <1>2, <1>3

(* And after a step it is the list there is then.                          *)
LEMMA NextChainIsList == (\A s : IsList(s) => Chain = s)'
BY ChainIsList, PTL

-----------------------------------------------------------------------------
(* A step that leaves top and the published nodes alone leaves the list.   *)
LEMMA QuietStep ==
    ASSUME IInv, ListInv, top' = top,
           \A n \in Nodes \ Unpublished : next'[n] = next[n]
    PROVE  ListInv' /\ Chain' = Chain
<1>1. PICK s : IsList(s)
  BY DEF ListInv
<1>2. IsList(s)'
  <2>1. ASSUME NEW i \in 1..Len(s) PROVE next'[s[i]] = next[s[i]]
    <3>1. s[i] \in Nodes /\ s[i] \notin Unpublished
      BY <1>1, ListPublished DEF IsList
    <3> QED
      BY <3>1
  <2> QED
    BY <1>1, <2>1 DEF IsList, At
<1> QED
  BY <1>1, <1>2, ChainIsList, NextChainIsList DEF ListInv

(* A push that wins puts its node in front.                                *)
LEMMA PushWins ==
    ASSUME StackInv, NEW t \in Threads, PushCas(t), top = oldTop[t]
    PROVE  ListInv' /\ newTop[t] \in Nodes /\ Chain' = <<newTop[t]>> \o Chain
<1>1. PICK n : n = newTop[t]
  OBVIOUS
<1>2. PICK s : IsList(s)
  BY DEF StackInv, ListInv
<1>3. n \in Nodes /\ n \in Unpublished /\ next[n] = At(s, 1)
  <2>1. pc[t] = "pushcas" /\ next[n] = top
    BY <1>1 DEF PushCas, StackInv, Linked
  <2>2. n \in Nodes /\ n \in Unpublished
    BY <1>1, <2>1 DEF StackInv, IInv, Distinct, Unpublished, Private
  <2> QED
    BY <1>2, <2>1, <2>2 DEF IsList
<1>4. top' = n /\ next' = next
  BY <1>1 DEF PushCas
<1>5. PICK r : r = <<n>> \o s
  OBVIOUS
<1>6. /\ r \in Seq(Nodes) /\ Len(r) = Len(s) + 1 /\ Len(s) \in Nat
      /\ r[1] = n /\ \A i \in 1..Len(s) : r[i + 1] = s[i]
  BY <1>2, <1>3, <1>5 DEF IsList
<1>7. \A i \in 2..Len(r) : r[i] = s[i - 1] /\ i - 1 \in 1..Len(s)
  <2>1. ASSUME NEW i \in 2..Len(r) PROVE r[i] = s[i - 1] /\ i - 1 \in 1..Len(s)
    <3>1. i - 1 \in 1..Len(s) /\ (i - 1) + 1 = i
      BY <1>6
    <3>2. r[(i - 1) + 1] = s[i - 1]
      BY <1>6, <3>1
    <3> QED
      BY <3>1, <3>2
  <2> QED
    BY <2>1
<1>8. \A i \in 1..Len(s) : s[i] # n
  BY <1>2, <1>3, ListPublished DEF StackInv
<1>9. \A i \in 1..Len(r) : At(r, i + 1) = At(s, i)
  BY <1>6 DEF At
<1>10. IsList(r)'
  <2>1. top' = At(r, 1)
    BY <1>4, <1>6 DEF At
  <2>2. ASSUME NEW i \in 1..Len(r) PROVE next[r[i]] = At(r, i + 1)
    <3>1. CASE i = 1
      BY <1>3, <1>6, <1>9, <3>1
    <3>2. CASE i # 1
      <4>1. i \in 2..Len(r)
        BY <1>6, <3>2
      <4>2. next[s[i - 1]] = At(s, (i - 1) + 1) /\ (i - 1) + 1 = i
        BY <1>2, <1>7, <4>1 DEF IsList
      <4> QED
        BY <1>7, <1>9, <4>1, <4>2
    <3> QED
      BY <3>1, <3>2
  <2>3. ASSUME NEW i \in 1..Len(r), NEW j \in 1..Len(r), r[i] = r[j] PROVE i = j
    <3>1. CASE i = 1 /\ j = 1
      BY <3>1
    <3>2. CASE i # 1 /\ j # 1
      <4>1. i \in 2..Len(r) /\ j \in 2..Len(r)
        BY <1>6, <3>2
      <4>2. i - 1 = j - 1
        BY <1>2, <1>7, <2>3, <4>1 DEF IsList
      <4> QED
        BY <4>1, <4>2
    <3>3. CASE i = 1 /\ j # 1
      <4>1. j \in 2..Len(r)
        BY <1>6, <3>3
      <4> QED
        BY <1>6, <1>7, <1>8, <2>3, <3>3, <4>1
    <3>4. CASE i # 1 /\ j = 1
      <4>1. i \in 2..Len(r)
        BY <1>6, <3>4
      <4> QED
        BY <1>6, <1>7, <1>8, <2>3, <3>4, <4>1
    <3> QED
      BY <3>1, <3>2, <3>3, <3>4
  <2> QED
    BY <1>4, <1>6, <2>1, <2>2, <2>3 DEF IsList
<1>11. Chain = s /\ Chain' = r
  BY <1>2, <1>10, ChainIsList, NextChainIsList
<1> QED
  BY <1>1, <1>3, <1>10, <1>11, <1>5 DEF ListInv

(* A pop that wins takes the first node off.                               *)
LEMMA PopWins ==
    ASSUME StackInv, NEW t \in Threads, PopCas(t), top = oldTop[t]
    PROVE  /\ ListInv' /\ Chain # << >>
           /\ Chain' = Tail(Chain) /\ Head(Chain) = oldTop[t]
<1>1. PICK s : IsList(s)
  BY DEF StackInv, ListInv
<1>2. top \in Nodes /\ top' = next[top] /\ next' = next
  BY DEF PopCas, StackInv, IInv, Remembered
<1>3. s \in Seq(Nodes) /\ Len(s) \in Nat /\ Len(s) >= 1 /\ s[1] = top
  BY <1>1, <1>2, NullAssumption DEF IsList, At
<1> DEFINE r == Tail(s)
<1>4. /\ r \in Seq(Nodes) /\ Len(r) = Len(s) - 1
      /\ \A i \in 1..Len(r) : r[i] = s[i + 1] /\ i + 1 \in 1..Len(s)
      /\ Head(s) = top /\ s # << >>
  BY <1>3
<1> HIDE DEF r
<1>5. \A i \in 1..Len(s) : At(r, i) = At(s, i + 1)
  BY <1>3, <1>4 DEF At
<1>6. IsList(r)'
  <2>1. top' = At(r, 1)
    BY <1>1, <1>2, <1>3, <1>5 DEF IsList
  <2>2. ASSUME NEW i \in 1..Len(r) PROVE next[r[i]] = At(r, i + 1)
    <3>1. r[i] = s[i + 1] /\ i + 1 \in 1..Len(s)
      BY <1>4
    <3>2. next[s[i + 1]] = At(s, (i + 1) + 1)
      BY <1>1, <3>1 DEF IsList
    <3>3. At(r, i + 1) = At(s, (i + 1) + 1)
      BY <1>5, <3>1
    <3> QED
      BY <3>1, <3>2, <3>3
  <2>3. ASSUME NEW i \in 1..Len(r), NEW j \in 1..Len(r), r[i] = r[j] PROVE i = j
    <3>1. i + 1 = j + 1
      BY <1>1, <1>4, <2>3 DEF IsList
    <3> QED
      BY <1>3, <1>4, <3>1
  <2> QED
    BY <1>2, <1>4, <2>1, <2>2, <2>3 DEF IsList
<1>7. Chain = s /\ Chain' = r
  BY <1>1, <1>6, ChainIsList, NextChainIsList
<1> QED
  BY <1>4, <1>6, <1>7 DEF ListInv, r, PopCas

(* The stack is empty exactly when top is null.                            *)
LEMMA EmptyIsNull == ListInv => (Chain = << >> <=> top = Null)
<1> SUFFICES ASSUME ListInv PROVE Chain = << >> <=> top = Null
  OBVIOUS
<1>1. PICK s : IsList(s)
  BY DEF ListInv
<1>2. Chain = s /\ s \in Seq(Nodes) /\ top = At(s, 1)
  BY <1>1, ChainIsList DEF IsList
<1>3. CASE s = << >>
  BY <1>2, <1>3 DEF At
<1>4. CASE s # << >>
  <2>1. 1 \in 1..Len(s) /\ s[1] \in Nodes
    BY <1>2, <1>4
  <2> QED
    BY <1>2, <1>4, <2>1, NullAssumption DEF At
<1> QED
  BY <1>3, <1>4

(* push links its node again before every compare-and-swap.               *)
LEMMA LinkedKept ==
    ASSUME StackInv, NEW t \in Threads, New(t) \/ CallPop(t) \/ Step(t)
    PROVE  Linked'
<1> USE DEF StackInv, IInv, TypeOK, GoTo, Linked
<1>1. CASE New(t)
  BY <1>1 DEF New, Distinct
<1>2. CASE PushLoad(t)
  BY <1>2 DEF PushLoad, Distinct
<1>3. CASE PushCas(t)
  BY <1>3 DEF PushCas
<1>4. CASE CallPop(t)
  BY <1>4 DEF CallPop
<1>5. CASE PopLoad(t) 
  BY <1>5 DEF PopLoad
<1>6. CASE PopNext(t) \/ PopCas(t)
  BY <1>6 DEF PopNext, PopCas
<1> QED
  BY <1>1, <1>2, <1>3, <1>4, <1>5, <1>6 DEF Step

(* Every step is one of the abstract stack, or leaves it alone.            *)
LEMMA StepRefines ==
    ASSUME StackInv, NEW t \in Threads, New(t) \/ CallPop(t) \/ Step(t)
    PROVE  ListInv' /\ [Abstract!Next]_(Abstract!vars)
<1>1. ASSUME top' = top, got' = got, \A n \in Nodes \ Unpublished : next'[n] = next[n]
      PROVE  ListInv' /\ [Abstract!Next]_(Abstract!vars)
  BY <1>1, QuietStep DEF StackInv, Abstract!vars
<1>2. CASE New(t)
  <2>1. top' = top /\ got' = got /\ \E n \in free : next' = [next EXCEPT ![n] = Null]
    BY <1>2 DEF New
  <2>2. \A n \in Nodes \ Unpublished : next'[n] = next[n]
    BY <2>1 DEF StackInv, IInv, TypeOK, Unpublished
  <2> QED
    BY <1>1, <2>1, <2>2
<1>3. CASE PushLoad(t)
  <2>1. top' = top /\ got' = got /\ next' = [next EXCEPT ![newTop[t]] = top]
    BY <1>3 DEF PushLoad
  <2>2. newTop[t] \in Unpublished
    BY <1>3 DEF PushLoad, Unpublished, Private
  <2>3. \A n \in Nodes \ Unpublished : next'[n] = next[n]
    BY <2>1, <2>2 DEF StackInv, IInv, TypeOK
  <2> QED
    BY <1>1, <2>1, <2>3
<1>4. CASE CallPop(t) \/ PopNext(t)
  BY <1>1, <1>4 DEF CallPop, PopNext
<1>5. CASE PushCas(t)
  <2>1. CASE top = oldTop[t]
    <3>1. ListInv' /\ Abstract!Push(newTop[t]) /\ newTop[t] \in Nodes
      BY <1>5, <2>1, PushWins DEF Abstract!Push, PushCas
    <3> QED
      BY <3>1 DEF Abstract!Next
  <2>2. CASE top # oldTop[t]
    BY <1>1, <1>5, <2>2 DEF PushCas
  <2> QED
    BY <2>1, <2>2
<1>6. CASE PopCas(t)
  <2>1. CASE top = oldTop[t]
    <3>1. ListInv' /\ Abstract!Pop(t)
      BY <1>6, <2>1, PopWins DEF Abstract!Pop, PopCas
    <3> QED
      BY <3>1 DEF Abstract!Next
  <2>2. CASE top # oldTop[t]
    BY <1>1, <1>6, <2>2 DEF PopCas
  <2> QED
    BY <2>1, <2>2
<1>7. CASE PopLoad(t)
  <2>1. top' = top /\ next' = next
    BY <1>7 DEF PopLoad
  <2>2. ListInv' /\ Chain' = Chain
    BY <2>1, QuietStep DEF StackInv
  <2>3. CASE top = Null
    <3>1. Chain = << >> /\ got' = [got EXCEPT ![t] = "empty"]
      BY <1>7, <2>3, EmptyIsNull DEF StackInv, PopLoad
    <3>2. Abstract!PopEmpty(t)
      BY <2>2, <3>1 DEF Abstract!PopEmpty
    <3> QED
      BY <2>2, <3>2 DEF Abstract!Next
  <2>4. CASE top # Null
    BY <1>1, <1>7, <2>1, <2>4 DEF PopLoad
  <2> QED
    BY <2>3, <2>4
<1> QED
  BY <1>2, <1>3, <1>4, <1>5, <1>6, <1>7 DEF Step

(* Every interleaving of pushes and pops is a sequence of whole operations *)
(* on a stack.                                                             *)
THEOREM Refinement == Spec => RefinesStack
<1>1. Init => Linked /\ ListInv /\ Abstract!Init
  <2> SUFFICES ASSUME Init PROVE Linked /\ ListInv /\ Abstract!Init
    OBVIOUS
  <2>1. IsList(<< >>)
    BY DEF Init, IsList, At
  <2>2. Chain = << >>
    BY <2>1, ChainIsList
  <2> QED
    BY <2>1, <2>2 DEF Init, Linked, ListInv, Abstract!Init
<1>2. StackInv /\ [Next]_vars => Linked' /\ ListInv' /\ [Abstract!Next]_(Abstract!vars)
  <2> SUFFICES ASSUME StackInv, [Next]_vars
               PROVE  Linked' /\ ListInv' /\ [Abstract!Next]_(Abstract!vars)
    OBVIOUS
  <2>1. CASE UNCHANGED vars
    <3>1. ListInv' /\ Chain' = Chain
      BY <2>1, QuietStep DEF StackInv, vars
    <3> QED
      BY <2>1, <3>1 DEF vars, StackInv, Linked, Abstract!vars
  <2>2. ASSUME NEW t \in Threads, New(t) \/ CallPop(t) \/ Step(t)
        PROVE  Linked' /\ ListInv' /\ [Abstract!Next]_(Abstract!vars)
    BY <2>2, LinkedKept, StepRefines
  <2> QED
    BY <2>1, <2>2 DEF Next
<1>3. Spec => []StackInv
  BY <1>1, <1>2, Invariance, PTL DEF Spec, StackInv
<1> QED
  BY <1>1, <1>2, <1>3, PTL DEF Spec, RefinesStack, Abstract!Spec

-----------------------------------------------------------------------------
(* How many steps of its own a call is from its return, if top stays as it *)
(* is: one that has seen another top has to go round once more.            *)
Left(t) ==
    LET fresh == top = oldTop[t]
    IN  CASE pc[t] = "idle" -> 0
          [] pc[t] = "pushcas" -> IF fresh THEN 1 ELSE 3
          [] pc[t] = "push" -> 2
          [] pc[t] = "popcas" -> IF fresh THEN 1 ELSE 4
          [] pc[t] = "popnext" -> IF fresh THEN 2 ELSE 5
          [] pc[t] = "pop" -> 3

Returns(t) == pc[t] # "idle" /\ pc'[t] = "idle"

(* Lock-freedom, as far as it is about steps: a call is never more than    *)
(* five steps from its return, each step of it is one less, and only a     *)
(* call of another thread that returns in that very step can add to them.  *)
Nearer ==
    \A t \in Threads :
        /\ Left(t) \in 0..5
        /\ Step(t) => Left(t)' < Left(t)
        /\ \A u \in Threads \ {t} :
              Step(u) \/ New(u) \/ CallPop(u) => Left(t)' = Left(t) \/ Returns(u)

LEMMA OwnStep ==
    ASSUME TypeOK, NEW t \in Threads, Step(t)
    PROVE  Left(t)' < Left(t)
<1> USE DEF TypeOK, GoTo, Left
<1>1. CASE PushLoad(t)
  BY <1>1 DEF PushLoad
<1>2. CASE PushCas(t)
  BY <1>2 DEF PushCas
<1>3. CASE PopLoad(t)
  BY <1>3 DEF PopLoad
<1>4. CASE PopNext(t)
  BY <1>4 DEF PopNext
<1>5. CASE PopCas(t)
  BY <1>5 DEF PopCas
<1> QED
  BY <1>1, <1>2, <1>3, <1>4, <1>5 DEF Step

LEMMA OthersStep ==
    ASSUME TypeOK, NEW t \in Threads, NEW u \in Threads \ {t},
           Step(u) \/ New(u) \/ CallPop(u)
    PROVE  Left(t)' = Left(t) \/ Returns(u)
<1>1. pc'[t] = pc[t] /\ oldTop'[t] = oldTop[t]
  BY DEF TypeOK, GoTo, Step, New, CallPop, PushLoad, PushCas, PopLoad, PopNext, PopCas
<1>2. CASE top' = top
  BY <1>1, <1>2 DEF Left
<1>3. CASE top' # top
  BY <1>3 DEF TypeOK, GoTo, Step, New, CallPop, PushLoad, PushCas, PopLoad, PopNext,
              PopCas, Returns
<1> QED
  BY <1>2, <1>3

(* Whatever the threads do, and however many they are, somebody's call     *)
(* returns whenever another one is thrown back.                            *)
THEOREM LockFreeSteps == Spec => [][Nearer]_vars
<1>1. TypeOK /\ [Next]_vars => [Nearer]_vars
  <2> SUFFICES ASSUME TypeOK PROVE Nearer
    OBVIOUS
  <2>1. \A t \in Threads : Left(t) \in 0..5
    BY DEF TypeOK, Points, Left
  <2> QED
    BY <2>1, OwnStep, OthersStep DEF Nearer
<1> QED
  BY <1>1, TypeCorrect, PTL DEF Spec
=============================================================================
