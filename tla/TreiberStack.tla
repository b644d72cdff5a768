---------------------------- MODULE TreiberStack ----------------------------
(***************************************************************************)
(* thread/atomic/test.cpp: the lock-free stack.  Any number of threads call *)
(* push and pop; each retries its compare-and-swap on top until it wins.    *)
(* pop never deletes the node, so no address is ever handed out twice.      *)
(* A node stands for the value it carries.                                  *)
(***************************************************************************)
EXTENDS Naturals, FiniteSets, Sequences

CONSTANTS
    Threads,            \* the callers
    Nodes,              \* the addresses new can return
    Null                \* nullptr

ASSUME NullAssumption == Null \notin Nodes
ASSUME NodesAssumption == IsFiniteSet(Nodes)

Pointers == Nodes \cup {Null}

VARIABLES
    top,                \* the atomic pointer
    next,               \* the field next of every node
    free,               \* the addresses new has not returned yet
    pc,                 \* control point of each thread
    newTop, oldTop,     \* the locals of push and pop
    after,              \* oldTop->next, as pop evaluated it
    got                 \* what the last pop of each thread got

vars == <<top, next, free, pc, newTop, oldTop, after, got>>

Points == {"idle", "push", "pushcas", "pop", "popnext", "popcas"}

TypeOK ==
    /\ top \in Pointers
    /\ next \in [Nodes -> Pointers]
    /\ free \subseteq Nodes
    /\ pc \in [Threads -> Points]
    /\ newTop \in [Threads -> Pointers]
    /\ oldTop \in [Threads -> Pointers]
    /\ after \in [Threads -> Pointers]
    /\ got \in [Threads -> Nodes \cup {"none", "empty"}]

Init ==
    /\ top = Null
    /\ next = [n \in Nodes |-> Null]
    /\ free = Nodes
    /\ pc = [t \in Threads |-> "idle"]
    /\ newTop = [t \in Threads |-> Null]
    /\ oldTop = [t \in Threads |-> Null]
    /\ after = [t \in Threads |-> Null]
    /\ got = [t \in Threads |-> "none"]

GoTo(t, point) == pc' = [pc EXCEPT ![t] = point]

-----------------------------------------------------------------------------
(* push: new node(val).                                                    *)
New(t) ==
    /\ pc[t] = "idle"
    /\ \E n \in free :
          /\ newTop' = [newTop EXCEPT ![t] = n]
          /\ next' = [next EXCEPT ![n] = Null]
          /\ free' = free \ {n}
    /\ GoTo(t, "push")
    /\ UNCHANGED <<top, oldTop, after, got>>

(* oldTop = top.load(); newTop->next = oldTop.                             *)
PushLoad_mutant_nolink(t) ==
    /\ pc[t] = "push"
    /\ oldTop' = [oldTop EXCEPT ![t] = top]
    /\ GoTo(t, "pushcas")
    /\ UNCHANGED <<top, next, free, newTop, after, got>>

PushLoad(t) ==
    /\ pc[t] = "push"
    /\ oldTop' = [oldTop EXCEPT ![t] = top]
    /\ next' = [next EXCEPT ![newTop[t]] = top]
    /\ GoTo(t, "pushcas")
    /\ UNCHANGED <<top, free, newTop, after, got>>

PushCas_mutant_noreload(t) ==
    /\ pc[t] = "pushcas"
    /\ \/ top = oldTop[t] /\ top' = newTop[t] /\ GoTo(t, "idle")
       \/ top # oldTop[t] /\ UNCHANGED <<top, pc>>
    /\ UNCHANGED <<next, free, newTop, oldTop, after, got>>

PushCas(t) ==
    /\ pc[t] = "pushcas"
    /\ \/ top = oldTop[t] /\ top' = newTop[t] /\ GoTo(t, "idle")
       \/ top # oldTop[t] /\ UNCHANGED top /\ GoTo(t, "push")
    /\ UNCHANGED <<next, free, newTop, oldTop, after, got>>

(* pop: oldTop = top.load(), and back with false if that is null.          *)
CallPop(t) ==
    /\ pc[t] = "idle"
    /\ GoTo(t, "pop")
    /\ UNCHANGED <<top, next, free, newTop, oldTop, after, got>>

PopLoad(t) ==
    /\ pc[t] = "pop"
    /\ oldTop' = [oldTop EXCEPT ![t] = top]
    /\ \/ top = Null /\ got' = [got EXCEPT ![t] = "empty"] /\ GoTo(t, "idle")
       \/ top # Null /\ UNCHANGED got /\ GoTo(t, "popnext")
    /\ UNCHANGED <<top, next, free, newTop, after>>

(* The second argument of the compare-and-swap.                            *)
PopNext(t) ==
    /\ pc[t] = "popnext"
    /\ after' = [after EXCEPT ![t] = next[oldTop[t]]]
    /\ GoTo(t, "popcas")
    /\ UNCHANGED <<top, next, free, newTop, oldTop, got>>

PopCas_mutant_delete(t) ==
    /\ pc[t] = "popcas"
    /\ \/ /\ top = oldTop[t] /\ top' = after[t]
          /\ got' = [got EXCEPT ![t] = oldTop[t]]
          /\ free' = free \cup {oldTop[t]}
          /\ GoTo(t, "idle")
       \/ top # oldTop[t] /\ UNCHANGED <<top, got, free>> /\ GoTo(t, "pop")
    /\ UNCHANGED <<next, newTop, oldTop, after>>

PopCas(t) ==
    /\ pc[t] = "popcas"
    /\ \/ /\ top = oldTop[t] /\ top' = after[t]
          /\ got' = [got EXCEPT ![t] = oldTop[t]]
          /\ GoTo(t, "idle")
       \/ top # oldTop[t] /\ UNCHANGED <<top, got>> /\ GoTo(t, "pop")
    /\ UNCHANGED <<next, free, newTop, oldTop, after>>

-----------------------------------------------------------------------------
(* The body of a call that was made.                                       *)
Step(t) ==
    \/ PushLoad(t) \/ PushCas(t) \/ PopLoad(t) \/ PopNext(t) \/ PopCas(t)

Next == \E t \in Threads : New(t) \/ CallPop(t) \/ Step(t)

Spec == Init /\ [][Next]_vars

(* Every thread that is in a call is run; nobody has to call.              *)
FairSpec == Spec /\ \A t \in Threads : WF_vars(Step(t))

-----------------------------------------------------------------------------
(* Properties                                                              *)

(* The k-th node from the top, counted from 0, or Null below the last.     *)
Below == LET b[k \in 0..Cardinality(Nodes)] ==
               IF k = 0 THEN top
               ELSE IF b[k - 1] = Null THEN Null ELSE next[b[k - 1]]
         IN b

Depth == Cardinality({k \in 0..Cardinality(Nodes) : Below[k] # Null})

(* The list that hangs from top.                                           *)
Chain == [i \in 1..Depth |-> Below[i - 1]]

Abstract == INSTANCE AbstractStack WITH stack <- Chain

(* Every interleaving of pushes and pops is a sequence of whole operations *)
(* on a stack: a compare-and-swap that wins is the operation, a pop finds  *)
(* it empty only when it is, nothing is lost and nothing is got twice.     *)
RefinesStack == Abstract!Spec

(* No ABA: a pop whose compare-and-swap is going to win still knows what   *)
(* comes after the node it takes off, however long ago it read it and      *)
(* whatever was popped and pushed since.                                   *)
NoABA ==
    \A t \in Threads : pc[t] = "popcas" /\ top = oldTop[t] =>
        after[t] = next[oldTop[t]]

(* A node that is not on the stack yet belongs to one push alone: no other *)
(* push has it, no thread ever saw it as the top and nothing leads to it,  *)
(* so its field next can be written without a lock.                        *)
Private(t) == IF pc[t] \in {"push", "pushcas"} THEN {newTop[t]} ELSE {}

PushOwnsNode ==
    \A t \in Threads : \A n \in Private(t) :
        /\ n # top
        /\ \A m \in Nodes : next[m] # n
        /\ \A u \in Threads : n # oldTop[u]
        /\ \A u \in Threads \ {t} : n \notin Private(u)

(* Lock-freedom: only other calls, made again and again without end, can   *)
(* keep a call from returning.                                             *)
LockFree ==
    \/ []<><<\E t \in Threads : New(t) \/ CallPop(t)>>_vars
    \/ \A t \in Threads : pc[t] # "idle" ~> pc[t] = "idle"
=============================================================================
