--------------------------- MODULE LllLockProofs ---------------------------
(***************************************************************************)
(* Proofs about LllLock, for every finite set of tasks and every COUNT.     *)
(***************************************************************************)
EXTENDS LllLock, FiniteSetTheorems, TLAPS

-----------------------------------------------------------------------------
(* The inductive invariant.                                                *)

(* Between the test of the for loop and its i++ there is an iteration left *)
(* to finish, and a task exits only after its last one.                    *)
LoopInv ==
    \A t \in Tasks :
        /\ pc[t] \in TaskPoints \ {"absent", "spin", "for", "exited"}
              => i[t] < COUNT
        /\ pc[t] = "exited" => i[t] = COUNT

(* main prints only after every task has exited.                           *)
JoinInv == main = "printed" => \A t \in Tasks : pc[t] = "exited"

(* What sum++ loaded is still the value of sum when it stores.             *)
LoadedInv == \A t \in Tasks : pc[t] = "store" => tmp[t] = sum

ControlInv == TypeOK /\ LoopInv /\ JoinInv
LockInv == MutualExclusion /\ LockWord /\ LoadedInv

-----------------------------------------------------------------------------
LEMMA InitControl == Init => ControlInv
  BY CountAssumption DEF Init, ControlInv, TypeOK, LoopInv, JoinInv,
     MainPoints, TaskPoints

LEMMA StepControl ==
  ASSUME ControlInv, NEW t \in Tasks, Step(t) \/ Interrupt(t)
  PROVE  ControlInv'
<1> USE CountAssumption DEF ControlInv, TypeOK, LoopInv, JoinInv, MainPoints,
        TaskPoints, Goto
<1>1. CASE Spin(t)
  BY <1>1 DEF Spin
<1>2. CASE For(t)
  BY <1>2 DEF For
<1>3. CASE Cas(t)
  BY <1>3 DEF Cas
<1>4. CASE Test(t)
  BY <1>4 DEF Test
<1>5. CASE FutexWait(t)
  BY <1>5 DEF FutexWait
<1>6. CASE Interrupt(t)
  BY <1>6 DEF Interrupt
<1>7. CASE Exchange(t)
  BY <1>7 DEF Exchange
<1>8. CASE Load(t)
  BY <1>8 DEF Load
<1>9. CASE Store(t)
  BY <1>9 DEF Store
<1>10. CASE Unlock(t)
  BY <1>10 DEF Unlock
<1>11. CASE Wake(t)
  BY <1>11 DEF Wake, At
<1>12. QED
  BY <1>1, <1>2, <1>3, <1>4, <1>5, <1>6, <1>7, <1>8, <1>9, <1>10, <1>11
  DEF Step

LEMMA NextControl == ControlInv /\ [Next]_vars => ControlInv'
<1> SUFFICES ASSUME ControlInv, [Next]_vars PROVE ControlInv'
  OBVIOUS
<1> USE DEF ControlInv, TypeOK, LoopInv, JoinInv, MainPoints, TaskPoints
<1>1. CASE Create
  BY <1>1 DEF Create, At, Goto
<1>2. CASE SetGo
  BY <1>2 DEF SetGo
<1>3. CASE Join
  BY <1>3 DEF Join, At
<1>4. CASE \E t \in Tasks : Step(t) \/ Interrupt(t)
  BY <1>4, StepControl
<1>5. CASE UNCHANGED vars
  BY <1>5 DEF vars
<1>6. QED
  BY <1>1, <1>2, <1>3, <1>4, <1>5 DEF Next, MainStep, Finished

(* Every variable keeps its type: the lock word stays within 0..2 and no   *)
(* task's loop counter exceeds COUNT.                                      *)
THEOREM TypeCorrect == Spec => []TypeOK
<1>1. Spec => []ControlInv
  BY InitControl, NextControl, PTL DEF Spec
<1>2. ControlInv => TypeOK
  BY DEF ControlInv
<1>3. QED
  BY <1>1, <1>2, PTL

-----------------------------------------------------------------------------
(* Mutual exclusion.  LockWord is what makes it inductive: the two atomic  *)
(* operations that enter the critical section succeed only on a 0, and a   *)
(* waiter that exchanges 2 over a 1 or a 2 does not make a held lock free. *)

LEMMA InitLock == Init => LockInv
  BY DEF Init, LockInv, MutualExclusion, LockWord, LoadedInv, Holders, Critical

LEMMA StepLock ==
  ASSUME ControlInv, LockInv, NEW t \in Tasks, Step(t) \/ Interrupt(t)
  PROVE  LockInv'
<1> USE DEF ControlInv, TypeOK, LockInv, MutualExclusion, LockWord, LoadedInv,
        Holders, Critical, Goto
<1>1. CASE Spin(t)
  BY <1>1 DEF Spin
<1>2. CASE For(t)
  BY <1>2 DEF For
<1>3. CASE Cas(t)
  BY <1>3 DEF Cas
<1>4. CASE Test(t)
  BY <1>4 DEF Test
<1>5. CASE FutexWait(t)
  BY <1>5 DEF FutexWait
<1>6. CASE Interrupt(t)
  BY <1>6 DEF Interrupt
<1>7. CASE Exchange(t)
  BY <1>7 DEF Exchange
<1>8. CASE Load(t)
  BY <1>8 DEF Load
<1>9. CASE Store(t)
  BY <1>9 DEF Store
<1>10. CASE Unlock(t)
  BY <1>10 DEF Unlock
<1>11. CASE Wake(t)
  BY <1>11 DEF Wake, At
<1>12. QED
  BY <1>1, <1>2, <1>3, <1>4, <1>5, <1>6, <1>7, <1>8, <1>9, <1>10, <1>11
  DEF Step

LEMMA NextLock == ControlInv /\ LockInv /\ [Next]_vars => LockInv'
<1> SUFFICES ASSUME ControlInv, LockInv, [Next]_vars PROVE LockInv'
  OBVIOUS
<1> USE DEF ControlInv, TypeOK, LockInv, MutualExclusion, LockWord, LoadedInv,
        Holders, Critical
<1>1. CASE Create
  BY <1>1 DEF Create, At, Goto
<1>2. CASE SetGo
  BY <1>2 DEF SetGo
<1>3. CASE Join
  BY <1>3 DEF Join
<1>4. CASE \E t \in Tasks : Step(t) \/ Interrupt(t)
  BY <1>4, StepLock
<1>5. CASE UNCHANGED vars
  BY <1>5 DEF vars
<1>6. QED
  BY <1>1, <1>2, <1>3, <1>4, <1>5 DEF Next, MainStep, Finished

LEMMA LockInvariant == Spec => [](ControlInv /\ LockInv)
<1>1. Init => ControlInv /\ LockInv
  BY InitControl, InitLock
<1>2. ControlInv /\ LockInv /\ [Next]_vars => (ControlInv /\ LockInv)'
  BY NextControl, NextLock
<1>3. QED
  BY <1>1, <1>2, PTL DEF Spec

(* lll_lock never lets a second task between its return and lll_unlock,    *)
(* for any number of tasks.                                                *)
THEOREM MutualExclusionHolds == Spec => []MutualExclusion
<1>1. LockInv => MutualExclusion
  BY DEF LockInv
<1>2. QED
  BY <1>1, LockInvariant, PTL

(* The lock word is 0 exactly when nobody is in the critical section.      *)
THEOREM LockWordHolds == Spec => []LockWord
<1>1. LockInv => LockWord
  BY DEF LockInv
<1>2. QED
  BY <1>1, LockInvariant, PTL

-----------------------------------------------------------------------------
(* Wake-ups.                                                               *)

LEMMA StepWakeup ==
  ASSUME ControlInv, NoLostWakeup, NEW t \in Tasks, Step(t) \/ Interrupt(t)
  PROVE  NoLostWakeup'
<1> USE DEF ControlInv, TypeOK, NoLostWakeup, At, Goto
<1>1. CASE Spin(t)
  BY <1>1 DEF Spin
<1>2. CASE For(t)
  BY <1>2 DEF For
<1>3. CASE Cas(t)
  BY <1>3 DEF Cas
<1>4. CASE Test(t)
  BY <1>4 DEF Test
<1>5. CASE FutexWait(t)
  BY <1>5 DEF FutexWait
<1>6. CASE Interrupt(t)
  BY <1>6 DEF Interrupt
<1>7. CASE Exchange(t)
  BY <1>7 DEF Exchange
<1>8. CASE Load(t)
  BY <1>8 DEF Load
<1>9. CASE Store(t)
  BY <1>9 DEF Store
<1>10. CASE Unlock(t)
  BY <1>10 DEF Unlock
<1>11. CASE Wake(t)
  BY <1>11 DEF Wake
<1>12. QED
  BY <1>1, <1>2, <1>3, <1>4, <1>5, <1>6, <1>7, <1>8, <1>9, <1>10, <1>11
  DEF Step

LEMMA NextWakeup == ControlInv /\ NoLostWakeup /\ [Next]_vars => NoLostWakeup'
<1> SUFFICES ASSUME ControlInv, NoLostWakeup, [Next]_vars PROVE NoLostWakeup'
  OBVIOUS
<1> USE DEF ControlInv, TypeOK, NoLostWakeup, At
<1>1. CASE Create
  BY <1>1 DEF Create, Goto
<1>2. CASE SetGo
  BY <1>2 DEF SetGo
<1>3. CASE Join
  BY <1>3 DEF Join
<1>4. CASE \E t \in Tasks : Step(t) \/ Interrupt(t)
  BY <1>4, StepWakeup
<1>5. CASE UNCHANGED vars
  BY <1>5 DEF vars
<1>6. QED
  BY <1>1, <1>2, <1>3, <1>4, <1>5 DEF Next, MainStep, Finished

(* No sleeper is forgotten by __lll_unlock: whenever a task sleeps, the    *)
(* lock word says so, or a wake-up or a waiter that restores it is coming. *)
THEOREM NoLostWakeupHolds == Spec => []NoLostWakeup
<1>1. Init => ControlInv /\ NoLostWakeup
  BY InitControl DEF Init, NoLostWakeup, At
<1>2. ControlInv /\ NoLostWakeup /\ [Next]_vars
        => (ControlInv /\ NoLostWakeup)'
  BY NextControl, NextWakeup
<1>3. QED
  BY <1>1, <1>2, PTL DEF Spec

-----------------------------------------------------------------------------
(* The counter.  Of all the steps only the store completes an increment,   *)
(* and it completes one that was not completed before.                     *)

LEMMA CompletedFinite == IsFiniteSet(Completed)
<1>1. IsFiniteSet(1..COUNT)
  BY FS_Interval, CountAssumption
<1>2. IsFiniteSet(Tasks \X (1..COUNT))
  BY <1>1, FS_Product, TasksAssumption
<1>3. QED
  BY <1>2, FS_Subset DEF Completed

LEMMA StepCompleted ==
  ASSUME ControlInv, NEW t \in Tasks, Step(t) \/ Interrupt(t)
  PROVE  \/ /\ Store(t)
            /\ <<t, i[t] + 1>> \notin Completed
            /\ Completed' = Completed \cup {<<t, i[t] + 1>>}
         \/ Completed' = Completed /\ sum' = sum
<1> USE CountAssumption DEF ControlInv, TypeOK, LoopInv, Completed, Goto,
        TaskPoints
<1>1. CASE Spin(t)
  BY <1>1 DEF Spin
<1>2. CASE For(t)
  BY <1>2 DEF For
<1>3. CASE Cas(t)
  BY <1>3 DEF Cas
<1>4. CASE Test(t)
  BY <1>4 DEF Test
<1>5. CASE FutexWait(t)
  BY <1>5 DEF FutexWait
<1>6. CASE Interrupt(t)
  BY <1>6 DEF Interrupt
<1>7. CASE Exchange(t)
  BY <1>7 DEF Exchange
<1>8. CASE Load(t)
  BY <1>8 DEF Load
<1>9. CASE Store(t)
  BY <1>9 DEF Store
<1>10. CASE Unlock(t)
  BY <1>10 DEF Unlock
<1>11. CASE Wake(t)
  BY <1>11 DEF Wake, At
<1>12. QED
  BY <1>1, <1>2, <1>3, <1>4, <1>5, <1>6, <1>7, <1>8, <1>9, <1>10, <1>11
  DEF Step

LEMMA NextSum ==
  ControlInv /\ LockInv /\ SumExact /\ [Next]_vars => SumExact'
<1> SUFFICES ASSUME ControlInv, LockInv, SumExact, [Next]_vars
             PROVE  SumExact'
  OBVIOUS
<1> USE DEF SumExact
<1>1. ASSUME NEW t \in Tasks, Step(t) \/ Interrupt(t)
      PROVE  SumExact'
  <2>1. CASE /\ Store(t)
             /\ <<t, i[t] + 1>> \notin Completed
             /\ Completed' = Completed \cup {<<t, i[t] + 1>>}
    <3>1. Cardinality(Completed') = Cardinality(Completed) + 1
      BY <2>1, CompletedFinite, FS_AddElement
    <3>2. sum' = sum + 1
      BY <2>1 DEF Store, LockInv, LoadedInv
    <3>3. QED
      BY <3>1, <3>2
  <2>2. CASE Completed' = Completed /\ sum' = sum
    BY <2>2
  <2>3. QED
    BY <1>1, <2>1, <2>2, StepCompleted
<1>2. CASE Create
  BY <1>2 DEF Create, Completed, At, Goto, ControlInv, TypeOK
<1>3. CASE SetGo
  BY <1>3 DEF SetGo, Completed
<1>4. CASE Join
  BY <1>4 DEF Join, Completed
<1>5. CASE UNCHANGED vars
  BY <1>5 DEF vars, Completed
<1>6. QED
  BY <1>1, <1>2, <1>3, <1>4, <1>5 DEF Next, MainStep, Finished

(* At every moment sum is the number of increments the tasks completed:    *)
(* none of the two-step sum++ is lost.                                     *)
THEOREM SumExactHolds == Spec => []SumExact
<1>1. Init => SumExact
  <2> SUFFICES ASSUME Init PROVE SumExact
    OBVIOUS
  <2>1. Completed = {}
    BY CountAssumption DEF Init, Completed
  <2>2. QED
    BY <2>1, FS_EmptySet DEF Init, SumExact
<1>2. QED
  BY <1>1, NextSum, LockInvariant, PTL DEF Spec

(* The verdict main prints is PASS, for any TASK_NUM and any COUNT.        *)
THEOREM TestPassesHolds == Spec => []TestPasses
<1>1. ControlInv /\ SumExact => TestPasses
  <2> SUFFICES ASSUME ControlInv, SumExact, main = "printed"
               PROVE  sum = Cardinality(Tasks) * COUNT
    BY DEF TestPasses
  <2>1. Completed = Tasks \X (1..COUNT)
    BY CountAssumption DEF Completed, ControlInv, JoinInv, LoopInv
  <2>2. IsFiniteSet(1..COUNT) /\ Cardinality(1..COUNT) = COUNT
    BY FS_Interval, CountAssumption
  <2>3. QED
    BY <2>1, <2>2, FS_Product, TasksAssumption DEF SumExact
<1>2. QED
  BY <1>1, LockInvariant, SumExactHolds, PTL

-----------------------------------------------------------------------------
(* Refinement: taking the lock word is Acquire, the store is Add, the      *)
(* exchange with 0 is Release; every other step stutters.                  *)

LEMMA StepRefines ==
  ASSUME ControlInv, LockInv, LockInv', NEW t \in Tasks, Step(t) \/ Interrupt(t)
  PROVE  [Abs!Next]_(Abs!vars)
<1> USE DEF ControlInv, TypeOK, Goto, At, Holders, Critical, LockInv,
        MutualExclusion, LockWord, LoadedInv, Abs!vars
<1>1. CASE Spin(t)
  BY <1>1 DEF Spin
<1>2. CASE For(t)
  BY <1>2 DEF For
<1>3. CASE Cas(t)
  <2>1. CASE futex = 0
    BY <1>3, <2>1 DEF Cas, Abs!Next, Abs!Acquire
  <2>2. CASE futex # 0
    BY <1>3, <2>2 DEF Cas
  <2>3. QED
    BY <2>1, <2>2
<1>4. CASE Test(t)
  BY <1>4 DEF Test
<1>5. CASE FutexWait(t)
  BY <1>5 DEF FutexWait
<1>6. CASE Interrupt(t)
  BY <1>6 DEF Interrupt
<1>7. CASE Exchange(t)
  <2>1. CASE futex = 0
    BY <1>7, <2>1 DEF Exchange, Abs!Next, Abs!Acquire
  <2>2. CASE futex # 0
    BY <1>7, <2>2 DEF Exchange
  <2>3. QED
    BY <2>1, <2>2
<1>8. CASE Load(t)
  BY <1>8 DEF Load
<1>9. CASE Store(t)
  BY <1>9 DEF Store, Abs!Next, Abs!Add
<1>10. CASE Unlock(t)
  BY <1>10 DEF Unlock, Abs!Next, Abs!Release
<1>11. CASE Wake(t)
  BY <1>11 DEF Wake
<1>12. QED
  BY <1>1, <1>2, <1>3, <1>4, <1>5, <1>6, <1>7, <1>8, <1>9, <1>10, <1>11
  DEF Step

(* The futex lock implements the abstract one: each acquisition is         *)
(* exclusive, performs exactly one increment, and then releases.           *)
THEOREM Refinement == Spec => RefinesAbstractMutex
<1>1. Init => Abs!Init
  BY DEF Init, Abs!Init, Holders, Critical, At
<1>2. ControlInv /\ LockInv /\ (ControlInv /\ LockInv)' /\ [Next]_vars
        => [Abs!Next]_(Abs!vars)
  <2> SUFFICES ASSUME ControlInv, LockInv, LockInv', [Next]_vars
               PROVE  [Abs!Next]_(Abs!vars)
    OBVIOUS
  <2> USE DEF Abs!vars, Holders, Critical, At
  <2>same. CASE UNCHANGED vars
    BY <2>same DEF vars
  <2>task. CASE \E t \in Tasks : Step(t) \/ Interrupt(t)
    BY <2>task, StepRefines
  <2>create. CASE Create
    BY <2>create DEF Create, Goto, ControlInv, TypeOK
  <2>go. CASE SetGo
    BY <2>go DEF SetGo
  <2>join. CASE Join
    BY <2>join DEF Join
  <2> QED
    BY <2>same, <2>task, <2>create, <2>go, <2>join DEF Next, MainStep, Finished
<1>3. QED
  BY <1>1, <1>2, LockInvariant, PTL DEF Spec, RefinesAbstractMutex, Abs!Spec

-----------------------------------------------------------------------------
(* main creates until every task is there, and whoever may be in the loop  *)
(* has been let go.                                                        *)
StartInv ==
    /\ main = "create" <=> At("absent") # {}
    /\ main \in {"join", "printed"} => go = 1

(* A task that takes its next step by itself: it does not sleep, and it    *)
(* does not spin on the start flag in vain.                                *)
Runnable(t) ==
    /\ pc[t] \notin {"absent", "asleep", "exited"}
    /\ pc[t] = "spin" => go = 1

MainRunnable ==
    \/ main = "create" /\ At("absent") # {}
    \/ main = "go"
    \/ main = "join" /\ At("exited") = Tasks

(* Deadlock-freedom: until the verdict is printed main or some task can    *)
(* take a step, without the kernel interrupting anybody's sleep.           *)
NobodyStuck == main # "printed" => MainRunnable \/ \E t \in Tasks : Runnable(t)

LEMMA CreateStart == ASSUME ControlInv, StartInv, Create PROVE StartInv'
<1>1. PICK t \in At("absent") : Goto(t, "spin")
  BY DEF Create
<1>2. At("absent")' = At("absent") \ {t}
  BY <1>1 DEF At, Goto, ControlInv, TypeOK
<1>3. IsFiniteSet(At("absent"))
  <2>1. At("absent") \subseteq Tasks
    BY DEF At
  <2> QED
    BY <2>1, TasksAssumption, FS_Subset
<1>4. Cardinality(At("absent")) = 1 <=> \E x : At("absent") = {x}
  BY <1>3, FS_Singleton
<1>5. CASE At("absent") = {t}
  <2>1. main' = "go" /\ At("absent")' = {}
    BY <1>2, <1>4, <1>5 DEF Create
  <2> QED
    BY <2>1 DEF StartInv, Create
<1>6. CASE At("absent") # {t}
  <2>1. Cardinality(At("absent")) # 1
    BY <1>1, <1>4, <1>6
  <2>2. main' = "create" /\ At("absent")' # {}
    BY <1>1, <1>2, <1>6, <2>1 DEF Create
  <2> QED
    BY <2>2 DEF StartInv, Create
<1> QED
  BY <1>5, <1>6

(* The tasks neither come into being nor disappear by their own steps.     *)
LEMMA StepStart ==
  ASSUME ControlInv, StartInv, NEW t \in Tasks, Step(t) \/ Interrupt(t)
  PROVE  StartInv'
<1>1. main' = main /\ go' = go
  BY DEF Step, Interrupt, Spin, For, Cas, Test, FutexWait, Exchange, Load, Store,
         Unlock, Wake
<1>2. At("absent")' = At("absent")
  <2> USE DEF ControlInv, TypeOK, At, Goto
  <2>1. CASE Wake(t)
    <3>1. CASE At("asleep") = {}
      BY <2>1, <3>1 DEF Wake
    <3>2. CASE At("asleep") # {}
      <4>1. PICK s \in At("asleep") : pc' = [pc EXCEPT ![t] = "for", ![s] = "xchg"]
        BY <2>1, <3>2 DEF Wake
      <4> QED
        BY <2>1, <4>1 DEF Wake
    <3> QED
      BY <3>1, <3>2
  <2>2. CASE Unlock(t)
    BY <2>2 DEF Unlock
  <2>3. CASE Cas(t)
    BY <2>3 DEF Cas
  <2>4. CASE Spin(t) \/ For(t) \/ Test(t) \/ FutexWait(t) \/ Exchange(t)
             \/ Load(t) \/ Store(t) \/ Interrupt(t)
    BY <2>4 DEF Interrupt, Spin, For, Test, FutexWait, Exchange, Load, Store
  <2> QED
    BY <2>1, <2>2, <2>3, <2>4 DEF Step
<1> QED
  BY <1>1, <1>2 DEF StartInv

LEMMA NextStart == ControlInv /\ StartInv /\ [Next]_vars => StartInv'
<1> SUFFICES ASSUME ControlInv, StartInv, [Next]_vars PROVE StartInv'
  OBVIOUS
<1>1. CASE UNCHANGED vars
  BY <1>1 DEF vars, StartInv, At
<1>2. CASE SetGo
  BY <1>2 DEF SetGo, StartInv, At
<1>3. CASE Join
  BY <1>3 DEF Join, StartInv, At
<1> QED
  BY <1>1, <1>2, <1>3, CreateStart, StepStart DEF Next, MainStep, Finished

(* Who sleeps waits for somebody who does not: behind a lock word of 2     *)
(* stands a holder, and the others NoLostWakeup names are awake.           *)
LEMMA SomebodyMoves ==
  ASSUME ControlInv, LockInv, NoLostWakeup, StartInv
  PROVE  NobodyStuck
<1> SUFFICES ASSUME main = "join", At("exited") # Tasks
             PROVE  \E t \in Tasks : Runnable(t)
  BY DEF NobodyStuck, MainRunnable, StartInv, ControlInv, TypeOK, MainPoints
<1>1. PICK t \in Tasks : pc[t] # "exited"
  BY DEF At
<1>2. go = 1 /\ pc[t] # "absent"
  BY DEF StartInv, At
<1>3. CASE pc[t] = "asleep"
  <2>1. CASE futex = 2
    <3>1. PICK h \in Tasks : pc[h] \in Critical
      BY <2>1 DEF LockInv, LockWord, Holders
    <3> QED
      BY <3>1 DEF Runnable, Critical
  <2>2. CASE At("wake") # {} \/ At("xchg") # {}
    BY <2>2 DEF At, Runnable
  <2> QED
    BY <1>3, <2>1, <2>2 DEF NoLostWakeup, At
<1>4. CASE pc[t] # "asleep"
  BY <1>1, <1>2, <1>4 DEF Runnable
<1> QED
  BY <1>3, <1>4

(* However many tasks there are, and however they collide in the lock, the *)
(* program never comes to a point where everybody waits.                   *)
THEOREM NobodyStuckHolds == Spec => []NobodyStuck
<1>1. Init => StartInv
  BY TasksAssumption DEF Init, StartInv, At
<1>2. Spec => []StartInv
  <2>1. Spec => []ControlInv
    BY InitControl, NextControl, PTL DEF Spec
  <2> QED
    BY <1>1, <2>1, NextStart, PTL DEF Spec
<1> QED
  BY <1>2, LockInvariant, NoLostWakeupHolds, SomebodyMoves, PTL
=============================================================================
