------------------------------ MODULE LllLock ------------------------------
(***************************************************************************)
(* thread/lock-impl/lock_impl.c: the three-state futex lock (0 free, 1 held, *)
(* 2 held and perhaps awaited), the critical section `sum++` and the program *)
(* around it: main creates the tasks, lets them go, joins them and compares *)
(* sum with TASK_NUM*COUNT.                                                 *)
(*                                                                          *)
(* Every access to shared memory is a step of its own; so is every futex    *)
(* system call, which the kernel executes atomically with respect to the    *)
(* lock word.  The C sources have no build file, so the plain int `go` is   *)
(* re-read by every turn of `while (!go);` as an unoptimised build does.    *)
(***************************************************************************)
EXTENDS Naturals, FiniteSets

CONSTANTS
    Tasks,              \* the TASK_NUM threads
    COUNT               \* iterations of fn's for loop

ASSUME TasksAssumption == IsFiniteSet(Tasks) /\ Tasks # {}
ASSUME CountAssumption == COUNT \in Nat

VARIABLES
    futex,              \* the lock word
    sum,                \* the counter the lock protects
    go,                 \* the start flag
    main,               \* control point of main()
    pc,                 \* control point of each task
    i,                  \* each task's loop counter
    tmp                 \* the value sum++ loaded, per task

vars == <<futex, sum, go, main, pc, i, tmp>>

MainPoints == {"create", "go", "join", "printed"}
TaskPoints == {"absent", "spin", "for", "lock", "test", "wait", "asleep",
               "xchg", "load", "store", "unlock", "wake", "exited"}

(* Between the atomic operation that takes the lock and the exchange that  *)
(* gives it up.                                                            *)
Critical == {"load", "store", "unlock"}
Holders == {t \in Tasks : pc[t] \in Critical}

At(point) == {t \in Tasks : pc[t] = point}
Goto(t, point) == pc' = [pc EXCEPT ![t] = point]

TypeOK ==
    /\ futex \in 0..2
    /\ sum \in Nat
    /\ go \in {0, 1}
    /\ main \in MainPoints
    /\ pc \in [Tasks -> TaskPoints]
    /\ i \in [Tasks -> 0..COUNT]
    /\ tmp \in [Tasks -> Nat]

(* The zero-initialised statics, main at its first loop.                   *)
Init ==
    /\ futex = 0
    /\ sum = 0
    /\ go = 0
    /\ main = "create"
    /\ pc = [t \in Tasks |-> "absent"]
    /\ i = [t \in Tasks |-> 0]
    /\ tmp = [t \in Tasks |-> 0]

-----------------------------------------------------------------------------
(* main()                                                                  *)

(* pthread_create of one more task (which one is next makes no difference: *)
(* the tasks differ only in their name).                                   *)
Create ==
    /\ main = "create"
    /\ \E t \in At("absent") : Goto(t, "spin")
    /\ main' = IF Cardinality(At("absent")) = 1 THEN "go" ELSE "create"
    /\ UNCHANGED <<futex, sum, go, i, tmp>>

SetGo ==
    /\ main = "go"
    /\ go' = 1
    /\ main' = "join"
    /\ UNCHANGED <<futex, sum, pc, i, tmp>>

(* The last pthread_join returns, and the result is printed.               *)
Join ==
    /\ main = "join"
    /\ At("exited") = Tasks
    /\ main' = "printed"
    /\ UNCHANGED <<futex, sum, go, pc, i, tmp>>

-----------------------------------------------------------------------------
(* fn(): the loop around the critical section.                             *)

(* `while (!go);` : the turn that finds go set.                            *)
Spin(t) ==
    /\ pc[t] = "spin"
    /\ go = 1
    /\ Goto(t, "for")
    /\ UNCHANGED <<futex, sum, go, main, i, tmp>>

For(t) ==
    /\ pc[t] = "for"
    /\ Goto(t, IF i[t] < COUNT THEN "lock" ELSE "exited")
    /\ UNCHANGED <<futex, sum, go, main, i, tmp>>

(* sum++ is a load and a store.                                            *)
Load(t) ==
    /\ pc[t] = "load"
    /\ tmp' = [tmp EXCEPT ![t] = sum]
    /\ Goto(t, "store")
    /\ UNCHANGED <<futex, sum, go, main, i>>

Store(t) ==
    /\ pc[t] = "store"
    /\ sum' = tmp[t] + 1
    /\ Goto(t, "unlock")
    /\ UNCHANGED <<futex, go, main, i, tmp>>

-----------------------------------------------------------------------------
(* lll_lock                                                                *)

(* The compare-and-swap of the fast path: 0 becomes 1 and the lock is held. *)
Cas_mutant_any(t) ==
    /\ pc[t] = "lock"
    /\ IF futex # 2
          THEN futex' = 1 /\ Goto(t, "load")
          ELSE UNCHANGED futex /\ Goto(t, "test")
    /\ UNCHANGED <<sum, go, main, i, tmp>>

Cas(t) ==
    /\ pc[t] = "lock"
    /\ IF futex = 0
          THEN futex' = 1 /\ Goto(t, "load")
          ELSE UNCHANGED futex /\ Goto(t, "test")
    /\ UNCHANGED <<sum, go, main, i, tmp>>

(* __lll_lock_wait_private: its first look at the lock word.               *)
Test(t) ==
    /\ pc[t] = "test"
    /\ Goto(t, IF futex = 2 THEN "wait" ELSE "xchg")
    /\ UNCHANGED <<futex, sum, go, main, i, tmp>>

(* FUTEX_WAIT(futex, 2): the kernel compares and sleeps in one step, or    *)
(* returns EAGAIN, which the code ignores.                                 *)
FutexWait_mutant_nocompare(t) ==
    /\ pc[t] = "wait"
    /\ Goto(t, "asleep")
    /\ UNCHANGED <<futex, sum, go, main, i, tmp>>

FutexWait(t) ==
    /\ pc[t] = "wait"
    /\ Goto(t, IF futex = 2 THEN "asleep" ELSE "xchg")
    /\ UNCHANGED <<futex, sum, go, main, i, tmp>>

(* FUTEX_WAIT may also return with nobody having woken the task (EINTR, a  *)
(* spurious wake-up); the code loops in the same way.                      *)
Interrupt(t) ==
    /\ pc[t] = "asleep"
    /\ Goto(t, "xchg")
    /\ UNCHANGED <<futex, sum, go, main, i, tmp>>

(* `while (atomic_exchange_acq(futex, 2) != 0)`: 0 came back, so the lock  *)
(* is held (with 2, for whoever may be asleep still), or wait again.       *)
Exchange_mutant_forget(t) ==
    /\ pc[t] = "xchg"
    /\ futex' = IF futex = 0 THEN 1 ELSE 2
    /\ Goto(t, IF futex = 0 THEN "load" ELSE "wait")
    /\ UNCHANGED <<sum, go, main, i, tmp>>

Exchange_mutant_inverted(t) ==
    /\ pc[t] = "xchg"
    /\ futex' = 2
    /\ Goto(t, IF futex # 2 THEN "load" ELSE "wait")
    /\ UNCHANGED <<sum, go, main, i, tmp>>

Exchange(t) ==
    /\ pc[t] = "xchg"
    /\ futex' = 2
    /\ Goto(t, IF futex = 0 THEN "load" ELSE "wait")
    /\ UNCHANGED <<sum, go, main, i, tmp>>

-----------------------------------------------------------------------------
(* __lll_unlock                                                            *)

(* The exchange with 0; only a lock word above 1 asks for a wake-up.  When *)
(* there is none to do, the iteration is over (i++).                       *)
Unlock(t) ==
    /\ pc[t] = "unlock"
    /\ futex' = 0
    /\ IF futex > 1
          THEN Goto(t, "wake") /\ UNCHANGED i
          ELSE Goto(t, "for") /\ i' = [i EXCEPT ![t] = @ + 1]
    /\ UNCHANGED <<sum, go, main, tmp>>

(* FUTEX_WAKE(futex, 1): one sleeper, if there is one, returns from its    *)
(* FUTEX_WAIT.                                                             *)
Wake(t) ==
    /\ pc[t] = "wake"
    /\ IF At("asleep") = {}
          THEN Goto(t, "for")
          ELSE \E s \in At("asleep") :
                  pc' = [pc EXCEPT ![t] = "for", ![s] = "xchg"]
    /\ i' = [i EXCEPT ![t] = @ + 1]
    /\ UNCHANGED <<futex, sum, go, main, tmp>>

-----------------------------------------------------------------------------
(* One instruction of a task that it takes by itself.                      *)
Step(t) ==
    \/ Spin(t) \/ For(t) \/ Cas(t) \/ Test(t) \/ FutexWait(t) \/ Exchange(t)
    \/ Load(t) \/ Store(t) \/ Unlock(t) \/ Wake(t)

MainStep == Create \/ SetGo \/ Join

(* The process has printed its verdict and ends.                           *)
Finished ==
    /\ main = "printed"
    /\ UNCHANGED vars

Next ==
    \/ MainStep
    \/ \E t \in Tasks : Step(t) \/ Interrupt(t)
    \/ Finished

(* The kernel schedules every runnable thread.  It does not have to        *)
(* interrupt a sleeping one.                                               *)
Fairness == WF_vars(MainStep) /\ \A t \in Tasks : WF_vars(Step(t))

Spec == Init /\ [][Next]_vars

FairSpec == Spec /\ Fairness

-----------------------------------------------------------------------------
(* Properties                                                              *)

(* lll_lock admits one task: between the atomic operation that takes the   *)
(* lock word and the exchange in __lll_unlock there is never a second one. *)
MutualExclusion == \A s, t \in Holders : s = t

(* The lock word tells the truth about the holder: it is 0 exactly when no *)
(* task is in the critical section, whatever the waiters have exchanged    *)
(* into it meanwhile.                                                      *)
LockWord == (futex = 0) <=> (Holders = {})

(* No wake-up is lost: while a task sleeps in FUTEX_WAIT, either the lock  *)
(* word still says 2, so that the holder's unlock will wake someone, or a  *)
(* FUTEX_WAKE is on its way, or a waiter is up and about to put 2 back.    *)
NoLostWakeup ==
    At("asleep") # {} =>
        futex = 2 \/ At("wake") # {} \/ At("xchg") # {}

(* The increments done so far: task t has done its k-th.                   *)
Completed ==
    {e \in Tasks \X (1..COUNT) :
        \/ e[2] <= i[e[1]]
        \/ e[2] = i[e[1]] + 1 /\ pc[e[1]] \in {"unlock", "wake"}}

(* No increment of the unprotected, two-step `sum++` is ever lost or done  *)
(* twice: at every moment sum counts the completed ones.                   *)
SumExact == sum = Cardinality(Completed)

(* What main compares: when it prints, sum is TASK_NUM*COUNT ("Test PASS").*)
TestPasses == main = "printed" => sum = Cardinality(Tasks) * COUNT

(* fn and lll_lock implement the abstract mutual exclusion with an atomic  *)
(* increment.                                                              *)
Abs == INSTANCE AbstractMutex WITH
    holders <- Holders,
    added <- At("unlock") # {}

RefinesAbstractMutex == Abs!Spec

(* The program terminates: however the tasks collide, sleep and wake each  *)
(* other, every call of lll_lock returns and main gets to print its        *)
(* verdict.                                                                *)
Terminates == <>(main = "printed")

(* The comment on lll_lock reads the lock word 1 as "acquired with no      *)
(* waiters".                                                               *)
OneMeansNoWaiters == futex = 1 => At("asleep") = {}
=============================================================================
