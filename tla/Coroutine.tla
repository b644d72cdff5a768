----------------------------- MODULE Coroutine -----------------------------
(***************************************************************************)
(* cpu/my_coroutine.c: stackful coroutines over swap_context, delay() and   *)
(* the event loop, with the timers in the heap of PQueue.                   *)
(*                                                                          *)
(* There is one processor.  Who runs is not a variable: it is whoever owns  *)
(* the instruction pointer in the processor's registers, and the only way   *)
(* it changes is what swap_context stores and loads.  A register value is   *)
(* known by its owner and its register, <<"foo", "rbx">>; everything a      *)
(* context's code computes in between is its own value again.               *)
(***************************************************************************)
EXTENDS Naturals, Sequences, FiniteSets, Functions

CONSTANTS
    Program,            \* the coroutines in the order main resumes them
    Delay,              \* what each one passes to delay(), in clock units
    Tasks,              \* the delay_task blocks malloc can hand out
    Times,              \* the expiry times there can be
    N, MaxAvail,        \* of the queue, see PQueue
    Garbage,            \* an unset slot of the queue, or an unset register
    MaxClock,           \* bound: the wall clock stops here
    MaxSetBacks         \* bound: how often the wall clock is set back

Coroutines == Range(Program)
Contexts == Coroutines \cup {"main"}
Regs == {"r12", "r13", "r14", "r15", "rip", "rsp", "rbx", "rbp"}

VARIABLES
    d, size, avail, pri, pos, op, hole, moving_node, ret,   \* the queue
    cpu,                \* the registers of the processor
    context,            \* reg[8] of sched->main_context and of each coroutine
    current,            \* sched->current
    pc,                 \* where each context stands in its own code
    resumed,            \* how many coroutines main() has resumed itself
    coroutine,          \* the coroutine field of each task
    allocated,          \* the tasks that are malloc'ed and not freed
    clock,              \* what gettimeofday returns
    setBacks,           \* how often it was set back
    lost                \* history: coroutines whose pqueue_insert failed

queueVars == <<d, size, avail, pri, pos, op, hole, moving_node, ret>>
schedVars == <<cpu, context, current, pc, resumed, coroutine, allocated, lost>>
clockVars == <<clock, setBacks>>
vars == <<queueVars, schedVars, clockVars>>

(* task->expire is the priority of the task in the queue.                  *)
PQ == INSTANCE PQueue WITH Nodes <- Tasks, Priorities <- Times

Own(x) == [r \in Regs |-> <<x, r>>]
Unset == <<Garbage, Garbage>>
Running == cpu["rip"][1]

TypeOK ==
    /\ PQ!TypeOK
    /\ cpu \in [Regs -> (Contexts \X Regs) \cup {Unset}]
    /\ context \in [Contexts -> [0..7 -> (Contexts \X Regs) \cup {Unset}]]
    /\ current \in Coroutines \cup {Garbage}
    /\ pc \in [Contexts -> {"start", "sleep", "test", "popped", "body", "yield"}]
    /\ resumed \in 0..Len(Program)
    /\ coroutine \in [Tasks -> Coroutines \cup {Garbage}]
    /\ allocated \subseteq Tasks
    /\ clock \in 0..MaxClock
    /\ setBacks \in 0..MaxSetBacks
    /\ lost \subseteq Coroutines

(* coroutine_init, then coroutine_new for each coroutine: only the entry   *)
(* point and the stack are set in a new context.                           *)
Init ==
    /\ PQ!Init
    /\ pri = [t \in Tasks |-> 0]
    /\ cpu = Own("main")
    /\ context = [x \in Contexts |->
                    [s \in 0..7 |->
                       CASE x # "main" /\ s = 4 -> <<x, "rip">>
                         [] x # "main" /\ s = 5 -> <<x, "rsp">>
                         [] OTHER -> Unset]]
    /\ current = Garbage
    /\ pc = [x \in Contexts |-> IF x = "main" THEN "start" ELSE "body"]
    /\ resumed = 0
    /\ coroutine = [t \in Tasks |-> Garbage]
    /\ allocated = {}
    /\ clock = 0
    /\ setBacks = 0
    /\ lost = {}

-----------------------------------------------------------------------------
(* swap_context                                                            *)

(* Which register each slot of from_co receives ...                        *)
Saved_mutant_rbp == <<"r12", "r13", "r14", "r15", "rip", "rsp", "rbx", "rbx">>

Saved == <<"r12", "r13", "r14", "r15", "rip", "rsp", "rbx", "rbp">>

(* ... and which slot of to_co each register is loaded from.               *)
LoadedFrom == [r12 |-> 0, r13 |-> 1, r14 |-> 2, r15 |-> 3,
               rip |-> 4, rsp |-> 5, rbx |-> 6, rbp |-> 7]

swap_context(from, to) ==
    /\ context' = [context EXCEPT ![from] = [s \in 0..7 |-> cpu[Saved[s + 1]]]]
    /\ cpu' = [r \in Regs |-> context[to][LoadedFrom[r]]]

coroutine_resume(co) ==
    /\ current' = co
    /\ swap_context("main", co)

coroutine_yield == swap_context(current, "main")

-----------------------------------------------------------------------------
(* main() and eventloop()                                                  *)

(* main resumes the next of the new coroutines.                            *)
Start ==
    /\ Running = "main" /\ pc["main"] = "start"
    /\ resumed < Len(Program)
    /\ resumed' = resumed + 1
    /\ coroutine_resume(Program[resumed + 1])
    /\ UNCHANGED <<queueVars, pc, coroutine, allocated, lost, clockVars>>

(* All of them have run once: "in main", and into the event loop.          *)
EnterLoop ==
    /\ Running = "main" /\ pc["main"] = "start"
    /\ resumed = Len(Program)
    /\ pc' = [pc EXCEPT !["main"] = "sleep"]
    /\ UNCHANGED <<queueVars, cpu, context, current, resumed, coroutine,
                   allocated, lost, clockVars>>

(* usleep(1000) returns.                                                   *)
Sleep ==
    /\ Running = "main" /\ pc["main"] = "sleep"
    /\ pc' = [pc EXCEPT !["main"] = "test"]
    /\ UNCHANGED <<queueVars, cpu, context, current, resumed, coroutine,
                   allocated, lost, clockVars>>

(* The head of the queue is due: strictly, now() > expire.                 *)
Due_mutant_any == size > 1

Due == size > 1 /\ clock > pri[d[1]]

(* One turn of the inner loop: peek, and pop if it is due.                 *)
Poll_mutant_peek ==
    /\ Running = "main" /\ pc["main"] = "test"
    /\ \/ Due /\ PQ!Peek /\ pc' = [pc EXCEPT !["main"] = "popped"]
       \/ ~Due /\ pc' = [pc EXCEPT !["main"] = "sleep"] /\ UNCHANGED queueVars
    /\ UNCHANGED <<cpu, context, current, resumed, coroutine, allocated, lost,
                   clockVars>>

Poll ==
    /\ Running = "main" /\ pc["main"] = "test"
    /\ \/ Due /\ PQ!Pop /\ pc' = [pc EXCEPT !["main"] = "popped"]
       \/ ~Due /\ pc' = [pc EXCEPT !["main"] = "sleep"] /\ UNCHANGED queueVars
    /\ UNCHANGED <<cpu, context, current, resumed, coroutine, allocated, lost,
                   clockVars>>

(* pqueue_pop has returned: free the task and resume its coroutine; the    *)
(* inner loop goes round when that yields.                                 *)
Resume ==
    /\ Running = "main" /\ pc["main"] = "popped" /\ op = "idle"
    /\ allocated' = allocated \ {ret}
    /\ coroutine_resume(coroutine[ret])
    /\ pc' = [pc EXCEPT !["main"] = "test"]
    /\ UNCHANGED <<queueVars, resumed, coroutine, lost, clockVars>>

-----------------------------------------------------------------------------
(* foo() and bar()                                                         *)

(* delay() up to pqueue_insert, whose result nobody looks at.              *)
CallDelay_mutant_stale(c) ==
    /\ Running = c /\ pc[c] = "body"
    /\ \E t \in Tasks \ allocated :
          /\ allocated' = allocated \cup {t}
          /\ coroutine' = [coroutine EXCEPT ![t] = Program[1]]
          /\ PQ!Insert(t, Delay[c] + clock)
    /\ lost' = IF ret' = "error" THEN lost \cup {c} ELSE lost
    /\ cpu' = Own(c)
    /\ pc' = [pc EXCEPT ![c] = "yield"]
    /\ UNCHANGED <<context, current, resumed, clockVars>>

CallDelay(c) ==
    /\ Running = c /\ pc[c] = "body"
    /\ \E t \in Tasks \ allocated :
          /\ allocated' = allocated \cup {t}
          /\ coroutine' = [coroutine EXCEPT ![t] = current]
          /\ PQ!Insert(t, Delay[c] + clock)
    /\ lost' = IF ret' = "error" THEN lost \cup {c} ELSE lost
    /\ cpu' = Own(c)
    /\ pc' = [pc EXCEPT ![c] = "yield"]
    /\ UNCHANGED <<context, current, resumed, clockVars>>

(* pqueue_insert has returned: yield, to come back to the while (1).       *)
Yield(c) ==
    /\ Running = c /\ pc[c] = "yield" /\ op = "idle"
    /\ coroutine_yield
    /\ pc' = [pc EXCEPT ![c] = "body"]
    /\ UNCHANGED <<queueVars, current, resumed, coroutine, allocated, lost,
                   clockVars>>

(* A turn of bubble_up or percolate_down inside the call that runs.        *)
QueueLoop ==
    /\ PQ!Loop
    /\ UNCHANGED <<schedVars, clockVars>>

Step ==
    \/ Start \/ EnterLoop \/ Sleep \/ Poll \/ Resume \/ QueueLoop
    \/ \E c \in Coroutines : CallDelay(c) \/ Yield(c)

-----------------------------------------------------------------------------
(* The wall clock: it advances, and it can be set back.                    *)

Tick ==
    /\ clock < MaxClock
    /\ clock' = clock + 1
    /\ UNCHANGED <<queueVars, schedVars, setBacks>>

SetBack ==
    /\ setBacks < MaxSetBacks
    /\ setBacks' = setBacks + 1
    /\ clock' \in 0..(clock - 1)
    /\ UNCHANGED <<queueVars, schedVars>>

Next == Step \/ Tick \/ SetBack

Spec == Init /\ [][Next]_vars

(* The program runs and time passes; nobody has to set the clock back.     *)
FairSpec == Spec /\ WF_vars(Step) /\ WF_vars(Tick)

-----------------------------------------------------------------------------
(* Properties                                                              *)

(* A context that gets the processor finds every callee-saved register as  *)
(* it was when it gave the processor away; a new coroutine at least finds  *)
(* its own entry point and its own stack.  A stale sched->current would    *)
(* save one context over another, and show here.                           *)
RegistersIntact ==
    \/ cpu = Own(Running)
    \/ /\ pc[Running] = "body"
       /\ \A r \in Regs : cpu[r] \in {<<Running, r>>, Unset}
       /\ cpu["rsp"] # Unset

Waiting(c) == {t \in PQ!Queued : coroutine[t] = c}
Count(b) == IF b THEN 1 ELSE 0

(* Every coroutine is in exactly one place: not started, running, waiting  *)
(* with one task in the queue, popped and about to be resumed, or, after a *)
(* pqueue_insert that failed, nowhere ever again.                          *)
OnePlace ==
    \A c \in Coroutines :
        Cardinality(Waiting(c))
        + Count(\A k \in 1..resumed : Program[k] # c)
        + Count(Running = c /\ pc[c] = "body")
        + Count(pc["main"] = "popped" /\ coroutine[ret] = c)
        + Count(c \in lost) = 1

(* The queue holds no freed task: nothing eventloop frees can be peeked    *)
(* at, moved or popped later.                                              *)
NoDanglingTask == PQ!Queued \subseteq allocated

(* Coroutines are resumed in the order of their expiry times, and never    *)
(* before: the task eventloop acts on had expired when it was popped, and  *)
(* none that is still queued expires earlier.                              *)
ResumedInOrder ==
    [][pc["main"] = "test" /\ pc'["main"] = "popped" =>
         /\ pri[ret'] < clock
         /\ \A t \in PQ!Queued : pri[ret'] <= pri[t]]_vars

(* A coroutine that called delay() runs again once the clock has passed    *)
(* its expiry time (here: a time within the bound on the clock), however   *)
(* often the clock is set back meanwhile and whoever else keeps delaying.  *)
DelayEnds ==
    \A c \in Coroutines :
        (\E t \in Waiting(c) : pri[t] < MaxClock) ~> Running = c
=============================================================================
