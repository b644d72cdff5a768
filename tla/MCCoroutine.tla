---------------------------- MODULE MCCoroutine ----------------------------
(***************************************************************************)
(* Coroutine for TLC and for CoroutineProofs: main's foo and bar, and a     *)
(* third coroutine.  It extends the queue that Coroutine instantiates, so   *)
(* that what is proved of PQueue can be cited for the timers.               *)
(***************************************************************************)
EXTENDS PQueue, Sequences

CONSTANTS Program, Delay, MaxClock, MaxSetBacks

VARIABLES cpu, context, current, pc, resumed, coroutine, allocated, clock, setBacks,
          lost

C == INSTANCE Coroutine WITH Tasks <- Nodes, Times <- Priorities

MCThree == <<"foo", "bar", "baz">>
MCDelay == [foo |-> 3, bar |-> 1, baz |-> 1]
MCTimes == 0..(5 + 3)

(* main creates every coroutine once and resumes it once.                  *)
ASSUME ProgramAssumption ==
    /\ Program \in Seq(C!Coroutines)
    /\ \A i, j \in DOMAIN Program : Program[i] = Program[j] => i = j
    /\ "main" \notin C!Coroutines /\ Garbage \notin C!Contexts

(* An expiry time is a clock value and a delay; a new task's is 0.         *)
ASSUME TimesAssumption ==
    /\ MaxClock \in Nat /\ 0 \in Priorities
    /\ \A c \in C!Coroutines, now \in 0..MaxClock : Delay[c] + now \in Priorities

-----------------------------------------------------------------------------
(* The specification and its properties are those of Coroutine, where they *)
(* are explained.                                                          *)
CoroutineSpec == C!FairSpec

(* Who gets the processor finds its registers as they were.                *)
RegistersIntact == C!RegistersIntact

(* Every coroutine is in exactly one place.                                *)
OnePlace == C!OnePlace

(* The queue holds no freed task.                                          *)
NoDanglingTask == C!NoDanglingTask

(* Coroutines are resumed in the order of their expiry, and not before.    *)
ResumedInOrder == C!ResumedInOrder

(* A delayed coroutine runs again.                                         *)
DelayEnds == C!DelayEnds
=============================================================================
