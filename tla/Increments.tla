----------------------------- MODULE Increments -----------------------------
(***************************************************************************)
(* Programs whose threads add to a variable and whose main prints it after  *)
(* joining them: thread/atomic/cmp_and_swap2.cpp with a compare-and-swap    *)
(* loop, thread/tls_test_01.c on thread-local variables, and                *)
(* thread/tls_test_02.c on plain global ones.                               *)
(*                                                                          *)
(* Values are counted from the initial ones.                                *)
(***************************************************************************)
EXTENDS Naturals, Sequences, FiniteSets

CONSTANTS
    Threads,            \* t1 and t2
    MainThread,
    Rounds              \* 1000000 in the source

VARIABLES
    test,               \* which of the programs runs
    at,                 \* control point of each thread
    done,               \* the additions each thread has made
    old_val,            \* what it loaded last
    mem,                \* the variables, by whose they are
    shown               \* what each thread, and main, has printed

vars == <<test, at, done, old_val, mem, shown>>

(* The additions of a thread: the variable and the amount.                 *)
increment == [i \in 1..Rounds |-> [var |-> "counter", by |-> 1]]
thread_func == <<[var |-> "g_foo", by |-> 1], [var |-> "g_bar", by |-> 2]>>
Additions == IF test = "cas" THEN increment ELSE thread_func

(* Whose variables t works on: with __thread its own.                      *)
Home(t) == IF test = "tls" THEN t ELSE MainThread

Zero == [v \in {"counter", "g_foo", "g_bar"} |-> 0]

Init ==
    /\ test \in {"cas", "tls", "global"}
    /\ at = [t \in Threads |-> "load"]
    /\ done = [t \in Threads |-> 0]
    /\ old_val = [t \in Threads |-> 0]
    /\ mem = [t \in Threads \cup {MainThread} |-> Zero]
    /\ shown = [t \in {} |-> Zero]

Now(t) == Additions[done[t] + 1]

Load(t) ==
    /\ at[t] = "load" /\ done[t] < Len(Additions)
    /\ old_val' = [old_val EXCEPT ![t] = mem[Home(t)][Now(t).var]]
    /\ at' = [at EXCEPT ![t] = "store"]
    /\ UNCHANGED <<test, done, mem, shown>>

Add(t) ==
    /\ mem' = [mem EXCEPT ![Home(t)][Now(t).var] = old_val[t] + Now(t).by]
    /\ done' = [done EXCEPT ![t] = @ + 1]

(* compare_and_swap, or the store of +=.                                   *)
Store_mutant_nocompare(t) ==
    /\ at[t] = "store"
    /\ Add(t)
    /\ at' = [at EXCEPT ![t] = "load"]
    /\ UNCHANGED <<test, old_val, shown>>

Store(t) ==
    /\ at[t] = "store"
    /\ IF test = "cas" /\ mem[Home(t)][Now(t).var] # old_val[t]
          THEN UNCHANGED <<mem, done>>
          ELSE Add(t)
    /\ at' = [at EXCEPT ![t] = "load"]
    /\ UNCHANGED <<test, old_val, shown>>

Show(t, whose) ==
    shown' = [u \in DOMAIN shown \cup {t} |-> IF u = t THEN mem[whose] ELSE shown[u]]

(* The thread prints what it finds, except in cmp_and_swap2, and ends.     *)
End(t) ==
    /\ at[t] = "load" /\ done[t] = Len(Additions)
    /\ IF test = "cas" THEN UNCHANGED shown ELSE Show(t, Home(t))
    /\ at' = [at EXCEPT ![t] = "ended"]
    /\ UNCHANGED <<test, done, old_val, mem>>

(* main has joined the threads and prints.                                 *)
Join ==
    /\ \A t \in Threads : at[t] = "ended"
    /\ MainThread \notin DOMAIN shown
    /\ Show(MainThread, MainThread)
    /\ UNCHANGED <<test, at, done, old_val, mem>>

Next == Join \/ \E t \in Threads : Load(t) \/ Store(t) \/ End(t)

-----------------------------------------------------------------------------
(* What is printed, however the threads interleave: with compare-and-swap  *)
(* main gets every increment; with __thread every thread gets its own      *)
(* additions and main none; with plain variables additions may be lost,    *)
(* but never all of them, and none is made twice.                          *)
TotalsRight ==
    \A t \in DOMAIN shown :
        CASE test = "cas" -> shown[t].counter = Cardinality(Threads) * Rounds
          [] test = "tls" -> /\ shown[t].g_foo = (IF t = MainThread THEN 0 ELSE 1)
                             /\ shown[t].g_bar = (IF t = MainThread THEN 0 ELSE 2)
          [] test = "global" -> /\ shown[t].g_foo \in 1..Cardinality(Threads)
                                /\ shown[t].g_bar \in 2..(2 * Cardinality(Threads))
=============================================================================
