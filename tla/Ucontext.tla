------------------------------ MODULE Ucontext ------------------------------
(***************************************************************************)
(* cpu/ucontext_test_2.c, _3.c and _4.c: one thread that goes from context  *)
(* to context with setcontext, swapcontext and uc_link.                     *)
(*                                                                          *)
(* A function is the sequence of its calls; a context is a function, the    *)
(* call it is at and the context it goes on with when it returns.           *)
(***************************************************************************)
EXTENDS Naturals, Sequences, SequencesExt

NULL == 3               \* not an index of ctx

make(i, f, link) == [op |-> "makecontext", i |-> i, fn |-> f, link |-> link]
printf == [op |-> "printf"]
set(i) == [op |-> "setcontext", i |-> i]
swap(save, i) == [op |-> "swapcontext", save |-> save, i |-> i]

VARIABLES
    example,            \* which of the programs runs
    run,                \* the context that runs
    ctx,                \* the ucontext_t variables
    said,               \* the printf calls made so far: function and place
    ended               \* the process has ended

vars == <<example, run, ctx, said, ended>>

Code2 ==
    [main |-> <<make(1, "foo", NULL), printf, set(1)>>,
     foo |-> <<printf>>]

Code3 ==
    [main |-> <<make(1, "foo", NULL), make(2, "bar", 1), printf, set(2)>>,
     foo |-> <<printf>>,
     bar |-> <<printf>>]

Code4_mutant_link ==
    [main |-> <<make(1, "foo", 0), make(2, "bar", 0), swap(0, 2), printf>>,
     foo |-> <<printf, swap(1, 2), printf>>,
     bar |-> <<printf, swap(2, 1), printf>>]

Code4 ==
    [main |-> <<make(1, "foo", 0), make(2, "bar", 1), swap(0, 2), printf>>,
     foo |-> <<printf, swap(1, 2), printf>>,
     bar |-> <<printf, swap(2, 1), printf>>]

Code == CASE example = 2 -> Code2 [] example = 3 -> Code3 [] example = 4 -> Code4

Start == [fn |-> "main", at |-> 1, link |-> NULL]

Init ==
    /\ example \in 2..4
    /\ run = Start
    /\ ctx = [i \in 0..2 |-> Start]
    /\ said = <<>>
    /\ ended = FALSE

Returns == run.at > Len(Code[run.fn])
call == Code[run.fn][run.at]
Calls(op) == ~ended /\ ~Returns /\ call.op = op
Onward == [run EXCEPT !.at = @ + 1]

makecontext ==
    /\ Calls("makecontext")
    /\ ctx' = [ctx EXCEPT ![call.i] = [fn |-> call.fn, at |-> 1, link |-> call.link]]
    /\ run' = Onward
    /\ UNCHANGED <<example, said, ended>>

Printf ==
    /\ Calls("printf")
    /\ said' = Append(said, <<run.fn, run.at>>)
    /\ run' = Onward
    /\ UNCHANGED <<example, ctx, ended>>

setcontext ==
    /\ Calls("setcontext")
    /\ run' = ctx[call.i]
    /\ UNCHANGED <<example, ctx, said, ended>>

swapcontext ==
    /\ Calls("swapcontext")
    /\ ctx' = [ctx EXCEPT ![call.save] = Onward]
    /\ run' = ctx[call.i]
    /\ UNCHANGED <<example, said, ended>>

(* main returns, or a function with no uc_link: the process ends.          *)
(* Otherwise uc_link goes on, with what is in that variable by now.        *)
Return ==
    /\ ~ended /\ Returns
    /\ IF run.link = NULL THEN ended' = TRUE /\ UNCHANGED run
                          ELSE run' = ctx[run.link] /\ UNCHANGED ended
    /\ UNCHANGED <<example, ctx, said>>

Next == makecontext \/ Printf \/ setcontext \/ swapcontext \/ Return

-----------------------------------------------------------------------------
(* No context is ever resumed at a place it has left: nothing is printed   *)
(* twice, and when the process ends every function has printed all it      *)
(* would, whichever variables its context went through.                    *)
OnceEach ==
    /\ IsInjective(said)
    /\ ended => ToSet(said) =
          {w \in (DOMAIN Code) \X (1..4) :
              w[2] \in DOMAIN Code[w[1]] /\ Code[w[1]][w[2]].op = "printf"}
=============================================================================
