------------------------------ MODULE MiniGdb ------------------------------
(***************************************************************************)
(* basic/mini-gdb: a ptrace debugger with software breakpoints and the      *)
(* process it traces.  A breakpoint is an int3 patched over an instruction; *)
(* to get past it the debugger restores the instruction, single-steps and   *)
(* patches it again.                                                        *)
(*                                                                          *)
(* Memory is a byte per instruction: the program's own ("insn") or the      *)
(* trap ("int3").  The tracee executes, or is stopped by a signal, while    *)
(* the debugger sits in waitpid; the debugger acts while the tracee is      *)
(* stopped.  What addr2line knows of an address is the constant Line.       *)
(***************************************************************************)
EXTENDS Naturals, FiniteSets, Functions

CONSTANTS
    Last,               \* the instructions are at the addresses 1..Last
    Succ,               \* the successors of each: addresses or 0 for exit
    Line,               \* the source line of each address, 0 if unknown
    MaxSignals          \* bound: how many signals reach the tracee

Addrs == 1..Last

ASSUME ProgramAssumption ==
    /\ Last \in Nat \ {0}
    /\ Succ \in [Addrs -> SUBSET (0..Last)]
    /\ Line \in [Addrs -> Nat]
ASSUME SignalsAssumption == MaxSignals \in Nat

VARIABLES
    mem,                \* the byte at each address
    rip,                \* the tracee's instruction pointer; 0 after its exit
    tracee,             \* "stopped", "stepping", "running", "exited", "killed"
    why,                \* why it stopped, until the debugger has looked
    break_points,       \* address |-> saved_data
    phase,              \* where the debugger is
    cmd,                \* the command it executes
    stepped,            \* the address step_over_breakpoint is stepping over
    old_line,           \* step_in's old_loc
    signals,            \* how many signals came
    moved, disturbed,   \* history: since the command began, the tracee has
                        \* executed an instruction, received a signal
    twice               \* history: a breakpoint was set that was set

vars == <<mem, rip, tracee, why, break_points, phase, cmd, stepped, old_line,
          signals, moved, disturbed, twice>>

Set == DOMAIN break_points
Alive == tracee \in {"stopped", "stepping", "running"}

TypeOK ==
    /\ mem \in [Addrs -> {"insn", "int3"}]
    /\ rip \in 0..(Last + 1)
    /\ tracee \in {"stopped", "stepping", "running", "exited", "killed"}
    /\ why \in {"none", "trace", "breakpoint", "signal"}
    /\ Set \subseteq Addrs
    /\ break_points \in [Set -> {"insn", "int3"}]
    /\ phase \in {"prompt", "over", "single", "cont", "gone"}
    /\ cmd \in {"none", "c", "si", "step"}
    /\ stepped \in 0..Last
    /\ old_line \in Range(Line) \cup {0}
    /\ signals \in 0..MaxSignals
    /\ moved \in BOOLEAN /\ disturbed \in BOOLEAN /\ twice \in BOOLEAN

(* After run() has waited for the stop at execv.                           *)
Init ==
    /\ mem = [a \in Addrs |-> "insn"]
    /\ rip = 1
    /\ tracee = "stopped"
    /\ why = "none"
    /\ break_points = <<>>
    /\ phase = "prompt"
    /\ cmd = "none"
    /\ stepped = 0
    /\ old_line = 0
    /\ signals = 0
    /\ moved = FALSE
    /\ disturbed = FALSE
    /\ twice = FALSE

-----------------------------------------------------------------------------
(* The tracee, as the kernel runs it.                                      *)

Execute ==
    /\ tracee \in {"stepping", "running"}
    /\ IF mem[rip] = "int3"
          THEN /\ rip' = rip + 1
               /\ tracee' = IF phase = "gone" THEN "killed" ELSE "stopped"
               /\ why' = "breakpoint"
               /\ UNCHANGED moved
          ELSE /\ rip' \in Succ[rip]
               /\ tracee' = CASE rip' = 0 -> "exited"
                              [] rip' # 0 /\ tracee = "running" -> "running"
                              [] OTHER -> "stopped"
               /\ why' = IF tracee' = "stopped" THEN "trace" ELSE "none"
               /\ moved' = TRUE
    /\ UNCHANGED <<mem, break_points, phase, cmd, stepped, old_line, signals,
                   disturbed, twice>>

(* A signal stops it before the instruction that was to be executed; the   *)
(* debugger resumes it without the signal.                                 *)
Signal ==
    /\ tracee \in {"stepping", "running"} /\ phase # "gone"
    /\ signals < MaxSignals
    /\ signals' = signals + 1
    /\ tracee' = "stopped"
    /\ why' = "signal"
    /\ disturbed' = TRUE
    /\ UNCHANGED <<mem, rip, break_points, phase, cmd, stepped, old_line, moved,
                   twice>>

-----------------------------------------------------------------------------
(* BreakPoint                                                              *)

enable_mutant_nosave(a) ==
    /\ mem' = [mem EXCEPT ![a] = "int3"]
    /\ break_points' = [b \in Set \cup {a} |->
                          IF b \in Set THEN break_points[b] ELSE "int3"]

(* enable: save the byte that is there, whatever it is, and patch.         *)
enable(a) ==
    /\ break_points' = [b \in Set \cup {a} |->
                          IF b = a THEN mem[a] ELSE break_points[b]]
    /\ mem' = [mem EXCEPT ![a] = "int3"]

disable_mutant_flag(a) == UNCHANGED mem

disable(a) == mem' = [mem EXCEPT ![a] = break_points[a]]

-----------------------------------------------------------------------------
(* The debugger's own steps, each up to its next waitpid.                  *)

(* single_step_instruction_with_breakpoint_check from address pc, and the  *)
(* step_over_breakpoint it shares with continue_execution.                 *)
StepFrom(pc) ==
    /\ tracee' = "stepping"
    /\ IF pc \in Set
          THEN phase' = "over" /\ stepped' = pc /\ disable(pc)
          ELSE phase' = "single" /\ UNCHANGED <<stepped, mem>>
    /\ UNCHANGED break_points

(* PTRACE_CONT.                                                            *)
Cont == tracee' = "running" /\ phase' = "cont"

(* The command is done: back to readline.                                  *)
Prompt ==
    /\ phase' = "prompt"
    /\ cmd' = "none"
    /\ UNCHANGED tracee

Begin(c) ==
    /\ phase = "prompt" /\ tracee = "stopped"
    /\ cmd' = c
    /\ moved' = FALSE
    /\ disturbed' = FALSE
    /\ UNCHANGED <<rip, why, signals, twice>>

(* "b <addr>".                                                             *)
SetBreakpoint(a) ==
    /\ phase = "prompt" /\ tracee = "stopped"
    /\ enable(a)
    /\ twice' = (twice \/ a \in Set)
    /\ UNCHANGED <<rip, tracee, why, phase, cmd, stepped, old_line, signals,
                   moved, disturbed>>

(* "c": step over a breakpoint here first.                                 *)
Continue_mutant_nostep ==
    /\ Begin("c")
    /\ Cont /\ UNCHANGED <<stepped, mem, break_points>>
    /\ UNCHANGED old_line

Continue ==
    /\ Begin("c")
    /\ IF rip \in Set
          THEN StepFrom(rip)
          ELSE Cont /\ UNCHANGED <<stepped, mem, break_points>>
    /\ UNCHANGED old_line

(* "si".                                                                   *)
StepInstruction ==
    /\ Begin("si")
    /\ StepFrom(rip)
    /\ UNCHANGED old_line

(* "step": step_in, single steps until the line changes.                   *)
StepIn ==
    /\ Begin("step")
    /\ old_line' = Line[rip]
    /\ StepFrom(rip)

(* wait_for_signal and handle_sigtrap: after an int3 the instruction       *)
(* pointer goes back to it.                                                *)
Handled_mutant_noback ==
    /\ tracee = "stopped"
    /\ rip' = rip

Handled ==
    /\ tracee = "stopped"
    /\ rip' = IF why = "breakpoint" THEN rip - 1 ELSE rip

(* The end of step_over_breakpoint: patch the breakpoint again, then go on *)
(* with the command.                                                       *)
SteppedOver_mutant_noenable ==
    /\ phase = "over" /\ Handled
    /\ \/ cmd = "c" /\ Cont /\ UNCHANGED cmd
       \/ cmd = "si" /\ Prompt
       \/ cmd = "step" /\ Prompt
    /\ why' = "none"
    /\ UNCHANGED <<mem, break_points, stepped, old_line, signals, moved, disturbed, twice>>

SteppedOver ==
    /\ phase = "over" /\ Handled
    /\ enable(stepped)
    /\ \/ cmd = "c" /\ Cont /\ UNCHANGED cmd
       \/ cmd = "si" /\ Prompt
       \/ cmd = "step" /\ (Line[rip'] = 0 \/ Line[rip'] # old_line) /\ Prompt
    /\ why' = "none"
    /\ UNCHANGED <<stepped, old_line, signals, moved, disturbed, twice>>

(* The same, in step_in when the line is still the old one: step again.    *)
(* Where the next instruction has a breakpoint of its own, the one just    *)
(* passed is patched and that one restored.                                *)
SteppedOverAgain ==
    /\ phase = "over" /\ cmd = "step" /\ Handled
    /\ Line[rip'] # 0 /\ Line[rip'] = old_line
    /\ tracee' = "stepping"
    /\ LET armed == [mem EXCEPT ![stepped] = "int3"]
           saved == [break_points EXCEPT ![stepped] = mem[stepped]]
       IN  /\ break_points' = saved
           /\ IF rip' \in Set
                 THEN /\ phase' = "over" /\ stepped' = rip'
                      /\ mem' = [armed EXCEPT ![rip'] = saved[rip']]
                 ELSE phase' = "single" /\ mem' = armed /\ UNCHANGED stepped
    /\ why' = "none"
    /\ UNCHANGED <<cmd, old_line, signals, moved, disturbed, twice>>

(* The stop after a plain single step, for "si" and for "step".            *)
Stepped ==
    /\ phase = "single" /\ Handled
    /\ \/ /\ cmd = "si" \/ Line[rip'] = 0 \/ Line[rip'] # old_line
          /\ Prompt
          /\ UNCHANGED <<mem, break_points, stepped>>
       \/ /\ cmd = "step" /\ Line[rip'] # 0 /\ Line[rip'] = old_line
          /\ StepFrom(rip')
          /\ UNCHANGED cmd
    /\ why' = "none"
    /\ UNCHANGED <<old_line, signals, moved, disturbed, twice>>

(* The stop that ends "c".                                                 *)
Continued ==
    /\ phase = "cont" /\ Handled
    /\ Prompt
    /\ why' = "none"
    /\ UNCHANGED <<mem, break_points, stepped, old_line, signals, moved, disturbed, twice>>

(* The tracee is gone: waitpid and ptrace fail, and the debugger goes by   *)
(* registers and siginfo it never read.  A command returns, fails (on an   *)
(* address or a file that does not exist), or, in step_in, stays in its    *)
(* loop as long as the line it makes of them is the old one.               *)
Confused ==
    /\ tracee = "exited" /\ phase # "gone"
    /\ \/ phase' \in {"prompt", "gone"} /\ cmd' = "none"
       \/ cmd = "step" /\ UNCHANGED <<phase, cmd>>
    /\ UNCHANGED <<mem, rip, tracee, why, break_points, stepped, old_line,
                   signals, moved, disturbed, twice>>

(* The debugger ends; the kernel lets the tracee run on as it is, with the *)
(* breakpoints that are in its memory.                                     *)
Leave ==
    /\ phase' = "gone"
    /\ cmd' = "none"
    /\ tracee' = "running"

(* After an int3 handle_sigtrap shows the source, when the instruction     *)
(* pointer is back already.  It panics on a location it cannot find and on *)
(* a file it cannot open: the command ends there, and the debugger with it.*)
HandleSigtrapFails ==
    /\ phase \in {"over", "single", "cont"} /\ Handled
    /\ why = "breakpoint"
    /\ Leave
    /\ why' = "none"
    /\ UNCHANGED <<mem, break_points, stepped, old_line, signals, moved,
                   disturbed, twice>>

(* So does step_in, after each of its steps: on the location of the new    *)
(* instruction pointer, or on the file of the new line.                    *)
StepInFails ==
    /\ cmd = "step" /\ phase \in {"over", "single"} /\ Handled
    /\ IF phase = "over" THEN enable(stepped) ELSE UNCHANGED <<mem, break_points>>
    /\ Leave
    /\ why' = "none"
    /\ UNCHANGED <<stepped, old_line, signals, moved, disturbed, twice>>

(* "exit", "quit", end of input, a command that cannot be parsed, or       *)
(* step_in from a place that has no location to read.                      *)
Quit ==
    /\ phase = "prompt" /\ tracee = "stopped"
    /\ Leave
    /\ UNCHANGED <<mem, rip, why, break_points, stepped, old_line, signals,
                   moved, disturbed, twice>>

Over ==
    /\ phase = "gone" /\ tracee \in {"exited", "killed"}
    /\ UNCHANGED vars

User ==
    \/ \E a \in Addrs : SetBreakpoint(a)
    \/ Continue \/ StepInstruction \/ StepIn \/ Quit

Debugger ==
    \/ SteppedOver \/ SteppedOverAgain \/ Stepped \/ Continued \/ Confused
    \/ HandleSigtrapFails \/ StepInFails

Next == User \/ Debugger \/ Execute \/ Signal \/ Over

Spec == Init /\ [][Next]_vars

(* The kernel runs the tracee and the debugger; the user may stop typing.  *)
FairSpec == Spec /\ WF_vars(Debugger) /\ WF_vars(Execute)

-----------------------------------------------------------------------------
(* Properties                                                              *)

(* No breakpoint is ever skipped: when the tracee runs freely, and when    *)
(* the user is asked, every breakpoint that was set is in memory, also     *)
(* after stepping over it was interrupted by a signal.                     *)
Armed ==
    Alive /\ phase # "gone" =>
        \A a \in Set : mem[a] = "int3" \/ (phase = "over" /\ stepped = a)

(* The debugger leaves no trace but its breakpoints: every other byte is   *)
(* the program's, and what is saved of each breakpoint is the program's    *)
(* byte, so that it can be restored (unless one was set twice).            *)
TextIntact ==
    /\ \A a \in Addrs \ Set : mem[a] = "insn"
    /\ ~twice => \A a \in Set : break_points[a] = "insn"

(* A command moves the program on: when it returns and no signal came in   *)
(* between, the tracee has executed at least one instruction of its own    *)
(* (unless a breakpoint was set twice).                                    *)
CommandsMove ==
    [][phase # "prompt" /\ phase' = "prompt" => moved \/ disturbed \/ twice]_vars

(* Debugged or not, the program executes the same: between the int3 that   *)
(* stopped it and the correction of its instruction pointer it is still at *)
(* the breakpoint, and it goes on from there as if nothing had happened.   *)
Program == INSTANCE AbstractProgram WITH
    Entry <- 1,
    at <- IF why = "breakpoint" THEN rip - 1 ELSE rip
RefinesProgram == Program!Spec

(* A command never hangs in the debugger.  It ends: it returns to the      *)
(* prompt, or fails with the debugger on a location or source file it      *)
(* cannot read; unless the tracee ends under it or executes instructions   *)
(* of its own forever (or a breakpoint was set twice: step_in may then     *)
(* never get past it).                                                     *)
CommandsReturn ==
    \/ []<><<Execute /\ mem[rip] = "insn">>_vars
    \/ phase \notin {"prompt", "gone"}
          ~> (phase \in {"prompt", "gone"} \/ ~Alive \/ twice)
=============================================================================
