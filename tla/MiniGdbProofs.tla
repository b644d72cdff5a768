--------------------------- MODULE MiniGdbProofs ---------------------------
(***************************************************************************)
(* The safety of the debugger, for every program (any control flow, any     *)
(* line table) and any sequence of commands and signals.                    *)
(***************************************************************************)
EXTENDS MiniGdb, TLAPS

(* Where the program stands: an int3 that has stopped it does not count.   *)
Here == IF why = "breakpoint" THEN rip - 1 ELSE rip

InCommand == phase \in {"over", "single", "cont"}

(* Who is where: the tracee is at an instruction whenever it can go on,    *)
(* and the debugger has looked at the last stop before it does.            *)
ControlInv ==
    /\ tracee \in {"stepping", "running"} => rip \in Addrs /\ why = "none"
    /\ tracee = "stopped" => Here \in Addrs
    /\ tracee = "exited" => why = "none"
    /\ why = "breakpoint" => tracee \in {"stopped", "killed"} /\ Here \in Addrs
    /\ phase = "prompt" => why = "none" /\ tracee \in {"stopped", "exited"}
    /\ phase = "gone" => tracee \in {"running", "exited", "killed"}

(* The breakpoint that is being stepped over has the saved byte in memory. *)
OverInv ==
    phase = "over" => stepped \in Set /\ mem[stepped] = break_points[stepped]

(* Until a command has moved the program, the program is about to execute  *)
(* an instruction of its own.                                              *)
MoveInv ==
    InCommand /\ ~moved /\ ~disturbed /\ ~twice =>
        tracee \in {"stepping", "running"} /\ mem[rip] = "insn"

DebugInv == ControlInv /\ OverInv /\ Armed /\ TextIntact /\ MoveInv

IInv == TypeOK /\ DebugInv

-----------------------------------------------------------------------------
(* Types                                                                   *)

LEMMA InitTypes == Init => TypeOK
<1> SUFFICES ASSUME Init PROVE TypeOK
  OBVIOUS
<1>1. Set = {} /\ break_points \in [Set -> {"insn", "int3"}]
  BY DEF Init, Set
<1>2. moved \in BOOLEAN /\ disturbed \in BOOLEAN /\ twice \in BOOLEAN
  BY DEF Init
<1> QED
  BY <1>1, <1>2, ProgramAssumption, SignalsAssumption DEF Init, TypeOK, Addrs

(* enable keeps memory and the table what they are.                        *)
LEMMA EnableTypes ==
    ASSUME TypeOK, NEW a \in Addrs, enable(a)
    PROVE  /\ Set' = Set \cup {a} /\ Set' \subseteq Addrs
           /\ mem' \in [Addrs -> {"insn", "int3"}]
           /\ break_points' \in [Set' -> {"insn", "int3"}]
<1>1. Set' = Set \cup {a}
  BY DEF enable, Set
<1> QED
  BY <1>1 DEF TypeOK, enable

LEMMA DisableTypes ==
    ASSUME TypeOK, NEW a \in Set, disable(a)
    PROVE  mem' \in [Addrs -> {"insn", "int3"}]
BY DEF TypeOK, disable

LEMMA StepFromTypes ==
    ASSUME TypeOK, NEW a \in Addrs, StepFrom(a)
    PROVE  /\ mem' \in [Addrs -> {"insn", "int3"}]
           /\ stepped' \in 0..Last
           /\ phase' \in {"over", "single"}
           /\ tracee' = "stepping"
<1>1. mem' \in [Addrs -> {"insn", "int3"}]
  BY DisableTypes DEF StepFrom, TypeOK
<1> QED
  BY <1>1, ProgramAssumption DEF StepFrom, TypeOK, Addrs

-----------------------------------------------------------------------------
(* What a patch does to memory                                             *)

(* Starting a single step with every breakpoint armed: the one it steps    *)
(* over, if any, is restored, and the instruction is the program's unless  *)
(* a breakpoint was set twice.                                             *)
LEMMA StepFromPatch ==
    ASSUME TypeOK, TextIntact, \A a \in Set : mem[a] = "int3",
           NEW pc \in Addrs, StepFrom(pc), twice' = twice
    PROVE  OverInv' /\ Armed' /\ TextIntact' /\ (~twice => mem'[pc] = "insn")
<1>1. Set' = Set /\ break_points' = break_points
  BY DEF StepFrom, Set
<1>2. CASE pc \in Set
  <2>1. /\ phase' = "over" /\ stepped' = pc /\ tracee' = "stepping"
        /\ mem' = [mem EXCEPT ![pc] = break_points[pc]]
    BY <1>2 DEF StepFrom, disable
  <2> QED
    BY <1>1, <1>2, <2>1 DEF TypeOK, OverInv, Armed, TextIntact
<1>3. CASE pc \notin Set
  <2>1. phase' = "single" /\ mem' = mem
    BY <1>3 DEF StepFrom
  <2> QED
    BY <1>1, <1>3, <2>1 DEF OverInv, Armed, TextIntact
<1> QED
  BY <1>2, <1>3

(* The end of step_over_breakpoint arms it again and saves the byte that   *)
(* was saved already.                                                      *)
LEMMA EnableBack ==
    ASSUME TypeOK, TextIntact, OverInv, Armed, tracee = "stopped",
           phase = "over", enable(stepped)
    PROVE  /\ Set' = Set /\ break_points' = break_points
           /\ \A a \in Set : mem'[a] = "int3"
           /\ \A a \in Addrs \ Set : mem'[a] = "insn"
<1>1. stepped \in Set /\ stepped \in Addrs
  BY DEF OverInv, TypeOK
<1>2. Set' = Set
  BY <1>1, EnableTypes
<1>3. break_points' = break_points
  BY <1>1 DEF enable, OverInv, TypeOK
<1> QED
  BY <1>1, <1>2, <1>3 DEF enable, TypeOK, Armed, Alive, TextIntact

-----------------------------------------------------------------------------
(* The tracee                                                              *)

LEMMA ExecuteIInv == ASSUME IInv, Execute PROVE IInv'
<1> USE DEF IInv, DebugInv
<1>1. rip \in Addrs /\ why = "none"
  BY DEF Execute, ControlInv
<1>2. CASE mem[rip] = "int3"
  <2>1. /\ rip' = rip + 1 /\ why' = "breakpoint"
        /\ tracee' = IF phase = "gone" THEN "killed" ELSE "stopped"
        /\ UNCHANGED <<mem, break_points, phase, cmd, stepped, old_line, signals,
                       moved, disturbed, twice>>
    BY <1>2 DEF Execute
  <2>2. TypeOK'
    BY <1>1, <2>1, ProgramAssumption DEF TypeOK, Set, Addrs
  <2>3. ControlInv'
    BY <1>1, <2>1, ProgramAssumption DEF ControlInv, Here, TypeOK, Addrs, Execute
  <2>4. OverInv' /\ TextIntact'
    BY <2>1 DEF OverInv, TextIntact, Set
  <2>5. Armed'
    BY <2>1 DEF Armed, Alive, Set, Execute
  <2>6. MoveInv'
    BY <1>2, <2>1 DEF MoveInv, InCommand
  <2> QED
    BY <2>2, <2>3, <2>4, <2>5, <2>6
<1>3. CASE mem[rip] # "int3"
  <2>1. /\ rip' \in Succ[rip] /\ moved' = TRUE
        /\ tracee' \in {"exited", "running", "stopped"}
        /\ tracee' = "exited" <=> rip' = 0
        /\ tracee' = "running" => tracee = "running"
        /\ why' = IF tracee' = "stopped" THEN "trace" ELSE "none"
        /\ UNCHANGED <<mem, break_points, phase, cmd, stepped, old_line, signals,
                       disturbed, twice>>
    BY <1>3 DEF Execute
  <2>2. rip' \in 0..Last
    BY <1>1, <2>1, ProgramAssumption
  <2>3. moved' \in BOOLEAN
    BY <2>1
  <2>4. TypeOK'
    BY <2>1, <2>2, <2>3, ProgramAssumption DEF TypeOK, Set
  <2>5. ControlInv'
    BY <1>1, <2>1, <2>2, ProgramAssumption DEF ControlInv, Here, Addrs, Execute
  <2>6. OverInv' /\ TextIntact'
    BY <2>1 DEF OverInv, TextIntact, Set
  <2>7. Armed'
    BY <2>1 DEF Armed, Alive, Set, Execute
  <2>8. MoveInv'
    BY <2>1 DEF MoveInv
  <2> QED
    BY <2>4, <2>5, <2>6, <2>7, <2>8
<1> QED
  BY <1>2, <1>3

LEMMA SignalIInv == ASSUME IInv, Signal PROVE IInv'
<1> USE DEF IInv, DebugInv, Signal
<1>1. disturbed' \in BOOLEAN
  OBVIOUS
<1>2. TypeOK'
  BY <1>1, SignalsAssumption DEF TypeOK, Set
<1>3. ControlInv'
  BY DEF ControlInv, Here
<1>4. OverInv' /\ TextIntact' /\ Armed'
  BY DEF OverInv, TextIntact, Armed, Alive, Set
<1>5. MoveInv'
  BY DEF MoveInv
<1> QED
  BY <1>2, <1>3, <1>4, <1>5

-----------------------------------------------------------------------------
(* The user's commands                                                     *)

LEMMA SetBreakpointIInv == ASSUME IInv, NEW a \in Addrs, SetBreakpoint(a) PROVE IInv'
<1> USE DEF IInv, DebugInv, SetBreakpoint
<1>1. Set' = Set \cup {a}
  BY EnableTypes
<1>2. twice' \in BOOLEAN
  BY DEF TypeOK
<1>3. TypeOK'
  BY <1>2, EnableTypes DEF TypeOK
<1>4. ControlInv' /\ OverInv' /\ MoveInv'
  BY DEF ControlInv, Here, OverInv, MoveInv, InCommand
<1>5. Armed'
  BY <1>1 DEF Armed, Alive, enable, TypeOK
<1>6. TextIntact'
  <2>1. \A b \in Addrs \ Set' : mem'[b] = "insn"
    BY <1>1 DEF TextIntact, enable, TypeOK
  <2>2. ASSUME ~twice' PROVE \A b \in Set' : break_points'[b] = "insn"
    BY <1>1, <2>2 DEF TextIntact, enable, TypeOK
  <2> QED
    BY <2>1, <2>2 DEF TextIntact
<1> QED
  BY <1>3, <1>4, <1>5, <1>6

(* A command begins with all breakpoints armed and no stop to look at.     *)
LEMMA BeginFacts ==
    ASSUME IInv, NEW c \in {"c", "si", "step"}, Begin(c)
    PROVE  /\ rip \in Addrs /\ why = "none" /\ TextIntact
           /\ \A a \in Set : mem[a] = "int3"
           /\ moved' \in BOOLEAN /\ disturbed' \in BOOLEAN
BY DEF IInv, DebugInv, Begin, ControlInv, Here, Armed, Alive

(* A command that begins with a single step.                               *)
LEMMA BeginStepIInv ==
    ASSUME IInv, NEW c \in {"c", "si", "step"}, Begin(c), StepFrom(rip),
           old_line' \in {old_line, Line[rip]}
    PROVE  IInv'
<1> USE DEF IInv, DebugInv
<1>1. rip \in Addrs /\ rip' = rip /\ why' = "none" /\ twice' = twice /\ tracee' = "stepping"
  BY BeginFacts DEF Begin, StepFrom
<1>2. TypeOK'
  <2>1. old_line' \in Range(Line) \cup {0}
    BY <1>1, ProgramAssumption DEF TypeOK, Range
  <2> QED
    BY <1>1, <2>1, BeginFacts, StepFromTypes DEF TypeOK, Begin, StepFrom, Set
<1>3. ControlInv'
  BY <1>1, StepFromTypes DEF ControlInv, Here
<1>4. OverInv' /\ Armed' /\ TextIntact' /\ (~twice => mem'[rip] = "insn")
  BY <1>1, BeginFacts, StepFromPatch
<1>5. MoveInv'
  BY <1>1, <1>4 DEF MoveInv
<1> QED
  BY <1>2, <1>3, <1>4, <1>5

LEMMA ContinueIInv == ASSUME IInv, Continue PROVE IInv'
<1> USE DEF IInv, DebugInv
<1>1. Begin("c") /\ old_line' = old_line
  BY DEF Continue
<1>2. CASE rip \in Set
  BY <1>1, <1>2, BeginStepIInv DEF Continue
<1>3. CASE rip \notin Set
  <2>1. Cont /\ UNCHANGED <<stepped, mem, break_points, rip, why, signals, twice>>
    BY <1>1, <1>3 DEF Continue, Begin
  <2>2. TypeOK'
    BY <1>1, <2>1, BeginFacts DEF TypeOK, Cont, Set, Begin
  <2>3. ControlInv' /\ OverInv'
    BY <1>1, <2>1, BeginFacts DEF ControlInv, OverInv, Here, Cont
  <2>4. Armed' /\ TextIntact'
    BY <1>1, <2>1, BeginFacts DEF Armed, TextIntact, Set
  <2>5. MoveInv'
    BY <1>1, <1>3, <2>1, BeginFacts DEF MoveInv, Cont, TextIntact
  <2> QED
    BY <2>2, <2>3, <2>4, <2>5
<1> QED
  BY <1>2, <1>3

LEMMA QuitIInv == ASSUME IInv, Quit PROVE IInv'
<1> USE DEF IInv, DebugInv, Quit, Leave
<1>1. TypeOK'
  BY DEF TypeOK, Set
<1>2. ControlInv'
  BY DEF ControlInv, Here
<1>3. OverInv' /\ TextIntact' /\ Armed' /\ MoveInv'
  BY DEF OverInv, TextIntact, Armed, Alive, Set, MoveInv, InCommand
<1> QED
  BY <1>1, <1>2, <1>3

-----------------------------------------------------------------------------
(* The debugger after a stop                                               *)

(* After handle_sigtrap the program stands where it stands.                *)
LEMMA HandledFacts ==
    ASSUME IInv, Handled
    PROVE  rip' = Here /\ rip' \in Addrs /\ rip' \in 0..(Last + 1)
BY ProgramAssumption DEF IInv, DebugInv, Handled, ControlInv, Here, Addrs

(* When a command has been stopped it has moved the program, or somebody   *)
(* else stopped it.                                                        *)
LEMMA StoppedMoved ==
    ASSUME IInv, InCommand, tracee \notin {"stepping", "running"}
    PROVE  moved \/ disturbed \/ twice
BY DEF IInv, DebugInv, MoveInv

(* Back to the prompt, or on with PTRACE_CONT, with all breakpoints armed. *)
LEMMA ResumeIInv ==
    ASSUME IInv, Handled, InCommand, phase' \in {"prompt", "cont"},
           tracee' = IF phase' = "prompt" THEN tracee ELSE "running",
           cmd' \in {"none", cmd}, why' = "none",
           Set' = Set, break_points' = break_points,
           mem' \in [Addrs -> {"insn", "int3"}],
           \A a \in Set : mem'[a] = "int3",
           \A a \in Addrs \ Set : mem'[a] = "insn",
           UNCHANGED <<stepped, old_line, signals, moved, disturbed, twice>>
    PROVE  IInv'
<1> USE DEF IInv, DebugInv
<1>1. rip' \in Addrs /\ rip' \in 0..(Last + 1) /\ tracee = "stopped"
  BY HandledFacts DEF Handled
<1>2. TypeOK'
  BY <1>1 DEF TypeOK
<1>3. ControlInv' /\ OverInv'
  BY <1>1 DEF ControlInv, Here, OverInv
<1>4. Armed' /\ TextIntact'
  BY DEF Armed, TextIntact
<1>5. MoveInv'
  BY <1>1, StoppedMoved DEF MoveInv
<1> QED
  BY <1>2, <1>3, <1>4, <1>5

LEMMA SteppedOverIInv == ASSUME IInv, SteppedOver PROVE IInv'
<1>1. /\ phase = "over" /\ Handled /\ enable(stepped) /\ why' = "none"
      /\ UNCHANGED <<stepped, old_line, signals, moved, disturbed, twice>>
  BY DEF SteppedOver
<1>2. tracee = "stopped" /\ InCommand /\ stepped \in Addrs
  BY <1>1 DEF Handled, InCommand, IInv, DebugInv, OverInv, TypeOK
<1>3. /\ Set' = Set /\ break_points' = break_points
      /\ \A a \in Set : mem'[a] = "int3"
      /\ \A a \in Addrs \ Set : mem'[a] = "insn"
  BY <1>1, <1>2, EnableBack DEF IInv, DebugInv
<1>4. mem' \in [Addrs -> {"insn", "int3"}]
  BY <1>1, <1>2, EnableTypes DEF IInv
<1>5. /\ phase' \in {"prompt", "cont"} /\ cmd' \in {"none", cmd}
      /\ tracee' = IF phase' = "prompt" THEN tracee ELSE "running"
  BY DEF SteppedOver, Cont, Prompt
<1> QED
  BY <1>1, <1>2, <1>3, <1>4, <1>5, ResumeIInv

(* step_in goes on: the breakpoint just passed is armed again before the   *)
(* next one, perhaps the same, is restored.                                *)
LEMMA SteppedOverAgainIInv == ASSUME IInv, SteppedOverAgain PROVE IInv'
<1> DEFINE armed == [mem EXCEPT ![stepped] = "int3"]
<1> DEFINE saved == [break_points EXCEPT ![stepped] = mem[stepped]]
<1> USE DEF IInv, DebugInv
<1>1. /\ phase = "over" /\ Handled /\ tracee = "stopped" /\ tracee' = "stepping"
      /\ why' = "none"
      /\ UNCHANGED <<cmd, old_line, signals, moved, disturbed, twice>>
  BY DEF SteppedOverAgain, Handled
<1>2. stepped \in Set /\ stepped \in Addrs /\ saved = break_points
  BY <1>1 DEF OverInv, TypeOK
<1>3. rip' \in Addrs /\ rip' \in 0..(Last + 1)
  BY <1>1, HandledFacts
<1>4. break_points' = break_points /\ Set' = Set
  BY <1>2 DEF SteppedOverAgain, Set
<1>5. /\ armed \in [Addrs -> {"insn", "int3"}]
      /\ \A a \in Set : armed[a] = "int3"
      /\ \A a \in Addrs \ Set : armed[a] = "insn"
  BY <1>1, <1>2 DEF TypeOK, Armed, Alive, TextIntact
<1>6. moved \/ disturbed \/ twice
  BY <1>1, StoppedMoved DEF InCommand
<1>7. ControlInv' /\ MoveInv'
  <2>1. phase' \in {"over", "single"}
    BY DEF SteppedOverAgain
  <2> QED
    BY <1>1, <1>3, <1>6, <2>1 DEF ControlInv, Here, MoveInv
<1>8. CASE rip' \in Set
  <2>1. /\ phase' = "over" /\ stepped' = rip'
        /\ mem' = [armed EXCEPT ![rip'] = break_points[rip']]
    BY <1>2, <1>8 DEF SteppedOverAgain
  <2> HIDE DEF armed
  <2>2. mem' \in [Addrs -> {"insn", "int3"}] /\ stepped' \in 0..Last
    BY <1>3, <1>5, <1>8, <2>1, ProgramAssumption DEF TypeOK, Addrs
  <2>3. TypeOK'
    BY <1>1, <1>3, <1>4, <2>1, <2>2 DEF TypeOK
  <2>4. OverInv' /\ Armed' /\ TextIntact'
    BY <1>1, <1>3, <1>4, <1>5, <1>8, <2>1 DEF OverInv, Armed, TextIntact, TypeOK
  <2> QED
    BY <1>7, <2>3, <2>4
<1>9. CASE rip' \notin Set
  <2>1. phase' = "single" /\ mem' = armed /\ stepped' = stepped
    BY <1>9 DEF SteppedOverAgain
  <2> HIDE DEF armed
  <2>2. TypeOK'
    BY <1>1, <1>3, <1>4, <1>5, <2>1 DEF TypeOK
  <2>3. OverInv' /\ Armed' /\ TextIntact'
    BY <1>1, <1>4, <1>5, <2>1 DEF OverInv, Armed, TextIntact
  <2> QED
    BY <1>7, <2>2, <2>3
<1> QED
  BY <1>8, <1>9

LEMMA SteppedIInv == ASSUME IInv, Stepped PROVE IInv'
<1>1. /\ phase = "single" /\ Handled /\ tracee = "stopped" /\ why' = "none"
      /\ UNCHANGED <<old_line, signals, moved, disturbed, twice>>
  BY DEF Stepped, Handled
<1>2. \A a \in Set : mem[a] = "int3"
  BY <1>1 DEF IInv, DebugInv, Armed, Alive
<1>3. TextIntact /\ TypeOK /\ ControlInv
  BY DEF IInv, DebugInv
<1>4. CASE Prompt /\ UNCHANGED <<mem, break_points, stepped>>
  <2>1. InCommand /\ Set' = Set /\ mem' \in [Addrs -> {"insn", "int3"}]
    BY <1>1, <1>3, <1>4 DEF InCommand, Set, TypeOK
  <2> QED
    BY <1>1, <1>2, <1>3, <1>4, <2>1, ResumeIInv DEF Prompt, TextIntact
<1>5. CASE StepFrom(rip') /\ UNCHANGED cmd
  <2>1. rip' \in Addrs /\ rip' \in 0..(Last + 1)
    BY <1>1, HandledFacts
  <2>2. OverInv' /\ Armed' /\ TextIntact'
    BY <1>1, <1>2, <1>3, <1>5, <2>1, StepFromPatch
  <2>3. /\ mem' \in [Addrs -> {"insn", "int3"}] /\ stepped' \in 0..Last
        /\ phase' \in {"over", "single"} /\ tracee' = "stepping"
    BY <1>3, <1>5, <2>1, StepFromTypes
  <2>4. TypeOK'
    BY <1>1, <1>3, <1>5, <2>1, <2>3 DEF TypeOK, StepFrom, Set
  <2>5. moved \/ disturbed \/ twice
    BY <1>1, StoppedMoved DEF InCommand
  <2>6. ControlInv' /\ MoveInv'
    BY <1>1, <2>1, <2>3, <2>5 DEF ControlInv, Here, MoveInv
  <2> QED
    BY <2>2, <2>4, <2>6 DEF IInv, DebugInv
<1> QED
  BY <1>4, <1>5 DEF Stepped

LEMMA ContinuedIInv == ASSUME IInv, Continued PROVE IInv'
<1>1. InCommand /\ Handled /\ Set' = Set /\ mem' \in [Addrs -> {"insn", "int3"}]
  BY DEF Continued, InCommand, Set, IInv, TypeOK
<1>2. \A a \in Set : mem[a] = "int3"
  BY DEF Continued, Handled, IInv, DebugInv, Armed, Alive
<1> QED
  BY <1>1, <1>2, ResumeIInv DEF Continued, Prompt, IInv, DebugInv, TextIntact

LEMMA ConfusedIInv == ASSUME IInv, Confused PROVE IInv'
<1> USE DEF IInv, DebugInv, Confused
<1>1. TypeOK'
  BY DEF TypeOK, Set
<1>2. ControlInv'
  BY DEF ControlInv, Here, TypeOK
<1>3. OverInv' /\ TextIntact' /\ Armed'
  BY DEF OverInv, TextIntact, Armed, Alive, Set
<1>4. MoveInv'
  BY DEF MoveInv, InCommand
<1> QED
  BY <1>1, <1>2, <1>3, <1>4

(* The debugger fails in mid-command: what it leaves behind is a program   *)
(* that stands where it stands, with no byte changed but breakpoints.      *)
LEMMA LeaveIInv ==
    ASSUME IInv, Handled, Leave, why' = "none", TextIntact',
           Set' = Set, break_points' = break_points,
           mem' \in [Addrs -> {"insn", "int3"}],
           UNCHANGED <<stepped, old_line, signals, moved, disturbed, twice>>
    PROVE  IInv'
<1> USE DEF IInv, DebugInv, Leave
<1>1. rip' \in Addrs /\ rip' \in 0..(Last + 1)
  BY HandledFacts
<1>2. TypeOK'
  BY <1>1 DEF TypeOK
<1>3. ControlInv' /\ OverInv' /\ Armed' /\ MoveInv'
  BY <1>1 DEF ControlInv, Here, OverInv, Armed, MoveInv, InCommand
<1> QED
  BY <1>2, <1>3

LEMMA HandleSigtrapFailsIInv == ASSUME IInv, HandleSigtrapFails PROVE IInv'
<1>1. Set' = Set /\ mem' \in [Addrs -> {"insn", "int3"}] /\ TextIntact'
  BY DEF HandleSigtrapFails, IInv, DebugInv, TypeOK, TextIntact, Set
<1> QED
  BY <1>1, LeaveIInv DEF HandleSigtrapFails

LEMMA StepInFailsIInv == ASSUME IInv, StepInFails PROVE IInv'
<1>1. /\ Handled /\ Leave /\ why' = "none" /\ tracee = "stopped"
      /\ UNCHANGED <<stepped, old_line, signals, moved, disturbed, twice>>
  BY DEF StepInFails, Handled
<1>2. CASE phase = "over"
  <2>1. enable(stepped) /\ stepped \in Addrs
    BY <1>2 DEF StepInFails, IInv, DebugInv, OverInv, TypeOK
  <2>2. /\ Set' = Set /\ break_points' = break_points
        /\ \A a \in Addrs \ Set : mem'[a] = "insn"
    BY <1>1, <1>2, <2>1, EnableBack DEF IInv, DebugInv
  <2>3. mem' \in [Addrs -> {"insn", "int3"}]
    BY <2>1, EnableTypes DEF IInv
  <2>4. TextIntact'
    BY <1>1, <2>2 DEF TextIntact, IInv, DebugInv
  <2> QED
    BY <1>1, <2>2, <2>3, <2>4, LeaveIInv
<1>3. CASE phase # "over"
  <2>1. UNCHANGED <<mem, break_points>>
    BY <1>3 DEF StepInFails
  <2>2. Set' = Set /\ mem' \in [Addrs -> {"insn", "int3"}] /\ TextIntact'
    BY <1>1, <2>1 DEF IInv, DebugInv, TypeOK, TextIntact, Set
  <2> QED
    BY <1>1, <2>1, <2>2, LeaveIInv
<1> QED
  BY <1>2, <1>3

-----------------------------------------------------------------------------
(* Every step keeps the invariant.                                         *)
LEMMA NextIInv == IInv /\ [Next]_vars => IInv'
<1> SUFFICES ASSUME IInv, [Next]_vars PROVE IInv'
  OBVIOUS
<1>1. CASE User
  <2>1. CASE StepInstruction
    BY <2>1, BeginStepIInv DEF StepInstruction
  <2>2. CASE StepIn
    BY <2>2, BeginStepIInv DEF StepIn
  <2> QED
    BY <1>1, <2>1, <2>2, SetBreakpointIInv, ContinueIInv, QuitIInv DEF User
<1>2. CASE Debugger
  BY <1>2, SteppedOverIInv, SteppedOverAgainIInv, SteppedIInv, ContinuedIInv,
     ConfusedIInv, HandleSigtrapFailsIInv, StepInFailsIInv DEF Debugger
<1>3. CASE Execute \/ Signal
  BY <1>3, ExecuteIInv, SignalIInv
<1>4. CASE UNCHANGED vars
  BY <1>4 DEF vars, IInv, DebugInv, TypeOK, ControlInv, Here, OverInv, Armed,
              Alive, TextIntact, MoveInv, InCommand, Set
<1> QED
  BY <1>1, <1>2, <1>3, <1>4 DEF Next, Over

(* The invariant of the debugger and its tracee.                           *)
THEOREM DebuggerSafe == Spec => []IInv
<1>1. Init => IInv
  <2> SUFFICES ASSUME Init PROVE IInv
    OBVIOUS
  <2>1. ControlInv
    BY ProgramAssumption DEF Init, ControlInv, Here, Addrs
  <2>2. OverInv /\ Armed /\ TextIntact /\ MoveInv
    BY DEF Init, OverInv, Armed, TextIntact, MoveInv, InCommand, Set
  <2> QED
    BY <2>1, <2>2, InitTypes DEF IInv, DebugInv
<1> QED
  BY <1>1, NextIInv, PTL DEF Spec

(* No breakpoint is skipped: whatever signals come while the debugger      *)
(* steps over one, it is back in memory before the tracee runs freely.     *)
THEOREM ArmedHolds == Spec => []Armed
<1>1. IInv => Armed
  BY DEF IInv, DebugInv
<1> QED
  BY <1>1, DebuggerSafe, PTL

(* Every byte that is not a breakpoint's is the program's, and so is every *)
(* saved byte, unless a breakpoint was set twice.                          *)
THEOREM TextIntactHolds == Spec => []TextIntact
<1>1. IInv => TextIntact
  BY DEF IInv, DebugInv
<1> QED
  BY <1>1, DebuggerSafe, PTL

(* A command returns only after the program has moved, unless a signal     *)
(* came or a breakpoint was set twice.                                     *)
THEOREM CommandsMoveHolds == Spec => CommandsMove
<1>1. IInv /\ [Next]_vars =>
        [phase # "prompt" /\ phase' = "prompt" => moved \/ disturbed \/ twice]_vars
  <2> SUFFICES ASSUME IInv, Next, phase # "prompt", phase' = "prompt"
               PROVE  moved \/ disturbed \/ twice
    OBVIOUS
  <2>1. InCommand
    <3>1. phase # "gone"
      BY DEF Next, User, Debugger, Execute, Signal, Over, SetBreakpoint, Begin,
             Continue, StepInstruction, StepIn, Quit, SteppedOver,
             SteppedOverAgain, Stepped, Continued, Confused, Handled,
             HandleSigtrapFails, StepInFails, Leave, vars
    <3> QED
      BY <3>1 DEF IInv, TypeOK, InCommand
  <2>2. tracee \notin {"stepping", "running"}
    <3>1. CASE Debugger
      BY <3>1 DEF Debugger, SteppedOver, SteppedOverAgain, Stepped, Continued,
                  Confused, HandleSigtrapFails, StepInFails, Handled
    <3>2. CASE User
      BY <3>2, <2>1 DEF User, SetBreakpoint, Begin, Continue, StepInstruction,
                        StepIn, Quit, InCommand
    <3>3. CASE Execute \/ Signal \/ Over
      BY <3>3 DEF Execute, Signal, Over, vars
    <3> QED
      BY <3>1, <3>2, <3>3 DEF Next
  <2> QED
    BY <2>1, <2>2, StoppedMoved
<1> QED
  BY <1>1, DebuggerSafe, PTL DEF Spec, CommandsMove

-----------------------------------------------------------------------------
(* The refinement: a step of the debugged program is a step of the program *)
(* alone or none.                                                          *)
LEMMA ProgramStep == IInv /\ [Next]_vars => [Program!Next]_Here
<1> SUFFICES ASSUME IInv, [Next]_vars PROVE Program!Next \/ Here' = Here
  OBVIOUS
<1> USE DEF IInv, DebugInv
<1>1. CASE Execute
  <2>1. rip \in Addrs /\ why = "none"
    BY <1>1 DEF Execute, ControlInv
  <2>2. CASE mem[rip] = "int3"
    BY <1>1, <2>1, <2>2, ProgramAssumption DEF Execute, Here, Addrs
  <2>3. CASE mem[rip] # "int3"
    BY <1>1, <2>1, <2>3, ProgramAssumption DEF Execute, Here, Program!Next
  <2> QED
    BY <2>2, <2>3
<1>2. CASE Signal
  BY <1>2 DEF Signal, ControlInv, Here
<1>3. CASE User
  BY <1>3 DEF User, SetBreakpoint, Begin, Continue, StepInstruction, StepIn,
              Quit, Here
<1>4. CASE \/ SteppedOver \/ SteppedOverAgain \/ Stepped \/ Continued
           \/ HandleSigtrapFails \/ StepInFails
  BY <1>4, HandledFacts DEF SteppedOver, SteppedOverAgain, Stepped, Continued,
                            HandleSigtrapFails, StepInFails, Here
<1>5. CASE Confused \/ Over \/ UNCHANGED vars
  BY <1>5 DEF Confused, Over, vars, Here
<1> QED
  BY <1>1, <1>2, <1>3, <1>4, <1>5 DEF Next, Debugger

(* Debugged with any breakpoints, steps and signals, the program executes  *)
(* nothing that it could not execute alone.                                *)
THEOREM Refinement == Spec => RefinesProgram
<1>1. Init => Program!Init
  BY DEF Init, Program!Init
<1>2. Spec => [][Program!Next]_Here
  BY ProgramStep, DebuggerSafe, PTL DEF Spec
<1> QED
  BY <1>1, <1>2, PTL DEF Spec, RefinesProgram, Program!Spec, Here

-----------------------------------------------------------------------------
(* Towards CommandsReturn                                                  *)

(* What the tracee does for which command: a single step always has an     *)
(* instruction of the program before it (unless a breakpoint was set       *)
(* twice), and only "c" lets it run.                                       *)
StepInv ==
    /\ tracee = "stepping" => phase \in {"over", "single"} /\ (~twice => mem[rip] = "insn")
    /\ tracee = "running" => phase \in {"cont", "gone"}
    /\ phase = "over" => cmd \in {"c", "si", "step"}
    /\ phase = "single" => cmd \in {"si", "step"}
    /\ phase = "cont" => cmd = "c"

LEMMA StepFromStep ==
    ASSUME IInv, \A a \in Set : mem[a] = "int3", NEW pc \in Addrs, StepFrom(pc),
           rip' = pc, twice' = twice, cmd' \in {"c", "si", "step"},
           cmd' = "c" => pc \in Set
    PROVE  StepInv'
<1>1. ~twice => mem'[pc] = "insn"
  BY StepFromPatch DEF IInv, DebugInv
<1> QED
  BY <1>1 DEF StepFrom, StepInv

LEMMA UserStep == ASSUME IInv, StepInv, User PROVE StepInv'
<1>1. CASE \E a \in Addrs : SetBreakpoint(a)
  BY <1>1 DEF SetBreakpoint, StepInv
<1>2. CASE Quit
  BY <1>2 DEF Quit, Leave, StepInv
<1>3. CASE StepInstruction \/ StepIn
  <2>1. PICK c \in {"si", "step"} : Begin(c) /\ StepFrom(rip)
    BY <1>3 DEF StepInstruction, StepIn
  <2> QED
    BY <2>1, BeginFacts, StepFromStep DEF Begin
<1>4. CASE Continue
  <2>1. Begin("c")
    BY <1>4 DEF Continue
  <2>2. CASE rip \in Set
    BY <1>4, <2>1, <2>2, BeginFacts, StepFromStep DEF Begin, Continue
  <2>3. CASE rip \notin Set
    BY <1>4, <2>1, <2>3 DEF Begin, Continue, Cont, StepInv
  <2> QED
    BY <2>2, <2>3
<1> QED
  BY <1>1, <1>2, <1>3, <1>4 DEF User

LEMMA DebuggerStep == ASSUME IInv, StepInv, Debugger PROVE StepInv'
<1>1. CASE SteppedOver
  BY <1>1 DEF SteppedOver, Handled, Cont, Prompt, StepInv
<1>2. CASE SteppedOverAgain
  <2> DEFINE armed == [mem EXCEPT ![stepped] = "int3"]
  <2> DEFINE saved == [break_points EXCEPT ![stepped] = mem[stepped]]
  <2>1. /\ phase = "over" /\ cmd = "step" /\ cmd' = "step" /\ tracee = "stopped"
        /\ tracee' = "stepping" /\ twice' = twice /\ phase' \in {"over", "single"}
        /\ mem' = IF rip' \in Set THEN [armed EXCEPT ![rip'] = saved[rip']] ELSE armed
    BY <1>2 DEF SteppedOverAgain, Handled
  <2>2. rip' \in Addrs
    BY <1>2, HandledFacts DEF SteppedOverAgain
  <2>3. stepped \in Set /\ mem[stepped] = break_points[stepped] /\ Set \subseteq Addrs
    BY <2>1 DEF IInv, DebugInv, OverInv, TypeOK
  <2>4. mem \in [Addrs -> {"insn", "int3"}] /\ break_points \in [Set -> {"insn", "int3"}]
    BY DEF IInv, TypeOK
  <2>5. /\ \A a \in Addrs \ Set : mem[a] = "insn"
        /\ ~twice => \A a \in Set : break_points[a] = "insn"
    BY DEF IInv, DebugInv, TextIntact
  <2>6. ~twice => mem'[rip'] = "insn"
    <3>1. CASE rip' \in Set
      <4>1. mem'[rip'] = saved[rip']
        BY <2>1, <2>2, <2>4, <3>1
      <4>2. saved[rip'] = break_points[rip']
        BY <2>3, <2>4, <3>1
      <4> QED
        BY <2>5, <3>1, <4>1, <4>2
    <3>2. CASE rip' \notin Set
      BY <2>1, <2>2, <2>3, <2>4, <2>5, <3>2
    <3> QED
      BY <3>1, <3>2
  <2> QED
    BY <2>1, <2>6 DEF StepInv
<1>3. CASE Stepped
  <2>1. CASE Prompt
    BY <1>3, <2>1 DEF Stepped, Handled, Prompt, StepInv
  <2>2. CASE StepFrom(rip') /\ cmd = "step" /\ cmd' = "step" /\ twice' = twice
    <3>1. \A a \in Set : mem[a] = "int3"
      BY <1>3 DEF Stepped, Handled, IInv, DebugInv, Armed, Alive
    <3>2. rip' \in Addrs
      BY <1>3, HandledFacts DEF Stepped
    <3> QED
      BY <2>2, <3>1, <3>2, StepFromStep
  <2> QED
    BY <1>3, <2>1, <2>2 DEF Stepped
<1>4. CASE Continued
  BY <1>4 DEF Continued, Handled, Prompt, StepInv
<1>5. CASE Confused
  BY <1>5 DEF Confused, StepInv
<1>6. CASE HandleSigtrapFails \/ StepInFails
  BY <1>6 DEF HandleSigtrapFails, StepInFails, Leave, StepInv
<1> QED
  BY <1>1, <1>2, <1>3, <1>4, <1>5, <1>6 DEF Debugger

LEMMA StepHolds == Spec => []StepInv
<1>1. Init => StepInv
  BY DEF Init, StepInv
<1>2. IInv /\ StepInv /\ [Next]_vars => StepInv'
  <2> SUFFICES ASSUME IInv, StepInv, [Next]_vars PROVE StepInv'
    OBVIOUS
  <2>1. CASE Execute
    BY <2>1 DEF Execute, StepInv
  <2>2. CASE Signal
    BY <2>2 DEF Signal, StepInv
  <2>3. CASE UNCHANGED vars
    BY <2>3 DEF vars, StepInv
  <2> QED
    BY <2>1, <2>2, <2>3, UserStep, DebuggerStep DEF Next, Over
<1> QED
  BY <1>1, <1>2, DebuggerSafe, PTL DEF Spec

(* How far a command is from its end if the program executes nothing more  *)
(* of its own: a stop to look at, then perhaps a run into the next int3.   *)
Distance ==
    IF tracee = "stopped" THEN IF phase = "cont" THEN 1 ELSE 3
    ELSE IF tracee = "running" THEN 2 ELSE 1

(* While a command is executed every step is an instruction of the program,*)
(* a signal, or one that brings the prompt nearer; or the debugger fails   *)
(* where it has a location to show, after an int3 or in step_in.           *)
NoDetour ==
    InCommand /\ Alive /\ ~twice =>
        \/ Execute /\ mem[rip] = "insn"
        \/ Signal
        \/ phase' = "prompt"
        \/ InCommand' /\ Alive' /\ Distance' < Distance
        \/ phase' = "gone" /\ tracee = "stopped" /\ (why = "breakpoint" \/ cmd = "step")

(* A command can go on for ever only if the program or the signals do, and *)
(* fails only where it has a location to show: the debugger never steps    *)
(* over a breakpoint to the same breakpoint, and never steps without       *)
(* getting anywhere.                                                       *)
THEOREM NoDetourHolds == Spec => [][NoDetour]_vars
<1>1. ASSUME IInv, StepInv, Next, InCommand, Alive, ~twice
      PROVE  NoDetour
  <2> USE DEF NoDetour
  <2>1. CASE Execute
    <3>1. CASE tracee = "stepping"
      BY <1>1, <2>1, <3>1 DEF StepInv
    <3>2. CASE tracee = "running" /\ mem[rip] # "insn"
      <4>1. phase = "cont" /\ rip \in Addrs
        BY <1>1, <3>2 DEF StepInv, InCommand, IInv, DebugInv, ControlInv
      <4>2. mem[rip] = "int3"
        BY <1>1, <3>2, <4>1 DEF IInv, TypeOK
      <4> QED
        BY <1>1, <2>1, <3>2, <4>1, <4>2 DEF Execute, Distance, InCommand, Alive
    <3> QED
      BY <2>1, <3>1, <3>2 DEF Execute
  <2>2. CASE Debugger
    BY <1>1, <2>2
    DEF Debugger, SteppedOver, SteppedOverAgain, Stepped, Continued, Confused, Handled,
        HandleSigtrapFails, StepInFails, Leave, Cont, Prompt, StepFrom, Distance, InCommand, Alive
  <2>3. CASE User \/ Over
    BY <1>1, <2>3
    DEF User, SetBreakpoint, Continue, StepInstruction, StepIn, Begin, Quit, Over, InCommand
  <2> QED
    BY <1>1, <2>1, <2>2, <2>3 DEF Next
<1>2. IInv /\ StepInv /\ [Next]_vars => [NoDetour]_vars
  BY <1>1 DEF NoDetour
<1> QED
  BY <1>2, DebuggerSafe, StepHolds, PTL DEF Spec
=============================================================================
