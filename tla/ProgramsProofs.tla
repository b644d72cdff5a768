--------------------------- MODULE ProgramsProofs ---------------------------
(***************************************************************************)
(* The safety of the small programs.  Each has an invariant of its own; as  *)
(* only one of the programs moves, the steps of all the others keep it.     *)
(***************************************************************************)
EXTENDS MCPrograms, SequenceTheorems, FiniteSetTheorems, WellFoundedInduction, TLAPS

(* A step of the whole is one of a program that leaves the others alone.   *)
LEMMA OneRuns ==
    ASSUME [Next]_vars
    PROVE  /\ Z!Next \/ UNCHANGED zvars
           /\ N!Next \/ UNCHANGED nvars
           /\ M!Next \/ UNCHANGED mvars
           /\ D!Next \/ UNCHANGED dvars
           /\ U!Next \/ UNCHANGED uvars
           /\ H!Next \/ UNCHANGED hvars
           /\ I!Next \/ UNCHANGED ivars
BY DEF Next, vars, ZeroCopyRuns, NetfilterRuns, MinidumpRuns, DockerRuns,
       UcontextRuns, HwAddrRuns, IncrementsRuns, LaunchRuns

-----------------------------------------------------------------------------
(* DockerSteps                                                             *)

ProcStates == {"free", "init", "inside", "zombie", "stranger"}

(* The child keeps its pid until main has waited for it, and only          *)
(* processes of the container are in the cgroup.                           *)
StepsInv ==
    /\ proc \in [Pids -> ProcStates]
    /\ cloned \subseteq Pids /\ cgroup \subseteq Pids
    /\ \A p, q \in cloned : p = q
    /\ main = "clone" => cloned = {}
    /\ main \in {"write", "wait"} => \A p \in cloned : proc[p] \in {"init", "zombie"}
    /\ \A p \in cgroup : proc[p] \in {"init", "inside"}

LEMMA StepsMain == ASSUME StepsInv, D!Main PROVE StepsInv'
<1> USE DEF StepsInv, ProcStates
<1>1. CASE D!Clone
  BY <1>1 DEF D!Clone, D!Starts
<1>2. CASE D!WriteCgroup
  BY <1>2 DEF D!WriteCgroup
<1>3. CASE D!Wait
  BY <1>3 DEF D!Wait
<1> QED
  BY <1>1, <1>2, <1>3 DEF D!Main

(* The end of the namespace's init, whose children go with it.             *)
LEMMA StepsInitEnds ==
    ASSUME StepsInv, NEW p \in cloned, D!InitEnds(p),
           UNCHANGED <<main, cloned>>
    PROVE  StepsInv'
BY DEF StepsInv, ProcStates, D!InitEnds

LEMMA StepsSetup == ASSUME StepsInv, D!Setup \/ D!ShellEnds PROVE StepsInv'
<1>1. CASE D!SetRootdir
  BY <1>1 DEF StepsInv, D!SetRootdir
<1>2. CASE D!StartCmd
  <2>1. CASE main' = main /\ \E p \in cloned : D!InitEnds(p)
    BY <1>2, <2>1, StepsInitEnds DEF D!StartCmd
  <2>2. CASE UNCHANGED <<proc, cgroup>> /\ main' \in {main, "done"}
    BY <1>2, <2>2 DEF D!StartCmd, StepsInv
  <2> QED
    BY <1>2, <2>1, <2>2 DEF D!StartCmd
<1>3. CASE D!ShellEnds
  <2>1. CASE main' = main /\ \E p \in cloned : D!InitEnds(p)
    BY <1>3, <2>1, StepsInitEnds DEF D!ShellEnds
  <2>2. CASE UNCHANGED <<proc, cgroup>> /\ main' = "done"
    BY <1>3, <2>2 DEF D!ShellEnds, StepsInv
  <2> QED
    BY <1>3, <2>1, <2>2 DEF D!ShellEnds
<1> QED
  BY <1>1, <1>2, <1>3 DEF D!Setup

LEMMA StepsHost ==
    ASSUME StepsInv, NEW p \in Pids, D!Fork(p) \/ D!Stranger(p) \/ D!Ends(p)
    PROVE  StepsInv'
<1> USE DEF StepsInv, ProcStates
<1>1. CASE D!Fork(p)
  BY <1>1 DEF D!Fork, D!Starts
<1>2. CASE D!Stranger(p)
  BY <1>2 DEF D!Stranger, D!Starts
<1>3. CASE D!Ends(p)
  BY <1>3 DEF D!Ends
<1> QED
  BY <1>1, <1>2, <1>3

LEMMA StepsHolds == Spec => []StepsInv
<1>1. Init => StepsInv
  BY DEF Init, D!Init, StepsInv, ProcStates
<1>2. StepsInv /\ [Next]_vars => StepsInv'
  <2> SUFFICES ASSUME StepsInv, [Next]_vars PROVE StepsInv'
    OBVIOUS
  <2>1. CASE D!Next
    BY <2>1, StepsMain, StepsSetup, StepsHost DEF D!Next
  <2>2. CASE UNCHANGED dvars
    BY <2>2 DEF dvars, StepsInv
  <2> QED
    BY <2>1, <2>2, OneRuns
<1> QED
  BY <1>1, <1>2, PTL DEF Spec

(* While write_cgroup goes by the pid that clone returned nobody else can  *)
(* have it: no stranger is ever limited.                                   *)
THEOREM OnlyOursLimitedHolds == Spec => []OnlyOursLimited
<1>1. StepsInv => OnlyOursLimited
  BY DEF StepsInv, OnlyOursLimited, D!OnlyOursLimited
<1> QED
  BY <1>1, StepsHolds, PTL

(* With namespaces: the child is there until it has been waited for, what  *)
(* the shell started only as long as the shell, and main is through only   *)
(* when the child has ended.                                               *)
ReapInv ==
    /\ step # "chroot" =>
        /\ \A p \in Pids : proc[p] \in {"init", "zombie"} => p \in cloned
        /\ \A p \in Pids : proc[p] = "inside" => setup = "shell"
        /\ setup \in {"chdir", "execv", "shell"} => \E p \in cloned : proc[p] = "init"
        /\ setup \in {"chdir", "execv", "shell"} => main \in {"write", "wait", "crashed"}
        /\ setup = "ended" => main \in {"write", "wait", "done", "crashed"}
        /\ setup = "ended" /\ main # "crashed" =>
              \A p \in cloned : proc[p] = "zombie" <=> main \in {"write", "wait"}
        /\ setup = "ended" => cloned # {} /\ \A p \in Pids : proc[p] # "init"
        /\ setup \in {"none", "chdir", "execv", "shell", "ended"}
        /\ setup = "none" => cloned = {} /\ main \in {"clone", "failed"}
        /\ main \in {"clone", "failed"} => setup = "none"
    /\ step = "chroot" => IF setup = "ended" THEN main = "done" ELSE main = "exec"

(* Reaped without its fairness: after the shell main is through, has       *)
(* crashed, or has something that it can do; and when it is through        *)
(* nothing of the container is left.                                       *)
NothingLeft ==
    /\ setup = "ended" =>
          \/ main \in {"write", "crashed", "done"}
          \/ main = "wait" /\ \E p \in cloned : proc[p] = "zombie"
    /\ main = "done" /\ step # "chroot" =>
          setup = "ended" /\ \A p \in Pids : proc[p] \in {"free", "stranger"}

LEMMA ReapMain == ASSUME StepsInv, ReapInv, D!Main PROVE ReapInv'
<1>1. CASE D!Clone
  BY <1>1 DEF StepsInv, ReapInv, D!Clone, D!Starts
<1>2. CASE D!WriteCgroup
  BY <1>2 DEF StepsInv, ReapInv, D!WriteCgroup
<1>3. CASE D!Wait
  BY <1>3 DEF StepsInv, ReapInv, D!Wait
<1> QED
  BY <1>1, <1>2, <1>3 DEF D!Main

LEMMA ReapInitEnds ==
    ASSUME StepsInv, ReapInv, NEW p \in cloned, D!InitEnds(p),
           setup \in {"execv", "shell"}, setup' = "ended", step # "chroot",
           UNCHANGED <<step, main, cloned>>
    PROVE  ReapInv'
<1>1. proc[p] = "init"
  BY DEF StepsInv, ReapInv
<1>2. \A q \in Pids : proc'[q] = IF q = p THEN "zombie"
                                 ELSE IF proc[q] = "inside" THEN "free" ELSE proc[q]
  BY <1>1 DEF D!InitEnds
<1> QED
  BY <1>1, <1>2 DEF StepsInv, ReapInv

LEMMA ReapSetup == ASSUME StepsInv, ReapInv, D!Setup \/ D!ShellEnds PROVE ReapInv'
<1>1. CASE D!SetRootdir
  BY <1>1 DEF ReapInv, D!SetRootdir
<1>2. CASE D!StartCmd /\ setup' = "shell"
  BY <1>2 DEF ReapInv, D!StartCmd
<1>3. CASE (D!StartCmd \/ D!ShellEnds) /\ setup' = "ended" /\ step = "chroot"
  BY <1>3 DEF ReapInv, D!StartCmd, D!ShellEnds
<1>4. CASE (D!StartCmd \/ D!ShellEnds) /\ setup' = "ended" /\ step # "chroot"
  BY <1>4, ReapInitEnds DEF D!StartCmd, D!ShellEnds
<1> QED
  BY <1>1, <1>2, <1>3, <1>4 DEF D!Setup, D!StartCmd, D!ShellEnds

LEMMA ReapHost ==
    ASSUME StepsInv, ReapInv, NEW p \in Pids, D!Fork(p) \/ D!Stranger(p) \/ D!Ends(p)
    PROVE  ReapInv'
<1>1. CASE D!Fork(p)
  BY <1>1 DEF StepsInv, ReapInv, D!Fork, D!Starts
<1>2. CASE D!Stranger(p)
  BY <1>2 DEF StepsInv, ReapInv, D!Stranger, D!Starts
<1>3. CASE D!Ends(p)
  BY <1>3 DEF StepsInv, ReapInv, D!Ends
<1> QED
  BY <1>1, <1>2, <1>3

(* main never waits for a child that cannot be waited for, and once it has *)
(* waited no process of the container is left, for any number of pids.     *)
THEOREM NothingLeftHolds == Spec => []NothingLeft
<1>1. Init => ReapInv
  BY DEF Init, D!Init, ReapInv
<1>2. StepsInv /\ ReapInv /\ [Next]_vars => ReapInv'
  <2> SUFFICES ASSUME StepsInv, ReapInv, [Next]_vars PROVE ReapInv'
    OBVIOUS
  <2>1. CASE D!Next
    BY <2>1, ReapMain, ReapSetup, ReapHost DEF D!Next
  <2>2. CASE UNCHANGED dvars
    BY <2>2 DEF dvars, ReapInv
  <2> QED
    BY <2>1, <2>2, OneRuns
<1>3. StepsInv /\ ReapInv => NothingLeft
  BY DEF StepsInv, ReapInv, NothingLeft, ProcStates
<1> QED
  BY <1>1, <1>2, <1>3, StepsHolds, PTL DEF Spec

-----------------------------------------------------------------------------
(* Netfilter                                                               *)

(* A registered hook is a loaded module's; a packet still has to pass only *)
(* hooks that were there when it came in, and those are not freed under    *)
(* it.                                                                     *)
HooksInv ==
    /\ module \in [N!Modules -> {"out", "loaded", "leaving"}]
    /\ hooks \in Seq(N!Modules)
    /\ \A m \in N!Range(hooks) : module[m] = "loaded"
    /\ \A i, j \in DOMAIN hooks : hooks[i] = hooks[j] => i = j

PacketInv ==
    /\ pkt \in [Cpus -> N!Packets]
    /\ before \in [Cpus -> Seq(N!Modules)] /\ todo \in [Cpus -> Seq(N!Modules)]
    /\ fate \in [Cpus -> {"none", "passing", "accepted", "dropped"}]
    /\ \A c \in Cpus :
          /\ N!Range(todo[c]) \subseteq N!Range(before[c])
          /\ fate[c] = "passing" => \A m \in N!Range(before[c]) : module[m] # "out"

FilterInv == HooksInv /\ PacketInv

(* Taking an element out of a sequence closes the gap.                     *)
LEMMA RemoveAtFacts ==
    ASSUME NEW S, NEW s \in Seq(S), NEW i \in DOMAIN s
    PROVE  /\ N!RemoveAt(s, i) \in Seq(S) /\ Len(N!RemoveAt(s, i)) = Len(s) - 1
           /\ \A j \in 1..(Len(s) - 1) :
                 N!RemoveAt(s, i)[j] = IF j < i THEN s[j] ELSE s[j + 1]
<1> DEFINE front == SubSeq(s, 1, i - 1)
           back == SubSeq(s, i + 1, Len(s))
<1>1. Len(s) \in Nat /\ i \in 1..Len(s)
  OBVIOUS
<1>2. front \in Seq(S) /\ Len(front) = i - 1 /\ \A j \in 1..(i - 1) : front[j] = s[j]
  BY <1>1
<1>3. /\ back \in Seq(S) /\ Len(back) = Len(s) - i
      /\ \A j \in 1..(Len(s) - i) : back[j] = s[i + j]
  BY <1>1
<1> HIDE DEF front, back
<1>4. front \o back \in Seq(S) /\ Len(front \o back) = Len(s) - 1
  BY <1>1, <1>2, <1>3
<1>5. ASSUME NEW j \in 1..(Len(s) - 1)
      PROVE  (front \o back)[j] = IF j < i THEN s[j] ELSE s[j + 1]
  <2>1. CASE j < i
    <3>1. j \in 1..Len(front) /\ (front \o back)[j] = front[j]
      BY <1>1, <1>2, <1>3, <2>1
    <3> QED
      BY <1>2, <2>1, <3>1
  <2>2. CASE j >= i
    <3>1. (front \o back)[j] = back[j - Len(front)]
      <4>1. \A k \in 1..(Len(front) + Len(back)) :
              (front \o back)[k] = IF k <= Len(front) THEN front[k] ELSE back[k - Len(front)]
        BY <1>2, <1>3, ConcatProperties
      <4>2. j \in 1..(Len(front) + Len(back)) /\ ~(j <= Len(front))
        BY <1>1, <1>2, <1>3, <2>2
      <4> QED
        BY <4>1, <4>2, Zenon
    <3>2. j - Len(front) \in 1..(Len(s) - i) /\ i + (j - Len(front)) = j + 1
      BY <1>1, <1>2, <2>2
    <3> QED
      BY <1>1, <1>3, <2>2, <3>1, <3>2
  <2>3. j < i \/ j >= i
    BY <1>1
  <2> QED
    BY <2>1, <2>2, <2>3
<1> QED
  BY <1>4, <1>5 DEF N!RemoveAt, front, back

LEMMA FilterInit == Init => FilterInv
<1> SUFFICES ASSUME Init PROVE FilterInv
  OBVIOUS
<1>1. HooksInv
  BY DEF Init, N!Init, HooksInv, N!Modules, N!Range
<1>2. PacketInv
  BY DEF Init, N!Init, PacketInv, N!Modules, N!Packets, N!Range
<1> QED
  BY <1>1, <1>2 DEF FilterInv

(* Loading and unloading change no packet.                                 *)
LEMMA FilterModules ==
    ASSUME FilterInv, NEW m \in N!Modules,
           N!hook_init(m) \/ N!hook_exit(m) \/ N!Free(m)
    PROVE  FilterInv'
<1> USE DEF FilterInv, HooksInv
<1>1. CASE N!hook_init(m)
  <2>1. m \notin N!Range(hooks)
    BY <1>1 DEF N!hook_init
  <2>2. hooks' = hooks \/ hooks' = <<m>> \o hooks
    BY <1>1 DEF N!hook_init
  <2>3. HooksInv'
    <3>1. CASE hooks' = hooks
      BY <1>1, <2>1, <3>1 DEF N!hook_init, N!Range
    <3>2. CASE hooks' = <<m>> \o hooks
      BY <1>1, <2>1, <3>2 DEF N!hook_init, N!Range
    <3> QED
      BY <2>2, <3>1, <3>2
  <2>4. PacketInv'
    BY <1>1 DEF N!hook_init, PacketInv
  <2> QED
    BY <2>3, <2>4
<1>2. CASE N!hook_exit(m)
  <2>1. HooksInv'
    <3>1. CASE m \notin N!Range(hooks) /\ UNCHANGED hooks
      BY <1>2, <3>1 DEF N!hook_exit
    <3>2. ASSUME NEW i \in DOMAIN hooks, hooks[i] = m, hooks' = N!RemoveAt(hooks, i)
          PROVE  HooksInv'
      <4>1. /\ hooks' \in Seq(N!Modules) /\ Len(hooks') = Len(hooks) - 1
            /\ \A j \in 1..(Len(hooks) - 1) :
                  hooks'[j] = IF j < i THEN hooks[j] ELSE hooks[j + 1]
        BY <3>2, RemoveAtFacts
      <4>2. Len(hooks) \in Nat /\ DOMAIN hooks = 1..Len(hooks)
            /\ DOMAIN hooks' = 1..(Len(hooks) - 1)
        BY <4>1
      <4> DEFINE from(j) == IF j < i THEN j ELSE j + 1
      <4>3. \A j \in DOMAIN hooks' : /\ from(j) \in DOMAIN hooks /\ from(j) # i
                                     /\ hooks'[j] = hooks[from(j)]
        BY <4>1, <4>2
      <4>4. \A j, k \in DOMAIN hooks' : from(j) = from(k) => j = k
        BY <4>2
      <4> HIDE DEF from
      <4>5. \A j \in DOMAIN hooks' : hooks'[j] \in N!Range(hooks) /\ hooks'[j] # m
        BY <3>2, <4>3 DEF N!Range
      <4>6. \A j, k \in DOMAIN hooks' : hooks'[j] = hooks'[k] => j = k
        BY <4>3, <4>4
      <4>7. \A h \in N!Range(hooks') : module'[h] = "loaded"
        BY <1>2, <4>5 DEF N!hook_exit, N!Range
      <4> QED
        BY <1>2, <4>1, <4>6, <4>7 DEF N!hook_exit
    <3> QED
      BY <1>2, <3>1, <3>2 DEF N!hook_exit
  <2>2. PacketInv'
    BY <1>2 DEF N!hook_exit, PacketInv
  <2> QED
    BY <2>1, <2>2
<1>3. CASE N!Free(m)
  <2>1. HooksInv'
    BY <1>3 DEF N!Free
  <2>2. PacketInv'
    BY <1>3 DEF N!Free, PacketInv
  <2> QED
    BY <2>1, <2>2
<1> QED
  BY <1>1, <1>2, <1>3

(* A packet that comes in takes the hooks as they are.                     *)
LEMMA FilterReceive ==
    ASSUME FilterInv, NEW c \in Cpus, NEW p \in N!Packets, N!Receive(c, p)
    PROVE  FilterInv'
<1> USE DEF FilterInv, N!Receive
<1>1. HooksInv'
  BY DEF HooksInv
<1>2. PacketInv'
  <2>1. << >> \in Seq(N!Modules) /\ N!Range(<< >>) = {}
    BY DEF N!Range
  <2> QED
    BY <2>1 DEF HooksInv, PacketInv
<1> QED
  BY <1>1, <1>2

LEMMA HeadTail ==
    ASSUME NEW S, NEW s \in Seq(S), s # << >>
    PROVE  /\ Tail(s) \in Seq(S)
           /\ Head(s) \in N!Range(s)
           /\ N!Range(s) = {Head(s)} \cup N!Range(Tail(s))
<1>1. Len(s) \in Nat \ {0} /\ DOMAIN s = 1..Len(s) /\ Head(s) = s[1]
  OBVIOUS
<1>2. /\ Tail(s) \in Seq(S) /\ DOMAIN Tail(s) = 1..(Len(s) - 1)
      /\ \A j \in 1..(Len(s) - 1) : Tail(s)[j] = s[j + 1]
  BY <1>1
<1>3. \A j \in DOMAIN s : j = 1 \/ (j - 1 \in DOMAIN Tail(s) /\ s[j] = Tail(s)[j - 1])
  BY <1>1, <1>2
<1>4. \A j \in DOMAIN Tail(s) : j + 1 \in DOMAIN s /\ Tail(s)[j] = s[j + 1]
  BY <1>1, <1>2
<1>5. Head(s) \in N!Range(s)
  BY <1>1 DEF N!Range
<1>6. N!Range(Tail(s)) \subseteq N!Range(s)
  BY <1>4 DEF N!Range
<1>7. \A e \in N!Range(s) : e = Head(s) \/ e \in N!Range(Tail(s))
  <2> SUFFICES ASSUME NEW j \in DOMAIN s
               PROVE  s[j] = Head(s) \/ s[j] \in N!Range(Tail(s))
    BY DEF N!Range
  <2>1. CASE j = 1
    BY <1>1, <2>1
  <2>2. CASE j - 1 \in DOMAIN Tail(s) /\ s[j] = Tail(s)[j - 1]
    BY <2>2 DEF N!Range
  <2> QED
    BY <1>3, <2>1, <2>2
<1> QED
  BY <1>2, <1>5, <1>6, <1>7

(* A packet that has passed a hook has fewer to pass.                      *)
LEMMA FilterCall ==
    ASSUME FilterInv, NEW c \in Cpus, N!CallHook(c)
    PROVE  FilterInv'
<1> USE DEF FilterInv
<1>1. HooksInv'
  BY DEF N!CallHook, HooksInv
<1>2. todo[c] \in Seq(N!Modules) /\ todo[c] # << >> /\ fate[c] = "passing"
  BY DEF N!CallHook, PacketInv
<1>3. /\ Tail(todo[c]) \in Seq(N!Modules)
      /\ N!Range(Tail(todo[c])) \subseteq N!Range(todo[c])
  BY <1>2, HeadTail
<1>4. /\ todo' = [todo EXCEPT ![c] = Tail(todo[c])]
      /\ UNCHANGED <<module, hooks, pkt, before>>
      /\ fate' = fate \/ fate' = [fate EXCEPT ![c] = "dropped"]
  BY DEF N!CallHook, PacketInv
<1>5. PacketInv'
  BY <1>2, <1>3, <1>4 DEF PacketInv
<1> QED
  BY <1>1, <1>5

LEMMA FilterAccept ==
    ASSUME FilterInv, NEW c \in Cpus, N!Accept(c)
    PROVE  FilterInv'
<1> USE DEF FilterInv, N!Accept
<1>1. HooksInv'
  BY DEF HooksInv
<1>2. PacketInv'
  BY DEF PacketInv
<1> QED
  BY <1>1, <1>2

LEMMA FilterHolds == Spec => []FilterInv
<1>1. FilterInv /\ [Next]_vars => FilterInv'
  <2> SUFFICES ASSUME FilterInv, [Next]_vars PROVE FilterInv'
    OBVIOUS
  <2>1. CASE N!Next
    BY <2>1, FilterModules, FilterReceive, FilterCall, FilterAccept DEF N!Next
  <2>2. CASE UNCHANGED nvars
    BY <2>2 DEF nvars, FilterInv, HooksInv, PacketInv
  <2> QED
    BY <2>1, <2>2, OneRuns
<1> QED
  BY <1>1, FilterInit, PTL DEF Spec

(* With packets inside the hooks while modules come and go, nobody calls a *)
(* hook whose code is gone.                                                *)
THEOREM NoStaleHookHolds == Spec => []NoStaleHook
<1>1. FilterInv => NoStaleHook
  BY DEF FilterInv, PacketInv, NoStaleHook, N!NoStaleHook
<1> QED
  BY <1>1, FilterHolds, PTL

-----------------------------------------------------------------------------
(* Minidump                                                                *)

LEMMA Least ==
    ASSUME NEW a \in Nat, NEW b \in Nat
    PROVE  /\ M!Min({a, b}) = IF a <= b THEN a ELSE b
           /\ Z!Min({a, b}) = IF a <= b THEN a ELSE b
<1> DEFINE least == IF a <= b THEN a ELSE b
<1>1. least \in {a, b} /\ \A y \in {a, b} : least <= y
  OBVIOUS
<1>2. \A x \in {a, b} : (\A y \in {a, b} : x <= y) => x = least
  OBVIOUS
<1> HIDE DEF least
<1>3. (CHOOSE x \in {a, b} : \A y \in {a, b} : x <= y) = least
  BY <1>1, <1>2
<1> QED
  BY <1>3 DEF M!Min, Z!Min, least

LEMMA Greatest ==
    ASSUME NEW a \in Nat, NEW b \in Nat
    PROVE  M!Max({a, b}) = IF a >= b THEN a ELSE b
<1> DEFINE most == IF a >= b THEN a ELSE b
<1>1. most \in {a, b} /\ \A y \in {a, b} : most >= y
  OBVIOUS
<1>2. \A x \in {a, b} : (\A y \in {a, b} : x >= y) => x = most
  OBVIOUS
<1> HIDE DEF most
<1>3. (CHOOSE x \in {a, b} : \A y \in {a, b} : x >= y) = most
  BY <1>1, <1>2
<1> QED
  BY <1>3 DEF M!Max, most

LEMMA Wraps ==
    ASSUME NEW w \in Nat, NEW a \in Nat, a < w
    PROVE  (w + a) % w = a
OBVIOUS

(* What the headers leave of a segment is its payload, or more if it was   *)
(* padded, and is never negative.                                          *)
LEMMA SegmentLength ==
    ASSUME NEW f \in M!Frames, M!InPlace(f), f.ether = "IP", f.ip_p = "TCP",
           NEW length,
           length = (WORD + M!received(f) - M!sizeofEthernetHeader
                       - M!sizeofIPv4Header - f.th_len) % WORD
    PROVE  /\ length \in 0..BUF
           /\ M!Length(f) <= BUF => length >= f.payload
           /\ M!received(f) = M!Length(f) => length = f.payload
<1> DEFINE hdr == 34 + f.th_len
<1>1. f.payload \in Nat /\ f.th_len \in Nat /\ f.th_len <= 60
  <2>1. f.payload \in Payloads /\ f.th_len \in {20, 32}
    BY DEF M!Frames
  <2>2. \A k \in {20, 32} : k \in Nat /\ k <= 60
    OBVIOUS
  <2>3. Payloads \subseteq Nat
    BY DumpAssumption
  <2> QED
    BY <2>1, <2>2, <2>3
<1>2. f.ihl = 5 /\ f.first
  BY DEF M!InPlace
<1>3. M!Length(f) = hdr + f.payload /\ M!Length(f) \in Nat
  BY <1>1, <1>2 DEF M!Length, M!sizeofEthernetHeader
<1>4. hdr \in Nat /\ hdr <= BUF /\ BUF \in Nat /\ WORD \in Nat /\ BUF < WORD
  BY <1>1, DumpAssumption
<1>5. M!OnWire(f) \in Nat /\ M!OnWire(f) >= M!Length(f)
  BY <1>3, Greatest DEF M!OnWire, M!MinFrame
<1>6. M!received(f) = IF BUF <= M!OnWire(f) THEN BUF ELSE M!OnWire(f)
  BY <1>4, <1>5, Least DEF M!received
<1> HIDE DEF hdr
<1>7. /\ M!received(f) \in Nat /\ hdr <= M!received(f) /\ M!received(f) <= BUF
      /\ M!Length(f) <= BUF => M!Length(f) <= M!received(f)
  BY <1>1, <1>3, <1>4, <1>5, <1>6
<1>8. WORD + M!received(f) - M!sizeofEthernetHeader - M!sizeofIPv4Header - f.th_len
          = WORD + (M!received(f) - hdr)
  BY <1>1, <1>4, <1>7 DEF M!sizeofEthernetHeader, M!sizeofIPv4Header, hdr
<1>9. M!received(f) - hdr \in Nat /\ M!received(f) - hdr < WORD
  BY <1>4, <1>7
<1>10. length = M!received(f) - hdr
  BY <1>4, <1>8, <1>9, Wraps
<1> QED
  BY <1>1, <1>3, <1>4, <1>7, <1>10

DumpInv == frame \in M!Frames /\ LineExact

LEMMA NoFrameIsOne == M!NoFrame \in M!Frames
<1>1. PICK k \in Payloads : TRUE
  BY DumpAssumption
<1>2. [ether |-> "other", ihl |-> 5, ip_p |-> "TCP", first |-> TRUE, port8080 |-> TRUE,
       th_len |-> 20, payload |-> k, card |-> TRUE] \in M!Frames
  BY DEF M!Frames
<1>3. \E f \in M!Frames : f.ether = "other"
  BY <1>2
<1> QED
  BY <1>3 DEF M!NoFrame

LEMMA DumpDecodes ==
    ASSUME DumpInv, M!Decode
    PROVE  LineExact'
<1> SUFFICES ASSUME M!InPlace(frame) PROVE LineExact'
  BY DEF LineExact, M!LineExact, M!Decode
<1> USE DEF LineExact, M!LineExact
<1>1. frame \in M!Frames /\ frame' = frame
  BY DEF DumpInv, M!Decode
<1>2. PICK h \in M!Headers(frame) :
          line' = IF h.ether = "IP" /\ h.ip_p = "TCP" /\ h.th.port8080
                     THEN {(WORD + M!received(frame) - M!sizeofEthernetHeader
                               - M!sizeofIPv4Header - h.th.th_len) % WORD}
                     ELSE {}
  BY DEF M!Decode
<1>3. h.ether = frame.ether /\ h.ip_p = frame.ip_p
  BY DEF M!Headers, M!InPlace
<1>4. CASE frame.ether = "IP" /\ frame.ip_p = "TCP"
  <2>1. h.th = [port8080 |-> frame.port8080, th_len |-> frame.th_len]
    BY <1>4 DEF M!Headers, M!InPlace
  <2>2. CASE frame.port8080
    <3> DEFINE length == (WORD + M!received(frame) - M!sizeofEthernetHeader
                            - M!sizeofIPv4Header - frame.th_len) % WORD
    <3>1. line' = {length}
      BY <1>2, <1>3, <1>4, <2>1, <2>2
    <3>2. /\ length \in 0..BUF
          /\ M!Length(frame) <= BUF => length >= frame.payload
          /\ M!received(frame) = M!Length(frame) => length = frame.payload
      BY <1>1, <1>4, SegmentLength
    <3> HIDE DEF length
    <3>3. M!Length(frame)' = M!Length(frame) /\ M!received(frame)' = M!received(frame)
      BY <1>1 DEF M!Length, M!received, M!OnWire
    <3> QED
      BY <1>1, <1>4, <2>2, <3>1, <3>2, <3>3
  <2>3. CASE ~frame.port8080
    BY <1>1, <1>2, <1>3, <2>1, <2>3
  <2> QED
    BY <2>2, <2>3
<1>5. CASE ~(frame.ether = "IP" /\ frame.ip_p = "TCP")
  <2>1. line' = {}
    BY <1>2, <1>3, <1>5
  <2> QED
    BY <1>1, <1>5, <2>1
<1> QED
  BY <1>4, <1>5

(* The fixed offsets and the length from the frame's size are right for    *)
(* every frame whose headers are at those offsets, whatever the sizes of   *)
(* buf and of a word.                                                      *)
THEOREM LineExactHolds == Spec => []LineExact
<1>1. Init => DumpInv
  BY NoFrameIsOne DEF Init, M!Init, DumpInv, LineExact, M!LineExact
<1>2. DumpInv /\ [Next]_vars => DumpInv'
  <2> SUFFICES ASSUME DumpInv, [Next]_vars PROVE DumpInv'
    OBVIOUS
  <2>1. CASE M!Socket
    BY <2>1 DEF M!Socket, DumpInv, LineExact, M!LineExact
  <2>2. CASE M!Recv
    BY <2>2 DEF M!Recv, DumpInv, LineExact, M!LineExact
  <2>3. CASE M!Decode
    BY <2>3, DumpDecodes DEF M!Decode, DumpInv
  <2>4. CASE M!Turn
    BY <2>4, NoFrameIsOne DEF M!Turn, DumpInv, LineExact, M!LineExact
  <2>5. CASE UNCHANGED mvars
    BY <2>5 DEF mvars, DumpInv, LineExact, M!LineExact, M!InPlace, M!received, M!OnWire,
                M!Length
  <2> QED
    BY <2>1, <2>2, <2>3, <2>4, <2>5, OneRuns DEF M!Next
<1>3. DumpInv => LineExact
  BY DEF DumpInv
<1> QED
  BY <1>1, <1>2, <1>3, PTL DEF Spec

-----------------------------------------------------------------------------
(* ZeroCopy                                                                *)

Points == {"setup", "open", "seek", "accept", "read", "write", "fstat", "sendfile",
           "close", "dead"}
Served == {"connected", "stalled", "gone"}

ServerInv ==
    /\ program \in {"read_write", "sendfile"} /\ server \in Points
    /\ off \in Nat /\ n \in Nat /\ size \in Nat /\ off <= size
    /\ server = "write" => n <= off
    /\ server = "accept" /\ program = "read_write" => off = 0

(* A client waits in the backlog once, and nothing is sent to it before it *)
(* is accepted; only one is served.                                        *)
PlacesInv ==
    /\ backlog \in Seq(Clients) /\ cur \subseteq Clients /\ spoilt \subseteq Clients
    /\ client \in [Clients -> Served \cup {"away", "answered"}]
    /\ sent \in [Clients -> Seq(Nat)]
    /\ \A c, d \in cur : c = d
    /\ \A i, j \in DOMAIN backlog : backlog[i] = backlog[j] => i = j
    /\ \A i \in DOMAIN backlog : /\ client[backlog[i]] \in Served
                                /\ sent[backlog[i]] = << >> /\ backlog[i] \notin cur
    /\ \A c \in cur : client[c] \in Served
    /\ \A c \in Clients : client[c] = "away" => sent[c] = << >>

(* The client being served has what was read of the file before, if        *)
(* spoilt nothing beyond that, and at the end all that was in it when it   *)
(* was accepted.                                                           *)
UpTo(c, k) == \A i \in DOMAIN sent[c] : sent[c][i] <= k

ProgressInv ==
    /\ owed \in [Clients -> Nat] /\ \A c \in Clients : owed[c] <= size
    /\ \A c \in cur :
          /\ server = "read" => UpTo(c, off)
          /\ server = "write" => UpTo(c, off - n)
          /\ server \in {"fstat", "sendfile"} => sent[c] = << >>
    /\ \A c \in cur \ spoilt :
          /\ server = "read" => sent[c] = Z!Bytes(0, off)
          /\ server = "write" => sent[c] = Z!Bytes(0, off - n)
          /\ server = "sendfile" => owed[c] <= n
          /\ server = "close" => owed[c] <= Len(sent[c])

AnswerInv == ServerInv /\ PlacesInv /\ ProgressInv /\ AnswerIntact

LEMMA BytesFacts ==
    ASSUME NEW a \in Nat, NEW b \in Nat, a <= b
    PROVE  /\ Z!Bytes(a, b) \in Seq(Nat) /\ Len(Z!Bytes(a, b)) = b - a
           /\ Z!Bytes(0, a) \o Z!Bytes(a, b) = Z!Bytes(0, b)
<1>1. Z!Bytes(a, b) \in Seq(Nat) /\ Len(Z!Bytes(a, b)) = b - a
  BY DEF Z!Bytes
<1>2. Z!Bytes(0, a) \in Seq(Nat) /\ Len(Z!Bytes(0, a)) = a
  BY DEF Z!Bytes
<1>3. Z!Bytes(0, b) \in Seq(Nat) /\ Len(Z!Bytes(0, b)) = b
  BY DEF Z!Bytes
<1>4. ASSUME NEW k \in 1..b
      PROVE  (Z!Bytes(0, a) \o Z!Bytes(a, b))[k] = Z!Bytes(0, b)[k]
  <2>1. Z!Bytes(0, b)[k] = k
    BY DEF Z!Bytes
  <2>2. CASE k <= a
    <3>1. (Z!Bytes(0, a) \o Z!Bytes(a, b))[k] = Z!Bytes(0, a)[k]
      BY <1>1, <1>2, <2>2
    <3> QED
      BY <2>1, <2>2, <3>1 DEF Z!Bytes
  <2>3. CASE k > a
    <3>1. (Z!Bytes(0, a) \o Z!Bytes(a, b))[k] = Z!Bytes(a, b)[k - a]
      BY <1>1, <1>2, <2>3
    <3>2. Z!Bytes(a, b)[k - a] = k
      BY <2>3 DEF Z!Bytes
    <3> QED
      BY <2>1, <3>1, <3>2
  <2>4. k <= a \/ k > a
    OBVIOUS
  <2> QED
    BY <2>2, <2>3, <2>4
<1>5. /\ Z!Bytes(0, a) \o Z!Bytes(a, b) \in Seq(Nat)
      /\ Len(Z!Bytes(0, a) \o Z!Bytes(a, b)) = b
  BY <1>1, <1>2
<1>6. Z!Bytes(0, a) \o Z!Bytes(a, b) = Z!Bytes(0, b)
  BY <1>3, <1>4, <1>5, SeqEqual
<1> QED
  BY <1>1, <1>6

(* More of the file after what a client has is still in order.             *)
LEMMA MoreBytes ==
    ASSUME NEW s \in Seq(Nat), NEW a \in Nat, NEW k \in Nat, a <= k,
           \A i \in DOMAIN s : s[i] <= a,
           \A i, j \in DOMAIN s : i < j => s[i] < s[j],
           NEW t, t = s \o Z!Bytes(a, k)
    PROVE  /\ \A i \in DOMAIN t : t[i] <= k
           /\ \A i, j \in DOMAIN t : i < j => t[i] < t[j]
<1> DEFINE more == Z!Bytes(a, k)
<1>1. /\ more \in Seq(Nat) /\ Len(more) = k - a
      /\ \A i \in 1..(k - a) : more[i] = a + i
  BY BytesFacts DEF Z!Bytes
<1> HIDE DEF more
<1>2. /\ Len(s) \in Nat /\ DOMAIN s = 1..Len(s) /\ DOMAIN t = 1..(Len(s) + (k - a))
      /\ \A i \in 1..(Len(s) + (k - a)) :
            t[i] = IF i <= Len(s) THEN s[i] ELSE more[i - Len(s)]
  <2>1. t = s \o more
    BY DEF more
  <2>2. /\ s \o more \in Seq(Nat) /\ Len(s \o more) = Len(s) + Len(more)
        /\ \A i \in 1..(Len(s) + Len(more)) :
              (s \o more)[i] = IF i <= Len(s) THEN s[i] ELSE more[i - Len(s)]
    BY <1>1, ConcatProperties
  <2>3. Len(s) \in Nat /\ DOMAIN s = 1..Len(s)
    OBVIOUS
  <2>4. t \in Seq(Nat) /\ DOMAIN t = 1..Len(t)
    BY <2>1, <2>2
  <2> QED
    BY <1>1, <2>1, <2>2, <2>3, <2>4
<1>3. ASSUME NEW i \in DOMAIN t
      PROVE  \/ i \in DOMAIN s /\ t[i] = s[i] /\ t[i] \in Nat /\ t[i] <= a
             \/ i > Len(s) /\ t[i] = a + (i - Len(s)) /\ t[i] <= k /\ i \in Nat
  <2>1. CASE i <= Len(s)
    BY <1>2, <2>1
  <2>2. CASE i > Len(s)
    <3>1. i \in Nat /\ i <= Len(s) + (k - a) /\ Len(s) \in Nat
      BY <1>2, <1>3
    <3>2. i - Len(s) \in 1..(k - a)
      BY <2>2, <3>1
    <3>3. t[i] = more[i - Len(s)]
      <4>1. i \in 1..(Len(s) + (k - a))
        BY <1>2
      <4>2. t[i] = IF i <= Len(s) THEN s[i] ELSE more[i - Len(s)]
        BY <1>2, <4>1
      <4> QED
        BY <2>2, <3>1, <4>2
    <3>4. t[i] = a + (i - Len(s))
      BY <1>1, <3>2, <3>3
    <3> QED
      BY <2>2, <3>1, <3>2, <3>4
  <2> QED
    BY <1>2, <2>1, <2>2
<1>4. ASSUME NEW i \in DOMAIN t, NEW j \in DOMAIN t, i < j PROVE t[i] < t[j]
  <2>1. i \in Nat /\ j \in Nat
    BY <1>2
  <2>2. CASE j \in DOMAIN s /\ t[j] = s[j]
    <3>1. i \in DOMAIN s
      BY <1>2, <1>4, <2>1, <2>2
    <3> QED
      BY <1>2, <1>4, <2>2, <3>1
  <2>3. CASE j > Len(s) /\ t[j] = a + (j - Len(s))
    <3>1. CASE t[i] \in Nat /\ t[i] <= a
      BY <1>2, <2>1, <2>3, <3>1
    <3>2. CASE i > Len(s) /\ t[i] = a + (i - Len(s))
      BY <1>2, <1>4, <2>1, <2>3, <3>2
    <3> QED
      BY <1>3, <3>1, <3>2
  <2> QED
    BY <1>3, <2>2, <2>3
<1>5. ASSUME NEW i \in DOMAIN t PROVE t[i] <= k
  BY <1>3
<1> QED
  BY <1>4, <1>5

LEMMA NoBytes == Z!Bytes(0, 0) = << >> /\ Len(<< >>) = 0
BY DEF Z!Bytes

LEMMA AnswerInit == Init => AnswerInv
<1> SUFFICES ASSUME Init PROVE AnswerInv
  OBVIOUS
<1>1. ServerInv
  BY DEF Init, Z!Init, ServerInv, Points
<1>2. PlacesInv
  BY DEF Init, Z!Init, PlacesInv, Served
<1>3. ProgressInv
  BY DEF Init, Z!Init, ProgressInv
<1>4. AnswerIntact
  BY NoBytes DEF Init, Z!Init, AnswerIntact, Z!AnswerIntact, Z!InOrder
<1> QED
  BY <1>1, <1>2, <1>3, <1>4 DEF AnswerInv

(* Listen, Open and Seek serve nobody.                                     *)
LEMMA AnswerBefore ==
    ASSUME AnswerInv, Z!Listen \/ Z!Open \/ Z!Seek
    PROVE  AnswerInv'
<1> USE DEF AnswerInv, Z!At, Z!Goto, Z!Quit, Z!LoopHead
<1>1. CASE Z!Listen
  BY <1>1 DEF Z!Listen, ServerInv, PlacesInv, ProgressInv, AnswerIntact,
              Z!AnswerIntact, Z!InOrder, Points
<1>2. CASE Z!Open
  BY <1>2 DEF Z!Open, ServerInv, PlacesInv, ProgressInv, AnswerIntact,
              Z!AnswerIntact, Z!InOrder, Points
<1>3. CASE Z!Seek
  BY <1>3 DEF Z!Seek, ServerInv, PlacesInv, ProgressInv, AnswerIntact,
              Z!AnswerIntact, Z!InOrder, Points
<1> QED
  BY <1>1, <1>2, <1>3

(* The client at the head of the backlog has got nothing yet, and both     *)
(* programs begin at the first byte.                                       *)
LEMMA AnswerAccept ==
    ASSUME AnswerInv, Z!Accept
    PROVE  AnswerInv'
<1> USE DEF AnswerInv
<1> DEFINE c == Head(backlog)
<1>1. /\ server = "accept" /\ backlog # << >>
      /\ cur' = {c} /\ backlog' = Tail(backlog)
      /\ owed' = [owed EXCEPT ![c] = size]
      /\ server' = IF program = "read_write" THEN "read" ELSE "fstat"
      /\ UNCHANGED <<program, off, n, size, client, sent, spoilt>>
  BY DEF Z!Accept, Z!At, Z!Goto
<1>2. /\ backlog \in Seq(Clients) /\ Len(backlog) \in Nat \ {0}
      /\ c = backlog[1] /\ 1 \in DOMAIN backlog /\ c \in Clients
  BY <1>1 DEF PlacesInv
<1>3. /\ backlog' \in Seq(Clients) /\ DOMAIN backlog' = 1..(Len(backlog) - 1)
      /\ DOMAIN backlog = 1..Len(backlog)
      /\ \A i \in DOMAIN backlog' : /\ i + 1 \in DOMAIN backlog
                                    /\ backlog'[i] = backlog[i + 1]
  BY <1>1, <1>2
<1>4. sent[c] = << >> /\ client[c] \in Served
  BY <1>2 DEF PlacesInv
<1>5. \A i \in DOMAIN backlog' : backlog'[i] # c
  <2> SUFFICES ASSUME NEW i \in DOMAIN backlog' PROVE backlog'[i] # c
    OBVIOUS
  <2>1. i + 1 # 1
    BY <1>2, <1>3
  <2>2. i + 1 \in DOMAIN backlog /\ backlog'[i] = backlog[i + 1]
    BY <1>3
  <2>3. backlog[i + 1] # backlog[1]
    BY <1>2, <2>1, <2>2 DEF PlacesInv
  <2> QED
    BY <1>2, <2>2, <2>3
<1> HIDE DEF c
<1>6. ServerInv'
  BY <1>1 DEF ServerInv, Points
<1>7. PlacesInv'
  <2>1. \A i, j \in DOMAIN backlog' : backlog'[i] = backlog'[j] => i = j
    <3> SUFFICES ASSUME NEW i \in DOMAIN backlog', NEW j \in DOMAIN backlog',
                        backlog'[i] = backlog'[j]
                 PROVE  i = j
      OBVIOUS
    <3>1. i + 1 = j + 1
      BY <1>3 DEF PlacesInv
    <3> QED
      BY <1>2, <1>3, <3>1
  <2> QED
    BY <1>1, <1>2, <1>3, <1>4, <1>5, <2>1 DEF PlacesInv
<1>8. ProgressInv'
  <2>1. ASSUME NEW d \in cur' PROVE UpTo(d, off)'
    <3>1. DOMAIN (sent'[d]) = {}
      BY <1>1, <1>4
    <3> QED
      BY <3>1 DEF UpTo
  <2>2. server' = "read" => sent'[c] = Z!Bytes(0, off')
    BY <1>1, <1>4, NoBytes DEF ServerInv
  <2>3. server' \in {"read", "fstat"} /\ sent'[c] = << >> /\ cur' = {c}
    BY <1>1, <1>4
  <2>4. owed' \in [Clients -> Nat] /\ \A d \in Clients : owed'[d] <= size'
    BY <1>1, <1>2 DEF ServerInv, ProgressInv
  <2> QED
    BY <2>1, <2>2, <2>3, <2>4 DEF ProgressInv
<1>9. AnswerIntact'
  BY <1>1, <1>2, <1>4 DEF ProgressInv, AnswerIntact, Z!AnswerIntact, Z!InOrder, Served
<1> QED
  BY <1>6, <1>7, <1>8, <1>9

LEMMA AnswerRefused ==
    ASSUME AnswerInv, Z!AcceptFails
    PROVE  AnswerInv'
BY DEF AnswerInv, Z!AcceptFails, Z!Quit, Z!Goto, ServerInv, PlacesInv, ProgressInv,
       UpTo, AnswerIntact, Z!AnswerIntact, Z!InOrder, Points

(* read returns nothing only at the end of the file.                       *)
LEMMA AnswerRead ==
    ASSUME AnswerInv, Z!Read
    PROVE  AnswerInv'
<1> USE DEF AnswerInv
<1>1. server = "read" /\ UNCHANGED <<program, backlog, cur, size, client, sent, owed>>
  BY DEF Z!Read, Z!At
<1>2. CASE n' = Z!Min({BUFFER_SIZE, size - off}) /\ off' = off + n'
           /\ Z!Goto(IF n' > 0 THEN "write" ELSE "close") /\ UNCHANGED spoilt
  <2>1. BUFFER_SIZE \in Nat \ {0} /\ size - off \in Nat /\ off \in Nat /\ size \in Nat
    BY BufferAssumption DEF ServerInv
  <2>2. n' = IF BUFFER_SIZE <= size - off THEN BUFFER_SIZE ELSE size - off
    BY <1>2, <2>1, Least
  <2>3. /\ n' \in Nat /\ off' \in Nat /\ off' <= size /\ off' - n' = off /\ n' <= off'
        /\ n' = 0 => off = size
        /\ off' = off + n'
    BY <1>2, <2>1, <2>2
  <2>4. server' = IF n' > 0 THEN "write" ELSE "close"
    BY <1>2 DEF Z!Goto
  <2>5. ServerInv'
    BY <1>1, <2>1, <2>3, <2>4 DEF ServerInv, Points
  <2>6. PlacesInv' /\ AnswerIntact'
    BY <1>1, <1>2 DEF PlacesInv, AnswerIntact, Z!AnswerIntact, Z!InOrder
  <2>7. ProgressInv'
    <3>1. ASSUME NEW c \in cur \ spoilt, server' = "close" PROVE owed[c] <= Len(sent[c])
      <4>1. off = size
        BY <2>3, <2>4, <3>1
      <4>2. sent[c] = Z!Bytes(0, off) /\ owed[c] <= size
        BY <1>1, <3>1 DEF ProgressInv, PlacesInv
      <4>3. Len(Z!Bytes(0, off)) = off
        BY <2>1, BytesFacts
      <4> QED
        BY <4>1, <4>2, <4>3
    <3>2. \A c \in cur : UpTo(c, off) /\ UpTo(c, off - n)' /\ (server' # "read")
      BY <1>1, <2>3, <2>4 DEF ProgressInv, UpTo
    <3> QED
      BY <1>1, <1>2, <2>3, <2>4, <3>1, <3>2 DEF ProgressInv
  <2> QED
    BY <2>5, <2>6, <2>7
<1>3. CASE Z!Goto("close") /\ spoilt' = spoilt \cup cur /\ UNCHANGED <<n, off>>
  <2>1. ServerInv' /\ PlacesInv'
    BY <1>1, <1>3 DEF Z!Goto, ServerInv, PlacesInv, Points
  <2>2. ProgressInv'
    BY <1>1, <1>3 DEF Z!Goto, ProgressInv
  <2>3. AnswerIntact'
    BY <1>1, <1>3 DEF AnswerIntact, Z!AnswerIntact, Z!InOrder
  <2> QED
    BY <2>1, <2>2, <2>3
<1> QED
  BY <1>2, <1>3 DEF Z!Read

(* What a call delivers continues what the client has.                     *)
LEMMA AnswerDeliver ==
    ASSUME AnswerInv, NEW c \in cur, NEW a \in Nat, NEW b \in Nat, a <= b,
           UpTo(c, a), c \notin spoilt => sent[c] = Z!Bytes(0, a),
           NEW then \in {"read", "close"},
           Z!Deliver(c, a, b, then), server \in {"write", "sendfile"},
           then = "read" => b = off,
           then = "close" /\ c \notin spoilt => owed[c] <= b,
           UNCHANGED <<program, backlog, cur, off, n, size, client, owed>>
    PROVE  AnswerInv'
<1> USE DEF AnswerInv
<1>1. CASE Z!Quit /\ UNCHANGED <<sent, spoilt>>
  BY <1>1 DEF Z!Quit, Z!Goto, ServerInv, PlacesInv, ProgressInv, AnswerIntact,
              Z!AnswerIntact, Z!InOrder, Points
<1>2. CASE ~(Z!Quit /\ UNCHANGED <<sent, spoilt>>)
  <2>1. PICK k \in a..b : /\ sent' = [sent EXCEPT ![c] = sent[c] \o Z!Bytes(a, k)]
                          /\ spoilt' = IF k < b THEN spoilt \cup {c} ELSE spoilt
                          /\ server' = then
    BY <1>2 DEF Z!Deliver, Z!Goto
  <2>2. k \in Nat /\ a <= k /\ k <= b /\ c \in Clients /\ spoilt \subseteq spoilt'
    BY <2>1 DEF PlacesInv
  <2>3. Z!Bytes(a, k) \in Seq(Nat) /\ sent[c] \in Seq(Nat)
    BY <2>2, BytesFacts DEF PlacesInv
  <2>4. ServerInv'
    BY <2>1 DEF ServerInv, Points
  <2>5. PlacesInv'
    <3>1. sent' \in [Clients -> Seq(Nat)] /\ \A d \in Clients \ {c} : sent'[d] = sent[d]
      BY <2>1, <2>2, <2>3 DEF PlacesInv
    <3>2. \A i \in DOMAIN backlog : backlog[i] \in Clients \ {c}
      BY DEF PlacesInv
    <3>3. client[c] # "away" /\ spoilt' \subseteq Clients
      BY <2>1, <2>2 DEF PlacesInv, Served
    <3> QED
      BY <3>1, <3>2, <3>3 DEF PlacesInv
  <2>6. ASSUME c \notin spoilt' PROVE sent'[c] = Z!Bytes(0, b) /\ Len(sent'[c]) = b
    <3>1. k = b /\ c \notin spoilt
      BY <2>1, <2>2, <2>6
    <3>2. sent'[c] = Z!Bytes(0, a) \o Z!Bytes(a, b)
      BY <2>1, <2>2, <3>1 DEF PlacesInv
    <3>3. Len(Z!Bytes(0, b)) = b
      BY BytesFacts
    <3> QED
      BY <3>2, <3>3, BytesFacts
  <2>7. \A d \in Clients : d # c => sent'[d] = sent[d]
    BY <2>1 DEF PlacesInv
  <2>8. /\ \A i \in DOMAIN sent'[c] : sent'[c][i] <= k
        /\ \A i, j \in DOMAIN sent'[c] : i < j => sent'[c][i] < sent'[c][j]
    <3>1. sent'[c] = sent[c] \o Z!Bytes(a, k)
      BY <2>1, <2>2 DEF PlacesInv
    <3>2. /\ \A i \in DOMAIN sent[c] : sent[c][i] <= a
          /\ \A i, j \in DOMAIN sent[c] : i < j => sent[c][i] < sent[c][j]
      BY <2>2 DEF UpTo, AnswerIntact, Z!AnswerIntact, Z!InOrder
    <3> QED
      BY <2>2, <2>3, <3>1, <3>2, MoreBytes
  <2>9. ProgressInv'
    <3>1. ASSUME then = "read" PROVE UpTo(c, off)'
      <4>1. DOMAIN sent'[c] = 1..Len(sent'[c]) /\ \A i \in DOMAIN sent'[c] : sent'[c][i] \in Nat
        BY <2>2, <2>5 DEF PlacesInv
      <4> QED
        BY <2>2, <2>8, <3>1, <4>1 DEF UpTo
    <3>2. cur' = {c}
      BY DEF PlacesInv
    <3> QED
      BY <2>1, <2>2, <2>6, <3>1, <3>2 DEF ProgressInv, PlacesInv
  <2>10. Z!InOrder'
    BY <2>7, <2>8 DEF AnswerIntact, Z!AnswerIntact, Z!InOrder
  <2>11. AnswerIntact'
    <3> SUFFICES ASSUME NEW d \in Clients \ spoilt'
                 PROVE  /\ sent'[d] = Z!Bytes(0, Len(sent'[d]))
                        /\ client[d] = "answered" => Len(sent'[d]) >= owed[d]
      BY <2>10 DEF AnswerIntact, Z!AnswerIntact
    <3>1. CASE d = c
      BY <2>6, <3>1 DEF PlacesInv, Served
    <3>2. CASE d # c
      BY <2>2, <2>7, <3>2 DEF AnswerIntact, Z!AnswerIntact
    <3> QED
      BY <3>1, <3>2
  <2> QED
    BY <2>4, <2>5, <2>9, <2>11
<1> QED
  BY <1>1, <1>2

LEMMA AnswerWrite ==
    ASSUME AnswerInv, Z!Write \/ Z!Fstat \/ Z!Sendfile
    PROVE  AnswerInv'
<1> USE DEF AnswerInv
<1>1. CASE Z!Write
  <2>1. /\ server = "write" /\ off \in Nat /\ n \in Nat /\ n <= off /\ off - n \in Nat
        /\ off - n <= off
        /\ UNCHANGED <<program, backlog, cur, off, n, size, client, owed>>
    BY <1>1 DEF Z!Write, Z!At, ServerInv
  <2>2. PICK c \in cur : Z!Deliver(c, off - n, off, "read")
    BY <1>1 DEF Z!Write
  <2>3. UpTo(c, off - n) /\ (c \notin spoilt => sent[c] = Z!Bytes(0, off - n))
    BY <2>1 DEF ProgressInv
  <2> QED
    BY <2>1, <2>2, <2>3, AnswerDeliver
<1>2. CASE Z!Fstat
  <2>1. /\ server = "fstat" /\ server' = "sendfile" /\ n' \in Nat
        /\ UNCHANGED <<program, backlog, cur, off, size, client, sent, owed>>
        /\ (n' = size /\ spoilt' = spoilt) \/ spoilt' = spoilt \cup cur
    BY <1>2, BufferAssumption DEF Z!Fstat, Z!At, Z!Goto, ServerInv
  <2>2. ServerInv' /\ PlacesInv' /\ AnswerIntact'
    BY <2>1 DEF ServerInv, PlacesInv, AnswerIntact, Z!AnswerIntact, Z!InOrder, Points
  <2>3. ProgressInv'
    BY <2>1 DEF ProgressInv, PlacesInv
  <2> QED
    BY <2>2, <2>3
<1>3. CASE Z!Sendfile
  <2>1. /\ server = "sendfile" /\ n \in Nat /\ size \in Nat
        /\ UNCHANGED <<program, backlog, cur, off, n, size, client, owed>>
    BY <1>3 DEF Z!Sendfile, Z!At, ServerInv
  <2>2. CASE Z!Quit /\ UNCHANGED <<sent, spoilt>>
    BY <2>1, <2>2 DEF Z!Quit, Z!Goto, ServerInv, PlacesInv, ProgressInv, AnswerIntact,
                      Z!AnswerIntact, Z!InOrder, Points
  <2>3. CASE \E c \in cur : Z!Deliver(c, 0, Z!Min({n, size}), "close")
    <3>1. PICK c \in cur : Z!Deliver(c, 0, Z!Min({n, size}), "close")
      BY <2>3
    <3>2. Z!Min({n, size}) = IF n <= size THEN n ELSE size
      BY <2>1, Least
    <3>3. /\ UpTo(c, 0) /\ sent[c] = Z!Bytes(0, 0)
          /\ c \notin spoilt => owed[c] <= n /\ owed[c] <= size
      BY <2>1, NoBytes DEF ProgressInv, PlacesInv, UpTo
    <3>4. /\ Z!Min({n, size}) \in Nat /\ 0 <= Z!Min({n, size})
          /\ c \notin spoilt => owed[c] <= Z!Min({n, size})
      BY <2>1, <3>2, <3>3
    <3> QED
      BY <2>1, <3>1, <3>3, <3>4, AnswerDeliver
  <2> QED
    BY <1>3, <2>2, <2>3 DEF Z!Sendfile
<1> QED
  BY <1>1, <1>2, <1>3

LEMMA AnswerClose ==
    ASSUME AnswerInv, Z!Close
    PROVE  AnswerInv'
<1> USE DEF AnswerInv, Z!Close, Z!At, Z!Goto, Z!LoopHead
<1>1. ServerInv'
  BY DEF ServerInv, Points
<1>2. PlacesInv'
  BY DEF PlacesInv, Served
<1>3. ProgressInv'
  BY DEF ProgressInv
<1>4. AnswerIntact'
  BY DEF AnswerIntact, Z!AnswerIntact, Z!InOrder, ProgressInv, PlacesInv
<1> QED
  BY <1>1, <1>2, <1>3, <1>4

(* The world outside changes no answer; whoever connects is new.           *)
LEMMA AnswerWorld ==
    ASSUME AnswerInv, (\E c \in Clients : Z!Connect(c) \/ Z!Neglect(c)) \/ Z!Grow
    PROVE  AnswerInv'
<1> USE DEF AnswerInv
<1>1. ASSUME NEW c \in Clients, Z!Connect(c) PROVE AnswerInv'
  <2>1. /\ \A i \in DOMAIN backlog : backlog[i] # c
        /\ c \notin cur /\ sent[c] = << >>
    BY <1>1 DEF Z!Connect, PlacesInv, Served
  <2>2. PlacesInv'
    <3>1. /\ backlog \in Seq(Clients) /\ backlog' = Append(backlog, c)
          /\ client' = [client EXCEPT ![c] = "connected"]
          /\ UNCHANGED <<cur, sent, spoilt>>
      BY <1>1 DEF Z!Connect, PlacesInv
    <3>2. /\ backlog' \in Seq(Clients) /\ DOMAIN backlog' = 1..(Len(backlog) + 1)
          /\ Len(backlog) \in Nat /\ DOMAIN backlog = 1..Len(backlog)
          /\ backlog'[Len(backlog) + 1] = c
          /\ \A i \in DOMAIN backlog : backlog'[i] = backlog[i]
      BY <3>1
    <3>3. \A i \in DOMAIN backlog' : i \in DOMAIN backlog \/ i = Len(backlog) + 1
      BY <3>2
    <3>4. \A i, j \in DOMAIN backlog' : backlog'[i] = backlog'[j] => i = j
      BY <2>1, <3>2, <3>3 DEF PlacesInv
    <3>5. client' \in [Clients -> Served \cup {"away", "answered"}]
      BY <3>1 DEF PlacesInv, Served
    <3>6. \A i \in DOMAIN backlog' : /\ client'[backlog'[i]] \in Served
                                     /\ sent[backlog'[i]] = << >> /\ backlog'[i] \notin cur
      BY <2>1, <3>1, <3>2, <3>3 DEF PlacesInv, Served
    <3> QED
      BY <2>1, <3>1, <3>2, <3>4, <3>5, <3>6 DEF PlacesInv
  <2>3. ServerInv' /\ ProgressInv'
    BY <1>1 DEF Z!Connect, ServerInv, ProgressInv, UpTo
  <2>4. AnswerIntact'
    BY <1>1 DEF Z!Connect, PlacesInv, AnswerIntact, Z!AnswerIntact, Z!InOrder
  <2> QED
    BY <2>2, <2>3, <2>4
<1>2. ASSUME NEW c \in Clients, Z!Neglect(c) PROVE AnswerInv'
  <2>1. PlacesInv'
    <3>1. PICK to \in {"stalled", "gone"} : client' = [client EXCEPT ![c] = to]
      BY <1>2 DEF Z!Neglect
    <3>2. /\ client' \in [Clients -> Served \cup {"away", "answered"}]
          /\ client'[c] \in Served /\ client[c] \in Served
          /\ \A d \in Clients \ {c} : client'[d] = client[d]
      BY <1>2, <3>1 DEF Z!Neglect, PlacesInv, Served
    <3>3. "away" \notin Served /\ UNCHANGED <<backlog, cur, sent, spoilt>>
      BY <1>2 DEF Z!Neglect, Served
    <3>4. \A d \in Clients : /\ client[d] \in Served => client'[d] \in Served
                             /\ client'[d] = "away" => client[d] = "away"
      BY <3>2, <3>3
    <3>5. \A i \in DOMAIN backlog : backlog[i] \in Clients
      BY DEF PlacesInv
    <3> QED
      BY <3>2, <3>3, <3>4, <3>5 DEF PlacesInv
  <2>2. ServerInv' /\ ProgressInv'
    BY <1>2 DEF Z!Neglect, ServerInv, ProgressInv, UpTo
  <2>3. AnswerIntact'
    BY <1>2 DEF Z!Neglect, PlacesInv, AnswerIntact, Z!AnswerIntact, Z!InOrder
  <2> QED
    BY <2>1, <2>2, <2>3
<1>3. CASE Z!Grow
  <2>1. ServerInv'
    BY <1>3 DEF Z!Grow, ServerInv
  <2>2. PlacesInv' /\ AnswerIntact'
    BY <1>3 DEF Z!Grow, PlacesInv, AnswerIntact, Z!AnswerIntact, Z!InOrder
  <2>3. ProgressInv'
    BY <1>3 DEF Z!Grow, ServerInv, ProgressInv, UpTo
  <2> QED
    BY <2>1, <2>2, <2>3
<1> QED
  BY <1>1, <1>2, <1>3

LEMMA AnswerHolds == Spec => []AnswerInv
<1>1. AnswerInv /\ [Next]_vars => AnswerInv'
  <2> SUFFICES ASSUME AnswerInv, [Next]_vars PROVE AnswerInv'
    OBVIOUS
  <2>1. CASE Z!Next
    BY <2>1, AnswerBefore, AnswerAccept, AnswerRefused, AnswerRead, AnswerWrite, AnswerClose,
       AnswerWorld DEF Z!Next, Z!Server
  <2>2. CASE UNCHANGED zvars
    BY <2>2 DEF zvars, AnswerInv, ServerInv, PlacesInv, ProgressInv, UpTo, AnswerIntact,
                Z!AnswerIntact, Z!InOrder
  <2> QED
    BY <2>1, <2>2, OneRuns
<1> QED
  BY <1>1, AnswerInit, PTL DEF Spec

(* Every client gets the file from its first byte and without a gap, as    *)
(* much of it as there was, however many clients, whatever the buffer.     *)
THEOREM AnswerIntactHolds == Spec => []AnswerIntact
<1>1. AnswerInv => AnswerIntact
  BY DEF AnswerInv
<1> QED
  BY <1>1, AnswerHolds, PTL

(* The server's steps up to its next accept, if the file stays as it is.   *)
ToAccept ==
    CASE server \in {"accept", "dead"} -> 0
      [] server = "seek" -> 1
      [] server \in {"open", "close"} -> 2
      [] server \in {"setup", "sendfile"} -> 3
      [] server = "fstat" -> 4
      [] server = "read" -> 2 * (size - off) + 3
      [] server = "write" -> 2 * (size - off) + 4

(* Answered without its fairness: every step of the server is one less to  *)
(* its next accept, and each accept that does not fail takes the first     *)
(* client from the backlog, which otherwise only grows at its end.         *)
Serves ==
    /\ server' # server =>
          \/ ToAccept \in Nat /\ ToAccept' \in Nat /\ ToAccept' < ToAccept
          \/ server = "accept" /\ server' = "dead"
          \/ /\ server = "accept" /\ backlog # <<>>
             /\ cur' = {Head(backlog)} /\ backlog' = Tail(backlog)
    /\ \/ backlog' = backlog
       \/ server = "accept" /\ backlog # <<>> /\ backlog' = Tail(backlog)
       \/ \E c \in Clients : backlog' = Append(backlog, c)

LEMMA ReadServes == ASSUME AnswerInv, Z!Read PROVE Serves
<1>1. /\ server = "read" /\ size' = size /\ size \in Nat /\ off \in Nat /\ off <= size
      /\ backlog' = backlog
  BY DEF Z!Read, Z!At, AnswerInv, ServerInv
<1>2. CASE server' = "close"
  BY <1>1, <1>2 DEF Serves, ToAccept
<1>3. CASE server' = "write"
  <2>1. BUFFER_SIZE \in Nat \ {0} /\ size - off \in Nat
    BY <1>1, BufferAssumption
  <2>2. n' = Z!Min({BUFFER_SIZE, size - off}) /\ off' = off + n' /\ n' > 0
    BY <1>3 DEF Z!Read, Z!Goto
  <2>3. off' \in Nat /\ off < off' /\ off' <= size
    <3>1. n' = IF BUFFER_SIZE <= size - off THEN BUFFER_SIZE ELSE size - off
      BY <2>1, <2>2, Least
    <3> QED
      BY <1>1, <2>1, <2>2, <3>1
  <2> QED
    BY <1>1, <1>3, <2>3 DEF Serves, ToAccept
<1> QED
  BY <1>2, <1>3 DEF Z!Read, Z!Goto

(* The server comes to every client in the backlog, in their order, unless *)
(* a call blocks or ends it: its loops end for every file and buffer.      *)
THEOREM ServesHolds == Spec => [][Serves]_vars
<1>1. ASSUME AnswerInv, [Next]_vars PROVE Serves
  <2> USE DEF Z!At, Z!Goto, Z!Quit
  <2>1. size \in Nat /\ off \in Nat /\ off <= size /\ program \in {"read_write", "sendfile"}
    BY <1>1 DEF AnswerInv, ServerInv
  <2>2. CASE Z!Listen \/ Z!Open \/ Z!Seek \/ Z!Close
    BY <2>1, <2>2 DEF Z!Listen, Z!Open, Z!Seek, Z!Close, Z!LoopHead, Serves, ToAccept
  <2>3. CASE Z!Accept \/ Z!AcceptFails
    BY <2>3 DEF Z!Accept, Z!AcceptFails, Serves
  <2>4. CASE Z!Write
    <3>1. /\ server = "write" /\ server' \in {"read", "dead"}
          /\ UNCHANGED <<backlog, off, size>>
      BY <2>4 DEF Z!Write, Z!Deliver
    <3>2. /\ ToAccept = 2 * (size - off) + 4
          /\ ToAccept' \in {2 * (size - off) + 3, 0}
      BY <2>1, <3>1 DEF ToAccept
    <3> QED
      BY <2>1, <3>1, <3>2 DEF Serves
  <2>5. CASE Z!Fstat
    BY <2>5 DEF Z!Fstat, Serves, ToAccept
  <2>6. CASE Z!Sendfile
    BY <2>6 DEF Z!Sendfile, Z!Deliver, Serves, ToAccept
  <2>7. CASE (\E c \in Clients : Z!Connect(c) \/ Z!Neglect(c)) \/ Z!Grow
    BY <2>7 DEF Z!Connect, Z!Neglect, Z!Grow, Serves
  <2>8. CASE UNCHANGED zvars
    BY <2>8 DEF zvars, Serves
  <2> QED
    BY <1>1, <2>2, <2>3, <2>4, <2>5, <2>6, <2>7, <2>8, ReadServes, OneRuns
       DEF Z!Next, Z!Server
<1>2. AnswerInv /\ [Next]_vars => [Serves]_vars
  BY <1>1
<1> QED
  BY <1>2, AnswerHolds, PTL DEF Spec

-----------------------------------------------------------------------------
(* Increments                                                              *)

AddInv ==
    /\ test \in {"cas", "tls", "global"}
    /\ at \in [Threads -> {"load", "store", "ended"}]
    /\ done \in [Threads -> Nat] /\ old_val \in [Threads -> Nat]
    /\ mem \in [Threads \cup {MainThread} -> [{"counter", "g_foo", "g_bar"} -> Nat]]
    /\ \A t \in Threads :
          /\ done[t] <= Len(I!Additions)
          /\ at[t] = "store" => done[t] < Len(I!Additions)
          /\ at[t] = "ended" => done[t] = Len(I!Additions)

(* The threads that have made k additions, and all the additions made.     *)
Past(k) == {t \in Threads : done[t] >= k}
Made == {p \in Threads \X (1..Rounds) : p[2] <= done[p[1]]}

CasInv == test = "cas" => mem[MainThread].counter = Cardinality(Made)

(* Each thread has its own variables, and main's stay as they were.        *)
TlsInv ==
    test = "tls" =>
        /\ mem[MainThread].g_foo = 0 /\ mem[MainThread].g_bar = 0
        /\ \A t \in Threads :
              /\ mem[t].g_foo = IF done[t] >= 1 THEN 1 ELSE 0
              /\ mem[t].g_bar = IF done[t] >= 2 THEN 2 ELSE 0
              /\ at[t] = "store" => old_val[t] = 0

(* What is in a variable, or was loaded from it, is at most what has been  *)
(* added, and not nothing once anything has been.                          *)
GlobalInv ==
    test = "global" =>
        /\ mem[MainThread].g_foo <= Cardinality(Past(1))
        /\ mem[MainThread].g_bar <= 2 * Cardinality(Past(2))
        /\ Past(1) # {} => mem[MainThread].g_foo >= 1
        /\ Past(2) # {} => mem[MainThread].g_bar >= 2
        /\ \A t \in Threads :
              at[t] = "store" =>
                  IF done[t] = 0 THEN old_val[t] <= Cardinality(Past(1))
                                 ELSE old_val[t] <= 2 * Cardinality(Past(2))

TotalInv == AddInv /\ CasInv /\ TlsInv /\ GlobalInv /\ TotalsRight

LEMMA AdditionsFacts ==
    /\ test = "cas" => /\ Len(I!Additions) = Rounds
                       /\ \A i \in 1..Rounds : I!Additions[i] = [var |-> "counter", by |-> 1]
    /\ test # "cas" => /\ Len(I!Additions) = 2
                       /\ I!Additions[1] = [var |-> "g_foo", by |-> 1]
                       /\ I!Additions[2] = [var |-> "g_bar", by |-> 2]
BY ThreadsAssumption DEF I!Additions, I!increment, I!thread_func

(* The addition that a thread is about to make.                            *)
LEMMA NowFacts ==
    ASSUME AddInv, NEW t \in Threads, done[t] < Len(I!Additions)
    PROVE  \/ /\ test = "cas" /\ I!Now(t) = [var |-> "counter", by |-> 1]
              /\ done[t] + 1 \in 1..Rounds
           \/ test # "cas" /\ done[t] = 0 /\ I!Now(t) = [var |-> "g_foo", by |-> 1]
           \/ test # "cas" /\ done[t] = 1 /\ I!Now(t) = [var |-> "g_bar", by |-> 2]
<1>1. done[t] \in Nat
  BY DEF AddInv
<1>2. CASE test = "cas"
  <2>1. done[t] + 1 \in 1..Rounds
    BY <1>1, <1>2, AdditionsFacts, ThreadsAssumption
  <2> QED
    BY <1>2, <2>1, AdditionsFacts DEF I!Now
<1>3. CASE test # "cas"
  <2>1. Len(I!Additions) = 2
    BY <1>3, AdditionsFacts
  <2>2. done[t] = 0 \/ done[t] = 1
    BY <1>1, <2>1
  <2> QED
    BY <1>3, <2>2, AdditionsFacts DEF I!Now
<1> QED
  BY <1>2, <1>3

LEMMA PastFinite ==
    ASSUME NEW k \in Nat
    PROVE  IsFiniteSet(Past(k)) /\ Cardinality(Past(k)) \in Nat
           /\ Cardinality(Past(k)) <= Cardinality(Threads)
<1>1. Past(k) \in SUBSET Threads
  BY DEF Past
<1> QED
  BY <1>1, ThreadsAssumption, FS_Subset, FS_CardinalityType

LEMMA TotalInit == Init => TotalInv
<1> SUFFICES ASSUME Init PROVE TotalInv
  OBVIOUS
<1> USE DEF Init, I!Init, I!Zero
<1>1. /\ done = [t \in Threads |-> 0] /\ at = [t \in Threads |-> "load"]
      /\ mem = [t \in Threads \cup {MainThread} |-> [v \in {"counter", "g_foo", "g_bar"} |-> 0]]
  OBVIOUS
<1>2. Len(I!Additions) \in Nat
  BY AdditionsFacts, ThreadsAssumption
<1>3. AddInv
  BY <1>2 DEF AddInv
<1>4. CasInv
  <2>1. Made = {}
    BY <1>1 DEF Made
  <2> QED
    BY <1>1, <2>1, FS_EmptySet DEF CasInv
<1>5. TlsInv
  BY <1>1 DEF TlsInv
<1>6. GlobalInv
  <2>1. Past(1) = {} /\ Past(2) = {}
    BY <1>1 DEF Past
  <2>2. Cardinality({}) = 0
    BY FS_EmptySet
  <2>3. /\ mem[MainThread].g_foo = 0 /\ mem[MainThread].g_bar = 0
        /\ \A t \in Threads : at[t] # "store"
    BY <1>1
  <2>4. 0 <= 0 /\ 0 <= 2 * 0
    OBVIOUS
  <2> HIDE DEF Init
  <2> QED
    BY <2>1, <2>2, <2>3, <2>4 DEF GlobalInv
<1>7. TotalsRight
  BY DEF TotalsRight, I!TotalsRight
<1> QED
  BY <1>3, <1>4, <1>5, <1>6, <1>7 DEF TotalInv

LEMMA TotalLoad ==
    ASSUME TotalInv, NEW t \in Threads, I!Load(t)
    PROVE  TotalInv'
<1> USE DEF TotalInv
<1>1. /\ at[t] = "load" /\ done[t] < Len(I!Additions)
      /\ old_val' = [old_val EXCEPT ![t] = mem[I!Home(t)][I!Now(t).var]]
      /\ at' = [at EXCEPT ![t] = "store"]
      /\ UNCHANGED <<test, done, mem, shown>>
  BY DEF I!Load
<1>2. mem[I!Home(t)][I!Now(t).var] \in Nat
  <2>1. I!Now(t).var \in {"counter", "g_foo", "g_bar"}
    BY <1>1, NowFacts
  <2>2. I!Home(t) \in Threads \cup {MainThread}
    BY DEF I!Home
  <2> QED
    BY <2>1, <2>2 DEF AddInv
<1>3. I!Additions' = I!Additions
  BY <1>1 DEF I!Additions
<1>4. AddInv'
  BY <1>1, <1>2, <1>3 DEF AddInv
<1>5. CasInv'
  BY <1>1 DEF CasInv, Made
<1>6. TlsInv'
  <2> SUFFICES ASSUME test = "tls" PROVE TlsInv'
    BY <1>1 DEF TlsInv
  <2>1. I!Home(t) = t
    BY DEF I!Home
  <2>2. mem[t][I!Now(t).var] = 0
    BY <1>1, NowFacts DEF TlsInv
  <2> QED
    BY <1>1, <2>1, <2>2 DEF TlsInv, AddInv
<1>7. GlobalInv'
  <2> SUFFICES ASSUME test = "global" PROVE GlobalInv'
    BY <1>1 DEF GlobalInv
  <2>1. I!Home(t) = MainThread /\ Past(1)' = Past(1) /\ Past(2)' = Past(2)
    BY <1>1 DEF I!Home, Past
  <2>2. IF done[t] = 0 THEN mem[MainThread][I!Now(t).var] <= Cardinality(Past(1))
                       ELSE mem[MainThread][I!Now(t).var] <= 2 * Cardinality(Past(2))
    BY <1>1, NowFacts DEF GlobalInv
  <2> QED
    BY <1>1, <2>1, <2>2 DEF GlobalInv, AddInv
<1>8. TotalsRight'
  BY <1>1 DEF TotalsRight, I!TotalsRight
<1> QED
  BY <1>4, <1>5, <1>6, <1>7, <1>8

(* An addition that is stored: it changes one variable, and counts as made.*)
LEMMA Stored ==
    ASSUME TotalInv, NEW t \in Threads, at[t] = "store", I!Add(t),
           at' = [at EXCEPT ![t] = "load"], UNCHANGED <<test, old_val, shown>>,
           test = "cas" => mem[I!Home(t)][I!Now(t).var] = old_val[t]
    PROVE  TotalInv'
<1> USE DEF TotalInv
<1> DEFINE v == I!Now(t).var
           h == I!Home(t)
           val == old_val[t] + I!Now(t).by
<1>1. /\ done[t] < Len(I!Additions) /\ done[t] \in Nat /\ old_val[t] \in Nat
      /\ Len(I!Additions) \in Nat
  BY AdditionsFacts, ThreadsAssumption DEF AddInv
<1>2. /\ mem' = [mem EXCEPT ![h][v] = val]
      /\ done' = [done EXCEPT ![t] = done[t] + 1]
  BY DEF I!Add
<1>3. /\ v \in {"counter", "g_foo", "g_bar"} /\ h \in Threads \cup {MainThread}
      /\ val \in Nat
  <2>1. v \in {"counter", "g_foo", "g_bar"} /\ I!Now(t).by \in Nat
    BY <1>1, NowFacts
  <2> QED
    BY <1>1, <2>1 DEF I!Home
<1> HIDE DEF val, v, h
<1>4. /\ mem' \in [Threads \cup {MainThread} -> [{"counter", "g_foo", "g_bar"} -> Nat]]
      /\ mem'[h][v] = val
      /\ \A w \in {"counter", "g_foo", "g_bar"} : w # v => mem'[h][w] = mem[h][w]
      /\ \A u \in Threads \cup {MainThread} : u # h => mem'[u] = mem[u]
  BY <1>2, <1>3 DEF AddInv
<1>5. /\ done' \in [Threads -> Nat] /\ done'[t] = done[t] + 1
      /\ \A u \in Threads \ {t} : done'[u] = done[u]
  BY <1>1, <1>2 DEF AddInv
<1>6. I!Additions' = I!Additions
  BY DEF I!Additions
<1>7. AddInv'
  <2>1. /\ at' \in [Threads -> {"load", "store", "ended"}] /\ at'[t] = "load"
        /\ \A u \in Threads \ {t} : at'[u] = at[u]
    BY DEF AddInv
  <2>2. done'[t] <= Len(I!Additions)
    BY <1>1, <1>5
  <2>3. ASSUME NEW u \in Threads
        PROVE  /\ done'[u] <= Len(I!Additions)
               /\ at'[u] = "store" => done'[u] < Len(I!Additions)
               /\ at'[u] = "ended" => done'[u] = Len(I!Additions)
    <3>1. CASE u = t
      BY <2>1, <2>2, <3>1
    <3>2. CASE u # t
      BY <1>5, <2>1, <3>2 DEF AddInv
    <3> QED
      BY <3>1, <3>2
  <2>4. test' = test /\ old_val' = old_val
    BY DEF AddInv, I!Add
  <2> QED
    BY <1>4, <1>5, <1>6, <2>1, <2>3, <2>4 DEF AddInv
<1>8. CasInv'
  <2> SUFFICES ASSUME test = "cas" PROVE mem'[MainThread].counter = Cardinality(Made')
    BY DEF CasInv
  <2>1. /\ h = MainThread /\ v = "counter" /\ val = old_val[t] + 1
        /\ done[t] + 1 \in 1..Rounds
    BY <1>1, NowFacts DEF h, v, val, I!Home
  <2>2. mem[MainThread].counter = old_val[t] /\ mem'[MainThread].counter = old_val[t] + 1
    BY <1>4, <2>1 DEF h, v
  <2>3. Made' = Made \cup {<<t, done[t] + 1>>} /\ <<t, done[t] + 1>> \notin Made
    <3>1. <<t, done[t] + 1>> \in Threads \X (1..Rounds)
      BY <2>1
    <3>2. ~(done[t] + 1 <= done[t])
      BY <1>1
    <3>3. ASSUME NEW u \in Threads, NEW i \in 1..Rounds
          PROVE  i <= done'[u] <=> i <= done[u] \/ (u = t /\ i = done[t] + 1)
      <4>1. CASE u = t
        BY <1>1, <1>5, <4>1, ThreadsAssumption
      <4>2. CASE u # t
        BY <1>5, <4>2
      <4> QED
        BY <4>1, <4>2
    <3>4. ASSUME NEW p \in Threads \X (1..Rounds)
          PROVE  p \in Made' <=> p \in Made \cup {<<t, done[t] + 1>>}
      <4>1. /\ p[1] \in Threads /\ p[2] \in 1..Rounds
            /\ p = <<t, done[t] + 1>> <=> p[1] = t /\ p[2] = done[t] + 1
        OBVIOUS
      <4> QED
        BY <3>3, <4>1 DEF Made
    <3> QED
      BY <3>1, <3>2, <3>4 DEF Made
  <2>4. IsFiniteSet(Made)
    <3>1. IsFiniteSet(1..Rounds)
      BY ThreadsAssumption, FS_Interval
    <3>2. IsFiniteSet(Threads \X (1..Rounds)) /\ Made \in SUBSET (Threads \X (1..Rounds))
      BY <3>1, ThreadsAssumption, FS_Product DEF Made
    <3> QED
      BY <3>2, FS_Subset
  <2>5. Cardinality(Made') = Cardinality(Made) + 1
    BY <2>3, <2>4, FS_AddElement
  <2> QED
    BY <2>2, <2>5 DEF CasInv
<1>9. TlsInv'
  <2> SUFFICES ASSUME test = "tls" PROVE TlsInv'
    BY DEF TlsInv
  <2>1. h = t /\ old_val[t] = 0 /\ MainThread # t
    BY ThreadsAssumption DEF h, I!Home, TlsInv
  <2>2. \/ done[t] = 0 /\ v = "g_foo" /\ val = 1
        \/ done[t] = 1 /\ v = "g_bar" /\ val = 2
    BY <1>1, <2>1, NowFacts DEF v, val
  <2>3. /\ mem'[t].g_foo = IF done'[t] >= 1 THEN 1 ELSE 0
        /\ mem'[t].g_bar = IF done'[t] >= 2 THEN 2 ELSE 0
    BY <1>4, <1>5, <2>1, <2>2 DEF TlsInv
  <2>4. at'[t] = "load" /\ \A u \in Threads \ {t} : at'[u] = at[u]
    BY DEF AddInv
  <2> QED
    BY <1>4, <1>5, <2>1, <2>3, <2>4 DEF TlsInv
<1>10. GlobalInv'
  <2> SUFFICES ASSUME test = "global" PROVE GlobalInv'
    BY DEF GlobalInv
  <2>1. h = MainThread
    BY DEF h, I!Home
  <2>2. at'[t] = "load" /\ \A u \in Threads \ {t} : at'[u] = at[u]
    BY DEF AddInv
  <2>3. /\ Cardinality(Past(1)) \in Nat /\ Cardinality(Past(2)) \in Nat
        /\ IsFiniteSet(Past(1)) /\ IsFiniteSet(Past(2))
    BY PastFinite
  <2>4. /\ mem[MainThread].g_foo \in Nat /\ mem[MainThread].g_bar \in Nat
        /\ \A u \in Threads : old_val[u] \in Nat /\ done[u] \in Nat
    BY DEF AddInv
  <2>5. CASE done[t] = 0 /\ v = "g_foo" /\ val = old_val[t] + 1
    <3>1. Past(1)' = Past(1) \cup {t} /\ t \notin Past(1) /\ Past(2)' = Past(2)
      BY <1>5, <2>4, <2>5 DEF Past
    <3>2. Cardinality(Past(1)') = Cardinality(Past(1)) + 1
      BY <2>3, <3>1, FS_AddElement
    <3>3. /\ mem'[MainThread].g_foo = old_val[t] + 1
          /\ mem'[MainThread].g_bar = mem[MainThread].g_bar
      BY <1>4, <2>1, <2>5
    <3>4. old_val[t] <= Cardinality(Past(1))
      BY <2>5 DEF GlobalInv
    <3>5. /\ mem'[MainThread].g_foo <= Cardinality(Past(1)')
          /\ mem'[MainThread].g_foo >= 1
      BY <2>3, <2>4, <3>2, <3>3, <3>4
    <3>6. ASSUME NEW u \in Threads, at'[u] = "store"
          PROVE  IF done'[u] = 0 THEN old_val[u] <= Cardinality(Past(1)')
                                 ELSE old_val[u] <= 2 * Cardinality(Past(2)')
      <4>1. u # t /\ at[u] = "store" /\ done'[u] = done[u]
        BY <1>5, <2>2, <3>6
      <4>2. IF done[u] = 0 THEN old_val[u] <= Cardinality(Past(1))
                           ELSE old_val[u] <= 2 * Cardinality(Past(2))
        BY <4>1 DEF GlobalInv
      <4> QED
        BY <2>3, <2>4, <3>1, <3>2, <4>1, <4>2
    <3> QED
      BY <3>1, <3>3, <3>5, <3>6 DEF GlobalInv
  <2>6. CASE done[t] = 1 /\ v = "g_bar" /\ val = old_val[t] + 2
    <3>1. Past(2)' = Past(2) \cup {t} /\ t \notin Past(2) /\ Past(1)' = Past(1)
      BY <1>5, <2>4, <2>6 DEF Past
    <3>2. Cardinality(Past(2)') = Cardinality(Past(2)) + 1
      BY <2>3, <3>1, FS_AddElement
    <3>3. /\ mem'[MainThread].g_bar = old_val[t] + 2
          /\ mem'[MainThread].g_foo = mem[MainThread].g_foo
      BY <1>4, <2>1, <2>6
    <3>4. old_val[t] <= 2 * Cardinality(Past(2))
      BY <2>6 DEF GlobalInv
    <3>5. /\ mem'[MainThread].g_bar <= 2 * Cardinality(Past(2)')
          /\ mem'[MainThread].g_bar >= 2
      BY <2>3, <2>4, <3>2, <3>3, <3>4
    <3>6. ASSUME NEW u \in Threads, at'[u] = "store"
          PROVE  IF done'[u] = 0 THEN old_val[u] <= Cardinality(Past(1)')
                                 ELSE old_val[u] <= 2 * Cardinality(Past(2)')
      <4>1. u # t /\ at[u] = "store" /\ done'[u] = done[u]
        BY <1>5, <2>2, <3>6
      <4>2. IF done[u] = 0 THEN old_val[u] <= Cardinality(Past(1))
                           ELSE old_val[u] <= 2 * Cardinality(Past(2))
        BY <4>1 DEF GlobalInv
      <4> QED
        BY <2>3, <2>4, <3>1, <3>2, <4>1, <4>2
    <3> QED
      BY <3>1, <3>3, <3>5, <3>6 DEF GlobalInv
  <2> QED
    BY <1>1, <2>5, <2>6, NowFacts DEF v, val
<1>11. TotalsRight'
  BY DEF TotalsRight, I!TotalsRight
<1> QED
  BY <1>7, <1>8, <1>9, <1>10, <1>11

LEMMA TotalStore ==
    ASSUME TotalInv, NEW t \in Threads, I!Store(t)
    PROVE  TotalInv'
<1>1. CASE test = "cas" /\ mem[I!Home(t)][I!Now(t).var] # old_val[t]
  <2>1. at' = [at EXCEPT ![t] = "load"] /\ UNCHANGED <<test, done, old_val, mem, shown>>
    BY <1>1 DEF I!Store
  <2>2. I!Additions' = I!Additions
    BY <2>1 DEF I!Additions
  <2>3. AddInv'
    BY <2>1, <2>2 DEF TotalInv, AddInv
  <2> QED
    BY <1>1, <2>1, <2>3 DEF TotalInv, CasInv, Made, TlsInv, GlobalInv, TotalsRight,
                            I!TotalsRight
<1>2. CASE ~(test = "cas" /\ mem[I!Home(t)][I!Now(t).var] # old_val[t])
  BY <1>2, Stored DEF I!Store
<1> QED
  BY <1>1, <1>2

LEMMA SameCardinality == \A S : I!Cardinality(S) = Cardinality(S)
BY DEF I!Cardinality, Cardinality

(* Whoever prints has made all its additions; main prints when all have.   *)
LEMMA TotalShow ==
    ASSUME TotalInv, NEW t \in Threads \cup {MainThread},
           \/ /\ test # "cas" /\ t \in Threads /\ done[t] = Len(I!Additions)
              /\ I!Show(t, I!Home(t))
           \/ /\ t = MainThread /\ \A u \in Threads : at[u] = "ended"
              /\ I!Show(t, MainThread),
           UNCHANGED <<test, done, old_val, mem>>
    PROVE  TotalsRight'
<1> USE DEF TotalInv
<1>1. shown'[t] = mem[IF t = MainThread THEN MainThread ELSE I!Home(t)]
      /\ DOMAIN shown' = DOMAIN shown \cup {t}
      /\ \A u \in DOMAIN shown \ {t} : shown'[u] = shown[u]
  BY ThreadsAssumption DEF I!Show
<1>2. /\ test \in {"cas", "tls", "global"}
      /\ t \in Threads => done[t] = Len(I!Additions)
      /\ t = MainThread => \A u \in Threads : done[u] = Len(I!Additions)
  BY ThreadsAssumption DEF AddInv
<1>3. CASE test = "cas"
  <2>1. t = MainThread /\ \A u \in Threads : done[u] = Rounds
    BY <1>2, <1>3, AdditionsFacts
  <2>2. Made = Threads \X (1..Rounds)
    BY <2>1, ThreadsAssumption DEF Made
  <2>3. IsFiniteSet(1..Rounds) /\ Cardinality(1..Rounds) = Rounds
    BY ThreadsAssumption, FS_Interval
  <2>4. Cardinality(Made) = Cardinality(Threads) * Rounds
    BY <2>2, <2>3, ThreadsAssumption, FS_Product
  <2>5. shown'[t].counter = Cardinality(Threads) * Rounds
    BY <1>1, <1>3, <2>1, <2>4 DEF CasInv
  <2> QED
    BY <1>1, <1>3, <2>5, SameCardinality DEF TotalsRight, I!TotalsRight
<1>4. CASE test = "tls"
  <2>1. t \in Threads => done[t] = 2 /\ I!Home(t) = t
    BY <1>2, <1>4, AdditionsFacts DEF I!Home
  <2>2. /\ shown'[t].g_foo = IF t = MainThread THEN 0 ELSE 1
        /\ shown'[t].g_bar = IF t = MainThread THEN 0 ELSE 2
    BY <1>1, <1>4, <2>1, ThreadsAssumption DEF TlsInv
  <2> QED
    BY <1>1, <1>4, <2>2 DEF TotalsRight, I!TotalsRight
<1>5. CASE test = "global"
  <2>1. PICK u \in Threads : done[u] = 2
    BY <1>2, <1>5, ThreadsAssumption, AdditionsFacts
  <2>2. u \in Past(1) /\ u \in Past(2)
    BY <2>1 DEF Past
  <2>3. shown'[t] = mem[MainThread]
    BY <1>1, <1>5 DEF I!Home
  <2>4. /\ Cardinality(Past(1)) \in Nat /\ Cardinality(Past(1)) <= Cardinality(Threads)
        /\ Cardinality(Past(2)) \in Nat /\ Cardinality(Past(2)) <= Cardinality(Threads)
        /\ Cardinality(Threads) \in Nat
    BY PastFinite, ThreadsAssumption, FS_CardinalityType
  <2>5. /\ mem[MainThread].g_foo \in Nat /\ mem[MainThread].g_bar \in Nat
        /\ mem[MainThread].g_foo >= 1 /\ mem[MainThread].g_bar >= 2
        /\ mem[MainThread].g_foo <= Cardinality(Past(1))
        /\ mem[MainThread].g_bar <= 2 * Cardinality(Past(2))
    BY <1>5, <2>2 DEF AddInv, GlobalInv
  <2>6. /\ shown'[t].g_foo \in 1..Cardinality(Threads)
        /\ shown'[t].g_bar \in 2..(2 * Cardinality(Threads))
    BY <2>3, <2>4, <2>5
  <2>7. ASSUME NEW d \in DOMAIN shown'
        PROVE  /\ shown'[d].g_foo \in 1..Cardinality(Threads)
               /\ shown'[d].g_bar \in 2..(2 * Cardinality(Threads))
    <3>1. CASE d = t
      BY <2>6, <3>1
    <3>2. CASE d # t
      <4>1. d \in DOMAIN shown /\ shown'[d] = shown[d]
        BY <1>1, <3>2
      <4> QED
        BY <1>5, <4>1, SameCardinality DEF TotalsRight, I!TotalsRight
    <3> QED
      BY <3>1, <3>2
  <2> QED
    BY <1>5, <2>7, SameCardinality DEF TotalsRight, I!TotalsRight
<1> QED
  BY <1>2, <1>3, <1>4, <1>5

LEMMA TotalEnd ==
    ASSUME TotalInv, I!Join \/ \E t \in Threads : I!End(t)
    PROVE  TotalInv'
<1> USE DEF TotalInv
<1>1. I!Additions' = I!Additions /\ UNCHANGED <<test, done, old_val, mem>>
  BY DEF I!Join, I!End, I!Additions
<1>2. AddInv'
  <2>1. CASE I!Join
    BY <1>1, <2>1 DEF I!Join, AddInv
  <2>2. ASSUME NEW t \in Threads, I!End(t) PROVE AddInv'
    BY <1>1, <2>2 DEF I!End, AddInv
  <2> QED
    BY <2>1, <2>2
<1>3. /\ at' \in [Threads -> {"load", "store", "ended"}]
      /\ \A u \in Threads : at'[u] = "store" => at[u] = "store"
  BY DEF I!Join, I!End, AddInv
<1>4. CasInv' /\ TlsInv' /\ GlobalInv'
  BY <1>1, <1>3 DEF CasInv, TlsInv, GlobalInv, Made, Past
<1>5. TotalsRight'
  <2>1. CASE I!Join
    <3>1. /\ MainThread \in Threads \cup {MainThread}
          /\ \A u \in Threads : at[u] = "ended"
          /\ I!Show(MainThread, MainThread)
      BY <2>1 DEF I!Join
    <3> QED
      BY <1>1, <3>1, TotalShow
  <2>2. ASSUME NEW t \in Threads, I!End(t) PROVE TotalsRight'
    <3>1. CASE test = "cas"
      BY <1>1, <2>2, <3>1 DEF I!End, TotalsRight, I!TotalsRight
    <3>2. CASE test # "cas"
      BY <1>1, <2>2, <3>2, TotalShow DEF I!End
    <3> QED
      BY <3>1, <3>2
  <2> QED
    BY <2>1, <2>2
<1> QED
  BY <1>2, <1>4, <1>5

(* The totals are right for any number of threads and of rounds, however   *)
(* the threads interleave: none is lost with compare-and-swap, every       *)
(* thread and main see their own with __thread, and with plain variables   *)
(* what is lost is bounded.                                                *)
THEOREM TotalsRightHolds == Spec => []TotalsRight
<1>1. TotalInv /\ [Next]_vars => TotalInv'
  <2> SUFFICES ASSUME TotalInv, [Next]_vars PROVE TotalInv'
    OBVIOUS
  <2>1. CASE I!Next
    BY <2>1, TotalLoad, TotalStore, TotalEnd DEF I!Next
  <2>2. CASE UNCHANGED ivars
    <3>1. I!Additions' = I!Additions
      BY <2>2 DEF ivars, I!Additions
    <3> QED
      BY <2>2, <3>1 DEF ivars, TotalInv, AddInv, CasInv, TlsInv, GlobalInv, Made, Past,
                        TotalsRight, I!TotalsRight
  <2> QED
    BY <2>1, <2>2, OneRuns
<1>2. TotalInv => TotalsRight
  BY DEF TotalInv
<1> QED
  BY <1>1, <1>2, TotalInit, PTL DEF Spec

-----------------------------------------------------------------------------
(* HwAddr                                                                  *)

(* A set of naturals that is not empty has a least element.               *)
LEMMA LeastNatural ==
  ASSUME NEW Bad \in SUBSET Nat, Bad # {}
  PROVE  \E x \in Bad : \A y \in Bad : x <= y
<1>1. \E x \in Bad : \A y \in Bad : ~ (<<y, x>> \in OpToRel(<, Nat))
  BY NatLessThanWellFounded, WFMin
<1>2. PICK x \in Bad : \A y \in Bad : ~ (<<y, x>> \in OpToRel(<, Nat))
  BY <1>1
<1>3. ASSUME NEW y \in Bad PROVE x <= y
  <2>1. x \in Nat /\ y \in Nat
    OBVIOUS
  <2>2. ~ (y < x)
    BY <1>2, <2>1 DEF OpToRel
  <2>3. QED
    BY <2>1, <2>2
<1>4. QED
  BY <1>3

Chars == 0..17

(* The digits of the octet o, and the text of octets from the i-th on.     *)
Pair(o, short) ==
    (IF short /\ o < 16 THEN <<>> ELSE <<o \div 16>>) \o <<o % 16>>

Line(a, short, i, rest) ==
    IF i = Len(a) THEN Pair(a[i], short) ELSE Pair(a[i], short) \o <<H!Colon>> \o rest

Texts(a, short) ==
    CHOOSE text : text = [i \in 1..Len(a) |-> Line(a, short, i, text[i + 1])]

(* Written is the text from the first octet on.                            *)
LEMMA WrittenIsText ==
    \A a, short : H!Written(a, short) = Texts(a, short)[1]
BY DEF H!Written, Texts, Line, Pair

(* Two characters one after the other.                                     *)
LEMMA Joined ==
    ASSUME NEW S, NEW x \in S, NEW y \in S
    PROVE  <<x>> \o <<y>> = <<x, y>>
<1> DEFINE s == <<x>> \o <<y>>
           t == <<x, y>>
<1>1. s \in Seq(S) /\ Len(s) = 2 /\ s[1] = x /\ s[2] = y
  OBVIOUS
<1>2. t \in Seq(S) /\ Len(t) = 2 /\ t[1] = x /\ t[2] = y
  OBVIOUS
<1> HIDE DEF s, t
<1>3. Len(s) = Len(t) /\ \A i \in 1..Len(s) : s[i] = t[i]
  BY <1>1, <1>2
<1>4. s = t
  BY <1>1, <1>2, <1>3, SeqEqual
<1> QED
  BY <1>4 DEF s, t

(* An octet is written with its two digits, or is a single digit itself.   *)
LEMMA PairFacts ==
    ASSUME NEW o \in 0..255, NEW short
    PROVE  \/ /\ Pair(o, short) = <<o \div 16, o % 16>>
              /\ o \div 16 \in 0..15 /\ o % 16 \in 0..15
              /\ 16 * (o \div 16) + (o % 16) = o
           \/ Pair(o, short) = <<o>> /\ o \in 0..15
<1>1. /\ o \div 16 \in 0..15 /\ o % 16 \in 0..15
      /\ 16 * (o \div 16) + (o % 16) = o
  OBVIOUS
<1>2. CASE short /\ o < 16
  <2>1. o % 16 = o /\ o \in 0..15
    BY <1>2
  <2>2. Pair(o, short) = <<>> \o <<o>>
    BY <1>2, <2>1 DEF Pair
  <2> QED
    BY <2>1, <2>2
<1>3. CASE ~(short /\ o < 16)
  <2>1. Pair(o, short) = <<o \div 16>> \o <<o % 16>>
    BY <1>3 DEF Pair
  <2>2. <<o \div 16>> \o <<o % 16>> = <<o \div 16, o % 16>>
    BY <1>1, Joined
  <2> QED
    BY <1>1, <2>1, <2>2
<1> QED
  BY <1>2, <1>3

(* The text of the last octets exists, however many they are.              *)
LEMMA TextsEquation ==
    ASSUME NEW a \in Seq(0..255), NEW short, NEW i \in 1..Len(a)
    PROVE  Texts(a, short)[i] = Line(a, short, i, Texts(a, short)[i + 1])
<1> DEFINE len == Len(a)
           Solves(g, m) == \A j \in m..len : g[j] = Line(a, short, j, g[j + 1])
           Bad == {k \in 0..(len - 1) : ~\E g : Solves(g, len - k)}
<1>1. len \in Nat
  OBVIOUS
<1>2. ASSUME Bad # {} PROVE FALSE
  <2>1. PICK k \in Bad : \A y \in Bad : k <= y
    <3>1. Bad \in SUBSET Nat
      BY <1>1
    <3> QED
      BY <1>2, <3>1, LeastNatural
  <2>2. k \in 0..(len - 1)
    BY <2>1
  <2>6. ~\E g : Solves(g, len - k)
    BY <2>1
  <2>3. PICK g : \A j \in (len - k + 1)..len : g[j] = Line(a, short, j, g[j + 1])
    <3>1. CASE k = 0
      <4>1. (len - k + 1)..len = {}
        BY <1>1, <3>1
      <4> QED
        BY <4>1
    <3>2. CASE k # 0
      <4>1. k - 1 \in 0..(len - 1) /\ k - 1 < k /\ len - (k - 1) = len - k + 1
        BY <1>1, <2>2, <3>2
      <4>2. k - 1 \notin Bad
        <5> HIDE DEF Bad
        <5> QED
          BY <1>1, <2>1, <2>2, <4>1
      <4>3. \E g : Solves(g, len - (k - 1))
        BY <4>1, <4>2
      <4> QED
        BY <4>1, <4>3
    <3> QED
      BY <3>1, <3>2
  <2> DEFINE h == [j \in 1..(len + 1) |-> IF j = len - k THEN Line(a, short, j, g[j + 1]) ELSE g[j]]
  <2>4. ASSUME NEW j \in (len - k)..len PROVE h[j] = Line(a, short, j, h[j + 1])
    <3>1. j \in 1..(len + 1) /\ j + 1 \in 1..(len + 1) /\ j + 1 # len - k
      BY <1>1, <2>2
    <3>2. h[j + 1] = g[j + 1]
      BY <3>1
    <3>3. CASE j = len - k
      BY <3>1, <3>2, <3>3
    <3>4. CASE j # len - k
      <4>1. j \in (len - k + 1)..len
        BY <1>1, <2>2, <3>4
      <4>2. h[j] = g[j]
        BY <3>1, <3>4
      <4> QED
        BY <2>3, <3>2, <4>1, <4>2
    <3> QED
      BY <3>3, <3>4
  <2> HIDE DEF h
  <2>5. Solves(h, len - k)
    BY <2>4
  <2> QED
    BY <2>5, <2>6
<1>3. PICK g : \A j \in 1..len : g[j] = Line(a, short, j, g[j + 1])
  <2>1. len - 1 \in 0..(len - 1) /\ len - (len - 1) = 1
    BY <1>1
  <2>2. len - 1 \notin Bad
    BY <1>2
  <2>3. \E g : Solves(g, len - (len - 1))
    BY <2>1, <2>2
  <2> QED
    BY <2>1, <2>3
<1> DEFINE h == [j \in 1..len |-> g[j]]
<1>4. ASSUME NEW j \in 1..len PROVE h[j] = Line(a, short, j, h[j + 1])
  <2>1. CASE j = len
    BY <1>3, <2>1 DEF Line
  <2>2. CASE j # len
    <3>1. j + 1 \in 1..len
      BY <1>1, <2>2
    <3>2. h[j + 1] = g[j + 1] /\ h[j] = g[j]
      BY <3>1
    <3> QED
      BY <1>3, <3>2
  <2> QED
    BY <2>1, <2>2
<1>5. h = [j \in 1..len |-> Line(a, short, j, h[j + 1])]
  BY <1>4, Zenon
<1> HIDE DEF h
<1>6. Texts(a, short) = [j \in 1..len |-> Line(a, short, j, Texts(a, short)[j + 1])]
  BY <1>5, Zenon DEF Texts
<1> QED
  BY <1>6, Zenon

(* Octets are written with digits, and there is at least one.              *)
LEMMA PairTypes ==
    ASSUME NEW o \in 0..255, NEW short
    PROVE  /\ Pair(o, short) \in Seq(Chars)
           /\ Len(Pair(o, short)) >= 1 /\ Pair(o, short)[1] \in 0..15
<1>1. PICK p : p = Pair(o, short)
  OBVIOUS
<1>2. CASE /\ p = <<o \div 16, o % 16>>
           /\ o \div 16 \in 0..15 /\ o % 16 \in 0..15
  <2>1. PICK x \in 0..15, y \in 0..15 : p = <<x, y>>
    BY <1>2
  <2>2. x \in Chars /\ y \in Chars
    BY DEF Chars
  <2>3. p \in Seq(Chars) /\ Len(p) >= 1 /\ p[1] \in 0..15
    BY <2>1, <2>2
  <2> QED
    BY <1>1, <2>3
<1>3. CASE p = <<o>> /\ o \in 0..15
  <2>1. o \in Chars
    BY <1>3 DEF Chars
  <2>2. p \in Seq(Chars) /\ Len(p) >= 1 /\ p[1] \in 0..15
    BY <1>3, <2>1
  <2> QED
    BY <1>1, <2>2
<1>4. \/ /\ Pair(o, short) = <<o \div 16, o % 16>>
         /\ o \div 16 \in 0..15 /\ o % 16 \in 0..15
      \/ Pair(o, short) = <<o>> /\ o \in 0..15
  BY PairFacts
<1>5. \/ /\ p = <<o \div 16, o % 16>>
         /\ o \div 16 \in 0..15 /\ o % 16 \in 0..15
      \/ p = <<o>> /\ o \in 0..15
  BY <1>1, <1>4, Zenon
<1> QED
  BY <1>2, <1>3, <1>5, Zenon

(* The text of octets consists of digits and colons.                       *)
LEMMA TextsTypes ==
    ASSUME NEW a \in Seq(0..255), NEW short, NEW i \in 1..Len(a)
    PROVE  Texts(a, short)[i] \in Seq(Chars)
<1> DEFINE len == Len(a)
           Bad == {k \in 0..(len - 1) : Texts(a, short)[len - k] \notin Seq(Chars)}
<1>1. len \in Nat
  OBVIOUS
<1>6. \A j \in 1..len : a[j] \in 0..255
  BY ElementOfSeq
<1>2. ASSUME NEW o \in 0..255 PROVE Pair(o, short) \in Seq(Chars)
  BY PairTypes
<1>3. ASSUME Bad # {} PROVE FALSE
  <2>1. PICK k \in Bad : \A y \in Bad : k <= y
    <3>1. Bad \in SUBSET Nat
      BY <1>1
    <3> QED
      BY <1>3, <3>1, LeastNatural
  <2>2. k \in 0..(len - 1) /\ len - k \in 1..len /\ a[len - k] \in 0..255
    <3>1. k \in 0..(len - 1)
      BY <2>1
    <3>2. len - k \in 1..len
      BY <1>1, <3>1
    <3> QED
      BY <1>6, <3>1, <3>2
  <2>3. Texts(a, short)[len - k] = Line(a, short, len - k, Texts(a, short)[len - k + 1])
    BY <2>2, TextsEquation
  <2>4. Pair(a[len - k], short) \in Seq(Chars)
    BY <1>2, <2>2
  <2>5. CASE k = 0
    BY <1>1, <2>1, <2>3, <2>4, <2>5 DEF Line
  <2>6. CASE k # 0
    <3>1. k - 1 \in 0..(len - 1) /\ k - 1 < k /\ len - (k - 1) = len - k + 1 /\ len - k # len
      BY <1>1, <2>2, <2>6
    <3>2. k - 1 \notin Bad
      <4> HIDE DEF Bad
      <4> QED
        BY <1>1, <2>1, <2>2, <3>1
    <3>3. Texts(a, short)[len - k + 1] \in Seq(Chars)
      BY <3>1, <3>2
    <3>4. <<H!Colon>> \in Seq(Chars)
      BY DEF H!Colon, Chars
    <3>5. Texts(a, short)[len - k] \in Seq(Chars)
      BY <2>3, <2>4, <3>1, <3>3, <3>4 DEF Line
    <3> QED
      BY <2>1, <3>5
  <2> QED
    BY <2>5, <2>6
<1>4. len - i \in 0..(len - 1) /\ len - (len - i) = i
  BY <1>1
<1>5. len - i \notin Bad
  BY <1>3
<1> QED
  BY <1>4, <1>5

(* A text begins with a digit.                                             *)
LEMMA TextsFirst ==
    ASSUME NEW a \in Seq(0..255), NEW short, NEW i \in 1..Len(a)
    PROVE  Len(Texts(a, short)[i]) >= 1 /\ Texts(a, short)[i][1] \in 0..15
<1>1. PICK p : p = Pair(a[i], short)
  OBVIOUS
<1>2. p \in Seq(Chars) /\ Len(p) >= 1 /\ p[1] \in 0..15
  <2>1. a[i] \in 0..255
    BY ElementOfSeq
  <2> QED
    BY <1>1, <2>1, PairTypes
<1>3. CASE i = Len(a)
  BY <1>1, <1>2, <1>3, TextsEquation DEF Line
<1>4. CASE i # Len(a)
  <2>1. i + 1 \in 1..Len(a)
    BY <1>4
  <2>2. PICK t : t = Texts(a, short)[i + 1]
    OBVIOUS
  <2>3. t \in Seq(Chars)
    BY <2>1, <2>2, TextsTypes
  <2>4. PICK h : h = p \o <<H!Colon>>
    OBVIOUS
  <2>5. <<H!Colon>> \in Seq(Chars)
    BY DEF H!Colon, Chars
  <2>6. h \in Seq(Chars) /\ Len(h) = Len(p) + Len(<<H!Colon>>) /\ h[1] = p[1]
    BY <1>2, <2>4, <2>5, ConcatProperties
  <2>7. Len(h) \in Nat /\ Len(h) >= 1 /\ Len(t) \in Nat
    BY <1>2, <2>3, <2>6
  <2>8. Len(h \o t) = Len(h) + Len(t) /\ (h \o t)[1] = h[1]
    BY <2>3, <2>6, <2>7, ConcatProperties
  <2>9. Texts(a, short)[i] = h \o t
    BY <1>1, <1>4, <2>2, <2>4, TextsEquation DEF Line
  <2>10. Len(h \o t) >= 1 /\ (h \o t)[1] \in 0..15
    <3>1. Len(h \o t) >= 1
      BY <2>7, <2>8
    <3>2. (h \o t)[1] = p[1]
      BY <2>6, <2>8, Zenon
    <3> QED
      BY <1>2, <3>1, <3>2, Zenon
  <2> QED
    BY <2>9, <2>10, Zenon
<1> QED
  BY <1>3, <1>4

(* What follows p, if p is dropped from the front.                         *)
LEMMA Dropped ==
    ASSUME NEW S, NEW p \in Seq(S), NEW r \in Seq(S), NEW k \in Nat, k = Len(p) + 1
    PROVE  SubSeq(p \o r, k, Len(p \o r)) = r
<1> DEFINE m == p \o r
           s == SubSeq(m, k, Len(m))
<1>1. /\ m \in Seq(S) /\ Len(m) = Len(p) + Len(r)
      /\ \A i \in 1..Len(r) : m[Len(p) + i] = r[i]
  BY ConcatProperties
<1>2. Len(p) \in Nat /\ Len(r) \in Nat
  OBVIOUS
<1> HIDE DEF m
<1>3. s \in Seq(S) /\ Len(s) = Len(r)
  BY <1>1, <1>2
<1>4. ASSUME NEW i \in 1..Len(r) PROVE s[i] = r[i]
  <2>1. s[i] = m[k + i - 1]
    BY <1>1, <1>2, <1>3
  <2>2. k + i - 1 = Len(p) + i
    BY <1>2
  <2> QED
    BY <1>1, <2>1, <2>2
<1> HIDE DEF s
<1>5. s = r
  BY <1>3, <1>4, SeqEqual
<1> QED
  BY <1>5 DEF s, m

(* What is left of the text of a after k octets.                           *)
Rest(a, short, k) == IF k = Len(a) THEN <<>> ELSE Texts(a, short)[k + 1]

(* Something is left until the last octet, and it begins with a digit.     *)
LEMMA RestFacts ==
    ASSUME NEW a \in Seq(0..255), NEW short, NEW k \in 0..Len(a)
    PROVE  /\ Rest(a, short, k) \in Seq(Chars)
           /\ Rest(a, short, k) = <<>> <=> k = Len(a)
           /\ k < Len(a) => Len(Rest(a, short, k)) >= 1 /\ Rest(a, short, k)[1] \in 0..15
<1>1. CASE k = Len(a)
  BY <1>1 DEF Rest
<1>2. CASE k # Len(a)
  <2>1. k + 1 \in 1..Len(a) /\ k < Len(a)
    BY <1>2
  <2>2. Rest(a, short, k) = Texts(a, short)[k + 1]
    BY <1>2 DEF Rest
  <2>3. Texts(a, short)[k + 1] \in Seq(Chars)
    BY <2>1, TextsTypes
  <2>4. Len(Texts(a, short)[k + 1]) >= 1 /\ Texts(a, short)[k + 1][1] \in 0..15
    BY <2>1, TextsFirst
  <2> QED
    BY <1>2, <2>1, <2>2, <2>3, <2>4
<1> QED
  BY <1>1, <1>2

(* The characters of macaddr are those of h, then those of r.              *)
LEMMA Reads ==
    ASSUME NEW h \in Seq(Chars), NEW r \in Seq(Chars), macaddr = h \o r
    PROVE  /\ \A j \in 1..Len(h) : H!At(j - 1) = h[j]
           /\ H!At(Len(h)) = IF r = <<>> THEN H!NUL ELSE r[1]
           /\ SubSeq(macaddr, Len(h) + 1, Len(macaddr)) = r
<1>1. /\ Len(macaddr) = Len(h) + Len(r) /\ Len(r) \in Nat /\ Len(h) \in Nat
      /\ \A j \in 1..Len(h) : macaddr[j] = h[j]
      /\ \A j \in 1..Len(r) : macaddr[Len(h) + j] = r[j]
  BY ConcatProperties
<1>2. ASSUME NEW j \in 1..Len(h) PROVE H!At(j - 1) = h[j]
  <2>1. j - 1 < Len(macaddr) /\ (j - 1) + 1 = j
    BY <1>1
  <2> QED
    BY <1>1, <2>1 DEF H!At
<1>3. SubSeq(macaddr, Len(h) + 1, Len(macaddr)) = r
  <2>1. Len(h) + 1 \in Nat
    BY <1>1
  <2> QED
    BY <2>1, Dropped
<1>4. CASE r = <<>>
  <2>1. Len(macaddr) = Len(h)
    BY <1>1, <1>4
  <2> QED
    BY <1>1, <1>2, <1>3, <1>4, <2>1 DEF H!At
<1>5. CASE r # <<>>
  <2>1. Len(r) >= 1
    BY <1>5
  <2>2. 1 \in 1..Len(r) /\ Len(h) < Len(macaddr)
    BY <1>1, <2>1
  <2>3. macaddr[Len(h) + 1] = r[1]
    BY <1>1, <2>2
  <2>4. H!At(Len(h)) = r[1]
    BY <2>2, <2>3 DEF H!At
  <2> QED
    BY <1>2, <1>3, <1>5, <2>4
<1> QED
  BY <1>4, <1>5

(* The text up to and with a colon.                                        *)
LEMMA WithColon ==
    ASSUME NEW p \in Seq(Chars)
    PROVE  /\ p \o <<H!Colon>> \in Seq(Chars)
           /\ Len(p \o <<H!Colon>>) = Len(p) + 1
           /\ \A j \in 1..Len(p) : (p \o <<H!Colon>>)[j] = p[j]
           /\ (p \o <<H!Colon>>)[Len(p) + 1] = H!Colon
<1>1. PICK c : c = H!Colon
  OBVIOUS
<1>2. c \in Chars
  BY <1>1 DEF H!Colon, Chars
<1>3. /\ p \o <<c>> \in Seq(Chars) /\ Len(p \o <<c>>) = Len(p) + 1
      /\ \A j \in 1..Len(p) : (p \o <<c>>)[j] = p[j]
      /\ (p \o <<c>>)[Len(p) + 1] = c
  BY <1>2
<1> QED
  BY <1>1, <1>3

(* Two digits, and what follows them.                                      *)
LEMMA ReadPair ==
    ASSUME NEW x \in 0..15, NEW y \in 0..15, NEW r \in Seq(Chars),
           \/ r = <<>> /\ macaddr = <<x, y>>
           \/ macaddr = <<x, y>> \o <<H!Colon>> \o r
    PROVE  /\ H!At(0) = x /\ H!At(1) = y
           /\ \/ H!At(2) = H!NUL /\ SubSeq(macaddr, 3, Len(macaddr)) = r
              \/ H!At(2) = H!Colon /\ SubSeq(macaddr, 4, Len(macaddr)) = r
<1>1. PICK p : p = <<x, y>>
  OBVIOUS
<1>2. p \in Seq(Chars) /\ Len(p) = 2 /\ p[1] = x /\ p[2] = y
  <2>1. x \in Chars /\ y \in Chars
    BY DEF Chars
  <2> QED
    BY <1>1, <2>1
<1>4. CASE r = <<>> /\ macaddr = p
  <2>1. macaddr = p \o r
    BY <1>2, <1>4, ConcatEmptySeq
  <2>2. /\ \A j \in 1..Len(p) : H!At(j - 1) = p[j]
        /\ H!At(Len(p)) = H!NUL
        /\ SubSeq(macaddr, Len(p) + 1, Len(macaddr)) = r
    BY <1>2, <1>4, <2>1, Reads
  <2>3. 1 \in 1..Len(p) /\ 2 \in 1..Len(p) /\ Len(p) + 1 = 3 /\ 1 - 1 = 0 /\ 2 - 1 = 1
    BY <1>2
  <2>4. H!At(1 - 1) = p[1] /\ H!At(2 - 1) = p[2]
    BY <2>2, <2>3
  <2> QED
    BY <1>2, <2>2, <2>3, <2>4
<1>5. CASE macaddr = p \o <<H!Colon>> \o r
  <2>1. PICK h : h = p \o <<H!Colon>>
    OBVIOUS
  <2>2. h \in Seq(Chars) /\ Len(h) = 3 /\ h[1] = x /\ h[2] = y /\ h[3] = H!Colon
    <3>1. /\ h \in Seq(Chars) /\ Len(h) = Len(p) + 1
          /\ \A j \in 1..Len(p) : h[j] = p[j]
          /\ h[Len(p) + 1] = H!Colon
      BY <1>2, <2>1, WithColon, Zenon
    <3> QED
      BY <1>2, <3>1
  <2>3. /\ \A j \in 1..Len(h) : H!At(j - 1) = h[j]
        /\ SubSeq(macaddr, Len(h) + 1, Len(macaddr)) = r
    BY <1>5, <2>1, <2>2, Reads
  <2>4. 1 \in 1..Len(h) /\ 2 \in 1..Len(h) /\ 3 \in 1..Len(h) /\ Len(h) + 1 = 4
    BY <2>2
  <2>5. H!At(1 - 1) = h[1] /\ H!At(2 - 1) = h[2] /\ H!At(3 - 1) = h[3]
    BY <2>3, <2>4
  <2>6. H!At(0) = h[1] /\ H!At(1) = h[2] /\ H!At(2) = h[3]
    BY <2>5
  <2> QED
    BY <2>2, <2>3, <2>4, <2>6
<1> QED
  BY <1>1, <1>4, <1>5

(* One digit, and what follows it.                                         *)
LEMMA ReadSingle ==
    ASSUME NEW x \in 0..15, NEW r \in Seq(Chars),
           \/ r = <<>> /\ macaddr = <<x>>
           \/ r # <<>> /\ r[1] \in 0..15 /\ macaddr = <<x>> \o <<H!Colon>> \o r
    PROVE  /\ H!At(0) = x
           /\ \/ H!At(1) = H!NUL /\ SubSeq(macaddr, 2, Len(macaddr)) = r
              \/ /\ H!At(1) = H!Colon /\ H!At(2) # H!Colon
                 /\ SubSeq(macaddr, 3, Len(macaddr)) = r
<1>1. PICK p : p = <<x>>
  OBVIOUS
<1>2. p \in Seq(Chars) /\ Len(p) = 1 /\ p[1] = x
  <2>1. x \in Chars
    BY DEF Chars
  <2> QED
    BY <1>1, <2>1
<1>4. CASE r = <<>> /\ macaddr = p
  <2>1. macaddr = p \o r
    BY <1>2, <1>4, ConcatEmptySeq
  <2>2. /\ \A j \in 1..Len(p) : H!At(j - 1) = p[j]
        /\ H!At(Len(p)) = H!NUL
        /\ SubSeq(macaddr, Len(p) + 1, Len(macaddr)) = r
    BY <1>2, <1>4, <2>1, Reads
  <2>3. 1 \in 1..Len(p) /\ Len(p) + 1 = 2 /\ 1 - 1 = 0
    BY <1>2
  <2>4. H!At(1 - 1) = p[1]
    BY <2>2, <2>3
  <2> QED
    BY <1>2, <2>2, <2>3, <2>4
<1>5. CASE r # <<>> /\ r[1] \in 0..15 /\ macaddr = p \o <<H!Colon>> \o r
  <2>1. PICK h : h = p \o <<H!Colon>>
    OBVIOUS
  <2>2. h \in Seq(Chars) /\ Len(h) = 2 /\ h[1] = x /\ h[2] = H!Colon
    <3>1. /\ h \in Seq(Chars) /\ Len(h) = Len(p) + 1
          /\ \A j \in 1..Len(p) : h[j] = p[j]
          /\ h[Len(p) + 1] = H!Colon
      BY <1>2, <2>1, WithColon, Zenon
    <3> QED
      BY <1>2, <3>1
  <2>3. /\ \A j \in 1..Len(h) : H!At(j - 1) = h[j]
        /\ H!At(Len(h)) = r[1]
        /\ SubSeq(macaddr, Len(h) + 1, Len(macaddr)) = r
    BY <1>5, <2>1, <2>2, Reads
  <2>4. 1 \in 1..Len(h) /\ 2 \in 1..Len(h) /\ Len(h) + 1 = 3
    BY <2>2
  <2>5. H!At(1 - 1) = h[1] /\ H!At(2 - 1) = h[2]
    BY <2>3, <2>4
  <2>6. H!At(0) = h[1] /\ H!At(1) = h[2]
    BY <2>5
  <2>7. H!At(2) # H!Colon
    <3>1. H!Colon = 16
      BY DEF H!Colon
    <3>2. H!At(2) = r[1]
      <4>1. Len(h) = 2 /\ H!At(Len(h)) = r[1]
        BY <2>2, <2>3, Zenon
      <4> QED
        BY <4>1, Zenon
    <3>3. r[1] \in 0..15
      BY <1>5, Zenon
    <3>4. PICK c \in 0..15 : c = r[1]
      BY <3>3
    <3>5. c # 16
      OBVIOUS
    <3> QED
      BY <3>1, <3>2, <3>4, <3>5, Zenon
  <2> QED
    BY <2>2, <2>3, <2>4, <2>6, <2>7
<1> QED
  BY <1>1, <1>4, <1>5

(* The separator and the end of the text are no digits.                    *)
LEMMA NoDigit == \A c : c = 18 \/ c = 16 => 16 # 18 /\ c \notin 0..15
OBVIOUS

(* Between two octets, or at the end, the loop finds its place again.      *)
LEMMA ReadOctet ==
    ASSUME NEW a \in Seq(0..255), NEW short, NEW i \in 1..Len(a),
           macaddr = Texts(a, short)[i]
    PROVE  /\ H!At(0) \in 0..15
           /\ H!At(1) \in 0..15 \cup {H!Colon, H!NUL}
           /\ a[i] = IF H!At(1) \in 0..15 THEN 16 * H!At(0) + H!At(1) ELSE H!At(0)
           /\ \A after, k :
                 /\ after = (IF H!At(1) = H!NUL THEN 1 ELSE 2)
                 /\ k = after + 1 + (IF H!At(after) = H!Colon THEN 1 ELSE 0)
                 => SubSeq(macaddr, k, Len(macaddr)) = Rest(a, short, i)
<1>1. a[i] \in 0..255 /\ Len(a) \in Nat /\ i \in Nat /\ i <= Len(a)
  BY ElementOfSeq
<1>2. PICK r : r = Rest(a, short, i)
  OBVIOUS
<1>3. PICK p : p = Pair(a[i], short)
  OBVIOUS
<1>4. r \in Seq(Chars) /\ (i < Len(a) => r # <<>> /\ r[1] \in 0..15)
  <2>1. i \in 0..Len(a) /\ (i < Len(a) => i # Len(a))
    BY <1>1
  <2> QED
    BY <1>2, <2>1, RestFacts
<1>5. \/ r = <<>> /\ macaddr = p
      \/ r # <<>> /\ r[1] \in 0..15 /\ macaddr = p \o <<H!Colon>> \o r
  <2>1. CASE i = Len(a)
    BY <1>2, <1>3, <2>1, TextsEquation DEF Line, Rest
  <2>2. CASE i # Len(a)
    <3>1. i < Len(a)
      BY <1>1, <2>2
    <3> QED
      BY <1>2, <1>3, <1>4, <2>2, <3>1, TextsEquation DEF Line, Rest
  <2> QED
    BY <2>1, <2>2
<1>6. H!Colon = 16 /\ H!NUL = 18
  BY DEF H!Colon, H!NUL
<1>7. CASE /\ p = <<a[i] \div 16, a[i] % 16>>
           /\ a[i] \div 16 \in 0..15 /\ a[i] % 16 \in 0..15
           /\ 16 * (a[i] \div 16) + (a[i] % 16) = a[i]
  <2>1. PICK x \in 0..15, y \in 0..15 : p = <<x, y>> /\ 16 * x + y = a[i]
    BY <1>7
  <2>2. /\ H!At(0) = x /\ H!At(1) = y
        /\ \/ H!At(2) = H!NUL /\ SubSeq(macaddr, 3, Len(macaddr)) = r
           \/ H!At(2) = H!Colon /\ SubSeq(macaddr, 4, Len(macaddr)) = r
    BY <1>4, <1>5, <2>1, ReadPair
  <2>3. H!At(1) # H!NUL
    BY <1>6, <2>2
  <2>4. ASSUME NEW k, k = 2 + 1 + (IF H!At(2) = H!Colon THEN 1 ELSE 0)
        PROVE  SubSeq(macaddr, k, Len(macaddr)) = r
    <3>1. H!At(2) = H!Colon => k = 4
      BY <2>4
    <3>2. H!At(2) # H!Colon => k = 3
      BY <2>4
    <3>3. H!NUL # H!Colon
      BY <1>6
    <3> QED
      BY <2>2, <3>1, <3>2, <3>3
  <2> QED
    BY <1>2, <2>1, <2>2, <2>3, <2>4
<1>8. CASE p = <<a[i]>> /\ a[i] \in 0..15
  <2>1. PICK x \in 0..15 : p = <<x>> /\ x = a[i]
    BY <1>8
  <2>2. /\ H!At(0) = x
        /\ \/ H!At(1) = H!NUL /\ SubSeq(macaddr, 2, Len(macaddr)) = r
           \/ /\ H!At(1) = H!Colon /\ H!At(2) # H!Colon
              /\ SubSeq(macaddr, 3, Len(macaddr)) = r
    BY <1>4, <1>5, <2>1, ReadSingle
  <2>3. H!NUL # H!Colon /\ H!At(1) \notin 0..15
    <3>1. PICK c : c = H!At(1)
      OBVIOUS
    <3>2. H!At(1) = H!NUL \/ H!At(1) = H!Colon
      BY <2>2, Zenon
    <3>3. c = 18 \/ c = 16
      BY <1>6, <3>1, <3>2, Zenon
    <3>4. 16 # 18 /\ c \notin 0..15
      BY <3>3, NoDigit, Zenon
    <3> QED
      BY <1>6, <3>1, <3>4, Zenon
  <2>4. ASSUME NEW after, NEW k,
               after = (IF H!At(1) = H!NUL THEN 1 ELSE 2),
               k = after + 1 + (IF H!At(after) = H!Colon THEN 1 ELSE 0)
        PROVE  SubSeq(macaddr, k, Len(macaddr)) = r
    <3>1. CASE H!At(1) = H!NUL
      <4>1. after = 1 /\ H!At(after) # H!Colon
        BY <2>3, <2>4, <3>1
      <4>2. k = 2
        BY <2>4, <4>1
      <4> QED
        BY <2>2, <2>3, <3>1, <4>2
    <3>2. CASE H!At(1) = H!Colon /\ H!At(2) # H!Colon
      <4>1. after = 2 /\ H!At(after) # H!Colon
        BY <2>3, <2>4, <3>2
      <4>2. k = 3
        BY <2>4, <4>1
      <4> QED
        BY <2>2, <2>3, <3>2, <4>2
    <3> QED
      BY <2>2, <3>1, <3>2
  <2> QED
    BY <1>2, <2>1, <2>2, <2>3, <2>4
<1>9. ASSUME NEW o \in 0..255, o = a[i]
      PROVE  \/ /\ p = <<o \div 16, o % 16>>
                /\ o \div 16 \in 0..15 /\ o % 16 \in 0..15
                /\ 16 * (o \div 16) + (o % 16) = o
             \/ p = <<o>> /\ o \in 0..15
  <2>1. p = Pair(o, short)
    BY <1>3, <1>9
  <2>2. \/ /\ Pair(o, short) = <<o \div 16, o % 16>>
           /\ o \div 16 \in 0..15 /\ o % 16 \in 0..15
           /\ 16 * (o \div 16) + (o % 16) = o
        \/ Pair(o, short) = <<o>> /\ o \in 0..15
    BY PairFacts
  <2> QED
    BY <2>1, <2>2, Zenon
<1>10. \/ /\ p = <<a[i] \div 16, a[i] % 16>>
          /\ a[i] \div 16 \in 0..15 /\ a[i] % 16 \in 0..15
          /\ 16 * (a[i] \div 16) + (a[i] % 16) = a[i]
       \/ p = <<a[i]>> /\ a[i] \in 0..15
  <2>1. PICK o \in 0..255 : o = a[i]
    BY <1>1
  <2> QED
    BY <1>9, <2>1
<1> QED
  BY <1>7, <1>8, <1>10, Zenon

(* What is read of an address that was drawn is a part of it, and what is  *)
(* not read yet is the text of the others.                                 *)
HwInv ==
    /\ data \in Seq(Nat) /\ macaddr \in Seq(Chars) /\ Len(data) <= ETH_ALEN
    /\ \A a \in drawn :
          /\ a \in Seq(0..255) /\ Len(a) = ETH_ALEN
          /\ data = SubSeq(a, 1, Len(data))
          /\ ret # "EINVAL"
          /\ ret = "0" => Len(data) = ETH_ALEN
          /\ \E short \in BOOLEAN : macaddr = Rest(a, short, Len(data))

(* An octet is at most 255, as two hexadecimal digits say.                 *)
LEMMA DrawnTypes ==
    ASSUME NEW a \in H!new_hwaddr
    PROVE  a \in Seq(0..255) /\ Len(a) = ETH_ALEN
<1>1. PICK s \in [1..(ETH_ALEN - Len(Prefix)) -> H!Octets \ {255}] : a = Prefix \o s
  BY DEF H!new_hwaddr
<1>2. Prefix \in Seq(0..255) /\ Len(Prefix) = 1
  BY DEF Prefix
<1>3. H!Octets \subseteq 0..255
  <2>1. ASSUME NEW d \in 0..15, NEW e \in 0..15 PROVE 16 * d + e \in 0..255
    OBVIOUS
  <2>2. ASSUME NEW o \in H!Octets PROVE o \in 0..255
    <3>1. PICK d \in Digits, e \in Digits : o = 16 * d + e
      BY DEF H!Octets
    <3>2. d \in 0..15 /\ e \in 0..15
      BY AddressAssumption
    <3> QED
      BY <2>1, <3>1, <3>2
  <2> QED
    BY <2>2
<1>4. ETH_ALEN - 1 \in Nat
  BY AddressAssumption
<1>5. s \in [1..(ETH_ALEN - 1) -> 0..255]
  <2>1. s \in [1..(ETH_ALEN - 1) -> H!Octets \ {255}]
    BY <1>1, <1>2, Zenon
  <2> QED
    BY <1>3, <2>1, Zenon
<1>6. s \in Seq(0..255) /\ Len(s) = ETH_ALEN - 1
  <2>1. PICK m \in Nat : m = ETH_ALEN - 1
    BY <1>4
  <2>2. s \in [1..m -> 0..255]
    BY <1>5, <2>1
  <2>3. s \in Seq(0..255) /\ Len(s) = m
    BY <2>2
  <2> QED
    BY <2>1, <2>3
<1>7. Prefix \o s \in Seq(0..255) /\ Len(Prefix \o s) = Len(Prefix) + Len(s)
  BY <1>2, <1>6, ConcatProperties
<1> QED
  BY <1>1, <1>2, <1>6, <1>7, AddressAssumption

(* Nothing is read yet, and all of the text is left.                       *)
LEMMA HwInit == Init => HwInv
<1> SUFFICES ASSUME Init PROVE HwInv
  OBVIOUS
<1>1. data = <<>> /\ ret = "none" /\ ETH_ALEN \in Nat \ {0} /\ Len(<<>>) = 0
  BY AddressAssumption DEF Init, H!Init
<1>2. CASE drawn = {} /\ macaddr \in H!BoundedSeq(Digits \cup {H!Colon, H!Other}, MaxText)
  <2>1. Digits \cup {H!Colon, H!Other} \subseteq Chars
    BY AddressAssumption DEF H!Colon, H!Other, Chars
  <2>2. macaddr \in Seq(Chars)
    <3>1. macaddr \in UNION {[1..m -> Chars] : m \in 0..MaxText}
      BY <1>2, <2>1 DEF H!BoundedSeq, H!SeqOf
    <3>2. PICK m \in 0..MaxText : macaddr \in [1..m -> Chars]
      BY <3>1
    <3>3. m \in Nat
      BY AddressAssumption
    <3> QED
      BY <3>2, <3>3
  <2> QED
    BY <1>1, <1>2, <2>2 DEF HwInv
<1>3. ASSUME NEW a \in H!new_hwaddr, NEW short \in BOOLEAN,
             drawn = {a}, macaddr = H!Written(a, short)
      PROVE  HwInv
  <2>1. a \in Seq(0..255) /\ Len(a) = ETH_ALEN
    BY DrawnTypes
  <2>2. 0 \in 0..Len(a) /\ 0 # Len(a)
    BY <1>1, <2>1
  <2>3. macaddr = Rest(a, short, 0)
    BY <1>3, <2>2, WrittenIsText DEF Rest
  <2>4. macaddr \in Seq(Chars)
    BY <2>1, <2>2, <2>3, RestFacts
  <2>5. SubSeq(a, 1, 0) = <<>>
    BY <2>1, SubSeqEmpty
  <2> QED
    BY <1>1, <1>3, <2>1, <2>3, <2>4, <2>5 DEF HwInv
<1> QED
  BY <1>2, <1>3 DEF Init, H!Init

(* The end of the text is the end of the address.                          *)
LEMMA HwReturn == ASSUME HwInv, H!Return PROVE HwInv'
<1>1. ASSUME NEW a \in drawn PROVE Len(data) = ETH_ALEN
  <2>1. CASE macaddr = <<>>
    <3>1. PICK short \in BOOLEAN : macaddr = Rest(a, short, Len(data))
      BY DEF HwInv
    <3>2. a \in Seq(0..255) /\ Len(a) = ETH_ALEN /\ Len(data) \in 0..Len(a)
      BY AddressAssumption DEF HwInv
    <3> QED
      BY <2>1, <3>1, <3>2, RestFacts
  <2> QED
    BY <2>1 DEF H!Return
<1> QED
  BY <1>1 DEF HwInv, H!Return

(* The first k elements of a sequence.                                     *)
LEMMA Beginning ==
    ASSUME NEW S, NEW s \in Seq(S), NEW k \in 0..Len(s), NEW t, t = SubSeq(s, 1, k)
    PROVE  t \in Seq(S) /\ Len(t) = k /\ \A j \in 1..k : t[j] = s[j]
OBVIOUS

(* A turn reads the next octet, whichever way it is written.               *)
LEMMA HwTurn == ASSUME HwInv, H!Turn PROVE HwInv'
<1>1. /\ data \in Seq(Nat) /\ macaddr \in Seq(Chars)
      /\ Len(data) \in Nat /\ ETH_ALEN \in Nat
      /\ ret = "none" /\ macaddr # <<>> /\ Len(data) < ETH_ALEN
      /\ drawn' = drawn
  BY AddressAssumption DEF HwInv, H!Turn
<1> DEFINE digits == H!isxdigit(H!At(0))
                     /\ (H!isxdigit(H!At(1)) \/ H!At(1) \in {H!Colon, H!NUL})
           val == IF H!isxdigit(H!At(1)) THEN 16 * H!At(0) + H!At(1) ELSE H!At(0)
           after == IF H!At(1) = H!NUL THEN 1 ELSE 2
           k == after + 1 + (IF H!At(after) = H!Colon THEN 1 ELSE 0)
           rest == SubSeq(macaddr, k, Len(macaddr))
<1>2. /\ digits => data' = Append(data, val) /\ macaddr' = rest /\ ret' = ret
      /\ ~digits => ret' = "EINVAL" /\ UNCHANGED <<data, macaddr>>
  BY DEF H!Turn
<1>3. \A j \in Nat : H!At(j) \in Nat
  <2>1. ASSUME NEW j \in Nat, j < Len(macaddr) PROVE macaddr[j + 1] \in Nat
    <3>1. j + 1 \in 1..Len(macaddr)
      BY <1>1, <2>1
    <3>2. macaddr[j + 1] \in Chars
      BY <1>1, <3>1, ElementOfSeq
    <3> QED
      BY <3>2 DEF Chars
  <2>2. H!NUL \in Nat
    BY DEF H!NUL
  <2> QED
    BY <2>1, <2>2 DEF H!At
<1>4. val \in Nat /\ k \in {2, 3, 4}
  <2>1. H!At(0) \in Nat /\ H!At(1) \in Nat
    BY <1>3
  <2>2. after \in {1, 2}
    OBVIOUS
  <2> HIDE DEF after
  <2>3. k \in {2, 3, 4}
    BY <2>2
  <2> QED
    BY <2>1, <2>3
<1> HIDE DEF digits, val, k
<1>5. rest \in Seq(Chars)
  BY <1>1, <1>4
<1> HIDE DEF rest
<1>6. data' \in Seq(Nat) /\ macaddr' \in Seq(Chars) /\ Len(data') <= ETH_ALEN
  <2>1. CASE digits
    <3>1. data' = Append(data, val) /\ macaddr' = rest
      BY <1>2, <2>1
    <3>2. Append(data, val) \in Seq(Nat) /\ Len(Append(data, val)) = Len(data) + 1
      BY <1>1, <1>4
    <3>3. Len(data) + 1 <= ETH_ALEN
      BY <1>1
    <3> QED
      BY <1>5, <3>1, <3>2, <3>3
  <2>2. CASE ~digits
    <3>1. data' = data /\ macaddr' = macaddr
      BY <1>2, <2>2
    <3>2. Len(data) <= ETH_ALEN
      BY <1>1
    <3> QED
      BY <1>1, <3>1, <3>2
  <2> QED
    BY <2>1, <2>2
<1>7. ASSUME NEW a \in drawn
      PROVE  /\ a \in Seq(0..255) /\ Len(a) = ETH_ALEN
             /\ data' = SubSeq(a, 1, Len(data'))
             /\ ret' = "none"
             /\ \E short \in BOOLEAN : macaddr' = Rest(a, short, Len(data'))
  <2>1. a \in Seq(0..255) /\ Len(a) = ETH_ALEN /\ data = SubSeq(a, 1, Len(data))
    BY DEF HwInv
  <2>2. PICK short \in BOOLEAN : macaddr = Rest(a, short, Len(data))
    BY DEF HwInv
  <2>3. PICK i : i = Len(data) + 1
    OBVIOUS
  <2>4. i \in 1..Len(a) /\ Len(data) = i - 1 /\ Len(data) # Len(a)
    <3>1. Len(a) = ETH_ALEN /\ Len(data) \in Nat /\ ETH_ALEN \in Nat /\ Len(data) < ETH_ALEN
      BY <1>1, <2>1
    <3> QED
      BY <2>3, <3>1
  <2>5. macaddr = Texts(a, short)[i]
    BY <2>2, <2>3, <2>4 DEF Rest
  <2>6. /\ H!At(0) \in 0..15
        /\ H!At(1) \in 0..15 \cup {H!Colon, H!NUL}
        /\ a[i] = IF H!At(1) \in 0..15 THEN 16 * H!At(0) + H!At(1) ELSE H!At(0)
        /\ rest = Rest(a, short, i)
    <3>1. /\ H!At(0) \in 0..15
          /\ H!At(1) \in 0..15 \cup {H!Colon, H!NUL}
          /\ a[i] = IF H!At(1) \in 0..15 THEN 16 * H!At(0) + H!At(1) ELSE H!At(0)
          /\ \A q, m :
                /\ q = (IF H!At(1) = H!NUL THEN 1 ELSE 2)
                /\ m = q + 1 + (IF H!At(q) = H!Colon THEN 1 ELSE 0)
                => SubSeq(macaddr, m, Len(macaddr)) = Rest(a, short, i)
      BY <2>1, <2>4, <2>5, ReadOctet
    <3>2. PICK q : q = after
      OBVIOUS
    <3>3. k = q + 1 + (IF H!At(q) = H!Colon THEN 1 ELSE 0)
      BY <3>2, Zenon DEF k
    <3>4. SubSeq(macaddr, k, Len(macaddr)) = Rest(a, short, i)
      BY <3>1, <3>2, <3>3, Zenon
    <3>5. rest = Rest(a, short, i)
      BY <3>4, Zenon DEF rest
    <3> QED
      BY <3>1, <3>5, Zenon
  <2>7. digits /\ val = a[i]
    BY <2>6 DEF digits, val, H!isxdigit, H!Colon, H!NUL
  <2>8. data' = Append(data, a[i]) /\ macaddr' = Rest(a, short, i) /\ ret' = "none"
    BY <1>1, <1>2, <2>6, <2>7
  <2>9. PICK d : d = data'
    OBVIOUS
  <2>10. d \in Seq(Nat) /\ Len(d) = i /\ d[i] = a[i] /\ \A j \in 1..(i - 1) : d[j] = data[j]
    BY <1>1, <1>6, <2>3, <2>4, <2>8, <2>9
  <2>11. d = SubSeq(a, 1, i)
    <3>1. PICK s : s = SubSeq(a, 1, i)
      OBVIOUS
    <3>2. s \in Seq(0..255) /\ Len(s) = i /\ \A j \in 1..i : s[j] = a[j]
      <4>1. PICK S : S = 0..255
        OBVIOUS
      <4>2. a \in Seq(S) /\ i \in 0..Len(a)
        BY <2>1, <2>4, <4>1
      <4>3. s \in Seq(S) /\ Len(s) = i /\ \A j \in 1..i : s[j] = a[j]
        BY <3>1, <4>2, Beginning, SMT
      <4> QED
        BY <4>1, <4>3, Zenon
    <3>3. \A j \in 1..(i - 1) : data[j] = a[j]
      BY <2>1, <2>4
    <3>4. \A j \in 1..i : d[j] = s[j]
      BY <2>4, <2>10, <3>2, <3>3
    <3>5. d = s
      BY <2>10, <3>2, <3>4, SeqEqual
    <3> QED
      BY <3>1, <3>5
  <2> QED
    BY <2>1, <2>8, <2>9, <2>10, <2>11
<1> QED
  BY <1>1, <1>6, <1>7 DEF HwInv

(* lxc_convert_mac reads back exactly what new_hwaddr drew, for every      *)
(* length of an address and with or without leading zeros, and writes no   *)
(* more octets than there is room for whatever it reads.                   *)
THEOREM ConvertExactHolds == Spec => []ConvertExact
<1>1. HwInv /\ [Next]_vars => HwInv'
  <2> SUFFICES ASSUME HwInv, [Next]_vars PROVE HwInv'
    OBVIOUS
  <2>1. CASE H!Next
    BY <2>1, HwTurn, HwReturn DEF H!Next
  <2>2. CASE UNCHANGED hvars
    BY <2>2 DEF hvars, HwInv
  <2> QED
    BY <2>1, <2>2, OneRuns
<1>2. HwInv => ConvertExact
  <2> SUFFICES ASSUME HwInv PROVE ConvertExact
    OBVIOUS
  <2>1. ASSUME NEW a \in drawn
        PROVE  /\ ret # "EINVAL" /\ H!IsPrefix(data, a)
               /\ ret = "0" => data = a /\ macaddr = <<>>
    <3>1. /\ a \in Seq(0..255) /\ Len(a) = ETH_ALEN /\ Len(data) <= Len(a)
          /\ data = SubSeq(a, 1, Len(data)) /\ data \in Seq(Nat) /\ Len(data) \in Nat
          /\ ret # "EINVAL" /\ (ret = "0" => Len(data) = Len(a))
      BY <2>1 DEF HwInv
    <3>2. H!IsPrefix(data, a)
      BY <3>1 DEF H!IsPrefix
    <3>3. ASSUME ret = "0" PROVE data = a /\ macaddr = <<>>
      <4>1. data = SubSeq(a, 1, Len(a)) /\ Len(data) = Len(a)
        BY <3>1, <3>3
      <4>2. SubSeq(a, 1, Len(a)) = a
        BY <3>1
      <4>3. \E short \in BOOLEAN : macaddr = Rest(a, short, Len(a))
        BY <2>1, <4>1 DEF HwInv
      <4> QED
        BY <4>1, <4>2, <4>3 DEF Rest
    <3> QED
      BY <3>1, <3>2, <3>3
  <2> QED
    BY <2>1 DEF HwInv, ConvertExact, H!ConvertExact
<1> QED
  BY <1>1, <1>2, HwInit, PTL DEF Spec

-----------------------------------------------------------------------------
(* Ucontext                                                                *)

(* A context, what has been printed so far, and the two together while the *)
(* process has not ended.                                                  *)
At(f, i, link) == [fn |-> f, at |-> i, link |-> link]
Printed == U!ToSet(said)
Stage(c, w) == ~ended /\ run = c /\ Printed = w

(* An outline of each program: wherever the thread can be, what has been   *)
(* printed and what is in the variables that the rest of the way goes by.  *)
Outline2 ==
    \/ Stage(At("main", 1, U!NULL), {})
    \/ Stage(At("main", 2, U!NULL), {}) /\ ctx[1] = At("foo", 1, U!NULL)
    \/ Stage(At("main", 3, U!NULL), {<<"main", 2>>}) /\ ctx[1] = At("foo", 1, U!NULL)
    \/ Stage(At("foo", 1, U!NULL), {<<"main", 2>>})
    \/ Stage(At("foo", 2, U!NULL), {<<"main", 2>>, <<"foo", 1>>})
    \/ ended /\ Printed = {<<"main", 2>>, <<"foo", 1>>}

Outline3 ==
    \/ Stage(At("main", 1, U!NULL), {})
    \/ Stage(At("main", 2, U!NULL), {}) /\ ctx[1] = At("foo", 1, U!NULL)
    \/ /\ Stage(At("main", 3, U!NULL), {})
       /\ ctx[1] = At("foo", 1, U!NULL) /\ ctx[2] = At("bar", 1, 1)
    \/ /\ Stage(At("main", 4, U!NULL), {<<"main", 3>>})
       /\ ctx[1] = At("foo", 1, U!NULL) /\ ctx[2] = At("bar", 1, 1)
    \/ Stage(At("bar", 1, 1), {<<"main", 3>>}) /\ ctx[1] = At("foo", 1, U!NULL)
    \/ /\ Stage(At("bar", 2, 1), {<<"main", 3>>, <<"bar", 1>>})
       /\ ctx[1] = At("foo", 1, U!NULL)
    \/ Stage(At("foo", 1, U!NULL), {<<"main", 3>>, <<"bar", 1>>})
    \/ Stage(At("foo", 2, U!NULL), {<<"main", 3>>, <<"bar", 1>>, <<"foo", 1>>})
    \/ ended /\ Printed = {<<"main", 3>>, <<"bar", 1>>, <<"foo", 1>>}

Outline4 ==
    \/ Stage(At("main", 1, U!NULL), {})
    \/ Stage(At("main", 2, U!NULL), {}) /\ ctx[1] = At("foo", 1, 0)
    \/ /\ Stage(At("main", 3, U!NULL), {})
       /\ ctx[1] = At("foo", 1, 0) /\ ctx[2] = At("bar", 1, 1)
    \/ /\ Stage(At("bar", 1, 1), {})
       /\ ctx[0] = At("main", 4, U!NULL) /\ ctx[1] = At("foo", 1, 0)
    \/ /\ Stage(At("bar", 2, 1), {<<"bar", 1>>})
       /\ ctx[0] = At("main", 4, U!NULL) /\ ctx[1] = At("foo", 1, 0)
    \/ /\ Stage(At("foo", 1, 0), {<<"bar", 1>>})
       /\ ctx[0] = At("main", 4, U!NULL) /\ ctx[2] = At("bar", 3, 1)
    \/ /\ Stage(At("foo", 2, 0), {<<"bar", 1>>, <<"foo", 1>>})
       /\ ctx[0] = At("main", 4, U!NULL) /\ ctx[2] = At("bar", 3, 1)
    \/ /\ Stage(At("bar", 3, 1), {<<"bar", 1>>, <<"foo", 1>>})
       /\ ctx[0] = At("main", 4, U!NULL) /\ ctx[1] = At("foo", 3, 0)
    \/ /\ Stage(At("bar", 4, 1), {<<"bar", 1>>, <<"foo", 1>>, <<"bar", 3>>})
       /\ ctx[0] = At("main", 4, U!NULL) /\ ctx[1] = At("foo", 3, 0)
    \/ /\ Stage(At("foo", 3, 0), {<<"bar", 1>>, <<"foo", 1>>, <<"bar", 3>>})
       /\ ctx[0] = At("main", 4, U!NULL)
    \/ /\ Stage(At("foo", 4, 0), {<<"bar", 1>>, <<"foo", 1>>, <<"bar", 3>>, <<"foo", 3>>})
       /\ ctx[0] = At("main", 4, U!NULL)
    \/ Stage(At("main", 4, U!NULL),
             {<<"bar", 1>>, <<"foo", 1>>, <<"bar", 3>>, <<"foo", 3>>})
    \/ Stage(At("main", 5, U!NULL),
             {<<"bar", 1>>, <<"foo", 1>>, <<"bar", 3>>, <<"foo", 3>>, <<"main", 4>>})
    \/ /\ ended
       /\ Printed = {<<"bar", 1>>, <<"foo", 1>>, <<"bar", 3>>, <<"foo", 3>>, <<"main", 4>>}

Places == {"main", "foo", "bar"} \X (1..4)

(* No place is printed twice.                                              *)
Sound == said \in Seq(Places) /\ U!IsInjective(said) /\ DOMAIN ctx = 0..2

(* The calls, one by one.                                                  *)
LEMMA Code2Facts ==
    ASSUME example = 2
    PROVE  /\ DOMAIN U!Code = {"main", "foo"}
           /\ Len(U!Code["main"]) = 3 /\ DOMAIN U!Code["main"] = 1..3
           /\ Len(U!Code["foo"]) = 1 /\ DOMAIN U!Code["foo"] = 1..1
           /\ U!Code["main"][1] = U!make(1, "foo", U!NULL)
           /\ U!Code["main"][2] = U!printf
           /\ U!Code["main"][3] = U!set(1)
           /\ U!Code["foo"][1] = U!printf
BY DEF U!Code, U!Code2

LEMMA Code3Facts ==
    ASSUME example = 3
    PROVE  /\ DOMAIN U!Code = {"main", "foo", "bar"}
           /\ Len(U!Code["main"]) = 4 /\ DOMAIN U!Code["main"] = 1..4
           /\ Len(U!Code["foo"]) = 1 /\ DOMAIN U!Code["foo"] = 1..1
           /\ Len(U!Code["bar"]) = 1 /\ DOMAIN U!Code["bar"] = 1..1
           /\ U!Code["main"][1] = U!make(1, "foo", U!NULL)
           /\ U!Code["main"][2] = U!make(2, "bar", 1)
           /\ U!Code["main"][3] = U!printf
           /\ U!Code["main"][4] = U!set(2)
           /\ U!Code["foo"][1] = U!printf
           /\ U!Code["bar"][1] = U!printf
BY DEF U!Code, U!Code3

LEMMA Code4Facts ==
    ASSUME example = 4
    PROVE  /\ DOMAIN U!Code = {"main", "foo", "bar"}
           /\ Len(U!Code["main"]) = 4 /\ DOMAIN U!Code["main"] = 1..4
           /\ Len(U!Code["foo"]) = 3 /\ DOMAIN U!Code["foo"] = 1..3
           /\ Len(U!Code["bar"]) = 3 /\ DOMAIN U!Code["bar"] = 1..3
           /\ U!Code["main"][1] = U!make(1, "foo", 0)
           /\ U!Code["main"][2] = U!make(2, "bar", 1)
           /\ U!Code["main"][3] = U!swap(0, 2)
           /\ U!Code["main"][4] = U!printf
           /\ U!Code["foo"][1] = U!printf
           /\ U!Code["foo"][2] = U!swap(1, 2)
           /\ U!Code["foo"][3] = U!printf
           /\ U!Code["bar"][1] = U!printf
           /\ U!Code["bar"][2] = U!swap(2, 1)
           /\ U!Code["bar"][3] = U!printf
BY DEF U!Code, U!Code4

(* What a step does, by the call that is due.                              *)
LEMMA OpMakecontext ==
    ASSUME U!Next, Sound, ~ended, ~U!Returns,
           NEW i \in 0..2, NEW f, NEW l, U!call = U!make(i, f, l)
    PROVE  /\ run' = U!Onward /\ ctx'[i] = At(f, 1, l)
           /\ \A j \in 0..2 : j # i => ctx'[j] = ctx[j]
           /\ UNCHANGED <<example, said, ended>> /\ Sound'
BY DEF U!Next, U!makecontext, U!Printf, U!setcontext, U!swapcontext, U!Return, U!Calls,
       U!make, At, Sound

(* Appending to said a place that is not in it.                            *)
LEMMA SaysMore ==
    ASSUME NEW s \in Seq(Places), U!IsInjective(s),
           NEW w \in Places, w \notin U!ToSet(s)
    PROVE  /\ Append(s, w) \in Seq(Places)
           /\ U!IsInjective(Append(s, w))
           /\ U!ToSet(Append(s, w)) = U!ToSet(s) \cup {w}
<1>1. PICK k \in Nat : k = Len(s)
  OBVIOUS
<1>2. PICK t : t = Append(s, w)
  OBVIOUS
<1>3. /\ t \in Seq(Places) /\ DOMAIN t = 1..(k + 1) /\ DOMAIN s = 1..k
      /\ t[k + 1] = w
  BY <1>1, <1>2
<1>4. ASSUME NEW j \in 1..k PROVE t[j] = s[j] /\ s[j] # w
  BY <1>1, <1>2 DEF U!ToSet
<1>5. U!IsInjective(t)
  <2> SUFFICES ASSUME NEW x \in 1..(k + 1), NEW y \in 1..(k + 1), t[x] = t[y]
               PROVE  x = y
    BY <1>3 DEF U!IsInjective
  <2>1. CASE x = k + 1 \/ y = k + 1
    <3>1. x \in 1..k \/ x = k + 1
      OBVIOUS
    <3>2. y \in 1..k \/ y = k + 1
      OBVIOUS
    <3> QED
      BY <1>3, <1>4, <2>1, <3>1, <3>2
  <2>2. CASE x \in 1..k /\ y \in 1..k
    BY <1>3, <1>4, <2>2 DEF U!IsInjective
  <2> QED
    BY <2>1, <2>2
<1>6. U!ToSet(t) = U!ToSet(s) \cup {w}
  <2>1. U!ToSet(t) = {t[j] : j \in 1..(k + 1)} /\ U!ToSet(s) = {s[j] : j \in 1..k}
    BY <1>3 DEF U!ToSet
  <2>2. ASSUME NEW j \in 1..(k + 1) PROVE t[j] \in U!ToSet(s) \cup {w}
    <3>1. j \in 1..k \/ j = k + 1
      OBVIOUS
    <3> QED
      BY <1>3, <1>4, <2>1, <3>1
  <2>3. ASSUME NEW j \in 1..k PROVE s[j] \in U!ToSet(t)
    <3>1. j \in 1..(k + 1) /\ t[j] = s[j]
      BY <1>4
    <3> QED
      BY <2>1, <3>1 DEF Places
  <2>4. w \in U!ToSet(t)
    <3>1. k + 1 \in 1..(k + 1)
      OBVIOUS
    <3> QED
      BY <1>3, <2>1, <3>1
  <2> QED
    BY <2>1, <2>2, <2>3, <2>4
<1> QED
  BY <1>2, <1>3, <1>5, <1>6

LEMMA OpPrintf ==
    ASSUME U!Next, ~ended, ~U!Returns, U!call = U!printf, Sound,
           NEW w \in Places, w = <<run.fn, run.at>>,
           w \notin Printed
    PROVE  /\ run' = U!Onward /\ Printed' = Printed \cup {w}
           /\ UNCHANGED <<example, ctx, ended>> /\ Sound'
<1>1. /\ said' = Append(said, w) /\ run' = U!Onward
      /\ UNCHANGED <<example, ctx, ended>>
  BY DEF U!Next, U!makecontext, U!Printf, U!setcontext, U!swapcontext, U!Return, U!Calls,
         U!printf
<1> QED
  BY <1>1, SaysMore DEF Sound, Printed

LEMMA OpSetcontext ==
    ASSUME U!Next, Sound, ~ended, ~U!Returns, NEW i, U!call = U!set(i)
    PROVE  run' = ctx[i] /\ UNCHANGED <<example, ctx, said, ended>> /\ Sound'
BY DEF U!Next, U!makecontext, U!Printf, U!setcontext, U!swapcontext, U!Return, U!Calls,
       U!set, Sound

LEMMA OpSwapcontext ==
    ASSUME U!Next, Sound, ~ended, ~U!Returns,
           NEW s \in 0..2, NEW i, U!call = U!swap(s, i)
    PROVE  /\ run' = ctx[i] /\ ctx'[s] = U!Onward
           /\ \A j \in 0..2 : j # s => ctx'[j] = ctx[j]
           /\ UNCHANGED <<example, said, ended>> /\ Sound'
BY DEF U!Next, U!makecontext, U!Printf, U!setcontext, U!swapcontext, U!Return, U!Calls,
       U!swap, Sound

LEMMA OpReturn ==
    ASSUME U!Next, U!Returns, Sound
    PROVE  /\ run.link = U!NULL => ended' /\ UNCHANGED run
           /\ run.link # U!NULL => run' = ctx[run.link] /\ UNCHANGED ended
           /\ UNCHANGED <<example, ctx, said>> /\ Sound'
BY DEF U!Next, U!makecontext, U!Printf, U!setcontext, U!swapcontext, U!Return, U!Calls,
       U!NULL, Sound

(* Every step goes from one line of the outline to the next.               *)
LEMMA Follows2 ==
    ASSUME U!Next, Sound, example = 2, Outline2
    PROVE  Sound' /\ example' = 2 /\ Outline2'
<1>1. CASE Stage(At("main", 1, U!NULL), {})
  <2>1. /\ ~U!Returns /\ U!call = U!make(1, "foo", U!NULL) /\ ~ended
        /\ U!Onward = At("main", 2, U!NULL)
    BY <1>1, Code2Facts DEF Stage, At, U!Returns, U!call, U!Onward
  <2>2. /\ Stage(At("main", 2, U!NULL), {})' /\ Sound' /\ UNCHANGED example
        /\ ctx'[1] = At("foo", 1, U!NULL) /\ \A j \in 0..2 : j # 1 => ctx'[j] = ctx[j]
    BY <1>1, <2>1, OpMakecontext DEF Stage, Printed
  <2> QED
    BY <1>1, <2>1, <2>2 DEF Outline2
<1>2. CASE Stage(At("main", 2, U!NULL), {}) /\ ctx[1] = At("foo", 1, U!NULL)
  <2>1. /\ ~U!Returns /\ U!call = U!printf /\ ~ended
        /\ U!Onward = At("main", 3, U!NULL) /\ run.fn = "main" /\ run.at = 2
    BY <1>2, Code2Facts DEF Stage, At, U!Returns, U!call, U!Onward
  <2>2. <<"main", 2>> \in Places \ Printed /\ <<"main", 2>> = <<run.fn, run.at>>
    BY <1>2, <2>1 DEF Stage, Places
  <2>3. /\ Printed' = Printed \cup {<<"main", 2>>} /\ run' = U!Onward
        /\ UNCHANGED <<example, ctx, ended>> /\ Sound'
    BY <2>1, <2>2, OpPrintf
  <2>4. Printed' = {<<"main", 2>>}
    BY <1>2, <2>3 DEF Stage
  <2>5. Stage(At("main", 3, U!NULL), {<<"main", 2>>})'
    BY <1>2, <2>1, <2>3, <2>4 DEF Stage
  <2> QED
    BY <1>2, <2>3, <2>5 DEF Outline2
<1>3. CASE /\ Stage(At("main", 3, U!NULL), {<<"main", 2>>})
           /\ ctx[1] = At("foo", 1, U!NULL)
  <2>1. ~U!Returns /\ U!call = U!set(1) /\ ~ended
    BY <1>3, Code2Facts DEF Stage, At, U!Returns, U!call, U!Onward
  <2>2. /\ Stage(At("foo", 1, U!NULL), {<<"main", 2>>})' /\ Sound'
        /\ UNCHANGED <<example, ctx>>
    BY <1>3, <2>1, OpSetcontext DEF Stage, Printed
  <2> QED
    BY <1>3, <2>1, <2>2 DEF Outline2
<1>4. CASE Stage(At("foo", 1, U!NULL), {<<"main", 2>>})
  <2>1. /\ ~U!Returns /\ U!call = U!printf /\ ~ended
        /\ U!Onward = At("foo", 2, U!NULL) /\ run.fn = "foo" /\ run.at = 1
    BY <1>4, Code2Facts DEF Stage, At, U!Returns, U!call, U!Onward
  <2>2. <<"foo", 1>> \in Places \ Printed /\ <<"foo", 1>> = <<run.fn, run.at>>
    BY <1>4, <2>1 DEF Stage, Places
  <2>3. /\ Printed' = Printed \cup {<<"foo", 1>>} /\ run' = U!Onward
        /\ UNCHANGED <<example, ctx, ended>> /\ Sound'
    BY <2>1, <2>2, OpPrintf
  <2>4. Printed' = {<<"main", 2>>, <<"foo", 1>>}
    BY <1>4, <2>3 DEF Stage
  <2>5. Stage(At("foo", 2, U!NULL), {<<"main", 2>>, <<"foo", 1>>})'
    BY <1>4, <2>1, <2>3, <2>4 DEF Stage
  <2> QED
    BY <1>4, <2>3, <2>5 DEF Outline2
<1>5. CASE Stage(At("foo", 2, U!NULL), {<<"main", 2>>, <<"foo", 1>>})
  <2>1. run.fn = "foo" /\ run.at = 2 /\ run.link = U!NULL
    BY <1>5 DEF Stage, At
  <2>2. Len(U!Code[run.fn]) = 1
    BY <2>1, Code2Facts
  <2>3. U!Returns
    BY <2>1, <2>2 DEF U!Returns
  <2> QED
    BY <1>5, <2>1, <2>3, OpReturn DEF Outline2, Stage, Printed
<1>6. CASE ended
  BY <1>6 DEF U!Next, U!makecontext, U!Printf, U!setcontext, U!swapcontext, U!Return,
             U!Calls
<1> QED
  BY <1>1, <1>2, <1>3, <1>4, <1>5, <1>6 DEF Outline2

LEMMA Follows3 ==
    ASSUME U!Next, Sound, example = 3, Outline3
    PROVE  Sound' /\ example' = 3 /\ Outline3'
<1>1. CASE Stage(At("main", 1, U!NULL), {})
  <2>1. /\ ~U!Returns /\ U!call = U!make(1, "foo", U!NULL) /\ ~ended
        /\ U!Onward = At("main", 2, U!NULL)
    BY <1>1, Code3Facts DEF Stage, At, U!Returns, U!call, U!Onward
  <2>2. /\ Stage(At("main", 2, U!NULL), {})' /\ Sound' /\ UNCHANGED example
        /\ ctx'[1] = At("foo", 1, U!NULL) /\ \A j \in 0..2 : j # 1 => ctx'[j] = ctx[j]
    BY <1>1, <2>1, OpMakecontext DEF Stage, Printed
  <2> QED
    BY <1>1, <2>1, <2>2 DEF Outline3
<1>2. CASE Stage(At("main", 2, U!NULL), {}) /\ ctx[1] = At("foo", 1, U!NULL)
  <2>1. /\ ~U!Returns /\ U!call = U!make(2, "bar", 1) /\ ~ended
        /\ U!Onward = At("main", 3, U!NULL)
    BY <1>2, Code3Facts DEF Stage, At, U!Returns, U!call, U!Onward
  <2>2. /\ Stage(At("main", 3, U!NULL), {})' /\ Sound' /\ UNCHANGED example
        /\ ctx'[2] = At("bar", 1, 1) /\ \A j \in 0..2 : j # 2 => ctx'[j] = ctx[j]
    BY <1>2, <2>1, OpMakecontext DEF Stage, Printed
  <2> QED
    BY <1>2, <2>1, <2>2 DEF Outline3
<1>3. CASE /\ Stage(At("main", 3, U!NULL), {})
           /\ ctx[1] = At("foo", 1, U!NULL) /\ ctx[2] = At("bar", 1, 1)
  <2>1. /\ ~U!Returns /\ U!call = U!printf /\ ~ended
        /\ U!Onward = At("main", 4, U!NULL) /\ run.fn = "main" /\ run.at = 3
    BY <1>3, Code3Facts DEF Stage, At, U!Returns, U!call, U!Onward
  <2>2. <<"main", 3>> \in Places \ Printed /\ <<"main", 3>> = <<run.fn, run.at>>
    BY <1>3, <2>1 DEF Stage, Places
  <2>3. /\ Printed' = Printed \cup {<<"main", 3>>} /\ run' = U!Onward
        /\ UNCHANGED <<example, ctx, ended>> /\ Sound'
    BY <2>1, <2>2, OpPrintf
  <2>4. Printed' = {<<"main", 3>>}
    BY <1>3, <2>3 DEF Stage
  <2>5. Stage(At("main", 4, U!NULL), {<<"main", 3>>})'
    BY <1>3, <2>1, <2>3, <2>4 DEF Stage
  <2> QED
    BY <1>3, <2>3, <2>5 DEF Outline3
<1>4. CASE /\ Stage(At("main", 4, U!NULL), {<<"main", 3>>})
           /\ ctx[1] = At("foo", 1, U!NULL) /\ ctx[2] = At("bar", 1, 1)
  <2>1. ~U!Returns /\ U!call = U!set(2) /\ ~ended
    BY <1>4, Code3Facts DEF Stage, At, U!Returns, U!call, U!Onward
  <2>2. /\ Stage(At("bar", 1, 1), {<<"main", 3>>})' /\ Sound'
        /\ UNCHANGED <<example, ctx>>
    BY <1>4, <2>1, OpSetcontext DEF Stage, Printed
  <2> QED
    BY <1>4, <2>1, <2>2 DEF Outline3
<1>5. CASE Stage(At("bar", 1, 1), {<<"main", 3>>}) /\ ctx[1] = At("foo", 1, U!NULL)
  <2>1. /\ ~U!Returns /\ U!call = U!printf /\ ~ended
        /\ U!Onward = At("bar", 2, 1) /\ run.fn = "bar" /\ run.at = 1
    BY <1>5, Code3Facts DEF Stage, At, U!Returns, U!call, U!Onward
  <2>2. <<"bar", 1>> \in Places \ Printed /\ <<"bar", 1>> = <<run.fn, run.at>>
    BY <1>5, <2>1 DEF Stage, Places
  <2>3. /\ Printed' = Printed \cup {<<"bar", 1>>} /\ run' = U!Onward
        /\ UNCHANGED <<example, ctx, ended>> /\ Sound'
    BY <2>1, <2>2, OpPrintf
  <2>4. Printed' = {<<"main", 3>>, <<"bar", 1>>}
    BY <1>5, <2>3 DEF Stage
  <2>5. Stage(At("bar", 2, 1), {<<"main", 3>>, <<"bar", 1>>})'
    BY <1>5, <2>1, <2>3, <2>4 DEF Stage
  <2> QED
    BY <1>5, <2>3, <2>5 DEF Outline3
<1>6. CASE /\ Stage(At("bar", 2, 1), {<<"main", 3>>, <<"bar", 1>>})
           /\ ctx[1] = At("foo", 1, U!NULL)
  <2>1. run.fn = "bar" /\ run.at = 2 /\ run.link = 1
    BY <1>6 DEF Stage, At
  <2>2. Len(U!Code[run.fn]) = 1
    BY <2>1, Code3Facts
  <2>3. U!Returns
    BY <2>1, <2>2 DEF U!Returns
  <2>4. /\ Stage(At("foo", 1, U!NULL),
                 {<<"main", 3>>, <<"bar", 1>>})'
        /\ Sound' /\ UNCHANGED <<example, ctx>>
    BY <1>6, <2>1, <2>3, OpReturn DEF Stage, Printed, U!NULL
  <2> QED
    BY <1>6, <2>4 DEF Outline3
<1>7. CASE Stage(At("foo", 1, U!NULL), {<<"main", 3>>, <<"bar", 1>>})
  <2>1. /\ ~U!Returns /\ U!call = U!printf /\ ~ended
        /\ U!Onward = At("foo", 2, U!NULL) /\ run.fn = "foo" /\ run.at = 1
    BY <1>7, Code3Facts DEF Stage, At, U!Returns, U!call, U!Onward
  <2>2. <<"foo", 1>> \in Places \ Printed /\ <<"foo", 1>> = <<run.fn, run.at>>
    BY <1>7, <2>1 DEF Stage, Places
  <2>3. /\ Printed' = Printed \cup {<<"foo", 1>>} /\ run' = U!Onward
        /\ UNCHANGED <<example, ctx, ended>> /\ Sound'
    BY <2>1, <2>2, OpPrintf
  <2>4. Printed' = {<<"main", 3>>, <<"bar", 1>>, <<"foo", 1>>}
    BY <1>7, <2>3 DEF Stage
  <2>5. Stage(At("foo", 2, U!NULL), {<<"main", 3>>, <<"bar", 1>>, <<"foo", 1>>})'
    BY <1>7, <2>1, <2>3, <2>4 DEF Stage
  <2> QED
    BY <1>7, <2>3, <2>5 DEF Outline3
<1>8. CASE Stage(At("foo", 2, U!NULL), {<<"main", 3>>, <<"bar", 1>>, <<"foo", 1>>})
  <2>1. run.fn = "foo" /\ run.at = 2 /\ run.link = U!NULL
    BY <1>8 DEF Stage, At
  <2>2. Len(U!Code[run.fn]) = 1
    BY <2>1, Code3Facts
  <2>3. U!Returns
    BY <2>1, <2>2 DEF U!Returns
  <2> QED
    BY <1>8, <2>1, <2>3, OpReturn DEF Outline3, Stage, Printed
<1>9. CASE ended
  BY <1>9 DEF U!Next, U!makecontext, U!Printf, U!setcontext, U!swapcontext, U!Return,
             U!Calls
<1> QED
  BY <1>1, <1>2, <1>3, <1>4, <1>5, <1>6, <1>7, <1>8, <1>9 DEF Outline3

LEMMA Follows4 ==
    ASSUME U!Next, Sound, example = 4, Outline4
    PROVE  Sound' /\ example' = 4 /\ Outline4'
<1>1. CASE Stage(At("main", 1, U!NULL), {})
  <2>1. /\ ~U!Returns /\ U!call = U!make(1, "foo", 0) /\ ~ended
        /\ U!Onward = At("main", 2, U!NULL)
    BY <1>1, Code4Facts DEF Stage, At, U!Returns, U!call, U!Onward
  <2>2. /\ Stage(At("main", 2, U!NULL), {})' /\ Sound' /\ UNCHANGED example
        /\ ctx'[1] = At("foo", 1, 0) /\ \A j \in 0..2 : j # 1 => ctx'[j] = ctx[j]
    BY <1>1, <2>1, OpMakecontext DEF Stage, Printed
  <2> QED
    BY <1>1, <2>1, <2>2 DEF Outline4
<1>2. CASE Stage(At("main", 2, U!NULL), {}) /\ ctx[1] = At("foo", 1, 0)
  <2>1. /\ ~U!Returns /\ U!call = U!make(2, "bar", 1) /\ ~ended
        /\ U!Onward = At("main", 3, U!NULL)
    BY <1>2, Code4Facts DEF Stage, At, U!Returns, U!call, U!Onward
  <2>2. /\ Stage(At("main", 3, U!NULL), {})' /\ Sound' /\ UNCHANGED example
        /\ ctx'[2] = At("bar", 1, 1) /\ \A j \in 0..2 : j # 2 => ctx'[j] = ctx[j]
    BY <1>2, <2>1, OpMakecontext DEF Stage, Printed
  <2> QED
    BY <1>2, <2>1, <2>2 DEF Outline4
<1>3. CASE /\ Stage(At("main", 3, U!NULL), {})
           /\ ctx[1] = At("foo", 1, 0) /\ ctx[2] = At("bar", 1, 1)
  <2>1. /\ ~U!Returns /\ U!call = U!swap(0, 2) /\ ~ended
        /\ U!Onward = At("main", 4, U!NULL)
    BY <1>3, Code4Facts DEF Stage, At, U!Returns, U!call, U!Onward
  <2>2. /\ Stage(At("bar", 1, 1), {})' /\ Sound' /\ UNCHANGED example
        /\ ctx'[0] = U!Onward /\ \A j \in 0..2 : j # 0 => ctx'[j] = ctx[j]
    BY <1>3, <2>1, OpSwapcontext DEF Stage, Printed
  <2> QED
    BY <1>3, <2>1, <2>2 DEF Outline4
<1>4. CASE /\ Stage(At("bar", 1, 1), {})
           /\ ctx[0] = At("main", 4, U!NULL) /\ ctx[1] = At("foo", 1, 0)
  <2>1. /\ ~U!Returns /\ U!call = U!printf /\ ~ended
        /\ U!Onward = At("bar", 2, 1) /\ run.fn = "bar" /\ run.at = 1
    BY <1>4, Code4Facts DEF Stage, At, U!Returns, U!call, U!Onward
  <2>2. <<"bar", 1>> \in Places \ Printed /\ <<"bar", 1>> = <<run.fn, run.at>>
    BY <1>4, <2>1 DEF Stage, Places
  <2>3. /\ Printed' = Printed \cup {<<"bar", 1>>} /\ run' = U!Onward
        /\ UNCHANGED <<example, ctx, ended>> /\ Sound'
    BY <2>1, <2>2, OpPrintf
  <2>4. Printed' = {<<"bar", 1>>}
    BY <1>4, <2>3 DEF Stage
  <2>5. Stage(At("bar", 2, 1), {<<"bar", 1>>})'
    BY <1>4, <2>1, <2>3, <2>4 DEF Stage
  <2> QED
    BY <1>4, <2>3, <2>5 DEF Outline4
<1>5. CASE /\ Stage(At("bar", 2, 1), {<<"bar", 1>>})
           /\ ctx[0] = At("main", 4, U!NULL) /\ ctx[1] = At("foo", 1, 0)
  <2>1. /\ ~U!Returns /\ U!call = U!swap(2, 1) /\ ~ended
        /\ U!Onward = At("bar", 3, 1)
    BY <1>5, Code4Facts DEF Stage, At, U!Returns, U!call, U!Onward
  <2>2. /\ Stage(At("foo", 1, 0), {<<"bar", 1>>})' /\ Sound' /\ UNCHANGED example
        /\ ctx'[2] = U!Onward /\ \A j \in 0..2 : j # 2 => ctx'[j] = ctx[j]
    BY <1>5, <2>1, OpSwapcontext DEF Stage, Printed
  <2> QED
    BY <1>5, <2>1, <2>2 DEF Outline4
<1>6. CASE /\ Stage(At("foo", 1, 0), {<<"bar", 1>>})
           /\ ctx[0] = At("main", 4, U!NULL) /\ ctx[2] = At("bar", 3, 1)
  <2>1. /\ ~U!Returns /\ U!call = U!printf /\ ~ended
        /\ U!Onward = At("foo", 2, 0) /\ run.fn = "foo" /\ run.at = 1
    BY <1>6, Code4Facts DEF Stage, At, U!Returns, U!call, U!Onward
  <2>2. <<"foo", 1>> \in Places \ Printed /\ <<"foo", 1>> = <<run.fn, run.at>>
    BY <1>6, <2>1 DEF Stage, Places
  <2>3. /\ Printed' = Printed \cup {<<"foo", 1>>} /\ run' = U!Onward
        /\ UNCHANGED <<example, ctx, ended>> /\ Sound'
    BY <2>1, <2>2, OpPrintf
  <2>4. Printed' = {<<"bar", 1>>, <<"foo", 1>>}
    BY <1>6, <2>3 DEF Stage
  <2>5. Stage(At("foo", 2, 0), {<<"bar", 1>>, <<"foo", 1>>})'
    BY <1>6, <2>1, <2>3, <2>4 DEF Stage
  <2> QED
    BY <1>6, <2>3, <2>5 DEF Outline4
<1>7. CASE /\ Stage(At("foo", 2, 0), {<<"bar", 1>>, <<"foo", 1>>})
           /\ ctx[0] = At("main", 4, U!NULL) /\ ctx[2] = At("bar", 3, 1)
  <2>1. /\ ~U!Returns /\ U!call = U!swap(1, 2) /\ ~ended
        /\ U!Onward = At("foo", 3, 0)
    BY <1>7, Code4Facts DEF Stage, At, U!Returns, U!call, U!Onward
  <2>2. /\ Stage(At("bar", 3, 1),
                 {<<"bar", 1>>, <<"foo", 1>>})' /\ Sound' /\ UNCHANGED example
        /\ ctx'[1] = U!Onward /\ \A j \in 0..2 : j # 1 => ctx'[j] = ctx[j]
    BY <1>7, <2>1, OpSwapcontext DEF Stage, Printed
  <2> QED
    BY <1>7, <2>1, <2>2 DEF Outline4
<1>8. CASE /\ Stage(At("bar", 3, 1), {<<"bar", 1>>, <<"foo", 1>>})
           /\ ctx[0] = At("main", 4, U!NULL) /\ ctx[1] = At("foo", 3, 0)
  <2>1. /\ ~U!Returns /\ U!call = U!printf /\ ~ended
        /\ U!Onward = At("bar", 4, 1) /\ run.fn = "bar" /\ run.at = 3
    BY <1>8, Code4Facts DEF Stage, At, U!Returns, U!call, U!Onward
  <2>2. <<"bar", 3>> \in Places \ Printed /\ <<"bar", 3>> = <<run.fn, run.at>>
    BY <1>8, <2>1 DEF Stage, Places
  <2>3. /\ Printed' = Printed \cup {<<"bar", 3>>} /\ run' = U!Onward
        /\ UNCHANGED <<example, ctx, ended>> /\ Sound'
    BY <2>1, <2>2, OpPrintf
  <2>4. Printed' = {<<"bar", 1>>, <<"foo", 1>>, <<"bar", 3>>}
    BY <1>8, <2>3 DEF Stage
  <2>5. Stage(At("bar", 4, 1), {<<"bar", 1>>, <<"foo", 1>>, <<"bar", 3>>})'
    BY <1>8, <2>1, <2>3, <2>4 DEF Stage
  <2> QED
    BY <1>8, <2>3, <2>5 DEF Outline4
<1>9. CASE /\ Stage(At("bar", 4, 1), {<<"bar", 1>>, <<"foo", 1>>, <<"bar", 3>>})
           /\ ctx[0] = At("main", 4, U!NULL) /\ ctx[1] = At("foo", 3, 0)
  <2>1. run.fn = "bar" /\ run.at = 4 /\ run.link = 1
    BY <1>9 DEF Stage, At
  <2>2. Len(U!Code[run.fn]) = 3
    BY <2>1, Code4Facts
  <2>3. U!Returns
    BY <2>1, <2>2 DEF U!Returns
  <2>4. /\ Stage(At("foo", 3, 0),
                 {<<"bar", 1>>, <<"foo", 1>>, <<"bar", 3>>})'
        /\ Sound' /\ UNCHANGED <<example, ctx>>
    BY <1>9, <2>1, <2>3, OpReturn DEF Stage, Printed, U!NULL
  <2> QED
    BY <1>9, <2>4 DEF Outline4
<1>10. CASE /\ Stage(At("foo", 3, 0), {<<"bar", 1>>, <<"foo", 1>>, <<"bar", 3>>})
            /\ ctx[0] = At("main", 4, U!NULL)
  <2>1. /\ ~U!Returns /\ U!call = U!printf /\ ~ended
        /\ U!Onward = At("foo", 4, 0) /\ run.fn = "foo" /\ run.at = 3
    BY <1>10, Code4Facts DEF Stage, At, U!Returns, U!call, U!Onward
  <2>2. <<"foo", 3>> \in Places \ Printed /\ <<"foo", 3>> = <<run.fn, run.at>>
    BY <1>10, <2>1 DEF Stage, Places
  <2>3. /\ Printed' = Printed \cup {<<"foo", 3>>} /\ run' = U!Onward
        /\ UNCHANGED <<example, ctx, ended>> /\ Sound'
    BY <2>1, <2>2, OpPrintf
  <2>4. Printed' = {<<"bar", 1>>, <<"foo", 1>>, <<"bar", 3>>, <<"foo", 3>>}
    BY <1>10, <2>3 DEF Stage
  <2>5. Stage(At("foo", 4, 0), {<<"bar", 1>>, <<"foo", 1>>, <<"bar", 3>>, <<"foo", 3>>})'
    BY <1>10, <2>1, <2>3, <2>4 DEF Stage
  <2> QED
    BY <1>10, <2>3, <2>5 DEF Outline4
<1>11. CASE /\ Stage(At("foo", 4, 0),
                     {<<"bar", 1>>, <<"foo", 1>>, <<"bar", 3>>, <<"foo", 3>>})
            /\ ctx[0] = At("main", 4, U!NULL)
  <2>1. run.fn = "foo" /\ run.at = 4 /\ run.link = 0
    BY <1>11 DEF Stage, At
  <2>2. Len(U!Code[run.fn]) = 3
    BY <2>1, Code4Facts
  <2>3. U!Returns
    BY <2>1, <2>2 DEF U!Returns
  <2>4. /\ Stage(At("main", 4, U!NULL),
                 {<<"bar", 1>>, <<"foo", 1>>, <<"bar", 3>>, <<"foo", 3>>})'
        /\ Sound' /\ UNCHANGED <<example, ctx>>
    BY <1>11, <2>1, <2>3, OpReturn DEF Stage, Printed, U!NULL
  <2> QED
    BY <1>11, <2>4 DEF Outline4
<1>12. CASE Stage(At("main", 4, U!NULL),
                  {<<"bar", 1>>, <<"foo", 1>>, <<"bar", 3>>, <<"foo", 3>>})
  <2>1. /\ ~U!Returns /\ U!call = U!printf /\ ~ended
        /\ U!Onward = At("main", 5, U!NULL) /\ run.fn = "main" /\ run.at = 4
    BY <1>12, Code4Facts DEF Stage, At, U!Returns, U!call, U!Onward
  <2>2. <<"main", 4>> \in Places \ Printed /\ <<"main", 4>> = <<run.fn, run.at>>
    BY <1>12, <2>1 DEF Stage, Places
  <2>3. /\ Printed' = Printed \cup {<<"main", 4>>} /\ run' = U!Onward
        /\ UNCHANGED <<example, ctx, ended>> /\ Sound'
    BY <2>1, <2>2, OpPrintf
  <2>4. Printed' = {<<"bar", 1>>, <<"foo", 1>>, <<"bar", 3>>, <<"foo", 3>>, <<"main", 4>>}
    BY <1>12, <2>3 DEF Stage
  <2>5. Stage(At("main", 5, U!NULL),
              {<<"bar", 1>>, <<"foo", 1>>, <<"bar", 3>>, <<"foo", 3>>, <<"main", 4>>})'
    BY <1>12, <2>1, <2>3, <2>4 DEF Stage
  <2> QED
    BY <1>12, <2>3, <2>5 DEF Outline4
<1>13. CASE Stage(At("main", 5, U!NULL),
                  {<<"bar", 1>>, <<"foo", 1>>, <<"bar", 3>>, <<"foo", 3>>, <<"main", 4>>})
  <2>1. run.fn = "main" /\ run.at = 5 /\ run.link = U!NULL
    BY <1>13 DEF Stage, At
  <2>2. Len(U!Code[run.fn]) = 4
    BY <2>1, Code4Facts
  <2>3. U!Returns
    BY <2>1, <2>2 DEF U!Returns
  <2> QED
    BY <1>13, <2>1, <2>3, OpReturn DEF Outline4, Stage, Printed
<1>14. CASE ended
  BY <1>14 DEF U!Next, U!makecontext, U!Printf, U!setcontext, U!swapcontext, U!Return,
             U!Calls
<1> QED
  BY <1>1, <1>2, <1>3, <1>4, <1>5, <1>6, <1>7, <1>8, <1>9, <1>10,
     <1>11, <1>12, <1>13, <1>14 DEF Outline4

OutlineInv ==
    Sound /\ \/ example = 2 /\ Outline2
             \/ example = 3 /\ Outline3
             \/ example = 4 /\ Outline4

LEMMA OutlineInit == Init => OutlineInv
<1> SUFFICES ASSUME U!Init PROVE OutlineInv
  BY DEF Init
<1>1. Printed = {} /\ Sound
  BY DEF U!Init, Printed, Sound, U!ToSet, U!IsInjective
<1>2. Stage(At("main", 1, U!NULL), {})
  BY <1>1 DEF U!Init, U!Start, Stage, At
<1>3. example \in 2..4
  BY DEF U!Init
<1> QED
  BY <1>1, <1>2, <1>3 DEF OutlineInv, Outline2, Outline3, Outline4

(* Where the process ends, the outline has everything there is to print.   *)
LEMMA AllPrinted ==
    ASSUME OutlineInv, ended
    PROVE  Printed = {w \in (DOMAIN U!Code) \X (1..4) :
              w[2] \in DOMAIN U!Code[w[1]] /\ U!Code[w[1]][w[2]].op = "printf"}
<1> DEFINE Prints(f, i) == i \in DOMAIN U!Code[f] /\ U!Code[f][i].op = "printf"
<1>1. ASSUME \A f \in DOMAIN U!Code, i \in 1..4 : Prints(f, i) <=> <<f, i>> \in Printed,
             \A w \in Printed : w \in (DOMAIN U!Code) \X (1..4)
      PROVE  Printed = {w \in (DOMAIN U!Code) \X (1..4) : Prints(w[1], w[2])}
  <2> HIDE DEF Prints
  <2>1. ASSUME NEW w \in (DOMAIN U!Code) \X (1..4)
        PROVE  w \in Printed <=> Prints(w[1], w[2])
    <3>1. w = <<w[1], w[2]>> /\ w[1] \in DOMAIN U!Code /\ w[2] \in 1..4
      OBVIOUS
    <3> QED
      BY <1>1, <3>1
  <2> QED
    BY <1>1, <2>1
<1>2. CASE example = 2 /\ Outline2
  <2>1. Printed = {<<"main", 2>>, <<"foo", 1>>}
    BY <1>2 DEF Outline2, Stage
  <2>2. \A i \in 1..4 : Prints("main", i) <=> i = 2
    BY <1>2, Code2Facts DEF U!printf, U!make, U!set, U!swap
  <2>3. \A i \in 1..4 : Prints("foo", i) <=> i = 1
    BY <1>2, Code2Facts DEF U!printf, U!make, U!set, U!swap
  <2>4. ASSUME NEW f \in DOMAIN U!Code, NEW i \in 1..4
       PROVE  Prints(f, i) <=> <<f, i>> \in Printed
    BY <1>2, <2>1, <2>2, <2>3, Code2Facts
  <2>5. \A w \in Printed : w \in (DOMAIN U!Code) \X (1..4)
    BY <1>2, <2>1, Code2Facts
  <2> QED
    BY <2>4, <2>5, <1>1
<1>3. CASE example = 3 /\ Outline3
  <2>1. Printed = {<<"main", 3>>, <<"foo", 1>>, <<"bar", 1>>}
    BY <1>3 DEF Outline3, Stage
  <2>2. \A i \in 1..4 : Prints("main", i) <=> i = 3
    BY <1>3, Code3Facts DEF U!printf, U!make, U!set, U!swap
  <2>3. \A i \in 1..4 : Prints("foo", i) <=> i = 1
    BY <1>3, Code3Facts DEF U!printf, U!make, U!set, U!swap
  <2>4. \A i \in 1..4 : Prints("bar", i) <=> i = 1
    BY <1>3, Code3Facts DEF U!printf, U!make, U!set, U!swap
  <2>5. ASSUME NEW f \in DOMAIN U!Code, NEW i \in 1..4
       PROVE  Prints(f, i) <=> <<f, i>> \in Printed
    BY <1>3, <2>1, <2>2, <2>3, <2>4, Code3Facts
  <2>6. \A w \in Printed : w \in (DOMAIN U!Code) \X (1..4)
    BY <1>3, <2>1, Code3Facts
  <2> QED
    BY <2>5, <2>6, <1>1
<1>4. CASE example = 4 /\ Outline4
  <2>1. Printed = {<<"main", 4>>, <<"foo", 1>>, <<"foo", 3>>, <<"bar", 1>>, <<"bar", 3>>}
    BY <1>4 DEF Outline4, Stage
  <2>2. \A i \in 1..4 : Prints("main", i) <=> i = 4
    BY <1>4, Code4Facts DEF U!printf, U!make, U!set, U!swap
  <2>3. \A i \in 1..4 : Prints("foo", i) <=> i = 1 \/ i = 3
    BY <1>4, Code4Facts DEF U!printf, U!make, U!set, U!swap
  <2>4. \A i \in 1..4 : Prints("bar", i) <=> i = 1 \/ i = 3
    BY <1>4, Code4Facts DEF U!printf, U!make, U!set, U!swap
  <2>5. ASSUME NEW f \in DOMAIN U!Code, NEW i \in 1..4
       PROVE  Prints(f, i) <=> <<f, i>> \in Printed
    BY <1>4, <2>1, <2>2, <2>3, <2>4, Code4Facts
  <2>6. \A w \in Printed : w \in (DOMAIN U!Code) \X (1..4)
    BY <1>4, <2>1, Code4Facts
  <2> QED
    BY <2>5, <2>6, <1>1
<1> QED
  BY <1>2, <1>3, <1>4 DEF OutlineInv

(* Every context runs through its function once, whichever variables it    *)
(* went through: nothing is printed twice, and all of it by the end.       *)
THEOREM OnceEachHolds == Spec => []OnceEach
<1>1. OutlineInv /\ [Next]_vars => OutlineInv'
  <2> SUFFICES ASSUME OutlineInv, [Next]_vars PROVE OutlineInv'
    OBVIOUS
  <2>1. CASE U!Next
    BY <2>1, Follows2, Follows3, Follows4 DEF OutlineInv
  <2>2. CASE UNCHANGED uvars
    BY <2>2 DEF uvars, OutlineInv, Sound, Outline2, Outline3, Outline4, Stage, Printed
  <2> QED
    BY <2>1, <2>2, OneRuns
<1>2. OutlineInv => OnceEach
  BY AllPrinted DEF OutlineInv, Sound, OnceEach, U!OnceEach, Printed
<1> QED
  BY <1>1, <1>2, OutlineInit, PTL DEF Spec
=============================================================================
