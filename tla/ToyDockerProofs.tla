-------------------------- MODULE ToyDockerProofs --------------------------
(***************************************************************************)
(* The safety of the launches of toy_docker, for any number of them and any *)
(* names.                                                                   *)
(***************************************************************************)
EXTENDS ToyDocker, TLAPS

(* Before clone and until the parent has moved it, a parent that goes on   *)
(* has its pair, with both ends in the host; before lxc_veth_create it has *)
(* none.                                                                   *)
Unmade == {"name0", "name1", "create"}
Holding == {"attach", "clone", "cgroup", "move"}

PairInv ==
    \A l \in Launches :
        /\ parent[l] \in Unmade => l \notin pair
        /\ parent[l] \in Unmade \cup Holding => at1[l] = "host"
        /\ parent[l] \in Holding => l \in pair
        /\ parent[l] = "create" => name1[l] \in Names1

(* NLM_F_EXCL: no two interfaces of the host have the same name.           *)
NamesInv ==
    \A o, q \in pair :
        at1[o] = "host" /\ at1[q] = "host" /\ name1[o] = name1[q] => o = q

(* The limits come before the veth, and the veth before the address.       *)
LimitsInv ==
    \A l \in Launches :
        /\ parent[l] = "move" \/ at1[l] = l => limits[l] = Files
        /\ parent[l] = "cgroup" => limits[l] < Files
        /\ parent[l] \in Unmade \cup {"attach", "clone"} => limits[l] = 0

Configured == {"links", "gateway", "mac", "exec", "shell"}

ConfInv ==
    \A l \in Launches : child[l] \in Configured =>
        l \in pair /\ at1[l] = l /\ "addr" \in conf[l]

LaunchInv == PairInv /\ NamesInv /\ OwnVeth /\ LimitsInv /\ ConfInv

IInv == TypeOK /\ LaunchInv

-----------------------------------------------------------------------------
(* Type correctness: every control point, name and set stays in its range. *)
LEMMA InitTypes == Init => TypeOK
BY DEF Init, TypeOK, ParentPoints, ChildPoints, Files

LEMMA ParentTypes ==
    ASSUME TypeOK, LimitsInv, NEW l \in Launches, Parent(l) \/ ParentDies(l)
    PROVE  TypeOK'
<1> USE DEF TypeOK, ParentPoints, ChildPoints, ParentTo, ChildTo
<1>1. CASE MkName0(l)
  BY <1>1 DEF MkName0
<1>2. CASE MkName1(l)
  BY <1>2 DEF MkName1
<1>3. CASE VethCreate(l)
  BY <1>3 DEF VethCreate
<1>4. CASE Attach(l)
  BY <1>4 DEF Attach, HostEnds0
<1>5. CASE Clone(l)
  BY <1>5 DEF Clone
<1>6. CASE WriteCgroup(l)
  BY <1>6 DEF WriteCgroup, LimitsInv, Files
<1>7. CASE Move(l)
  BY <1>7 DEF Move
<1>8. CASE Notify(l)
  BY <1>8 DEF Notify
<1>9. CASE Reap(l)
  BY <1>9 DEF Reap
<1>10. CASE ParentDies(l)
  BY <1>10 DEF ParentDies
<1> QED
  BY <1>1, <1>2, <1>3, <1>4, <1>5, <1>6, <1>7, <1>8, <1>9, <1>10 DEF Parent

LEMMA ChildTypes ==
    ASSUME TypeOK, NEW l \in Launches, Child(l) \/ ShellExits(l)
    PROVE  TypeOK'
<1> USE DEF TypeOK, ParentPoints, ChildPoints, ParentTo, ChildTo, Exit
<1>1. CASE CloseWriter(l)
  BY <1>1 DEF CloseWriter
<1>2. CASE Read(l)
  BY <1>2 DEF Read
<1>3. CASE AddrAdd(l)
  BY <1>3 DEF AddrAdd
<1>4. CASE Links(l)
  <2>1. PICK up \in SUBSET {"lo", "eth0"} : conf' = [conf EXCEPT ![l] = @ \cup up]
    BY <1>4 DEF Links
  <2> QED
    BY <1>4, <2>1 DEF Links
<1>5. CASE GatewayAdd(l)
  BY <1>5 DEF GatewayAdd
<1>6. CASE SetHwAddr(l)
  BY <1>6 DEF SetHwAddr
<1>7. CASE StartCmd(l)
  BY <1>7 DEF StartCmd
<1>8. CASE ShellExits(l)
  BY <1>8 DEF ShellExits
<1> QED
  BY <1>1, <1>2, <1>3, <1>4, <1>5, <1>6, <1>7, <1>8 DEF Child

-----------------------------------------------------------------------------
(* The launch invariant, action by action                                  *)

LEMMA InitLaunch == Init => LaunchInv
BY HostAssumption
   DEF Init, LaunchInv, PairInv, NamesInv, OwnVeth, LimitsInv, ConfInv, Unmade,
       Holding, Configured, Files

(* Names are drawn before the pair exists, so no interface changes its     *)
(* name.                                                                   *)
LEMMA NamesLaunch ==
    ASSUME IInv, NEW l \in Launches, MkName0(l) \/ MkName1(l)
    PROVE  LaunchInv'
<1> USE DEF IInv, LaunchInv, TypeOK, MkName0, MkName1, ParentTo
<1>1. PairInv'
  BY DEF PairInv, Unmade, Holding
<1>2. NamesInv'
  BY DEF NamesInv, PairInv, Unmade
<1>3. OwnVeth'
  BY DEF OwnVeth
<1>4. LimitsInv' /\ ConfInv'
  BY DEF LimitsInv, ConfInv, Configured, Unmade
<1> QED
  BY <1>1, <1>2, <1>3, <1>4

(* The new pair has a name that is free in the host.                       *)
LEMMA VethCreateLaunch ==
    ASSUME IInv, NEW l \in Launches, VethCreate(l)
    PROVE  LaunchInv'
<1> USE DEF IInv, LaunchInv, TypeOK, VethCreate, ParentTo, netlink_transaction,
            Done, Refused, AnswerLost
<1>1. PairInv'
  BY DEF PairInv, Unmade, Holding
<1>2. NamesInv'
  BY DEF NamesInv, PairInv, Unmade, Taken1, HostEnds1
<1>3. OwnVeth'
  BY DEF OwnVeth, PairInv, Unmade
<1>4. LimitsInv' /\ ConfInv'
  BY DEF LimitsInv, ConfInv, Configured, Unmade
<1> QED
  BY <1>1, <1>2, <1>3, <1>4

(* Steps of the parent that touch no device the invariant speaks of.       *)
LEMMA QuietLaunch ==
    ASSUME IInv, NEW l \in Launches,
           Attach(l) \/ Clone(l) \/ Notify(l) \/ Reap(l) \/ ParentDies(l)
    PROVE  LaunchInv'
<1> USE DEF IInv, LaunchInv, TypeOK, Attach, Clone, Notify, Reap, ParentDies,
            ParentTo, ChildTo
<1>1. PairInv'
  BY DEF PairInv, Unmade, Holding
<1>2. NamesInv' /\ OwnVeth'
  BY DEF NamesInv, OwnVeth
<1>3. LimitsInv'
  BY DEF LimitsInv, Unmade, Files
<1>4. ConfInv'
  BY DEF ConfInv, Configured
<1> QED
  BY <1>1, <1>2, <1>3, <1>4

(* The file that is the last to be written leads to the move.              *)
LEMMA WriteCgroupLaunch ==
    ASSUME IInv, NEW l \in Launches, WriteCgroup(l)
    PROVE  LaunchInv'
<1> USE DEF IInv, LaunchInv, TypeOK, WriteCgroup, ParentTo
<1>1. PairInv'
  BY DEF PairInv, Unmade, Holding
<1>2. NamesInv' /\ OwnVeth'
  BY DEF NamesInv, OwnVeth
<1>3. LimitsInv'
  BY HostAssumption DEF LimitsInv, PairInv, Holding, Unmade, Files
<1>4. ConfInv'
  BY DEF ConfInv, Configured
<1> QED
  BY <1>1, <1>2, <1>3, <1>4

(* Of all the host's interfaces the name finds the launch's own end, and   *)
(* no other: that one is still there, and has the name.                    *)
LEMMA OwnEnd ==
    ASSUME IInv, NEW l \in Launches, parent[l] = "move"
    PROVE  HostEnds1(name1[l]) = {l}
BY DEF IInv, LaunchInv, TypeOK, PairInv, NamesInv, HostEnds1, Holding

LEMMA MoveLaunch ==
    ASSUME IInv, NEW l \in Launches, Move(l)
    PROVE  LaunchInv'
<1> USE DEF IInv, LaunchInv, TypeOK, Move, ParentTo
<1>1. at1' \in {at1, [at1 EXCEPT ![l] = l]}
  BY OwnEnd
<1>2. PairInv'
  BY <1>1 DEF PairInv, Unmade, Holding
<1>3. NamesInv'
  BY <1>1, HostAssumption DEF NamesInv
<1>4. OwnVeth'
  BY <1>1 DEF OwnVeth
<1>5. LimitsInv'
  BY <1>1 DEF LimitsInv, Unmade
<1>6. ConfInv'
  BY <1>1 DEF ConfInv, Configured
<1> QED
  BY <1>2, <1>3, <1>4, <1>5, <1>6

(* What a network namespace takes with it is its own launch's pair.        *)
LEMMA ExitLaunch ==
    ASSUME IInv, NEW l \in Launches, Exit(l),
           UNCHANGED <<parent, name1, at1, limits>>,
           \A k \in Launches \ {l} : conf'[k] = conf[k]
    PROVE  LaunchInv'
<1> USE DEF IInv, LaunchInv, TypeOK, Exit, ChildTo
<1>1. PairInv'
  BY HostAssumption DEF PairInv, Unmade, Holding
<1>2. NamesInv' /\ OwnVeth' /\ LimitsInv'
  BY DEF NamesInv, OwnVeth, LimitsInv
<1>3. ConfInv'
  BY DEF ConfInv, Configured
<1> QED
  BY <1>1, <1>2, <1>3

(* Steps of the child before it has an address, and those after.           *)
LEMMA ChildLaunch ==
    ASSUME IInv, NEW l \in Launches, Child(l) \/ ShellExits(l)
    PROVE  LaunchInv'
<1> USE DEF IInv, LaunchInv, TypeOK, ChildTo
<1>1. ASSUME UNCHANGED <<parent, name1, pair, at1, limits>>
      PROVE  PairInv' /\ NamesInv' /\ OwnVeth' /\ LimitsInv'
  BY <1>1 DEF PairInv, NamesInv, OwnVeth, LimitsInv
<1>2. CASE CloseWriter(l) \/ Read(l)
  BY <1>1, <1>2 DEF CloseWriter, Read, ConfInv, Configured
<1>3. CASE AddrAdd(l)
  <2>1. PICK r \in netlink_transaction :
          /\ r.applied => HasEth0(l)
          /\ conf' = [conf EXCEPT ![l] = IF r.applied THEN @ \cup {"addr"} ELSE @]
          /\ IF r.ok
                THEN ChildTo(l, "links") /\ UNCHANGED <<pair, writers>>
                ELSE Exit(l)
    BY <1>3 DEF AddrAdd
  <2>2. CASE r.ok
    <3>1. r.applied
      BY <2>2 DEF netlink_transaction, Done, Refused, AnswerLost
    <3>2. l \in pair /\ at1[l] = l
      BY <2>1, <3>1, HostAssumption DEF HasEth0, OwnVeth
    <3>3. ConfInv'
      BY <1>3, <2>1, <2>2, <3>1, <3>2 DEF AddrAdd, ConfInv
    <3> QED
      BY <1>1, <1>3, <2>1, <2>2, <3>3 DEF AddrAdd
  <2>3. CASE ~r.ok
    BY <1>3, <2>1, <2>3, ExitLaunch DEF AddrAdd
  <2> QED
    BY <2>2, <2>3
<1>4. CASE Links(l)
  BY <1>1, <1>4 DEF Links, ConfInv, Configured
<1>5. CASE GatewayAdd(l)
  BY <1>1, <1>5 DEF GatewayAdd, ConfInv, Configured
<1>6. CASE SetHwAddr(l)
  BY <1>1, <1>6 DEF SetHwAddr, ConfInv, Configured
<1>7. CASE StartCmd(l)
  <2>1. CASE ChildTo(l, "shell") /\ UNCHANGED <<pair, writers>>
    BY <1>1, <1>7, <2>1 DEF StartCmd, ConfInv, Configured
  <2>2. CASE Exit(l)
    BY <1>7, <2>2, ExitLaunch DEF StartCmd
  <2> QED
    BY <1>7, <2>1, <2>2 DEF StartCmd
<1>8. CASE ShellExits(l)
  BY <1>8, ExitLaunch DEF ShellExits
<1> QED
  BY <1>2, <1>3, <1>4, <1>5, <1>6, <1>7, <1>8 DEF Child

-----------------------------------------------------------------------------
(* Every step of every launch keeps the invariant.                         *)
LEMMA NextIInv == IInv /\ [Next]_vars => IInv'
<1> SUFFICES ASSUME IInv, [Next]_vars PROVE IInv'
  OBVIOUS
<1>1. ASSUME NEW l \in Launches, Parent(l) \/ ParentDies(l) PROVE IInv'
  <2>1. TypeOK'
    BY <1>1, ParentTypes DEF IInv, LaunchInv
  <2>2. LaunchInv'
    BY <1>1, NamesLaunch, VethCreateLaunch, QuietLaunch, WriteCgroupLaunch,
       MoveLaunch DEF Parent
  <2> QED
    BY <2>1, <2>2 DEF IInv
<1>2. ASSUME NEW l \in Launches, Child(l) \/ ShellExits(l) PROVE IInv'
  BY <1>2, ChildTypes, ChildLaunch DEF IInv
<1>3. CASE UNCHANGED vars
  BY <1>3 DEF vars, IInv, TypeOK, LaunchInv, PairInv, NamesInv, OwnVeth,
              LimitsInv, ConfInv, HasEth0
<1> QED
  BY <1>1, <1>2, <1>3 DEF Next, Ended

(* The invariant of all launches, from which the properties follow.        *)
THEOREM LaunchesSafe == Spec => []IInv
<1>1. Init => IInv
  BY InitTypes, InitLaunch DEF IInv
<1> QED
  BY <1>1, NextIInv, PTL DEF Spec

(* However the names of concurrent launches collide, no container ever has *)
(* a veth that another launch made.                                        *)
THEOREM OwnVethHolds == Spec => []OwnVeth
<1>1. IInv => OwnVeth
  BY DEF IInv, LaunchInv
<1> QED
  BY <1>1, LaunchesSafe, PTL

(* No shell runs without its limits, its eth0 and its address, at whatever *)
(* point its parent died or a netlink call failed.                         *)
THEOREM ShellConfinedHolds == Spec => []ShellConfined
<1>1. IInv => ShellConfined
  BY DEF IInv, LaunchInv, LimitsInv, ConfInv, Configured, ShellConfined, HasEth0
<1> QED
  BY <1>1, LaunchesSafe, PTL

-----------------------------------------------------------------------------
(* The pipe                                                                *)

(* Who still has the write end is on the way to closing it, and a child    *)
(* exists once its parent is past clone.                                   *)
PipeInv ==
    \A l \in Launches :
        /\ "parent" \in writers[l] => parent[l] \notin {"wait", "done", "dead"}
        /\ "child" \in writers[l] => child[l] = "start"
        /\ child[l] = "none" <=>
              parent[l] \in Unmade \cup {"attach", "clone", "failed"}

(* Parent and child never wait for each other: a child blocks in read only *)
(* while its parent is alive and has not come to close the pipe, and when  *)
(* the parent has come to waitpid there is a child, which does not block.  *)
NoMutualWait ==
    \A l \in Launches :
        /\ child[l] = "read" =>
              writers[l] = {} \/ parent[l] \in {"cgroup", "move", "notify"}
        /\ parent[l] = "wait" =>
              child[l] # "none" /\ (child[l] = "read" => writers[l] = {})

LEMMA ParentPipe ==
    ASSUME TypeOK, PipeInv, NEW l \in Launches, Parent(l) \/ ParentDies(l)
    PROVE  PipeInv'
<1> USE DEF TypeOK, PipeInv, ParentTo, ChildTo, Unmade
<1>1. CASE MkName0(l)
  BY <1>1 DEF MkName0
<1>2. CASE MkName1(l)
  BY <1>2 DEF MkName1
<1>3. CASE VethCreate(l)
  BY <1>3 DEF VethCreate
<1>4. CASE Attach(l)
  BY <1>4 DEF Attach
<1>5. CASE Clone(l)
  BY <1>5 DEF Clone
<1>6. CASE WriteCgroup(l)
  BY <1>6 DEF WriteCgroup
<1>7. CASE Move(l)
  BY <1>7 DEF Move
<1>8. CASE Notify(l)
  BY <1>8 DEF Notify
<1>9. CASE Reap(l)
  BY <1>9 DEF Reap
<1>10. CASE ParentDies(l)
  BY <1>10 DEF ParentDies
<1> QED
  BY <1>1, <1>2, <1>3, <1>4, <1>5, <1>6, <1>7, <1>8, <1>9, <1>10 DEF Parent

LEMMA ChildPipe ==
    ASSUME TypeOK, PipeInv, NEW l \in Launches, Child(l) \/ ShellExits(l)
    PROVE  PipeInv'
<1> USE DEF TypeOK, PipeInv, ChildTo, Exit
<1>1. CASE CloseWriter(l)
  BY <1>1 DEF CloseWriter
<1>2. CASE Read(l)
  BY <1>2 DEF Read
<1>3. CASE AddrAdd(l)
  BY <1>3 DEF AddrAdd
<1>4. CASE Links(l)
  BY <1>4 DEF Links
<1>5. CASE GatewayAdd(l)
  BY <1>5 DEF GatewayAdd
<1>6. CASE SetHwAddr(l)
  BY <1>6 DEF SetHwAddr
<1>7. CASE StartCmd(l)
  BY <1>7 DEF StartCmd
<1>8. CASE ShellExits(l)
  BY <1>8 DEF ShellExits
<1> QED
  BY <1>1, <1>2, <1>3, <1>4, <1>5, <1>6, <1>7, <1>8 DEF Child

LEMMA PipeInvariant == Spec => []PipeInv
<1>1. Init => PipeInv
  BY DEF Init, PipeInv, Unmade
<1>2. TypeOK /\ PipeInv /\ [Next]_vars => PipeInv'
  <2> SUFFICES ASSUME TypeOK, PipeInv, [Next]_vars PROVE PipeInv'
    OBVIOUS
  <2>1. CASE UNCHANGED vars
    BY <2>1 DEF vars, PipeInv
  <2> QED
    BY <2>1, ParentPipe, ChildPipe DEF Next, Ended
<1>3. IInv => TypeOK
  BY DEF IInv
<1> QED
  BY <1>1, <1>2, <1>3, LaunchesSafe, PTL DEF Spec

(* For any number of launches, whatever fails and whoever dies, no launch  *)
(* hangs with its two processes waiting for each other.                    *)
THEOREM NoMutualWaitHolds == Spec => []NoMutualWait
<1>1. TypeOK /\ PipeInv => NoMutualWait
  <2> SUFFICES ASSUME TypeOK, PipeInv, NEW l \in Launches
               PROVE  /\ child[l] = "read" =>
                            writers[l] = {} \/ parent[l] \in {"cgroup", "move", "notify"}
                      /\ parent[l] = "wait" =>
                            child[l] # "none" /\ (child[l] = "read" => writers[l] = {})
    BY DEF NoMutualWait
  <2>1. writers[l] \subseteq {"parent", "child"} /\ parent[l] \in ParentPoints
    BY DEF TypeOK
  <2> QED
    BY <2>1 DEF PipeInv, Unmade, ParentPoints
<1>2. IInv => TypeOK
  BY DEF IInv
<1> QED
  BY <1>1, <1>2, LaunchesSafe, PipeInvariant, PTL

(* What is left to do for either process, and of the cgroup files.         *)
ParentLeft ==
    [name0 |-> 9, name1 |-> 8, create |-> 7, attach |-> 6, clone |-> 5,
     cgroup |-> 4, move |-> 3, notify |-> 2, wait |-> 1,
     done |-> 0, failed |-> 0, dead |-> 0]
ChildLeft ==
    [none |-> 9, start |-> 8, read |-> 7, addr |-> 6, links |-> 5,
     gateway |-> 4, mac |-> 3, exec |-> 2, shell |-> 1, exited |-> 0]
StepsLeft(l) == ParentLeft[parent[l]] + ChildLeft[child[l]] + (Files - limits[l])

(* Every step of a launch is one less to take, and no other launch adds to *)
(* them: with NoMutualWait, why a launch ends.                             *)
Advances ==
    \A l \in Launches :
        /\ StepsLeft(l) \in 0..22
        /\ StepsLeft(l)' <= StepsLeft(l)
        /\ Parent(l) \/ Child(l) \/ ParentDies(l) \/ ShellExits(l)
              => StepsLeft(l)' < StepsLeft(l)

LEMMA LeftTypes ==
    ASSUME TypeOK, NEW l \in Launches
    PROVE  StepsLeft(l) \in 0..22
<1>1. parent[l] \in ParentPoints /\ child[l] \in ChildPoints /\ limits[l] \in 0..Files
  BY DEF TypeOK
<1>2. \A p \in ParentPoints : ParentLeft[p] \in 0..9
  BY DEF ParentPoints, ParentLeft
<1>3. \A c \in ChildPoints : ChildLeft[c] \in 0..9
  BY DEF ChildPoints, ChildLeft
<1> QED
  BY <1>1, <1>2, <1>3 DEF StepsLeft, Files

(* A step of a launch moves one of its processes, or writes a cgroup file. *)
LEMMA ParentAdvances ==
    ASSUME TypeOK, PipeInv, NEW l \in Launches, Parent(l) \/ ParentDies(l)
    PROVE  /\ \A k \in Launches \ {l} :
                 parent'[k] = parent[k] /\ child'[k] = child[k] /\ limits'[k] = limits[k]
           /\ \/ /\ ParentLeft[parent'[l]] < ParentLeft[parent[l]]
                 /\ \/ child'[l] = child[l]
                    \/ child[l] = "none" /\ child'[l] = "start"
                 /\ limits'[l] = limits[l]
              \/ /\ ParentLeft[parent'[l]] <= ParentLeft[parent[l]]
                 /\ child'[l] = child[l] /\ limits'[l] = limits[l] + 1
<1> USE DEF TypeOK, ParentTo, ChildTo, ParentLeft
<1>1. CASE MkName0(l)
  BY <1>1 DEF MkName0
<1>2. CASE MkName1(l)
  BY <1>2 DEF MkName1
<1>3. CASE VethCreate(l)
  BY <1>3 DEF VethCreate
<1>4. CASE Attach(l)
  BY <1>4 DEF Attach
<1>5. CASE Clone(l)
  BY <1>5 DEF Clone, PipeInv
<1>6. CASE WriteCgroup(l)
  BY <1>6 DEF WriteCgroup
<1>7. CASE Move(l)
  BY <1>7 DEF Move
<1>8. CASE Notify(l)
  BY <1>8 DEF Notify
<1>9. CASE Reap(l)
  BY <1>9 DEF Reap
<1>10. CASE ParentDies(l)
  BY <1>10 DEF ParentDies
<1> QED
  BY <1>1, <1>2, <1>3, <1>4, <1>5, <1>6, <1>7, <1>8, <1>9, <1>10 DEF Parent

LEMMA ChildAdvances ==
    ASSUME TypeOK, NEW l \in Launches, Child(l) \/ ShellExits(l)
    PROVE  /\ parent' = parent /\ limits' = limits
           /\ \A k \in Launches \ {l} : child'[k] = child[k]
           /\ ChildLeft[child'[l]] < ChildLeft[child[l]]
<1> USE DEF TypeOK, ChildTo, Exit, ChildLeft
<1>1. CASE CloseWriter(l)
  BY <1>1 DEF CloseWriter
<1>2. CASE Read(l)
  BY <1>2 DEF Read
<1>3. CASE AddrAdd(l)
  BY <1>3 DEF AddrAdd
<1>4. CASE Links(l)
  BY <1>4 DEF Links
<1>5. CASE GatewayAdd(l)
  BY <1>5 DEF GatewayAdd
<1>6. CASE SetHwAddr(l)
  BY <1>6 DEF SetHwAddr
<1>7. CASE StartCmd(l)
  BY <1>7 DEF StartCmd
<1>8. CASE ShellExits(l)
  BY <1>8 DEF ShellExits
<1> QED
  BY <1>1, <1>2, <1>3, <1>4, <1>5, <1>6, <1>7, <1>8 DEF Child

(* Whatever fails and whoever dies, a launch is over after at most 22      *)
(* steps, however many others run beside it.                               *)
THEOREM LaunchesAdvance == Spec => [][Advances]_vars
<1>1. IInv /\ IInv' /\ PipeInv /\ [Next]_vars => [Advances]_vars
  <2> SUFFICES ASSUME IInv, IInv', PipeInv, [Next]_vars, NEW l \in Launches
               PROVE  \/ UNCHANGED vars
                      \/ /\ StepsLeft(l) \in 0..22 /\ StepsLeft(l)' <= StepsLeft(l)
                         /\ Parent(l) \/ Child(l) \/ ParentDies(l) \/ ShellExits(l)
                               => StepsLeft(l)' < StepsLeft(l)
    BY DEF Advances
  <2>1. StepsLeft(l) \in 0..22 /\ TypeOK
    BY LeftTypes DEF IInv
  <2>2. /\ limits[l] \in 0..Files /\ limits'[l] \in 0..Files
        /\ ParentLeft[parent[l]] \in 0..9 /\ ParentLeft[parent'[l]] \in 0..9
        /\ ChildLeft[child[l]] \in 0..9 /\ ChildLeft[child'[l]] \in 0..9
    <3>1. \A p \in ParentPoints : ParentLeft[p] \in 0..9
      BY DEF ParentPoints, ParentLeft
    <3>2. \A c \in ChildPoints : ChildLeft[c] \in 0..9
      BY DEF ChildPoints, ChildLeft
    <3>3. /\ parent[l] \in ParentPoints /\ child[l] \in ChildPoints
          /\ parent'[l] \in ParentPoints /\ child'[l] \in ChildPoints
          /\ limits[l] \in 0..Files /\ limits'[l] \in 0..Files
      BY DEF IInv, TypeOK
    <3> QED
      BY <3>1, <3>2, <3>3
  <2>3. ASSUME Parent(l) \/ Child(l) \/ ParentDies(l) \/ ShellExits(l)
        PROVE  StepsLeft(l)' < StepsLeft(l)
    <3>1. CASE Parent(l) \/ ParentDies(l)
      <4>1. ChildLeft["none"] = 9 /\ ChildLeft["start"] = 8
        BY DEF ChildLeft
      <4>2. \/ /\ ParentLeft[parent'[l]] < ParentLeft[parent[l]]
               /\ ChildLeft[child'[l]] <= ChildLeft[child[l]]
               /\ limits'[l] = limits[l]
            \/ /\ ParentLeft[parent'[l]] <= ParentLeft[parent[l]]
               /\ child'[l] = child[l] /\ limits'[l] = limits[l] + 1
        BY <2>1, <2>2, <3>1, <4>1, ParentAdvances
      <4> QED
        BY <2>2, <4>2 DEF StepsLeft, Files
    <3>2. CASE Child(l) \/ ShellExits(l)
      <4>1. parent'[l] = parent[l] /\ limits'[l] = limits[l]
            /\ ChildLeft[child'[l]] < ChildLeft[child[l]]
        BY <2>1, <3>2, ChildAdvances
      <4> QED
        BY <2>2, <4>1 DEF StepsLeft, Files
    <3> QED
      BY <2>3, <3>1, <3>2
  <2>4. ASSUME NEW k \in Launches \ {l},
               Parent(k) \/ Child(k) \/ ParentDies(k) \/ ShellExits(k)
        PROVE  StepsLeft(l)' = StepsLeft(l)
    <3>1. parent'[l] = parent[l] /\ child'[l] = child[l] /\ limits'[l] = limits[l]
      BY <2>1, <2>4, ParentAdvances, ChildAdvances
    <3> QED
      BY <3>1 DEF StepsLeft
  <2>5. StepsLeft(l)' \in 0..22
    BY LeftTypes, <2>2 DEF StepsLeft, Files
  <2> QED
    BY <2>1, <2>3, <2>4, <2>5 DEF Next, Ended
<1> QED
  BY <1>1, LaunchesSafe, PipeInvariant, PTL DEF Spec
=============================================================================
