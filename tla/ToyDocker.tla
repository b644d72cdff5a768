----------------------------- MODULE ToyDocker -----------------------------
(***************************************************************************)
(* toy_docker/step_network: several launches of the toy container runtime   *)
(* on one host.  Each is a parent that makes a veth pair, clones a child    *)
(* into fresh namespaces, puts it into the cgroup, moves one end of the     *)
(* pair into its network namespace and closes a pipe; and the child, which  *)
(* waits for end-of-file on that pipe, configures eth0 and executes a       *)
(* shell.                                                                   *)
(*                                                                          *)
(* Devices are found by name in the host's namespace, whoever made them.    *)
(***************************************************************************)
EXTENDS Naturals, FiniteSets

CONSTANTS
    Launches,           \* the running instances of toy_docker
    Names0, Names1,     \* the names lxc_mkifname can make of either template
    None                \* no name yet

(* The host's own namespace is none of a launch.                           *)
ASSUME HostAssumption == "host" \notin Launches

Files == 4              \* the files write_cgroup writes

VARIABLES
    parent,             \* control point of each parent
    child,              \* control point of each child
    name0, name1,       \* veth0 and veth1, as the parent calls them
    pair,               \* the launches whose veth pair exists
    at1,                \* where the second end of each pair is: the host or
                        \* the network namespace of a launch
    bridged, up0,       \* the pairs whose first end is in br0, is up
    limits,             \* how many of the cgroup files each parent has been
                        \* through
    conf,               \* what each child has configured
    writers             \* who has the write end of the pipe open

vars == <<parent, child, name0, name1, pair, at1, bridged, up0, limits, conf,
          writers>>

ParentPoints == {"name0", "name1", "create", "attach", "clone", "cgroup",
                 "move", "notify", "wait", "done", "failed", "dead"}
ChildPoints == {"none", "start", "read", "addr", "links", "gateway", "mac",
                "exec", "shell", "exited"}

TypeOK ==
    /\ parent \in [Launches -> ParentPoints]
    /\ child \in [Launches -> ChildPoints]
    /\ name0 \in [Launches -> Names0 \cup {None}]
    /\ name1 \in [Launches -> Names1 \cup {None}]
    /\ pair \subseteq Launches
    /\ at1 \in [Launches -> Launches \cup {"host"}]
    /\ bridged \subseteq Launches /\ up0 \subseteq Launches
    /\ limits \in [Launches -> 0..Files]
    /\ conf \in [Launches -> SUBSET {"addr", "lo", "eth0", "gateway", "mac"}]
    /\ writers \in [Launches -> SUBSET {"parent", "child"}]

(* After pipe().                                                           *)
Init ==
    /\ parent = [l \in Launches |-> "name0"]
    /\ child = [l \in Launches |-> "none"]
    /\ name0 = [l \in Launches |-> None]
    /\ name1 = [l \in Launches |-> None]
    /\ pair = {}
    /\ at1 = [l \in Launches |-> "host"]
    /\ bridged = {} /\ up0 = {}
    /\ limits = [l \in Launches |-> 0]
    /\ conf = [l \in Launches |-> {}]
    /\ writers = [l \in Launches |-> {"parent"}]

-----------------------------------------------------------------------------
(* The interfaces of the host's namespace, by name.                        *)
HostEnds0(n) == {o \in pair : name0[o] = n}
HostEnds1(n) == {o \in pair : at1[o] = "host" /\ name1[o] = n}
Taken0 == {n \in Names0 : HostEnds0(n) # {}}
Taken1 == {n \in Names1 : HostEnds1(n) # {}}

ParentTo(l, point) == parent' = [parent EXCEPT ![l] = point]
ChildTo(l, point) == child' = [child EXCEPT ![l] = point]

(* A netlink_transaction: what the kernel did, and what the caller is told.*)
(* Refused stands also for a transaction that did not take place, because  *)
(* netlink_open, netlink_send or the building of the message (NlMsg)       *)
(* failed.  The answer can be lost (netlink_rcv fails) after the kernel    *)
(* did it.                                                                 *)
Done == [applied |-> TRUE, ok |-> TRUE]
Refused == [applied |-> FALSE, ok |-> FALSE]
AnswerLost == [applied |-> TRUE, ok |-> FALSE]
netlink_transaction == {Done, Refused, AnswerLost}

-----------------------------------------------------------------------------
(* init_network                                                            *)

(* lxc_mkifname: a name that was free when the interfaces were listed.     *)
MkName0(l) ==
    /\ parent[l] = "name0"
    /\ \E n \in Names0 \ Taken0 : name0' = [name0 EXCEPT ![l] = n]
    /\ ParentTo(l, "name1")
    /\ UNCHANGED <<child, name1, pair, at1, bridged, up0, limits, conf, writers>>

MkName1(l) ==
    /\ parent[l] = "name1"
    /\ \E n \in Names1 \ Taken1 : name1' = [name1 EXCEPT ![l] = n]
    /\ ParentTo(l, "create")
    /\ UNCHANGED <<child, name0, pair, at1, bridged, up0, limits, conf, writers>>

(* lxc_veth_create; NLM_F_EXCL refuses a name that is taken by now.        *)
VethCreate_mutant_ignore(l) ==
    /\ parent[l] = "create"
    /\ \E r \in netlink_transaction :
          /\ r.applied => name0[l] \notin Taken0 /\ name1[l] \notin Taken1
          /\ pair' = IF r.applied THEN pair \cup {l} ELSE pair
          /\ ParentTo(l, "attach")
    /\ UNCHANGED <<child, name0, name1, at1, bridged, up0, limits, conf, writers>>

VethCreate(l) ==
    /\ parent[l] = "create"
    /\ \E r \in netlink_transaction :
          /\ r.applied => name0[l] \notin Taken0 /\ name1[l] \notin Taken1
          /\ pair' = IF r.applied THEN pair \cup {l} ELSE pair
          /\ ParentTo(l, IF r.ok THEN "attach" ELSE "failed")
    /\ UNCHANGED <<child, name0, name1, at1, bridged, up0, limits, conf, writers>>

(* setup_private_host_hw_addr, lxc_bridge_attach and lxc_netdev_up of      *)
(* veth0, with nobody looking at their results.                            *)
Attach(l) ==
    /\ parent[l] = "attach"
    /\ bridged' \in {bridged, bridged \cup HostEnds0(name0[l])}
    /\ up0' \in {up0, up0 \cup HostEnds0(name0[l])}
    /\ ParentTo(l, "clone")
    /\ UNCHANGED <<child, name0, name1, pair, at1, limits, conf, writers>>

-----------------------------------------------------------------------------
(* main                                                                    *)

(* clone: the child has the parent's descriptors, the pipe's write end     *)
(* among them.                                                             *)
Clone(l) ==
    /\ parent[l] = "clone"
    /\ \/ /\ ChildTo(l, "start")
          /\ writers' = [writers EXCEPT ![l] = @ \cup {"child"}]
          /\ ParentTo(l, "cgroup")
       \/ ParentTo(l, "failed") /\ UNCHANGED <<child, writers>>
    /\ UNCHANGED <<name0, name1, pair, at1, bridged, up0, limits, conf>>

(* One file of write_cgroup.  That fopen fails, and fputs crashes on NULL, *)
(* is ParentDies; a value the kernel refuses goes unnoticed.               *)
WriteCgroup(l) ==
    /\ parent[l] = "cgroup"
    /\ limits' = [limits EXCEPT ![l] = @ + 1]
    /\ ParentTo(l, IF limits'[l] = Files THEN "move" ELSE "cgroup")
    /\ UNCHANGED <<child, name0, name1, pair, at1, bridged, up0, conf, writers>>

(* lxc_netdev_move_by_name of veth1, result ignored; the device becomes    *)
(* eth0 of the child's namespace, if that is still there.                  *)
Move(l) ==
    /\ parent[l] = "move"
    /\ \E r \in netlink_transaction :
          /\ r.applied => child[l] # "exited"
          /\ at1' = [o \in Launches |->
                       IF r.applied /\ o \in HostEnds1(name1[l]) THEN l ELSE at1[o]]
    /\ ParentTo(l, "notify")
    /\ UNCHANGED <<child, name0, name1, pair, bridged, up0, limits, conf, writers>>

(* close(pipefd[1]).                                                       *)
Notify(l) ==
    /\ parent[l] = "notify"
    /\ writers' = [writers EXCEPT ![l] = @ \ {"parent"}]
    /\ ParentTo(l, "wait")
    /\ UNCHANGED <<child, name0, name1, pair, at1, bridged, up0, limits, conf>>

(* waitpid returns.                                                        *)
Reap(l) ==
    /\ parent[l] = "wait" /\ child[l] = "exited"
    /\ ParentTo(l, "done")
    /\ UNCHANGED <<child, name0, name1, pair, at1, bridged, up0, limits, conf,
                   writers>>

(* The parent crashes (fputs on a file it could not open) or is killed;    *)
(* the kernel closes its descriptors.                                      *)
ParentDies(l) ==
    /\ parent[l] \in {"cgroup", "move", "notify", "wait"}
    /\ ParentTo(l, "dead")
    /\ writers' = [writers EXCEPT ![l] = @ \ {"parent"}]
    /\ UNCHANGED <<child, name0, name1, pair, at1, bridged, up0, limits, conf>>

-----------------------------------------------------------------------------
(* child_setup_func                                                        *)

(* The end of the child's life: its network namespace goes, with eth0 and  *)
(* so with the other end of that pair.                                     *)
Exit(l) ==
    /\ ChildTo(l, "exited")
    /\ pair' = {o \in pair : at1[o] # l}
    /\ writers' = [writers EXCEPT ![l] = @ \ {"child"}]

(* close(pipefd[1]) and chroot.                                            *)
CloseWriter_mutant_keep(l) ==
    /\ child[l] = "start"
    /\ ChildTo(l, "read")
    /\ UNCHANGED <<parent, name0, name1, pair, at1, bridged, up0, limits, conf,
                   writers>>

CloseWriter(l) ==
    /\ child[l] = "start"
    /\ writers' = [writers EXCEPT ![l] = @ \ {"child"}]
    /\ ChildTo(l, "read")
    /\ UNCHANGED <<parent, name0, name1, pair, at1, bridged, up0, limits, conf>>

(* read returns at end-of-file: nobody can write any more.  Then the       *)
(* mounts of /proc and /sys, results ignored.                              *)
Read(l) ==
    /\ child[l] = "read" /\ writers[l] = {}
    /\ ChildTo(l, "addr")
    /\ UNCHANGED <<parent, name0, name1, pair, at1, bridged, up0, limits, conf,
                   writers>>

(* eth0 of the child's namespace.                                          *)
HasEth0(l) == \E o \in pair : at1[o] = l

(* if_nametoindex("eth0") does not fail (it gives 0, and the test is < 0); *)
(* lxc_ipv4_addr_add does, when there is no such device.                   *)
AddrAdd_mutant_ignore(l) ==
    /\ child[l] = "addr"
    /\ \E r \in netlink_transaction :
          /\ r.applied => HasEth0(l)
          /\ conf' = [conf EXCEPT ![l] = IF r.applied THEN @ \cup {"addr"} ELSE @]
    /\ ChildTo(l, "links") /\ UNCHANGED <<pair, writers>>
    /\ UNCHANGED <<parent, name0, name1, at1, bridged, up0, limits>>

AddrAdd(l) ==
    /\ child[l] = "addr"
    /\ \E r \in netlink_transaction :
          /\ r.applied => HasEth0(l)
          /\ conf' = [conf EXCEPT ![l] = IF r.applied THEN @ \cup {"addr"} ELSE @]
          /\ IF r.ok
                THEN ChildTo(l, "links") /\ UNCHANGED <<pair, writers>>
                ELSE Exit(l)
    /\ UNCHANGED <<parent, name0, name1, at1, bridged, up0, limits>>

(* lxc_netdev_up of lo and of eth0, results ignored.                       *)
Links(l) ==
    /\ child[l] = "links"
    /\ \E up \in SUBSET {"lo", "eth0"} : conf' = [conf EXCEPT ![l] = @ \cup up]
    /\ ChildTo(l, "gateway")
    /\ UNCHANGED <<parent, name0, name1, pair, at1, bridged, up0, limits, writers>>

(* lxc_ipv4_gateway_add, result ignored: the kernel wants the link up.     *)
GatewayAdd(l) ==
    /\ child[l] = "gateway"
    /\ conf' \in {conf} \cup
                 IF "eth0" \in conf[l]
                    THEN {[conf EXCEPT ![l] = @ \cup {"gateway"}]} ELSE {}
    /\ ChildTo(l, "mac")
    /\ UNCHANGED <<parent, name0, name1, pair, at1, bridged, up0, limits, writers>>

(* setup_hw_addr of eth0, result ignored.                                  *)
SetHwAddr(l) ==
    /\ child[l] = "mac"
    /\ conf' \in {conf, [conf EXCEPT ![l] = @ \cup {"mac"}]}
    /\ ChildTo(l, "exec")
    /\ UNCHANGED <<parent, name0, name1, pair, at1, bridged, up0, limits, writers>>

(* start_cmd: the shell, or execv fails and the function returns.          *)
StartCmd(l) ==
    /\ child[l] = "exec"
    /\ \/ ChildTo(l, "shell") /\ UNCHANGED <<pair, writers>>
       \/ Exit(l)
    /\ UNCHANGED <<parent, name0, name1, at1, bridged, up0, limits, conf>>

ShellExits(l) ==
    /\ child[l] = "shell"
    /\ Exit(l)
    /\ UNCHANGED <<parent, name0, name1, at1, bridged, up0, limits, conf>>

-----------------------------------------------------------------------------
Parent(l) ==
    \/ MkName0(l) \/ MkName1(l) \/ VethCreate(l) \/ Attach(l) \/ Clone(l)
    \/ WriteCgroup(l) \/ Move(l) \/ Notify(l) \/ Reap(l)

Child(l) ==
    \/ CloseWriter(l) \/ Read(l) \/ AddrAdd(l) \/ Links(l) \/ GatewayAdd(l)
    \/ SetHwAddr(l) \/ StartCmd(l)

(* All the processes have ended.                                           *)
Ended ==
    /\ \A l \in Launches : /\ parent[l] \in {"done", "failed", "dead"}
                           /\ child[l] \in {"none", "exited"}
    /\ UNCHANGED vars

Next ==
    \/ \E l \in Launches :
          Parent(l) \/ Child(l) \/ ParentDies(l) \/ ShellExits(l)
    \/ Ended

Spec == Init /\ [][Next]_vars

-----------------------------------------------------------------------------
(* Properties                                                              *)

(* A shell never runs half set up: whenever one runs, its parent had been  *)
(* through all of write_cgroup, and it has an eth0 with an address.  This  *)
(* also if the parent crashed or was killed at any point of its work, when *)
(* the child reads the same end-of-file as when all went well.             *)
ShellConfined ==
    \A l \in Launches : child[l] = "shell" =>
        limits[l] = Files /\ HasEth0(l) /\ "addr" \in conf[l]

(* However the names of concurrent launches collide, a container gets the  *)
(* veth its own launch made, and never another's.                          *)
OwnVeth == \A o \in pair : at1[o] \in {"host", o}

(* A launch does not hang: the parent gives up, or the child gets to a     *)
(* shell or exits, whatever fails and whoever dies.                        *)
LaunchEnds ==
    \A l \in Launches :
        <>(parent[l] = "failed" \/ child[l] \in {"shell", "exited"})
=============================================================================
