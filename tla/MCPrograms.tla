----------------------------- MODULE MCPrograms -----------------------------
(***************************************************************************)
(* The small programs of the repository for TLC, and a single launch of the *)
(* network step of toy_docker.  They have nothing to do with one another:   *)
(* the initial state chooses one, and only that one runs.                   *)
(***************************************************************************)
EXTENDS Naturals, Sequences, FiniteSets

CONSTANTS Clients, BUFFER_SIZE, MaxSize, Cpus, BUF, WORD, Payloads, Pids,
          ETH_ALEN, Digits, MaxText, Threads, MainThread, Rounds,
          Launches, Names0, Names1, None

(* Minidump: the headers fit in buf, and buf in the address space.         *)
ASSUME DumpAssumption ==
    /\ BUF \in Nat /\ WORD \in Nat /\ 94 <= BUF /\ BUF < WORD
    /\ Payloads \subseteq Nat /\ Payloads # {}

ASSUME BufferAssumption == BUFFER_SIZE \in Nat \ {0} /\ MaxSize \in Nat

(* main is not one of the threads it starts.                               *)
ASSUME ThreadsAssumption ==
    /\ IsFiniteSet(Threads) /\ Threads # {} /\ MainThread \notin Threads
    /\ Rounds \in Nat

(* The octets of a hardware address that are not drawn, for HwAddr.        *)
Prefix == <<3>>

ASSUME AddressAssumption ==
    ETH_ALEN \in Nat \ {0} /\ Digits \subseteq 0..15 /\ MaxText \in Nat

VARIABLES
    prog,
    program, server, backlog, cur, off, n, size, client, sent, owed, spoilt,
    module, hooks, pkt, before, todo, fate,
    dump, frame, line,
    step, main, setup, rootdir, cloned, proc, cgroup, written,
    example, run, ctx, said, ended,
    drawn, macaddr, data, ret,
    test, at, done, old_val, mem, shown,
    parent, child, name0, name1, pair, at1, bridged, up0, limits, conf, writers

Z == INSTANCE ZeroCopy
N == INSTANCE Netfilter
M == INSTANCE Minidump
D == INSTANCE DockerSteps
U == INSTANCE Ucontext
H == INSTANCE HwAddr
I == INSTANCE Increments
T == INSTANCE ToyDocker

(* The variables of each.                                                  *)
zvars == <<program, server, backlog, cur, off, n, size, client, sent, owed, spoilt>>
nvars == <<module, hooks, pkt, before, todo, fate>>
mvars == <<dump, frame, line>>
dvars == <<step, main, setup, rootdir, cloned, proc, cgroup, written>>
uvars == <<example, run, ctx, said, ended>>
hvars == <<drawn, macaddr, data, ret>>
ivars == <<test, at, done, old_val, mem, shown>>
tvars == <<parent, child, name0, name1, pair, at1, bridged, up0, limits, conf, writers>>

vars == <<prog, zvars, nvars, mvars, dvars, uvars, hvars, ivars, tvars>>

(* Of a program that does not run it does not matter how it would start.   *)
Init ==
    /\ prog \in {"zerocopy", "netfilter", "minidump", "docker", "ucontext",
                "hwaddr", "increments", "launch"}
    /\ Z!Init /\ (prog # "zerocopy" => program = "sendfile")
    /\ N!Init
    /\ M!Init
    /\ D!Init /\ (prog # "docker" => step = "chroot")
    /\ U!Init /\ (prog # "ucontext" => example = 2)
    /\ H!Init /\ (prog # "hwaddr" => drawn = {} /\ macaddr = <<>>)
    /\ T!Init
    /\ I!Init /\ (prog # "increments" => test = "cas")

(* Which of them runs; the others are left alone.                          *)
ZeroCopyRuns ==
    prog = "zerocopy" /\ UNCHANGED <<prog, nvars, mvars, dvars, uvars, hvars, ivars, tvars>>
NetfilterRuns ==
    prog = "netfilter" /\ UNCHANGED <<prog, zvars, mvars, dvars, uvars, hvars, ivars, tvars>>
MinidumpRuns ==
    prog = "minidump" /\ UNCHANGED <<prog, zvars, nvars, dvars, uvars, hvars, ivars, tvars>>
DockerRuns ==
    prog = "docker" /\ UNCHANGED <<prog, zvars, nvars, mvars, uvars, hvars, ivars, tvars>>
UcontextRuns ==
    prog = "ucontext" /\ UNCHANGED <<prog, zvars, nvars, mvars, dvars, hvars, ivars, tvars>>
HwAddrRuns ==
    prog = "hwaddr" /\ UNCHANGED <<prog, zvars, nvars, mvars, dvars, uvars, ivars, tvars>>
IncrementsRuns ==
    prog = "increments" /\ UNCHANGED <<prog, zvars, nvars, mvars, dvars, uvars, hvars, tvars>>
LaunchRuns ==
    prog = "launch" /\ UNCHANGED <<prog, zvars, nvars, mvars, dvars, uvars, hvars, ivars>>

Next ==
    \/ ZeroCopyRuns /\ Z!Next
    \/ NetfilterRuns /\ N!Next
    \/ MinidumpRuns /\ M!Next
    \/ DockerRuns /\ D!Next
    \/ UcontextRuns /\ U!Next
    \/ HwAddrRuns /\ H!Next
    \/ IncrementsRuns /\ I!Next
    \/ LaunchRuns /\ T!Next

(* The kernel runs the server, and both processes of a container; no       *)
(* client has to come, to read or to go, nobody has to leave the shell, and*)
(* no parent has to die.                                                   *)
Spec ==
    /\ Init /\ [][Next]_vars
    /\ WF_vars(ZeroCopyRuns /\ Z!Server)
    /\ WF_vars(DockerRuns /\ D!Main) /\ WF_vars(DockerRuns /\ D!Setup)
    /\ \A l \in Launches : /\ WF_vars(LaunchRuns /\ T!Parent(l))
                           /\ WF_vars(LaunchRuns /\ T!Child(l))

-----------------------------------------------------------------------------
(* The properties are those of the modules, where they are explained.      *)

(* ZeroCopy: every client gets the file, from its first byte and in order. *)
AnswerIntact == Z!AnswerIntact

(* ZeroCopy: a connection is answered unless somebody's fault prevents it. *)
Answered == Z!Answered

(* Netfilter: no hook of a module that is gone is called.                  *)
NoStaleHook == N!NoStaleHook

(* Minidump: a line for every segment of port 8080, and no length too big. *)
LineExact == M!LineExact

(* DockerSteps: the cgroup never gets a process of somebody else.          *)
OnlyOursLimited == D!OnlyOursLimited

(* DockerSteps: after the shell the program ends too, and nothing is left. *)
Reaped == D!Reaped

(* Ucontext: every context runs through its function once.                 *)
OnceEach == U!OnceEach

(* HwAddr: lxc_convert_mac reads what new_hwaddr wrote.                    *)
ConvertExact == H!ConvertExact

(* ToyDocker: a launch does not hang.                                      *)
LaunchEnds == prog = "launch" => T!LaunchEnds

(* Increments: what the threads and main print.                            *)
TotalsRight == I!TotalsRight
=============================================================================
