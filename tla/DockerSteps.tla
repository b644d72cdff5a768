---------------------------- MODULE DockerSteps ----------------------------
(***************************************************************************)
(* The first three steps of toy_docker, each a program of its own:          *)
(* step_chroot changes its root and becomes the shell; step_namespace does  *)
(* that in a child cloned into new namespaces; step_cgroup also writes the  *)
(* child into a cgroup, while the child is already running.                 *)
(*                                                                          *)
(* The processes of the host are known by their pids, and a pid that was    *)
(* given back can be given to somebody else.                                *)
(***************************************************************************)
EXTENDS Naturals, FiniteSets

CONSTANT Pids           \* those of the child and of all who come after it

Files == 4              \* the files write_cgroup writes: cgroup.procs first

VARIABLES
    step,               \* which program it is
    main,               \* control point of main
    setup,              \* control point of whoever sets up the shell
    rootdir,            \* its root directory: "host", "cwd" or "busybox"
    cloned,             \* the pid clone returned, as a set: none, or one
    proc,               \* "free", "init" (the child), "inside" (a process
                        \* that the shell started), "zombie" or "stranger"
    cgroup,             \* the pids in the cgroup
    written             \* how many of the files are written

vars == <<step, main, setup, rootdir, cloned, proc, cgroup, written>>

Init ==
    /\ step \in {"chroot", "namespace", "cgroup"}
    /\ main = IF step = "chroot" THEN "exec" ELSE "clone"
    /\ setup = IF step = "chroot" THEN "chdir" ELSE "none"
    /\ rootdir = "host"
    /\ cloned = {} /\ proc = [p \in Pids |-> "free"]
    /\ cgroup = {} /\ written = 0

(* A new process starts in the cgroup of the one that forks it.            *)
Starts(p, as, by) ==
    /\ proc[p] = "free"
    /\ proc' = [proc EXCEPT ![p] = as]
    /\ cgroup' = IF cgroup \cap by # {} THEN cgroup \cup {p} ELSE cgroup

-----------------------------------------------------------------------------
(* main                                                                    *)

(* clone with CLONE_NEWPID: the child is the init of its pid namespace.    *)
Clone_mutant_nonewpid ==
    /\ main = "clone"
    /\ \/ \E p \in Pids :
             /\ Starts(p, "inside", {}) /\ cloned' = {p}
             /\ setup' = "chdir"
             /\ main' = IF step = "cgroup" THEN "write" ELSE "wait"
       \/ main' = "failed" /\ UNCHANGED <<proc, cgroup, cloned, setup>>
    /\ UNCHANGED <<step, rootdir, written>>

Clone ==
    /\ main = "clone"
    /\ \/ \E p \in Pids :
             /\ Starts(p, "init", {}) /\ cloned' = {p}
             /\ setup' = "chdir"
             /\ main' = IF step = "cgroup" THEN "write" ELSE "wait"
       \/ main' = "failed" /\ UNCHANGED <<proc, cgroup, cloned, setup>>
    /\ UNCHANGED <<step, rootdir, written>>

(* A file of write_cgroup.  When it cannot be opened fputs crashes; that a *)
(* write fails, or that the child has ended, goes unnoticed.               *)
WriteCgroup ==
    /\ main = "write"
    /\ \/ /\ written' = written + 1
          /\ cgroup' \in {cgroup} \cup
                IF written = 0
                   THEN {cgroup \cup {p \in cloned : proc[p] \notin {"free", "zombie"}}}
                   ELSE {}
          /\ main' = IF written' = Files THEN "wait" ELSE "write"
       \/ main' = "crashed" /\ UNCHANGED <<written, cgroup>>
    /\ UNCHANGED <<step, setup, rootdir, cloned, proc>>

(* waitpid: the pid is given back.                                         *)
Wait_mutant_early ==
    /\ main \in {"wait", "write"} /\ \E p \in cloned : proc[p] = "zombie"
    /\ proc' = [p \in Pids |-> IF p \in cloned THEN "free" ELSE proc[p]]
    /\ main' = IF main = "wait" THEN "done" ELSE main
    /\ UNCHANGED <<step, setup, rootdir, cloned, cgroup, written>>

Wait ==
    /\ main = "wait" /\ \E p \in cloned : proc[p] = "zombie"
    /\ proc' = [p \in Pids |-> IF p \in cloned THEN "free" ELSE proc[p]]
    /\ main' = "done"
    /\ UNCHANGED <<step, setup, rootdir, cloned, cgroup, written>>

-----------------------------------------------------------------------------
(* set_rootdir and start_cmd, in main itself or in child_setup_func        *)

(* Both results are ignored: after a failing chdir, chroot(".") makes the  *)
(* directory the program was started in the root.                          *)
SetRootdir ==
    /\ setup = "chdir"
    /\ rootdir' \in {"host", "cwd", "busybox"}
    /\ setup' = "execv"
    /\ UNCHANGED <<step, main, cloned, proc, cgroup, written>>

(* The init of a pid namespace ends: the kernel kills all the others.      *)
InitEnds(p) ==
    LET killed == IF proc[p] = "init" THEN {q \in Pids : proc[q] = "inside"} ELSE {} IN
    /\ proc' = [q \in Pids |-> IF q = p THEN "zombie"
                               ELSE IF q \in killed THEN "free" ELSE proc[q]]
    /\ cgroup' = cgroup \ (killed \cup {p})

(* execv, if there is a /bin/sh in that root; otherwise the function       *)
(* returns and the process ends.                                           *)
StartCmd ==
    /\ setup = "execv"
    /\ \/ setup' = "shell" /\ UNCHANGED <<main, proc, cgroup>>
       \/ /\ setup' = "ended"
          /\ IF step = "chroot" THEN main' = "done" /\ UNCHANGED <<proc, cgroup>>
                                ELSE main' = main /\ \E p \in cloned : InitEnds(p)
    /\ UNCHANGED <<step, rootdir, cloned, written>>

ShellEnds ==
    /\ setup = "shell"
    /\ setup' = "ended"
    /\ IF step = "chroot" THEN main' = "done" /\ UNCHANGED <<proc, cgroup>>
                          ELSE main' = main /\ \E p \in cloned : InitEnds(p)
    /\ UNCHANGED <<step, rootdir, cloned, written>>

-----------------------------------------------------------------------------
(* The rest of the host                                                    *)

(* The shell runs a command.                                               *)
Fork(p) ==
    /\ setup = "shell"
    /\ Starts(p, "inside", cloned)
    /\ UNCHANGED <<step, main, setup, rootdir, cloned, written>>

(* A process that has nothing to do with the container starts; any ends,   *)
(* or is reaped by the host's init when main is gone.                      *)
Stranger(p) ==
    /\ Starts(p, "stranger", {})
    /\ UNCHANGED <<step, main, setup, rootdir, cloned, written>>

Ends(p) ==
    /\ proc[p] \in {"inside", "stranger"} \/ (proc[p] = "zombie" /\ main = "crashed")
    /\ proc' = [proc EXCEPT ![p] = "free"]
    /\ cgroup' = cgroup \ {p}
    /\ UNCHANGED <<step, main, setup, rootdir, cloned, written>>

Main == Clone \/ WriteCgroup \/ Wait
Setup == SetRootdir \/ StartCmd

Next ==
    \/ Main \/ Setup \/ ShellEnds
    \/ \E p \in Pids : Fork(p) \/ Stranger(p) \/ Ends(p)

-----------------------------------------------------------------------------
(* Properties                                                              *)

(* The child may have ended, and pids are used again, while write_cgroup   *)
(* still goes by the pid that clone returned: no process that is not the   *)
(* container's is ever limited.                                            *)
OnlyOursLimited == \A p \in cgroup : proc[p] # "stranger"

(* Nothing is left behind: once the shell has ended so does the program,   *)
(* with the pid given back and, if it had namespaces, with everything the  *)
(* shell had started gone; unless the program crashed in write_cgroup.     *)
Reaped ==
    setup = "ended" ~>
        \/ main = "crashed"
        \/ /\ main = "done"
           /\ step # "chroot" => \A p \in Pids : proc[p] \in {"free", "stranger"}
=============================================================================
