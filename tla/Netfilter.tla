----------------------------- MODULE Netfilter -----------------------------
(***************************************************************************)
(* network/netfilter: the kernel modules helloworld and pingdrop.  Each     *)
(* registers one hook at PRE_ROUTING of the initial network namespace when  *)
(* it is loaded and takes it back when it is unloaded, while packets go     *)
(* through the hooks on several CPUs.                                       *)
(*                                                                          *)
(* A packet goes through the hooks that were registered when it came in     *)
(* (the kernel replaces the array of hooks and never changes one in use).   *)
(***************************************************************************)
EXTENDS Naturals, Sequences, SequencesExt

CONSTANT Cpus

Modules == {"helloworld", "pingdrop"}

(* What of a packet matters: is it for the hooks (IPv4, init_net), is it   *)
(* ICMP.                                                                   *)
Packets == [hooked : BOOLEAN, icmp : BOOLEAN]

VARIABLES
    module,             \* "out", "loaded", "leaving": rmmod is under way
    hooks,              \* the registered hooks, in the order of their calls
    pkt,                \* the packet each CPU handles, or handled last
    before,             \* the hooks it came in to
    todo,               \* those it has still to pass
    fate                \* "none", "passing", "accepted", "dropped"

vars == <<module, hooks, pkt, before, todo, fate>>

Init ==
    /\ module = [m \in Modules |-> "out"]
    /\ hooks = <<>>
    /\ pkt = [c \in Cpus |-> [hooked |-> FALSE, icmp |-> FALSE]]
    /\ before = [c \in Cpus |-> <<>>]
    /\ todo = [c \in Cpus |-> <<>>]
    /\ fate = [c \in Cpus |-> "none"]

(* hook_func of either module: skb and its IP header are there.            *)
hook_func(m, p) ==
    IF m = "pingdrop" /\ p.icmp THEN "NF_DROP" ELSE "NF_ACCEPT"

(* hook_init: the result of nf_register_net_hook is ignored, so that the   *)
(* module is loaded with or without its hook.  Of hooks with the same      *)
(* priority the newest is called first.                                    *)
hook_init(m) ==
    /\ module[m] = "out"
    /\ module' = [module EXCEPT ![m] = "loaded"]
    /\ hooks' \in {hooks, <<m>> \o hooks}
    /\ UNCHANGED <<pkt, before, todo, fate>>

(* hook_exit: taking back a hook that was never registered has no effect.  *)
hook_exit_mutant_forget(m) ==
    /\ module[m] = "loaded"
    /\ module' = [module EXCEPT ![m] = "leaving"]
    /\ UNCHANGED <<hooks, pkt, before, todo, fate>>

hook_exit(m) ==
    /\ module[m] = "loaded"
    /\ module' = [module EXCEPT ![m] = "leaving"]
    /\ \/ \E i \in DOMAIN hooks : hooks[i] = m /\ hooks' = RemoveAt(hooks, i)
       \/ m \notin Range(hooks) /\ UNCHANGED hooks
    /\ UNCHANGED <<pkt, before, todo, fate>>

(* The kernel frees the module's code, after every packet has left the     *)
(* hooks that was among them when hook_exit returned.                      *)
Free(m) ==
    /\ module[m] = "leaving"
    /\ \A c \in Cpus : fate[c] = "passing" => m \notin Range(before[c]) \/ m \in Range(hooks)
    /\ module' = [module EXCEPT ![m] = "out"]
    /\ UNCHANGED <<hooks, pkt, before, todo, fate>>

Receive(c, p) ==
    /\ fate[c] # "passing"
    /\ pkt' = [pkt EXCEPT ![c] = p]
    /\ before' = [before EXCEPT ![c] = IF p.hooked THEN hooks ELSE <<>>]
    /\ todo' = [todo EXCEPT ![c] = before'[c]]
    /\ fate' = [fate EXCEPT ![c] = "passing"]
    /\ UNCHANGED <<module, hooks>>

(* nf_hook_slow: the next hook, until one drops the packet.                *)
CallHook(c) ==
    /\ fate[c] = "passing" /\ todo[c] # <<>>
    /\ fate' = [fate EXCEPT ![c] =
                  IF hook_func(Head(todo[c]), pkt[c]) = "NF_DROP" THEN "dropped" ELSE @]
    /\ todo' = [todo EXCEPT ![c] = Tail(@)]
    /\ UNCHANGED <<module, hooks, pkt, before>>

Accept(c) ==
    /\ fate[c] = "passing" /\ todo[c] = <<>>
    /\ fate' = [fate EXCEPT ![c] = "accepted"]
    /\ UNCHANGED <<module, hooks, pkt, before, todo>>

Next ==
    \/ \E m \in Modules : hook_init(m) \/ hook_exit(m) \/ Free(m)
    \/ \E c \in Cpus : (\E p \in Packets : Receive(c, p)) \/ CallHook(c) \/ Accept(c)

Spec == Init /\ [][Next]_vars

-----------------------------------------------------------------------------
(* Properties                                                              *)

(* The kernel never calls into a module that is gone, with packets inside  *)
(* the hooks while modules come and go: hook_exit has taken back whatever  *)
(* hook_init registered.                                                   *)
NoStaleHook ==
    \A c \in Cpus : fate[c] = "passing" =>
        \A m \in Range(todo[c]) : module[m] # "out"

(* The comment above the last return of pingdrop's hook_func: whether the  *)
(* packet is ICMP or not, NF_ACCEPT is returned in the end and it goes on. *)
(* The return above that one is NF_DROP.                                   *)
AlwaysAccepted == \A c \in Cpus : fate[c] # "dropped"
=============================================================================
