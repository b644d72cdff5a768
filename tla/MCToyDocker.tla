---------------------------- MODULE MCToyDocker ----------------------------
(***************************************************************************)
(* The network step of toy_docker for TLC: its launches, which are alike,   *)
(* as are the names, and the messages they build for the kernel.  A message *)
(* is the business of one process alone: it is enough to look at messages   *)
(* where no launch is under way.                                            *)
(***************************************************************************)
EXTENDS ToyDocker, Naturals, TLC

CONSTANTS NLMSG_GOOD_SIZE, Structs, Lengths

VARIABLES use, cap, len, rta, open, inside, begin

M == INSTANCE NlMsg
mvars == <<use, cap, len, rta, open, inside, begin>>

(* Every fixed part fits, and every length fits an unsigned short.         *)
ASSUME SizesAssumption ==
    /\ NLMSG_GOOD_SIZE \in Nat
    /\ M!NLMSG_HDRLEN + M!NLMSG_ALIGN(NLMSG_GOOD_SIZE) < 65536
    /\ Structs \subseteq 1..NLMSG_GOOD_SIZE /\ Lengths \subseteq Nat

MCInit == Init /\ M!Init

MCNext ==
    \/ use = "none" /\ Next /\ UNCHANGED mvars
    \/ (\A l \in Launches : parent[l] = "name0") /\ M!Next /\ UNCHANGED vars

MCSpec == MCInit /\ [][MCNext]_<<vars, mvars>>

Symmetry == Permutations(Launches) \cup Permutations(Names0) \cup Permutations(Names1)

(* NlMsg: no byte is written beyond the buffer of a message.               *)
WithinCap == M!WithinCap

(* NlMsg: the kernel finds in a message just what was put into it.         *)
ParsesBack == M!ParsesBack
=============================================================================
