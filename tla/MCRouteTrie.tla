---------------------------- MODULE MCRouteTrie ----------------------------
(***************************************************************************)
(* RouteTrie for TLC: every table over short addresses.                     *)
(***************************************************************************)
EXTENDS RouteTrie

CONSTANT Hops

AllAddresses == [1..Width -> {0, 1}]

(* Only the first prefixLen bits of ip count: the others are 0.            *)
AllCalls ==
    {c \in [ip : AllAddresses, prefixLen : 0..Width, nexthop : Hops] :
        \A i \in c.prefixLen + 1 .. Width : c.ip[i] = 0}
=============================================================================
