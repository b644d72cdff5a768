----------------------------- MODULE RouteTrie -----------------------------
(***************************************************************************)
(* network/route/route_test.cpp: a routing table kept as a binary trie.     *)
(* A node of the trie is the string of bits that leads to it from the root, *)
(* so children[b] of node n is Append(n, b), and the loop index of the two  *)
(* methods is the length of the node they have got to.  insert is one step; *)
(* search is one step per turn of its two loops.                            *)
(***************************************************************************)
EXTENDS Naturals, Sequences

CONSTANTS
    Width,              \* the number of bits of an address
    Calls,              \* the calls of insert: [ip, prefixLen, nexthop]
    Queries             \* the addresses search is called with

Bits == {0, 1}
Addresses == [1..Width -> Bits]
Nodes == UNION {[1..n -> Bits] : n \in 0..Width}
Nexthops == {c.nexthop : c \in Calls}

ASSUME WidthAssumption == Width \in Nat \ {0}
ASSUME CallsAssumption ==
    /\ \A c \in Calls : c.ip \in Addresses /\ c.prefixLen \in 0..Width
    /\ Queries \subseteq Addresses

VARIABLES
    nodes,              \* the TrieNodes that exist
    nexthop,            \* the nexthop of every node that isLeaf
    pc,                 \* the loop that the search in progress is in
    query,              \* its argument
    node                \* and its TrieNode

vars == <<nodes, nexthop, pc, query, node>>

root == << >>
isLeaf(n) == n \in DOMAIN nexthop

TypeOK ==
    /\ nodes \subseteq Nodes
    /\ DOMAIN nexthop \subseteq nodes
    /\ nexthop \in [DOMAIN nexthop -> Nexthops]
    /\ pc \in {"idle", "walk", "descend", "crashed"}
    /\ query \in Queries
    /\ node \in nodes

Init ==
    /\ nodes = {root}
    /\ nexthop = << >>
    /\ pc = "idle"
    /\ query \in Queries
    /\ node = root

-----------------------------------------------------------------------------
(* The first n bits of an address.                                         *)
substr(ip, n) == SubSeq(ip, 1, n)

(* All the nodes on the way to the prefix, and the route at its end.       *)
insert_mutant_last(c) ==
    /\ pc = "idle"
    /\ nodes' = nodes \cup {substr(c.ip, n) : n \in 0..c.prefixLen}
    /\ LET leaf == substr(c.ip, IF c.prefixLen = 0 THEN 0 ELSE c.prefixLen - 1)
       IN nexthop' = [n \in DOMAIN nexthop \cup {leaf} |->
                        IF n = leaf THEN c.nexthop ELSE nexthop[n]]
    /\ UNCHANGED <<pc, query, node>>

insert(c) ==
    /\ pc = "idle"
    /\ nodes' = nodes \cup {substr(c.ip, n) : n \in 0..c.prefixLen}
    /\ LET leaf == substr(c.ip, c.prefixLen)
       IN nexthop' = [n \in DOMAIN nexthop \cup {leaf} |->
                        IF n = leaf THEN c.nexthop ELSE nexthop[n]]
    /\ UNCHANGED <<pc, query, node>>

search(ip) ==
    /\ pc = "idle"
    /\ query' = ip /\ node' = root /\ pc' = "walk"
    /\ UNCHANGED <<nodes, nexthop>>

(* The first loop: down along the address as far as there are nodes.       *)
Follows(n) == Len(n) < Width /\ Append(n, query[Len(n) + 1]) \in nodes

Walk_mutant_first ==
    /\ pc = "walk"
    /\ IF Follows(node) /\ ~isLeaf(node)
          THEN node' = Append(node, query[Len(node) + 1]) /\ UNCHANGED pc
          ELSE pc' = "descend" /\ UNCHANGED node
    /\ UNCHANGED <<nodes, nexthop, query>>

Walk ==
    /\ pc = "walk"
    /\ IF Follows(node)
          THEN node' = Append(node, query[Len(node) + 1]) /\ UNCHANGED pc
          ELSE pc' = "descend" /\ UNCHANGED node
    /\ UNCHANGED <<nodes, nexthop, query>>

(* The second loop: down to a leaf, by children[0] if there is one.  With  *)
(* neither child the loop goes on with a null pointer.                     *)
Child(n) == IF Append(n, 0) \in nodes THEN Append(n, 0) ELSE Append(n, 1)

Descend ==
    /\ pc = "descend" /\ ~isLeaf(node)
    /\ IF Child(node) \in nodes
          THEN node' = Child(node) /\ UNCHANGED pc
          ELSE pc' = "crashed" /\ UNCHANGED node
    /\ UNCHANGED <<nodes, nexthop, query>>

(* search returns nexthop[node].                                           *)
Answering == pc = "descend" /\ isLeaf(node)

Return ==
    /\ Answering
    /\ pc' = "idle"
    /\ UNCHANGED <<nodes, nexthop, query, node>>

Crashed == pc = "crashed" /\ UNCHANGED vars

Loop == Walk \/ Descend \/ Return

Next ==
    \/ \E c \in Calls : insert(c)
    \/ \E ip \in Queries : search(ip)
    \/ Loop
    \/ Crashed

Spec == Init /\ [][Next]_vars

-----------------------------------------------------------------------------
(* Properties                                                              *)

(* search goes on with a null pointer only in an empty table: once there   *)
(* is any route, every path the two loops can take ends at a leaf.         *)
CrashOnlyIfEmpty == pc = "crashed" => DOMAIN nexthop = {}

Matches(n, ip) == Len(n) <= Width /\ n = substr(ip, Len(n))

(* An answer that matches the address is the longest match: the descent    *)
(* below the last node of the walk can only find routes that do not match  *)
(* at all, never a shorter match than the best.                            *)
MatchIsLongest ==
    Answering /\ Matches(node, query) =>
        \A n \in DOMAIN nexthop : Matches(n, query) => Len(n) <= Len(node)

(* The comment on search, longest prefix match: if any route matches the   *)
(* address, the answer is the longest that does.                           *)
LongestPrefixMatch ==
    Answering /\ (\E n \in DOMAIN nexthop : Matches(n, query)) =>
        /\ Matches(node, query)
        /\ \A n \in DOMAIN nexthop : Matches(n, query) => Len(n) <= Len(node)
=============================================================================
