-------------------------- MODULE RouteTrieProofs --------------------------
(***************************************************************************)
(* What search does with any table and any width of addresses.              *)
(***************************************************************************)
EXTENDS RouteTrie, TLAPS

(* The trie has no node without the nodes above it.                        *)
PrefixClosed == \A n \in nodes : \A k \in 0..Len(n) : substr(n, k) \in nodes

(* A node is a leaf or has a child; only the root of an empty table has    *)
(* neither.                                                                *)
HasChild(n) == Append(n, 0) \in nodes \/ Append(n, 1) \in nodes
EndsAtLeaves ==
    \A n \in nodes : HasChild(n) \/ isLeaf(n) \/ (n = root /\ DOMAIN nexthop = {})

(* The first loop follows the address; the second starts no higher than    *)
(* the best match and only goes down.                                      *)
WalkInv == pc = "walk" => Matches(node, query)
DescendInv ==
    pc = "descend" =>
        \A n \in DOMAIN nexthop : Matches(n, query) => Len(n) <= Len(node)

TrieInv ==
    /\ PrefixClosed /\ EndsAtLeaves /\ WalkInv /\ DescendInv
    /\ CrashOnlyIfEmpty

IInv == TypeOK /\ TrieInv

-----------------------------------------------------------------------------
(* Strings of bits                                                         *)

LEMMA NodeFacts ==
    ASSUME NEW n \in Nodes
    PROVE  /\ n \in Seq(Bits) /\ Len(n) \in 0..Width
           /\ n = [i \in 1..Len(n) |-> n[i]]
BY WidthAssumption DEF Nodes

LEMMA NodeIntro ==
    ASSUME NEW n \in Seq(Bits), Len(n) <= Width
    PROVE  n \in Nodes
<1>1. Len(n) \in 0..Width /\ n \in [1..Len(n) -> Bits]
  BY WidthAssumption
<1> QED
  BY <1>1 DEF Nodes

LEMMA AddressFacts ==
    ASSUME NEW ip \in Addresses
    PROVE  ip \in Seq(Bits) /\ Len(ip) = Width
BY WidthAssumption DEF Addresses

LEMMA SubstrFacts ==
    ASSUME NEW s \in Seq(Bits), NEW k \in 0..Len(s)
    PROVE  /\ substr(s, k) \in Seq(Bits) /\ Len(substr(s, k)) = k
           /\ \A i \in 1..k : substr(s, k)[i] = s[i]
           /\ \A j \in 0..k : substr(substr(s, k), j) = substr(s, j)
           /\ k < Len(s) => substr(s, k + 1) = Append(substr(s, k), s[k + 1])
           /\ substr(s, 0) = << >>
           /\ substr(s, Len(s)) = s
BY DEF substr

LEMMA AppendFacts ==
    ASSUME NEW s \in Seq(Bits), NEW b \in Bits
    PROVE  /\ Append(s, b) \in Seq(Bits) /\ Len(Append(s, b)) = Len(s) + 1
           /\ \A k \in 0..Len(s) : substr(Append(s, b), k) = substr(s, k)
BY DEF substr

(* One more bit of the address: the next longer match.                     *)
LEMMA MatchStep ==
    ASSUME NEW n \in Nodes, NEW ip \in Addresses, Matches(n, ip), Len(n) < Width
    PROVE  LET m == Append(n, ip[Len(n) + 1])
           IN  Len(m) = Len(n) + 1 /\ m = substr(ip, Len(m)) /\ Matches(m, ip)
<1>1. ip \in Seq(Bits) /\ Len(ip) = Width /\ n \in Seq(Bits) /\ Len(n) \in 0..Width
  BY AddressFacts, NodeFacts
<1>2. ip[Len(n) + 1] \in Bits
  BY <1>1
<1>3. substr(ip, Len(n) + 1) = Append(n, ip[Len(n) + 1])
  BY <1>1, SubstrFacts DEF Matches
<1>4. Len(Append(n, ip[Len(n) + 1])) = Len(n) + 1
  BY <1>1, <1>2, AppendFacts
<1> QED
  BY <1>1, <1>3, <1>4, WidthAssumption DEF Matches

-----------------------------------------------------------------------------
LEMMA InitIInv == Init => IInv
<1> SUFFICES ASSUME Init PROVE IInv
  OBVIOUS
<1>1. root \in Seq(Bits) /\ Len(root) = 0
  BY DEF root
<1>2. DOMAIN nexthop = {} /\ nexthop \in [DOMAIN nexthop -> Nexthops]
  BY DEF Init
<1>3. TypeOK
  <2>1. root \in Nodes
    <3>1. Len(root) <= Width
      BY <1>1, WidthAssumption
    <3> QED
      BY <1>1, <3>1, NodeIntro
  <2> QED
    BY <1>2, <2>1 DEF Init, TypeOK
<1>4. PrefixClosed
  <2>1. 0 \in 0..Len(root)
    BY <1>1
  <2>2. substr(root, 0) = << >>
    BY <1>1, <2>1, SubstrFacts
  <2> QED
    BY <1>1, <2>2 DEF Init, PrefixClosed, root
<1> QED
  BY <1>2, <1>3, <1>4
     DEF Init, IInv, TrieInv, EndsAtLeaves, WalkInv, DescendInv, CrashOnlyIfEmpty

(* insert adds a whole path, with the leaf at its end.                     *)
LEMMA InsertIInv == ASSUME IInv, NEW c \in Calls, insert(c) PROVE IInv'
<1> USE DEF IInv, TrieInv
<1> DEFINE path == {substr(c.ip, n) : n \in 0..c.prefixLen}
           leaf == substr(c.ip, c.prefixLen)
<1>1. c.ip \in Seq(Bits) /\ Len(c.ip) = Width /\ c.prefixLen \in 0..Width
  BY CallsAssumption, AddressFacts
<1>2. nodes' = nodes \cup path /\ pc = "idle" /\ UNCHANGED <<pc, query, node>>
  BY DEF insert
<1>3. /\ DOMAIN nexthop' = DOMAIN nexthop \cup {leaf}
      /\ \A n \in DOMAIN nexthop' :
            nexthop'[n] = IF n = leaf THEN c.nexthop ELSE nexthop[n]
      /\ nexthop' = [n \in DOMAIN nexthop' |-> nexthop'[n]]
  BY DEF insert
<1>4. \A n \in 0..c.prefixLen : /\ substr(c.ip, n) \in Seq(Bits)
                                /\ Len(substr(c.ip, n)) = n
                                /\ substr(c.ip, n) \in Nodes
  BY <1>1, SubstrFacts, NodeIntro, WidthAssumption
<1>5. leaf \in path
  BY <1>1
<1>6. TypeOK'
  <2>1. nodes' \subseteq Nodes /\ DOMAIN nexthop' \subseteq nodes'
    BY <1>2, <1>3, <1>4, <1>5 DEF TypeOK
  <2>2. c.nexthop \in Nexthops
    BY DEF Nexthops
  <2>3. nexthop' \in [DOMAIN nexthop' -> Nexthops]
    BY <1>3, <2>2 DEF TypeOK
  <2> QED
    BY <1>2, <2>1, <2>3 DEF TypeOK
<1>7. PrefixClosed'
  <2>1. ASSUME NEW n \in 0..c.prefixLen, NEW k \in 0..n
        PROVE  substr(substr(c.ip, n), k) \in path
    BY <1>1, SubstrFacts
  <2>2. ASSUME NEW m \in nodes', NEW k \in 0..Len(m) PROVE substr(m, k) \in nodes'
    <3>1. CASE m \in nodes
      BY <1>2, <2>2, <3>1 DEF PrefixClosed
    <3>2. CASE m \in path
      <4>1. PICK n \in 0..c.prefixLen : m = substr(c.ip, n)
        BY <3>2
      <4>2. k \in 0..n
        BY <1>4, <2>2, <4>1
      <4> QED
        BY <1>2, <2>1, <4>1, <4>2
    <3> QED
      BY <1>2, <3>1, <3>2
  <2> QED
    BY <2>2 DEF PrefixClosed
<1>8. EndsAtLeaves'
  <2>1. ASSUME NEW n \in 0..c.prefixLen
        PROVE  HasChild(substr(c.ip, n))' \/ isLeaf(substr(c.ip, n))'
    <3>1. CASE n = c.prefixLen
      BY <1>3, <3>1 DEF isLeaf
    <3>2. CASE n # c.prefixLen
      <4>1. n + 1 \in 0..c.prefixLen /\ n \in 0..Len(c.ip) /\ n < Len(c.ip)
        BY <1>1, <3>2
      <4>2. substr(c.ip, n + 1) = Append(substr(c.ip, n), c.ip[n + 1])
        BY <1>1, <4>1, SubstrFacts
      <4>3. substr(c.ip, n + 1) \in nodes' /\ c.ip[n + 1] \in {0, 1}
        BY <1>1, <1>2, <4>1 DEF Bits
      <4> QED
        BY <4>2, <4>3 DEF HasChild
    <3> QED
      BY <3>1, <3>2
  <2>2. root = substr(c.ip, 0)
    BY <1>1, SubstrFacts DEF root
  <2>3. root \in path
    BY <1>1, <2>2
  <2> QED
    BY <1>2, <1>3, <2>1, <2>3 DEF EndsAtLeaves, HasChild, isLeaf
<1> QED
  BY <1>2, <1>6, <1>7, <1>8 DEF WalkInv, DescendInv, CrashOnlyIfEmpty

LEMMA SearchIInv == ASSUME IInv, NEW ip \in Queries, search(ip) PROVE IInv'
<1> USE DEF IInv, TrieInv, search
<1>1. root \in nodes
  <2>1. node \in nodes /\ node \in Seq(Bits)
    BY NodeFacts DEF TypeOK
  <2>2. substr(node, 0) = root
    BY <2>1, SubstrFacts DEF root
  <2> QED
    BY <2>1, <2>2 DEF PrefixClosed
<1>2. TypeOK'
  BY <1>1 DEF TypeOK
<1>3. PrefixClosed' /\ EndsAtLeaves'
  BY DEF PrefixClosed, EndsAtLeaves, HasChild, isLeaf
<1>4. WalkInv'
  <2>1. ip \in Seq(Bits)
    BY CallsAssumption, AddressFacts
  <2>2. substr(ip, 0) = root /\ Len(root) = 0
    BY <2>1, SubstrFacts DEF root
  <2> QED
    BY <2>2, WidthAssumption DEF WalkInv, Matches
<1> QED
  BY <1>2, <1>3, <1>4 DEF DescendInv, CrashOnlyIfEmpty

(* The walk ends at the longest match among the nodes: a longer one would  *)
(* have the next bit of the address among the nodes above it.              *)
LEMMA WalkEnds ==
    ASSUME IInv, pc = "walk", ~Follows(node), NEW n \in nodes, Matches(n, query)
    PROVE  Len(n) <= Len(node)
<1> USE DEF IInv, TrieInv
<1>1. query \in Addresses /\ node \in Nodes /\ n \in Nodes
  BY CallsAssumption DEF TypeOK
<1>2. /\ query \in Seq(Bits) /\ Len(query) = Width
      /\ Len(node) \in 0..Width /\ n \in Seq(Bits) /\ Len(n) \in 0..Width
  BY <1>1, AddressFacts, NodeFacts
<1> SUFFICES ASSUME Len(n) > Len(node) PROVE FALSE
  BY <1>2
<1>3. Len(node) < Width /\ Len(node) + 1 \in 0..Len(n) /\ Len(n) \in 0..Len(query)
  BY <1>2
<1>4. n = substr(query, Len(n))
  BY DEF Matches
<1>5. substr(n, Len(node) + 1) = substr(query, Len(node) + 1)
  BY <1>2, <1>3, <1>4, SubstrFacts
<1>6. substr(query, Len(node) + 1) = Append(node, query[Len(node) + 1])
  <2>1. node = substr(query, Len(node)) /\ Len(node) \in 0..Len(query)
    BY <1>2 DEF WalkInv, Matches
  <2>2. substr(query, Len(node) + 1)
          = Append(substr(query, Len(node)), query[Len(node) + 1])
    BY <1>2, <1>3, <2>1, SubstrFacts
  <2> QED
    BY <2>1, <2>2
<1>7. substr(n, Len(node) + 1) \in nodes
  BY <1>3 DEF PrefixClosed
<1> QED
  BY <1>3, <1>5, <1>6, <1>7 DEF Follows

LEMMA WalkIInv == ASSUME IInv, Walk PROVE IInv'
<1> USE DEF IInv, TrieInv
<1>1. PrefixClosed' /\ EndsAtLeaves'
  BY DEF Walk, PrefixClosed, EndsAtLeaves, HasChild, isLeaf
<1>2. query \in Addresses /\ node \in Nodes
  BY CallsAssumption DEF TypeOK
<1>3. CASE Follows(node)
  <2>1. node' = Append(node, query[Len(node) + 1]) /\ UNCHANGED <<nodes, nexthop, query, pc>>
    BY <1>3 DEF Walk
  <2>2. Matches(node', query)
    BY <1>2, <1>3, <2>1, MatchStep DEF Walk, WalkInv, Follows
  <2>3. TypeOK'
    BY <1>3, <2>1 DEF TypeOK, Follows
  <2> QED
    BY <1>1, <2>1, <2>2, <2>3 DEF Walk, WalkInv, DescendInv, Matches, CrashOnlyIfEmpty
<1>4. CASE ~Follows(node)
  <2>1. pc' = "descend" /\ UNCHANGED <<nodes, nexthop, query, node>>
    BY <1>4 DEF Walk
  <2>2. TypeOK'
    BY <2>1 DEF TypeOK
  <2>3. \A n \in DOMAIN nexthop : Matches(n, query) => Len(n) <= Len(node)
    BY <1>4, WalkEnds DEF Walk, TypeOK
  <2> QED
    BY <1>1, <2>1, <2>2, <2>3 DEF WalkInv, DescendInv, Matches, CrashOnlyIfEmpty
<1> QED
  BY <1>3, <1>4

(* The descent finds a child unless the table is empty, and gets longer.   *)
LEMMA DescendIInv == ASSUME IInv, Descend PROVE IInv'
<1> USE DEF IInv, TrieInv
<1>1. PrefixClosed' /\ EndsAtLeaves'
  BY DEF Descend, PrefixClosed, EndsAtLeaves, HasChild, isLeaf
<1>2. node \in nodes /\ node \in Seq(Bits) /\ Len(node) \in Nat
  BY NodeFacts DEF TypeOK
<1>3. CASE Child(node) \in nodes
  <2>1. node' = Child(node) /\ UNCHANGED <<nodes, nexthop, query, pc>>
    BY <1>3 DEF Descend
  <2>2. Len(node') = Len(node) + 1
    BY <1>2, <2>1, AppendFacts DEF Child, Bits
  <2>3. TypeOK'
    BY <1>3, <2>1 DEF TypeOK
  <2>4. DescendInv'
    <3>1. ASSUME NEW n \in DOMAIN nexthop, Matches(n, query) PROVE Len(n) <= Len(node')
      <4>1. Len(n) \in Nat /\ Len(n) <= Len(node)
        BY <3>1, NodeFacts DEF Descend, DescendInv, TypeOK
      <4> QED
        BY <1>2, <2>2, <4>1
    <3> QED
      BY <2>1, <3>1 DEF DescendInv, Matches
  <2> QED
    BY <1>1, <2>1, <2>3, <2>4 DEF Descend, WalkInv, CrashOnlyIfEmpty
<1>4. CASE Child(node) \notin nodes
  <2>1. pc' = "crashed" /\ UNCHANGED <<nodes, nexthop, query, node>>
    BY <1>4 DEF Descend
  <2>2. TypeOK'
    BY <2>1 DEF TypeOK
  <2>3. DOMAIN nexthop = {}
    BY <1>2, <1>4 DEF Descend, Child, EndsAtLeaves, HasChild
  <2> QED
    BY <1>1, <2>1, <2>2, <2>3 DEF WalkInv, DescendInv, CrashOnlyIfEmpty
<1> QED
  BY <1>3, <1>4

LEMMA NextIInv == IInv /\ [Next]_vars => IInv'
<1> SUFFICES ASSUME IInv, [Next]_vars PROVE IInv'
  OBVIOUS
<1>1. CASE Return
  BY <1>1 DEF Return, IInv, TypeOK, TrieInv, PrefixClosed, EndsAtLeaves, HasChild,
              isLeaf, WalkInv, DescendInv, CrashOnlyIfEmpty
<1>2. CASE UNCHANGED vars
  BY <1>2 DEF vars, IInv, TypeOK, TrieInv, PrefixClosed, EndsAtLeaves, HasChild,
              isLeaf, WalkInv, DescendInv, CrashOnlyIfEmpty, Matches
<1> QED
  BY <1>1, <1>2, InsertIInv, SearchIInv, WalkIInv, DescendIInv
     DEF Next, Loop, Crashed

-----------------------------------------------------------------------------
(* The invariant of the trie and of the search in it.                      *)
THEOREM TrieSafe == Spec => []IInv
BY InitIInv, NextIInv, PTL DEF Spec

(* Once there is a route, search cannot run into a null pointer: whatever  *)
(* was inserted, every inner node has a child.                             *)
THEOREM CrashOnlyIfEmptyHolds == Spec => []CrashOnlyIfEmpty
<1>1. IInv => CrashOnlyIfEmpty
  BY DEF IInv, TrieInv
<1> QED
  BY <1>1, TrieSafe, PTL

(* An answer that matches the address is the longest that does.            *)
THEOREM MatchIsLongestHolds == Spec => []MatchIsLongest
<1>1. IInv => MatchIsLongest
  BY DEF IInv, TrieInv, DescendInv, MatchIsLongest, Answering
<1> QED
  BY <1>1, TrieSafe, PTL

-----------------------------------------------------------------------------
(* The turns that a search can still take.                                 *)
TurnsLeft ==
    IF pc = "walk" THEN Width - Len(node) + 2
    ELSE IF pc = "descend" THEN Width - Len(node) + 1 ELSE 0

(* While a search runs every step is a turn of its loops or its return,    *)
(* and leaves it at least one less; there are never more than Width + 2.   *)
Shrinks ==
    /\ TurnsLeft \in 0..(Width + 2)
    /\ pc \in {"walk", "descend"} => TurnsLeft' < TurnsLeft

(* Neither loop can go round: each of its turns is one node further down,  *)
(* and no node is deeper than an address is long.                          *)
THEOREM SearchShrinks == Spec => [][Shrinks]_vars
<1>1. ASSUME IInv, Next PROVE Shrinks
  <2>1. node \in Seq(Bits) /\ Len(node) \in 0..Width /\ Width \in Nat
    BY <1>1, NodeFacts, WidthAssumption DEF IInv, TypeOK
  <2>2. TurnsLeft \in 0..(Width + 2)
    BY <2>1 DEF TurnsLeft
  <2>3. CASE Walk
    <3>1. CASE Follows(node)
      <4>1. query \in Addresses /\ Len(node) + 1 \in 1..Width
        BY <1>1, <2>1, <3>1, CallsAssumption DEF IInv, TypeOK, Follows
      <4>2. query[Len(node) + 1] \in Bits
        BY <4>1 DEF Addresses
      <4>3. node' = Append(node, query[Len(node) + 1]) /\ pc = "walk" /\ pc' = "walk"
        BY <2>3, <3>1 DEF Walk
      <4>4. Len(node') = Len(node) + 1
        BY <2>1, <4>2, <4>3, AppendFacts
      <4> QED
        BY <2>1, <2>2, <4>3, <4>4 DEF Shrinks, TurnsLeft
    <3>2. CASE ~Follows(node)
      BY <2>1, <2>2, <2>3, <3>2 DEF Walk, Shrinks, TurnsLeft
    <3> QED
      BY <3>1, <3>2
  <2>4. CASE Descend
    <3>1. CASE Child(node) \in nodes
      <4>1. node' = Child(node) /\ pc = "descend" /\ pc' = "descend"
        BY <2>4, <3>1 DEF Descend
      <4>2. Len(node') = Len(node) + 1
        BY <2>1, <4>1, AppendFacts DEF Child, Bits
      <4> QED
        BY <2>1, <2>2, <4>1, <4>2 DEF Shrinks, TurnsLeft
    <3>2. CASE Child(node) \notin nodes
      BY <2>1, <2>2, <2>4, <3>2 DEF Descend, Shrinks, TurnsLeft
    <3> QED
      BY <3>1, <3>2
  <2>5. CASE Return
    BY <2>1, <2>2, <2>5 DEF Return, Answering, Shrinks, TurnsLeft
  <2>6. CASE pc \notin {"walk", "descend"}
    BY <2>2, <2>6 DEF Shrinks
  <2> QED
    BY <1>1, <2>3, <2>4, <2>5, <2>6 DEF Next, Loop, insert, search, Crashed
<1>2. IInv /\ [Next]_vars => [Shrinks]_vars
  BY <1>1
<1> QED
  BY <1>2, TrieSafe, PTL DEF Spec
=============================================================================
