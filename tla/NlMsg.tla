------------------------------- MODULE NlMsg -------------------------------
(***************************************************************************)
(* toy_docker/step_network/lxc_network/nl.c: building a netlink message in  *)
(* a buffer of fixed capacity, as the functions of network.c do: allocate,  *)
(* reserve the fixed part, put attributes, some of them nested in others,   *)
(* hand the message to netlink_transaction, free it.                        *)
(*                                                                          *)
(* An attribute is known by the offset of its header; of its bytes only     *)
(* the length in the header is kept.  The kernel reads a message by those   *)
(* lengths alone, from each attribute to the next.                          *)
(***************************************************************************)
EXTENDS Naturals, Sequences, FiniteSets

CONSTANTS
    NLMSG_GOOD_SIZE,    \* the size every message is allocated with
    Structs,            \* sizes of the fixed parts: ifinfomsg, ifaddrmsg, rtmsg
    Lengths             \* lengths of the data of an attribute

NLMSG_ALIGN(k) == 4 * ((k + 3) \div 4)
NLMSG_HDRLEN == 16
RTA_LENGTH(k) == 4 + k

VARIABLES
    use,                \* what the caller is doing with the message
    cap,                \* the bytes allocated for it
    len,                \* nlmsg_len in its header
    rta,                \* the attributes: offset |-> rta_len
    open,               \* the nests begun and not ended, innermost first
    inside,             \* history: the nest each attribute was put in, or 0
    begin               \* history: where the attributes of each nest (and of
                        \* the message, 0) begin

Init ==
    /\ use = "none"
    /\ cap = 0 /\ len = 0
    /\ rta = <<>> /\ inside = <<>> /\ begin = <<>>
    /\ open = <<>>

With(f, x, y) == [z \in DOMAIN f \cup {x} |-> IF z = x THEN y ELSE f[z]]

(* As an offset, not a pointer.                                            *)
NLMSG_TAIL == NLMSG_ALIGN(len)

(* The nest that is being filled.                                          *)
Level == IF open = <<>> THEN 0 ELSE Head(open)

-----------------------------------------------------------------------------
(* When malloc fails the caller gives up before it has a message.          *)
nlmsg_alloc ==
    /\ use = "none"
    /\ use' = "new"
    /\ cap' = NLMSG_HDRLEN + NLMSG_ALIGN(NLMSG_GOOD_SIZE)
    /\ len' = NLMSG_HDRLEN
    /\ UNCHANGED <<rta, open, inside, begin>>

(* The message for the answer: its length is all there is room for.        *)
nlmsg_alloc_reserve ==
    /\ use = "none"
    /\ use' = "answer"
    /\ cap' = NLMSG_HDRLEN + NLMSG_ALIGN(NLMSG_GOOD_SIZE)
    /\ len' = cap'
    /\ UNCHANGED <<rta, open, inside, begin>>

(* nlmsg_reserve: the fixed part of the message, where no caller looks     *)
(* whether it got any, or of a nest (VETH_INFO_PEER), where one does.      *)
nlmsg_reserve(k) ==
    /\ \/ use = "new"
       \/ use = "put" /\ open # <<>> /\ len = Level + RTA_LENGTH(0)
    /\ IF len + NLMSG_ALIGN(k) > cap
          THEN /\ use' = IF use = "new" THEN "crashed" ELSE "failed"
               /\ UNCHANGED <<len, begin>>
          ELSE /\ use' = "put"
               /\ len' = len + NLMSG_ALIGN(k)
               /\ begin' = With(begin, Level, len')
    /\ UNCHANGED <<cap, rta, open, inside>>

(* nla_put of k bytes of data, for all the functions that call it.  When   *)
(* there is no room the caller gives the message up.                       *)
nla_put_mutant_header(k) ==
    IF NLMSG_TAIL + NLMSG_ALIGN(k) > cap
       THEN use' = "failed" /\ UNCHANGED <<len, rta, inside>>
       ELSE /\ rta' = With(rta, NLMSG_TAIL, RTA_LENGTH(k))
            /\ inside' = With(inside, NLMSG_TAIL, Level)
            /\ len' = NLMSG_TAIL + NLMSG_ALIGN(RTA_LENGTH(k))
            /\ UNCHANGED use

nla_put(k) ==
    IF NLMSG_TAIL + NLMSG_ALIGN(RTA_LENGTH(k)) > cap
       THEN use' = "failed" /\ UNCHANGED <<len, rta, inside>>
       ELSE /\ rta' = With(rta, NLMSG_TAIL, RTA_LENGTH(k))
            /\ inside' = With(inside, NLMSG_TAIL, Level)
            /\ len' = NLMSG_TAIL + NLMSG_ALIGN(RTA_LENGTH(k))
            /\ UNCHANGED use

(* nla_put_buffer, nla_put_string, nla_put_u32.                            *)
Put(k) ==
    /\ use = "put"
    /\ nla_put(k)
    /\ UNCHANGED <<cap, open, begin>>

nla_begin_nested ==
    /\ use = "put"
    /\ nla_put(0)
    /\ \/ use' = "failed" /\ UNCHANGED <<open, begin>>
       \/ use' = "put" /\ open' = <<NLMSG_TAIL>> \o open /\ begin' = With(begin, NLMSG_TAIL, len')
    /\ UNCHANGED cap

nla_end_nested_mutant_none ==
    /\ use = "put" /\ open # <<>>
    /\ open' = Tail(open)
    /\ UNCHANGED <<use, cap, len, rta, inside, begin>>

nla_end_nested ==
    /\ use = "put" /\ open # <<>>
    /\ rta' = [rta EXCEPT ![Head(open)] = NLMSG_TAIL - Head(open)]
    /\ open' = Tail(open)
    /\ UNCHANGED <<use, cap, len, inside, begin>>

(* netlink_send.                                                           *)
Send ==
    /\ use = "put" /\ open = <<>>
    /\ use' = "sent"
    /\ UNCHANGED <<cap, len, rta, open, inside, begin>>

(* After the answer, or an error.                                          *)
nlmsg_free ==
    /\ use \in {"answer", "failed", "sent"}
    /\ use' = "none"
    /\ cap' = 0 /\ len' = 0
    /\ rta' = <<>> /\ inside' = <<>> /\ begin' = <<>>
    /\ open' = <<>>

Next ==
    \/ nlmsg_alloc \/ nlmsg_alloc_reserve \/ nla_begin_nested \/ nla_end_nested
    \/ (\E k \in Structs : nlmsg_reserve(k)) \/ (\E k \in Lengths : Put(k))
    \/ Send \/ nlmsg_free

-----------------------------------------------------------------------------
(* Properties                                                              *)

(* "Later operations can not exceed this limit" (nl.h, of cap): whatever   *)
(* is put, however deep, no byte is written beyond what was allocated and  *)
(* netlink_send and netlink_rcv are given no more than that; and the       *)
(* reservation whose result nobody checks succeeds.                        *)
WithinCap ==
    /\ use # "crashed"
    /\ len <= cap
    /\ \A a \in DOMAIN rta : a + NLMSG_ALIGN(rta[a]) <= cap

(* Where the kernel finds the end of a nest, or of the message.            *)
End(p) == IF p = 0 THEN len ELSE p + rta[p]

(* The kernel reads what was written: from the beginning of the message    *)
(* and of every nest, going by the lengths in the headers, it comes to     *)
(* every attribute that was put there, to no other, and to the end.        *)
ParsesBack ==
    use = "sent" =>
        \A p \in DOMAIN begin :
            LET items == {a \in DOMAIN rta : inside[a] = p} IN
            {begin[p]} \cup {a + NLMSG_ALIGN(rta[a]) : a \in items} = items \cup {End(p)}
=============================================================================
