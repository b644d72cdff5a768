------------------------------- MODULE HwAddr -------------------------------
(***************************************************************************)
(* lxc_network/network.c: new_hwaddr writes a random hardware address as    *)
(* text, lxc_convert_mac reads such a text back.                            *)
(*                                                                          *)
(* A character is a hexadecimal digit (its value), ':' or any other (Other);*)
(* the terminating 0 is what follows the last one.                          *)
(***************************************************************************)
EXTENDS Naturals, Sequences, SequencesExt

CONSTANTS
    ETH_ALEN,           \* octets of an address, 6 in the source
    Prefix,             \* those that are not drawn, 00:16:3e in the source
    Digits,             \* the digits in use
    MaxText             \* bound on the length of other texts

Octets == {16 * d + e : d, e \in Digits}
Colon == 16
Other == 17
NUL == 18

VARIABLES
    drawn,              \* the octets of the address, if new_hwaddr wrote it
    macaddr,            \* what lxc_convert_mac has still to read
    data,               \* the octets it has written
    ret                 \* what it returned, if it has

vars == <<drawn, macaddr, data, ret>>

(* snprintf: two digits for every octet, with colons between them; or an   *)
(* octet below 16 with one digit, as other programs write it.              *)
Written(octets, short) ==
    LET digits(i) ==
            (IF short /\ octets[i] < 16 THEN <<>> ELSE <<octets[i] \div 16>>)
                \o <<octets[i] % 16>>
        text[i \in 1..Len(octets)] ==
            IF i = Len(octets) THEN digits(i)
            ELSE digits(i) \o <<Colon>> \o text[i + 1]
    IN  text[1]

(* rand() % 255 for the octets after the prefix.                           *)
new_hwaddr ==
    {Prefix \o s : s \in [1..(ETH_ALEN - Len(Prefix)) -> Octets \ {255}]}

Init ==
    /\ \/ \E a \in new_hwaddr, short \in BOOLEAN :
             drawn = {a} /\ macaddr = Written(a, short)
       \/ drawn = {} /\ macaddr \in BoundedSeq(Digits \cup {Colon, Other}, MaxText)
    /\ data = <<>>
    /\ ret = "none"

(* The character k places after the pointer: never past the 0.             *)
At(k) == IF k < Len(macaddr) THEN macaddr[k + 1] ELSE NUL

isxdigit(c) == c < 16

(* A turn of the loop, or its end.  A single digit may be followed by ':'  *)
(* or by the end; one ':' more is passed over.                             *)
Turn_mutant_noshift ==
    /\ ret = "none" /\ macaddr # <<>> /\ Len(data) < ETH_ALEN
    /\ IF isxdigit(At(0)) /\ (isxdigit(At(1)) \/ At(1) \in {Colon, NUL})
          THEN LET val == 16 * At(0) + IF isxdigit(At(1)) THEN At(1) ELSE 0
                   after == IF At(1) = NUL THEN 1 ELSE 2
               IN /\ data' = Append(data, val)
                  /\ macaddr' = SubSeq(macaddr, after + 1 + (IF At(after) = Colon THEN 1 ELSE 0),
                                       Len(macaddr))
                  /\ UNCHANGED ret
          ELSE ret' = "EINVAL" /\ UNCHANGED <<data, macaddr>>
    /\ UNCHANGED drawn

Turn ==
    /\ ret = "none" /\ macaddr # <<>> /\ Len(data) < ETH_ALEN
    /\ IF isxdigit(At(0)) /\ (isxdigit(At(1)) \/ At(1) \in {Colon, NUL})
          THEN LET val == IF isxdigit(At(1)) THEN 16 * At(0) + At(1) ELSE At(0)
                   after == IF At(1) = NUL THEN 1 ELSE 2
               IN /\ data' = Append(data, val)
                  /\ macaddr' = SubSeq(macaddr, after + 1 + (IF At(after) = Colon THEN 1 ELSE 0),
                                       Len(macaddr))
                  /\ UNCHANGED ret
          ELSE ret' = "EINVAL" /\ UNCHANGED <<data, macaddr>>
    /\ UNCHANGED drawn

Return ==
    /\ ret = "none" /\ (macaddr = <<>> \/ Len(data) = ETH_ALEN)
    /\ ret' = "0"
    /\ UNCHANGED <<drawn, macaddr, data>>

Next == Turn \/ Return

-----------------------------------------------------------------------------
(* An address that new_hwaddr wrote is read back octet by octet, also if   *)
(* leading zeros were left out: SIOCSIFHWADDR sets what was drawn.  And no *)
(* text makes it write more octets than there is room for.                 *)
ConvertExact ==
    /\ Len(data) <= ETH_ALEN
    /\ \A a \in drawn : /\ ret # "EINVAL" /\ IsPrefix(data, a)
                        /\ ret = "0" => data = a /\ macaddr = <<>>
=============================================================================
