------------------------------ MODULE Minidump ------------------------------
(***************************************************************************)
(* network/tcpdump/minidump.cpp: reads frames from a packet socket bound to *)
(* no interface and prints a line for every TCP segment from or to port     *)
(* 8080.  It finds the headers at fixed offsets and takes their lengths     *)
(* from the size of the frame.                                              *)
(***************************************************************************)
EXTENDS Naturals, FiniteSetsExt

CONSTANTS
    BUF,                \* sizeof(buf), 2048 in the source
    WORD,               \* the modulus of size_t, 2^64 in the source
    Payloads            \* lengths of what follows the TCP or UDP header

sizeofEthernetHeader == 14
sizeofIPv4Header == 20
MinFrame == 60          \* a network card pads what it sends and receives

(* A frame: its EtherType, or none at all if it comes from a device        *)
(* without Ethernet headers (tun); the words of its IP header; what        *)
(* follows, and if it is the first fragment; whether a port is 8080; the   *)
(* bytes of the header of the segment; those after it; if it was padded.   *)
Frames ==
    [ether : {"IP", "other", "none"}, ihl : {5, 6}, ip_p : {"TCP", "UDP"},
     first : BOOLEAN, port8080 : BOOLEAN, th_len : {20, 32},
     payload : Payloads, card : BOOLEAN]

VARIABLES
    dump,               \* control point of main
    frame,              \* the frame in buf
    line                \* the length in the line it gave, if it gave one

vars == <<dump, frame, line>>

NoFrame == CHOOSE f \in Frames : f.ether = "other"

Init == dump = "socket" /\ frame = NoFrame /\ line = {}

Length(f) ==
    (IF f.ether = "none" THEN 0 ELSE sizeofEthernetHeader) + 4 * f.ihl
        + (IF f.first /\ f.ip_p = "TCP" THEN f.th_len ELSE 8) + f.payload

OnWire(f) == IF f.card THEN Max({MinFrame, Length(f)}) ELSE Length(f)

(* What recvfrom returns.                                                  *)
received(f) == Min({BUF, OnWire(f)})

(* The three headers as the program sees them.  The Ethernet header is     *)
(* there or not; the TCP header is at its fixed place if the IP header has *)
(* no options and is not that of a later fragment.  Otherwise the bytes    *)
(* are others, or were never written: they can say anything.               *)
Headers(f) ==
    LET anything == [port8080 : BOOLEAN, th_len : {4 * k : k \in 0..15}] IN
    IF f.ether = "none"
       THEN [ether : {"IP", "other"}, ip_p : {"TCP", "UDP"}, th : anything]
       ELSE [ether : {f.ether}, ip_p : {f.ip_p},
             th : IF f.ihl = 5 /\ f.first /\ f.ip_p = "TCP"
                     THEN {[port8080 |-> f.port8080, th_len |-> f.th_len]}
                     ELSE anything]

Socket ==
    /\ dump = "socket"
    /\ dump' \in {"recv", "exit"}
    /\ UNCHANGED <<frame, line>>

(* recvfrom; after an error it is called again.                            *)
Recv ==
    /\ dump = "recv"
    /\ (dump' = "decode" /\ frame' \in Frames) \/ UNCHANGED <<dump, frame>>
    /\ UNCHANGED line

(* The nested ifs and the line; the length is computed in size_t.          *)
Decode_mutant_words ==
    /\ dump = "decode"
    /\ \E h \in Headers(frame) :
          line' = IF h.ether = "IP" /\ h.ip_p = "TCP" /\ h.th.port8080
                     THEN {(WORD + received(frame) - sizeofEthernetHeader
                               - sizeofIPv4Header - h.th.th_len \div 4) % WORD}
                     ELSE {}
    /\ dump' = "turn"
    /\ UNCHANGED frame

Decode ==
    /\ dump = "decode"
    /\ \E h \in Headers(frame) :
          line' = IF h.ether = "IP" /\ h.ip_p = "TCP" /\ h.th.port8080
                     THEN {(WORD + received(frame) - sizeofEthernetHeader
                               - sizeofIPv4Header - h.th.th_len) % WORD}
                     ELSE {}
    /\ dump' = "turn"
    /\ UNCHANGED frame

(* buf is local to the turn.                                               *)
Turn ==
    /\ dump = "turn"
    /\ dump' = "recv" /\ frame' = NoFrame /\ line' = {}

Next == Socket \/ Recv \/ Decode \/ Turn

-----------------------------------------------------------------------------
(* The headers are where the program looks for them.                       *)
InPlace(f) ==
    /\ f.ether # "none"
    /\ f.ether = "IP" /\ f.ip_p = "TCP" => f.ihl = 5 /\ f.first

(* Of such a frame there is a line exactly if it is a segment of port      *)
(* 8080.  The length in it never wraps round and never exceeds the buffer; *)
(* it is that of the payload, unless the frame was padded (then it is not  *)
(* less) or cut off.  A frame of another protocol never gives a line.      *)
LineExact ==
    dump = "turn" /\ InPlace(frame) =>
        IF frame.ether = "IP" /\ frame.ip_p = "TCP" /\ frame.port8080
           THEN \E length \in 0..BUF :
                   /\ line = {length}
                   /\ Length(frame) <= BUF => length >= frame.payload
                   /\ received(frame) = Length(frame) => length = frame.payload
           ELSE line = {}
=============================================================================
