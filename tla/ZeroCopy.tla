------------------------------ MODULE ZeroCopy ------------------------------
(***************************************************************************)
(* io/zerocopy: two servers that answer every connection with a file.  One  *)
(* copies it through a buffer with read and write, the other calls          *)
(* sendfile.  Both serve one client at a time and end the process when a    *)
(* call fails; both are ended by SIGPIPE when they write to a client that   *)
(* has gone.                                                                *)
(*                                                                          *)
(* Byte k of the file is the number k.                                      *)
(***************************************************************************)
EXTENDS Naturals, Sequences, FiniteSetsExt

CONSTANTS
    Clients,
    BUFFER_SIZE,
    MaxSize             \* bound on the size of the file

VARIABLES
    program,            \* which of the two servers runs
    server,             \* its control point
    backlog,            \* connections not accepted yet
    cur,                \* the connections that are being served: one, or none
    off,                \* the offset of the server's file descriptor
    n,                  \* what read returned, or st_size
    size,               \* the size of the file
    client,             \* the state of each client
    sent,               \* the bytes written to each client
    owed,               \* the size of the file when each was accepted
    spoilt              \* clients whose answer met a failing or short call

vars == <<program, server, backlog, cur, off, n, size, client, sent, owed,
          spoilt>>

Bytes(from, to) == [k \in 1..(to - from) |-> from + k]

Init ==
    /\ program \in {"read_write", "sendfile"}
    /\ server = "setup"
    /\ backlog = <<>> /\ cur = {}
    /\ off = 0 /\ n = 0
    /\ size = 1
    /\ client = [c \in Clients |-> "away"]
    /\ sent = [c \in Clients |-> <<>>]
    /\ owed = [c \in Clients |-> 0]
    /\ spoilt = {}

At(point) == server = point
Goto(point) == server' = point

(* err_quit, or the default action of SIGPIPE.                             *)
Quit == Goto("dead")

(* Where the for loop begins.                                              *)
LoopHead == IF program = "read_write" THEN "seek" ELSE "accept"

-----------------------------------------------------------------------------
(* The server                                                              *)

(* socket, setsockopt, bind and listen.                                    *)
Listen ==
    /\ At("setup")
    /\ Goto("open") \/ Quit
    /\ UNCHANGED <<program, backlog, cur, off, n, size, client, sent, owed, spoilt>>

Open ==
    /\ At("open")
    /\ Goto(LoopHead) \/ Quit
    /\ UNCHANGED <<program, backlog, cur, off, n, size, client, sent, owed, spoilt>>

(* lseek to the beginning: the descriptor is shared by all the answers.    *)
Seek_mutant_none ==
    /\ At("seek")
    /\ Goto("accept") \/ Quit
    /\ UNCHANGED <<program, backlog, cur, off, n, size, client, sent, owed, spoilt>>

Seek ==
    /\ At("seek")
    /\ (Goto("accept") /\ off' = 0) \/ (Quit /\ off' = off)
    /\ UNCHANGED <<program, backlog, cur, n, size, client, sent, owed, spoilt>>

Accept ==
    /\ At("accept") /\ backlog # <<>>
    /\ cur' = {Head(backlog)} /\ backlog' = Tail(backlog)
    /\ owed' = [owed EXCEPT ![Head(backlog)] = size]
    /\ Goto(IF program = "read_write" THEN "read" ELSE "fstat")
    /\ UNCHANGED <<program, off, n, size, client, sent, spoilt>>

(* The length accept is given is client_addr, which nobody has             *)
(* initialised: it may well fail, with somebody in the backlog or without. *)
AcceptFails ==
    /\ At("accept")
    /\ Quit
    /\ UNCHANGED <<program, backlog, cur, off, n, size, client, sent, owed, spoilt>>

(* The condition of the while loop: an error ends it as the end of the     *)
(* file does.                                                              *)
Read_mutant_zero ==
    /\ At("read")
    /\ \/ /\ n' = Min({BUFFER_SIZE, size - off}) /\ off' = off + n'
          /\ Goto("write")
          /\ UNCHANGED spoilt
       \/ Goto("close") /\ spoilt' = spoilt \cup cur /\ UNCHANGED <<n, off>>
    /\ UNCHANGED <<program, backlog, cur, size, client, sent, owed>>

Read ==
    /\ At("read")
    /\ \/ /\ n' = Min({BUFFER_SIZE, size - off}) /\ off' = off + n'
          /\ Goto(IF n' > 0 THEN "write" ELSE "close")
          /\ UNCHANGED spoilt
       \/ Goto("close") /\ spoilt' = spoilt \cup cur /\ UNCHANGED <<n, off>>
    /\ UNCHANGED <<program, backlog, cur, size, client, sent, owed>>

(* Bytes from..to-1 go into the connection of c, or only some of them.     *)
(* The call blocks on a c that is "stalled": it does not read and the      *)
(* buffer of its socket is full.  When c has gone it raises SIGPIPE,       *)
(* except for what is sent before the reset arrives.                       *)
Deliver(c, from, to, then) ==
    \/ /\ client[c] # "stalled"
       /\ \E k \in from..to :
             /\ sent' = [sent EXCEPT ![c] = @ \o Bytes(from, k)]
             /\ spoilt' = IF k < to THEN spoilt \cup {c} ELSE spoilt
       /\ Goto(then)
    \/ client[c] = "gone" /\ Quit /\ UNCHANGED <<sent, spoilt>>

(* write, its result ignored.                                              *)
Write ==
    /\ At("write")
    /\ \E c \in cur : Deliver(c, off - n, off, "read")
    /\ UNCHANGED <<program, backlog, cur, off, n, size, client, owed>>

(* fstat, its result ignored: after a failure st_size is whatever it was.  *)
Fstat ==
    /\ At("fstat")
    /\ \/ n' = size /\ UNCHANGED spoilt
       \/ n' \in 0..MaxSize /\ spoilt' = spoilt \cup cur
    /\ Goto("sendfile")
    /\ UNCHANGED <<program, backlog, cur, off, size, client, sent, owed>>

(* sendfile from an offset of its own; a negative result ends the server.  *)
Sendfile ==
    /\ At("sendfile")
    /\ \/ \E c \in cur : Deliver(c, 0, Min({n, size}), "close")
       \/ Quit /\ UNCHANGED <<sent, spoilt>>
    /\ UNCHANGED <<program, backlog, cur, off, n, size, client, owed>>

Close ==
    /\ At("close")
    /\ client' = [c \in Clients |-> IF c \in cur /\ client[c] # "gone"
                                       THEN "answered" ELSE client[c]]
    /\ cur' = {}
    /\ Goto(LoopHead)
    /\ UNCHANGED <<program, backlog, off, n, size, sent, owed, spoilt>>

Server ==
    \/ Listen \/ Open \/ Seek \/ Accept \/ Read \/ Write \/ Fstat \/ Sendfile
    \/ Close

-----------------------------------------------------------------------------
(* The world around it                                                     *)

Connect(c) ==
    /\ client[c] = "away" /\ server \notin {"setup", "dead"}
    /\ client' = [client EXCEPT ![c] = "connected"]
    /\ backlog' = Append(backlog, c)
    /\ UNCHANGED <<program, server, cur, off, n, size, sent, owed, spoilt>>

(* A client has stopped reading and its buffer has filled up, or it closes *)
(* its end.                                                                *)
Neglect(c) ==
    /\ client[c] \in {"connected", "stalled"}
    /\ client' \in {[client EXCEPT ![c] = "stalled"], [client EXCEPT ![c] = "gone"]}
    /\ UNCHANGED <<program, server, backlog, cur, off, n, size, sent, owed, spoilt>>

(* Somebody appends to the file.                                           *)
Grow ==
    /\ size < MaxSize
    /\ size' = size + 1
    /\ UNCHANGED <<program, server, backlog, cur, off, n, client, sent, owed, spoilt>>

Next == Server \/ AcceptFails \/ (\E c \in Clients : Connect(c) \/ Neglect(c)) \/ Grow

-----------------------------------------------------------------------------
(* Properties                                                              *)

(* No client ever gets a byte twice or out of order.                       *)
InOrder ==
    \A c \in Clients : \A i, j \in DOMAIN sent[c] : i < j => sent[c][i] < sent[c][j]

(* Whoever was served before, and however the file grew meanwhile, a       *)
(* client gets the file from its first byte without a gap, and once the    *)
(* connection is closed has all that was in it when it was accepted.  A    *)
(* short or failing call on its own connection can spoil that, but only by *)
(* leaving bytes out: what arrives is still in the order of the file.      *)
AnswerIntact ==
    /\ InOrder
    /\ \A c \in Clients \ spoilt :
          /\ sent[c] = Bytes(0, Len(sent[c]))
          /\ client[c] = "answered" => Len(sent[c]) >= owed[c]

(* A connection in the backlog is answered, unless the client itself goes, *)
(* the server ends, or it is held up by a client that does not read.       *)
Answered ==
    \A c \in Clients :
        client[c] = "connected" ~> \/ client[c] # "connected"
                                   \/ At("dead")
                                   \/ \E d \in cur : client[d] = "stalled"
=============================================================================
