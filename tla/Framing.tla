------------------------------- MODULE Framing -------------------------------
(***************************************************************************)
(* send_msg and recv_msg of task06-sockets/src/utils.cpp, byte by byte,    *)
(* over one direction of a TCP connection.                                 *)
(*                                                                         *)
(* A message is a length of HDR bytes and a payload of that length.  The   *)
(* connection keeps the order of the bytes and nothing else: how many of   *)
(* them a recv returns does not depend on how they were sent.  The bytes   *)
(* are numbered from 0; wr of them are sent, rd received.                  *)
(***************************************************************************)
EXTENDS Integers, Sequences

CONSTANTS
    HDR,           \* bytes of the length: 4 in the code
    Size,          \* Size[m]: bytes of the payload of message m
    MaxSize,       \* lengths that are read by mistake are bounded by this
    MayClose       \* the sender may go away at any time

ASSUME FramingAssumption ==
    /\ HDR \in Nat \ {0} /\ MaxSize \in Nat
    /\ Size \in Seq(1 .. MaxSize)
    /\ MayClose \in BOOLEAN

VARIABLES
    wr, rd,      \* bytes sent and received
    closed,      \* the sender has closed the connection
    rpc,         \* where recv_msg is; "failed" once it has returned 1
    size,        \* the length it has read
    cut,         \* a recv has returned a part of a length
    start,       \* the first byte of the payload
    got          \* the payloads it has returned: first byte and length

vars == <<wr, rd, closed, rpc, size, cut, start, got>>

Messages == DOMAIN Size

\* The first byte of message m, and the end of the last one.
Begin[m \in Nat] == IF m <= 1 THEN 0 ELSE Begin[m - 1] + HDR + Size[m - 1]
Total == Begin[Len(Size) + 1]

\* The ends of the pieces that send_msg passes to send.
PieceEnds == {Begin[m] + HDR : m \in Messages} \cup {Begin[m + 1] : m \in Messages}

Init ==
    /\ wr = 0 /\ rd = 0
    /\ closed = FALSE
    /\ rpc = "header"
    /\ size = 0
    /\ cut = FALSE
    /\ start = 0
    /\ got = <<>>

(* send puts out some of the bytes of the current piece; the loop goes on  *)
(* with the rest.                                                          *)
Send(n) ==
    /\ ~closed
    /\ wr + n <= Total
    /\ \A e \in PieceEnds : wr < e => wr + n <= e
    /\ wr' = wr + n
    /\ UNCHANGED <<rd, closed, rpc, size, cut, start, got>>

Close ==
    /\ MayClose /\ ~closed
    /\ closed' = TRUE
    /\ UNCHANGED <<wr, rd, rpc, size, cut, start, got>>

\* htonl(payload.size()) as it arrives.
LengthSent(m) == Size[m]

\* What ntohl makes of n bytes received from byte b on: the length that was
\* sent if they are all of a header, anything otherwise, since the rest of
\* the variable was never set.
ReadLengths(b, n) ==
    IF n = HDR /\ \E m \in Messages : Begin[m] = b
    THEN {LengthSent(m) : m \in {m \in Messages : Begin[m] = b}}
    ELSE 0 .. MaxSize

(* A single recv for the length, which may return a part of it.            *)
RecvHeader(n) ==
    /\ rpc = "header"
    /\ n <= HDR /\ n <= wr - rd
    /\ cut' = (cut \/ n < HDR)
    /\ rd' = rd + n
    /\ start' = rd + n
    /\ size' \in ReadLengths(rd, n)
    /\ rpc' = "payload"
    /\ UNCHANGED <<wr, closed, got>>

(* As RecvPayload, but it keeps a byte of the buffer for a terminator.     *)
RecvOneLess(n) ==
    /\ rpc = "payload"
    /\ n < start + size - rd /\ n <= wr - rd
    /\ rd' = rd + n
    /\ UNCHANGED <<wr, closed, rpc, size, cut, start, got>>

(* The loop over the payload.                                              *)
RecvPayload(n) ==
    /\ rpc = "payload"
    /\ n <= start + size - rd /\ n <= wr - rd
    /\ rd' = rd + n
    /\ UNCHANGED <<wr, closed, rpc, size, cut, start, got>>

(* recv returns 0, for the length or in the loop.                          *)
RecvEnd ==
    /\ closed /\ rd = wr
    /\ \/ rpc = "header"
       \/ rpc = "payload" /\ rd < start + size
    /\ rpc' = "failed"
    /\ UNCHANGED <<wr, rd, closed, size, cut, start, got>>

\* The bytes are the payload of a message; others may or may not parse.
IsPayload(b, n) == \E m \in Messages : b = Begin[m] + HDR /\ n = Size[m]

(* As ParseMessage, but after one recv instead of the loop.                *)
ParseAfterOneRecv ==
    /\ rpc = "payload"
    /\ rd > start
    /\ rpc' = "header"
    /\ got' = Append(got, <<start, rd - start>>)
    /\ UNCHANGED <<wr, rd, closed, size, cut, start>>

ParseMessage ==
    /\ rpc = "payload"
    /\ rd = start + size
    /\ rpc' = "header"
    /\ got' = Append(got, <<start, size>>)
    /\ UNCHANGED <<wr, rd, closed, size, cut, start>>

ParseError ==
    /\ rpc = "payload"
    /\ rd = start + size
    /\ ~IsPayload(start, size)
    /\ rpc' = "failed"
    /\ UNCHANGED <<wr, rd, closed, size, cut, start, got>>

Receive == (\E n \in 1 .. MaxSize : RecvPayload(n)) \/ (\E n \in 1 .. HDR : RecvHeader(n))
           \/ RecvEnd \/ ParseMessage \/ ParseError

Next == (\E n \in 1 .. HDR + MaxSize : Send(n)) \/ Close \/ Receive

Spec == Init /\ [][Next]_vars

(* The sender goes on sending and the receiver receiving.                  *)
FairSpec == Spec /\ WF_vars(\E n \in 1 .. HDR + MaxSize : Send(n)) /\ WF_vars(Receive)
-----------------------------------------------------------------------------
(* As long as every length has arrived whole, the n-th payload recv_msg     *)
(* returns is the n-th payload sent, all of it and nothing else, however    *)
(* the payloads were cut on the way and wherever the sender went away       *)
(* (utils.h: "Receive one complete message."); and recv never writes beyond *)
(* the buffer of the length it was told.                                    *)
MessagesIntact ==
    /\ rpc = "payload" => rd <= start + size
    /\ ~cut => \A k \in DOMAIN got : k \in Messages /\ got[k] = <<Begin[k] + HDR, Size[k]>>

(* If the sender stays and every length arrives whole, recv_msg returns     *)
(* every message.                                                           *)
EveryMessageArrives == <>(Len(got) = Len(Size) \/ closed \/ cut)
=============================================================================
