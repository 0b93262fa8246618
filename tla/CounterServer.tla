---------------------------- MODULE CounterServer ----------------------------
(***************************************************************************)
(* The counter service of task06-sockets: client threads (client.cpp), the *)
(* main thread of the server that accepts connections, and its worker      *)
(* threads (server.cpp).                                                   *)
(*                                                                         *)
(* A message is sent in two pieces, its length and its payload (send_msg), *)
(* and received in two (recv_msg); a connection delivers the pieces in     *)
(* order and without loss.  Framing.tla looks into the pieces.             *)
(***************************************************************************)
EXTENDS Integers, Sequences, FiniteSets, FiniteSetsExt

CONSTANTS
    Clients,       \* the client threads, each with a connection of its own
    ThreadCounts,  \* the numbers of worker threads the server may be started with
    numMessages,   \* operations a client sends before TERMINATION
    add, sub,      \* the arguments of its ADD and SUB operations
    INT64,         \* number of values of the counter
    INT_MAX,       \* largest value of connections
    MayCrash,      \* clients that may be killed
    NONE           \* no connection, no answer

ASSUME ServerAssumption ==
    ThreadCounts \subseteq Nat \ {0} /\ INT64 \in Nat \ {0} /\ INT_MAX \in Nat
ASSUME ClientAssumption ==
    /\ numMessages \in Nat /\ add \in Int /\ sub \in Int /\ MayCrash \subseteq Clients
    /\ IsFiniteSet(Clients) /\ NONE \notin Clients

VARIABLES
    number,       \* the counter
    server,       \* "running" or, after SIGPIPE, "killed"
    backlog,      \* connections waiting to be accepted
    acceptfd,     \* the connection main has accepted and not yet assigned
    connections,  \* number of connections assigned
    mtx,          \* worker mutexes that are held
    pending_clients, active_clients,   \* per worker; active ones have revents
    wpc, i,       \* per worker: place, loop index (from 1; 0 ends the loop)
    msg, ctr,     \* per worker: the message received, the counter to send
    cpc, sent,    \* per client: place, number of messages sent
    to_server, to_client,   \* pieces under way on each connection
    closed,       \* connections the server has closed
    reset,        \* connections on which the server has sent to a dead client
    reply         \* the counter each client has received

queues  == <<backlog, acceptfd, connections, mtx, pending_clients>>
workers == <<active_clients, wpc, i, msg, ctr>>
clients == <<cpc, sent, reply>>
wire    == <<to_server, to_client, closed, reset>>
vars    == <<number, server, queues, workers, clients, wire>>

Workers    == DOMAIN wpc
numThreads == Cardinality(Workers)
LastMsg == numMessages + 1

\* The j-th message of a client, and what it does to the counter.
Op(j) == IF j = LastMsg THEN "TERMINATION" ELSE IF j % 2 = 1 THEN "ADD" ELSE "SUB"
SubAdds(j) == IF Op(j) = "ADD" THEN add ELSE IF Op(j) = "SUB" THEN sub ELSE 0
Effect(j) == IF Op(j) = "ADD" THEN add ELSE IF Op(j) = "SUB" THEN -sub ELSE 0

Gone(c) == cpc[c] \in {"done", "crashed"}          \* its socket is closed
Readable(c) == to_server[c] # <<>> \/ Gone(c)      \* POLLIN: data or end of file
-----------------------------------------------------------------------------
Init ==
    /\ \E n \in ThreadCounts : wpc = [w \in 0 .. n - 1 |-> "move"]
    /\ number = 0
    /\ server = "running"
    /\ backlog = <<>>
    /\ acceptfd = NONE
    /\ connections = 0
    /\ mtx = {}
    /\ pending_clients = [w \in Workers |-> <<>>]
    /\ active_clients = [w \in Workers |-> <<>>]
    /\ i = [w \in Workers |-> 0]
    /\ msg = [w \in Workers |-> 0]
    /\ ctr = [w \in Workers |-> 0]
    /\ cpc = [c \in Clients |-> "connect"]
    /\ sent = [c \in Clients |-> 0]
    /\ to_server = [c \in Clients |-> <<>>]
    /\ to_client = [c \in Clients |-> <<>>]
    /\ closed = {}
    /\ reset = {}
    /\ reply = [c \in Clients |-> NONE]
-----------------------------------------------------------------------------
(***************************************************************************)
(* client_kernel                                                           *)
(***************************************************************************)
CGoto(c, at) == cpc' = [cpc EXCEPT ![c] = at]

Connect(c) ==
    /\ cpc[c] = "connect"
    /\ server = "running"
    /\ backlog' = Append(backlog, c)
    /\ CGoto(c, "header")
    /\ UNCHANGED <<number, server, acceptfd, connections, mtx, pending_clients, workers, sent, reply, wire>>

SendHeader(c) ==
    /\ cpc[c] = "header"
    /\ to_server' = [to_server EXCEPT ![c] = Append(@, <<"size", sent[c] + 1>>)]
    /\ CGoto(c, "payload")
    /\ UNCHANGED <<number, server, queues, workers, sent, reply, to_client, closed, reset>>

SendPayload(c) ==
    /\ cpc[c] = "payload"
    /\ to_server' = [to_server EXCEPT ![c] = Append(@, <<"payload", sent[c] + 1>>)]
    /\ sent' = [sent EXCEPT ![c] = @ + 1]
    /\ CGoto(c, IF sent[c] + 1 = LastMsg THEN "receive" ELSE "header")
    /\ UNCHANGED <<number, server, queues, workers, reply, to_client, closed, reset>>

(* recv_msg of the client: the counter, once all of it is there.           *)
ReceiveCounter(c) ==
    /\ cpc[c] = "receive"
    /\ Len(to_client[c]) = 2
    /\ reply' = [reply EXCEPT ![c] = to_client[c][2]]
    /\ CGoto(c, "done")
    /\ UNCHANGED <<number, server, queues, workers, sent, wire>>

(* Once the server is gone the client's calls fail, or SIGPIPE ends the    *)
(* client process; either way the socket is closed.                        *)
ClientFails(c) ==
    /\ server = "killed"
    /\ ~Gone(c)
    /\ CGoto(c, "done")
    /\ UNCHANGED <<number, server, queues, workers, sent, reply, wire>>

(* The client process is killed; its socket is closed by the kernel.       *)
Crash(c) ==
    /\ c \in MayCrash
    /\ cpc[c] \in {"header", "payload", "receive"}
    /\ CGoto(c, "crashed")
    /\ UNCHANGED <<number, server, queues, workers, sent, reply, wire>>
-----------------------------------------------------------------------------
(***************************************************************************)
(* main: accept a connection, give it to the next worker                   *)
(***************************************************************************)
AcceptConnection ==
    /\ server = "running"
    /\ acceptfd = NONE
    /\ backlog # <<>>
    /\ acceptfd' = Head(backlog)
    /\ backlog' = Tail(backlog)
    /\ UNCHANGED <<number, server, connections, mtx, pending_clients, workers, clients, wire>>

\* connections++ % numThreads: the sum wraps, the remainder has the sign of
\* the dividend.
Tid == IF connections >= 0 THEN connections % numThreads
       ELSE -((-connections) % numThreads)
Increment(n) == IF n = INT_MAX THEN -INT_MAX - 1 ELSE n + 1

(* As Assign, without the mutex.                                           *)
AssignUnlocked ==
    /\ server = "running"
    /\ acceptfd # NONE
    /\ pending_clients' = [pending_clients EXCEPT ![Tid] = Append(@, acceptfd)]
    /\ connections' = Increment(connections)
    /\ acceptfd' = NONE
    /\ UNCHANGED <<number, server, backlog, mtx, workers, clients, wire>>

(* push_back under the worker's mutex; a negative Tid is no worker.        *)
Assign ==
    /\ server = "running"
    /\ acceptfd # NONE
    /\ Tid \notin mtx
    /\ pending_clients' = [pending_clients EXCEPT ![Tid] = Append(@, acceptfd)]
    /\ connections' = Increment(connections)
    /\ acceptfd' = NONE
    /\ UNCHANGED <<number, server, backlog, mtx, workers, clients, wire>>
-----------------------------------------------------------------------------
(***************************************************************************)
(* server_kernel and handle_client                                         *)
(***************************************************************************)
At(w, at)    == server = "running" /\ wpc[w] = at
WGoto(w, at) == wpc' = [wpc EXCEPT ![w] = at]
Current(w)   == active_clients[w][i[w]].fd

(* Under the worker's mutex: copy the pending clients, then clear them.    *)
MoveClients(w) ==
    /\ At(w, "move")
    /\ w \notin mtx
    /\ mtx' = mtx \cup {w}
    /\ active_clients' = [active_clients EXCEPT ![w] = @ \o
           [k \in 1 .. Len(pending_clients[w]) |->
               [fd |-> pending_clients[w][k], revents |-> FALSE]]]
    /\ WGoto(w, "clear")
    /\ UNCHANGED <<number, server, backlog, acceptfd, connections, pending_clients, i, msg, ctr, clients, wire>>

ClearPending(w) ==
    /\ At(w, "clear")
    /\ pending_clients' = [pending_clients EXCEPT ![w] = <<>>]
    /\ mtx' = mtx \ {w}
    /\ WGoto(w, "poll")
    /\ UNCHANGED <<number, server, backlog, acceptfd, connections, active_clients, i, msg, ctr, clients, wire>>

(* poll marks the readable clients; it returns 0 after 100 ms without one. *)
Polled(w) == [k \in DOMAIN active_clients[w] |->
                 [fd |-> active_clients[w][k].fd, revents |-> Readable(active_clients[w][k].fd)]]

Poll(w) ==
    /\ At(w, "poll")
    /\ active_clients' = [active_clients EXCEPT ![w] = Polled(w)]
    /\ \/ /\ \E k \in DOMAIN Polled(w) : Polled(w)[k].revents
          /\ i' = [i EXCEPT ![w] = Len(active_clients[w])]
          /\ WGoto(w, "loop")
       \/ /\ \A k \in DOMAIN Polled(w) : ~Polled(w)[k].revents
          /\ WGoto(w, "move")
          /\ UNCHANGED i
    /\ UNCHANGED <<number, server, queues, msg, ctr, clients, wire>>

(* The loop runs from the last active client to the first and skips those  *)
(* poll did not mark.                                                      *)
Loop(w) ==
    /\ At(w, "loop")
    /\ \/ i[w] = 0 /\ WGoto(w, "move") /\ UNCHANGED i
       \/ /\ i[w] > 0 /\ ~active_clients[w][i[w]].revents
          /\ i' = [i EXCEPT ![w] = @ - 1]
          /\ UNCHANGED wpc
       \/ i[w] > 0 /\ active_clients[w][i[w]].revents /\ WGoto(w, "size") /\ UNCHANGED i
    /\ UNCHANGED <<number, server, queues, active_clients, msg, ctr, clients, wire>>

EndOfFile(w) == to_server[Current(w)] = <<>> /\ Gone(Current(w))
Consume(w)   == to_server' = [to_server EXCEPT ![Current(w)] = Tail(@)]

(* recv_msg reads the length; it waits if there is nothing to read.        *)
RecvSize(w) ==
    /\ At(w, "size")
    /\ \/ to_server[Current(w)] # <<>> /\ Consume(w) /\ WGoto(w, "payload")
       \/ EndOfFile(w) /\ WGoto(w, "close") /\ UNCHANGED to_server
    /\ UNCHANGED <<number, server, queues, active_clients, i, msg, ctr, clients, to_client, closed, reset>>

(* recv_msg reads the payload, and waits for it even if the client is slow. *)
RecvPayload(w) ==
    /\ At(w, "payload")
    /\ \/ /\ to_server[Current(w)] # <<>>
          /\ Consume(w)
          /\ msg' = [msg EXCEPT ![w] = Head(to_server[Current(w)])[2]]
          /\ WGoto(w, "handle")
       \/ EndOfFile(w) /\ WGoto(w, "close") /\ UNCHANGED <<msg, to_server>>
    /\ UNCHANGED <<number, server, queues, active_clients, i, ctr, clients, to_client, closed, reset>>

(* number.fetch_add, number.fetch_sub: the counter wraps.                  *)
FetchAdd(n, d)  == (n + d) % INT64

HandleAddSub(w) ==
    /\ At(w, "handle")
    /\ Op(msg[w]) \in {"ADD", "SUB"}
    /\ number' = FetchAdd(number, Effect(msg[w]))
    /\ msg' = [msg EXCEPT ![w] = 0]
    /\ i' = [i EXCEPT ![w] = @ - 1]
    /\ WGoto(w, "loop")
    /\ UNCHANGED <<server, queues, active_clients, ctr, clients, wire>>

(* As HandleTermination, but the connection is closed without an answer.   *)
TerminationUnanswered(w) ==
    /\ At(w, "handle")
    /\ Op(msg[w]) = "TERMINATION"
    /\ ctr' = [ctr EXCEPT ![w] = number]
    /\ msg' = [msg EXCEPT ![w] = 0]
    /\ WGoto(w, "close")
    /\ UNCHANGED <<number, server, queues, active_clients, i, clients, wire>>

(* As HandleTermination, but the answer is not the shared counter.         *)
TerminationNoLoad(w) ==
    /\ At(w, "handle")
    /\ Op(msg[w]) = "TERMINATION"
    /\ msg' = [msg EXCEPT ![w] = 0]
    /\ WGoto(w, "send_size")
    /\ UNCHANGED <<number, server, queues, active_clients, i, ctr, clients, wire>>

(* number.load for a TERMINATION.                                          *)
HandleTermination(w) ==
    /\ At(w, "handle")
    /\ Op(msg[w]) = "TERMINATION"
    /\ ctr' = [ctr EXCEPT ![w] = number]
    /\ msg' = [msg EXCEPT ![w] = 0]
    /\ WGoto(w, "send_size")
    /\ UNCHANGED <<number, server, queues, active_clients, i, clients, wire>>

(* send_msg(OPERATION_COUNTER): the first send to a dead client succeeds   *)
(* and is answered by a reset.                                             *)
SendSize(w) ==
    /\ At(w, "send_size")
    /\ to_client' = [to_client EXCEPT ![Current(w)] = Append(@, "size")]
    /\ reset' = reset \cup {c \in {Current(w)} : Gone(c)}
    /\ WGoto(w, "send_payload")
    /\ UNCHANGED <<number, server, queues, active_clients, i, msg, ctr, clients, to_server, closed>>

SendCounter(w) ==
    /\ At(w, "send_payload")
    /\ to_client' = [to_client EXCEPT ![Current(w)] = Append(@, ctr[w])]
    /\ WGoto(w, "close")
    /\ UNCHANGED <<number, server, queues, active_clients, i, msg, ctr, clients, to_server, closed, reset>>

(* A send after the reset has come in raises SIGPIPE, which is not         *)
(* handled: the server process ends.                                       *)
SigPipe(w) ==
    /\ At(w, "send_payload")
    /\ Current(w) \in reset
    /\ server' = "killed"
    /\ UNCHANGED <<number, queues, workers, clients, wire>>

\* clients[i] = clients.back(); clients.pop_back()
SwapRemove(s, k) == SubSeq([s EXCEPT ![k] = s[Len(s)]], 1, Len(s) - 1)

(* As Close, but the element moved into the gap is looked at again.        *)
CloseRevisits(w) ==
    /\ At(w, "close")
    /\ closed' = closed \cup {Current(w)}
    /\ active_clients' = [active_clients EXCEPT ![w] = SwapRemove(@, i[w])]
    /\ i' = [i EXCEPT ![w] = IF @ = Len(active_clients[w]) THEN @ - 1 ELSE @]
    /\ ctr' = [ctr EXCEPT ![w] = 0]
    /\ WGoto(w, "loop")
    /\ UNCHANGED <<number, server, queues, msg, clients, to_server, to_client, reset>>

(* handle_client returned true: close the connection, take it out of the   *)
(* active clients, go on with the next lower index.                        *)
Close(w) ==
    /\ At(w, "close")
    /\ closed' = closed \cup {Current(w)}
    /\ active_clients' = [active_clients EXCEPT ![w] = SwapRemove(@, i[w])]
    /\ i' = [i EXCEPT ![w] = @ - 1]
    /\ ctr' = [ctr EXCEPT ![w] = 0]
    /\ WGoto(w, "loop")
    /\ UNCHANGED <<number, server, queues, msg, clients, to_server, to_client, reset>>
-----------------------------------------------------------------------------
Client(c) ==
    \/ Connect(c)
    \/ SendHeader(c)
    \/ SendPayload(c)
    \/ ReceiveCounter(c)
    \/ ClientFails(c)

Main == AcceptConnection \/ Assign

Worker(w) == w \in Workers /\
    \/ MoveClients(w)
    \/ ClearPending(w)
    \/ Poll(w)
    \/ Loop(w)
    \/ RecvSize(w)
    \/ RecvPayload(w)
    \/ HandleAddSub(w)
    \/ HandleTermination(w)
    \/ SendSize(w)
    \/ SendCounter(w)
    \/ SigPipe(w)
    \/ Close(w)

(* Nothing moves once the server is killed and every client is gone.       *)
AllGone ==
    /\ server = "killed"
    /\ \A c \in Clients : Gone(c)
    /\ UNCHANGED vars

Next ==
    \/ \E c \in Clients : Client(c) \/ Crash(c)
    \/ Main
    \/ \E w \in Workers : Worker(w)
    \/ AllGone

Spec == Init /\ [][Next]_vars

(* Every thread is scheduled; clients are not required to crash.  Main gets *)
(* a worker's mutex if it is free again and again: a worker leaves it free  *)
(* while it polls (up to 100 ms) and serves clients.                        *)
FairSpec ==
    /\ Spec
    /\ \A c \in Clients : WF_vars(Client(c))
    /\ SF_vars(Main)
    /\ \A w \in UNION {0 .. n - 1 : n \in ThreadCounts} : WF_vars(Worker(w))
-----------------------------------------------------------------------------
(***************************************************************************)
(* Properties                                                              *)
(***************************************************************************)
\* The places of the server that hold connection c.  Between the copy and the
\* clear of MoveClients the pending entry is the copied one.
Holders(c) ==
    {<<"main", 1>> : k \in {acceptfd} \cap {c}}
    \cup {<<"backlog", k>> : k \in {k \in DOMAIN backlog : backlog[k] = c}}
    \cup (UNION {{<<"pending", w, k>> : k \in {k \in DOMAIN pending_clients[w] :
                     pending_clients[w][k] = c /\ wpc[w] # "clear"}} : w \in Workers})
    \cup (UNION {{<<"active", w, k>> : k \in {k \in DOMAIN active_clients[w] :
                     active_clients[w][k].fd = c}} : w \in Workers})

(* A connection is held in exactly one place, from the listen queue through *)
(* the hand-over from main to a worker to the active set that is edited     *)
(* while it is traversed, until it is closed, and in none afterwards: no    *)
(* client is forgotten, served twice, or polled after its close.            *)
ServedByOne ==
    server = "running" =>
        \A c \in Clients : cpc[c] # "connect" =>
            Cardinality(Holders(c)) = (IF c \in closed THEN 0 ELSE 1)

(* When server_kernel enters recv_msg there is something to read: revents   *)
(* belongs to the client at this index although close moved entries about,  *)
(* and no client is read twice for one poll.  A worker can therefore be     *)
(* held up only inside a message, never by an idle client.                  *)
NoRecvOnIdleClient ==
    \A w \in Workers : wpc[w] = "size" => Readable(Current(w))

\* Messages of c the counter has seen: sent, neither under way nor in a
\* worker's hands.
Handled(c) ==
    sent[c]
    - Cardinality({k \in DOMAIN to_server[c] : to_server[c][k][1] = "payload"})
    - Cardinality({w \in Workers : wpc[w] = "handle" /\ Current(w) = c})

\* What the first n messages of a client add up to.
Total(n) == LET ops == IF n = LastMsg THEN numMessages ELSE n
            IN  ((ops + 1) \div 2) * add - (ops \div 2) * sub

SumOfTotals(n) == MapThenSumSet(LAMBDA c : Total(n[c]), Clients)

(* The counter is the sum, modulo its width, of exactly the messages that   *)
(* have been handled, whichever workers handle them and whoever crashes:    *)
(* none is lost, applied twice or applied to a value that is out of date.   *)
CounterIsSum == number = SumOfTotals([c \in Clients |-> Handled(c)]) % INT64

(* The COUNTER answer to a client includes all of its own operations and,   *)
(* of every other client, a prefix of the operations it has sent; and when  *)
(* every client has its answer, one of the answers is the sum of all        *)
(* operations of all clients: the client that terminates last sees all.     *)
AnswersAddUp ==
    /\ \A c \in Clients : reply[c] # NONE =>
          \E n \in [Clients -> 0 .. numMessages] :
              /\ n[c] = numMessages
              /\ \A d \in Clients : n[d] <= sent[d]
              /\ reply[c] = SumOfTotals(n) % INT64
    /\ (\A c \in Clients : reply[c] # NONE) =>
          \E c \in Clients : reply[c] = SumOfTotals([d \in Clients |-> numMessages]) % INT64

(* Every client is answered unless it is killed itself, or the server is by *)
(* the SIGPIPE of an answer to a killed client: a client that dies in the   *)
(* middle of a message holds up no other.                                   *)
EveryClientAnswered ==
    \A c \in Clients : <>(reply[c] # NONE \/ cpc[c] = "crashed" \/ server = "killed")
=============================================================================
