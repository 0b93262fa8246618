------------------------ MODULE CounterServerProofs ------------------------
(***************************************************************************)
(* That the server of task06 keeps every connection in one place and reads *)
(* only from clients with something to read, and that its counter and its  *)
(* answers are the sums of what the clients have sent, for any number of   *)
(* clients and worker threads.                                             *)
(***************************************************************************)
EXTENDS CounterServer, FiniteSetTheorems, WellFoundedInduction, TLAPS

-----------------------------------------------------------------------------
(* The state.                                                               *)

Entry  == [fd : Clients, revents : BOOLEAN]
Pieces == {"size", "payload"} \X Nat

(* Where a worker is with a client at hand.                                 *)
Serving == {"size", "payload", "handle", "send_size", "send_payload", "close"}

TypeOK ==
    /\ \E n \in ThreadCounts : wpc \in [0 .. n - 1 -> Serving \cup {"move", "clear", "poll", "loop"}]
    /\ acceptfd \in Clients \cup {NONE} /\ backlog \in Seq(Clients)
    /\ connections \in Int
    /\ pending_clients \in [Workers -> Seq(Clients)]
    /\ active_clients \in [Workers -> Seq(Entry)]
    /\ i \in [Workers -> Nat]
    /\ cpc \in [Clients -> {"connect", "header", "payload", "receive", "done", "crashed"}]
    /\ sent \in [Clients -> Nat]
    /\ to_server \in [Clients -> Seq(Pieces)]

(* A worker holds its mutex between the copy and the clear only.            *)
MutexOK == mtx = {w \in Workers : wpc[w] = "clear"}

(* The loop index is that of an active client while one is served.          *)
IndexOK ==
    \A w \in Workers :
        /\ wpc[w] \in Serving => i[w] \in 1 .. Len(active_clients[w])
        /\ wpc[w] = "loop" => i[w] \in 0 .. Len(active_clients[w])

(* Client c is at place k of a queue of the server: the variable of main,   *)
(* the listen queue, or the pending or active clients of worker w.          *)
InMain(c)          == acceptfd = c
InBacklog(k, c)    == k \in DOMAIN backlog /\ backlog[k] = c
InPending(w, k, c) == /\ w \in Workers /\ wpc[w] # "clear"
                      /\ k \in DOMAIN pending_clients[w] /\ pending_clients[w][k] = c
InActive(w, k, c)  == /\ w \in Workers
                      /\ k \in DOMAIN active_clients[w] /\ active_clients[w][k].fd = c

Holds(s, w, k, c) ==
    \/ s = "main" /\ w = 0 /\ k = 0 /\ InMain(c)
    \/ s = "backlog" /\ w = 0 /\ InBacklog(k, c)
    \/ s = "pending" /\ InPending(w, k, c)
    \/ s = "active" /\ InActive(w, k, c)

(* No client is in two places, and one that is has connected and is open.   *)
OnePlace ==
    \A c \in Clients : \A s1, s2, w1, w2, k1, k2 :
        Holds(s1, w1, k1, c) /\ Holds(s2, w2, k2, c) => s1 = s2 /\ w1 = w2 /\ k1 = k2
HeldAreOpen ==
    /\ \A c \in Clients : \A s, w, k : Holds(s, w, k, c) => cpc[c] # "connect" /\ c \notin closed
    /\ closed \subseteq {c \in Clients : cpc[c] # "connect"}

(* What poll has marked and the loop has still to come to is readable.      *)
Ahead(w) == IF wpc[w] \in {"loop", "size"} THEN 1 .. i[w]
            ELSE IF wpc[w] \in Serving THEN 1 .. i[w] - 1 ELSE {}
Marked(w) ==
    /\ \A k \in Ahead(w) : active_clients[w][k].revents => Readable(active_clients[w][k].fd)
    /\ wpc[w] = "size" => active_clients[w][i[w]].revents
MarkedReadable == \A w \in Workers : Marked(w)

IInv == TypeOK /\ MutexOK /\ IndexOK /\ OnePlace /\ HeldAreOpen /\ MarkedReadable

(* No client that has connected is lost, and connections counts those that  *)
(* main has given away, as long as the server runs.                         *)
OpenAreHeld ==
    \A c \in Clients : cpc[c] # "connect" /\ c \notin closed => \E s, w, k : Holds(s, w, k, c)
Assigned == {c \in Clients : /\ cpc[c] # "connect" /\ acceptfd # c
                             /\ \A k \in DOMAIN backlog : backlog[k] # c}
Counted == connections = Cardinality(Assigned)

CInv == server = "running" => OpenAreHeld /\ Counted
-----------------------------------------------------------------------------
(* What the type invariant says in terms of Workers.                        *)
LEMMA Types ==
  ASSUME TypeOK
  PROVE  /\ wpc \in [Workers -> Serving \cup {"move", "clear", "poll", "loop"}]
         /\ \E n \in ThreadCounts : Workers = 0 .. n - 1
BY DEF TypeOK, Workers

(* A list without the element at k, its last element in its place.          *)
LEMMA SwapRemoveIs ==
  ASSUME NEW s \in Seq(Entry), NEW k \in 1 .. Len(s)
  PROVE  /\ SwapRemove(s, k) \in Seq(Entry)
         /\ Len(SwapRemove(s, k)) = Len(s) - 1
         /\ DOMAIN SwapRemove(s, k) = 1 .. Len(s) - 1
         /\ \A j \in 1 .. Len(s) - 1 : SwapRemove(s, k)[j] = IF j = k THEN s[Len(s)] ELSE s[j]
<1> DEFINE t == [s EXCEPT ![k] = s[Len(s)]]
<1>1. Len(s) \in Nat /\ Len(s) >= 1 /\ s[Len(s)] \in Entry
  OBVIOUS
<1>2. t \in Seq(Entry) /\ Len(t) = Len(s)
  BY <1>1
<1>3. \A j \in 1 .. Len(s) : t[j] = IF j = k THEN s[Len(s)] ELSE s[j]
  BY <1>1
<1> HIDE DEF t
<1>4. SubSeq(t, 1, Len(s) - 1) \in Seq(Entry) /\ Len(SubSeq(t, 1, Len(s) - 1)) = Len(s) - 1
  BY <1>1, <1>2
<1>5. \A j \in 1 .. Len(s) - 1 : SubSeq(t, 1, Len(s) - 1)[j] = t[j]
  BY <1>1, <1>2
<1>6. DOMAIN SubSeq(t, 1, Len(s) - 1) = 1 .. Len(s) - 1
  BY <1>4
<1> QED BY <1>1, <1>3, <1>4, <1>5, <1>6 DEF SwapRemove, t

(* The active clients of a worker with the pending ones behind them.        *)
LEMMA MovedIs ==
  ASSUME NEW s \in Seq(Entry), NEW p \in Seq(Clients)
  PROVE  LET m == s \o [k \in 1 .. Len(p) |-> [fd |-> p[k], revents |-> FALSE]]
         IN  /\ m \in Seq(Entry)
             /\ Len(m) = Len(s) + Len(p)
             /\ DOMAIN m = 1 .. Len(s) + Len(p)
             /\ \A k \in 1 .. Len(s) : m[k] = s[k]
             /\ \A k \in 1 .. Len(p) : m[Len(s) + k].fd = p[k]
<1> DEFINE q == [k \in 1 .. Len(p) |-> [fd |-> p[k], revents |-> FALSE]]
           m == s \o q
<1>1. \A k \in 1 .. Len(p) : q[k] \in Entry /\ q[k].fd = p[k]
  BY DEF Entry
<1>2. q \in Seq(Entry) /\ Len(q) = Len(p)
  BY <1>1
<1> HIDE DEF q
<1>3. m \in Seq(Entry) /\ Len(m) = Len(s) + Len(p)
  BY <1>2
<1>4. DOMAIN m = 1 .. Len(s) + Len(p)
  BY <1>3
<1>5. \A k \in 1 .. Len(s) : m[k] = s[k]
  BY <1>2
<1>6. \A k \in 1 .. Len(p) : m[Len(s) + k] = q[k]
  BY <1>2
<1> QED BY <1>1, <1>3, <1>4, <1>5, <1>6 DEF q

(* poll changes the marks and nothing else.                                 *)
LEMMA PolledIs ==
  ASSUME TypeOK, NEW w \in Workers
  PROVE  /\ Polled(w) \in Seq(Entry)
         /\ Len(Polled(w)) = Len(active_clients[w])
         /\ DOMAIN Polled(w) = DOMAIN active_clients[w]
         /\ \A k \in DOMAIN active_clients[w] :
               /\ Polled(w)[k].fd = active_clients[w][k].fd
               /\ Polled(w)[k].revents => Readable(active_clients[w][k].fd)
<1>1. active_clients[w] \in Seq(Entry)
  BY DEF TypeOK
<1>2. \A c : Readable(c) \in BOOLEAN
  BY DEF Readable, Gone
<1>3. \A k \in DOMAIN active_clients[w] : active_clients[w][k].fd \in Clients
  <2>1. \A k \in DOMAIN active_clients[w] : active_clients[w][k] \in Entry
    BY <1>1
  <2> QED BY <2>1 DEF Entry
<1>4. \A k \in DOMAIN active_clients[w] :
         /\ Polled(w)[k] \in Entry
         /\ Polled(w)[k].fd = active_clients[w][k].fd
         /\ Polled(w)[k].revents = Readable(active_clients[w][k].fd)
  BY <1>2, <1>3 DEF Entry, Polled
<1>5. DOMAIN active_clients[w] = 1 .. Len(active_clients[w]) /\ Len(active_clients[w]) \in Nat
  BY <1>1
<1>6. DOMAIN Polled(w) = DOMAIN active_clients[w]
  BY DEF Polled
<1>7. Polled(w) = [k \in 1 .. Len(active_clients[w]) |-> Polled(w)[k]]
  BY <1>5, <1>6 DEF Polled
<1>8. Polled(w) \in Seq(Entry) /\ Len(Polled(w)) = Len(active_clients[w])
  BY <1>4, <1>5, <1>6, <1>7
<1> QED BY <1>4, <1>6, <1>8
(* The active clients as functions of the worker and the place.             *)
LEMMA ActiveIs ==
  ASSUME TypeOK, NEW w \in Workers
  PROVE  /\ active_clients[w] \in Seq(Entry) /\ Len(active_clients[w]) \in Nat
         /\ DOMAIN active_clients[w] = 1 .. Len(active_clients[w])
         /\ \A k \in DOMAIN active_clients[w] : /\ active_clients[w][k] \in Entry
                                                /\ active_clients[w][k].fd \in Clients
         /\ i[w] \in Nat
<1>1. active_clients[w] \in Seq(Entry) /\ i[w] \in Nat
  BY DEF TypeOK
<1>2. \A k \in DOMAIN active_clients[w] : active_clients[w][k] \in Entry
  BY <1>1
<1> QED BY <1>1, <1>2 DEF Entry

(* The client at hand.                                                      *)
LEMMA CurrentIs ==
  ASSUME TypeOK, IndexOK, NEW w \in Workers, wpc[w] \in Serving
  PROVE  /\ i[w] \in 1 .. Len(active_clients[w]) /\ i[w] \in DOMAIN active_clients[w]
         /\ Current(w) \in Clients
         /\ InActive(w, i[w], Current(w))
<1>1. i[w] \in 1 .. Len(active_clients[w])
  BY DEF IndexOK
<1> QED BY <1>1, ActiveIs DEF Current, InActive

(* No other entry is the client at hand.                                    *)
LEMMA OthersDiffer ==
  ASSUME IInv, NEW w \in Workers, wpc[w] \in Serving,
         NEW v \in Workers, NEW k \in DOMAIN active_clients[v], ~(v = w /\ k = i[w])
  PROVE  active_clients[v][k].fd # Current(w)
<1>1. Current(w) \in Clients /\ InActive(w, i[w], Current(w))
  BY CurrentIs DEF IInv
<1>2. SUFFICES ASSUME active_clients[v][k].fd = Current(w) PROVE FALSE
  OBVIOUS
<1>3. Holds("active", w, i[w], Current(w)) /\ Holds("active", v, k, Current(w))
  BY <1>1, <1>2 DEF Holds, InActive
<1> QED BY <1>1, <1>3 DEF IInv, OnePlace

(* Steps that leave every client where it is.                               *)
LEMMA StayingPut ==
  ASSUME UNCHANGED <<backlog, acceptfd, pending_clients>>, Workers' = Workers,
         \A w \in Workers : /\ wpc'[w] = "clear" <=> wpc[w] = "clear"
                            /\ DOMAIN active_clients'[w] = DOMAIN active_clients[w]
                            /\ \A k \in DOMAIN active_clients[w] :
                                  active_clients'[w][k].fd = active_clients[w][k].fd
  PROVE  \A s, w, k, c : Holds(s, w, k, c)' <=> Holds(s, w, k, c)
<1>1. \A k, c : InMain(c)' = InMain(c) /\ InBacklog(k, c)' = InBacklog(k, c)
  BY DEF InMain, InBacklog
<1>2. \A w, k, c : InPending(w, k, c)' <=> InPending(w, k, c)
  BY DEF InPending
<1>3. \A w, k, c : InActive(w, k, c)' <=> InActive(w, k, c)
  BY DEF InActive
<1> QED BY <1>1, <1>2, <1>3 DEF Holds

(* What such a step keeps of the places.                                    *)
LEMMA PlacesKept ==
  ASSUME OnePlace, HeldAreOpen,
         \A s, w, k, c : Holds(s, w, k, c)' <=> Holds(s, w, k, c),
         closed' = closed,
         \A c \in Clients : cpc'[c] = "connect" => cpc[c] = "connect",
         server' = "running" => /\ server = "running"
                                /\ \A c \in Clients : cpc'[c] = "connect" <=> cpc[c] = "connect",
         UNCHANGED <<backlog, acceptfd, connections>>
  PROVE  OnePlace' /\ HeldAreOpen' /\ (CInv => CInv')
<1>1. OnePlace'
  BY DEF OnePlace
<1>2. HeldAreOpen'
  BY DEF HeldAreOpen
<1>3. ASSUME CInv, server' = "running" PROVE OpenAreHeld' /\ Counted'
  <2>1. OpenAreHeld /\ Counted
    BY <1>3 DEF CInv
  <2>2. OpenAreHeld'
    BY <1>3, <2>1 DEF OpenAreHeld
  <2>3. Assigned' = Assigned
    BY <1>3 DEF Assigned
  <2> QED BY <2>1, <2>2, <2>3 DEF Counted
<1> QED BY <1>1, <1>2, <1>3 DEF CInv

(* What the loop has still to come to are active clients.                   *)
LEMMA AheadActive ==
  ASSUME TypeOK, IndexOK, NEW w \in Workers
  PROVE  Ahead(w) \subseteq DOMAIN active_clients[w]
BY ActiveIs DEF Ahead, IndexOK, Serving

(* The marks of a worker outlast a step that does not move it and leaves    *)
(* its clients readable.                                                    *)
LEMMA MarksOf ==
  ASSUME TypeOK, IndexOK, NEW w \in Workers, Marked(w),
         active_clients'[w] = active_clients[w], wpc'[w] = wpc[w], i'[w] = i[w],
         \A c \in Clients, k \in DOMAIN active_clients[w] :
             active_clients[w][k].fd = c /\ Readable(c) => Readable(c)'
  PROVE  Marked(w)'
<1>1. Ahead(w)' = Ahead(w)
  BY DEF Ahead
<1>2. ASSUME NEW k \in Ahead(w), active_clients[w][k].revents
      PROVE  Readable(active_clients[w][k].fd)'
  <2>1. k \in DOMAIN active_clients[w]
    BY AheadActive
  <2>2. PICK c \in Clients : c = active_clients[w][k].fd
    BY <2>1, ActiveIs
  <2>3. Readable(c)
    BY <1>2, <2>2 DEF Marked
  <2>4. Readable(c)'
    BY <2>1, <2>2, <2>3
  <2> QED BY <2>2, <2>4
<1> QED BY <1>1, <1>2 DEF Marked

(* Marks outlast a step that leaves readable what was and moves no worker.  *)
LEMMA MarksKept ==
  ASSUME TypeOK, IndexOK, MarkedReadable, UNCHANGED <<active_clients, wpc, i>>,
         \A c \in Clients : Readable(c) => Readable(c)'
  PROVE  MarkedReadable'
<1>1. ASSUME NEW w \in Workers PROVE Marked(w)'
  BY <1>1, MarksOf, ActiveIs DEF MarkedReadable
<1> QED BY <1>1 DEF MarkedReadable, Workers

-----------------------------------------------------------------------------
(* The clients.                                                             *)

(* A step of a client beyond connect: it can only make it readable.         *)
LEMMA ClientMove ==
  ASSUME IInv, TypeOK',
         UNCHANGED <<backlog, acceptfd, connections, mtx, pending_clients, active_clients, wpc, i,
                     closed>>,
         \A c \in Clients : Readable(c) => Readable(c)',
         \A c \in Clients : cpc'[c] = "connect" => cpc[c] = "connect",
         server' = "running" => /\ server = "running"
                                /\ \A c \in Clients : cpc'[c] = "connect" <=> cpc[c] = "connect"
  PROVE  IInv' /\ (CInv => CInv')
<1>1. MutexOK' /\ IndexOK'
  BY DEF IInv, MutexOK, IndexOK, Workers
<1>2. \A s, w, k, c : Holds(s, w, k, c)' <=> Holds(s, w, k, c)
  BY StayingPut DEF Workers
<1>3. OnePlace' /\ HeldAreOpen' /\ (CInv => CInv')
  BY <1>2, PlacesKept DEF IInv
<1>4. MarkedReadable'
  BY MarksKept DEF IInv
<1> QED BY <1>1, <1>3, <1>4 DEF IInv

(* The steps of a client after connect, and its end.                        *)
LEMMA ClientSteps ==
  ASSUME IInv, NEW c \in Clients,
         \/ SendHeader(c) \/ SendPayload(c) \/ ReceiveCounter(c)
         \/ ClientFails(c) \/ Crash(c)
  PROVE  IInv' /\ (CInv => CInv')
<1> USE DEF CGoto
<1>1. UNCHANGED <<server, backlog, acceptfd, connections, mtx, pending_clients, active_clients, wpc,
                  i, closed>>
  BY DEF SendHeader, SendPayload, ReceiveCounter, ClientFails, Crash, queues, workers, wire
<1>2. TypeOK /\ Workers' = Workers
  BY <1>1 DEF IInv, Workers
<1>3. sent[c] \in Nat /\ to_server[c] \in Seq(Pieces)
  BY <1>2 DEF TypeOK
<1>4. /\ to_server' \in [Clients -> Seq(Pieces)] /\ sent' \in [Clients -> Nat]
      /\ cpc' \in [Clients -> {"connect", "header", "payload", "receive", "done", "crashed"}]
      /\ \A d \in Clients : to_server[d] # <<>> => to_server'[d] # <<>>
      /\ \A d \in Clients : d # c => cpc'[d] = cpc[d]
      /\ cpc'[c] # "connect"
      /\ Gone(c) => cpc'[c] \in {"done", "crashed"}
      /\ cpc[c] = "connect" => server = "killed"
  <2>1. CASE SendHeader(c)
    <3>1. <<"size", sent[c] + 1>> \in Pieces
      BY <1>3 DEF Pieces
    <3>2. Append(to_server[c], <<"size", sent[c] + 1>>) \in Seq(Pieces)
          /\ Append(to_server[c], <<"size", sent[c] + 1>>) # <<>>
      BY <1>3, <3>1
    <3>3. /\ to_server' = [to_server EXCEPT ![c] = Append(to_server[c], <<"size", sent[c] + 1>>)]
          /\ cpc' = [cpc EXCEPT ![c] = "payload"] /\ sent' = sent /\ cpc[c] = "header"
      BY <2>1 DEF SendHeader
    <3> HIDE DEF CGoto, Pieces
    <3> QED BY <1>2, <3>2, <3>3 DEF TypeOK, Gone
  <2>2. CASE SendPayload(c)
    <3>1. <<"payload", sent[c] + 1>> \in Pieces
      BY <1>3 DEF Pieces
    <3>2. Append(to_server[c], <<"payload", sent[c] + 1>>) \in Seq(Pieces)
          /\ Append(to_server[c], <<"payload", sent[c] + 1>>) # <<>>
      BY <1>3, <3>1
    <3>3. /\ to_server' = [to_server EXCEPT ![c] = Append(to_server[c], <<"payload", sent[c] + 1>>)]
          /\ sent' = [sent EXCEPT ![c] = sent[c] + 1] /\ cpc[c] = "payload"
      BY <2>2 DEF SendPayload
    <3>4. PICK at \in {"receive", "header"} : cpc' = [cpc EXCEPT ![c] = at]
      BY <2>2 DEF SendPayload
    <3>5. sent' \in [Clients -> Nat]
      BY <1>2, <1>3, <3>3 DEF TypeOK
    <3> HIDE DEF Pieces, CGoto
    <3> QED BY <1>2, <3>2, <3>3, <3>4, <3>5 DEF TypeOK, Gone
  <2>3. CASE ReceiveCounter(c)
    BY <1>2, <2>3 DEF TypeOK, Gone, ReceiveCounter, wire
  <2>4. CASE ClientFails(c)
    BY <1>2, <2>4 DEF TypeOK, Gone, ClientFails, wire
  <2>5. CASE Crash(c)
    BY <1>2, <2>5 DEF TypeOK, Gone, Crash, wire
  <2> QED BY <2>1, <2>2, <2>3, <2>4, <2>5
<1>5. TypeOK'
  BY <1>1, <1>2, <1>4 DEF TypeOK
<1>6. \A d \in Clients : Readable(d) => Readable(d)'
  BY <1>4 DEF Readable, Gone
<1>7. server # "killed" => \A d \in Clients : cpc'[d] = "connect" <=> cpc[d] = "connect"
  BY <1>4
<1>8. \A d \in Clients : cpc'[d] = "connect" => cpc[d] = "connect"
  BY <1>4
<1>9. server' = "running" => /\ server = "running"
                             /\ \A d \in Clients : cpc'[d] = "connect" <=> cpc[d] = "connect"
  BY <1>1, <1>7
<1> QED BY <1>1, <1>5, <1>6, <1>8, <1>9, ClientMove
(* connect puts a client at the end of the listen queue.                    *)
LEMMA ConnectStep ==
  ASSUME IInv, NEW c \in Clients, Connect(c)
  PROVE  IInv' /\ (CInv => CInv')
<1>1. /\ cpc[c] = "connect" /\ server = "running" /\ server' = server
      /\ backlog' = Append(backlog, c) /\ cpc' = [cpc EXCEPT ![c] = "header"]
      /\ UNCHANGED <<acceptfd, connections, mtx, pending_clients, active_clients, wpc, i, sent,
                     to_server, closed>>
  BY DEF Connect, CGoto, workers, wire
<1>2. TypeOK /\ Workers' = Workers
  BY <1>1 DEF IInv, Workers
<1>3. /\ backlog \in Seq(Clients) /\ backlog' \in Seq(Clients) /\ Len(backlog) \in Nat
      /\ Len(backlog') = Len(backlog) + 1
      /\ DOMAIN backlog = 1 .. Len(backlog) /\ DOMAIN backlog' = 1 .. Len(backlog) + 1
      /\ \A k \in DOMAIN backlog : backlog'[k] = backlog[k]
      /\ backlog'[Len(backlog) + 1] = c
  BY <1>1, <1>2 DEF TypeOK
<1>4. TypeOK'
  BY <1>1, <1>2, <1>3 DEF TypeOK
<1>5. MutexOK' /\ IndexOK'
  BY <1>1 DEF IInv, MutexOK, IndexOK, Workers
<1>6. cpc'[c] = "header" /\ \A d \in Clients : d # c => cpc'[d] = cpc[d]
  BY <1>1, <1>2 DEF TypeOK
<1>7. \A s, w, k, d :
         Holds(s, w, k, d)' <=> \/ Holds(s, w, k, d)
                                \/ s = "backlog" /\ w = 0 /\ k = Len(backlog) + 1 /\ d = c
  <2>1. \A k, d : InBacklog(k, d)' <=> \/ InBacklog(k, d)
                                       \/ k = Len(backlog) + 1 /\ d = c
    <3>1. /\ DOMAIN backlog' = DOMAIN backlog \cup {Len(backlog) + 1}
          /\ Len(backlog) + 1 \notin DOMAIN backlog
      BY <1>3
    <3> QED BY <1>3, <3>1 DEF InBacklog
  <2>2. \A w, k, d : /\ InMain(d)' <=> InMain(d)
                     /\ InPending(w, k, d)' <=> InPending(w, k, d)
                     /\ InActive(w, k, d)' <=> InActive(w, k, d)
    BY <1>1, <1>2 DEF InMain, InPending, InActive
  <2> QED BY <2>1, <2>2 DEF Holds
<1>8. \A s, w, k : ~Holds(s, w, k, c)
  BY <1>1 DEF IInv, HeldAreOpen
<1>9. OnePlace'
  <2> SUFFICES ASSUME NEW d \in Clients, NEW s1, NEW s2, NEW w1, NEW w2, NEW k1, NEW k2,
                      Holds(s1, w1, k1, d)', Holds(s2, w2, k2, d)'
               PROVE  s1 = s2 /\ w1 = w2 /\ k1 = k2
    BY DEF OnePlace
  <2>1. CASE d = c
    BY <2>1, <1>7, <1>8
  <2>2. CASE d # c
    BY <2>2, <1>7 DEF IInv, OnePlace
  <2> QED BY <2>1, <2>2
<1>10. HeldAreOpen'
  <2>1. ASSUME NEW d \in Clients, NEW s, NEW w, NEW k, Holds(s, w, k, d)'
        PROVE  cpc'[d] # "connect" /\ d \notin closed
    <3>1. CASE d = c
      BY <3>1, <1>1, <1>6 DEF IInv, HeldAreOpen
    <3>2. CASE d # c
      <4>1. Holds(s, w, k, d)
        BY <2>1, <3>2, <1>7
      <4> QED BY <4>1, <3>2, <1>6 DEF IInv, HeldAreOpen
    <3> QED BY <3>1, <3>2
  <2>2. \A d \in closed : d \in Clients /\ d # c /\ cpc[d] # "connect"
    BY <1>1 DEF IInv, HeldAreOpen
  <2>3. closed' \subseteq {d \in Clients : cpc'[d] # "connect"}
    BY <2>2, <1>1, <1>6
  <2> QED BY <2>1, <2>3, <1>1 DEF HeldAreOpen
<1>11. MarkedReadable'
  <2>1. \A d \in Clients : Readable(d) => Readable(d)'
    BY <1>1, <1>6 DEF Readable, Gone
  <2> QED BY <2>1, <1>1, MarksKept DEF IInv
<1>12. ASSUME CInv PROVE CInv'
  <2>1. OpenAreHeld /\ Counted
    BY <1>1, <1>12 DEF CInv
  <2>2. OpenAreHeld'
    <3>1. ASSUME NEW d \in Clients, cpc'[d] # "connect", d \notin closed
          PROVE  \E s, w, k : Holds(s, w, k, d)'
      <4>1. CASE d = c
        BY <4>1, <1>7
      <4>2. CASE d # c
        BY <4>2, <3>1, <2>1, <1>6, <1>7 DEF OpenAreHeld
      <4> QED BY <4>1, <4>2
    <3> QED BY <3>1, <1>1 DEF OpenAreHeld
  <2>3. Assigned' = Assigned
    <3>1. c \notin Assigned /\ c \notin Assigned'
      BY <1>1, <1>3 DEF Assigned
    <3>2. ASSUME NEW d \in Clients, d # c PROVE d \in Assigned' <=> d \in Assigned
      BY <3>2, <1>1, <1>3, <1>6 DEF Assigned
    <3>3. Assigned \subseteq Clients /\ Assigned' \subseteq Clients
      BY DEF Assigned
    <3> QED BY <3>1, <3>2, <3>3
  <2> QED BY <2>1, <2>2, <2>3, <1>1 DEF CInv, Counted
<1> QED BY <1>4, <1>5, <1>9, <1>10, <1>11, <1>12 DEF IInv

-----------------------------------------------------------------------------
(* The main thread.                                                         *)

(* accept takes the first of the listen queue.                              *)
LEMMA AcceptStep ==
  ASSUME IInv, AcceptConnection
  PROVE  IInv' /\ (CInv => CInv')
<1>1. /\ acceptfd = NONE /\ backlog # <<>> /\ server' = server
      /\ acceptfd' = Head(backlog) /\ backlog' = Tail(backlog)
      /\ UNCHANGED <<connections, mtx, pending_clients, active_clients, wpc, i, cpc, sent,
                     to_server, closed>>
  BY DEF AcceptConnection, workers, clients, wire
<1>2. TypeOK /\ Workers' = Workers
  BY <1>1 DEF IInv, Workers
<1>3. /\ backlog' \in Seq(Clients) /\ Len(backlog) \in Nat \ {0}
      /\ DOMAIN backlog = 1 .. Len(backlog) /\ DOMAIN backlog' = 1 .. Len(backlog) - 1
      /\ \A k \in 1 .. Len(backlog) - 1 : backlog'[k] = backlog[k + 1]
      /\ acceptfd' = backlog[1] /\ acceptfd' \in Clients
  BY <1>1, <1>2 DEF TypeOK
<1>4. TypeOK'
  BY <1>1, <1>2, <1>3 DEF TypeOK
<1>5. MutexOK' /\ IndexOK'
  BY <1>1 DEF IInv, MutexOK, IndexOK, Workers
<1>6. \A c \in Clients : ~InMain(c)
  BY <1>1, ClientAssumption DEF InMain
<1>7. \A c \in Clients : \A k :
         /\ InMain(c)' <=> InBacklog(1, c)
         /\ InBacklog(k, c)' <=> k \in 1 .. Len(backlog) - 1 /\ InBacklog(k + 1, c)
  BY <1>3 DEF InMain, InBacklog
<1>8. \A w, k, c : /\ InPending(w, k, c)' <=> InPending(w, k, c)
                   /\ InActive(w, k, c)' <=> InActive(w, k, c)
  BY <1>1, <1>2 DEF InPending, InActive
<1>9. ASSUME NEW c \in Clients, NEW s, NEW w, NEW k, Holds(s, w, k, c)'
      PROVE  \/ s = "main" /\ w = 0 /\ k = 0 /\ Holds("backlog", 0, 1, c)
             \/ /\ s = "backlog" /\ w = 0 /\ k \in 1 .. Len(backlog) - 1
                /\ Holds("backlog", 0, k + 1, c)
             \/ s \in {"pending", "active"} /\ Holds(s, w, k, c)
  BY <1>7, <1>8, <1>9 DEF Holds
<1>10. OnePlace'
  <2> SUFFICES ASSUME NEW c \in Clients, NEW s1, NEW s2, NEW w1, NEW w2, NEW k1, NEW k2,
                      Holds(s1, w1, k1, c)', Holds(s2, w2, k2, c)'
               PROVE  s1 = s2 /\ w1 = w2 /\ k1 = k2
    BY DEF OnePlace
  <2> HIDE DEF Holds
  <2>1. \A s3, s4, w3, w4, k3, k4 : Holds(s3, w3, k3, c) /\ Holds(s4, w4, k4, c)
                                     => s3 = s4 /\ w3 = w4 /\ k3 = k4
    BY DEF IInv, OnePlace
  <2> QED BY <2>1, <1>3, <1>9
<1>11. HeldAreOpen'
  <2>1. ASSUME NEW c \in Clients, NEW s, NEW w, NEW k, Holds(s, w, k, c)'
        PROVE  cpc[c] # "connect" /\ c \notin closed
    BY <2>1, <1>9 DEF IInv, HeldAreOpen
  <2> QED BY <2>1, <1>1 DEF IInv, HeldAreOpen
<1>12. MarkedReadable'
  <2>1. \A c \in Clients : Readable(c) => Readable(c)'
    BY <1>1 DEF Readable, Gone
  <2> QED BY <2>1, <1>1, MarksKept DEF IInv
<1>13. ASSUME CInv, server = "running" PROVE OpenAreHeld' /\ Counted'
  <2>1. OpenAreHeld /\ Counted
    BY <1>13 DEF CInv
  <2>2. OpenAreHeld'
    <3>1. ASSUME NEW c \in Clients, cpc[c] # "connect", c \notin closed
          PROVE  \E s, w, k : Holds(s, w, k, c)'
      <4>1. PICK s, w, k : Holds(s, w, k, c)
        BY <3>1, <2>1 DEF OpenAreHeld
      <4>2. CASE s \in {"pending", "active"}
        BY <4>1, <4>2, <1>8 DEF Holds
      <4>3. CASE s = "main"
        BY <4>1, <4>3, <1>6 DEF Holds
      <4>4. CASE s = "backlog"
        <5>1. InBacklog(k, c) /\ k \in 1 .. Len(backlog)
          BY <4>1, <4>4, <1>3 DEF Holds, InBacklog
        <5>2. CASE k = 1
          BY <5>1, <5>2, <1>7 DEF Holds
        <5>3. CASE k # 1
          <6>1. k - 1 \in 1 .. Len(backlog) - 1 /\ (k - 1) + 1 = k
            BY <5>1, <5>3, <1>3
          <6>2. InBacklog(k - 1, c)'
            BY <5>1, <6>1, <1>7
          <6> QED BY <6>2 DEF Holds
        <5> QED BY <5>2, <5>3
      <4> QED BY <4>1, <4>2, <4>3, <4>4 DEF Holds
    <3> QED BY <3>1, <1>1 DEF OpenAreHeld
  <2>3. Assigned' = Assigned
    <3>1. ASSUME NEW c \in Clients PROVE c \in Assigned' <=> c \in Assigned
      <4>1. (\E k \in DOMAIN backlog : backlog[k] = c)
            <=> acceptfd' = c \/ \E k \in DOMAIN backlog' : backlog'[k] = c
        <5>1. ASSUME NEW k \in DOMAIN backlog, backlog[k] = c
              PROVE  acceptfd' = c \/ \E j \in DOMAIN backlog' : backlog'[j] = c
          <6>1. CASE k = 1
            BY <5>1, <6>1, <1>3
          <6>2. CASE k # 1
            <7>1. k - 1 \in 1 .. Len(backlog) - 1 /\ (k - 1) + 1 = k
              BY <6>2, <1>3
            <7> QED BY <7>1, <5>1, <1>3
          <6> QED BY <6>1, <6>2
        <5>2. ASSUME NEW k \in DOMAIN backlog', backlog'[k] = c
              PROVE  \E j \in DOMAIN backlog : backlog[j] = c
          <6>1. k + 1 \in DOMAIN backlog /\ backlog[k + 1] = c
            BY <5>2, <1>3
          <6> QED BY <6>1
        <5> QED BY <5>1, <5>2, <1>3
      <4>2. acceptfd # c
        BY <1>1, ClientAssumption
      <4> QED BY <4>1, <4>2, <1>1 DEF Assigned
    <3>2. Assigned \subseteq Clients /\ Assigned' \subseteq Clients
      BY DEF Assigned
    <3> QED BY <3>1, <3>2
  <2> QED BY <2>1, <2>2, <2>3, <1>1 DEF Counted
<1> QED BY <1>1, <1>4, <1>5, <1>10, <1>11, <1>12, <1>13 DEF IInv, CInv
(* connections++ % numThreads is a worker as long as connections does not   *)
(* wrap.                                                                    *)
LEMMA TidIs ==
  ASSUME TypeOK, connections >= 0
  PROVE  Tid \in Workers
<1>1. PICK n \in ThreadCounts : Workers = 0 .. n - 1
  BY Types
<1>2. n \in Nat /\ n > 0 /\ connections \in Nat
  BY ServerAssumption DEF TypeOK
<1>3. Cardinality(0 .. n - 1) = n
  <2>1. n - 1 \in Int /\ 0 \in Int
    BY <1>2
  <2>2. Cardinality(0 .. n - 1) = IF 0 > n - 1 THEN 0 ELSE (n - 1) - 0 + 1
    BY <2>1, FS_Interval
  <2> QED BY <2>2, <1>2
<1>4. Tid = connections % n
  BY <1>1, <1>3 DEF Tid, numThreads
<1>5. connections % n \in 0 .. n - 1
  BY <1>2
<1> QED BY <1>1, <1>4, <1>5

(* What the places become when main gives its connection to a worker.       *)
LEMMA AssignPlaces ==
  ASSUME IInv, Assign
  PROVE  /\ TypeOK' /\ MutexOK' /\ IndexOK' /\ MarkedReadable'
         /\ acceptfd \in Clients /\ acceptfd' = NONE
         /\ \A s, w, k : \A c \in Clients : Holds(s, w, k, c)' =>
               \/ s # "main" /\ Holds(s, w, k, c) /\ c # acceptfd
               \/ /\ s = "pending" /\ w = Tid /\ k = Len(pending_clients[Tid]) + 1
                  /\ c = acceptfd
         /\ \A s, w, k, c : s # "main" /\ Holds(s, w, k, c) => Holds(s, w, k, c)'
         /\ \A t \in Workers, c \in Clients :
               t = Tid /\ c = acceptfd => \E k : Holds("pending", t, k, c)'
<1>1. /\ acceptfd # NONE /\ Tid \notin mtx
      /\ pending_clients' = [pending_clients EXCEPT ![Tid] = Append(@, acceptfd)]
      /\ acceptfd' = NONE /\ connections' = Increment(connections)
      /\ UNCHANGED <<backlog, mtx, active_clients, wpc, i, cpc, sent, to_server, closed>>
  BY DEF Assign, workers, clients, wire
<1>2. TypeOK /\ Workers' = Workers
  BY <1>1 DEF IInv, Workers
<1>3. acceptfd \in Clients
  BY <1>1, <1>2 DEF TypeOK
<1>4. connections' \in Int
  BY <1>1, <1>2, ServerAssumption DEF TypeOK, Increment
<1>5. pending_clients \in [Workers -> Seq(Clients)]
  BY <1>2 DEF TypeOK
<1>6. /\ pending_clients' \in [Workers -> Seq(Clients)]
      /\ \A w \in Workers : w # Tid => pending_clients'[w] = pending_clients[w]
      /\ Tid \in Workers => pending_clients'[Tid] = Append(pending_clients[Tid], acceptfd)
  <2>1. CASE Tid \in Workers
    <3>1. Append(pending_clients[Tid], acceptfd) \in Seq(Clients)
      BY <2>1, <1>3, <1>5
    <3> HIDE DEF Tid
    <3> QED BY <2>1, <3>1, <1>1, <1>5
  <2>2. CASE Tid \notin Workers
    <3>1. pending_clients' = pending_clients
      BY <2>2, <1>1, <1>5
    <3> QED BY <2>2, <3>1, <1>5
  <2> QED BY <2>1, <2>2
<1>7. ASSUME Tid \in Workers
      PROVE  /\ DOMAIN pending_clients[Tid] = 1 .. Len(pending_clients[Tid])
             /\ DOMAIN pending_clients'[Tid] = 1 .. Len(pending_clients[Tid]) + 1
             /\ \A k \in 1 .. Len(pending_clients[Tid]) :
                    pending_clients'[Tid][k] = pending_clients[Tid][k]
             /\ pending_clients'[Tid][Len(pending_clients[Tid]) + 1] = acceptfd
             /\ Len(pending_clients[Tid]) \in Nat
  <2>1. pending_clients[Tid] \in Seq(Clients)
    BY <1>5, <1>7
  <2> QED BY <2>1, <1>3, <1>6, <1>7
<1>8. TypeOK'
  BY <1>1, <1>2, <1>4, <1>6 DEF TypeOK
<1>9. MutexOK' /\ IndexOK'
  BY <1>1 DEF IInv, MutexOK, IndexOK, Workers
<1>10. MarkedReadable'
  <2>1. \A c \in Clients : Readable(c) => Readable(c)'
    BY <1>1 DEF Readable, Gone
  <2> QED BY <2>1, <1>1, MarksKept DEF IInv
<1>11. \A c \in Clients : ~InMain(c)'
  BY <1>1, ClientAssumption DEF InMain
<1>12. \A w, k, c : /\ InBacklog(k, c)' <=> InBacklog(k, c)
                    /\ InActive(w, k, c)' <=> InActive(w, k, c)
  BY <1>1, <1>2 DEF InBacklog, InActive
<1> DEFINE last == Len(pending_clients[Tid]) + 1
<1>13. ASSUME NEW w, NEW k, NEW c
       PROVE  InPending(w, k, c)' <=> \/ InPending(w, k, c)
                                      \/ Tid \in Workers /\ w = Tid /\ k = last /\ c = acceptfd
  <2>1. CASE w \in Workers /\ w # Tid
    BY <2>1, <1>1, <1>2, <1>6 DEF InPending
  <2>2. CASE w \in Workers /\ w = Tid
    <3>1. DOMAIN pending_clients'[Tid] = DOMAIN pending_clients[Tid] \cup {last}
          /\ last \notin DOMAIN pending_clients[Tid]
      BY <2>2, <1>7
    <3>2. /\ \A j \in DOMAIN pending_clients[Tid] :
                pending_clients'[Tid][j] = pending_clients[Tid][j]
          /\ pending_clients'[Tid][last] = acceptfd
      BY <2>2, <1>7
    <3>3. wpc[Tid] # "clear"
      BY <2>2, <1>1 DEF IInv, MutexOK
    <3> HIDE DEF last
    <3> QED BY <2>2, <3>1, <3>2, <3>3, <1>1, <1>2 DEF InPending
  <2>3. CASE w \notin Workers
    BY <2>3, <1>2 DEF InPending
  <2> QED BY <2>1, <2>2, <2>3
<1>14. ASSUME NEW s, NEW w, NEW k, NEW c \in Clients, Holds(s, w, k, c)'
       PROVE  \/ s # "main" /\ Holds(s, w, k, c) /\ c # acceptfd
              \/ s = "pending" /\ w = Tid /\ k = last /\ c = acceptfd
  <2>1. Holds("main", 0, 0, acceptfd)
    BY DEF Holds, InMain
  <2>2. s # "main" /\ Holds(s, w, k, c) => c # acceptfd
    BY <2>1, <1>3 DEF IInv, OnePlace
  <2> HIDE DEF last
  <2>3. s # "main" /\ (Holds(s, w, k, c) \/ (s = "pending" /\ w = Tid /\ k = last /\ c = acceptfd))
    BY <1>11, <1>12, <1>13, <1>14 DEF Holds
  <2> QED BY <2>2, <2>3
<1>15. \A s, w, k, c : s # "main" /\ Holds(s, w, k, c) => Holds(s, w, k, c)'
  <2> HIDE DEF last
  <2> QED BY <1>12, <1>13 DEF Holds
<1>16. ASSUME NEW t \in Workers, NEW c \in Clients, t = Tid, c = acceptfd
       PROVE  \E k : Holds("pending", t, k, c)'
  <2>1. PICK k : k = last
    OBVIOUS
  <2> HIDE DEF last
  <2>2. InPending(t, k, c)'
    BY <1>13, <1>16, <2>1
  <2> QED BY <2>2 DEF Holds
<1> QED BY <1>1, <1>3, <1>8, <1>9, <1>10, <1>14, <1>15, <1>16

(* main gives its connection to a worker.                                   *)
LEMMA AssignStep ==
  ASSUME IInv, Assign
  PROVE  IInv' /\ (Cardinality(Clients) <= INT_MAX /\ CInv => CInv')
<1> DEFINE last == Len(pending_clients[Tid]) + 1
<1>1. /\ TypeOK' /\ MutexOK' /\ IndexOK' /\ MarkedReadable'
      /\ acceptfd \in Clients /\ acceptfd' = NONE
      /\ \A s, w, k : \A c \in Clients : Holds(s, w, k, c)' =>
            \/ s # "main" /\ Holds(s, w, k, c) /\ c # acceptfd
            \/ s = "pending" /\ w = Tid /\ k = last /\ c = acceptfd
      /\ \A s, w, k, c : s # "main" /\ Holds(s, w, k, c) => Holds(s, w, k, c)'
      /\ \A t \in Workers, c \in Clients :
            t = Tid /\ c = acceptfd => \E k : Holds("pending", t, k, c)'
  BY AssignPlaces
<1> HIDE DEF last
<1>2. /\ server = "running" /\ server' = server /\ connections' = Increment(connections)
      /\ UNCHANGED <<backlog, cpc, closed>>
  BY DEF Assign, clients, wire
<1>3. Holds("main", 0, 0, acceptfd)
  BY DEF Holds, InMain
<1>4. OnePlace'
  <2> SUFFICES ASSUME NEW c \in Clients, NEW s1, NEW s2, NEW w1, NEW w2, NEW k1, NEW k2,
                      Holds(s1, w1, k1, c)', Holds(s2, w2, k2, c)'
               PROVE  s1 = s2 /\ w1 = w2 /\ k1 = k2
    BY DEF OnePlace
  <2>1. CASE c = acceptfd
    BY <2>1, <1>1
  <2>2. CASE c # acceptfd
    <3>1. Holds(s1, w1, k1, c) /\ Holds(s2, w2, k2, c)
      BY <2>2, <1>1
    <3> QED BY <3>1 DEF IInv, OnePlace
  <2> QED BY <2>1, <2>2
<1>5. HeldAreOpen'
  <2>1. ASSUME NEW c \in Clients, NEW s, NEW w, NEW k, Holds(s, w, k, c)'
        PROVE  cpc[c] # "connect" /\ c \notin closed
    <3>1. \E s1, w1, k1 : Holds(s1, w1, k1, c)
      BY <2>1, <1>1, <1>3
    <3> QED BY <3>1 DEF IInv, HeldAreOpen
  <2> QED BY <2>1, <1>2 DEF IInv, HeldAreOpen
<1>6. ASSUME Cardinality(Clients) <= INT_MAX, CInv PROVE CInv'
  <2>1. OpenAreHeld /\ Counted
    BY <1>2, <1>6 DEF CInv
  <2>2. IsFiniteSet(Clients) /\ INT_MAX \in Nat
    BY ClientAssumption, ServerAssumption
  <2>3. Assigned \subseteq Clients /\ Assigned' \subseteq Clients
    BY DEF Assigned
  <2>4. Assigned' = Assigned \cup {acceptfd} /\ acceptfd \notin Assigned
    <3>1. cpc[acceptfd] # "connect"
      BY <1>1, <1>3 DEF IInv, HeldAreOpen
    <3>2. \A k \in DOMAIN backlog : backlog[k] # acceptfd
      <4>1. ASSUME NEW k \in DOMAIN backlog, backlog[k] = acceptfd PROVE FALSE
        <5>1. Holds("backlog", 0, k, acceptfd)
          BY <4>1 DEF Holds, InBacklog
        <5> QED BY <5>1, <1>1, <1>3 DEF IInv, OnePlace
      <4> QED BY <4>1
    <3>3. \A c \in Clients : c # acceptfd'
      BY <1>1, ClientAssumption
    <3>4. ASSUME NEW c \in Clients PROVE c \in Assigned' <=> c \in Assigned \/ c = acceptfd
      BY <3>1, <3>2, <3>3, <1>2 DEF Assigned
    <3> QED BY <3>4, <2>3, <1>1 DEF Assigned
  <2>5. IsFiniteSet(Assigned) /\ IsFiniteSet(Assigned')
        /\ Cardinality(Assigned') <= Cardinality(Clients)
    BY <2>2, <2>3, FS_Subset
  <2>6. Cardinality(Assigned') = Cardinality(Assigned) + 1
    BY <2>4, <2>5, FS_AddElement
  <2>7. Cardinality(Assigned) \in Nat /\ Cardinality(Clients) \in Nat
    BY <2>2, <2>5, FS_CardinalityType
  <2>8. connections \in Nat /\ connections < INT_MAX
    BY <2>1, <2>2, <2>5, <2>6, <2>7, <1>6 DEF Counted
  <2>9. Counted'
    BY <2>1, <2>6, <2>8, <2>2, <1>2 DEF Counted, Increment
  <2>10. Tid \in Workers
    <3>1. connections >= 0
      BY <2>8
    <3> QED BY <3>1, TidIs DEF IInv
  <2>11. OpenAreHeld'
    <3>1. ASSUME NEW c \in Clients, cpc[c] # "connect", c \notin closed
          PROVE  \E s, w, k : Holds(s, w, k, c)'
      <4>1. CASE c = acceptfd
        <5>1. PICK t \in Workers : t = Tid
          BY <2>10
        <5> QED BY <4>1, <5>1, <1>1
      <4>2. CASE c # acceptfd
        <5>1. PICK s, w, k : Holds(s, w, k, c)
          BY <3>1, <2>1 DEF OpenAreHeld
        <5>2. s # "main"
          BY <5>1, <4>2 DEF Holds, InMain
        <5> QED BY <5>1, <5>2, <1>1
      <4> QED BY <4>1, <4>2
    <3> QED BY <3>1, <1>2 DEF OpenAreHeld
  <2> QED BY <2>9, <2>11 DEF CInv
<1> QED BY <1>1, <1>4, <1>5, <1>6 DEF IInv
-----------------------------------------------------------------------------
(* The workers.                                                             *)

(* What a step of one worker keeps of the others: their marks, if it leaves *)
(* their clients readable.                                                  *)
LEMMA OtherMarks ==
  ASSUME TypeOK, IndexOK, MarkedReadable, Workers' = Workers, NEW w \in Workers,
         \A v \in Workers : v # w => /\ active_clients'[v] = active_clients[v]
                                     /\ wpc'[v] = wpc[v] /\ i'[v] = i[v],
         \A v \in Workers : v # w => \A c \in Clients, k \in DOMAIN active_clients[v] :
             active_clients[v][k].fd = c /\ Readable(c) => Readable(c)',
         Marked(w)'
  PROVE  MarkedReadable'
<1>1. ASSUME NEW v \in Workers, v # w PROVE Marked(v)'
  BY <1>1, MarksOf DEF MarkedReadable
<1> QED BY <1>1 DEF MarkedReadable

(* The copy of the pending clients, under the mutex.                        *)
LEMMA MoveStep ==
  ASSUME IInv, NEW w \in Workers, MoveClients(w)
  PROVE  IInv' /\ (CInv => CInv')
<1> DEFINE a == active_clients[w]
           p == pending_clients[w]
           m == a \o [k \in 1 .. Len(p) |-> [fd |-> p[k], revents |-> FALSE]]
<1>1. /\ wpc[w] = "move" /\ mtx' = mtx \cup {w} /\ server' = server
      /\ active_clients' = [active_clients EXCEPT ![w] = m]
      /\ wpc' = [wpc EXCEPT ![w] = "clear"]
      /\ UNCHANGED <<backlog, acceptfd, connections, pending_clients, i, cpc, sent, to_server, closed>>
  BY DEF MoveClients, At, WGoto, clients, wire
<1>2. TypeOK /\ wpc \in [Workers -> Serving \cup {"move", "clear", "poll", "loop"}]
  BY Types DEF IInv
<1>3. a \in Seq(Entry) /\ p \in Seq(Clients)
  BY <1>2 DEF TypeOK
<1>4. /\ m \in Seq(Entry) /\ DOMAIN m = 1 .. Len(a) + Len(p)
      /\ \A k \in 1 .. Len(a) : m[k] = a[k]
      /\ \A k \in 1 .. Len(p) : m[Len(a) + k].fd = p[k]
  BY <1>3, MovedIs
<1>5. Len(a) \in Nat /\ Len(p) \in Nat /\ DOMAIN a = 1 .. Len(a) /\ DOMAIN p = 1 .. Len(p)
  BY <1>3
<1> HIDE DEF a, p, m
<1>6. /\ Workers' = Workers
      /\ wpc'[w] = "clear" /\ active_clients'[w] = m
      /\ \A v \in Workers : v # w => wpc'[v] = wpc[v] /\ active_clients'[v] = active_clients[v]
  BY <1>1, <1>2 DEF Workers, TypeOK
<1>7. TypeOK'
  <2>1. active_clients' \in [Workers -> Seq(Entry)]
    BY <1>1, <1>2, <1>4 DEF TypeOK
  <2>2. \E n \in ThreadCounts : wpc' \in [0 .. n - 1 -> Serving \cup {"move", "clear", "poll", "loop"}]
    BY <1>1, <1>2 DEF TypeOK
  <2> QED BY <2>1, <2>2, <1>1, <1>2, <1>6 DEF TypeOK
<1>8. MutexOK'
  BY <1>1, <1>6 DEF IInv, MutexOK
<1>9. IndexOK'
  BY <1>1, <1>6 DEF IInv, IndexOK, Serving
<1>10. \A k, c : InMain(c)' = InMain(c) /\ InBacklog(k, c)' = InBacklog(k, c)
  BY <1>1 DEF InMain, InBacklog
<1>11. \A v, k, c : InPending(v, k, c)' <=> v # w /\ InPending(v, k, c)
  BY <1>1, <1>6 DEF InPending
<1>12. \A v, k, c : v # w => (InActive(v, k, c)' <=> InActive(v, k, c))
  BY <1>6 DEF InActive
<1>13. ASSUME NEW k, NEW c, InActive(w, k, c)'
       PROVE  \/ InActive(w, k, c) /\ k \in 1 .. Len(a)
              \/ k - Len(a) \in 1 .. Len(p) /\ InPending(w, k - Len(a), c) /\ k \in Nat
  <2>1. k \in 1 .. Len(a) + Len(p) /\ m[k].fd = c
    BY <1>4, <1>6, <1>13 DEF InActive
  <2>2. CASE k <= Len(a)
    <3>1. k \in 1 .. Len(a)
      BY <2>1, <2>2, <1>5
    <3>2. m[k] = a[k]
      BY <3>1, <1>4
    <3> QED BY <3>1, <3>2, <2>1, <1>5 DEF InActive, a
  <2>3. CASE k > Len(a)
    <3>1. k - Len(a) \in 1 .. Len(p) /\ Len(a) + (k - Len(a)) = k /\ k \in Nat
      BY <2>1, <2>3, <1>5
    <3>2. p[k - Len(a)] = c
      BY <3>1, <2>1, <1>4
    <3> QED BY <3>1, <3>2, <1>1, <1>5 DEF InPending, p
  <2> QED BY <2>1, <2>2, <2>3, <1>5
<1>14. \A k, c : InActive(w, k, c) => InActive(w, k, c)'
  <2>1. \A k \in DOMAIN a : k \in DOMAIN m /\ m[k] = a[k]
    BY <1>4, <1>5
  <2> QED BY <2>1, <1>6 DEF InActive, a
<1>15. \A k, c : InPending(w, k, c) => \E j : InActive(w, j, c)'
  <2> SUFFICES ASSUME NEW k, NEW c, InPending(w, k, c) PROVE \E j : InActive(w, j, c)'
    OBVIOUS
  <2>1. k \in 1 .. Len(p) /\ p[k] = c
    BY <1>5 DEF InPending, p
  <2>2. PICK j : j = Len(a) + k
    OBVIOUS
  <2>3. j \in DOMAIN m /\ m[j].fd = c
    BY <2>1, <2>2, <1>4, <1>5
  <2>4. InActive(w, j, c)'
    BY <2>3, <1>6 DEF InActive
  <2> QED BY <2>4
<1>16. ASSUME NEW c \in Clients, NEW s, NEW v, NEW k, Holds(s, v, k, c)'
       PROVE  \/ Holds(s, v, k, c) /\ ~(s = "pending" /\ v = w) /\ (s = "active" /\ v = w => k <= Len(a))
              \/ /\ s = "active" /\ v = w /\ k \in Nat /\ k > Len(a)
                 /\ Holds("pending", w, k - Len(a), c)
  <2>1. CASE s = "active" /\ v = w
    <3>1. InActive(w, k, c)'
      BY <2>1, <1>16 DEF Holds
    <3>2. CASE InActive(w, k, c) /\ k \in 1 .. Len(a)
      <4>1. k <= Len(a)
        BY <3>2, <1>5
      <4> QED BY <4>1, <3>2, <2>1 DEF Holds
    <3>3. CASE k - Len(a) \in 1 .. Len(p) /\ InPending(w, k - Len(a), c) /\ k \in Nat
      <4>1. k > Len(a)
        BY <3>3, <1>5
      <4> QED BY <4>1, <3>3, <2>1 DEF Holds
    <3> QED BY <3>1, <3>2, <3>3, <1>13
  <2>2. CASE ~(s = "active" /\ v = w)
    BY <2>2, <1>10, <1>11, <1>12, <1>16 DEF Holds
  <2> QED BY <2>1, <2>2
<1>17. OnePlace'
  <2> SUFFICES ASSUME NEW c \in Clients, NEW s1, NEW s2, NEW w1, NEW w2, NEW k1, NEW k2,
                      Holds(s1, w1, k1, c)', Holds(s2, w2, k2, c)'
               PROVE  s1 = s2 /\ w1 = w2 /\ k1 = k2
    BY DEF OnePlace
  <2>1. \A s3, s4, w3, w4, k3, k4 : Holds(s3, w3, k3, c) /\ Holds(s4, w4, k4, c)
                                     => s3 = s4 /\ w3 = w4 /\ k3 = k4
    BY DEF IInv, OnePlace
  <2> QED BY <2>1, <1>5, <1>16
<1>18. HeldAreOpen'
  <2>1. ASSUME NEW c \in Clients, NEW s, NEW v, NEW k, Holds(s, v, k, c)'
        PROVE  cpc[c] # "connect" /\ c \notin closed
    BY <2>1, <1>16 DEF IInv, HeldAreOpen
  <2> QED BY <2>1, <1>1 DEF IInv, HeldAreOpen
<1>19. MarkedReadable'
  <2>1. Marked(w)'
    BY <1>6 DEF Marked, Ahead, Serving
  <2>2. \A c \in Clients : Readable(c) => Readable(c)'
    BY <1>1 DEF Readable, Gone
  <2> QED BY <2>1, <2>2, <1>1, <1>2, <1>6, OtherMarks DEF IInv
<1>20. ASSUME CInv, server = "running" PROVE OpenAreHeld' /\ Counted'
  <2>1. OpenAreHeld /\ Counted
    BY <1>20 DEF CInv
  <2>2. ASSUME NEW c \in Clients, cpc[c] # "connect", c \notin closed
        PROVE  \E s, v, k : Holds(s, v, k, c)'
    <3>1. PICK s, v, k : Holds(s, v, k, c)
      BY <2>1, <2>2 DEF OpenAreHeld
    <3>2. CASE s = "pending" /\ v = w
      BY <3>1, <3>2, <1>15 DEF Holds
    <3>3. CASE ~(s = "pending" /\ v = w)
      BY <3>1, <3>3, <1>10, <1>11, <1>12, <1>14 DEF Holds
    <3> QED BY <3>2, <3>3
  <2>3. Assigned' = Assigned
    BY <1>1 DEF Assigned
  <2> QED BY <2>1, <2>2, <2>3, <1>1 DEF Counted, OpenAreHeld
<1> QED BY <1>1, <1>7, <1>8, <1>9, <1>17, <1>18, <1>19, <1>20 DEF IInv, CInv
(* The clear, which gives the mutex back.                                   *)
LEMMA ClearStep ==
  ASSUME IInv, NEW w \in Workers, ClearPending(w)
  PROVE  IInv' /\ (CInv => CInv')
<1>1. /\ wpc[w] = "clear" /\ mtx' = mtx \ {w} /\ server' = server
      /\ pending_clients' = [pending_clients EXCEPT ![w] = <<>>]
      /\ wpc' = [wpc EXCEPT ![w] = "poll"]
      /\ UNCHANGED <<backlog, acceptfd, connections, active_clients, i, cpc, sent, to_server, closed>>
  BY DEF ClearPending, At, WGoto, clients, wire
<1>2. TypeOK /\ wpc \in [Workers -> Serving \cup {"move", "clear", "poll", "loop"}]
  BY Types DEF IInv
<1>3. /\ Workers' = Workers /\ wpc'[w] = "poll"
      /\ \A v \in Workers : v # w => wpc'[v] = wpc[v] /\ pending_clients'[v] = pending_clients[v]
      /\ pending_clients'[w] = <<>>
  BY <1>1, <1>2 DEF Workers, TypeOK
<1>4. TypeOK'
  <2>1. \E n \in ThreadCounts : wpc' \in [0 .. n - 1 -> Serving \cup {"move", "clear", "poll", "loop"}]
    BY <1>1, <1>2 DEF TypeOK
  <2>2. pending_clients' \in [Workers -> Seq(Clients)]
    <3>1. <<>> \in Seq(Clients)
      OBVIOUS
    <3> QED BY <3>1, <1>1, <1>2 DEF TypeOK
  <2> QED BY <2>1, <2>2, <1>1, <1>2, <1>3 DEF TypeOK
<1>5. MutexOK' /\ IndexOK'
  BY <1>1, <1>3 DEF IInv, MutexOK, IndexOK, Serving
<1>6. \A s, v, k, c : Holds(s, v, k, c)' <=> Holds(s, v, k, c)
  <2>1. \A v, k, c : InPending(v, k, c)' <=> InPending(v, k, c)
    BY <1>1, <1>3 DEF InPending
  <2>2. \A v, k, c : /\ InMain(c)' <=> InMain(c)
                     /\ InBacklog(k, c)' <=> InBacklog(k, c)
                     /\ InActive(v, k, c)' <=> InActive(v, k, c)
    BY <1>1, <1>3 DEF InMain, InBacklog, InActive
  <2> QED BY <2>1, <2>2 DEF Holds
<1>7. OnePlace' /\ HeldAreOpen' /\ (CInv => CInv')
  BY <1>1, <1>6, PlacesKept DEF IInv
<1>8. MarkedReadable'
  <2>1. Marked(w)'
    BY <1>3 DEF Marked, Ahead, Serving
  <2>2. \A c \in Clients : Readable(c) => Readable(c)'
    BY <1>1 DEF Readable, Gone
  <2> QED BY <2>1, <2>2, <1>1, <1>2, <1>3, OtherMarks DEF IInv
<1> QED BY <1>4, <1>5, <1>7, <1>8 DEF IInv

(* A step of a worker that moves no client.                                 *)
LEMMA WorkerMove ==
  ASSUME IInv, NEW w \in Workers, wpc[w] # "clear",
         NEW at \in Serving \cup {"move", "poll", "loop"}, wpc' = [wpc EXCEPT ![w] = at],
         NEW list \in Seq(Entry), active_clients' = [active_clients EXCEPT ![w] = list],
         DOMAIN list = DOMAIN active_clients[w],
         \A k \in DOMAIN list : list[k].fd = active_clients[w][k].fd,
         NEW n \in Nat, i' = [i EXCEPT ![w] = n],
         at \in Serving => n \in 1 .. Len(list),
         at = "loop" => n \in 0 .. Len(list),
         UNCHANGED <<backlog, acceptfd, connections, mtx, pending_clients, cpc, sent, closed>>,
         to_server' \in [Clients -> Seq(Pieces)],
         server' = "running" => server = "running",
         Marked(w)',
         \A v \in Workers : v # w => \A c \in Clients, k \in DOMAIN active_clients[v] :
             active_clients[v][k].fd = c /\ Readable(c) => Readable(c)'
  PROVE  IInv' /\ (CInv => CInv')
<1>1. TypeOK /\ wpc \in [Workers -> Serving \cup {"move", "clear", "poll", "loop"}]
  BY Types DEF IInv
<1>2. /\ Workers' = Workers
      /\ wpc'[w] = at /\ active_clients'[w] = list /\ i'[w] = n
      /\ \A v \in Workers : v # w => /\ active_clients'[v] = active_clients[v]
                                     /\ wpc'[v] = wpc[v] /\ i'[v] = i[v]
  BY <1>1 DEF Workers, TypeOK
<1>3. at # "clear"
  BY DEF Serving
<1>4. TypeOK'
  <2>1. \E m \in ThreadCounts : wpc' \in [0 .. m - 1 -> Serving \cup {"move", "clear", "poll", "loop"}]
    BY <1>1 DEF TypeOK
  <2>2. active_clients' \in [Workers -> Seq(Entry)] /\ i' \in [Workers -> Nat]
    BY <1>1 DEF TypeOK
  <2> QED BY <2>1, <2>2, <1>1, <1>2 DEF TypeOK
<1>5. MutexOK'
  BY <1>2, <1>3 DEF IInv, MutexOK
<1>6. IndexOK'
  BY <1>2 DEF IInv, IndexOK
<1>7. \A v \in Workers : /\ wpc'[v] = "clear" <=> wpc[v] = "clear"
                         /\ DOMAIN active_clients'[v] = DOMAIN active_clients[v]
                         /\ \A k \in DOMAIN active_clients[v] :
                               active_clients'[v][k].fd = active_clients[v][k].fd
  BY <1>2, <1>3
<1>8. \A s, v, k, c : Holds(s, v, k, c)' <=> Holds(s, v, k, c)
  BY <1>2, <1>7, StayingPut
<1>9. OnePlace' /\ HeldAreOpen' /\ (CInv => CInv')
  BY <1>8, PlacesKept DEF IInv
<1>10. MarkedReadable'
  BY <1>1, <1>2, OtherMarks DEF IInv
<1> QED BY <1>4, <1>5, <1>6, <1>9, <1>10 DEF IInv

(* poll.                                                                    *)
LEMMA PollStep ==
  ASSUME IInv, NEW w \in Workers, Poll(w)
  PROVE  IInv' /\ (CInv => CInv')
<1> DEFINE list == Polled(w)
<1>1. TypeOK /\ wpc \in [Workers -> Serving \cup {"move", "clear", "poll", "loop"}]
  BY Types DEF IInv
<1>2. /\ wpc[w] = "poll" /\ server' = server
      /\ active_clients' = [active_clients EXCEPT ![w] = list]
      /\ UNCHANGED <<backlog, acceptfd, connections, mtx, pending_clients, cpc, sent, to_server, closed>>
  BY DEF Poll, At, queues, clients, wire
<1>3. /\ list \in Seq(Entry) /\ Len(list) = Len(active_clients[w])
      /\ DOMAIN list = DOMAIN active_clients[w]
      /\ \A k \in DOMAIN list : /\ list[k].fd = active_clients[w][k].fd
                                /\ list[k].revents => Readable(active_clients[w][k].fd)
  BY <1>1, PolledIs
<1>4. PICK at \in {"loop", "move"} :
         /\ wpc' = [wpc EXCEPT ![w] = at]
         /\ at = "loop" => i' = [i EXCEPT ![w] = Len(active_clients[w])]
         /\ at = "move" => i' = i
  BY DEF Poll, WGoto
<1> HIDE DEF list
<1>5. PICK n \in Nat : /\ i' = [i EXCEPT ![w] = n]
                       /\ at = "loop" => n \in 0 .. Len(list)
  <2>1. CASE at = "loop"
    BY <2>1, <1>3, <1>4
  <2>2. CASE at = "move"
    <3>1. i[w] \in Nat /\ i' = [i EXCEPT ![w] = i[w]]
      BY <2>2, <1>1, <1>4 DEF TypeOK
    <3> QED BY <2>2, <3>1
  <2> QED BY <2>1, <2>2
<1>6. \A c \in Clients : Readable(c) => Readable(c)'
  BY <1>2 DEF Readable, Gone
<1>7. Marked(w)'
  <2>1. active_clients'[w] = list /\ wpc'[w] = at /\ i'[w] = n
    BY <1>1, <1>2, <1>4, <1>5 DEF TypeOK
  <2>2. CASE at = "move"
    BY <2>1, <2>2 DEF Marked, Ahead, Serving
  <2>3. CASE at = "loop"
    <3>1. Ahead(w)' \subseteq DOMAIN list
      <4>1. DOMAIN list = 1 .. Len(list) /\ Len(list) \in Nat
        BY <1>3
      <4> QED BY <4>1, <2>1, <2>3, <1>5 DEF Ahead
    <3>2. ASSUME NEW k \in DOMAIN list, list[k].revents
          PROVE  Readable(active_clients[w][k].fd)'
      <4>1. PICK c \in Clients : c = active_clients[w][k].fd
        BY <1>1, <1>3, ActiveIs
      <4>2. Readable(c)'
        BY <4>1, <3>2, <1>3, <1>6
      <4>3. active_clients'[w][k].fd = c
        BY <4>1, <2>1, <1>3
      <4> QED BY <4>2, <4>3
    <3> QED BY <3>1, <3>2, <2>1, <2>3 DEF Marked
  <2> QED BY <2>2, <2>3
<1>8. at \in Serving \cup {"move", "poll", "loop"} /\ at \notin Serving
  BY DEF Serving
<1>9. to_server' \in [Clients -> Seq(Pieces)]
  BY <1>1, <1>2 DEF TypeOK
<1>10. wpc[w] # "clear"
  BY <1>2
<1>11. /\ wpc' = [wpc EXCEPT ![w] = at] /\ i' = [i EXCEPT ![w] = n]
       /\ at = "loop" => n \in 0 .. Len(list)
  BY <1>4, <1>5
<1> QED BY <1>2, <1>3, <1>6, <1>7, <1>8, <1>9, <1>10, <1>11, WorkerMove
(* Likewise, if it does not touch the active clients either.                *)
LEMMA LoopMove ==
  ASSUME IInv, NEW w \in Workers, wpc[w] # "clear",
         NEW at \in Serving \cup {"move", "poll", "loop"}, wpc' = [wpc EXCEPT ![w] = at],
         NEW n \in Nat, i' = [i EXCEPT ![w] = n],
         at \in Serving => n \in 1 .. Len(active_clients[w]),
         at = "loop" => n \in 0 .. Len(active_clients[w]),
         UNCHANGED <<backlog, acceptfd, connections, mtx, pending_clients, cpc, sent, closed,
                     active_clients>>,
         to_server' \in [Clients -> Seq(Pieces)],
         server' = "running" => server = "running",
         Marked(w)',
         \A v \in Workers : v # w => \A c \in Clients, k \in DOMAIN active_clients[v] :
             active_clients[v][k].fd = c /\ Readable(c) => Readable(c)'
  PROVE  IInv' /\ (CInv => CInv')
<1>1. active_clients \in [Workers -> Seq(Entry)]
  BY DEF IInv, TypeOK
<1>2. PICK list \in Seq(Entry) : list = active_clients[w]
  BY <1>1
<1>3. active_clients' = [active_clients EXCEPT ![w] = list]
  BY <1>1, <1>2
<1>4. /\ DOMAIN list = DOMAIN active_clients[w]
      /\ \A k \in DOMAIN list : list[k].fd = active_clients[w][k].fd
      /\ at \in Serving => n \in 1 .. Len(list)
      /\ at = "loop" => n \in 0 .. Len(list)
  BY <1>2
<1> QED BY <1>3, <1>4, WorkerMove

(* The marks of a worker that goes on without reading: its index goes down  *)
(* or it begins with a client that is marked.                               *)
LEMMA LoopMarks ==
  ASSUME IInv, NEW w \in Workers, NEW at, NEW n,
         wpc'[w] = at, i'[w] = n, UNCHANGED <<active_clients, cpc, to_server>>,
         at \in Serving \cup {"move", "poll", "loop"},
         (IF at \in {"loop", "size"} THEN 1 .. n ELSE IF at \in Serving THEN 1 .. n - 1 ELSE {})
             \subseteq Ahead(w),
         at = "size" => active_clients[w][n].revents
  PROVE  Marked(w)'
<1>1. Ahead(w)' \subseteq Ahead(w)
  BY DEF Ahead
<1>2. \A k : Readable(active_clients[w][k].fd)' = Readable(active_clients[w][k].fd)
  BY DEF Readable, Gone
<1> QED BY <1>1, <1>2 DEF Marked, IInv, MarkedReadable

(* The loop over the active clients.                                        *)
LEMMA LoopStep ==
  ASSUME IInv, NEW w \in Workers, Loop(w)
  PROVE  IInv' /\ (CInv => CInv')
<1>1. TypeOK /\ wpc \in [Workers -> Serving \cup {"move", "clear", "poll", "loop"}]
      /\ i \in [Workers -> Nat]
  BY Types DEF IInv, TypeOK
<1>2. /\ wpc[w] = "loop" /\ server' = server
      /\ UNCHANGED <<backlog, acceptfd, connections, mtx, pending_clients, active_clients, cpc, sent,
                     to_server, closed>>
  BY DEF Loop, At, queues, clients, wire
<1>3. i[w] \in 0 .. Len(active_clients[w]) /\ Len(active_clients[w]) \in Nat
  BY <1>2, ActiveIs DEF IInv, IndexOK
<1>4. PICK at \in {"move", "loop", "size"}, n \in 0 .. Len(active_clients[w]) :
         /\ wpc' = [wpc EXCEPT ![w] = at] /\ i' = [i EXCEPT ![w] = n]
         /\ n <= i[w]
         /\ at = "size" => n > 0 /\ active_clients[w][n].revents
  <2>1. CASE i[w] = 0 /\ WGoto(w, "move") /\ UNCHANGED i
    <3>1. i' = [i EXCEPT ![w] = i[w]] /\ i[w] <= i[w]
      BY <2>1, <1>1, <1>3
    <3>2. wpc' = [wpc EXCEPT ![w] = "move"]
      BY <2>1 DEF WGoto
    <3> QED BY <3>1, <3>2, <1>3
  <2>2. CASE i[w] > 0 /\ i' = [i EXCEPT ![w] = @ - 1] /\ UNCHANGED wpc
    <3>1. i' = [i EXCEPT ![w] = i[w] - 1] /\ i[w] - 1 <= i[w]
          /\ i[w] - 1 \in 0 .. Len(active_clients[w])
      BY <2>2, <1>1, <1>3
    <3>2. wpc' = [wpc EXCEPT ![w] = "loop"]
      BY <2>2, <1>1, <1>2
    <3> QED BY <3>1, <3>2
  <2>3. CASE i[w] > 0 /\ active_clients[w][i[w]].revents /\ WGoto(w, "size") /\ UNCHANGED i
    <3>1. i' = [i EXCEPT ![w] = i[w]] /\ i[w] <= i[w]
      BY <2>3, <1>1, <1>3
    <3>2. wpc' = [wpc EXCEPT ![w] = "size"]
      BY <2>3 DEF WGoto
    <3> QED BY <2>3, <3>1, <3>2, <1>3
  <2> QED BY <2>1, <2>2, <2>3 DEF Loop
<1>5. \A c \in Clients : Readable(c) => Readable(c)'
  BY <1>2 DEF Readable, Gone
<1>6. at \in Serving \cup {"move", "poll", "loop"}
  BY DEF Serving
<1>7. /\ at \in Serving => n \in 1 .. Len(active_clients[w])
      /\ at = "loop" => n \in 0 .. Len(active_clients[w])
      /\ n \in Nat
  BY <1>3, <1>4 DEF Serving
<1>8. Marked(w)'
  <2>1. wpc'[w] = at /\ i'[w] = n
    BY <1>1, <1>4
  <2>2. 1 .. n \subseteq Ahead(w)
    BY <1>2, <1>3, <1>4 DEF Ahead
  <2>3. at = "move" => at \notin Serving
    BY DEF Serving
  <2>4. (IF at \in {"loop", "size"} THEN 1 .. n ELSE IF at \in Serving THEN 1 .. n - 1 ELSE {})
        \subseteq Ahead(w)
    BY <2>2, <2>3
  <2> QED BY <2>1, <2>4, <1>2, <1>4, <1>6, LoopMarks
<1>9. to_server' \in [Clients -> Seq(Pieces)] /\ wpc[w] # "clear"
  BY <1>1, <1>2 DEF TypeOK
<1>10. wpc' = [wpc EXCEPT ![w] = at] /\ i' = [i EXCEPT ![w] = n]
  BY <1>4
<1> QED BY <1>2, <1>5, <1>6, <1>7, <1>8, <1>9, <1>10, LoopMove

(* handle_client up to its close: the index stays, or goes down at the end. *)
(* What it reads is from the client at hand, which is nobody else's.        *)
LEMMA ServeStep ==
  ASSUME IInv, NEW w \in Workers,
         \/ RecvSize(w) \/ RecvPayload(w) \/ HandleAddSub(w) \/ HandleTermination(w)
         \/ SendSize(w) \/ SendCounter(w) \/ SigPipe(w)
  PROVE  IInv' /\ (CInv => CInv')
<1> USE DEF At, WGoto, queues, workers, clients, wire
<1>1. TypeOK /\ wpc \in [Workers -> Serving \cup {"move", "clear", "poll", "loop"}]
      /\ i \in [Workers -> Nat] /\ to_server \in [Clients -> Seq(Pieces)]
  BY Types DEF IInv, TypeOK
<1>2. /\ wpc[w] \in Serving
      /\ UNCHANGED <<backlog, acceptfd, connections, mtx, pending_clients, active_clients, cpc, sent,
                     closed>>
      /\ server' = "running" => server = "running"
  BY DEF Serving, RecvSize, RecvPayload, HandleAddSub, HandleTermination, SendSize, SendCounter, SigPipe
<1>3. /\ i[w] \in 1 .. Len(active_clients[w]) /\ Current(w) \in Clients
      /\ Len(active_clients[w]) \in Nat
  BY <1>1, <1>2, CurrentIs, ActiveIs DEF IInv
<1>4. PICK at \in {"loop", "payload", "close", "handle", "send_size", "send_payload"},
           n \in {i[w] - 1, i[w]} :
         /\ wpc' = [wpc EXCEPT ![w] = at] /\ i' = [i EXCEPT ![w] = n]
         /\ at = "loop" <=> n = i[w] - 1
  <2>1. i[w] # i[w] - 1 /\ i = [i EXCEPT ![w] = i[w]]
    BY <1>1, <1>3
  <2>2. CASE HandleAddSub(w)
    <3>1. wpc' = [wpc EXCEPT ![w] = "loop"] /\ i' = [i EXCEPT ![w] = i[w] - 1]
      BY <2>2 DEF HandleAddSub
    <3> QED BY <3>1
  <2>3. CASE RecvSize(w)
    <3>1. PICK at \in {"payload", "close"} : wpc' = [wpc EXCEPT ![w] = at]
      BY <2>3 DEF RecvSize
    <3>2. i' = i
      BY <2>3 DEF RecvSize
    <3> QED BY <3>1, <3>2, <2>1
  <2>4. CASE RecvPayload(w)
    <3>1. PICK at \in {"handle", "close"} : wpc' = [wpc EXCEPT ![w] = at]
      BY <2>4 DEF RecvPayload
    <3>2. i' = i
      BY <2>4 DEF RecvPayload
    <3> QED BY <3>1, <3>2, <2>1
  <2>5. CASE HandleTermination(w)
    <3>1. wpc' = [wpc EXCEPT ![w] = "send_size"] /\ i' = i
      BY <2>5 DEF HandleTermination
    <3> QED BY <3>1, <2>1
  <2>6. CASE SendSize(w)
    <3>1. wpc' = [wpc EXCEPT ![w] = "send_payload"] /\ i' = i
      BY <2>6 DEF SendSize
    <3> QED BY <3>1, <2>1
  <2>7. CASE SendCounter(w)
    <3>1. wpc' = [wpc EXCEPT ![w] = "close"] /\ i' = i
      BY <2>7 DEF SendCounter
    <3> QED BY <3>1, <2>1
  <2>8. CASE SigPipe(w)
    <3>1. wpc' = wpc /\ wpc[w] = "send_payload" /\ i' = i
      BY <2>8 DEF SigPipe
    <3>2. wpc' = [wpc EXCEPT ![w] = "send_payload"]
      BY <3>1, <1>1
    <3> QED BY <3>1, <3>2, <2>1
  <2> QED BY <2>2, <2>3, <2>4, <2>5, <2>6, <2>7, <2>8
<1>5. /\ to_server' \in [Clients -> Seq(Pieces)]
      /\ \A c \in Clients : c # Current(w) => to_server'[c] = to_server[c]
  <2>1. CASE UNCHANGED to_server
    BY <2>1, <1>1
  <2>2. CASE Consume(w) /\ to_server[Current(w)] # <<>>
    <3>1. Tail(to_server[Current(w)]) \in Seq(Pieces)
      BY <2>2, <1>1, <1>3
    <3>2. to_server' = [to_server EXCEPT ![Current(w)] = Tail(to_server[Current(w)])]
      BY <2>2 DEF Consume
    <3> HIDE DEF Pieces
    <3> QED BY <3>1, <3>2, <1>1, <1>3
  <2> QED BY <2>1, <2>2 DEF RecvSize, RecvPayload, HandleAddSub, HandleTermination, SendSize,
                            SendCounter, SigPipe
<1>6. ASSUME NEW v \in Workers, NEW c \in Clients, NEW k \in DOMAIN active_clients[v],
             ~(v = w /\ k = i[w]), active_clients[v][k].fd = c, Readable(c)
      PROVE  Readable(c)'
  <2>1. c # Current(w)
    BY <1>2, <1>6, OthersDiffer
  <2> QED BY <2>1, <1>2, <1>5, <1>6 DEF Readable, Gone
<1>7. at \in Serving \cup {"move", "poll", "loop"} /\ at # "size"
      /\ (at = "loop" \/ at \in Serving)
  BY DEF Serving
<1>8. /\ at \in Serving => n \in 1 .. Len(active_clients[w])
      /\ at = "loop" => n \in 0 .. Len(active_clients[w])
      /\ n \in Nat
  BY <1>3, <1>4 DEF Serving
<1>9. Marked(w)'
  <2>1. wpc'[w] = at /\ i'[w] = n
    BY <1>1, <1>4
  <2>2. Ahead(w)' = 1 .. i[w] - 1
    BY <2>1, <1>3, <1>4, <1>7 DEF Ahead, Serving
  <2>3. ASSUME NEW k \in 1 .. i[w] - 1, active_clients[w][k].revents
        PROVE  Readable(active_clients[w][k].fd)'
    <3>1. k \in Ahead(w) /\ k \in DOMAIN active_clients[w] /\ k # i[w]
      BY <1>1, <1>2, <1>3, ActiveIs DEF Ahead
    <3>2. PICK c \in Clients : c = active_clients[w][k].fd
      BY <3>1, <1>1, ActiveIs
    <3>3. Readable(c)
      BY <3>1, <3>2, <2>3 DEF IInv, MarkedReadable, Marked
    <3>4. Readable(c)'
      BY <3>1, <3>2, <3>3, <1>6
    <3>5. c = active_clients'[w][k].fd
      BY <3>2, <1>2
    <3> QED BY <3>4, <3>5
  <2> QED BY <2>1, <2>2, <2>3, <1>2, <1>7 DEF Marked
<1>10. wpc[w] # "clear"
  BY <1>2 DEF Serving
<1>11. wpc' = [wpc EXCEPT ![w] = at] /\ i' = [i EXCEPT ![w] = n]
  BY <1>4
<1>12. \A v \in Workers : v # w => \A c \in Clients, k \in DOMAIN active_clients[v] :
             active_clients[v][k].fd = c /\ Readable(c) => Readable(c)'
  BY <1>6
<1> HIDE DEF At, WGoto, queues, workers, clients, wire
<1> QED BY <1>2, <1>5, <1>7, <1>8, <1>9, <1>10, <1>11, <1>12, LoopMove
(* The close: the last active client takes the place of the closed one.     *)
LEMMA CloseStep ==
  ASSUME IInv, NEW w \in Workers, Close(w)
  PROVE  IInv' /\ (CInv => CInv')
<1> DEFINE a == active_clients[w]
           n == i[w]
           list == SwapRemove(a, n)
<1>1. /\ wpc[w] = "close" /\ server' = server
      /\ closed' = closed \cup {Current(w)}
      /\ active_clients' = [active_clients EXCEPT ![w] = list]
      /\ i' = [i EXCEPT ![w] = n - 1]
      /\ wpc' = [wpc EXCEPT ![w] = "loop"]
      /\ UNCHANGED <<backlog, acceptfd, connections, mtx, pending_clients, cpc, sent, to_server>>
  BY DEF Close, At, WGoto, queues, clients
<1>2. /\ TypeOK /\ wpc \in [Workers -> Serving \cup {"move", "clear", "poll", "loop"}]
      /\ i \in [Workers -> Nat] /\ active_clients \in [Workers -> Seq(Entry)]
      /\ wpc[w] \in Serving
  BY <1>1, Types DEF IInv, TypeOK, Serving
<1>3. /\ n \in 1 .. Len(a) /\ Len(a) \in Nat /\ a \in Seq(Entry) /\ DOMAIN a = 1 .. Len(a)
      /\ Current(w) \in Clients /\ a[n].fd = Current(w)
  BY <1>2, CurrentIs, ActiveIs DEF IInv, Current
<1>4. /\ list \in Seq(Entry) /\ Len(list) = Len(a) - 1 /\ DOMAIN list = 1 .. Len(a) - 1
      /\ \A j \in 1 .. Len(a) - 1 : list[j] = IF j = n THEN a[Len(a)] ELSE a[j]
  BY <1>3, SwapRemoveIs
<1>5. PICK cur \in Clients : cur = Current(w)
  BY <1>3
<1>6. Holds("active", w, n, cur)
  BY <1>3, <1>5 DEF Holds, InActive, a
<1>7. PICK L \in Nat : L = Len(a)
  BY <1>3
<1>8. /\ n \in 1 .. L /\ DOMAIN a = 1 .. L
       /\ list \in Seq(Entry) /\ Len(list) = L - 1 /\ DOMAIN list = 1 .. L - 1
       /\ \A j \in 1 .. L - 1 : list[j] = IF j = n THEN a[L] ELSE a[j]
  BY <1>3, <1>4, <1>7
<1> HIDE DEF a, n, list
<1>9. /\ Workers' = Workers
      /\ wpc'[w] = "loop" /\ active_clients'[w] = list /\ i'[w] = n - 1
      /\ \A v \in Workers : v # w => /\ active_clients'[v] = active_clients[v]
                                     /\ wpc'[v] = wpc[v] /\ i'[v] = i[v]
      /\ n - 1 \in 0 .. Len(list) /\ n - 1 \in Nat
  BY <1>1, <1>2, <1>8 DEF Workers
<1>10. TypeOK'
  <2>1. \E m \in ThreadCounts : wpc' \in [0 .. m - 1 -> Serving \cup {"move", "clear", "poll", "loop"}]
    BY <1>1, <1>2 DEF TypeOK
  <2>2. active_clients' \in [Workers -> Seq(Entry)] /\ i' \in [Workers -> Nat]
    BY <1>1, <1>2, <1>8, <1>9
  <2> QED BY <2>1, <2>2, <1>1, <1>2, <1>9 DEF TypeOK
<1>11. MutexOK'
  BY <1>1, <1>9 DEF IInv, MutexOK
<1>12. IndexOK'
  BY <1>9 DEF IInv, IndexOK, Serving
<1>13. \A v, k, c : /\ InMain(c)' <=> InMain(c)
                    /\ InBacklog(k, c)' <=> InBacklog(k, c)
                    /\ InPending(v, k, c)' <=> InPending(v, k, c)
                    /\ v # w => (InActive(v, k, c)' <=> InActive(v, k, c))
  BY <1>1, <1>9 DEF InMain, InBacklog, InPending, InActive
<1>14. ASSUME NEW k, NEW c, InActive(w, k, c)'
       PROVE  /\ k \in 1 .. L - 1
              /\ IF k = n THEN InActive(w, L, c) /\ n # L ELSE InActive(w, k, c)
  <2>1. k \in 1 .. L - 1 /\ list[k].fd = c
    BY <1>8, <1>9, <1>14 DEF InActive
  <2>2. k \in DOMAIN a /\ L \in DOMAIN a /\ k # L
    BY <2>1, <1>8
  <2> QED BY <2>1, <2>2, <1>8 DEF InActive, a
<1>15. ASSUME NEW c \in Clients, NEW s, NEW v, NEW k, Holds(s, v, k, c)'
       PROVE  /\ c # cur
              /\ \/ Holds(s, v, k, c) /\ ~(s = "active" /\ v = w /\ k = L)
                 \/ /\ s = "active" /\ v = w /\ k = n
                    /\ Holds("active", w, L, c)
  <2>1. CASE s = "active" /\ v = w
    <3>1. InActive(w, k, c)'
      BY <2>1, <1>15 DEF Holds
    <3>2. k # L
      BY <3>1, <1>14
    <3>3. CASE k = n
      <4>1. Holds("active", w, L, c) /\ n # L
        BY <3>1, <3>3, <1>14 DEF Holds
      <4>2. c # cur
        BY <4>1, <1>6 DEF IInv, OnePlace
      <4> QED BY <4>1, <4>2, <3>3, <2>1
    <3>4. CASE k # n
      <4>1. Holds("active", w, k, c)
        BY <3>1, <3>4, <1>14 DEF Holds
      <4>2. c # cur
        BY <4>1, <3>4, <1>6 DEF IInv, OnePlace
      <4> QED BY <4>1, <4>2, <3>2, <2>1
    <3> QED BY <3>3, <3>4
  <2>2. CASE ~(s = "active" /\ v = w)
    <3>1. Holds(s, v, k, c)
      BY <2>2, <1>13, <1>15 DEF Holds
    <3>2. c # cur
      BY <3>1, <2>2, <1>6 DEF IInv, OnePlace
    <3> QED BY <3>1, <3>2, <2>2
  <2> QED BY <2>1, <2>2
<1>16. OnePlace'
  <2> SUFFICES ASSUME NEW c \in Clients, NEW s1, NEW s2, NEW w1, NEW w2, NEW k1, NEW k2,
                      Holds(s1, w1, k1, c)', Holds(s2, w2, k2, c)'
               PROVE  s1 = s2 /\ w1 = w2 /\ k1 = k2
    BY DEF OnePlace
  <2>1. \A s3, s4, w3, w4, k3, k4 : Holds(s3, w3, k3, c) /\ Holds(s4, w4, k4, c)
                                     => s3 = s4 /\ w3 = w4 /\ k3 = k4
    BY DEF IInv, OnePlace
  <2> QED BY <2>1, <1>15
<1>17. HeldAreOpen'
  <2>1. ASSUME NEW c \in Clients, NEW s, NEW v, NEW k, Holds(s, v, k, c)'
        PROVE  cpc[c] # "connect" /\ c \notin closed /\ c # cur
    BY <2>1, <1>15 DEF IInv, HeldAreOpen
  <2>2. cpc[cur] # "connect"
    BY <1>6 DEF IInv, HeldAreOpen
  <2>3. closed' = closed \cup {cur}
    BY <1>1, <1>5
  <2>4. closed' \subseteq {c \in Clients : cpc'[c] # "connect"}
    BY <2>2, <2>3, <1>1 DEF IInv, HeldAreOpen
  <2> QED BY <2>1, <2>3, <2>4, <1>1 DEF HeldAreOpen
<1>18. \A c \in Clients : Readable(c) => Readable(c)'
  BY <1>1 DEF Readable, Gone
<1>19. Marked(w)'
  <2>1. Ahead(w)' = 1 .. n - 1
    BY <1>9 DEF Ahead
  <2>2. ASSUME NEW k \in 1 .. n - 1, list[k].revents
        PROVE  Readable(active_clients[w][k].fd)'
    <3>1. k \in Ahead(w) /\ k \in DOMAIN a /\ k \in 1 .. L - 1 /\ k # n
      BY <1>1, <1>2, <1>8 DEF Ahead, n
    <3>2. list[k] = a[k]
      BY <3>1, <1>8
    <3>3. PICK c \in Clients : c = a[k].fd
      BY <3>1, <1>2, ActiveIs DEF a
    <3>4. Readable(c)
      BY <2>2, <3>1, <3>2, <3>3 DEF IInv, MarkedReadable, Marked, a
    <3>5. Readable(c)' /\ c = active_clients'[w][k].fd
      BY <3>2, <3>3, <3>4, <1>9, <1>18
    <3> QED BY <3>5
  <2> QED BY <2>1, <2>2, <1>9 DEF Marked
<1>20. MarkedReadable'
  BY <1>2, <1>9, <1>18, <1>19, OtherMarks DEF IInv
<1>21. ASSUME CInv, server = "running" PROVE OpenAreHeld' /\ Counted'
  <2>1. OpenAreHeld /\ Counted
    BY <1>21 DEF CInv
  <2>2. ASSUME NEW c \in Clients, cpc[c] # "connect", c \notin closed, c # cur
        PROVE  \E s, v, k : Holds(s, v, k, c)'
    <3>1. PICK s, v, k : Holds(s, v, k, c)
      BY <2>1, <2>2 DEF OpenAreHeld
    <3>2. CASE s = "active" /\ v = w
      <4>1. k \in 1 .. L /\ a[k].fd = c
        BY <3>1, <3>2, <1>8 DEF Holds, InActive, a
      <4>2. k # n
        BY <4>1, <2>2, <1>3, <1>5
      <4>3. PICK j \in 1 .. L - 1 : list[j].fd = c
        <5>1. CASE k = L
          <6>1. n \in 1 .. L - 1
            BY <5>1, <4>2, <1>8
          <6> QED BY <6>1, <5>1, <4>1, <1>8
        <5>2. CASE k # L
          <6>1. k \in 1 .. L - 1
            BY <5>2, <4>1, <1>8
          <6> QED BY <6>1, <4>1, <4>2, <1>8
        <5> QED BY <5>1, <5>2
      <4>4. InActive(w, j, c)'
        BY <4>3, <1>8, <1>9 DEF InActive
      <4> QED BY <4>4 DEF Holds
    <3>3. CASE ~(s = "active" /\ v = w)
      BY <3>1, <3>3, <1>13 DEF Holds
    <3> QED BY <3>2, <3>3
  <2>3. Assigned' = Assigned
    BY <1>1 DEF Assigned
  <2>4. OpenAreHeld'
    BY <2>2, <1>1, <1>5 DEF OpenAreHeld
  <2> QED BY <2>1, <2>3, <2>4, <1>1 DEF Counted
<1> QED BY <1>1, <1>10, <1>11, <1>12, <1>16, <1>17, <1>20, <1>21 DEF IInv, CInv

-----------------------------------------------------------------------------
(* The results.                                                             *)

(* The invariant holds at first.                                            *)
LEMMA InitInv == Init => IInv /\ CInv
<1> SUFFICES ASSUME Init PROVE IInv /\ CInv
  OBVIOUS
<1>1. PICK n \in ThreadCounts : wpc = [w \in 0 .. n - 1 |-> "move"]
  BY DEF Init
<1>2. Workers = 0 .. n - 1 /\ \A w \in Workers : wpc[w] = "move"
  BY <1>1 DEF Workers
<1>3. <<>> \in Seq(Clients) /\ <<>> \in Seq(Entry) /\ <<>> \in Seq(Pieces)
  OBVIOUS
<1>4. TypeOK
  <2>1. wpc \in [0 .. n - 1 -> Serving \cup {"move", "clear", "poll", "loop"}]
    BY <1>1
  <2> QED BY <2>1, <1>3 DEF Init, TypeOK
<1>5. MutexOK /\ IndexOK /\ MarkedReadable
  BY <1>2 DEF Init, MutexOK, IndexOK, MarkedReadable, Marked, Ahead, Serving
<1>6. \A c \in Clients : \A s, w, k : ~Holds(s, w, k, c)
  BY ClientAssumption DEF Init, Holds, InMain, InBacklog, InPending, InActive
<1>7. \A c \in Clients : cpc[c] = "connect"
  BY DEF Init
<1>8. OnePlace /\ HeldAreOpen
  BY <1>6 DEF Init, OnePlace, HeldAreOpen
<1>9. OpenAreHeld
  BY <1>7 DEF OpenAreHeld
<1>10. Counted
  <2>1. Assigned = {}
    BY <1>7 DEF Assigned
  <2> QED BY <2>1, FS_EmptySet DEF Init, Counted
<1> QED BY <1>4, <1>5, <1>8, <1>9, <1>10 DEF IInv, CInv

(* Every step keeps the invariant, and, if there are no more clients than   *)
(* connections can count, loses none.                                       *)
LEMMA StepInv ==
  ASSUME IInv, [Next]_vars
  PROVE  IInv' /\ (Cardinality(Clients) <= INT_MAX /\ CInv => CInv')
<1>1. ASSUME NEW c \in Clients, Client(c) \/ Crash(c)
      PROVE  IInv' /\ (CInv => CInv')
  BY <1>1, ConnectStep, ClientSteps DEF Client
<1>2. CASE Main
  BY <1>2, AcceptStep, AssignStep DEF Main
<1>3. ASSUME NEW w \in Workers, Worker(w)
      PROVE  IInv' /\ (CInv => CInv')
  BY <1>3, MoveStep, ClearStep, PollStep, LoopStep, ServeStep, CloseStep DEF Worker
<1>4. CASE UNCHANGED vars
  <2>1. UNCHANGED <<server, backlog, acceptfd, connections, mtx, pending_clients, active_clients, wpc,
                    i, closed, cpc, sent, to_server>>
    BY <1>4 DEF vars, queues, workers, clients, wire
  <2>2. TypeOK' /\ \A c \in Clients : Readable(c) => Readable(c)'
    BY <2>1 DEF IInv, TypeOK, Workers, Readable, Gone
  <2> QED BY <2>1, <2>2, ClientMove
<1>5. CASE AllGone
  BY <1>4, <1>5 DEF AllGone
<1> QED BY <1>1, <1>2, <1>3, <1>4, <1>5 DEF Next

(* The holders of a connection are the places it is in.                     *)
LEMMA HoldersAre ==
  ASSUME IInv, NEW c \in Clients
  PROVE  /\ \A x \in Holders(c) : \E s, w, k : Holds(s, w, k, c)
         /\ \A x, y \in Holders(c) : x = y
         /\ (\E s, w, k : Holds(s, w, k, c)) => Holders(c) # {}
<1> DEFINE M == {<<"main", 1>> : k \in {acceptfd} \cap {c}}
           B == {<<"backlog", k>> : k \in {k \in DOMAIN backlog : backlog[k] = c}}
           P(w) == {<<"pending", w, k>> : k \in {k \in DOMAIN pending_clients[w] :
                        pending_clients[w][k] = c /\ wpc[w] # "clear"}}
           A(w) == {<<"active", w, k>> : k \in {k \in DOMAIN active_clients[w] :
                        active_clients[w][k].fd = c}}
           UP == UNION {P(w) : w \in Workers}
           UA == UNION {A(w) : w \in Workers}
<1>1. Holders(c) = M \cup B \cup UP \cup UA
  BY DEF Holders
<1>2. /\ \A x : x \in M <=> x = <<"main", 1>> /\ Holds("main", 0, 0, c)
      /\ \A x : x \in B <=> \E k : x = <<"backlog", k>> /\ Holds("backlog", 0, k, c)
  BY DEF Holds, InMain, InBacklog
<1>3. \A w \in Workers : \A x :
         x \in P(w) <=> \E k : x = <<"pending", w, k>> /\ Holds("pending", w, k, c)
  BY DEF Holds, InPending
<1>4. \A w \in Workers : \A x :
         x \in A(w) <=> \E k : x = <<"active", w, k>> /\ Holds("active", w, k, c)
  BY DEF Holds, InActive
<1>5. \A w, k : Holds("pending", w, k, c) \/ Holds("active", w, k, c) => w \in Workers
  BY DEF Holds, InPending, InActive
<1> HIDE DEF M, B, P, A
<1>6. \A x : x \in Holders(c) <=>
         \/ x \in M
         \/ x \in B
         \/ \E w \in Workers : x \in P(w)
         \/ \E w \in Workers : x \in A(w)
  <2>1. \A x : x \in UP <=> \E w \in Workers : x \in P(w)
    BY Zenon
  <2>2. \A x : x \in UA <=> \E w \in Workers : x \in A(w)
    BY Zenon
  <2> HIDE DEF UP, UA
  <2> QED BY <1>1, <2>1, <2>2
<1> HIDE DEF UP, UA
<1>7. \A x \in Holders(c) :
         \/ x = <<"main", 1>> /\ Holds("main", 0, 0, c)
         \/ \E k : x = <<"backlog", k>> /\ Holds("backlog", 0, k, c)
         \/ \E w, k : x = <<"pending", w, k>> /\ Holds("pending", w, k, c)
         \/ \E w, k : x = <<"active", w, k>> /\ Holds("active", w, k, c)
  BY <1>2, <1>3, <1>4, <1>6
<1>8. \A s1, s2, w1, w2, k1, k2 :
         Holds(s1, w1, k1, c) /\ Holds(s2, w2, k2, c) => s1 = s2 /\ w1 = w2 /\ k1 = k2
  BY DEF IInv, OnePlace
<1>9. \A x, y \in Holders(c) : x = y
  BY <1>7, <1>8
<1>10. ASSUME NEW s, NEW w, NEW k, Holds(s, w, k, c) PROVE Holders(c) # {}
  <2>1. CASE s = "main"
    <3>1. <<"main", 1>> \in M
      BY <1>2, <1>10, <2>1 DEF Holds
    <3> QED BY <3>1, <1>6
  <2>2. CASE s = "backlog"
    <3>1. <<"backlog", k>> \in B
      BY <1>2, <1>10, <2>2 DEF Holds
    <3> QED BY <3>1, <1>6
  <2>3. CASE s = "pending"
    <3>1. w \in Workers /\ <<"pending", w, k>> \in P(w)
      BY <1>3, <1>5, <1>10, <2>3
    <3> QED BY <3>1, <1>6
  <2>4. CASE s = "active"
    <3>1. w \in Workers /\ <<"active", w, k>> \in A(w)
      BY <1>4, <1>5, <1>10, <2>4
    <3> QED BY <3>1, <1>6
  <2> QED BY <1>10, <2>1, <2>2, <2>3, <2>4 DEF Holds
<1>11. \A x \in Holders(c) : \E s, w, k : Holds(s, w, k, c)
  BY <1>7
<1> QED BY <1>9, <1>10, <1>11

(* The server's invariant, for any number of clients and workers.           *)
THEOREM CounterServerInvariance == Spec => []IInv
<1>1. Init => IInv
  BY InitInv
<1>2. IInv /\ [Next]_vars => IInv'
  BY StepInv
<1> QED BY <1>1, <1>2, PTL DEF Spec

(* recv_msg is entered only for a client with something to read, although   *)
(* close moves entries about while the loop runs over them.                 *)
THEOREM NeverReadsIdle == Spec => []NoRecvOnIdleClient
<1>1. IInv => NoRecvOnIdleClient
  <2> SUFFICES ASSUME IInv, NEW w \in Workers, wpc[w] = "size"
               PROVE  Readable(Current(w))
    BY DEF NoRecvOnIdleClient
  <2>1. i[w] \in 1 .. Len(active_clients[w]) /\ Len(active_clients[w]) \in Nat
    BY CurrentIs, ActiveIs DEF IInv, Serving
  <2>2. i[w] \in Ahead(w)
    BY <2>1 DEF Ahead
  <2> QED BY <2>2 DEF IInv, MarkedReadable, Marked, Current
<1> QED BY <1>1, CounterServerInvariance, PTL

(* A connection is held in one place from the listen queue to its close and *)
(* in none afterwards, if there are no more clients than connections can    *)
(* count.                                                                   *)
THEOREM HeldInOnePlace ==
  ASSUME Cardinality(Clients) <= INT_MAX
  PROVE  Spec => []ServedByOne
<1>1. IInv /\ CInv /\ [Next]_vars => IInv' /\ CInv'
  BY StepInv
<1>2. IInv /\ CInv => ServedByOne
  <2> SUFFICES ASSUME IInv, OpenAreHeld, NEW c \in Clients, cpc[c] # "connect"
               PROVE  Cardinality(Holders(c)) = (IF c \in closed THEN 0 ELSE 1)
    BY DEF ServedByOne, CInv
  <2>1. CASE c \in closed
    <3>1. Holders(c) = {}
      BY <2>1, HoldersAre DEF IInv, HeldAreOpen
    <3> QED BY <2>1, <3>1, FS_EmptySet
  <2>2. CASE c \notin closed
    <3>1. \E s, w, k : Holds(s, w, k, c)
      BY <2>2 DEF OpenAreHeld
    <3>2. PICK x \in Holders(c) : TRUE
      BY <3>1, HoldersAre
    <3>3. Holders(c) = {x}
      BY <3>2, HoldersAre
    <3> QED BY <2>2, <3>3, FS_Singleton
  <2> QED BY <2>1, <2>2
<1> QED BY InitInv, <1>1, <1>2, PTL DEF Spec

-----------------------------------------------------------------------------
(* Sums over the clients.                                                   *)

(* A set of numbers has a least one: induction by the least exception.      *)
LEMMA Least ==
  ASSUME NEW T, T \subseteq Nat, T # {}
  PROVE  \E x \in T : \A y \in T : x <= y
<1>1. PICK x \in T : \A y \in T : ~ (<<y, x>> \in OpToRel(<, Nat))
  <2> HIDE DEF OpToRel
  <2> QED BY NatLessThanWellFounded, WFMin
<1>2. \A y \in T : ~(y < x)
  BY <1>1 DEF OpToRel
<1> QED BY <1>2

(* The element a sum takes next, and the equation of a sum g of the values  *)
(* T over the sets of D.                                                    *)
Choice(s)       == CHOOSE x \in s : TRUE
SumAt(T, g, s)  == IF s = {} THEN 0 ELSE T[Choice(s)] + g[s \ {Choice(s)}]
Adds(T, g, D)   == g = [s \in D |-> SumAt(T, g, s)]
UpTo(k)         == {s \in SUBSET Clients : Cardinality(s) <= k}

(* Taking an element out of a set of clients.                               *)
LEMMA TakeOne ==
  ASSUME NEW s \in SUBSET Clients, s # {}
  PROVE  /\ Choice(s) \in s /\ s \ {Choice(s)} \in SUBSET Clients
         /\ Cardinality(s) \in Nat /\ Cardinality(s \ {Choice(s)}) \in Nat
         /\ Cardinality(s \ {Choice(s)}) = Cardinality(s) - 1
<1>1. Choice(s) \in s
  BY DEF Choice
<1>2. IsFiniteSet(s)
  BY ClientAssumption, FS_Subset
<1> QED BY <1>1, <1>2, FS_RemoveElement, FS_CardinalityType

(* The equation has a solution for the sets of up to k clients.             *)
LEMMA AddsUpTo ==
  ASSUME NEW T
  PROVE  \A k \in Nat : \E g : Adds(T, g, UpTo(k))
<1> DEFINE X == {k \in Nat : ~\E g : Adds(T, g, UpTo(k))}
<1>1. SUFFICES ASSUME X # {} PROVE FALSE
  OBVIOUS
<1>2. PICK k \in X : \A y \in X : k <= y
  <2>1. X \subseteq Nat
    OBVIOUS
  <2> HIDE DEF X
  <2> QED BY <1>1, <2>1, Least
<1>3. k \in Nat /\ ~\E g : Adds(T, g, UpTo(k))
  OBVIOUS
<1> DEFINE Below(h) == \A s \in UpTo(k) : s # {} =>
                          /\ s \ {Choice(s)} \in DOMAIN h
                          /\ h[s \ {Choice(s)}] = SumAt(T, h, s \ {Choice(s)})
<1>4. \E h : Below(h)
  <2>1. CASE k = 0
    <3>1. ASSUME NEW s \in UpTo(k), s # {} PROVE FALSE
      <4>1. s \in SUBSET Clients /\ Cardinality(s) <= 0
        BY <2>1 DEF UpTo
      <4>2. /\ Cardinality(s) \in Nat /\ Cardinality(s \ {Choice(s)}) \in Nat
            /\ Cardinality(s \ {Choice(s)}) = Cardinality(s) - 1
        BY <3>1, <4>1, TakeOne
      <4> QED BY <4>1, <4>2
    <3> QED BY <3>1, Zenon
  <2>2. CASE k > 0
    <3>1. k - 1 \in Nat /\ k - 1 \notin X
      BY <1>2, <1>3, <2>2
    <3>2. PICK h : Adds(T, h, UpTo(k - 1))
      BY <3>1
    <3>3. ASSUME NEW s \in UpTo(k), s # {} PROVE s \ {Choice(s)} \in UpTo(k - 1)
      BY <3>3, <1>3, TakeOne DEF UpTo
    <3>4. Below(h)
      BY <3>2, <3>3 DEF Adds
    <3> QED BY <3>4, Zenon
  <2>3. k = 0 \/ k > 0
    BY <1>3
  <2> QED BY <2>1, <2>2, <2>3, Zenon
<1>5. PICK h : Below(h)
  BY <1>4, Zenon
<1> DEFINE g == [s \in UpTo(k) |-> SumAt(T, h, s)]
<1>6. ASSUME NEW s \in UpTo(k) PROVE SumAt(T, h, s) = SumAt(T, g, s)
  <2>1. CASE s = {}
    BY <2>1 DEF SumAt
  <2>2. CASE s # {}
    <3>1. s \ {Choice(s)} \in UpTo(k)
      BY <1>3, <2>2, TakeOne DEF UpTo
    <3>2. g[s \ {Choice(s)}] = h[s \ {Choice(s)}]
      BY <3>1, <2>2, <1>5
    <3> HIDE DEF g
    <3> QED BY <3>2, <2>2 DEF SumAt
  <2> QED BY <2>1, <2>2
<1>7. Adds(T, g, UpTo(k))
  BY <1>6 DEF Adds
<1> QED BY <1>3, <1>7

(* SumOfTotals is the solution for all clients.                             *)
LEMMA SumIs ==
  ASSUME NEW n
  PROVE  \E g : /\ Adds([c \in Clients |-> Total(n[c])], g, SUBSET Clients)
                /\ SumOfTotals(n) = g[Clients]
<1> DEFINE T == [c \in Clients |-> Total(n[c])]
           F(g) == [s \in SUBSET Clients |->
                      IF s = {} THEN 0 ELSE Total(n[Choice(s)]) + g[s \ {Choice(s)}]]
<1>1. PICK f : SumOfTotals(n) = f[Clients] /\ f = CHOOSE g : g = F(g)
  <2>1. SumOfTotals(n) = (CHOOSE g : g = [s \in SUBSET Clients |->
           IF s = {} THEN 0 ELSE Total(n[Choice(s)]) + g[s \ {Choice(s)}]])[Clients]
    BY DEF SumOfTotals, MapThenSumSet, MapThenFoldSet, Choice
  <2> QED BY <2>1
<1>2. SUBSET Clients = UpTo(Cardinality(Clients)) /\ Cardinality(Clients) \in Nat
  <2>1. \A s \in SUBSET Clients : Cardinality(s) <= Cardinality(Clients)
    BY ClientAssumption, FS_Subset
  <2> QED BY <2>1, ClientAssumption, FS_CardinalityType DEF UpTo
<1>3. PICK h : Adds(T, h, SUBSET Clients)
  <2>1. PICK k \in Nat : SUBSET Clients = UpTo(k)
    BY <1>2
  <2>2. \E h : Adds(T, h, UpTo(k))
    BY AddsUpTo, Zenon
  <2> QED BY <2>1, <2>2
<1>4. \A s \in SUBSET Clients : s # {} => T[Choice(s)] = Total(n[Choice(s)])
  BY TakeOne
<1> HIDE DEF T
<1>5. ASSUME NEW g PROVE \A s \in SUBSET Clients : F(g)[s] = SumAt(T, g, s)
  BY <1>4 DEF SumAt
<1>6. \A g : F(g) = [s \in SUBSET Clients |-> SumAt(T, g, s)]
  BY <1>5
<1>7. h = F(h)
  BY <1>3, <1>6 DEF Adds
<1>8. f = F(f)
  <2> HIDE DEF F
  <2> QED BY <1>1, <1>7
<1>9. Adds(T, f, SUBSET Clients)
  <2> HIDE DEF F
  <2> QED BY <1>6, <1>8 DEF Adds
<1> QED BY <1>1, <1>9 DEF T

(* Two sums that differ in the value of c.                                  *)
Differ(T, U, c) == \A d \in Clients : /\ T[d] \in Int /\ U[d] \in Int
                                      /\ d # c => U[d] = T[d]
Diff(T, U, c, s) == IF c \in s THEN U[c] - T[c] ELSE 0
Apart(T, U, c, g, h, s) == /\ g[s] \in Int /\ h[s] \in Int
                           /\ h[s] = g[s] + Diff(T, U, c, s)
(* Sums of values that differ at c only differ by what c adds.              *)
LEMMA SumsDiffer ==
  ASSUME NEW T, NEW U, NEW c, Differ(T, U, c),
         NEW g, NEW h, Adds(T, g, SUBSET Clients), Adds(U, h, SUBSET Clients)
  PROVE  \A s \in SUBSET Clients : Apart(T, U, c, g, h, s)
<1> DEFINE X == {k \in Nat : \E s \in SUBSET Clients : /\ Cardinality(s) = k
                                                       /\ ~Apart(T, U, c, g, h, s)}
<1>1. SUFFICES ASSUME X # {} PROVE FALSE
  <2>1. \A s \in SUBSET Clients : Cardinality(s) \in Nat
    BY ClientAssumption, FS_Subset, FS_CardinalityType
  <2> QED BY <2>1
<1>2. PICK k \in X : \A y \in X : k <= y
  <2>1. X \subseteq Nat
    OBVIOUS
  <2> HIDE DEF X
  <2> QED BY <1>1, <2>1, Least
<1>3. PICK s \in SUBSET Clients : Cardinality(s) = k /\ ~Apart(T, U, c, g, h, s)
  OBVIOUS
<1>4. g[s] = SumAt(T, g, s) /\ h[s] = SumAt(U, h, s)
  BY DEF Adds
<1>5. CASE s = {}
  BY <1>3, <1>4, <1>5 DEF SumAt, Apart, Diff
<1>6. CASE s # {}
  <2>1. PICK d \in s : d = Choice(s)
    BY <1>6, TakeOne
  <2>2. PICK t \in SUBSET Clients : t = s \ {d}
    OBVIOUS
  <2>3. Cardinality(t) \in Nat /\ Cardinality(t) = Cardinality(s) - 1 /\ Cardinality(s) \in Nat
    BY <1>6, <2>1, <2>2, TakeOne
  <2>4. Cardinality(t) \notin X
    BY <1>2, <1>3, <2>3
  <2>5. Apart(T, U, c, g, h, t)
    BY <2>3, <2>4
  <2> HIDE DEF X
  <2>6. g[s] = T[d] + g[t] /\ h[s] = U[d] + h[t]
    BY <1>4, <1>6, <2>1, <2>2 DEF SumAt
  <2>7. T[d] \in Int /\ U[d] \in Int /\ (d # c => U[d] = T[d])
    BY DEF Differ
  <2>8. Apart(T, U, c, g, h, s)
    <3>1. CASE d = c
      <4>1. Diff(T, U, c, t) = 0 /\ Diff(T, U, c, s) = U[d] - T[d]
        BY <2>2, <3>1 DEF Diff
      <4> QED BY <4>1, <2>5, <2>6, <2>7 DEF Apart
    <3>2. CASE d # c
      <4>1. Diff(T, U, c, t) = Diff(T, U, c, s)
        BY <2>2, <3>2 DEF Diff
      <4>2. Diff(T, U, c, t) \in Int
        BY DEF Diff, Differ
      <4> QED BY <3>2, <4>1, <4>2, <2>5, <2>6, <2>7 DEF Apart
    <3> QED BY <3>1, <3>2
  <2> QED BY <2>8, <1>3
<1> QED BY <1>5, <1>6

(* The sum of the totals after the number of c has changed.                 *)
LEMMA SumChanges ==
  ASSUME NEW n, NEW m, NEW c \in Clients,
         \A d \in Clients : Total(n[d]) \in Int /\ Total(m[d]) \in Int,
         \A d \in Clients : d # c => Total(m[d]) = Total(n[d])
  PROVE  /\ SumOfTotals(n) \in Int /\ SumOfTotals(m) \in Int
         /\ SumOfTotals(m) = SumOfTotals(n) + (Total(m[c]) - Total(n[c]))
<1> DEFINE T == [d \in Clients |-> Total(n[d])]
           U == [d \in Clients |-> Total(m[d])]
<1>1. PICK g : Adds(T, g, SUBSET Clients) /\ SumOfTotals(n) = g[Clients]
  BY SumIs
<1>2. PICK h : Adds(U, h, SUBSET Clients) /\ SumOfTotals(m) = h[Clients]
  BY SumIs
<1>3. Differ(T, U, c)
  BY DEF Differ
<1>4. Diff(T, U, c, Clients) = Total(m[c]) - Total(n[c])
  BY DEF Diff
<1> HIDE DEF T, U
<1>5. Apart(T, U, c, g, h, Clients)
  <2>1. \A s \in SUBSET Clients : Apart(T, U, c, g, h, s)
    BY <1>1, <1>2, <1>3, SumsDiffer, Zenon
  <2> QED BY <2>1
<1> QED BY <1>1, <1>2, <1>4, <1>5 DEF Apart

(* Numbers with the same totals have the same sum.                          *)
LEMMA SumSame ==
  ASSUME NEW n, NEW m, \A d \in Clients : Total(n[d]) \in Int /\ Total(m[d]) = Total(n[d])
  PROVE  SumOfTotals(n) \in Int /\ SumOfTotals(m) = SumOfTotals(n)
<1> DEFINE T == [d \in Clients |-> Total(n[d])]
           U == [d \in Clients |-> Total(m[d])]
<1>1. PICK g : Adds(T, g, SUBSET Clients) /\ SumOfTotals(n) = g[Clients]
  BY SumIs
<1>2. PICK h : Adds(U, h, SUBSET Clients) /\ SumOfTotals(m) = h[Clients]
  BY SumIs
<1>3. Differ(T, U, NONE)
  BY DEF Differ
<1>4. Diff(T, U, NONE, Clients) = 0
  BY ClientAssumption DEF Diff
<1> HIDE DEF T, U
<1>5. Apart(T, U, NONE, g, h, Clients)
  <2>1. \A s \in SUBSET Clients : Apart(T, U, NONE, g, h, s)
    BY <1>1, <1>2, <1>3, SumsDiffer, Zenon
  <2> QED BY <2>1
<1> QED BY <1>1, <1>2, <1>4, <1>5 DEF Apart

(* What nobody has sent adds up to nothing.                                 *)
LEMMA SumZero ==
  ASSUME NEW n, \A d \in Clients : Total(n[d]) = 0
  PROVE  SumOfTotals(n) = 0
<1> DEFINE T == [d \in Clients |-> Total(n[d])]
           Z == [s \in SUBSET Clients |-> 0]
<1>1. PICK g : Adds(T, g, SUBSET Clients) /\ SumOfTotals(n) = g[Clients]
  BY SumIs
<1>2. Adds(T, Z, SUBSET Clients)
  <2>1. ASSUME NEW s \in SUBSET Clients PROVE SumAt(T, Z, s) = 0
    <3>1. CASE s # {}
      <4>1. Choice(s) \in Clients /\ s \ {Choice(s)} \in SUBSET Clients
        BY <3>1, TakeOne
      <4>2. T[Choice(s)] = 0 /\ Z[s \ {Choice(s)}] = 0
        BY <4>1
      <4> QED BY <3>1, <4>2 DEF SumAt
    <3> QED BY <3>1 DEF SumAt
  <2> QED BY <2>1 DEF Adds
<1>3. Differ(T, T, NONE)
  BY DEF Differ
<1>4. Diff(T, T, NONE, Clients) = 0 /\ Z[Clients] = 0
  BY ClientAssumption DEF Diff
<1> HIDE DEF T, Z
<1>5. Apart(T, T, NONE, Z, g, Clients)
  <2>1. \A s \in SUBSET Clients : Apart(T, T, NONE, Z, g, s)
    BY <1>1, <1>2, <1>3, SumsDiffer, Zenon
  <2> QED BY <2>1
<1> QED BY <1>1, <1>4, <1>5 DEF Apart

(* What one message more does to the total of a client.                     *)
LEMMA Halves ==
  ASSUME NEW q \in Nat
  PROVE  /\ (2 * q) \div 2 = q /\ (2 * q + 1) \div 2 = q /\ (2 * q + 1 + 1) \div 2 = q + 1
         /\ (2 * q) % 2 = 0 /\ (2 * q + 1) % 2 = 1
OBVIOUS

(* Every number is even or odd.                                             *)
LEMMA EvenOrOdd ==
  ASSUME NEW n \in Nat
  PROVE  \E q \in Nat : n = 2 * q \/ n = 2 * q + 1
<1>1. n \div 2 \in Nat /\ (n = 2 * (n \div 2) \/ n = 2 * (n \div 2) + 1)
  OBVIOUS
<1> QED BY <1>1

(* The totals are numbers.                                                  *)
LEMMA TotalType ==
  ASSUME NEW n \in Nat
  PROVE  Total(n) \in Int
<1>1. PICK p \in Nat : p = IF n = LastMsg THEN numMessages ELSE n
  BY ClientAssumption
<1>2. PICK a \in Int, b \in Int : a = (p + 1) \div 2 /\ b = p \div 2
  OBVIOUS
<1>3. Total(n) = a * add - b * sub
  BY <1>1, <1>2 DEF Total
<1> QED BY <1>3, ClientAssumption

(* One message more adds its effect to the total.                           *)
LEMMA TotalStep ==
  ASSUME NEW n \in Nat, n < numMessages
  PROVE  Total(n + 1) = Total(n) + Effect(n + 1) /\ Effect(n + 1) \in Int
<1> USE ClientAssumption
<1>1. n # LastMsg /\ n + 1 # LastMsg
  BY DEF LastMsg
<1>2. /\ Total(n) = ((n + 1) \div 2) * add - (n \div 2) * sub
      /\ Total(n + 1) = ((n + 1 + 1) \div 2) * add - ((n + 1) \div 2) * sub
  BY <1>1 DEF Total
<1>3. PICK q \in Nat : n = 2 * q \/ n = 2 * q + 1
  BY EvenOrOdd
<1>4. CASE n = 2 * q
  <2>1. Total(n) = q * add - q * sub /\ Total(n + 1) = (q + 1) * add - q * sub
    BY <1>2, <1>4, Halves
  <2>2. Effect(n + 1) = add
    BY <1>1, <1>4, Halves DEF Effect, Op
  <2> QED BY <2>1, <2>2
<1>5. CASE n = 2 * q + 1
  <2>1. n + 1 = 2 * (q + 1) /\ n + 1 + 1 = 2 * (q + 1) + 1 /\ q + 1 \in Nat
    BY <1>5
  <2>2. Total(n) = (q + 1) * add - q * sub /\ Total(n + 1) = (q + 1) * add - (q + 1) * sub
    BY <1>2, <1>5, <2>1, Halves
  <2>3. Effect(n + 1) = - sub
    BY <1>1, <2>1, Halves DEF Effect, Op
  <2> QED BY <2>2, <2>3
<1> QED BY <1>3, <1>4, <1>5

(* TERMINATION does not count.                                              *)
LEMMA TotalLast == Total(LastMsg) = Total(numMessages)
<1>1. numMessages # LastMsg
  BY ClientAssumption DEF LastMsg
<1> QED BY <1>1 DEF Total

(* A number has one remainder.                                              *)
LEMMA OneRemainder ==
  ASSUME NEW m \in Nat \ {0}, NEW a \in Int, NEW b \in Int, NEW r \in 0 .. m - 1, NEW s \in 0 .. m - 1,
         a * m + r = b * m + s
  PROVE  r = s
<1>1. PICK e \in Int : e = a - b
  OBVIOUS
<1>2. e * m = s - r
  BY <1>1
<1>3. CASE e >= 1
  <2>1. e * m >= m
    BY <1>3
  <2> QED BY <1>2, <2>1
<1>4. CASE e <= -1
  <2>1. e * m <= -m
    BY <1>4
  <2> QED BY <1>2, <2>1
<1>5. CASE e = 0
  BY <1>2, <1>5
<1> QED BY <1>3, <1>4, <1>5

(* Every number has a remainder.                                            *)
LEMMA Remainder ==
  ASSUME NEW m \in Nat \ {0}, NEW x \in Int
  PROVE  \E q \in Int, y \in 0 .. m - 1 : x = q * m + y /\ y = x % m
OBVIOUS

(* fetch_add on the remainder of a sum is the remainder of the sum.         *)
LEMMA AddWrapped ==
  ASSUME NEW x \in Int, NEW d \in Int
  PROVE  FetchAdd(x % INT64, d) = (x + d) % INT64
<1>1. PICK m \in Nat \ {0} : m = INT64
  BY ServerAssumption
<1>2. PICK q \in Int, y \in 0 .. m - 1 : x = q * m + y /\ y = (x) % m
  BY Remainder
<1>0. y + d \in Int /\ x + d \in Int
  OBVIOUS
<1>3. PICK p \in Int, u \in 0 .. m - 1 : y + d = p * m + u /\ u = (y + d) % m
  BY <1>0, Remainder
<1>4. PICK o \in Int, v \in 0 .. m - 1 : x + d = o * m + v /\ v = (x + d) % m
  BY <1>0, Remainder
<1>5. (q + p) * m + u = o * m + v
  BY <1>2, <1>3, <1>4
<1>6. u = v
  BY <1>5, OneRemainder
<1> QED BY <1>1, <1>2, <1>3, <1>4, <1>6 DEF FetchAdd

-----------------------------------------------------------------------------
(* What the counter has seen.                                               *)

(* Worker w is at a place of handle_client or close with client c at hand.  *)
InHand(w, c, at) == w \in Workers /\ wpc[w] = at /\ Current(w) = c

(* The p-th piece that a client sends.                                      *)
Piece(p) == <<IF p % 2 = 1 THEN "size" ELSE "payload", (p + 1) \div 2>>

(* Client c has sent S pieces: two for each message, in order.              *)
SentOK(c, S) ==
    /\ sent[c] \in 0 .. LastMsg
    /\ S = 2 * sent[c] \/ S = 2 * sent[c] + 1
    /\ cpc[c] = "connect" => S = 0
    /\ cpc[c] \in {"header", "receive"} => S = 2 * sent[c]
    /\ cpc[c] = "payload" => S = 2 * sent[c] + 1
    /\ cpc[c] = "receive" => sent[c] = LastMsg
    /\ sent[c] = LastMsg => S = 2 * sent[c] /\ cpc[c] \notin {"connect", "header", "payload"}

(* The server has read K pieces of c: a length without its payload only     *)
(* between the two reads or once the connection is given up.                *)
ReadOK(c, K) ==
    /\ K % 2 = 1 => \/ c \in closed
                    \/ \E w : InHand(w, c, "payload") \/ InHand(w, c, "close")
    /\ \A w : InHand(w, c, "payload") => K % 2 = 1
    /\ \A w : InHand(w, c, "handle") => K % 2 = 0 /\ K >= 2 /\ msg[w] = K \div 2

StreamAt(c, K) ==
    /\ \A k \in DOMAIN to_server[c] : to_server[c][k] = Piece(K + k)
    /\ SentOK(c, K + Len(to_server[c]))
    /\ ReadOK(c, K)
Streams == \A c \in Clients : \E K \in Nat : StreamAt(c, K)

(* v is the sum of all operations of c and of some that the others sent.    *)
Value(v, c) ==
    \E n \in [Clients -> 0 .. numMessages] :
        /\ n[c] = numMessages
        /\ \A d \in Clients : n[d] <= sent[d]
        /\ v = SumOfTotals(n) % INT64
Full == SumOfTotals([d \in Clients |-> numMessages]) % INT64

(* An answer is on its way from the load of the counter to the client.      *)
AnswerOf(c, v) ==
    \/ \E w : (InHand(w, c, "send_size") \/ InHand(w, c, "send_payload")) /\ ctr[w] = v
    \/ Len(to_client[c]) = 2 /\ to_client[c][2] = v

AnswerOK(c) ==
    /\ \A v : AnswerOf(c, v) => Value(v, c)
    /\ \A w : InHand(w, c, "send_size") => to_client[c] = <<>> /\ Handled(c) = LastMsg
    /\ \A w : InHand(w, c, "send_payload") => Len(to_client[c]) = 1
    /\ to_client[c] # <<>> => Handled(c) = LastMsg
    /\ reply[c] # NONE => Len(to_client[c]) = 2 /\ reply[c] = to_client[c][2]
LastSeesAll ==
    (\A c \in Clients : Handled(c) = LastMsg) => \E c \in Clients : AnswerOf(c, Full)

MoreTypes ==
    /\ msg \in [Workers -> Nat] /\ ctr \in [Workers -> Int]
    /\ to_client \in [Clients -> Seq({"size"} \cup Int)]
    /\ DOMAIN reply = Clients
SInv == MoreTypes /\ Streams /\ CounterIsSum
AInv == (\A c \in Clients : AnswerOK(c)) /\ LastSeesAll
-----------------------------------------------------------------------------
(* The even numbers among n that follow K.                                  *)
Evens(K, n) == {k \in 1 .. n : (K + k) % 2 = 0}

(* One more number.                                                         *)
LEMMA EvensNext ==
  ASSUME NEW K \in Nat, NEW n \in Nat
  PROVE  /\ Evens(K, n + 1) = IF (K + n + 1) % 2 = 0 THEN Evens(K, n) \cup {n + 1} ELSE Evens(K, n)
         /\ n + 1 \notin Evens(K, n)
<1>1. 1 .. n + 1 = (1 .. n) \cup {n + 1} /\ n + 1 \notin 1 .. n
  OBVIOUS
<1>2. K + (n + 1) = K + n + 1
  OBVIOUS
<1> QED BY <1>1, <1>2 DEF Evens

(* Half of the way up to a number.                                          *)
LEMMA HalfNext ==
  ASSUME NEW n \in Nat
  PROVE  /\ n \div 2 \in Nat /\ (n + 1) \div 2 = IF (n + 1) % 2 = 0 THEN n \div 2 + 1 ELSE n \div 2
         /\ n % 2 = 0 \/ n % 2 = 1
         /\ (n + 1) % 2 = 0 <=> n % 2 = 1
OBVIOUS

(* Half of the numbers are even.                                            *)
LEMMA EvenCount ==
  ASSUME NEW K \in Nat
  PROVE  \A n \in Nat : /\ IsFiniteSet(Evens(K, n))
                        /\ Cardinality(Evens(K, n)) = (K + n) \div 2 - K \div 2
<1> DEFINE Good(n) == /\ IsFiniteSet(Evens(K, n))
                      /\ Cardinality(Evens(K, n)) = (K + n) \div 2 - K \div 2
           X == {n \in Nat : ~Good(n)}
<1>1. SUFFICES ASSUME X # {} PROVE FALSE
  OBVIOUS
<1>2. PICK n \in X : \A y \in X : n <= y
  <2>1. X \subseteq Nat
    OBVIOUS
  <2> HIDE DEF X
  <2> QED BY <1>1, <2>1, Least
<1>3. n \in Nat /\ ~Good(n)
  OBVIOUS
<1>4. CASE n = 0
  <2>1. Evens(K, 0) = {}
    BY DEF Evens
  <2>2. (K + 0) \div 2 - K \div 2 = 0
    BY HalfNext
  <2> QED BY <1>3, <1>4, <2>1, <2>2, FS_EmptySet
<1>5. CASE n > 0
  <2>1. PICK m \in Nat : n = m + 1
    BY <1>3, <1>5
  <2>2. m \notin X
    BY <1>2, <1>3, <2>1
  <2>3. Good(m)
    BY <2>2
  <2>4. K + m \in Nat /\ K + n = (K + m) + 1
    BY <2>1
  <2> HIDE DEF X
  <2>5. CASE (K + m + 1) % 2 = 0
    <3>1. Evens(K, n) = Evens(K, m) \cup {m + 1} /\ m + 1 \notin Evens(K, m)
      BY <2>1, <2>5, EvensNext
    <3>2. IsFiniteSet(Evens(K, n)) /\ Cardinality(Evens(K, n)) = Cardinality(Evens(K, m)) + 1
      BY <2>3, <3>1, FS_AddElement
    <3>3. (K + n) \div 2 = (K + m) \div 2 + 1 /\ (K + m) \div 2 \in Nat /\ K \div 2 \in Nat
      BY <2>4, <2>5, HalfNext
    <3> QED BY <1>3, <2>3, <3>2, <3>3
  <2>6. CASE (K + m + 1) % 2 # 0
    <3>1. Evens(K, n) = Evens(K, m)
      BY <2>1, <2>6, EvensNext
    <3>2. (K + n) \div 2 = (K + m) \div 2
      BY <2>4, <2>6, HalfNext
    <3> QED BY <1>3, <2>3, <3>1, <3>2
  <2> QED BY <2>5, <2>6
<1> QED BY <1>3, <1>4, <1>5

(* No two workers have the same client at hand.                             *)
LEMMA OneHand ==
  ASSUME IInv, NEW w, NEW v, NEW c, NEW at, NEW bt, at \in Serving, bt \in Serving,
         InHand(w, c, at), InHand(v, c, bt)
  PROVE  v = w
<1>1. w \in Workers /\ wpc[w] \in Serving /\ v \in Workers /\ wpc[v] \in Serving
  BY DEF InHand
<1>2. i[v] \in DOMAIN active_clients[v]
  BY <1>1, CurrentIs DEF IInv
<1> QED BY <1>1, <1>2, OthersDiffer DEF InHand, Current

(* What has been handled is what has been read, but for the message that a  *)
(* worker has read and not handled.                                         *)
Busy(c) == IF \E w : InHand(w, c, "handle") THEN 1 ELSE 0
(* The messages handled are those read whole but for the one in hand.       *)
LEMMA HandledIs ==
  ASSUME IInv, NEW c \in Clients, NEW K \in Nat, StreamAt(c, K)
  PROVE  /\ Handled(c) = K \div 2 - Busy(c)
         /\ Handled(c) \in 0 .. sent[c]
         /\ sent[c] \in 0 .. LastMsg
         /\ K \div 2 \in 0 .. sent[c]
<1> DEFINE n == Len(to_server[c])
           P == {k \in DOMAIN to_server[c] : to_server[c][k][1] = "payload"}
           H == {w \in Workers : wpc[w] = "handle" /\ Current(w) = c}
<1>1. n \in Nat /\ DOMAIN to_server[c] = 1 .. n
  BY DEF IInv, TypeOK
<1>2. P = Evens(K, n)
  <2>1. ASSUME NEW k \in 1 .. n PROVE to_server[c][k][1] = "payload" <=> (K + k) % 2 = 0
    <3>1. to_server[c][k] = Piece(K + k)
      BY <1>1 DEF StreamAt
    <3>2. (K + k) % 2 = 0 \/ (K + k) % 2 = 1
      OBVIOUS
    <3> QED BY <3>1, <3>2 DEF Piece
  <2> QED BY <1>1, <2>1 DEF Evens
<1>3. Cardinality(P) = (K + n) \div 2 - K \div 2
  BY <1>1, <1>2, EvenCount
<1>4. Cardinality(H) = Busy(c)
  <2>1. CASE \E w : InHand(w, c, "handle")
    <3>1. PICK w : InHand(w, c, "handle")
      BY <2>1
    <3>2. \A v \in H : v = w
      BY <3>1, OneHand DEF InHand, Serving
    <3>3. H = {w}
      BY <3>1, <3>2 DEF InHand
    <3> QED BY <2>1, <3>3, FS_Singleton DEF Busy
  <2>2. CASE ~\E w : InHand(w, c, "handle")
    <3>1. H = {}
      BY <2>2 DEF InHand
    <3> QED BY <2>2, <3>1, FS_EmptySet DEF Busy
  <2> QED BY <2>1, <2>2
<1>5. Handled(c) = sent[c] - Cardinality(P) - Cardinality(H)
  BY DEF Handled
<1>6. (K + n) \div 2 = sent[c] /\ sent[c] \in 0 .. LastMsg
  <2>1. SentOK(c, K + n)
    BY DEF StreamAt
  <2>2. PICK s \in Nat : s = sent[c]
    BY DEF IInv, TypeOK
  <2> QED BY <2>1, <2>2, Halves DEF SentOK
<1>7. K \div 2 <= (K + n) \div 2 /\ K \div 2 \in Nat
  BY <1>1
<1>8. Busy(c) = 0 \/ (Busy(c) = 1 /\ K \div 2 >= 1)
  <2>1. (\E w : InHand(w, c, "handle")) => K >= 2
    BY DEF StreamAt, ReadOK
  <2> QED BY <2>1 DEF Busy
<1> HIDE DEF n, P, H
<1>9. LastMsg \in Nat
  BY ClientAssumption DEF LastMsg
<1> QED BY <1>3, <1>4, <1>5, <1>6, <1>7, <1>8, <1>9

(* The same in terms of the step: before it and after it.                   *)
HandledFact(c, K) ==
    /\ Handled(c) = K \div 2 - Busy(c)
    /\ Handled(c) \in 0 .. sent[c]
    /\ sent[c] \in 0 .. LastMsg
    /\ K \div 2 \in 0 .. sent[c]
HandledFacts == \A c \in Clients : \A K \in Nat : StreamAt(c, K) => HandledFact(c, K)

(* ... before a step,                                                       *)
LEMMA HandledBefore == IInv => HandledFacts
BY HandledIs DEF HandledFacts, HandledFact
(* ... and after it.                                                        *)
LEMMA HandledAfter == IInv' => HandledFacts'
<1>1. IInv => HandledFacts
  BY HandledBefore
<1> QED BY <1>1, PTL

(* A step takes nothing out of the hands of the workers that is of client   *)
(* d, and puts nothing of it there.                                         *)
Tracked == {"payload", "handle", "send_size", "send_payload", "close"}
HandsKept(d) ==
    \A v, at : at \in Tracked => /\ InHand(v, d, at)' <=> InHand(v, d, at)
                                 /\ InHand(v, d, at) => msg'[v] = msg[v] /\ ctr'[v] = ctr[v]
Idle(v)   == wpc[v] \notin Tracked /\ wpc'[v] \notin Tracked
Same(v)   == wpc'[v] = wpc[v] /\ Current(v)' = Current(v) /\ msg'[v] = msg[v] /\ ctr'[v] = ctr[v]
Aside(v, d) == Current(v) # d /\ (Current(v)' # d \/ wpc'[v] \notin Tracked)

(* No worker takes up or lays down d unless it is the one that moves.       *)
LEMMA HandsStay ==
  ASSUME NEW d, Workers' = Workers, \A v \in Workers : Idle(v) \/ Same(v) \/ Aside(v, d)
  PROVE  HandsKept(d)
<1> SUFFICES ASSUME NEW v, NEW at \in Tracked
             PROVE  /\ InHand(v, d, at)' <=> InHand(v, d, at)
                    /\ InHand(v, d, at) => msg'[v] = msg[v] /\ ctr'[v] = ctr[v]
  BY DEF HandsKept
<1>1. CASE v \notin Workers
  BY <1>1 DEF InHand
<1>2. CASE v \in Workers
  <2>1. CASE Idle(v)
    BY <2>1 DEF InHand, Idle
  <2>2. CASE Same(v)
    BY <1>2, <2>2 DEF InHand, Same
  <2>3. CASE Aside(v, d)
    BY <2>3 DEF InHand, Aside
  <2> QED BY <1>2, <2>1, <2>2, <2>3
<1> QED BY <1>1, <1>2

(* A client of which the workers have in hand what they had is as far as    *)
(* it was.                                                                  *)
Calm(d) == /\ HandsKept(d)
           /\ to_server'[d] = to_server[d] /\ sent'[d] = sent[d]
           /\ d \in closed => d \in closed'
(* What was read of d while nobody has it in hand stays as it was.          *)
LEMMA CalmRead ==
  ASSUME NEW d, NEW K, ReadOK(d, K), HandsKept(d), d \in closed => d \in closed'
  PROVE  ReadOK(d, K)' /\ Busy(d)' = Busy(d)
<1>1. \A w : InHand(w, d, "payload")' <=> InHand(w, d, "payload")
  BY DEF HandsKept, Tracked
<1>2. \A w : InHand(w, d, "close")' <=> InHand(w, d, "close")
  BY DEF HandsKept, Tracked
<1>3. \A w : /\ InHand(w, d, "handle")' <=> InHand(w, d, "handle")
             /\ InHand(w, d, "handle") => msg'[w] = msg[w]
  BY DEF HandsKept, Tracked
<1>4. ReadOK(d, K)'
  BY <1>1, <1>2, <1>3 DEF ReadOK
<1>5. Busy(d)' = Busy(d)
  BY <1>3 DEF Busy
<1> QED BY <1>4, <1>5

(* ... so its stream and what is handled of it are what they were.          *)
LEMMA CalmStream ==
  ASSUME IInv, IInv', NEW d \in Clients, Calm(d), \E K \in Nat : StreamAt(d, K),
         \A S : SentOK(d, S) => SentOK(d, S)'
  PROVE  (\E K \in Nat : StreamAt(d, K)') /\ Handled(d)' = Handled(d)
<1>1. PICK K \in Nat : StreamAt(d, K)
  OBVIOUS
<1>2. ReadOK(d, K)' /\ Busy(d)' = Busy(d)
  BY <1>1, CalmRead DEF Calm, StreamAt
<1>3. StreamAt(d, K)'
  BY <1>1, <1>2 DEF StreamAt, Calm
<1>4. HandledFact(d, K) /\ HandledFact(d, K)'
  BY <1>1, <1>3, HandledBefore, HandledAfter DEF HandledFacts
<1> QED BY <1>2, <1>3, <1>4 DEF HandledFact

HandledSame == \A d \in Clients : Handled(d)' = Handled(d)
(* A step that takes up and hands out nothing.                              *)
LEMMA QuietStep ==
  ASSUME IInv, IInv', Streams, \A d \in Clients : HandsKept(d),
         UNCHANGED <<to_server, sent, closed>>,
         \A d \in Clients : \A S : SentOK(d, S) => SentOK(d, S)'
  PROVE  Streams' /\ HandledSame
<1>1. ASSUME NEW d \in Clients
      PROVE  (\E K \in Nat : StreamAt(d, K)') /\ Handled(d)' = Handled(d)
  BY CalmStream DEF Calm, Streams
<1> QED BY <1>1 DEF Streams, HandledSame

(* The counter stays the sum when neither changes.                          *)
LEMMA SumKept ==
  ASSUME CounterIsSum, HandledSame, number' = number
  PROVE  CounterIsSum'
<1>1. [c \in Clients |-> Handled(c)'] = [c \in Clients |-> Handled(c)]
  BY DEF HandledSame
<1>2. SumOfTotals([c \in Clients |-> Handled(c)]') = SumOfTotals([c \in Clients |-> Handled(c)])
  BY <1>1
<1> QED BY <1>2 DEF CounterIsSum

(* The steps of the clients that send nothing.                              *)
LEMMA ClientQuiet ==
  ASSUME IInv, IInv', Streams, NEW c \in Clients,
         Connect(c) \/ ReceiveCounter(c) \/ ClientFails(c) \/ Crash(c)
  PROVE  Streams' /\ HandledSame
<1>1. /\ UNCHANGED <<active_clients, wpc, i, msg, ctr, to_server, sent, closed>>
      /\ \E at : cpc' = [cpc EXCEPT ![c] = at] /\ \/ cpc[c] = "connect" /\ at = "header"
                                                  \/ at \in {"done", "crashed"}
  BY DEF Connect, ReceiveCounter, ClientFails, Crash, CGoto, workers, wire, queues
<1>2. \A d \in Clients : HandsKept(d)
  BY <1>1, HandsStay DEF Same, Workers, Current
<1>3. PICK at : cpc' = [cpc EXCEPT ![c] = at] /\ \/ cpc[c] = "connect" /\ at = "header"
                                                 \/ at \in {"done", "crashed"}
  BY <1>1
<1>4. cpc \in [Clients -> {"connect", "header", "payload", "receive", "done", "crashed"}]
      /\ sent[c] \in Nat
  BY DEF IInv, TypeOK
<1>5. ASSUME NEW d \in Clients, NEW S, SentOK(d, S) PROVE SentOK(d, S)'
  <2>1. CASE d # c
    <3>1. cpc'[d] = cpc[d]
      BY <1>3, <1>4, <2>1
    <3> QED BY <1>1, <1>5, <3>1 DEF SentOK
  <2>2. CASE d = c
    <3>1. cpc'[c] = at
      BY <1>3, <1>4
    <3>2. CASE cpc[c] = "connect" /\ at = "header"
      <4>1. S = 2 * sent[c]
        BY <1>4, <1>5, <2>2, <3>2 DEF SentOK
      <4>2. sent[c] # LastMsg
        BY <1>5, <2>2, <3>2 DEF SentOK
      <4> QED BY <1>1, <1>5, <2>2, <3>1, <3>2, <4>1, <4>2 DEF SentOK
    <3>3. CASE at \in {"done", "crashed"}
      BY <1>1, <1>5, <2>2, <3>1, <3>3 DEF SentOK
    <3> QED BY <1>3, <3>2, <3>3
  <2> QED BY <2>1, <2>2
<1> QED BY <1>1, <1>2, <1>5, QuietStep

(* The steps of main, and of a worker that has no client in hand.           *)
LEMMA ServerQuiet ==
  ASSUME IInv, IInv', Streams,
         \/ Main \/ UNCHANGED vars
         \/ \E w \in Workers : \/ MoveClients(w) \/ ClearPending(w) \/ Poll(w)
                               \/ Loop(w) \/ SigPipe(w)
  PROVE  /\ Streams' /\ HandledSame /\ \A d \in Clients : HandsKept(d)
         /\ UNCHANGED <<number, msg, ctr, cpc, sent, reply, to_client>>
<1>1. UNCHANGED <<number, msg, ctr, cpc, sent, reply, to_server, to_client, closed>>
  BY DEF Main, AcceptConnection, Assign, MoveClients, ClearPending, Poll, Loop, SigPipe,
         vars, workers, clients, wire
<1>2. ASSUME NEW d, NEW S PROVE SentOK(d, S) => SentOK(d, S)'
  BY <1>1 DEF SentOK
<1>3. CASE Main \/ UNCHANGED vars \/ \E w \in Workers : SigPipe(w)
  <2>1. UNCHANGED <<active_clients, wpc, i>>
    BY <1>3 DEF Main, AcceptConnection, Assign, SigPipe, vars, workers
  <2>2. \A d \in Clients : HandsKept(d)
    BY <1>1, <2>1, HandsStay DEF Same, Workers, Current
  <2> QED BY <1>1, <1>2, <2>2, QuietStep
<1>4. ASSUME NEW w \in Workers, MoveClients(w) \/ ClearPending(w) \/ Poll(w) \/ Loop(w)
      PROVE  Streams' /\ HandledSame /\ \A d \in Clients : HandsKept(d)
  <2>1. /\ wpc \in [Workers -> Serving \cup {"move", "clear", "poll", "loop"}]
        /\ active_clients \in [Workers -> Seq(Entry)] /\ i \in [Workers -> Nat]
    BY Types DEF IInv, TypeOK
  <2>2. /\ \E at \in {"move", "clear", "poll", "loop", "size"} : wpc' = [wpc EXCEPT ![w] = at]
        /\ wpc[w] \in {"move", "clear", "poll", "loop"}
        /\ i' = i \/ \E k : i' = [i EXCEPT ![w] = k]
        /\ active_clients' = active_clients \/ \E s : active_clients' = [active_clients EXCEPT ![w] = s]
    <3>1. CASE MoveClients(w)
      BY <3>1 DEF MoveClients, At, WGoto
    <3>2. CASE ClearPending(w)
      BY <3>2 DEF ClearPending, At, WGoto
    <3>3. CASE Poll(w)
      BY <3>3 DEF Poll, At, WGoto
    <3>4. CASE Loop(w)
      <4>1. wpc[w] = "loop" /\ active_clients' = active_clients
        BY <3>4 DEF Loop, At
      <4>2. CASE UNCHANGED i
        BY <2>1, <3>4, <4>1, <4>2 DEF Loop, WGoto
      <4>3. CASE i' = [i EXCEPT ![w] = @ - 1] /\ UNCHANGED wpc
        <5>1. wpc' = [wpc EXCEPT ![w] = "loop"]
          BY <2>1, <4>1, <4>3
        <5> QED BY <4>1, <4>3, <5>1
      <4> QED BY <3>4, <4>2, <4>3 DEF Loop
    <3> QED BY <1>4, <3>1, <3>2, <3>3, <3>4
  <2>3. Workers' = Workers
    BY <2>1, <2>2 DEF Workers
  <2>4. ASSUME NEW v \in Workers, v # w PROVE Same(v)
    <3>1. wpc'[v] = wpc[v] /\ i'[v] = i[v] /\ active_clients'[v] = active_clients[v]
      BY <2>1, <2>2, <2>4
    <3> QED BY <1>1, <3>1 DEF Same, Current
  <2>5. Idle(w)
    BY <2>1, <2>2 DEF Idle, Tracked
  <2>6. \A d \in Clients : HandsKept(d)
    BY <2>3, <2>4, <2>5, HandsStay
  <2> QED BY <1>1, <1>2, <2>6, QuietStep
<1> QED BY <1>1, <1>3, <1>4

(* The pieces of message s + 1.                                             *)
LEMMA PiecesAre ==
  ASSUME NEW s \in Nat
  PROVE  /\ Piece(2 * s + 1) = <<"size", s + 1>>
         /\ Piece(2 * s + 1 + 1) = <<"payload", s + 1>>
<1>1. (2 * s + 1) % 2 = 1 /\ (2 * s + 1 + 1) % 2 = 0
      /\ (2 * s + 1 + 1) \div 2 = s + 1 /\ (2 * s + 1 + 1 + 1) \div 2 = s + 1
  OBVIOUS
<1> QED BY <1>1 DEF Piece

(* A client sends a piece: the next of its stream.                          *)
LEMMA ClientSends ==
  ASSUME IInv, IInv', Streams, NEW c \in Clients, SendHeader(c) \/ SendPayload(c)
  PROVE  Streams' /\ HandledSame
<1>1. UNCHANGED <<active_clients, wpc, i, msg, ctr, closed>>
  BY DEF SendHeader, SendPayload, workers, wire, queues
<1>2. \A d \in Clients : HandsKept(d)
  BY <1>1, HandsStay DEF Same, Workers, Current
<1>3. /\ cpc \in [Clients -> {"connect", "header", "payload", "receive", "done", "crashed"}]
      /\ sent \in [Clients -> Nat] /\ to_server \in [Clients -> Seq(Pieces)]
      /\ LastMsg \in Nat
  <2>1. LastMsg \in Nat
    BY ClientAssumption DEF LastMsg
  <2> QED BY <2>1 DEF IInv, TypeOK
<1>4. PICK K \in Nat : StreamAt(c, K)
  BY DEF Streams
<1>5. PICK s \in Nat, q \in Seq(Pieces), L \in Nat : s = sent[c] /\ q = to_server[c] /\ L = Len(q)
  BY <1>3
<1>6. SentOK(c, K + L)
  BY <1>4, <1>5 DEF StreamAt
<1>7. /\ to_server'[c] = Append(q, Piece(K + (L + 1)))
      /\ SentOK(c, K + (L + 1))'
      /\ \A d \in Clients : d # c => /\ to_server'[d] = to_server[d] /\ sent'[d] = sent[d]
                                     /\ cpc'[d] = cpc[d]
  <2>1. CASE SendHeader(c)
    <3>1. /\ cpc[c] = "header" /\ to_server' = [to_server EXCEPT ![c] = Append(@, <<"size", sent[c] + 1>>)]
          /\ cpc' = [cpc EXCEPT ![c] = "payload"] /\ sent' = sent
      BY <2>1 DEF SendHeader, CGoto
    <3>2. K + L = 2 * s /\ s # LastMsg
      BY <1>5, <1>6, <3>1 DEF SentOK
    <3>3. K + (L + 1) = 2 * s + 1
      BY <3>2
    <3>4. to_server'[c] = Append(q, Piece(K + (L + 1)))
      BY <1>3, <1>5, <3>1, <3>3, PiecesAre
    <3>5. cpc'[c] = "payload" /\ sent'[c] = s /\ s \in 0 .. LastMsg
      BY <1>3, <1>5, <1>6, <3>1 DEF SentOK
    <3>6. SentOK(c, K + (L + 1))'
      BY <3>2, <3>3, <3>5 DEF SentOK
    <3> QED BY <1>3, <3>1, <3>4, <3>6
  <2>2. CASE SendPayload(c)
    <3>1. /\ cpc[c] = "payload"
          /\ to_server' = [to_server EXCEPT ![c] = Append(@, <<"payload", sent[c] + 1>>)]
          /\ cpc' = [cpc EXCEPT ![c] = IF sent[c] + 1 = LastMsg THEN "receive" ELSE "header"]
          /\ sent' = [sent EXCEPT ![c] = @ + 1]
      BY <2>2 DEF SendPayload, CGoto
    <3>2. K + L = 2 * s + 1 /\ s # LastMsg /\ s \in 0 .. LastMsg
      BY <1>5, <1>6, <3>1 DEF SentOK
    <3>3. K + (L + 1) = 2 * s + 1 + 1 /\ K + (L + 1) = 2 * (s + 1) /\ s + 1 \in 0 .. LastMsg
      BY <1>3, <3>2
    <3>4. to_server'[c] = Append(q, Piece(K + (L + 1)))
      BY <1>3, <1>5, <3>1, <3>3, PiecesAre
    <3>5. cpc'[c] = (IF s + 1 = LastMsg THEN "receive" ELSE "header") /\ sent'[c] = s + 1
      BY <1>3, <1>5, <3>1
    <3>6. SentOK(c, K + (L + 1))'
      BY <3>3, <3>5 DEF SentOK
    <3> QED BY <1>3, <3>1, <3>4, <3>6
  <2> QED BY <2>1, <2>2
<1>8. StreamAt(c, K)' /\ Busy(c)' = Busy(c)
  <2>1. ReadOK(c, K)' /\ Busy(c)' = Busy(c)
    BY <1>1, <1>2, <1>4, CalmRead DEF StreamAt
  <2>2. to_server'[c] \in Seq(Pieces)
    BY DEF IInv, TypeOK
  <2>3. Len(to_server'[c]) = L + 1
    BY <1>5, <1>7
  <2>4. ASSUME NEW k \in DOMAIN to_server'[c] PROVE to_server'[c][k] = Piece(K + k)
    <3>1. k \in 1 .. L + 1
      BY <2>2, <2>3
    <3>2. CASE k = L + 1
      BY <1>5, <1>7, <3>2
    <3>3. CASE k \in 1 .. L
      <4>1. to_server'[c][k] = q[k]
        BY <1>5, <1>7, <3>3
      <4> QED BY <1>4, <1>5, <3>3, <4>1 DEF StreamAt
    <3> QED BY <3>1, <3>2, <3>3
  <2> QED BY <1>7, <2>1, <2>3, <2>4 DEF StreamAt
<1>9. Handled(c)' = Handled(c)
  <2>1. HandledFact(c, K) /\ HandledFact(c, K)'
    BY <1>4, <1>8, HandledBefore, HandledAfter DEF HandledFacts
  <2> QED BY <1>8, <2>1 DEF HandledFact
<1>10. ASSUME NEW d \in Clients, d # c
       PROVE  (\E J \in Nat : StreamAt(d, J)') /\ Handled(d)' = Handled(d)
  <2>1. Calm(d)
    BY <1>1, <1>2, <1>7, <1>10 DEF Calm
  <2>2. ASSUME NEW S PROVE SentOK(d, S) => SentOK(d, S)'
    BY <1>7, <1>10 DEF SentOK
  <2> QED BY <2>1, <2>2, CalmStream DEF Streams
<1> QED BY <1>8, <1>9, <1>10 DEF Streams, HandledSame

(* Client c is in the hands of worker w, who is at a place at, and of no    *)
(* other.                                                                   *)
OnlyAt(c, w, at) == \A v, bt : bt \in Tracked => (InHand(v, c, bt) <=> v = w /\ bt = at)

Serves(w) == \/ RecvSize(w) \/ RecvPayload(w) \/ HandleAddSub(w) \/ HandleTermination(w)
             \/ SendSize(w) \/ SendCounter(w) \/ Close(w)

(* The steps of handle_client and close are about the client at hand.       *)
LEMMA ServeFrame ==
  ASSUME IInv, MoreTypes, NEW w \in Workers, Serves(w)
  PROVE  /\ wpc[w] \in Serving /\ Current(w) \in Clients /\ Current(w) \notin closed
         /\ Workers' = Workers
         /\ UNCHANGED <<cpc, sent, reply>>
         /\ \A d \in Clients : d # Current(w) => Calm(d) /\ to_client'[d] = to_client[d]
         /\ OnlyAt(Current(w), w, wpc[w])
         /\ \A c : c = Current(w) => OnlyAt(c, w, wpc[w])'
<1>1. /\ wpc \in [Workers -> Serving \cup {"move", "clear", "poll", "loop"}]
      /\ active_clients \in [Workers -> Seq(Entry)] /\ i \in [Workers -> Nat]
      /\ to_server \in [Clients -> Seq(Pieces)]
  BY Types DEF IInv, TypeOK
<1>2. wpc[w] \in Serving
  BY DEF Serves, RecvSize, RecvPayload, HandleAddSub, HandleTermination, SendSize, SendCounter,
         Close, At, Serving
<1>3. PICK c \in Clients : c = Current(w)
  BY <1>2, CurrentIs DEF IInv
<1>4. c \notin closed
  <2>1. Holds("active", w, i[w], c)
    BY <1>2, <1>3, CurrentIs DEF IInv, Holds
  <2> QED BY <2>1 DEF IInv, HeldAreOpen
<1>5. /\ UNCHANGED <<cpc, sent, reply>>
      /\ closed \subseteq closed'
      /\ \E at : /\ wpc' = [wpc EXCEPT ![w] = at]
                 /\ at = "loop" \/ UNCHANGED <<active_clients, i>>
      /\ active_clients' = active_clients \/ \E s : active_clients' = [active_clients EXCEPT ![w] = s]
      /\ i' = i \/ \E k : i' = [i EXCEPT ![w] = k]
      /\ msg' = msg \/ \E k : msg' = [msg EXCEPT ![w] = k]
      /\ ctr' = ctr \/ \E k : ctr' = [ctr EXCEPT ![w] = k]
      /\ to_server' = to_server \/ \E s : to_server' = [to_server EXCEPT ![c] = s]
      /\ to_client' = to_client \/ \E s : to_client' = [to_client EXCEPT ![c] = s]
  <2>1. CASE RecvSize(w)
    BY <2>1, <1>3 DEF RecvSize, WGoto, Consume, clients
  <2>2. CASE RecvPayload(w)
    BY <2>2, <1>3 DEF RecvPayload, WGoto, Consume, clients
  <2>3. CASE HandleAddSub(w)
    BY <2>3 DEF HandleAddSub, WGoto, clients, wire
  <2>4. CASE HandleTermination(w)
    BY <2>4 DEF HandleTermination, WGoto, clients, wire
  <2>5. CASE SendSize(w)
    BY <2>5, <1>3 DEF SendSize, WGoto, clients
  <2>6. CASE SendCounter(w)
    BY <2>6, <1>3 DEF SendCounter, WGoto, clients
  <2>7. CASE Close(w)
    BY <2>7 DEF Close, WGoto, clients
  <2> QED BY <2>1, <2>2, <2>3, <2>4, <2>5, <2>6, <2>7 DEF Serves
<1>6. Workers' = Workers
  BY <1>1, <1>5 DEF Workers
<1>7. ASSUME NEW v \in Workers, v # w PROVE Same(v)
  <2>1. /\ wpc'[v] = wpc[v] /\ i'[v] = i[v] /\ active_clients'[v] = active_clients[v]
        /\ msg'[v] = msg[v] /\ ctr'[v] = ctr[v]
    BY <1>1, <1>5, <1>7 DEF MoreTypes
  <2> QED BY <2>1 DEF Same, Current
<1>8. wpc'[w] \notin Tracked \/ Current(w)' = c
  BY <1>1, <1>3, <1>5 DEF Current, Tracked
<1>9. ASSUME NEW d \in Clients, d # c PROVE Calm(d) /\ to_client'[d] = to_client[d]
  <2>1. Aside(w, d)
    BY <1>3, <1>8, <1>9 DEF Aside
  <2>2. HandsKept(d)
    BY <1>6, <1>7, <2>1, HandsStay
  <2>3. to_server'[d] = to_server[d] /\ to_client'[d] = to_client[d]
    BY <1>1, <1>5, <1>9 DEF MoreTypes
  <2> QED BY <1>5, <2>2, <2>3 DEF Calm
<1>10. OnlyAt(c, w, wpc[w])
  <2>1. InHand(w, c, wpc[w])
    BY <1>3 DEF InHand
  <2>2. ASSUME NEW v, NEW bt \in Tracked, InHand(v, c, bt) PROVE v = w /\ bt = wpc[w]
    <3>1. bt \in Serving
      BY DEF Tracked, Serving
    <3>2. v = w
      BY <1>2, <2>1, <2>2, <3>1, OneHand
    <3> QED BY <2>2, <3>2 DEF InHand
  <2> QED BY <2>1, <2>2 DEF OnlyAt
<1>11. OnlyAt(c, w, wpc[w])'
  <2>1. ASSUME NEW v, NEW bt \in Tracked, InHand(v, c, bt)' PROVE v = w /\ bt = wpc'[w]
    <3>1. CASE v # w
      <4>1. v \in Workers /\ Same(v)
        BY <1>6, <1>7, <2>1, <3>1 DEF InHand
      <4>2. InHand(v, c, bt)
        BY <2>1, <4>1 DEF InHand, Same
      <4> QED BY <1>10, <3>1, <4>2 DEF OnlyAt
    <3>2. CASE v = w
      BY <2>1, <3>2 DEF InHand
    <3> QED BY <3>1, <3>2
  <2>2. wpc'[w] \in Tracked => InHand(w, c, wpc[w])'
    BY <1>6, <1>8 DEF InHand
  <2> QED BY <2>1, <2>2 DEF OnlyAt
<1> QED BY <1>2, <1>3, <1>4, <1>5, <1>6, <1>9, <1>10, <1>11

(* What ReadOK says of the client at hand.                                  *)
ReadAt(at, K, m) == /\ K % 2 = 1 => at \in {"payload", "close"}
                    /\ at = "payload" => K % 2 = 1
                    /\ at = "handle" => K % 2 = 0 /\ K >= 2 /\ m = K \div 2
ReadAtFacts ==
    \A c, w, at, K : OnlyAt(c, w, at) => /\ c \notin closed => (ReadOK(c, K) <=> ReadAt(at, K, msg[w]))
                                         /\ Busy(c) = IF at = "handle" THEN 1 ELSE 0

(* ... before a step,                                                       *)
LEMMA ReadAtBefore == ReadAtFacts
<1> SUFFICES ASSUME NEW c, NEW w, NEW at, NEW K, OnlyAt(c, w, at)
             PROVE  /\ c \notin closed => (ReadOK(c, K) <=> ReadAt(at, K, msg[w]))
                    /\ Busy(c) = IF at = "handle" THEN 1 ELSE 0
  BY DEF ReadAtFacts
<1>1. /\ \A v : InHand(v, c, "payload") <=> v = w /\ at = "payload"
      /\ \A v : InHand(v, c, "handle") <=> v = w /\ at = "handle"
      /\ \A v : InHand(v, c, "close") <=> v = w /\ at = "close"
  BY DEF OnlyAt, Tracked
<1> QED BY <1>1 DEF ReadOK, ReadAt, Busy
(* ... and after it.                                                        *)
LEMMA ReadAtAfter == ReadAtFacts'
<1>1. ReadAtFacts
  BY ReadAtBefore
<1> QED BY <1>1, PTL

(* Reading a piece of a stream.                                             *)
LEMMA PieceRead ==
  ASSUME NEW q \in Seq(Pieces), NEW K \in Nat, q # <<>>,
         \A k \in DOMAIN q : q[k] = Piece(K + k)
  PROVE  /\ Head(q) = Piece(K + 1)
         /\ \A k \in DOMAIN Tail(q) : Tail(q)[k] = Piece((K + 1) + k)
         /\ (K + 1) + Len(Tail(q)) = K + Len(q)
<1>1. PICK L \in Nat : L = Len(q) /\ DOMAIN q = 1 .. L /\ L >= 1
  OBVIOUS
<1>2. Head(q) = q[1] /\ Len(Tail(q)) = L - 1 /\ DOMAIN Tail(q) = 1 .. L - 1
      /\ \A k \in 1 .. L - 1 : Tail(q)[k] = q[k + 1]
  BY <1>1
<1>3. ASSUME NEW k \in 1 .. L - 1 PROVE Tail(q)[k] = Piece((K + 1) + k)
  <2>1. k + 1 \in 1 .. L /\ K + (k + 1) = (K + 1) + k
    OBVIOUS
  <2> QED BY <1>1, <1>2, <2>1
<1> QED BY <1>1, <1>2, <1>3

(* The stream of the client at hand, and how much of it is handled.         *)
LEMMA ServeCurrent ==
  ASSUME IInv, IInv', MoreTypes, NEW w \in Workers, Serves(w),
         NEW c \in Clients, c = Current(w), NEW K \in Nat, StreamAt(c, K)
  PROVE  /\ \E J \in Nat : StreamAt(c, J)'
         /\ Handled(c)' = Handled(c) + (IF wpc[w] = "handle" THEN 1 ELSE 0)
         /\ Handled(c) \in Nat /\ sent[c] \in Nat
         /\ wpc[w] = "handle" => /\ msg[w] = Handled(c) + 1 /\ Handled(c) + 1 <= sent[c]
                                 /\ sent[c] <= LastMsg
<1>1. /\ c \notin closed /\ UNCHANGED <<cpc, sent>>
      /\ OnlyAt(c, w, wpc[w]) /\ OnlyAt(c, w, wpc[w])' /\ Workers' = Workers
  BY ServeFrame
<1>2. /\ wpc \in [Workers -> Serving \cup {"move", "clear", "poll", "loop"}]
      /\ to_server \in [Clients -> Seq(Pieces)] /\ sent[c] \in Nat
  BY Types DEF IInv, TypeOK
<1>3. PICK q \in Seq(Pieces) : q = to_server[c]
  BY <1>2
<1>4. /\ \A k \in DOMAIN q : q[k] = Piece(K + k)
      /\ SentOK(c, K + Len(q)) /\ ReadAt(wpc[w], K, msg[w])
  BY <1>1, <1>3, ReadAtBefore DEF StreamAt, ReadAtFacts
<1>5. /\ Busy(c) = IF wpc[w] = "handle" THEN 1 ELSE 0
      /\ Busy(c)' = IF wpc'[w] = "handle" THEN 1 ELSE 0
      /\ \A J : c \notin closed' => (ReadOK(c, J)' <=> ReadAt(wpc'[w], J, msg'[w]))
  BY <1>1, ReadAtBefore, ReadAtAfter DEF ReadAtFacts
<1>6. ASSUME NEW S, SentOK(c, S) PROVE SentOK(c, S)'
  BY <1>1, <1>6 DEF SentOK
<1>7. ASSUME NEW J \in Nat, StreamAt(c, J)'
      PROVE  Handled(c)' = J \div 2 - Busy(c)' /\ Handled(c) = K \div 2 - Busy(c)
  BY <1>7, HandledBefore, HandledAfter DEF HandledFacts, HandledFact
<1>8. ASSUME q # <<>>, to_server'[c] = Tail(q), c \notin closed', ReadAt(wpc'[w], K + 1, msg'[w])
      PROVE  StreamAt(c, K + 1)'
  <2>1. /\ \A k \in DOMAIN Tail(q) : Tail(q)[k] = Piece((K + 1) + k)
        /\ (K + 1) + Len(Tail(q)) = K + Len(q)
    BY <1>4, <1>8, PieceRead
  <2>2. SentOK(c, (K + 1) + Len(Tail(q)))'
    BY <1>4, <1>6, <2>1
  <2> QED BY <1>5, <1>8, <2>1, <2>2 DEF StreamAt
<1>9. ASSUME to_server'[c] = q, ReadOK(c, K)' PROVE StreamAt(c, K)'
  BY <1>4, <1>6, <1>9 DEF StreamAt
<1>10. K \div 2 \in Nat /\ (K % 2 = 0 \/ K % 2 = 1)
  OBVIOUS
<1>11. ASSUME wpc[w] # "handle", wpc'[w] # "handle", to_server'[c] = q, ReadOK(c, K)'
       PROVE  (\E J \in Nat : StreamAt(c, J)') /\ Handled(c)' = Handled(c)
  BY <1>5, <1>7, <1>9, <1>11
<1>12. (\E J \in Nat : StreamAt(c, J)') /\ Handled(c)' = Handled(c) + (IF wpc[w] = "handle" THEN 1 ELSE 0)
  <2>0. Handled(c) \in Int
    BY <1>5, <1>10, HandledBefore DEF HandledFacts, HandledFact
  <2>1. CASE RecvSize(w)
    <3>1. wpc[w] = "size" /\ closed' = closed
      BY <2>1 DEF RecvSize, At
    <3>2. K % 2 = 0
      BY <1>4, <1>10, <3>1 DEF ReadAt
    <3>3. CASE to_server[Current(w)] # <<>> /\ Consume(w) /\ WGoto(w, "payload")
      <4>1. to_server'[c] = Tail(q) /\ wpc'[w] = "payload" /\ q # <<>>
        BY <1>2, <1>3, <3>3 DEF Consume, WGoto
      <4>2. (K + 1) % 2 = 1 /\ (K + 1) \div 2 = K \div 2
        BY <3>2
      <4>3. ReadAt(wpc'[w], K + 1, msg'[w])
        BY <4>1, <4>2 DEF ReadAt
      <4>4. StreamAt(c, K + 1)' /\ K + 1 \in Nat
        BY <1>1, <1>8, <3>1, <4>1, <4>3
      <4>5. Handled(c)' = Handled(c)
        BY <1>5, <1>7, <3>1, <4>1, <4>2, <4>4
      <4> QED BY <2>0, <3>1, <4>4, <4>5
    <3>4. CASE EndOfFile(w) /\ WGoto(w, "close") /\ UNCHANGED to_server
      <4>1. to_server'[c] = q /\ wpc'[w] = "close"
        BY <1>2, <1>3, <3>4 DEF WGoto
      <4>2. ReadOK(c, K)'
        BY <1>1, <1>5, <3>1, <4>1 DEF ReadAt
      <4> QED BY <2>0, <1>11, <3>1, <4>1, <4>2
    <3> QED BY <2>1, <3>3, <3>4 DEF RecvSize
  <2>2. CASE RecvPayload(w)
    <3>1. wpc[w] = "payload" /\ closed' = closed
      BY <2>2 DEF RecvPayload, At
    <3>2. K % 2 = 1
      BY <1>4, <3>1 DEF ReadAt
    <3>3. CASE /\ to_server[Current(w)] # <<>> /\ Consume(w) /\ WGoto(w, "handle")
               /\ msg' = [msg EXCEPT ![w] = Head(to_server[Current(w)])[2]]
      <4>1. to_server'[c] = Tail(q) /\ wpc'[w] = "handle" /\ q # <<>> /\ msg'[w] = Head(q)[2]
        BY <1>2, <1>3, <3>3 DEF Consume, WGoto, MoreTypes
      <4>2. (K + 1) % 2 = 0 /\ (K + 1) \div 2 = K \div 2 + 1 /\ (K + 1 + 1) \div 2 = (K + 1) \div 2
            /\ K + 1 >= 2
        BY <3>2
      <4>3. msg'[w] = (K + 1) \div 2
        <5>1. Head(q) = Piece(K + 1)
          BY <1>4, <4>1, PieceRead
        <5>2. Piece(K + 1)[2] = (K + 1 + 1) \div 2
          BY DEF Piece
        <5>3. msg'[w] = (K + 1 + 1) \div 2
          BY <4>1, <5>1, <5>2
        <5> QED BY <4>2, <5>3
      <4>4. ReadAt(wpc'[w], K + 1, msg'[w])
        BY <4>1, <4>2, <4>3 DEF ReadAt
      <4>5. StreamAt(c, K + 1)' /\ K + 1 \in Nat
        BY <1>1, <1>8, <3>1, <4>1, <4>4
      <4>6. Handled(c)' = Handled(c)
        <5>1. Handled(c)' = (K + 1) \div 2 - 1 /\ Handled(c) = K \div 2 - 0
          BY <1>5, <1>7, <3>1, <4>1, <4>5
        <5> QED BY <1>10, <4>2, <5>1
      <4> QED BY <2>0, <3>1, <4>5, <4>6
    <3>4. CASE EndOfFile(w) /\ WGoto(w, "close") /\ UNCHANGED <<msg, to_server>>
      <4>1. to_server'[c] = q /\ wpc'[w] = "close"
        BY <1>2, <1>3, <3>4 DEF WGoto
      <4>2. ReadOK(c, K)'
        BY <1>1, <1>5, <3>1, <4>1 DEF ReadAt
      <4> QED BY <2>0, <1>11, <3>1, <4>1, <4>2
    <3> QED BY <2>2, <3>3, <3>4 DEF RecvPayload
  <2>3. CASE HandleAddSub(w) \/ HandleTermination(w)
    <3>1. /\ wpc[w] = "handle" /\ closed' = closed /\ to_server'[c] = q
          /\ wpc'[w] = "loop" \/ wpc'[w] = "send_size"
      BY <2>3, <1>2, <1>3 DEF HandleAddSub, HandleTermination, At, WGoto, wire
    <3>2. K % 2 = 0
      BY <1>4, <3>1 DEF ReadAt
    <3>3. ReadOK(c, K)'
      BY <1>1, <1>5, <3>1, <3>2 DEF ReadAt
    <3>4. StreamAt(c, K)'
      BY <1>9, <3>1, <3>3
    <3> QED BY <1>5, <1>7, <1>10, <3>1, <3>4
  <2>4. CASE SendSize(w) \/ SendCounter(w)
    <3>1. /\ wpc[w] = "send_size" \/ wpc[w] = "send_payload"
          /\ closed' = closed /\ to_server'[c] = q
          /\ wpc'[w] = "send_payload" \/ wpc'[w] = "close"
      BY <2>4, <1>2, <1>3 DEF SendSize, SendCounter, At, WGoto
    <3>2. K % 2 # 1
      BY <1>4, <3>1 DEF ReadAt
    <3>3. ReadOK(c, K)'
      BY <1>1, <1>5, <3>1, <3>2 DEF ReadAt
    <3> QED BY <2>0, <1>11, <3>1, <3>3
  <2>5. CASE Close(w)
    <3>1. wpc[w] = "close" /\ to_server'[c] = q /\ wpc'[w] = "loop" /\ c \in closed'
      BY <2>5, <1>2, <1>3 DEF Close, At, WGoto
    <3>2. \A v : ~InHand(v, c, "payload")' /\ ~InHand(v, c, "handle")'
      BY <1>1, <3>1 DEF OnlyAt, Tracked
    <3>3. ReadOK(c, K)'
      BY <3>1, <3>2 DEF ReadOK
    <3> QED BY <2>0, <1>11, <3>1, <3>3
  <2> QED BY <2>1, <2>2, <2>3, <2>4, <2>5 DEF Serves
<1>13. HandledFact(c, K)
  BY HandledBefore DEF HandledFacts
<1>14. /\ Handled(c) \in Nat
       /\ wpc[w] = "handle" => /\ msg[w] = Handled(c) + 1 /\ Handled(c) + 1 <= sent[c]
                               /\ sent[c] <= LastMsg
  BY <1>2, <1>4, <1>5, <1>10, <1>13 DEF HandledFact, ReadAt
<1> QED BY <1>2, <1>12, <1>14

(* A step of a worker at a client moves the stream of that client only.     *)
Ups(w, d) == IF d = Current(w) /\ wpc[w] = "handle" THEN 1 ELSE 0
(* A step of a worker on its current connection: only the handler counts a  *)
(* message, the next one of its client.                                     *)
LEMMA ServeStreams ==
  ASSUME IInv, IInv', MoreTypes, Streams, NEW w \in Workers, Serves(w)
  PROVE  /\ Streams'
         /\ \A d \in Clients : Handled(d)' = Handled(d) + Ups(w, d) /\ Handled(d) \in Nat
         /\ wpc[w] = "handle" => /\ msg[w] = Handled(Current(w)) + 1 /\ msg[w] <= LastMsg
<1>1. PICK c \in Clients : c = Current(w)
  BY ServeFrame
<1>2. PICK K \in Nat : StreamAt(c, K)
  BY DEF Streams
<1>3. /\ \E J \in Nat : StreamAt(c, J)'
      /\ Handled(c)' = Handled(c) + (IF wpc[w] = "handle" THEN 1 ELSE 0)
      /\ Handled(c) \in Nat /\ sent[c] \in Nat
      /\ wpc[w] = "handle" => /\ msg[w] = Handled(c) + 1 /\ Handled(c) + 1 <= sent[c]
                              /\ sent[c] <= LastMsg
  BY <1>1, <1>2, ServeCurrent
<1>4. ASSUME NEW d \in Clients, d # c
      PROVE  (\E J \in Nat : StreamAt(d, J)') /\ Handled(d)' = Handled(d) /\ Handled(d) \in Nat
  <2>1. Calm(d) /\ UNCHANGED <<cpc, sent>>
    BY <1>1, <1>4, ServeFrame
  <2>2. ASSUME NEW S PROVE SentOK(d, S) => SentOK(d, S)'
    BY <2>1 DEF SentOK
  <2>3. (\E J \in Nat : StreamAt(d, J)') /\ Handled(d)' = Handled(d)
    BY <2>1, <2>2, CalmStream DEF Streams
  <2>4. PICK J \in Nat : StreamAt(d, J)
    BY DEF Streams
  <2>5. Handled(d) \in 0 .. sent[d] /\ sent[d] \in 0 .. LastMsg
    BY <2>4, HandledBefore DEF HandledFacts, HandledFact
  <2> QED BY <2>3, <2>5
<1>5. LastMsg \in Nat
  BY ClientAssumption DEF LastMsg
<1>6. Streams'
  BY <1>3, <1>4 DEF Streams
<1>7. ASSUME NEW d \in Clients PROVE Handled(d)' = Handled(d) + Ups(w, d) /\ Handled(d) \in Nat
  BY <1>1, <1>3, <1>4 DEF Ups
<1>8. wpc[w] = "handle" => msg[w] = Handled(Current(w)) + 1 /\ msg[w] <= LastMsg
  BY <1>1, <1>3, <1>5
<1> QED BY <1>6, <1>7, <1>8

(* The effect of a message on the counter is its effect on the sum.         *)
LEMMA HandleSum ==
  ASSUME IInv, IInv', MoreTypes, Streams, CounterIsSum, NEW w \in Workers,
         HandleAddSub(w) \/ HandleTermination(w)
  PROVE  CounterIsSum'
<1> USE ClientAssumption
<1>1. wpc[w] = "handle" /\ Serves(w)
  BY DEF HandleAddSub, HandleTermination, At, Serves
<1>2. PICK c \in Clients : c = Current(w)
  BY <1>1, ServeFrame
<1>3. /\ \A d \in Clients : Handled(d)' = Handled(d) + Ups(w, d) /\ Handled(d) \in Nat
      /\ msg[w] = Handled(c) + 1 /\ msg[w] <= LastMsg
  BY <1>1, <1>2, ServeStreams
<1> DEFINE n == [d \in Clients |-> Handled(d)]
           m == [d \in Clients |-> Handled(d)']
<1>4. PICK h \in Nat : h = Handled(c)
  BY <1>3
<1>5. n[c] = h /\ m[c] = h + 1 /\ msg[w] = h + 1 /\ h <= numMessages
  BY <1>1, <1>2, <1>3, <1>4 DEF Ups, LastMsg
<1>6. \A d \in Clients : d # c => m[d] = n[d]
  BY <1>2, <1>3 DEF Ups
<1>7. \A d \in Clients : n[d] \in Nat /\ m[d] \in Nat
  BY <1>3 DEF Ups
<1>8. number = SumOfTotals(n) % INT64 /\ (CounterIsSum' <=> number' = SumOfTotals(m) % INT64)
  BY DEF CounterIsSum
<1> HIDE DEF n, m
<1>9. \A d \in Clients : Total(n[d]) \in Int /\ Total(m[d]) \in Int
  BY <1>7, TotalType
<1>10. \A d \in Clients : d # c => Total(m[d]) = Total(n[d])
  BY <1>6
<1>11. CASE HandleAddSub(w)
  <2>1. h < numMessages
    BY <1>5, <1>11 DEF HandleAddSub, Op, LastMsg
  <2>2. Total(h + 1) = Total(h) + Effect(h + 1) /\ Effect(h + 1) \in Int
    BY <2>1, TotalStep
  <2>3. PICK a \in Int, b \in Int, e \in Int : /\ a = SumOfTotals(n) /\ b = SumOfTotals(m)
                                               /\ e = Effect(h + 1) /\ b = a + e
    <3>1. /\ SumOfTotals(n) \in Int /\ SumOfTotals(m) \in Int
          /\ SumOfTotals(m) = SumOfTotals(n) + (Total(m[c]) - Total(n[c]))
      BY <1>9, <1>10, SumChanges
    <3>2. Total(m[c]) - Total(n[c]) = Effect(h + 1)
      <4>1. Total(h) \in Int
        BY TotalType
      <4> QED BY <1>5, <2>2, <4>1
    <3> QED BY <2>2, <3>1, <3>2
  <2>4. number' = FetchAdd(a % INT64, e)
    BY <1>5, <1>8, <1>11, <2>3 DEF HandleAddSub
  <2> QED BY <1>8, <2>3, <2>4, AddWrapped
<1>12. CASE HandleTermination(w)
  <2>1. h = numMessages /\ number' = number
    BY <1>5, <1>12 DEF HandleTermination, Op, LastMsg
  <2>2. Total(m[c]) = Total(n[c])
    BY <1>5, <2>1, TotalLast DEF LastMsg
  <2>3. \A d \in Clients : Total(n[d]) \in Int /\ Total(m[d]) = Total(n[d])
    BY <1>9, <1>10, <2>2
  <2>4. SumOfTotals(m) = SumOfTotals(n)
    BY <2>3, SumSame
  <2> QED BY <1>8, <2>1, <2>4
<1> QED BY <1>11, <1>12

(* The types of what a worker and a client hold.                            *)
LEMMA MoreTypesStep ==
  ASSUME IInv, MoreTypes, number \in Int, [Next]_vars
  PROVE  MoreTypes'
<1> USE DEF MoreTypes
<1>1. ASSUME NEW c \in Clients, Client(c) \/ Crash(c) PROVE MoreTypes'
  <2>1. UNCHANGED <<wpc, msg, ctr, to_client>> /\ (reply' = reply \/ \E v : reply' = [reply EXCEPT ![c] = v])
    BY <1>1 DEF Client, Connect, SendHeader, SendPayload, ReceiveCounter, ClientFails, Crash,
                workers, wire, queues
  <2> QED BY <2>1 DEF Workers
<1>2. CASE Main \/ UNCHANGED vars \/ AllGone
  <2>1. UNCHANGED <<wpc, msg, ctr, to_client, reply>>
    BY <1>2 DEF Main, AcceptConnection, Assign, AllGone, vars, workers, wire, clients
  <2> QED BY <2>1 DEF Workers
<1>3. ASSUME NEW w \in Workers, Worker(w) PROVE MoreTypes'
  <2>1. /\ wpc \in [Workers -> Serving \cup {"move", "clear", "poll", "loop"}]
        /\ to_server \in [Clients -> Seq(Pieces)]
    BY Types DEF IInv, TypeOK
  <2>2. Workers' = Workers
    <3>1. wpc' = wpc \/ \E at : wpc' = [wpc EXCEPT ![w] = at]
      BY <1>3 DEF Worker, MoveClients, ClearPending, Poll, Loop, RecvSize, RecvPayload, HandleAddSub,
                  HandleTermination, SendSize, SendCounter, SigPipe, Close, WGoto, workers
    <3> QED BY <2>1, <3>1 DEF Workers
  <2>3. CASE \/ MoveClients(w) \/ ClearPending(w) \/ Poll(w) \/ Loop(w) \/ SigPipe(w) \/ RecvSize(w)
    <3>1. UNCHANGED <<msg, ctr, to_client, reply>>
      BY <2>3 DEF MoveClients, ClearPending, Poll, Loop, RecvSize, SigPipe, workers, wire, clients
    <3> QED BY <2>2, <3>1
  <2>4. CASE RecvPayload(w)
    <3>1. /\ UNCHANGED <<ctr, to_client, reply>>
          /\ \/ msg' = msg
             \/ /\ to_server[Current(w)] # <<>>
                /\ msg' = [msg EXCEPT ![w] = Head(to_server[Current(w)])[2]]
      BY <2>4 DEF RecvPayload, clients
    <3>2. Current(w) \in Clients
      BY <2>4, CurrentIs DEF IInv, RecvPayload, At, Serving
    <3>3. to_server[Current(w)] # <<>> => Head(to_server[Current(w)])[2] \in Nat
      <4>1. PICK q \in Seq(Pieces) : q = to_server[Current(w)]
        BY <2>1, <3>2
      <4>2. q # <<>> => Head(q) \in Pieces
        OBVIOUS
      <4> QED BY <4>1, <4>2 DEF Pieces
    <3> QED BY <2>2, <3>1, <3>3
  <2>5. CASE HandleAddSub(w) \/ HandleTermination(w) \/ Close(w)
    <3>1. /\ UNCHANGED <<to_client, reply>>
          /\ msg' = msg \/ msg' = [msg EXCEPT ![w] = 0]
          /\ ctr' = ctr \/ \E v \in Int : ctr' = [ctr EXCEPT ![w] = v]
      BY <2>5 DEF HandleAddSub, HandleTermination, Close, clients, wire
    <3> QED BY <2>2, <3>1
  <2>6. CASE SendSize(w) \/ SendCounter(w)
    <3>1. /\ UNCHANGED <<msg, ctr, reply>>
          /\ \E v \in {"size", ctr[w]} : to_client' = [to_client EXCEPT ![Current(w)] = Append(@, v)]
      BY <2>6 DEF SendSize, SendCounter, clients
    <3>2. ctr[w] \in Int
      OBVIOUS
    <3>3. PICK v \in {"size"} \cup Int : to_client' = [to_client EXCEPT ![Current(w)] = Append(@, v)]
      BY <3>1, <3>2
    <3>4. PICK c \in Clients : c = Current(w)
      BY <2>6, CurrentIs DEF IInv, SendSize, SendCounter, At, Serving
    <3>5. Append(to_client[c], v) \in Seq({"size"} \cup Int)
      OBVIOUS
    <3> QED BY <2>2, <3>1, <3>3, <3>4, <3>5
  <2> QED BY <1>3, <2>3, <2>4, <2>5, <2>6 DEF Worker
<1> QED BY <1>1, <1>2, <1>3 DEF Next

(* Every step keeps the streams and the sum.                                *)
LEMMA SumStep ==
  ASSUME IInv, IInv', SInv, [Next]_vars
  PROVE  SInv'
<1>1. MoreTypes /\ Streams /\ CounterIsSum
  BY DEF SInv
<1>2. number \in Int
  <2>1. \A d \in Clients : Handled(d) \in Nat
    <3> SUFFICES ASSUME NEW d \in Clients PROVE Handled(d) \in Nat
      OBVIOUS
    <3>1. PICK J \in Nat : StreamAt(d, J)
      BY <1>1 DEF Streams
    <3>2. Handled(d) \in 0 .. sent[d] /\ sent[d] \in 0 .. LastMsg
      BY <3>1, HandledBefore DEF HandledFacts, HandledFact
    <3> QED BY <3>2
  <2> DEFINE n == [d \in Clients |-> Handled(d)]
  <2>2. \A d \in Clients : Total(n[d]) \in Int
    BY <2>1, TotalType
  <2>3. number = SumOfTotals(n) % INT64
    BY <1>1 DEF CounterIsSum
  <2> HIDE DEF n
  <2>4. SumOfTotals(n) \in Int
    BY <2>2, SumSame
  <2> QED BY <2>3, <2>4, ServerAssumption
<1>3. MoreTypes'
  BY <1>1, <1>2, MoreTypesStep
<1>4. ASSUME NEW c \in Clients, Client(c) \/ Crash(c) PROVE Streams' /\ HandledSame /\ number' = number
  <2>1. Streams' /\ HandledSame
    BY <1>1, <1>4, ClientQuiet, ClientSends DEF Client
  <2>2. number' = number
    BY <1>4 DEF Client, Connect, SendHeader, SendPayload, ReceiveCounter, ClientFails, Crash
  <2> QED BY <2>1, <2>2
<1>5. ASSUME Main \/ AllGone \/ UNCHANGED vars PROVE Streams' /\ HandledSame /\ number' = number
  BY <1>1, <1>5, ServerQuiet DEF AllGone
<1>6. ASSUME NEW w \in Workers, Worker(w), ~Serves(w)
      PROVE  Streams' /\ HandledSame /\ number' = number
  BY <1>1, <1>6, ServerQuiet DEF Worker, Serves
<1>7. ASSUME NEW w \in Workers, Serves(w) PROVE Streams' /\ CounterIsSum'
  <2>1. Streams' /\ \A d \in Clients : Handled(d)' = Handled(d) + Ups(w, d) /\ Handled(d) \in Nat
    BY <1>1, <1>7, ServeStreams
  <2>2. CASE HandleAddSub(w) \/ HandleTermination(w)
    BY <1>1, <2>1, <2>2, HandleSum
  <2>3. CASE ~(HandleAddSub(w) \/ HandleTermination(w))
    <3>1. wpc[w] # "handle" /\ number' = number
      BY <1>7, <2>3 DEF Serves, RecvSize, RecvPayload, SendSize, SendCounter, Close, At
    <3>2. HandledSame
      BY <2>1, <3>1 DEF Ups, HandledSame
    <3> QED BY <1>1, <2>1, <3>1, <3>2, SumKept
  <2> QED BY <2>2, <2>3
<1>8. Streams' /\ CounterIsSum'
  <2>1. ASSUME Streams' /\ HandledSame /\ number' = number PROVE Streams' /\ CounterIsSum'
    BY <1>1, <2>1, SumKept
  <2> QED BY <1>4, <1>5, <1>6, <1>7, <2>1 DEF Next
<1> QED BY <1>3, <1>8 DEF SInv

(* ... which hold at first.                                                 *)
LEMMA SumInit == Init => SInv
<1> SUFFICES ASSUME Init PROVE SInv
  OBVIOUS
<1>1. \A w \in Workers : wpc[w] = "move"
  BY DEF Init, Workers
<1>2. MoreTypes
  BY DEF Init, MoreTypes
<1>3. ASSUME NEW c \in Clients PROVE StreamAt(c, 0) /\ Total(Handled(c)) = 0
  <2>1. to_server[c] = <<>> /\ sent[c] = 0 /\ cpc[c] = "connect" /\ LastMsg \in Nat \ {0}
    BY ClientAssumption DEF Init, LastMsg
  <2>2. \A w, at : InHand(w, c, at) => at = "move"
    BY <1>1 DEF InHand
  <2>3. SentOK(c, 0)
    BY <2>1 DEF SentOK
  <2>4. ReadOK(c, 0)
    BY <2>2 DEF ReadOK
  <2>5. StreamAt(c, 0)
    BY <2>1, <2>3, <2>4 DEF StreamAt
  <2>6. Handled(c) = 0
    <3>1. HandledFact(c, 0)
      BY <2>5, HandledBefore, InitInv DEF HandledFacts
    <3> QED BY <2>1, <3>1 DEF HandledFact
  <2>7. Total(0) = 0
    <3>1. 0 # LastMsg /\ (0 + 1) \div 2 = 0 /\ 0 \div 2 = 0
      BY <2>1
    <3> QED BY <3>1, ClientAssumption DEF Total
  <2> QED BY <2>5, <2>6, <2>7
<1>4. CounterIsSum
  <2> DEFINE n == [d \in Clients |-> Handled(d)]
  <2>1. \A d \in Clients : Total(n[d]) = 0
    BY <1>3
  <2> HIDE DEF n
  <2>2. SumOfTotals(n) = 0
    BY <2>1, SumZero
  <2>3. number = 0 /\ 0 % INT64 = 0
    BY ServerAssumption DEF Init
  <2> QED BY <2>2, <2>3 DEF CounterIsSum, n
<1> QED BY <1>2, <1>3, <1>4 DEF SInv, Streams

(* The counter is the sum of the messages that have been handled, whichever *)
(* workers handle them and whoever crashes.                                 *)
THEOREM NoUpdateLost == Spec => []CounterIsSum
<1>1. IInv /\ IInv' /\ SInv /\ [Next]_vars => SInv'
  BY SumStep
<1>2. SInv => CounterIsSum
  BY DEF SInv
<1> QED BY CounterServerInvariance, SumInit, <1>1, <1>2, PTL DEF Spec

-----------------------------------------------------------------------------
(* The answers.                                                             *)

(* The counter, read when all operations of c are handled.                  *)
LEMMA ValueNow ==
  ASSUME IInv, SInv, NEW c \in Clients, Handled(c) = numMessages
  PROVE  /\ Value(number, c)
         /\ (\A d \in Clients : d # c => Handled(d) = LastMsg) => number = Full
<1> USE ClientAssumption
<1>1. ASSUME NEW d \in Clients
      PROVE  Handled(d) \in 0 .. sent[d] /\ sent[d] \in 0 .. LastMsg
  <2>1. PICK J \in Nat : StreamAt(d, J)
    BY DEF SInv, Streams
  <2> QED BY <2>1, HandledBefore DEF HandledFacts, HandledFact
<1> DEFINE h == [d \in Clients |-> Handled(d)]
           n == [d \in Clients |-> IF Handled(d) = LastMsg THEN numMessages ELSE Handled(d)]
           m == [d \in Clients |-> numMessages]
<1>2. \A d \in Clients : n[d] \in 0 .. numMessages /\ n[d] <= sent[d]
  BY <1>1 DEF LastMsg
<1>3. n \in [Clients -> 0 .. numMessages] /\ n[c] = numMessages
  BY <1>2 DEF LastMsg
<1>4. \A d \in Clients : Total(h[d]) \in Int /\ Total(n[d]) = Total(h[d])
  <2>1. ASSUME NEW d \in Clients PROVE Total(Handled(d)) \in Int
    <3>1. Handled(d) \in Nat
      BY <1>1
    <3> QED BY <3>1, TotalType
  <2> QED BY <2>1, TotalLast
<1>5. number = SumOfTotals(h) % INT64
  BY DEF SInv, CounterIsSum
<1>6. (\A d \in Clients : d # c => Handled(d) = LastMsg) => n = m
  OBVIOUS
<1>7. Full = SumOfTotals(m) % INT64
  BY DEF Full
<1> HIDE DEF h, n, m
<1>8. SumOfTotals(n) = SumOfTotals(h)
  BY <1>4, SumSame
<1>9. Value(number, c)
  BY <1>2, <1>3, <1>5, <1>8 DEF Value
<1> QED BY <1>5, <1>6, <1>7, <1>8, <1>9

(* A value stays one when more is sent.                                     *)
LEMMA ValueGrows ==
  ASSUME NEW v, NEW c, Value(v, c), sent \in [Clients -> Nat], sent' \in [Clients -> Nat],
         \A d \in Clients : sent[d] <= sent'[d]
  PROVE  Value(v, c)'
<1>1. PICK n \in [Clients -> 0 .. numMessages] :
         n[c] = numMessages /\ (\A d \in Clients : n[d] <= sent[d]) /\ v = SumOfTotals(n) % INT64
  BY DEF Value
<1>2. ASSUME NEW d \in Clients PROVE n[d] <= sent'[d]
  <2>1. n[d] \in Int /\ sent[d] \in Int /\ sent'[d] \in Int /\ n[d] <= sent[d] /\ sent[d] <= sent'[d]
    BY <1>1, ClientAssumption
  <2> QED BY <2>1
<1> QED BY <1>1, <1>2 DEF Value

(* The numbers of messages sent grow.                                       *)
SentGrow == sent \in [Clients -> Nat] /\ sent' \in [Clients -> Nat] /\ \A d \in Clients : sent[d] <= sent'[d]
(* Clients only send more.                                                  *)
LEMMA SentGrows ==
  ASSUME IInv, IInv', [Next]_vars
  PROVE  SentGrow
<1>1. sent \in [Clients -> Nat] /\ sent' \in [Clients -> Nat]
  BY DEF IInv, TypeOK
<1>2. sent' = sent \/ \E c \in Clients : sent' = [sent EXCEPT ![c] = @ + 1]
  BY DEF Next, Client, Connect, SendHeader, SendPayload, ReceiveCounter, ClientFails, Crash, Main,
         AcceptConnection, Assign, Worker, MoveClients, ClearPending, Poll, Loop, RecvSize, RecvPayload,
         HandleAddSub, HandleTermination, SendSize, SendCounter, SigPipe, Close, AllGone, vars, clients
<1> QED BY <1>1, <1>2 DEF SentGrow

(* The answer of a client that a step leaves alone.                         *)
LEMMA CalmAnswer ==
  ASSUME NEW d \in Clients, HandsKept(d), to_client'[d] = to_client[d], Handled(d)' = Handled(d),
         AnswerOK(d), SentGrow,
         reply'[d] # NONE => /\ Len(to_client[d]) = 2 /\ reply'[d] = to_client[d][2]
  PROVE  AnswerOK(d)' /\ \A v : AnswerOf(d, v) => AnswerOf(d, v)'
<1>1. \A w : /\ InHand(w, d, "send_size")' <=> InHand(w, d, "send_size")
             /\ InHand(w, d, "send_size") => ctr'[w] = ctr[w]
  BY DEF HandsKept, Tracked
<1>2. \A w : /\ InHand(w, d, "send_payload")' <=> InHand(w, d, "send_payload")
             /\ InHand(w, d, "send_payload") => ctr'[w] = ctr[w]
  BY DEF HandsKept, Tracked
<1>3. \A v : AnswerOf(d, v)' <=> AnswerOf(d, v)
  BY <1>1, <1>2 DEF AnswerOf
<1>4. ASSUME NEW v, AnswerOf(d, v)' PROVE Value(v, d)'
  <2>1. Value(v, d)
    BY <1>3, <1>4 DEF AnswerOK
  <2> QED BY <2>1, ValueGrows DEF SentGrow
<1>5. AnswerOK(d)'
  BY <1>1, <1>2, <1>4 DEF AnswerOK
<1> QED BY <1>3, <1>5

(* What AnswerOK says of the client at hand.                                *)
AnswerAt(c, w, at) ==
    /\ at = "send_size" => to_client[c] = <<>> /\ Handled(c) = LastMsg
    /\ at = "send_payload" => Len(to_client[c]) = 1
    /\ to_client[c] # <<>> => Handled(c) = LastMsg
    /\ reply[c] # NONE => Len(to_client[c]) = 2 /\ reply[c] = to_client[c][2]
AnswerFacts ==
    \A c, w, at : OnlyAt(c, w, at) =>
        /\ \A v : AnswerOf(c, v) <=> \/ at \in {"send_size", "send_payload"} /\ ctr[w] = v
                                     \/ Len(to_client[c]) = 2 /\ to_client[c][2] = v
        /\ AnswerOK(c) <=> AnswerAt(c, w, at) /\ \A v : AnswerOf(c, v) => Value(v, c)

(* ... before a step,                                                       *)
LEMMA AnswerBefore == AnswerFacts
<1> SUFFICES ASSUME NEW c, NEW w, NEW at, OnlyAt(c, w, at)
             PROVE  /\ \A v : AnswerOf(c, v) <=> \/ at \in {"send_size", "send_payload"} /\ ctr[w] = v
                                                 \/ Len(to_client[c]) = 2 /\ to_client[c][2] = v
                    /\ AnswerOK(c) <=> AnswerAt(c, w, at) /\ \A v : AnswerOf(c, v) => Value(v, c)
  BY DEF AnswerFacts
<1>1. /\ \A v : InHand(v, c, "send_size") <=> v = w /\ at = "send_size"
      /\ \A v : InHand(v, c, "send_payload") <=> v = w /\ at = "send_payload"
  BY DEF OnlyAt, Tracked
<1>2. \A v : AnswerOf(c, v) <=> \/ at \in {"send_size", "send_payload"} /\ ctr[w] = v
                                \/ Len(to_client[c]) = 2 /\ to_client[c][2] = v
  BY <1>1 DEF AnswerOf
<1>3. AnswerOK(c) <=> AnswerAt(c, w, at) /\ \A v : AnswerOf(c, v) => Value(v, c)
  BY <1>1 DEF AnswerOK, AnswerAt
<1> QED BY <1>2, <1>3
(* ... and after it.                                                        *)
LEMMA AnswerAfter == AnswerFacts'
<1>1. AnswerFacts
  BY AnswerBefore
<1> QED BY <1>1, PTL

(* The answer of the client at hand: made from the counter when its         *)
(* TERMINATION is handled, and sent as it was made.                         *)
LEMMA ServeAnswer ==
  ASSUME IInv, IInv', SInv, NEW w \in Workers, Serves(w), SentGrow,
         NEW c \in Clients, c = Current(w), AnswerOK(c)
  PROVE  /\ AnswerOK(c)'
         /\ \A v : AnswerOf(c, v) => AnswerOf(c, v)'
         /\ HandleTermination(w) => Handled(c) = numMessages /\ \A v : v = number => AnswerOf(c, v)'
         /\ HandleAddSub(w) => Handled(c)' # LastMsg
<1>1. /\ OnlyAt(c, w, wpc[w]) /\ OnlyAt(c, w, wpc[w])' /\ Workers' = Workers /\ UNCHANGED reply
  BY ServeFrame DEF SInv
<1>2. /\ Handled(c)' = Handled(c) + Ups(w, c) /\ Handled(c) \in Nat
      /\ wpc[w] = "handle" => msg[w] = Handled(c) + 1 /\ msg[w] <= LastMsg
  BY ServeStreams DEF SInv
<1>3. /\ wpc \in [Workers -> Serving \cup {"move", "clear", "poll", "loop"}]
      /\ MoreTypes /\ to_client[c] \in Seq({"size"} \cup Int)
      /\ LastMsg = numMessages + 1 /\ numMessages \in Nat
  BY Types, ClientAssumption DEF IInv, SInv, MoreTypes, LastMsg
<1>4. /\ \A v : AnswerOf(c, v) <=> \/ wpc[w] \in {"send_size", "send_payload"} /\ ctr[w] = v
                                   \/ Len(to_client[c]) = 2 /\ to_client[c][2] = v
      /\ \A v : AnswerOf(c, v)' <=> \/ wpc'[w] \in {"send_size", "send_payload"} /\ ctr'[w] = v
                                    \/ Len(to_client'[c]) = 2 /\ to_client'[c][2] = v
  BY <1>1, AnswerBefore, AnswerAfter DEF AnswerFacts
<1>5. AnswerAt(c, w, wpc[w]) /\ \A v : AnswerOf(c, v) => Value(v, c)
  BY <1>1, AnswerBefore DEF AnswerFacts
<1>6. ASSUME AnswerAt(c, w, wpc[w])', \A v : AnswerOf(c, v)' => AnswerOf(c, v) \/ Value(v, c)
      PROVE  AnswerOK(c)'
  <2>1. ASSUME NEW v, AnswerOf(c, v)' PROVE Value(v, c)'
    <3>1. Value(v, c)
      BY <1>5, <1>6, <2>1
    <3> QED BY <3>1, ValueGrows DEF SentGrow
  <2> QED BY <1>1, <1>6, <2>1, AnswerAfter DEF AnswerFacts
<1>7. wpc[w] # "handle" => Handled(c)' = Handled(c)
  BY <1>2 DEF Ups
<1>8. CASE RecvSize(w) \/ RecvPayload(w) \/ Close(w)
  <2>1. /\ wpc[w] \in {"size", "payload", "close"} /\ wpc'[w] \in {"payload", "handle", "close", "loop"}
        /\ to_client' = to_client
    BY <1>3, <1>8 DEF RecvSize, RecvPayload, Close, At, WGoto
  <2>2. \A v : AnswerOf(c, v)' <=> AnswerOf(c, v)
    BY <1>4, <2>1
  <2>3. AnswerAt(c, w, wpc[w])'
    BY <1>1, <1>5, <1>7, <2>1 DEF AnswerAt
  <2>4. ~HandleAddSub(w) /\ ~HandleTermination(w)
    BY <2>1 DEF HandleAddSub, HandleTermination, At
  <2> QED BY <1>6, <2>2, <2>3, <2>4
<1>9. CASE HandleAddSub(w)
  <2>1. wpc[w] = "handle" /\ wpc'[w] = "loop" /\ to_client' = to_client /\ msg[w] # LastMsg
    BY <1>3, <1>9 DEF HandleAddSub, At, WGoto, wire, Op
  <2>2. Handled(c)' = msg[w] /\ Handled(c) # LastMsg
    BY <1>2, <1>3, <2>1 DEF Ups
  <2>3. to_client[c] = <<>> /\ reply[c] = NONE
    BY <1>5, <2>2 DEF AnswerAt
  <2>4. \A v : ~AnswerOf(c, v)' /\ ~AnswerOf(c, v)
    BY <1>4, <2>1, <2>3
  <2>5. AnswerAt(c, w, wpc[w])'
    BY <1>1, <2>1, <2>3 DEF AnswerAt
  <2>6. ~HandleTermination(w)
    BY <2>1 DEF HandleTermination, Op
  <2> QED BY <1>6, <2>1, <2>2, <2>4, <2>5, <2>6
<1>10. CASE HandleTermination(w)
  <2>1. /\ wpc[w] = "handle" /\ wpc'[w] = "send_size" /\ to_client' = to_client /\ msg[w] = LastMsg
        /\ ctr'[w] = number
    BY <1>3, <1>10 DEF HandleTermination, At, WGoto, wire, Op, MoreTypes
  <2>2. Handled(c)' = LastMsg /\ Handled(c) = numMessages /\ Handled(c) # LastMsg
    BY <1>2, <1>3, <2>1 DEF Ups
  <2>3. to_client[c] = <<>> /\ reply[c] = NONE
    BY <1>5, <2>2 DEF AnswerAt
  <2>4. \A v : (AnswerOf(c, v)' <=> v = number) /\ ~AnswerOf(c, v)
    BY <1>4, <2>1, <2>3
  <2>5. AnswerAt(c, w, wpc[w])'
    BY <1>1, <2>1, <2>2, <2>3 DEF AnswerAt
  <2>6. Value(number, c)
    BY <2>2, ValueNow
  <2>7. ~HandleAddSub(w)
    BY <2>1 DEF HandleAddSub, Op
  <2> QED BY <1>6, <2>2, <2>4, <2>5, <2>6, <2>7
<1>11. CASE SendSize(w)
  <2>1. /\ wpc[w] = "send_size" /\ wpc'[w] = "send_payload" /\ ctr' = ctr
        /\ to_client'[c] = Append(to_client[c], "size")
    BY <1>3, <1>11 DEF SendSize, At, WGoto, MoreTypes
  <2>2. to_client[c] = <<>> /\ Handled(c)' = LastMsg /\ reply[c] = NONE
    BY <1>5, <1>7, <2>1 DEF AnswerAt
  <2>3. Len(to_client'[c]) = 1
    BY <2>1, <2>2
  <2>4. \A v : AnswerOf(c, v)' <=> AnswerOf(c, v)
    BY <1>4, <2>1, <2>2, <2>3
  <2>5. AnswerAt(c, w, wpc[w])'
    BY <1>1, <2>1, <2>2, <2>3 DEF AnswerAt
  <2>6. ~HandleAddSub(w) /\ ~HandleTermination(w)
    BY <2>1 DEF HandleAddSub, HandleTermination, At
  <2> QED BY <1>6, <2>4, <2>5, <2>6
<1>12. CASE SendCounter(w)
  <2>1. /\ wpc[w] = "send_payload" /\ wpc'[w] = "close"
        /\ to_client'[c] = Append(to_client[c], ctr[w])
    BY <1>3, <1>12 DEF SendCounter, At, WGoto, MoreTypes
  <2>2. Len(to_client[c]) = 1 /\ to_client[c] # <<>>
    <3>1. Len(to_client[c]) = 1
      BY <1>5, <2>1 DEF AnswerAt
    <3>2. Len(<<>>) # 1
      OBVIOUS
    <3> QED BY <3>1, <3>2
  <2>3. Handled(c)' = LastMsg /\ reply[c] = NONE
    BY <1>5, <1>7, <2>1, <2>2 DEF AnswerAt
  <2>4. Len(to_client'[c]) = 2 /\ to_client'[c][2] = ctr[w]
    BY <1>3, <2>1, <2>2
  <2>5. \A v : AnswerOf(c, v)' <=> AnswerOf(c, v)
    BY <1>4, <2>1, <2>2, <2>4
  <2>6. AnswerAt(c, w, wpc[w])'
    BY <1>1, <2>1, <2>3, <2>4 DEF AnswerAt
  <2>7. ~HandleAddSub(w) /\ ~HandleTermination(w)
    BY <2>1 DEF HandleAddSub, HandleTermination, At
  <2> QED BY <1>6, <2>5, <2>6, <2>7
<1> QED BY <1>8, <1>9, <1>10, <1>11, <1>12 DEF Serves

(* Every step keeps the answers.                                            *)
LEMMA AnswerStep ==
  ASSUME IInv, IInv', SInv, AInv, [Next]_vars
  PROVE  AInv'
<1>1. SentGrow
  BY SentGrows
<1>2. MoreTypes /\ Streams
  BY DEF SInv
<1>3. ASSUME HandledSame, \A d \in Clients : AnswerOK(d)' /\ \A v : AnswerOf(d, v) => AnswerOf(d, v)'
      PROVE  AInv'
  <2>1. LastSeesAll'
    <3>1. ASSUME \A d \in Clients : Handled(d)' = LastMsg PROVE \E d \in Clients : AnswerOf(d, Full)'
      <4>1. \A d \in Clients : Handled(d) = LastMsg
        BY <1>3, <3>1 DEF HandledSame
      <4>2. PICK d \in Clients : AnswerOf(d, Full)
        BY <4>1 DEF AInv, LastSeesAll
      <4> QED BY <4>2, <1>3
    <3>2. Full' = Full
      BY DEF Full
    <3> QED BY <3>1, <3>2 DEF LastSeesAll
  <2> QED BY <1>3, <2>1 DEF AInv
<1>4. ASSUME NEW c \in Clients, Client(c) \/ Crash(c) PROVE AInv'
  <2>1. HandledSame
    BY <1>2, <1>4, ClientQuiet, ClientSends DEF Client
  <2>2. /\ UNCHANGED <<active_clients, wpc, i, msg, ctr, to_client>>
        /\ \/ reply' = reply
           \/ Len(to_client[c]) = 2 /\ reply' = [reply EXCEPT ![c] = to_client[c][2]]
    BY <1>4 DEF Client, Connect, SendHeader, SendPayload, ReceiveCounter, ClientFails, Crash,
                workers, wire, queues
  <2>3. ASSUME NEW d \in Clients PROVE AnswerOK(d)' /\ \A v : AnswerOf(d, v) => AnswerOf(d, v)'
    <3>1. HandsKept(d)
      BY <2>2, HandsStay DEF Same, Workers, Current
    <3>2. AnswerOK(d)
      BY DEF AInv
    <3>3. reply'[d] # NONE => Len(to_client[d]) = 2 /\ reply'[d] = to_client[d][2]
      BY <1>2, <2>2, <3>2 DEF AnswerOK, MoreTypes
    <3>4. to_client'[d] = to_client[d] /\ Handled(d)' = Handled(d)
      BY <2>1, <2>2 DEF HandledSame
    <3> QED BY <1>1, <3>1, <3>2, <3>3, <3>4, CalmAnswer
  <2> QED BY <1>3, <2>1, <2>3
<1>5. ASSUME \/ Main \/ AllGone \/ UNCHANGED vars
             \/ \E w \in Workers : Worker(w) /\ ~Serves(w)
      PROVE  AInv'
  <2>1. \/ Main \/ UNCHANGED vars
        \/ \E w \in Workers : \/ MoveClients(w) \/ ClearPending(w) \/ Poll(w)
                              \/ Loop(w) \/ SigPipe(w)
    BY <1>5 DEF AllGone, Worker, Serves
  <2>2. HandledSame /\ UNCHANGED <<reply, to_client>> /\ \A d \in Clients : HandsKept(d)
    BY <1>2, <2>1, ServerQuiet
  <2>3. ASSUME NEW d \in Clients PROVE AnswerOK(d)' /\ \A v : AnswerOf(d, v) => AnswerOf(d, v)'
    <3>1. AnswerOK(d) /\ HandsKept(d)
      BY <2>2 DEF AInv
    <3>2. reply'[d] # NONE => Len(to_client[d]) = 2 /\ reply'[d] = to_client[d][2]
      BY <2>2, <3>1 DEF AnswerOK
    <3>3. to_client'[d] = to_client[d] /\ Handled(d)' = Handled(d)
      BY <2>2 DEF HandledSame
    <3> QED BY <1>1, <3>1, <3>2, <3>3, CalmAnswer
  <2> QED BY <1>3, <2>2, <2>3
<1>6. ASSUME NEW w \in Workers, Serves(w) PROVE AInv'
  <2>1. PICK c \in Clients : c = Current(w)
    BY <1>2, <1>6, ServeFrame
  <2>2. /\ \A d \in Clients : Handled(d)' = Handled(d) + Ups(w, d) /\ Handled(d) \in Nat
    BY <1>2, <1>6, ServeStreams
  <2>3. AnswerOK(c)
    BY DEF AInv
  <2>4. /\ AnswerOK(c)'
        /\ \A v : AnswerOf(c, v) => AnswerOf(c, v)'
        /\ HandleTermination(w) => Handled(c) = numMessages /\ \A v : v = number => AnswerOf(c, v)'
        /\ HandleAddSub(w) => Handled(c)' # LastMsg
    BY <1>1, <1>6, <2>1, <2>3, ServeAnswer
  <2>5. ASSUME NEW d \in Clients, d # c
        PROVE  Handled(d)' = Handled(d) /\ AnswerOK(d)' /\ \A v : AnswerOf(d, v) => AnswerOf(d, v)'
    <3>1. AnswerOK(d)
      BY DEF AInv
    <3>2. Calm(d) /\ to_client'[d] = to_client[d] /\ UNCHANGED reply
      BY <1>2, <1>6, <2>1, <2>5, ServeFrame
    <3>3. Handled(d)' = Handled(d)
      BY <2>1, <2>2, <2>5 DEF Ups
    <3>4. reply'[d] # NONE => Len(to_client[d]) = 2 /\ reply'[d] = to_client[d][2]
      BY <3>1, <3>2 DEF AnswerOK
    <3>5. AnswerOK(d)' /\ \A v : AnswerOf(d, v) => AnswerOf(d, v)'
      BY <1>1, <3>1, <3>2, <3>3, <3>4, CalmAnswer DEF Calm
    <3> QED BY <3>3, <3>5
  <2>6. CASE wpc[w] # "handle"
    <3>1. HandledSame
      BY <2>2, <2>6 DEF Ups, HandledSame
    <3> QED BY <1>3, <2>4, <2>5, <3>1
  <2>7. CASE HandleAddSub(w)
    BY <2>4, <2>5, <2>7 DEF AInv, LastSeesAll
  <2>8. CASE HandleTermination(w)
    <3>1. ASSUME \A d \in Clients : Handled(d)' = LastMsg PROVE AnswerOf(c, Full)'
      <4>1. number = Full
        BY <2>4, <2>5, <2>8, <3>1, ValueNow
      <4>2. Full' = Full
        BY DEF Full
      <4>3. \A v : v = Full => AnswerOf(c, v)'
        BY <2>4, <2>8, <4>1
      <4> QED BY <4>2, <4>3
    <3> QED BY <2>4, <2>5, <3>1 DEF AInv, LastSeesAll
  <2>9. wpc[w] = "handle" => HandleAddSub(w) \/ HandleTermination(w)
    BY <1>6 DEF Serves, RecvSize, RecvPayload, SendSize, SendCounter, Close, At
  <2> QED BY <2>6, <2>7, <2>8, <2>9
<1> QED BY <1>4, <1>5, <1>6 DEF Next

(* ... which hold at first if there are clients.                            *)
LEMMA AnswerInit ==
  ASSUME Init, Clients # {}
  PROVE  AInv
<1>1. \A w \in Workers : wpc[w] = "move"
  BY DEF Init, Workers
<1>2. \A w, c, at : InHand(w, c, at) => at = "move"
  BY <1>1 DEF InHand
<1>3. ASSUME NEW c \in Clients PROVE AnswerOK(c) /\ Handled(c) # LastMsg
  <2>1. to_client[c] = <<>> /\ reply[c] = NONE /\ sent[c] = 0
    BY DEF Init
  <2>2. \A v : ~AnswerOf(c, v)
    BY <1>2, <2>1 DEF AnswerOf
  <2>3. AnswerOK(c)
    BY <1>2, <2>1, <2>2 DEF AnswerOK
  <2>4. PICK K \in Nat : StreamAt(c, K)
    BY SumInit DEF SInv, Streams
  <2>5. Handled(c) \in 0 .. sent[c]
    BY <2>4, InitInv, HandledBefore DEF HandledFacts, HandledFact
  <2>6. LastMsg \in Nat \ {0}
    BY ClientAssumption DEF LastMsg
  <2> QED BY <2>1, <2>3, <2>5, <2>6
<1> QED BY <1>3 DEF AInv, LastSeesAll

(* A client is told the sum of all of its own operations and of some that   *)
(* the others have sent, and one of the clients that of all operations of   *)
(* all clients, if there is a client at all.                                *)
THEOREM AnswersAreSums ==
  ASSUME Clients # {}
  PROVE  Spec => []AnswersAddUp
<1>1. Init => IInv /\ SInv /\ AInv
  BY InitInv, SumInit, AnswerInit
<1>2. IInv /\ IInv' /\ SInv /\ [Next]_vars => SInv'
  BY SumStep
<1>3. IInv /\ IInv' /\ SInv /\ AInv /\ [Next]_vars => AInv'
  BY AnswerStep
<1>4. AInv => AnswersAddUp
  <2> SUFFICES ASSUME AInv PROVE AnswersAddUp
    OBVIOUS
  <2>1. ASSUME NEW c \in Clients, reply[c] # NONE
        PROVE  /\ Value(reply[c], c) /\ Handled(c) = LastMsg
               /\ \A v : AnswerOf(c, v) <=> v = reply[c]
    <3>1. AnswerOK(c)
      BY DEF AInv
    <3>2. Len(to_client[c]) = 2 /\ reply[c] = to_client[c][2] /\ to_client[c] # <<>>
      BY <2>1, <3>1 DEF AnswerOK
    <3>3. \A w : ~InHand(w, c, "send_size") /\ ~InHand(w, c, "send_payload")
      BY <3>1, <3>2 DEF AnswerOK
    <3>4. \A v : AnswerOf(c, v) <=> v = reply[c]
      BY <3>2, <3>3 DEF AnswerOf
    <3> QED BY <3>1, <3>2, <3>4 DEF AnswerOK
  <2>2. ASSUME \A c \in Clients : reply[c] # NONE PROVE \E c \in Clients : reply[c] = Full
    <3>1. PICK c \in Clients : AnswerOf(c, Full)
      BY <2>1, <2>2 DEF AInv, LastSeesAll
    <3> QED BY <2>1, <2>2, <3>1
  <2> QED BY <2>1, <2>2 DEF AnswersAddUp, Value, Full
<1> QED BY CounterServerInvariance, <1>1, <1>2, <1>3, <1>4, PTL DEF Spec
=============================================================================
