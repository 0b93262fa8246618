---------------------------- MODULE FramingProofs ----------------------------
(***************************************************************************)
(* That recv_msg of task06 returns the messages sent, for messages of any  *)
(* number and size and whatever pieces they arrive in, as long as every    *)
(* length arrives whole.                                                   *)
(***************************************************************************)
EXTENDS Framing, WellFoundedInduction, TLAPS

-----------------------------------------------------------------------------
(* The layout of the messages in the stream.                                *)

(* A set of numbers has a least one: induction by the least exception.      *)
LEMMA Least ==
  ASSUME NEW T, T \subseteq Nat, T # {}
  PROVE  \E x \in T : \A y \in T : x <= y
<1>1. PICK x \in T : \A y \in T : ~ (<<y, x>> \in OpToRel(<, Nat))
  <2> HIDE DEF OpToRel
  <2> QED BY NatLessThanWellFounded, WFMin
<1>2. \A y \in T : ~(y < x)
  BY <1>1 DEF OpToRel
<1> QED BY <1>2

(* The equation of Begin for the function g at m, and up to n.              *)
BeginAt(g, m) == IF m <= 1 THEN 0 ELSE g[m - 1] + HDR + Size[m - 1]
Good(n, g)  == DOMAIN g = 0 .. n /\ \A m \in 0 .. n : g[m] = BeginAt(g, m)

(* The equation has a solution up to every n.                               *)
LEMMA GoodExists == \A n \in Nat : \E g : Good(n, g)
<1> DEFINE T == {n \in Nat : ~\E g : Good(n, g)}
<1>1. SUFFICES ASSUME T # {} PROVE FALSE
  OBVIOUS
<1>2. PICK n \in T : \A y \in T : n <= y
  <2>1. T \subseteq Nat
    OBVIOUS
  <2> HIDE DEF T
  <2> QED BY <1>1, <2>1, Least
<1>3. n \in Nat /\ ~\E g : Good(n, g)
  OBVIOUS
<1>4. CASE n = 0
  <2>1. Good(0, [m \in 0 .. 0 |-> 0])
    BY DEF Good, BeginAt
  <2> QED BY <1>3, <1>4, <2>1
<1>5. CASE n > 0
  <2>1. n - 1 \in Nat /\ n - 1 \notin T
    BY <1>2, <1>3, <1>5
  <2>2. PICK g : Good(n - 1, g)
    BY <2>1
  <2> DEFINE h == [m \in 0 .. n |-> IF m = n THEN BeginAt(g, n) ELSE g[m]]
  <2>3. DOMAIN h = 0 .. n
    OBVIOUS
  <2>4. \A m \in 0 .. n - 1 : h[m] = g[m]
    BY <1>3
  <2>5. \A m \in 0 .. n : BeginAt(h, m) = BeginAt(g, m)
    <3> SUFFICES ASSUME NEW m \in 0 .. n PROVE BeginAt(h, m) = BeginAt(g, m)
      OBVIOUS
    <3>1. CASE m <= 1
      BY <3>1 DEF BeginAt
    <3>2. CASE m > 1
      <4>1. m - 1 \in 0 .. n - 1
        BY <3>2, <1>3
      <4>2. h[m - 1] = g[m - 1]
        BY <4>1, <2>4
      <4> HIDE DEF h
      <4> QED BY <3>2, <4>2, <1>3 DEF BeginAt
    <3> QED BY <3>1, <3>2, <1>3
  <2>6. \A m \in 0 .. n : h[m] = BeginAt(g, m)
    <3> SUFFICES ASSUME NEW m \in 0 .. n PROVE h[m] = BeginAt(g, m)
      OBVIOUS
    <3>1. CASE m = n
      BY <3>1
    <3>2. CASE m # n
      <4>1. m \in 0 .. n - 1
        BY <3>2, <1>3
      <4> QED BY <4>1, <2>2, <2>4 DEF Good
    <3> QED BY <3>1, <3>2
  <2>7. Good(n, h)
    <3> HIDE DEF h
    <3> QED BY <2>3, <2>5, <2>6 DEF Good
  <2> QED BY <2>7, <1>3
<1> QED BY <1>3, <1>4, <1>5

(* Two solutions agree.                                                     *)
LEMMA GoodUnique ==
  ASSUME NEW j \in Nat, NEW k \in Nat, NEW g, NEW h, Good(j, g), Good(k, h)
  PROVE  \A m \in Nat : m <= j /\ m <= k => g[m] = h[m]
<1> DEFINE T == {m \in Nat : m <= j /\ m <= k /\ g[m] # h[m]}
<1>1. SUFFICES ASSUME T # {} PROVE FALSE
  OBVIOUS
<1>2. PICK n \in T : \A y \in T : n <= y
  <2>1. T \subseteq Nat
    OBVIOUS
  <2> HIDE DEF T
  <2> QED BY <1>1, <2>1, Least
<1>3. n \in Nat /\ n <= j /\ n <= k /\ g[n] # h[n]
  OBVIOUS
<1>4. g[n] = BeginAt(g, n) /\ h[n] = BeginAt(h, n)
  <2>1. n \in 0 .. j /\ n \in 0 .. k
    BY <1>3
  <2> QED BY <2>1 DEF Good
<1>5. n > 1
  BY <1>3, <1>4 DEF BeginAt
<1>6. n - 1 \in Nat /\ n - 1 <= j /\ n - 1 <= k /\ n - 1 \notin T
  BY <1>2, <1>3, <1>5
<1>7. g[n - 1] = h[n - 1]
  BY <1>6
<1> QED BY <1>3, <1>4, <1>5, <1>7 DEF BeginAt

(* So Begin is what its definition says.                                    *)
LEMMA BeginIs == \A m \in Nat : Begin[m] = BeginAt(Begin, m)
<1> DEFINE G(n) == CHOOSE g : Good(n, g)
           f == [m \in Nat |-> G(m)[m]]
<1>1. \A n \in Nat : Good(n, G(n))
  BY GoodExists
<1> HIDE DEF G
<1>2. \A m \in Nat : f[m] = BeginAt(f, m)
  <2> SUFFICES ASSUME NEW m \in Nat PROVE f[m] = BeginAt(f, m)
    OBVIOUS
  <2>1. f[m] = BeginAt(G(m), m)
    <3>1. m \in 0 .. m
      OBVIOUS
    <3> QED BY <3>1, <1>1 DEF Good
  <2>2. CASE m <= 1
    BY <2>1, <2>2 DEF BeginAt
  <2>3. CASE m > 1
    <3>1. m - 1 \in Nat /\ m - 1 <= m
      BY <2>3
    <3>2. G(m)[m - 1] = G(m - 1)[m - 1]
      BY <3>1, <1>1, GoodUnique
    <3>3. f[m - 1] = G(m)[m - 1]
      BY <3>1, <3>2
    <3> HIDE DEF f
    <3> QED BY <2>1, <2>3, <3>3 DEF BeginAt
  <2> QED BY <2>2, <2>3
<1>3. f = [m \in Nat |-> IF m <= 1 THEN 0 ELSE f[m - 1] + HDR + Size[m - 1]]
  <2>1. \A m \in Nat : f[m] = IF m <= 1 THEN 0 ELSE f[m - 1] + HDR + Size[m - 1]
    BY <1>2 DEF BeginAt
  <2>2. f = [m \in Nat |-> f[m]]
    OBVIOUS
  <2> HIDE DEF f
  <2> QED BY <2>1, <2>2
<1> HIDE DEF f
<1>4. Begin = [m \in Nat |-> IF m <= 1 THEN 0 ELSE Begin[m - 1] + HDR + Size[m - 1]]
  BY <1>3 DEF Begin
<1> QED BY <1>4 DEF BeginAt

(* The messages lie one behind the other.                                   *)
LEMMA Layout ==
  /\ Begin[1] = 0
  /\ \A m \in Messages : Begin[m + 1] = Begin[m] + HDR + Size[m]
  /\ \A m \in Messages : Size[m] \in Nat /\ Size[m] <= MaxSize
<1>1. Messages = 1 .. Len(Size) /\ Len(Size) \in Nat /\ \A m \in Messages : Size[m] \in 1 .. MaxSize
  BY FramingAssumption DEF Messages
<1>2. Begin[1] = 0
  BY BeginIs DEF BeginAt
<1>3. ASSUME NEW m \in Messages PROVE Begin[m + 1] = Begin[m] + HDR + Size[m]
  <2>1. m + 1 \in Nat /\ m + 1 > 1 /\ (m + 1) - 1 = m
    BY <1>1
  <2>2. Begin[m + 1] = BeginAt(Begin, m + 1)
    BY <2>1, BeginIs
  <2> QED BY <2>1, <2>2 DEF BeginAt
<1>4. MaxSize \in Nat
  BY FramingAssumption
<1> QED BY <1>1, <1>2, <1>3, <1>4

(* A message begins at or behind the end of every earlier one, and the      *)
(* whole stream ends at Total.                                              *)
LEMMA Ordered ==
  \A n \in 1 .. Len(Size) + 1 :
      /\ Begin[n] \in Nat
      /\ \A m \in Messages : m < n => /\ Begin[m] \in Nat
                                      /\ Begin[m] + HDR + Size[m] <= Begin[n]
<1> DEFINE Q(n) == /\ Begin[n] \in Nat
                   /\ \A m \in Messages : m < n => /\ Begin[m] \in Nat
                                                   /\ Begin[m] + HDR + Size[m] <= Begin[n]
           T == {n \in 1 .. Len(Size) + 1 : ~Q(n)}
<1>1. SUFFICES ASSUME T # {} PROVE FALSE
  OBVIOUS
<1>2. Messages = 1 .. Len(Size) /\ Len(Size) \in Nat /\ HDR \in Nat
  BY FramingAssumption DEF Messages
<1>3. PICK n \in T : \A y \in T : n <= y
  <2>1. T \subseteq Nat
    BY <1>2
  <2> HIDE DEF T
  <2> QED BY <1>1, <2>1, Least
<1>4. n \in 1 .. Len(Size) + 1 /\ ~Q(n)
  OBVIOUS
<1>5. CASE n = 1
  <2>1. Q(1)
    BY <1>2, Layout
  <2> QED BY <2>1, <1>4, <1>5
<1>6. CASE n > 1
  <2>1. n - 1 \in Messages /\ n - 1 \in 1 .. Len(Size) + 1 /\ n - 1 < n /\ (n - 1) + 1 = n
    BY <1>2, <1>4, <1>6
  <2>2. n - 1 \notin T
    BY <1>3, <2>1, <1>2
  <2>3. Q(n - 1)
    BY <2>1, <2>2
  <2>4. /\ Begin[n] = Begin[n - 1] + HDR + Size[n - 1]
        /\ Begin[n - 1] \in Nat /\ Size[n - 1] \in Nat
    BY <2>1, <2>3, Layout
  <2>5. Begin[n] \in Nat /\ Begin[n - 1] <= Begin[n]
    BY <2>4, <1>2
  <2>6. ASSUME NEW m \in Messages, m < n
        PROVE  Begin[m] \in Nat /\ Begin[m] + HDR + Size[m] <= Begin[n]
    <3>1. CASE m = n - 1
      BY <3>1, <2>4, <2>5, <1>2
    <3>2. CASE m # n - 1
      <4>1. m < n - 1
        BY <2>6, <3>2, <1>2, <1>4
      <4>2. Begin[m] \in Nat /\ Begin[m] + HDR + Size[m] <= Begin[n - 1]
        BY <4>1, <2>3
      <4>3. Size[m] \in Nat
        BY Layout
      <4>4. PICK x \in Nat : x = Begin[m] + HDR + Size[m]
        BY <4>2, <4>3, <1>2
      <4>5. PICK y \in Nat : y = Begin[n - 1]
        BY <2>4
      <4>6. PICK z \in Nat : z = Begin[n]
        BY <2>5
      <4>7. x <= y
        BY <4>2, <4>4, <4>5
      <4>8. y <= z
        BY <2>5, <4>5, <4>6
      <4>9. x <= z
        BY <4>7, <4>8
      <4> QED BY <4>2, <4>4, <4>6, <4>9
    <3> QED BY <3>1, <3>2
  <2>7. Q(n)
    BY <2>5, <2>6
  <2> QED BY <2>7, <1>4
<1> QED BY <1>2, <1>4, <1>5, <1>6

(* What is read from the first byte of a message on is its length.          *)
LEMMA LengthRead ==
  ASSUME NEW k \in Messages
  PROVE  ReadLengths(Begin[k], HDR) = {Size[k]}
<1>1. Messages = 1 .. Len(Size) /\ Len(Size) \in Nat /\ HDR \in Nat \ {0}
  BY FramingAssumption DEF Messages
<1>2. ASSUME NEW m \in Messages, m # k PROVE Begin[m] # Begin[k]
  <2>1. /\ m \in 1 .. Len(Size) + 1 /\ k \in 1 .. Len(Size) + 1
        /\ Size[m] \in Nat /\ Size[k] \in Nat
    BY <1>1, Layout
  <2>2. Begin[m] \in Nat /\ Begin[k] \in Nat
    BY <2>1, Ordered
  <2>3. CASE m < k
    <3>1. Begin[m] + HDR + Size[m] <= Begin[k]
      BY <2>1, <2>3, Ordered
    <3> QED BY <3>1, <2>1, <2>2, <1>1
  <2>4. CASE k < m
    <3>1. Begin[k] + HDR + Size[k] <= Begin[m]
      BY <2>1, <2>4, Ordered
    <3> QED BY <3>1, <2>1, <2>2, <1>1
  <2> QED BY <2>3, <2>4, <1>1, <1>2
<1>3. {m \in Messages : Begin[m] = Begin[k]} = {k}
  BY <1>2
<1>4. ReadLengths(Begin[k], HDR) = {LengthSent(m) : m \in {m \in Messages : Begin[m] = Begin[k]}}
  BY DEF ReadLengths
<1> QED BY <1>3, <1>4 DEF LengthSent

(* A header is there to be read only where a message begins.                *)
LEMMA HeaderIsThere ==
  ASSUME NEW k \in 1 .. Len(Size) + 1, NEW b \in Nat, b <= Total, Begin[k] + HDR <= b
  PROVE  k \in Messages
<1>1. Messages = 1 .. Len(Size) /\ Len(Size) \in Nat /\ HDR \in Nat \ {0}
  BY FramingAssumption DEF Messages
<1>2. CASE k = Len(Size) + 1
  <2>1. Total = Begin[k] /\ Begin[k] \in Nat
    BY <1>2, Ordered DEF Total
  <2> QED BY <2>1, <1>1
<1> QED BY <1>1, <1>2

-----------------------------------------------------------------------------
(* The invariant.                                                           *)

TypeOK ==
    /\ wr \in Nat /\ rd \in Nat /\ rd <= wr /\ wr <= Total
    /\ rpc \in {"header", "payload", "failed"}
    /\ size \in 0 .. MaxSize /\ start \in Nat /\ cut \in BOOLEAN
    /\ got \in Seq(Nat \X Nat)

(* Between messages recv_msg is at the first byte of the next one, and      *)
(* within one it knows its place and length.                                *)
InStep ==
    LET k == Len(got) + 1
    IN  /\ k \in 1 .. Len(Size) + 1
        /\ rpc = "header" => rd = Begin[k]
        /\ rpc = "payload" => k \in Messages /\ start = Begin[k] + HDR /\ size = Size[k]

IInv == TypeOK /\ MessagesIntact /\ (~cut => InStep)

(* The invariant holds at first.                                            *)
LEMMA InitInv == Init => IInv
<1> SUFFICES ASSUME Init PROVE IInv
  OBVIOUS
<1>1. HDR \in Nat /\ MaxSize \in Nat /\ Len(Size) \in Nat
  BY FramingAssumption
<1>2. Total \in Nat
  BY <1>1, Ordered DEF Total
<1>3. TypeOK
  <2>1. got \in Seq(Nat \X Nat)
    BY DEF Init
  <2>2. cut \in BOOLEAN
    BY DEF Init
  <2>3. /\ wr \in Nat /\ rd \in Nat /\ rd <= wr /\ wr <= Total
        /\ size \in 0 .. MaxSize /\ start \in Nat
    BY <1>1, <1>2 DEF Init
  <2> QED BY <2>1, <2>2, <2>3 DEF Init, TypeOK
<1>4. Len(got) = 0
  BY DEF Init
<1>5. InStep
  BY <1>1, <1>4, Layout DEF Init, InStep
<1>6. MessagesIntact
  BY DEF Init, MessagesIntact
<1> QED BY <1>3, <1>5, <1>6 DEF IInv

(* Every step keeps it.                                                     *)
LEMMA StepInv == IInv /\ [Next]_vars => IInv'
<1> SUFFICES ASSUME IInv, [Next]_vars PROVE IInv'
  OBVIOUS
<1>0. /\ HDR \in Nat \ {0} /\ MaxSize \in Nat /\ Len(Size) \in Nat /\ Total \in Nat
      /\ TypeOK /\ MessagesIntact /\ (~cut => InStep)
  BY FramingAssumption, Ordered DEF Total, IInv
<1>1. ASSUME NEW n \in 1 .. HDR + MaxSize, Send(n) PROVE IInv'
  <2>1. wr' = wr + n /\ wr' <= Total /\ UNCHANGED <<rd, closed, rpc, size, cut, start, got>>
    BY <1>1 DEF Send
  <2>2. TypeOK'
    BY <2>1, <1>0 DEF TypeOK
  <2>3. MessagesIntact' /\ (~cut => InStep')
    BY <2>1, <1>0 DEF MessagesIntact, InStep
  <2> QED BY <2>1, <2>2, <2>3 DEF IInv
<1>2. CASE Close
  BY <1>0, <1>2 DEF Close, IInv, TypeOK, MessagesIntact, InStep
<1>3. ASSUME NEW n \in 1 .. HDR, RecvHeader(n) PROVE IInv'
  <2>1. /\ rpc = "header" /\ n <= wr - rd /\ cut' = (cut \/ n < HDR)
        /\ rd' = rd + n /\ start' = rd + n /\ size' \in ReadLengths(rd, n)
        /\ rpc' = "payload" /\ UNCHANGED <<wr, closed, got>>
    BY <1>3 DEF RecvHeader
  <2>2. size' \in 0 .. MaxSize
    <3>1. CASE n = HDR /\ \E m \in Messages : Begin[m] = rd
      <4>1. PICK m \in Messages : size' = Size[m]
        BY <2>1, <3>1 DEF ReadLengths, LengthSent
      <4> QED BY <4>1, <1>0, Layout
    <3>2. CASE ~(n = HDR /\ \E m \in Messages : Begin[m] = rd)
      BY <2>1, <3>2 DEF ReadLengths
    <3> QED BY <3>1, <3>2
  <2>3. TypeOK'
    BY <2>1, <2>2, <1>0 DEF TypeOK
  <2>4. MessagesIntact'
    <3>1. rd' <= start' + size'
      <4>1. rd \in Nat
        BY <1>0 DEF TypeOK
      <4>2. rd' = rd + n /\ start' = rd + n
        BY <2>1
      <4>3. n \in Nat /\ size' \in Nat
        BY <2>2, <1>0
      <4>4. PICK a \in Nat, s \in Nat : a = rd + n /\ s = size'
        BY <4>1, <4>3
      <4>5. a <= a + s
        OBVIOUS
      <4> QED BY <4>2, <4>4, <4>5
    <3>2. ~cut' => ~cut
      BY <2>1, Zenon
    <3>3. got' = got
      BY <2>1
    <3>4. ~cut' => \A k \in DOMAIN got' : k \in Messages /\ got'[k] = <<Begin[k] + HDR, Size[k]>>
      BY <3>2, <3>3, <1>0 DEF MessagesIntact
    <3> QED BY <3>1, <3>4 DEF MessagesIntact
  <2>5. ASSUME ~cut' PROVE InStep'
    <3>1. ~cut /\ n = HDR
      <4>1. ~cut /\ ~(n < HDR)
        BY <2>1, <2>5, Zenon
      <4> QED BY <4>1, <1>0, <1>3
    <3>2. PICK k \in 1 .. Len(Size) + 1 : k = Len(got) + 1 /\ rd = Begin[k]
      BY <3>1, <2>1, <1>0 DEF InStep
    <3>3. k \in Messages
      <4>1. Begin[k] + HDR <= wr /\ wr \in Nat /\ wr <= Total
        BY <2>1, <3>1, <3>2, <1>0 DEF TypeOK
      <4> QED BY <4>1, HeaderIsThere
    <3>4. size' = Size[k]
      BY <2>1, <3>1, <3>2, <3>3, LengthRead
    <3> QED BY <2>1, <3>1, <3>2, <3>3, <3>4 DEF InStep
  <2> QED BY <2>3, <2>4, <2>5 DEF IInv
<1>4. ASSUME NEW n \in 1 .. MaxSize, RecvPayload(n) PROVE IInv'
  <2>1. /\ rpc = "payload" /\ n <= start + size - rd /\ n <= wr - rd /\ rd' = rd + n
        /\ UNCHANGED <<wr, closed, rpc, size, cut, start, got>>
    BY <1>4 DEF RecvPayload
  <2>2. TypeOK'
    BY <2>1, <1>0 DEF TypeOK
  <2>3. MessagesIntact'
    BY <2>1, <1>0 DEF MessagesIntact, TypeOK
  <2>4. ~cut => InStep'
    BY <2>1, <1>0 DEF InStep
  <2> QED BY <2>1, <2>2, <2>3, <2>4 DEF IInv
<1>5. CASE RecvEnd \/ ParseError
  <2>1. rpc' = "failed" /\ UNCHANGED <<wr, rd, size, cut, start, got>>
    BY <1>5 DEF RecvEnd, ParseError
  <2> QED BY <2>1, <1>0 DEF IInv, TypeOK, MessagesIntact, InStep
<1>6. CASE ParseMessage
  <2>1. /\ rpc = "payload" /\ rd = start + size /\ rpc' = "header"
        /\ got' = Append(got, <<start, size>>)
        /\ UNCHANGED <<wr, rd, closed, size, cut, start>>
    BY <1>6 DEF ParseMessage
  <2>2. got \in Seq(Nat \X Nat) /\ <<start, size>> \in Nat \X Nat
    BY <1>0 DEF TypeOK
  <2>3. /\ got' \in Seq(Nat \X Nat) /\ Len(got) \in Nat /\ Len(got') = Len(got) + 1
        /\ DOMAIN got = 1 .. Len(got) /\ DOMAIN got' = 1 .. Len(got) + 1
        /\ \A j \in DOMAIN got : got'[j] = got[j]
        /\ got'[Len(got) + 1] = <<start, size>>
    BY <2>1, <2>2
  <2>4. TypeOK'
    BY <2>1, <2>3, <1>0 DEF TypeOK
  <2>5. ASSUME ~cut PROVE InStep' /\ MessagesIntact'
    <3>1. PICK k \in Messages : k = Len(got) + 1 /\ start = Begin[k] + HDR /\ size = Size[k]
      BY <2>1, <2>5, <1>0 DEF InStep
    <3>2. Messages = 1 .. Len(Size)
      BY FramingAssumption DEF Messages
    <3>3. rd = Begin[k + 1] /\ k + 1 \in 1 .. Len(Size) + 1 /\ Len(got') + 1 = k + 1
      BY <2>1, <2>3, <3>1, <3>2, <1>0, Layout
    <3>4. InStep'
      BY <2>1, <3>3 DEF InStep
    <3>5. ASSUME NEW j \in DOMAIN got' PROVE j \in Messages /\ got'[j] = <<Begin[j] + HDR, Size[j]>>
      <4>1. CASE j \in DOMAIN got
        BY <4>1, <2>3, <2>5, <1>0 DEF MessagesIntact
      <4>2. CASE j \notin DOMAIN got
        <5>1. j = k
          BY <4>2, <2>3, <3>1
        <5> QED BY <5>1, <2>3, <3>1
      <4> QED BY <4>1, <4>2
    <3> QED BY <2>1, <3>4, <3>5 DEF MessagesIntact
  <2>6. cut => MessagesIntact'
    BY <2>1 DEF MessagesIntact
  <2> QED BY <2>1, <2>4, <2>5, <2>6 DEF IInv
<1>7. CASE UNCHANGED vars
  BY <1>0, <1>7 DEF vars, IInv, TypeOK, MessagesIntact, InStep
<1> QED BY <1>1, <1>2, <1>3, <1>4, <1>5, <1>6, <1>7 DEF Next, Receive

-----------------------------------------------------------------------------
(* recv_msg returns the messages sent, in order, whole and nothing else, as *)
(* long as every length arrives whole, and never writes beyond its buffer.  *)
THEOREM MessagesStayIntact == Spec => []MessagesIntact
<1>1. IInv => MessagesIntact
  BY DEF IInv
<1> QED BY InitInv, StepInv, <1>1, PTL DEF Spec
=============================================================================
