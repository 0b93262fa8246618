--------------------------- MODULE AllocatorProofs ---------------------------
(***************************************************************************)
(* Safety of the heap allocator of task05 for any number of threads,       *)
(* arenas and calls, any heap and any alignment.                           *)
(***************************************************************************)
EXTENDS Allocator, FiniteSetTheorems, TLAPS

-----------------------------------------------------------------------------
(* Multiples of ALIGN.                                                      *)

(* A multiple of ALIGN is one of its multiples.                             *)
LEMMA Multiple ==
  ASSUME NEW a \in Nat, a % ALIGN = 0
  PROVE  \E q \in Nat : a = q * ALIGN
<1>1. a \div ALIGN \in Nat
  BY AlignAssumption
<1>2. a = (a \div ALIGN) * ALIGN
  BY AlignAssumption
<1> QED BY <1>1, <1>2

(* And the other way round.                                                 *)
LEMMA IsMultiple ==
  ASSUME NEW a \in Nat, NEW q \in Nat, a = q * ALIGN
  PROVE  a % ALIGN = 0
BY AlignAssumption

(* Sums are multiples.                                                      *)
LEMMA AlignedSum ==
  ASSUME NEW a \in Nat, NEW b \in Nat, a % ALIGN = 0, b % ALIGN = 0
  PROVE  (a + b) % ALIGN = 0
<1>1. PICK p \in Nat : a = p * ALIGN
  BY Multiple
<1>2. PICK q \in Nat : b = q * ALIGN
  BY Multiple
<1>3. p + q \in Nat /\ a + b = (p + q) * ALIGN
  BY <1>1, <1>2, AlignAssumption
<1> QED BY <1>3, IsMultiple

(* Differences are.                                                         *)
LEMMA AlignedDifference ==
  ASSUME NEW a \in Nat, NEW b \in Nat, b <= a, a % ALIGN = 0, b % ALIGN = 0
  PROVE  (a - b) % ALIGN = 0
<1>1. PICK p \in Nat : a = p * ALIGN
  BY Multiple
<1>2. PICK q \in Nat : b = q * ALIGN
  BY Multiple
<1>3. p - q \in Nat
  BY <1>1, <1>2, AlignAssumption
<1>4. a - b = (p - q) * ALIGN
  BY <1>1, <1>2, AlignAssumption
<1>5. a - b \in Nat
  OBVIOUS
<1> QED BY <1>3, <1>4, <1>5, IsMultiple

(* A header is not smaller than the alignment.                              *)
LEMMA Positive ==
  ASSUME NEW a \in Nat, a % ALIGN = 0, a > 0
  PROVE  a >= ALIGN
BY AlignAssumption

(* ALIGN8 rounds up to a multiple, as long as nothing wraps.                *)
LEMMA RoundsUp ==
  ASSUME NEW n \in Nat, n + ALIGN < SIZE_T
  PROVE  /\ ALIGN8(n) \in Nat /\ ALIGN8(n) % ALIGN = 0
         /\ n <= ALIGN8(n) /\ ALIGN8(n) < n + ALIGN
         /\ n = 0 => ALIGN8(n) = 0
<1>1. ALIGN \in Nat \ {0} /\ SIZE_T \in Nat
  BY AlignAssumption, SizesAssumption
<1>2. PICK m \in Nat : m = n + ALIGN - 1 /\ m < SIZE_T
  BY <1>1
<1>3. Wrap(m) = m
  BY <1>1, <1>2 DEF Wrap
<1>4. PICK q \in Nat : q = m \div ALIGN
  BY <1>1
<1>5. ALIGN8(n) = q * ALIGN
  BY <1>2, <1>3, <1>4 DEF ALIGN8
<1>6. q * ALIGN <= m /\ m < q * ALIGN + ALIGN /\ q * ALIGN \in Nat
  BY <1>1, <1>4
<1>7. n = 0 => q = 0
  BY <1>1, <1>2, <1>4
<1>8. ALIGN8(n) % ALIGN = 0
  BY <1>5, <1>6, IsMultiple
<1>9. n = 0 => ALIGN8(n) = 0
  BY <1>1, <1>5, <1>7
<1> QED BY <1>1, <1>2, <1>5, <1>6, <1>8, <1>9
-----------------------------------------------------------------------------
(* The heap.                                                                *)

Block == [arena : Arenas, freed : BOOLEAN, size : Nat, prev : Nat, next : Nat]

HeapType(h) ==
    /\ Blocks(h) \subseteq Nat \ {0}
    /\ h = [blk |-> h.blk, head |-> h.head, tail |-> h.tail]
    /\ h.blk \in [Blocks(h) -> Block]
    /\ h.head \in [Arenas -> Nat] /\ h.tail \in [Arenas -> Nat]

BlockShape(h) ==
    \A b \in Blocks(h) : /\ b % ALIGN = 0 /\ HeapStart <= b
                         /\ h.blk[b].size % ALIGN = 0 /\ ALIGN <= h.blk[b].size

Apart(h) == \A b, c \in Blocks(h) : b < c => EndOf(h, b) <= c

(* next is the least block of the arena above, prev the greatest below.     *)
NextOK(h) ==
    \A b \in Blocks(h) :
        /\ h.blk[b].next # NULL => /\ h.blk[b].next \in Blocks(h) /\ b < h.blk[b].next
                                   /\ h.blk[h.blk[b].next].arena = h.blk[b].arena
        /\ \A c \in Blocks(h) : h.blk[c].arena = h.blk[b].arena /\ b < c =>
               h.blk[b].next # NULL /\ h.blk[b].next <= c

PrevOK(h) ==
    \A b \in Blocks(h) :
        /\ h.blk[b].prev # NULL => /\ h.blk[b].prev \in Blocks(h) /\ h.blk[b].prev < b
                                   /\ h.blk[h.blk[b].prev].arena = h.blk[b].arena
        /\ \A c \in Blocks(h) : h.blk[c].arena = h.blk[b].arena /\ c < b =>
               h.blk[b].prev # NULL /\ c <= h.blk[b].prev

HeadOK(h) ==
    \A a \in Arenas :
        /\ h.head[a] # NULL => h.head[a] \in Blocks(h) /\ h.blk[h.head[a]].arena = a
        /\ \A c \in Blocks(h) : h.blk[c].arena = a => h.head[a] # NULL /\ h.head[a] <= c

TailOK(h) ==
    \A a \in Arenas :
        /\ h.tail[a] # NULL => h.tail[a] \in Blocks(h) /\ h.blk[h.tail[a]].arena = a
        /\ \A c \in Blocks(h) : h.blk[c].arena = a => h.tail[a] # NULL /\ c <= h.tail[a]

HeapOK(h) == /\ HeapType(h) /\ BlockShape(h) /\ Apart(h)
             /\ NextOK(h) /\ PrevOK(h) /\ HeadOK(h) /\ TailOK(h)

(* Adjacent free blocks are merged, but perhaps at the blocks of X.         *)
CoalescedAt(h, b) ==
    h.blk[b].freed /\ h.blk[b].next # NULL /\ EndOf(h, b) = h.blk[b].next =>
        ~h.blk[h.blk[b].next].freed
CoalescedBut(h, X) == \A b \in Blocks(h) \ X : CoalescedAt(h, b)

(* The bytes of all blocks, and the blocks that are not free.               *)
Covered(h) == UNION {b .. EndOf(h, b) - 1 : b \in Blocks(h)}
Used(h)    == {b \in Blocks(h) : ~h.blk[b].freed}

-----------------------------------------------------------------------------
(* split_block.                                                             *)

(* s is h with block b split after size bytes.                              *)
SplitAt(h, s, b, size, rem) ==
    /\ rem = b + HDR + size
    /\ HeapType(s)
    /\ Blocks(s) = Blocks(h) \cup {rem}
    /\ s.head = h.head
    /\ \A a \in Arenas : s.tail[a] =
           IF a = h.blk[b].arena /\ h.blk[b].next = NULL THEN rem ELSE h.tail[a]
    /\ s.blk[rem].arena = h.blk[b].arena /\ s.blk[rem].freed
    /\ s.blk[rem].size = h.blk[b].size - size - HDR
    /\ s.blk[rem].prev = b /\ s.blk[rem].next = h.blk[b].next
    /\ s.blk[b].arena = h.blk[b].arena /\ (s.blk[b].freed <=> h.blk[b].freed)
    /\ s.blk[b].size = size
    /\ s.blk[b].prev = h.blk[b].prev /\ s.blk[b].next = rem
    /\ \A x \in Blocks(h) \ {b} :
           /\ s.blk[x].arena = h.blk[x].arena /\ (s.blk[x].freed <=> h.blk[x].freed)
           /\ s.blk[x].size = h.blk[x].size /\ s.blk[x].next = h.blk[x].next
           /\ s.blk[x].prev = IF x = h.blk[b].next THEN rem ELSE h.blk[x].prev

(* The remainder lies inside the block and is no block yet.                 *)
LEMMA RemainderInside ==
  ASSUME NEW h, HeapOK(h), NEW b \in Blocks(h), NEW size \in Nat,
         ALIGN <= size, size + HDR + ALIGN <= h.blk[b].size
  PROVE  /\ b + HDR + size \in Nat \ {0} /\ b + HDR + size \notin Blocks(h)
         /\ b < b + HDR + size /\ b + HDR + size < EndOf(h, b)
         /\ h.blk[b].size - size - HDR \in Nat
         /\ \A c \in Blocks(h) : c # b => c < b \/ EndOf(h, b) <= c
<1>1. ALIGN \in Nat \ {0} /\ HDR \in Nat \ {0}
  BY AlignAssumption, SizesAssumption
<1>2. b \in Nat /\ h.blk[b].size \in Nat /\ Blocks(h) \subseteq Nat
  BY DEF HeapOK, HeapType, Block
<1>3. b + HDR + size < EndOf(h, b)
  BY <1>1, <1>2 DEF EndOf
<1>4. \A c \in Blocks(h) : c # b => c < b \/ EndOf(h, b) <= c
  BY <1>2 DEF HeapOK, Apart
<1>5. EndOf(h, b) \in Nat
  BY <1>1, <1>2 DEF EndOf
<1>6. b + HDR + size \notin Blocks(h)
  BY <1>1, <1>2, <1>3, <1>4, <1>5
<1> QED BY <1>1, <1>2, <1>3, <1>4, <1>6

(* What split_block does to the fields.                                     *)
LEMMA SplitFields ==
  ASSUME NEW h, HeapOK(h), NEW b \in Blocks(h), NEW size \in Nat,
         ALIGN <= size, size + HDR + ALIGN <= h.blk[b].size, size + HDR + ALIGN < SIZE_T
  PROVE  SplitAt(h, split_block(h, b, size), b, size, b + HDR + size)
<1> DEFINE rem == b + HDR + size
           old == h.blk[b]
           s == split_block(h, b, size)
           blk == [x \in Blocks(h) \cup {rem} |->
                    CASE x = rem -> [arena |-> old.arena, freed |-> TRUE,
                                     size |-> old.size - size - HDR,
                                     prev |-> b, next |-> old.next]
                      [] x = b -> [old EXCEPT !.size = size, !.next = rem]
                      [] x = old.next -> [h.blk[x] EXCEPT !.prev = rem]
                      [] OTHER -> h.blk[x]]
           tail == [h.tail EXCEPT ![old.arena] = NewTail(@, rem, old.next)]
<1>1. ALIGN \in Nat \ {0} /\ HDR \in Nat \ {0} /\ SIZE_T \in Nat
  BY AlignAssumption, SizesAssumption
<1>2. HeapType(h) /\ old \in Block
  BY DEF HeapOK, HeapType
<1>3. WorthSplitting(h, b, size)
  <2>1. Wrap(size + HDR + ALIGN) = size + HDR + ALIGN
    BY <1>1 DEF Wrap
  <2> QED BY <1>1, <2>1 DEF WorthSplitting
<1>4. s = [h EXCEPT !.blk = blk, !.tail[old.arena] = NewTail(@, rem, old.next)]
  BY <1>3 DEF split_block
<1>5. s = [blk |-> blk, head |-> h.head, tail |-> tail]
  BY <1>2, <1>4 DEF HeapType
<1>6. rem \in Nat \ {0} /\ rem \notin Blocks(h) /\ rem # b /\ old.size - size - HDR \in Nat
  BY RemainderInside
<1>7. Blocks(s) = Blocks(h) \cup {rem} /\ s.blk = blk /\ s.head = h.head /\ s.tail = tail
  BY <1>5 DEF Blocks
<1>7a. old.next # rem /\ old.next # b
  <2>1. old.next = NULL \/ (old.next \in Blocks(h) /\ b < old.next)
    BY DEF HeapOK, NextOK
  <2> QED BY <1>6, <2>1, <1>2 DEF NULL, HeapType
<1> HIDE DEF s
<1>8. blk[rem] = [arena |-> old.arena, freed |-> TRUE, size |-> old.size - size - HDR,
                  prev |-> b, next |-> old.next]
  BY <1>6, <1>7a
<1>9. blk[b] = [old EXCEPT !.size = size, !.next = rem]
  BY <1>6, <1>7a
<1>10. \A x \in Blocks(h) \ {b} :
          blk[x] = IF x = old.next THEN [h.blk[x] EXCEPT !.prev = rem] ELSE h.blk[x]
  BY <1>6, <1>7a
<1>11. \A x \in Blocks(h) : h.blk[x] \in Block
  BY <1>2 DEF HeapType
<1> HIDE DEF blk
<1>12. blk[rem] \in Block /\ blk[b] \in Block
  <2>1. /\ old.arena \in Arenas /\ old.size \in Nat /\ old.freed \in BOOLEAN
        /\ old.prev \in Nat /\ old.next \in Nat /\ b \in Nat
    BY <1>2 DEF Block, HeapType
  <2>2. blk[rem] \in Block
    BY <2>1, <1>6, <1>8 DEF Block
  <2>3. blk[b] \in Block
    BY <1>2, <1>6, <1>9 DEF Block
  <2> QED BY <2>2, <2>3
<1>13. \A x \in Blocks(h) \ {b} : blk[x] \in Block
  <2> SUFFICES ASSUME NEW x \in Blocks(h) \ {b} PROVE blk[x] \in Block
    OBVIOUS
  <2>1. rem \in Nat /\ h.blk[x] \in Block
    BY <1>6, <1>11
  <2>2. [h.blk[x] EXCEPT !.prev = rem] \in Block
    BY <2>1 DEF Block
  <2> QED BY <2>1, <2>2, <1>10
<1>14. blk \in [Blocks(h) \cup {rem} -> Block]
  BY <1>12, <1>13 DEF blk
<1>15. tail \in [Arenas -> Nat]
  BY <1>2, <1>6 DEF HeapType, NewTail, Block
<1>16. HeapType(s)
  BY <1>2, <1>5, <1>6, <1>7, <1>14, <1>15 DEF HeapType
<1>17. \A a \in Arenas : s.tail[a] = IF a = old.arena /\ old.next = NULL THEN rem ELSE h.tail[a]
  BY <1>2, <1>7 DEF HeapType, NewTail
<1>18. \A x \in Blocks(h) \ {b} :
           /\ s.blk[x].arena = h.blk[x].arena /\ (s.blk[x].freed <=> h.blk[x].freed)
           /\ s.blk[x].size = h.blk[x].size /\ s.blk[x].next = h.blk[x].next
           /\ s.blk[x].prev = IF x = h.blk[b].next THEN rem ELSE h.blk[x].prev
  <2> SUFFICES ASSUME NEW x \in Blocks(h) \ {b}
               PROVE  /\ blk[x].arena = h.blk[x].arena /\ (blk[x].freed <=> h.blk[x].freed)
                      /\ blk[x].size = h.blk[x].size /\ blk[x].next = h.blk[x].next
                      /\ blk[x].prev = IF x = h.blk[b].next THEN rem ELSE h.blk[x].prev
    BY <1>7
  <2>1. h.blk[x] \in Block
    BY <1>11
  <2>2. CASE x = old.next
    <3>1. blk[x] = [h.blk[x] EXCEPT !.prev = rem]
      BY <2>2, <1>10
    <3> QED BY <2>1, <2>2, <3>1 DEF Block
  <2>3. CASE x # old.next
    BY <2>3, <1>10
  <2> QED BY <2>2, <2>3
<1>19. /\ s.blk[b].arena = h.blk[b].arena /\ (s.blk[b].freed <=> h.blk[b].freed)
       /\ s.blk[b].size = size
       /\ s.blk[b].prev = h.blk[b].prev /\ s.blk[b].next = rem
  BY <1>2, <1>7, <1>9 DEF Block
<1>20. /\ s.blk[rem].arena = h.blk[b].arena /\ s.blk[rem].freed
       /\ s.blk[rem].size = h.blk[b].size - size - HDR
       /\ s.blk[rem].prev = b /\ s.blk[rem].next = h.blk[b].next
  BY <1>7, <1>8
<1> QED BY <1>7, <1>16, <1>17, <1>18, <1>19, <1>20 DEF SplitAt, s

(* The lists stay in order.                                                 *)
LEMMA SplitKeepsOK ==
  ASSUME NEW h, HeapOK(h), NEW b \in Blocks(h), NEW size \in Nat, size % ALIGN = 0,
         ALIGN <= size, size + HDR + ALIGN <= h.blk[b].size,
         NEW s, NEW rem, SplitAt(h, s, b, size, rem)
  PROVE  HeapOK(s)
<1>1. /\ ALIGN \in Nat \ {0} /\ HDR \in Nat \ {0} /\ HDR % ALIGN = 0
      /\ HeapStart \in Nat \ {0}
  BY AlignAssumption, SizesAssumption, HeapAssumption
<1>2. /\ HeapType(h) /\ BlockShape(h) /\ Apart(h)
      /\ NextOK(h) /\ PrevOK(h) /\ HeadOK(h) /\ TailOK(h)
  BY DEF HeapOK
<1>3. /\ Blocks(h) \subseteq Nat \ {0} /\ \A x \in Blocks(h) : h.blk[x].size \in Nat
      /\ \A x \in Blocks(h) : h.blk[x].next \in Nat /\ h.blk[x].prev \in Nat
      /\ \A x \in Blocks(h) : h.blk[x].arena \in Arenas
  BY <1>2 DEF HeapType, Block
<1>4. /\ rem = b + HDR + size /\ rem \in Nat \ {0} /\ rem \notin Blocks(h) /\ b < rem
      /\ Blocks(s) = Blocks(h) \cup {rem} /\ rem < EndOf(h, b)
  BY RemainderInside DEF SplitAt
<1>5. /\ EndOf(s, rem) = EndOf(h, b) /\ EndOf(s, b) = rem
      /\ \A x \in Blocks(h) \ {b} : EndOf(s, x) = EndOf(h, x)
  BY <1>1, <1>3, <1>4 DEF SplitAt, EndOf
<1>6. \A c \in Blocks(h) : c # b => c < b \/ EndOf(h, b) <= c
  BY RemainderInside
<1>7. \A x \in Blocks(h) : EndOf(h, x) \in Nat
  BY <1>1, <1>3 DEF EndOf
<1>8. \A c \in Blocks(h) : /\ (b < c <=> rem < c) /\ (c < rem <=> c = b \/ c < b)
  BY <1>3, <1>4, <1>6, <1>7
<1>9. BlockShape(s)
  <2>1. (b + HDR) % ALIGN = 0
    BY <1>1, <1>2, <1>3, AlignedSum DEF BlockShape
  <2>2. rem % ALIGN = 0
    BY <1>1, <1>3, <1>4, <2>1, AlignedSum
  <2>3. PICK z \in Nat : z = h.blk[b].size /\ z % ALIGN = 0
    BY <1>2, <1>3 DEF BlockShape
  <2>4. (size + HDR) % ALIGN = 0 /\ size + HDR \in Nat /\ size + HDR <= z
    BY <1>1, <2>3, AlignedSum
  <2>5. (z - (size + HDR)) % ALIGN = 0
    BY <2>3, <2>4, AlignedDifference
  <2>6. s.blk[rem].size = z - (size + HDR) /\ ALIGN <= z - (size + HDR)
    BY <1>1, <2>3 DEF SplitAt
  <2>7. HeapStart <= rem
    BY <1>1, <1>2, <1>3, <1>4 DEF BlockShape
  <2>8. s.blk[b].size = size /\ \A x \in Blocks(h) \ {b} : s.blk[x].size = h.blk[x].size
    BY DEF SplitAt
  <2> QED BY <1>2, <1>4, <2>2, <2>5, <2>6, <2>7, <2>8 DEF BlockShape
<1>10. Apart(s)
  <2> SUFFICES ASSUME NEW x \in Blocks(s), NEW y \in Blocks(s), x < y PROVE EndOf(s, x) <= y
    BY DEF Apart
  <2>1. CASE x = rem
    BY <2>1, <1>3, <1>4, <1>5, <1>6, <1>8
  <2>2. CASE x = b
    <3>1. CASE y = rem
      BY <2>2, <3>1, <1>4, <1>5
    <3>2. CASE y # rem
      BY <2>2, <3>2, <1>3, <1>4, <1>5, <1>8
    <3> QED BY <3>1, <3>2
  <2>3. CASE x \in Blocks(h) \ {b}
    <3>1. EndOf(s, x) = EndOf(h, x) /\ EndOf(h, x) \in Nat
      BY <2>3, <1>5, <1>7
    <3>2. CASE y = rem
      <4>1. x < b
        BY <2>3, <3>2, <1>8
      <4>2. EndOf(h, x) <= b
        BY <2>3, <4>1, <1>2 DEF Apart
      <4> QED BY <3>1, <3>2, <4>2, <1>3, <1>4
    <3>3. CASE y \in Blocks(h)
      BY <2>3, <3>1, <3>3, <1>2 DEF Apart
    <3> QED BY <3>2, <3>3, <1>4
  <2> QED BY <2>1, <2>2, <2>3, <1>4
<1>11. HeadOK(s)
  BY <1>2, <1>3, <1>4 DEF HeadOK, SplitAt
<1>12. TailOK(s)
  <2> SUFFICES ASSUME NEW a \in Arenas
               PROVE  /\ s.tail[a] # NULL => s.tail[a] \in Blocks(s) /\ s.blk[s.tail[a]].arena = a
                      /\ \A c \in Blocks(s) : s.blk[c].arena = a => s.tail[a] # NULL /\ c <= s.tail[a]
    BY DEF TailOK
  <2>1. \A x \in Blocks(h) : s.blk[x].arena = h.blk[x].arena
    BY DEF SplitAt
  <2>2. s.blk[rem].arena = h.blk[b].arena
    BY DEF SplitAt
  <2>3. h.tail[a] \in Nat
    BY <1>2 DEF HeapType
  <2>4. CASE a = h.blk[b].arena /\ h.blk[b].next = NULL
    <3>1. s.tail[a] = rem /\ rem # NULL
      BY <2>4, <1>4 DEF SplitAt, NULL
    <3>2. \A c \in Blocks(h) : h.blk[c].arena = a => c <= b
      BY <2>4, <1>2, <1>3 DEF NextOK
    <3> QED BY <3>1, <3>2, <2>1, <2>2, <2>4, <1>3, <1>4
  <2>5. CASE a = h.blk[b].arena /\ h.blk[b].next # NULL
    <3>1. s.tail[a] = h.tail[a]
      BY <2>5 DEF SplitAt
    <3>2. h.tail[a] # NULL /\ h.blk[b].next <= h.tail[a] /\ b < h.blk[b].next
      BY <2>5, <1>2 DEF NextOK, TailOK
    <3>3. h.tail[a] \in Blocks(h) /\ b < h.tail[a] /\ h.blk[h.tail[a]].arena = a
      BY <3>2, <2>3, <1>2, <1>3 DEF TailOK
    <3>4. rem < h.tail[a]
      BY <3>3, <1>8
    <3> QED BY <3>1, <3>3, <3>4, <2>1, <2>2, <2>3, <1>2, <1>3, <1>4 DEF TailOK
  <2>6. CASE a # h.blk[b].arena
    <3>1. s.tail[a] = h.tail[a]
      BY <2>6 DEF SplitAt
    <3> QED BY <3>1, <2>1, <2>2, <2>6, <1>2, <1>4 DEF TailOK
  <2> QED BY <2>4, <2>5, <2>6
<1>13. NextOK(s)
  <2>1. /\ \A x \in Blocks(h) : s.blk[x].arena = h.blk[x].arena
        /\ s.blk[rem].arena = h.blk[b].arena /\ s.blk[rem].next = h.blk[b].next
        /\ s.blk[b].next = rem
        /\ \A x \in Blocks(h) \ {b} : s.blk[x].next = h.blk[x].next
    BY DEF SplitAt
  <2> SUFFICES ASSUME NEW x \in Blocks(s)
               PROVE  /\ s.blk[x].next # NULL =>
                            /\ s.blk[x].next \in Blocks(s) /\ x < s.blk[x].next
                            /\ s.blk[s.blk[x].next].arena = s.blk[x].arena
                      /\ \A c \in Blocks(s) : s.blk[c].arena = s.blk[x].arena /\ x < c =>
                            s.blk[x].next # NULL /\ s.blk[x].next <= c
    BY DEF NextOK
  <2>2. CASE x = rem
    BY <2>1, <2>2, <1>2, <1>3, <1>4, <1>8 DEF NextOK
  <2>3. CASE x = b
    BY <2>1, <2>3, <1>3, <1>4, <1>8 DEF NULL
  <2>4. CASE x \in Blocks(h) \ {b}
    <3>1. s.blk[x].next # NULL =>
             /\ s.blk[x].next \in Blocks(s) /\ x < s.blk[x].next
             /\ s.blk[s.blk[x].next].arena = s.blk[x].arena
      BY <2>1, <2>4, <1>2, <1>4 DEF NextOK
    <3>2. ASSUME NEW c \in Blocks(s), s.blk[c].arena = s.blk[x].arena, x < c
          PROVE  s.blk[x].next # NULL /\ s.blk[x].next <= c
      <4>1. CASE c \in Blocks(h)
        BY <2>1, <2>4, <3>2, <4>1, <1>2 DEF NextOK
      <4>2. CASE c = rem
        <5>1. x < b /\ h.blk[b].arena = h.blk[x].arena
          BY <2>1, <2>4, <3>2, <4>2, <1>8
        <5>2. h.blk[x].next # NULL /\ h.blk[x].next <= b
          BY <5>1, <2>4, <1>2 DEF NextOK
        <5>3. h.blk[x].next \in Nat
          BY <2>4, <1>3
        <5> QED BY <5>2, <5>3, <4>2, <2>1, <2>4, <1>3, <1>4
      <4> QED BY <4>1, <4>2, <1>4
    <3> QED BY <3>1, <3>2
  <2> QED BY <2>2, <2>3, <2>4, <1>4
<1>14. PrevOK(s)
  <2>1. /\ \A x \in Blocks(h) : s.blk[x].arena = h.blk[x].arena
        /\ s.blk[rem].arena = h.blk[b].arena /\ s.blk[rem].prev = b
        /\ s.blk[b].prev = h.blk[b].prev
        /\ \A x \in Blocks(h) \ {b} :
              s.blk[x].prev = IF x = h.blk[b].next THEN rem ELSE h.blk[x].prev
    BY DEF SplitAt
  <2> SUFFICES ASSUME NEW x \in Blocks(s)
               PROVE  /\ s.blk[x].prev # NULL =>
                            /\ s.blk[x].prev \in Blocks(s) /\ s.blk[x].prev < x
                            /\ s.blk[s.blk[x].prev].arena = s.blk[x].arena
                      /\ \A c \in Blocks(s) : s.blk[c].arena = s.blk[x].arena /\ c < x =>
                            s.blk[x].prev # NULL /\ c <= s.blk[x].prev
    BY DEF PrevOK
  <2>2. CASE x = rem
    BY <2>1, <2>2, <1>3, <1>4, <1>8 DEF NULL
  <2>3. CASE x = b
    <3>1. \A c \in Blocks(s) : c < b => c \in Blocks(h)
      BY <1>3, <1>4
    <3> QED BY <2>1, <2>3, <3>1, <1>2, <1>4 DEF PrevOK
  <2>4. CASE x \in Blocks(h) \ {b} /\ x = h.blk[b].next
    <3>1. s.blk[x].prev = rem /\ b < x /\ h.blk[x].arena = h.blk[b].arena
      BY <2>1, <2>4, <1>2, <1>3 DEF NextOK, NULL
    <3>2. rem < x
      BY <3>1, <2>4, <1>8
    <3>3. ASSUME NEW c \in Blocks(h), h.blk[c].arena = h.blk[x].arena, c < x PROVE c <= rem
      <4>1. ~(b < c)
        BY <3>1, <3>3, <2>4, <1>2, <1>3 DEF NextOK
      <4> QED BY <4>1, <1>3, <1>4
    <3> QED BY <3>1, <3>2, <3>3, <2>1, <2>4, <1>4 DEF NULL
  <2>5. CASE x \in Blocks(h) \ {b} /\ x # h.blk[b].next
    <3>1. s.blk[x].prev = h.blk[x].prev
      BY <2>1, <2>5
    <3>2. ASSUME NEW c \in Blocks(s), s.blk[c].arena = s.blk[x].arena, c < x
          PROVE  s.blk[x].prev # NULL /\ c <= s.blk[x].prev
      <4>1. CASE c \in Blocks(h)
        BY <2>1, <2>5, <3>1, <3>2, <4>1, <1>2 DEF PrevOK
      <4>2. CASE c = rem
        <5>1. b < x /\ h.blk[b].arena = h.blk[x].arena
          BY <2>1, <2>5, <3>2, <4>2, <1>8
        <5>2. /\ h.blk[b].next # NULL /\ h.blk[b].next \in Blocks(h) /\ b < h.blk[b].next
              /\ h.blk[b].next <= x /\ h.blk[h.blk[b].next].arena = h.blk[x].arena
          BY <5>1, <2>5, <1>2 DEF NextOK
        <5>3. h.blk[b].next < x
          BY <5>2, <2>5, <1>3
        <5>4. h.blk[x].prev # NULL /\ h.blk[b].next <= h.blk[x].prev
          BY <5>2, <5>3, <2>5, <1>2 DEF PrevOK
        <5>5. rem < h.blk[b].next
          BY <5>2, <1>8
        <5>6. h.blk[x].prev \in Nat /\ h.blk[b].next \in Nat
          BY <2>5, <1>3
        <5> QED BY <5>4, <5>5, <5>6, <4>2, <3>1, <1>4
      <4> QED BY <4>1, <4>2, <1>4
    <3> QED BY <3>1, <3>2, <2>1, <2>5, <1>2, <1>4 DEF PrevOK
  <2> QED BY <2>2, <2>3, <2>4, <2>5, <1>4
<1> QED BY <1>9, <1>10, <1>11, <1>12, <1>13, <1>14 DEF HeapOK, SplitAt

(* No byte is lost.                                                         *)
LEMMA SplitKeepsBytes ==
  ASSUME NEW h, HeapOK(h), NEW b \in Blocks(h), NEW size \in Nat,
         ALIGN <= size, size + HDR + ALIGN <= h.blk[b].size,
         NEW s, NEW rem, SplitAt(h, s, b, size, rem)
  PROVE  Covered(s) = Covered(h)
<1>1. /\ ALIGN \in Nat \ {0} /\ HDR \in Nat \ {0}
      /\ Blocks(h) \subseteq Nat /\ \A x \in Blocks(h) : h.blk[x].size \in Nat
  BY AlignAssumption, SizesAssumption DEF HeapOK, HeapType, Block
<1>2. /\ rem = b + HDR + size /\ rem \in Nat /\ rem \notin Blocks(h) /\ b < rem
      /\ Blocks(s) = Blocks(h) \cup {rem} /\ rem < EndOf(h, b)
  BY RemainderInside DEF SplitAt
<1>3. /\ EndOf(s, rem) = EndOf(h, b) /\ EndOf(s, b) = rem
      /\ \A x \in Blocks(h) \ {b} : EndOf(s, x) = EndOf(h, x)
  BY <1>1, <1>2 DEF SplitAt, EndOf
<1>4. \A x \in Blocks(h) : EndOf(h, x) \in Nat
  BY <1>1 DEF EndOf
<1>5. (b .. EndOf(s, b) - 1) \cup (rem .. EndOf(s, rem) - 1) = b .. EndOf(h, b) - 1
  BY <1>1, <1>2, <1>3, <1>4
<1>6. ASSUME NEW y \in Covered(s) PROVE y \in Covered(h)
  <2>1. PICK x \in Blocks(s) : y \in x .. EndOf(s, x) - 1
    BY <1>6 DEF Covered
  <2>2. CASE x = b \/ x = rem
    <3>1. y \in b .. EndOf(h, b) - 1
      BY <1>5, <2>1, <2>2
    <3> QED BY <3>1 DEF Covered
  <2>3. CASE x \in Blocks(h) \ {b}
    <3>1. y \in x .. EndOf(h, x) - 1
      BY <1>3, <2>1, <2>3
    <3> QED BY <2>3, <3>1 DEF Covered
  <2> QED BY <1>2, <2>1, <2>2, <2>3
<1>7. ASSUME NEW y \in Covered(h) PROVE y \in Covered(s)
  <2>1. PICK x \in Blocks(h) : y \in x .. EndOf(h, x) - 1
    BY <1>7 DEF Covered
  <2>2. CASE x = b
    <3>1. y \in b .. EndOf(s, b) - 1 \/ y \in rem .. EndOf(s, rem) - 1
      BY <1>5, <2>1, <2>2
    <3> QED BY <1>2, <3>1 DEF Covered
  <2>3. CASE x # b
    <3>1. y \in x .. EndOf(s, x) - 1
      BY <1>3, <2>1, <2>3
    <3> QED BY <1>2, <3>1 DEF Covered
  <2> QED BY <2>2, <2>3
<1> QED BY <1>6, <1>7

(* The remainder is free, but so is nothing behind it if the block was      *)
(* merged with what follows.                                                *)
LEMMA SplitKeepsCoalesced ==
  ASSUME NEW h, HeapOK(h), NEW b \in Blocks(h), NEW size \in Nat,
         ALIGN <= size, size + HDR + ALIGN <= h.blk[b].size,
         NEW s, NEW rem, SplitAt(h, s, b, size, rem),
         CoalescedBut(h, {b}), h.blk[b].next # NULL /\ EndOf(h, b) = h.blk[b].next =>
                                   ~h.blk[h.blk[b].next].freed
  PROVE  CoalescedBut(s, {b})
<1>1. /\ ALIGN \in Nat \ {0} /\ HDR \in Nat \ {0}
      /\ Blocks(h) \subseteq Nat /\ \A x \in Blocks(h) : h.blk[x].size \in Nat
  BY AlignAssumption, SizesAssumption DEF HeapOK, HeapType, Block
<1>2. /\ rem = b + HDR + size /\ rem \in Nat /\ rem \notin Blocks(h) /\ b < rem
      /\ Blocks(s) = Blocks(h) \cup {rem}
  BY RemainderInside DEF SplitAt
<1>3. /\ EndOf(s, rem) = EndOf(h, b)
      /\ \A x \in Blocks(h) \ {b} : EndOf(s, x) = EndOf(h, x)
  BY <1>1, <1>2 DEF SplitAt, EndOf
<1>4. \A x \in Blocks(h) : h.blk[x].next # NULL => h.blk[x].next \in Blocks(h)
  BY DEF HeapOK, NextOK
<1>5. /\ s.blk[rem].next = h.blk[b].next
      /\ \A x \in Blocks(h) \ {b} : s.blk[x].next = h.blk[x].next
      /\ \A x \in Blocks(h) : s.blk[x].freed <=> h.blk[x].freed
  BY DEF SplitAt
<1>6. CoalescedAt(s, rem)
  BY <1>3, <1>4, <1>5 DEF CoalescedAt
<1>7. ASSUME NEW x \in Blocks(h) \ {b} PROVE CoalescedAt(s, x)
  <2>1. CoalescedAt(h, x)
    BY <1>7 DEF CoalescedBut
  <2> QED BY <2>1, <1>3, <1>4, <1>5 DEF CoalescedAt
<1> QED BY <1>2, <1>6, <1>7 DEF CoalescedBut

-----------------------------------------------------------------------------
(* coalesce_with_next.                                                      *)

(* s is h with block b and its successor n made one.                        *)
MergedAt(h, s, b, n) ==
    /\ n = h.blk[b].next
    /\ HeapType(s)
    /\ Blocks(s) = Blocks(h) \ {n}
    /\ s.head = h.head
    /\ \A a \in Arenas : s.tail[a] =
           IF a = h.blk[b].arena /\ h.blk[n].next = NULL THEN b ELSE h.tail[a]
    /\ s.blk[b].arena = h.blk[b].arena /\ (s.blk[b].freed <=> h.blk[b].freed)
    /\ s.blk[b].size = h.blk[b].size + HDR + h.blk[n].size
    /\ s.blk[b].prev = h.blk[b].prev /\ s.blk[b].next = h.blk[n].next
    /\ \A x \in Blocks(h) \ {b, n} :
           /\ s.blk[x].arena = h.blk[x].arena /\ (s.blk[x].freed <=> h.blk[x].freed)
           /\ s.blk[x].size = h.blk[x].size /\ s.blk[x].next = h.blk[x].next
           /\ s.blk[x].prev = IF x = h.blk[n].next THEN b ELSE h.blk[x].prev

(* What coalesce_with_next does to the fields.                              *)
LEMMA MergeFields ==
  ASSUME NEW h, HeapOK(h), NEW b \in Blocks(h), NEW n, n = h.blk[b].next, Mergeable(h, b, n)
  PROVE  MergedAt(h, coalesce_with_next(h, b), b, n)
<1> DEFINE nn == h.blk[n].next
           s == coalesce_with_next(h, b)
           blk == [x \in Blocks(h) \ {n} |->
                        CASE x = b -> [h.blk[b] EXCEPT !.size = @ + HDR + h.blk[n].size,
                                                       !.next = nn]
                          [] x = nn -> [h.blk[x] EXCEPT !.prev = b]
                          [] OTHER -> h.blk[x]]
           tail == [h.tail EXCEPT ![h.blk[b].arena] = NewTail(@, b, nn)]
<1>1. HDR \in Nat \ {0}
  BY SizesAssumption
<1>2. HeapType(h) /\ \A x \in Blocks(h) : x \in Nat \ {0} /\ h.blk[x] \in Block
  BY DEF HeapOK, HeapType
<1>3. n # NULL /\ n \in Blocks(h) /\ b < n /\ (nn = NULL \/ n < nn) /\ nn # b /\ n # b /\ nn \in Nat
  BY <1>2 DEF Mergeable, HeapOK, NextOK, NULL, Block
<1>4. s = [h EXCEPT !.blk = blk, !.tail[h.blk[b].arena] = NewTail(@, b, nn)]
  BY DEF coalesce_with_next
<1>5. s = [blk |-> blk, head |-> h.head, tail |-> tail]
  BY <1>2, <1>4 DEF HeapType
<1>6. Blocks(s) = Blocks(h) \ {n} /\ s.blk = blk /\ s.head = h.head /\ s.tail = tail
  BY <1>5 DEF Blocks
<1> HIDE DEF s
<1>7. blk[b] = [h.blk[b] EXCEPT !.size = @ + HDR + h.blk[n].size, !.next = nn]
  BY <1>3
<1>8. \A x \in Blocks(h) \ {b, n} :
          blk[x] = IF x = nn THEN [h.blk[x] EXCEPT !.prev = b] ELSE h.blk[x]
  BY <1>3
<1> HIDE DEF blk
<1>9. blk[b] \in Block
  <2>1. h.blk[b].size + HDR + h.blk[n].size \in Nat
    BY <1>1, <1>2, <1>3 DEF Block
  <2>2. blk[b] = [h.blk[b] EXCEPT !.size = h.blk[b].size + HDR + h.blk[n].size, !.next = nn]
    BY <1>7
  <2> QED BY <1>2, <1>3, <2>1, <2>2 DEF Block
<1>10. \A x \in Blocks(h) \ {b, n} : blk[x] \in Block
  <2> SUFFICES ASSUME NEW x \in Blocks(h) \ {b, n} PROVE blk[x] \in Block
    OBVIOUS
  <2>1. b \in Nat /\ h.blk[x] \in Block
    BY <1>2
  <2>2. [h.blk[x] EXCEPT !.prev = b] \in Block
    BY <2>1 DEF Block
  <2> QED BY <2>1, <2>2, <1>8
<1>11. blk \in [Blocks(h) \ {n} -> Block]
  BY <1>9, <1>10 DEF blk
<1>12. tail \in [Arenas -> Nat]
  BY <1>2 DEF HeapType, NewTail, Block
<1>13. HeapType(s)
  BY <1>2, <1>5, <1>6, <1>11, <1>12 DEF HeapType
<1>14. \A a \in Arenas : s.tail[a] = IF a = h.blk[b].arena /\ nn = NULL THEN b ELSE h.tail[a]
  BY <1>2, <1>6 DEF HeapType, NewTail
<1>15. \A x \in Blocks(h) \ {b, n} :
           /\ s.blk[x].arena = h.blk[x].arena /\ (s.blk[x].freed <=> h.blk[x].freed)
           /\ s.blk[x].size = h.blk[x].size /\ s.blk[x].next = h.blk[x].next
           /\ s.blk[x].prev = IF x = nn THEN b ELSE h.blk[x].prev
  <2> SUFFICES ASSUME NEW x \in Blocks(h) \ {b, n}
               PROVE  /\ blk[x].arena = h.blk[x].arena /\ (blk[x].freed <=> h.blk[x].freed)
                      /\ blk[x].size = h.blk[x].size /\ blk[x].next = h.blk[x].next
                      /\ blk[x].prev = IF x = nn THEN b ELSE h.blk[x].prev
    BY <1>6
  <2>1. h.blk[x] \in Block
    BY <1>2
  <2>2. CASE x = nn
    <3>1. blk[x] = [h.blk[x] EXCEPT !.prev = b]
      BY <2>2, <1>8
    <3> QED BY <2>1, <2>2, <3>1 DEF Block
  <2>3. CASE x # nn
    BY <2>3, <1>8
  <2> QED BY <2>2, <2>3
<1>16. /\ s.blk[b].arena = h.blk[b].arena /\ (s.blk[b].freed <=> h.blk[b].freed)
       /\ s.blk[b].size = h.blk[b].size + HDR + h.blk[n].size
       /\ s.blk[b].prev = h.blk[b].prev /\ s.blk[b].next = nn
  BY <1>2, <1>6, <1>7 DEF Block
<1> QED BY <1>6, <1>13, <1>14, <1>15, <1>16 DEF MergedAt, s

(* A block is the successor of one other only.                              *)
LEMMA OnePredecessor ==
  ASSUME NEW h, HeapOK(h), NEW b \in Blocks(h), NEW x \in Blocks(h),
         h.blk[b].next # NULL, h.blk[x].next = h.blk[b].next
  PROVE  x = b
<1>1. Blocks(h) \subseteq Nat /\ h.blk[b].next \in Nat
  BY DEF HeapOK, HeapType, Block
<1>2. /\ h.blk[b].next \in Blocks(h) /\ b < h.blk[b].next /\ x < h.blk[b].next
      /\ h.blk[x].arena = h.blk[b].arena
  BY DEF HeapOK, NextOK
<1>3. ~(x < b)
  BY <1>1, <1>2 DEF HeapOK, NextOK
<1>4. ~(b < x)
  BY <1>1, <1>2 DEF HeapOK, NextOK
<1> QED BY <1>1, <1>3, <1>4

(* The lists stay in order.                                                 *)
LEMMA MergeKeepsOK ==
  ASSUME NEW h, HeapOK(h), NEW b \in Blocks(h), NEW n, n # NULL, EndOf(h, b) = n,
         NEW s, MergedAt(h, s, b, n)
  PROVE  HeapOK(s)
<1>1. /\ ALIGN \in Nat \ {0} /\ HDR \in Nat \ {0} /\ HDR % ALIGN = 0
  BY AlignAssumption, SizesAssumption
<1>2. /\ HeapType(h) /\ BlockShape(h) /\ Apart(h)
      /\ NextOK(h) /\ PrevOK(h) /\ HeadOK(h) /\ TailOK(h)
  BY DEF HeapOK
<1>3. /\ Blocks(h) \subseteq Nat \ {0} /\ \A x \in Blocks(h) : h.blk[x].size \in Nat
      /\ \A x \in Blocks(h) : h.blk[x].next \in Nat /\ h.blk[x].prev \in Nat
      /\ \A x \in Blocks(h) : h.blk[x].arena \in Arenas
  BY <1>2 DEF HeapType, Block
<1>4. /\ n = h.blk[b].next /\ n \in Blocks(h) /\ b < n /\ n # b
      /\ h.blk[n].arena = h.blk[b].arena
      /\ Blocks(s) = Blocks(h) \ {n}
  BY <1>2, <1>3 DEF MergedAt, NextOK
<1>5. EndOf(s, b) = EndOf(h, n) /\ \A x \in Blocks(h) \ {b, n} : EndOf(s, x) = EndOf(h, x)
  BY <1>1, <1>3, <1>4 DEF MergedAt, EndOf
<1>6. \A x \in Blocks(h) : EndOf(h, x) \in Nat
  BY <1>1, <1>3 DEF EndOf
<1>7. \A x \in Blocks(h) : s.blk[x].arena = h.blk[x].arena \/ x = n
  BY DEF MergedAt
<1>8. \A c \in Blocks(h) : c # n => (b < c <=> n < c)
  BY <1>2, <1>3, <1>4, <1>6 DEF Apart
<1>9. BlockShape(s)
  <2>1. PICK y \in Nat, z \in Nat : /\ y = h.blk[b].size /\ y % ALIGN = 0 /\ ALIGN <= y
                                    /\ z = h.blk[n].size /\ z % ALIGN = 0 /\ ALIGN <= z
    BY <1>2, <1>3, <1>4 DEF BlockShape
  <2>2. (y + HDR) % ALIGN = 0 /\ y + HDR \in Nat
    BY <1>1, <2>1, AlignedSum
  <2>3. (y + HDR + z) % ALIGN = 0
    BY <2>1, <2>2, AlignedSum
  <2>4. s.blk[b].size = y + HDR + z /\ ALIGN <= y + HDR + z
    BY <1>1, <2>1 DEF MergedAt
  <2>5. \A x \in Blocks(s) \ {b} : s.blk[x].size = h.blk[x].size
    BY <1>4 DEF MergedAt
  <2> QED BY <1>2, <1>4, <2>3, <2>4, <2>5 DEF BlockShape
<1>10. Apart(s)
  <2> SUFFICES ASSUME NEW x \in Blocks(s), NEW y \in Blocks(s), x < y PROVE EndOf(s, x) <= y
    BY DEF Apart
  <2>1. CASE x = b
    BY <2>1, <1>2, <1>4, <1>5, <1>8 DEF Apart
  <2>2. CASE x # b
    BY <2>2, <1>2, <1>4, <1>5 DEF Apart
  <2> QED BY <2>1, <2>2
<1>11. HeadOK(s)
  <2>1. \A a \in Arenas : h.head[a] # n
    BY <1>2, <1>3, <1>4 DEF HeadOK
  <2>2. s.head = h.head
    BY DEF MergedAt
  <2> QED BY <2>1, <2>2, <1>2, <1>4, <1>7 DEF HeadOK
<1>12. TailOK(s)
  <2> SUFFICES ASSUME NEW a \in Arenas
               PROVE  /\ s.tail[a] # NULL => s.tail[a] \in Blocks(s) /\ s.blk[s.tail[a]].arena = a
                      /\ \A c \in Blocks(s) : s.blk[c].arena = a => s.tail[a] # NULL /\ c <= s.tail[a]
    BY DEF TailOK
  <2>1. h.tail[a] \in Nat
    BY <1>2 DEF HeapType
  <2>2. CASE a = h.blk[b].arena /\ h.blk[n].next = NULL
    <3>1. s.tail[a] = b /\ b # NULL
      BY <2>2, <1>3 DEF MergedAt, NULL
    <3>2. \A c \in Blocks(h) : h.blk[c].arena = a => c <= n
      BY <2>2, <1>2, <1>3, <1>4 DEF NextOK
    <3>3. \A c \in Blocks(s) : s.blk[c].arena = a => c <= b
      BY <3>2, <1>3, <1>4, <1>7, <1>8
    <3> QED BY <3>1, <3>3, <2>2, <1>4, <1>7
  <2>3. CASE a = h.blk[b].arena /\ h.blk[n].next # NULL
    <3>1. s.tail[a] = h.tail[a]
      BY <2>3 DEF MergedAt
    <3>2. h.blk[n].next \in Blocks(h) /\ n < h.blk[n].next /\ h.blk[h.blk[n].next].arena = a
      BY <2>3, <1>2, <1>4 DEF NextOK
    <3>3. h.tail[a] # n
      BY <3>2, <1>2, <1>3, <1>4 DEF TailOK
    <3> QED BY <3>1, <3>3, <1>2, <1>4, <1>7 DEF TailOK
  <2>4. CASE a # h.blk[b].arena
    <3>1. s.tail[a] = h.tail[a]
      BY <2>4 DEF MergedAt
    <3>2. h.tail[a] # n
      BY <2>4, <1>2, <1>4 DEF TailOK
    <3> QED BY <3>1, <3>2, <1>2, <1>4, <1>7 DEF TailOK
  <2> QED BY <2>2, <2>3, <2>4
<1>13. NextOK(s)
  <2>1. /\ s.blk[b].next = h.blk[n].next
        /\ \A x \in Blocks(h) \ {b, n} : s.blk[x].next = h.blk[x].next
    BY DEF MergedAt
  <2> SUFFICES ASSUME NEW x \in Blocks(s)
               PROVE  /\ s.blk[x].next # NULL =>
                            /\ s.blk[x].next \in Blocks(s) /\ x < s.blk[x].next
                            /\ s.blk[s.blk[x].next].arena = s.blk[x].arena
                      /\ \A c \in Blocks(s) : s.blk[c].arena = s.blk[x].arena /\ x < c =>
                            s.blk[x].next # NULL /\ s.blk[x].next <= c
    BY DEF NextOK
  <2>2. CASE x = b
    <3>1. h.blk[n].next # NULL => /\ h.blk[n].next \in Blocks(h) /\ n < h.blk[n].next
                                  /\ h.blk[h.blk[n].next].arena = h.blk[n].arena
      BY <1>2, <1>4 DEF NextOK
    <3>2. s.blk[x].next # NULL => /\ s.blk[x].next \in Blocks(s) /\ x < s.blk[x].next
                                  /\ s.blk[s.blk[x].next].arena = s.blk[x].arena
      BY <3>1, <2>1, <2>2, <1>3, <1>4, <1>7, <1>8
    <3>3. ASSUME NEW c \in Blocks(s), s.blk[c].arena = s.blk[x].arena, x < c
          PROVE  s.blk[x].next # NULL /\ s.blk[x].next <= c
      <4>1. n < c /\ h.blk[c].arena = h.blk[n].arena
        BY <2>2, <3>3, <1>4, <1>7, <1>8
      <4> QED BY <4>1, <2>1, <2>2, <1>2, <1>4 DEF NextOK
    <3> QED BY <3>2, <3>3
  <2>3. CASE x # b
    <3>1. h.blk[x].next # n
      BY <2>3, <1>4, OnePredecessor
    <3> QED BY <2>1, <2>3, <3>1, <1>2, <1>4, <1>7 DEF NextOK
  <2> QED BY <2>2, <2>3
<1>14. PrevOK(s)
  <2>1. /\ s.blk[b].prev = h.blk[b].prev
        /\ \A x \in Blocks(h) \ {b, n} :
              s.blk[x].prev = IF x = h.blk[n].next THEN b ELSE h.blk[x].prev
    BY DEF MergedAt
  <2> SUFFICES ASSUME NEW x \in Blocks(s)
               PROVE  /\ s.blk[x].prev # NULL =>
                            /\ s.blk[x].prev \in Blocks(s) /\ s.blk[x].prev < x
                            /\ s.blk[s.blk[x].prev].arena = s.blk[x].arena
                      /\ \A c \in Blocks(s) : s.blk[c].arena = s.blk[x].arena /\ c < x =>
                            s.blk[x].prev # NULL /\ c <= s.blk[x].prev
    BY DEF PrevOK
  <2>2. CASE x = b
    <3>1. h.blk[b].prev # n
      BY <1>2, <1>3, <1>4 DEF PrevOK
    <3> QED BY <2>1, <2>2, <3>1, <1>2, <1>4, <1>7 DEF PrevOK
  <2>3. CASE x # b /\ x = h.blk[n].next
    <3>1. s.blk[x].prev = b /\ n < x /\ h.blk[x].arena = h.blk[n].arena
      BY <2>1, <2>3, <1>2, <1>3, <1>4 DEF NextOK, NULL
    <3>2. ASSUME NEW c \in Blocks(s), s.blk[c].arena = s.blk[x].arena, c < x PROVE c <= b
      <4>1. ~(n < c)
        <5>1. c \in Blocks(h) /\ n \in Blocks(h) /\ h.blk[c].arena = h.blk[n].arena
          BY <3>1, <3>2, <2>3, <1>4, <1>7
        <5>2. n < c => h.blk[n].next <= c
          BY <5>1, <1>2 DEF NextOK
        <5>3. c \in Nat /\ x \in Nat
          BY <5>1, <1>3, <1>4
        <5> QED BY <5>2, <5>3, <3>2, <2>3
      <4> QED BY <4>1, <1>3, <1>4, <1>8
    <3>3. b < x /\ b # NULL /\ b \in Blocks(s)
      BY <3>1, <1>3, <1>4 DEF NULL
    <3>4. s.blk[b].arena = s.blk[x].arena
      BY <3>1, <1>4, <1>7
    <3> QED BY <3>1, <3>2, <3>3, <3>4
  <2>4. CASE x # b /\ x # h.blk[n].next
    <3>1. s.blk[x].prev = h.blk[x].prev
      BY <2>1, <2>4, <1>4
    <3>2. h.blk[x].prev # n
      <4>1. SUFFICES ASSUME h.blk[x].prev = n PROVE FALSE
        OBVIOUS
      <4>2. n < x /\ h.blk[x].arena = h.blk[n].arena
        BY <4>1, <1>2, <1>4 DEF PrevOK
      <4>3. h.blk[n].next # NULL /\ h.blk[n].next <= x
        BY <4>2, <1>2, <1>4 DEF NextOK
      <4>4. /\ h.blk[n].next \in Blocks(h) /\ n < h.blk[n].next
            /\ h.blk[h.blk[n].next].arena = h.blk[x].arena
        BY <4>2, <4>3, <1>2, <1>4 DEF NextOK
      <4>5. h.blk[n].next < x
        BY <4>3, <4>4, <2>4, <1>3, <1>4
      <4>6. h.blk[n].next <= n
        BY <4>1, <4>4, <4>5, <1>2, <1>4 DEF PrevOK
      <4> QED BY <4>4, <4>6, <1>3, <1>4
    <3> QED BY <2>4, <3>1, <3>2, <1>2, <1>4, <1>7 DEF PrevOK
  <2> QED BY <2>2, <2>3, <2>4
<1> QED BY <1>9, <1>10, <1>11, <1>12, <1>13, <1>14 DEF HeapOK, MergedAt

(* No byte is lost.                                                         *)
LEMMA MergeKeepsBytes ==
  ASSUME NEW h, HeapOK(h), NEW b \in Blocks(h), NEW n, n # NULL, EndOf(h, b) = n,
         NEW s, MergedAt(h, s, b, n)
  PROVE  Covered(s) = Covered(h)
<1>1. /\ HDR \in Nat \ {0}
      /\ Blocks(h) \subseteq Nat /\ \A x \in Blocks(h) : h.blk[x].size \in Nat
  BY SizesAssumption DEF HeapOK, HeapType, Block
<1>2. n = h.blk[b].next /\ n \in Blocks(h) /\ b < n /\ n # b /\ Blocks(s) = Blocks(h) \ {n}
  BY <1>1 DEF MergedAt, HeapOK, NextOK
<1>3. EndOf(s, b) = EndOf(h, n) /\ \A x \in Blocks(h) \ {b, n} : EndOf(s, x) = EndOf(h, x)
  BY <1>1, <1>2 DEF MergedAt, EndOf
<1>4. \A x \in Blocks(h) : EndOf(h, x) \in Nat /\ x < EndOf(h, x)
  BY <1>1 DEF EndOf
<1>5. (b .. EndOf(h, b) - 1) \cup (n .. EndOf(h, n) - 1) = b .. EndOf(s, b) - 1
  BY <1>1, <1>2, <1>3, <1>4
<1>6. ASSUME NEW y \in Covered(s) PROVE y \in Covered(h)
  <2>1. PICK x \in Blocks(s) : y \in x .. EndOf(s, x) - 1
    BY <1>6 DEF Covered
  <2>2. CASE x = b
    <3>1. y \in b .. EndOf(h, b) - 1 \/ y \in n .. EndOf(h, n) - 1
      BY <1>5, <2>1, <2>2
    <3> QED BY <1>2, <3>1 DEF Covered
  <2>3. CASE x # b
    <3>1. y \in x .. EndOf(h, x) - 1 /\ x \in Blocks(h)
      BY <1>2, <1>3, <2>1, <2>3
    <3> QED BY <3>1 DEF Covered
  <2> QED BY <2>2, <2>3
<1>7. ASSUME NEW y \in Covered(h) PROVE y \in Covered(s)
  <2>1. PICK x \in Blocks(h) : y \in x .. EndOf(h, x) - 1
    BY <1>7 DEF Covered
  <2>2. CASE x = b \/ x = n
    <3>1. y \in b .. EndOf(s, b) - 1 /\ b \in Blocks(s)
      BY <1>2, <1>5, <2>1, <2>2
    <3> QED BY <3>1 DEF Covered
  <2>3. CASE x \in Blocks(h) \ {b, n}
    <3>1. y \in x .. EndOf(s, x) - 1 /\ x \in Blocks(s)
      BY <1>2, <1>3, <2>1, <2>3
    <3> QED BY <3>1 DEF Covered
  <2> QED BY <2>2, <2>3
<1> QED BY <1>6, <1>7

(* What was merged before still is, and b is now too.                       *)
LEMMA MergeKeepsCoalesced ==
  ASSUME NEW h, HeapOK(h), NEW b \in Blocks(h), NEW n, n # NULL, EndOf(h, b) = n,
         h.blk[n].freed, NEW s, MergedAt(h, s, b, n),
         NEW X, CoalescedBut(h, X), n \notin X
  PROVE  /\ CoalescedBut(s, X \ {b})
         /\ s.blk[b].next # NULL /\ EndOf(s, b) = s.blk[b].next => ~s.blk[s.blk[b].next].freed
<1>1. /\ HDR \in Nat \ {0}
      /\ Blocks(h) \subseteq Nat /\ \A x \in Blocks(h) : h.blk[x].size \in Nat
  BY SizesAssumption DEF HeapOK, HeapType, Block
<1>2. n = h.blk[b].next /\ n \in Blocks(h) /\ b < n /\ n # b /\ Blocks(s) = Blocks(h) \ {n}
  BY <1>1 DEF MergedAt, HeapOK, NextOK
<1>3. EndOf(s, b) = EndOf(h, n) /\ \A x \in Blocks(h) \ {b, n} : EndOf(s, x) = EndOf(h, x)
  BY <1>1, <1>2 DEF MergedAt, EndOf
<1>4. \A x \in Blocks(h) : h.blk[x].next # NULL => h.blk[x].next \in Blocks(h) /\ x < h.blk[x].next
  BY DEF HeapOK, NextOK
<1>5. /\ s.blk[b].next = h.blk[n].next
      /\ \A x \in Blocks(h) \ {b, n} : s.blk[x].next = h.blk[x].next
      /\ \A x \in Blocks(h) \ {n} : s.blk[x].freed <=> h.blk[x].freed
  BY DEF MergedAt
<1>6. CoalescedAt(h, n)
  BY <1>2 DEF CoalescedBut
<1>7. s.blk[b].next # NULL /\ EndOf(s, b) = s.blk[b].next => ~s.blk[s.blk[b].next].freed
  <2>1. h.blk[n].next # n
    BY <1>1, <1>2, <1>4 DEF NULL
  <2>2. h.blk[n].next # NULL => h.blk[n].next \in Blocks(h) \ {n}
    BY <2>1, <1>2, <1>4
  <2> QED BY <2>2, <1>2, <1>3, <1>5, <1>6 DEF CoalescedAt
<1>8. ASSUME NEW x \in Blocks(s) \ (X \ {b}) PROVE CoalescedAt(s, x)
  <2>1. CASE x = b
    BY <2>1, <1>7 DEF CoalescedAt
  <2>2. CASE x # b
    <3>1. CoalescedAt(h, x) /\ x \in Blocks(h) \ {b, n}
      BY <2>2, <1>2 DEF CoalescedBut
    <3>2. h.blk[x].next # n
      BY <2>2, <3>1, <1>2, OnePredecessor
    <3>3. h.blk[x].next # NULL => h.blk[x].next \in Blocks(h) \ {n}
      BY <3>1, <3>2, <1>4
    <3> QED BY <3>1, <3>3, <1>3, <1>5 DEF CoalescedAt
  <2> QED BY <2>1, <2>2
<1> QED BY <1>7, <1>8 DEF CoalescedBut

-----------------------------------------------------------------------------
(* Marking a block and appending one.                                       *)

(* s is h with the mark of block b set to f.                                *)
MarkedAt(h, s, b, f) ==
    /\ HeapType(s)
    /\ Blocks(s) = Blocks(h) /\ s.head = h.head /\ s.tail = h.tail
    /\ \A x \in Blocks(h) : /\ s.blk[x].arena = h.blk[x].arena /\ s.blk[x].size = h.blk[x].size
                            /\ s.blk[x].prev = h.blk[x].prev /\ s.blk[x].next = h.blk[x].next
    /\ \A x \in Blocks(h) \ {b} : s.blk[x].freed <=> h.blk[x].freed
    /\ s.blk[b].freed <=> f

(* What SetFreed does to the fields.                                        *)
LEMMA MarkFields ==
  ASSUME NEW h, HeapOK(h), NEW b \in Blocks(h), NEW f \in BOOLEAN
  PROVE  MarkedAt(h, SetFreed(h, b, f), b, f)
<1> DEFINE s == SetFreed(h, b, f)
           blk == [h.blk EXCEPT ![b] = [h.blk[b] EXCEPT !.freed = f]]
<1>1. HeapType(h) /\ \A x \in Blocks(h) : h.blk[x] \in Block
  BY DEF HeapOK, HeapType
<1>2. s = [h EXCEPT !.blk = blk]
  BY <1>1 DEF SetFreed, HeapType
<1>3. s = [blk |-> blk, head |-> h.head, tail |-> h.tail]
  BY <1>1, <1>2 DEF HeapType
<1>4. s.blk = blk /\ s.head = h.head /\ s.tail = h.tail
  BY <1>3
<1>5. Blocks(s) = Blocks(h)
  BY <1>4 DEF Blocks
<1> HIDE DEF s
<1>6. blk[b] = [h.blk[b] EXCEPT !.freed = f] /\ \A x \in Blocks(h) \ {b} : blk[x] = h.blk[x]
  BY <1>1 DEF HeapType
<1>7. [h.blk[b] EXCEPT !.freed = f] \in Block
  BY <1>1 DEF Block
<1>8. blk \in [Blocks(h) -> Block]
  BY <1>1, <1>7 DEF HeapType
<1> HIDE DEF blk
<1>9. HeapType(s)
  BY <1>1, <1>3, <1>4, <1>5, <1>8 DEF HeapType
<1>10. \A x \in Blocks(h) \ {b} :
          /\ s.blk[x].arena = h.blk[x].arena /\ s.blk[x].size = h.blk[x].size
          /\ s.blk[x].prev = h.blk[x].prev /\ s.blk[x].next = h.blk[x].next
          /\ (s.blk[x].freed <=> h.blk[x].freed)
  BY <1>4, <1>6
<1>11. /\ s.blk[b].arena = h.blk[b].arena /\ s.blk[b].size = h.blk[b].size
       /\ s.blk[b].prev = h.blk[b].prev /\ s.blk[b].next = h.blk[b].next
       /\ (s.blk[b].freed <=> f)
  BY <1>1, <1>4, <1>6 DEF Block
<1> QED BY <1>4, <1>5, <1>9, <1>10, <1>11 DEF MarkedAt, s

(* The marks have no part in the order of the lists and in the extents.     *)
LEMMA MarkKeepsOK ==
  ASSUME NEW h, HeapOK(h), NEW b \in Blocks(h), NEW f \in BOOLEAN, NEW s, MarkedAt(h, s, b, f)
  PROVE  HeapOK(s) /\ Covered(s) = Covered(h) /\ \A x \in Blocks(h) : EndOf(s, x) = EndOf(h, x)
<1>1. /\ HeapType(h) /\ BlockShape(h) /\ Apart(h)
      /\ NextOK(h) /\ PrevOK(h) /\ HeadOK(h) /\ TailOK(h)
  BY DEF HeapOK
<1>2. Blocks(s) = Blocks(h) /\ \A x \in Blocks(h) : EndOf(s, x) = EndOf(h, x)
  BY DEF MarkedAt, EndOf
<1>3. Covered(s) = Covered(h)
  BY <1>2 DEF Covered
<1>4. BlockShape(s) /\ Apart(s)
  BY <1>1, <1>2 DEF BlockShape, Apart, MarkedAt
<1>5. NextOK(s)
  BY <1>1, <1>2 DEF NextOK, MarkedAt
<1>6. PrevOK(s)
  BY <1>1, <1>2 DEF PrevOK, MarkedAt
<1>7. HeadOK(s) /\ TailOK(s)
  BY <1>1, <1>2 DEF HeadOK, TailOK, MarkedAt
<1> QED BY <1>2, <1>3, <1>4, <1>5, <1>6, <1>7 DEF HeapOK, MarkedAt

(* s is h with a new block b at the end of the list of arena a.             *)
AppendedAt(h, s, a, b, size) ==
    /\ HeapType(s)
    /\ Blocks(s) = Blocks(h) \cup {b}
    /\ \A c \in Arenas : s.head[c] = IF c = a /\ h.head[a] = NULL THEN b ELSE h.head[c]
    /\ \A c \in Arenas : s.tail[c] = IF c = a THEN b ELSE h.tail[c]
    /\ s.blk[b].arena = a /\ ~s.blk[b].freed /\ s.blk[b].size = size
    /\ s.blk[b].prev = h.tail[a] /\ s.blk[b].next = NULL
    /\ \A x \in Blocks(h) :
           /\ s.blk[x].arena = h.blk[x].arena /\ (s.blk[x].freed <=> h.blk[x].freed)
           /\ s.blk[x].size = h.blk[x].size /\ s.blk[x].prev = h.blk[x].prev
           /\ s.blk[x].next = IF x = h.tail[a] THEN b ELSE h.blk[x].next

(* What the end of extend_arena_heap does to the fields.                    *)
LEMMA AppendFields ==
  ASSUME NEW h, HeapOK(h), NEW a \in Arenas, NEW b \in Nat \ {0}, b \notin Blocks(h),
         NEW size \in Nat
  PROVE  AppendedAt(h, AppendBlock(h, a, b, size), a, b, size)
<1> DEFINE s == AppendBlock(h, a, b, size)
           t == h.tail[a]
           new == [arena |-> a, freed |-> FALSE, size |-> size, prev |-> t, next |-> NULL]
           blk == [x \in Blocks(h) \cup {b} |->
               CASE x = b -> new
                 [] x = t /\ x # b -> [h.blk[x] EXCEPT !.next = b]
                 [] OTHER -> h.blk[x]]
           head == [h.head EXCEPT ![a] = IF @ = NULL THEN b ELSE @]
           tail == [h.tail EXCEPT ![a] = b]
<1>1. HeapType(h) /\ \A x \in Blocks(h) : h.blk[x] \in Block
  BY DEF HeapOK, HeapType
<1>2. s = [h EXCEPT !.blk = blk, !.head[a] = IF @ = NULL THEN b ELSE @, !.tail[a] = b]
  BY DEF AppendBlock
<1>3. s = [blk |-> blk, head |-> head, tail |-> tail]
  BY <1>1, <1>2 DEF HeapType
<1>4. s.blk = blk /\ s.head = head /\ s.tail = tail
  BY <1>3
<1>5. Blocks(s) = Blocks(h) \cup {b}
  BY <1>4 DEF Blocks
<1> HIDE DEF s
<1>6. blk[b] = new /\ \A x \in Blocks(h) :
                        blk[x] = IF x = t THEN [h.blk[x] EXCEPT !.next = b] ELSE h.blk[x]
  OBVIOUS
<1> HIDE DEF blk
<1>7. new \in Block
  BY <1>1 DEF Block, HeapType, NULL
<1>8. \A x \in Blocks(h) : blk[x] \in Block
  <2> SUFFICES ASSUME NEW x \in Blocks(h) PROVE blk[x] \in Block
    OBVIOUS
  <2>1. h.blk[x] \in Block /\ b \in Nat
    BY <1>1
  <2>2. [h.blk[x] EXCEPT !.next = b] \in Block
    BY <2>1 DEF Block
  <2> QED BY <1>6, <2>1, <2>2
<1>9. blk \in [Blocks(h) \cup {b} -> Block]
  BY <1>6, <1>7, <1>8 DEF blk
<1>10. head \in [Arenas -> Nat] /\ tail \in [Arenas -> Nat]
  BY <1>1 DEF HeapType
<1>11. HeapType(s)
  BY <1>1, <1>3, <1>4, <1>5, <1>9, <1>10 DEF HeapType
<1>12. \A c \in Arenas : /\ s.head[c] = IF c = a /\ h.head[a] = NULL THEN b ELSE h.head[c]
                         /\ s.tail[c] = IF c = a THEN b ELSE h.tail[c]
  BY <1>1, <1>4 DEF HeapType
<1>13. /\ s.blk[b].arena = a /\ ~s.blk[b].freed /\ s.blk[b].size = size
       /\ s.blk[b].prev = h.tail[a] /\ s.blk[b].next = NULL
  BY <1>4, <1>6
<1>14. \A x \in Blocks(h) :
           /\ s.blk[x].arena = h.blk[x].arena /\ (s.blk[x].freed <=> h.blk[x].freed)
           /\ s.blk[x].size = h.blk[x].size /\ s.blk[x].prev = h.blk[x].prev
           /\ s.blk[x].next = IF x = h.tail[a] THEN b ELSE h.blk[x].next
  <2> SUFFICES ASSUME NEW x \in Blocks(h)
               PROVE  /\ blk[x].arena = h.blk[x].arena /\ (blk[x].freed <=> h.blk[x].freed)
                      /\ blk[x].size = h.blk[x].size /\ blk[x].prev = h.blk[x].prev
                      /\ blk[x].next = IF x = h.tail[a] THEN b ELSE h.blk[x].next
    BY <1>4
  <2>1. h.blk[x] \in Block
    BY <1>1
  <2>2. CASE x = t
    <3>1. blk[x] = [h.blk[x] EXCEPT !.next = b]
      BY <2>2, <1>6
    <3> QED BY <2>1, <2>2, <3>1 DEF Block
  <2>3. CASE x # t
    BY <2>3, <1>6
  <2> QED BY <2>2, <2>3
<1> QED BY <1>5, <1>11, <1>12, <1>13, <1>14 DEF AppendedAt, s

(* The lists stay in order if the block lies above the arena's others and   *)
(* apart from all.                                                          *)
LEMMA AppendKeepsOK ==
  ASSUME NEW h, HeapOK(h), NEW a \in Arenas, NEW b \in Nat \ {0}, b \notin Blocks(h),
         NEW size \in Nat, b % ALIGN = 0, HeapStart <= b, size % ALIGN = 0, ALIGN <= size,
         \A c \in Blocks(h) : c < b => EndOf(h, c) <= b,
         \A c \in Blocks(h) : b < c => b + HDR + size <= c,
         \A c \in Blocks(h) : h.blk[c].arena = a => c < b,
         NEW s, AppendedAt(h, s, a, b, size)
  PROVE  HeapOK(s)
<1>1. HDR \in Nat \ {0} /\ HeapStart \in Nat
  BY SizesAssumption, HeapAssumption
<1>2. /\ HeapType(h) /\ BlockShape(h) /\ Apart(h)
      /\ NextOK(h) /\ PrevOK(h) /\ HeadOK(h) /\ TailOK(h)
  BY DEF HeapOK
<1>3. /\ Blocks(h) \subseteq Nat \ {0} /\ \A x \in Blocks(h) : h.blk[x].size \in Nat
      /\ \A x \in Blocks(h) : h.blk[x].next \in Nat /\ h.blk[x].prev \in Nat
      /\ \A c \in Arenas : h.head[c] \in Nat /\ h.tail[c] \in Nat
  BY <1>2 DEF HeapType, Block
<1>4. Blocks(s) = Blocks(h) \cup {b}
  BY DEF AppendedAt
<1>5. EndOf(s, b) = b + HDR + size /\ \A x \in Blocks(h) : EndOf(s, x) = EndOf(h, x)
  BY DEF AppendedAt, EndOf
<1>6. s.blk[b].arena = a /\ \A x \in Blocks(h) : s.blk[x].arena = h.blk[x].arena
  BY DEF AppendedAt
<1>7. BlockShape(s)
  BY <1>2, <1>4 DEF BlockShape, AppendedAt
<1>8. Apart(s)
  <2> SUFFICES ASSUME NEW x \in Blocks(s), NEW y \in Blocks(s), x < y PROVE EndOf(s, x) <= y
    BY DEF Apart
  <2>1. CASE x = b
    BY <2>1, <1>4, <1>5
  <2>2. CASE x \in Blocks(h) /\ y = b
    BY <2>2, <1>5
  <2>3. CASE x \in Blocks(h) /\ y \in Blocks(h)
    BY <2>3, <1>2, <1>5 DEF Apart
  <2> QED BY <2>1, <2>2, <2>3, <1>4
<1>9. HeadOK(s)
  <2> SUFFICES ASSUME NEW e \in Arenas
               PROVE  /\ s.head[e] # NULL => s.head[e] \in Blocks(s) /\ s.blk[s.head[e]].arena = e
                      /\ \A c \in Blocks(s) : s.blk[c].arena = e => s.head[e] # NULL /\ s.head[e] <= c
    BY DEF HeadOK
  <2>1. s.head[e] = IF e = a /\ h.head[a] = NULL THEN b ELSE h.head[e]
    BY DEF AppendedAt
  <2>2. CASE e = a /\ h.head[a] = NULL
    <3>1. \A c \in Blocks(h) : h.blk[c].arena # e
      BY <2>2, <1>2 DEF HeadOK
    <3>2. s.head[e] = b /\ b # NULL
      BY <2>1, <2>2 DEF NULL
    <3>3. \A c \in Blocks(s) : s.blk[c].arena = e => c = b
      BY <3>1, <1>4, <1>6
    <3> QED BY <3>2, <3>3, <2>2, <1>4, <1>6
  <2>3. CASE e = a /\ h.head[a] # NULL
    <3>1. h.head[a] < b
      BY <2>3, <1>2 DEF HeadOK
    <3> QED BY <2>1, <2>3, <3>1, <1>2, <1>3, <1>4, <1>6 DEF HeadOK
  <2>4. CASE e # a
    BY <2>1, <2>4, <1>2, <1>4, <1>6 DEF HeadOK
  <2> QED BY <2>2, <2>3, <2>4
<1>10. TailOK(s)
  <2> SUFFICES ASSUME NEW e \in Arenas
               PROVE  /\ s.tail[e] # NULL => s.tail[e] \in Blocks(s) /\ s.blk[s.tail[e]].arena = e
                      /\ \A c \in Blocks(s) : s.blk[c].arena = e => s.tail[e] # NULL /\ c <= s.tail[e]
    BY DEF TailOK
  <2>1. s.tail[e] = IF e = a THEN b ELSE h.tail[e]
    BY DEF AppendedAt
  <2>2. CASE e = a
    BY <2>1, <2>2, <1>3, <1>4, <1>6 DEF NULL
  <2>3. CASE e # a
    BY <2>1, <2>3, <1>2, <1>4, <1>6 DEF TailOK
  <2> QED BY <2>2, <2>3
<1>11. PrevOK(s)
  <2>1. s.blk[b].prev = h.tail[a] /\ \A x \in Blocks(h) : s.blk[x].prev = h.blk[x].prev
    BY DEF AppendedAt
  <2> SUFFICES ASSUME NEW x \in Blocks(s)
               PROVE  /\ s.blk[x].prev # NULL =>
                            /\ s.blk[x].prev \in Blocks(s) /\ s.blk[x].prev < x
                            /\ s.blk[s.blk[x].prev].arena = s.blk[x].arena
                      /\ \A c \in Blocks(s) : s.blk[c].arena = s.blk[x].arena /\ c < x =>
                            s.blk[x].prev # NULL /\ c <= s.blk[x].prev
    BY DEF PrevOK
  <2>2. CASE x = b
    <3>1. h.tail[a] # NULL => h.tail[a] \in Blocks(h) /\ h.blk[h.tail[a]].arena = a
      BY <1>2 DEF TailOK
    <3>2. \A c \in Blocks(h) : h.blk[c].arena = a => h.tail[a] # NULL /\ c <= h.tail[a]
      BY <1>2 DEF TailOK
    <3>3. \A c \in Blocks(s) : c < b => c \in Blocks(h)
      BY <1>4
    <3>4. h.tail[a] # NULL => h.tail[a] < b
      BY <3>1
    <3>5. s.blk[x].prev = h.tail[a] /\ s.blk[x].arena = a
      BY <2>1, <2>2, <1>6
    <3>6. h.tail[a] # NULL => /\ h.tail[a] \in Blocks(s) /\ h.tail[a] < x
                              /\ s.blk[h.tail[a]].arena = s.blk[x].arena
      BY <2>2, <3>1, <3>4, <3>5, <1>4, <1>6
    <3>7. \A c \in Blocks(s) : s.blk[c].arena = s.blk[x].arena /\ c < x =>
              h.tail[a] # NULL /\ c <= h.tail[a]
      BY <2>2, <3>2, <3>3, <3>5, <1>6
    <3> QED BY <3>5, <3>6, <3>7
  <2>3. CASE x \in Blocks(h)
    <3>1. s.blk[x].prev # NULL =>
             /\ s.blk[x].prev \in Blocks(s) /\ s.blk[x].prev < x
             /\ s.blk[s.blk[x].prev].arena = s.blk[x].arena
      BY <2>1, <2>3, <1>2, <1>4, <1>6 DEF PrevOK
    <3>2. ASSUME NEW c \in Blocks(s), s.blk[c].arena = s.blk[x].arena, c < x
          PROVE  s.blk[x].prev # NULL /\ c <= s.blk[x].prev
      <4>1. c # b
        BY <2>3, <3>2, <1>3, <1>6
      <4> QED BY <2>1, <2>3, <3>2, <4>1, <1>2, <1>4, <1>6 DEF PrevOK
    <3> QED BY <3>1, <3>2
  <2> QED BY <2>2, <2>3, <1>4
<1>12. NextOK(s)
  <2>1. /\ s.blk[b].next = NULL
        /\ \A x \in Blocks(h) : s.blk[x].next = IF x = h.tail[a] THEN b ELSE h.blk[x].next
    BY DEF AppendedAt
  <2> SUFFICES ASSUME NEW x \in Blocks(s)
               PROVE  /\ s.blk[x].next # NULL =>
                            /\ s.blk[x].next \in Blocks(s) /\ x < s.blk[x].next
                            /\ s.blk[s.blk[x].next].arena = s.blk[x].arena
                      /\ \A c \in Blocks(s) : s.blk[c].arena = s.blk[x].arena /\ x < c =>
                            s.blk[x].next # NULL /\ s.blk[x].next <= c
    BY DEF NextOK
  <2>2. CASE x = b
    BY <2>1, <2>2, <1>3, <1>4, <1>6
  <2>3. CASE x \in Blocks(h) /\ x = h.tail[a]
    <3>1. h.blk[x].arena = a /\ x < b
      BY <2>3, <1>2, <1>3 DEF TailOK, NULL
    <3>2. \A c \in Blocks(h) : h.blk[c].arena = a => c <= x
      BY <2>3, <1>2 DEF TailOK
    <3>3. s.blk[x].next = b /\ b # NULL
      BY <2>1, <2>3 DEF NULL
    <3>4. \A c \in Blocks(s) : s.blk[c].arena = a /\ x < c => c = b
      BY <3>2, <2>3, <1>3, <1>4, <1>6
    <3> QED BY <3>1, <3>3, <3>4, <2>3, <1>4, <1>6
  <2>4. CASE x \in Blocks(h) /\ x # h.tail[a]
    <3>1. s.blk[x].next = h.blk[x].next
      BY <2>1, <2>4
    <3>2. ASSUME NEW c \in Blocks(s), s.blk[c].arena = s.blk[x].arena, x < c
          PROVE  s.blk[x].next # NULL /\ s.blk[x].next <= c
      <4>1. CASE c \in Blocks(h)
        BY <2>4, <3>1, <3>2, <4>1, <1>2, <1>6 DEF NextOK
      <4>2. CASE c = b
        <5>1. h.blk[x].arena = a
          BY <2>4, <3>2, <4>2, <1>6
        <5>2. h.tail[a] \in Blocks(h) /\ h.blk[h.tail[a]].arena = a /\ x <= h.tail[a]
          BY <5>1, <2>4, <1>2 DEF TailOK
        <5>3. x < h.tail[a]
          BY <5>2, <2>4, <1>3
        <5>4. h.blk[x].next # NULL /\ h.blk[x].next <= h.tail[a] /\ h.tail[a] < b
          BY <5>1, <5>2, <5>3, <2>4, <1>2 DEF NextOK
        <5> QED BY <5>4, <5>2, <3>1, <4>2, <2>4, <1>3
      <4> QED BY <4>1, <4>2, <1>4
    <3>3. s.blk[x].next # NULL =>
             /\ s.blk[x].next \in Blocks(s) /\ x < s.blk[x].next
             /\ s.blk[s.blk[x].next].arena = s.blk[x].arena
      BY <2>4, <3>1, <1>2, <1>4, <1>6 DEF NextOK
    <3> QED BY <3>2, <3>3
  <2> QED BY <2>2, <2>3, <2>4, <1>4
<1> QED BY <1>7, <1>8, <1>9, <1>10, <1>11, <1>12 DEF HeapOK, AppendedAt

-----------------------------------------------------------------------------
(* first_hit.                                                               *)

(* A set of addresses has a lowest one.                                     *)
LEMMA Lowest ==
  ASSUME NEW T, T \subseteq Nat, T # {}
  PROVE  \E x \in T : \A y \in T : x <= y
<1>1. PICK x \in T : \A y \in T : ~ (<<y, x>> \in OpToRel(<, Nat))
  <2> HIDE DEF OpToRel
  <2> QED BY NatLessThanWellFounded, WFMin
<1>2. \A y \in T : ~(y < x)
  BY <1>1 DEF OpToRel
<1> QED BY <1>2

(* And a highest one if it is bounded.                                      *)
LEMMA Highest ==
  ASSUME NEW T, T \subseteq Nat, T # {}, NEW top \in Nat, \A x \in T : x <= top
  PROVE  \E x \in T : \A y \in T : y <= x
<1> DEFINE D == {top - x : x \in T}
<1>1. D \subseteq Nat /\ D # {}
  <2>1. \A x \in T : x \in Nat /\ top - x \in Nat
    OBVIOUS
  <2>2. PICK x \in T : TRUE
    OBVIOUS
  <2>3. top - x \in D
    OBVIOUS
  <2> QED BY <2>1, <2>3
<1>2. PICK d \in D : \A e \in D : d <= e
  <2> HIDE DEF D
  <2> QED BY <1>1, Lowest
<1>3. PICK x \in T : d = top - x
  OBVIOUS
<1>4. ASSUME NEW y \in T PROVE y <= x
  <2>1. d <= top - y
    BY <1>2
  <2> QED BY <2>1, <1>3
<1> QED BY <1>4

(* A free block of the arena that is large enough.                          *)
Hit(h, b, size) == h.blk[b].freed /\ h.blk[b].size >= size

(* first_hit returns one, or NULL.  Its loop is a recursive function, which *)
(* exists because the links lead upwards: its value is the lowest hit from  *)
(* there on.                                                                *)
LEMMA FirstHit ==
  ASSUME NEW h, HeapOK(h), NEW top \in Nat, \A x \in Blocks(h) : x <= top,
         NEW a \in Arenas, NEW size \in Nat, NEW b, b = first_hit(h, a, size)
  PROVE  b = NULL \/ (b \in Blocks(h) /\ h.blk[b].arena = a /\ Hit(h, b, size))
<1> DEFINE From[x \in Blocks(h) \cup {NULL}] ==
              IF x = NULL \/ (h.blk[x].freed /\ h.blk[x].size >= size)
              THEN x ELSE From[h.blk[x].next]
           Above(x) == {c \in Blocks(h) : /\ h.blk[c].arena = h.blk[x].arena /\ x <= c
                                          /\ Hit(h, c, size)}
           least(x) == CHOOSE c \in Above(x) : \A d \in Above(x) : c <= d
           f == [x \in Blocks(h) \cup {NULL} |->
                    IF x = NULL \/ Above(x) = {} THEN NULL ELSE least(x)]
<1>1. Blocks(h) \subseteq Nat \ {0}
  BY DEF HeapOK, HeapType
<1>2. b = From[h.head[a]]
  BY DEF first_hit
<1>3. \A x \in Blocks(h) :
         /\ h.blk[x].next # NULL => /\ h.blk[x].next \in Blocks(h) /\ x < h.blk[x].next
                                    /\ h.blk[h.blk[x].next].arena = h.blk[x].arena
         /\ \A c \in Blocks(h) : h.blk[c].arena = h.blk[x].arena /\ x < c =>
                h.blk[x].next # NULL /\ h.blk[x].next <= c
  BY DEF HeapOK, NextOK
<1>4. ASSUME NEW x \in Blocks(h) \cup {NULL}
      PROVE  f[x] = IF x = NULL \/ (h.blk[x].freed /\ h.blk[x].size >= size)
                    THEN x ELSE f[h.blk[x].next]
  <2>1. CASE x = NULL
    BY <2>1
  <2>2. CASE x # NULL /\ Hit(h, x, size)
    <3>1. x \in Above(x) /\ \A d \in Above(x) : x <= d
      BY <2>2, <1>1
    <3>2. \A c \in Above(x) : (\A d \in Above(x) : c <= d) => c = x
      BY <3>1, <1>1
    <3>3. least(x) = x
      <4> HIDE DEF Above
      <4> QED BY <3>1, <3>2
    <3>4. f[x] = x
      BY <3>1, <3>3, <2>2
    <3> QED BY <2>2, <3>4 DEF Hit
  <2>3. CASE x # NULL /\ ~Hit(h, x, size)
    <3>1. x \in Blocks(h) /\ x \notin Above(x)
      BY <2>3
    <3>2. CASE h.blk[x].next = NULL
      <4>1. Above(x) = {}
        BY <3>1, <3>2, <1>1, <1>3
      <4>2. f[x] = NULL /\ f[NULL] = NULL
        BY <4>1, <3>1
      <4> QED BY <4>2, <3>2, <2>3 DEF Hit
    <3>3. CASE h.blk[x].next # NULL
      <4>1. PICK n \in Blocks(h) : n = h.blk[x].next /\ x < n /\ n # NULL
        BY <3>1, <3>3, <1>3
      <4>2. Above(x) = Above(n)
        <5>1. ASSUME NEW c \in Above(x) PROVE c \in Above(n)
          <6>1. x < c
            BY <3>1, <5>1, <1>1
          <6> QED BY <6>1, <4>1, <3>1, <1>3
        <5>2. ASSUME NEW c \in Above(n) PROVE c \in Above(x)
          BY <4>1, <3>1, <1>1, <1>3
        <5> HIDE DEF Above
        <5> QED BY <5>1, <5>2
      <4>3. f[x] = f[n]
        <5> HIDE DEF Above
        <5> QED BY <4>1, <4>2, <3>1, <2>3
      <4> HIDE DEF f
      <4> QED BY <4>1, <4>3, <2>3 DEF Hit
    <3> QED BY <3>2, <3>3
  <2> QED BY <2>1, <2>2, <2>3
<1>5. f = [x \in Blocks(h) \cup {NULL} |->
              IF x = NULL \/ (h.blk[x].freed /\ h.blk[x].size >= size)
              THEN x ELSE f[h.blk[x].next]]
  <2>1. f = [x \in Blocks(h) \cup {NULL} |-> f[x]]
    OBVIOUS
  <2> HIDE DEF f
  <2> QED BY <1>4, <2>1
<1> HIDE DEF f
<1>6. From = [x \in Blocks(h) \cup {NULL} |->
              IF x = NULL \/ (h.blk[x].freed /\ h.blk[x].size >= size)
              THEN x ELSE From[h.blk[x].next]]
  BY <1>5
<1> HIDE DEF From
<1> DEFINE Good(x) == /\ From[x] # NULL => /\ From[x] \in Blocks(h) /\ Hit(h, From[x], size)
                                           /\ h.blk[From[x]].arena = h.blk[x].arena
           Bad == {x \in Blocks(h) : ~Good(x)}
<1>7. Bad = {}
  <2>1. SUFFICES ASSUME Bad # {} PROVE FALSE
    OBVIOUS
  <2>2. Bad \subseteq Nat /\ \A x \in Bad : x <= top
    BY <1>1
  <2>3. PICK x \in Bad : \A y \in Bad : y <= x
    <3> HIDE DEF Bad
    <3> QED BY <2>1, <2>2, Highest
  <2>4. x \in Blocks(h) /\ ~Good(x) /\ x # NULL
    BY <1>1 DEF NULL
  <2>5. CASE Hit(h, x, size)
    <3>1. From[x] = x
      BY <2>4, <2>5, <1>6 DEF Hit
    <3> QED BY <2>4, <2>5, <3>1
  <2>6. CASE ~Hit(h, x, size)
    <3>1. From[x] = From[h.blk[x].next] /\ From[NULL] = NULL
      BY <2>4, <2>6, <1>6 DEF Hit
    <3>2. CASE h.blk[x].next = NULL
      BY <2>4, <3>1, <3>2
    <3>3. CASE h.blk[x].next # NULL
      <4>1. PICK n \in Blocks(h) : n = h.blk[x].next /\ x < n /\ h.blk[n].arena = h.blk[x].arena
        BY <2>4, <3>3, <1>3
      <4>2. n \notin Bad
        BY <4>1, <2>3, <2>4, <1>1
      <4> QED BY <4>1, <4>2, <3>1, <2>4
    <3> QED BY <3>2, <3>3
  <2> QED BY <2>5, <2>6
<1>8. CASE h.head[a] = NULL
  BY <1>2, <1>6, <1>8
<1>9. CASE h.head[a] # NULL
  <2>1. h.head[a] \in Blocks(h) /\ h.blk[h.head[a]].arena = a
    BY <1>9 DEF HeapOK, HeadOK
  <2>2. Good(h.head[a])
    BY <2>1, <1>7
  <2> QED BY <2>1, <2>2, <1>2
<1> QED BY <1>8, <1>9

-----------------------------------------------------------------------------
(* The operations under an arena's lock.                                    *)

(* What an operation on arena a may do: the bytes are still covered, blocks *)
(* come and go in arena a only, and of the blocks in use it changes none    *)
(* but those of S.                                                          *)
Kept(h, s, S, a) ==
    /\ \A x \in Blocks(s) : /\ x \notin Blocks(h) => s.blk[x].arena = a
                            /\ x \in Blocks(h) => s.blk[x].arena = h.blk[x].arena
    /\ \A x \in Blocks(h) : x \notin Blocks(s) => h.blk[x].arena = a
    /\ \A x \in Used(h) \ S : x \in Used(s) /\ s.blk[x].size = h.blk[x].size
    /\ \A x \in Used(s) \ S : x \in Used(h)
HeapStep(h, s, S, a) == HeapOK(s) /\ Covered(s) = Covered(h) /\ Kept(h, s, S, a)

(* Two operations after each other.                                         *)
LEMMA KeptTwice ==
  ASSUME NEW h, NEW g, NEW s, NEW S, NEW a, Kept(h, g, S, a), Kept(g, s, S, a)
  PROVE  Kept(h, s, S, a)
<1>2. ASSUME NEW x \in Blocks(s)
      PROVE  /\ x \notin Blocks(h) => s.blk[x].arena = a
             /\ x \in Blocks(h) => s.blk[x].arena = h.blk[x].arena
  <2>1. CASE x \in Blocks(g)
    BY <2>1 DEF Kept
  <2>2. CASE x \notin Blocks(g)
    BY <2>2 DEF Kept
  <2> QED BY <2>1, <2>2
<1>3. ASSUME NEW x \in Blocks(h), x \notin Blocks(s) PROVE h.blk[x].arena = a
  <2>1. CASE x \in Blocks(g)
    BY <1>3, <2>1 DEF Kept
  <2>2. CASE x \notin Blocks(g)
    BY <2>2 DEF Kept
  <2> QED BY <2>1, <2>2
<1>4. \A x \in Used(h) \ S : x \in Used(s) /\ s.blk[x].size = h.blk[x].size
  <2> SUFFICES ASSUME NEW x \in Used(h) \ S
               PROVE  x \in Used(s) /\ s.blk[x].size = h.blk[x].size
    OBVIOUS
  <2>1. x \in Used(g) \ S /\ g.blk[x].size = h.blk[x].size
    BY DEF Kept
  <2> QED BY <2>1 DEF Kept
<1>5. \A x \in Used(s) \ S : x \in Used(h)
  <2> SUFFICES ASSUME NEW x \in Used(s) \ S PROVE x \in Used(h)
    OBVIOUS
  <2>1. x \in Used(g) \ S
    BY DEF Kept
  <2> QED BY <2>1 DEF Kept
<1> QED BY <1>2, <1>3, <1>4, <1>5 DEF Kept

(* Also with the bytes.                                                     *)
LEMMA HeapStepTwice ==
  ASSUME NEW h, NEW g, NEW s, NEW S, NEW a, HeapStep(h, g, S, a), HeapStep(g, s, S, a)
  PROVE  HeapStep(h, s, S, a)
BY KeptTwice DEF HeapStep

(* Nothing changes.                                                         *)
LEMMA NoHeapStep ==
  ASSUME NEW h, HeapOK(h), NEW S, NEW a
  PROVE  HeapStep(h, h, S, a)
BY DEF HeapStep, Kept

(* A split is one.                                                          *)
LEMMA SplitIsStep ==
  ASSUME NEW h, HeapOK(h), NEW b \in Blocks(h), NEW size \in Nat, size % ALIGN = 0,
         ALIGN <= size, size + HDR + ALIGN <= h.blk[b].size,
         NEW s, NEW rem, SplitAt(h, s, b, size, rem)
  PROVE  HeapStep(h, s, {b}, h.blk[b].arena) /\ (b \in Used(s) <=> b \in Used(h))
<1>1. HeapOK(s) /\ Covered(s) = Covered(h)
  BY SplitKeepsOK, SplitKeepsBytes
<1>2. Blocks(s) = Blocks(h) \cup {rem} /\ rem \notin Blocks(h)
  BY RemainderInside DEF SplitAt
<1>3. s.blk[rem].arena = h.blk[b].arena /\ s.blk[rem].freed
  BY DEF SplitAt
<1>4. \A x \in Blocks(h) : s.blk[x].arena = h.blk[x].arena /\ (s.blk[x].freed <=> h.blk[x].freed)
  BY DEF SplitAt
<1>5. \A x \in Blocks(h) \ {b} : s.blk[x].size = h.blk[x].size
  BY DEF SplitAt
<1>6. Used(s) = Used(h)
  BY <1>2, <1>3, <1>4 DEF Used
<1>7. Used(h) \subseteq Blocks(h)
  BY DEF Used
<1> QED BY <1>1, <1>2, <1>3, <1>4, <1>5, <1>6, <1>7 DEF HeapStep, Kept

(* And so is a merge.                                                       *)
LEMMA MergeIsStep ==
  ASSUME NEW h, HeapOK(h), NEW b \in Blocks(h), NEW n, n # NULL, EndOf(h, b) = n,
         h.blk[n].freed, NEW s, MergedAt(h, s, b, n)
  PROVE  HeapStep(h, s, {b}, h.blk[b].arena) /\ Used(s) = Used(h)
<1>1. HeapOK(s) /\ Covered(s) = Covered(h)
  BY MergeKeepsOK, MergeKeepsBytes
<1>2. /\ Blocks(s) = Blocks(h) \ {n} /\ n \in Blocks(h) /\ n # b
      /\ h.blk[n].arena = h.blk[b].arena
  <2>1. Blocks(h) \subseteq Nat
    BY DEF HeapOK, HeapType
  <2> QED BY <2>1 DEF MergedAt, HeapOK, NextOK
<1>3. \A x \in Blocks(s) : s.blk[x].arena = h.blk[x].arena /\ (s.blk[x].freed <=> h.blk[x].freed)
  BY <1>2 DEF MergedAt
<1>4. \A x \in Blocks(s) \ {b} : s.blk[x].size = h.blk[x].size
  BY <1>2 DEF MergedAt
<1>5. Used(s) = Used(h)
  BY <1>2, <1>3 DEF Used
<1>6. Used(s) \subseteq Blocks(s)
  BY DEF Used
<1> QED BY <1>1, <1>2, <1>3, <1>4, <1>5, <1>6 DEF HeapStep, Kept

(* Nothing free lies right behind b in its list.                            *)
NothingFreeBehind(h, b) ==
    h.blk[b].next # NULL /\ EndOf(h, b) = h.blk[b].next => ~h.blk[h.blk[b].next].freed

(* coalesce_with_next, whether it merges or not.                            *)
LEMMA Coalesces ==
  ASSUME NEW h, HeapOK(h), NEW b \in Blocks(h), NEW X, CoalescedBut(h, X),
         h.blk[b].next = NULL \/ h.blk[b].next \notin X,
         NEW s, s = coalesce_with_next(h, b)
  PROVE  /\ HeapStep(h, s, {b}, h.blk[b].arena) /\ Used(s) = Used(h)
         /\ b \in Blocks(s) /\ CoalescedBut(s, X \ {b}) /\ NothingFreeBehind(s, b)
         /\ h.blk[b].size <= s.blk[b].size /\ s.blk[b].prev = h.blk[b].prev
         /\ \A x \in Blocks(s) : s.blk[x].freed <=> h.blk[x].freed
<1> DEFINE n == h.blk[b].next
<1>1. CASE Mergeable(h, b, n)
  <2>1. MergedAt(h, s, b, n)
    BY <1>1, MergeFields
  <2>2. n # NULL /\ h.blk[n].freed /\ EndOf(h, b) = n
    BY <1>1 DEF Mergeable
  <2>3. HeapStep(h, s, {b}, h.blk[b].arena) /\ Used(s) = Used(h)
    BY <2>1, <2>2, MergeIsStep
  <2>4. CoalescedBut(s, X \ {b}) /\ NothingFreeBehind(s, b)
    BY <2>1, <2>2, MergeKeepsCoalesced DEF NothingFreeBehind
  <2>5. HDR \in Nat /\ h.blk[b].size \in Nat /\ h.blk[n].size \in Nat /\ n # b /\ n \in Blocks(h)
    <3>1. n \in Blocks(h) /\ b < n /\ Blocks(h) \subseteq Nat
      BY <2>2 DEF HeapOK, NextOK, HeapType
    <3>2. HDR \in Nat /\ h.blk[b].size \in Nat /\ h.blk[n].size \in Nat
      BY <3>1, SizesAssumption DEF HeapOK, HeapType, Block
    <3> QED BY <3>1, <3>2
  <2>6. s.blk[b].size = h.blk[b].size + HDR + h.blk[n].size
    BY <2>1 DEF MergedAt
  <2>7. h.blk[b].size <= s.blk[b].size
    BY <2>5, <2>6
  <2>8. b \in Blocks(s) /\ s.blk[b].prev = h.blk[b].prev
    BY <2>1, <2>5 DEF MergedAt
  <2>9. \A x \in Blocks(s) : s.blk[x].freed <=> h.blk[x].freed
    BY <2>1 DEF MergedAt
  <2> QED BY <2>3, <2>4, <2>7, <2>8, <2>9
<1>2. CASE ~Mergeable(h, b, n)
  <2>1. s = h
    BY <1>2 DEF coalesce_with_next
  <2>2. NothingFreeBehind(h, b)
    BY <1>2 DEF Mergeable, NothingFreeBehind
  <2>3. CoalescedBut(h, X \ {b})
    BY <2>2 DEF CoalescedBut, CoalescedAt, NothingFreeBehind
  <2>4. h.blk[b].size \in Nat
    BY DEF HeapOK, HeapType, Block
  <2> QED BY <2>1, <2>2, <2>3, <2>4, NoHeapStep
<1> QED BY <1>1, <1>2

(* prev is the inverse of next.                                             *)
LEMMA PrevOfNext ==
  ASSUME NEW h, HeapOK(h), NEW b \in Blocks(h), NEW x \in Blocks(h), h.blk[x].next = b
  PROVE  h.blk[b].prev = x
<1>1. Blocks(h) \subseteq Nat \ {0}
  BY DEF HeapOK, HeapType
<1>2. x < b /\ h.blk[x].arena = h.blk[b].arena
  BY <1>1 DEF HeapOK, NextOK, NULL
<1>3. PICK p : p = h.blk[b].prev
  OBVIOUS
<1>4. p # NULL /\ x <= p /\ p \in Blocks(h) /\ p < b /\ h.blk[p].arena = h.blk[b].arena
  BY <1>2, <1>3 DEF HeapOK, PrevOK
<1>5. ~(x < p)
  <2>1. SUFFICES ASSUME x < p PROVE FALSE
    OBVIOUS
  <2>2. h.blk[x].next <= p
    BY <2>1, <1>2, <1>4 DEF HeapOK, NextOK
  <2> QED BY <2>2, <1>1, <1>4
<1> QED BY <1>1, <1>3, <1>4, <1>5

(* arena_free: the block is free and merged with its neighbours.            *)
LEMMA Frees ==
  ASSUME NEW h, HeapOK(h), CoalescedBut(h, {}), NEW b \in Used(h), NEW s, s = arena_free(h, b)
  PROVE  /\ HeapStep(h, s, {b}, h.blk[b].arena)
         /\ CoalescedBut(s, {}) /\ Used(s) = Used(h) \ {b}
<1>1. b \in Blocks(h) /\ Blocks(h) \subseteq Nat \ {0}
  BY DEF Used, HeapOK, HeapType
<1>2. PICK g : g = SetFreed(h, b, TRUE)
  OBVIOUS
<1>3. MarkedAt(h, g, b, TRUE)
  BY <1>1, <1>2, MarkFields
<1>4. HeapOK(g) /\ Covered(g) = Covered(h) /\ \A x \in Blocks(h) : EndOf(g, x) = EndOf(h, x)
  BY <1>1, <1>3, MarkKeepsOK
<1>5. /\ Blocks(g) = Blocks(h) /\ g.blk[b].freed /\ Used(g) = Used(h) \ {b}
      /\ \A x \in Blocks(h) : /\ g.blk[x].arena = h.blk[x].arena /\ g.blk[x].size = h.blk[x].size
                              /\ g.blk[x].prev = h.blk[x].prev /\ g.blk[x].next = h.blk[x].next
      /\ \A x \in Blocks(h) \ {b} : g.blk[x].freed <=> h.blk[x].freed
  BY <1>3 DEF MarkedAt, Used
<1>6. HeapStep(h, g, {b}, h.blk[b].arena)
  BY <1>4, <1>5 DEF HeapStep, Kept, Used
<1>7. PICK p : p = h.blk[b].prev
  OBVIOUS
<1>8. p # NULL => p \in Blocks(h) /\ p < b /\ h.blk[p].arena = h.blk[b].arena
  BY <1>1, <1>7 DEF HeapOK, PrevOK
<1>9. CoalescedBut(g, {b, p})
  <2> SUFFICES ASSUME NEW x \in Blocks(h) \ {b, p} PROVE CoalescedAt(g, x)
    BY <1>5 DEF CoalescedBut
  <2>1. CoalescedAt(h, x)
    BY DEF CoalescedBut
  <2>2. h.blk[x].next # b
    BY <1>1, <1>7, PrevOfNext
  <2>3. h.blk[x].next # NULL => h.blk[x].next \in Blocks(h)
    BY DEF HeapOK, NextOK
  <2> QED BY <2>1, <2>2, <2>3, <1>4, <1>5 DEF CoalescedAt
<1>10. g.blk[b].next = NULL \/ g.blk[b].next \notin {b, p}
  <2>1. SUFFICES ASSUME h.blk[b].next # NULL PROVE h.blk[b].next \notin {b, p}
    BY <1>1, <1>5
  <2>2. h.blk[b].next \in Blocks(h) /\ b < h.blk[b].next
    BY <2>1, <1>1 DEF HeapOK, NextOK
  <2>3. h.blk[b].next # b
    BY <2>2, <1>1
  <2>4. h.blk[b].next # p
    BY <2>1, <2>2, <1>1, <1>8
  <2> QED BY <2>3, <2>4
<1>11. PICK k : k = coalesce_with_next(g, b)
  OBVIOUS
<1>12. /\ HeapStep(g, k, {b}, h.blk[b].arena) /\ Used(k) = Used(g)
       /\ b \in Blocks(k) /\ CoalescedBut(k, {b, p} \ {b})
       /\ k.blk[b].prev = p
  <2>1. PICK X : X = {b, p}
    OBVIOUS
  <2>2. b \in Blocks(g) /\ CoalescedBut(g, X) /\ (g.blk[b].next = NULL \/ g.blk[b].next \notin X)
    BY <2>1, <1>1, <1>5, <1>9, <1>10
  <2>3. /\ HeapStep(g, k, {b}, g.blk[b].arena) /\ Used(k) = Used(g)
        /\ b \in Blocks(k) /\ CoalescedBut(k, X \ {b})
        /\ k.blk[b].prev = g.blk[b].prev
    BY <2>2, <1>4, <1>11, Coalesces, ZenonT(30)
  <2>4. g.blk[b].arena = h.blk[b].arena /\ g.blk[b].prev = p
    BY <1>1, <1>5, <1>7
  <2> QED BY <2>1, <2>3, <2>4
<1>13. HeapStep(h, k, {b}, h.blk[b].arena) /\ HeapOK(k)
  BY <1>6, <1>12, HeapStepTwice DEF HeapStep, Kept
<1>14. s = IF p # NULL /\ k.blk[p].freed THEN coalesce_with_next(k, p) ELSE k
  BY <1>2, <1>11, <1>12 DEF arena_free, merge_blocks
<1>15. CASE p = NULL
  <2>1. s = k
    BY <1>14, <1>15
  <2>2. NULL \notin Blocks(k)
    BY <1>13 DEF HeapOK, HeapType, NULL
  <2>3. CoalescedBut(k, {})
    BY <2>2, <1>12, <1>15 DEF CoalescedBut
  <2> QED BY <2>1, <2>3, <1>5, <1>12, <1>13
<1>16. CASE p # NULL /\ ~k.blk[p].freed
  <2>1. s = k
    BY <1>14, <1>16
  <2>2. CoalescedBut(k, {})
    BY <1>12, <1>16 DEF CoalescedBut, CoalescedAt
  <2> QED BY <2>1, <2>2, <1>5, <1>12, <1>13
<1>17. CASE p # NULL /\ k.blk[p].freed
  <2>1. s = coalesce_with_next(k, p)
    BY <1>14, <1>17
  <2>2. p \in Blocks(k) /\ k.blk[p].arena = h.blk[b].arena
    <3>1. p \in Blocks(k) /\ k.blk[p].arena = k.blk[b].arena
      BY <1>12, <1>13, <1>17 DEF HeapOK, PrevOK
    <3>2. k.blk[b].arena = h.blk[b].arena
      BY <1>1, <1>12, <1>13 DEF HeapStep, Kept
    <3> QED BY <3>1, <3>2
  <2>3. k.blk[p].next = NULL \/ k.blk[p].next \notin {b, p} \ {b}
    <3>1. k.blk[p].next # NULL => p < k.blk[p].next
      BY <2>2, <1>13 DEF HeapOK, NextOK
    <3>2. p \in Nat
      BY <2>2, <1>13 DEF HeapOK, HeapType
    <3> QED BY <3>1, <3>2
  <2>4. /\ HeapStep(k, s, {p}, h.blk[b].arena) /\ Used(s) = Used(k)
        /\ CoalescedBut(s, ({b, p} \ {b}) \ {p})
    <3>1. PICK X : X = {b, p} \ {b}
      OBVIOUS
    <3>2. CoalescedBut(k, X) /\ (k.blk[p].next = NULL \/ k.blk[p].next \notin X)
      BY <3>1, <2>3, <1>12
    <3>3. /\ HeapStep(k, s, {p}, k.blk[p].arena) /\ Used(s) = Used(k)
          /\ CoalescedBut(s, X \ {p})
      BY <3>2, <2>1, <2>2, <1>13, Coalesces
    <3> QED BY <3>1, <3>3, <2>2
  <2>5. CoalescedBut(s, {})
    BY <2>4 DEF CoalescedBut
  <2>6. p \notin Used(k)
    BY <1>17 DEF Used
  <2>7. HeapStep(k, s, {b}, h.blk[b].arena)
    BY <2>4, <2>6 DEF HeapStep, Kept
  <2>8. HeapStep(h, s, {b}, h.blk[b].arena)
    BY <2>7, <1>13, HeapStepTwice
  <2> QED BY <2>4, <2>5, <2>8, <1>5, <1>12
<1> QED BY <1>15, <1>16, <1>17

(* split_block, whether it splits or not.                                   *)
LEMMA Splits ==
  ASSUME NEW h, HeapOK(h), NEW b \in Blocks(h), CoalescedBut(h, {b}), NothingFreeBehind(h, b),
         NEW size \in Nat, size % ALIGN = 0, ALIGN <= size, size <= h.blk[b].size,
         size + HDR + ALIGN < SIZE_T, NEW s, s = split_block(h, b, size)
  PROVE  /\ HeapStep(h, s, {b}, h.blk[b].arena) /\ Used(s) = Used(h)
         /\ b \in Blocks(s) /\ size <= s.blk[b].size /\ CoalescedBut(s, {b})
<1>1. /\ ALIGN \in Nat \ {0} /\ HDR \in Nat \ {0} /\ SIZE_T \in Nat /\ h.blk[b].size \in Nat
  BY AlignAssumption, SizesAssumption DEF HeapOK, HeapType, Block
<1>2. WorthSplitting(h, b, size) <=> size + HDR + ALIGN <= h.blk[b].size
  <2>1. Wrap(size + HDR + ALIGN) = size + HDR + ALIGN
    BY <1>1 DEF Wrap
  <2> QED BY <1>1, <2>1 DEF WorthSplitting
<1>3. CASE WorthSplitting(h, b, size)
  <2>1. PICK rem : rem = b + HDR + size
    OBVIOUS
  <2>2. SplitAt(h, s, b, size, rem)
    BY <1>2, <1>3, <2>1, SplitFields
  <2>3. HeapStep(h, s, {b}, h.blk[b].arena)
    BY <1>2, <1>3, <2>2, SplitIsStep
  <2>4. CoalescedBut(s, {b})
    BY <1>2, <1>3, <2>2, SplitKeepsCoalesced DEF NothingFreeBehind
  <2>5. rem \notin Blocks(h) /\ Blocks(s) = Blocks(h) \cup {rem}
    BY <1>2, <1>3, <2>1, <2>2, RemainderInside DEF SplitAt
  <2>6. Used(s) = Used(h)
    <3>1. s.blk[rem].freed /\ \A x \in Blocks(h) : s.blk[x].freed <=> h.blk[x].freed
      BY <2>2 DEF SplitAt
    <3> QED BY <2>5, <3>1 DEF Used
  <2>7. s.blk[b].size = size
    BY <2>2 DEF SplitAt
  <2> QED BY <2>3, <2>4, <2>5, <2>6, <2>7
<1>4. CASE ~WorthSplitting(h, b, size)
  <2>1. s = h
    BY <1>4 DEF split_block
  <2> QED BY <2>1, NoHeapStep
<1> QED BY <1>3, <1>4

(* arena_malloc takes a free block.                                         *)
LEMMA Takes ==
  ASSUME NEW h, HeapOK(h), CoalescedBut(h, {}), NEW b \in Blocks(h), h.blk[b].freed,
         NEW size \in Nat, size % ALIGN = 0, ALIGN <= size, size <= h.blk[b].size,
         size + HDR + ALIGN < SIZE_T, NEW s, s = SetFreed(split_block(h, b, size), b, FALSE)
  PROVE  /\ HeapStep(h, s, {b}, h.blk[b].arena) /\ Used(s) = Used(h) \cup {b}
         /\ b \notin Used(h) /\ size <= s.blk[b].size /\ CoalescedBut(s, {})
<1>1. PICK g : g = split_block(h, b, size)
  OBVIOUS
<1>2. NothingFreeBehind(h, b) /\ CoalescedBut(h, {b}) /\ b \notin Used(h)
  BY DEF CoalescedBut, CoalescedAt, NothingFreeBehind, Used
<1>3. /\ HeapStep(h, g, {b}, h.blk[b].arena) /\ Used(g) = Used(h)
      /\ b \in Blocks(g) /\ size <= g.blk[b].size /\ CoalescedBut(g, {b})
  BY <1>1, <1>2, Splits
<1>4. HeapOK(g)
  BY <1>3 DEF HeapStep
<1>5. MarkedAt(g, s, b, FALSE)
  BY <1>1, <1>3, <1>4, MarkFields
<1>6. HeapOK(s) /\ Covered(s) = Covered(g) /\ \A x \in Blocks(g) : EndOf(s, x) = EndOf(g, x)
  BY <1>3, <1>4, <1>5, MarkKeepsOK
<1>7. /\ Blocks(s) = Blocks(g) /\ ~s.blk[b].freed
      /\ \A x \in Blocks(g) : /\ s.blk[x].arena = g.blk[x].arena /\ s.blk[x].size = g.blk[x].size
                              /\ s.blk[x].next = g.blk[x].next
      /\ \A x \in Blocks(g) \ {b} : s.blk[x].freed <=> g.blk[x].freed
  BY <1>5 DEF MarkedAt
<1>8. Used(s) = Used(g) \cup {b}
  BY <1>3, <1>7 DEF Used
<1>9. HeapStep(g, s, {b}, h.blk[b].arena)
  BY <1>6, <1>7, <1>8 DEF HeapStep, Kept, Used
<1>10. HeapStep(h, s, {b}, h.blk[b].arena)
  BY <1>3, <1>9, HeapStepTwice
<1>11. CoalescedBut(s, {})
  <2> SUFFICES ASSUME NEW x \in Blocks(g) PROVE CoalescedAt(s, x)
    BY <1>7 DEF CoalescedBut
  <2>1. CASE x = b
    BY <2>1, <1>7 DEF CoalescedAt
  <2>2. CASE x # b
    <3>1. CoalescedAt(g, x)
      BY <2>2, <1>3 DEF CoalescedBut
    <3>2. g.blk[x].next # NULL => g.blk[x].next \in Blocks(g)
      BY <1>4 DEF HeapOK, NextOK
    <3> QED BY <2>2, <3>1, <3>2, <1>6, <1>7 DEF CoalescedAt
  <2> QED BY <2>1, <2>2
<1> QED BY <1>2, <1>3, <1>7, <1>8, <1>10, <1>11
-----------------------------------------------------------------------------
(* The bytes of a block of that size.                                       *)
Bytes(b, size) == b .. b + HDR + size - 1

(* Those from b on, not yet of any block, can become one of the arena a.    *)
Appendable(h, a, b, size, total) ==
    /\ HeapOK(h) /\ CoalescedBut(h, {}) /\ a \in Arenas /\ b \in Nat \ {0}
    /\ size \in Nat /\ size % ALIGN = 0 /\ ALIGN <= size /\ size + HDR + ALIGN < SIZE_T
    /\ total \in Nat /\ total % ALIGN = 0 /\ size <= total
    /\ b % ALIGN = 0 /\ HeapStart <= b
    /\ \A c \in Blocks(h) : h.blk[c].arena = a => c < b
    /\ Covered(h) \cap Bytes(b, total) = {}

(* And this is the heap s in which they have.                               *)
Appended(h, s, a, b, size, total) ==
    /\ HeapOK(s) /\ CoalescedBut(s, {}) /\ Kept(h, s, {b}, a)
    /\ Covered(s) = Covered(h) \cup Bytes(b, total)
    /\ Used(s) = Used(h) \cup {b} /\ b \notin Used(h)
    /\ s.blk[b].arena = a /\ size <= s.blk[b].size

(* The end of extend_arena_heap: the new block joins its list and gives     *)
(* back what it has in reserve.                                             *)
LEMMA Appends ==
  ASSUME NEW h, NEW a, NEW b, NEW size, NEW total, Appendable(h, a, b, size, total),
         NEW s, s = split_block(AppendBlock(h, a, b, total), b, size)
  PROVE  Appended(h, s, a, b, size, total)
<1> USE DEF Appendable, Bytes
<1>1. ALIGN \in Nat \ {0} /\ HDR \in Nat \ {0}
  BY AlignAssumption, SizesAssumption
<1>2. /\ Blocks(h) \subseteq Nat \ {0} /\ \A x \in Blocks(h) : h.blk[x].size \in Nat
      /\ \A x \in Blocks(h) : h.blk[x].next \in Nat
  BY DEF HeapOK, HeapType, Block
<1>3. \A c \in Blocks(h) : \A z \in c .. EndOf(h, c) - 1 : z \notin b .. b + HDR + total - 1
  BY DEF Covered
<1>4. ASSUME NEW c \in Blocks(h)
      PROVE  c # b /\ (c < b => EndOf(h, c) <= b) /\ (b < c => b + HDR + total <= c)
  <2>1. c \in c .. EndOf(h, c) - 1
    BY <1>1, <1>2 DEF EndOf
  <2>2. c \notin b .. b + HDR + total - 1
    BY <2>1, <1>3
  <2>3. c < b => EndOf(h, c) <= b
    <3>1. b \notin c .. EndOf(h, c) - 1
      BY <1>1, <1>3
    <3>2. EndOf(h, c) \in Nat
      BY <1>1, <1>2 DEF EndOf
    <3> QED BY <3>1, <3>2, <1>2
  <2> QED BY <2>2, <2>3, <1>1, <1>2
<1>5. b \notin Blocks(h)
  BY <1>4
<1>6. PICK g : g = AppendBlock(h, a, b, total)
  OBVIOUS
<1>7. AppendedAt(h, g, a, b, total)
  BY <1>5, <1>6, AppendFields
<1>8. total \in Nat /\ ALIGN <= total
  BY <1>1
<1>9. HeapOK(g)
  BY <1>4, <1>5, <1>7, <1>8, AppendKeepsOK
<1>10. /\ Blocks(g) = Blocks(h) \cup {b} /\ g.blk[b].arena = a /\ ~g.blk[b].freed
       /\ g.blk[b].size = total /\ g.blk[b].next = NULL
       /\ \A x \in Blocks(h) : /\ g.blk[x].arena = h.blk[x].arena /\ (g.blk[x].freed <=> h.blk[x].freed)
                               /\ g.blk[x].size = h.blk[x].size
                               /\ g.blk[x].next = IF x = h.tail[a] THEN b ELSE h.blk[x].next
  BY <1>7 DEF AppendedAt
<1>11. Used(g) = Used(h) \cup {b} /\ b \notin Used(h)
  BY <1>5, <1>10 DEF Used
<1>12. Kept(h, g, {b}, a)
  BY <1>5, <1>10, <1>11 DEF Kept, Used
<1>13. Covered(g) = Covered(h) \cup (b .. b + HDR + total - 1)
  <2>1. EndOf(g, b) = b + HDR + total /\ \A x \in Blocks(h) : EndOf(g, x) = EndOf(h, x)
    BY <1>10 DEF EndOf
  <2>2. ASSUME NEW z \in Covered(g)  PROVE z \in Covered(h) \cup (b .. b + HDR + total - 1)
    <3>1. PICK x \in Blocks(g) : z \in x .. EndOf(g, x) - 1
      BY <2>2 DEF Covered
    <3>2. CASE x = b
      BY <3>1, <3>2, <2>1, <1>1
    <3>3. CASE x # b
      <4>1. x \in Blocks(h) /\ z \in x .. EndOf(h, x) - 1
        BY <3>1, <3>3, <2>1, <1>10
      <4> QED BY <4>1 DEF Covered
    <3> QED BY <3>2, <3>3
  <2>3. ASSUME NEW z \in Covered(h)  PROVE z \in Covered(g)
    <3>1. PICK x \in Blocks(h) : z \in x .. EndOf(h, x) - 1
      BY <2>3 DEF Covered
    <3> QED BY <3>1, <2>1, <1>10 DEF Covered
  <2>4. b .. b + HDR + total - 1 \subseteq Covered(g)
    <3> SUFFICES ASSUME NEW z \in b .. b + HDR + total - 1  PROVE z \in Covered(g)
      OBVIOUS
    <3>1. b \in Blocks(g) /\ z \in b .. EndOf(g, b) - 1
      BY <2>1, <1>10, <1>1
    <3> QED BY <3>1 DEF Covered
  <2> QED BY <2>2, <2>3, <2>4
<1>14. CoalescedBut(g, {b})
  <2> SUFFICES ASSUME NEW x \in Blocks(h)  PROVE CoalescedAt(g, x)
    BY <1>10 DEF CoalescedBut
  <2>1. CASE x = h.tail[a]
    BY <2>1, <1>10 DEF CoalescedAt
  <2>2. CASE x # h.tail[a]
    <3>1. CoalescedAt(h, x) /\ g.blk[x].next = h.blk[x].next /\ EndOf(g, x) = EndOf(h, x)
      BY <2>2, <1>10 DEF CoalescedBut, EndOf
    <3>2. h.blk[x].next # NULL => h.blk[x].next \in Blocks(h)
      BY DEF HeapOK, NextOK
    <3> QED BY <3>1, <3>2, <1>10 DEF CoalescedAt
  <2> QED BY <2>1, <2>2
<1>15. NothingFreeBehind(g, b) /\ b \in Blocks(g) /\ size <= g.blk[b].size
  BY <1>10 DEF NothingFreeBehind
<1>16. s = split_block(g, b, size)
  BY <1>6
<1>17. /\ HeapStep(g, s, {b}, a) /\ Used(s) = Used(g)
       /\ b \in Blocks(s) /\ size <= s.blk[b].size /\ CoalescedBut(s, {b})
  <2>1. /\ HeapStep(g, s, {b}, g.blk[b].arena) /\ Used(s) = Used(g)
        /\ b \in Blocks(s) /\ size <= s.blk[b].size /\ CoalescedBut(s, {b})
    BY <1>9, <1>14, <1>15, <1>16, Splits
  <2> QED BY <2>1, <1>10
<1>18. HeapOK(s) /\ Covered(s) = Covered(g) /\ Kept(g, s, {b}, a)
  BY <1>17 DEF HeapStep
<1>19. Kept(h, s, {b}, a)
  BY <1>12, <1>18, KeptTwice
<1>20. s.blk[b].arena = a
  BY <1>17, <1>18, <1>10 DEF Kept
<1>21. CoalescedBut(s, {})
  <2>1. ~s.blk[b].freed
    BY <1>17, <1>11 DEF Used
  <2> QED BY <2>1, <1>17 DEF CoalescedBut, CoalescedAt
<1> QED BY <1>11, <1>13, <1>17, <1>18, <1>19, <1>20, <1>21 DEF Appended
-----------------------------------------------------------------------------
(* The inductive invariant.  Its parts are operators of the heap, and of    *)
(* the position p and the frame f of one call.                              *)

Positions == {"idle", "lock", "free", "realloc", "malloc", "ext_check", "ext_try", "ext_lock",
              "sbrk", "sbrk_append", "sbrk_failed", "append", "allocated", "unlock"}
WithSbrk   == {"sbrk", "sbrk_append", "sbrk_failed"}
Awaited    == {"sbrk_append", "append"}
Allocating == {"malloc", "ext_check", "ext_try", "ext_lock", "sbrk", "sbrk_append",
               "sbrk_failed", "append", "allocated"}

Frames == [fn : {"none", "malloc", "free", "realloc"}, want : Nat, size : Nat, arena : Arenas,
           old : Nat, had : Nat, new : Nat, reserve : Nat]

TypeOK ==
    /\ brk \in HeapStart .. HeapEnd /\ brk % ALIGN = 0
    /\ arena_lock \in [Arenas -> Threads \cup {NONE}]
    /\ sbrk_mutex \in Threads \cup {NONE}
    /\ thread_arena_id \in [Threads -> Arenas \cup {-1}]
    /\ next_arena_id = Cardinality({t \in Threads : thread_arena_id[t] # -1})
    /\ contention_detected \in {0, 1}
    /\ user \in [DOMAIN user -> Nat]
    /\ pc \in [Threads -> Positions]
    /\ frame \in [Threads -> Frames]

(* An arena's lock is held by the one call inside the arena.                *)
LockInv ==
    /\ \A t \in Threads : (pc[t] \notin {"idle", "lock"}) <=> (arena_lock[frame[t].arena] = t)
    /\ \A t \in Threads, a \in Arenas : arena_lock[a] = t => frame[t].arena = a
    /\ \A t \in Threads : (sbrk_mutex = t) <=> (pc[t] \in WithSbrk)

(* The frame agrees with the position.                                      *)
CallOK(p, f) ==
    /\ p = "idle" => f = NoFrame
    /\ p # "idle" => f.fn \in {"malloc", "free", "realloc"}
    /\ p = "free" => f.fn = "free"
    /\ p = "realloc" => f.fn = "realloc"
    /\ p \in Allocating => f.fn \in {"malloc", "realloc"}
    /\ f.fn = "malloc" => f.old = NULL
    /\ f.fn \in {"free", "realloc"} => f.old # NULL
    /\ f.fn = "free" \/ p \notin Awaited \cup {"allocated", "unlock"} => f.new = NULL
    /\ p = "allocated" /\ f.new # NULL => f.new # f.old

(* Nothing wraps: sizes are rounded up and far below the range of size_t.   *)
Small(n) == n + HDR + RESERVE + 2 * ALIGN < SIZE_T \div 2
SizeOK(f) ==
    f.fn \in {"malloc", "realloc"} =>
        /\ f.size % ALIGN = 0 /\ ALIGN <= f.size /\ f.want <= f.size
        /\ f.size + HDR + RESERVE + ALIGN < SIZE_T \div 2

HoldsOld(p, f) == f.old # NULL /\ (p # "unlock" \/ (f.fn = "realloc" /\ f.new = NULL))
HoldsNew(p, f) == f.new # NULL /\ p \in {"allocated", "unlock"}
HeldBy(p, f) ==
    {b \in {f.old, f.new} : (b = f.old /\ HoldsOld(p, f)) \/ (b = f.new /\ HoldsNew(p, f))}

(* The blocks a call holds are those its frame says they are.               *)
HeldOK(h, p, f) ==
    /\ HoldsOld(p, f) => /\ h.blk[f.old].arena = f.arena
                         /\ f.fn = "realloc" => f.had <= h.blk[f.old].size
    /\ HoldsNew(p, f) => f.size <= h.blk[f.new].size

(* The memory a call got from sbrk is above every block of its arena.       *)
AwaitedOK(h, p, f) ==
    p \in Awaited => /\ f.new % ALIGN = 0 /\ HeapStart <= f.new /\ f.reserve \in {0, RESERVE}
                     /\ \A c \in Blocks(h) : h.blk[c].arena = f.arena => c < f.new

ThreadOK(h, p, f) == CallOK(p, f) /\ SizeOK(f) /\ HeldOK(h, p, f) /\ AwaitedOK(h, p, f)

(* The bytes up to the break are those of blocks and of calls.              *)
Got(f) == f.new .. f.new + HDR + f.size + f.reserve - 1
Waiting(pcs) == {t \in Threads : pcs[t] \in Awaited}
Tiled(h, top, pcs, fs) ==
    /\ \A t \in Waiting(pcs) : Covered(h) \cap Got(fs[t]) = {}
    /\ \A t, u \in Waiting(pcs) : t # u => Got(fs[t]) \cap Got(fs[u]) = {}
    /\ Covered(h) \cup (UNION {Got(fs[t]) : t \in Waiting(pcs)}) = HeapStart .. top - 1

(* The blocks in use are the program's and those H[t] of the calls.         *)
Owned(h, u, H) ==
    /\ \A b \in DOMAIN u : b \in Blocks(h) /\ u[b] <= h.blk[b].size
    /\ Used(h) = DOMAIN u \cup (UNION {H[t] : t \in Threads})
    /\ \A t \in Threads : H[t] \cap DOMAIN u = {}
    /\ \A t, w \in Threads : t # w => H[t] \cap H[w] = {}
HeldByAll(pcs, fs) == [t \in Threads |-> HeldBy(pcs[t], fs[t])]

IInv ==
    /\ TypeOK /\ LockInv
    /\ HeapOK(heap) /\ CoalescedBut(heap, {})
    /\ \A t \in Threads : ThreadOK(heap, pc[t], frame[t])
    /\ Tiled(heap, brk, pc, frame)
    /\ Owned(heap, user, HeldByAll(pc, frame))

(* The hypotheses: at most INT_MAX threads, and no request, a product that  *)
(* passes the check of calloc included, whose rounding, header and reserve  *)
(* leave the range of the signed argument of sbrk.                          *)
NothingWraps ==
    /\ Cardinality(Threads) <= INT_MAX
    /\ \A n \in Sizes : Small(n)
    /\ \A n \in Sizes, k \in Items : (k = 0 \/ n <= (SIZE_T - 1) \div k) => Small(k * n)
-----------------------------------------------------------------------------
(* The parts of the invariant under a step of one call.                     *)

(* What a call holds stays as it is while another one changes the heap.     *)
LEMMA ThreadKept ==
  ASSUME NEW h, NEW s, NEW S, NEW a, Kept(h, s, S, a), NEW p, NEW f, ThreadOK(h, p, f),
         HeldBy(p, f) \subseteq Used(h) \ S, p \in Awaited => f.arena # a
  PROVE  ThreadOK(s, p, f)
<1>1. \A x \in Used(h) \ S : /\ x \in Blocks(h) /\ x \in Blocks(s)
                             /\ s.blk[x].size = h.blk[x].size /\ s.blk[x].arena = h.blk[x].arena
  BY DEF Kept, Used
<1>2. HoldsOld(p, f) => f.old \in Used(h) \ S
  BY DEF HeldBy
<1>3. HoldsNew(p, f) => f.new \in Used(h) \ S
  BY DEF HeldBy
<1>4. HeldOK(s, p, f)
  BY <1>1, <1>2, <1>3 DEF HeldOK, ThreadOK
<1>5. AwaitedOK(s, p, f)
  BY DEF AwaitedOK, ThreadOK, Kept
<1> QED BY <1>4, <1>5 DEF ThreadOK

(* A call holds blocks in use.                                              *)
LEMMA HeldIsUsed ==
  ASSUME NEW h, NEW u, NEW H, Owned(h, u, H), NEW t \in Threads
  PROVE  H[t] \subseteq Used(h) /\ H[t] \cap DOMAIN u = {}
BY DEF Owned

(* The frames, when call t changes the heap at S.                           *)
LEMMA FramesStep ==
  ASSUME NEW h, NEW pcs, NEW fs, \A w \in Threads : ThreadOK(h, pcs[w], fs[w]),
         NEW u, Owned(h, u, HeldByAll(pcs, fs)), NEW t \in Threads,
         NEW s, NEW S, NEW a, Kept(h, s, S, a), S \cap Used(h) \subseteq HeldBy(pcs[t], fs[t]),
         \A w \in Threads \ {t} : pcs[w] \in Awaited => fs[w].arena # a,
         NEW pcs1, NEW fs1,
         \A w \in Threads \ {t} : pcs1[w] = pcs[w] /\ fs1[w] = fs[w],
         ThreadOK(s, pcs1[t], fs1[t])
  PROVE  \A w \in Threads : ThreadOK(s, pcs1[w], fs1[w])
<1> SUFFICES ASSUME NEW w \in Threads, w # t  PROVE ThreadOK(s, pcs[w], fs[w])
  OBVIOUS
<1>1. PICK H : H = HeldByAll(pcs, fs)
  OBVIOUS
<1>2. H[w] = HeldBy(pcs[w], fs[w]) /\ H[t] = HeldBy(pcs[t], fs[t])
  BY <1>1 DEF HeldByAll
<1>3. H[w] \subseteq Used(h) \ S
  BY <1>1, <1>2 DEF Owned
<1>4. PICK p, f : p = pcs[w] /\ f = fs[w]
  OBVIOUS
<1>5. ThreadOK(s, p, f)
  BY <1>2, <1>3, <1>4, ThreadKept
<1> QED BY <1>4, <1>5

(* The owners, when call t changes the heap.                                *)
LEMMA OwnedHeap ==
  ASSUME NEW h, NEW u, NEW H, Owned(h, u, H), NEW t \in Threads,
         NEW s, NEW S, NEW a, Kept(h, s, S, a), S \cap Used(h) \subseteq H[t],
         NEW G, \A w \in Threads \ {t} : G[w] = H[w],
         Used(s) = (Used(h) \ H[t]) \cup G[t], G[t] \cap (Used(h) \ H[t]) = {}
  PROVE  Owned(s, u, G)
<1>1. DOMAIN u \subseteq Used(h) \ H[t]
  BY DEF Owned
<1>2. \A b \in DOMAIN u : b \in Blocks(s) /\ u[b] <= s.blk[b].size
  <2> SUFFICES ASSUME NEW b \in DOMAIN u  PROVE b \in Blocks(s) /\ u[b] <= s.blk[b].size
    OBVIOUS
  <2>1. b \in Used(h) \ S /\ u[b] <= h.blk[b].size
    BY <1>1 DEF Owned
  <2>2. b \in Used(s) /\ s.blk[b].size = h.blk[b].size
    BY <2>1 DEF Kept
  <2> QED BY <2>1, <2>2 DEF Used
<1>3. \A w \in Threads \ {t} : G[w] \subseteq Used(h) \ H[t]
  BY DEF Owned
<1>4. \A w \in Threads : G[w] \cap DOMAIN u = {}
  BY <1>1 DEF Owned
<1>5. \A w, v \in Threads : w # v => G[w] \cap G[v] = {}
  BY <1>3 DEF Owned
<1>6. Used(s) = DOMAIN u \cup (UNION {G[w] : w \in Threads})
  <2>1. ASSUME NEW b \in Used(s)  PROVE b \in DOMAIN u \cup (UNION {G[w] : w \in Threads})
    <3>1. CASE b \in G[t]
      BY <3>1
    <3>2. CASE b \notin G[t]
      <4>1. b \in Used(h) \ H[t]
        BY <3>2
      <4>2. b \in DOMAIN u \/ \E w \in Threads : b \in H[w]
        BY <4>1 DEF Owned
      <4>3. b \in DOMAIN u \/ \E w \in Threads \ {t} : b \in G[w]
        BY <4>1, <4>2
      <4> QED BY <4>3
    <3> QED BY <3>1, <3>2
  <2>2. DOMAIN u \subseteq Used(s)
    BY <1>1
  <2>3. \A w \in Threads : G[w] \subseteq Used(s)
    BY <1>3
  <2> QED BY <2>1, <2>2, <2>3
<1> QED BY <1>2, <1>4, <1>5, <1>6 DEF Owned

(* The owners, when a block passes between the program and call t.          *)
LEMMA OwnedUser ==
  ASSUME NEW h, NEW u, NEW H, Owned(h, u, H), NEW t \in Threads,
         NEW v, NEW G, \A w \in Threads \ {t} : G[w] = H[w],
         DOMAIN v \cup G[t] = DOMAIN u \cup H[t], DOMAIN v \cap G[t] = {},
         \A b \in DOMAIN v : v[b] <= h.blk[b].size
  PROVE  Owned(h, v, G)
<1>1. \A b \in DOMAIN v : b \in Used(h)
  BY DEF Owned
<1>2. \A w \in Threads \ {t} : G[w] \cap (DOMAIN u \cup H[t]) = {}
  BY DEF Owned
<1>3. \A w \in Threads : G[w] \cap DOMAIN v = {}
  BY <1>2
<1>4. \A w, x \in Threads : w # x => G[w] \cap G[x] = {}
  BY <1>2 DEF Owned
<1>5. Used(h) = DOMAIN v \cup (UNION {G[w] : w \in Threads})
  <2>1. ASSUME NEW b \in Used(h)  PROVE b \in DOMAIN v \cup (UNION {G[w] : w \in Threads})
    <3>1. b \in DOMAIN u \/ \E w \in Threads : b \in H[w]
      BY DEF Owned
    <3>2. b \in DOMAIN u \cup H[t] \/ \E w \in Threads \ {t} : b \in G[w]
      BY <3>1
    <3>3. b \in DOMAIN v \/ \E w \in Threads : b \in G[w]
      BY <3>2
    <3> QED BY <3>3
  <2>2. \A w \in Threads : G[w] \subseteq Used(h)
    <3>1. \A w \in Threads : H[w] \subseteq Used(h)
      BY DEF Owned
    <3>2. DOMAIN u \subseteq Used(h)
      BY DEF Owned
    <3> QED BY <3>1, <3>2
  <2>3. DOMAIN v \subseteq Used(h)
    BY <1>1
  <2> QED BY <2>1, <2>2, <2>3
<1> QED BY <1>1, <1>3, <1>4, <1>5 DEF Owned, Used

(* The bytes, when no call gets any or gives any to its arena.              *)
LEMMA TiledSame ==
  ASSUME NEW h, NEW top, NEW pcs, NEW fs, Tiled(h, top, pcs, fs), NEW s, Covered(s) = Covered(h),
         NEW pcs1, NEW fs1, Waiting(pcs1) = Waiting(pcs),
         \A t \in Waiting(pcs) : Got(fs1[t]) = Got(fs[t])
  PROVE  Tiled(s, top, pcs1, fs1)
<1>1. {Got(fs1[t]) : t \in Waiting(pcs1)} = {Got(fs[t]) : t \in Waiting(pcs)}
  OBVIOUS
<1> QED BY <1>1 DEF Tiled
-----------------------------------------------------------------------------
(* What the invariant says of a state.                                      *)

(* The locks.                                                               *)
LEMMA LocksFromInv ==
  ASSUME IInv
  PROVE  LocksHeldInOrder
<1>1. \A t \in Threads : frame[t].arena \in Arenas
  BY DEF IInv, TypeOK, Frames
<1> QED BY <1>1 DEF IInv, LockInv, LocksHeldInOrder, WithSbrk

(* The owners.                                                              *)
LEMMA OwnersFromInv ==
  ASSUME IInv
  PROVE  AllocatedBlocksHaveOneOwner
<1>1. PICK H : H = HeldByAll(pc, frame)
  OBVIOUS
<1>2. \A t \in Threads : H[t] = Held(t)
  BY <1>1 DEF HeldByAll, HeldBy, HoldsOld, HoldsNew, Held
<1>3. Owned(heap, user, H)
  BY <1>1 DEF IInv
<1>4. {H[t] : t \in Threads} = {Held(t) : t \in Threads}
  BY <1>2
<1>5. \A b \in DOMAIN user : b \in Blocks(heap) /\ heap.blk[b].size >= user[b]
  <2> SUFFICES ASSUME NEW b \in DOMAIN user
               PROVE  b \in Blocks(heap) /\ heap.blk[b].size >= user[b]
    OBVIOUS
  <2>1. b \in Blocks(heap) /\ user[b] <= heap.blk[b].size
    BY <1>3 DEF Owned
  <2>2. user[b] \in Nat /\ heap.blk[b].size \in Nat
    BY <2>1 DEF IInv, TypeOK, HeapOK, HeapType, Block
  <2> QED BY <2>1, <2>2
<1> QED BY <1>2, <1>3, <1>4, <1>5 DEF Owned, Used, AllocatedBlocksHaveOneOwner

(* The bytes.                                                               *)
LEMMA BytesFromInv ==
  ASSUME IInv
  PROVE  BlocksTileHeap
<1>1. HeapOK(heap) /\ Tiled(heap, brk, pc, frame)
  BY DEF IInv
<1>2. ALIGN \in Nat \ {0} /\ HDR \in Nat \ {0}
  BY AlignAssumption, SizesAssumption
<1>3. Blocks(heap) \subseteq Nat /\ \A b \in Blocks(heap) : heap.blk[b].size \in Nat
  BY <1>1 DEF HeapOK, HeapType, Block
<1>4. \A b \in Blocks(heap) :
          b % ALIGN = 0 /\ heap.blk[b].size % ALIGN = 0 /\ heap.blk[b].size >= ALIGN
  BY <1>1, <1>2, <1>3 DEF HeapOK, BlockShape
<1>5. \A b, c \in Blocks(heap) : b # c => Extent(b) \cap Extent(c) = {}
  <2> SUFFICES ASSUME NEW b \in Blocks(heap), NEW c \in Blocks(heap), b < c
               PROVE  Extent(b) \cap Extent(c) = {}
    BY <1>3
  <2>1. EndOf(heap, b) <= c
    BY <1>1 DEF HeapOK, Apart
  <2>2. EndOf(heap, b) \in Nat /\ EndOf(heap, c) \in Nat
    BY <1>2, <1>3 DEF EndOf
  <2> QED BY <2>1, <2>2, <1>3 DEF Extent
<1>6. {Extent(b) : b \in Blocks(heap)} = {b .. EndOf(heap, b) - 1 : b \in Blocks(heap)}
  BY DEF Extent
<1>7. {u \in Threads : Pending(u)} = Waiting(pc)
  BY DEF Pending, Waiting, Awaited
<1>8. {PendingExtent(t) : t \in {u \in Threads : Pending(u)}} = {Got(frame[t]) : t \in Waiting(pc)}
  BY <1>7 DEF PendingExtent, Got
<1> QED BY <1>1, <1>4, <1>5, <1>6, <1>8 DEF BlocksTileHeap, Tiled, Covered

(* The lists.                                                               *)
LEMMA ListsFromInv ==
  ASSUME IInv
  PROVE  ListsInOrderAndCoalesced
<1>1. HeapOK(heap) /\ CoalescedBut(heap, {})
  BY DEF IInv
<1>2. /\ Blocks(heap) \subseteq Nat \ {0}
      /\ \A b \in Blocks(heap) : heap.blk[b].next \in Nat /\ heap.blk[b].prev \in Nat
      /\ \A a \in Arenas : heap.head[a] \in Nat /\ heap.tail[a] \in Nat
  BY <1>1 DEF HeapOK, HeapType, Block
<1>3. ASSUME NEW a \in Arenas  PROVE IsLeast(heap.head[a], BlocksOf(a))
  BY <1>1, <1>2 DEF HeapOK, HeadOK, IsLeast, BlocksOf
<1>4. ASSUME NEW a \in Arenas  PROVE IsGreatest(heap.tail[a], BlocksOf(a))
  BY <1>1, <1>2 DEF HeapOK, TailOK, IsGreatest, BlocksOf
<1>5. ASSUME NEW a \in Arenas, NEW b \in BlocksOf(a)
      PROVE  IsLeast(heap.blk[b].next, {c \in BlocksOf(a) : c > b})
  <2>1. b \in Blocks(heap) /\ heap.blk[b].arena = a
    BY DEF BlocksOf
  <2> QED BY <1>1, <1>2, <2>1 DEF HeapOK, NextOK, IsLeast, BlocksOf
<1>6. ASSUME NEW a \in Arenas, NEW b \in BlocksOf(a)
      PROVE  IsGreatest(heap.blk[b].prev, {c \in BlocksOf(a) : c < b})
  <2>1. b \in Blocks(heap) /\ heap.blk[b].arena = a
    BY DEF BlocksOf
  <2> QED BY <1>1, <1>2, <2>1 DEF HeapOK, PrevOK, IsGreatest, BlocksOf
<1>7. \A b \in Blocks(heap) : CoalescedAt(heap, b)
  BY <1>1 DEF CoalescedBut
<1> QED BY <1>3, <1>4, <1>5, <1>6, <1>7 DEF ListsInOrderAndCoalesced, CoalescedAt

(* The initial state.                                                       *)
LEMMA InitInv ==
  ASSUME Init
  PROVE  IInv
<1>1. /\ NUM_ARENAS \in Nat \ {0} /\ 0 \in Arenas /\ HeapStart \in Nat \ {0}
      /\ HeapEnd \in Int /\ HeapStart <= HeapEnd
  BY ArenasAssumption, HeapAssumption, SizesAssumption DEF Arenas
<1>2. DOMAIN heap.blk = {} /\ Blocks(heap) = {} /\ Used(heap) = {} /\ Covered(heap) = {}
  BY DEF Init, Blocks, Used, Covered
<1>3. /\ heap.head \in [Arenas -> Nat] /\ heap.tail \in [Arenas -> Nat]
      /\ \A a \in Arenas : heap.head[a] = NULL /\ heap.tail[a] = NULL
      /\ heap = [blk |-> heap.blk, head |-> heap.head, tail |-> heap.tail]
      /\ heap.blk \in [Blocks(heap) -> Block]
  BY <1>2 DEF Init, NULL
<1>4. HeapOK(heap)
  BY <1>2, <1>3 DEF HeapOK, HeapType, BlockShape, Apart, NextOK, PrevOK, HeadOK, TailOK
<1>5. CoalescedBut(heap, {})
  BY <1>2 DEF CoalescedBut
<1>6. NoFrame \in Frames
  BY <1>1 DEF NoFrame, Frames, NULL
<1>7. TypeOK
  <2>1. {t \in Threads : thread_arena_id[t] # -1} = {}
    BY DEF Init
  <2>2. next_arena_id = Cardinality({t \in Threads : thread_arena_id[t] # -1})
    BY <2>1, FS_EmptySet DEF Init
  <2>3. brk \in HeapStart .. HeapEnd /\ brk % ALIGN = 0
    BY <1>1, HeapAssumption DEF Init
  <2> QED BY <2>2, <2>3, <1>6 DEF Init, TypeOK, Positions
<1>8. LockInv
  BY <1>1, ThreadsAssumption DEF Init, LockInv, NoFrame, NONE, WithSbrk
<1>9. ASSUME NEW t \in Threads
      PROVE  ThreadOK(heap, pc[t], frame[t]) /\ HeldBy(pc[t], frame[t]) = {}
  <2>1. pc[t] = "idle" /\ frame[t] = NoFrame
    BY DEF Init
  <2>2. CallOK("idle", NoFrame) /\ SizeOK(NoFrame)
    BY DEF CallOK, SizeOK, NoFrame, Allocating, Awaited
  <2>3. ~HoldsOld("idle", NoFrame) /\ ~HoldsNew("idle", NoFrame)
    BY DEF HoldsOld, HoldsNew, NoFrame
  <2>4. HeldOK(heap, "idle", NoFrame) /\ HeldBy("idle", NoFrame) = {}
    BY <2>3 DEF HeldOK, HeldBy
  <2>5. AwaitedOK(heap, "idle", NoFrame)
    BY DEF AwaitedOK, Awaited
  <2> QED BY <2>1, <2>2, <2>4, <2>5 DEF ThreadOK
<1>10. Tiled(heap, brk, pc, frame)
  <2>1. Waiting(pc) = {}
    BY DEF Init, Waiting, Awaited
  <2>2. HeapStart .. brk - 1 = {}
    BY <1>1 DEF Init
  <2> QED BY <2>1, <2>2, <1>2 DEF Tiled
<1>11. Owned(heap, user, HeldByAll(pc, frame))
  <2>1. PICK H : H = HeldByAll(pc, frame)
    OBVIOUS
  <2>2. \A t \in Threads : H[t] = {}
    BY <2>1, <1>9 DEF HeldByAll
  <2>3. DOMAIN user = {}
    BY DEF Init
  <2>4. Owned(heap, user, H)
    BY <2>2, <2>3, <1>2 DEF Owned
  <2> QED BY <2>1, <2>4
<1> QED BY <1>4, <1>5, <1>7, <1>8, <1>9, <1>10, <1>11 DEF IInv
-----------------------------------------------------------------------------
(* The shapes of the steps.                                                 *)

(* Call t goes from its position to p with the frame f.                     *)
Moves(t, p, f) ==
    /\ p \in Positions /\ f \in Frames
    /\ pc' = [pc EXCEPT ![t] = p]
    /\ frame' = [frame EXCEPT ![t] = f]

(* What Moves says of the other calls.                                      *)
LEMMA MovesAlone ==
  ASSUME IInv, NEW t \in Threads, NEW p, NEW f, Moves(t, p, f)
  PROVE  /\ pc'[t] = p /\ frame'[t] = f
         /\ \A w \in Threads \ {t} : pc'[w] = pc[w] /\ frame'[w] = frame[w]
         /\ pc' \in [Threads -> Positions] /\ frame' \in [Threads -> Frames]
BY DEF IInv, TypeOK, Moves

(* The types, when the counter of arenas stays.                             *)
LEMMA TypeSame ==
  ASSUME IInv, NEW t \in Threads, NEW p, NEW f, Moves(t, p, f), UNCHANGED <<brk, ids>>,
         arena_lock' \in [Arenas -> Threads \cup {NONE}], sbrk_mutex' \in Threads \cup {NONE},
         contention_detected' \in {0, 1}, user' \in [DOMAIN user' -> Nat]
  PROVE  TypeOK'
BY MovesAlone DEF IInv, TypeOK, ids

(* The locks, when t takes none and leaves none.                            *)
LEMMA LocksSame ==
  ASSUME IInv, NEW t \in Threads, NEW p, NEW f, Moves(t, p, f), f.arena = frame[t].arena,
         UNCHANGED locks, (p \in {"idle", "lock"}) <=> (pc[t] \in {"idle", "lock"}),
         (p \in WithSbrk) <=> (pc[t] \in WithSbrk)
  PROVE  LockInv'
BY MovesAlone DEF IInv, LockInv, locks

(* A call inside an arena is alone there.                                   *)
LEMMA AloneInArena ==
  ASSUME IInv, NEW t \in Threads, pc[t] \notin {"idle", "lock"}
  PROVE  /\ frame[t].arena \in Arenas /\ arena_lock[frame[t].arena] = t
         /\ \A w \in Threads \ {t} : pc[w] \in Awaited => frame[w].arena # frame[t].arena
<1>1. frame[t].arena \in Arenas /\ arena_lock[frame[t].arena] = t
  BY DEF IInv, TypeOK, Frames, LockInv
<1>2. ASSUME NEW w \in Threads \ {t}, pc[w] \in Awaited  PROVE frame[w].arena # frame[t].arena
  <2>1. arena_lock[frame[w].arena] = w
    BY <1>2 DEF IInv, LockInv, Awaited
  <2> QED BY <1>1, <2>1
<1> QED BY <1>1, <1>2

(* From the heap h to s a call changes what it holds from X to Y and, of    *)
(* the blocks in use, touches only its own at S.                            *)
Exchanges(h, s, S, X, Y) ==
    /\ S \cap Used(h) \subseteq X
    /\ Used(s) = (Used(h) \ X) \cup Y
    /\ Y \cap (Used(h) \ X) = {}

(* A step that changes the heap at S in arena a, or not at all.             *)
LEMMA StepInv ==
  ASSUME IInv, TypeOK', LockInv', NEW t \in Threads, NEW p, NEW f, Moves(t, p, f),
         UNCHANGED <<brk, user>>,
         NEW s, NEW S, NEW a, heap' = s, HeapStep(heap, s, S, a), CoalescedBut(s, {}),
         \A w \in Threads \ {t} : pc[w] \in Awaited => frame[w].arena # a,
         Exchanges(heap, s, S, HeldBy(pc[t], frame[t]), HeldBy(p, f)), ThreadOK(s, p, f),
         (p \in Awaited) <=> (pc[t] \in Awaited), p \in Awaited => Got(f) = Got(frame[t])
  PROVE  IInv'
<1> USE DEF Exchanges
<1>1. /\ pc'[t] = p /\ frame'[t] = f
      /\ \A w \in Threads \ {t} : pc'[w] = pc[w] /\ frame'[w] = frame[w]
  BY MovesAlone
<1>2. PICK h, pcs, fs, u, pcs1, fs1 :
          /\ h = heap /\ pcs = pc /\ fs = frame /\ u = user /\ pcs1 = pc' /\ fs1 = frame'
  OBVIOUS
<1>3. HeapOK(s) /\ Covered(s) = Covered(h) /\ Kept(h, s, S, a)
  BY <1>2 DEF HeapStep
<1>4. /\ \A w \in Threads : ThreadOK(h, pcs[w], fs[w])
      /\ Owned(h, u, HeldByAll(pcs, fs)) /\ Tiled(h, brk, pcs, fs)
  BY <1>2 DEF IInv
<1>5. \A w \in Threads : ThreadOK(s, pcs1[w], fs1[w])
  <2>1. ThreadOK(s, pcs1[t], fs1[t])
    BY <1>1, <1>2
  <2> QED BY <1>1, <1>2, <1>3, <1>4, <2>1, FramesStep
<1>6. Owned(s, u, HeldByAll(pcs1, fs1))
  <2>1. PICK H, G : H = HeldByAll(pcs, fs) /\ G = HeldByAll(pcs1, fs1)
    OBVIOUS
  <2>2. /\ H[t] = HeldBy(pc[t], frame[t]) /\ G[t] = HeldBy(p, f)
        /\ \A w \in Threads \ {t} : G[w] = H[w]
    BY <2>1, <1>1, <1>2 DEF HeldByAll
  <2>3. Owned(s, u, G)
    BY <2>1, <2>2, <1>2, <1>3, <1>4, OwnedHeap
  <2> QED BY <2>1, <2>3
<1>7. Tiled(s, brk, pcs1, fs1)
  <2>1. Waiting(pcs1) = Waiting(pcs)
    BY <1>1, <1>2 DEF Waiting
  <2>2. \A w \in Waiting(pcs) : Got(fs1[w]) = Got(fs[w])
    BY <1>1, <1>2 DEF Waiting
  <2>3. PICK top : top = brk
    OBVIOUS
  <2>4. Tiled(s, top, pcs1, fs1)
    BY <2>1, <2>2, <2>3, <1>3, <1>4, TiledSame
  <2> QED BY <2>3, <2>4
<1> QED BY <1>2, <1>3, <1>5, <1>6, <1>7 DEF IInv

(* A step that leaves the heap, and what the call holds.                    *)
LEMMA QuietStep ==
  ASSUME IInv, TypeOK', LockInv', NEW t \in Threads, NEW p, NEW f, Moves(t, p, f),
         UNCHANGED <<heap, brk, user>>, ThreadOK(heap, p, f),
         (p \in Awaited) <=> (pc[t] \in Awaited), p \in Awaited => Got(f) = Got(frame[t]),
         HeldBy(p, f) = HeldBy(pc[t], frame[t])
  PROVE  IInv'
<1>1. PICK s : s = heap
  OBVIOUS
<1>2. HeapOK(s) /\ CoalescedBut(s, {})
  BY <1>1 DEF IInv
<1>3. HeapStep(s, s, {}, -1)
  BY <1>2, NoHeapStep
<1>4. \A w \in Threads : frame[w].arena # -1
  <2>1. \A w \in Threads : frame[w].arena \in Arenas
    BY DEF IInv, TypeOK, Frames
  <2> QED BY <2>1, ArenasAssumption DEF Arenas
<1>5. HeldBy(p, f) \subseteq Used(heap)
  <2>1. PICK H : H = HeldByAll(pc, frame)
    OBVIOUS
  <2>2. H[t] \subseteq Used(heap) /\ H[t] = HeldBy(pc[t], frame[t])
    BY <2>1, HeldIsUsed DEF IInv, HeldByAll
  <2> QED BY <2>2
<1>6. heap' = s /\ HeapStep(heap, s, {}, -1)
  BY <1>1, <1>3
<1>7. Exchanges(heap, s, {}, HeldBy(pc[t], frame[t]), HeldBy(p, f))
  BY <1>1, <1>5 DEF Exchanges
<1>8. ThreadOK(s, p, f) /\ UNCHANGED <<brk, user>>
  BY <1>1
<1> QED BY <1>2, <1>4, <1>6, <1>7, <1>8, StepInv

(* A step by which a block passes between the program and the call.         *)
LEMMA PassStep ==
  ASSUME IInv, TypeOK', LockInv', NEW t \in Threads, NEW p, NEW f, Moves(t, p, f),
         UNCHANGED <<heap, brk>>, ThreadOK(heap, p, f), p \notin Awaited, pc[t] \notin Awaited,
         DOMAIN user' \cup HeldBy(p, f) = DOMAIN user \cup HeldBy(pc[t], frame[t]),
         DOMAIN user' \cap HeldBy(p, f) = {},
         \A b \in DOMAIN user' : user'[b] <= heap.blk[b].size
  PROVE  IInv'
<1>1. /\ pc'[t] = p /\ frame'[t] = f
      /\ \A w \in Threads \ {t} : pc'[w] = pc[w] /\ frame'[w] = frame[w]
  BY MovesAlone
<1>2. PICK h, pcs, fs, u, v, pcs1, fs1 :
          /\ h = heap /\ pcs = pc /\ fs = frame /\ u = user /\ pcs1 = pc' /\ fs1 = frame'
          /\ v = user'
  OBVIOUS
<1>3. HeapOK(h) /\ CoalescedBut(h, {})
  BY <1>2 DEF IInv
<1>4. /\ \A w \in Threads : ThreadOK(h, pcs[w], fs[w])
      /\ Owned(h, u, HeldByAll(pcs, fs)) /\ Tiled(h, brk, pcs, fs)
  BY <1>2 DEF IInv
<1>5. \A w \in Threads : ThreadOK(h, pcs1[w], fs1[w])
  BY <1>1, <1>2, <1>4
<1>6. Owned(h, v, HeldByAll(pcs1, fs1))
  <2>1. PICK H, G : H = HeldByAll(pcs, fs) /\ G = HeldByAll(pcs1, fs1)
    OBVIOUS
  <2>2. /\ H[t] = HeldBy(pc[t], frame[t]) /\ G[t] = HeldBy(p, f)
        /\ \A w \in Threads \ {t} : G[w] = H[w]
    BY <2>1, <1>1, <1>2 DEF HeldByAll
  <2>3. Owned(h, v, G)
    BY <2>1, <2>2, <1>2, <1>4, OwnedUser
  <2> QED BY <2>1, <2>3
<1>7. Tiled(h, brk, pcs1, fs1)
  <2>1. Waiting(pcs1) = Waiting(pcs)
    BY <1>1, <1>2 DEF Waiting
  <2>2. \A w \in Waiting(pcs) : Got(fs1[w]) = Got(fs[w])
    BY <1>1, <1>2 DEF Waiting
  <2>3. PICK top : top = brk
    OBVIOUS
  <2>4. Tiled(h, top, pcs1, fs1)
    BY <2>1, <2>2, <2>3, <1>3, <1>4, TiledSame
  <2> QED BY <2>3, <2>4
<1> QED BY <1>2, <1>3, <1>5, <1>6, <1>7 DEF IInv
-----------------------------------------------------------------------------
(* The steps, one by one.                                                   *)

(* A call that has got nothing yet goes on.                                 *)
LEMMA GoesOn ==
  ASSUME NEW h, NEW q, NEW f, ThreadOK(h, q, f), f.new = NULL,
         q \notin {"idle", "unlock"}, NEW p, p \notin {"idle", "unlock"} \cup Awaited,
         p = "free" => f.fn = "free", p = "realloc" => f.fn = "realloc",
         p \in Allocating => f.fn \in {"malloc", "realloc"}
  PROVE  ThreadOK(h, p, f) /\ HeldBy(p, f) = HeldBy(q, f)
<1>1. CallOK(q, f) /\ SizeOK(f) /\ HeldOK(h, q, f)
  BY DEF ThreadOK
<1>2. CallOK(p, f)
  BY <1>1 DEF CallOK
<1>3. (HoldsOld(p, f) <=> HoldsOld(q, f)) /\ ~HoldsNew(p, f) /\ ~HoldsNew(q, f)
  BY DEF HoldsOld, HoldsNew
<1>4. HeldOK(h, p, f) /\ HeldBy(p, f) = HeldBy(q, f)
  BY <1>1, <1>3 DEF HeldOK, HeldBy
<1>5. AwaitedOK(h, p, f)
  BY DEF AwaitedOK
<1> QED BY <1>1, <1>2, <1>4, <1>5 DEF ThreadOK

(* The frame stays.                                                         *)
LEMMA GotoMoves ==
  ASSUME IInv, NEW t \in Threads, NEW p \in Positions, Goto(t, p), UNCHANGED frame
  PROVE  Moves(t, p, frame[t])
<1>1. frame \in [Threads -> Frames]
  BY DEF IInv, TypeOK
<1> QED BY <1>1 DEF Moves, Goto

(* Such a call, the frame being the same.                                   *)
LEMMA QuietGoto ==
  ASSUME IInv, TypeOK', LockInv', NEW t \in Threads, NEW p \in Positions, Goto(t, p),
         UNCHANGED <<heap, brk, user, frame>>,
         frame[t].new = NULL, pc[t] \notin {"idle", "unlock"} \cup Awaited,
         p \notin {"idle", "unlock"} \cup Awaited,
         p = "free" => frame[t].fn = "free", p = "realloc" => frame[t].fn = "realloc",
         p \in Allocating => frame[t].fn \in {"malloc", "realloc"}
  PROVE  IInv'
<1>1. PICK h, q, f : h = heap /\ q = pc[t] /\ f = frame[t]
  OBVIOUS
<1>2. ThreadOK(h, q, f)
  BY <1>1 DEF IInv
<1>3. ThreadOK(h, p, f) /\ HeldBy(p, f) = HeldBy(q, f)
  BY <1>1, <1>2, GoesOn
<1>4. Moves(t, p, f)
  BY <1>1, GotoMoves
<1> QED BY <1>1, <1>3, <1>4, QuietStep

(* What the position says of the call.                                      *)
LEMMA AtPosition ==
  ASSUME IInv, NEW t \in Threads
  PROVE  /\ ThreadOK(heap, pc[t], frame[t]) /\ CallOK(pc[t], frame[t]) /\ SizeOK(frame[t])
         /\ HeldOK(heap, pc[t], frame[t]) /\ AwaitedOK(heap, pc[t], frame[t])
         /\ frame[t] \in Frames /\ pc[t] \in Positions
BY DEF IInv, ThreadOK, TypeOK

(* lock_arena.                                                              *)
LEMMA LockArenaInv ==
  ASSUME IInv, NEW t \in Threads, LockArena(t)
  PROVE  IInv'
<1>1. PICK p, f : p = frame[t].fn /\ f = frame[t]
  OBVIOUS
<1>2. /\ pc[t] = "lock" /\ arena_lock[f.arena] = NONE /\ Goto(t, p)
      /\ arena_lock' = [arena_lock EXCEPT ![f.arena] = t]
      /\ UNCHANGED <<heap, brk, sbrk_mutex, ids, contention_detected, user, calls, frame>>
  BY <1>1 DEF LockArena
<1>3. p \in {"malloc", "free", "realloc"} /\ f.new = NULL
  BY <1>1, <1>2, AtPosition DEF CallOK, Awaited
<1>4. p \in Positions /\ p \notin {"idle", "lock"} /\ p \notin WithSbrk /\ p \notin Awaited
  BY <1>3 DEF Positions, WithSbrk, Awaited
<1>5. Moves(t, p, f)
  BY <1>1, <1>2, <1>4, GotoMoves
<1>6. f.arena \in Arenas /\ arena_lock \in [Arenas -> Threads \cup {NONE}]
  BY <1>1 DEF IInv, TypeOK, Frames
<1>7. TypeOK'
  BY <1>2, <1>5, <1>6, TypeSame DEF IInv, TypeOK
<1>8. LockInv'
  <2>1. /\ pc'[t] = p /\ frame' = frame /\ sbrk_mutex' = sbrk_mutex
        /\ \A w \in Threads \ {t} : pc'[w] = pc[w]
    BY <1>2, <1>5, MovesAlone
  <2>2. arena_lock'[f.arena] = t /\ \A a \in Arenas \ {f.arena} : arena_lock'[a] = arena_lock[a]
    BY <1>2, <1>6
  <2>3. \A w \in Threads : frame[w].arena \in Arenas
    BY DEF IInv, TypeOK, Frames
  <2>4. LockInv
    BY DEF IInv
  <2>5. ASSUME NEW w \in Threads
        PROVE  (pc'[w] \notin {"idle", "lock"}) <=> (arena_lock'[frame[w].arena] = w)
    <3>1. CASE w = t
      BY <3>1, <2>1, <2>2, <1>1, <1>4
    <3>2. CASE w # t
      <4>1. CASE frame[w].arena = f.arena
        BY <3>2, <4>1, <2>1, <2>2, <2>4, <1>2, ThreadsAssumption DEF LockInv, NONE
      <4>2. CASE frame[w].arena # f.arena
        BY <3>2, <4>2, <2>1, <2>2, <2>3, <2>4 DEF LockInv
      <4> QED BY <4>1, <4>2
    <3> QED BY <3>1, <3>2
  <2>6. ASSUME NEW w \in Threads, NEW a \in Arenas, arena_lock'[a] = w
        PROVE  frame[w].arena = a
    BY <2>6, <2>2, <2>4, <1>1 DEF LockInv
  <2>7. \A w \in Threads : (sbrk_mutex' = w) <=> (pc'[w] \in WithSbrk)
    <3>1. pc[t] \notin WithSbrk
      BY <1>2 DEF WithSbrk
    <3> QED BY <3>1, <2>1, <2>4, <1>4 DEF LockInv
  <2> QED BY <2>1, <2>5, <2>6, <2>7 DEF LockInv
<1>9. pc[t] \notin {"idle", "unlock"} \cup Awaited
  BY <1>2 DEF Awaited
<1> QED BY <1>1, <1>2, <1>3, <1>4, <1>7, <1>8, <1>9, QuietGoto DEF Allocating
(* The locks, when t takes the sbrk mutex or gives it back.                 *)
LEMMA LocksSbrk ==
  ASSUME IInv, NEW t \in Threads, NEW p, NEW f, Moves(t, p, f), f.arena = frame[t].arena,
         UNCHANGED arena_lock, p \notin {"idle", "lock"}, pc[t] \notin {"idle", "lock"},
         sbrk_mutex \in {t, NONE}, sbrk_mutex' = IF p \in WithSbrk THEN t ELSE NONE
  PROVE  LockInv'
<1>1. /\ pc'[t] = p /\ frame'[t] = f
      /\ \A w \in Threads \ {t} : pc'[w] = pc[w] /\ frame'[w] = frame[w]
  BY MovesAlone
<1>2. LockInv
  BY DEF IInv
<1>3. \A w \in Threads : (pc'[w] \notin {"idle", "lock"}) <=> (arena_lock'[frame'[w].arena] = w)
  BY <1>1, <1>2 DEF LockInv
<1>4. \A w \in Threads, a \in Arenas : arena_lock'[a] = w => frame'[w].arena = a
  BY <1>1, <1>2 DEF LockInv
<1>5. \A w \in Threads : (sbrk_mutex' = w) <=> (pc'[w] \in WithSbrk)
  BY <1>1, <1>2, ThreadsAssumption DEF LockInv, NONE
<1> QED BY <1>3, <1>4, <1>5 DEF LockInv

(* The check of contention_detected.                                        *)
LEMMA ExtCheckInv ==
  ASSUME IInv, NEW t \in Threads, ExtCheck(t)
  PROVE  IInv'
<1>1. PICK p : p = IF contention_detected = 1 THEN "ext_lock" ELSE "ext_try"
  OBVIOUS
<1>2. /\ pc[t] = "ext_check" /\ Goto(t, p)
      /\ UNCHANGED <<heap, brk, locks, ids, contention_detected, user, calls, frame>>
  BY <1>1 DEF ExtCheck
<1>3. p \in {"ext_lock", "ext_try"} /\ p \in Positions
  BY <1>1 DEF Positions
<1>4. frame[t].new = NULL /\ frame[t].fn \in {"malloc", "realloc"}
  BY <1>2, AtPosition DEF CallOK, Awaited, Allocating
<1>5. Moves(t, p, frame[t])
  BY <1>2, <1>3, GotoMoves
<1>6. TypeOK'
  BY <1>2, <1>5, TypeSame DEF IInv, TypeOK, locks
<1>7. LockInv'
  BY <1>2, <1>3, <1>5, LocksSame DEF WithSbrk
<1>8. /\ pc[t] \notin {"idle", "unlock"} \cup Awaited /\ p \notin {"idle", "unlock"} \cup Awaited
  BY <1>2, <1>3 DEF Awaited
<1> QED BY <1>2, <1>3, <1>4, <1>6, <1>7, <1>8, QuietGoto

(* pthread_mutex_trylock.                                                   *)
LEMMA ExtTryInv ==
  ASSUME IInv, NEW t \in Threads, ExtTry(t)
  PROVE  IInv'
<1>1. /\ pc[t] = "ext_try"
      /\ UNCHANGED <<heap, brk, arena_lock, ids, user, calls, frame>>
  BY DEF ExtTry
<1>2. frame[t].new = NULL /\ frame[t].fn \in {"malloc", "realloc"}
  BY <1>1, AtPosition DEF CallOK, Awaited, Allocating
<1>3. pc[t] \notin {"idle", "unlock"} \cup Awaited /\ pc[t] \notin WithSbrk
  BY <1>1 DEF Awaited, WithSbrk
<1>4. CASE sbrk_mutex = NONE /\ sbrk_mutex' = t /\ Goto(t, "sbrk") /\ UNCHANGED contention_detected
  <2>1. "sbrk" \in Positions /\ "sbrk" \in WithSbrk /\ "sbrk" \notin {"idle", "unlock"} \cup Awaited
    BY DEF Positions, WithSbrk, Awaited
  <2>2. Moves(t, "sbrk", frame[t])
    BY <1>1, <1>4, <2>1, GotoMoves
  <2>3. TypeOK'
    BY <1>1, <1>4, <2>2, TypeSame DEF IInv, TypeOK
  <2>4. LockInv'
    BY <1>1, <1>4, <2>1, <2>2, LocksSbrk
  <2> QED BY <1>1, <1>2, <1>3, <1>4, <2>1, <2>3, <2>4, QuietGoto
<1>5. CASE sbrk_mutex # NONE /\ contention_detected' = 1 /\ Goto(t, "ext_lock") /\ UNCHANGED sbrk_mutex
  <2>1. /\ "ext_lock" \in Positions /\ "ext_lock" \notin WithSbrk
        /\ "ext_lock" \notin {"idle", "unlock"} \cup Awaited
    BY DEF Positions, WithSbrk, Awaited
  <2>2. Moves(t, "ext_lock", frame[t])
    BY <1>1, <1>5, <2>1, GotoMoves
  <2>3. TypeOK'
    BY <1>1, <1>5, <2>2, TypeSame DEF IInv, TypeOK
  <2>4. LockInv'
    BY <1>1, <1>3, <1>5, <2>1, <2>2, LocksSame DEF locks
  <2> QED BY <1>1, <1>2, <1>3, <1>5, <2>1, <2>3, <2>4, QuietGoto
<1> QED BY <1>4, <1>5 DEF ExtTry

(* pthread_mutex_lock.                                                      *)
LEMMA ExtLockInv ==
  ASSUME IInv, NEW t \in Threads, ExtLock(t)
  PROVE  IInv'
<1>1. /\ pc[t] = "ext_lock" /\ sbrk_mutex = NONE /\ sbrk_mutex' = t /\ Goto(t, "sbrk")
      /\ UNCHANGED <<heap, brk, arena_lock, ids, contention_detected, user, calls, frame>>
  BY DEF ExtLock
<1>2. frame[t].new = NULL /\ frame[t].fn \in {"malloc", "realloc"}
  BY <1>1, AtPosition DEF CallOK, Awaited, Allocating
<1>3. pc[t] \notin {"idle", "unlock"} \cup Awaited
  BY <1>1 DEF Awaited
<1>4. "sbrk" \in Positions /\ "sbrk" \in WithSbrk /\ "sbrk" \notin {"idle", "unlock"} \cup Awaited
  BY DEF Positions, WithSbrk, Awaited
<1>5. Moves(t, "sbrk", frame[t])
  BY <1>1, <1>4, GotoMoves
<1>6. TypeOK'
  BY <1>1, <1>5, TypeSame DEF IInv, TypeOK
<1>7. LockInv'
  BY <1>1, <1>4, <1>5, LocksSbrk
<1> QED BY <1>1, <1>2, <1>3, <1>4, <1>6, <1>7, QuietGoto

(* The mutex is given back, whether sbrk succeeded or not.                  *)
LEMMA SbrkUnlockInv ==
  ASSUME IInv, NEW t \in Threads, SbrkUnlock(t)
  PROVE  IInv'
<1>1. PICK p, q, f : /\ p = (IF pc[t] = "sbrk_append" THEN "append" ELSE "allocated")
                     /\ q = pc[t] /\ f = frame[t]
  OBVIOUS
<1>2. /\ q \in {"sbrk_append", "sbrk_failed"} /\ sbrk_mutex' = NONE /\ Goto(t, p)
      /\ UNCHANGED <<heap, brk, arena_lock, ids, contention_detected, user, calls, frame>>
  BY <1>1 DEF SbrkUnlock
<1>3. /\ p \in {"append", "allocated"} /\ p \in Positions /\ p \notin WithSbrk /\ q \in WithSbrk
      /\ (p \in Awaited) <=> (q \in Awaited)
      /\ q = "sbrk_append" => p = "append" 
      /\ q = "sbrk_failed" => p = "allocated"
  BY <1>1, <1>2 DEF Positions, WithSbrk, Awaited
<1>4. Moves(t, p, f)
  BY <1>1, <1>2, <1>3, GotoMoves
<1>5. sbrk_mutex = t
  BY <1>1, <1>3 DEF IInv, LockInv
<1>6. TypeOK'
  BY <1>2, <1>4, TypeSame DEF IInv, TypeOK
<1>7. LockInv'
  BY <1>1, <1>2, <1>3, <1>4, <1>5, LocksSbrk
<1>8. PICK h : h = heap
  OBVIOUS
<1>9. ThreadOK(h, q, f) /\ CallOK(q, f)
  BY <1>1, <1>8, AtPosition
<1>10. ThreadOK(h, p, f) /\ HeldBy(p, f) = HeldBy(q, f)
  <2>1. CASE q = "sbrk_failed"
    <3>1. f.new = NULL /\ f.fn \in {"malloc", "realloc"}
      BY <2>1, <1>9 DEF CallOK, Awaited, Allocating
    <3>2. p \notin {"idle", "unlock"} \cup Awaited
      BY <2>1, <1>3 DEF Awaited
    <3> QED BY <2>1, <3>1, <3>2, <1>3, <1>9, GoesOn
  <2>2. CASE q = "sbrk_append"
    <3>1. p = "append"
      BY <2>2, <1>3
    <3>2. CallOK(p, f) /\ SizeOK(f)
      BY <2>2, <3>1, <1>9 DEF CallOK, ThreadOK, Awaited, Allocating
    <3>3. (HoldsOld(p, f) <=> HoldsOld(q, f)) /\ ~HoldsNew(p, f) /\ ~HoldsNew(q, f)
      BY <2>2, <3>1 DEF HoldsOld, HoldsNew
    <3>4. HeldOK(h, p, f) /\ HeldBy(p, f) = HeldBy(q, f)
      BY <1>9, <3>3 DEF HeldOK, HeldBy, ThreadOK
    <3>5. AwaitedOK(h, p, f)
      BY <1>3, <1>9 DEF ThreadOK, AwaitedOK
    <3> QED BY <3>2, <3>4, <3>5 DEF ThreadOK
  <2> QED BY <2>1, <2>2, <1>2
<1> QED BY <1>1, <1>2, <1>3, <1>4, <1>6, <1>7, <1>8, <1>10, QuietStep
(* Blocks lie below the break.                                              *)
LEMMA BelowBreak ==
  ASSUME IInv
  PROVE  brk \in Nat /\ Covered(heap) \subseteq HeapStart .. brk - 1 /\ \A b \in Blocks(heap) : b < brk
<1>1. HDR \in Nat \ {0} /\ HeapStart \in Nat /\ HeapEnd \in Int
  BY SizesAssumption, HeapAssumption
<1>2. brk \in Nat
  BY <1>1 DEF IInv, TypeOK
<1>3. Covered(heap) \subseteq HeapStart .. brk - 1
  BY DEF IInv, Tiled
<1>4. ASSUME NEW b \in Blocks(heap)  PROVE b < brk
  <2>1. b \in Nat /\ heap.blk[b].size \in Nat
    BY DEF IInv, HeapOK, HeapType, Block
  <2>2. b \in b .. EndOf(heap, b) - 1
    BY <1>1, <2>1 DEF EndOf
  <2>3. b \in Covered(heap)
    BY <2>2 DEF Covered
  <2> QED BY <1>1, <1>2, <1>3, <2>1, <2>3
<1> QED BY <1>2, <1>3, <1>4

(* What a call holds is in use.                                             *)
LEMMA HoldsUsed ==
  ASSUME IInv, NEW t \in Threads
  PROVE  HeldBy(pc[t], frame[t]) \subseteq Used(heap)
<1>1. PICK H : H = HeldByAll(pc, frame)
  OBVIOUS
<1>2. H[t] \subseteq Used(heap) /\ H[t] = HeldBy(pc[t], frame[t])
  BY <1>1, HeldIsUsed DEF IInv, HeldByAll
<1> QED BY <1>2

(* arena_free.                                                              *)
LEMMA ArenaFreeInv ==
  ASSUME IInv, NEW t \in Threads, ArenaFree(t)
  PROVE  IInv'
<1>1. PICK h, s, f, b : h = heap /\ s = heap' /\ f = frame[t] /\ b = frame[t].old
  OBVIOUS
<1>2. /\ pc[t] = "free" /\ s = arena_free(h, b) /\ Goto(t, "unlock")
      /\ UNCHANGED <<brk, locks, ids, contention_detected, user, calls, frame>>
  BY <1>1 DEF ArenaFree
<1>3. f.fn = "free" /\ f.new = NULL /\ b # NULL /\ f.old = b
  BY <1>1, <1>2, AtPosition DEF CallOK
<1>4. HeldBy("free", f) = {b} /\ HeldBy("unlock", f) = {} /\ HoldsOld("free", f)
  BY <1>3 DEF HeldBy, HoldsOld, HoldsNew
<1>5. b \in Used(h) /\ h.blk[b].arena = f.arena
  <2>1. HeldBy("free", f) \subseteq Used(h)
    BY <1>1, <1>2, HoldsUsed
  <2>2. HeldOK(h, "free", f)
    BY <1>1, <1>2, AtPosition
  <2> QED BY <2>1, <2>2, <1>3, <1>4 DEF HeldOK
<1>6. HeapOK(h) /\ CoalescedBut(h, {})
  BY <1>1 DEF IInv
<1>7. /\ HeapStep(h, s, {b}, h.blk[b].arena) /\ CoalescedBut(s, {}) /\ Used(s) = Used(h) \ {b}
  BY <1>2, <1>5, <1>6, Frees
<1>8. "unlock" \in Positions /\ "unlock" \notin WithSbrk /\ "unlock" \notin Awaited
  BY DEF Positions, WithSbrk, Awaited
<1>9. pc[t] \notin {"idle", "lock"} /\ pc[t] \notin WithSbrk /\ pc[t] \notin Awaited
  BY <1>2 DEF WithSbrk, Awaited
<1>10. Moves(t, "unlock", f)
  BY <1>1, <1>2, <1>8, GotoMoves
<1>11. TypeOK'
  BY <1>2, <1>10, TypeSame DEF IInv, TypeOK, locks
<1>12. LockInv'
  BY <1>1, <1>2, <1>8, <1>9, <1>10, LocksSame
<1>13. ThreadOK(s, "unlock", f)
  <2>1. CallOK("unlock", f) /\ SizeOK(f)
    BY <1>3 DEF CallOK, SizeOK, Allocating, Awaited
  <2>2. HeldOK(s, "unlock", f)
    BY <1>3 DEF HeldOK, HoldsOld, HoldsNew
  <2> QED BY <2>1, <2>2, <1>8 DEF ThreadOK, AwaitedOK
<1>14. \A w \in Threads \ {t} : pc[w] \in Awaited => frame[w].arena # h.blk[b].arena
  BY <1>1, <1>5, <1>9, AloneInArena
<1>15. Exchanges(heap, s, {b}, HeldBy(pc[t], frame[t]), HeldBy("unlock", f))
  <2>1. HeldBy(pc[t], frame[t]) = {b} /\ HeldBy("unlock", f) = {}
    BY <1>1, <1>2, <1>4
  <2> QED BY <1>1, <1>7, <2>1 DEF Exchanges
<1> QED BY <1>1, <1>2, <1>7, <1>8, <1>9, <1>10, <1>11, <1>12, <1>13, <1>14, <1>15, StepInv

(* The end of arena_realloc: the old block is freed if there is a new one.  *)
LEMMA AllocatedInv ==
  ASSUME IInv, NEW t \in Threads, Allocated(t)
  PROVE  IInv'
<1>1. PICK h, s, f, b : h = heap /\ s = heap' /\ f = frame[t] /\ b = frame[t].old
  OBVIOUS
<1>2. /\ pc[t] = "allocated" /\ Goto(t, "unlock")
      /\ s = IF f.fn = "realloc" /\ f.new # NULL THEN arena_free(h, b) ELSE h
      /\ UNCHANGED <<brk, locks, ids, contention_detected, user, calls, frame>>
  BY <1>1 DEF Allocated
<1>3. /\ f.fn \in {"malloc", "realloc"} /\ f.old = b
      /\ f.new # NULL => f.new # b
      /\ f.fn = "malloc" => b = NULL
      /\ f.fn = "realloc" => b # NULL
  BY <1>1, <1>2, AtPosition DEF CallOK, Allocating
<1>4. HeapOK(h) /\ CoalescedBut(h, {}) /\ HeldOK(h, "allocated", f) /\ CallOK("allocated", f) /\ SizeOK(f)
  BY <1>1, <1>2, AtPosition DEF IInv
<1>5. "unlock" \in Positions /\ "unlock" \notin WithSbrk /\ "unlock" \notin Awaited
  BY DEF Positions, WithSbrk, Awaited
<1>6. pc[t] \notin {"idle", "lock"} /\ pc[t] \notin WithSbrk /\ pc[t] \notin Awaited
  BY <1>2 DEF WithSbrk, Awaited
<1>7. Moves(t, "unlock", f)
  BY <1>1, <1>2, <1>5, GotoMoves
<1>8. TypeOK'
  BY <1>2, <1>7, TypeSame DEF IInv, TypeOK, locks
<1>9. LockInv'
  BY <1>1, <1>2, <1>5, <1>6, <1>7, LocksSame
<1>10. CallOK("unlock", f)
  BY <1>3, <1>4 DEF CallOK, Allocating, Awaited
<1>11. CASE f.fn = "realloc" /\ f.new # NULL
  <2>1. HoldsOld("allocated", f) /\ HoldsNew("allocated", f) /\ ~HoldsOld("unlock", f) /\ HoldsNew("unlock", f)
    BY <1>3, <1>11 DEF HoldsOld, HoldsNew
  <2>2. HeldBy("allocated", f) = {b, f.new} /\ HeldBy("unlock", f) = {f.new}
    BY <1>3, <2>1 DEF HeldBy
  <2>3. b \in Used(h) /\ f.new \in Used(h) /\ f.new # b
    BY <1>1, <1>2, <1>3, <1>11, <2>2, HoldsUsed
  <2>4. h.blk[b].arena = f.arena /\ f.size <= h.blk[f.new].size
    BY <1>3, <1>4, <2>1 DEF HeldOK
  <2>5. s = arena_free(h, b)
    BY <1>2, <1>11
  <2>6. /\ HeapStep(h, s, {b}, h.blk[b].arena) /\ CoalescedBut(s, {}) /\ Used(s) = Used(h) \ {b}
    BY <1>4, <2>3, <2>5, Frees
  <2>7. s.blk[f.new].size = h.blk[f.new].size
    BY <2>3, <2>6 DEF HeapStep, Kept
  <2>8. HeldOK(s, "unlock", f)
    BY <2>1, <2>4, <2>7 DEF HeldOK
  <2>9. ThreadOK(s, "unlock", f)
    BY <2>8, <1>4, <1>5, <1>10 DEF ThreadOK, AwaitedOK
  <2>10. \A w \in Threads \ {t} : pc[w] \in Awaited => frame[w].arena # h.blk[b].arena
    BY <1>1, <1>6, <2>4, AloneInArena
  <2>11. Exchanges(heap, s, {b}, HeldBy(pc[t], frame[t]), HeldBy("unlock", f))
    <3>1. HeldBy(pc[t], frame[t]) = {b, f.new} /\ HeldBy("unlock", f) = {f.new}
      BY <1>1, <1>2, <2>2
    <3>2. /\ {b} \cap Used(h) \subseteq {b, f.new}
          /\ Used(s) = (Used(h) \ {b, f.new}) \cup {f.new}
          /\ {f.new} \cap (Used(h) \ {b, f.new}) = {}
      BY <2>3, <2>6
    <3> QED BY <1>1, <3>1, <3>2 DEF Exchanges
  <2> QED BY <1>1, <1>2, <1>5, <1>6, <1>7, <1>8, <1>9, <2>6, <2>9, <2>10, <2>11, StepInv
<1>12. CASE ~(f.fn = "realloc" /\ f.new # NULL)
  <2>1. s = h
    BY <1>2, <1>12
  <2>2. (HoldsOld("unlock", f) <=> HoldsOld("allocated", f)) /\ (HoldsNew("unlock", f) <=> HoldsNew("allocated", f))
    BY <1>3, <1>12 DEF HoldsOld, HoldsNew
  <2>3. HeldBy("unlock", f) = HeldBy("allocated", f) /\ HeldOK(h, "unlock", f)
    BY <1>4, <2>2 DEF HeldBy, HeldOK
  <2>4. ThreadOK(h, "unlock", f)
    BY <2>3, <1>4, <1>5, <1>10 DEF ThreadOK, AwaitedOK
  <2> QED BY <1>1, <1>2, <1>5, <1>6, <1>7, <1>8, <1>9, <2>1, <2>3, <2>4, QuietStep
<1> QED BY <1>11, <1>12
(* Sizes are far from wrapping.                                             *)
LEMMA SmallSize ==
  ASSUME NEW f \in Frames, SizeOK(f), f.fn \in {"malloc", "realloc"}
  PROVE  /\ f.size \in Nat /\ f.size % ALIGN = 0 /\ ALIGN <= f.size /\ f.want <= f.size
         /\ f.size + HDR + ALIGN < SIZE_T
         /\ f.size + HDR + RESERVE + ALIGN < SIZE_T \div 2 /\ SIZE_T \div 2 <= SIZE_T
         /\ SIZE_T \div 2 \in Nat
<1>1. f.size \in Nat
  BY DEF Frames
<1>2. ALIGN \in Nat /\ HDR \in Nat /\ RESERVE \in Nat /\ SIZE_T \in Nat
  BY AlignAssumption, SizesAssumption
<1>3. SIZE_T \div 2 \in Nat /\ SIZE_T \div 2 <= SIZE_T
  BY <1>2
<1>4. /\ f.size % ALIGN = 0 /\ ALIGN <= f.size /\ f.want <= f.size
      /\ f.size + HDR + RESERVE + ALIGN < SIZE_T \div 2
  BY DEF SizeOK
<1> QED BY <1>1, <1>2, <1>3, <1>4

(* The new block is noted in the frame.                                     *)
LEMMA NewFrame ==
  ASSUME NEW f \in Frames, NEW b \in Nat
  PROVE  \E k \in Frames :
            /\ k = [f EXCEPT !.new = b] /\ k.new = b
            /\ k.fn = f.fn /\ k.want = f.want /\ k.size = f.size /\ k.arena = f.arena
            /\ k.old = f.old /\ k.had = f.had /\ k.reserve = f.reserve
<1>1. PICK k : k = [f EXCEPT !.new = b]
  OBVIOUS
<1>2. k \in Frames /\ k.new = b
  BY <1>1 DEF Frames
<1>3. /\ k.fn = f.fn /\ k.want = f.want /\ k.size = f.size /\ k.arena = f.arena
      /\ k.old = f.old /\ k.had = f.had /\ k.reserve = f.reserve
  BY <1>1 DEF Frames
<1> QED BY <1>1, <1>2, <1>3

(* arena_realloc.                                                           *)
LEMMA ArenaReallocInv ==
  ASSUME IInv, NEW t \in Threads, ArenaRealloc(t)
  PROVE  IInv'
<1>1. PICK h, g, s, f, b : /\ h = heap /\ s = heap' /\ f = frame[t] /\ b = frame[t].old
                           /\ g = coalesce_with_next(heap, frame[t].old)
  OBVIOUS
<1>2. /\ pc[t] = "realloc" /\ UNCHANGED <<brk, locks, ids, contention_detected, user, calls>>
      /\ \/ /\ f.size <= g.blk[b].size /\ s = split_block(g, b, f.size)
            /\ frame' = [frame EXCEPT ![t].new = b] /\ Goto(t, "unlock")
         \/ /\ f.size > g.blk[b].size /\ s = g /\ Goto(t, "malloc") /\ UNCHANGED frame
  BY <1>1 DEF ArenaRealloc
<1>3. f.fn = "realloc" /\ f.new = NULL /\ b # NULL /\ f.old = b /\ f \in Frames /\ SizeOK(f)
  BY <1>1, <1>2, AtPosition DEF CallOK, Awaited
<1>4. HeldBy("realloc", f) = {b} /\ HoldsOld("realloc", f)
  BY <1>3 DEF HeldBy, HoldsOld, HoldsNew
<1>5. b \in Used(h) /\ h.blk[b].arena = f.arena /\ f.had <= h.blk[b].size
  <2>1. HeldBy("realloc", f) \subseteq Used(h)
    BY <1>1, <1>2, HoldsUsed
  <2>2. HeldOK(h, "realloc", f)
    BY <1>1, <1>2, AtPosition
  <2> QED BY <2>1, <2>2, <1>3, <1>4 DEF HeldOK
<1>6. HeapOK(h) /\ CoalescedBut(h, {}) /\ b \in Blocks(h)
  BY <1>1, <1>5 DEF IInv, Used
<1>7. /\ HeapStep(h, g, {b}, f.arena) /\ Used(g) = Used(h)
      /\ b \in Blocks(g) /\ CoalescedBut(g, {}) /\ NothingFreeBehind(g, b)
      /\ h.blk[b].size <= g.blk[b].size
  <2>1. g = coalesce_with_next(h, b)
    BY <1>1
  <2>2. /\ HeapStep(h, g, {b}, h.blk[b].arena) /\ Used(g) = Used(h)
        /\ b \in Blocks(g) /\ CoalescedBut(g, {} \ {b}) /\ NothingFreeBehind(g, b)
        /\ h.blk[b].size <= g.blk[b].size
    BY <1>6, <2>1, Coalesces
  <2>3. {} \ {b} = {}
    OBVIOUS
  <2> QED BY <2>2, <2>3, <1>5
<1>8. /\ f.size \in Nat /\ f.size % ALIGN = 0 /\ ALIGN <= f.size /\ f.size + HDR + ALIGN < SIZE_T
  BY <1>3, SmallSize
<1>9. HeapOK(g) /\ g.blk[b].arena = f.arena /\ h.blk[b].size \in Nat /\ g.blk[b].size \in Nat /\ f.had \in Nat
  <2>1. HeapOK(g) /\ g.blk[b].arena = h.blk[b].arena
    BY <1>6, <1>7 DEF HeapStep, Kept
  <2>2. h.blk[b].size \in Nat /\ g.blk[b].size \in Nat
    BY <1>6, <1>7, <2>1 DEF HeapOK, HeapType, Block
  <2> QED BY <2>1, <2>2, <1>3, <1>5 DEF Frames
<1>10. pc[t] \notin {"idle", "lock"} /\ pc[t] \notin WithSbrk /\ pc[t] \notin Awaited
  BY <1>2 DEF WithSbrk, Awaited
<1>11. \A w \in Threads \ {t} : pc[w] \in Awaited => frame[w].arena # f.arena
  BY <1>1, <1>10, AloneInArena
<1>12. HeldBy(pc[t], frame[t]) = {b}
  BY <1>1, <1>2, <1>4
<1>13. CASE /\ f.size <= g.blk[b].size /\ s = split_block(g, b, f.size)
            /\ frame' = [frame EXCEPT ![t].new = b] /\ Goto(t, "unlock")
  <2>1. CoalescedBut(g, {b})
    BY <1>7 DEF CoalescedBut
  <2>2. /\ HeapStep(g, s, {b}, f.arena) /\ Used(s) = Used(g)
        /\ b \in Blocks(s) /\ f.size <= s.blk[b].size /\ CoalescedBut(s, {b})
    <3>1. PICK n : n = f.size
      OBVIOUS
    <3>2. /\ HeapStep(g, s, {b}, g.blk[b].arena) /\ Used(s) = Used(g)
          /\ b \in Blocks(s) /\ n <= s.blk[b].size /\ CoalescedBut(s, {b})
      BY <1>7, <1>8, <1>9, <1>13, <2>1, <3>1, Splits
    <3> QED BY <3>1, <3>2, <1>9
  <2>3. HeapStep(h, s, {b}, f.arena)
    BY <1>7, <2>2, HeapStepTwice
  <2>4. ~s.blk[b].freed
    BY <1>5, <1>7, <2>2 DEF Used
  <2>5. CoalescedBut(s, {})
    BY <2>2, <2>4 DEF CoalescedBut, CoalescedAt
  <2>6. b \in Nat /\ "unlock" \in Positions /\ "unlock" \notin WithSbrk /\ "unlock" \notin Awaited
    BY <1>3 DEF Frames, Positions, WithSbrk, Awaited
  <2>7. PICK k \in Frames :
            /\ k = [f EXCEPT !.new = b] /\ k.new = b
            /\ k.fn = f.fn /\ k.want = f.want /\ k.size = f.size /\ k.arena = f.arena
            /\ k.old = f.old /\ k.had = f.had /\ k.reserve = f.reserve
    BY <1>3, <2>6, NewFrame
  <2>8. Moves(t, "unlock", k) /\ k.new = b
    BY <1>1, <1>13, <2>6, <2>7 DEF Moves, Goto, IInv, TypeOK
  <2>9. k.fn = "realloc" /\ k.old = b /\ k.size = f.size /\ k.arena = f.arena /\ k.want = f.want
    BY <2>7, <1>3
  <2>10. TypeOK'
    BY <1>2, <2>8, TypeSame DEF IInv, TypeOK, locks
  <2>11. LockInv'
    BY <1>1, <1>2, <1>10, <2>6, <2>8, <2>9, LocksSame
  <2>12. ~HoldsOld("unlock", k) /\ HoldsNew("unlock", k)
    BY <1>3, <2>8, <2>9 DEF HoldsOld, HoldsNew
  <2>13. HeldBy("unlock", k) = {b}
    BY <2>8, <2>9, <2>12 DEF HeldBy
  <2>14. CallOK("unlock", k) /\ SizeOK(k)
    BY <1>3, <2>8, <2>9 DEF CallOK, SizeOK, Awaited, Allocating
  <2>15. HeldOK(s, "unlock", k)
    BY <2>2, <2>8, <2>9, <2>12 DEF HeldOK
  <2>16. ThreadOK(s, "unlock", k)
    BY <2>6, <2>14, <2>15 DEF ThreadOK, AwaitedOK
  <2>17. Exchanges(heap, s, {b}, HeldBy(pc[t], frame[t]), HeldBy("unlock", k))
    <3>1. /\ {b} \cap Used(h) \subseteq {b} /\ Used(s) = (Used(h) \ {b}) \cup {b}
          /\ {b} \cap (Used(h) \ {b}) = {}
      BY <1>5, <1>7, <2>2
    <3> QED BY <1>1, <1>12, <2>13, <3>1 DEF Exchanges
  <2> QED BY <1>1, <1>2, <1>10, <1>11, <2>3, <2>5, <2>6, <2>8, <2>10, <2>11, <2>16, <2>17, StepInv
<1>14. CASE /\ f.size > g.blk[b].size /\ s = g /\ Goto(t, "malloc") /\ UNCHANGED frame
  <2>1. /\ "malloc" \in Positions /\ "malloc" \notin WithSbrk /\ "malloc" \notin Awaited
        /\ "malloc" \in Allocating
    BY DEF Positions, WithSbrk, Awaited, Allocating
  <2>2. Moves(t, "malloc", f)
    BY <1>1, <1>14, <2>1, GotoMoves
  <2>3. TypeOK'
    BY <1>2, <2>2, TypeSame DEF IInv, TypeOK, locks
  <2>4. LockInv'
    BY <1>1, <1>2, <1>10, <2>1, <2>2, LocksSame
  <2>5. HoldsOld("malloc", f) /\ ~HoldsNew("malloc", f)
    BY <1>3 DEF HoldsOld, HoldsNew
  <2>6. HeldBy("malloc", f) = {b}
    BY <1>3, <2>5 DEF HeldBy
  <2>7. CallOK("malloc", f)
    BY <1>3 DEF CallOK, Awaited, Allocating
  <2>8. f.had <= g.blk[b].size
    BY <1>5, <1>7, <1>9
  <2>9. HeldOK(g, "malloc", f)
    BY <1>3, <1>9, <2>5, <2>8 DEF HeldOK
  <2>10. ThreadOK(g, "malloc", f)
    BY <1>3, <2>1, <2>7, <2>9 DEF ThreadOK, AwaitedOK
  <2>11. Exchanges(heap, g, {b}, HeldBy(pc[t], frame[t]), HeldBy("malloc", f))
    <3>1. /\ {b} \cap Used(h) \subseteq {b} /\ Used(g) = (Used(h) \ {b}) \cup {b}
          /\ {b} \cap (Used(h) \ {b}) = {}
      BY <1>5, <1>7
    <3> QED BY <1>1, <1>12, <2>6, <3>1 DEF Exchanges
  <2> QED BY <1>1, <1>2, <1>7, <1>10, <1>11, <1>14, <2>1, <2>2, <2>3, <2>4, <2>10, <2>11, StepInv
<1> QED BY <1>2, <1>13, <1>14
(* The old block of a realloc and the new one.                              *)
LEMMA GotNew ==
  ASSUME NEW h, NEW s, NEW a, NEW q, NEW f, NEW k, ThreadOK(h, q, f),
         q \notin {"idle", "allocated", "unlock"}, HeldBy(q, f) \subseteq Used(h),
         k.fn = f.fn, k.want = f.want, k.size = f.size, k.arena = f.arena, k.old = f.old, k.had = f.had,
         f.fn \in {"malloc", "realloc"}, k.new # NULL, k.new \notin Used(h),
         Kept(h, s, {k.new}, a), Used(s) = Used(h) \cup {k.new}, k.size <= s.blk[k.new].size
  PROVE  /\ ThreadOK(s, "allocated", k)
         /\ Used(s) = (Used(h) \ HeldBy(q, f)) \cup HeldBy("allocated", k)
         /\ HeldBy("allocated", k) \cap (Used(h) \ HeldBy(q, f)) = {}
<1>1. CallOK(q, f) /\ SizeOK(f) /\ HeldOK(h, q, f)
  BY DEF ThreadOK
<1>2. /\ HoldsOld(q, f) <=> f.old # NULL
      /\ HoldsOld("allocated", k) <=> f.old # NULL
      /\ ~HoldsNew(q, f) /\ HoldsNew("allocated", k)
  BY DEF HoldsOld, HoldsNew
<1>3. HeldBy("allocated", k) = HeldBy(q, f) \cup {k.new}
  BY <1>2 DEF HeldBy
<1>4. f.old # NULL => /\ f.old \in Used(h) /\ f.old # k.new /\ f.old \in Blocks(h) /\ f.old \in Blocks(s)
                      /\ s.blk[f.old].size = h.blk[f.old].size /\ s.blk[f.old].arena = h.blk[f.old].arena
  <2> SUFFICES ASSUME f.old # NULL
               PROVE  /\ f.old \in Used(h) /\ f.old # k.new /\ f.old \in Blocks(h) /\ f.old \in Blocks(s)
                      /\ s.blk[f.old].size = h.blk[f.old].size /\ s.blk[f.old].arena = h.blk[f.old].arena
    OBVIOUS
  <2>1. f.old \in HeldBy(q, f)
    BY <1>2 DEF HeldBy
  <2>2. f.old \in Used(h) /\ f.old # k.new
    BY <2>1
  <2>3. f.old \in Used(s) /\ s.blk[f.old].size = h.blk[f.old].size
    BY <2>2 DEF Kept
  <2>4. f.old \in Blocks(h) /\ f.old \in Blocks(s)
    BY <2>2, <2>3 DEF Used
  <2> QED BY <2>2, <2>3, <2>4 DEF Kept
<1>5. CallOK("allocated", k)
  BY <1>1, <1>4 DEF CallOK, Awaited, Allocating
<1>6. SizeOK(k)
  BY <1>1 DEF SizeOK
<1>7. HeldOK(s, "allocated", k)
  BY <1>1, <1>2, <1>4 DEF HeldOK
<1>8. AwaitedOK(s, "allocated", k)
  BY DEF AwaitedOK, Awaited
<1> QED BY <1>3, <1>5, <1>6, <1>7, <1>8 DEF ThreadOK

(* arena_malloc.                                                            *)
LEMMA ArenaMallocInv ==
  ASSUME IInv, NEW t \in Threads, ArenaMalloc(t)
  PROVE  IInv'
<1>1. PICK h, s, f, b : /\ h = heap /\ s = heap' /\ f = frame[t]
                        /\ b = first_hit(heap, frame[t].arena, frame[t].size)
  OBVIOUS
<1>2. /\ pc[t] = "malloc" /\ UNCHANGED <<brk, locks, ids, contention_detected, user, calls>>
      /\ \/ /\ b # NULL /\ s = SetFreed(split_block(h, b, f.size), b, FALSE)
            /\ frame' = [frame EXCEPT ![t].new = b] /\ Goto(t, "allocated")
         \/ /\ b = NULL /\ Goto(t, "ext_check") /\ UNCHANGED <<heap, frame>>
  BY <1>1 DEF ArenaMalloc
<1>3. f.fn \in {"malloc", "realloc"} /\ f.new = NULL /\ f \in Frames /\ SizeOK(f) /\ ThreadOK(h, "malloc", f)
  BY <1>1, <1>2, AtPosition DEF CallOK, Awaited, Allocating
<1>4. /\ f.size \in Nat /\ f.size % ALIGN = 0 /\ ALIGN <= f.size /\ f.size + HDR + ALIGN < SIZE_T
  BY <1>3, SmallSize
<1>5. pc[t] \notin {"idle", "lock"} /\ pc[t] \notin WithSbrk /\ pc[t] \notin Awaited
  BY <1>2 DEF WithSbrk, Awaited
<1>6. HeapOK(h) /\ CoalescedBut(h, {}) /\ f.arena \in Arenas /\ HeldBy("malloc", f) \subseteq Used(h)
  BY <1>1, <1>2, <1>3, HoldsUsed DEF IInv, Frames
<1>7. CASE /\ b # NULL /\ s = SetFreed(split_block(h, b, f.size), b, FALSE)
           /\ frame' = [frame EXCEPT ![t].new = b] /\ Goto(t, "allocated")
  <2>1. PICK n, a : n = f.size /\ a = f.arena
    OBVIOUS
  <2>2. b = first_hit(h, a, n)
    BY <1>1, <2>1
  <2>3. PICK top \in Nat : \A x \in Blocks(h) : x <= top
    <3>1. brk \in Nat /\ Blocks(h) \subseteq Nat /\ \A x \in Blocks(h) : x < brk
      BY <1>1, <1>6, BelowBreak DEF HeapOK, HeapType
    <3> QED BY <3>1
  <2>4. b \in Blocks(h) /\ h.blk[b].arena = a /\ Hit(h, b, n)
    BY <1>4, <1>6, <1>7, <2>1, <2>2, <2>3, FirstHit
  <2>5. h.blk[b].freed /\ n <= h.blk[b].size /\ n \in Nat /\ b \in Nat
    <3>1. h.blk[b].size \in Nat /\ b \in Nat
      BY <1>6, <2>4 DEF HeapOK, HeapType, Block
    <3> QED BY <1>4, <2>1, <2>4, <3>1 DEF Hit
  <2>6. /\ HeapStep(h, s, {b}, h.blk[b].arena) /\ Used(s) = Used(h) \cup {b}
        /\ b \notin Used(h) /\ n <= s.blk[b].size /\ CoalescedBut(s, {})
    <3>1. n % ALIGN = 0 /\ ALIGN <= n /\ n + HDR + ALIGN < SIZE_T
      BY <1>4, <2>1
    <3>2. s = SetFreed(split_block(h, b, n), b, FALSE)
      BY <1>7, <2>1
    <3> QED BY <1>6, <2>4, <2>5, <3>1, <3>2, Takes
  <2>7. PICK k \in Frames :
            /\ k = [f EXCEPT !.new = b] /\ k.new = b
            /\ k.fn = f.fn /\ k.want = f.want /\ k.size = f.size /\ k.arena = f.arena
            /\ k.old = f.old /\ k.had = f.had /\ k.reserve = f.reserve
    BY <1>3, <2>5, NewFrame
  <2>8. /\ "allocated" \in Positions /\ "allocated" \notin WithSbrk /\ "allocated" \notin Awaited
    BY DEF Positions, WithSbrk, Awaited
  <2>9. Moves(t, "allocated", k) /\ k.new = b
    BY <1>1, <1>7, <2>7, <2>8 DEF Moves, Goto, IInv, TypeOK
  <2>10. /\ k.fn = f.fn /\ k.want = f.want /\ k.size = f.size /\ k.arena = f.arena
         /\ k.old = f.old /\ k.had = f.had
    BY <2>7
  <2>11. TypeOK'
    BY <1>2, <2>9, TypeSame DEF IInv, TypeOK, locks
  <2>12. LockInv'
    BY <1>1, <1>2, <1>5, <2>8, <2>9, <2>10, LocksSame
  <2>13. Kept(h, s, {k.new}, a) /\ Used(s) = Used(h) \cup {k.new} /\ k.size <= s.blk[k.new].size
    BY <2>1, <2>4, <2>6, <2>9, <2>10 DEF HeapStep
  <2>14. /\ ThreadOK(s, "allocated", k)
         /\ Used(s) = (Used(h) \ HeldBy("malloc", f)) \cup HeldBy("allocated", k)
         /\ HeldBy("allocated", k) \cap (Used(h) \ HeldBy("malloc", f)) = {}
    <3>1. k.new # NULL /\ k.new \notin Used(h)
      BY <1>7, <2>6, <2>9
    <3>2. PICK q : q = "malloc"
      OBVIOUS
    <3>3. ThreadOK(h, q, f) /\ q \notin {"idle", "allocated", "unlock"} /\ HeldBy(q, f) \subseteq Used(h)
      BY <1>3, <1>6, <3>2
    <3>4. /\ ThreadOK(s, "allocated", k)
          /\ Used(s) = (Used(h) \ HeldBy(q, f)) \cup HeldBy("allocated", k)
          /\ HeldBy("allocated", k) \cap (Used(h) \ HeldBy(q, f)) = {}
      BY <1>3, <2>10, <2>13, <3>1, <3>3, GotNew
    <3> QED BY <3>2, <3>4
  <2>15. HeapStep(h, s, {b}, a) /\ {b} \cap Used(h) \subseteq HeldBy("malloc", f)
    BY <2>4, <2>6
  <2>16. \A w \in Threads \ {t} : pc[w] \in Awaited => frame[w].arena # a
    BY <1>1, <1>5, <2>1, AloneInArena
  <2>17. Exchanges(heap, s, {b}, HeldBy(pc[t], frame[t]), HeldBy("allocated", k))
    <3>1. HeldBy(pc[t], frame[t]) = HeldBy("malloc", f)
      BY <1>1, <1>2
    <3> QED BY <1>1, <2>14, <2>15, <3>1 DEF Exchanges
  <2> QED BY <1>1, <1>2, <1>5, <2>6, <2>8, <2>9, <2>11, <2>12, <2>14, <2>15, <2>16, <2>17, StepInv
<1>8. CASE b = NULL /\ Goto(t, "ext_check") /\ UNCHANGED <<heap, frame>>
  <2>1. /\ "ext_check" \in Positions /\ "ext_check" \notin WithSbrk
        /\ "ext_check" \notin {"idle", "unlock"} \cup Awaited
    BY DEF Positions, WithSbrk, Awaited
  <2>2. Moves(t, "ext_check", f)
    BY <1>1, <1>8, <2>1, GotoMoves
  <2>3. TypeOK'
    BY <1>2, <2>2, TypeSame DEF IInv, TypeOK, locks
  <2>4. LockInv'
    BY <1>1, <1>2, <1>5, <2>1, <2>2, LocksSame
  <2>5. pc[t] \notin {"idle", "unlock"} \cup Awaited
    BY <1>2, <1>5
  <2> QED BY <1>1, <1>2, <1>3, <1>8, <2>1, <2>3, <2>4, <2>5, QuietGoto
<1> QED BY <1>2, <1>7, <1>8
(* The bytes, when call t gets those from the break up to to.               *)
LEMMA TiledSbrk ==
  ASSUME NEW h, NEW top \in Nat, NEW pcs, NEW fs, Tiled(h, top, pcs, fs),
         NEW t \in Threads, pcs[t] \notin Awaited, NEW to \in Nat, top <= to, HeapStart <= top,
         NEW pcs1, NEW fs1, pcs1[t] \in Awaited, Got(fs1[t]) = top .. to - 1,
         \A w \in Threads \ {t} : pcs1[w] = pcs[w] /\ fs1[w] = fs[w]
  PROVE  Tiled(h, to, pcs1, fs1)
<1>1. Waiting(pcs1) = Waiting(pcs) \cup {t} /\ t \notin Waiting(pcs) /\ t \in Waiting(pcs1)
  BY DEF Waiting
<1>2. \A w \in Waiting(pcs) : w \in Threads \ {t} /\ Got(fs1[w]) = Got(fs[w])
  BY <1>1 DEF Waiting
<1>3. HeapStart \in Nat
  BY HeapAssumption
<1>4. Covered(h) \subseteq HeapStart .. top - 1 /\ \A w \in Waiting(pcs) : Got(fs[w]) \subseteq HeapStart .. top - 1
  BY DEF Tiled
<1>5. (HeapStart .. top - 1) \cap (top .. to - 1) = {}
  BY <1>3
<1>6. \A w \in Waiting(pcs1) : Covered(h) \cap Got(fs1[w]) = {}
  <2> SUFFICES ASSUME NEW w \in Waiting(pcs1)  PROVE Covered(h) \cap Got(fs1[w]) = {}
    OBVIOUS
  <2>1. CASE w = t
    BY <2>1, <1>4, <1>5
  <2>2. CASE w # t
    BY <2>2, <1>1, <1>2 DEF Tiled
  <2> QED BY <2>1, <2>2
<1>7. \A w, v \in Waiting(pcs1) : w # v => Got(fs1[w]) \cap Got(fs1[v]) = {}
  <2> SUFFICES ASSUME NEW w \in Waiting(pcs1), NEW v \in Waiting(pcs1), w # v
               PROVE  Got(fs1[w]) \cap Got(fs1[v]) = {}
    OBVIOUS
  <2>1. CASE w = t
    BY <2>1, <1>1, <1>2, <1>4, <1>5
  <2>2. CASE v = t
    BY <2>2, <1>1, <1>2, <1>4, <1>5
  <2>3. CASE w # t /\ v # t
    BY <2>3, <1>1, <1>2 DEF Tiled
  <2> QED BY <2>1, <2>2, <2>3
<1>8. Covered(h) \cup (UNION {Got(fs1[w]) : w \in Waiting(pcs1)}) = HeapStart .. to - 1
  <2>1. {Got(fs1[w]) : w \in Waiting(pcs1)} = {Got(fs[w]) : w \in Waiting(pcs)} \cup {top .. to - 1}
    BY <1>1, <1>2
  <2>2. PICK U : U = UNION {Got(fs[w]) : w \in Waiting(pcs)}
    OBVIOUS
  <2>3. Covered(h) \cup U = HeapStart .. top - 1
    BY <2>2 DEF Tiled
  <2>4. UNION {Got(fs1[w]) : w \in Waiting(pcs1)} = U \cup (top .. to - 1)
    BY <2>1, <2>2
  <2>5. (HeapStart .. top - 1) \cup (top .. to - 1) = HeapStart .. to - 1
    BY <1>3
  <2> QED BY <2>3, <2>4, <2>5
<1> QED BY <1>6, <1>7, <1>8 DEF Tiled

(* The bytes, when call t gives its own to a block.                         *)
LEMMA TiledAppend ==
  ASSUME NEW h, NEW top, NEW pcs, NEW fs, Tiled(h, top, pcs, fs),
         NEW t \in Threads, pcs[t] \in Awaited, NEW s, Covered(s) = Covered(h) \cup Got(fs[t]),
         NEW pcs1, NEW fs1, pcs1[t] \notin Awaited,
         \A w \in Threads \ {t} : pcs1[w] = pcs[w] /\ fs1[w] = fs[w]
  PROVE  Tiled(s, top, pcs1, fs1)
<1>1. Waiting(pcs1) = Waiting(pcs) \ {t} /\ t \in Waiting(pcs)
  BY DEF Waiting
<1>2. \A w \in Waiting(pcs1) : w \in Threads \ {t} /\ w \in Waiting(pcs) /\ Got(fs1[w]) = Got(fs[w])
  BY <1>1 DEF Waiting
<1>3. \A w \in Waiting(pcs1) : Covered(s) \cap Got(fs1[w]) = {}
  BY <1>1, <1>2 DEF Tiled
<1>4. \A w, v \in Waiting(pcs1) : w # v => Got(fs1[w]) \cap Got(fs1[v]) = {}
  BY <1>1, <1>2 DEF Tiled
<1>5. Covered(s) \cup (UNION {Got(fs1[w]) : w \in Waiting(pcs1)}) = HeapStart .. top - 1
  <2>1. {Got(fs[w]) : w \in Waiting(pcs)} = {Got(fs1[w]) : w \in Waiting(pcs1)} \cup {Got(fs[t])}
    BY <1>1, <1>2
  <2>2. PICK U : U = UNION {Got(fs1[w]) : w \in Waiting(pcs1)}
    OBVIOUS
  <2>3. UNION {Got(fs[w]) : w \in Waiting(pcs)} = U \cup Got(fs[t])
    BY <2>1, <2>2
  <2>4. Covered(h) \cup (U \cup Got(fs[t])) = HeapStart .. top - 1
    BY <2>3 DEF Tiled
  <2> QED BY <2>2, <2>4
<1> QED BY <1>3, <1>4, <1>5 DEF Tiled

(* How far sbrk is to move the break.                                       *)
LEMMA SbrkArgument ==
  ASSUME IInv, NEW t \in Threads, pc[t] = "sbrk", NEW n, n = contention_detected * RESERVE
  PROVE  /\ n \in {0, RESERVE}
         /\ ToSigned(Wrap(HDR + frame[t].size + n)) = HDR + frame[t].size + n
<1>1. PICK f : f = frame[t]
  OBVIOUS
<1>2. f.fn \in {"malloc", "realloc"} /\ f \in Frames /\ SizeOK(f)
  BY <1>1, AtPosition DEF CallOK, Allocating
<1>3. /\ f.size \in Nat /\ f.size + HDR + RESERVE + ALIGN < SIZE_T \div 2 /\ SIZE_T \div 2 <= SIZE_T
      /\ SIZE_T \div 2 \in Nat
  BY <1>2, SmallSize
<1>4. ALIGN \in Nat /\ HDR \in Nat /\ RESERVE \in Nat /\ SIZE_T \in Nat
  BY AlignAssumption, SizesAssumption
<1>5. contention_detected = 0 \/ contention_detected = 1
  BY DEF IInv, TypeOK
<1>6. n \in {0, RESERVE}
  BY <1>4, <1>5
<1>7. PICK m, half : m = HDR + f.size + n /\ half = SIZE_T \div 2
  OBVIOUS
<1>8. m \in Nat /\ m < half /\ half \in Nat /\ half <= SIZE_T
  BY <1>3, <1>4, <1>6, <1>7
<1>9. Wrap(m) = m
  BY <1>4, <1>8 DEF Wrap
<1>10. ToSigned(m) = m
  BY <1>7, <1>8 DEF ToSigned
<1> QED BY <1>1, <1>6, <1>7, <1>9, <1>10

(* sbrk.                                                                    *)
LEMMA SbrkInv ==
  ASSUME IInv, NEW t \in Threads, Sbrk(t)
  PROVE  IInv'
<1>1. PICK h, f, n, to : /\ h = heap /\ f = frame[t] /\ n = contention_detected * RESERVE
                         /\ to = brk + ToSigned(Wrap(HDR + frame[t].size + contention_detected * RESERVE))
  OBVIOUS
<1>2. /\ pc[t] = "sbrk" /\ UNCHANGED <<heap, locks, ids, contention_detected, user, calls>>
      /\ \/ /\ to \in HeapStart .. HeapEnd /\ brk' = to
            /\ frame' = [frame EXCEPT ![t].new = brk, ![t].reserve = n] /\ Goto(t, "sbrk_append")
         \/ /\ to \notin HeapStart .. HeapEnd /\ Goto(t, "sbrk_failed") /\ UNCHANGED <<brk, frame>>
  BY <1>1 DEF Sbrk
<1>3. /\ f.fn \in {"malloc", "realloc"} /\ f.new = NULL /\ f \in Frames /\ SizeOK(f)
      /\ CallOK("sbrk", f) /\ HeldOK(h, "sbrk", f)
  BY <1>1, <1>2, AtPosition DEF CallOK, Awaited, Allocating
<1>4. n \in {0, RESERVE} /\ to = brk + (HDR + f.size + n)
  BY <1>1, <1>2, SbrkArgument
<1>5. f.size \in Nat /\ f.size % ALIGN = 0
  BY <1>3, SmallSize
<1>6. /\ HDR \in Nat /\ HDR % ALIGN = 0 /\ RESERVE \in Nat /\ RESERVE % ALIGN = 0
      /\ ALIGN \in Nat \ {0} /\ HeapStart \in Nat \ {0} /\ HeapEnd \in Int
  BY AlignAssumption, SizesAssumption, HeapAssumption
<1>7. pc[t] \notin {"idle", "lock"} /\ pc[t] \in WithSbrk /\ pc[t] \notin Awaited
  BY <1>2 DEF WithSbrk, Awaited
<1>8. brk \in Nat /\ HeapStart <= brk /\ brk % ALIGN = 0 /\ \A b \in Blocks(h) : b < brk
  BY <1>1, <1>6, BelowBreak DEF IInv, TypeOK
<1>9. CASE /\ to \in HeapStart .. HeapEnd /\ brk' = to
           /\ frame' = [frame EXCEPT ![t].new = brk, ![t].reserve = n] /\ Goto(t, "sbrk_append")
  <2>1. PICK top \in Nat : top = brk
    BY <1>8
  <2>2. PICK k : /\ k \in Frames /\ k = [f EXCEPT !.new = top, !.reserve = n]
                 /\ k.new = top /\ k.reserve = n
                 /\ k.fn = f.fn /\ k.want = f.want /\ k.size = f.size /\ k.arena = f.arena
                 /\ k.old = f.old /\ k.had = f.had
    <3>1. n \in Nat /\ top \in Nat
      BY <1>4, <1>6, <2>1
    <3>2. PICK k : k = [f EXCEPT !.new = top, !.reserve = n]
      OBVIOUS
    <3>3. k \in Frames /\ k.new = top /\ k.reserve = n
      BY <1>3, <3>1, <3>2 DEF Frames
    <3>4. /\ k.fn = f.fn /\ k.want = f.want /\ k.size = f.size /\ k.arena = f.arena
          /\ k.old = f.old /\ k.had = f.had
      BY <1>3, <3>2 DEF Frames
    <3> QED BY <3>2, <3>3, <3>4
  <2>3. "sbrk_append" \in Positions /\ "sbrk_append" \in WithSbrk /\ "sbrk_append" \in Awaited
    BY DEF Positions, WithSbrk, Awaited
  <2>4. frame' = [frame EXCEPT ![t] = k]
    <3>1. frame \in [Threads -> Frames]
      BY DEF IInv, TypeOK
    <3> QED BY <1>1, <1>9, <2>1, <2>2, <3>1
  <2>5. Moves(t, "sbrk_append", k)
    BY <1>9, <2>2, <2>3, <2>4 DEF Moves, Goto
  <2>6. /\ pc'[t] = "sbrk_append" /\ frame'[t] = k
        /\ \A w \in Threads \ {t} : pc'[w] = pc[w] /\ frame'[w] = frame[w]
        /\ pc' \in [Threads -> Positions] /\ frame' \in [Threads -> Frames]
    BY <2>5, MovesAlone
  <2>7. to % ALIGN = 0 /\ to \in Nat /\ top <= to
    <3>1. PICK a, m \in Nat : a = f.size /\ m = n
      BY <1>4, <1>5, <1>6
    <3>2. (HDR + a) % ALIGN = 0 /\ HDR + a \in Nat
      BY <1>5, <1>6, <3>1, AlignedSum
    <3>3. m % ALIGN = 0
      BY <1>4, <1>6, <3>1
    <3>4. PICK c \in Nat : c = HDR + a
      BY <3>2
    <3>5. (c + m) % ALIGN = 0
      BY <3>2, <3>3, <3>4, AlignedSum
    <3>6. PICK d \in Nat : d = c + m
      OBVIOUS
    <3>7. (top + d) % ALIGN = 0
      BY <1>8, <2>1, <3>5, <3>6, AlignedSum
    <3>8. to = top + d
      BY <1>4, <2>1, <3>1, <3>4, <3>6
    <3> QED BY <3>7, <3>8
  <2>8. TypeOK'
    BY <1>2, <1>9, <2>6, <2>7 DEF IInv, TypeOK, locks, ids
  <2>9. LockInv'
    BY <1>1, <1>2, <1>7, <2>2, <2>3, <2>5, LocksSame
  <2>10. (HoldsOld("sbrk_append", k) <=> HoldsOld("sbrk", f)) /\ ~HoldsNew("sbrk_append", k) /\ ~HoldsNew("sbrk", f)
    BY <1>3, <2>2 DEF HoldsOld, HoldsNew
  <2>11. HeldBy("sbrk_append", k) = HeldBy("sbrk", f)
    BY <2>2, <2>10 DEF HeldBy
  <2>12. ThreadOK(h, "sbrk_append", k)
    <3>1. CallOK("sbrk_append", k)
      BY <1>3, <2>2 DEF CallOK, Awaited, Allocating
    <3>2. SizeOK(k)
      BY <1>3, <2>2 DEF SizeOK
    <3>3. HeldOK(h, "sbrk_append", k)
      BY <1>3, <2>2, <2>10 DEF HeldOK
    <3>4. AwaitedOK(h, "sbrk_append", k)
      BY <1>4, <1>8, <2>1, <2>2 DEF AwaitedOK
    <3> QED BY <3>1, <3>2, <3>3, <3>4 DEF ThreadOK
  <2>13. \A w \in Threads : ThreadOK(h, pc'[w], frame'[w])
    BY <1>1, <2>6, <2>12 DEF IInv
  <2>14. HeldByAll(pc', frame') = HeldByAll(pc, frame)
    <3>1. \A w \in Threads : HeldBy(pc'[w], frame'[w]) = HeldBy(pc[w], frame[w])
      BY <1>1, <1>2, <2>6, <2>11
    <3> QED BY <3>1 DEF HeldByAll
  <2>15. Got(k) = top .. to - 1
    BY <1>4, <1>5, <1>6, <2>1, <2>2 DEF Got
  <2>16. Tiled(h, to, pc', frame')
    <3>1. PICK pcs, fs, pcs1, fs1 : pcs = pc /\ fs = frame /\ pcs1 = pc' /\ fs1 = frame'
      OBVIOUS
    <3>2. Tiled(h, top, pcs, fs)
      BY <1>1, <2>1, <3>1 DEF IInv
    <3>3. pcs[t] \notin Awaited /\ pcs1[t] \in Awaited /\ Got(fs1[t]) = top .. to - 1
      BY <1>7, <2>3, <2>6, <2>15, <3>1
    <3>4. HeapStart <= top /\ \A w \in Threads \ {t} : pcs1[w] = pcs[w] /\ fs1[w] = fs[w]
      BY <1>8, <2>1, <2>6, <3>1
    <3>5. Tiled(h, to, pcs1, fs1)
      BY <2>1, <2>7, <3>2, <3>3, <3>4, TiledSbrk
    <3> QED BY <3>1, <3>5
  <2> QED BY <1>1, <1>2, <1>9, <2>8, <2>9, <2>13, <2>14, <2>16 DEF IInv
<1>10. CASE /\ to \notin HeapStart .. HeapEnd /\ Goto(t, "sbrk_failed") /\ UNCHANGED <<brk, frame>>
  <2>1. /\ "sbrk_failed" \in Positions /\ "sbrk_failed" \in WithSbrk
        /\ "sbrk_failed" \notin {"idle", "unlock"} \cup Awaited
    BY DEF Positions, WithSbrk, Awaited
  <2>2. Moves(t, "sbrk_failed", f)
    BY <1>1, <1>10, <2>1, GotoMoves
  <2>3. TypeOK'
    BY <1>2, <1>10, <2>2, TypeSame DEF IInv, TypeOK, locks
  <2>4. LockInv'
    BY <1>1, <1>2, <1>7, <2>1, <2>2, LocksSame
  <2>5. pc[t] \notin {"idle", "unlock"} \cup Awaited
    BY <1>2, <1>7
  <2> QED BY <1>1, <1>2, <1>3, <1>10, <2>1, <2>3, <2>4, <2>5, QuietGoto
<1> QED BY <1>2, <1>9, <1>10

(* The end of extend_arena_heap.                                            *)
LEMMA AppendInv ==
  ASSUME IInv, NEW t \in Threads, Append(t)
  PROVE  IInv'
<1>1. PICK h, s, f, b, a, n, total :
          /\ h = heap /\ s = heap' /\ f = frame[t] /\ b = frame[t].new /\ a = frame[t].arena
          /\ n = frame[t].size /\ total = Wrap(frame[t].size + frame[t].reserve)
  OBVIOUS
<1>2. /\ pc[t] = "append" /\ s = split_block(AppendBlock(h, a, b, total), b, n)
      /\ Goto(t, "allocated")
      /\ UNCHANGED <<brk, locks, ids, contention_detected, user, calls, frame>>
  BY <1>1 DEF Append
<1>3. pc[t] \in Awaited /\ pc[t] \notin {"idle", "lock"} /\ pc[t] \notin WithSbrk
  BY <1>2 DEF Awaited, WithSbrk
<1>4. /\ f.fn \in {"malloc", "realloc"} /\ f \in Frames /\ SizeOK(f) /\ ThreadOK(h, "append", f)
      /\ b % ALIGN = 0 /\ HeapStart <= b /\ f.reserve \in {0, RESERVE} /\ b \in Nat /\ a \in Arenas
      /\ \A c \in Blocks(h) : h.blk[c].arena = a => c < b
  BY <1>1, <1>2, <1>3, AtPosition DEF CallOK, Allocating, AwaitedOK, Frames
<1>5. /\ n \in Nat /\ n % ALIGN = 0 /\ ALIGN <= n /\ n + HDR + ALIGN < SIZE_T
      /\ n + HDR + RESERVE + ALIGN < SIZE_T \div 2 /\ SIZE_T \div 2 <= SIZE_T /\ SIZE_T \div 2 \in Nat
  BY <1>1, <1>4, SmallSize
<1>6. /\ HDR \in Nat /\ RESERVE \in Nat /\ RESERVE % ALIGN = 0 /\ SIZE_T \in Nat
      /\ ALIGN \in Nat \ {0} /\ HeapStart \in Nat \ {0}
  BY AlignAssumption, SizesAssumption, HeapAssumption
<1>7. PICK r \in Nat : r = f.reserve /\ r % ALIGN = 0 /\ r <= RESERVE
  BY <1>4, <1>6
<1>8. total = n + r /\ total \in Nat /\ total % ALIGN = 0 /\ n <= total
  <2>1. PICK m \in Nat : m = n + r /\ m < SIZE_T
    BY <1>5, <1>6, <1>7
  <2>2. Wrap(m) = m
    BY <1>6, <2>1 DEF Wrap
  <2>3. m % ALIGN = 0
    BY <1>5, <1>7, <2>1, AlignedSum
  <2> QED BY <1>1, <1>5, <1>7, <2>1, <2>2, <2>3
<1>9. Got(f) = Bytes(b, total)
  <2>1. b + HDR + n + r - 1 = b + HDR + total - 1
    BY <1>4, <1>5, <1>6, <1>8
  <2> QED BY <1>1, <1>7, <2>1 DEF Got, Bytes
<1>10. HeapOK(h) /\ CoalescedBut(h, {}) /\ Covered(h) \cap Bytes(b, total) = {}
  <2>1. t \in Waiting(pc)
    BY <1>3 DEF Waiting
  <2>2. Covered(h) \cap Got(f) = {}
    BY <1>1, <2>1 DEF IInv, Tiled
  <2> QED BY <1>1, <1>9, <2>2 DEF IInv
<1>11. b \in Nat \ {0} /\ b # NULL
  BY <1>4, <1>6 DEF NULL
<1>12. /\ HeapOK(s) /\ CoalescedBut(s, {}) /\ Kept(h, s, {b}, a)
       /\ Covered(s) = Covered(h) \cup Bytes(b, total)
       /\ Used(s) = Used(h) \cup {b} /\ b \notin Used(h)
       /\ s.blk[b].arena = a /\ n <= s.blk[b].size
  <2>1. s = split_block(AppendBlock(h, a, b, total), b, n)
    BY <1>2
  <2>2. /\ a \in Arenas /\ b % ALIGN = 0 /\ HeapStart <= b
        /\ \A c \in Blocks(h) : h.blk[c].arena = a => c < b
    BY <1>4
  <2>3. n \in Nat /\ n % ALIGN = 0 /\ ALIGN <= n /\ n + HDR + ALIGN < SIZE_T
    BY <1>5
  <2>4. total \in Nat /\ total % ALIGN = 0 /\ n <= total
    BY <1>8
  <2>5. HeapOK(h) /\ CoalescedBut(h, {}) /\ Covered(h) \cap Bytes(b, total) = {}
    BY <1>10
  <2>6. b \in Nat \ {0}
    BY <1>11
  <2>7. Appendable(h, a, b, n, total)
    BY <2>2, <2>3, <2>4, <2>5, <2>6 DEF Appendable
  <2>8. Appended(h, s, a, b, n, total)
    BY <2>1, <2>7, Appends
  <2> QED BY <2>8 DEF Appended
<1>13. "allocated" \in Positions /\ "allocated" \notin WithSbrk /\ "allocated" \notin Awaited
  BY DEF Positions, WithSbrk, Awaited
<1>14. Moves(t, "allocated", f)
  BY <1>1, <1>2, <1>13, GotoMoves
<1>15. /\ pc'[t] = "allocated" /\ frame' = frame
       /\ \A w \in Threads \ {t} : pc'[w] = pc[w]
  BY <1>2, <1>14, MovesAlone
<1>16. TypeOK'
  BY <1>2, <1>14, TypeSame DEF IInv, TypeOK, locks
<1>17. LockInv'
  BY <1>1, <1>2, <1>3, <1>13, <1>14, LocksSame
<1>18. HeldBy("append", f) \subseteq Used(h)
  BY <1>1, <1>2, HoldsUsed
<1>19. /\ ThreadOK(s, "allocated", f)
       /\ Used(s) = (Used(h) \ HeldBy("append", f)) \cup HeldBy("allocated", f)
       /\ HeldBy("allocated", f) \cap (Used(h) \ HeldBy("append", f)) = {}
  <2>1. PICK q : q = "append"
    OBVIOUS
  <2>2. /\ ThreadOK(h, q, f) /\ q \notin {"idle", "allocated", "unlock"}
        /\ HeldBy(q, f) \subseteq Used(h)
    BY <1>4, <1>18, <2>1
  <2>3. /\ f.new # NULL /\ f.new \notin Used(h) /\ Kept(h, s, {f.new}, a)
        /\ Used(s) = Used(h) \cup {f.new} /\ f.size <= s.blk[f.new].size
    BY <1>1, <1>11, <1>12
  <2>4. /\ ThreadOK(s, "allocated", f)
        /\ Used(s) = (Used(h) \ HeldBy(q, f)) \cup HeldBy("allocated", f)
        /\ HeldBy("allocated", f) \cap (Used(h) \ HeldBy(q, f)) = {}
    BY <1>4, <2>2, <2>3, GotNew
  <2> QED BY <2>1, <2>4
<1>20. PICK pcs, fs, u, top, pcs1 : pcs = pc /\ fs = frame /\ u = user /\ top = brk /\ pcs1 = pc'
  OBVIOUS
<1>21. /\ \A w \in Threads : ThreadOK(h, pcs[w], fs[w])
       /\ Owned(h, u, HeldByAll(pcs, fs)) /\ Tiled(h, top, pcs, fs)
  BY <1>1, <1>20 DEF IInv
<1>22. \A w \in Threads \ {t} : pcs1[w] = pcs[w]
  BY <1>15, <1>20
<1>23. \A w \in Threads : ThreadOK(s, pcs1[w], fs[w])
  <2>1. ThreadOK(s, pcs1[t], fs[t])
    BY <1>1, <1>15, <1>19, <1>20
  <2>2. {b} \cap Used(h) \subseteq HeldBy(pcs[t], fs[t])
    BY <1>12
  <2>3. \A w \in Threads \ {t} : pcs[w] \in Awaited => fs[w].arena # a
    BY <1>1, <1>3, <1>20, AloneInArena
  <2> QED BY <1>12, <1>21, <1>22, <2>1, <2>2, <2>3, FramesStep
<1>24. Owned(s, u, HeldByAll(pcs1, fs))
  <2>1. PICK H, G : H = HeldByAll(pcs, fs) /\ G = HeldByAll(pcs1, fs)
    OBVIOUS
  <2>2. /\ H[t] = HeldBy("append", f) /\ G[t] = HeldBy("allocated", f)
        /\ \A w \in Threads \ {t} : G[w] = H[w]
    BY <1>1, <1>2, <1>15, <1>20, <1>22, <2>1 DEF HeldByAll
  <2>3. Owned(s, u, G)
    BY <1>12, <1>19, <1>21, <2>1, <2>2, OwnedHeap
  <2> QED BY <2>1, <2>3
<1>25. Tiled(s, top, pcs1, fs)
  <2>1. pcs[t] \in Awaited /\ pcs1[t] \notin Awaited /\ Covered(s) = Covered(h) \cup Got(fs[t])
    BY <1>1, <1>3, <1>9, <1>12, <1>13, <1>15, <1>20
  <2> QED BY <1>21, <1>22, <2>1, TiledAppend
<1> QED BY <1>1, <1>2, <1>12, <1>15, <1>16, <1>17, <1>20, <1>23, <1>24, <1>25 DEF IInv
(* get_thread_arena.                                                        *)
LEMMA ArenaChosen ==
  ASSUME IInv, NothingWraps, NEW t \in Threads, NEW id, get_thread_arena(t, id)
  PROVE  /\ id \in Arenas /\ thread_arena_id' \in [Threads -> Arenas \cup {-1}]
         /\ next_arena_id' = Cardinality({w \in Threads : thread_arena_id'[w] # -1})
<1>1. /\ thread_arena_id \in [Threads -> Arenas \cup {-1}]
      /\ next_arena_id = Cardinality({w \in Threads : thread_arena_id[w] # -1})
  BY DEF IInv, TypeOK
<1>2. PICK S : S = {w \in Threads : thread_arena_id[w] # -1}
  OBVIOUS
<1>3. /\ IsFiniteSet(Threads) /\ S \subseteq Threads /\ NUM_ARENAS \in Nat \ {0} /\ INT_MAX \in Nat
      /\ Cardinality(Threads) <= INT_MAX
  BY <1>2, ThreadsAssumption, ArenasAssumption DEF NothingWraps
<1>4. IsFiniteSet(S) /\ Cardinality(S) \in Nat /\ Cardinality(Threads) \in Nat
  BY <1>3, FS_Subset, FS_CardinalityType
<1>5. CASE /\ thread_arena_id[t] = -1 /\ id = IntRem(next_arena_id, NUM_ARENAS)
           /\ next_arena_id' = Incremented(next_arena_id)
           /\ thread_arena_id' = [thread_arena_id EXCEPT ![t] = id]
  <2>1. PICK n \in Nat : n = next_arena_id /\ n = Cardinality(S)
    BY <1>1, <1>2, <1>4
  <2>2. t \notin S
    BY <1>2, <1>5
  <2>3. Cardinality(S \cup {t}) = n + 1 /\ IsFiniteSet(S \cup {t})
    BY <1>4, <2>1, <2>2, FS_AddElement
  <2>4. S \cup {t} \subseteq Threads
    BY <1>3
  <2>5. Cardinality(S \cup {t}) <= Cardinality(Threads)
    BY <1>3, <2>4, FS_Subset
  <2>6. n + 1 <= INT_MAX
    BY <1>3, <1>4, <2>1, <2>3, <2>5
  <2>7. next_arena_id' = n + 1
    BY <1>3, <1>5, <2>1, <2>6 DEF Incremented
  <2>8. id \in Arenas
    <3>1. n % NUM_ARENAS \in 0 .. NUM_ARENAS - 1
      BY <1>3
    <3>2. IntRem(n, NUM_ARENAS) = n % NUM_ARENAS
      BY DEF IntRem
    <3> QED BY <1>5, <2>1, <3>1, <3>2 DEF Arenas
  <2>9. id # -1
    BY <1>3, <2>8 DEF Arenas
  <2>10. {w \in Threads : thread_arena_id'[w] # -1} = S \cup {t}
    BY <1>1, <1>2, <1>5, <2>9
  <2> QED BY <1>1, <1>5, <2>3, <2>7, <2>8, <2>10
<1>6. CASE thread_arena_id[t] # -1 /\ id = thread_arena_id[t] /\ UNCHANGED ids
  BY <1>1, <1>6 DEF ids
<1> QED BY <1>5, <1>6 DEF get_thread_arena

(* A call begins: it has no lock.                                           *)
LEMMA LocksEnter ==
  ASSUME IInv, NEW t \in Threads, pc[t] = "idle", NEW f, Moves(t, "lock", f), UNCHANGED locks
  PROVE  LockInv'
<1>1. /\ pc'[t] = "lock" /\ frame'[t] = f
      /\ \A w \in Threads \ {t} : pc'[w] = pc[w] /\ frame'[w] = frame[w]
  BY MovesAlone
<1>2. LockInv /\ f.arena \in Arenas /\ UNCHANGED <<arena_lock, sbrk_mutex>>
  BY DEF IInv, Moves, Frames, locks
<1>3. \A a \in Arenas : arena_lock[a] # t
  BY <1>2 DEF LockInv
<1>4. "lock" \notin WithSbrk /\ "idle" \notin WithSbrk
  BY DEF WithSbrk
<1>5. \A w \in Threads : (pc'[w] \notin {"idle", "lock"}) <=> (arena_lock'[frame'[w].arena] = w)
  BY <1>1, <1>2, <1>3 DEF LockInv
<1>6. \A w \in Threads, a \in Arenas : arena_lock'[a] = w => frame'[w].arena = a
  BY <1>1, <1>2, <1>3 DEF LockInv
<1>7. \A w \in Threads : (sbrk_mutex' = w) <=> (pc'[w] \in WithSbrk)
  BY <1>1, <1>2, <1>4 DEF LockInv
<1> QED BY <1>5, <1>6, <1>7 DEF LockInv

(* The rounded size of a request.                                           *)
LEMMA RequestSize ==
  ASSUME NEW want \in Nat, Small(want)
  PROVE  /\ ALIGN8(want) \in Nat /\ ALIGN8(want) % ALIGN = 0 /\ want <= ALIGN8(want)
         /\ ALIGN8(want) # 0 => /\ ALIGN <= ALIGN8(want)
                                /\ ALIGN8(want) + HDR + RESERVE + ALIGN < SIZE_T \div 2
<1>1. ALIGN \in Nat /\ HDR \in Nat /\ RESERVE \in Nat /\ SIZE_T \in Nat
  BY AlignAssumption, SizesAssumption
<1>2. PICK half \in Nat : half = SIZE_T \div 2 /\ half <= SIZE_T
  BY <1>1
<1>3. want + HDR + RESERVE + 2 * ALIGN < half
  BY <1>2 DEF Small
<1>4. want + ALIGN < SIZE_T
  BY <1>1, <1>2, <1>3
<1>5. PICK n : n = ALIGN8(want)
  OBVIOUS
<1>6. n \in Nat /\ n % ALIGN = 0 /\ want <= n /\ n < want + ALIGN
  BY <1>4, <1>5, RoundsUp
<1>7. n # 0 => ALIGN <= n
  BY <1>1, <1>6, Positive
<1>8. n + HDR + RESERVE + ALIGN < half
  BY <1>1, <1>3, <1>6
<1> QED BY <1>2, <1>5, <1>6, <1>7, <1>8

(* Only calls changes.                                                      *)
LEMMA NothingHappens ==
  ASSUME IInv, UNCHANGED <<heap, brk, locks, ids, contention_detected, user, pc, frame>>
  PROVE  IInv'
BY DEF IInv, TypeOK, LockInv, locks, ids

(* An idle call holds nothing.                                              *)
LEMMA IdleHolds ==
  ASSUME IInv, NEW t \in Threads, pc[t] = "idle"
  PROVE  HeldBy(pc[t], frame[t]) = {}
<1>1. frame[t] = NoFrame
  BY AtPosition DEF CallOK
<1>2. ~HoldsOld("idle", NoFrame) /\ ~HoldsNew("idle", NoFrame)
  BY DEF HoldsOld, HoldsNew, NoFrame
<1> QED BY <1>1, <1>2 DEF HeldBy
(* The entry of malloc.                                                     *)
LEMMA MallocOfInv ==
  ASSUME IInv, NothingWraps, NEW t \in Threads, pc[t] = "idle", NEW want \in Nat, Small(want),
         MallocOf(t, want), UNCHANGED <<heap, brk, locks, contention_detected>>
  PROVE  IInv'
<1>1. UNCHANGED user
  BY DEF MallocOf
<1>2. CASE ALIGN8(want) = 0 /\ UNCHANGED <<ids, pc, frame>>
  BY <1>1, <1>2, NothingHappens
<1>3. CASE /\ ALIGN8(want) # 0
           /\ \E id \in -NUM_ARENAS .. NUM_ARENAS :
                 /\ get_thread_arena(t, id)
                 /\ frame' = [frame EXCEPT ![t] = [NoFrame EXCEPT
                        !.fn = "malloc", !.want = want, !.size = ALIGN8(want), !.arena = id]]
           /\ Goto(t, "lock")
  <2>1. PICK id, n, k : /\ get_thread_arena(t, id) /\ n = ALIGN8(want)
                        /\ k = [NoFrame EXCEPT !.fn = "malloc", !.want = want, !.size = n, !.arena = id]
                        /\ frame' = [frame EXCEPT ![t] = k]
    BY <1>3
  <2>2. /\ id \in Arenas /\ thread_arena_id' \in [Threads -> Arenas \cup {-1}]
        /\ next_arena_id' = Cardinality({w \in Threads : thread_arena_id'[w] # -1})
    BY <2>1, ArenaChosen
  <2>3. /\ n \in Nat /\ n % ALIGN = 0 /\ want <= n /\ ALIGN <= n
        /\ n + HDR + RESERVE + ALIGN < SIZE_T \div 2
    BY <1>3, <2>1, RequestSize
  <2>4. /\ k \in Frames /\ k.fn = "malloc" /\ k.want = want /\ k.size = n /\ k.arena = id
        /\ k.old = NULL /\ k.new = NULL
    BY <2>1, <2>2, <2>3 DEF NoFrame, Frames, NULL
  <2>5. "lock" \in Positions /\ "lock" \notin Awaited /\ pc[t] \notin Awaited
    BY DEF Positions, Awaited
  <2>6. Moves(t, "lock", k)
    BY <1>3, <2>1, <2>4, <2>5 DEF Moves, Goto
  <2>7. TypeOK'
    <3>1. pc' \in [Threads -> Positions] /\ frame' \in [Threads -> Frames]
      BY <2>6, MovesAlone
    <3> QED BY <1>1, <2>2, <3>1 DEF IInv, TypeOK, locks
  <2>8. LockInv'
    BY <2>6, LocksEnter
  <2>9. HeldBy("lock", k) = {} /\ ~HoldsOld("lock", k) /\ ~HoldsNew("lock", k)
    BY <2>4 DEF HeldBy, HoldsOld, HoldsNew
  <2>10. PICK h : h = heap
    OBVIOUS
  <2>11. ThreadOK(h, "lock", k)
    <3>1. CallOK("lock", k)
      BY <2>4 DEF CallOK, Allocating, Awaited
    <3>2. SizeOK(k)
      BY <2>3, <2>4 DEF SizeOK
    <3>3. HeldOK(h, "lock", k)
      BY <2>9 DEF HeldOK
    <3> QED BY <2>5, <3>1, <3>2, <3>3 DEF ThreadOK, AwaitedOK
  <2>12. HeldBy("lock", k) = HeldBy(pc[t], frame[t])
    BY <2>9, IdleHolds
  <2> QED BY <1>1, <2>5, <2>6, <2>7, <2>8, <2>10, <2>11, <2>12, QuietStep
<1> QED BY <1>2, <1>3 DEF MallocOf

(* malloc.                                                                  *)
LEMMA MallocInv ==
  ASSUME IInv, NothingWraps, NEW t \in Threads, NEW n \in Sizes, Malloc(t, n)
  PROVE  IInv'
<1>1. n \in Nat /\ Small(n)
  BY SizesAssumption DEF NothingWraps
<1> QED BY <1>1, MallocOfInv DEF Malloc, Enter

(* calloc.                                                                  *)
LEMMA CallocInv ==
  ASSUME IInv, NothingWraps, NEW t \in Threads, NEW n \in Sizes, NEW k \in Items, Calloc(t, k, n)
  PROVE  IInv'
<1>1. /\ pc[t] = "idle" /\ UNCHANGED <<heap, brk, locks, contention_detected>>
      /\ \/ UNCHANGED <<ids, pc, frame, user>>
         \/ /\ k = 0 \/ n <= (SIZE_T - 1) \div k
            /\ MallocOf(t, k * n)
  BY DEF Calloc, Enter
<1>2. CASE UNCHANGED <<ids, pc, frame, user>>
  BY <1>1, <1>2, NothingHappens
<1>3. CASE /\ k = 0 \/ n <= (SIZE_T - 1) \div k
           /\ MallocOf(t, k * n)
  <2>1. PICK m : m = k * n
    OBVIOUS
  <2>2. n \in Nat /\ k \in Nat
    BY SizesAssumption
  <2>3. m \in Nat
    BY <2>1, <2>2
  <2>4. Small(m)
    BY <1>3, <2>1 DEF NothingWraps
  <2>5. MallocOf(t, m)
    BY <1>3, <2>1
  <2> QED BY <1>1, <2>3, <2>4, <2>5, MallocOfInv
<1> QED BY <1>1, <1>2, <1>3

(* The entries of free and realloc, which take block b from the program.    *)
LEMMA TakesFromUser ==
  ASSUME IInv, NEW t \in Threads, pc[t] = "idle", NEW b \in DOMAIN user,
         user' = Without(user, b), UNCHANGED <<heap, brk, locks, ids, contention_detected>>,
         NEW k \in Frames, Moves(t, "lock", k), k.fn \in {"free", "realloc"}, SizeOK(k),
         k.old = b, k.new = NULL, k.arena = heap.blk[b].arena,
         k.fn = "realloc" => k.had = user[b]
  PROVE  IInv'
<1>1. PICK h, u : h = heap /\ u = user
  OBVIOUS
<1>2. HeapOK(h) /\ Owned(h, u, HeldByAll(pc, frame)) /\ u \in [DOMAIN u -> Nat]
  BY <1>1 DEF IInv, TypeOK
<1>3. \A x \in DOMAIN u : x \in Blocks(h) /\ u[x] <= h.blk[x].size
  BY <1>2 DEF Owned
<1>4. b \in Blocks(h) /\ b # NULL
  BY <1>1, <1>2, <1>3 DEF HeapOK, HeapType, NULL
<1>5. /\ DOMAIN user' = DOMAIN u \ {b} /\ \A x \in DOMAIN u \ {b} : user'[x] = u[x]
      /\ user' \in [DOMAIN user' -> Nat]
  <2>1. PICK v : v = Without(u, b)
    OBVIOUS
  <2>2. DOMAIN v = DOMAIN u \ {b} /\ \A x \in DOMAIN u \ {b} : v[x] = u[x]
    BY <2>1 DEF Without
  <2>3. v \in [DOMAIN v -> Nat]
    BY <1>2, <2>1, <2>2 DEF Without
  <2> QED BY <1>1, <2>1, <2>2, <2>3
<1>6. "lock" \notin Awaited /\ pc[t] \notin Awaited
  BY DEF Awaited
<1>7. TypeOK'
  BY <1>5, TypeSame DEF IInv, TypeOK, locks
<1>8. LockInv'
  BY LocksEnter
<1>9. HoldsOld("lock", k) /\ ~HoldsNew("lock", k)
  BY <1>4 DEF HoldsOld, HoldsNew
<1>10. HeldBy("lock", k) = {b}
  BY <1>9 DEF HeldBy
<1>11. CallOK("lock", k)
  BY <1>4 DEF CallOK, Allocating, Awaited
<1>12. HeldOK(h, "lock", k)
  BY <1>1, <1>3, <1>9 DEF HeldOK
<1>13. ThreadOK(h, "lock", k)
  BY <1>6, <1>11, <1>12 DEF ThreadOK, AwaitedOK
<1>14. \A x \in DOMAIN user' : user'[x] <= heap.blk[x].size
  BY <1>1, <1>3, <1>5
<1>15. /\ DOMAIN user' \cup HeldBy("lock", k) = DOMAIN user \cup HeldBy(pc[t], frame[t])
       /\ DOMAIN user' \cap HeldBy("lock", k) = {}
  BY <1>1, <1>5, <1>10, IdleHolds
<1> QED BY <1>1, <1>6, <1>7, <1>8, <1>13, <1>14, <1>15, PassStep
(* A block of the program is in an arena.                                   *)
LEMMA ArenaOfUser ==
  ASSUME IInv, NEW b \in DOMAIN user
  PROVE  heap.blk[b].arena \in Arenas /\ b \in Nat /\ user[b] \in Nat
<1>1. b \in Blocks(heap)
  BY DEF IInv, Owned
<1> QED BY <1>1 DEF IInv, TypeOK, HeapOK, HeapType, Block

(* The entry of free.                                                       *)
LEMMA FreeOfInv ==
  ASSUME IInv, NEW t \in Threads, pc[t] = "idle", NEW b \in DOMAIN user, FreeOf(t, b, TRUE),
         UNCHANGED <<heap, brk, locks, contention_detected>>
  PROVE  IInv'
<1>1. PICK k : k = [NoFrame EXCEPT !.fn = "free", !.old = b, !.arena = heap.blk[b].arena]
  OBVIOUS
<1>2. /\ user' = Without(user, b) /\ frame' = [frame EXCEPT ![t] = k] /\ Goto(t, "lock") /\ UNCHANGED ids
  BY <1>1 DEF FreeOf
<1>3. heap.blk[b].arena \in Arenas /\ b \in Nat
  BY ArenaOfUser
<1>4. /\ k \in Frames /\ k.fn = "free" /\ k.old = b /\ k.new = NULL /\ k.arena = heap.blk[b].arena
  BY <1>1, <1>3 DEF NoFrame, Frames, NULL
<1>5. Moves(t, "lock", k) /\ SizeOK(k)
  BY <1>2, <1>4 DEF Moves, Goto, Positions, SizeOK
<1> QED BY <1>2, <1>4, <1>5, TakesFromUser

(* The entry of realloc.                                                    *)
LEMMA ReallocOfInv ==
  ASSUME IInv, NEW t \in Threads, pc[t] = "idle", NEW b \in DOMAIN user, NEW want \in Nat, Small(want),
         ALIGN8(want) # 0, ReallocOf(t, b, want), UNCHANGED <<heap, brk, locks, contention_detected>>
  PROVE  IInv'
<1>1. PICK n, k : /\ n = ALIGN8(want)
                  /\ k = [NoFrame EXCEPT !.fn = "realloc", !.want = want, !.size = n,
                              !.arena = heap.blk[b].arena, !.old = b, !.had = user[b]]
  OBVIOUS
<1>2. /\ user' = Without(user, b) /\ frame' = [frame EXCEPT ![t] = k] /\ Goto(t, "lock") /\ UNCHANGED ids
  BY <1>1 DEF ReallocOf
<1>3. heap.blk[b].arena \in Arenas /\ b \in Nat /\ user[b] \in Nat
  BY ArenaOfUser
<1>4. /\ n \in Nat /\ n % ALIGN = 0 /\ want <= n /\ ALIGN <= n
      /\ n + HDR + RESERVE + ALIGN < SIZE_T \div 2
  BY <1>1, RequestSize
<1>5. /\ k \in Frames /\ k.fn = "realloc" /\ k.old = b /\ k.new = NULL /\ k.arena = heap.blk[b].arena
      /\ k.had = user[b] /\ k.want = want /\ k.size = n
  BY <1>1, <1>3, <1>4 DEF NoFrame, Frames, NULL
<1>6. SizeOK(k)
  BY <1>4, <1>5 DEF SizeOK
<1>7. Moves(t, "lock", k)
  BY <1>2, <1>5 DEF Moves, Goto, Positions
<1> QED BY <1>2, <1>5, <1>6, <1>7, TakesFromUser

(* realloc.                                                                 *)
LEMMA ReallocInv ==
  ASSUME IInv, NothingWraps, NEW t \in Threads, NEW b \in DOMAIN user, NEW n \in Sizes, Realloc(t, b, n)
  PROVE  IInv'
<1>1. n \in Nat /\ Small(n)
  BY SizesAssumption DEF NothingWraps
<1>2. /\ pc[t] = "idle" /\ UNCHANGED <<heap, brk, locks, contention_detected>>
      /\ \/ ALIGN8(n) # 0 /\ ReallocOf(t, b, n)
         \/ ALIGN8(n) = 0 /\ FreeOf(t, b, n = 0)
  BY DEF Realloc, Enter
<1>3. CASE ALIGN8(n) # 0 /\ ReallocOf(t, b, n)
  BY <1>1, <1>2, <1>3, ReallocOfInv
<1>4. CASE ALIGN8(n) = 0 /\ FreeOf(t, b, n = 0)
  <2>1. n <= ALIGN8(n)
    BY <1>1, RequestSize
  <2>2. n = 0
    BY <1>1, <1>4, <2>1
  <2>3. FreeOf(t, b, TRUE)
    BY <1>4, <2>2 DEF FreeOf
  <2> QED BY <1>2, <2>3, FreeOfInv
<1> QED BY <1>2, <1>3, <1>4

(* The arena's lock is given back and the call returns.                     *)
LEMMA UnlockArenaInv ==
  ASSUME IInv, NEW t \in Threads, UnlockArena(t)
  PROVE  IInv'
<1>1. PICK h, u, v, f : h = heap /\ u = user /\ v = user' /\ f = frame[t]
  OBVIOUS
<1>2. /\ pc[t] = "unlock" /\ arena_lock' = [arena_lock EXCEPT ![f.arena] = NONE]
      /\ v = CASE f.new # NULL -> With(u, f.new, f.want)
               [] f.new = NULL /\ f.fn = "realloc" -> With(u, f.old, f.had)
               [] OTHER -> u
      /\ frame' = [frame EXCEPT ![t] = NoFrame] /\ Goto(t, "idle")
      /\ UNCHANGED <<heap, brk, sbrk_mutex, ids, contention_detected, calls>>
  BY <1>1 DEF UnlockArena
<1>3. CallOK("unlock", f) /\ SizeOK(f) /\ HeldOK(h, "unlock", f) /\ f \in Frames
  BY <1>1, <1>2, AtPosition
<1>4. NoFrame \in Frames
  BY ArenasAssumption DEF NoFrame, Frames, NULL, Arenas
<1>5. /\ "idle" \in Positions /\ "idle" \notin WithSbrk /\ "idle" \notin Awaited
      /\ "unlock" \notin WithSbrk /\ "unlock" \notin Awaited
  BY DEF Positions, WithSbrk, Awaited
<1>6. Moves(t, "idle", NoFrame)
  BY <1>2, <1>4, <1>5 DEF Moves, Goto
<1>7. /\ pc'[t] = "idle" /\ frame'[t] = NoFrame
      /\ \A w \in Threads \ {t} : pc'[w] = pc[w] /\ frame'[w] = frame[w]
  BY <1>6, MovesAlone
<1>8. /\ f.arena \in Arenas /\ arena_lock[f.arena] = t /\ arena_lock \in [Arenas -> Threads \cup {NONE}]
      /\ NoFrame.arena = 0 /\ 0 \in Arenas
  BY <1>1, <1>2, AloneInArena, ArenasAssumption DEF IInv, TypeOK, NoFrame, Arenas
<1>9. LockInv'
  <2>1. LockInv /\ \A w \in Threads : frame[w].arena \in Arenas
    BY DEF IInv, TypeOK, Frames
  <2>2. arena_lock'[f.arena] = NONE /\ \A a \in Arenas \ {f.arena} : arena_lock'[a] = arena_lock[a]
    BY <1>2, <1>8
  <2>3. \A a \in Arenas : arena_lock'[a] # t
    BY <1>1, <2>1, <2>2, ThreadsAssumption DEF LockInv, NONE
  <2>4. ASSUME NEW w \in Threads
        PROVE  (pc'[w] \notin {"idle", "lock"}) <=> (arena_lock'[frame'[w].arena] = w)
    <3>1. CASE w = t
      BY <3>1, <1>7, <1>8, <2>3
    <3>2. CASE w # t
      <4>1. CASE frame[w].arena = f.arena
        BY <1>7, <1>8, <2>1, <2>2, <3>2, <4>1, ThreadsAssumption DEF LockInv, NONE
      <4>2. CASE frame[w].arena # f.arena
        BY <1>7, <2>1, <2>2, <3>2, <4>2 DEF LockInv
      <4> QED BY <4>1, <4>2
    <3> QED BY <3>1, <3>2
  <2>5. ASSUME NEW w \in Threads, NEW a \in Arenas, arena_lock'[a] = w
        PROVE  frame'[w].arena = a
    <3>1. w # t /\ a # f.arena
      BY <2>2, <2>3, <2>5, ThreadsAssumption DEF NONE
    <3> QED BY <1>7, <2>1, <2>2, <2>5, <3>1 DEF LockInv
  <2>6. \A w \in Threads : (sbrk_mutex' = w) <=> (pc'[w] \in WithSbrk)
    BY <1>2, <1>5, <1>7, <2>1 DEF LockInv
  <2> QED BY <2>4, <2>5, <2>6 DEF LockInv
<1>10. /\ Owned(h, u, HeldByAll(pc, frame)) /\ u \in [DOMAIN u -> Nat] /\ HeapOK(h)
       /\ HeldBy("unlock", f) \subseteq Used(h) /\ HeldBy("unlock", f) \cap DOMAIN u = {}
  <2>1. PICK H : H = HeldByAll(pc, frame)
    OBVIOUS
  <2>2. Owned(h, u, H) /\ H[t] = HeldBy("unlock", f)
    BY <1>1, <1>2, <2>1 DEF IInv, HeldByAll
  <2>3. H[t] \subseteq Used(h) /\ H[t] \cap DOMAIN u = {}
    BY <2>2, HeldIsUsed
  <2> QED BY <1>1, <2>1, <2>2, <2>3 DEF IInv, TypeOK
<1>11. \A x \in DOMAIN u : x \in Blocks(h) /\ u[x] <= h.blk[x].size
  BY <1>10 DEF Owned
<1>12. /\ DOMAIN v = DOMAIN u \cup HeldBy("unlock", f) /\ v \in [DOMAIN v -> Nat]
       /\ \A x \in DOMAIN v : v[x] <= h.blk[x].size
  <2>1. ASSUME NEW b \in Blocks(h), NEW n \in Nat, n <= h.blk[b].size, v = With(u, b, n)
        PROVE  /\ DOMAIN v = DOMAIN u \cup {b} /\ v \in [DOMAIN v -> Nat]
               /\ \A x \in DOMAIN v : v[x] <= h.blk[x].size
    <3>1. DOMAIN v = DOMAIN u \cup {b} /\ \A x \in DOMAIN v : v[x] = IF x = b THEN n ELSE u[x]
      BY <2>1 DEF With
    <3>2. v = [x \in DOMAIN u \cup {b} |-> IF x = b THEN n ELSE u[x]]
      BY <2>1 DEF With
    <3>3. v \in [DOMAIN v -> Nat]
      BY <1>10, <3>1, <3>2
    <3> QED BY <1>11, <2>1, <3>1, <3>3
  <2>2. CASE f.new # NULL
    <3>1. HoldsNew("unlock", f) /\ ~HoldsOld("unlock", f)
      BY <2>2 DEF HoldsNew, HoldsOld
    <3>2. HeldBy("unlock", f) = {f.new}
      BY <3>1 DEF HeldBy
    <3>3. f.new \in Blocks(h) /\ f.size <= h.blk[f.new].size
      BY <1>3, <1>10, <3>1, <3>2 DEF HeldOK, Used
    <3>4. f.fn \in {"malloc", "realloc"}
      BY <1>3, <2>2 DEF CallOK
    <3>5. f.want <= f.size /\ f.want \in Nat /\ f.size \in Nat /\ h.blk[f.new].size \in Nat
      BY <1>3, <1>10, <3>3, <3>4 DEF SizeOK, Frames, HeapOK, HeapType, Block
    <3>6. f.want <= h.blk[f.new].size
      BY <3>3, <3>5
    <3>7. PICK b, n : b = f.new /\ n = f.want
      OBVIOUS
    <3>8. v = With(u, b, n)
      BY <1>2, <2>2, <3>7
    <3> QED BY <2>1, <3>2, <3>3, <3>5, <3>6, <3>7, <3>8
  <2>3. CASE f.new = NULL /\ f.fn = "realloc"
    <3>1. HoldsOld("unlock", f) /\ ~HoldsNew("unlock", f)
      BY <1>3, <2>3 DEF HoldsNew, HoldsOld, CallOK
    <3>2. HeldBy("unlock", f) = {f.old}
      BY <3>1 DEF HeldBy
    <3>3. f.old \in Blocks(h) /\ f.had <= h.blk[f.old].size /\ f.had \in Nat
      BY <1>3, <1>10, <2>3, <3>1, <3>2 DEF HeldOK, Used, Frames
    <3>4. PICK b, n : b = f.old /\ n = f.had
      OBVIOUS
    <3>5. v = With(u, b, n)
      BY <1>2, <2>3, <3>4
    <3> QED BY <2>1, <3>2, <3>3, <3>4, <3>5
  <2>4. CASE f.new = NULL /\ f.fn # "realloc"
    <3>1. v = u
      BY <1>2, <2>4
    <3>2. ~HoldsOld("unlock", f) /\ ~HoldsNew("unlock", f)
      BY <2>4 DEF HoldsOld, HoldsNew
    <3>3. HeldBy("unlock", f) = {}
      BY <3>2 DEF HeldBy
    <3> QED BY <1>10, <1>11, <3>1, <3>3
  <2> QED BY <2>2, <2>3, <2>4
<1>13. TypeOK'
  <2>1. arena_lock' \in [Arenas -> Threads \cup {NONE}]
    BY <1>2, <1>8
  <2> QED BY <1>1, <1>2, <1>6, <1>12, <2>1, TypeSame DEF IInv, TypeOK
<1>14. ~HoldsOld("idle", NoFrame) /\ ~HoldsNew("idle", NoFrame)
  BY DEF HoldsOld, HoldsNew, NoFrame
<1>15. HeldBy("idle", NoFrame) = {}
  BY <1>14 DEF HeldBy
<1>16. ThreadOK(h, "idle", NoFrame)
  <2>1. CallOK("idle", NoFrame) /\ SizeOK(NoFrame)
    BY DEF CallOK, SizeOK, NoFrame, Allocating, Awaited
  <2>2. HeldOK(h, "idle", NoFrame)
    BY <1>14 DEF HeldOK
  <2> QED BY <1>5, <2>1, <2>2 DEF ThreadOK, AwaitedOK
<1>17. HeldBy(pc[t], frame[t]) = HeldBy("unlock", f) /\ pc[t] \notin Awaited
  BY <1>1, <1>2, <1>5
<1> QED BY <1>1, <1>2, <1>5, <1>6, <1>9, <1>12, <1>13, <1>15, <1>16, <1>17, PassStep
(* Every step.                                                              *)
LEMMA NextInv ==
  ASSUME IInv, NothingWraps, [Next]_vars
  PROVE  IInv'
<1>1. ASSUME NEW t \in Threads, CallAny(t)  PROVE IInv'
  <2>1. CASE \E n \in Sizes : Malloc(t, n)
    BY <2>1, MallocInv
  <2>2. CASE \E n \in Sizes, k \in Items : Calloc(t, k, n)
    BY <2>2, CallocInv
  <2>3. CASE \E b \in DOMAIN user : Free(t, b)
    BY <2>3, FreeOfInv DEF Free, Enter
  <2>4. CASE \E b \in DOMAIN user, n \in Sizes : Realloc(t, b, n)
    BY <2>4, ReallocInv
  <2> QED BY <1>1, <2>1, <2>2, <2>3, <2>4 DEF CallAny
<1>2. ASSUME NEW t \in Threads, Step(t)  PROVE IInv'
  BY <1>2, LockArenaInv, ArenaFreeInv, ArenaReallocInv, ArenaMallocInv, ExtCheckInv, ExtTryInv,
     ExtLockInv, SbrkInv, SbrkUnlockInv, AppendInv, AllocatedInv, UnlockArenaInv DEF Step
<1>3. CASE Finished
  BY <1>3, NothingHappens DEF Finished, vars
<1>4. CASE UNCHANGED vars
  BY <1>4, NothingHappens DEF vars
<1> QED BY <1>1, <1>2, <1>3, <1>4 DEF Next

-----------------------------------------------------------------------------
(* The invariant is one.                                                    *)
THEOREM AllocatorInvariance ==
  ASSUME NothingWraps
  PROVE  Spec => []IInv
<1>1. Init => IInv
  BY InitInv
<1>2. IInv /\ [Next]_vars => IInv'
  BY NextInv
<1> QED BY <1>1, <1>2, PTL DEF Spec

(* The blocks of all arenas and the memory on its way to one tile the heap  *)
(* up to the break, whatever the threads, arenas, sizes and interleavings.  *)
THEOREM HeapIsTiled ==
  ASSUME NothingWraps
  PROVE  Spec => []BlocksTileHeap
<1>1. IInv => BlocksTileHeap
  BY BytesFromInv
<1> QED BY <1>1, AllocatorInvariance, PTL

(* The lists are in the order of addresses, linked both ways, and no free   *)
(* block has a free one behind it.                                          *)
THEOREM ListsStayInOrder ==
  ASSUME NothingWraps
  PROVE  Spec => []ListsInOrderAndCoalesced
<1>1. IInv => ListsInOrderAndCoalesced
  BY ListsFromInv
<1> QED BY <1>1, AllocatorInvariance, PTL

(* No block is handed out twice or lost, and a block the program has is as  *)
(* large as it asked for, also after a realloc that failed.                 *)
THEOREM BlocksHaveOneOwner ==
  ASSUME NothingWraps
  PROVE  Spec => []AllocatedBlocksHaveOneOwner
<1>1. IInv => AllocatedBlocksHaveOneOwner
  BY OwnersFromInv
<1> QED BY <1>1, AllocatorInvariance, PTL

(* No way out of a call leaves a lock behind, and the locks are taken in    *)
(* one order.                                                               *)
THEOREM LocksInOrder ==
  ASSUME NothingWraps
  PROVE  Spec => []LocksHeldInOrder
<1>1. IInv => LocksHeldInOrder
  BY LocksFromInv
<1> QED BY <1>1, AllocatorInvariance, PTL
=============================================================================
