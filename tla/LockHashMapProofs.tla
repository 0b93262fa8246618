-------------------------- MODULE LockHashMapProofs --------------------------
(***************************************************************************)
(* Safety of the lock-based hashmap for any number of threads, buckets,    *)
(* values, nodes and calls, and its refinement of the bag of chashmap.h.   *)
(***************************************************************************)
EXTENDS LockHashMap, FiniteSetTheorems, TLAPS

(***************************************************************************)
(* Lists as functions of their heads and of the memory: what walks can     *)
(* reach from all heads, and from one link.                                *)
(***************************************************************************)
Node == [m_val : Values, m_next : Addrs \cup {NULL}]
Heads  == [Buckets -> Addrs \cup {NULL}]
Memory == [Addrs -> Node]

HeadsIn(sen, S) == \A b \in Buckets : sen[b] # NULL => sen[b] \in S
NextIn(m, S)    == \A a \in S : m[a].m_next # NULL => m[a].m_next \in S

Reach(sen, m) == {a \in Addrs : \A S \in SUBSET Addrs :
                                    HeadsIn(sen, S) /\ NextIn(m, S) => a \in S}
From(m, l)    == {a \in Addrs : \A S \in SUBSET Addrs :
                                    (l # NULL => l \in S) /\ NextIn(m, S) => a \in S}

ValueBucket(m, a) == BucketOf(m[a].m_val)

(* No two links lead to the same node, and a list holds values of its      *)
(* bucket only.                                                            *)
ListsOK(sen, m) ==
    /\ \A a, c \in Reach(sen, m) :
          m[a].m_next # NULL /\ m[a].m_next = m[c].m_next => a = c
    /\ \A a \in Reach(sen, m), b \in Buckets : sen[b] # NULL => m[a].m_next # sen[b]
    /\ \A b \in Buckets : sen[b] # NULL => ValueBucket(m, sen[b]) = b
    /\ \A a \in Reach(sen, m) : m[a].m_next # NULL =>
          ValueBucket(m, m[a].m_next) = ValueBucket(m, a)

(* The bucket of a value is a bucket.                                       *)
LEMMA BucketOfType ==
    ASSUME NEW v \in Values
    PROVE  BucketOf(v) \in Buckets
BY BucketsAssumption, UlongAssumption, ValuesAssumption DEF BucketOf, Buckets

(* The value of an idle thread is a value.                                  *)
LEMMA AnyValueType == AnyValue \in Values
BY ValuesAssumption DEF AnyValue

(* NULL is no address.                                                      *)
LEMMA NullIsNoNode == NULL \notin Addrs
BY AddrsAssumption DEF NULL

(* Linked, before and after a step, as a function of heads and memory.      *)
LEMMA LinkedIsReach ==
    /\ Linked = Reach(sentinel, mem)
    /\ Linked' = Reach(sentinel', mem')
BY DEF Linked, HoldsWalks, Reach, HeadsIn, NextIn

(* The reachable nodes are in every set that is closed under links.         *)
LEMMA ReachLeast ==
    ASSUME NEW sen, NEW m, NEW S \in SUBSET Addrs, HeadsIn(sen, S), NextIn(m, S)
    PROVE  Reach(sen, m) \subseteq S
BY DEF Reach

(* They are closed themselves.                                              *)
LEMMA ReachClosed ==
    ASSUME NEW sen \in Heads, NEW m \in Memory
    PROVE  /\ Reach(sen, m) \in SUBSET Addrs
           /\ HeadsIn(sen, Reach(sen, m))
           /\ NextIn(m, Reach(sen, m))
<1>1. Reach(sen, m) \in SUBSET Addrs
  BY DEF Reach
<1>2. HeadsIn(sen, Reach(sen, m))
  <2> SUFFICES ASSUME NEW b \in Buckets, sen[b] # NULL PROVE sen[b] \in Reach(sen, m)
    BY DEF HeadsIn
  <2>1. sen[b] \in Addrs
    BY DEF Heads
  <2> QED BY <2>1 DEF Reach, HeadsIn
<1>3. NextIn(m, Reach(sen, m))
  <2> SUFFICES ASSUME NEW a \in Reach(sen, m), m[a].m_next # NULL
               PROVE  m[a].m_next \in Reach(sen, m)
    BY DEF NextIn
  <2>1. m[a].m_next \in Addrs
    BY <1>1 DEF Memory, Node
  <2>2. ASSUME NEW S \in SUBSET Addrs, HeadsIn(sen, S), NextIn(m, S)
        PROVE  m[a].m_next \in S
    <3>1. a \in S
      BY <2>2, ReachLeast
    <3> QED BY <2>2, <3>1 DEF NextIn
  <2> QED BY <2>1, <2>2 DEF Reach
<1> QED BY <1>1, <1>2, <1>3
-----------------------------------------------------------------------------
(***************************************************************************)
(* The changes of the lists: outside of them, at a head by insert_item,    *)
(* and at a head or behind a node by remove_item.                          *)
(***************************************************************************)
LEMMA ReachKept ==
    ASSUME NEW sen \in Heads, NEW m \in Memory, NEW g \in Memory,
           \A a \in Reach(sen, m) : g[a].m_next = m[a].m_next
    PROVE  Reach(sen, g) = Reach(sen, m)
<1> DEFINE R == Reach(sen, m)
<1> DEFINE G == Reach(sen, g)
<1>1. R \in SUBSET Addrs /\ HeadsIn(sen, R) /\ NextIn(m, R)
  BY ReachClosed
<1>2. G \in SUBSET Addrs /\ HeadsIn(sen, G) /\ NextIn(g, G)
  BY ReachClosed
<1> HIDE DEF R, G
<1>3. \A a \in R : g[a].m_next = m[a].m_next
  BY DEF R
<1>4. G \subseteq R
  <2>1. NextIn(g, R)
    BY <1>1, <1>3 DEF NextIn
  <2> QED BY <1>1, <2>1, ReachLeast DEF G
<1>5. R \subseteq G
  <2>1. HeadsIn(sen, G \cap R) /\ NextIn(m, G \cap R)
    BY <1>1, <1>2, <1>3 DEF NextIn, HeadsIn
  <2>2. G \cap R \in SUBSET Addrs
    BY <1>1
  <2>3. R \subseteq G \cap R
    BY <2>1, <2>2, ReachLeast DEF R
  <2> QED BY <2>3
<1> QED BY <1>4, <1>5 DEF R, G

SetHead(sen, b, l) == [sen EXCEPT ![b] = l]

(* A node set as head, linked to the former one, is the only new one.       *)
LEMMA ReachPublish ==
    ASSUME NEW sen \in Heads, NEW m \in Memory, NEW b \in Buckets,
           NEW n \in Addrs, m[n].m_next = sen[b]
    PROVE  Reach(SetHead(sen, b, n), m) = Reach(sen, m) \cup {n}
<1> DEFINE R == Reach(sen, m)
<1> DEFINE s == SetHead(sen, b, n)
<1>0. s \in Heads /\ s[b] = n /\ \A c \in Buckets : c # b => s[c] = sen[c]
  BY DEF Heads, SetHead
<1>1. R \in SUBSET Addrs /\ HeadsIn(sen, R) /\ NextIn(m, R)
  BY ReachClosed
<1> DEFINE G == Reach(s, m)
<1>2. G \in SUBSET Addrs /\ HeadsIn(s, G) /\ NextIn(m, G)
  BY <1>0, ReachClosed
<1>n. n # NULL
  BY NullIsNoNode
<1> HIDE DEF R, G, s
<1>3. G \subseteq R \cup {n}
  <2>1. HeadsIn(s, R \cup {n})
    BY <1>0, <1>1 DEF HeadsIn
  <2>2. NextIn(m, R \cup {n})
    BY <1>1 DEF NextIn, HeadsIn
  <2>3. R \cup {n} \in SUBSET Addrs
    BY <1>1
  <2> QED BY <2>1, <2>2, <2>3, ReachLeast DEF G
<1>4. n \in G
  BY <1>0, <1>2, <1>n DEF HeadsIn
<1>5. R \subseteq G
  <2>1. HeadsIn(sen, G)
    <3> SUFFICES ASSUME NEW c \in Buckets, sen[c] # NULL PROVE sen[c] \in G
      BY DEF HeadsIn
    <3>1. CASE c = b
      BY <1>2, <1>4, <3>1 DEF NextIn
    <3>2. CASE c # b
      BY <1>0, <1>2, <3>2 DEF HeadsIn
    <3> QED BY <3>1, <3>2
  <2> QED BY <1>2, <2>1, ReachLeast DEF R
<1> QED BY <1>3, <1>4, <1>5 DEF R, G, s

(* Unlinking the head takes away that node only.                            *)
LEMMA ReachUnlinkHead ==
    ASSUME NEW sen \in Heads, NEW m \in Memory, ListsOK(sen, m),
           NEW b \in Buckets, NEW n \in Addrs, sen[b] = n
    PROVE  Reach(SetHead(sen, b, m[n].m_next), m) = Reach(sen, m) \ {n}
<1> DEFINE R == Reach(sen, m)
<1> DEFINE s == SetHead(sen, b, m[n].m_next)
<1>0. /\ s \in Heads /\ s[b] = m[n].m_next
      /\ \A c \in Buckets : c # b => s[c] = sen[c]
  BY DEF Heads, SetHead, Memory, Node
<1>1. R \in SUBSET Addrs /\ HeadsIn(sen, R) /\ NextIn(m, R)
  BY ReachClosed
<1> DEFINE G == Reach(s, m)
<1>2. G \in SUBSET Addrs /\ HeadsIn(s, G) /\ NextIn(m, G)
  BY <1>0, ReachClosed
<1>3. /\ \A a \in R : m[a].m_next # n
      /\ \A c \in Buckets : sen[c] = n => c = b
  BY NullIsNoNode DEF ListsOK
<1>4. n \in R
  BY <1>1, NullIsNoNode DEF HeadsIn
<1> HIDE DEF R, G, s
<1>5. G \subseteq R \ {n}
  <2>1. HeadsIn(s, R \ {n})
    BY <1>0, <1>1, <1>3, <1>4 DEF HeadsIn, NextIn
  <2>2. NextIn(m, R \ {n})
    BY <1>1, <1>3 DEF NextIn
  <2>3. R \ {n} \in SUBSET Addrs
    BY <1>1
  <2> QED BY <2>1, <2>2, <2>3, ReachLeast DEF G
<1>6. R \subseteq G \cup {n}
  <2>1. HeadsIn(sen, G \cup {n})
    BY <1>0, <1>2 DEF HeadsIn
  <2>2. NextIn(m, G \cup {n})
    BY <1>0, <1>2 DEF HeadsIn, NextIn
  <2>3. G \cup {n} \in SUBSET Addrs
    BY <1>2
  <2> QED BY <2>1, <2>2, <2>3, ReachLeast DEF R
<1> QED BY <1>5, <1>6 DEF R, G, s

Relink(m, p, l) == [m EXCEPT ![p].m_next = l]

(* A store to a link changes nothing else.                                  *)
LEMMA Relinked ==
    ASSUME NEW m \in Memory, NEW p \in Addrs, NEW l \in Addrs \cup {NULL}
    PROVE  /\ Relink(m, p, l) \in Memory
           /\ Relink(m, p, l)[p].m_next = l
           /\ Relink(m, p, l)[p].m_val = m[p].m_val
           /\ \A a \in Addrs : a # p => Relink(m, p, l)[a] = m[a]
<1> DEFINE g == Relink(m, p, l)
<1>1. [m[p] EXCEPT !.m_next = l] \in Node
  BY DEF Memory, Node
<1>2. \A a \in Addrs : g[a] = IF a = p THEN [m[p] EXCEPT !.m_next = l] ELSE m[a]
  BY DEF Memory, Relink
<1>3. g \in Memory
  BY <1>1 DEF Memory, Relink
<1> HIDE DEF g
<1>4. g[p].m_val = m[p].m_val /\ g[p].m_next = l
  BY <1>2 DEF Memory, Node
<1>5. \A a \in Addrs : a # p => g[a] = m[a]
  BY <1>2
<1> QED BY <1>3, <1>4, <1>5 DEF g

(* Unlinking an inner node takes away that node only.                       *)
LEMMA ReachUnlinkInner ==
    ASSUME NEW sen \in Heads, NEW m \in Memory, ListsOK(sen, m),
           NEW p \in Reach(sen, m), NEW n \in Addrs, m[p].m_next = n
    PROVE  /\ p # n
           /\ Reach(sen, Relink(m, p, m[n].m_next)) = Reach(sen, m) \ {n}
<1> DEFINE R == Reach(sen, m)
<1> DEFINE g == Relink(m, p, m[n].m_next)
<1>1. R \in SUBSET Addrs /\ HeadsIn(sen, R) /\ NextIn(m, R)
  BY ReachClosed
<1>0. /\ g \in Memory /\ g[p].m_next = m[n].m_next
      /\ \A a \in Addrs : a # p => g[a].m_next = m[a].m_next
  <2>1. p \in Addrs /\ m[n].m_next \in Addrs \cup {NULL}
    BY <1>1 DEF Memory, Node
  <2>2. g \in Memory
    BY <2>1, Relinked
  <2>3. g[p].m_next = m[n].m_next
    BY <2>1, Relinked
  <2>4. \A a \in Addrs : a # p => g[a] = m[a]
    BY <2>1, Relinked
  <2> HIDE DEF g
  <2> QED BY <2>2, <2>3, <2>4
<1> DEFINE G == Reach(sen, g)
<1>2. G \in SUBSET Addrs /\ HeadsIn(sen, G) /\ NextIn(g, G)
  BY <1>0, ReachClosed
<1>3. /\ \A a \in R : m[a].m_next = n => a = p
      /\ \A c \in Buckets : sen[c] # n
      /\ n # NULL
  BY NullIsNoNode DEF ListsOK
<1>4. p \in R /\ n \in R
  BY <1>1, <1>3 DEF NextIn
<1> HIDE DEF R, G, g
<1>5. p # n
  <2> SUFFICES ASSUME p = n PROVE FALSE
    OBVIOUS
  <2>1. HeadsIn(sen, R \ {n}) /\ NextIn(m, R \ {n})
    BY <1>1, <1>3 DEF HeadsIn, NextIn
  <2>2. R \ {n} \in SUBSET Addrs
    BY <1>1
  <2>3. R \subseteq R \ {n}
    BY <2>1, <2>2, ReachLeast DEF R
  <2> QED BY <2>3, <1>4
<1>6. G \subseteq R \ {n}
  <2>1. HeadsIn(sen, R \ {n})
    BY <1>1, <1>3 DEF HeadsIn
  <2>2. NextIn(g, R \ {n})
    BY <1>0, <1>1, <1>3, <1>4, <1>5 DEF NextIn
  <2>3. R \ {n} \in SUBSET Addrs
    BY <1>1
  <2> QED BY <2>1, <2>2, <2>3, ReachLeast DEF G
<1>7. R \subseteq G \cup {n}
  <2>1. CASE p \in G
    <3>1. HeadsIn(sen, G \cup {n})
      BY <1>2 DEF HeadsIn
    <3>2. NextIn(m, G \cup {n})
      BY <1>0, <1>2, <1>5, <2>1 DEF NextIn
    <3>3. G \cup {n} \in SUBSET Addrs
      BY <1>2
    <3> QED BY <3>1, <3>2, <3>3, ReachLeast DEF R
  <2>2. CASE p \notin G
    <3>1. NextIn(m, G)
      BY <1>0, <1>2, <2>2 DEF NextIn
    <3> QED BY <1>2, <3>1, ReachLeast DEF R
  <2> QED BY <2>1, <2>2
<1> QED BY <1>5, <1>6, <1>7 DEF R, G, g
-----------------------------------------------------------------------------
(***************************************************************************)
(* The lists stay lists of their buckets.                                  *)
(***************************************************************************)
LEMMA ListsKept ==
    ASSUME NEW sen \in Heads, NEW m \in Memory, NEW g \in Memory, ListsOK(sen, m),
           \A a \in Reach(sen, m) : g[a] = m[a]
    PROVE  ListsOK(sen, g) /\ Reach(sen, g) = Reach(sen, m)
<1>1. Reach(sen, g) = Reach(sen, m)
  BY ReachKept
<1> DEFINE R == Reach(sen, m)
<1>2. R \in SUBSET Addrs /\ HeadsIn(sen, R) /\ NextIn(m, R)
  BY ReachClosed
<1> QED BY <1>1, <1>2 DEF ListsOK, ValueBucket, HeadsIn, NextIn

(* Lists stay apart when a node is published.                               *)
LEMMA ListsPublish ==
    ASSUME NEW sen \in Heads, NEW m \in Memory, ListsOK(sen, m), NEW b \in Buckets,
           NEW n \in Addrs, n \notin Reach(sen, m), m[n].m_next = sen[b],
           ValueBucket(m, n) = b
    PROVE  ListsOK(SetHead(sen, b, n), m)
<1> DEFINE R == Reach(sen, m)
<1> DEFINE s == SetHead(sen, b, n)
<1>0. s[b] = n /\ \A c \in Buckets : c # b => s[c] = sen[c]
  BY DEF Heads, SetHead
<1>1. R \in SUBSET Addrs /\ HeadsIn(sen, R) /\ NextIn(m, R)
  BY ReachClosed
<1>2. Reach(s, m) = R \cup {n}
  BY ReachPublish
<1>3. n # NULL
  BY NullIsNoNode
<1>4. \A a \in R : m[a].m_next # n
  BY <1>1, <1>3 DEF NextIn
<1>5. \A a \in R, c \in Buckets : sen[c] # NULL => m[a].m_next # sen[c]
  BY DEF ListsOK
<1>6. \A c \in Buckets : sen[c] # NULL => ValueBucket(m, sen[c]) = c /\ sen[c] \in R
  BY <1>1 DEF ListsOK, HeadsIn
<1>7. /\ \A a, c \in R : m[a].m_next # NULL /\ m[a].m_next = m[c].m_next => a = c
      /\ \A a \in R : m[a].m_next # NULL => ValueBucket(m, m[a].m_next) = ValueBucket(m, a)
  BY DEF ListsOK
<1> HIDE DEF R, s
<1>8. \A a, c \in R \cup {n} : m[a].m_next # NULL /\ m[a].m_next = m[c].m_next => a = c
  BY <1>5, <1>7
<1>9. \A a \in R \cup {n}, c \in Buckets : s[c] # NULL => m[a].m_next # s[c]
  <2> SUFFICES ASSUME NEW a \in R \cup {n}, NEW c \in Buckets, s[c] # NULL, m[a].m_next = s[c]
               PROVE  FALSE
    OBVIOUS
  <2>1. CASE c = b
    BY <1>0, <1>4, <1>6, <2>1
  <2>2. CASE c # b
    BY <1>0, <1>5, <1>6, <2>2
  <2> QED BY <2>1, <2>2
<1>10. \A c \in Buckets : s[c] # NULL => ValueBucket(m, s[c]) = c
  BY <1>0, <1>6
<1>11. \A a \in R \cup {n} : m[a].m_next # NULL => ValueBucket(m, m[a].m_next) = ValueBucket(m, a)
  BY <1>6, <1>7
<1> QED BY <1>2, <1>8, <1>9, <1>10, <1>11 DEF ListsOK, R, s

(* Lists stay apart when a head is unlinked.                                *)
LEMMA ListsUnlinkHead ==
    ASSUME NEW sen \in Heads, NEW m \in Memory, ListsOK(sen, m),
           NEW b \in Buckets, NEW n \in Addrs, sen[b] = n
    PROVE  ListsOK(SetHead(sen, b, m[n].m_next), m)
<1> DEFINE R == Reach(sen, m)
<1> DEFINE s == SetHead(sen, b, m[n].m_next)
<1>0. s[b] = m[n].m_next /\ \A c \in Buckets : c # b => s[c] = sen[c]
  BY DEF Heads, SetHead
<1>1. R \in SUBSET Addrs /\ HeadsIn(sen, R) /\ NextIn(m, R)
  BY ReachClosed
<1>2. Reach(s, m) = R \ {n}
  BY ReachUnlinkHead
<1>3. n # NULL /\ n \in R
  BY <1>1, NullIsNoNode DEF HeadsIn
<1>4. /\ \A a, c \in R : m[a].m_next # NULL /\ m[a].m_next = m[c].m_next => a = c
      /\ \A a \in R : m[a].m_next # NULL => ValueBucket(m, m[a].m_next) = ValueBucket(m, a)
      /\ \A a \in R, c \in Buckets : sen[c] # NULL => m[a].m_next # sen[c]
      /\ \A c \in Buckets : sen[c] # NULL => ValueBucket(m, sen[c]) = c
  BY DEF ListsOK
<1> HIDE DEF R, s
<1>5. \A a \in R \ {n}, c \in Buckets : s[c] # NULL => m[a].m_next # s[c]
  BY <1>0, <1>3, <1>4
<1>6. \A c \in Buckets : s[c] # NULL => ValueBucket(m, s[c]) = c
  BY <1>0, <1>3, <1>4
<1> QED BY <1>2, <1>4, <1>5, <1>6 DEF ListsOK, R, s

(* Lists stay apart when an inner node is unlinked.                         *)
LEMMA ListsUnlinkInner ==
    ASSUME NEW sen \in Heads, NEW m \in Memory, ListsOK(sen, m),
           NEW p \in Reach(sen, m), NEW n \in Addrs, m[p].m_next = n
    PROVE  ListsOK(sen, Relink(m, p, m[n].m_next))
<1> DEFINE R == Reach(sen, m)
<1> DEFINE g == Relink(m, p, m[n].m_next)
<1>1. R \in SUBSET Addrs /\ HeadsIn(sen, R) /\ NextIn(m, R)
  BY ReachClosed
<1>2. p # n /\ Reach(sen, g) = R \ {n}
  BY ReachUnlinkInner
<1>0. \A a \in Addrs : /\ g[a].m_val = m[a].m_val
                       /\ g[a].m_next = IF a = p THEN m[n].m_next ELSE m[a].m_next
  <2>1. p \in Addrs /\ m[n].m_next \in Addrs \cup {NULL}
    BY <1>1 DEF Memory, Node
  <2>2. g[p].m_next = m[n].m_next
    BY <2>1, Relinked
  <2>3. g[p].m_val = m[p].m_val
    BY <2>1, Relinked
  <2>4. \A a \in Addrs : a # p => g[a] = m[a]
    BY <2>1, Relinked
  <2> HIDE DEF g
  <2> QED BY <2>2, <2>3, <2>4
<1>3. n # NULL /\ n \in R /\ p \in R
  BY <1>1, NullIsNoNode DEF NextIn
<1>4. /\ \A a, c \in R : m[a].m_next # NULL /\ m[a].m_next = m[c].m_next => a = c
      /\ \A a \in R : m[a].m_next # NULL =>
            m[a].m_next \in Addrs /\ ValueBucket(m, m[a].m_next) = ValueBucket(m, a)
      /\ \A a \in R, c \in Buckets : sen[c] # NULL => m[a].m_next # sen[c]
      /\ \A c \in Buckets : sen[c] # NULL => ValueBucket(m, sen[c]) = c /\ sen[c] \in Addrs
  BY <1>1 DEF ListsOK, HeadsIn, NextIn
<1> HIDE DEF R, g
<1>5. \A a \in Addrs : ValueBucket(g, a) = ValueBucket(m, a)
  BY <1>0 DEF ValueBucket
<1>6. \A a, c \in R \ {n} : g[a].m_next # NULL /\ g[a].m_next = g[c].m_next => a = c
  BY <1>0, <1>1, <1>3, <1>4
<1>7. \A a \in R \ {n}, c \in Buckets : sen[c] # NULL => g[a].m_next # sen[c]
  BY <1>0, <1>1, <1>3, <1>4
<1>8. \A c \in Buckets : sen[c] # NULL => ValueBucket(g, sen[c]) = c
  BY <1>4, <1>5
<1>9. \A a \in R \ {n} : g[a].m_next # NULL => ValueBucket(g, g[a].m_next) = ValueBucket(g, a)
  BY <1>0, <1>1, <1>3, <1>4, <1>5
<1> QED BY <1>2, <1>6, <1>7, <1>8, <1>9 DEF ListsOK, R, g
-----------------------------------------------------------------------------
(***************************************************************************)
(* What lies ahead of a walk.                                              *)
(***************************************************************************)
LEMMA FromNull ==
    ASSUME NEW m
    PROVE  From(m, NULL) = {}
<1>1. {} \in SUBSET Addrs /\ NextIn(m, {})
  BY DEF NextIn
<1> QED BY <1>1 DEF From

(* From its head a walk meets all of its bucket.                           *)
LEMMA FromHead ==
    ASSUME NEW sen \in Heads, NEW m \in Memory, ListsOK(sen, m), NEW b \in Buckets,
           NEW a \in Reach(sen, m), ValueBucket(m, a) = b
    PROVE  a \in From(m, sen[b])
<1> DEFINE R == Reach(sen, m)
<1>1. R \in SUBSET Addrs /\ HeadsIn(sen, R) /\ NextIn(m, R)
  BY ReachClosed
<1>2. ASSUME NEW S \in SUBSET Addrs, sen[b] # NULL => sen[b] \in S, NextIn(m, S)
      PROVE  a \in S
  <2> DEFINE T == S \cup {x \in R : ValueBucket(m, x) # b}
  <2>1. T \in SUBSET Addrs
    BY <1>1
  <2>2. HeadsIn(sen, T)
    BY <1>1, <1>2 DEF HeadsIn, ListsOK
  <2>3. NextIn(m, T)
    BY <1>1, <1>2 DEF NextIn, ListsOK
  <2>4. R \subseteq T
    <3> HIDE DEF T
    <3> QED BY <2>1, <2>2, <2>3, ReachLeast
  <2> QED BY <2>4
<1> QED BY <1>1, <1>2 DEF From

(* Past a node, it meets what it met from the node on, but for the node.   *)
LEMMA FromNext ==
    ASSUME NEW m \in Memory, NEW l \in Addrs, NEW a \in From(m, l), a # l
    PROVE  a \in From(m, m[l].m_next)
<1>1. a \in Addrs
  BY DEF From
<1>2. ASSUME NEW S \in SUBSET Addrs, m[l].m_next # NULL => m[l].m_next \in S, NextIn(m, S)
      PROVE  a \in S
  <2>1. S \cup {l} \in SUBSET Addrs /\ NextIn(m, S \cup {l})
    BY <1>2 DEF NextIn
  <2>2. a \in S \cup {l}
    BY <2>1 DEF From
  <2> QED BY <2>2
<1> QED BY <1>1, <1>2 DEF From

(* Changes of the lists of other buckets leave it what it has ahead.       *)
LEMMA FromKept ==
    ASSUME NEW sen \in Heads, NEW m \in Memory, ListsOK(sen, m), NEW g, NEW b \in Buckets,
           \A x \in Reach(sen, m) : ValueBucket(m, x) = b => g[x] = m[x],
           NEW l \in Reach(sen, m) \cup {NULL}, l # NULL => ValueBucket(m, l) = b,
           NEW a \in From(m, l)
    PROVE  a \in From(g, l)
<1> DEFINE W == {x \in Reach(sen, m) : ValueBucket(m, x) = b}
<1>1. Reach(sen, m) \in SUBSET Addrs /\ NextIn(m, Reach(sen, m))
  BY ReachClosed
<1>2. a \in Addrs
  BY DEF From
<1>3. \A x \in W : m[x].m_next # NULL => m[x].m_next \in W
  BY <1>1 DEF NextIn, ListsOK
<1>4. ASSUME NEW S \in SUBSET Addrs, l # NULL => l \in S, NextIn(g, S)
      PROVE  a \in S
  <2>1. NextIn(m, S \cap W)
    BY <1>3, <1>4 DEF NextIn
  <2>2. S \cap W \in SUBSET Addrs /\ (l # NULL => l \in S \cap W)
    BY <1>1, <1>4
  <2>3. a \in S \cap W
    <3> HIDE DEF W
    <3> QED BY <2>1, <2>2 DEF From
  <2> QED BY <2>3
<1> QED BY <1>2, <1>4 DEF From
-----------------------------------------------------------------------------
(***************************************************************************)
(* The inductive invariant.                                                *)
(***************************************************************************)
(* A thread inside a critical section has its bucket locked, for itself.   *)
LockInv ==
    /\ \A t \in Threads : pc[t] \in Critical => is_locked[bkt[t]]
    /\ \A t, u \in Threads : t # u /\ pc[t] \in Critical /\ pc[u] \in Critical =>
                                bkt[t] # bkt[u]
    /\ hm = "freed" => \A t \in Threads : pc[t] = "idle"

InItemCall == {"insert_malloc", "insert_lock", "insert_link", "insert_publish",
               "remove_lock", "remove_loop", "remove_unlink", "lookup_lock", "lookup_loop"}
NewNode    == {"insert_lock", "insert_link", "insert_publish"}
Walking    == {"remove_loop", "remove_unlink", "lookup_loop", "print_loop"}
Searching  == {"remove_loop", "lookup_loop"}

(* What a thread knows about the list of its bucket: where its walk        *)
(* stands, and that every occurrence of its value is still ahead.          *)
ThreadOK(t) ==
    /\ pc[t] \in InItemCall => bkt[t] = BucketOf(val[t])
    /\ Owns(t) => node[t] \in Addrs
    /\ pc[t] \in NewNode => mem[node[t]].m_val = val[t]
    /\ pc[t] = "insert_publish" => mem[node[t]].m_next = sentinel[bkt[t]]
    /\ pc[t] \in Walking /\ cur_ptr[t] # NULL =>
          cur_ptr[t] \in Linked /\ ValueBucket(mem, cur_ptr[t]) = bkt[t]
    /\ pc[t] = "remove_unlink" =>
          node[t] \in Addrs /\ node[t] = Link(t) /\ mem[node[t]].m_val = val[t]
    /\ pc[t] \in Searching =>
          \A a \in Linked : mem[a].m_val = val[t] => a \in From(mem, Link(t))

IInv ==
    /\ TypeOK
    /\ LockInv
    /\ ListsOK(sentinel, mem)
    /\ EveryNodeHasOneOwner
    /\ \A t \in Threads : ThreadOK(t)
-----------------------------------------------------------------------------
(***************************************************************************)
(* Types, and the walks of a state.                                        *)
(***************************************************************************)
LEMMA TypeFacts ==
    ASSUME TypeOK
    PROVE  /\ sentinel \in Heads /\ mem \in Memory
           /\ \A t \in Threads : /\ bkt[t] \in Buckets /\ val[t] \in Values
                                 /\ node[t] \in Addrs \cup {NULL}
                                 /\ cur_ptr[t] \in Addrs \cup {NULL}
                                 /\ Link(t) \in Addrs \cup {NULL}
           /\ Linked \in SUBSET Addrs
           /\ HeadsIn(sentinel, Linked) /\ NextIn(mem, Linked)
<1>1. sentinel \in Heads /\ mem \in Memory
  BY DEF TypeOK, Heads, Memory, Node
<1>2. \A t \in Threads : /\ bkt[t] \in Buckets /\ val[t] \in Values
                         /\ node[t] \in Addrs \cup {NULL}
                         /\ cur_ptr[t] \in Addrs \cup {NULL}
  BY DEF TypeOK
<1>3. \A t \in Threads : Link(t) \in Addrs \cup {NULL}
  BY <1>1, <1>2 DEF Link, Heads, Memory, Node
<1>4. Linked \in SUBSET Addrs /\ HeadsIn(sentinel, Linked) /\ NextIn(mem, Linked)
  BY <1>1, ReachClosed, LinkedIsReach
<1> QED BY <1>1, <1>2, <1>3, <1>4

(* The memory holds nodes.                                                  *)
LEMMA MemoryType == TypeOK => mem \in [Addrs -> Node]
BY DEF TypeOK, Node

(* Types: a call begins.                                                    *)
LEMMA TypeCall ==
    ASSUME TypeOK, NEW t \in Threads, CallItem(t) \/ CallPrint(t)
    PROVE  TypeOK'
<1>1. ASSUME NEW v \in Values, NEW b \in Buckets, NEW entry \in Locations, Call(t, v, b, entry)
      PROVE  TypeOK'
  BY <1>1, CallsAssumption DEF TypeOK, Call, Goto, shared
<1>2. ASSUME NEW v \in Values, NEW entry \in Entry, Call(t, v, BucketOf(v), entry)
      PROVE  TypeOK'
  BY <1>1, <1>2, BucketOfType DEF Locations
<1>3. ASSUME CallPrint(t) PROVE TypeOK'
  <2>1. 0 \in Buckets
    BY BucketsAssumption DEF Buckets
  <2> QED BY <1>1, <1>3, <2>1, AnyValueType DEF CallPrint, Locations, Waiting
<1> QED BY <1>2, <1>3 DEF CallItem

(* Types: a turn of a walk.                                                 *)
LEMMA TypeWalkStep ==
    ASSUME TypeOK, NEW t \in Threads,
           RemoveLoop(t) \/ LookupLoop(t) \/ PrintLoop(t)
    PROVE  TypeOK'
<1>1. Link(t) \in Addrs \cup {NULL}
  BY TypeFacts
<1>2. {"unlock", "remove_unlink", "print_unlock"} \subseteq Locations
  BY DEF Locations, Critical
<1>3. CASE RemoveLoop(t)
  BY <1>1, <1>2, <1>3 DEF RemoveLoop, Result, Goto, Advance, shared, local, TypeOK
<1>4. CASE LookupLoop(t)
  BY <1>1, <1>2, <1>4 DEF LookupLoop, Result, Goto, Advance, shared, local, TypeOK
<1>5. CASE PrintLoop(t)
  BY <1>1, <1>2, <1>5 DEF PrintLoop, Result, Goto, Advance, shared, local, TypeOK
<1> QED BY <1>3, <1>4, <1>5

(* Types: locking, unlocking, returning.                                    *)
LEMMA TypeLocking ==
    ASSUME TypeOK, NEW t \in Threads, NEW from, NEW to \in Locations,
           Lock(t, from, to) \/ Unlock(t, from, to) \/ PrintUnlock(t) \/ Return(t)
    PROVE  TypeOK'
<1>1. bkt[t] \in Buckets /\ 0 \in Buckets
  BY TypeFacts, BucketsAssumption DEF Buckets
<1>2. {"print_lock", "idle"} \subseteq Locations
  BY DEF Locations, Waiting
<1>3. CASE Lock(t, from, to)
  BY <1>1, <1>3 DEF Lock, Goto, TypeOK
<1>4. CASE Unlock(t, from, to)
  BY <1>1, <1>4 DEF Unlock, Goto, local, TypeOK
<1>5. CASE PrintUnlock(t)
  BY <1>1, <1>2, <1>5 DEF PrintUnlock, Goto, TypeOK
<1>6. CASE Return(t)
  BY <1>1, <1>2, <1>6, AnyValueType DEF Return, Goto, shared, TypeOK
<1> QED BY <1>3, <1>4, <1>5, <1>6

(* Types: the steps on nodes.                                               *)
LEMMA TypeHeapStep ==
    ASSUME TypeOK, NEW t \in Threads, ThreadOK(t),
           InsertMalloc(t) \/ InsertNoMemory(t) \/ InsertLink(t) \/ InsertPublish(t)
              \/ RemoveUnlink(t) \/ RemoveFree(t)
    PROVE  TypeOK'
<1>1. bkt[t] \in Buckets /\ val[t] \in Values /\ mem \in [Addrs -> Node]
  BY TypeFacts, MemoryType
<1>2. {"insert_lock", "insert_publish", "unlock", "unlock_free", "return"} \subseteq Locations
  BY DEF Locations, Waiting, Critical
<1>3. CASE InsertMalloc(t)
  <2>1. PICK a \in Addrs \ allocated :
             /\ allocated' = allocated \cup {a}
             /\ mem' = [mem EXCEPT ![a].m_val = val[t]]
             /\ node' = [node EXCEPT ![t] = a]
    BY <1>3 DEF InsertMalloc
  <2>2. [mem[a] EXCEPT !.m_val = val[t]] \in Node
    BY <1>1 DEF Node
  <2>3. mem' \in [Addrs -> Node]
    BY <1>1, <2>1, <2>2
  <2>4. pc' = [pc EXCEPT ![t] = "insert_lock"]
        /\ UNCHANGED <<is_locked, sentinel, hm, calls, val, bkt, cur_ptr, ret>>
    BY <1>3 DEF InsertMalloc, Goto
  <2> QED BY <1>2, <2>1, <2>3, <2>4 DEF TypeOK, Node
<1>4. CASE InsertNoMemory(t)
  BY <1>2, <1>4 DEF InsertNoMemory, Result, Goto, shared, local, TypeOK
<1>5. CASE InsertLink(t)
  <2>1. node[t] \in Addrs /\ sentinel[bkt[t]] \in Addrs \cup {NULL}
    BY <1>1, <1>5 DEF ThreadOK, Owns, InsertLink, TypeOK
  <2>2. mem' = Relink(mem, node[t], sentinel[bkt[t]])
    BY <1>5 DEF InsertLink, Relink
  <2>3. mem' \in [Addrs -> Node]
    BY <1>1, <2>1, <2>2, Relinked DEF Memory
  <2>4. pc' = [pc EXCEPT ![t] = "insert_publish"]
        /\ UNCHANGED <<is_locked, sentinel, allocated, hm, calls, val, bkt, node, cur_ptr, ret>>
    BY <1>5 DEF InsertLink, Goto, local
  <2> QED BY <1>2, <2>3, <2>4 DEF TypeOK, Node
<1>6. CASE InsertPublish(t)
  BY <1>1, <1>2, <1>6 DEF InsertPublish, Result, Goto, TypeOK
<1>7. CASE RemoveUnlink(t)
  <2>1. node[t] \in Addrs
    BY <1>7 DEF ThreadOK, RemoveUnlink
  <2>2. mem[node[t]].m_next \in Addrs \cup {NULL}
    BY <1>1, <2>1 DEF Node
  <2>3. mem' \in [Addrs -> Node] /\ sentinel' \in [Buckets -> Addrs \cup {NULL}]
    <3>1. CASE cur_ptr[t] = NULL
      BY <1>1, <1>7, <2>2, <3>1 DEF RemoveUnlink, SetLink, TypeOK
    <3>2. CASE cur_ptr[t] # NULL
      <4>1. cur_ptr[t] \in Addrs
        BY <3>2 DEF TypeOK
      <4>2. mem' = Relink(mem, cur_ptr[t], mem[node[t]].m_next) /\ sentinel' = sentinel
        BY <1>7, <3>2 DEF RemoveUnlink, SetLink, Relink
      <4> QED BY <1>1, <2>2, <4>1, <4>2, Relinked DEF Memory, TypeOK
    <3> QED BY <3>1, <3>2
  <2>4. pc' = [pc EXCEPT ![t] = "unlock_free"] /\ ret' = [ret EXCEPT ![t] = 0]
        /\ UNCHANGED <<is_locked, allocated, hm, calls, val, bkt, node, cur_ptr>>
    BY <1>7 DEF RemoveUnlink, Result, Goto, local
  <2> QED BY <1>2, <2>3, <2>4 DEF TypeOK, Node
<1>8. CASE RemoveFree(t)
  BY <1>2, <1>8 DEF RemoveFree, Goto, TypeOK
<1> QED BY <1>3, <1>4, <1>5, <1>6, <1>7, <1>8
-----------------------------------------------------------------------------
(***************************************************************************)
(* The locks: a step that takes none, one that takes one and one that      *)
(* gives one back.                                                         *)
(***************************************************************************)
SameLocals(u) ==
    /\ pc'[u] = pc[u] /\ val'[u] = val[u] /\ bkt'[u] = bkt[u]
    /\ node'[u] = node[u] /\ cur_ptr'[u] = cur_ptr[u]
Frame(t) == \A u \in Threads \ {t} : SameLocals(u)

(* A step that leaves the locks alone.                                      *)
LEMMA LocksStay ==
    ASSUME TypeOK, LockInv, NEW t \in Threads, Frame(t), is_locked' = is_locked, hm' = hm,
           hm = "live" \/ pc[t] # "idle",
           pc'[t] \in Critical => pc[t] \in Critical /\ bkt'[t] = bkt[t]
    PROVE  LockInv'
BY DEF LockInv, Frame, SameLocals, TypeOK

(* The lock is taken when it is free.                                       *)
LEMMA LockTaken ==
    ASSUME TypeOK, LockInv, NEW t \in Threads, NEW from, NEW to, Lock(t, from, to),
           from # "idle"
    PROVE  LockInv'
<1>1. /\ ~is_locked[bkt[t]]
      /\ is_locked' = [is_locked EXCEPT ![bkt[t]] = TRUE]
      /\ pc' = [pc EXCEPT ![t] = to] /\ pc[t] = from
      /\ bkt' = bkt /\ hm' = hm
  BY DEF Lock, Goto
<1>2. \A u \in Threads : pc[u] \in Critical => bkt[u] # bkt[t]
  BY <1>1 DEF LockInv
<1>3. hm # "freed"
  BY <1>1 DEF LockInv
<1> QED BY <1>1, <1>2, <1>3 DEF LockInv, TypeOK

(* The lock is given back by its holder.                                    *)
LEMMA LockGiven ==
    ASSUME TypeOK, LockInv, NEW t \in Threads, Frame(t), hm' = hm,
           is_locked' = [is_locked EXCEPT ![bkt[t]] = FALSE],
           pc[t] \in Critical, pc'[t] \notin Critical
    PROVE  LockInv'
<1>1. hm # "freed"
  BY DEF LockInv, Critical
<1> QED BY <1>1 DEF LockInv, Frame, SameLocals, TypeOK
-----------------------------------------------------------------------------
(***************************************************************************)
(* What a step of one thread leaves to the others.                         *)
(***************************************************************************)
BucketKept(b) ==
    /\ sentinel'[b] = sentinel[b]
    /\ \A x \in Linked : ValueBucket(mem, x) = b => x \in Linked' /\ mem'[x] = mem[x]
    /\ \A x \in Linked' : ValueBucket(mem', x) = b => x \in Linked /\ mem'[x] = mem[x]

(* What a walk's link leads to is on the list of its bucket.                *)
LEMMA LinkInBucket ==
    ASSUME TypeOK, ListsOK(sentinel, mem), NEW t \in Threads, ThreadOK(t),
           pc[t] \in Walking, Link(t) # NULL
    PROVE  Link(t) \in Linked /\ ValueBucket(mem, Link(t)) = bkt[t]
<1>1. CASE cur_ptr[t] = NULL
  <2>1. Link(t) = sentinel[bkt[t]] /\ bkt[t] \in Buckets
    BY <1>1, TypeFacts DEF Link
  <2> QED BY <2>1, TypeFacts DEF HeadsIn, ListsOK
<1>2. CASE cur_ptr[t] # NULL
  <2>1. Link(t) = mem[cur_ptr[t]].m_next /\ cur_ptr[t] \in Linked
        /\ ValueBucket(mem, cur_ptr[t]) = bkt[t]
    BY <1>2 DEF Link, ThreadOK
  <2>2. NextIn(mem, Linked)
    BY TypeFacts
  <2> QED BY <2>1, <2>2, LinkedIsReach DEF NextIn, ListsOK
<1> QED BY <1>1, <1>2

(* What another thread knows of its bucket and its own node stays true.     *)
LEMMA OthersKeep ==
    ASSUME TypeOK, ListsOK(sentinel, mem), NEW u \in Threads, ThreadOK(u), SameLocals(u),
           pc[u] \in Critical => BucketKept(bkt[u]),
           Owns(u) => mem'[node[u]] = mem[node[u]]
    PROVE  ThreadOK(u)'
<1>1. pc'[u] = pc[u] /\ val'[u] = val[u] /\ bkt'[u] = bkt[u]
      /\ node'[u] = node[u] /\ cur_ptr'[u] = cur_ptr[u]
  BY DEF SameLocals
<1>2. /\ (pc[u] \in InItemCall => bkt[u] = BucketOf(val[u]))'
      /\ (Owns(u) => node[u] \in Addrs)'
      /\ (pc[u] \in NewNode => mem[node[u]].m_val = val[u])'
  BY <1>1 DEF ThreadOK, Owns, NewNode
<1>3. (pc[u] = "insert_publish" => mem[node[u]].m_next = sentinel[bkt[u]])'
  <2> SUFFICES ASSUME pc[u] = "insert_publish" PROVE mem'[node[u]].m_next = sentinel'[bkt[u]]
    BY <1>1
  <2>1. pc[u] \in Critical /\ Owns(u)
    BY DEF Critical, Owns
  <2> QED BY <2>1 DEF BucketKept, ThreadOK
<1>4. CASE pc[u] \notin Walking
  BY <1>1, <1>2, <1>3, <1>4 DEF ThreadOK, Walking, Searching
<1>5. CASE pc[u] \in Walking
  <2>1. BucketKept(bkt[u])
    BY <1>5 DEF Walking, Critical
  <2>2. cur_ptr[u] # NULL =>
           /\ cur_ptr[u] \in Linked /\ cur_ptr[u] \in Linked' /\ mem'[cur_ptr[u]] = mem[cur_ptr[u]]
           /\ ValueBucket(mem, cur_ptr[u]) = bkt[u]
    BY <1>5, <2>1 DEF ThreadOK, BucketKept
  <2>3. Link(u)' = Link(u)
    BY <1>1, <2>1, <2>2 DEF Link, BucketKept
  <2>4. Link(u) # NULL =>
           /\ Link(u) \in Linked /\ ValueBucket(mem, Link(u)) = bkt[u]
           /\ mem'[Link(u)] = mem[Link(u)]
    BY <1>5, <2>1, LinkInBucket DEF BucketKept
  <2>5. (pc[u] \in Walking /\ cur_ptr[u] # NULL =>
             cur_ptr[u] \in Linked /\ ValueBucket(mem, cur_ptr[u]) = bkt[u])'
    BY <1>1, <2>2 DEF ValueBucket
  <2>6. (pc[u] = "remove_unlink" =>
             node[u] \in Addrs /\ node[u] = Link(u) /\ mem[node[u]].m_val = val[u])'
    BY <1>1, <2>3, <2>4, NullIsNoNode DEF ThreadOK
  <2>7. ASSUME pc[u] \in Searching, NEW a \in Linked', mem'[a].m_val = val[u]
        PROVE  a \in From(mem', Link(u))
    <3>1. ValueBucket(mem', a) = bkt[u]
      BY <2>7 DEF ValueBucket, ThreadOK, Searching, InItemCall
    <3>2. a \in Linked /\ mem'[a] = mem[a]
      BY <2>1, <3>1 DEF BucketKept
    <3>3. mem[a].m_val = val[u]
      BY <2>7, <3>2
    <3>4. a \in From(mem, Link(u))
      BY <2>7, <3>2, <3>3 DEF ThreadOK
    <3>5. \A x \in Reach(sentinel, mem) : ValueBucket(mem, x) = bkt[u] => mem'[x] = mem[x]
      BY <2>1, LinkedIsReach DEF BucketKept
    <3>6. Link(u) \in Reach(sentinel, mem) \cup {NULL} /\ bkt[u] \in Buckets
          /\ sentinel \in Heads /\ mem \in Memory
      BY <2>4, TypeFacts, LinkedIsReach
    <3> QED BY <2>4, <3>4, <3>5, <3>6, FromKept
  <2> QED BY <1>1, <1>2, <1>3, <2>3, <2>5, <2>6, <2>7 DEF ThreadOK
<1> QED BY <1>4, <1>5
-----------------------------------------------------------------------------
(***************************************************************************)
(* Steps that leave the lists and the nodes alone.                         *)
(***************************************************************************)
LEMMA SameHeap ==
    ASSUME IInv, NEW t \in Threads, Frame(t), UNCHANGED <<sentinel, mem, allocated, hm>>,
           Owns(t)' <=> Owns(t), Owns(t) => node'[t] = node[t],
           TypeOK', LockInv', ThreadOK(t)'
    PROVE  IInv'
<1>1. Linked' = Linked
  BY LinkedIsReach
<1>2. ListsOK(sentinel, mem)'
  BY DEF IInv
<1>3. \A u \in Threads : (Owns(u)' <=> Owns(u)) /\ (Owns(u) => node'[u] = node[u])
  BY DEF Frame, SameLocals, Owns
<1>4. EveryNodeHasOneOwner'
  <2>1. {node'[u] : u \in {w \in Threads : Owns(w)'}} = {node[u] : u \in {w \in Threads : Owns(w)}}
    BY <1>3
  <2> QED BY <1>1, <1>3, <2>1 DEF IInv, EveryNodeHasOneOwner
<1>5. ASSUME NEW u \in Threads \ {t} PROVE ThreadOK(u)'
  <2>1. SameLocals(u)
    BY DEF Frame
  <2>2. \A b : BucketKept(b)
    BY <1>1 DEF BucketKept
  <2> QED BY <2>1, <2>2, OthersKeep DEF IInv
<1> QED BY <1>2, <1>4, <1>5 DEF IInv

(* A call begins.                                                           *)
LEMMA CallKeeps ==
    ASSUME IInv, NEW t \in Threads, CallItem(t) \/ CallPrint(t)
    PROVE  IInv'
<1>1. PICK v, b, entry :
        /\ Call(t, v, b, entry)
        /\ \/ entry \in Entry /\ b = BucketOf(v)
           \/ entry = "print_lock"
  BY DEF CallItem, CallPrint
<1>2. /\ pc[t] = "idle" /\ hm = "live"
      /\ pc'[t] = entry /\ val'[t] = v /\ bkt'[t] = b
      /\ Frame(t)
      /\ UNCHANGED <<is_locked, sentinel, mem, allocated, hm, node, cur_ptr>>
  BY <1>1 DEF Call, Goto, shared, IInv, TypeOK, Frame, SameLocals
<1>3. entry \in {"insert_malloc", "remove_lock", "lookup_lock", "print_lock"}
  BY <1>1 DEF Entry
<1>4. TypeOK'
  BY TypeCall DEF IInv
<1>5. LockInv'
  BY <1>2, <1>3, LocksStay DEF IInv, Critical
<1>6. ~Owns(t) /\ ~Owns(t)'
  BY <1>2, <1>3 DEF Owns
<1>7. ThreadOK(t)'
  BY <1>1, <1>2, <1>3, <1>6 DEF ThreadOK, InItemCall, NewNode, Walking, Searching, Entry
<1> QED BY <1>2, <1>4, <1>5, <1>6, <1>7, SameHeap

(* Entering a critical section: the walk starts at the head.                *)
LEMMA LockKeeps ==
    ASSUME IInv, NEW t \in Threads, NEW from, NEW to, Lock(t, from, to),
           <<from, to>> \in {<<"insert_lock", "insert_link">>, <<"remove_lock", "remove_loop">>,
                             <<"lookup_lock", "lookup_loop">>, <<"print_lock", "print_loop">>}
    PROVE  IInv'
<1>1. /\ pc[t] = from /\ pc'[t] = to /\ cur_ptr'[t] = NULL
      /\ Frame(t)
      /\ UNCHANGED <<sentinel, mem, allocated, hm, val, bkt, node>>
  BY DEF Lock, Goto, IInv, TypeOK, Frame, SameLocals
<1>2. \/ from = "insert_lock" /\ to = "insert_link"
      \/ from = "remove_lock" /\ to = "remove_loop"
      \/ from = "lookup_lock" /\ to = "lookup_loop"
      \/ from = "print_lock" /\ to = "print_loop"
  OBVIOUS
<1>3. TypeOK'
  BY <1>2, TypeLocking DEF IInv, Locations, Critical
<1>4. LockInv'
  BY <1>2, LockTaken DEF IInv
<1>5. Owns(t)' <=> Owns(t)
  BY <1>1, <1>2 DEF Owns
<1>6. ThreadOK(t)'
  <2>1. Linked' = Linked
    BY <1>1, LinkedIsReach
  <2>2. CASE to \in {"insert_link", "print_loop"}
    BY <1>1, <1>2, <1>5, <2>2 DEF IInv, ThreadOK, InItemCall, NewNode, Walking, Searching
  <2>3. CASE to \in Searching
    <3>1. bkt[t] = BucketOf(val[t])
      BY <1>1, <1>2, <2>3 DEF IInv, ThreadOK, InItemCall, Searching
    <3>2. Link(t)' = sentinel[bkt[t]]
      BY <1>1 DEF Link
    <3>3. ASSUME NEW a \in Linked, mem[a].m_val = val[t] PROVE a \in From(mem, sentinel[bkt[t]])
      <4>1. ValueBucket(mem, a) = bkt[t]
        BY <3>1, <3>3 DEF ValueBucket
      <4>2. bkt[t] \in Buckets /\ sentinel \in Heads /\ mem \in Memory
        BY TypeFacts DEF IInv
      <4> QED BY <4>1, <4>2, FromHead, LinkedIsReach DEF IInv
    <3>4. ~Owns(t)' /\ to \notin NewNode /\ to # "insert_publish" /\ to # "remove_unlink"
      BY <1>1, <2>3 DEF Owns, Searching, NewNode
    <3> QED BY <1>1, <2>1, <3>1, <3>2, <3>3, <3>4 DEF ThreadOK
  <2> QED BY <1>2, <2>2, <2>3 DEF Searching
<1> QED BY <1>1, <1>3, <1>4, <1>5, <1>6, SameHeap

(* Leaving a critical section.                                              *)
LEMMA UnlockKeeps ==
    ASSUME IInv, NEW t \in Threads, NEW from, NEW to, Unlock(t, from, to),
           <<from, to>> \in {<<"unlock_free", "remove_free">>, <<"unlock", "return">>}
    PROVE  IInv'
<1>1. /\ pc[t] = from /\ pc'[t] = to
      /\ is_locked' = [is_locked EXCEPT ![bkt[t]] = FALSE]
      /\ Frame(t)
      /\ UNCHANGED <<sentinel, mem, allocated, hm, val, bkt, node, cur_ptr>>
  BY DEF Unlock, Goto, local, IInv, TypeOK, Frame, SameLocals
<1>2. \/ from = "unlock_free" /\ to = "remove_free"
      \/ from = "unlock" /\ to = "return"
  OBVIOUS
<1>3. TypeOK'
  BY <1>2, TypeLocking DEF IInv, Locations
<1>4. LockInv'
  BY <1>1, <1>2, LockGiven DEF IInv, Critical
<1>5. Owns(t)' <=> Owns(t)
  BY <1>1, <1>2 DEF Owns
<1>6. ThreadOK(t)'
  BY <1>1, <1>2, <1>5 DEF IInv, ThreadOK, InItemCall, NewNode, Walking, Searching
<1> QED BY <1>1, <1>3, <1>4, <1>5, <1>6, SameHeap

(* print_hashmap leaves one bucket and goes to the next.                    *)
LEMMA PrintUnlockKeeps ==
    ASSUME IInv, NEW t \in Threads, PrintUnlock(t)
    PROVE  IInv'
<1>1. /\ pc[t] = "print_unlock" /\ pc'[t] \in {"print_lock", "idle"}
      /\ is_locked' = [is_locked EXCEPT ![bkt[t]] = FALSE]
      /\ Frame(t)
      /\ UNCHANGED <<sentinel, mem, allocated, hm, node>>
  BY DEF PrintUnlock, Goto, IInv, TypeOK, Frame, SameLocals
<1>3. TypeOK'
  BY TypeLocking DEF IInv, Locations
<1>4. LockInv'
  BY <1>1, LockGiven DEF IInv, Critical
<1>5. ~Owns(t)' /\ ~Owns(t)
  BY <1>1 DEF Owns
<1>6. ThreadOK(t)'
  BY <1>1, <1>5 DEF ThreadOK, InItemCall, NewNode, Walking, Searching
<1> QED BY <1>1, <1>3, <1>4, <1>5, <1>6, SameHeap

(* A call returns, also for lack of memory.                                 *)
LEMMA ReturnKeeps ==
    ASSUME IInv, NEW t \in Threads, Return(t) \/ InsertNoMemory(t)
    PROVE  IInv'
<1>1. /\ pc[t] \in {"return", "insert_malloc"} /\ pc'[t] \in {"idle", "return"}
      /\ Frame(t)
      /\ UNCHANGED <<is_locked, sentinel, mem, allocated, hm>>
  <2>1. CASE Return(t)
    BY <2>1 DEF Return, Goto, shared, IInv, TypeOK, Frame, SameLocals
  <2>2. CASE InsertNoMemory(t)
    BY <2>2 DEF InsertNoMemory, Result, Goto, shared, local, IInv, TypeOK, Frame, SameLocals
  <2> QED BY <2>1, <2>2
<1>3. TypeOK'
  <2>1. TypeOK /\ ThreadOK(t) /\ "idle" \in Locations
    BY DEF IInv, Locations
  <2> QED BY <2>1, TypeLocking, TypeHeapStep
<1>4. LockInv'
  BY <1>1, LocksStay DEF IInv, Critical
<1>5. ~Owns(t)' /\ ~Owns(t)
  BY <1>1 DEF Owns
<1>6. ThreadOK(t)'
  BY <1>1, <1>5 DEF ThreadOK, InItemCall, NewNode, Walking, Searching
<1> QED BY <1>1, <1>3, <1>4, <1>5, <1>6, SameHeap

(* A walk that goes past a node leaves no occurrence of its value behind.  *)
LEMMA AdvanceKeeps ==
    ASSUME IInv, NEW t \in Threads, pc[t] \in {"remove_loop", "lookup_loop", "print_loop"},
           Link(t) # NULL, Advance(t), TypeOK',
           pc[t] \in Searching => mem[Link(t)].m_val # val[t]
    PROVE  IInv'
<1>1. /\ cur_ptr'[t] = Link(t) /\ pc' = pc
      /\ Frame(t)
      /\ UNCHANGED <<is_locked, sentinel, mem, allocated, hm, pc, val, bkt, node>>
  BY DEF Advance, shared, IInv, TypeOK, Frame, SameLocals
<1>2. Link(t) \in Linked /\ ValueBucket(mem, Link(t)) = bkt[t] /\ Linked \in SUBSET Addrs
  BY LinkInBucket, TypeFacts DEF IInv, Walking
<1>3. LockInv'
  BY <1>1, LocksStay DEF IInv
<1>4. ~Owns(t)' /\ ~Owns(t)
  BY <1>1 DEF Owns
<1>5. Linked' = Linked
  BY <1>1, LinkedIsReach
<1>6. Link(t)' = mem[Link(t)].m_next
  BY <1>1 DEF Link
<1>7. ASSUME pc[t] \in Searching, NEW a \in Linked, mem[a].m_val = val[t]
      PROVE  a \in From(mem, mem[Link(t)].m_next)
  <2>1. a \in From(mem, Link(t))
    BY <1>7 DEF IInv, ThreadOK
  <2>2. a # Link(t)
    BY <1>7
  <2>3. mem \in Memory /\ Link(t) \in Addrs
    BY <1>2, TypeFacts DEF IInv
  <2> QED BY <2>1, <2>2, <2>3, FromNext
<1>8. ThreadOK(t)'
  <2>1. pc[t] \in InItemCall => bkt[t] = BucketOf(val[t])
    BY DEF IInv, ThreadOK
  <2>2. pc[t] \notin NewNode /\ pc[t] # "insert_publish" /\ pc[t] # "remove_unlink"
    BY DEF NewNode
  <2> QED BY <1>1, <1>2, <1>4, <1>5, <1>6, <1>7, <2>1, <2>2 DEF ThreadOK
<1> QED BY <1>1, <1>3, <1>4, <1>8, SameHeap

(* The end of a walk: nothing is known of it any more, or the node found.  *)
LEMMA WalkEnds ==
    ASSUME IInv, NEW t \in Threads, pc[t] \in {"remove_loop", "lookup_loop", "print_loop"},
           TypeOK', Frame(t), pc'[t] \in {"unlock", "print_unlock"},
           UNCHANGED <<is_locked, sentinel, mem, allocated, hm, val, bkt, node, cur_ptr>>
    PROVE  IInv'
<1>1. LockInv'
  BY LocksStay DEF IInv, Critical
<1>2. ~Owns(t)' /\ ~Owns(t)
  BY DEF Owns
<1>3. ThreadOK(t)'
  BY <1>2 DEF ThreadOK, InItemCall, NewNode, Walking, Searching
<1> QED BY <1>1, <1>2, <1>3, SameHeap

(* A turn of remove_item's walk.                                            *)
LEMMA RemoveLoopKeeps ==
    ASSUME IInv, NEW t \in Threads, RemoveLoop(t)
    PROVE  IInv'
<1>1. TypeOK' /\ pc[t] = "remove_loop"
  BY TypeWalkStep DEF IInv, RemoveLoop
<1>2. CASE Link(t) = NULL
  <2>1. /\ Frame(t) /\ pc'[t] = "unlock"
        /\ UNCHANGED <<is_locked, sentinel, mem, allocated, hm, val, bkt, node, cur_ptr>>
    BY <1>2 DEF RemoveLoop, Result, Goto, Advance, shared, local, IInv, TypeOK, Frame, SameLocals
  <2> QED BY <1>1, <2>1, WalkEnds
<1>3. CASE Link(t) # NULL /\ mem[Link(t)].m_val = val[t]
  <2>1. /\ Frame(t) /\ pc'[t] = "remove_unlink" /\ node'[t] = Link(t)
        /\ UNCHANGED <<is_locked, sentinel, mem, allocated, hm, val, bkt, cur_ptr>>
    BY <1>3 DEF RemoveLoop, Goto, Advance, shared, local, IInv, TypeOK, Frame, SameLocals
  <2>2. LockInv'
    BY <1>1, <2>1, LocksStay DEF IInv, Critical
  <2>3. ~Owns(t)' /\ ~Owns(t)
    BY <1>1, <2>1 DEF Owns
  <2>4. Link(t) \in Addrs /\ Link(t)' = Link(t) /\ Linked' = Linked
    BY <1>3, <2>1, TypeFacts, LinkedIsReach DEF Link, IInv
  <2>5. ThreadOK(t)'
    <3>1. /\ bkt[t] = BucketOf(val[t])
          /\ cur_ptr[t] # NULL => cur_ptr[t] \in Linked /\ ValueBucket(mem, cur_ptr[t]) = bkt[t]
      BY <1>1 DEF IInv, ThreadOK, InItemCall, Walking
    <3> QED BY <1>3, <2>1, <2>3, <2>4, <3>1 DEF ThreadOK, NewNode, Searching
  <2> QED BY <1>1, <2>1, <2>2, <2>3, <2>5, SameHeap
<1>4. CASE Link(t) # NULL /\ mem[Link(t)].m_val # val[t]
  BY <1>1, <1>4, AdvanceKeeps DEF RemoveLoop
<1> QED BY <1>2, <1>3, <1>4

(* A turn of lookup_item's walk.                                            *)
LEMMA LookupLoopKeeps ==
    ASSUME IInv, NEW t \in Threads, LookupLoop(t)
    PROVE  IInv'
<1>1. TypeOK' /\ pc[t] = "lookup_loop"
  BY TypeWalkStep DEF IInv, LookupLoop
<1>2. CASE Link(t) = NULL \/ mem[Link(t)].m_val = val[t]
  <2>1. /\ Frame(t) /\ pc'[t] = "unlock"
        /\ UNCHANGED <<is_locked, sentinel, mem, allocated, hm, val, bkt, node, cur_ptr>>
    BY <1>2 DEF LookupLoop, Result, Goto, Advance, shared, local, IInv, TypeOK, Frame, SameLocals
  <2> QED BY <1>1, <2>1, WalkEnds
<1>3. CASE Link(t) # NULL /\ mem[Link(t)].m_val # val[t]
  BY <1>1, <1>3, AdvanceKeeps DEF LookupLoop
<1> QED BY <1>2, <1>3

(* A turn of print_hashmap's walk.                                          *)
LEMMA PrintLoopKeeps ==
    ASSUME IInv, NEW t \in Threads, PrintLoop(t)
    PROVE  IInv'
<1>1. TypeOK' /\ pc[t] = "print_loop"
  BY TypeWalkStep DEF IInv, PrintLoop
<1>2. CASE Link(t) = NULL
  <2>1. /\ Frame(t) /\ pc'[t] = "print_unlock"
        /\ UNCHANGED <<is_locked, sentinel, mem, allocated, hm, val, bkt, node, cur_ptr>>
    BY <1>2 DEF PrintLoop, Goto, Advance, shared, local, IInv, TypeOK, Frame, SameLocals
  <2> QED BY <1>1, <2>1, WalkEnds
<1>3. CASE Link(t) # NULL
  BY <1>1, <1>3, AdvanceKeeps DEF PrintLoop, Searching
<1> QED BY <1>2, <1>3
-----------------------------------------------------------------------------
(***************************************************************************)
(* Steps on nodes: an owned node is in no list, so what its owner does to  *)
(* it is seen by nobody.                                                   *)
(***************************************************************************)
LEMMA LiveWhileCalled ==
    ASSUME IInv, NEW t \in Threads, pc[t] # "idle"
    PROVE  /\ hm = "live"
           /\ allocated = Linked \cup {node[u] : u \in {w \in Threads : Owns(w)}}
           /\ \A v \in Threads : Owns(v) =>
                 /\ node[v] \in Addrs /\ node[v] \in allocated /\ node[v] \notin Linked
                 /\ \A u \in Threads \ {v} : Owns(u) => node[u] # node[v]
<1>1. hm = "live"
  BY DEF IInv, LockInv, TypeOK
<1> QED BY <1>1 DEF IInv, EveryNodeHasOneOwner, ThreadOK

(* malloc hands out an address nobody has.                                  *)
LEMMA InsertMallocKeeps ==
    ASSUME IInv, NEW t \in Threads, InsertMalloc(t)
    PROVE  IInv'
<1>1. PICK a \in Addrs \ allocated :
           /\ allocated' = allocated \cup {a}
           /\ mem' = [mem EXCEPT ![a].m_val = val[t]]
           /\ node' = [node EXCEPT ![t] = a]
  BY DEF InsertMalloc
<1>2. /\ pc[t] = "insert_malloc" /\ pc'[t] = "insert_lock" /\ node'[t] = a
      /\ Frame(t)
      /\ UNCHANGED <<is_locked, sentinel, hm, val, bkt, cur_ptr>>
  BY <1>1 DEF InsertMalloc, Goto, IInv, TypeOK, Frame, SameLocals
<1>3. TypeOK'
  BY TypeHeapStep DEF IInv
<1>4. LockInv'
  BY <1>2, LocksStay DEF IInv, Critical
<1>5. hm = "live" /\ a \notin Linked
  BY <1>2, LiveWhileCalled
<1>6. sentinel \in Heads /\ mem \in Memory /\ mem' \in Memory
  BY <1>3, TypeFacts DEF IInv, TypeOK, Memory, Node
<1>7. mem'[a].m_val = val[t] /\ \A c \in Addrs \ {a} : mem'[c] = mem[c]
  BY <1>1, <1>6 DEF Memory, Node
<1>8. Linked' = Linked /\ ListsOK(sentinel, mem)'
  <2>1. \A c \in Reach(sentinel, mem) : mem'[c] = mem[c]
    BY <1>5, <1>6, <1>7, LinkedIsReach, ReachClosed
  <2> QED BY <1>2, <1>6, <2>1, ListsKept, LinkedIsReach DEF IInv
<1>9. ~Owns(t) /\ Owns(t)' /\ \A u \in Threads \ {t} : (Owns(u)' <=> Owns(u)) /\ node'[u] = node[u]
  BY <1>2 DEF Owns, Frame, SameLocals
<1>10. EveryNodeHasOneOwner'
  <2>1. {node'[u] : u \in {w \in Threads : Owns(w)'}}
          = {node[u] : u \in {w \in Threads : Owns(w)}} \cup {a}
    BY <1>2, <1>9
  <2>2. \A u \in Threads : Owns(u) => node[u] # a
    BY <1>2, LiveWhileCalled
  <2> QED BY <1>1, <1>2, <1>5, <1>8, <1>9, <2>1, <2>2 DEF IInv, EveryNodeHasOneOwner
<1>11. ThreadOK(t)'
  BY <1>2, <1>7, <1>9 DEF IInv, ThreadOK, InItemCall, NewNode, Walking, Searching
<1>12. ASSUME NEW u \in Threads \ {t} PROVE ThreadOK(u)'
  <2>1. SameLocals(u) /\ TypeOK /\ ListsOK(sentinel, mem) /\ ThreadOK(u)
    BY <1>2 DEF Frame, IInv
  <2>2. \A b : BucketKept(b)
    <3>1. Linked \in SUBSET Addrs
      BY TypeFacts DEF IInv
    <3> QED BY <1>2, <1>5, <1>7, <1>8, <3>1 DEF BucketKept
  <2>3. Owns(u) => mem'[node[u]] = mem[node[u]]
    BY <1>2, <1>7, LiveWhileCalled
  <2> QED BY <2>1, <2>2, <2>3, OthersKeep
<1> QED BY <1>3, <1>4, <1>8, <1>10, <1>11, <1>12 DEF IInv

(* insert_item links its node to the head, under the lock.                  *)
LEMMA InsertLinkKeeps ==
    ASSUME IInv, NEW t \in Threads, InsertLink(t)
    PROVE  IInv'
<1>1. /\ pc[t] = "insert_link" /\ pc'[t] = "insert_publish"
      /\ mem' = Relink(mem, node[t], sentinel[bkt[t]])
      /\ Frame(t)
      /\ UNCHANGED <<is_locked, sentinel, allocated, hm, val, bkt, node, cur_ptr>>
  BY DEF InsertLink, Relink, Goto, local, IInv, TypeOK, Frame, SameLocals
<1>2. Owns(t) /\ \A u \in Threads : Owns(u)' <=> Owns(u)
  BY <1>1 DEF Owns, Frame, SameLocals
<1>3. TypeOK'
  BY TypeHeapStep DEF IInv
<1>4. LockInv'
  BY <1>1, LocksStay DEF IInv, Critical
<1>5. hm = "live" /\ node[t] \in Addrs /\ node[t] \notin Linked
  BY <1>1, <1>2, LiveWhileCalled
<1>6. sentinel \in Heads /\ mem \in Memory /\ sentinel[bkt[t]] \in Addrs \cup {NULL}
  BY TypeFacts DEF IInv, Heads
<1>7. /\ mem' \in Memory
      /\ mem'[node[t]].m_next = sentinel[bkt[t]] /\ mem'[node[t]].m_val = mem[node[t]].m_val
      /\ \A c \in Addrs \ {node[t]} : mem'[c] = mem[c]
  <2>1. mem' = Relink(mem, node[t], sentinel[bkt[t]])
    BY <1>1
  <2>2. mem' \in Memory
    BY <1>5, <1>6, <2>1, Relinked
  <2>3. mem'[node[t]].m_next = sentinel[bkt[t]]
    BY <1>5, <1>6, <2>1, Relinked
  <2>4. mem'[node[t]].m_val = mem[node[t]].m_val
    BY <1>5, <1>6, <2>1, Relinked
  <2>5. \A c \in Addrs : c # node[t] => mem'[c] = mem[c]
    BY <1>5, <1>6, <2>1, Relinked
  <2> QED BY <2>2, <2>3, <2>4, <2>5
<1>9. Linked' = Linked /\ ListsOK(sentinel, mem)'
  <2>1. \A c \in Reach(sentinel, mem) : mem'[c] = mem[c]
    BY <1>5, <1>6, <1>7, LinkedIsReach, ReachClosed
  <2> QED BY <1>1, <1>6, <1>7, <2>1, ListsKept, LinkedIsReach DEF IInv
<1>10. EveryNodeHasOneOwner'
  <2>1. {node'[u] : u \in {w \in Threads : Owns(w)'}} = {node[u] : u \in {w \in Threads : Owns(w)}}
    BY <1>1, <1>2
  <2> QED BY <1>1, <1>2, <1>9, <2>1 DEF IInv, EveryNodeHasOneOwner
<1>11. ThreadOK(t)'
  BY <1>1, <1>2, <1>7 DEF IInv, ThreadOK, InItemCall, NewNode, Walking, Searching
<1>12. ASSUME NEW u \in Threads \ {t} PROVE ThreadOK(u)'
  <2>1. SameLocals(u) /\ TypeOK /\ ListsOK(sentinel, mem) /\ ThreadOK(u)
    BY <1>1 DEF Frame, IInv
  <2>2. \A b : BucketKept(b)
    <3>1. Linked \in SUBSET Addrs
      BY TypeFacts DEF IInv
    <3> QED BY <1>1, <1>5, <1>7, <1>9, <3>1 DEF BucketKept
  <2>3. Owns(u) => mem'[node[u]] = mem[node[u]]
    BY <1>1, <1>2, <1>7, LiveWhileCalled
  <2> QED BY <2>1, <2>2, <2>3, OthersKeep
<1> QED BY <1>3, <1>4, <1>9, <1>10, <1>11, <1>12 DEF IInv

(* insert_item hands its node over to the list.                            *)
LEMMA InsertPublishKeeps ==
    ASSUME IInv, NEW t \in Threads, InsertPublish(t)
    PROVE  /\ IInv'
           /\ node[t] \notin Linked /\ mem[node[t]].m_val = val[t] /\ mem' = mem
           /\ Linked' = Linked \cup {node[t]}
<1>1. /\ pc[t] = "insert_publish" /\ pc'[t] = "unlock" /\ node'[t] = NULL
      /\ sentinel' = SetHead(sentinel, bkt[t], node[t])
      /\ Frame(t)
      /\ UNCHANGED <<is_locked, mem, allocated, hm, val, bkt, cur_ptr>>
  BY DEF InsertPublish, SetHead, Result, Goto, IInv, TypeOK, Frame, SameLocals
<1>2. Owns(t) /\ ~Owns(t)' /\ \A u \in Threads \ {t} : (Owns(u)' <=> Owns(u)) /\ node'[u] = node[u]
  BY <1>1 DEF Owns, Frame, SameLocals
<1>3. TypeOK'
  BY TypeHeapStep DEF IInv
<1>4. LockInv'
  BY <1>1, LocksStay DEF IInv, Critical
<1>5. hm = "live" /\ node[t] \in Addrs /\ node[t] \notin Linked /\ node[t] \in allocated
  BY <1>1, <1>2, LiveWhileCalled
<1>6. sentinel \in Heads /\ mem \in Memory /\ bkt[t] \in Buckets
  BY TypeFacts DEF IInv
<1>7. /\ mem[node[t]].m_next = sentinel[bkt[t]]
      /\ mem[node[t]].m_val = val[t] /\ ValueBucket(mem, node[t]) = bkt[t]
  BY <1>1 DEF IInv, ThreadOK, NewNode, InItemCall, ValueBucket
<1>8. Linked' = Linked \cup {node[t]} /\ ListsOK(sentinel, mem)'
  <2>1. Reach(sentinel', mem) = Reach(sentinel, mem) \cup {node[t]}
    BY <1>1, <1>5, <1>6, <1>7, ReachPublish
  <2>2. ListsOK(sentinel', mem)
    BY <1>1, <1>5, <1>6, <1>7, LinkedIsReach, ListsPublish DEF IInv
  <2> QED BY <1>1, <2>1, <2>2, LinkedIsReach
<1>10. EveryNodeHasOneOwner'
  <2>1. {node'[u] : u \in {w \in Threads : Owns(w)'}} \cup {node[t]}
          = {node[u] : u \in {w \in Threads : Owns(w)}}
    BY <1>2
  <2>2. \A u \in Threads \ {t} : Owns(u) => node[u] # node[t]
    BY <1>1, <1>2, LiveWhileCalled
  <2>3. allocated' = Linked' \cup {node'[u] : u \in {w \in Threads : Owns(w)'}}
    BY <1>1, <1>8, <2>1, LiveWhileCalled
  <2>4. \A u \in Threads : Owns(u)' =>
           /\ node'[u] \notin Linked'
           /\ \A w \in Threads \ {u} : Owns(w)' => node'[w] # node'[u]
    BY <1>1, <1>2, <1>8, <2>2, LiveWhileCalled
  <2> QED BY <1>1, <1>5, <2>3, <2>4 DEF EveryNodeHasOneOwner
<1>11. ThreadOK(t)'
  BY <1>1, <1>2 DEF ThreadOK, InItemCall, NewNode, Walking, Searching
<1>12. ASSUME NEW u \in Threads \ {t} PROVE ThreadOK(u)'
  <2>1. SameLocals(u) /\ TypeOK /\ ListsOK(sentinel, mem) /\ ThreadOK(u)
    BY <1>1 DEF Frame, IInv
  <2>2. pc[u] \in Critical => BucketKept(bkt[u])
    <3> SUFFICES ASSUME pc[u] \in Critical PROVE BucketKept(bkt[u])
      OBVIOUS
    <3>1. bkt[u] # bkt[t] /\ bkt[u] \in Buckets
      BY <1>1, TypeFacts DEF IInv, LockInv, Critical
    <3>2. sentinel'[bkt[u]] = sentinel[bkt[u]]
      BY <1>1, <1>6, <3>1 DEF Heads, SetHead
    <3> QED BY <1>1, <1>7, <1>8, <3>1, <3>2 DEF BucketKept
  <2>3. Owns(u) => mem'[node[u]] = mem[node[u]]
    BY <1>1
  <2> QED BY <2>1, <2>2, <2>3, OthersKeep
<1> QED BY <1>1, <1>3, <1>4, <1>5, <1>7, <1>8, <1>10, <1>11, <1>12 DEF IInv

(* remove_item takes a node of its value out of the list and owns it.      *)
LEMMA RemoveUnlinkKeeps ==
    ASSUME IInv, NEW t \in Threads, RemoveUnlink(t)
    PROVE  /\ IInv'
           /\ node[t] \in Linked /\ mem[node[t]].m_val = val[t]
           /\ Linked' = Linked \ {node[t]}
           /\ \A a \in Addrs : mem'[a].m_val = mem[a].m_val
<1>1. /\ pc[t] = "remove_unlink" /\ pc'[t] = "unlock_free"
      /\ SetLink(t, mem[node[t]].m_next)
      /\ Frame(t)
      /\ UNCHANGED <<is_locked, allocated, hm, val, bkt, node, cur_ptr>>
  BY DEF RemoveUnlink, Result, Goto, local, IInv, TypeOK, Frame, SameLocals
<1>2. ~Owns(t) /\ Owns(t)' /\ \A u \in Threads \ {t} : (Owns(u)' <=> Owns(u)) /\ node'[u] = node[u]
  BY <1>1 DEF Owns, Frame, SameLocals
<1>3. TypeOK'
  BY TypeHeapStep DEF IInv
<1>4. LockInv'
  BY <1>1, LocksStay DEF IInv, Critical
<1>5. /\ node[t] \in Addrs /\ node[t] = Link(t) /\ mem[node[t]].m_val = val[t]
      /\ bkt[t] = BucketOf(val[t])
      /\ cur_ptr[t] # NULL => cur_ptr[t] \in Linked /\ ValueBucket(mem, cur_ptr[t]) = bkt[t]
  BY <1>1 DEF IInv, ThreadOK, InItemCall, Walking
<1>6. /\ sentinel \in Heads /\ mem \in Memory /\ bkt[t] \in Buckets
      /\ Linked \in SUBSET Addrs /\ mem[node[t]].m_next \in Addrs \cup {NULL}
  BY <1>5, TypeFacts DEF IInv, Memory, Node
<1>7. node[t] \in Linked /\ ValueBucket(mem, node[t]) = bkt[t]
  BY <1>1, <1>5, LinkInBucket, NullIsNoNode DEF IInv, Walking
<1>8. /\ Linked' = Linked \ {node[t]} /\ ListsOK(sentinel, mem)'
      /\ \A a \in Addrs : mem'[a].m_val = mem[a].m_val
      /\ \A a \in Addrs : a # cur_ptr[t] => mem'[a] = mem[a]
      /\ \A b \in Buckets : b # bkt[t] => sentinel'[b] = sentinel[b]
  <2>1. CASE cur_ptr[t] = NULL
    <3>1. /\ sentinel' = SetHead(sentinel, bkt[t], mem[node[t]].m_next) /\ mem' = mem
          /\ sentinel[bkt[t]] = node[t]
      BY <1>1, <1>5, <2>1 DEF SetLink, Link, SetHead
    <3>2. Reach(sentinel', mem) = Reach(sentinel, mem) \ {node[t]}
      BY <1>5, <1>6, <3>1, ReachUnlinkHead DEF IInv
    <3>3. ListsOK(sentinel', mem)
      BY <1>5, <1>6, <3>1, ListsUnlinkHead DEF IInv
    <3>4. \A b \in Buckets : b # bkt[t] => sentinel'[b] = sentinel[b]
      BY <1>6, <3>1 DEF Heads, SetHead
    <3> QED BY <3>1, <3>2, <3>3, <3>4, LinkedIsReach
  <2>2. CASE cur_ptr[t] # NULL
    <3>1. /\ mem' = Relink(mem, cur_ptr[t], mem[node[t]].m_next) /\ sentinel' = sentinel
          /\ mem[cur_ptr[t]].m_next = node[t]
      BY <1>1, <1>5, <2>2 DEF SetLink, Link, Relink
    <3>2. cur_ptr[t] \in Reach(sentinel, mem) /\ cur_ptr[t] \in Addrs
      BY <1>5, <1>6, <2>2, LinkedIsReach
    <3>3. Reach(sentinel, mem') = Reach(sentinel, mem) \ {node[t]}
      BY <1>5, <1>6, <3>1, <3>2, ReachUnlinkInner DEF IInv
    <3>4. ListsOK(sentinel, mem')
      BY <1>5, <1>6, <3>1, <3>2, ListsUnlinkInner DEF IInv
    <3>5. mem'[cur_ptr[t]].m_val = mem[cur_ptr[t]].m_val
      BY <1>6, <3>1, <3>2, Relinked
    <3>6. \A a \in Addrs : a # cur_ptr[t] => mem'[a] = mem[a]
      BY <1>6, <3>1, <3>2, Relinked
    <3>7. \A a \in Addrs : mem'[a].m_val = mem[a].m_val
      BY <3>5, <3>6
    <3> QED BY <3>1, <3>3, <3>4, <3>6, <3>7, LinkedIsReach
  <2> QED BY <2>1, <2>2
<1>9. \A u \in Threads : Owns(u) => node[u] # node[t]
  BY <1>1, <1>7, LiveWhileCalled
<1>10. EveryNodeHasOneOwner'
  <2>1. {node'[u] : u \in {w \in Threads : Owns(w)'}}
          = {node[u] : u \in {w \in Threads : Owns(w)}} \cup {node[t]}
    BY <1>1, <1>2
  <2>2. hm = "live" /\ allocated' = Linked' \cup {node'[u] : u \in {w \in Threads : Owns(w)'}}
    BY <1>1, <1>7, <1>8, <2>1, LiveWhileCalled
  <2>3. \A u \in Threads : Owns(u)' =>
           /\ node'[u] \notin Linked'
           /\ \A w \in Threads \ {u} : Owns(w)' => node'[w] # node'[u]
    BY <1>1, <1>2, <1>8, <1>9, LiveWhileCalled
  <2> QED BY <1>1, <2>2, <2>3 DEF EveryNodeHasOneOwner
<1>11. ThreadOK(t)'
  BY <1>1, <1>2, <1>5 DEF ThreadOK, InItemCall, NewNode, Walking, Searching
<1>12. ASSUME NEW u \in Threads \ {t} PROVE ThreadOK(u)'
  <2>1. SameLocals(u) /\ TypeOK /\ ListsOK(sentinel, mem) /\ ThreadOK(u)
    BY <1>1 DEF Frame, IInv
  <2>2. pc[u] \in Critical => BucketKept(bkt[u])
    <3> SUFFICES ASSUME pc[u] \in Critical PROVE BucketKept(bkt[u])
      OBVIOUS
    <3>1. bkt[u] # bkt[t] /\ bkt[u] \in Buckets
      BY <1>1, TypeFacts DEF IInv, LockInv, Critical
    <3>2. \A x \in Linked : ValueBucket(mem, x) = bkt[u] => x # node[t] /\ x # cur_ptr[t] /\ x \in Addrs
      BY <1>5, <1>6, <1>7, <3>1, NullIsNoNode
    <3>3. \A x \in Linked' : ValueBucket(mem', x) = bkt[u] => x \in Linked /\ ValueBucket(mem, x) = bkt[u]
      BY <1>6, <1>8 DEF ValueBucket
    <3> QED BY <1>8, <3>1, <3>2, <3>3 DEF BucketKept
  <2>3. Owns(u) => mem'[node[u]] = mem[node[u]]
    <3>1. Owns(u) => node[u] \in Addrs /\ node[u] \notin Linked
      BY <1>1, LiveWhileCalled
    <3> QED BY <1>5, <1>8, <3>1, NullIsNoNode
  <2> QED BY <2>1, <2>2, <2>3, OthersKeep
<1> QED BY <1>3, <1>4, <1>5, <1>7, <1>8, <1>10, <1>11, <1>12 DEF IInv

(* remove_item frees its node after the unlock: it is on no list.           *)
LEMMA RemoveFreeKeeps ==
    ASSUME IInv, NEW t \in Threads, RemoveFree(t)
    PROVE  IInv'
<1>1. /\ pc[t] = "remove_free" /\ pc'[t] = "return"
      /\ allocated' = allocated \ {node[t]}
      /\ Frame(t)
      /\ UNCHANGED <<is_locked, sentinel, mem, hm, val, bkt, cur_ptr>>
  BY DEF RemoveFree, Goto, IInv, TypeOK, Frame, SameLocals
<1>2. Owns(t) /\ ~Owns(t)' /\ \A u \in Threads \ {t} : (Owns(u)' <=> Owns(u)) /\ node'[u] = node[u]
  BY <1>1 DEF Owns, Frame, SameLocals
<1>3. TypeOK'
  BY TypeHeapStep DEF IInv
<1>4. LockInv'
  BY <1>1, LocksStay DEF IInv, Critical
<1>5. Linked' = Linked /\ ListsOK(sentinel, mem)'
  BY <1>1, LinkedIsReach DEF IInv
<1>6. EveryNodeHasOneOwner'
  <2>1. hm = "live" /\ node[t] \notin Linked
        /\ \A u \in Threads \ {t} : Owns(u) => node[u] # node[t]
    BY <1>1, <1>2, LiveWhileCalled
  <2>2. {node'[u] : u \in {w \in Threads : Owns(w)'}}
          = {node[u] : u \in {w \in Threads : Owns(w)}} \ {node[t]}
    BY <1>2, <2>1
  <2>3. allocated' = Linked' \cup {node'[u] : u \in {w \in Threads : Owns(w)'}}
    BY <1>1, <1>5, <2>1, <2>2, LiveWhileCalled
  <2>4. \A u \in Threads : Owns(u)' =>
           /\ node'[u] \notin Linked'
           /\ \A w \in Threads \ {u} : Owns(w)' => node'[w] # node'[u]
    BY <1>1, <1>2, <1>5, LiveWhileCalled
  <2> QED BY <1>1, <2>1, <2>3, <2>4 DEF EveryNodeHasOneOwner
<1>7. ThreadOK(t)'
  BY <1>1, <1>2 DEF ThreadOK, InItemCall, NewNode, Walking, Searching
<1>8. ASSUME NEW u \in Threads \ {t} PROVE ThreadOK(u)'
  <2>1. SameLocals(u) /\ TypeOK /\ ListsOK(sentinel, mem) /\ ThreadOK(u)
    BY <1>1 DEF Frame, IInv
  <2>2. \A b : BucketKept(b)
    BY <1>1, <1>5 DEF BucketKept
  <2> QED BY <1>1, <2>1, <2>2, OthersKeep
<1> QED BY <1>3, <1>4, <1>5, <1>6, <1>7, <1>8 DEF IInv

(* free_hashmap, when no call is under way.                                 *)
LEMMA FreeHashmapKeeps ==
    ASSUME IInv, FreeHashmap
    PROVE  IInv'
<1>1. /\ hm = "live" /\ hm' = "freed" /\ allocated' = allocated \ Linked
      /\ \A t \in Threads : pc[t] = "idle"
      /\ UNCHANGED <<is_locked, sentinel, mem, calls, pc, val, bkt, node, cur_ptr, ret>>
  BY DEF FreeHashmap, local
<1>2. TypeOK' /\ LockInv'
  BY <1>1 DEF IInv, TypeOK, LockInv, Critical
<1>3. Linked' = Linked /\ ListsOK(sentinel, mem)'
  BY <1>1, LinkedIsReach DEF IInv
<1>4. EveryNodeHasOneOwner'
  <2>1. \A t \in Threads : ~Owns(t)
    BY <1>1 DEF Owns
  <2>2. allocated = Linked
    BY <1>1, <2>1 DEF IInv, EveryNodeHasOneOwner
  <2> QED BY <1>1, <2>2 DEF EveryNodeHasOneOwner
<1>5. \A t \in Threads : ThreadOK(t)'
  BY <1>1 DEF ThreadOK, Owns, InItemCall, NewNode, Walking, Searching
<1> QED BY <1>2, <1>3, <1>4, <1>5 DEF IInv
-----------------------------------------------------------------------------
(* Empty lists, free locks.                                                 *)
LEMMA InitIInv == Init => IInv
<1> SUFFICES ASSUME Init PROVE IInv
  OBVIOUS
<1>1. TypeOK
  BY AnyValueType, BucketsAssumption, CallsAssumption
     DEF Init, TypeOK, Locations, Buckets, NULL
<1>2. LockInv
  BY DEF Init, LockInv, Critical
<1>3. Linked = {}
  <2>1. HeadsIn(sentinel, {}) /\ NextIn(mem, {})
    BY DEF Init, HeadsIn, NextIn
  <2>2. Linked \subseteq {}
    BY <2>1, ReachLeast, LinkedIsReach
  <2> QED BY <2>2
<1>4. ListsOK(sentinel, mem)
  BY <1>3, LinkedIsReach DEF ListsOK, Init
<1>5. EveryNodeHasOneOwner
  BY <1>3 DEF Init, EveryNodeHasOneOwner, Owns
<1>6. \A t \in Threads : ThreadOK(t)
  BY DEF Init, ThreadOK, Owns, InItemCall, NewNode, Walking, Searching
<1> QED BY <1>1, <1>2, <1>4, <1>5, <1>6 DEF IInv

(* Nothing happens.                                                         *)
LEMMA StutterKeeps == IInv /\ UNCHANGED vars => IInv'
<1> SUFFICES ASSUME IInv, UNCHANGED vars PROVE IInv'
  OBVIOUS
<1>1. UNCHANGED <<is_locked, sentinel, mem, allocated, hm, calls, pc, val, bkt, node, cur_ptr, ret>>
  BY DEF vars, shared, local
<1>2. Linked' = Linked
  BY <1>1, LinkedIsReach
<1>3. TypeOK' /\ LockInv' /\ ListsOK(sentinel, mem)'
  BY <1>1 DEF IInv, TypeOK, LockInv
<1>4. EveryNodeHasOneOwner'
  BY <1>1, <1>2 DEF IInv, EveryNodeHasOneOwner, Owns
<1>5. \A t \in Threads : ThreadOK(t)'
  BY <1>1, <1>2 DEF IInv, ThreadOK, Owns, Link
<1> QED BY <1>3, <1>4, <1>5 DEF IInv

(* Every step keeps the invariant.                                          *)
LEMMA NextIInv == IInv /\ [Next]_vars => IInv'
<1> SUFFICES ASSUME IInv, [Next]_vars PROVE IInv'
  OBVIOUS
<1>1. ASSUME NEW t \in Threads, CallItem(t) \/ CallPrint(t) PROVE IInv'
  BY <1>1, CallKeeps
<1>2. ASSUME NEW t \in Threads, Step(t) PROVE IInv'
  <2>1. CASE InsertMalloc(t)
    BY <2>1, InsertMallocKeeps
  <2>2. CASE InsertNoMemory(t) \/ Return(t)
    BY <2>2, ReturnKeeps
  <2>3. CASE \/ Lock(t, "insert_lock", "insert_link") \/ Lock(t, "remove_lock", "remove_loop")
             \/ Lock(t, "lookup_lock", "lookup_loop") \/ Lock(t, "print_lock", "print_loop")
    BY <2>3, LockKeeps
  <2>4. CASE InsertLink(t)
    BY <2>4, InsertLinkKeeps
  <2>5. CASE InsertPublish(t)
    BY <2>5, InsertPublishKeeps
  <2>6. CASE RemoveLoop(t) \/ LookupLoop(t) \/ PrintLoop(t)
    BY <2>6, RemoveLoopKeeps, LookupLoopKeeps, PrintLoopKeeps
  <2>7. CASE RemoveUnlink(t)
    BY <2>7, RemoveUnlinkKeeps
  <2>8. CASE Unlock(t, "unlock_free", "remove_free") \/ Unlock(t, "unlock", "return")
    BY <2>8, UnlockKeeps
  <2>9. CASE RemoveFree(t)
    BY <2>9, RemoveFreeKeeps
  <2>10. CASE PrintUnlock(t)
    BY <2>10, PrintUnlockKeeps
  <2> QED BY <1>2, <2>1, <2>2, <2>3, <2>4, <2>5, <2>6, <2>7, <2>8, <2>9, <2>10 DEF Step
<1>3. CASE FreeHashmap
  BY <1>3, FreeHashmapKeeps
<1>4. CASE UNCHANGED vars
  BY <1>4, StutterKeeps
<1> QED BY <1>1, <1>2, <1>3, <1>4 DEF Next, Finished

(* The types, the locks, the lists and what every thread knows of them are *)
(* invariant, for any number of threads, buckets, values, nodes and calls. *)
THEOREM LockHashMapInvariance == Spec => []IInv
<1> QED BY InitIInv, NextIInv, PTL DEF Spec

(* Every pointer of insert_item, remove_item, lookup_item and              *)
(* print_hashmap is NULL or a node address.                                *)
THEOREM TypeCorrect == Spec => []TypeOK
<1>1. IInv => TypeOK
  BY DEF IInv
<1> QED BY LockHashMapInvariance, <1>1, PTL

(* remove_item frees a node only when no list and no other thread has it,  *)
(* and free_hashmap leaves none behind.                                    *)
THEOREM NodesHaveOneOwner == Spec => []EveryNodeHasOneOwner
<1>1. IInv => EveryNodeHasOneOwner
  BY DEF IInv
<1> QED BY LockHashMapInvariance, <1>1, PTL

(* Whatever the other threads insert, unlink and free, the node a walk     *)
(* stands on is in a list, and the node remove_item is about to unlink is  *)
(* still the one its link leads to.                                        *)
THEOREM WalksNeverStray == Spec => []WalksStayOnList
<1>1. IInv => WalksStayOnList
  BY DEF IInv, ThreadOK, WalksStayOnList, Walking
<1> QED BY LockHashMapInvariance, <1>1, PTL
-----------------------------------------------------------------------------
(***************************************************************************)
(* The locks of the buckets are used as Spinlock says.                     *)
(***************************************************************************)
LEMMA AtLockIs ==
    ASSUME NEW t \in Threads, NEW b \in Buckets
    PROVE  /\ bkt[t] = b /\ pc[t] \in Waiting => AtLock(t, b) = "locking"
           /\ bkt[t] = b /\ pc[t] \in Critical => AtLock(t, b) = "holding"
           /\ bkt[t] # b \/ pc[t] \notin Waiting \cup Critical => AtLock(t, b) = "outside"
           /\ bkt'[t] = b /\ pc'[t] \in Waiting => AtLock(t, b)' = "locking"
           /\ bkt'[t] = b /\ pc'[t] \in Critical => AtLock(t, b)' = "holding"
           /\ bkt'[t] # b \/ pc'[t] \notin Waiting \cup Critical => AtLock(t, b)' = "outside"
<1>1. Waiting \cap Critical = {}
  BY DEF Waiting, Critical
<1> QED BY <1>1 DEF AtLock

At(b) == [t \in Threads |-> AtLock(t, b)]

(* Seen from a lock, only the thread that steps moves.                      *)
LEMMA OneMoves ==
    ASSUME NEW t \in Threads, NEW b \in Buckets, Frame(t)
    PROVE  At(b)' = [At(b) EXCEPT ![t] = AtLock(t, b)']
<1>1. \A u \in Threads \ {t} : AtLock(u, b)' = AtLock(u, b)
  BY DEF Frame, SameLocals, AtLock
<1> QED BY <1>1 DEF At

LockStep(b) == BucketLock(b)!Next \/ UNCHANGED BucketLock(b)!vars

(* A step that is none of this lock's.                                      *)
LEMMA LockStutters ==
    ASSUME NEW t \in Threads, NEW b \in Buckets, Frame(t), AtLock(t, b)' = AtLock(t, b),
           is_locked'[b] = is_locked[b], hm' = hm
    PROVE  LockStep(b)
<1>1. At(b)' = At(b)
  BY OneMoves DEF At
<1> QED BY <1>1 DEF LockStep, BucketLock!vars, At

(* A thread calls cspin_lock.                                               *)
LEMMA LockIsCalled ==
    ASSUME NEW t \in Threads, NEW b \in Buckets, Frame(t),
           AtLock(t, b) = "outside", AtLock(t, b)' = "locking",
           is_locked'[b] = is_locked[b], hm' = hm, hm = "live"
    PROVE  LockStep(b)
<1>1. At(b)' = [At(b) EXCEPT ![t] = "locking"] /\ At(b)[t] = "outside"
  BY OneMoves DEF At
<1>2. BucketLock(b)!Call(t, "locking")
  BY <1>1 DEF BucketLock!Call, At
<1> QED BY <1>2 DEF LockStep, BucketLock!Next

(* The test-and-set succeeds.                                               *)
LEMMA LockIsTaken ==
    ASSUME NEW t \in Threads, NEW b \in Buckets, Frame(t),
           AtLock(t, b) = "locking", AtLock(t, b)' = "holding",
           ~is_locked[b], is_locked'[b] = TRUE, hm' = hm, hm = "live"
    PROVE  LockStep(b)
<1>1. At(b)' = [At(b) EXCEPT ![t] = "holding"] /\ At(b)[t] = "locking"
  BY OneMoves DEF At
<1>2. [u \in Threads |-> 0] = [[u \in Threads |-> 0] EXCEPT ![t] = 0]
  OBVIOUS
<1>3. BucketLock(b)!cspin_lock(t)
  BY <1>1, <1>2 DEF BucketLock!cspin_lock, BucketLock!Return, At
<1> QED BY <1>3 DEF LockStep, BucketLock!Next, BucketLock!Step

(* cspin_unlock.                                                            *)
LEMMA LockIsGiven ==
    ASSUME NEW t \in Threads, NEW b \in Buckets, Frame(t),
           AtLock(t, b) = "holding", AtLock(t, b)' = "outside",
           is_locked'[b] = FALSE, hm' = hm
    PROVE  LockStep(b)
<1>1. At(b)' = [At(b) EXCEPT ![t] = "outside"] /\ At(b)[t] = "holding"
  BY OneMoves DEF At
<1>2. [u \in Threads |-> 0] = [[u \in Threads |-> 0] EXCEPT ![t] = 0]
  OBVIOUS
<1>3. BucketLock(b)!cspin_unlock(t)
  BY <1>1, <1>2 DEF BucketLock!cspin_unlock, BucketLock!Return, At
<1> QED BY <1>3 DEF LockStep, BucketLock!Next, BucketLock!Step

(* Every step of the map is a step or a stutter of each lock.               *)
LEMMA LocksRefineNext ==
    ASSUME IInv, Next, NEW b \in Buckets
    PROVE  LockStep(b)
<1> USE DEF IInv
<1>1. ASSUME NEW t \in Threads, NEW v, NEW c, NEW entry, Call(t, v, c, entry),
             entry \in Entry \cup {"print_lock"}
      PROVE  LockStep(b)
  <2>1. /\ pc[t] = "idle" /\ hm = "live" /\ pc'[t] = entry /\ Frame(t)
        /\ UNCHANGED <<is_locked, hm>>
    BY <1>1 DEF Call, Goto, shared, TypeOK, Frame, SameLocals
  <2>2. AtLock(t, b) = "outside" /\ AtLock(t, b)' \in {"outside", "locking"}
    BY <1>1, <2>1, AtLockIs DEF Waiting, Critical, Entry
  <2> QED BY <2>1, <2>2, LockStutters, LockIsCalled
<1>2. ASSUME NEW t \in Threads, InsertMalloc(t) PROVE LockStep(b)
  <2>1. /\ pc[t] = "insert_malloc" /\ pc'[t] = "insert_lock" /\ Frame(t) /\ bkt'[t] = bkt[t]
        /\ UNCHANGED <<is_locked, hm>>
    BY <1>2 DEF InsertMalloc, Goto, TypeOK, Frame, SameLocals
  <2>2. AtLock(t, b) = "outside" /\ AtLock(t, b)' \in {"outside", "locking"}
    BY <2>1, AtLockIs DEF Waiting, Critical
  <2>3. hm = "live"
    BY <2>1, LiveWhileCalled
  <2> QED BY <2>1, <2>2, <2>3, LockStutters, LockIsCalled
<1>3. ASSUME NEW t \in Threads, InsertNoMemory(t) \/ RemoveFree(t) \/ Return(t)
      PROVE  LockStep(b)
  <2>1. /\ pc[t] \in {"insert_malloc", "remove_free", "return"} /\ pc'[t] \in {"return", "idle"}
        /\ Frame(t) /\ UNCHANGED <<is_locked, hm>>
    <3>1. CASE InsertNoMemory(t)
      BY <3>1 DEF InsertNoMemory, Result, Goto, shared, local, TypeOK, Frame, SameLocals
    <3>2. CASE RemoveFree(t)
      BY <3>2 DEF RemoveFree, Goto, TypeOK, Frame, SameLocals
    <3>3. CASE Return(t)
      BY <3>3 DEF Return, Goto, shared, TypeOK, Frame, SameLocals
    <3> QED BY <1>3, <3>1, <3>2, <3>3
  <2>2. AtLock(t, b) = "outside" /\ AtLock(t, b)' = "outside"
    BY <2>1, AtLockIs DEF Waiting, Critical
  <2> QED BY <2>1, <2>2, LockStutters
<1>4. ASSUME NEW t \in Threads,
             \/ InsertLink(t) \/ InsertPublish(t) \/ RemoveLoop(t) \/ RemoveUnlink(t)
             \/ LookupLoop(t) \/ PrintLoop(t)
      PROVE  LockStep(b)
  <2>1. /\ pc[t] \in Critical /\ pc'[t] \in Critical /\ bkt'[t] = bkt[t]
        /\ Frame(t) /\ UNCHANGED <<is_locked, hm>>
    <3>1. CASE InsertLink(t)
      BY <3>1 DEF InsertLink, Goto, local, TypeOK, Frame, SameLocals, Critical
    <3>2. CASE InsertPublish(t)
      BY <3>2 DEF InsertPublish, Result, Goto, local, TypeOK, Frame, SameLocals, Critical
    <3>3. CASE RemoveLoop(t)
      BY <3>3 DEF RemoveLoop, Advance, Result, Goto, local, shared, TypeOK, Frame, SameLocals, Critical
    <3>4. CASE RemoveUnlink(t)
      BY <3>4 DEF RemoveUnlink, Result, Goto, local, TypeOK, Frame, SameLocals, Critical
    <3>5. CASE LookupLoop(t)
      BY <3>5 DEF LookupLoop, Advance, Result, Goto, local, shared, TypeOK, Frame, SameLocals, Critical
    <3>6. CASE PrintLoop(t)
      BY <3>6 DEF PrintLoop, Advance, Goto, local, shared, TypeOK, Frame, SameLocals, Critical
    <3> QED BY <1>4, <3>1, <3>2, <3>3, <3>4, <3>5, <3>6
  <2>2. AtLock(t, b)' = AtLock(t, b)
    BY <2>1, AtLockIs
  <2> QED BY <2>1, <2>2, LockStutters
<1>5. ASSUME NEW t \in Threads, NEW from \in Waiting, NEW to \in Critical, Lock(t, from, to)
      PROVE  LockStep(b)
  <2>1. /\ pc[t] = from /\ pc'[t] = to /\ bkt'[t] = bkt[t] /\ hm' = hm /\ Frame(t)
        /\ ~is_locked[bkt[t]] /\ is_locked' = [is_locked EXCEPT ![bkt[t]] = TRUE]
    BY <1>5 DEF Lock, Goto, TypeOK, Frame, SameLocals
  <2>2. hm = "live"
    BY <2>1, LiveWhileCalled DEF Waiting
  <2>3. CASE b = bkt[t]
    <3>1. AtLock(t, b) = "locking" /\ AtLock(t, b)' = "holding" /\ is_locked'[b] = TRUE
      BY <2>1, <2>3, AtLockIs DEF TypeOK
    <3> QED BY <2>1, <2>2, <2>3, <3>1, LockIsTaken
  <2>4. CASE b # bkt[t]
    <3>1. AtLock(t, b) = "outside" /\ AtLock(t, b)' = "outside" /\ is_locked'[b] = is_locked[b]
      BY <2>1, <2>4, AtLockIs DEF TypeOK
    <3> QED BY <2>1, <3>1, LockStutters
  <2> QED BY <2>3, <2>4
<1>6. ASSUME NEW t \in Threads, NEW from \in Critical, NEW to \in {"remove_free", "return"},
             Unlock(t, from, to)
      PROVE  LockStep(b)
  <2>1. /\ pc[t] = from /\ pc'[t] = to /\ bkt'[t] = bkt[t] /\ hm' = hm /\ Frame(t)
        /\ is_locked' = [is_locked EXCEPT ![bkt[t]] = FALSE]
    BY <1>6 DEF Unlock, Goto, local, TypeOK, Frame, SameLocals
  <2>2. AtLock(t, b)' = "outside"
    BY <2>1, AtLockIs DEF Waiting, Critical
  <2>3. CASE b = bkt[t]
    <3>1. AtLock(t, b) = "holding" /\ is_locked'[b] = FALSE
      BY <2>1, <2>3, AtLockIs DEF TypeOK
    <3> QED BY <2>1, <2>2, <3>1, LockIsGiven
  <2>4. CASE b # bkt[t]
    <3>1. AtLock(t, b) = "outside" /\ is_locked'[b] = is_locked[b]
      BY <2>1, <2>4, AtLockIs DEF TypeOK
    <3> QED BY <2>1, <2>2, <3>1, LockStutters
  <2> QED BY <2>3, <2>4
<1>7. ASSUME NEW t \in Threads, PrintUnlock(t) PROVE LockStep(b)
  <2>1. /\ pc[t] = "print_unlock" /\ hm' = hm /\ Frame(t)
        /\ is_locked' = [is_locked EXCEPT ![bkt[t]] = FALSE]
        /\ \/ pc'[t] = "print_lock" /\ bkt'[t] = bkt[t] + 1
           \/ pc'[t] = "idle"
    BY <1>7 DEF PrintUnlock, Goto, TypeOK, Frame, SameLocals
  <2>2. hm = "live" /\ bkt[t] \in Int
    BY <2>1, LiveWhileCalled, BucketsAssumption DEF TypeOK, Buckets
  <2>3. CASE b = bkt[t]
    <3>1. AtLock(t, b) = "holding" /\ AtLock(t, b)' = "outside" /\ is_locked'[b] = FALSE
      <4>1. AtLock(t, b) = "holding" /\ is_locked'[b] = FALSE
        BY <2>1, <2>3, AtLockIs DEF TypeOK, Critical
      <4>2. bkt'[t] # b \/ pc'[t] \notin Waiting \cup Critical
        BY <2>1, <2>2, <2>3 DEF Waiting, Critical
      <4> QED BY <4>1, <4>2, AtLockIs
    <3> QED BY <2>1, <3>1, LockIsGiven
  <2>4. CASE b # bkt[t]
    <3>1. AtLock(t, b) = "outside" /\ is_locked'[b] = is_locked[b]
      BY <2>1, <2>4, AtLockIs DEF TypeOK
    <3>2. AtLock(t, b)' \in {"outside", "locking"}
      BY <2>1, AtLockIs DEF Waiting, Critical
    <3> QED BY <2>1, <2>2, <3>1, <3>2, LockStutters, LockIsCalled
  <2> QED BY <2>3, <2>4
<1>8. CASE FreeHashmap
  <2>1. \A t \in Threads : AtLock(t, b) = "outside" /\ AtLock(t, b)' = "outside"
    BY <1>8, AtLockIs DEF FreeHashmap, local, Waiting, Critical
  <2>2. BucketLock(b)!cspin_free
    BY <1>8, <2>1 DEF FreeHashmap, BucketLock!cspin_free
  <2> QED BY <2>2 DEF LockStep, BucketLock!Next
<1>9. CASE Finished
  <2>1. UNCHANGED <<is_locked, hm, pc, bkt>>
    BY <1>9 DEF Finished, vars, shared, local
  <2> QED BY <2>1 DEF LockStep, BucketLock!vars, AtLock
<1>10. ASSUME NEW t \in Threads, Step(t) PROVE LockStep(b)
  <2>1. CASE \/ Lock(t, "insert_lock", "insert_link") \/ Lock(t, "remove_lock", "remove_loop")
             \/ Lock(t, "lookup_lock", "lookup_loop") \/ Lock(t, "print_lock", "print_loop")
    BY <1>5, <2>1 DEF Waiting, Critical
  <2>2. CASE Unlock(t, "unlock_free", "remove_free") \/ Unlock(t, "unlock", "return")
    BY <1>6, <2>2 DEF Critical
  <2> QED BY <1>2, <1>3, <1>4, <1>7, <1>10, <2>1, <2>2 DEF Step
<1>11. ASSUME NEW t \in Threads, CallItem(t) \/ CallPrint(t) PROVE LockStep(b)
  BY <1>1, <1>11 DEF CallItem, CallPrint
<1> QED BY <1>8, <1>9, <1>10, <1>11 DEF Next

(* cspin_lock and cspin_unlock of every bucket are called as the spinlock  *)
(* requires: only the call that has locked a bucket unlocks it, once, and  *)
(* free_hashmap frees no lock that is in use.                              *)
THEOREM LocksRefine == Spec => LocksUsedAsSpecified
<1>1. Init => \A b \in Buckets : BucketLock(b)!Init
  <2> SUFFICES ASSUME Init, NEW b \in Buckets PROVE BucketLock(b)!Init
    OBVIOUS
  <2>1. \A t \in Threads : AtLock(t, b) = "outside"
    BY AtLockIs DEF Init, Waiting, Critical
  <2> QED BY <2>1 DEF Init, BucketLock!Init
<1>2. IInv /\ [Next]_vars =>
         [\A b \in Buckets : BucketLock(b)!Next \/ UNCHANGED BucketLock(b)!vars]_vars
  BY LocksRefineNext DEF LockStep
<1> QED BY LockHashMapInvariance, <1>1, <1>2, PTL DEF Spec, LocksUsedAsSpecified
-----------------------------------------------------------------------------
(***************************************************************************)
(* The refinement of the bag.                                              *)
(***************************************************************************)
Holding(v) == {a \in Linked : mem[a].m_val = v}
Count      == [v \in Values |-> Cardinality(Holding(v))]
MapCalls   == [t \in Threads |-> MapCall(t)]
SameRet(t) == \A u \in Threads \ {t} : ret'[u] = ret[u]

(* The bag and its calls, before and after a step.                          *)
LEMMA MapIs ==
    /\ Count = [v \in Values |-> Cardinality({a \in Linked : mem[a].m_val = v})]
    /\ Count' = [v \in Values |-> Cardinality({a \in Linked : mem[a].m_val = v})]'
    /\ MapCalls = [t \in Threads |-> MapCall(t)]
    /\ MapCalls' = [t \in Threads |-> MapCall(t)]'
BY DEF Count, Holding, MapCalls

InsertAt == {"insert_malloc", "insert_lock", "insert_link", "insert_publish"}
RemoveAt == {"remove_lock", "remove_loop", "remove_unlink"}
LookupAt == {"lookup_lock", "lookup_loop"}
NoneAt   == {"idle", "print_lock", "print_loop", "print_unlock"}
DoneAt   == {"unlock", "unlock_free", "remove_free", "return"}

(* The operation of each location.                                          *)
LEMMA OpAtIs ==
    ASSUME NEW l
    PROVE  /\ l \in InsertAt => OpAt(l) = "insert"
           /\ l \in RemoveAt => OpAt(l) = "remove"
           /\ l \in LookupAt => OpAt(l) = "lookup"
           /\ l \in NoneAt => OpAt(l) = "none"
           /\ l \in DoneAt => OpAt(l) = "done"
<1>1. l \in InsertAt => OpAt(l) = "insert"
  BY DEF OpAt, InsertAt
<1>2. l \in RemoveAt => OpAt(l) = "remove"
  BY DEF OpAt, RemoveAt
<1>3. l \in LookupAt => OpAt(l) = "lookup"
  BY DEF OpAt, LookupAt
<1>4. l \in NoneAt => OpAt(l) = "none"
  BY DEF OpAt, NoneAt
<1>5. l \in DoneAt => OpAt(l) = "done"
  BY DEF OpAt, DoneAt
<1> QED BY <1>1, <1>2, <1>3, <1>4, <1>5

(* The abstract call of a thread by its location.                           *)
LEMMA MapCallIs ==
    ASSUME NEW t \in Threads
    PROVE  /\ OpAt(pc[t]) = "none" => MapCall(t) = <<"idle">>
           /\ OpAt(pc[t]) = "done" => MapCall(t) = <<"done", ret[t]>>
           /\ OpAt(pc[t]) \in {"insert", "remove", "lookup"} =>
                 MapCall(t) = <<"pending", OpAt(pc[t]), val[t]>>
           /\ OpAt(pc'[t]) = "none" => MapCall(t)' = <<"idle">>
           /\ OpAt(pc'[t]) = "done" => MapCall(t)' = <<"done", ret'[t]>>
           /\ OpAt(pc'[t]) \in {"insert", "remove", "lookup"} =>
                 MapCall(t)' = <<"pending", OpAt(pc'[t]), val'[t]>>
<1>1. OpAt(pc[t])' = OpAt(pc'[t])
  OBVIOUS
<1>2. /\ OpAt(pc[t]) = "none" => MapCall(t) = <<"idle">>
      /\ OpAt(pc[t]) = "done" => MapCall(t) = <<"done", ret[t]>>
      /\ OpAt(pc[t]) \in {"insert", "remove", "lookup"} =>
            MapCall(t) = <<"pending", OpAt(pc[t]), val[t]>>
  BY DEF MapCall
<1>3. /\ OpAt(pc'[t]) = "none" => MapCall(t)' = <<"idle">>
      /\ OpAt(pc'[t]) = "done" => MapCall(t)' = <<"done", ret'[t]>>
      /\ OpAt(pc'[t]) \in {"insert", "remove", "lookup"} =>
            MapCall(t)' = <<"pending", OpAt(pc'[t]), val'[t]>>
  BY <1>1 DEF MapCall
<1> QED BY <1>2, <1>3

(* Only the abstract call of the thread that steps changes.                 *)
LEMMA CallsMove ==
    ASSUME NEW t \in Threads, Frame(t), SameRet(t)
    PROVE  MapCalls' = [MapCalls EXCEPT ![t] = MapCall(t)']
<1>1. \A u \in Threads \ {t} : MapCall(u)' = MapCall(u)
  <2> SUFFICES ASSUME NEW u \in Threads \ {t} PROVE MapCall(u)' = MapCall(u)
    OBVIOUS
  <2>1. pc'[u] = pc[u] /\ val'[u] = val[u] /\ ret'[u] = ret[u]
    BY DEF Frame, SameLocals, SameRet
  <2> QED BY <2>1 DEF MapCall
<1> QED BY <1>1 DEF MapCalls

(* The nodes with a value are finitely many.                                *)
LEMMA HoldingType ==
    ASSUME TypeOK, NEW v
    PROVE  /\ IsFiniteSet(Holding(v)) /\ Cardinality(Holding(v)) \in Nat
           /\ Cardinality(Holding(v)) = 0 <=> Holding(v) = {}
<1>1. Holding(v) \in SUBSET Addrs
  BY TypeFacts DEF Holding
<1>2. IsFiniteSet(Holding(v))
  BY <1>1, AddrsAssumption, FS_Subset
<1> QED BY <1>2, FS_CardinalityType, FS_EmptySet

(* The bag stays if lists and values do.                                    *)
LEMMA SameCount ==
    ASSUME Linked' = Linked, \A a \in Linked : mem'[a].m_val = mem[a].m_val
    PROVE  Count' = Count
<1>1. \A v : Holding(v)' = Holding(v)
  BY DEF Holding
<1> QED BY <1>1 DEF Count

(* A step that the bag does not see.                                        *)
LEMMA MapStutters ==
    ASSUME NEW t \in Threads, Frame(t), SameRet(t), MapCall(t)' = MapCall(t), Count' = Count
    PROVE  UNCHANGED Map!vars
<1>1. MapCalls' = MapCalls
  BY CallsMove DEF MapCalls
<1> QED BY <1>1, MapIs DEF Map!vars

(* The bag's call begins.                                                   *)
LEMMA MapInvokes ==
    ASSUME NEW t \in Threads, Frame(t), SameRet(t), Count' = Count, NEW op \in Map!Ops,
           NEW v \in Values, MapCall(t) = <<"idle">>, MapCall(t)' = <<"pending", op, v>>
    PROVE  Map!Next
<1>1. MapCalls' = [MapCalls EXCEPT ![t] = <<"pending", op, v>>] /\ MapCalls[t] = <<"idle">>
  BY CallsMove DEF MapCalls
<1>2. Map!Invoke(t, op, v)
  BY <1>1, MapIs DEF Map!Invoke, Map!Idle, Map!Pending
<1> QED BY <1>2 DEF Map!Next

(* The bag's call returns.                                                  *)
LEMMA MapReturns ==
    ASSUME NEW t \in Threads, Frame(t), SameRet(t), Count' = Count, NEW r \in {0, 1},
           MapCall(t) = <<"done", r>>, MapCall(t)' = <<"idle">>
    PROVE  Map!Next
<1>1. MapCalls' = [MapCalls EXCEPT ![t] = <<"idle">>] /\ MapCalls[t] = <<"done", r>>
  BY CallsMove DEF MapCalls
<1>2. MapCalls[t] \in {<<"done", 0>>, <<"done", 1>>}
  BY <1>1
<1>3. Map!Return(t)
  BY <1>1, <1>2, MapIs DEF Map!Return, Map!Idle, Map!Done
<1> QED BY <1>3 DEF Map!Next

(* What a call may do to the bag, as chashmap.h has it.                    *)
Effect(op, v, r, bag, new) ==
    \/ op = "insert" /\ r = 0 /\ new = [bag EXCEPT ![v] = @ + 1]
    \/ op = "insert" /\ r = 1 /\ new = bag
    \/ op = "remove" /\ r = 0 /\ bag[v] > 0 /\ new = [bag EXCEPT ![v] = @ - 1]
    \/ op = "remove" /\ r = 1 /\ bag[v] = 0 /\ new = bag
    \/ op = "lookup" /\ r = 0 /\ bag[v] > 0 /\ new = bag
    \/ op = "lookup" /\ r = 1 /\ bag[v] = 0 /\ new = bag

(* An effect is one of the contract's outcomes.                             *)
LEMMA EffectIsOutcome ==
    ASSUME NEW op, NEW v, NEW r \in {0, 1}, NEW bag, NEW new, Effect(op, v, r, bag, new)
    PROVE  [bag |-> new, ret |-> r] \in Map!Outcomes(bag, <<"pending", op, v>>)
BY DEF Effect, Map!Outcomes

(* The bag's call takes effect.                                             *)
LEMMA MapPerforms ==
    ASSUME NEW t \in Threads, Frame(t), SameRet(t), NEW op \in Map!Ops, NEW v \in Values,
           NEW r \in {0, 1}, MapCall(t) = <<"pending", op, v>>, MapCall(t)' = <<"done", r>>,
           Effect(op, v, r, Count, Count')
    PROVE  Map!Next
<1>1. MapCalls' = [MapCalls EXCEPT ![t] = <<"done", r>>] /\ MapCalls[t] = <<"pending", op, v>>
  BY CallsMove DEF MapCalls
<1>2. MapCalls[t] \in Map!PendingCalls
  BY <1>1 DEF Map!PendingCalls, Map!Pending
<1> DEFINE o == [bag |-> Count', ret |-> r]
<1>3. o \in Map!Outcomes(Count, MapCalls[t])
  BY <1>1, EffectIsOutcome
<1>4. o.bag = Count' /\ o.ret = r
  OBVIOUS
<1> HIDE DEF o
<1>5. Map!Perform(t)
  BY <1>1, <1>2, <1>3, <1>4, MapIs DEF Map!Perform, Map!Done
<1> QED BY <1>5 DEF Map!Next

(* Publishing adds one occurrence.                                          *)
LEMMA CountAfterInsert ==
    ASSUME TypeOK, NEW v \in Values, NEW n \in Addrs, n \notin Linked, mem[n].m_val = v,
           Linked' = Linked \cup {n}, mem' = mem
    PROVE  Count' = [Count EXCEPT ![v] = @ + 1]
<1>1. Holding(v)' = Holding(v) \cup {n} /\ n \notin Holding(v)
  BY DEF Holding
<1>2. Cardinality(Holding(v)') = Cardinality(Holding(v)) + 1
  BY <1>1, HoldingType, FS_AddElement
<1>3. \A w \in Values \ {v} : Holding(w)' = Holding(w)
  BY DEF Holding
<1> QED BY <1>2, <1>3 DEF Count

(* Unlinking takes one occurrence away.                                     *)
LEMMA CountAfterRemove ==
    ASSUME TypeOK, NEW v \in Values, NEW n \in Linked, mem[n].m_val = v,
           Linked' = Linked \ {n}, \A a \in Addrs : mem'[a].m_val = mem[a].m_val
    PROVE  Count[v] > 0 /\ Count' = [Count EXCEPT ![v] = @ - 1]
<1>0. Linked \in SUBSET Addrs
  BY TypeFacts
<1>1. Holding(v)' = Holding(v) \ {n} /\ n \in Holding(v)
  BY <1>0 DEF Holding
<1>2. Cardinality(Holding(v)') = Cardinality(Holding(v)) - 1
  BY <1>1, HoldingType, FS_RemoveElement
<1>3. \A w \in Values \ {v} : Holding(w)' = Holding(w)
  BY <1>0 DEF Holding
<1>4. Cardinality(Holding(v)) \in Nat /\ Cardinality(Holding(v)) # 0
  BY <1>1, HoldingType
<1>5. Count[v] > 0
  BY <1>4 DEF Count
<1>6. Count' = [Count EXCEPT ![v] = @ - 1]
  BY <1>2, <1>3 DEF Count
<1> QED BY <1>5, <1>6

(* A walk that has reached the end has found the value absent, one that    *)
(* stands before a node with the value has found it present.               *)
LEMMA SearchIsRight ==
    ASSUME IInv, NEW t \in Threads, pc[t] \in Searching
    PROVE  /\ Link(t) = NULL => Count[val[t]] = 0
           /\ Link(t) # NULL /\ mem[Link(t)].m_val = val[t] => Count[val[t]] > 0
<1>1. val[t] \in Values /\ TypeOK
  BY TypeFacts DEF IInv
<1>2. Count[val[t]] = Cardinality(Holding(val[t])) /\ Cardinality(Holding(val[t])) \in Nat
  BY <1>1, HoldingType DEF Count
<1>3. ASSUME Link(t) = NULL PROVE Count[val[t]] = 0
  <2>1. \A a \in Linked : mem[a].m_val # val[t]
    BY <1>3, FromNull DEF IInv, ThreadOK
  <2>2. Holding(val[t]) = {}
    BY <2>1 DEF Holding
  <2> QED BY <1>1, <1>2, <2>2, HoldingType
<1>4. ASSUME Link(t) # NULL, mem[Link(t)].m_val = val[t] PROVE Count[val[t]] > 0
  <2>1. Link(t) \in Linked
    BY <1>4, LinkInBucket DEF IInv, Walking, Searching
  <2>2. Holding(val[t]) # {}
    BY <1>4, <2>1 DEF Holding
  <2>3. Cardinality(Holding(val[t])) # 0
    BY <1>1, <2>2, HoldingType
  <2> QED BY <1>2, <2>3
<1> QED BY <1>3, <1>4

MapStep == Map!Next \/ UNCHANGED Map!vars

(* The operations of the bag.                                               *)
LEMMA OpsAre == {"insert", "remove", "lookup"} = Map!Ops
BY DEF Map!Ops

(* A walk that finds nothing, or the find of lookup_item, takes effect      *)
(* then; other turns are stutters.                                          *)
LEMMA WalkRefines ==
    ASSUME IInv, NEW t \in Threads, RemoveLoop(t) \/ LookupLoop(t)
    PROVE  MapStep
<1> DEFINE op == OpAt(pc[t])
<1>0. \/ pc[t] = "remove_loop" /\ RemoveLoop(t)
      \/ pc[t] = "lookup_loop" /\ LookupLoop(t)
  BY DEF RemoveLoop, LookupLoop
<1>1. pc[t] \in Searching /\ op \in {"remove", "lookup"} /\ val[t] \in Values
  BY <1>0, OpAtIs, TypeFacts DEF IInv, Searching, RemoveAt, LookupAt
<1>2. MapCall(t) = <<"pending", op, val[t]>>
  BY <1>1, MapCallIs
<1>3. Frame(t) /\ UNCHANGED <<sentinel, mem, val>>
  <2>1. CASE RemoveLoop(t)
    BY <2>1 DEF RemoveLoop, Advance, Result, Goto, shared, local, IInv, TypeOK, Frame, SameLocals
  <2>2. CASE LookupLoop(t)
    BY <2>2 DEF LookupLoop, Advance, Result, Goto, shared, local, IInv, TypeOK, Frame, SameLocals
  <2> QED BY <2>1, <2>2
<1>4. Count' = Count
  BY <1>3, SameCount, LinkedIsReach
<1>5. CASE Link(t) = NULL
  <2>1. pc'[t] = "unlock" /\ ret'[t] = 1 /\ SameRet(t)
    BY <1>0, <1>5 DEF RemoveLoop, LookupLoop, Result, Goto, IInv, TypeOK, SameRet
  <2>2. MapCall(t)' = <<"done", 1>>
    BY <2>1, OpAtIs, MapCallIs DEF DoneAt
  <2>3. Effect(op, val[t], 1, Count, Count')
    BY <1>1, <1>4, <1>5, SearchIsRight DEF Effect
  <2> HIDE DEF op
  <2> QED BY <1>1, <1>2, <1>3, <2>1, <2>2, <2>3, OpsAre, MapPerforms DEF MapStep
<1>6. CASE Link(t) # NULL /\ mem[Link(t)].m_val = val[t] /\ pc[t] = "lookup_loop"
  <2>1. pc'[t] = "unlock" /\ ret'[t] = 0 /\ SameRet(t)
    BY <1>0, <1>6 DEF LookupLoop, Result, Goto, IInv, TypeOK, SameRet
  <2>2. MapCall(t)' = <<"done", 0>> /\ op = "lookup"
    BY <1>6, <2>1, OpAtIs, MapCallIs DEF DoneAt, LookupAt
  <2>3. Effect(op, val[t], 0, Count, Count')
    BY <1>1, <1>4, <1>6, <2>2, SearchIsRight DEF Effect
  <2> HIDE DEF op
  <2> QED BY <1>1, <1>2, <1>3, <2>1, <2>2, <2>3, OpsAre, MapPerforms DEF MapStep
<1>7. CASE Link(t) # NULL /\ mem[Link(t)].m_val = val[t] /\ pc[t] = "remove_loop"
  <2>1. pc'[t] = "remove_unlink" /\ SameRet(t)
    BY <1>0, <1>7 DEF RemoveLoop, Goto, IInv, TypeOK, SameRet
  <2>2. MapCall(t)' = <<"pending", "remove", val[t]>> /\ op = "remove"
    BY <1>3, <1>7, <2>1, OpAtIs, MapCallIs DEF RemoveAt
  <2> QED BY <1>2, <1>3, <1>4, <2>1, <2>2, MapStutters DEF MapStep
<1>8. CASE Link(t) # NULL /\ mem[Link(t)].m_val # val[t]
  <2>1. pc' = pc /\ SameRet(t)
    BY <1>0, <1>8 DEF RemoveLoop, LookupLoop, Advance, SameRet
  <2>2. MapCall(t)' = <<"pending", op, val[t]>>
    BY <1>1, <1>3, <2>1, MapCallIs
  <2> QED BY <1>2, <1>3, <1>4, <2>1, <2>2, MapStutters DEF MapStep
<1> QED BY <1>0, <1>5, <1>6, <1>7, <1>8

(* Every step of a call is a step or a stutter of the bag.                  *)
LEMMA MapRefinesStep ==
    ASSUME IInv, NEW t \in Threads, Step(t)
    PROVE  MapStep
<1>i. TypeOK /\ ThreadOK(t)
  BY DEF IInv
<1>0. val[t] \in Values /\ ret[t] \in {0, 1} /\ Linked \in SUBSET Addrs
  BY <1>i, TypeFacts DEF TypeOK
<1>1. CASE InsertMalloc(t)
  <2>1. PICK a \in Addrs \ allocated :
             /\ allocated' = allocated \cup {a}
             /\ mem' = [mem EXCEPT ![a].m_val = val[t]]
             /\ node' = [node EXCEPT ![t] = a]
    BY <1>1 DEF InsertMalloc
  <2>2. /\ pc[t] = "insert_malloc" /\ pc'[t] = "insert_lock"
        /\ Frame(t) /\ SameRet(t) /\ UNCHANGED <<sentinel, val>>
    BY <1>i, <1>1 DEF InsertMalloc, Goto, TypeOK, Frame, SameLocals, SameRet
  <2>3. mem \in Memory /\ sentinel \in Heads
    BY <1>i, TypeFacts
  <2>4. a \notin Linked
    BY <2>2, LiveWhileCalled
  <2>5. mem' \in Memory /\ \A c \in Addrs \ {a} : mem'[c] = mem[c]
    <3>1. TypeOK'
      BY <1>i, <1>1, TypeHeapStep
    <3> QED BY <1>i, <2>1, <2>3, <3>1 DEF TypeOK, Memory, Node
  <2>6. Linked' = Linked /\ \A c \in Linked : mem'[c] = mem[c]
    <3>1. \A c \in Linked : mem'[c] = mem[c]
      BY <1>0, <2>4, <2>5
    <3> QED BY <2>2, <2>3, <2>5, <3>1, ReachKept, LinkedIsReach
  <2>7. MapCall(t)' = MapCall(t)
    BY <2>2, OpAtIs, MapCallIs DEF InsertAt
  <2>8. Count' = Count
    BY <2>6, SameCount
  <2> QED BY <2>2, <2>7, <2>8, MapStutters DEF MapStep
<1>2. CASE InsertNoMemory(t)
  <2>1. /\ pc[t] = "insert_malloc" /\ pc'[t] = "return" /\ ret'[t] = 1
        /\ Frame(t) /\ SameRet(t) /\ UNCHANGED <<sentinel, mem, val>>
    BY <1>i, <1>2 DEF InsertNoMemory, Result, Goto, shared, local, TypeOK, Frame, SameLocals, SameRet
  <2>2. MapCall(t) = <<"pending", "insert", val[t]>> /\ MapCall(t)' = <<"done", 1>>
    BY <2>1, OpAtIs, MapCallIs DEF InsertAt, DoneAt
  <2>3. Effect("insert", val[t], 1, Count, Count')
    BY <2>1, SameCount, LinkedIsReach DEF Effect
  <2> QED BY <1>0, <2>1, <2>2, <2>3, OpsAre, MapPerforms DEF MapStep
<1>3. CASE InsertLink(t)
  <2>1. /\ pc[t] = "insert_link" /\ pc'[t] = "insert_publish"
        /\ mem' = Relink(mem, node[t], sentinel[bkt[t]])
        /\ Frame(t) /\ SameRet(t) /\ UNCHANGED <<sentinel, val>>
    BY <1>i, <1>3 DEF InsertLink, Relink, Goto, local, TypeOK, Frame, SameLocals, SameRet
  <2>2. /\ mem \in Memory /\ sentinel \in Heads /\ sentinel[bkt[t]] \in Addrs \cup {NULL}
        /\ node[t] \in Addrs /\ node[t] \notin Linked
    <3>1. Owns(t)
      BY <2>1 DEF Owns
    <3> QED BY <1>i, <2>1, <3>1, LiveWhileCalled, TypeFacts DEF Heads
  <2>3. \A c \in Addrs : c # node[t] => mem'[c] = mem[c]
    BY <2>1, <2>2, Relinked
  <2>4. mem' \in Memory
    BY <2>1, <2>2, Relinked
  <2>5. Linked' = Linked /\ \A c \in Linked : mem'[c] = mem[c]
    <3>1. \A c \in Linked : mem'[c] = mem[c]
      BY <1>0, <2>2, <2>3
    <3> QED BY <2>1, <2>2, <2>4, <3>1, ReachKept, LinkedIsReach
  <2>6. MapCall(t)' = MapCall(t)
    BY <2>1, OpAtIs, MapCallIs DEF InsertAt
  <2>7. Count' = Count
    BY <2>5, SameCount
  <2> QED BY <2>1, <2>6, <2>7, MapStutters DEF MapStep
<1>4. CASE InsertPublish(t)
  <2>1. /\ pc[t] = "insert_publish" /\ pc'[t] = "unlock" /\ ret'[t] = 0
        /\ Frame(t) /\ SameRet(t)
    BY <1>i, <1>4 DEF InsertPublish, Result, Goto, TypeOK, Frame, SameLocals, SameRet
  <2>2. /\ node[t] \notin Linked /\ mem[node[t]].m_val = val[t] /\ mem' = mem
        /\ Linked' = Linked \cup {node[t]} /\ node[t] \in Addrs
    BY <1>4, <2>1, InsertPublishKeeps, LiveWhileCalled DEF Owns
  <2>3. Effect("insert", val[t], 0, Count, Count')
    BY <1>i, <1>0, <2>2, CountAfterInsert DEF Effect
  <2>4. MapCall(t) = <<"pending", "insert", val[t]>> /\ MapCall(t)' = <<"done", 0>>
    BY <2>1, OpAtIs, MapCallIs DEF InsertAt, DoneAt
  <2> QED BY <1>0, <2>1, <2>3, <2>4, OpsAre, MapPerforms DEF MapStep
<1>5. CASE RemoveLoop(t) \/ LookupLoop(t)
  BY <1>5, WalkRefines
<1>6. CASE RemoveUnlink(t)
  <2>1. /\ pc[t] = "remove_unlink" /\ pc'[t] = "unlock_free" /\ ret'[t] = 0
        /\ Frame(t) /\ SameRet(t)
    BY <1>i, <1>6 DEF RemoveUnlink, Result, Goto, local, TypeOK, Frame, SameLocals, SameRet
  <2>2. /\ node[t] \in Linked /\ mem[node[t]].m_val = val[t]
        /\ Linked' = Linked \ {node[t]} /\ \A a \in Addrs : mem'[a].m_val = mem[a].m_val
    BY <1>6, RemoveUnlinkKeeps
  <2>3. Effect("remove", val[t], 0, Count, Count')
    BY <1>i, <1>0, <2>2, CountAfterRemove DEF Effect
  <2>4. MapCall(t) = <<"pending", "remove", val[t]>> /\ MapCall(t)' = <<"done", 0>>
    BY <2>1, OpAtIs, MapCallIs DEF RemoveAt, DoneAt
  <2> QED BY <1>0, <2>1, <2>3, <2>4, OpsAre, MapPerforms DEF MapStep
<1>7. ASSUME NEW from, NEW to, Lock(t, from, to),
             \/ from \in InsertAt /\ to \in InsertAt
             \/ from \in RemoveAt /\ to \in RemoveAt
             \/ from \in LookupAt /\ to \in LookupAt
             \/ from \in NoneAt /\ to \in NoneAt
      PROVE  MapStep
  <2>1. /\ pc[t] = from /\ pc'[t] = to /\ Frame(t) /\ SameRet(t)
        /\ UNCHANGED <<sentinel, mem, val>>
    BY <1>i, <1>7 DEF Lock, Goto, TypeOK, Frame, SameLocals, SameRet
  <2>2. MapCall(t)' = MapCall(t)
    BY <1>7, <2>1, OpAtIs, MapCallIs
  <2> QED BY <2>1, <2>2, SameCount, LinkedIsReach, MapStutters DEF MapStep
<1>8. ASSUME NEW from \in DoneAt, NEW to \in DoneAt, Unlock(t, from, to) PROVE MapStep
  <2>1. /\ pc[t] = from /\ pc'[t] = to /\ Frame(t) /\ SameRet(t) /\ ret'[t] = ret[t]
        /\ UNCHANGED <<sentinel, mem>>
    BY <1>i, <1>8 DEF Unlock, Goto, local, TypeOK, Frame, SameLocals, SameRet
  <2>2. MapCall(t)' = MapCall(t)
    BY <1>8, <2>1, OpAtIs, MapCallIs
  <2> QED BY <2>1, <2>2, SameCount, LinkedIsReach, MapStutters DEF MapStep
<1>9. CASE RemoveFree(t)
  <2>1. /\ pc[t] = "remove_free" /\ pc'[t] = "return" /\ Frame(t) /\ SameRet(t)
        /\ ret'[t] = ret[t] /\ UNCHANGED <<sentinel, mem>>
    BY <1>i, <1>9 DEF RemoveFree, Goto, TypeOK, Frame, SameLocals, SameRet
  <2>2. MapCall(t)' = MapCall(t)
    BY <2>1, OpAtIs, MapCallIs DEF DoneAt
  <2> QED BY <2>1, <2>2, SameCount, LinkedIsReach, MapStutters DEF MapStep
<1>10. CASE PrintLoop(t) \/ PrintUnlock(t)
  <2>1. /\ pc[t] \in NoneAt /\ pc'[t] \in NoneAt /\ Frame(t) /\ SameRet(t)
        /\ UNCHANGED <<sentinel, mem>>
    <3>1. CASE PrintLoop(t)
      BY <1>i, <3>1 DEF PrintLoop, Advance, Goto, shared, local, TypeOK, Frame, SameLocals, SameRet, NoneAt
    <3>2. CASE PrintUnlock(t)
      BY <1>i, <3>2 DEF PrintUnlock, Goto, TypeOK, Frame, SameLocals, SameRet, NoneAt
    <3> QED BY <1>10, <3>1, <3>2
  <2>2. MapCall(t)' = MapCall(t)
    BY <2>1, OpAtIs, MapCallIs
  <2> QED BY <2>1, <2>2, SameCount, LinkedIsReach, MapStutters DEF MapStep
<1>11. CASE Return(t)
  <2>1. /\ pc[t] = "return" /\ pc'[t] = "idle" /\ Frame(t) /\ SameRet(t)
        /\ UNCHANGED <<sentinel, mem>>
    BY <1>i, <1>11 DEF Return, Goto, shared, TypeOK, Frame, SameLocals, SameRet
  <2>2. MapCall(t) = <<"done", ret[t]>> /\ MapCall(t)' = <<"idle">>
    BY <2>1, OpAtIs, MapCallIs DEF DoneAt, NoneAt
  <2> QED BY <1>0, <2>1, <2>2, SameCount, LinkedIsReach, MapReturns DEF MapStep
<1>12. CASE \/ Lock(t, "insert_lock", "insert_link") \/ Lock(t, "remove_lock", "remove_loop")
            \/ Lock(t, "lookup_lock", "lookup_loop") \/ Lock(t, "print_lock", "print_loop")
  <2>1. /\ "insert_lock" \in InsertAt /\ "insert_link" \in InsertAt
        /\ "remove_lock" \in RemoveAt /\ "remove_loop" \in RemoveAt
        /\ "lookup_lock" \in LookupAt /\ "lookup_loop" \in LookupAt
        /\ "print_lock" \in NoneAt /\ "print_loop" \in NoneAt
    BY DEF InsertAt, RemoveAt, LookupAt, NoneAt
  <2>2. CASE Lock(t, "insert_lock", "insert_link")
    BY <1>7, <2>1, <2>2
  <2>3. CASE Lock(t, "remove_lock", "remove_loop")
    BY <1>7, <2>1, <2>3
  <2>4. CASE Lock(t, "lookup_lock", "lookup_loop")
    BY <1>7, <2>1, <2>4
  <2>5. CASE Lock(t, "print_lock", "print_loop")
    BY <1>7, <2>1, <2>5
  <2> QED BY <1>12, <2>2, <2>3, <2>4, <2>5
<1>13. CASE Unlock(t, "unlock_free", "remove_free") \/ Unlock(t, "unlock", "return")
  BY <1>8, <1>13 DEF DoneAt
<1> QED BY <1>1, <1>2, <1>3, <1>4, <1>5, <1>6, <1>9, <1>10, <1>11, <1>12, <1>13 DEF Step

(* Every step is.                                                           *)
LEMMA MapRefinesNext ==
    ASSUME IInv, Next
    PROVE  MapStep
<1>1. ASSUME NEW t \in Threads, NEW v \in Values, NEW b, NEW entry \in Entry \cup {"print_lock"},
             Call(t, v, b, entry)
      PROVE  MapStep
  <2>1. /\ pc[t] = "idle" /\ pc'[t] = entry /\ val'[t] = v /\ Frame(t) /\ SameRet(t)
        /\ UNCHANGED <<sentinel, mem>>
    BY <1>1 DEF Call, Goto, shared, IInv, TypeOK, Frame, SameLocals, SameRet
  <2>2. MapCall(t) = <<"idle">> /\ Count' = Count
    BY <2>1, OpAtIs, MapCallIs, SameCount, LinkedIsReach DEF NoneAt
  <2>3. CASE entry = "print_lock"
    BY <2>1, <2>2, <2>3, OpAtIs, MapCallIs, MapStutters DEF NoneAt, MapStep
  <2>4. CASE entry \in Entry
    <3>1. OpAt(entry) \in {"insert", "remove", "lookup"}
      BY <2>4, OpAtIs DEF Entry, InsertAt, RemoveAt, LookupAt
    <3>2. MapCall(t)' = <<"pending", OpAt(entry), v>>
      BY <2>1, <3>1, MapCallIs
    <3> QED BY <2>1, <2>2, <3>1, <3>2, OpsAre, MapInvokes DEF MapStep
  <2> QED BY <2>3, <2>4
<1>2. ASSUME NEW t \in Threads, CallItem(t) \/ CallPrint(t) PROVE MapStep
  BY <1>1, <1>2, AnyValueType DEF CallItem, CallPrint
<1>3. CASE FreeHashmap \/ Finished
  <2>1. UNCHANGED <<sentinel, mem, pc, val, ret>>
    BY <1>3 DEF FreeHashmap, Finished, vars, shared, local
  <2>2. Count' = Count /\ MapCalls' = MapCalls
    BY <2>1, SameCount, LinkedIsReach DEF MapCalls, MapCall
  <2> QED BY <2>2, MapIs DEF MapStep, Map!vars
<1> QED BY <1>2, <1>3, MapRefinesStep DEF Next

(* insert_item, remove_item and lookup_item of the lock-based hashmap are  *)
(* the atomic operations on a bag that chashmap.h promises: every          *)
(* behaviour of the map is one of the bag, whatever the threads do.        *)
THEOREM BagRefined == Spec => ImplementsBag
<1>1. Init => Map!Init
  <2> SUFFICES ASSUME Init PROVE Map!Init
    OBVIOUS
  <2>1. IInv
    BY InitIInv
  <2>2. Linked = {}
    BY <2>1 DEF Init, IInv, EveryNodeHasOneOwner
  <2>3. \A v \in Values : Cardinality({a \in Linked : mem[a].m_val = v}) = 0
    BY <2>2, FS_EmptySet
  <2>4. \A t \in Threads : MapCall(t) = <<"idle">>
    BY OpAtIs, MapCallIs DEF Init, NoneAt
  <2> QED BY <2>3, <2>4 DEF Map!Init, Map!EmptyBag, Map!Idle
<1>2. IInv /\ [Next]_vars => [Map!Next]_Map!vars
  <2>1. IInv /\ Next => MapStep
    BY MapRefinesNext
  <2>2. UNCHANGED vars => UNCHANGED Map!vars
    <3> SUFFICES ASSUME UNCHANGED vars PROVE UNCHANGED Map!vars
      OBVIOUS
    <3>1. UNCHANGED <<sentinel, mem, pc, val, ret>>
      BY DEF vars, shared, local
    <3>2. Count' = Count /\ MapCalls' = MapCalls
      BY <3>1, SameCount, LinkedIsReach DEF MapCalls, MapCall
    <3> QED BY <3>2, MapIs DEF Map!vars
  <2> QED BY <2>1, <2>2 DEF MapStep
<1> QED BY LockHashMapInvariance, <1>1, <1>2, PTL DEF Spec, ImplementsBag, Map!Spec
=============================================================================
