------------------------ MODULE LockFreeHashMapProofs ------------------------
(***************************************************************************)
(* Safety of the lock-free hashmap for any number of threads, buckets,     *)
(* values and calls.                                                       *)
(***************************************************************************)
EXTENDS LockFreeHashMap, WellFoundedInduction, TLAPS

(* What the threads know about the nodes they have read: an expected head, *)
(* a current node and a link belong to the bucket of the call; the         *)
(* successor a remover has read is older than its node, and every node     *)
(* between the two is deleted, now and from then on.                       *)
Inserting(t) == pc[t] = "insert_cas"
Removing(t)  == pc[t] \in {"remove_next", "remove_mark", "remove_unlink"}
HasNext(t)   == pc[t] \in {"remove_mark", "remove_unlink"}
LookingUp(t) == pc[t] \in {"lookup_check", "lookup_next"}
InBucket(t, n) == n # NULL => BucketOfNode(n) = Bucket(t)

ThreadOK(t) ==
    /\ Inserting(t) => InBucket(t, old_sentinel[t])
    /\ Removing(t) \/ LookingUp(t) => cur[t] # NULL /\ InBucket(t, cur[t])
    /\ Removing(t) /\ cur_ptr[t] # NULL =>
           cur[t] < cur_ptr[t] /\ InBucket(t, cur_ptr[t])
    /\ HasNext(t) =>
           /\ next[t] < cur[t]
           /\ InBucket(t, next[t])
           /\ \A n \in Nodes :
                 (Live(n) /\ n < cur[t] /\ BucketOfNode(n) = Bucket(t)) => n <= next[t]

LocalsOK == \A t \in Threads : ThreadOK(t)

IInv ==
    /\ TypeOK
    /\ LinksDescend
    /\ NoLiveNodeSkipped
    /\ OneRemoverPerNode
    /\ LocalsOK
-----------------------------------------------------------------------------
(***************************************************************************)
(* The three ways in which the heap changes.                               *)
(***************************************************************************)
LEMMA BucketOfType ==
    ASSUME NEW v \in Values
    PROVE  BucketOf(v) \in Buckets
BY BucketsAssumption, UlongAssumption, ValuesAssumption DEF BucketOf, Buckets

(* The value of an idle thread is a value.                                  *)
LEMMA AnyValueType == AnyValue \in Values
BY ValuesAssumption DEF AnyValue

(* Publishing adds a node and leaves the others alone.                      *)
LEMMA HeapAppend ==
    ASSUME NEW h \in Seq(NodeType), NEW x \in NodeType
    PROVE  /\ Append(h, x) \in Seq(NodeType)
           /\ Len(Append(h, x)) = Len(h) + 1
           /\ \A i \in 1 .. Len(h) : Append(h, x)[i] = h[i]
           /\ Append(h, x)[Len(h) + 1] = x
OBVIOUS

Marked(h, n) == [h EXCEPT ![n].is_deleted = TRUE]

(* Marking changes the mark of one node.                                    *)
LEMMA HeapMark ==
    ASSUME NEW h \in Seq(NodeType), NEW n \in 1 .. Len(h), NEW g, g = Marked(h, n)
    PROVE  /\ g \in Seq(NodeType)
           /\ Len(g) = Len(h)
           /\ \A i \in 1 .. Len(h) : i # n => g[i] = h[i]
           /\ g[n].is_deleted = TRUE
<1>1. \A i \in 1 .. Len(h) : h[i] \in NodeType
  OBVIOUS
<1>2. [h[n] EXCEPT !.is_deleted = TRUE] \in NodeType
  BY <1>1 DEF NodeType
<1>3. g \in Seq(NodeType) /\ Len(g) = Len(h)
  BY <1>1, <1>2 DEF Marked
<1>4. \A i \in 1 .. Len(h) : g[i] = IF i = n THEN [h[n] EXCEPT !.is_deleted = TRUE] ELSE h[i]
  BY DEF Marked
<1>5. g[n].is_deleted = TRUE
  BY <1>1, <1>4 DEF NodeType
<1>6. \A i \in 1 .. Len(h) : i # n => g[i] = h[i]
  BY <1>4
<1>7. QED
  BY <1>3, <1>5, <1>6

(* Marking keeps values and links.                                          *)
LEMMA MarkKeeps ==
    ASSUME NEW h \in Seq(NodeType), NEW n \in 1 .. Len(h), NEW g, g = Marked(h, n)
    PROVE  \A i \in 1 .. Len(h) : g[i].m_val = h[i].m_val /\ g[i].m_next = h[i].m_next
<1>1. \A i \in 1 .. Len(h) : h[i] \in NodeType
  OBVIOUS
<1>2. \A i \in 1 .. Len(h) : g[i] = IF i = n THEN [h[n] EXCEPT !.is_deleted = TRUE] ELSE h[i]
  BY DEF Marked
<1>3. QED
  BY <1>1, <1>2 DEF NodeType

(* A store to a link changes nothing else.                                  *)
LEMMA HeapRelink ==
    ASSUME NEW h \in Seq(NodeType), NEW n \in 1 .. Len(h), NEW m \in Nat,
           NEW g, g = [h EXCEPT ![n].m_next = m]
    PROVE  /\ g \in Seq(NodeType)
           /\ Len(g) = Len(h)
           /\ \A i \in 1 .. Len(h) : /\ g[i].m_val = h[i].m_val
                                     /\ g[i].m_next = IF i = n THEN m ELSE h[i].m_next
                                     /\ g[i].is_deleted = h[i].is_deleted
<1>1. \A i \in 1 .. Len(h) : h[i] \in NodeType
  OBVIOUS
<1>2. [h[n] EXCEPT !.m_next = m] \in NodeType
  BY <1>1 DEF NodeType
<1>3. g \in Seq(NodeType) /\ Len(g) = Len(h)
  BY <1>1, <1>2
<1>4. \A i \in 1 .. Len(h) : g[i] = IF i = n THEN [h[n] EXCEPT !.m_next = m] ELSE h[i]
  OBVIOUS
<1>5. QED
  BY <1>1, <1>3, <1>4 DEF NodeType
-----------------------------------------------------------------------------
(***************************************************************************)
(* A step of one thread, seen by the others: their locals stay, the heap   *)
(* grows or ages.                                                          *)
(***************************************************************************)
HeapAges ==
    /\ Len(heap) <= Len(heap')
    /\ \A n \in Nodes : /\ heap'[n].m_val = heap[n].m_val
                        /\ (heap[n].is_deleted = TRUE) => (heap'[n].is_deleted = TRUE)

SameLocals(u) ==
    /\ pc'[u] = pc[u] /\ val'[u] = val[u] /\ old_sentinel'[u] = old_sentinel[u]
    /\ cur_ptr'[u] = cur_ptr[u] /\ cur'[u] = cur[u] /\ next'[u] = next[u]

Frame(t) == \A u \in Threads \ {t} : SameLocals(u)

Lists == LinksDescend /\ NoLiveNodeSkipped

(* What TypeOK says of nodes, heads and locals.                             *)
LEMMA TypeFacts ==
    ASSUME TypeOK
    PROVE  /\ Len(heap) \in Nat
           /\ \A n \in Nodes : /\ n \in Nat \ {0} /\ n <= Len(heap)
                               /\ heap[n] \in NodeType
           /\ \A n \in 0 .. Len(heap) : n \in Nat /\ (n # NULL => n \in Nodes)
           /\ \A b \in Buckets : sentinel[b] \in 0 .. Len(heap)
           /\ \A t \in Threads : /\ old_sentinel[t] \in 0 .. Len(heap)
                                 /\ cur_ptr[t] \in 0 .. Len(heap)
                                 /\ cur[t] \in 0 .. Len(heap)
                                 /\ next[t] \in 0 .. Len(heap)
                                 /\ val[t] \in Values
                                 /\ Bucket(t) \in Buckets
<1>1. heap \in Seq(NodeType)
  BY DEF TypeOK
<1>2. /\ Len(heap) \in Nat
      /\ \A n \in Nodes : n \in Nat \ {0} /\ n <= Len(heap) /\ heap[n] \in NodeType
      /\ \A n \in 0 .. Len(heap) : n \in Nat /\ (n # NULL => n \in Nodes)
  BY <1>1 DEF Nodes, NULL
<1>3. \A b \in Buckets : sentinel[b] \in 0 .. Len(heap)
  BY DEF TypeOK
<1>4. \A t \in Threads : /\ old_sentinel[t] \in 0 .. Len(heap)
                          /\ cur_ptr[t] \in 0 .. Len(heap)
                          /\ cur[t] \in 0 .. Len(heap)
                          /\ next[t] \in 0 .. Len(heap)
                          /\ val[t] \in Values
  BY DEF TypeOK
<1>5. \A t \in Threads : Bucket(t) \in Buckets
  BY <1>4, BucketOfType DEF Bucket
<1>6. QED
  BY <1>2, <1>3, <1>4, <1>5

(* What a thread knows stays true while the heap ages.                      *)
LEMMA OthersOK ==
    ASSUME IInv, TypeOK', HeapAges, NEW u \in Threads, SameLocals(u)
    PROVE  ThreadOK(u)'
<1> USE DEF NULL
<1>1. TypeOK /\ ThreadOK(u)
  BY DEF IInv, LocalsOK
<1>2. ASSUME NEW n \in 0 .. Len(heap), InBucket(u, n) PROVE InBucket(u, n)'
  <2>1. n # NULL => n \in Nodes
    BY <1>1 DEF Nodes, TypeOK
  <2>2. n # NULL => heap'[n].m_val = heap[n].m_val
    BY <2>1 DEF HeapAges
  <2>3. QED
    BY <1>2, <2>2 DEF SameLocals, InBucket, BucketOfNode, Bucket
<1>3. \A n \in Nodes : Live(n)' => Live(n)
  BY <1>1 DEF HeapAges, Live
<1>4. \A n \in Nodes : BucketOfNode(n)' = BucketOfNode(n)
  BY DEF HeapAges, BucketOfNode
<1>5. /\ old_sentinel[u] \in 0 .. Len(heap) /\ cur_ptr[u] \in 0 .. Len(heap)
      /\ cur[u] \in 0 .. Len(heap) /\ next[u] \in 0 .. Len(heap)
  BY <1>1 DEF TypeOK
<1>6. /\ (Inserting(u))' = Inserting(u) /\ (Removing(u))' = Removing(u)
      /\ (HasNext(u))' = HasNext(u) /\ (LookingUp(u))' = LookingUp(u)
      /\ Bucket(u)' = Bucket(u)
  BY DEF SameLocals, Inserting, Removing, HasNext, LookingUp, Bucket
<1>7. (Inserting(u) => InBucket(u, old_sentinel[u]))'
  BY <1>1, <1>2, <1>5, <1>6 DEF SameLocals, ThreadOK
<1>8. (Removing(u) \/ LookingUp(u) => cur[u] # NULL /\ InBucket(u, cur[u]))'
  BY <1>1, <1>2, <1>5, <1>6 DEF SameLocals, ThreadOK
<1>9. (Removing(u) /\ cur_ptr[u] # NULL => cur[u] < cur_ptr[u] /\ InBucket(u, cur_ptr[u]))'
  BY <1>1, <1>2, <1>5, <1>6 DEF SameLocals, ThreadOK
<1>10. (HasNext(u) => next[u] < cur[u] /\ InBucket(u, next[u]))'
  BY <1>1, <1>2, <1>5, <1>6 DEF SameLocals, ThreadOK
<1>11. ASSUME HasNext(u)', NEW n \in Nodes', (Live(n) /\ n < cur[u] /\ BucketOfNode(n) = Bucket(u))'
       PROVE  (n <= next[u])'
  <2>1. n \in Nodes
    BY <1>5, <1>11 DEF SameLocals, Nodes, TypeOK
  <2>2. QED
    BY <1>1, <1>3, <1>4, <1>5, <1>6, <1>11, <2>1 DEF SameLocals, ThreadOK
<1>12. QED
  BY <1>7, <1>8, <1>9, <1>10, <1>11 DEF ThreadOK

(* A step of t needs to be looked at for t only.                            *)
LEMMA ThreadStep ==
    ASSUME IInv, TypeOK', HeapAges, Lists', NEW t \in Threads,
           Frame(t), ThreadOK(t)', pc'[t] # "remove_unlink"
    PROVE  IInv'
<1>1. LocalsOK'
  BY OthersOK DEF LocalsOK, Frame
<1>2. OneRemoverPerNode'
  <2> SUFFICES ASSUME NEW u \in Threads, pc'[u] = "remove_unlink"
               PROVE  /\ ~(Live(cur[u]))'
                      /\ \A w \in Threads \ {u} : pc'[w] = "remove_unlink" => cur'[w] # cur'[u]
    BY DEF OneRemoverPerNode
  <2>1. u # t /\ SameLocals(u) /\ pc[u] = "remove_unlink"
    BY DEF Frame, SameLocals
  <2>2. cur[u] \in Nodes
    <3>1. cur[u] # NULL
      BY <2>1 DEF IInv, LocalsOK, ThreadOK, Removing
    <3>2. QED
      BY <3>1, TypeFacts DEF IInv
  <2>. ~Live(cur[u])
    BY <2>1 DEF IInv, OneRemoverPerNode
  <2>3. ~(Live(cur[u]))'
    BY <2>1, <2>2 DEF HeapAges, SameLocals, Live
  <2>4. ASSUME NEW w \in Threads \ {u}, pc'[w] = "remove_unlink" PROVE cur'[w] # cur'[u]
    <3>1. w # t /\ SameLocals(w) /\ pc[w] = "remove_unlink"
      BY <2>4 DEF Frame, SameLocals
    <3>2. QED
      BY <2>1, <3>1 DEF IInv, OneRemoverPerNode, SameLocals
  <2>5. QED
    BY <2>3, <2>4
<1>3. QED
  BY <1>1, <1>2 DEF IInv, Lists

(* The heap stays.                                                         *)
LEMMA HeapStays ==
    ASSUME IInv, UNCHANGED <<sentinel, heap>>
    PROVE  HeapAges /\ Lists'
<1>1. HeapAges
  BY TypeFacts DEF IInv, HeapAges
<1>2. Lists'
  BY DEF IInv, Lists, LinksDescend, NoLiveNodeSkipped, Nodes, Live, BucketOfNode
<1>3. QED
  BY <1>1, <1>2

(* The call returns.                                                       *)
LEMMA ReturnOK ==
    ASSUME TypeOK, NEW t \in Threads, NEW r \in {0, 1}, Return(t, r),
           heap' \in Seq(NodeType), Len(heap) <= Len(heap'),
           sentinel' \in [Buckets -> 0 .. Len(heap')]
    PROVE  /\ TypeOK' /\ Frame(t) /\ ThreadOK(t)' /\ pc'[t] # "remove_unlink"
<1>1. pc'[t] = "idle"
  BY DEF Return, Goto, TypeOK
<1>2. ThreadOK(t)'
  BY <1>1 DEF ThreadOK, Inserting, Removing, HasNext, LookingUp
<1>3. Frame(t)
  BY DEF Frame, SameLocals, Return, Goto, TypeOK
<1>4. TypeOK'
  <2>1. Len(heap) \in Nat /\ Len(heap') \in Nat
    BY TypeFacts
  <2>2. 0 .. Len(heap) \subseteq 0 .. Len(heap') /\ 0 \in 0 .. Len(heap') /\ Nodes \subseteq Nodes'
    BY <2>1 DEF Nodes
  <2>3. pc' \in [Threads -> Locations] /\ ret' \in [Threads -> {0, 1}] /\ val' \in [Threads -> Values]
    BY AnyValueType DEF TypeOK, Return, Goto, Locations
  <2>4. hm' \in {"live", "freed"} /\ freed' \subseteq Nodes' /\ calls' \in 0 .. MaxCalls
    BY <2>2 DEF TypeOK, Return
  <2>5. /\ old_sentinel' \in [Threads -> 0 .. Len(heap')]
        /\ cur_ptr' \in [Threads -> 0 .. Len(heap')]
        /\ cur' \in [Threads -> 0 .. Len(heap')]
        /\ next' \in [Threads -> 0 .. Len(heap')]
    BY <2>2 DEF TypeOK, Return, NULL
  <2>6. QED
    BY <2>3, <2>4, <2>5 DEF TypeOK
<1>5. QED
  BY <1>1, <1>2, <1>3, <1>4

(* A call that leaves the lists alone returns.                             *)
LEMMA QuietReturn ==
    ASSUME IInv, NEW t \in Threads, NEW r \in {0, 1}, Return(t, r), UNCHANGED <<sentinel, heap>>
    PROVE  IInv'
<1>1. heap' \in Seq(NodeType) /\ sentinel' \in [Buckets -> 0 .. Len(heap')]
  BY DEF IInv, TypeOK
<1>2. Len(heap) <= Len(heap')
  BY TypeFacts DEF IInv
<1>3. TypeOK
  BY DEF IInv
<1>4. TypeOK' /\ Frame(t) /\ ThreadOK(t)' /\ pc'[t] # "remove_unlink"
  BY <1>1, <1>2, <1>3, ReturnOK
<1>5. QED
  BY <1>4, HeapStays, ThreadStep

(* A remover that moves on to a node n over the link of p.                 *)
LEMMA RemoveVisitOK ==
    ASSUME IInv, NEW t \in Threads, NEW p \in 0 .. Len(heap), NEW n \in 0 .. Len(heap),
           RemoveVisit(t, p, n), UNCHANGED <<sentinel, heap>>,
           InBucket(t, n), p # NULL => (n < p /\ InBucket(t, p))
    PROVE  IInv'
<1>1. CASE n = NULL
  BY <1>1, QuietReturn DEF RemoveVisit
<1>2. CASE n # NULL
  <2>1. TypeOK'
    BY <1>2 DEF IInv, TypeOK, RemoveVisit, Goto, Locations, Nodes
  <2>2. Frame(t)
    BY <1>2 DEF IInv, TypeOK, RemoveVisit, Goto, Frame, SameLocals
  <2>3. pc'[t] = "remove_next" /\ cur'[t] = n /\ cur_ptr'[t] = p /\ val'[t] = val[t]
    BY <1>2 DEF IInv, TypeOK, RemoveVisit, Goto
  <2>4. ThreadOK(t)'
    BY <1>2, <2>3 DEF ThreadOK, Inserting, Removing, HasNext, LookingUp, InBucket, BucketOfNode, Bucket
  <2>5. QED
    BY <2>1, <2>2, <2>3, <2>4, HeapStays, ThreadStep
<1>3. QED
  BY <1>1, <1>2

(* A reader that moves on to a node n.                                     *)
LEMMA LookupVisitOK ==
    ASSUME IInv, NEW t \in Threads, NEW n \in 0 .. Len(heap),
           LookupVisit(t, n), UNCHANGED <<sentinel, heap>>, InBucket(t, n)
    PROVE  IInv'
<1>1. CASE n = NULL
  BY <1>1, QuietReturn DEF LookupVisit
<1>2. CASE n # NULL
  <2>1. TypeOK'
    BY <1>2 DEF IInv, TypeOK, LookupVisit, Goto, Locations, Nodes
  <2>2. Frame(t)
    BY <1>2 DEF IInv, TypeOK, LookupVisit, Goto, Frame, SameLocals
  <2>3. pc'[t] = "lookup_check" /\ cur'[t] = n /\ val'[t] = val[t]
    BY <1>2 DEF IInv, TypeOK, LookupVisit, Goto
  <2>4. ThreadOK(t)'
    BY <1>2, <2>3 DEF ThreadOK, Inserting, Removing, HasNext, LookingUp, InBucket, BucketOfNode, Bucket
  <2>5. QED
    BY <2>1, <2>2, <2>3, <2>4, HeapStays, ThreadStep
<1>3. QED
  BY <1>1, <1>2

(* The links of the lists stay in their bucket.                            *)
LEMMA LinkFacts ==
    ASSUME IInv
    PROVE  /\ \A t \in Threads : InBucket(t, sentinel[Bucket(t)])
           /\ \A n \in Nodes : /\ heap[n].m_next \in 0 .. Len(heap)
                               /\ heap[n].m_next < n
           /\ \A t \in Threads : \A n \in Nodes : InBucket(t, n) => InBucket(t, heap[n].m_next)
<1>1. TypeOK /\ LinksDescend
  BY DEF IInv
<1>2. \A n \in Nodes : heap[n].m_next \in Nat /\ n \in Nat \ {0} /\ n <= Len(heap) /\ Len(heap) \in Nat
  BY <1>1, TypeFacts DEF NodeType
<1>3. \A n \in Nodes : heap[n].m_next < n
  BY <1>1, <1>2 DEF LinksDescend, NULL
<1>4. \A n \in Nodes : heap[n].m_next \in 0 .. Len(heap)
  BY <1>2, <1>3
<1>5. \A t \in Threads : InBucket(t, sentinel[Bucket(t)])
  BY <1>1, TypeFacts DEF LinksDescend, InBucket
<1>6. \A t \in Threads : \A n \in Nodes : InBucket(t, n) => InBucket(t, heap[n].m_next)
  BY <1>1, <1>2 DEF LinksDescend, InBucket, NULL
<1>7. QED
  BY <1>3, <1>4, <1>5, <1>6
-----------------------------------------------------------------------------
(***************************************************************************)
(* Every action preserves the invariant.                                   *)
(***************************************************************************)
LEMMA InitOK == Init => IInv
<1> SUFFICES ASSUME Init PROVE IInv
  OBVIOUS
<1>1. Len(heap) = 0 /\ Nodes = {}
  BY DEF Init, Nodes
<1>2. TypeOK
  BY <1>1, AnyValueType, CallsAssumption DEF Init, TypeOK, NULL, Locations
<1>3. LinksDescend /\ NoLiveNodeSkipped
  BY <1>1 DEF Init, LinksDescend, NoLiveNodeSkipped
<1>4. OneRemoverPerNode /\ LocalsOK
  BY DEF Init, OneRemoverPerNode, LocalsOK, ThreadOK, Inserting, Removing, HasNext, LookingUp
<1>5. QED
  BY <1>2, <1>3, <1>4 DEF IInv

(* A call begins.                                                           *)
LEMMA CallOK ==
    ASSUME IInv, NEW t \in Threads, NEW v \in Values,
           NEW entry \in {"insert_load", "remove_load", "lookup_load"}, Call(t, v, entry)
    PROVE  IInv'
<1>1. TypeOK'
  BY CallsAssumption DEF IInv, TypeOK, Call, Locations, Nodes
<1>2. Frame(t)
  BY DEF IInv, TypeOK, Call, Frame, SameLocals
<1>3. pc'[t] = entry
  BY DEF IInv, TypeOK, Call
<1>4. ThreadOK(t)'
  BY <1>3 DEF ThreadOK, Inserting, Removing, HasNext, LookingUp
<1>5. UNCHANGED <<sentinel, heap>>
  BY DEF Call
<1>6. QED
  BY <1>1, <1>2, <1>3, <1>4, <1>5, HeapStays, ThreadStep

(* The load of the head, again after a failed CAS.                          *)
LEMMA InsertLoadOK ==
    ASSUME IInv, NEW t \in Threads, InsertLoad(t) \/ InsertRetry(t)
    PROVE  IInv'
<1>1. UNCHANGED <<sentinel, heap>> /\ val' = val
  BY DEF InsertLoad, InsertRetry
<1>2. Bucket(t) \in Buckets /\ sentinel[Bucket(t)] \in 0 .. Len(heap)
  BY TypeFacts DEF IInv
<1>3. old_sentinel' = [old_sentinel EXCEPT ![t] = sentinel[Bucket(t)]]
  BY DEF InsertLoad, InsertRetry
<1>4. pc' = [pc EXCEPT ![t] = "insert_cas"]
  BY DEF InsertLoad, InsertRetry, Goto, IInv, TypeOK
<1>5. UNCHANGED <<hm, freed, calls, cur_ptr, cur, next, ret>>
  BY DEF InsertLoad, InsertRetry
<1>6. TypeOK'
  BY <1>1, <1>2, <1>3, <1>4, <1>5 DEF IInv, TypeOK, Locations, Nodes
<1>7. Frame(t)
  BY <1>1, <1>3, <1>4, <1>5 DEF IInv, TypeOK, Frame, SameLocals
<1>8. pc'[t] = "insert_cas" /\ old_sentinel'[t] = sentinel[Bucket(t)]
  BY <1>3, <1>4 DEF IInv, TypeOK
<1>9. InBucket(t, sentinel[Bucket(t)])
  BY LinkFacts
<1>10. ThreadOK(t)'
  BY <1>1, <1>8, <1>9 DEF ThreadOK, Inserting, Removing, HasNext, LookingUp, InBucket, BucketOfNode, Bucket
<1>11. QED
  BY <1>1, <1>6, <1>7, <1>8, <1>10, HeapStays, ThreadStep

(* The CAS that publishes a node at the head.                               *)
LEMMA InsertPublishOK ==
    ASSUME IInv, NEW t \in Threads, InsertPublish(t)
    PROVE  IInv'
<1> DEFINE b == Bucket(t)  new == Len(heap) + 1
<1>1. TypeOK /\ LinksDescend /\ NoLiveNodeSkipped /\ ThreadOK(t)
  BY DEF IInv, LocalsOK
<1>2. /\ b \in Buckets /\ sentinel[b] = old_sentinel[t] /\ sentinel[b] \in 0 .. Len(heap)
      /\ Len(heap) \in Nat /\ heap \in Seq(NodeType)
  BY <1>1, TypeFacts DEF InsertPublish, TypeOK
<1>3. NewNode(t) \in NodeType
  BY <1>1, <1>2, TypeFacts DEF NewNode, NodeType
<1>4. /\ heap' \in Seq(NodeType) /\ Len(heap') = new
      /\ \A i \in Nodes : heap'[i] = heap[i]
      /\ heap'[new] = NewNode(t)
  BY <1>2, <1>3, HeapAppend DEF InsertPublish, Nodes
<1>5. /\ heap'[new].m_val = val[t] /\ heap'[new].m_next = sentinel[b]
  BY <1>2, <1>4 DEF NewNode
<1>6. Nodes' = Nodes \cup {new} /\ new \notin Nodes
  BY <1>2, <1>4 DEF Nodes
<1>7. /\ sentinel' \in [Buckets -> 0 .. Len(heap')]
      /\ sentinel'[b] = new
      /\ \A c \in Buckets : c # b => sentinel'[c] = sentinel[c]
  BY <1>1, <1>2, <1>4 DEF InsertPublish, TypeOK
<1>8. HeapAges
  BY <1>2, <1>4 DEF HeapAges
<1>9. /\ \A n \in Nodes : BucketOfNode(n)' = BucketOfNode(n) /\ Live(n)' = Live(n)
      /\ BucketOf(heap'[new].m_val) = b
  BY <1>4, <1>5 DEF BucketOfNode, Bucket, Live
<1>10. \A n \in Nodes : BucketOfNode(n) \in Buckets /\ n \in Nat \ {0} /\ n <= Len(heap)
  BY <1>1, TypeFacts, BucketOfType DEF BucketOfNode, NodeType
<1>11. LinksDescend'
  <2>1. ASSUME NEW c \in Buckets, sentinel'[c] # NULL PROVE BucketOfNode(sentinel[c])' = c
    <3>1. CASE c = b
      BY <1>7, <1>9, <3>1 DEF BucketOfNode
    <3>2. CASE c # b
      <4>1. sentinel'[c] = sentinel[c] /\ sentinel[c] \in Nodes
        BY <1>1, <1>7, <2>1, <3>2, TypeFacts
      <4>2. QED
        BY <1>1, <1>9, <2>1, <4>1 DEF LinksDescend, BucketOfNode
    <3>3. QED
      BY <3>1, <3>2
  <2>2. ASSUME NEW n \in Nodes', heap'[n].m_next # NULL
        PROVE  heap'[n].m_next < n /\ BucketOfNode(heap[n].m_next)' = BucketOfNode(n)'
    <3>1. CASE n \in Nodes
      <4>1. heap'[n].m_next = heap[n].m_next /\ heap[n].m_next \in Nodes
        BY <1>1, <1>4, <2>2, <3>1, LinkFacts, TypeFacts
      <4>2. heap[n].m_next < n /\ BucketOfNode(heap[n].m_next) = BucketOfNode(n)
        BY <1>1, <2>2, <3>1, <4>1 DEF LinksDescend
      <4>3. BucketOfNode(heap[n].m_next)' = BucketOfNode(heap[n].m_next)
        BY <1>4, <4>1 DEF BucketOfNode
      <4>4. QED
        BY <1>9, <3>1, <4>1, <4>2, <4>3
    <3>2. CASE n = new
      <4>1. sentinel[b] \in Nodes /\ BucketOfNode(sentinel[b]) = b
        BY <1>1, <1>2, <1>5, <2>2, <3>2, TypeFacts DEF LinksDescend
      <4>2. BucketOfNode(heap[n].m_next)' = BucketOfNode(sentinel[b])
        BY <1>4, <1>5, <3>2, <4>1 DEF BucketOfNode
      <4>3. QED
        BY <1>2, <1>5, <1>9, <3>2, <4>1, <4>2 DEF BucketOfNode
    <3>3. QED
      BY <1>6, <3>1, <3>2
  <2>3. QED
    BY <2>1, <2>2 DEF LinksDescend
<1>12. NoLiveNodeSkipped'
  <2> SUFFICES ASSUME NEW n \in Nodes', Live(n)'
               PROVE  /\ n <= sentinel'[BucketOfNode(n)']
                      /\ \A m \in Nodes' : (m > n /\ BucketOfNode(m)' = BucketOfNode(n)')
                                              => n <= heap'[m].m_next
    BY DEF NoLiveNodeSkipped
  <2>1. CASE n = new
    <3>1. BucketOfNode(n)' = b
      BY <1>9, <2>1 DEF BucketOfNode
    <3>2. n <= sentinel'[BucketOfNode(n)']
      BY <1>2, <1>7, <2>1, <3>1
    <3>3. \A m \in Nodes' : ~(m > n)
      BY <1>2, <1>6, <1>10, <2>1
    <3>4. QED
      BY <3>2, <3>3
  <2>2. CASE n \in Nodes
    <3>1. /\ n <= sentinel[BucketOfNode(n)]
          /\ \A m \in Nodes : (m > n /\ BucketOfNode(m) = BucketOfNode(n)) => n <= heap[m].m_next
      BY <1>1, <1>9, <2>2 DEF NoLiveNodeSkipped
    <3>2. n <= sentinel'[BucketOfNode(n)']
      BY <1>2, <1>7, <1>9, <1>10, <2>2, <3>1
    <3>3. ASSUME NEW m \in Nodes', m > n, BucketOfNode(m)' = BucketOfNode(n)' PROVE n <= heap'[m].m_next
      <4>1. CASE m \in Nodes
        BY <1>4, <1>9, <2>2, <3>1, <3>3, <4>1
      <4>2. CASE m = new
        BY <1>5, <1>9, <2>2, <3>1, <3>3, <4>2 DEF BucketOfNode
      <4>3. QED
        BY <1>6, <4>1, <4>2
    <3>4. QED
      BY <3>2, <3>3
  <2>3. QED
    BY <1>6, <2>1, <2>2
<1>13. TypeOK' /\ Frame(t) /\ ThreadOK(t)' /\ pc'[t] # "remove_unlink"
  BY <1>1, <1>2, <1>4, <1>7, ReturnOK DEF InsertPublish
<1>14. QED
  BY <1>8, <1>11, <1>12, <1>13, ThreadStep DEF Lists

(* remove_item reads the successor.                                         *)
LEMMA RemoveNextOK ==
    ASSUME IInv, NEW t \in Threads, RemoveNext(t)
    PROVE  IInv'
<1>1. UNCHANGED <<sentinel, heap>> /\ TypeOK /\ ThreadOK(t) /\ NoLiveNodeSkipped
  BY DEF RemoveNext, IInv, LocalsOK
<1>2. cur[t] \in Nodes /\ InBucket(t, cur[t])
  BY <1>1, TypeFacts DEF RemoveNext, ThreadOK, Removing
<1>3. /\ heap[cur[t]].m_next \in 0 .. Len(heap) /\ heap[cur[t]].m_next < cur[t]
      /\ InBucket(t, heap[cur[t]].m_next)
  BY <1>2, LinkFacts
<1>4. CASE heap[cur[t]].m_val # val[t]
  <2>1. cur[t] \in 0 .. Len(heap)
    BY <1>1, TypeFacts
  <2>2. RemoveVisit(t, cur[t], heap[cur[t]].m_next)
    BY <1>4 DEF RemoveNext
  <2>3. QED
    BY <1>1, <1>2, <1>3, <2>1, <2>2, RemoveVisitOK
<1>5. CASE heap[cur[t]].m_val = val[t]
  <2>1. /\ next' = [next EXCEPT ![t] = heap[cur[t]].m_next]
        /\ pc' = [pc EXCEPT ![t] = "remove_mark"]
        /\ UNCHANGED <<hm, freed, calls, val, old_sentinel, cur_ptr, cur, ret>>
    BY <1>5 DEF RemoveNext, Goto
  <2>2. TypeOK'
    BY <1>1, <1>3, <2>1 DEF TypeOK, Locations, Nodes
  <2>3. Frame(t)
    BY <1>1, <2>1 DEF TypeOK, Frame, SameLocals
  <2>4. pc'[t] = "remove_mark" /\ next'[t] = heap[cur[t]].m_next
    BY <1>1, <2>1 DEF TypeOK
  <2>5. \A n \in Nodes : (Live(n) /\ n < cur[t] /\ BucketOfNode(n) = Bucket(t))
                              => n <= heap[cur[t]].m_next
    <3>1. BucketOfNode(cur[t]) = Bucket(t) /\ cur[t] \in Nat
      BY <1>1, <1>2, TypeFacts DEF InBucket, NULL
    <3>2. QED
      BY <1>1, <1>2, <3>1, TypeFacts DEF NoLiveNodeSkipped
  <2>6. ThreadOK(t)'
    <3>1. pc[t] = "remove_next"
      BY DEF RemoveNext
    <3>2. cur[t] # NULL /\ (cur_ptr[t] # NULL => cur[t] < cur_ptr[t] /\ InBucket(t, cur_ptr[t]))
      BY <1>1, <3>1 DEF ThreadOK, Removing
    <3>3. QED
      BY <1>1, <1>2, <1>3, <2>1, <2>4, <2>5, <3>2
         DEF ThreadOK, Inserting, Removing, HasNext, LookingUp, InBucket, BucketOfNode, Bucket, Nodes, Live
  <2>7. QED
    BY <1>1, <2>2, <2>3, <2>4, <2>6, HeapStays, ThreadStep
<1>6. QED
  BY <1>4, <1>5

(* remove_item marks a node as deleted.                                     *)
LEMMA RemoveMarkOK ==
    ASSUME IInv, NEW t \in Threads, RemoveMark(t)
    PROVE  IInv'
<1>1. TypeOK /\ ThreadOK(t) /\ LinksDescend /\ NoLiveNodeSkipped /\ OneRemoverPerNode
  BY DEF IInv, LocalsOK
<1>2. pc[t] = "remove_mark" /\ UNCHANGED sentinel
  BY DEF RemoveMark
<1>3. /\ cur[t] \in Nodes /\ InBucket(t, cur[t]) /\ next[t] < cur[t] /\ InBucket(t, next[t])
      /\ cur[t] \in 0 .. Len(heap) /\ next[t] \in 0 .. Len(heap)
  BY <1>1, <1>2, TypeFacts DEF ThreadOK, Removing, HasNext
<1>4. CASE ~Live(cur[t])
  <2>1. RemoveVisit(t, cur[t], next[t]) /\ UNCHANGED <<sentinel, heap>>
    BY <1>2, <1>4 DEF RemoveMark
  <2>2. QED
    BY <1>3, <2>1, RemoveVisitOK
<1>5. CASE Live(cur[t])
  <2>1. /\ heap' = [heap EXCEPT ![cur[t]].is_deleted = TRUE]
        /\ pc' = [pc EXCEPT ![t] = "remove_unlink"]
        /\ UNCHANGED <<hm, freed, calls, local, ret>>
    BY <1>5 DEF RemoveMark, Goto
  <2>2. heap \in Seq(NodeType) /\ cur[t] \in 1 .. Len(heap)
    BY <1>1, <1>3 DEF TypeOK, Nodes
  <2>3. /\ heap' \in Seq(NodeType) /\ Len(heap') = Len(heap)
        /\ \A i \in Nodes : heap'[i].m_val = heap[i].m_val /\ heap'[i].m_next = heap[i].m_next
        /\ \A i \in Nodes : i # cur[t] => heap'[i] = heap[i]
        /\ heap'[cur[t]].is_deleted = TRUE
    <3>1. heap' = Marked(heap, cur[t])
      BY <2>1 DEF Marked
    <3>2. /\ heap' \in Seq(NodeType) /\ Len(heap') = Len(heap)
          /\ \A i \in 1 .. Len(heap) : i # cur[t] => heap'[i] = heap[i]
          /\ heap'[cur[t]].is_deleted = TRUE
      BY <2>2, <3>1, HeapMark
    <3>3. \A i \in 1 .. Len(heap) : heap'[i].m_val = heap[i].m_val /\ heap'[i].m_next = heap[i].m_next
      BY <2>2, <3>1, MarkKeeps
    <3>4. QED
      BY <3>2, <3>3 DEF Nodes
  <2>4. HeapAges
    BY <2>3, TypeFacts, <1>1 DEF HeapAges
  <2>5. /\ Nodes' = Nodes
        /\ \A n \in Nodes : BucketOfNode(n)' = BucketOfNode(n)
        /\ \A n \in Nodes : Live(n)' => Live(n)
        /\ ~Live(cur[t])'
    BY <1>5, <2>1, <2>3 DEF Nodes, BucketOfNode, Live, local
  <2>6. TypeOK'
    BY <1>1, <1>2, <2>1, <2>3, <2>5 DEF TypeOK, local, Locations
  <2>7. \A n \in 0 .. Len(heap) : n # NULL => BucketOf(heap'[n].m_val) = BucketOf(heap[n].m_val)
    BY <1>1, <2>3, TypeFacts
  <2>8. LinksDescend'
    <3>1. \A c \in Buckets : sentinel[c] # NULL => BucketOf(heap'[sentinel[c]].m_val) = c
      BY <1>1, <2>7, TypeFacts DEF LinksDescend, BucketOfNode
    <3>2. \A n \in Nodes : heap'[n].m_next # NULL =>
             /\ heap'[n].m_next < n
             /\ BucketOf(heap'[heap'[n].m_next].m_val) = BucketOf(heap'[n].m_val)
      BY <1>1, <2>3, <2>7, LinkFacts DEF LinksDescend, BucketOfNode
    <3>3. QED
      BY <1>2, <2>5, <3>1, <3>2 DEF LinksDescend, BucketOfNode
  <2>9. NoLiveNodeSkipped'
    BY <1>1, <1>2, <2>3, <2>5 DEF NoLiveNodeSkipped
  <2>10. Frame(t) /\ pc'[t] = "remove_unlink"
    BY <1>1, <2>1 DEF TypeOK, local, Frame, SameLocals
  <2>11. LocalsOK'
    <3>1. \A u \in Threads \ {t} : ThreadOK(u)'
      BY <2>4, <2>6, <2>10, OthersOK DEF Frame
    <3>2. /\ cur'[t] = cur[t] /\ next'[t] = next[t] /\ cur_ptr'[t] = cur_ptr[t] /\ val'[t] = val[t]
      BY <2>1 DEF local
    <3>3. /\ cur[t] # NULL
          /\ cur_ptr[t] # NULL => cur[t] < cur_ptr[t] /\ InBucket(t, cur_ptr[t])
          /\ \A n \in Nodes : (Live(n) /\ n < cur[t] /\ BucketOfNode(n) = Bucket(t)) => n <= next[t]
      BY <1>1, <1>2 DEF ThreadOK, Removing, HasNext
    <3>4. \A n \in 0 .. Len(heap) : InBucket(t, n) => InBucket(t, n)'
      BY <2>7, <3>2 DEF InBucket, BucketOfNode, Bucket
    <3>5. \A n \in Nodes' : (Live(n)' /\ n < cur'[t] /\ BucketOfNode(n)' = Bucket(t)') => n <= next'[t]
      BY <2>5, <3>2, <3>3 DEF Bucket
    <3>6. cur_ptr[t] \in 0 .. Len(heap)
      BY <1>1, TypeFacts
    <3>7. ThreadOK(t)'
      BY <1>3, <2>10, <3>2, <3>3, <3>4, <3>5, <3>6
         DEF ThreadOK, Inserting, Removing, HasNext, LookingUp
    <3>8. QED
      BY <3>1, <3>7 DEF LocalsOK
  <2>12. OneRemoverPerNode'
    <3>1. \A u \in Threads : pc[u] = "remove_unlink" => cur[u] \in Nodes
      BY <1>1, TypeFacts DEF IInv, LocalsOK, ThreadOK, Removing
    <3>2. \A u \in Threads : pc[u] = "remove_unlink" => ~Live(cur[u]) /\ cur[u] # cur[t]
      BY <1>1, <1>5 DEF OneRemoverPerNode
    <3>3. \A u \in Threads : cur'[u] = cur[u]
      BY <2>1 DEF local
    <3>4. \A u \in Threads \ {t} : pc'[u] = pc[u]
      BY <2>10 DEF Frame, SameLocals
    <3>5. \A u \in Threads : pc'[u] = "remove_unlink" => ~Live(cur[u])'
      BY <2>5, <2>1, <3>1, <3>2, <3>4 DEF local
    <3>6. QED
      BY <1>1, <3>2, <3>3, <3>4, <3>5 DEF OneRemoverPerNode
  <2>13. QED
    BY <2>6, <2>8, <2>9, <2>11, <2>12 DEF IInv
<1>6. QED
  BY <1>4, <1>5

(* What remove_item knows when it unlinks: no live node of its bucket lies  *)
(* between the node and the successor it has read.                          *)
LEMMA UnlinkFacts ==
    ASSUME IInv, NEW t \in Threads, pc[t] = "remove_unlink"
    PROVE  /\ cur[t] \in Nodes /\ InBucket(t, cur[t]) /\ ~Live(cur[t])
           /\ next[t] \in 0 .. Len(heap) /\ next[t] < cur[t] /\ InBucket(t, next[t])
           /\ \A n \in Nodes : (Live(n) /\ n <= cur[t] /\ BucketOfNode(n) = Bucket(t)) => n <= next[t]
<1>1. TypeOK /\ ThreadOK(t) /\ OneRemoverPerNode
  BY DEF IInv, LocalsOK
<1>2. cur[t] \in Nodes /\ InBucket(t, cur[t]) /\ cur[t] \in Nat
  BY <1>1, TypeFacts DEF ThreadOK, Removing
<1>3. ~Live(cur[t])
  BY <1>1 DEF OneRemoverPerNode
<1>4. next[t] \in 0 .. Len(heap) /\ next[t] < cur[t] /\ InBucket(t, next[t])
  BY <1>1, TypeFacts DEF ThreadOK, HasNext
<1>5. \A n \in Nodes : (Live(n) /\ n < cur[t] /\ BucketOfNode(n) = Bucket(t)) => n <= next[t]
  BY <1>1 DEF ThreadOK, HasNext
<1>6. \A n \in Nodes : n \in Nat
  BY <1>1, TypeFacts
<1>7. \A n \in Nodes : (Live(n) /\ n <= cur[t]) => n < cur[t]
  BY <1>2, <1>3, <1>6
<1>8. QED
  BY <1>2, <1>3, <1>4, <1>5, <1>7

(* The unlink, with a successor that may be stale.                          *)
LEMMA RemoveUnlinkOK ==
    ASSUME IInv, NEW t \in Threads, RemoveUnlink(t)
    PROVE  IInv'
<1> DEFINE b == Bucket(t)
<1>1. TypeOK /\ LinksDescend /\ NoLiveNodeSkipped /\ ThreadOK(t) /\ Len(heap) \in Nat /\ b \in Buckets
  BY TypeFacts DEF IInv, LocalsOK
<1>2. pc[t] = "remove_unlink" /\ Return(t, 0)
  BY DEF RemoveUnlink
<1>3. \A n \in Nodes : n \in Nat /\ heap[n].m_next \in Nat /\ BucketOfNode(n) \in Buckets
  BY <1>1, TypeFacts, BucketOfType DEF NodeType, BucketOfNode
<1>4. CASE cur_ptr[t] = NULL
  <2>1. sentinel[b] = cur[t] /\ sentinel' = [sentinel EXCEPT ![b] = next[t]] /\ heap' = heap
    BY <1>4 DEF RemoveUnlink
  <2>2. /\ sentinel' \in [Buckets -> 0 .. Len(heap')] /\ sentinel'[b] = next[t]
        /\ \A c \in Buckets : c # b => sentinel'[c] = sentinel[c]
    BY <1>1, <1>2, <2>1, UnlinkFacts DEF TypeOK
  <2>3. heap' \in Seq(NodeType) /\ Len(heap) <= Len(heap') /\ HeapAges
    BY <1>1, <2>1 DEF HeapAges, TypeOK
  <2>4. LinksDescend'
    <3>1. \A c \in Buckets : sentinel'[c] # NULL => BucketOfNode(sentinel'[c]) = c
      BY <1>1, <1>2, <2>2, UnlinkFacts DEF LinksDescend, InBucket
    <3>2. QED
      BY <1>1, <2>1, <3>1 DEF LinksDescend, BucketOfNode, Nodes
  <2>5. NoLiveNodeSkipped'
    <3>1. ASSUME NEW n \in Nodes, Live(n) PROVE n <= sentinel'[BucketOfNode(n)]
      <4>1. n <= sentinel[BucketOfNode(n)]
        BY <1>1, <3>1 DEF NoLiveNodeSkipped
      <4>2. CASE BucketOfNode(n) = b
        BY <1>2, <2>1, <2>2, <3>1, <4>1, <4>2, UnlinkFacts
      <4>3. CASE BucketOfNode(n) # b
        BY <1>3, <2>2, <4>1, <4>3
      <4>4. QED
        BY <4>2, <4>3
    <3>2. QED
      BY <1>1, <2>1, <3>1 DEF NoLiveNodeSkipped, BucketOfNode, Nodes, Live
  <2>6. TypeOK' /\ Frame(t) /\ ThreadOK(t)' /\ pc'[t] # "remove_unlink"
    BY <1>1, <1>2, <2>2, <2>3, ReturnOK
  <2>7. QED
    BY <2>3, <2>4, <2>5, <2>6, ThreadStep DEF Lists
<1>5. CASE cur_ptr[t] # NULL
  <2> DEFINE p == cur_ptr[t]
  <2>1. heap[p].m_next = cur[t] /\ heap' = [heap EXCEPT ![p].m_next = next[t]] /\ sentinel' = sentinel
    BY <1>5 DEF RemoveUnlink
  <2>2. p \in Nodes /\ InBucket(t, p) /\ cur[t] < p /\ heap \in Seq(NodeType)
    BY <1>1, <1>2, <1>5, TypeFacts DEF ThreadOK, Removing, TypeOK
  <2>3. next[t] \in Nat
    BY <1>2, UnlinkFacts
  <2>4. /\ heap' \in Seq(NodeType) /\ Len(heap') = Len(heap)
        /\ \A i \in Nodes : /\ heap'[i].m_val = heap[i].m_val
                            /\ heap'[i].m_next = IF i = p THEN next[t] ELSE heap[i].m_next
                            /\ heap'[i].is_deleted = heap[i].is_deleted
    BY <2>1, <2>2, <2>3, HeapRelink DEF Nodes
  <2>5. HeapAges
    BY <1>1, <2>4 DEF HeapAges
  <2>6. /\ Nodes' = Nodes
        /\ \A n \in Nodes : BucketOfNode(n)' = BucketOfNode(n)
        /\ \A n \in Nodes : Live(n)' => Live(n)
        /\ BucketOfNode(p) = b
    BY <1>5, <2>2, <2>4 DEF Nodes, BucketOfNode, Live, InBucket
  <2>7. \A n \in 0 .. Len(heap) : n # NULL => BucketOf(heap'[n].m_val) = BucketOf(heap[n].m_val)
    BY <1>1, <2>4, TypeFacts
  <2>8. LinksDescend'
    <3>1. \A c \in Buckets : sentinel[c] # NULL => BucketOf(heap'[sentinel[c]].m_val) = c
      BY <1>1, <2>7, TypeFacts DEF LinksDescend, BucketOfNode
    <3>2. ASSUME NEW n \in Nodes, heap'[n].m_next # NULL
          PROVE  /\ heap'[n].m_next < n
                 /\ BucketOf(heap'[heap'[n].m_next].m_val) = BucketOf(heap'[n].m_val)
      <4>1. CASE n = p
        <5>1. heap'[n].m_next = next[t] /\ next[t] < n
          BY <1>2, <1>3, <2>2, <2>3, <2>4, <4>1, UnlinkFacts
        <5>2. BucketOf(heap[next[t]].m_val) = b
          BY <1>2, <3>2, <5>1, UnlinkFacts DEF InBucket, BucketOfNode
        <5>3. QED
          BY <1>2, <2>4, <2>6, <2>7, <3>2, <4>1, <5>1, <5>2, UnlinkFacts DEF BucketOfNode
      <4>2. CASE n # p
        BY <1>1, <2>4, <2>7, <3>2, <4>2, LinkFacts DEF LinksDescend, BucketOfNode
      <4>3. QED
        BY <4>1, <4>2
    <3>3. QED
      BY <2>1, <2>6, <3>1, <3>2 DEF LinksDescend, BucketOfNode
  <2>9. NoLiveNodeSkipped'
    <3> SUFFICES ASSUME NEW n \in Nodes, Live(n)
                 PROVE  /\ n <= sentinel[BucketOfNode(n)]
                        /\ \A m \in Nodes : (m > n /\ BucketOfNode(m) = BucketOfNode(n))
                                                => n <= heap'[m].m_next
      BY <2>1, <2>6 DEF NoLiveNodeSkipped
    <3>1. /\ n <= sentinel[BucketOfNode(n)]
          /\ \A m \in Nodes : (m > n /\ BucketOfNode(m) = BucketOfNode(n)) => n <= heap[m].m_next
      BY <1>1 DEF NoLiveNodeSkipped
    <3>2. ASSUME NEW m \in Nodes, m > n, BucketOfNode(m) = BucketOfNode(n) PROVE n <= heap'[m].m_next
      <4>1. CASE m = p
        <5>1. n <= cur[t] /\ BucketOfNode(n) = b
          BY <2>1, <2>6, <3>1, <3>2, <4>1
        <5>2. QED
          BY <1>2, <2>4, <4>1, <5>1, UnlinkFacts
      <4>2. CASE m # p
        BY <2>4, <3>1, <3>2, <4>2
      <4>3. QED
        BY <4>1, <4>2
    <3>3. QED
      BY <3>1, <3>2
  <2>10. sentinel' \in [Buckets -> 0 .. Len(heap')]
    BY <1>1, <2>1, <2>4 DEF TypeOK
  <2>11. TypeOK' /\ Frame(t) /\ ThreadOK(t)' /\ pc'[t] # "remove_unlink"
    BY <1>1, <1>2, <2>4, <2>10, ReturnOK
  <2>12. QED
    BY <2>5, <2>8, <2>9, <2>11, ThreadStep DEF Lists
<1>6. QED
  BY <1>4, <1>5

(* lookup_item looks at a node.                                             *)
LEMMA LookupCheckOK ==
    ASSUME IInv, NEW t \in Threads, LookupCheck(t)
    PROVE  IInv'
<1>1. UNCHANGED <<sentinel, heap>>
  BY DEF LookupCheck
<1>2. CASE Return(t, 0)
  BY <1>1, <1>2, QuietReturn
<1>3. CASE ~Return(t, 0)
  <2>1. pc' = [pc EXCEPT ![t] = "lookup_next"] /\ UNCHANGED <<hm, freed, calls, local, ret>>
    BY <1>3 DEF LookupCheck, Goto
  <2>2. TypeOK'
    BY <1>1, <2>1 DEF IInv, TypeOK, local, Locations, Nodes
  <2>3. Frame(t) /\ pc'[t] = "lookup_next"
    BY <2>1 DEF IInv, TypeOK, local, Frame, SameLocals
  <2>4. cur[t] # NULL /\ InBucket(t, cur[t])
    BY DEF IInv, LocalsOK, ThreadOK, LookingUp, LookupCheck
  <2>5. ThreadOK(t)'
    BY <1>1, <2>1, <2>3, <2>4
       DEF ThreadOK, Inserting, Removing, HasNext, LookingUp, InBucket, BucketOfNode, Bucket, local
  <2>6. QED
    BY <1>1, <2>2, <2>3, <2>5, HeapStays, ThreadStep
<1>4. QED
  BY <1>2, <1>3

(* Every step of a call.                                                    *)
LEMMA StepOK ==
    ASSUME IInv, NEW t \in Threads, Step(t)
    PROVE  IInv'
<1>1. CASE InsertNoMemory(t)
  BY <1>1, QuietReturn DEF InsertNoMemory
<1>2. CASE InsertLoad(t) \/ InsertRetry(t)
  BY <1>2, InsertLoadOK
<1>3. CASE InsertPublish(t)
  BY <1>3, InsertPublishOK
<1>4. CASE RemoveLoad(t)
  <2>1. sentinel[Bucket(t)] \in 0 .. Len(heap) /\ 0 \in 0 .. Len(heap)
    BY TypeFacts DEF IInv
  <2>2. QED
    BY <1>4, <2>1, RemoveVisitOK, LinkFacts DEF RemoveLoad, NULL
<1>5. CASE RemoveNext(t)
  BY <1>5, RemoveNextOK
<1>6. CASE RemoveMark(t)
  BY <1>6, RemoveMarkOK
<1>7. CASE RemoveUnlink(t)
  BY <1>7, RemoveUnlinkOK
<1>8. CASE RemoveUnlinkFails(t)
  BY <1>8, QuietReturn DEF RemoveUnlinkFails
<1>9. CASE LookupLoad(t)
  <2>1. sentinel[Bucket(t)] \in 0 .. Len(heap)
    BY TypeFacts DEF IInv
  <2>2. QED
    BY <1>9, <2>1, LookupVisitOK, LinkFacts DEF LookupLoad
<1>10. CASE LookupCheck(t)
  BY <1>10, LookupCheckOK
<1>11. CASE LookupNext(t)
  <2>1. cur[t] \in Nodes /\ InBucket(t, cur[t])
    BY <1>11, TypeFacts DEF IInv, LocalsOK, ThreadOK, LookingUp, LookupNext
  <2>2. QED
    BY <1>11, <2>1, LookupVisitOK, LinkFacts DEF LookupNext
<1>12. QED
  BY <1>1, <1>2, <1>3, <1>4, <1>5, <1>6, <1>7, <1>8, <1>9, <1>10, <1>11 DEF Step

(* Every step keeps the invariant.                                          *)
LEMMA NextOK == IInv /\ [Next]_vars => IInv'
<1> SUFFICES ASSUME IInv, [Next]_vars PROVE IInv'
  OBVIOUS
<1>1. CASE \E t \in Threads : CallAny(t)
  BY <1>1, CallOK DEF CallAny
<1>2. CASE \E t \in Threads : Step(t)
  BY <1>2, StepOK
<1>3. CASE FreeHashmap
  <2>1. TypeOK'
    BY <1>3 DEF IInv, TypeOK, FreeHashmap, Reachable, local, Nodes
  <2>2. Lists'
    BY <1>3, HeapStays DEF FreeHashmap
  <2>3. OneRemoverPerNode' /\ LocalsOK'
    BY <1>3 DEF IInv, FreeHashmap, local, OneRemoverPerNode, LocalsOK, ThreadOK,
                Inserting, Removing, HasNext, LookingUp, InBucket, BucketOfNode, Bucket, Nodes, Live
  <2>4. QED
    BY <2>1, <2>2, <2>3 DEF IInv, Lists
<1>4. CASE UNCHANGED vars
  <2>1. TypeOK'
    BY <1>4 DEF IInv, TypeOK, vars, local, Nodes
  <2>2. Lists'
    BY <1>4, HeapStays DEF vars
  <2>3. OneRemoverPerNode' /\ LocalsOK'
    BY <1>4 DEF IInv, vars, local, OneRemoverPerNode, LocalsOK, ThreadOK,
                Inserting, Removing, HasNext, LookingUp, InBucket, BucketOfNode, Bucket, Nodes, Live
  <2>4. QED
    BY <2>1, <2>2, <2>3 DEF IInv, Lists
<1>5. QED
  BY <1>1, <1>2, <1>3, <1>4 DEF Next, Finished
-----------------------------------------------------------------------------
(***************************************************************************)
(* The theorems.                                                           *)
(***************************************************************************)
(* The inductive invariant holds in every reachable state.                 *)
THEOREM Invariance == Spec => []IInv
BY InitOK, NextOK, PTL DEF Spec

(* Every variable of the lock-free hashmap keeps its type; in particular   *)
(* every pointer a thread holds is NULL or a published node.               *)
THEOREM TypeCorrect == Spec => []TypeOK
<1>1. IInv => TypeOK
  BY DEF IInv
<1>2. QED
  BY <1>1, Invariance, PTL

(* Links lead to older nodes of the same bucket, so every walk of          *)
(* remove_item, lookup_item and free_hashmap ends.                         *)
THEOREM WalksEnd == Spec => []LinksDescend
<1>1. IInv => LinksDescend
  BY DEF IInv
<1>2. QED
  BY <1>1, Invariance, PTL

(* No unlinking, also with a successor that is stale by then, makes a link *)
(* jump over a node that is not deleted.                                   *)
THEOREM NothingSkipped == Spec => []NoLiveNodeSkipped
<1>1. IInv => NoLiveNodeSkipped
  BY DEF IInv
<1>2. QED
  BY <1>1, Invariance, PTL

(* A node is removed by one call of remove_item only.                      *)
THEOREM RemovedOnce == Spec => []OneRemoverPerNode
<1>1. IInv => OneRemoverPerNode
  BY DEF IInv
<1>2. QED
  BY <1>1, Invariance, PTL

NatLess == OpToRel(<, Nat)

(* A set of numbers has a least one.                                        *)
LEMMA MinNat ==
    ASSUME NEW T, T \subseteq Nat, T # {}
    PROVE  \E m \in T : \A k \in T : m <= k
<1>1. IsWellFoundedOn(NatLess, Nat)
  BY NatLessThanWellFounded, Zenon DEF NatLess
<1>2. PICK m \in T : \A k \in T : ~(<<k, m>> \in NatLess)
  BY <1>1, WFMin
<1>3. ASSUME NEW i \in Nat, NEW j \in Nat, i < j PROVE <<i, j>> \in NatLess
  BY <1>3, Zenon DEF NatLess, OpToRel
<1>4. \A k \in T : ~(k < m)
  BY <1>2, <1>3
<1>5. QED
  BY <1>4

(* A walk meets every live node: the last node of the walk that is younger  *)
(* than it would otherwise link past it.                                    *)
LEMMA WalkMeetsLiveNode ==
    ASSUME IInv, NEW n \in Nodes, Live(n), NEW S \in SUBSET Nodes, HoldsWalks(S)
    PROVE  n \in S
<1> SUFFICES ASSUME n \notin S PROVE FALSE
  OBVIOUS
<1> DEFINE b == BucketOfNode(n)
           T == {m \in S : m > n /\ BucketOfNode(m) = b}
<1>1. TypeOK /\ LinksDescend /\ NoLiveNodeSkipped
  BY DEF IInv
<1>2. b \in Buckets /\ n \in Nat \ {0}
  BY <1>1, TypeFacts, BucketOfType DEF BucketOfNode, NodeType
<1>3. sentinel[b] \in T
  <2>1. n <= sentinel[b] /\ sentinel[b] \in Nat
    BY <1>1, <1>2, TypeFacts DEF NoLiveNodeSkipped
  <2>2. sentinel[b] # NULL /\ sentinel[b] \in S
    BY <1>2, <2>1 DEF HoldsWalks, NULL
  <2>3. QED
    BY <1>1, <1>2, <2>1, <2>2 DEF LinksDescend
<1>4. T \subseteq Nat
  BY <1>1, TypeFacts
<1>5. PICK m \in T : \A k \in T : m <= k
  BY <1>3, <1>4, MinNat
<1>6. m \in Nodes /\ m \in S /\ m > n /\ BucketOfNode(m) = b /\ m \in Nat
  BY <1>4
<1>7. n <= heap[m].m_next /\ heap[m].m_next \in Nat
  BY <1>1, <1>6, LinkFacts DEF NoLiveNodeSkipped
<1>8. heap[m].m_next # NULL /\ heap[m].m_next \in S
  BY <1>2, <1>6, <1>7 DEF HoldsWalks, NULL
<1>9. heap[m].m_next < m /\ BucketOfNode(heap[m].m_next) = b
  BY <1>1, <1>6, <1>8 DEF LinksDescend
<1>10. heap[m].m_next \in T
  BY <1>2, <1>7, <1>8, <1>9
<1>11. QED
  BY <1>5, <1>6, <1>7, <1>9, <1>10

(* A lookup or a free_hashmap that starts now walks over every live node.  *)
THEOREM LiveAreReachable == Spec => []LiveNodesReachable
<1>1. IInv => LiveNodesReachable
  BY WalkMeetsLiveNode DEF LiveNodesReachable, Reachable
<1>2. QED
  BY <1>1, Invariance, PTL

(* A walk along the links of lockfreehashmap.c, whatever other threads     *)
(* unlink around it, ends in its bucket and has met every live node of it. *)
THEOREM WalksMeetAllAndEnd == Spec => []WalksAreSafe
BY WalksEnd, LiveAreReachable, PTL DEF WalksAreSafe

(* Values stay, marks stay, links lead to older nodes.                      *)
LEMMA Ageing ==
    ASSUME IInv, [Next]_vars
    PROVE  [\A n \in Nodes :
              /\ heap'[n].m_val = heap[n].m_val
              /\ heap[n].is_deleted => heap'[n].is_deleted
              /\ heap'[n].m_next <= heap[n].m_next]_heap
<1> SUFFICES ASSUME heap' # heap, NEW n \in Nodes
             PROVE  /\ heap'[n].m_val = heap[n].m_val
                    /\ heap[n].is_deleted => heap'[n].is_deleted
                    /\ heap'[n].m_next <= heap[n].m_next
  OBVIOUS
<1>1. TypeOK /\ heap \in Seq(NodeType) /\ n \in 1 .. Len(heap) /\ heap[n].m_next \in Nat
  BY TypeFacts DEF IInv, TypeOK, Nodes, NodeType
<1>2. PICK t \in Threads : InsertPublish(t) \/ RemoveMark(t) \/ RemoveUnlink(t)
  BY DEF Next, vars, CallAny, Call, Step, FreeHashmap, Finished,
         InsertNoMemory, InsertLoad, InsertRetry, RemoveLoad, RemoveNext, RemoveUnlinkFails,
         LookupLoad, LookupCheck, LookupNext
<1>3. CASE InsertPublish(t)
  <2>1. NewNode(t) \in NodeType
    BY <1>1, TypeFacts DEF NewNode, NodeType
  <2>2. heap'[n] = heap[n]
    BY <1>1, <1>3, <2>1, HeapAppend DEF InsertPublish
  <2>3. QED
    BY <1>1, <2>2
<1>4. CASE RemoveMark(t)
  <2>1. heap' = Marked(heap, cur[t]) /\ cur[t] \in 1 .. Len(heap)
    <3>1. cur[t] \in Nodes
      BY <1>4, TypeFacts DEF IInv, LocalsOK, ThreadOK, Removing, RemoveMark
    <3>2. QED
      BY <1>4, <3>1 DEF RemoveMark, Marked, Nodes
  <2>2. heap'[n].m_val = heap[n].m_val /\ heap'[n].m_next = heap[n].m_next
    BY <1>1, <2>1, MarkKeeps
  <2>3. n # cur[t] => heap'[n] = heap[n]
    BY <1>1, <2>1, HeapMark
  <2>4. heap'[cur[t]].is_deleted = TRUE
    BY <1>1, <2>1, HeapMark
  <2>5. heap[n].is_deleted => heap'[n].is_deleted
    BY <2>3, <2>4
  <2>6. QED
    BY <1>1, <2>2, <2>5
<1>5. CASE RemoveUnlink(t)
  <2>1. /\ heap[cur_ptr[t]].m_next = cur[t] /\ cur_ptr[t] # NULL
        /\ heap' = [heap EXCEPT ![cur_ptr[t]].m_next = next[t]]
    BY <1>5 DEF RemoveUnlink
  <2>2. cur_ptr[t] \in 1 .. Len(heap)
    BY <1>1, <2>1, TypeFacts DEF Nodes
  <2>3. next[t] < cur[t] /\ next[t] \in Nat /\ cur[t] \in Nat
    BY <1>1, <1>5, UnlinkFacts, TypeFacts DEF RemoveUnlink
  <2>4. /\ heap'[n].m_val = heap[n].m_val
        /\ heap'[n].m_next = IF n = cur_ptr[t] THEN next[t] ELSE heap[n].m_next
        /\ heap'[n].is_deleted = heap[n].is_deleted
    BY <1>1, <2>1, <2>2, <2>3, HeapRelink
  <2>5. heap'[n].m_next <= heap[n].m_next
    BY <1>1, <2>1, <2>3, <2>4
  <2>6. QED
    BY <2>4, <2>5
<1>6. QED
  BY <1>2, <1>3, <1>4, <1>5

(* A published node keeps its value, stays deleted once remove_item has    *)
(* marked it, and its link only moves on to older nodes.                   *)
THEOREM OnlyAgeing == Spec => NodesOnlyAge
BY Invariance, Ageing, PTL DEF Spec, NodesOnlyAge
=============================================================================
