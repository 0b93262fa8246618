--------------------------- MODULE LockFreeHashMap ---------------------------
(***************************************************************************)
(* The lock-free hashmap of task04-concurrency/src/lockfreehashmap.c: one  *)
(* singly linked list per bucket, insertion by a CAS on the bucket head,   *)
(* removal by a CAS on the node's is_deleted flag followed by one attempt  *)
(* to unlink the node, lookup by an unsynchronised walk.                   *)
(*                                                                         *)
(* One step is one access to shared memory.  Accesses are interleaved      *)
(* (sequential consistency): every store to a published location is a      *)
(* locked read-modify-write on the repository's target, Linux x86-64.      *)
(*                                                                         *)
(* A node is private to its inserter until the CAS that publishes it, so   *)
(* it is named when it is published: node n is the n-th one published.     *)
(* Nodes are not freed before free_hashmap, hence no name is reused.       *)
(***************************************************************************)
EXTENDS Integers, Sequences

CONSTANTS
    Threads,     \* the threads that call the API
    Values,      \* the values they insert, remove and look up (long)
    n_buckets,   \* number of buckets given to alloc_hashmap
    ULONG,       \* number of values of unsigned long (2^64 in the build)
    MaxCalls     \* bound on the number of API calls of a behaviour

ASSUME BucketsAssumption == n_buckets \in Nat \ {0}
ASSUME UlongAssumption   == ULONG \in Nat \ {0}
ASSUME ValuesAssumption  == Values \subseteq Int /\ Values # {}
ASSUME CallsAssumption   == MaxCalls \in Nat

VARIABLES
    sentinel,      \* head of every bucket list
    heap,          \* the published nodes, in the order of publication
    hm,            \* "live" until free_hashmap has run, then "freed"
    freed,         \* nodes passed to free()
    calls,         \* number of calls made so far
    pc,            \* where every thread is
    val,           \* the argument of its call
    old_sentinel,  \* insert_item: expected bucket head
    cur_ptr,       \* remove_item: the node whose m_next is the current link,
                   \* NULL for the bucket's sentinel
    cur, next,     \* remove_item, lookup_item: current node; its successor
    ret            \* the value its last call returned

local == <<val, old_sentinel, cur_ptr, cur, next>>
vars  == <<sentinel, heap, hm, freed, calls, pc, local, ret>>

NULL    == 0
Buckets == 0 .. n_buckets - 1
Nodes   == 1 .. Len(heap)
Locations == {"idle", "insert_load", "insert_cas",
              "remove_load", "remove_next", "remove_mark", "remove_unlink",
              "lookup_load", "lookup_check", "lookup_next"}

\* The argument of a thread that is in no call.
AnyValue      == CHOOSE v \in Values : TRUE

\* (unsigned long)val % hm->n_buckets: the conversion is modulo ULONG.
BucketOf(v)   == (v % ULONG) % n_buckets
Bucket(t)     == BucketOf(val[t])
BucketOfNode(n) == BucketOf(heap[n].m_val)
Live(n)       == ~heap[n].is_deleted
-----------------------------------------------------------------------------
Init ==
    /\ sentinel = [b \in Buckets |-> NULL]
    /\ heap = <<>>
    /\ hm = "live"
    /\ freed = {}
    /\ calls = 0
    /\ pc = [t \in Threads |-> "idle"]
    /\ val = [t \in Threads |-> AnyValue]
    /\ old_sentinel = [t \in Threads |-> NULL]
    /\ cur_ptr = [t \in Threads |-> NULL]
    /\ cur = [t \in Threads |-> NULL]
    /\ next = [t \in Threads |-> NULL]
    /\ ret = [t \in Threads |-> 0]

(* A thread enters an API function with argument v.                        *)
Call(t, v, entry) ==
    /\ hm = "live"
    /\ calls < MaxCalls
    /\ pc[t] = "idle"
    /\ calls' = calls + 1
    /\ pc' = [pc EXCEPT ![t] = entry]
    /\ val' = [val EXCEPT ![t] = v]
    /\ UNCHANGED <<sentinel, heap, hm, freed, old_sentinel, cur_ptr, cur, next, ret>>

Goto(t, at) == pc' = [pc EXCEPT ![t] = at]

(* The call returns r and its locals go out of scope.                      *)
Return(t, r) ==
    /\ Goto(t, "idle")
    /\ ret' = [ret EXCEPT ![t] = r]
    /\ old_sentinel' = [old_sentinel EXCEPT ![t] = NULL]
    /\ cur_ptr' = [cur_ptr EXCEPT ![t] = NULL]
    /\ cur' = [cur EXCEPT ![t] = NULL]
    /\ next' = [next EXCEPT ![t] = NULL]
    /\ val' = [val EXCEPT ![t] = AnyValue]
    /\ UNCHANGED <<hm, freed, calls>>
-----------------------------------------------------------------------------
(***************************************************************************)
(* insert_item                                                             *)
(***************************************************************************)
(* malloc fails: nothing is inserted.                                      *)
InsertNoMemory(t) ==
    /\ pc[t] = "insert_load"
    /\ Return(t, 1)
    /\ UNCHANGED <<sentinel, heap>>

(* malloc succeeds and the bucket head is read.                            *)
InsertLoad(t) ==
    /\ pc[t] = "insert_load"
    /\ old_sentinel' = [old_sentinel EXCEPT ![t] = sentinel[Bucket(t)]]
    /\ Goto(t, "insert_cas")
    /\ UNCHANGED <<sentinel, heap, hm, freed, calls, val, cur_ptr, cur, next, ret>>

NewNode(t) == [m_val |-> val[t], m_next |-> old_sentinel[t], is_deleted |-> FALSE]

(* As InsertPublish, with a store instead of the CAS.                      *)
InsertStore(t) ==
    /\ pc[t] = "insert_cas"
    /\ heap' = Append(heap, NewNode(t))
    /\ sentinel' = [sentinel EXCEPT ![Bucket(t)] = Len(heap) + 1]
    /\ Return(t, 0)

(* The CAS succeeds: the node, linked to the expected head, is the head.   *)
InsertPublish(t) ==
    /\ pc[t] = "insert_cas"
    /\ sentinel[Bucket(t)] = old_sentinel[t]
    /\ heap' = Append(heap, NewNode(t))
    /\ sentinel' = [sentinel EXCEPT ![Bucket(t)] = Len(heap) + 1]
    /\ Return(t, 0)

(* As InsertRetry, but the expected head is not reloaded.                  *)
InsertRetryNoReload(t) ==
    /\ pc[t] = "insert_cas"
    /\ sentinel[Bucket(t)] # old_sentinel[t]
    /\ UNCHANGED vars

(* The CAS fails and hands back the head it found.  (A spurious failure of *)
(* the weak CAS reloads the same head and is a stuttering step.)           *)
InsertRetry(t) ==
    /\ pc[t] = "insert_cas"
    /\ sentinel[Bucket(t)] # old_sentinel[t]
    /\ old_sentinel' = [old_sentinel EXCEPT ![t] = sentinel[Bucket(t)]]
    /\ UNCHANGED <<sentinel, heap, hm, freed, calls, pc, val, cur_ptr, cur, next, ret>>
-----------------------------------------------------------------------------
(***************************************************************************)
(* remove_item                                                             *)
(***************************************************************************)
(* Go on with node n, reached over the link p, or give up at the end.      *)
RemoveVisit(t, p, n) ==
    \/ /\ n = NULL
       /\ Return(t, 1)
    \/ /\ n # NULL
       /\ cur_ptr' = [cur_ptr EXCEPT ![t] = p]
       /\ cur' = [cur EXCEPT ![t] = n]
       /\ Goto(t, "remove_next")
       /\ UNCHANGED <<hm, freed, calls, val, old_sentinel, next, ret>>

RemoveLoad(t) ==
    /\ pc[t] = "remove_load"
    /\ RemoveVisit(t, NULL, sentinel[Bucket(t)])
    /\ UNCHANGED <<sentinel, heap>>

(* Snapshot the successor, then compare the value (which never changes).   *)
RemoveNext(t) ==
    /\ pc[t] = "remove_next"
    /\ \/ /\ heap[cur[t]].m_val = val[t]
          /\ next' = [next EXCEPT ![t] = heap[cur[t]].m_next]
          /\ Goto(t, "remove_mark")
          /\ UNCHANGED <<hm, freed, calls, val, old_sentinel, cur_ptr, cur, ret>>
       \/ /\ heap[cur[t]].m_val # val[t]
          /\ RemoveVisit(t, cur[t], heap[cur[t]].m_next)
    /\ UNCHANGED <<sentinel, heap>>

(* As RemoveMark, with a store instead of the CAS.                         *)
RemoveMarkStore(t) ==
    /\ pc[t] = "remove_mark"
    /\ heap' = [heap EXCEPT ![cur[t]].is_deleted = TRUE]
    /\ Goto(t, "remove_unlink")
    /\ UNCHANGED <<sentinel, hm, freed, calls, local, ret>>

(* The CAS on is_deleted: the one remover that sets it owns the removal,   *)
(* any other goes on with the successor it has read before.                *)
RemoveMark(t) ==
    /\ pc[t] = "remove_mark"
    /\ \/ /\ Live(cur[t])
          /\ heap' = [heap EXCEPT ![cur[t]].is_deleted = TRUE]
          /\ Goto(t, "remove_unlink")
          /\ UNCHANGED <<hm, freed, calls, local, ret>>
       \/ /\ ~Live(cur[t])
          /\ RemoveVisit(t, cur[t], next[t])
          /\ UNCHANGED heap
    /\ UNCHANGED sentinel

(* As RemoveUnlink, but the unlinked node's own link is cleared.           *)
RemoveUnlinkClears(t) ==
    /\ pc[t] = "remove_unlink"
    /\ cur_ptr[t] = NULL
    /\ sentinel[Bucket(t)] = cur[t]
    /\ sentinel' = [sentinel EXCEPT ![Bucket(t)] = next[t]]
    /\ heap' = [heap EXCEPT ![cur[t]].m_next = NULL]
    /\ Return(t, 0)

(* The CAS on the link succeeds if the link still refers to the node.      *)
RemoveUnlink(t) ==
    /\ pc[t] = "remove_unlink"
    /\ \/ /\ cur_ptr[t] = NULL
          /\ sentinel[Bucket(t)] = cur[t]
          /\ sentinel' = [sentinel EXCEPT ![Bucket(t)] = next[t]]
          /\ UNCHANGED heap
       \/ /\ cur_ptr[t] # NULL
          /\ heap[cur_ptr[t]].m_next = cur[t]
          /\ heap' = [heap EXCEPT ![cur_ptr[t]].m_next = next[t]]
          /\ UNCHANGED sentinel
    /\ Return(t, 0)

(* As RemoveUnlinkFails, but the node is given back.                       *)
RemoveUnlinkUnmarks(t) ==
    /\ pc[t] = "remove_unlink"
    /\ heap' = [heap EXCEPT ![cur[t]].is_deleted = FALSE]
    /\ Return(t, 1)
    /\ UNCHANGED sentinel

(* The CAS on the link fails, also spuriously: the node stays linked.      *)
RemoveUnlinkFails(t) ==
    /\ pc[t] = "remove_unlink"
    /\ Return(t, 0)
    /\ UNCHANGED <<sentinel, heap>>
-----------------------------------------------------------------------------
(***************************************************************************)
(* lookup_item                                                             *)
(***************************************************************************)
LookupVisit(t, n) ==
    \/ /\ n = NULL
       /\ Return(t, 1)
    \/ /\ n # NULL
       /\ cur' = [cur EXCEPT ![t] = n]
       /\ Goto(t, "lookup_check")
       /\ UNCHANGED <<hm, freed, calls, val, old_sentinel, cur_ptr, next, ret>>

LookupLoad(t) ==
    /\ pc[t] = "lookup_load"
    /\ LookupVisit(t, sentinel[Bucket(t)])
    /\ UNCHANGED <<sentinel, heap>>

HitDeleted(t) == heap[cur[t]].m_val = val[t]
Hit(t) == heap[cur[t]].m_val = val[t] /\ Live(cur[t])

LookupCheck(t) ==
    /\ pc[t] = "lookup_check"
    /\ \/ Hit(t) /\ Return(t, 0)
       \/ /\ ~Hit(t)
          /\ Goto(t, "lookup_next")
          /\ UNCHANGED <<hm, freed, calls, local, ret>>
    /\ UNCHANGED <<sentinel, heap>>

LookupNext(t) ==
    /\ pc[t] = "lookup_next"
    /\ LookupVisit(t, heap[cur[t]].m_next)
    /\ UNCHANGED <<sentinel, heap>>
-----------------------------------------------------------------------------
(***************************************************************************)
(* free_hashmap, to be called once all users have stopped, frees the nodes *)
(* it can walk to from the bucket heads.                                   *)
(***************************************************************************)
HoldsWalks(S) ==
    /\ \A b \in Buckets : sentinel[b] # NULL => sentinel[b] \in S
    /\ \A n \in S : heap[n].m_next # NULL => heap[n].m_next \in S

Reachable == {n \in Nodes : \A S \in SUBSET Nodes : HoldsWalks(S) => n \in S}

FreeHashmap ==
    /\ hm = "live"
    /\ \A t \in Threads : pc[t] = "idle"
    /\ hm' = "freed"
    /\ freed' = Reachable
    /\ UNCHANGED <<sentinel, heap, calls, pc, local, ret>>

(* The map is gone and its users have stopped.                             *)
Finished == hm = "freed" /\ UNCHANGED vars
-----------------------------------------------------------------------------
CallAny(t) ==
    \E v \in Values, entry \in {"insert_load", "remove_load", "lookup_load"} :
        Call(t, v, entry)

Step(t) ==
    \/ InsertNoMemory(t) \/ InsertLoad(t) \/ InsertPublish(t) \/ InsertRetry(t)
    \/ RemoveLoad(t) \/ RemoveNext(t) \/ RemoveMark(t)
    \/ RemoveUnlink(t) \/ RemoveUnlinkFails(t)
    \/ LookupLoad(t) \/ LookupCheck(t) \/ LookupNext(t)

Next ==
    \/ \E t \in Threads : CallAny(t) \/ Step(t)
    \/ FreeHashmap
    \/ Finished

Spec == Init /\ [][Next]_vars
-----------------------------------------------------------------------------
NodeType == [m_val : Values, m_next : Nat, is_deleted : BOOLEAN]

(* Every pointer of a list or of a thread is NULL or a published node,     *)
(* and every call has returned 0 or 1.                                     *)
TypeOK ==
    /\ sentinel \in [Buckets -> 0 .. Len(heap)]
    /\ heap \in Seq(NodeType)
    /\ hm \in {"live", "freed"}
    /\ freed \subseteq Nodes
    /\ calls \in 0 .. MaxCalls
    /\ pc \in [Threads -> Locations]
    /\ val \in [Threads -> Values]
    /\ old_sentinel \in [Threads -> 0 .. Len(heap)]
    /\ cur_ptr \in [Threads -> 0 .. Len(heap)]
    /\ cur \in [Threads -> 0 .. Len(heap)]
    /\ next \in [Threads -> 0 .. Len(heap)]
    /\ ret \in [Threads -> {0, 1}]

(* Every link stays in its bucket and refers to an older node, so a walk   *)
(* along m_next ends, also one that started at an unlinked node.           *)
LinksDescend ==
    /\ \A b \in Buckets : sentinel[b] # NULL => BucketOfNode(sentinel[b]) = b
    /\ \A n \in Nodes : heap[n].m_next # NULL =>
           /\ heap[n].m_next < n
           /\ BucketOfNode(heap[n].m_next) = BucketOfNode(n)

(* No link of a bucket, whether of its head, of a linked node or of a node *)
(* already unlinked, jumps over a node that is not deleted: the unlinking  *)
(* of a node with a stale successor never cuts off a live one, and a       *)
(* reader that stands on an unlinked node still meets every older one.     *)
NoLiveNodeSkipped ==
    \A n \in Nodes : Live(n) =>
        /\ n <= sentinel[BucketOfNode(n)]
        /\ \A m \in Nodes : (m > n /\ BucketOfNode(m) = BucketOfNode(n))
                               => n <= heap[m].m_next

(* Every live node can be walked to from the bucket heads: a lookup that   *)
(* starts now meets it, and free_hashmap frees it.                         *)
LiveNodesReachable == \A n \in Nodes : Live(n) => n \in Reachable

(* A walk that starts at a bucket head ends, stays in the bucket and meets *)
(* every live node of it.                                                  *)
WalksAreSafe == LinksDescend /\ LiveNodesReachable

(* Of two concurrent removals at most one owns a node: whoever is about to *)
(* unlink has marked the node, and nobody else is about to unlink it.      *)
OneRemoverPerNode ==
    \A t \in Threads : pc[t] = "remove_unlink" =>
        /\ ~Live(cur[t])
        /\ \A u \in Threads \ {t} : pc[u] = "remove_unlink" => cur[u] # cur[t]

(* A published node keeps its value, never comes back to life, and its     *)
(* link only ever moves on to older nodes.                                 *)
NodesOnlyAge ==
    [][\A n \in Nodes :
          /\ heap'[n].m_val = heap[n].m_val
          /\ heap[n].is_deleted => heap'[n].is_deleted
          /\ heap'[n].m_next <= heap[n].m_next]_heap
=============================================================================
