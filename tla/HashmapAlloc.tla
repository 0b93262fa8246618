----------------------------- MODULE HashmapAlloc ----------------------------
(***************************************************************************)
(* alloc_hashmap and free_hashmap of task04-concurrency, for the           *)
(* lock-based map (lockhashmap.c) and the lock-free one                    *)
(* (lockfreehashmap.c), when any of the allocations may fail.  The map is  *)
(* freed empty; the nodes of a used map are the business of LockHashMap    *)
(* and LockFreeHashMap.                                                    *)
(***************************************************************************)
EXTENDS Naturals

CONSTANTS
    Kinds,       \* "lock" for lockhashmap.c, "lockfree" for lockfreehashmap.c
    MaxBuckets   \* bound on the n_buckets asked for

ASSUME KindAssumption    == Kinds \subseteq {"lock", "lockfree"}
ASSUME BucketsAssumption == MaxBuckets \in Nat

VARIABLES
    kind,        \* which of the two maps
    pc,          \* the function and line reached
    n_buckets,   \* the number of buckets asked for
    i,           \* loop counter of alloc_hashmap and of free_hashmap
    objects,     \* what malloc and calloc have handed out and nobody freed
    sentinel,    \* per bucket: "none" (no bucket), "unset", "null"
    result       \* what alloc_hashmap returned: "none" yet, "null", "hm"

allocVars == <<kind, pc, n_buckets, i, objects, sentinel, result>>

List(b) == <<"list", b>>
Lck(b)  == <<"slock", b>>
Hm      == <<"hm", 0>>
Array   == <<"buckets", 0>>

AllocInit ==
    /\ kind \in Kinds
    /\ pc = "malloc_hm"
    /\ n_buckets \in 0 .. MaxBuckets
    /\ i = 0
    /\ objects = {}
    /\ sentinel = [b \in 0 .. n_buckets |-> "none"]
    /\ result = "none"

Goto(at)   == pc' = at
GiveUp     == Goto("returned") /\ result' = "null"
FreeHashmapCalled == Goto("free_bucket") /\ i' = 0
-----------------------------------------------------------------------------
(***************************************************************************)
(* alloc_hashmap                                                           *)
(***************************************************************************)
MallocHm ==
    /\ pc = "malloc_hm"
    /\ \/ GiveUp /\ UNCHANGED objects                    \* no buckets, no memory
       \/ n_buckets > 0 /\ Goto("calloc_array") /\ objects' = {Hm} /\ UNCHANGED result
    /\ UNCHANGED <<kind, n_buckets, i, sentinel>>

ArrayFailureForgetsHm ==
    /\ pc = "calloc_array"
    /\ \/ GiveUp /\ UNCHANGED objects
       \/ Goto("malloc_list") /\ objects' = objects \cup {Array} /\ UNCHANGED result
    /\ UNCHANGED <<kind, n_buckets, i, sentinel>>

CallocArray ==
    /\ pc = "calloc_array"
    /\ \/ GiveUp /\ objects' = objects \ {Hm}
       \/ Goto("malloc_list") /\ objects' = objects \cup {Array} /\ UNCHANGED result
    /\ UNCHANGED <<kind, n_buckets, i, sentinel>>

(* malloc of a bucket: its fields are not initialized yet.                 *)
MallocList ==
    /\ pc = "malloc_list"
    /\ i < n_buckets
    /\ \/ FreeHashmapCalled /\ result' = "null" /\ UNCHANGED <<objects, sentinel>>
       \/ /\ objects' = objects \cup {List(i)}
          /\ sentinel' = [sentinel EXCEPT ![i] = "unset"]
          /\ Goto(IF kind = "lock" THEN "malloc_slock" ELSE "set_sentinel")
          /\ UNCHANGED <<i, result>>
    /\ UNCHANGED <<kind, n_buckets>>

(* cspin_alloc, in the lock-based map only.                                *)
MallocSlock ==
    /\ pc = "malloc_slock"
    /\ \/ FreeHashmapCalled /\ result' = "null" /\ UNCHANGED objects
       \/ Goto("set_sentinel") /\ objects' = objects \cup {Lck(i)} /\ UNCHANGED <<i, result>>
    /\ UNCHANGED <<kind, n_buckets, sentinel>>

SetSentinelForgotten ==
    /\ pc = "set_sentinel"
    /\ i' = i + 1
    /\ Goto("malloc_list")
    /\ UNCHANGED <<kind, n_buckets, objects, sentinel, result>>

SetSentinel ==
    /\ pc = "set_sentinel"
    /\ sentinel' = [sentinel EXCEPT ![i] = "null"]
    /\ i' = i + 1
    /\ Goto("malloc_list")
    /\ UNCHANGED <<kind, n_buckets, objects, result>>

Allocated ==
    /\ pc = "malloc_list"
    /\ i = n_buckets
    /\ Goto("in_use")
    /\ result' = "hm"
    /\ UNCHANGED <<kind, n_buckets, i, objects, sentinel>>
-----------------------------------------------------------------------------
(***************************************************************************)
(* free_hashmap, called by the user or by a failing alloc_hashmap          *)
(***************************************************************************)
UserFrees ==
    /\ pc = "in_use"
    /\ FreeHashmapCalled
    /\ UNCHANGED <<kind, n_buckets, objects, sentinel, result>>

(* The list of the bucket is walked: it is empty if the sentinel is NULL,  *)
(* while a sentinel that was never set may hold any bits.                  *)
FreeBucket ==
    /\ pc = "free_bucket"
    /\ i < n_buckets
    /\ \/ /\ objects' = objects \ {List(i), Lck(i)}
          /\ i' = i + 1
          /\ UNCHANGED pc
       \/ /\ sentinel[i] = "unset"
          /\ Goto("wild_walk")
          /\ UNCHANGED <<objects, i>>
    /\ UNCHANGED <<kind, n_buckets, sentinel, result>>

FreeArrayAndHm ==
    /\ pc = "free_bucket"
    /\ i = n_buckets
    /\ objects' = objects \ {Array, Hm}
    /\ Goto("returned")
    /\ UNCHANGED <<kind, n_buckets, i, sentinel, result>>
-----------------------------------------------------------------------------
AllocNext ==
    \/ MallocHm \/ CallocArray \/ MallocList \/ MallocSlock \/ SetSentinel \/ Allocated
    \/ UserFrees \/ FreeBucket \/ FreeArrayAndHm

AllocSpec == AllocInit /\ [][AllocNext]_allocVars
-----------------------------------------------------------------------------
(* free_hashmap follows a sentinel that was never set in one case only:    *)
(* when the lock-based alloc_hashmap calls it because cspin_alloc has      *)
(* failed for the bucket.  After any other failure, and in the lock-free   *)
(* map always, it walks only lists the map has.                            *)
OnlyLockFailureGoesWild ==
    pc = "wild_walk" =>
        /\ kind = "lock"
        /\ result = "null"
        /\ List(i) \in objects /\ Lck(i) \notin objects

(* Whatever fails, nothing stays allocated once alloc_hashmap has returned *)
(* NULL or the map has been freed.                                         *)
NothingLeaks == pc = "returned" => objects = {}
=============================================================================
