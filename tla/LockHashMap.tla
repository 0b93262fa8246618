----------------------------- MODULE LockHashMap -----------------------------
(***************************************************************************)
(* The lock-based hashmap of task04-concurrency/src/lockhashmap.c: one     *)
(* singly linked list and one spinlock per bucket.  A removed node goes    *)
(* back to malloc after the bucket has been unlocked, so a node address    *)
(* can be in use again while other calls are still under way.              *)
(***************************************************************************)
EXTENDS Integers, FiniteSets

CONSTANTS
    Threads,     \* the threads that call the API
    Values,      \* the values they use (long)
    n_buckets,   \* number of buckets given to alloc_hashmap
    ULONG,       \* number of values of unsigned long
    Addrs,       \* the node addresses malloc can hand out
    MaxCalls     \* bound on the number of API calls of a behaviour

ASSUME BucketsAssumption == n_buckets \in Nat \ {0}
ASSUME UlongAssumption   == ULONG \in Nat \ {0}
ASSUME ValuesAssumption  == Values \subseteq Int /\ Values # {}
ASSUME AddrsAssumption   == Addrs \subseteq Nat \ {0} /\ IsFiniteSet(Addrs)
ASSUME CallsAssumption   == MaxCalls \in Nat

VARIABLES
    is_locked,   \* the flag of every bucket's spinlock
    sentinel,    \* head of every bucket list
    mem,         \* contents of the node addresses, also of those not in use
    allocated,   \* addresses handed out by malloc and not yet freed
    hm,          \* "live" until free_hashmap has run, then "freed"
    calls,       \* number of calls made so far
    pc,          \* where every thread is
    val,         \* the argument of its call
    bkt,         \* the bucket it works on
    node,        \* insert_item: the new node; remove_item: the unlinked one
    cur_ptr,     \* the node whose m_next is the current link of a walk, NULL
                 \* for the bucket's sentinel
    ret          \* the result of its call

local  == <<val, bkt, node, cur_ptr>>
shared == <<is_locked, sentinel, mem, allocated>>
vars   == <<shared, hm, calls, pc, local, ret>>

NULL    == 0
Buckets == 0 .. n_buckets - 1
Entry   == {"insert_malloc", "remove_lock", "lookup_lock"}
Critical == {"insert_link", "insert_publish", "remove_loop", "remove_unlink",
             "lookup_loop", "print_loop", "unlock", "unlock_free", "print_unlock"}
Waiting == {"insert_lock", "remove_lock", "lookup_lock", "print_lock"}
Locations == Entry \cup Waiting \cup Critical \cup {"idle", "remove_free", "return"}

AnyValue    == CHOOSE v \in Values : TRUE
BucketOf(v) == (v % ULONG) % n_buckets
-----------------------------------------------------------------------------
Init ==
    /\ is_locked = [b \in Buckets |-> FALSE]
    /\ sentinel = [b \in Buckets |-> NULL]
    /\ mem = [a \in Addrs |-> [m_val |-> AnyValue, m_next |-> NULL]]
    /\ allocated = {}
    /\ hm = "live"
    /\ calls = 0
    /\ pc = [t \in Threads |-> "idle"]
    /\ val = [t \in Threads |-> AnyValue]
    /\ bkt = [t \in Threads |-> 0]
    /\ node = [t \in Threads |-> NULL]
    /\ cur_ptr = [t \in Threads |-> NULL]
    /\ ret = [t \in Threads |-> 0]

Goto(t, at) == pc' = [pc EXCEPT ![t] = at]

Call(t, v, b, entry) ==
    /\ hm = "live"
    /\ calls < MaxCalls
    /\ pc[t] = "idle"
    /\ calls' = calls + 1
    /\ Goto(t, entry)
    /\ val' = [val EXCEPT ![t] = v]
    /\ bkt' = [bkt EXCEPT ![t] = b]
    /\ UNCHANGED <<shared, hm, node, cur_ptr, ret>>

CallItem(t)  == \E v \in Values, entry \in Entry : Call(t, v, BucketOf(v), entry)
CallPrint(t) == Call(t, AnyValue, 0, "print_lock")

(* The result of the call is settled; the thread goes on to at.            *)
Result(t, r, at) ==
    /\ ret' = [ret EXCEPT ![t] = r]
    /\ Goto(t, at)

(* The call returns and its locals go out of scope.                        *)
Return(t) ==
    /\ pc[t] = "return"
    /\ Goto(t, "idle")
    /\ val' = [val EXCEPT ![t] = AnyValue]
    /\ bkt' = [bkt EXCEPT ![t] = 0]
    /\ node' = [node EXCEPT ![t] = NULL]
    /\ cur_ptr' = [cur_ptr EXCEPT ![t] = NULL]
    /\ ret' = [ret EXCEPT ![t] = 0]
    /\ UNCHANGED <<shared, hm, calls>>

(* cspin_lock: spins while the flag is set, and starts at the sentinel.    *)
Lock(t, from, to) ==
    /\ pc[t] = from
    /\ ~is_locked[bkt[t]]
    /\ is_locked' = [is_locked EXCEPT ![bkt[t]] = TRUE]
    /\ cur_ptr' = [cur_ptr EXCEPT ![t] = NULL]
    /\ Goto(t, to)
    /\ UNCHANGED <<sentinel, mem, allocated, hm, calls, val, bkt, node, ret>>

(* cspin_unlock                                                            *)
Unlock(t, from, to) ==
    /\ pc[t] = from
    /\ is_locked' = [is_locked EXCEPT ![bkt[t]] = FALSE]
    /\ Goto(t, to)
    /\ UNCHANGED <<sentinel, mem, allocated, hm, calls, local, ret>>

(* The link a walk stands at, and its assignment.                          *)
Link(t) == IF cur_ptr[t] = NULL THEN sentinel[bkt[t]] ELSE mem[cur_ptr[t]].m_next
SetLink(t, a) ==
    \/ /\ cur_ptr[t] = NULL
       /\ sentinel' = [sentinel EXCEPT ![bkt[t]] = a]
       /\ UNCHANGED mem
    \/ /\ cur_ptr[t] # NULL
       /\ mem' = [mem EXCEPT ![cur_ptr[t]].m_next = a]
       /\ UNCHANGED sentinel
Advance(t) ==
    /\ cur_ptr' = [cur_ptr EXCEPT ![t] = Link(t)]
    /\ UNCHANGED <<shared, hm, calls, pc, val, bkt, node, ret>>
-----------------------------------------------------------------------------
(***************************************************************************)
(* insert_item                                                             *)
(***************************************************************************)
InsertMalloc(t) ==
    /\ pc[t] = "insert_malloc"
    /\ \E a \in Addrs \ allocated :
          /\ allocated' = allocated \cup {a}
          /\ mem' = [mem EXCEPT ![a].m_val = val[t]]
          /\ node' = [node EXCEPT ![t] = a]
    /\ Goto(t, "insert_lock")
    /\ UNCHANGED <<is_locked, sentinel, hm, calls, val, bkt, cur_ptr, ret>>

InsertNoMemory(t) ==
    /\ pc[t] = "insert_malloc"
    /\ Result(t, 1, "return")
    /\ UNCHANGED <<shared, hm, calls, local>>

InsertLink(t) ==
    /\ pc[t] = "insert_link"
    /\ mem' = [mem EXCEPT ![node[t]].m_next = sentinel[bkt[t]]]
    /\ Goto(t, "insert_publish")
    /\ UNCHANGED <<is_locked, sentinel, allocated, hm, calls, local, ret>>

InsertPublish(t) ==
    /\ pc[t] = "insert_publish"
    /\ sentinel' = [sentinel EXCEPT ![bkt[t]] = node[t]]
    /\ Result(t, 0, "unlock")
    /\ node' = [node EXCEPT ![t] = NULL]
    /\ UNCHANGED <<is_locked, mem, allocated, hm, calls, val, bkt, cur_ptr>>
-----------------------------------------------------------------------------
(***************************************************************************)
(* remove_item                                                             *)
(***************************************************************************)
(* As RemoveLoop, but the bucket is unlocked once the node is found.       *)
RemoveUnlocksEarly(t) ==
    /\ pc[t] = "remove_loop"
    /\ \/ /\ Link(t) = NULL
          /\ Result(t, 1, "unlock")
          /\ UNCHANGED <<shared, hm, calls, local>>
       \/ /\ Link(t) # NULL
          /\ mem[Link(t)].m_val = val[t]
          /\ node' = [node EXCEPT ![t] = Link(t)]
          /\ is_locked' = [is_locked EXCEPT ![bkt[t]] = FALSE]
          /\ Goto(t, "remove_unlink")
          /\ UNCHANGED <<sentinel, mem, allocated, hm, calls, val, bkt, cur_ptr, ret>>
       \/ /\ Link(t) # NULL
          /\ mem[Link(t)].m_val # val[t]
          /\ Advance(t)

RemoveLoop(t) ==
    /\ pc[t] = "remove_loop"
    /\ \/ /\ Link(t) = NULL
          /\ Result(t, 1, "unlock")
          /\ UNCHANGED <<shared, hm, calls, local>>
       \/ /\ Link(t) # NULL
          /\ mem[Link(t)].m_val = val[t]
          /\ node' = [node EXCEPT ![t] = Link(t)]
          /\ Goto(t, "remove_unlink")
          /\ UNCHANGED <<shared, hm, calls, val, bkt, cur_ptr, ret>>
       \/ /\ Link(t) # NULL
          /\ mem[Link(t)].m_val # val[t]
          /\ Advance(t)

(* As RemoveUnlink, but the link is not changed.                           *)
RemoveKeepsLink(t) ==
    /\ pc[t] = "remove_unlink"
    /\ Result(t, 0, "unlock_free")
    /\ UNCHANGED <<shared, hm, calls, local>>

RemoveUnlink(t) ==
    /\ pc[t] = "remove_unlink"
    /\ SetLink(t, mem[node[t]].m_next)
    /\ Result(t, 0, "unlock_free")
    /\ UNCHANGED <<is_locked, allocated, hm, calls, local>>

RemoveFree(t) ==
    /\ pc[t] = "remove_free"
    /\ allocated' = allocated \ {node[t]}
    /\ node' = [node EXCEPT ![t] = NULL]
    /\ Goto(t, "return")
    /\ UNCHANGED <<is_locked, sentinel, mem, hm, calls, val, bkt, cur_ptr, ret>>
-----------------------------------------------------------------------------
(***************************************************************************)
(* lookup_item and print_hashmap                                           *)
(***************************************************************************)
(* As LookupLoop, but only the first node is compared.                     *)
LookupHeadOnly(t) ==
    /\ pc[t] = "lookup_loop"
    /\ Result(t, IF Link(t) # NULL /\ mem[Link(t)].m_val = val[t] THEN 0 ELSE 1, "unlock")
    /\ UNCHANGED <<shared, hm, calls, local>>

(* As LookupLoop, but the walk does not advance.                           *)
LookupStays(t) ==
    /\ pc[t] = "lookup_loop"
    /\ \/ /\ Link(t) = NULL
          /\ Result(t, 1, "unlock")
       \/ /\ Link(t) # NULL
          /\ mem[Link(t)].m_val = val[t]
          /\ Result(t, 0, "unlock")
       \/ /\ Link(t) # NULL
          /\ mem[Link(t)].m_val # val[t]
          /\ UNCHANGED <<pc, ret>>
    /\ UNCHANGED <<shared, hm, calls, local>>

LookupLoop(t) ==
    /\ pc[t] = "lookup_loop"
    /\ \/ /\ Link(t) = NULL
          /\ Result(t, 1, "unlock")
          /\ UNCHANGED <<shared, hm, calls, local>>
       \/ /\ Link(t) # NULL
          /\ mem[Link(t)].m_val = val[t]
          /\ Result(t, 0, "unlock")
          /\ UNCHANGED <<shared, hm, calls, local>>
       \/ /\ Link(t) # NULL
          /\ mem[Link(t)].m_val # val[t]
          /\ Advance(t)

PrintLoop(t) ==
    /\ pc[t] = "print_loop"
    /\ \/ /\ Link(t) = NULL
          /\ Goto(t, "print_unlock")
          /\ UNCHANGED <<shared, hm, calls, local, ret>>
       \/ /\ Link(t) # NULL
          /\ Advance(t)

(* As PrintUnlock, but an empty bucket stays locked.                       *)
PrintKeepsLock(t) ==
    /\ pc[t] = "print_unlock"
    /\ is_locked' = [is_locked EXCEPT ![bkt[t]] = (sentinel[bkt[t]] = NULL)]
    /\ \/ /\ bkt[t] + 1 \in Buckets
          /\ bkt' = [bkt EXCEPT ![t] = @ + 1]
          /\ Goto(t, "print_lock")
       \/ /\ bkt[t] + 1 \notin Buckets
          /\ bkt' = [bkt EXCEPT ![t] = 0]
          /\ Goto(t, "idle")
    /\ cur_ptr' = [cur_ptr EXCEPT ![t] = NULL]
    /\ UNCHANGED <<sentinel, mem, allocated, hm, calls, val, node, ret>>

(* Unlock this bucket and go on with the next one, if there is one.        *)
PrintUnlock(t) ==
    /\ pc[t] = "print_unlock"
    /\ is_locked' = [is_locked EXCEPT ![bkt[t]] = FALSE]
    /\ \/ /\ bkt[t] + 1 \in Buckets
          /\ bkt' = [bkt EXCEPT ![t] = @ + 1]
          /\ Goto(t, "print_lock")
       \/ /\ bkt[t] + 1 \notin Buckets
          /\ bkt' = [bkt EXCEPT ![t] = 0]
          /\ Goto(t, "idle")
    /\ cur_ptr' = [cur_ptr EXCEPT ![t] = NULL]
    /\ UNCHANGED <<sentinel, mem, allocated, hm, calls, val, node, ret>>
-----------------------------------------------------------------------------
(***************************************************************************)
(* free_hashmap, to be called once all users have stopped.                 *)
(***************************************************************************)
HoldsWalks(S) ==
    /\ \A b \in Buckets : sentinel[b] # NULL => sentinel[b] \in S
    /\ \A a \in S : mem[a].m_next # NULL => mem[a].m_next \in S
Linked == {a \in Addrs : \A S \in SUBSET Addrs : HoldsWalks(S) => a \in S}

FreeHashmap ==
    /\ hm = "live"
    /\ \A t \in Threads : pc[t] = "idle"
    /\ hm' = "freed"
    /\ allocated' = allocated \ Linked
    /\ UNCHANGED <<is_locked, sentinel, mem, calls, pc, local, ret>>

Finished == hm = "freed" /\ UNCHANGED vars
-----------------------------------------------------------------------------
Step(t) ==
    \/ InsertMalloc(t) \/ InsertNoMemory(t)
    \/ Lock(t, "insert_lock", "insert_link") \/ InsertLink(t) \/ InsertPublish(t)
    \/ Lock(t, "remove_lock", "remove_loop") \/ RemoveLoop(t) \/ RemoveUnlink(t)
    \/ Unlock(t, "unlock_free", "remove_free") \/ RemoveFree(t)
    \/ Lock(t, "lookup_lock", "lookup_loop") \/ LookupLoop(t)
    \/ Lock(t, "print_lock", "print_loop") \/ PrintLoop(t) \/ PrintUnlock(t)
    \/ Unlock(t, "unlock", "return") \/ Return(t)

Next ==
    \/ \E t \in Threads : CallItem(t) \/ CallPrint(t) \/ Step(t)
    \/ FreeHashmap
    \/ Finished

Spec == Init /\ [][Next]_vars

(* A thread that is inside a call keeps running.                           *)
FairSpec == Spec /\ \A t \in Threads : WF_vars(Step(t))
-----------------------------------------------------------------------------
(* Every pointer of a list or of a thread is NULL or a node address, and   *)
(* every result is 0 or 1.                                                 *)
TypeOK ==
    /\ is_locked \in [Buckets -> BOOLEAN]
    /\ sentinel \in [Buckets -> Addrs \cup {NULL}]
    /\ mem \in [Addrs -> [m_val : Values, m_next : Addrs \cup {NULL}]]
    /\ allocated \subseteq Addrs
    /\ hm \in {"live", "freed"}
    /\ calls \in 0 .. MaxCalls
    /\ pc \in [Threads -> Locations]
    /\ val \in [Threads -> Values]
    /\ bkt \in [Threads -> Buckets]
    /\ node \in [Threads -> Addrs \cup {NULL}]
    /\ cur_ptr \in [Threads -> Addrs \cup {NULL}]
    /\ ret \in [Threads -> {0, 1}]

(* A thread has a node of its own from malloc until it is published, and   *)
(* from unlinking it until free.                                           *)
Owns(t) == pc[t] \in {"insert_lock", "insert_link", "insert_publish",
                      "unlock_free", "remove_free"}

(* While the map is in use every node obtained from malloc is either in a  *)
(* list or owned by exactly one thread, and nothing else is in a list: no  *)
(* node is leaked, freed twice or freed while it can still be reached.     *)
(* free_hashmap leaves none behind.                                        *)
EveryNodeHasOneOwner ==
    /\ hm = "freed" => allocated = {}
    /\ hm = "live" =>
        /\ allocated = Linked \cup {node[t] : t \in {u \in Threads : Owns(u)}}
        /\ \A t \in Threads : Owns(t) =>
              /\ node[t] \notin Linked
              /\ \A u \in Threads \ {t} : Owns(u) => node[u] # node[t]

(* A walk stands on a node that is still in a list, although other threads *)
(* unlink and free nodes of their buckets at the same time.                *)
WalksStayOnList ==
    \A t \in Threads : pc[t] \in {"remove_loop", "remove_unlink", "lookup_loop", "print_loop"} =>
        /\ cur_ptr[t] # NULL => cur_ptr[t] \in Linked
        /\ pc[t] = "remove_unlink" => node[t] = Link(t)

(* Every call returns, provided that the calls are finitely many: no path  *)
(* out of a function leaves the bucket locked.                             *)
EveryCallReturns == \A t \in Threads : pc[t] # "idle" ~> pc[t] = "idle"
-----------------------------------------------------------------------------
(***************************************************************************)
(* The map implements the bag of chashmap.h: an insertion takes effect     *)
(* when the sentinel is assigned, a removal when the link is, and the      *)
(* other calls when their walk ends.                                       *)
(***************************************************************************)
OpAt(l) ==
    CASE l \in {"insert_malloc", "insert_lock", "insert_link", "insert_publish"} -> "insert"
      [] l \in {"remove_lock", "remove_loop", "remove_unlink"} -> "remove"
      [] l \in {"lookup_lock", "lookup_loop"} -> "lookup"
      [] l \in {"idle", "print_lock", "print_loop", "print_unlock"} -> "none"
      [] OTHER -> "done"

MapCall(t) ==
    CASE OpAt(pc[t]) = "none" -> <<"idle">>
      [] OpAt(pc[t]) = "done" -> <<"done", ret[t]>>
      [] OTHER -> <<"pending", OpAt(pc[t]), val[t]>>

Map == INSTANCE HashBag WITH
    bag  <- [v \in Values |-> Cardinality({a \in Linked : mem[a].m_val = v})],
    call <- [t \in Threads |-> MapCall(t)]

(* Every behaviour of the lock-based hashmap is one of the atomic bag.     *)
ImplementsBag == Map!Spec

(***************************************************************************)
(* Every bucket's lock is used as the clients of Spinlock use theirs.      *)
(***************************************************************************)
AtLock(t, b) ==
    CASE bkt[t] = b /\ pc[t] \in Waiting -> "locking"
      [] bkt[t] = b /\ pc[t] \in Critical -> "holding"
      [] OTHER -> "outside"

BucketLock(b) == INSTANCE Spinlock WITH
    slock     <- hm,
    is_locked <- is_locked[b],
    at        <- [t \in Threads |-> AtLock(t, b)],
    ret       <- [t \in Threads |-> 0]

(* A bucket is unlocked only by the call that has locked it, exactly once, *)
(* and no call locks a bucket that it holds.                               *)
LocksUsedAsSpecified ==
    /\ \A b \in Buckets : BucketLock(b)!Init
    /\ [][\A b \in Buckets : BucketLock(b)!Next \/ UNCHANGED BucketLock(b)!vars]_vars
=============================================================================
