------------------------- MODULE SpinlockAllocProofs ------------------------
(***************************************************************************)
(* Mutual exclusion of the spinlock for any set of threads, and what       *)
(* alloc_hashmap and free_hashmap leave behind for any number of buckets.  *)
(*                                                                         *)
(* The invariant of the spinlock says that the flag is set while a thread  *)
(* holds the lock, so a test-and-set that finds the flag clear lets a      *)
(* thread into an empty critical section.                                  *)
(***************************************************************************)
EXTENDS Spinlock, HashmapAlloc, TLAPS

-----------------------------------------------------------------------------
(* The spinlock.                                                            *)

IInv == TypeOK /\ MutualExclusion

(* Nobody holds the lock at the beginning.                                  *)
LEMMA InitIInv == Init => IInv
BY DEF Init, IInv, TypeOK, MutualExclusion

(* A step of a thread that is not about to hold the lock, and that leaves  *)
(* the flag alone, disturbs nobody.                                        *)
LEMMA StaysOut ==
    ASSUME IInv, NEW t \in Threads, NEW r \in {0, 1}, Return(t, r, "outside"),
           UNCHANGED is_locked
    PROVE  IInv'
BY DEF IInv, TypeOK, MutualExclusion, Return

(* The flag was clear, hence nobody holds the lock but the thread that now *)
(* does.                                                                   *)
LEMMA Acquires ==
    ASSUME IInv, NEW t \in Threads, ~is_locked, is_locked' = TRUE, Return(t, 0, "holding")
    PROVE  IInv'
<1>1. \A u \in Threads : at[u] # "holding"
  BY DEF IInv, MutualExclusion
<1>2. TypeOK'
  BY DEF IInv, TypeOK, Return
<1>3. MutualExclusion'
  BY <1>1 DEF IInv, TypeOK, MutualExclusion, Return
<1> QED BY <1>2, <1>3 DEF IInv

(* A test-and-set succeeds only if the flag is clear.                       *)
LEMMA NextIInv == IInv /\ [Next]_vars => IInv'
<1> SUFFICES ASSUME IInv, [Next]_vars PROVE IInv'
  OBVIOUS
<1>1. ASSUME NEW t \in Threads, NEW fn \in {"locking", "trying"}, Call(t, fn) PROVE IInv'
  BY <1>1 DEF IInv, TypeOK, MutualExclusion, Call
<1>2. ASSUME NEW t \in Threads, NullLock(t) PROVE IInv'
  BY <1>2, StaysOut DEF NullLock
<1>3. ASSUME NEW t \in Threads, cspin_lock(t) PROVE IInv'
  <2>1. CASE ~is_locked
    BY <1>3, <2>1, Acquires DEF cspin_lock
  <2>2. CASE is_locked
    BY <1>3, <2>2 DEF cspin_lock, vars, IInv, TypeOK, MutualExclusion
  <2> QED BY <2>1, <2>2
<1>4. ASSUME NEW t \in Threads, cspin_trylock(t) PROVE IInv'
  <2>1. CASE ~is_locked
    BY <1>4, <2>1, Acquires DEF cspin_trylock
  <2>2. CASE is_locked
    <3>1. is_locked' = is_locked
      BY <1>4, <2>2 DEF cspin_trylock, IInv, TypeOK
    <3>2. Return(t, 1, "outside")
      BY <1>4, <2>2 DEF cspin_trylock
    <3> QED BY <3>1, <3>2, StaysOut
  <2> QED BY <2>1, <2>2
<1>5. ASSUME NEW t \in Threads, cspin_unlock(t) PROVE IInv'
  <2>1. \A u \in Threads \ {t} : at[u] # "holding"
    BY <1>5 DEF cspin_unlock, IInv, MutualExclusion
  <2> QED BY <1>5, <2>1 DEF cspin_unlock, Return, IInv, TypeOK, MutualExclusion
<1>6. CASE cspin_free
  BY <1>6 DEF cspin_free, IInv, TypeOK, MutualExclusion
<1>7. CASE UNCHANGED vars
  BY <1>7 DEF vars, IInv, TypeOK, MutualExclusion
<1> QED BY <1>1, <1>2, <1>3, <1>4, <1>5, <1>6, <1>7 DEF Next, Step

(* The types hold and at most one thread is in the critical section, for   *)
(* any number of threads that call cspin_lock, cspin_trylock and           *)
(* cspin_unlock.                                                           *)
THEOREM SpinlockInvariance == Spec => []IInv
<1> QED BY InitIInv, NextIInv, PTL DEF Spec

(* No two threads are between a successful cspin_lock or cspin_trylock and *)
(* their cspin_unlock.                                                     *)
THEOREM MutualExclusionHolds == Spec => []MutualExclusion
<1>1. IInv => MutualExclusion
  BY DEF IInv
<1> QED BY SpinlockInvariance, <1>1, PTL

-----------------------------------------------------------------------------
(* alloc_hashmap and free_hashmap, for any number of buckets.               *)

AllocTypes ==
    /\ kind \in {"lock", "lockfree"} /\ n_buckets \in Nat /\ i \in 0 .. n_buckets
    /\ sentinel \in [0 .. n_buckets -> {"none", "unset", "null"}]

(* The objects of the buckets lo to hi - 1, beside those of the map.        *)
MapObjects(lo, hi) == {Hm, Array} \cup {List(b) : b \in lo .. hi - 1} \cup {Lck(b) : b \in lo .. hi - 1}

(* What can be allocated where alloc_hashmap and free_hashmap are.          *)
Holding ==
    /\ pc = "malloc_hm" => objects = {}
    /\ pc = "calloc_array" => objects = {Hm}
    /\ pc = "malloc_list" => objects \subseteq MapObjects(0, i)
    /\ pc = "malloc_slock" => /\ kind = "lock" /\ i < n_buckets
                              /\ objects \subseteq MapObjects(0, i) \cup {List(i)} /\ List(i) \in objects
    /\ pc = "set_sentinel" => i < n_buckets /\ objects \subseteq MapObjects(0, i) \cup {List(i), Lck(i)}
    /\ pc = "in_use" => objects \subseteq MapObjects(0, n_buckets)
    /\ pc = "free_bucket" => objects \subseteq MapObjects(i, n_buckets)
    /\ pc = "returned" => objects = {}

(* A sentinel is not set in the bucket at work, or in the one for which     *)
(* cspin_alloc has failed.                                                  *)
Halted(b) == /\ kind = "lock" /\ result = "null"
             /\ pc # "returned" /\ b >= i => List(b) \in objects /\ Lck(b) \notin objects
Unset ==
    \A b \in 0 .. n_buckets : sentinel[b] = "unset" =>
        \/ pc \in {"malloc_slock", "set_sentinel"} /\ b = i
        \/ pc \in {"free_bucket", "wild_walk", "returned"} /\ Halted(b)
AtUnset == pc = "wild_walk" => sentinel[i] = "unset"

AllocInv == AllocTypes /\ Holding /\ Unset /\ AtUnset

(* The lock of the next bucket is not among the objects.                    *)
LEMMA NextLock ==
  ASSUME NEW n \in Nat
  PROVE  Lck(n) \notin MapObjects(0, n) /\ Lck(n) # List(n)
BY DEF MapObjects, List, Lck, Hm, Array

(* One bucket more, and one less.                                           *)
LEMMA ObjectsGrow ==
  ASSUME NEW lo \in Nat, NEW hi \in Nat, lo <= hi
  PROVE  /\ MapObjects(lo, hi) \cup {List(hi), Lck(hi)} = MapObjects(lo, hi + 1)
         /\ lo < hi => MapObjects(lo, hi) \ {List(lo), Lck(lo)} \subseteq MapObjects(lo + 1, hi)
         /\ MapObjects(lo, lo) = {Hm, Array}
<1>1. lo .. (hi + 1) - 1 = (lo .. hi - 1) \cup {hi}
  OBVIOUS
<1>2. MapObjects(lo, hi) \cup {List(hi), Lck(hi)} = MapObjects(lo, hi + 1)
  BY <1>1 DEF MapObjects
<1>3. lo < hi => lo .. hi - 1 = (lo + 1 .. hi - 1) \cup {lo}
  OBVIOUS
<1>4. lo < hi => MapObjects(lo, hi) \ {List(lo), Lck(lo)} \subseteq MapObjects(lo + 1, hi)
  BY <1>3 DEF MapObjects
<1>5. lo .. lo - 1 = {}
  OBVIOUS
<1> QED BY <1>2, <1>4, <1>5 DEF MapObjects

(* Every step keeps the invariant.                                          *)
LEMMA AllocStep ==
  ASSUME AllocInv, [AllocNext]_allocVars
  PROVE  AllocInv'
<1> USE DEF AllocTypes, Goto, GiveUp, FreeHashmapCalled
<1>1. AllocTypes /\ Holding /\ Unset /\ AtUnset
  BY DEF AllocInv
<1>2. CASE MallocHm
  <2>1. AllocTypes' /\ AtUnset'
    BY <1>1, <1>2 DEF MallocHm, AtUnset
  <2>2. Holding'
    BY <1>1, <1>2 DEF MallocHm, Holding
  <2>3. Unset'
    BY <1>1, <1>2 DEF MallocHm, Unset
  <2> QED BY <2>1, <2>2, <2>3 DEF AllocInv
<1>3. CASE CallocArray
  <2>1. AllocTypes' /\ AtUnset'
    BY <1>1, <1>3 DEF CallocArray, AtUnset
  <2>2. Holding'
    BY <1>1, <1>3 DEF CallocArray, Holding, MapObjects
  <2>3. Unset'
    BY <1>1, <1>3 DEF CallocArray, Unset
  <2> QED BY <2>1, <2>2, <2>3 DEF AllocInv
<1>4. CASE MallocList
  <2>1. AllocTypes' /\ AtUnset'
    BY <1>1, <1>4 DEF MallocList, AtUnset
  <2>2. objects \subseteq MapObjects(0, i)
    BY <1>1, <1>4 DEF MallocList, Holding
  <2>3. MapObjects(0, i) \subseteq MapObjects(0, n_buckets)
    BY <1>1 DEF MapObjects
  <2>4. Holding'
    BY <1>1, <1>4, <2>2, <2>3 DEF MallocList, Holding
  <2>5. Unset'
    BY <1>1, <1>4 DEF MallocList, Unset
  <2> QED BY <2>1, <2>4, <2>5 DEF AllocInv
<1>5. CASE MallocSlock
  <2>1. AllocTypes' /\ AtUnset'
    BY <1>1, <1>5 DEF MallocSlock, AtUnset
  <2>2. /\ kind = "lock" /\ i < n_buckets
        /\ objects \subseteq MapObjects(0, i) \cup {List(i)} /\ List(i) \in objects
    BY <1>1, <1>5 DEF MallocSlock, Holding
  <2>3. Lck(i) \notin objects
    <3>1. Lck(i) \notin MapObjects(0, i) /\ Lck(i) # List(i)
      BY <1>1, NextLock
    <3> QED BY <2>2, <3>1
  <2>4. MapObjects(0, i) \cup {List(i)} \subseteq MapObjects(0, n_buckets)
    BY <1>1, <2>2 DEF MapObjects
  <2>5. Holding'
    <3>1. CASE objects' = objects /\ pc' = "free_bucket" /\ i' = 0 /\ n_buckets' = n_buckets
      BY <3>1, <2>2, <2>4 DEF Holding
    <3>2. CASE pc' = "set_sentinel" /\ objects' = objects \cup {Lck(i)} /\ UNCHANGED <<i, n_buckets>>
      BY <3>2, <2>2 DEF Holding
    <3> QED BY <1>5, <3>1, <3>2 DEF MallocSlock
  <2>6. Unset'
    BY <1>1, <1>5, <2>2, <2>3 DEF MallocSlock, Unset, Halted
  <2> QED BY <2>1, <2>5, <2>6 DEF AllocInv
<1>6. CASE SetSentinel
  <2>1. i < n_buckets /\ objects \subseteq MapObjects(0, i) \cup {List(i), Lck(i)}
    BY <1>1, <1>6 DEF SetSentinel, Holding
  <2>2. AllocTypes' /\ AtUnset'
    BY <1>1, <1>6, <2>1 DEF SetSentinel, AtUnset
  <2>3. Holding'
    <3>1. objects' = objects /\ pc' = "malloc_list" /\ i' = i + 1
      BY <1>6 DEF SetSentinel
    <3>2. MapObjects(0, i) \cup {List(i), Lck(i)} = MapObjects(0, i + 1)
      BY <1>1, ObjectsGrow
    <3> QED BY <2>1, <3>1, <3>2 DEF Holding
  <2>4. Unset'
    BY <1>1, <1>6 DEF SetSentinel, Unset
  <2> QED BY <2>2, <2>3, <2>4 DEF AllocInv
<1>7. CASE Allocated
  <2>1. AllocTypes' /\ AtUnset' /\ Unset' /\ Holding'
    BY <1>1, <1>7 DEF Allocated, AtUnset, Unset, Holding
  <2> QED BY <2>1 DEF AllocInv
<1>8. CASE UserFrees
  <2>1. AllocTypes' /\ AtUnset' /\ Unset'
    BY <1>1, <1>8 DEF UserFrees, AtUnset, Unset
  <2>2. Holding'
    BY <1>1, <1>8 DEF UserFrees, Holding
  <2> QED BY <2>1, <2>2 DEF AllocInv
<1>9. CASE FreeBucket
  <2>1. AllocTypes' /\ AtUnset'
    BY <1>1, <1>9 DEF FreeBucket, AtUnset
  <2>2. objects \subseteq MapObjects(i, n_buckets) /\ i < n_buckets
    BY <1>1, <1>9 DEF FreeBucket, Holding
  <2>3. objects \ {List(i), Lck(i)} \subseteq MapObjects(i + 1, n_buckets)
    BY <1>1, <2>2, ObjectsGrow
  <2>4. Holding'
    BY <1>1, <1>9, <2>3 DEF FreeBucket, Holding
  <2>5. Unset'
    <3>1. \A b : b >= i + 1 => List(b) # List(i) /\ List(b) # Lck(i)
      BY <1>1 DEF List, Lck
    <3> QED BY <1>1, <1>9, <3>1 DEF FreeBucket, Unset, Halted
  <2> QED BY <2>1, <2>4, <2>5 DEF AllocInv
<1>10. CASE FreeArrayAndHm
  <2>1. AllocTypes' /\ AtUnset'
    BY <1>1, <1>10 DEF FreeArrayAndHm, AtUnset
  <2>2. objects \subseteq {Hm, Array}
    BY <1>1, <1>10, ObjectsGrow DEF FreeArrayAndHm, Holding
  <2>3. Holding'
    BY <1>1, <1>10, <2>2 DEF FreeArrayAndHm, Holding
  <2>4. Unset'
    BY <1>1, <1>10 DEF FreeArrayAndHm, Unset, Halted
  <2> QED BY <2>1, <2>3, <2>4 DEF AllocInv
<1>11. CASE UNCHANGED allocVars
  BY <1>1, <1>11 DEF allocVars, AllocInv, Holding, Unset, Halted, AtUnset
<1> QED BY <1>2, <1>3, <1>4, <1>5, <1>6, <1>7, <1>8, <1>9, <1>10, <1>11 DEF AllocNext

(* ... which holds at first.                                                *)
LEMMA AllocStart == AllocInit => AllocInv
BY KindAssumption, BucketsAssumption
   DEF AllocInit, AllocInv, AllocTypes, Holding, Unset, AtUnset

(* free_hashmap follows a sentinel that was never set only where            *)
(* cspin_alloc has failed for its bucket, for any number of buckets.        *)
THEOREM WildOnlyAfterLockFailure == AllocSpec => []OnlyLockFailureGoesWild
<1>1. AllocInv /\ [AllocNext]_allocVars => AllocInv'
  BY AllocStep
<1>2. AllocInv => OnlyLockFailureGoesWild
  BY DEF AllocInv, AllocTypes, AtUnset, Unset, Halted, OnlyLockFailureGoesWild
<1> QED BY AllocStart, <1>1, <1>2, PTL DEF AllocSpec

(* Whatever fails, nothing stays allocated.                                 *)
THEOREM FreedOrNeverAllocated == AllocSpec => []NothingLeaks
<1>1. AllocInv /\ [AllocNext]_allocVars => AllocInv'
  BY AllocStep
<1>2. AllocInv => NothingLeaks
  BY DEF AllocInv, Holding, NothingLeaks
<1> QED BY AllocStart, <1>1, <1>2, PTL DEF AllocSpec
=============================================================================
