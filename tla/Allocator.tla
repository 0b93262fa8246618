------------------------------ MODULE Allocator ------------------------------
(***************************************************************************)
(* The heap allocator of task05-memory/src/allocator.c: arenas with one    *)
(* lock and one list of blocks each, first fit, splitting, coalescing, and *)
(* sbrk under a global mutex.                                              *)
(*                                                                         *)
(* The functions that run under an arena's lock are operators on a heap    *)
(* record; a step is what a thread does between two operations on locks or *)
(* on the atomic variables.  Payloads are not modelled: memset and memcpy  *)
(* stay within a block as long as the block is as large as was asked for.  *)
(***************************************************************************)
EXTENDS Integers, FiniteSets

CONSTANTS
    Threads,
    NUM_ARENAS,   \* number of arenas
    ALIGN,        \* alignment of sizes: 8 in the code
    HDR,          \* sizeof(BlockHeader), a multiple of ALIGN: 32
    RESERVE,      \* CONTENTION_RESERVE_SIZE
    SIZE_T,       \* number of values of size_t, a multiple of ALIGN: 2^64
    INT_MAX,      \* the largest int
    HeapStart,    \* the initial program break, aligned and not 0
    HeapEnd,      \* the break sbrk cannot go beyond
    Sizes,        \* sizes the program asks for
    Items,        \* numbers of items it passes to calloc
    MaxCalls      \* bound on the number of calls of a behaviour

ASSUME ArenasAssumption  == NUM_ARENAS \in Nat \ {0} /\ INT_MAX \in Nat
ASSUME AlignAssumption   == ALIGN \in Nat \ {0} /\ HDR % ALIGN = 0 /\ RESERVE % ALIGN = 0
ASSUME SizesAssumption   == /\ SIZE_T \in Nat /\ SIZE_T % ALIGN = 0
                            /\ HDR \in Nat \ {0} /\ RESERVE \in Nat
                            /\ Sizes \subseteq 0 .. SIZE_T - 1
                            /\ Items \subseteq 0 .. SIZE_T - 1
ASSUME HeapAssumption    == /\ HeapStart \in Nat \ {0} /\ HeapStart % ALIGN = 0
                            /\ HeapEnd \in HeapStart .. SIZE_T - 1
ASSUME CallsAssumption   == MaxCalls \in Nat
ASSUME ThreadsAssumption == IsFiniteSet(Threads) /\ "none" \notin Threads

VARIABLES
    heap,                 \* [blk, head, tail]: the block headers and the lists
    brk,                  \* the program break
    arena_lock,           \* who holds an arena's lock
    sbrk_mutex,           \* who holds the sbrk mutex
    next_arena_id,
    thread_arena_id,
    contention_detected,
    user,                 \* what the program has: size asked for, by block
    calls,                \* number of calls made so far
    pc,
    frame                 \* the locals of every thread's call

locks == <<arena_lock, sbrk_mutex>>
ids   == <<next_arena_id, thread_arena_id>>
vars  == <<heap, brk, locks, ids, contention_detected, user, calls, pc, frame>>

NULL   == 0
NONE   == "none"
Arenas == 0 .. NUM_ARENAS - 1

\* size_t and int arithmetic
Wrap(n)     == n % SIZE_T
ToSigned(n) == IF n < SIZE_T \div 2 THEN n ELSE n - SIZE_T
ALIGN8(n)   == (Wrap(n + ALIGN - 1) \div ALIGN) * ALIGN
IntRem(n, m) == IF n >= 0 THEN n % m ELSE -((-n) % m)
-----------------------------------------------------------------------------
(***************************************************************************)
(* The functions on the blocks of an arena.  A block is named by the       *)
(* address of its header.                                                  *)
(***************************************************************************)
Blocks(h) == DOMAIN h.blk
EndOf(h, b) == b + HDR + h.blk[b].size     \* get_payload(block) + block->size

first_hit(h, arena, size) ==
    LET From[b \in Blocks(h) \cup {NULL}] ==
          IF b = NULL \/ (h.blk[b].freed /\ h.blk[b].size >= size)
          THEN b ELSE From[h.blk[b].next]
    IN  From[h.head[arena]]

(* The tail of a list after its block last was given the successor next.   *)
TailForgotten(tail, last, next) == tail
NewTail(tail, last, next) == IF next = NULL THEN last ELSE tail

(* The remainder must hold a header and at least ALIGN payload bytes.      *)
WorthSplitting(h, b, size) == h.blk[b].size >= Wrap(size + HDR + ALIGN)

(* Split block b into an allocated prefix and a free remainder.            *)
split_block(h, b, size) ==
    IF ~WorthSplitting(h, b, size) THEN h
    ELSE LET old == h.blk[b]
             rem == b + HDR + size
         IN  [h EXCEPT
                !.blk = [x \in Blocks(h) \cup {rem} |->
                    CASE x = rem -> [arena |-> old.arena, freed |-> TRUE,
                                     size |-> old.size - size - HDR,
                                     prev |-> b, next |-> old.next]
                      [] x = b -> [old EXCEPT !.size = size, !.next = rem]
                      [] x = old.next -> [h.blk[x] EXCEPT !.prev = rem]
                      [] OTHER -> h.blk[x]],
                !.tail[old.arena] = NewTail(@, rem, old.next)]

FreeNeighbour(h, b, n) == n # NULL /\ h.blk[n].freed
Mergeable(h, b, n) == n # NULL /\ h.blk[n].freed /\ EndOf(h, b) = n

(* Merge block b with its successor if that is free and adjacent.          *)
coalesce_with_next(h, b) ==
    LET n == h.blk[b].next
    IN  IF ~Mergeable(h, b, n) THEN h
        ELSE LET nn == h.blk[n].next
             IN  [h EXCEPT
                    !.blk = [x \in Blocks(h) \ {n} |->
                        CASE x = b -> [h.blk[b] EXCEPT !.size = @ + HDR + h.blk[n].size,
                                                       !.next = nn]
                          [] x = nn -> [h.blk[x] EXCEPT !.prev = b]
                          [] OTHER -> h.blk[x]],
                    !.tail[h.blk[b].arena] = NewTail(@, b, nn)]

merge_blocks(h, b) ==
    LET h1 == coalesce_with_next(h, b)
        p  == h1.blk[b].prev
    IN  IF p # NULL /\ h1.blk[p].freed THEN coalesce_with_next(h1, p) ELSE h1

SetFreed(h, b, f) == [h EXCEPT !.blk[b].freed = f]

arena_free(h, b) == merge_blocks(SetFreed(h, b, TRUE), b)

(* The last part of extend_arena_heap: a new block of the given size at b. *)
AppendBlock(h, arena, b, size) ==
    LET t == h.tail[arena]
    IN  [h EXCEPT
           !.blk = [x \in Blocks(h) \cup {b} |->
               CASE x = b -> [arena |-> arena, freed |-> FALSE, size |-> size,
                              prev |-> t, next |-> NULL]
                 [] x = t /\ x # b -> [h.blk[x] EXCEPT !.next = b]
                 [] OTHER -> h.blk[x]],
           !.head[arena] = IF @ = NULL THEN b ELSE @,
           !.tail[arena] = b]
-----------------------------------------------------------------------------
NoFrame == [fn |-> "none", want |-> 0, size |-> 0, arena |-> 0,
            old |-> NULL, had |-> 0, new |-> NULL, reserve |-> 0]

Init ==
    /\ heap = [blk  |-> [b \in {} |-> NULL],
               head |-> [a \in Arenas |-> NULL],
               tail |-> [a \in Arenas |-> NULL]]
    /\ brk = HeapStart
    /\ arena_lock = [a \in Arenas |-> NONE]
    /\ sbrk_mutex = NONE
    /\ next_arena_id = 0
    /\ thread_arena_id = [t \in Threads |-> -1]
    /\ contention_detected = 0
    /\ user = [b \in {} |-> 0]
    /\ calls = 0
    /\ pc = [t \in Threads |-> "idle"]
    /\ frame = [t \in Threads |-> NoFrame]

Goto(t, at) == pc' = [pc EXCEPT ![t] = at]

Enter(t) ==
    /\ pc[t] = "idle"
    /\ calls < MaxCalls
    /\ calls' = calls + 1

(* What the program gives up, and what it has after a call.                *)
Without(u, b) == [x \in DOMAIN u \ {b} |-> u[x]]
With(u, b, n) == [x \in DOMAIN u \cup {b} |-> IF x = b THEN n ELSE u[x]]

(* get_thread_arena: the counter is an int that wraps around.              *)
Incremented(n) == IF n = INT_MAX THEN -INT_MAX - 1 ELSE n + 1
get_thread_arena(t, id) ==
    \/ /\ thread_arena_id[t] = -1
       /\ id = IntRem(next_arena_id, NUM_ARENAS)
       /\ next_arena_id' = Incremented(next_arena_id)
       /\ thread_arena_id' = [thread_arena_id EXCEPT ![t] = id]
    \/ /\ thread_arena_id[t] # -1
       /\ id = thread_arena_id[t]
       /\ UNCHANGED ids
-----------------------------------------------------------------------------
(***************************************************************************)
(* The entries of malloc, calloc, free and realloc, up to the arena's lock *)
(***************************************************************************)
MallocOf(t, want) ==
    /\ \/ ALIGN8(want) = 0 /\ UNCHANGED <<ids, pc, frame>>
       \/ /\ ALIGN8(want) # 0
          /\ \E id \in -NUM_ARENAS .. NUM_ARENAS :
                /\ get_thread_arena(t, id)
                /\ frame' = [frame EXCEPT ![t] = [NoFrame EXCEPT
                       !.fn = "malloc", !.want = want, !.size = ALIGN8(want), !.arena = id]]
          /\ Goto(t, "lock")
    /\ UNCHANGED user

Malloc(t, want) ==
    /\ Enter(t)
    /\ MallocOf(t, want)
    /\ UNCHANGED <<heap, brk, locks, contention_detected>>

Calloc(t, nitems, nsize) ==
    /\ Enter(t)
    /\ \/ /\ nitems # 0 /\ nsize > (SIZE_T - 1) \div nitems
          /\ UNCHANGED <<ids, pc, frame, user>>
       \/ /\ nitems = 0 \/ nsize <= (SIZE_T - 1) \div nitems
          /\ MallocOf(t, nitems * nsize)
    /\ UNCHANGED <<heap, brk, locks, contention_detected>>

(* free and realloc read the block's arena before they lock it.  The       *)
(* program does not use the block while the call is under way.             *)
FreeOf(t, b, givenUp) ==
    /\ user' = IF givenUp THEN Without(user, b) ELSE user
    /\ frame' = [frame EXCEPT ![t] = [NoFrame EXCEPT
           !.fn = "free", !.old = b, !.arena = heap.blk[b].arena]]
    /\ Goto(t, "lock")
    /\ UNCHANGED ids

Free(t, b) ==
    /\ Enter(t)
    /\ FreeOf(t, b, TRUE)
    /\ UNCHANGED <<heap, brk, locks, contention_detected>>

ReallocOf(t, b, want) ==
    /\ user' = Without(user, b)
    /\ frame' = [frame EXCEPT ![t] = [NoFrame EXCEPT
           !.fn = "realloc", !.want = want, !.size = ALIGN8(want),
           !.arena = heap.blk[b].arena, !.old = b, !.had = user[b]]]
    /\ Goto(t, "lock")
    /\ UNCHANGED ids

(* A size of 0 frees the block.  A size that ALIGN8 wraps to 0 does so     *)
(* too, but to the program the call that returns NULL has failed, and the  *)
(* block is still its own.                                                 *)
Realloc(t, b, want) ==
    /\ Enter(t)
    /\ \/ ALIGN8(want) # 0 /\ ReallocOf(t, b, want)
       \/ ALIGN8(want) = 0 /\ FreeOf(t, b, want = 0)
    /\ UNCHANGED <<heap, brk, locks, contention_detected>>
-----------------------------------------------------------------------------
(***************************************************************************)
(* Under the arena's lock                                                  *)
(***************************************************************************)
LockArena(t) ==
    LET a == frame[t].arena
    IN  /\ pc[t] = "lock"
        /\ arena_lock[a] = NONE
        /\ arena_lock' = [arena_lock EXCEPT ![a] = t]
        /\ Goto(t, frame[t].fn)
        /\ UNCHANGED <<heap, brk, sbrk_mutex, ids, contention_detected, user, calls, frame>>

ArenaFree(t) ==
    /\ pc[t] = "free"
    /\ heap' = arena_free(heap, frame[t].old)
    /\ Goto(t, "unlock")
    /\ UNCHANGED <<brk, locks, ids, contention_detected, user, calls, frame>>

(* arena_realloc: grow or shrink in place, or go on to a new block.        *)
ArenaRealloc(t) ==
    LET f  == frame[t]
        h1 == coalesce_with_next(heap, f.old)
    IN  /\ pc[t] = "realloc"
        /\ \/ /\ f.size <= h1.blk[f.old].size
              /\ heap' = split_block(h1, f.old, f.size)
              /\ frame' = [frame EXCEPT ![t].new = f.old]
              /\ Goto(t, "unlock")
           \/ /\ f.size > h1.blk[f.old].size
              /\ heap' = h1
              /\ Goto(t, "malloc")
              /\ UNCHANGED frame
        /\ UNCHANGED <<brk, locks, ids, contention_detected, user, calls>>

(* arena_malloc: take the first block that fits, or extend the heap.       *)
ArenaMalloc(t) ==
    LET f == frame[t]
        b == first_hit(heap, f.arena, f.size)
    IN  /\ pc[t] = "malloc"
        /\ \/ /\ b # NULL
              /\ heap' = SetFreed(split_block(heap, b, f.size), b, FALSE)
              /\ frame' = [frame EXCEPT ![t].new = b]
              /\ Goto(t, "allocated")
           \/ /\ b = NULL
              /\ Goto(t, "ext_check")
              /\ UNCHANGED <<heap, frame>>
        /\ UNCHANGED <<brk, locks, ids, contention_detected, user, calls>>
-----------------------------------------------------------------------------
(***************************************************************************)
(* extend_arena_heap                                                       *)
(***************************************************************************)
ExtCheck(t) ==
    /\ pc[t] = "ext_check"
    /\ Goto(t, IF contention_detected = 1 THEN "ext_lock" ELSE "ext_try")
    /\ UNCHANGED <<heap, brk, locks, ids, contention_detected, user, calls, frame>>

ExtTry(t) ==
    /\ pc[t] = "ext_try"
    /\ \/ sbrk_mutex = NONE /\ sbrk_mutex' = t /\ Goto(t, "sbrk") /\ UNCHANGED contention_detected
       \/ sbrk_mutex # NONE /\ contention_detected' = 1 /\ Goto(t, "ext_lock") /\ UNCHANGED sbrk_mutex
    /\ UNCHANGED <<heap, brk, arena_lock, ids, user, calls, frame>>

ExtLock(t) ==
    /\ pc[t] = "ext_lock"
    /\ sbrk_mutex = NONE
    /\ sbrk_mutex' = t
    /\ Goto(t, "sbrk")
    /\ UNCHANGED <<heap, brk, arena_lock, ids, contention_detected, user, calls, frame>>

(* sbrk takes an intptr_t and fails outside of HeapStart .. HeapEnd.       *)
Sbrk(t) ==
    LET reserve == contention_detected * RESERVE
        to      == brk + ToSigned(Wrap(HDR + frame[t].size + reserve))
    IN  /\ pc[t] = "sbrk"
        /\ \/ /\ to \in HeapStart .. HeapEnd
              /\ brk' = to
              /\ frame' = [frame EXCEPT ![t].new = brk, ![t].reserve = reserve]
              /\ Goto(t, "sbrk_append")
           \/ /\ to \notin HeapStart .. HeapEnd
              /\ Goto(t, "sbrk_failed")
              /\ UNCHANGED <<brk, frame>>
        /\ UNCHANGED <<heap, locks, ids, contention_detected, user, calls>>

(* As SbrkUnlock, but a failed sbrk returns without unlocking.             *)
SbrkUnlockIfExtended(t) ==
    /\ pc[t] \in {"sbrk_append", "sbrk_failed"}
    /\ sbrk_mutex' = IF pc[t] = "sbrk_append" THEN NONE ELSE sbrk_mutex
    /\ Goto(t, IF pc[t] = "sbrk_append" THEN "append" ELSE "allocated")
    /\ UNCHANGED <<heap, brk, arena_lock, ids, contention_detected, user, calls, frame>>

SbrkUnlock(t) ==
    /\ pc[t] \in {"sbrk_append", "sbrk_failed"}
    /\ sbrk_mutex' = NONE
    /\ Goto(t, IF pc[t] = "sbrk_append" THEN "append" ELSE "allocated")
    /\ UNCHANGED <<heap, brk, arena_lock, ids, contention_detected, user, calls, frame>>

Append(t) ==
    LET f  == frame[t]
        h1 == AppendBlock(heap, f.arena, f.new, Wrap(f.size + f.reserve))
    IN  /\ pc[t] = "append"
        /\ heap' = split_block(h1, f.new, f.size)
        /\ Goto(t, "allocated")
        /\ UNCHANGED <<brk, locks, ids, contention_detected, user, calls, frame>>
-----------------------------------------------------------------------------
(* As Allocated, but the old block is freed also if there is no new one.   *)
AllocatedFreesOld(t) ==
    LET f == frame[t]
    IN  /\ pc[t] = "allocated"
        /\ heap' = IF f.fn = "realloc" THEN arena_free(heap, f.old) ELSE heap
        /\ Goto(t, "unlock")
        /\ UNCHANGED <<brk, locks, ids, contention_detected, user, calls, frame>>

(* A realloc that got a new block copies the payload and frees the old.    *)
Allocated(t) ==
    LET f == frame[t]
    IN  /\ pc[t] = "allocated"
        /\ heap' = IF f.fn = "realloc" /\ f.new # NULL THEN arena_free(heap, f.old) ELSE heap
        /\ Goto(t, "unlock")
        /\ UNCHANGED <<brk, locks, ids, contention_detected, user, calls, frame>>

(* The call returns: the program has the new block, or still the old one   *)
(* if realloc failed.                                                      *)
UnlockArena(t) ==
    LET f == frame[t]
    IN  /\ pc[t] = "unlock"
        /\ arena_lock' = [arena_lock EXCEPT ![f.arena] = NONE]
        /\ user' = CASE f.new # NULL -> With(user, f.new, f.want)
                     [] f.new = NULL /\ f.fn = "realloc" -> With(user, f.old, f.had)
                     [] OTHER -> user
        /\ frame' = [frame EXCEPT ![t] = NoFrame]
        /\ Goto(t, "idle")
        /\ UNCHANGED <<heap, brk, sbrk_mutex, ids, contention_detected, calls>>

Finished ==
    /\ calls = MaxCalls
    /\ \A t \in Threads : pc[t] = "idle"
    /\ UNCHANGED vars
-----------------------------------------------------------------------------
CallAny(t) ==
    \/ \E n \in Sizes : Malloc(t, n)
    \/ \E n \in Sizes, k \in Items : Calloc(t, k, n)
    \/ \E b \in DOMAIN user : Free(t, b)
    \/ \E b \in DOMAIN user, n \in Sizes : Realloc(t, b, n)

Step(t) ==
    \/ LockArena(t) \/ ArenaFree(t) \/ ArenaRealloc(t) \/ ArenaMalloc(t)
    \/ ExtCheck(t) \/ ExtTry(t) \/ ExtLock(t) \/ Sbrk(t) \/ SbrkUnlock(t) \/ Append(t)
    \/ Allocated(t) \/ UnlockArena(t)

Next ==
    \/ \E t \in Threads : CallAny(t) \/ Step(t)
    \/ Finished

Spec == Init /\ [][Next]_vars
-----------------------------------------------------------------------------
(* Memory between the break it was obtained from and its list.             *)
Pending(t) == pc[t] \in {"sbrk_append", "append"}

Extent(b) == b .. EndOf(heap, b) - 1
PendingExtent(t) ==
    frame[t].new .. frame[t].new + HDR + frame[t].size + frame[t].reserve - 1

(* The blocks of all arenas tile the heap: they are aligned and none is    *)
(* empty, they do not overlap, none lies beyond the break, and no byte     *)
(* obtained from sbrk is lost by splitting, merging or reserving.          *)
BlocksTileHeap ==
    /\ \A b \in Blocks(heap) :
           b % ALIGN = 0 /\ heap.blk[b].size % ALIGN = 0 /\ heap.blk[b].size >= ALIGN
    /\ \A b, c \in Blocks(heap) : b # c => Extent(b) \cap Extent(c) = {}
    /\ (UNION {Extent(b) : b \in Blocks(heap)})
          \cup (UNION {PendingExtent(t) : t \in {u \in Threads : Pending(u)}})
         = HeapStart .. brk - 1

\* The blocks of an arena; the first and the last address of a set, or NULL.
BlocksOf(a) == {b \in Blocks(heap) : heap.blk[b].arena = a}
IsLeast(b, S)    == (b = NULL /\ S = {}) \/ (b \in S /\ \A c \in S : b <= c)
IsGreatest(b, S) == (b = NULL /\ S = {}) \/ (b \in S /\ \A c \in S : b >= c)

(* The list of an arena holds its blocks in the order of their addresses,  *)
(* from head to tail, prev and next agree, and two adjacent blocks are     *)
(* never both free: freeing merges with both neighbours, and no split      *)
(* leaves a remainder beside a free block.                                 *)
ListsInOrderAndCoalesced ==
    /\ \A a \in Arenas :
        LET B == BlocksOf(a)
        IN  /\ IsLeast(heap.head[a], B)
            /\ IsGreatest(heap.tail[a], B)
            /\ \A b \in B : /\ IsLeast(heap.blk[b].next, {c \in B : c > b})
                            /\ IsGreatest(heap.blk[b].prev, {c \in B : c < b})
    /\ \A b \in Blocks(heap) : heap.blk[b].freed =>
        LET n == heap.blk[b].next
        IN  n # NULL /\ EndOf(heap, b) = n => ~heap.blk[n].freed

(* The blocks a call under way is responsible for: the one it was given,   *)
(* until it has freed it, and the one it is going to return.               *)
Held(t) ==
    LET f == frame[t]
        holdsOld == f.old # NULL /\ (pc[t] # "unlock" \/ (f.fn = "realloc" /\ f.new = NULL))
        holdsNew == f.new # NULL /\ pc[t] \in {"allocated", "unlock"}
    IN  {b \in {f.old, f.new} : (b = f.old /\ holdsOld) \/ (b = f.new /\ holdsNew)}

(* Every block that is not free belongs either to the program or to one    *)
(* call under way: no block is handed out twice, and none is lost.  What   *)
(* the program was given stays allocated and is large enough, also when    *)
(* realloc returns NULL for the block.                                     *)
AllocatedBlocksHaveOneOwner ==
    /\ \A b \in DOMAIN user : b \in Blocks(heap) /\ heap.blk[b].size >= user[b]
    /\ {b \in Blocks(heap) : ~heap.blk[b].freed} = DOMAIN user \cup (UNION {Held(t) : t \in Threads})
    /\ \A t \in Threads : Held(t) \cap DOMAIN user = {}
    /\ \A t, u \in Threads : t # u => Held(t) \cap Held(u) = {}

(* Whoever holds a lock is inside the call that takes it: no way out of a  *)
(* call, a failed sbrk included, leaves a lock behind.  The sbrk mutex is  *)
(* taken only by a thread that holds an arena's lock, and no thread with   *)
(* the sbrk mutex waits for another lock, so nobody waits in a circle.     *)
LocksHeldInOrder ==
    /\ \A t \in Threads :
          (pc[t] \notin {"idle", "lock"}) <=> (\E a \in Arenas : arena_lock[a] = t)
    /\ \A t \in Threads :
          /\ pc[t] \notin {"idle", "lock"} => arena_lock[frame[t].arena] = t
          /\ (sbrk_mutex = t) <=> (pc[t] \in {"sbrk", "sbrk_append", "sbrk_failed"})
=============================================================================
