---------------------------- MODULE MemorySafety ----------------------------
(***************************************************************************)
(* A program instrumented by the memory-safety pass of task07              *)
(* (MemorySafety.cpp) and the runtime it calls (MemorySafetyRuntime.cpp):  *)
(* the map of blocks, and what the checks make of it while heap and stack  *)
(* memory is used again and again.                                         *)
(***************************************************************************)
EXTENDS Naturals, Sequences, FiniteSetsExt

CONSTANTS Heap, Stack,   \* addresses, the stack's above the heap's
          Sizes,         \* sizes of objects and of accesses
          shadow,        \* red zone, 16 in the code
          MaxObjects,    \* bound: objects ever made
          MaxDepth       \* bound: calls inside each other

ASSUME AddressesAssumption ==
    /\ Heap \subseteq Nat /\ Stack \subseteq Nat /\ Sizes \subseteq Nat /\ shadow \in Nat
    /\ \A h \in Heap, s \in Stack : shadow <= h /\ h < s
    /\ \E top \in Stack : \A s \in Stack : s <= top

VARIABLES blocks,   \* the runtime's map, by starting address
          objs,     \* the objects in memory: [at, size, where, tracked]
          frames,   \* the stack pointers of the callers
          sp,       \* the stack pointer
          made,     \* objects made so far
          behind,   \* blocks freed without the runtime
          wrong,    \* addresses std::free got that were no block of the heap
          aborted
vars == <<blocks, objs, frames, sp, made, behind, wrong, aborted>>

Init ==
    /\ blocks = <<>> /\ objs = {} /\ frames = <<>> /\ sp = Max(Stack) + 1
    /\ made = 0 /\ behind = {} /\ wrong = {} /\ aborted = FALSE

-----------------------------------------------------------------------------
(* The pass.                                                                *)

(* Direct calls of malloc and free go to the runtime; calloc, realloc and   *)
(* indirect calls stay as they are.                                         *)
replaceMemoryCalls(callee, direct) == direct /\ callee \in {"malloc", "free"}

(* The size registered for an alloca of count elements is the type's.       *)
registerStackAllocations(bytes, count) == bytes

-----------------------------------------------------------------------------
(* The runtime.                                                             *)

RegisteredOnce(at, size) ==   \* mutant: insert instead of operator[]
    IF at \in DOMAIN blocks THEN blocks
    ELSE [b \in DOMAIN blocks \cup {at} |->
             IF b = at THEN [size |-> size, freed |-> FALSE] ELSE blocks[b]]
Registered(at, size) ==
    [b \in DOMAIN blocks \cup {at} |->
        IF b = at THEN [size |-> size, freed |-> FALSE] ELSE blocks[b]]

End(b) == b + blocks[b].size

(* __runtime_check_addr, as the condition under which it returns.           *)
upper_bound(addr) == {b \in DOMAIN blocks : b > addr}
AcceptsByStart(addr, size) ==   \* mutant: the end of the access is not looked at
    LET next == upper_bound(addr)
        before == DOMAIN blocks \ next
        prev == Max(before)
    IN  IF before # {} /\ addr < End(prev) + shadow
        THEN ~blocks[prev].freed /\ addr < End(prev)
        ELSE next # {} => addr < Min(next) - shadow
Accepts(addr, size) ==
    LET next == upper_bound(addr)
        before == DOMAIN blocks \ next
        prev == Max(before)
    IN  IF before # {} /\ addr < End(prev) + shadow
        THEN ~blocks[prev].freed /\ addr + size <= End(prev)
        ELSE next # {} => addr < Min(next) - shadow

report_error == aborted' = TRUE /\ UNCHANGED <<blocks, objs, frames, sp, made, behind, wrong>>

-----------------------------------------------------------------------------
(* The program.                                                             *)

Bytes(at, size) == at .. at + size - 1
Taken == UNION {Bytes(o.at - 1, o.size + 1) : o \in objs}   \* with its header

Make(at, size, where, tracked) ==
    /\ ~aborted /\ made < MaxObjects /\ made' = made + 1
    /\ objs' = objs \cup {[at |-> at, size |-> size, where |-> where, tracked |-> tracked]}
    /\ UNCHANGED <<frames, behind, wrong, aborted>>

(* A call of an allocating function.  Where std::malloc finds room is       *)
(* external; a header precedes every block.  If it finds none, nothing      *)
(* changes.                                                                 *)
Malloc(at, size, callee, direct) ==
    LET tracked == replaceMemoryCalls(callee, direct)
    IN  /\ Bytes(at - 1, size + 1) \subseteq Heap \ Taken
        /\ Make(at, size, "heap", tracked)
        /\ blocks' = IF tracked THEN Registered(at, size) ELSE blocks
        /\ UNCHANGED sp

(* __runtime_free and the std::free in it, which gives up on an address     *)
(* that is none of its blocks (external).                                   *)
OnHeap(at) == \E o \in objs : o.at = at /\ o.where = "heap"
Released(at) == objs' = {o \in objs : o.at # at \/ o.where # "heap"}
FreeKeepsEntry(at) ==   \* mutant: freed is not set
    /\ ~aborted
    /\ IF at \in DOMAIN blocks /\ ~blocks[at].freed
       THEN /\ Released(at)
            /\ wrong' = IF OnHeap(at) THEN wrong ELSE wrong \cup {at}
            /\ aborted' = ~OnHeap(at)
            /\ UNCHANGED <<blocks, frames, sp, made, behind>>
       ELSE report_error
RuntimeFree(at) ==
    /\ ~aborted
    /\ IF at \in DOMAIN blocks /\ ~blocks[at].freed
       THEN /\ blocks' = [blocks EXCEPT ![at].freed = TRUE]
            /\ Released(at)
            /\ wrong' = IF OnHeap(at) THEN wrong ELSE wrong \cup {at}
            /\ aborted' = ~OnHeap(at)
            /\ UNCHANGED <<frames, sp, made, behind>>
       ELSE report_error

(* free through a pointer to it: the program's own blocks only.             *)
Free(at, direct) ==
    IF replaceMemoryCalls("free", direct) THEN RuntimeFree(at)
    ELSE /\ ~aborted /\ OnHeap(at)
         /\ Released(at) /\ behind' = behind \cup {at}
         /\ UNCHANGED <<blocks, frames, sp, made, wrong, aborted>>

(* Entering and leaving a function; an alloca and its registration.  The    *)
(* gap is the compiler's (external).  Nothing is unregistered on return.    *)
Call ==
    /\ ~aborted /\ Len(frames) < MaxDepth
    /\ frames' = Append(frames, sp)
    /\ UNCHANGED <<blocks, objs, sp, made, behind, wrong, aborted>>

Alloca(bytes, count, gap) ==
    LET at == sp - bytes * count - gap
    IN  /\ frames # <<>> /\ Bytes(at, bytes * count + gap) \subseteq Stack
        /\ Make(at, bytes * count, "stack", count = 1)
        /\ sp' = at
        /\ blocks' = Registered(at, registerStackAllocations(bytes, count))

Return ==
    /\ ~aborted /\ frames # <<>>
    /\ sp' = frames[Len(frames)] /\ frames' = SubSeq(frames, 1, Len(frames) - 1)
    /\ objs' = {o \in objs : o.where = "heap" \/ o.at >= sp'}
    /\ UNCHANGED <<blocks, made, behind, wrong, aborted>>

(* A load or store, with the check in front of it.                          *)
checkMemoryAccesses(addr, size) ==
    ~aborted /\ ~Accepts(addr, size) /\ report_error

Next ==
    \/ \E at \in Heap, size \in Sizes, direct \in BOOLEAN :
          Malloc(at, size, "malloc", direct) \/ Malloc(at, size, "calloc", direct)
    \/ \E at \in Heap \cup Stack, direct \in BOOLEAN : Free(at, direct)
    \/ Call \/ Return
    \/ \E bytes \in Sizes, count \in {1, 2}, gap \in {0, 1} : Alloca(bytes, count, gap)
    \/ \E at \in Heap \cup Stack, size \in Sizes : checkMemoryAccesses(at, size)

Spec == Init /\ [][Next]_vars

-----------------------------------------------------------------------------
(* No entry of another block, stale ones included, begins inside.           *)
Clear(at, size) == \A b \in DOMAIN blocks : b \notin Bytes(at + 1, size - 1)

(* Correct accesses pass (MemorySafetyRuntime.cpp:47-57): an object the     *)
(* pass tracks is accessible in full, however often its memory was used     *)
(* before, unless an entry left behind begins inside it; and so is what is  *)
(* further from all blocks than the red zone.                               *)
NoFalseAlarm ==
    ~aborted =>
    /\ \A o \in objs : o.tracked /\ Clear(o.at, o.size) =>
          \A a \in Bytes(o.at, o.size), n \in Sizes \ {0} :
              a + n <= o.at + o.size => Accepts(a, n)
    /\ \A a \in Heap \cup Stack, n \in Sizes :
          (\A b \in DOMAIN blocks : a < b - shadow \/ a >= End(b) + shadow) => Accepts(a, n)

(* Wrong accesses are caught: to a freed block, across the end of a block,  *)
(* and into the red zones on both sides where no other block is, again      *)
(* unless a stale entry begins inside the block.                            *)
ErrorsCaught ==
    \A b \in DOMAIN blocks : Clear(b, blocks[b].size) =>
        \A a \in b - shadow .. End(b) + shadow - 1, n \in Sizes \ {0} :
            LET elsewhere == \E c \in DOMAIN blocks \ {b} :
                                ~blocks[c].freed /\ a \in Bytes(c, blocks[c].size)
                allowed == ~blocks[b].freed /\ a >= b /\ a + n <= End(b)
            IN  ~elsewhere /\ ~allowed => ~Accepts(a, n)

(* std::free (MemorySafetyRuntime.cpp:89) gets blocks of the heap that are  *)
(* in use, never one twice; what slips through is the address of a stack    *)
(* object, or a block that was freed without the runtime's knowledge.       *)
FreesBlocksInUse == wrong \subseteq Stack \cup behind
=============================================================================
