# A verification project for systems-programming-labs

The repository is a set of eight independent lab programs in C and C++. This
directory holds TLA+ modules for all of them but two files of single system
calls, the TLC configurations that check them on small instances, and TLAPS proofs
of what matters most for every size. `PROJECT.json` relates each definition to the source lines it models and
lists the runs, the mutants, the hazards and the theorems.

To repeat the checks: `tlc -config X.cfg M` for a row of the table of runs,
`tlapm M.tla` for `LockFreeHashMapProofs`, `LockHashMapProofs`, `SpinlockAllocProofs`,
`AllocatorProofs` (the longest, some six minutes), `CounterServerProofs`,
`FramingProofs`, `ShellProofs` and `MemorySafetyProofs`.

## 1. Inventory

| Part | State it keeps | Operations | What is hard |
|---|---|---|---|
| Lock-free hashmap, `task04-concurrency/src/lockfreehashmap.c` | an atomic head per bucket; nodes with a value, an atomic link and an atomic deletion mark | `alloc_hashmap`, `insert_item`, `remove_item`, `lookup_item`, `print_hashmap`, `free_hashmap` | every access to shared memory interleaves; unlinks with a stale successor; walks over unlinked nodes; CAS retries |
| Lock-based hashmap, `lockhashmap.c` | a spinlock and a list per bucket; nodes from `malloc`, freed and reused | the same | the node is freed after the unlock; early returns must unlock; failures half-way through construction |
| Spinlock, `cspinlock.c` | one `atomic_flag` | `cspin_alloc`, `cspin_lock`, `cspin_trylock`, `cspin_unlock`, `cspin_free` | mutual exclusion between the two ways in; progress of spinners; `NULL` locks |
| Heap allocator, `task05-memory/src/allocator.c` | per arena a lock and a list of blocks; a global sbrk mutex; a contention flag; a thread-local arena id | `malloc`, `calloc`, `free`, `realloc` | two levels of locks; arenas that interleave in memory; split and merge; contention reserve; `size_t` arithmetic |
| Counter server and clients, `task06-sockets/src/{server,client}.cpp` | a shared counter; per worker a mutex, pending and active connections | accept and hand over, poll, receive, handle, answer, close | hand-over between threads; an array edited while it is traversed; a client that dies; everyone is answered |
| Message framing, `task06-sockets/src/utils.cpp` | the position in a byte stream | `send_msg`, `recv_msg` | TCP cuts anywhere; the peer closes in the middle |
| Shell, `task03-processes/src/{main,execute}.c` | the last status, pipe ends; the kernel's processes and pipes | pipelines, `exit`, `wait`, `kill` | copies of pipe ends made by `fork`; processes that end in any order; failures of `pipe2`, `fork` and of children |
| Shell parser, `task03-processes/parser/` | the list of commands, each with its argument vector and files; builtin and argument | the grammar's actions | growth of the argument vector; syntax errors, after which `main` goes on as if there were none |
| In-memory file system, `task02-fileio/src/` | a tree of inodes; a log file; the static pointer of `strtok` | the FUSE handlers, `append_log`, `load_log` | crash between change and log; replay; threads of libfuse without locks; failures of `malloc` and `fopen` |
| System call tracer, `task01-syscalls/src/syscall_tracer.c` | the pairing of entry and exit stops, the last registers and status | the `ptrace` loop | signals and deaths of the tracee; a failing `exec` |
| System call wrappers, `syscall_wrapper.c`, `syscall_asm.c` | none | single calls | nothing |
| Memory-safety pass and runtime, `task07-llvm/memory-safety/` | a map of blocks, freed ones included | register, release, check | memory that is used again; calls and objects the pass does not see |
| Dead-code elimination, `task07-llvm/dead-code-elimination/` | LLVM IR | rounds of the pass | what is dead across blocks, loops and rounds |
| External sort, `task00-sort/src/sort.cpp` | lines in memory, runs in temporary files, a priority queue | read, cut, merge | where the limit cuts; equal lines; files that run dry |

The parts interact only inside their lab: the lock-based map calls the spinlock;
both maps promise the same header `include/chashmap.h`; client and server use
`send_msg` and `recv_msg`; the shell talks to the processes it starts through
pipes, signals and `waitpid`.

What makes each part correct:

- **Hashmaps**: every call looks atomic, as a bag of values; no live node
  becomes unreachable; one occurrence is removed by one call; memory is owned by
  exactly one party; every call returns.
- **Spinlock**: mutual exclusion; the lock is never lost.
- **Allocator**: blocks tile the heap; a block has one owner and is as large as
  was asked for; lists are consistent; free neighbours are merged; no lock is
  left behind.
- **Server**: a connection is in exactly one place; the counter is the sum of
  what was handled; every client is answered with a value that includes its own
  operations.
- **Framing**: messages arrive whole, in order, however they are cut.
- **Shell**: data goes through a pipeline in order and completely; every process
  ends; the prompt returns; a status of 0 means what it says.
- **Parser**: a line without an error is run as it is written.
- **File system**: what was answered is there after a crash; the log describes the
  tree; no access leaves the file.
- **Tracer**: a line for each call, with its own result; it returns when the process
  exits.
- **Memory safety**: no false alarm, no error missed, no wrong `free`, as far as the
  map allows.
- **Dead code**: no use sees another value. **Sort**: the output is the input, sorted.

## 2. Modules

| Module | Models | State and actions |
|---|---|---|
| `LockFreeHashMap` | `lockfreehashmap.c` | `heap` is the sequence of published nodes, in the order of publication, `sentinel` the bucket heads; per thread the locals of the call. One action per load, store or CAS. A node's fields are written before its CAS publishes it, so publication is one step (`InsertPublish`). A CAS that fails is an action of its own (`InsertRetry`, `RemoveUnlinkFails`). Nodes are never freed before `free_hashmap`, so their index is their address. |
| `ChashmapContract`, `HashBag` | `include/chashmap.h` | the abstract map: a bag of values, calls that are invoked, take effect at one instant, and return. |
| `LockFreeHashMapLin` | linearizability of the above | a history variable `witness`: all abstract states that a linearization of the history can be in. Needed because a removal has no fixed linearization point: the mark of an old node may have to be ordered before the insertion of a newer node with the same value that happened earlier. |
| `LockHashMap` | `lockhashmap.c` | `mem` and `allocated` are the heap with reuse of addresses; one action per step that matters to another thread: lock, each iteration of a walk, unlink, unlock, free. `Map` is the refinement mapping to `HashBag`, `BucketLock(b)` the one to `Spinlock`. |
| `Spinlock` | `cspinlock.c` | the flag and clients that use the lock by its protocol; `NULL` locks. |
| `HashmapAlloc` | `alloc_hashmap`, `free_hashmap` of both maps | each allocation is a step that may fail; which objects are allocated, which sentinels are set. |
| `Allocator` | `allocator.c` | the functions that run under an arena's lock (`first_hit`, `split_block`, `coalesce_with_next`, `merge_blocks`, ...) are operators on a heap record; a step is what a thread does between two operations on locks or atomics. `user` is what the program owns, a history of the calls' results. |
| `CounterServer` | `server.cpp`, `client.cpp`, and `send_msg`/`recv_msg` in two pieces | main, workers and clients as processes; copy and clear of the pending list are two steps under the worker's mutex; `poll` fills `revents`; `Close` swaps the last entry into the gap. The kernel's part (`Gone`, `Readable`, `SigPipe`, `Crash`) is external. |
| `Framing` | `utils.cpp` | byte positions instead of bytes: `wr` sent, `rd` received. How many bytes a `recv` returns is free. A length of which a part was received is any number, as the rest of the variable was never set. |
| `Shell` | `main.c`, `execute.c` | the shell's steps; processes with their open ends; pipes as bounded counters. Programs are arbitrary filters. |
| `ShellParser` | `parse.y`, `scan.l`, the loop in `main.c` | the state of the parser between two tokens as a place in the grammar and what the actions have built; a syntax error hands `main` what there is. |
| `MemFS` | `memfs.c`, `inode.c`, `log.c` | the tree as a function from paths to inodes, the log as a sequence of records; a handler is a walk of one step per `strtok`, its checks and its change, the appending of the record, and the reply. A read looks at the size in three steps (53, 57, 58) before it copies; a write that grows is `realloc`, assignment of data and size, and `memcpy`. New bytes of `realloc` have any value of `Fills`. `Restart` is a kill and a start that finds the log or not; `load_log` is one turn of its loop, which may find no memory; `Scanned` is what `sscanf` makes of a record. Names are sequences of words, since a blank in a name is what replay trips over, and some words are numbers. |
| `Tracer` | `syscall_tracer.c` | one step per `ptrace` and `waitpid`; the traced process runs from stop to stop (external). |
| `MemorySafety` | `MemorySafety.cpp`, `MemorySafetyRuntime.cpp` | the runtime's map beside the objects that are really there; a program that allocates, frees, calls, returns and accesses anything. The pass appears as the decisions it makes: what is instrumented, with which size. |
| `ExternalSort` | `sort.cpp` | lines in memory, files and the queue; one step per line read, run written, line put out. |
| `DeadCode` | `DeadCodeElimination.cpp` | functions of two blocks over stack slots; a step is a round of the pass, and `Seen` executes a function to compare what its uses see. |
| `MCSequential` | the sequential programs | one run for `ExternalSort`, `ShellParser`, `DeadCode` and `HashmapAlloc`: a behaviour is a behaviour of one of them. |
| `*Proofs` | | the theorems about the module of that name, with the lemmas and the inductive invariants they need: section 5. |
| `MC*` | | small values for the constants, symmetry. |

`HashBag` is implemented by `LockHashMap` (`ImplementsBag`); `LockHashMap`
composes with `Spinlock` (`LocksUsedAsSpecified`: each bucket's lock goes through
steps of `Spinlock!Next` only, so the theorem on mutual exclusion applies to it).
Both are proved as well as checked.

Memory is sequentially consistent in all modules. `lockfreehashmap.c`, `cspinlock.c`
and `allocator.c:59` name orders weaker than the default for their atomics (acquire,
release, relaxed). In the lock-free map every store to a published location is a
locked read-modify-write on the repository's target, Linux x86-64, so accesses are
interleaved there. What the spinlock protects lies between an acquire and a release of
its one flag, and of the arena counter only its own value is used. Elsewhere shared
data is under locks or, in `server.cpp:12` and `allocator.c:54`, an atomic of the
default order.
`MemFS` has no synchronization at all; its races are steps of their own.

A definition that stands before X, has its parameters and is used by no other
definition ("As X, but ...", or a comment that begins with "mutant") is a plausible
mistake in X, kept to show that the properties notice it.

## 3. Runs

| Run | Module, cfg | Checks | Bounds and why they are enough |
|---|---|---|---|
| `lockfree` | MCLockFree | WalksAreSafe, NoLiveNodeSkipped, OneRemoverPerNode, NodesOnlyAge, Linearizable, EveryCallReturns | 3 threads, 5 calls; values 0 and -1 share a bucket of three, the first 2 calls are about either (`MixedCalls`), the others about 0: two removers on adjacent nodes and an inserter meet, and equal values overtake a walk, the smallest case in which linearization is hard. The proofs of section 5 lift the bounds of the first four. |
| `spinlock` | Spinlock | MutualExclusion, SpinningMakesProgress | 3 threads: one holds, one spins, one tries. |
| `lockmap` | MCLockHashMap | EveryNodeHasOneOwner, WalksStayOnList, ImplementsBag, LocksUsedAsSpecified, EveryCallReturns | 2 threads, 4 calls, 3 addresses, 2 buckets: fewer addresses than calls, so an address is freed and handed out again; two values collide. |
| `allocator` | MCAllocator | BlocksTileHeap, ListsInOrderAndCoalesced, AllocatedBlocksHaveOneOwner, LocksHeldInOrder | 2 threads, 2 arenas, 5 calls, a heap of 28 bytes: it runs out, arenas alternate in memory, sizes 0, 2, 5 split, merge and move; calloc overflows with 52 items of 5. Alignment 2 instead of 8. |
| `server` | CounterServer | ServedByOne, NoRecvOnIdleClient, CounterIsSum, AnswersAddUp, EveryClientAnswered | 2 clients with 2 messages each (ADD and SUB) on 1 or 2 workers: with one worker it has both connections and swaps; one client may die at any point; a counter of 16 values that wraps. |
| `framing` | MCFraming, Framing.cfg | MessagesIntact, EveryMessageArrives | lengths of 2 bytes, payloads of 2, 1 and 3 bytes: every cut of a length and of a payload. |
| `shell` | MCShell, Shell.cfg | SuccessMeansOver, OutputIsComplete, EverythingEnds | 2 lines of up to 3 commands (4 processes), so that a middle stage has two pipes and inherits copies of a third end and one line's processes meet the next line's; redirections, background, builtins, 1 failure of pipe2 or fork; pipes of one item, two items: writers block. |
| `shell_foreground` | MCShell, ShellForeground.cfg | ForegroundWaitsForAll, **violated** | see section 4. |
| `memfs` | MCMemFS, MemFS.cfg | AnsweredChangesSurvive, LogMirrorsTree, ReadsStayInFile | 2 threads, 4 requests, 2 restarts, 1 failure; a path that is a directory, a file or a link, one below it, two beside it, and names with a blank before a number and before another word; directories of 2 children. The set of requests depends on how many came before (`First` to `Fourth`), since an object is made before it is used; `readlink` and `readdir` stand for the handlers that only answer. Creation, growth with and without a gap, replay, a replay that fails followed by one that does not, and a directory that is full all happen, with changes on either side of the crashes, and a read meets the growth of its file between any two of its steps. A state in which a walk was led astray is not continued (`OnItsWay`). |
| `tracer` | Tracer | LinesMatchCalls, TracerReturns | 4 calls and 2 signals: a printed call between other ones, a signal before, in and after it; a program that faults. |
| `memsafety` | MemorySafety | NoFalseAlarm, ErrorsCaught, FreesBlocksInUse | 3 objects in 6 heap and 4 stack addresses, so that memory is used again at the same and at other places; sizes 1 to 3, red zone 2; calls 2 deep. |
| `sequential` | MCSequential | SortsItsInput, ParsedAsWritten, SameValuesSeen, OnlyLockFailureGoesWild, NothingLeaks | sort: 4 lines with a limit that cuts after 1 to 4 of them, both orders; parser: 6 tokens, vectors of 1 that double; pass: blocks of 1 and 3 accesses to 2 slots, 0 to 2 trips; maps: 0 to 6 buckets, every allocation may fail. |

**Fairness.** Threads inside a call, workers, clients, the shell and its
processes, the tracer and its tracee are scheduled (weak fairness of their steps). Nobody has to make a
call, type a line, fail, crash or close. `CounterServer` assumes strong fairness
of the main thread: it waits for a worker's mutex that the worker takes again
and again, and the worker leaves it free for the whole of its `poll` (up to
100 ms) and of its service, so main gets it. The spinlock gets no more than
progress of some thread: the flag is not fair. The hashmaps' `EveryCallReturns`
holds because a behaviour has finitely many calls (`MaxCalls`).

**Deadlock** is checked where waiting for each other is possible: in the runs of
the maps, the spinlock, the allocator, the server and the shell. It is not in
`framing` (the receiver waits for a further message after the last one), `memfs`
(handlers do not wait; the run ends with its requests), `tracer` (it ends), `memsafety`
(an aborted program) and `sequential` (programs end). A finished run ends in an explicit
stuttering step.

**Symmetry** of threads or clients is used in runs of safety properties only.

**Mutants.** Each property of each passing run has one: a definition changed the
way a mistake in the code would change it, under which TLC finds the property
violated.

## 4. Departures of the code from its documentation

One is shown by a run:

- `shell_foreground`: the loop in `execute.c:101-110` returns at the first process
  that failed and does not wait for the others; `execute.c:100` says "wait until all
  child processes terminate" and `task03-processes/README.md:153` "Foreground
  pipelines block until all child processes terminate."

These were met while modelling. The models contain the behaviour, the properties
state what holds beside it, and no run is made of them:

- `lockfreehashmap.c:60`: a node that `remove_item` has unlinked (line 110) is on no
  list, and `free_hashmap` does not free it; line 51 says "Free all nodes and buckets
  associated with the hashmap."
- `lockhashmap.c:46-51`: when `cspin_alloc` fails, `free_hashmap` is called before
  the sentinel of that bucket is set, and walks it. `OnlyLockFailureGoesWild`
  shows that this is the only such case.
- `allocator.c:257`: sizes within 7 of `SIZE_MAX` wrap to 0 in `ALIGN8`, so
  such a `realloc` frees the block while it returns NULL.
- `allocator.c:145`: header, size and reserve can add up to a negative `intptr_t`.
- `allocator.c:59` and `server.cpp:105`: the `int`s behind the round-robin wrap
  after 2^31 threads or connections, and the remainder is then negative.
- `utils.cpp:115`: `send` can raise SIGPIPE when a client is gone, which ends the
  server; `task06-sockets/README.md:114` says "The server continues running until it is
  terminated externally." The model has the step `SigPipe`.
- `utils.cpp:76`: the length is read by one `recv`, which may return a part of it.
  `MessagesIntact` holds as long as that has not happened (`cut`).
- `execute.c:36-43`: if `pipe2` or `fork` fails after earlier stages were started,
  the pipes stay open in the shell, and its processes may wait for ever;
  `EverythingEnds` excepts this case.
- `execute.c:23`: arrays for 1024 commands, and no test.
- `parse.y:121`: when the arguments fill the array, the terminating `NULL` is written
  one past its end; `ParsedAsWritten` bounds the arguments.
- `main.c:73`: the result of `yyparse` is not looked at, so after a syntax error the
  part parsed so far is run and the rest of the line is read as another line. `exit`,
  `wait` and `kill` as arguments are syntax errors (`scan.l:22-24`).
- `inode.c:43`: `strtok` has one position for all threads of libfuse; a walk that is
  interleaved with another goes on in the other's path (variable `astray`).
- `memfs.c:78`: a write that grows a file may move the buffer a read copies from
  (state "dangling"). The bytes between the old end and the offset of a write are
  whatever `realloc` left there, and others after a replay (`Fills`); `LogMirrorsTree`
  speaks of the bytes that were written.
- `memfs.c:57-58`: the size of the file is read again after the comparison. If a write
  has grown it in between, the size of the read is not clamped ("Clamp read size at EOF",
  line 56) but raised, possibly above what was asked for, which is the size of `buf`.
  `ReadsStayInFile` excepts this (`grew`); without the exception TLC shows it with a read of
  2 bytes and a write at offset 2 of a file of 1.
- `memfs.c:187`: a link whose target could not be copied stays in the tree, although
  the answer is `ENOMEM`.
- `log.c:29`: if the log cannot be opened or written, the change is answered with
  success all the same. `log.c:60`: if it cannot be opened at the start, the tree is
  empty, and a record whose handler finds no memory during replay is passed over
  (78, 83, 95, 100). In both cases the next replay may bring back what this session did
  not have, in the way of what it has made since (variable `lost`, `Crowded`).
- `log.c:77-99`: `%s` ends at a blank, so records with a blank in a name or a target
  are dropped or stand for another object: `mkdir "/a 1"` comes back as `mkdir /a`, and
  an earlier or later `mknod /a` as that directory. `Safe` excepts the paths of such
  records and the paths they are read as.
- `syscall_tracer.c:49`: a tracee killed by a signal never satisfies `WIFEXITED`. One
  that faults gets its SIGSEGV suppressed and faults again, for ever (`Fault`). A
  signal during or right after `read` or `write` shifts the pairing of stops, and the
  signal itself is suppressed (lines 30, 42). After a failed `exec` a line may be
  printed from registers that were never set.
- `MemorySafetyRuntime.cpp:43`: entries are never taken out of the map, so one that
  begins inside a newer block can raise a false alarm or hide an error; a block on
  the stack of a function that has returned still counts as accessible. `free` of a
  stack object reaches `std::free` (line 89). An empty local variable may have the
  address of another one, whose entry its registration then replaces (line 76): a
  false alarm for the other. The run's sizes begin with 1, and the theorem
  `NoFalseAlarms` says that sizes are not 0.
- `MemorySafety.cpp:109`: the size registered for a variable-length array is that of
  one element; `calloc`, `realloc` and indirect calls are not tracked (line 78).
- `DeadCodeElimination.cpp:60`: a store whose value a loop of one block reads in its
  next trip is removed (`CarriedAround`). A store to a part of the slot hides the store
  before it as one to all of it does (59-64); the model's accesses cover the whole slot.
- `sort.cpp:50`: of a line with a zero byte only the part before it is written.

The runs' sizes and their numbers of threads, connections and commands stay below
the numeric cases.

## 5. Proofs

`LockFreeHashMapProofs` proves, for every set of threads and values, every number of
buckets, width of `unsigned long` and bound on calls:

- `TypeCorrect`: `Spec => []TypeOK`;
- `WalksEnd`: `[]LinksDescend`: a link leads to an older node of the same bucket, so
  a walk ends, also one that started on a node unlinked since;
- `NothingSkipped`: `[]NoLiveNodeSkipped`: no link of any node, unlinked ones
  included, jumps over a live node of its bucket;
- `LiveAreReachable`: `[]LiveNodesReachable`, from the former two, by well-founded
  choice of the last node of a walk before the live one;
- `WalksMeetAllAndEnd`: `[]WalksAreSafe`, which is `LinksDescend` and
  `LiveNodesReachable` together;
- `RemovedOnce`: `[]OneRemoverPerNode`;
- `OnlyAgeing`: `NodesOnlyAge`, an action property.

The assumptions are those named in `LockFreeHashMap` (`BucketsAssumption`,
`UlongAssumption`, `ValuesAssumption`, `CallsAssumption`).

The inductive invariant `IInv` adds to these `LocalsOK`, what a thread knows of the
nodes it has read. `NoLiveNodeSkipped` is not inductive alone: `remove_item` stores
a successor that it read earlier, and other threads have unlinked and inserted
since. The store is harmless because every node of the bucket between the node being
removed and the successor read was deleted at that time (the link read skipped no
live node), deleted nodes stay deleted, and new nodes are published at the head,
where they are younger than both. The order of publication, which is the order of
`heap`, makes this a statement about numbers. The proof has one lemma per kind of
change of the heap (`HeapAppend`, `HeapMark`, `HeapRelink`), one on the threads that
do not move (`OthersOK`), one per action, and `NextOK`, which combines them.

`SpinlockAllocProofs` proves `MutualExclusionHolds` for any set of threads. With
`TypeOK` it is inductive, because a test-and-set that reports the flag clear means
that nobody holds it. It also proves, for any number of buckets and whichever
allocation fails, the two properties of the maps' construction and destruction:

- `WildOnlyAfterLockFailure`: `AllocSpec => []OnlyLockFailureGoesWild`;
- `FreedOrNeverAllocated`: `AllocSpec => []NothingLeaks`.

Their invariant `AllocInv` says, for each position of `alloc_hashmap` and
`free_hashmap`, which objects can be allocated at most (`Holding`: those of the buckets
construction has reached or destruction has yet to come to), and that a sentinel is
unset only in the bucket at work or in the one that has a list and no lock (`Unset`).

`LockHashMapProofs` proves, for any threads, buckets, values and addresses:

- `NodesHaveOneOwner`: `[]EveryNodeHasOneOwner`, and `WalksNeverStray`:
  `[]WalksStayOnList`;
- `LocksRefine`: `Spec => LocksUsedAsSpecified`, every step of the map is a step or
  a stutter of `Spinlock` for each bucket's lock;
- `BagRefined`: `Spec => ImplementsBag`, every step of the map is a step or a
  stutter of `HashBag` under the refinement mapping;
- `TypeCorrect` and `LockHashMapInvariance`, on which the others rest.

Its `IInv` says who holds a bucket's lock (`LockInv`), that lists share no node,
stay in their bucket, and have one link to each node (`ListsOK`), and what a thread
inside a critical section knows (`ThreadOK`): its walk stands on a node of its list,
and every occurrence of the value searched for is still ahead. The last part is what
the refinement needs, for a search that finds nothing to be right. Reachability is
defined as the least set closed under links, so that publishing and unlinking a node
are arguments about sets (`ReachPublish`, `ReachUnlinkHead`, `ReachUnlinkInner`) and
not inductions along the list. The bag's counts are cardinalities of sets of linked
nodes (`CountAfterInsert`, `CountAfterRemove`).

`AllocatorProofs` proves the four properties of the allocator's run for any threads,
arenas, alignment, header, reserve, heap and calls: `HeapIsTiled`,
`ListsStayInOrder`, `BlocksHaveOneOwner`, `LocksInOrder`. It is built in layers:

1. arithmetic of multiples of `ALIGN`; `ALIGN8` rounds up;
2. heaps: `HeapOK(h)` is the shape of the lists (types, alignment, blocks apart,
   `next` and `prev` are the nearest blocks of the arena, head and tail the ends),
   `Covered(h)` the bytes of the blocks, `Used(h)` the blocks in use. For each of
   `split_block`, merging, marking and appending one lemma says what it does to the
   fields, one that it keeps `HeapOK`, one what it does to the bytes, one what is
   still coalesced. `arena_free` merges in two steps, between which the block and
   its predecessor are excepted (`CoalescedBut`). `first_hit` is a recursive
   function over addresses; it returns what the loop would because links lead
   upwards in a bounded heap (`FirstHit`);
3. the state: `IInv` adds the locks (`LockInv`), what a call has at each position
   (`ThreadOK`: among other things that memory it got from `sbrk` lies above every
   block of its arena, since it has had the arena's lock all the time), `Tiled` and
   `Owned`. A step changes the heap inside one arena (`HeapStep`, `Kept`), and the
   lock of that arena shows that no other call holds memory there (`AloneInArena`).
   There is one lemma per action and `NextInv`.

The theorems have the hypothesis `NothingWraps`: at most `INT_MAX` threads, and no
request whose size with rounding, header and reserve reaches half of the range of
`size_t`; for `calloc` this is said of the products that pass its own test. Without
it the code does what section 4 records of `allocator.c:257`, `:145` and `:59`. The
instance of the run `allocator` satisfies the hypothesis, and TLC has checked `IInv`
on it.

`CounterServerProofs` proves for any clients, workers and messages:

- `NeverReadsIdle`: `[]NoRecvOnIdleClient`;
- `HeldInOnePlace`: `[]ServedByOne`, for at most `INT_MAX` clients
  (`server.cpp:105`, section 4);
- `NoUpdateLost`: `[]CounterIsSum`, the counter is the sum of exactly the messages
  handled, modulo its width;
- `AnswersAreSums`: `[]AnswersAddUp`, for at least one client (with none, nobody has
  the answer that is the sum of everything, which the property asks for);
- `CounterServerInvariance`, on which the first two rest.

`IInv` consists of who holds a mutex (`MutexOK`), the bounds of the loop's index
(`IndexOK`), that a connection is in one place (`OnePlace`) and open there
(`HeldAreOpen`), and that what `poll` has marked and the loop has yet to come to is
readable (`MarkedReadable`). The loop runs downwards, so the entry that `Close`
moves into the gap has been passed already; that is why `MarkedReadable` survives it. That
no connection is lost (`OpenAreHeld`, `Counted`) is kept while the server runs.

The sums need what the connections carry: `Streams` says that for each connection
there is a number of pieces the server has read, that what lies on the connection are
the pieces that follow, up to those the client has sent, and that the worker is at a
position of its loop that fits this number. With it a message handled is the client's next
operation (`HandledIs`), and handling adds its value to one term of the sum
(`SumChanges`). `AInv` adds that an answer on its way is the sum of all operations of
its client and of prefixes of the others', and that once every client's last message
is handled an answer with the sum of everything is on its way or has arrived. `SumOfTotals` is a
recursive function over sets of clients; that it satisfies its equation is
proved by a smallest counterexample (`SumIs`), and everything else about it follows
from that equation. TLC has checked both invariants on the instance of the run.

`ShellProofs` proves, for any lines, numbers of commands, capacity of a pipe, items
and failures:

- `ForegroundSuccess`: `[]SuccessMeansOver`;
- `PipelinesAreComplete`: `[]OutputIsComplete`;
- `LinesKeepTheirShape` and `NoItemLost`, the two inductive invariants on which they
  rest.

`ShapeInv` says what a process's record may hold in each state (`Records`), that the
processes of a line are forked in order and nothing follows the last (`InOrder`),
where the loops of `run_pipeline` are with the current line (`Progress`) and what the
waiting loop has passed (`Waited`). `Flow` says that for each line there is an account
`f` of what its processes have put out: what process `k - 1` has put out is in the
pipe, in the hands of process `k`, or put out by it; a process that reads a file has
the rest of it ahead. The critical step is the end of file on a pipe (`WriterEnded`):
no write end is open, so the process before has ended, because it was forked while
the shell had the end open, and `exec` makes the end its standard output, since it is
not the last and `check_consistency` lets only the last have a redirected output.
`OutputIsComplete` follows by looking at the first process of a line that has put out
less than everything. TLC has checked `ShapeInv` and `Flow` on the instance of the run.

`FramingProofs` proves `MessagesStayIntact`: `[]MessagesIntact` for messages of any
number and size, from `TypeOK`, the property and `InStep`, which says where the
receiver is relative to the beginnings of the messages as long as no length was cut.
The beginnings are a recursive function; that it exists and satisfies its equation
is proved by a least counterexample (`GoodExists`, `BeginIs`).

`MemorySafetyProofs` proves for any addresses, sizes, red zone and number of
objects:

- `FreesAreSound`: `[]FreesBlocksInUse`;
- `ErrorsAlwaysCaught`: `[]ErrorsCaught`;
- `NoFalseAlarms`: `[]NoFalseAlarm`, for programs without empty objects (section 4);
- `MemorySafetyInvariance`.

`IInv` relates the map to the objects: heap objects are on the heap, stack objects
above the stack pointer (`InPlace`), and an entry of the heap that is not marked as
freed is a block in use unless it was freed without the runtime (`UnfreedInUse`).
`NoFalseAlarms` adds that each tracked object has an entry of its own with its size
(`Entered`). The checks are then facts about the nearest entry at or below an
address and the nearest one above (`Neighbours`, `ChecksCatch`,
`EnteredAccessible`).

The assumptions on constants of all modules are named where the constants are
declared (`...Assumption`), and TLC evaluates them in the runs.

Only model-checked:

- liveness, since the prover has no fairness or ENABLED: `EveryCallReturns`,
  `SpinningMakesProgress`, `EveryClientAnswered`, `EveryMessageArrives`,
  `EverythingEnds`, `TracerReturns`;
- `Linearizable`: the witness is a set of abstract states, closed under effects;
- what compares a computation with a reference definition: `SortsItsInput`,
  `ParsedAsWritten`, `SameValuesSeen`, `AnsweredChangesSurvive`, `LogMirrorsTree`
  (replay of the log);
- `ReadsStayInFile`: that the trees `load_log` builds hold sequences is a fact about a
  fold over what `sscanf` makes of a record;
- `LinesMatchCalls`: its `SelectSeq` is a recursion with a test as a parameter.

The library's induction theorems cannot be used with these provers. Where a
recursion is a function on numbers and the argument is a least counterexample, as
for `Begin` and `first_hit`, or on finite sets, as for `SumOfTotals`, it is proved all
the same; folds with operators as parameters are left to TLC.

## 6. Not modelled, and why

- `print_hashmap` of the lock-free map: it changes nothing and walks as
  `lookup_item` does.
- Payload bytes of the allocator and of messages: `memcpy` and `memset` stay inside
  the extents that the models check. Protobuf, sockets' set-up, redirection of files,
  printing: external or without state.
- File system: records longer than the 4096 and 2048 bytes of `load_log`'s buffers, a
  kill in the middle of the one `write` that `fclose` makes of a record or a disk that
  takes a part of it, names with a line break or with two blanks, permission bits, and
  the annotated copy in `task02-fileio/examples`.
- Tracer: a `fork` or a `PTRACE_TRACEME` that fails (lines 15, 19).
- Allocator: `free(NULL)`, which returns at once, and `realloc(NULL, n)`, which is
  `malloc(n)` (lines 221, 264).
- Scanner: character classes and quotes; a token is what the scanner returns.
- Passes: the IR itself and LLVM's helpers (`isInstructionTriviallyDead` is a rule on
  loads; branches and empty blocks, `DeadCodeElimination.cpp:26-50`, are
  simplified by LLVM's own function), and a program with several threads, which the
  runtime's map does not lock for.
- Sort: the annotated copy in `task00-sort/examples`; lines longer than
  `fgetline`'s buffer are put together again, so a run is a sequence of lines.
- The system call wrappers: single calls of the kernel.

## 7. Plan

Order of the work, the most important behaviour first; done: 1 to 10.

1. Lock-free hashmap, its contract and its proofs.
2. Spinlock and proof; lock-based hashmap, refining both.
3. Construction and destruction of the maps.
4. Allocator.
5. Counter server, framing.
6. Shell.
7. `MemFS`: the tree, the log, crashes and restarts.
8. `Tracer`; `MemorySafety`.
9. `DeadCode`, `ExternalSort`, `ShellParser`: algorithms against reference
   definitions on bounded inputs.
10. Proofs: the lock-free map, the lock-based map with both refinements, the spinlock,
    construction and destruction of the maps, the allocator, the server's hand-over,
    its loop, its sums and its answers, framing, the shell's pipelines, the
    memory-safety runtime. Left to TLC: what section 5 lists.

Questions that can be put in one instance share a run; the runs are meant to stay
about a dozen.
