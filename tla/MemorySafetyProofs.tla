------------------------- MODULE MemorySafetyProofs -------------------------
(***************************************************************************)
(* What MemorySafety claims of the runtime of task07, for heaps, stacks,   *)
(* sizes and red zones of any kind.                                        *)
(***************************************************************************)
EXTENDS MemorySafety, WellFoundedInduction, TLAPS

-----------------------------------------------------------------------------
(* Ends of sets of addresses.                                               *)

(* A set of addresses has a lowest one.                                     *)
LEMMA Lowest ==
  ASSUME NEW T, T \subseteq Nat, T # {}
  PROVE  \E x \in T : \A y \in T : x <= y
<1>1. PICK x \in T : \A y \in T : ~ (<<y, x>> \in OpToRel(<, Nat))
  <2> HIDE DEF OpToRel
  <2> QED BY NatLessThanWellFounded, WFMin
<1>2. \A y \in T : ~(y < x)
  BY <1>1 DEF OpToRel
<1> QED BY <1>2

(* A set of addresses below some address has a highest one.                 *)
LEMMA Highest ==
  ASSUME NEW T, NEW u \in Nat, T \subseteq Nat, \A t \in T : t <= u, T # {}
  PROVE  \E x \in T : \A y \in T : x >= y
<1> DEFINE D == {u - t : t \in T}
<1>1. \A t \in T : u - t \in Nat
  OBVIOUS
<1>2. D \subseteq Nat
  BY <1>1
<1>3. D # {}
  OBVIOUS
<1>4. PICK d \in D : \A e \in D : d <= e
  <2> HIDE DEF D
  <2> QED BY <1>2, <1>3, Lowest
<1>5. PICK x \in T : d = u - x
  OBVIOUS
<1>6. ASSUME NEW y \in T PROVE x >= y
  <2>1. u - y \in D
    OBVIOUS
  <2>2. d <= u - y
    BY <2>1, <1>4
  <2>3. x \in Nat /\ y \in Nat
    OBVIOUS
  <2> HIDE DEF D
  <2> QED BY <2>2, <2>3, <1>5
<1> QED BY <1>6

(* Min is what upper_bound's iterator points at: the lowest of the set.     *)
LEMMA MinIsLowest ==
  ASSUME NEW T, T \subseteq Nat, T # {}
  PROVE  Min(T) \in T /\ \A y \in T : Min(T) <= y
BY Lowest DEF Min

(* Max is what std::prev of that iterator points at.                        *)
LEMMA MaxIsHighest ==
  ASSUME NEW T, NEW u \in Nat, T \subseteq Nat, \A t \in T : t <= u, T # {}
  PROVE  Max(T) \in T /\ \A y \in T : y <= Max(T)
<1>1. \E x \in T : \A y \in T : x >= y
  BY Highest
<1>2. Max(T) \in T /\ \A y \in T : Max(T) >= y
  BY <1>1 DEF Max
<1> QED BY <1>2

-----------------------------------------------------------------------------
(* The invariant.                                                           *)

(* Addresses that are above the heap.                                       *)
Above == {a \in Nat : \A h \in Heap : h < a}

Block == [size : Nat, freed : BOOLEAN]
Object == [at : Nat, size : Nat, where : {"heap", "stack"}, tracked : BOOLEAN]

(* The map is a map from addresses to blocks.                               *)
BlocksOK ==
    /\ blocks = [b \in DOMAIN blocks |-> blocks[b]]
    /\ DOMAIN blocks \subseteq Nat
    /\ \A b \in DOMAIN blocks : blocks[b] \in Block

TypeOK ==
    /\ BlocksOK
    /\ objs \subseteq Object
    /\ frames \in Seq(Above) /\ sp \in Above
    /\ made \in Nat /\ aborted \in BOOLEAN

(* Heap objects are on the heap, stack objects above the stack pointer.     *)
InPlace ==
    \A o \in objs : /\ o.where = "heap" => o.at \in Heap
                    /\ o.where = "stack" => o.at \in Above /\ o.at >= sp

(* A block of the heap whose entry is not freed is in use, unless it was    *)
(* freed behind the runtime's back.                                         *)
UnfreedInUse ==
    \A b \in DOMAIN blocks :
        b \in Heap /\ b \notin behind /\ ~blocks[b].freed => OnHeap(b)

IInv ==
    /\ TypeOK
    /\ InPlace
    /\ UnfreedInUse
    /\ wrong \subseteq Heap \cup Stack
    /\ FreesBlocksInUse

(* What a tracked object needs: an entry of its own, with its size.         *)
Entered ==
    /\ \A o \in objs : o.size > 0
    /\ ~aborted => \A o \in objs : o.tracked =>
          o.at \in DOMAIN blocks /\ blocks[o.at] = [size |-> o.size, freed |-> FALSE]
-----------------------------------------------------------------------------
(* The invariant holds at first.                                            *)
LEMMA InitInv == Init => IInv
<1> SUFFICES ASSUME Init PROVE IInv
  OBVIOUS
<1>1. sp \in Above
  <2>1. PICK top \in Stack : \A s \in Stack : s <= top
    BY AddressesAssumption
  <2>2. Max(Stack) \in Stack
    <3>1. \E x \in Stack : \A y \in Stack : x >= y
      <4> QED BY <2>1, AddressesAssumption
    <3> QED BY <3>1 DEF Max
  <2>3. PICK m \in Stack : sp = m + 1
    BY <2>2 DEF Init
  <2>4. m \in Nat /\ \A h \in Heap : h \in Nat /\ h < m
    BY AddressesAssumption
  <2> QED BY <2>3, <2>4 DEF Above
<1>2. BlocksOK
  BY DEF Init, BlocksOK
<1>3. frames \in Seq(Above)
  BY DEF Init
<1>4. TypeOK
  BY <1>1, <1>2, <1>3 DEF Init, TypeOK
<1> QED BY <1>4 DEF Init, IInv, InPlace, UnfreedInUse, FreesBlocksInUse

(* A registration keeps the other entries.                                  *)
LEMMA RegisteredIs ==
  ASSUME BlocksOK, NEW at \in Nat, NEW size \in Nat, blocks' = Registered(at, size)
  PROVE  /\ BlocksOK'
         /\ DOMAIN blocks' = DOMAIN blocks \cup {at}
         /\ blocks'[at] = [size |-> size, freed |-> FALSE]
         /\ \A b \in DOMAIN blocks : b # at => blocks'[b] = blocks[b]
<1>1. DOMAIN blocks' = DOMAIN blocks \cup {at}
  BY DEF Registered
<1>2. blocks'[at] = [size |-> size, freed |-> FALSE]
  BY DEF Registered
<1>3. \A b \in DOMAIN blocks : b # at => blocks'[b] = blocks[b]
  BY DEF Registered
<1>4. blocks' = [b \in DOMAIN blocks' |-> blocks'[b]]
  BY <1>1 DEF Registered
<1>5. \A b \in DOMAIN blocks' : blocks'[b] \in Block
  <2>1. blocks'[at] \in Block
    BY <1>2 DEF Block
  <2> QED BY <1>1, <1>3, <2>1 DEF BlocksOK
<1>6. DOMAIN blocks' \subseteq Nat
  BY <1>1 DEF BlocksOK
<1> QED BY <1>1, <1>2, <1>3, <1>4, <1>5, <1>6 DEF BlocksOK

(* A freed mark is all that a free changes in the map.                      *)
LEMMA FreedIs ==
  ASSUME BlocksOK, NEW at \in DOMAIN blocks, blocks' = [blocks EXCEPT ![at].freed = TRUE]
  PROVE  /\ BlocksOK'
         /\ DOMAIN blocks' = DOMAIN blocks
         /\ blocks'[at].freed
         /\ \A b \in DOMAIN blocks : b # at => blocks'[b] = blocks[b]
<1>1. DOMAIN blocks' = DOMAIN blocks
  BY DEF BlocksOK
<1>2. blocks'[at] = [blocks[at] EXCEPT !.freed = TRUE]
  BY DEF BlocksOK
<1>3. blocks'[at] \in Block /\ blocks'[at].freed
  BY <1>2 DEF BlocksOK, Block
<1>4. \A b \in DOMAIN blocks : b # at => blocks'[b] = blocks[b]
  BY DEF BlocksOK
<1>5. blocks' = [b \in DOMAIN blocks' |-> blocks'[b]]
  BY <1>1 DEF BlocksOK
<1>6. \A b \in DOMAIN blocks' : blocks'[b] \in Block
  BY <1>1, <1>3, <1>4 DEF BlocksOK
<1> QED BY <1>1, <1>3, <1>4, <1>5, <1>6 DEF BlocksOK

(* Where an alloca puts its object: on the stack, or, if it takes no room,  *)
(* at the stack pointer.                                                    *)
LEMMA AllocaIs ==
  ASSUME TypeOK, NEW bytes \in Sizes, NEW count \in {1, 2}, NEW gap \in {0, 1},
         Alloca(bytes, count, gap)
  PROVE  /\ sp' \in Above /\ sp' <= sp
         /\ bytes > 0 => sp' < sp
         /\ bytes \in Nat /\ bytes * count \in Nat
         /\ blocks' = Registered(sp', bytes)
         /\ objs' = objs \cup {[at |-> sp', size |-> bytes * count, where |-> "stack",
                                tracked |-> (count = 1)]}
<1> DEFINE n == bytes * count
<1>1. bytes \in Nat /\ n \in Nat /\ n >= bytes
  <2>1. bytes \in Nat
    BY AddressesAssumption
  <2>2. CASE count = 1
    BY <2>1, <2>2
  <2>3. CASE count = 2
    BY <2>1, <2>3
  <2> QED BY <2>2, <2>3
<1>2. /\ sp' = sp - n - gap
      /\ Bytes(sp', n + gap) \subseteq Stack
      /\ blocks' = Registered(sp', bytes)
      /\ objs' = objs \cup {[at |-> sp', size |-> n, where |-> "stack", tracked |-> (count = 1)]}
  BY DEF Alloca, Make, registerStackAllocations
<1> HIDE DEF n
<1>3. sp \in Nat
  BY DEF TypeOK, Above
<1>4. sp' <= sp /\ (bytes > 0 => sp' < sp)
  BY <1>1, <1>2, <1>3
<1>5. CASE n + gap = 0
  <2>1. sp' = sp
    BY <1>1, <1>2, <1>3, <1>5
  <2> QED BY <2>1, <1>1, <1>2, <1>4 DEF TypeOK, n
<1>6. CASE n + gap > 0
  <2>1. sp' \in Bytes(sp', n + gap)
    BY <1>1, <1>2, <1>3, <1>6 DEF Bytes
  <2>2. sp' \in Above
    BY <2>1, <1>2, AddressesAssumption DEF Above
  <2> QED BY <2>2, <1>1, <1>2, <1>4 DEF n
<1> QED BY <1>1, <1>5, <1>6

(* What a return leaves.                                                    *)
LEMMA ReturnIs ==
  ASSUME TypeOK, Return
  PROVE  /\ sp' \in Above /\ frames' \in Seq(Above)
         /\ objs' = {o \in objs : o.where = "heap" \/ o.at >= sp'}
         /\ UNCHANGED <<blocks, made, behind, wrong, aborted>>
<1>1. frames \in Seq(Above) /\ frames # <<>>
  BY DEF TypeOK, Return
<1>2. Len(frames) \in Nat \ {0} /\ frames[Len(frames)] \in Above
  BY <1>1
<1>3. SubSeq(frames, 1, Len(frames) - 1) \in Seq(Above)
  BY <1>1, <1>2
<1> QED BY <1>2, <1>3 DEF Return
-----------------------------------------------------------------------------
(* One lemma per operation: it keeps the invariant, and, where no object is *)
(* empty, the entries of the tracked objects.                               *)

(* Allocation on the heap, through the runtime or past it.                  *)
LEMMA MallocStep ==
  ASSUME IInv, NEW at \in Heap, NEW size \in Sizes, NEW callee, NEW direct \in BOOLEAN,
         Malloc(at, size, callee, direct)
  PROVE  IInv' /\ (0 \notin Sizes /\ Entered => Entered')
<1> DEFINE tracked == replaceMemoryCalls(callee, direct)
           new == [at |-> at, size |-> size, where |-> "heap", tracked |-> tracked]
<1>1. /\ objs' = objs \cup {new}
      /\ blocks' = IF tracked THEN Registered(at, size) ELSE blocks
      /\ Bytes(at - 1, size + 1) \subseteq Heap \ Taken
      /\ made' = made + 1
      /\ ~aborted
      /\ UNCHANGED <<frames, sp, behind, wrong, aborted>>
  BY DEF Malloc, Make
<1>2. tracked \in BOOLEAN /\ at \in Nat /\ size \in Nat
  BY AddressesAssumption DEF replaceMemoryCalls
<1>3. new \in Object /\ new.at = at /\ new.size = size /\ new.where = "heap"
      /\ new.tracked = tracked
  BY <1>2 DEF Object
<1> HIDE DEF new, tracked
<1>4. /\ BlocksOK'
      /\ tracked => /\ at \in DOMAIN blocks'
                    /\ blocks'[at] = [size |-> size, freed |-> FALSE]
      /\ DOMAIN blocks \subseteq DOMAIN blocks' /\ DOMAIN blocks' \subseteq DOMAIN blocks \cup {at}
      /\ \A b \in DOMAIN blocks : b # at => blocks'[b] = blocks[b]
  <2>1. CASE tracked
    <3>1. blocks' = Registered(at, size) /\ BlocksOK
      BY <1>1, <2>1 DEF IInv, TypeOK
    <3> QED BY <3>1, <1>2, RegisteredIs
  <2>2. CASE ~tracked
    <3>1. blocks' = blocks /\ BlocksOK
      BY <1>1, <2>2 DEF IInv, TypeOK
    <3> QED BY <3>1, <2>2 DEF BlocksOK
  <2> QED BY <1>2, <2>1, <2>2
<1>5. TypeOK'
  BY <1>1, <1>3, <1>4 DEF IInv, TypeOK
<1>6. InPlace'
  BY <1>1, <1>3 DEF IInv, InPlace
<1>7. UnfreedInUse'
  <2> SUFFICES ASSUME NEW b \in DOMAIN blocks', b \in Heap, b \notin behind, ~blocks'[b].freed
               PROVE  OnHeap(b)'
    BY <1>1 DEF UnfreedInUse
  <2>1. CASE b = at
    BY <2>1, <1>1, <1>3 DEF OnHeap
  <2>2. CASE b # at
    <3>1. b \in DOMAIN blocks /\ blocks'[b] = blocks[b]
      BY <2>2, <1>4
    <3>2. OnHeap(b)
      BY <3>1 DEF IInv, UnfreedInUse
    <3> QED BY <3>2, <1>1 DEF OnHeap
  <2> QED BY <2>1, <2>2
<1>8. IInv'
  BY <1>1, <1>5, <1>6, <1>7 DEF IInv, FreesBlocksInUse
<1>9. ASSUME 0 \notin Sizes, Entered PROVE Entered'
  <2>1. at \in Bytes(at - 1, size + 1)
    <3>1. size > 0
      BY <1>2, <1>9
    <3> QED BY <3>1, <1>2 DEF Bytes
  <2>2. ASSUME NEW o \in objs PROVE o.at # at
    <3>1. CASE o.where = "heap"
      <4>1. o.at \in Nat /\ o.size \in Nat /\ o.size > 0
        BY <1>9 DEF IInv, TypeOK, Object, Entered
      <4>2. o.at \in Bytes(o.at - 1, o.size + 1)
        BY <4>1 DEF Bytes
      <4>3. o.at \in Taken
        BY <4>2 DEF Taken
      <4> QED BY <4>3, <2>1, <1>1
    <3>2. CASE o.where = "stack"
      <4>1. o.at \in Above
        BY <3>2 DEF IInv, InPlace
      <4> QED BY <4>1, <1>2 DEF Above
    <3> QED BY <3>1, <3>2 DEF IInv, TypeOK, Object
  <2>3. ASSUME NEW o \in objs' PROVE o.size > 0
    BY <1>1, <1>2, <1>3, <1>9 DEF Entered
  <2>4. ASSUME NEW o \in objs', o.tracked
        PROVE  o.at \in DOMAIN blocks' /\ blocks'[o.at] = [size |-> o.size, freed |-> FALSE]
    <3>1. CASE o \in objs
      BY <2>2, <2>4, <3>1, <1>1, <1>4, <1>9 DEF Entered
    <3>2. CASE o = new
      BY <2>4, <3>2, <1>3, <1>4
    <3> QED BY <3>1, <3>2, <1>1
  <2> QED BY <2>3, <2>4 DEF Entered
<1> QED BY <1>8, <1>9

(* An error ends the program.                                               *)
LEMMA ReportStep ==
  ASSUME IInv, report_error
  PROVE  IInv' /\ (Entered => Entered')
<1> USE DEF report_error
<1>1. BlocksOK' = BlocksOK /\ InPlace' = InPlace /\ UnfreedInUse' = UnfreedInUse
  BY DEF BlocksOK, InPlace, UnfreedInUse, OnHeap
<1> QED BY <1>1 DEF IInv, TypeOK, FreesBlocksInUse, Entered

(* A free, through the runtime or past it.                                  *)
LEMMA FreeStep ==
  ASSUME IInv, NEW at \in Heap \cup Stack, NEW direct \in BOOLEAN, Free(at, direct)
  PROVE  IInv' /\ (Entered => Entered')
<1>1. CASE ~replaceMemoryCalls("free", direct)
  <2>1. /\ OnHeap(at) /\ Released(at) /\ behind' = behind \cup {at}
        /\ ~aborted
        /\ UNCHANGED <<blocks, frames, sp, made, wrong, aborted>>
    BY <1>1 DEF Free
  <2>2. objs' \subseteq objs
    BY <2>1 DEF Released
  <2>3. BlocksOK' = BlocksOK
    BY <2>1 DEF BlocksOK
  <2>4. TypeOK' /\ InPlace'
    BY <2>1, <2>2, <2>3 DEF IInv, TypeOK, InPlace
  <2>5. UnfreedInUse'
    BY <2>1 DEF IInv, UnfreedInUse, OnHeap, Released
  <2>6. FreesBlocksInUse' /\ (wrong \subseteq Heap \cup Stack)'
    BY <2>1 DEF IInv, FreesBlocksInUse
  <2>7. Entered => Entered'
    BY <2>1, <2>2 DEF Entered
  <2> QED BY <2>4, <2>5, <2>6, <2>7 DEF IInv
<1>2. CASE replaceMemoryCalls("free", direct) /\ report_error
  BY <1>2, ReportStep
<1>3. CASE /\ replaceMemoryCalls("free", direct)
           /\ at \in DOMAIN blocks /\ ~blocks[at].freed
  <2>1. /\ at \in DOMAIN blocks /\ ~blocks[at].freed
        /\ blocks' = [blocks EXCEPT ![at].freed = TRUE]
        /\ Released(at)
        /\ wrong' = IF OnHeap(at) THEN wrong ELSE wrong \cup {at}
        /\ aborted' = ~OnHeap(at)
        /\ ~aborted
        /\ UNCHANGED <<frames, sp, made, behind>>
    BY <1>3 DEF Free, RuntimeFree
  <2>2. objs' \subseteq objs
    BY <2>1 DEF Released
  <2>3. /\ BlocksOK'
        /\ DOMAIN blocks' = DOMAIN blocks
        /\ blocks'[at].freed
        /\ \A b \in DOMAIN blocks : b # at => blocks'[b] = blocks[b]
    <3>1. BlocksOK
      BY DEF IInv, TypeOK
    <3> QED BY <2>1, <3>1, FreedIs
  <2>4. TypeOK' /\ InPlace'
    BY <2>1, <2>2, <2>3 DEF IInv, TypeOK, InPlace, OnHeap
  <2>5. UnfreedInUse'
    <3> SUFFICES ASSUME NEW b \in DOMAIN blocks', b \in Heap, b \notin behind, ~blocks'[b].freed
                 PROVE  OnHeap(b)'
      BY <2>1 DEF UnfreedInUse
    <3>1. b # at /\ b \in DOMAIN blocks /\ ~blocks[b].freed
      BY <2>3
    <3>2. OnHeap(b)
      BY <3>1 DEF IInv, UnfreedInUse
    <3> QED BY <3>1, <3>2, <2>1 DEF OnHeap, Released
  <2>6. FreesBlocksInUse' /\ (wrong \subseteq Heap \cup Stack)'
    <3>1. ~OnHeap(at) => at \in Stack \cup behind
      BY <2>1 DEF IInv, UnfreedInUse
    <3> QED BY <3>1, <2>1 DEF IInv, FreesBlocksInUse
  <2>7. ASSUME Entered PROVE Entered'
    <3>1. ASSUME ~aborted', NEW o \in objs', o.tracked
          PROVE  o.at \in DOMAIN blocks' /\ blocks'[o.at] = [size |-> o.size, freed |-> FALSE]
      <4>1. OnHeap(at)
        BY <2>1, <3>1
      <4>2. at \in Heap
        BY <4>1 DEF OnHeap, IInv, InPlace
      <4>3. o.at # at
        <5>1. o \in objs /\ (o.at # at \/ o.where # "heap")
          BY <3>1, <2>1 DEF Released
        <5>2. CASE o.where # "heap"
          <6>1. o.where = "stack"
            BY <5>1, <5>2 DEF IInv, TypeOK, Object
          <6>2. o.at \in Above
            BY <5>1, <6>1 DEF IInv, InPlace
          <6> QED BY <6>2, <4>2, AddressesAssumption DEF Above
        <5> QED BY <5>1, <5>2
      <4> QED BY <4>3, <2>1, <2>2, <2>3, <2>7, <3>1 DEF Entered
    <3>2. \A o \in objs' : o.size > 0
      BY <2>2, <2>7 DEF Entered
    <3> QED BY <3>1, <3>2 DEF Entered
  <2> QED BY <2>4, <2>5, <2>6, <2>7 DEF IInv
<1> QED BY <1>1, <1>2, <1>3 DEF Free, RuntimeFree
(* Entering a function.                                                     *)
LEMMA CallStep ==
  ASSUME IInv, Call
  PROVE  IInv' /\ (Entered => Entered')
<1> USE DEF Call
<1>1. BlocksOK' = BlocksOK /\ InPlace' = InPlace /\ UnfreedInUse' = UnfreedInUse
  BY DEF BlocksOK, InPlace, UnfreedInUse, OnHeap
<1>2. frames' \in Seq(Above)
  BY DEF IInv, TypeOK
<1> QED BY <1>1, <1>2 DEF IInv, TypeOK, FreesBlocksInUse, Entered

(* A local variable.                                                        *)
LEMMA AllocaStep ==
  ASSUME IInv, NEW bytes \in Sizes, NEW count \in {1, 2}, NEW gap \in {0, 1},
         Alloca(bytes, count, gap)
  PROVE  IInv' /\ (0 \notin Sizes /\ Entered => Entered')
<1> DEFINE new == [at |-> sp', size |-> bytes * count, where |-> "stack", tracked |-> (count = 1)]
<1>1. /\ sp' \in Above /\ sp' <= sp
      /\ bytes > 0 => sp' < sp
      /\ bytes \in Nat /\ bytes * count \in Nat
      /\ blocks' = Registered(sp', bytes)
      /\ objs' = objs \cup {new}
  BY AllocaIs DEF IInv
<1>2. ~aborted /\ made' = made + 1 /\ UNCHANGED <<frames, behind, wrong, aborted>>
  BY DEF Alloca, Make
<1>3. new \in Object /\ new.at = sp' /\ new.where = "stack"
  BY <1>1 DEF Object, Above
<1>4. new.tracked => new.size = bytes
  <2>1. CASE count = 1
    BY <2>1, <1>1
  <2>2. new.tracked = (count = 1)
    OBVIOUS
  <2> HIDE DEF new
  <2> QED BY <2>1, <2>2
<1>5. bytes > 0 => new.size > 0
  <2>1. CASE count = 1
    BY <2>1, <1>1
  <2>2. CASE count = 2
    BY <2>2, <1>1
  <2> QED BY <2>1, <2>2
<1>6. /\ BlocksOK'
      /\ DOMAIN blocks' = DOMAIN blocks \cup {sp'}
      /\ blocks'[sp'] = [size |-> bytes, freed |-> FALSE]
      /\ \A b \in DOMAIN blocks : b # sp' => blocks'[b] = blocks[b]
  <2>1. BlocksOK /\ sp' \in Nat
    BY <1>1 DEF IInv, TypeOK, Above
  <2> QED BY <2>1, <1>1, RegisteredIs
<1> HIDE DEF new
<1>7. TypeOK'
  BY <1>1, <1>2, <1>3, <1>6 DEF IInv, TypeOK
<1>8. InPlace'
  <2>1. ASSUME NEW o \in objs, o.where = "stack" PROVE o.at \in Above /\ o.at >= sp'
    <3>1. o.at \in Above /\ o.at >= sp /\ sp \in Above
      BY <2>1 DEF IInv, TypeOK, InPlace
    <3> QED BY <3>1, <1>1 DEF Above
  <2>2. sp' >= sp'
    BY <1>1 DEF Above
  <2>3. ASSUME NEW o \in objs'
        PROVE  /\ o.where = "heap" => o.at \in Heap
               /\ o.where = "stack" => o.at \in Above /\ o.at >= sp'
    <3>1. CASE o \in objs
      BY <3>1, <2>1 DEF IInv, InPlace
    <3>2. CASE o = new
      BY <3>2, <2>2, <1>1, <1>3
    <3> QED BY <3>1, <3>2, <1>1
  <2> QED BY <2>3 DEF InPlace
<1>9. UnfreedInUse'
  <2> SUFFICES ASSUME NEW b \in DOMAIN blocks', b \in Heap, b \notin behind, ~blocks'[b].freed
               PROVE  OnHeap(b)'
    BY <1>2 DEF UnfreedInUse
  <2>1. b # sp'
    BY <1>1, AddressesAssumption DEF Above
  <2>2. OnHeap(b)
    BY <2>1, <1>6 DEF IInv, UnfreedInUse
  <2> QED BY <2>2, <1>1 DEF OnHeap
<1>10. IInv'
  BY <1>2, <1>7, <1>8, <1>9 DEF IInv, FreesBlocksInUse
<1>11. ASSUME 0 \notin Sizes, Entered PROVE Entered'
  <2>1. bytes > 0
    BY <1>1, <1>11
  <2>2. ASSUME NEW o \in objs PROVE o.at # sp'
    <3>1. CASE o.where = "heap"
      <4>1. o.at \in Heap
        BY <3>1 DEF IInv, InPlace
      <4> QED BY <4>1, <1>1, AddressesAssumption DEF Above
    <3>2. CASE o.where = "stack"
      <4>1. o.at \in Above /\ o.at >= sp /\ sp \in Above
        BY <3>2 DEF IInv, TypeOK, InPlace
      <4> QED BY <4>1, <2>1, <1>1 DEF Above
    <3> QED BY <3>1, <3>2 DEF IInv, TypeOK, Object
  <2>3. ASSUME NEW o \in objs' PROVE o.size > 0
    BY <2>1, <1>1, <1>5, <1>11 DEF Entered
  <2>4. ASSUME NEW o \in objs', o.tracked
        PROVE  o.at \in DOMAIN blocks' /\ blocks'[o.at] = [size |-> o.size, freed |-> FALSE]
    <3>1. CASE o \in objs
      BY <2>2, <2>4, <3>1, <1>2, <1>6, <1>11 DEF Entered
    <3>2. CASE o = new
      BY <2>4, <3>2, <1>3, <1>4, <1>6
    <3> QED BY <3>1, <3>2, <1>1
  <2> QED BY <2>3, <2>4 DEF Entered
<1> QED BY <1>10, <1>11

(* Leaving a function.                                                      *)
LEMMA ReturnStep ==
  ASSUME IInv, Return
  PROVE  IInv' /\ (Entered => Entered')
<1>1. /\ sp' \in Above /\ frames' \in Seq(Above)
      /\ objs' = {o \in objs : o.where = "heap" \/ o.at >= sp'}
      /\ UNCHANGED <<blocks, made, behind, wrong, aborted>>
  BY ReturnIs DEF IInv
<1>2. BlocksOK' = BlocksOK
  BY <1>1 DEF BlocksOK
<1>3. TypeOK' /\ InPlace'
  BY <1>1, <1>2 DEF IInv, TypeOK, InPlace
<1>4. UnfreedInUse'
  BY <1>1 DEF IInv, UnfreedInUse, OnHeap
<1>5. Entered => Entered'
  BY <1>1 DEF Entered
<1> QED BY <1>1, <1>3, <1>4, <1>5 DEF IInv, FreesBlocksInUse

(* Every step keeps the invariant.                                          *)
LEMMA StepInv ==
  ASSUME IInv, [Next]_vars
  PROVE  IInv' /\ (0 \notin Sizes /\ Entered => Entered')
<1>1. ASSUME NEW at \in Heap, NEW size \in Sizes, NEW direct \in BOOLEAN,
             Malloc(at, size, "malloc", direct) \/ Malloc(at, size, "calloc", direct)
      PROVE  IInv' /\ (0 \notin Sizes /\ Entered => Entered')
  BY <1>1, MallocStep
<1>2. ASSUME NEW at \in Heap \cup Stack, NEW direct \in BOOLEAN, Free(at, direct)
      PROVE  IInv' /\ (0 \notin Sizes /\ Entered => Entered')
  BY <1>2, FreeStep
<1>3. CASE Call
  BY <1>3, CallStep
<1>4. CASE Return
  BY <1>4, ReturnStep
<1>5. ASSUME NEW bytes \in Sizes, NEW count \in {1, 2}, NEW gap \in {0, 1},
             Alloca(bytes, count, gap)
      PROVE  IInv' /\ (0 \notin Sizes /\ Entered => Entered')
  BY <1>5, AllocaStep
<1>6. ASSUME NEW at \in Heap \cup Stack, NEW size \in Sizes, checkMemoryAccesses(at, size)
      PROVE  IInv' /\ (0 \notin Sizes /\ Entered => Entered')
  BY <1>6, ReportStep DEF checkMemoryAccesses
<1>7. CASE UNCHANGED vars
  <2> USE <1>7 DEF vars
  <2>1. BlocksOK' = BlocksOK /\ InPlace' = InPlace /\ UnfreedInUse' = UnfreedInUse
    BY DEF BlocksOK, InPlace, UnfreedInUse, OnHeap
  <2> QED BY <2>1 DEF IInv, TypeOK, FreesBlocksInUse, Entered
<1> QED BY <1>1, <1>2, <1>3, <1>4, <1>5, <1>6, <1>7 DEF Next
-----------------------------------------------------------------------------
(* What the checks make of the map, whatever is in it.                      *)

(* __runtime_check_addr with its two neighbours: prev is the highest block  *)
(* that begins at or below the address, next the lowest above it.           *)
LEMMA Neighbours ==
  ASSUME BlocksOK, NEW a \in Int
  PROVE  LET next == upper_bound(a)
             before == DOMAIN blocks \ next
         IN  /\ before = {b \in DOMAIN blocks : b <= a}
             /\ before # {} => Max(before) \in before /\ \A b \in before : b <= Max(before)
             /\ next # {} => Min(next) \in next /\ \A b \in next : Min(next) <= b
<1> DEFINE next == upper_bound(a)
           before == DOMAIN blocks \ next
<1>1. before = {b \in DOMAIN blocks : b <= a}
  BY DEF BlocksOK, upper_bound
<1>2. next \subseteq Nat /\ before \subseteq Nat /\ \A b \in before : b <= a
  BY <1>1 DEF BlocksOK, upper_bound
<1> HIDE DEF next, before
<1>3. before # {} => Max(before) \in before /\ \A b \in before : b <= Max(before)
  <2>1. ASSUME NEW b \in before PROVE a \in Nat
    <3>1. b \in Nat /\ b <= a
      BY <1>2
    <3> QED BY <3>1
  <2> QED BY <2>1, <1>2, MaxIsHighest
<1>4. next # {} => Min(next) \in next /\ \A b \in next : Min(next) <= b
  BY <1>2, MinIsLowest
<1> QED BY <1>1, <1>3, <1>4 DEF next, before

(* Entries have natural sizes.                                              *)
LEMMA EndIs ==
  ASSUME BlocksOK, NEW b \in DOMAIN blocks
  PROVE  b \in Nat /\ blocks[b].size \in Nat /\ blocks[b].freed \in BOOLEAN /\ End(b) \in Nat
         /\ End(b) = b + blocks[b].size
BY DEF BlocksOK, Block, End

(* Wrong accesses are caught by the comparisons of __runtime_check_addr     *)
(* (MemorySafetyRuntime.cpp:43-60), in every map of blocks.                 *)
LEMMA ChecksCatch ==
  ASSUME BlocksOK
  PROVE  ErrorsCaught
<1> SUFFICES ASSUME NEW b \in DOMAIN blocks, Clear(b, blocks[b].size),
                    NEW a \in b - shadow .. End(b) + shadow - 1, NEW n \in Sizes \ {0},
                    ~\E c \in DOMAIN blocks \ {b} :
                        ~blocks[c].freed /\ a \in Bytes(c, blocks[c].size),
                    ~(~blocks[b].freed /\ a >= b /\ a + n <= End(b)),
                    Accepts(a, n)
             PROVE  FALSE
  BY DEF ErrorsCaught
<1> DEFINE next == upper_bound(a)
           before == DOMAIN blocks \ next
           prev == Max(before)
<1>1. shadow \in Nat /\ n \in Nat /\ n > 0
  BY AddressesAssumption
<1>2. b \in Nat /\ blocks[b].size \in Nat /\ End(b) \in Nat /\ End(b) = b + blocks[b].size
  BY EndIs
<1>3. a \in Int /\ b - shadow <= a /\ a < End(b) + shadow
  BY <1>1, <1>2
<1>4. /\ before = {c \in DOMAIN blocks : c <= a}
      /\ next = {c \in DOMAIN blocks : c > a}
      /\ before # {} => prev \in before /\ \A c \in before : c <= prev
      /\ next # {} => Min(next) \in next /\ \A c \in next : Min(next) <= c
  BY <1>3, Neighbours DEF upper_bound
<1>5. IF before # {} /\ a < End(prev) + shadow
      THEN ~blocks[prev].freed /\ a + n <= End(prev)
      ELSE next # {} => a < Min(next) - shadow
  BY DEF Accepts
<1> HIDE DEF next, before, prev
(* The access would be one to the block below, which is another block or    *)
(* allowed.                                                                 *)
<1>6. CASE before # {} /\ a < End(prev) + shadow
  <2>1. prev \in DOMAIN blocks /\ prev <= a /\ ~blocks[prev].freed /\ a + n <= End(prev)
    BY <1>4, <1>5, <1>6
  <2>2. prev \in Nat /\ blocks[prev].size \in Nat /\ End(prev) = prev + blocks[prev].size
    BY <2>1, EndIs
  <2>3. a \in Bytes(prev, blocks[prev].size)
    BY <1>1, <1>3, <2>1, <2>2 DEF Bytes
  <2>4. prev = b
    BY <2>1, <2>3
  <2> QED BY <2>1, <2>4, <1>3, <1>2
(* Below the block, in the red zone of the next one.                        *)
<1>7. CASE a < b /\ (next # {} => a < Min(next) - shadow)
  <2>1. b \in next
    BY <1>4, <1>7
  <2>2. Min(next) \in DOMAIN blocks /\ Min(next) <= b /\ a < Min(next) - shadow
    BY <2>1, <1>4, <1>7
  <2>3. Min(next) \in Nat
    BY <2>2 DEF BlocksOK
  <2> QED BY <1>1, <1>2, <1>3, <2>2, <2>3
(* Behind the block: the block below begins at or behind its end.           *)
<1>8. CASE a >= b /\ ~(before # {} /\ a < End(prev) + shadow)
  <2>1. b \in before
    BY <1>2, <1>3, <1>4, <1>8
  <2>2. prev \in DOMAIN blocks /\ prev >= b /\ ~(a < End(prev) + shadow)
    BY <2>1, <1>2, <1>4, <1>8 DEF BlocksOK
  <2>3. prev \in Nat /\ blocks[prev].size \in Nat /\ End(prev) = prev + blocks[prev].size
    BY <2>2, EndIs
  <2>4. prev \notin Bytes(b + 1, blocks[b].size - 1)
    BY <2>2 DEF Clear
  <2>5. CASE prev = b
    BY <2>2, <2>5, <1>3
  <2>6. CASE prev # b
    <3>1. prev >= b + blocks[b].size
      BY <1>2, <2>2, <2>3, <2>4, <2>6 DEF Bytes
    <3> QED BY <3>1, <1>1, <1>2, <1>3, <2>2, <2>3
  <2> QED BY <2>5, <2>6
<1> QED BY <1>2, <1>3, <1>5, <1>6, <1>7, <1>8

(* An object with an entry of its own, inside which no other entry begins,  *)
(* is accessible in full.                                                   *)
LEMMA ObjectAccessible ==
  ASSUME BlocksOK, NEW at \in DOMAIN blocks, ~blocks[at].freed, Clear(at, blocks[at].size),
         NEW a \in Bytes(at, blocks[at].size), NEW n \in Nat, a + n <= End(at)
  PROVE  Accepts(a, n)
<1> DEFINE next == upper_bound(a)
           before == DOMAIN blocks \ next
           prev == Max(before)
<1>1. at \in Nat /\ blocks[at].size \in Nat /\ End(at) = at + blocks[at].size
  BY EndIs
<1>2. a \in Int /\ at <= a /\ a < End(at)
  BY <1>1 DEF Bytes
<1>3. /\ before = {c \in DOMAIN blocks : c <= a}
      /\ before # {} => prev \in before /\ \A c \in before : c <= prev
  BY <1>2, Neighbours
<1>4. at \in before
  BY <1>2, <1>3
<1>5. /\ before # {} /\ prev \in DOMAIN blocks /\ prev <= a /\ at <= prev
  BY <1>3, <1>4
<1> HIDE DEF before, prev
<1>6. prev = at
  <2>1. prev \in Nat
    BY <1>5 DEF BlocksOK
  <2>2. prev \notin Bytes(at + 1, blocks[at].size - 1)
    BY <1>5 DEF Clear
  <2> QED BY <1>1, <1>2, <1>5, <2>1, <2>2 DEF Bytes
<1>7. a < End(prev) + shadow
  BY <1>1, <1>2, <1>6, AddressesAssumption
<1> QED BY <1>5, <1>6, <1>7 DEF Accepts, before, prev

(* What is further from all blocks than the red zone is not looked at.      *)
LEMMA FarAccessible ==
  ASSUME BlocksOK, NEW a \in Int, NEW n \in Nat,
         \A b \in DOMAIN blocks : a < b - shadow \/ a >= End(b) + shadow
  PROVE  Accepts(a, n)
<1> DEFINE next == upper_bound(a)
           before == DOMAIN blocks \ next
           prev == Max(before)
<1>1. /\ before = {c \in DOMAIN blocks : c <= a}
      /\ next = {c \in DOMAIN blocks : c > a}
      /\ before # {} => prev \in before /\ \A c \in before : c <= prev
      /\ next # {} => Min(next) \in next /\ \A c \in next : Min(next) <= c
  BY Neighbours DEF upper_bound
<1> HIDE DEF next, before, prev
<1>2. shadow \in Nat
  BY AddressesAssumption
<1>3. before # {} => ~(a < End(prev) + shadow)
  <2> SUFFICES ASSUME before # {} PROVE ~(a < End(prev) + shadow)
    OBVIOUS
  <2>1. prev \in DOMAIN blocks /\ prev <= a
    BY <1>1
  <2>2. prev \in Nat /\ End(prev) \in Nat
    BY <2>1, EndIs
  <2>3. ~(a < prev - shadow)
    BY <2>1, <2>2, <1>2
  <2> QED BY <2>1, <2>2, <2>3, <1>2
<1>4. next # {} => a < Min(next) - shadow
  <2> SUFFICES ASSUME next # {} PROVE a < Min(next) - shadow
    OBVIOUS
  <2>1. Min(next) \in DOMAIN blocks /\ Min(next) > a
    BY <1>1
  <2>2. Min(next) \in Nat /\ End(Min(next)) \in Nat /\ End(Min(next)) >= Min(next)
    BY <2>1, EndIs
  <2>3. ~(a >= End(Min(next)) + shadow)
    BY <2>1, <2>2, <1>2
  <2> QED BY <2>1, <2>3
<1> QED BY <1>3, <1>4 DEF Accepts, next, before, prev

(* Correct accesses pass where tracked objects have their entries.          *)
LEMMA EnteredAccessible ==
  ASSUME IInv, Entered
  PROVE  NoFalseAlarm
<1>1. BlocksOK
  BY DEF IInv, TypeOK
<1>2. Sizes \subseteq Nat /\ Heap \subseteq Nat /\ Stack \subseteq Nat
  BY AddressesAssumption
<1>3. ASSUME ~aborted, NEW o \in objs, o.tracked, Clear(o.at, o.size),
             NEW a \in Bytes(o.at, o.size), NEW n \in Sizes \ {0}, a + n <= o.at + o.size
      PROVE  Accepts(a, n)
  <2>1. o.at \in DOMAIN blocks /\ blocks[o.at] = [size |-> o.size, freed |-> FALSE]
    BY <1>3 DEF Entered
  <2>2. blocks[o.at].size = o.size /\ ~blocks[o.at].freed
    BY <2>1
  <2>3. End(o.at) = o.at + o.size
    BY <2>2 DEF End
  <2>4. n \in Nat
    BY <1>2
  <2> QED BY <1>1, <1>3, <2>1, <2>2, <2>3, <2>4, ObjectAccessible
<1>4. ASSUME NEW a \in Heap \cup Stack, NEW n \in Sizes,
             \A b \in DOMAIN blocks : a < b - shadow \/ a >= End(b) + shadow
      PROVE  Accepts(a, n)
  <2>1. a \in Int /\ n \in Nat
    BY <1>2
  <2> QED BY <1>1, <1>4, <2>1, FarAccessible
<1> QED BY <1>3, <1>4 DEF NoFalseAlarm

-----------------------------------------------------------------------------
(* The results.                                                             *)

(* The invariant holds in every state of every program the pass has         *)
(* instrumented, whatever it allocates, frees and accesses.                 *)
THEOREM MemorySafetyInvariance == Spec => []IInv
<1>1. IInv /\ [Next]_vars => IInv'
  BY StepInv
<1> QED BY InitInv, <1>1, PTL DEF Spec

(* __runtime_free hands std::free blocks in use only, and none twice; what  *)
(* slips through is a stack object's address or a block freed behind the    *)
(* runtime's back.                                                          *)
THEOREM FreesAreSound == Spec => []FreesBlocksInUse
<1>1. IInv => FreesBlocksInUse
  BY DEF IInv
<1> QED BY <1>1, MemorySafetyInvariance, PTL

(* Accesses to freed blocks, across the end of a block and into the red     *)
(* zones end the program.                                                   *)
THEOREM ErrorsAlwaysCaught == Spec => []ErrorsCaught
<1>1. IInv => ErrorsCaught
  BY ChecksCatch DEF IInv, TypeOK
<1> QED BY <1>1, MemorySafetyInvariance, PTL

(* Correct accesses pass, if no object is empty: an empty local variable    *)
(* may share its address with another one, and its registration then        *)
(* replaces the other's.                                                    *)
THEOREM NoFalseAlarms ==
  ASSUME 0 \notin Sizes
  PROVE  Spec => []NoFalseAlarm
<1>1. Init => Entered
  BY DEF Init, Entered
<1>2. IInv /\ Entered /\ [Next]_vars => IInv' /\ Entered'
  BY StepInv
<1>3. IInv /\ Entered => NoFalseAlarm
  BY EnteredAccessible
<1> QED BY InitInv, <1>1, <1>2, <1>3, PTL DEF Spec
=============================================================================
