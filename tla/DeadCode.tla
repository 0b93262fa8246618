------------------------------ MODULE DeadCode ------------------------------
(***************************************************************************)
(* The dead-code-elimination pass of task07 (DeadCodeElimination.cpp) on    *)
(* functions of an entry block and a block after it that may be a loop of   *)
(* its own.  An instruction accesses a stack slot: a store, a load whose    *)
(* result is used or not, a use of the slot's address, or a copy (a load    *)
(* whose result only the store after it uses).  The value of a store is its *)
(* place in the function, so that a load tells which store it reads.        *)
(* Every access covers the whole slot: the pass does not compare sizes, and *)
(* a narrower store (a member of a union) would hide the one before it.     *)
(* Branches and empty blocks (lines 26-50) are left to LLVM.                *)
(***************************************************************************)
EXTENDS Naturals, Sequences, SequencesExt, FiniteSets

CONSTANTS Slots, UNDEF,
          MaxEntry, MaxBody,   \* bounds: instructions of the two blocks
          MaxTrips             \* bound: executions of the second block

VARIABLES original, function,  \* the function before the pass, and now
          pass                 \* "running" or "done"
passVars == <<original, function, pass>>

Code ==
    {<<[op |-> op, slot |-> s]>> : op \in {"store", "load", "unused", "address"}, s \in Slots}
    \union {<<[op |-> "feed", slot |-> s], [op |-> "fed", slot |-> t]>> : s \in Slots, t \in Slots}
Codes(n) == {FlattenSeq(c) : c \in UNION {[1 .. k -> Code] : k \in 0 .. n}}
Numbered(block, code) ==
    [n \in DOMAIN code |-> [op |-> code[n].op, slot |-> code[n].slot, id |-> <<block, n>>]]

PassInit ==
    /\ \E entry \in Codes(MaxEntry), body \in Codes(MaxBody) :
          original = <<Numbered(1, entry), Numbered(2, body)>>
    /\ function = original /\ pass = "running"

Stores == {"store", "fed"}
Loads == {"load", "unused", "feed"}

(* isInstructionTriviallyDead (external): a load whose result nothing uses, *)
(* or nothing any more.                                                     *)
TriviallyDead(block, n) ==
    \/ block[n].op = "unused"
    \/ block[n].op = "feed" /\ ~(n < Len(block) /\ block[n + 1].op = "fed")

Without(block, dead) ==
    LET kept == SelectSeq([n \in DOMAIN block |-> n], LAMBDA n : n \notin dead)
    IN  [k \in DOMAIN kept |-> block[kept[k]]]

eliminateDeadInstructions(f) ==
    [b \in DOMAIN f |-> Without(f[b], {n \in DOMAIN f[b] : TriviallyDead(f[b], n)})]

(* The direct accesses to a slot in a block.                                *)
SlotInsts(block, slot) ==
    {n \in DOMAIN block : block[n].slot = slot /\ block[n].op \in Stores \union Loads}

Uses(block, slot) == {n \in DOMAIN block : block[n].slot = slot}
NumUses(f, slot) == Cardinality(Uses(f[1], slot)) + Cardinality(Uses(f[2], slot))

(* The walk backwards: the value stored at n is needed if a load comes      *)
(* before the next store.                                                   *)
NeededForwards(block, n) ==
    \E l \in SlotInsts(block, block[n].slot) :
        /\ l < n /\ block[l].op \in Loads
        /\ \A s \in SlotInsts(block, block[n].slot) : l < s /\ s < n => block[s].op \in Loads
ValueNeeded(block, n) ==
    \E l \in SlotInsts(block, block[n].slot) :
        /\ n < l /\ block[l].op \in Loads
        /\ \A s \in SlotInsts(block, block[n].slot) : n < s /\ s < l => block[s].op \in Loads

eliminateDeadStores(f) ==
    LET DeadStore(block, n) ==
            /\ block[n].op \in Stores /\ ~ValueNeeded(block, n)
            /\ NumUses(f, block[n].slot) = Cardinality(SlotInsts(block, block[n].slot))
    IN  [b \in DOMAIN f |-> Without(f[b], {n \in DOMAIN f[b] : DeadStore(f[b], n)})]

(* run: once more as long as something has changed.                         *)
Round == eliminateDeadStores(eliminateDeadInstructions(function))
RunPass ==
    /\ pass = "running"
    /\ function' = Round
    /\ pass' = IF Round = function THEN "done" ELSE "running"
    /\ UNCHANGED original

PassNext == RunPass

-----------------------------------------------------------------------------
(* Executing the entry block and then the other one the given times: what   *)
(* used loads and uses of an address see, with their places.                *)
Executed(f, trips) == f[1] \o FlattenSeq([n \in 1 .. trips |-> f[2]])
Execute(state, i) ==
    CASE i.op = "store" -> [state EXCEPT !.mem[i.slot] = i.id]
      [] i.op = "feed" -> [state EXCEPT !.copied = state.mem[i.slot]]
      [] i.op = "fed" -> [state EXCEPT !.mem[i.slot] = state.copied]
      [] i.op = "unused" -> state
      [] OTHER -> [state EXCEPT !.seen = Append(@, <<i.id, state.mem[i.slot]>>)]
Seen(f, trips) ==
    FoldLeft(Execute, [mem |-> [s \in Slots |-> UNDEF], copied |-> UNDEF, seen |-> <<>>],
             Executed(f, trips)).seen

(* A slot that only the second block accesses, and whose value it reads     *)
(* before it stores one: the value of the trip before.                      *)
CarriedAround(f, slot) ==
    /\ NumUses(f, slot) = Cardinality(SlotInsts(f[2], slot))
    /\ \E n \in SlotInsts(f[2], slot) :
          f[2][n].op \in Loads /\ \A m \in SlotInsts(f[2], slot) : m < n => f[2][m].op \in Loads

(* After every round each use sees the value it saw in the original         *)
(* function (DeadCodeElimination.cpp:60, 90), in every number of trips; if  *)
(* the second block is a loop, unless it carries a slot around.             *)
SameValuesSeen ==
    \A trips \in 0 .. MaxTrips :
        (trips > 1 => \A s \in Slots : ~CarriedAround(function, s)) =>
            Seen(function, trips) = Seen(original, trips)
=============================================================================
