------------------------------- MODULE HashBag -------------------------------
(***************************************************************************)
(* What include/chashmap.h promises of a hashmap, lock-based or lock-free: *)
(* a bag of values on which every call takes effect at one instant between *)
(* its invocation and its return.                                          *)
(***************************************************************************)
EXTENDS ChashmapContract

CONSTANT Threads

VARIABLES
    bag,    \* how often each value is in the map
    call    \* idle, a pending call, or a call that took effect

vars == <<bag, call>>

Init ==
    /\ bag = EmptyBag
    /\ call = [t \in Threads |-> Idle]

Invoke(t, op, v) ==
    /\ call[t] = Idle
    /\ call' = [call EXCEPT ![t] = Pending(op, v)]
    /\ UNCHANGED bag

Perform(t) ==
    /\ call[t] \in PendingCalls
    /\ \E o \in Outcomes(bag, call[t]) :
          /\ bag' = o.bag
          /\ call' = [call EXCEPT ![t] = Done(o.ret)]

Return(t) ==
    /\ call[t] \in {Done(0), Done(1)}
    /\ call' = [call EXCEPT ![t] = Idle]
    /\ UNCHANGED bag

Next ==
    \E t \in Threads :
        \/ \E op \in Ops, v \in Values : Invoke(t, op, v)
        \/ Perform(t)
        \/ Return(t)

Spec == Init /\ [][Next]_vars
=============================================================================
