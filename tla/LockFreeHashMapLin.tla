------------------------- MODULE LockFreeHashMapLin --------------------------
(***************************************************************************)
(* Linearizability of the lock-free hashmap.  A removal cannot be given a  *)
(* fixed linearization point (a removal that marks an old node after a new *)
(* one with the same value was inserted may have to be ordered before that *)
(* insertion), so the possible orders are tracked instead of one: witness  *)
(* is the set of all states of the abstract map (HashBag) that some       *)
(* linearization of the calls and returns seen so far can be in.           *)
(***************************************************************************)
EXTENDS LockFreeHashMap, FiniteSets

VARIABLE witness

Map == INSTANCE ChashmapContract

(* The abstract state reached by a call that takes effect.                 *)
Performed(w, t) ==
    {[bag  |-> o.bag, call |-> [w.call EXCEPT ![t] = Map!Done(o.ret)]] :
        o \in Map!Outcomes(w.bag, w.call[t])}

PendingIn(w) ==
    {t \in Threads : w.call[t] \in Map!PendingCalls}

(* Any of the pending calls may take effect now, in any order.             *)
Linearize(ws) ==
    LET L[k \in 0 .. Cardinality(Threads)] ==
          IF k = 0 THEN ws
          ELSE L[k - 1] \cup UNION {UNION {Performed(w, t) : t \in PendingIn(w)} :
                                       w \in L[k - 1]}
    IN  L[Cardinality(Threads)]

OpOf(entry) ==
    CASE entry = "insert_load" -> "insert"
      [] entry = "remove_load" -> "remove"
      [] entry = "lookup_load" -> "lookup"

Invoked(t)  == pc[t] = "idle" /\ pc'[t] # "idle"
Returned(t) == pc[t] # "idle" /\ pc'[t] = "idle"

WithCall(ws, t, c) == {[w EXCEPT !.call[t] = c] : w \in ws}

(* A call adds a pending call; a return keeps the abstract states in which *)
(* the call took effect with the result that was returned.                 *)
Observe ==
    \/ \E t \in Threads :
          /\ Invoked(t)
          /\ witness' = Linearize(WithCall(witness, t, Map!Pending(OpOf(pc'[t]), val'[t])))
    \/ \E t \in Threads :
          /\ Returned(t)
          /\ witness' = WithCall({w \in witness : w.call[t] = Map!Done(ret'[t])}, t, Map!Idle)
    \/ /\ \A t \in Threads : ~Invoked(t) /\ ~Returned(t)
       /\ UNCHANGED witness

LinInit == Init /\ witness = {[bag |-> Map!EmptyBag, call |-> [t \in Threads |-> Map!Idle]]}
LinNext == Next /\ Observe
LinSpec == LinInit /\ [][LinNext]_<<vars, witness>>

(* A thread that is inside a call keeps running.                           *)
Fairness == \A t \in Threads : WF_vars(Step(t))
-----------------------------------------------------------------------------
(* Linearizability: there always is an order of the calls, consistent with *)
(* real time, in which every result returned so far is the one the bag of  *)
(* chashmap.h gives.                                                       *)
Linearizable == witness # {}

(* Every call returns, whatever the other threads do, provided that they   *)
(* make finitely many calls (MaxCalls here, after which all threads are    *)
(* idle for good): a CAS that fails again and again means that other calls *)
(* succeed, and a walk along links that change under it comes to an end.   *)
EveryCallReturns == <>[](\A t \in Threads : pc[t] = "idle")
=============================================================================
