--------------------------- MODULE ChashmapContract --------------------------
(***************************************************************************)
(* The operations of include/chashmap.h as functions on a bag of values:   *)
(* what one call, executed alone, may return and how it changes the map.   *)
(***************************************************************************)
EXTENDS Integers

CONSTANT Values

Ops             == {"insert", "remove", "lookup"}
Idle            == <<"idle">>
Pending(op, v)  == <<"pending", op, v>>
Done(r)         == <<"done", r>>
PendingCalls    == {Pending(op, v) : op \in Ops, v \in Values}
Calls           == {Idle} \cup PendingCalls \cup {Done(0), Done(1)}

EmptyBag == [v \in Values |-> 0]

(* The results the header allows for one call on bag b, and their effect:  *)
(* insert_item returns 0, or 1 if no memory could be allocated;            *)
(* remove_item removes one occurrence, or returns 1 if there is none;      *)
(* lookup_item returns 0 if the value is there and 1 otherwise.            *)
Outcomes(b, c) ==
    LET op == c[2]
        v  == c[3]
    IN  {o \in [bag : {b, [b EXCEPT ![v] = @ + 1], [b EXCEPT ![v] = @ - 1]},
                ret : {0, 1}] :
            \/ op = "insert" /\ o.ret = 0 /\ o.bag = [b EXCEPT ![v] = @ + 1]
            \/ op = "insert" /\ o.ret = 1 /\ o.bag = b
            \/ op = "remove" /\ o.ret = 0 /\ b[v] > 0 /\ o.bag = [b EXCEPT ![v] = @ - 1]
            \/ op = "remove" /\ o.ret = 1 /\ b[v] = 0 /\ o.bag = b
            \/ op = "lookup" /\ o.ret = 0 /\ b[v] > 0 /\ o.bag = b
            \/ op = "lookup" /\ o.ret = 1 /\ b[v] = 0 /\ o.bag = b}
=============================================================================
