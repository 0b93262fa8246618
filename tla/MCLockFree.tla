------------------------------ MODULE MCLockFree -----------------------------
(* A small instance of the lock-free hashmap with its linearizations.  No  *)
(* symmetry: the run checks liveness.                                      *)
EXTENDS LockFreeHashMapLin, TLC

\* With an 8-bit unsigned long and three buckets, 0 and -1 (that is, 255)
\* share bucket 0.
SmallValues == {0, -1}

\* Bound: the first calls may be about either value, later ones are about 0.
CONSTANT MixedCalls
FewMixedCalls == \A t \in Threads : Invoked(t) /\ calls >= MixedCalls => val'[t] = 0

MCSpec == LinInit /\ [][LinNext /\ FewMixedCalls]_<<vars, witness>> /\ Fairness
=============================================================================
