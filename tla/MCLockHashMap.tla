---------------------------- MODULE MCLockHashMap ----------------------------
(* Small instances of the lock-based hashmap.                              *)
EXTENDS LockHashMap, TLC

\* With an 8-bit unsigned long and two buckets, 0 and 2 share bucket 0 and
\* -1 (that is, 255) is alone in bucket 1.
SmallValues == {0, 2, -1}

Symmetry == Permutations(Threads)
=============================================================================
