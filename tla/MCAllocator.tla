----------------------------- MODULE MCAllocator -----------------------------
(* Small instances of the allocator.                                       *)
EXTENDS Allocator, TLC

Symmetry == Permutations(Threads)
=============================================================================
