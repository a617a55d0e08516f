--------------------------- MODULE MCReplicaRouter ---------------------------
(* Interchangeable threads; a lag below the threshold and one above it.     *)
EXTENDS ReplicaRouter, TLC

CONSTANTS r1, r2, r3

Alike == Permutations(Threads)
=============================================================================
