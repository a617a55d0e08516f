------------------------- MODULE MCDistributedLock -------------------------
(* Interchangeable users of one lock.                                      *)
EXTENDS DistributedLock, TLC

CONSTANTS u1, u2, u3

Alike == Permutations(Users)
=============================================================================
