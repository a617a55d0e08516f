---------------------------- MODULE MCLocalCache ----------------------------
(* Two threads, three querysets, one of which joins both models, and room   *)
(* for two results.                                                         *)
EXTENDS LocalCache, TLC

CONSTANTS t1, t2, ma, mb, qa, qb, qab

Joined == (qa :> {ma}) @@ (qb :> {mb}) @@ (qab :> {ma, mb})

Alike == Permutations(Threads)
=============================================================================
