--------------------------- MODULE MCSharedCache ---------------------------
(* Two processes that share a backend, or two threads of one process.      *)
EXTENDS SharedCacheInvariant, TLC

CONSTANTS p1, p2, a, b, s1, s2, q1

\* Each process runs one thread, named after it.
OneThreadEach == [t \in Threads |-> t]

\* All threads belong to p1.
OneProcess == [t \in Threads |-> p1]

\* Every queryset depends on every scope.
AllScopes == [q \in Queries |-> Scopes]

Interchangeable == Permutations({p1, p2}) \cup Permutations({a, b})
=============================================================================
