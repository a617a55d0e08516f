--------------------------- MODULE MCTaskEngine ---------------------------
(* Two workers and two tasks, one of them delayed, the other retried.      *)
EXTENDS TaskEngine

CONSTANTS t1, t2, w1, w2, c1, c2

\* t2 may be tried twice.
OneRetry == [t \in Tasks |-> IF t = t2 THEN 1 ELSE 0]
=============================================================================
