---------------------------- MODULE MCRateLimiter ----------------------------
(* Interchangeable requests.                                                *)
EXTENDS RateLimiter, TLC

CONSTANTS q1, q2, q3

Alike == Permutations(Requests)
=============================================================================
