---------------------------- MODULE RateLimiter ----------------------------
(***************************************************************************)
(* check_rate_limit() and async_check_rate_limit(): a sliding window kept  *)
(* as a sorted set of request ids in Redis, by a script that prunes,       *)
(* counts and adds atomically.                                             *)
(*                                                                         *)
(* The script does not read Redis's clock: a request carries the time of   *)
(* its process, taken before the call, so that it is late by the time the  *)
(* call takes and wrong by as much as the clocks of the processes differ.  *)
(***************************************************************************)
EXTENDS Integers, FiniteSets

CONSTANTS
    Requests,    \* the calls under one key, of any processes
    Limit,       \* limit
    Window,      \* window_secs
    Latency,     \* the script runs no later than this after time.time(), retries included
    Drift,       \* clocks are at most this far from the time of Redis
    Opening,     \* the time at which the model starts
    Closing      \* bound: the time at which it stops

ASSUME RequestsAssumption == IsFiniteSet(Requests)
ASSUME LimitAssumption == Limit \in Nat /\ Window \in Nat \ {0}
ASSUME ClockAssumption == /\ Latency \in Nat /\ Drift \in Nat
                          /\ Opening \in Nat /\ Closing \in Nat
                          /\ Opening >= Window + Drift

VARIABLES
    clock,       \* the time of Redis
    window,      \* the members of the sorted set
    gone,        \* when the set expires as a whole
    at,          \* where a request is
    called,      \* when it read its clock ...
    now,         \* ... and what it read, the score of its member
    admitted     \* history: when the script last answered ALLOWED

limiterVars == <<clock, window, gone, at, called, now, admitted>>

----------------------------------------------------------------------------

Call(r) ==
    /\ at[r] = "new"
    /\ at' = [at EXCEPT ![r] = "sent"]
    /\ called' = [called EXCEPT ![r] = clock]
    /\ \E d \in -Drift..Drift : now' = [now EXCEPT ![r] = clock + d]
    /\ UNCHANGED <<clock, window, gone, admitted>>

\* Wrong: old members are left to EXPIRE.
Unpruned(r) == window

\* ZREMRANGEBYSCORE key 0 (now - window)
Pruned(r) == {q \in window : now[q] > now[r] - Window}

\* Wrong: one member too many.
AtMost(members) == Cardinality(members) <= Limit

Below(members) == Cardinality(members) < Limit

Allows(r) ==
    /\ Below(Pruned(r))
    /\ window' = Pruned(r) \cup {r}
    /\ gone' = clock + Window
    /\ admitted' = [admitted EXCEPT ![r] = clock]

Rejects(r) ==
    /\ ~Below(Pruned(r))
    /\ window' = Pruned(r)
    /\ UNCHANGED <<gone, admitted>>

\* The script runs and its reply arrives.
Allowed(r) ==
    /\ at[r] = "sent"
    /\ Allows(r)
    /\ at' = [at EXCEPT ![r] = "allowed"]
    /\ UNCHANGED <<clock, called, now>>

Rejected(r) ==
    /\ at[r] = "sent"
    /\ Rejects(r)
    /\ at' = [at EXCEPT ![r] = "rejected"]
    /\ UNCHANGED <<clock, called, now>>

\* The reply is lost: the client repeats the call, with the same id and time.
ReplyLost(r) ==
    /\ at[r] = "sent"
    /\ Allows(r) \/ Rejects(r)
    /\ UNCHANGED <<clock, at, called, now>>

\* The call raises for good.
RequestRaises(r) ==
    /\ at[r] = "sent"
    /\ at' = [at EXCEPT ![r] = "failed"]
    /\ UNCHANGED <<clock, window, gone, called, now, admitted>>

\* Time passes, no further than Latency allows while a call is on its way.
Tick ==
    /\ clock < Closing
    /\ \A r \in Requests : at[r] = "sent" => clock < called[r] + Latency
    /\ clock' = clock + 1
    /\ window' = IF clock' >= gone THEN {} ELSE window
    /\ UNCHANGED <<gone, at, called, now, admitted>>

----------------------------------------------------------------------------

LimiterInit ==
    /\ clock = Opening /\ window = {} /\ gone = 0
    /\ at       = [r \in Requests |-> "new"]
    /\ called   = [r \in Requests |-> 0]
    /\ now      = [r \in Requests |-> 0]
    /\ admitted = [r \in Requests |-> 0]

LimiterNext ==
    \/ \E r \in Requests : Call(r) \/ Allowed(r) \/ Rejected(r) \/ ReplyLost(r) \/ RequestRaises(r)
    \/ Tick

LimiterSpec == LimiterInit /\ [][LimiterNext]_limiterVars

----------------------------------------------------------------------------
(* Properties.                                                             *)

LimiterTypeOK ==
    /\ clock \in Nat /\ gone \in Nat /\ window \subseteq Requests
    /\ at \in [Requests -> {"new", "sent", "allowed", "rejected", "failed"}]
    /\ called \in [Requests -> Nat] /\ now \in [Requests -> Nat]
    /\ admitted \in [Requests -> Nat]

\* What is left of the window when the latest call meets the fastest clock.
Certain == Window - Latency - 2 * Drift

AdmittedIn(from, to) == {r \in Requests : admitted[r] > 0 /\ admitted[r] \in from..to}

\* However calls are delayed, repeated and wrong about the time, no more than
\* Limit requests are allowed in a stretch of time shorter than Certain.
LimitKept ==
    \A r \in Requests :
        admitted[r] > 0 =>
            Cardinality(AdmittedIn(admitted[r], admitted[r] + Certain - 1)) <= Limit

\* A request is turned away only if Limit others, or itself before a retry, were
\* allowed recently: nobody is held off by what left the window long ago.
RejectionsJustified ==
    [][\A r \in Requests :
         at[r] = "sent" /\ at'[r] = "rejected" =>
            Cardinality(AdmittedIn(clock - Window - Latency - 2 * Drift, clock)) >= Limit]_limiterVars

----------------------------------------------------------------------------
(* The inductive invariant.                                                *)

\* A clock is read within Drift, and a script runs within Latency of it.
ClocksInv ==
    /\ clock >= Opening
    /\ \A r \in Requests :
        /\ at[r] # "new" => now[r] \in (called[r] - Drift)..(called[r] + Drift)
        /\ called[r] <= clock
        /\ at[r] = "sent" => clock <= called[r] + Latency
        /\ admitted[r] # 0 =>
             /\ at[r] # "new" /\ gone >= admitted[r] + Window
             /\ admitted[r] \in called[r]..(called[r] + Latency) /\ admitted[r] <= clock

\* The sorted set holds at most Limit members, all of them once allowed, and
\* those that have been allowed recently are among them.
WindowInv ==
    /\ Cardinality(window) <= Limit
    /\ \A r \in window : admitted[r] # 0
    /\ \A r \in Requests : admitted[r] # 0 /\ clock - admitted[r] < Certain => r \in window

LimiterInv == LimiterTypeOK /\ ClocksInv /\ WindowInv
=============================================================================
