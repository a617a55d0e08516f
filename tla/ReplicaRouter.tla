--------------------------- MODULE ReplicaRouter ---------------------------
(***************************************************************************)
(* NovaDatabaseRouter in one process: a thread-local wish to read from the *)
(* replica, and a replication lag all threads share, fetched from Redis by *)
(* whoever finds it older than the interval.                               *)
(*                                                                         *)
(* What each thread does between two accesses to the shared tracker is one *)
(* step; a fetch takes as long as Redis does.                              *)
(***************************************************************************)
EXTENDS Integers

CONSTANTS
    Threads,
    Lags,        \* what the monitor may report, in any unit
    MaxLag,      \* replica_max_lag_ms, in the same unit
    Unbounded,   \* float("inf")
    Interval,    \* replica_lag_check_interval_ms, in ticks of the clock
    Uptime,      \* time.monotonic() when the process starts
    MaxTime,     \* bound: the clock stops there
    MaxDepth,    \* bound: nested using_replica() blocks
    None         \* no thread, no value in Redis

ASSUME LagsAssumption == Lags \subseteq Nat /\ Unbounded \in Nat /\ MaxLag \in 0..(Unbounded - 1)
ASSUME TimeAssumption == Interval \in Nat \ {0} /\ Uptime \in Nat /\ Uptime >= Interval
ASSUME ThreadsAssumption == None \notin Threads /\ None \notin Nat

VARIABLES
    monotonic,   \* time.monotonic()
    reported,    \* nova:replica_lag in Redis
    lag,         \* _lag_ms
    lastCheck,   \* _last_check_ts
    holder,      \* the thread inside `with self._lock'
    flag,        \* _thread_locals.use_replica
    where, asked, \* where a thread is in get_lag(), and its `now'
    depth,       \* the using_replica() blocks a thread is in
    wrote,       \* history: it has written since it entered the last of them
    route,       \* history: the database of its last read
    fetched,     \* history: the `now' of the last fetch that ended
    answered     \* history: Redis has answered a fetch

tracker    == <<lag, lastCheck, holder, fetched, answered>>
request    == <<flag, depth, wrote>>
routerVars == <<monotonic, reported, tracker, request, where, asked, route>>

Stays == UNCHANGED <<monotonic, reported>>

----------------------------------------------------------------------------
(* The thread-local flag.                                                  *)

UsingReplica(t) ==
    /\ where[t] = "idle" /\ depth[t] < MaxDepth
    /\ depth' = [depth EXCEPT ![t] = @ + 1]
    /\ flag' = [flag EXCEPT ![t] = TRUE]
    /\ wrote' = [wrote EXCEPT ![t] = FALSE]
    /\ UNCHANGED <<tracker, where, asked, route>> /\ Stays

\* Wrong: the block that encloses this one gets its flag back.
Restored(t) == depth[t] > 1

\* The flag is cleared, whether or not another block encloses this one.
Cleared(t) == FALSE

LeaveBlock(t) ==
    /\ where[t] = "idle" /\ depth[t] > 0
    /\ depth' = [depth EXCEPT ![t] = @ - 1]
    /\ flag' = [flag EXCEPT ![t] = Cleared(t)]
    /\ UNCHANGED <<tracker, wrote, where, asked, route>> /\ Stays

DbForWrite(t) ==
    /\ where[t] = "idle"
    /\ flag' = [flag EXCEPT ![t] = FALSE]
    /\ wrote' = [wrote EXCEPT ![t] = TRUE]
    /\ UNCHANGED <<tracker, depth, where, asked, route>> /\ Stays

----------------------------------------------------------------------------
(* db_for_read() and the lag it asks for.                                  *)

DbForRead(t) ==
    /\ where[t] = "idle"
    /\ IF flag[t]
       THEN /\ where' = [where EXCEPT ![t] = "ask"]
            /\ asked' = [asked EXCEPT ![t] = monotonic]
            /\ UNCHANGED route
       ELSE route' = [route EXCEPT ![t] = "master"] /\ UNCHANGED <<where, asked>>
    /\ UNCHANGED <<tracker, request>> /\ Stays

Elapsed(t) == asked[t] - lastCheck >= Interval

FastPath(t) ==
    /\ where[t] = "ask"
    /\ where' = [where EXCEPT ![t] = IF Elapsed(t) THEN "wait" ELSE "decide"]
    /\ UNCHANGED <<tracker, request, asked, route>> /\ Stays

\* Wrong: no second look after waiting for the lock.
AlwaysAgain(t) == TRUE

\* The time may have been checked while this thread waited.
Again(t) == Elapsed(t)

\* Wrong: the time of the next check.
NextCheck(t) == asked[t] + Interval

CheckedAt(t) == asked[t]

SlowPath(t) ==
    /\ where[t] = "wait" /\ holder = None
    /\ IF Again(t)
       THEN /\ lastCheck' = CheckedAt(t)
            /\ holder' = t
            /\ where' = [where EXCEPT ![t] = "fetch"]
       ELSE where' = [where EXCEPT ![t] = "decide"] /\ UNCHANGED <<lastCheck, holder>>
    /\ UNCHANGED <<lag, fetched, answered, request, asked, route>> /\ Stays

\* Redis answers, a missing value counting as no lag, or the call raises.
Fetch(t) ==
    /\ where[t] = "fetch"
    /\ \/ lag' = (IF reported = None THEN 0 ELSE reported) /\ answered' = TRUE
       \/ lag' = Unbounded /\ UNCHANGED answered
    /\ fetched' = asked[t]
    /\ holder' = None
    /\ where' = [where EXCEPT ![t] = "decide"]
    /\ UNCHANGED <<lastCheck, request, asked, route>> /\ Stays

Decide(t) ==
    /\ where[t] = "decide"
    /\ route' = [route EXCEPT ![t] = IF lag <= MaxLag THEN "replica" ELSE "master"]
    /\ where' = [where EXCEPT ![t] = "idle"]
    /\ UNCHANGED <<tracker, request, asked>> /\ Stays

----------------------------------------------------------------------------
(* The monitor, the TTL of its report, and time.                           *)

Report(l) == reported' = l /\ UNCHANGED <<monotonic, tracker, request, where, asked, route>>

ReportExpires == reported' = None /\ UNCHANGED <<monotonic, tracker, request, where, asked, route>>

TimePasses ==
    /\ monotonic < MaxTime
    /\ monotonic' = monotonic + 1
    /\ UNCHANGED <<reported, tracker, request, where, asked, route>>

----------------------------------------------------------------------------

RouterInit ==
    /\ monotonic = Uptime /\ reported = None
    /\ lag = 0 /\ lastCheck = 0 /\ holder = None
    /\ fetched = 0 /\ answered = FALSE
    /\ flag  = [t \in Threads |-> FALSE]
    /\ depth = [t \in Threads |-> 0]
    /\ wrote = [t \in Threads |-> FALSE]
    /\ where = [t \in Threads |-> "idle"]
    /\ asked = [t \in Threads |-> 0]
    /\ route = [t \in Threads |-> "master"]

Read(t) == DbForRead(t) \/ FastPath(t) \/ SlowPath(t) \/ Fetch(t) \/ Decide(t)

RouterNext ==
    \/ \E t \in Threads : UsingReplica(t) \/ LeaveBlock(t) \/ DbForWrite(t) \/ Read(t)
    \/ \E l \in Lags : Report(l)
    \/ ReportExpires \/ TimePasses

RouterSpec == RouterInit /\ [][RouterNext]_routerVars

----------------------------------------------------------------------------
(* Properties.                                                             *)

RouterTypeOK ==
    /\ monotonic \in Nat /\ reported \in Lags \cup {None}
    /\ lag \in Lags \cup {0, Unbounded} /\ lastCheck \in 0..monotonic
    /\ holder \in Threads \cup {None} /\ fetched \in 0..monotonic /\ answered \in BOOLEAN
    /\ flag \in [Threads -> BOOLEAN] /\ wrote \in [Threads -> BOOLEAN]
    /\ depth \in [Threads -> Nat] /\ asked \in [Threads -> 0..monotonic]
    /\ where \in [Threads -> {"idle", "ask", "wait", "fetch", "decide"}]
    /\ route \in [Threads -> {"master", "replica"}]

\* A read decides on a lag fetched less than an interval before it asked, or
\* another thread is fetching one that recent and this one uses what was there.
FreshLag ==
    \A t \in Threads :
        where[t] = "decide" =>
            \/ asked[t] - fetched < Interval
            \/ \E f \in Threads : where[f] = "fetch" /\ asked[t] - asked[f] < Interval

\* Whatever threads wait for the lock, and with whatever `now' they come out,
\* checks follow each other at least an interval apart, one at a time.
OneFetchPerInterval == [][lastCheck' # lastCheck => lastCheck' - lastCheck >= Interval]_routerVars

\* Only a thread inside using_replica() reads from the replica, and not after a
\* write, until it enters another block.
ReadsOwnWrites ==
    \A t \in Threads : flag[t] => depth[t] > 0 /\ ~wrote[t]

\* "If Redis is unreachable, we assume replica is unhealthy ... Route all traffic
\* to Master": nobody reads from the replica before Redis has answered once.
FailSafe == ~answered => \A t \in Threads : route[t] = "master"
=============================================================================
