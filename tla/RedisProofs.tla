----------------------------- MODULE RedisProofs -----------------------------
(***************************************************************************)
(* The two coordination primitives Nova builds on one Redis key each, and  *)
(* the router, which reads a third one.                                    *)
(*                                                                         *)
(* The lock excludes, for any number of users, instances and faults.       *)
(* LockInv is inductive: identifiers are never shared (OwnLocks), so that  *)
(* a late or repeated script can only delete the key of an instance whose  *)
(* user has left (LateScripts), and a user inside whose lease has not run  *)
(* out is the owner of the key (LeaseHeld).                                *)
(*                                                                         *)
(* The sliding window keeps its limit, for any number of requests, any     *)
(* limit, window, latency and drift.  What the script prunes was scored a  *)
(* window before the pruning request read its clock.  With ClocksInv this  *)
(* bounds when it had been allowed: at least Certain ago, so that the set  *)
(* still holds whoever was allowed more recently (WindowInv), and its size *)
(* bounds how many that are.                                               *)
(*                                                                         *)
(* The router decides on a fresh lag, for any number of threads, any lags  *)
(* and however long the process runs.  FreshLag speaks of the last fetch   *)
(* that ended, while a decision is taken on the time of the last check.    *)
(* TrackerInv relates the two: they are equal unless a thread is fetching, *)
(* and then the check is that thread's; and a thread which decides has     *)
(* found the last check to be recent, which later checks can only make     *)
(* more recent.                                                            *)
(***************************************************************************)
EXTENDS DistributedLock, RateLimiter, ReplicaRouter, FiniteSetTheorems, TLAPS

----------------------------------------------------------------------------
(* AsyncDistributedLock.                                                   *)

\* Every step keeps the variables in their types.
LEMMA TypesStay == ASSUME TypeOK, [Next]_vars PROVE TypeOK'
<1>. USE LockBounds DEF TypeOK, Locks, Places, Command, Nobody, Goto
<1>1. CASE UNCHANGED vars
  BY <1>1 DEF vars
<1>2. ASSUME NEW u \in Users, NewLock(u)
      PROVE  TypeOK'
  BY <1>2 DEF NewLock
<1>3. ASSUME NEW u \in Users, SameLock(u)
      PROVE  TypeOK'
  BY <1>3 DEF SameLock
<1>4. ASSUME NEW u \in Users, Set(u)
      PROVE  TypeOK'
  BY <1>4 DEF Set, SetNX
<1>5. ASSUME NEW u \in Users, SetRaises(u)
      PROVE  TypeOK'
  <2>. lock[u] \in Locks
    BY <1>5 DEF SetRaises
  <2>1. /\ owner' \in 0..MaxLocks /\ late' \subseteq Command
        /\ tainted' \subseteq Locks /\ faults' \in Nat
    <3>1. [op |-> "SET", by |-> lock[u]] \in Command
      OBVIOUS
    <3>2. owner' \in {owner, lock[u], Nobody}
      BY <1>5 DEF SetRaises, Raises, SetNX
    <3>3. late' \subseteq late \cup {[op |-> "SET", by |-> lock[u]]}
      BY <1>5 DEF SetRaises, Raises
    <3>4. tainted' = tainted \cup {lock[u]} /\ faults' = faults + 1
      BY <1>5 DEF SetRaises, Raises
    <3>5. owner' \in 0..MaxLocks
      BY <3>2
    <3>6. late' \subseteq Command
      BY <3>1, <3>3
    <3>7. tainted' \subseteq Locks
      BY <3>4
    <3>8. faults' \in Nat
      BY <3>4
    <3>. QED
      BY <3>5, <3>6, <3>7, <3>8
  <2>2. /\ pc' \in [Users -> Places]
        /\ \A v \in Users : pc'[v] # "idle" => pc[v] # "idle"
    BY <1>5 DEF SetRaises
  <2>. QED
    BY <1>5, <2>1, <2>2 DEF SetRaises
<1>6. ASSUME NEW u \in Users, Granted(u)
      PROVE  TypeOK'
  BY <1>6 DEF Granted, Noticed
<1>7. ASSUME NEW u \in Users, Refused(u)
      PROVE  TypeOK'
  BY <1>7 DEF Refused
<1>8. ASSUME NEW u \in Users, Leave(u)
      PROVE  TypeOK'
  BY <1>8 DEF Leave
<1>9. ASSUME NEW u \in Users, Release(u)
      PROVE  TypeOK'
  BY <1>9 DEF Release, Unlock
<1>10. ASSUME NEW u \in Users, ReleaseRaises(u)
       PROVE  TypeOK'
  <2>. lock[u] \in Locks
    BY <1>10 DEF ReleaseRaises
  <2>1. /\ owner' \in 0..MaxLocks /\ late' \subseteq Command
        /\ tainted' \subseteq Locks /\ faults' \in Nat
    <3>1. [op |-> "EVAL", by |-> lock[u]] \in Command
      OBVIOUS
    <3>2. owner' \in {owner, lock[u], Nobody}
      BY <1>10 DEF ReleaseRaises, Raises, Unlock
    <3>3. late' \subseteq late \cup {[op |-> "EVAL", by |-> lock[u]]}
      BY <1>10 DEF ReleaseRaises, Raises
    <3>4. tainted' = tainted \cup {lock[u]} /\ faults' = faults + 1
      BY <1>10 DEF ReleaseRaises, Raises
    <3>5. owner' \in 0..MaxLocks
      BY <3>2
    <3>6. late' \subseteq Command
      BY <3>1, <3>3
    <3>7. tainted' \subseteq Locks
      BY <3>4
    <3>8. faults' \in Nat
      BY <3>4
    <3>. QED
      BY <3>5, <3>6, <3>7, <3>8
  <2>2. /\ pc' \in [Users -> Places]
        /\ \A v \in Users : pc'[v] # "idle" => pc[v] # "idle"
    BY <1>10 DEF ReleaseRaises
  <2>. QED
    BY <1>10, <2>1, <2>2 DEF ReleaseRaises
<1>11. ASSUME NEW u \in Users, Released(u)
       PROVE  TypeOK'
  BY <1>11 DEF Released
<1>12. CASE Expire
  BY <1>12 DEF Expire
<1>13. ASSUME NEW c \in late, Arrive(c)
       PROVE  TypeOK'
  BY <1>13 DEF Arrive, SetNX, Unlock
<1>. QED
  BY <1>1, <1>2, <1>3, <1>4, <1>5, <1>6, <1>7, <1>8, <1>9, <1>10, <1>11, <1>12, <1>13
     DEF Next, Acquire, Exit

\* No two users share an instance, and nothing names an instance not made yet.
LEMMA OwnStays == ASSUME TypeOK, OwnLocks, [Next]_vars PROVE OwnLocks'
<1>. USE LockBounds DEF TypeOK, OwnLocks, Locks, Places, Command, Nobody, Goto
<1>1. CASE UNCHANGED vars
  BY <1>1 DEF vars
<1>2. ASSUME NEW u \in Users, NewLock(u)
      PROVE  OwnLocks'
  BY <1>2 DEF NewLock
<1>3. ASSUME NEW u \in Users, SameLock(u) \/ Set(u) \/ Granted(u) \/ Refused(u)
      PROVE  OwnLocks'
  BY <1>3 DEF SameLock, Set, Granted, Refused, SetNX
<1>4. ASSUME NEW u \in Users, SetRaises(u)
      PROVE  OwnLocks'
  BY <1>4 DEF SetRaises, Raises, SetNX
<1>5. ASSUME NEW u \in Users, Leave(u) \/ Release(u) \/ Released(u)
      PROVE  OwnLocks'
  <2>. /\ UNCHANGED <<lock, late, made, tainted>>
       /\ owner' \in {owner, Nobody}
    BY <1>5 DEF Leave, Release, Released, Unlock
  <2>. QED
    OBVIOUS
<1>6. ASSUME NEW u \in Users, ReleaseRaises(u)
      PROVE  OwnLocks'
  BY <1>6 DEF ReleaseRaises, Raises, Unlock
<1>7. CASE Expire
  BY <1>7 DEF Expire
<1>8. ASSUME NEW c \in late, Arrive(c)
      PROVE  OwnLocks'
  BY <1>8 DEF Arrive, SetNX, Unlock
<1>. QED
  BY <1>1, <1>2, <1>3, <1>4, <1>5, <1>6, <1>7, <1>8 DEF Next, Acquire, Exit

\* A script on its way belongs to a user that has left, or is about to.
LEMMA ScriptsStayLate ==
    ASSUME TypeOK, OwnLocks, LateScripts, [Next]_vars
    PROVE  LateScripts'
<1>. USE LockBounds DEF TypeOK, OwnLocks, LateScripts, Locks, Places, Command, Nobody, Goto
<1>1. CASE UNCHANGED vars
  BY <1>1 DEF vars
<1>2. ASSUME NEW u \in Users, NewLock(u)
      PROVE  LateScripts'
  BY <1>2 DEF NewLock
<1>3. ASSUME NEW u \in Users, SameLock(u)
      PROVE  LateScripts'
  BY <1>3 DEF SameLock
<1>4. ASSUME NEW u \in Users, Set(u) \/ Granted(u) \/ Refused(u)
      PROVE  LateScripts'
  BY <1>4 DEF Set, Granted, Refused
<1>5. ASSUME NEW u \in Users, SetRaises(u)
      PROVE  LateScripts'
  BY <1>5 DEF SetRaises, Raises
<1>6. ASSUME NEW u \in Users, Leave(u) \/ Release(u) \/ Released(u)
      PROVE  LateScripts'
  BY <1>6 DEF Leave, Release, Released
<1>7. ASSUME NEW u \in Users, ReleaseRaises(u)
      PROVE  LateScripts'
  BY <1>7 DEF ReleaseRaises, Raises
<1>8. CASE Expire
  BY <1>8 DEF Expire
<1>9. ASSUME NEW c \in late, Arrive(c)
      PROVE  LateScripts'
  BY <1>9 DEF Arrive
<1>. QED
  BY <1>1, <1>2, <1>3, <1>4, <1>5, <1>6, <1>7, <1>8, <1>9 DEF Next, Acquire, Exit

\* Nothing takes the key from a user that has been granted a running lease.
LEMMA LeaseStays ==
    ASSUME TypeOK, OwnLocks, LateScripts, LeaseHeld, [Next]_vars
    PROVE  LeaseHeld'
<1>. USE LockBounds DEF TypeOK, OwnLocks, LateScripts, LeaseHeld, Locks, Places, Command,
                        Nobody, Goto
<1>1. CASE UNCHANGED vars
  BY <1>1 DEF vars
<1>2. ASSUME NEW u \in Users, NewLock(u) \/ SameLock(u) \/ Granted(u) \/ Refused(u)
      PROVE  LeaseHeld'
  BY <1>2 DEF NewLock, SameLock, Granted, Refused
<1>3. ASSUME NEW u \in Users, Set(u)
      PROVE  LeaseHeld'
  BY <1>3 DEF Set, SetNX
<1>4. ASSUME NEW u \in Users, SetRaises(u)
      PROVE  LeaseHeld'
  BY <1>4 DEF SetRaises, Raises, SetNX
<1>5. ASSUME NEW u \in Users, Leave(u) \/ Release(u) \/ Released(u)
      PROVE  LeaseHeld'
  BY <1>5 DEF Leave, Release, Released, Unlock
<1>6. ASSUME NEW u \in Users, ReleaseRaises(u)
      PROVE  LeaseHeld'
  BY <1>6 DEF ReleaseRaises, Raises, Unlock
<1>7. CASE Expire
  BY <1>7 DEF Expire
<1>8. ASSUME NEW c \in late, Arrive(c)
      PROVE  LeaseHeld'
  BY <1>8 DEF Arrive, SetNX, Unlock
<1>. QED
  BY <1>1, <1>2, <1>3, <1>4, <1>5, <1>6, <1>7, <1>8 DEF Next, Acquire, Exit

\* The initial state satisfies the invariant.
LEMMA LockInit == Init => LockInv
  BY LockBounds DEF Init, LockInv, TypeOK, OwnLocks, LateScripts, LeaseHeld, Locks, Places,
                    Command, Nobody

\* The inductive invariant of acquire(), release(), the TTL and the network.
THEOREM LockInvariant == Spec => []LockInv
<1>1. LockInv /\ [Next]_vars => LockInv'
  BY TypesStay, OwnStays, ScriptsStayLate, LeaseStays DEF LockInv
<1>. QED
  BY LockInit, <1>1, PTL DEF Spec

\* Two users are inside together only if the lease of one of them has expired.
THEOREM LockExcludes == Spec => []Exclusion
<1>1. LockInv => Exclusion
  BY DEF LockInv, TypeOK, OwnLocks, LeaseHeld, Exclusion, Nobody, Locks
<1>. QED
  BY LockInvariant, <1>1, PTL

----------------------------------------------------------------------------
(* NoLeak.  Its witness is not just anywhere in acquire() or release(): it *)
(* is about to learn that it has the key, or remembers it (_acquired).     *)

Remembers(u) ==
    \/ pc[u] = "granted"
    \/ pc[u] \in {"inside", "release"} /\ lock[u] \in acquired

Kept ==
    owner # Nobody /\ owner \notin tainted =>
        \E u \in Users : lock[u] = owner /\ Remembers(u)

\* A step leaves the key to somebody who is going to release it.
LEMMA KeptStays == ASSUME LockInv, Kept, [Next]_vars PROVE Kept'
<1>. USE LockBounds DEF LockInv, TypeOK, OwnLocks, Locks, Places, Command, Nobody, Goto, Kept, Remembers
<1>1. CASE UNCHANGED vars
  BY <1>1 DEF vars
<1>2. ASSUME NEW u \in Users, NewLock(u)
      PROVE  Kept'
  BY <1>2 DEF NewLock
<1>3. ASSUME NEW u \in Users, SameLock(u)
      PROVE  Kept'
  BY <1>3 DEF SameLock
<1>4. ASSUME NEW u \in Users, Set(u)
      PROVE  Kept'
  BY <1>4 DEF Set, SetNX
<1>5. ASSUME NEW u \in Users, SetRaises(u)
      PROVE  Kept'
  BY <1>5 DEF SetRaises, Raises, SetNX
<1>6. ASSUME NEW u \in Users, Granted(u)
      PROVE  Kept'
  BY <1>6 DEF Granted, Noticed
<1>7. ASSUME NEW u \in Users, Refused(u)
      PROVE  Kept'
  BY <1>7 DEF Refused
<1>8. ASSUME NEW u \in Users, Leave(u)
      PROVE  Kept'
  BY <1>8 DEF Leave
<1>9. ASSUME NEW u \in Users, Release(u)
      PROVE  Kept'
  BY <1>9 DEF Release, Unlock
<1>10. ASSUME NEW u \in Users, ReleaseRaises(u)
       PROVE  Kept'
  BY <1>10 DEF ReleaseRaises, Raises, Unlock
<1>11. ASSUME NEW u \in Users, Released(u)
       PROVE  Kept'
  BY <1>11 DEF Released
<1>12. CASE Expire
  BY <1>12 DEF Expire
<1>13. ASSUME NEW c \in late, Arrive(c)
       PROVE  Kept'
  BY <1>13 DEF Arrive, SetNX, Unlock
<1>. QED
  BY <1>1, <1>2, <1>3, <1>4, <1>5, <1>6, <1>7, <1>8, <1>9, <1>10, <1>11, <1>12, <1>13
     DEF Next, Acquire, Exit

\* Unless one of its calls raised, who has the key is on the way to release it.
THEOREM LockNotLeaked == Spec => []NoLeak
<1>1. Init => Kept
  BY DEF Init, Kept
<1>2. Spec => []Kept
  BY <1>1, KeptStays, LockInvariant, PTL DEF Spec
<1>3. Kept => NoLeak
  BY DEF Kept, Remembers, NoLeak
<1>. QED
  BY <1>2, <1>3, PTL

----------------------------------------------------------------------------
(* check_rate_limit() and async_check_rate_limit().                        *)

\* What the limiter's constants are.
LimiterConstants ==
    /\ Limit \in Nat /\ Window \in Nat \ {0} /\ Latency \in Nat /\ Drift \in Nat
    /\ Opening \in Nat /\ Closing \in Nat /\ Opening >= Window + Drift

\* A set of requests that is part of another has no more members.
LEMMA Smaller ==
    ASSUME NEW S \in SUBSET Requests, NEW T \in SUBSET S
    PROVE  /\ Cardinality(S) \in Nat /\ Cardinality(T) \in Nat
           /\ Cardinality(T) <= Cardinality(S)
<1>1. IsFiniteSet(S)
  BY RequestsAssumption, FS_Subset
<1>. QED
  BY <1>1, FS_Subset, FS_CardinalityType

\* Every step keeps the variables in their types.
LEMMA LimiterTypesStay == ASSUME LimiterTypeOK, ClocksInv, [LimiterNext]_limiterVars PROVE LimiterTypeOK'
<1>. LimiterConstants
  BY LimitAssumption, ClockAssumption DEF LimiterConstants
<1>. USE DEF LimiterTypeOK, LimiterConstants
<1>1. CASE UNCHANGED limiterVars
  BY <1>1 DEF limiterVars
<1>2. ASSUME NEW r \in Requests, Call(r)
      PROVE  LimiterTypeOK'
  <2>1. now' \in [Requests -> Nat]
    BY <1>2 DEF Call, ClocksInv
  <2>. QED
    BY <1>2, <2>1 DEF Call
<1>3. ASSUME NEW r \in Requests, Allows(r) \/ Rejects(r)
      PROVE  window' \subseteq Requests /\ gone' \in Nat /\ admitted' \in [Requests -> Nat]
  BY <1>3 DEF Allows, Rejects, Pruned
<1>4. ASSUME NEW r \in Requests, Allowed(r) \/ Rejected(r) \/ ReplyLost(r)
      PROVE  LimiterTypeOK'
  BY <1>3, <1>4 DEF Allowed, Rejected, ReplyLost
<1>5. ASSUME NEW r \in Requests, RequestRaises(r)
      PROVE  LimiterTypeOK'
  BY <1>5 DEF RequestRaises
<1>6. CASE Tick
  BY <1>6 DEF Tick
<1>. QED
  BY <1>1, <1>2, <1>4, <1>5, <1>6 DEF LimiterNext

\* Clocks are read within Drift, scripts run within Latency.
LEMMA ClocksStay == ASSUME LimiterTypeOK, ClocksInv, [LimiterNext]_limiterVars PROVE ClocksInv'
<1>. LimiterConstants
  BY LimitAssumption, ClockAssumption DEF LimiterConstants
<1>. USE DEF LimiterTypeOK, LimiterConstants, ClocksInv
<1>1. CASE UNCHANGED limiterVars
  BY <1>1 DEF limiterVars
<1>2. ASSUME NEW r \in Requests, Call(r)
      PROVE  ClocksInv'
  BY <1>2 DEF Call
<1>3. ASSUME NEW r \in Requests, Allowed(r) \/ Rejected(r) \/ ReplyLost(r)
      PROVE  ClocksInv'
  <2>1. /\ UNCHANGED <<clock, called, now>> /\ at[r] = "sent"
        /\ at' \in [Requests -> {"new", "sent", "allowed", "rejected", "failed"}]
        /\ at'[r] # "new" /\ \A q \in Requests \ {r} : at'[q] = at[q]
    BY <1>3 DEF Allowed, Rejected, ReplyLost
  <2>2. CASE UNCHANGED <<gone, admitted>>
    BY <2>1, <2>2
  <2>3. CASE Allows(r)
    BY <2>1, <2>3 DEF Allows
  <2>. QED
    BY <1>3, <2>2, <2>3 DEF Allowed, Rejected, ReplyLost, Rejects
<1>4. ASSUME NEW r \in Requests, RequestRaises(r)
      PROVE  ClocksInv'
  BY <1>4 DEF RequestRaises
<1>5. CASE Tick
  BY <1>5 DEF Tick
<1>. QED
  BY <1>1, <1>2, <1>3, <1>4, <1>5 DEF LimiterNext

\* Pruning spares whoever was allowed less than Certain ago.
LEMMA PruningSpares ==
    ASSUME LimiterTypeOK, ClocksInv, NEW r \in Requests, at[r] = "sent",
           NEW q \in window, admitted[q] # 0, clock - admitted[q] < Certain
    PROVE  q \in Pruned(r)
<1>. LimiterConstants
  BY LimitAssumption, ClockAssumption DEF LimiterConstants
<1>1. now[q] >= admitted[q] - Latency - Drift
  BY DEF LimiterTypeOK, ClocksInv, LimiterConstants
<1>2. now[r] <= clock + Drift
  BY DEF LimiterTypeOK, ClocksInv, LimiterConstants
<1>. QED
  BY <1>1, <1>2 DEF LimiterTypeOK, LimiterConstants, Certain, Pruned

\* The set keeps who was allowed recently, and no more than Limit members.
LEMMA WindowStays ==
    ASSUME LimiterTypeOK, ClocksInv, WindowInv, [LimiterNext]_limiterVars
    PROVE  WindowInv'
<1>. LimiterConstants
  BY LimitAssumption, ClockAssumption DEF LimiterConstants
<1>. USE DEF LimiterTypeOK, LimiterConstants, WindowInv
<1>1. CASE UNCHANGED limiterVars
  BY <1>1 DEF limiterVars, Certain
<1>2. ASSUME NEW r \in Requests, Call(r) \/ RequestRaises(r)
      PROVE  WindowInv'
  BY <1>2 DEF Call, RequestRaises, Certain
<1>3. ASSUME NEW r \in Requests, at[r] = "sent", UNCHANGED clock, Allows(r)
      PROVE  WindowInv'
  <2>1. Pruned(r) \subseteq Requests /\ IsFiniteSet(Pruned(r))
    BY RequestsAssumption, FS_Subset DEF Pruned
  <2>2. Cardinality(Pruned(r) \cup {r}) <= Limit
    <3>1. Cardinality(Pruned(r)) \in Nat /\ Cardinality(Pruned(r)) < Limit
      BY <1>3, <2>1, FS_CardinalityType DEF Allows, Below
    <3>2. Cardinality(Pruned(r) \cup {r}) \in {Cardinality(Pruned(r)), Cardinality(Pruned(r)) + 1}
      BY <2>1, FS_AddElement
    <3>. QED
      BY <3>1, <3>2
  <2>3. clock # 0
    BY DEF ClocksInv
  <2>4. ASSUME NEW q \in Requests, admitted'[q] # 0, clock - admitted'[q] < Certain
        PROVE  q \in window'
    BY <1>3, <2>4, PruningSpares DEF Allows
  <2>. QED
    BY <1>3, <2>1, <2>2, <2>3, <2>4 DEF Allows, Certain, Pruned
<1>4. ASSUME NEW r \in Requests, at[r] = "sent", UNCHANGED clock, Rejects(r)
      PROVE  WindowInv'
  <2>1. Cardinality(Pruned(r)) <= Limit
    BY Smaller DEF Pruned
  <2>2. ASSUME NEW q \in Requests, admitted[q] # 0, clock - admitted[q] < Certain
        PROVE  q \in Pruned(r)
    BY <1>4, <2>2, PruningSpares
  <2>. QED
    BY <1>4, <2>1, <2>2 DEF Rejects, Certain, Pruned
<1>5. CASE Tick
  <2>1. Cardinality(window') <= Limit
    BY <1>5, FS_EmptySet DEF Tick
  <2>2. ASSUME NEW q \in Requests, admitted[q] # 0, clock' - admitted[q] < Certain
        PROVE  q \in window'
    BY <1>5, <2>2 DEF Tick, ClocksInv, Certain
  <2>. QED
    BY <1>5, <2>1, <2>2 DEF Tick, Certain
<1>. QED
  BY <1>1, <1>2, <1>3, <1>4, <1>5 DEF LimiterNext, Allowed, Rejected, ReplyLost

\* The initial state satisfies the invariant.
LEMMA LimiterStarts == LimiterInit => LimiterInv
<1>. LimiterConstants
  BY LimitAssumption, ClockAssumption DEF LimiterConstants
<1>. QED
  BY FS_EmptySet DEF LimiterConstants, LimiterInit, LimiterInv, LimiterTypeOK, ClocksInv, WindowInv

\* The inductive invariant of the script, the clocks and the calls.
THEOREM LimiterInvariant == LimiterSpec => []LimiterInv
<1>1. LimiterInv /\ [LimiterNext]_limiterVars => LimiterInv'
  BY LimiterTypesStay, ClocksStay, WindowStays DEF LimiterInv
<1>. QED
  BY LimiterStarts, <1>1, PTL DEF LimiterSpec

\* The stretch of time that starts when r was allowed holds Limit others at most.
LEMMA LimitStays == ASSUME LimiterInv, LimiterInv', LimitKept, [LimiterNext]_limiterVars PROVE LimitKept'
<1>. LimiterConstants
  BY LimitAssumption, ClockAssumption DEF LimiterConstants
<1>. DEFINE Stretch(a) == AdmittedIn(a, a + Certain - 1)
<1>. USE DEF LimiterConstants, LimiterInv, LimiterTypeOK, Certain
<1>1. CASE UNCHANGED admitted
  BY <1>1 DEF LimitKept, AdmittedIn
<1>2. ASSUME NEW q \in Requests, UNCHANGED clock, Allows(q),
             NEW r \in Requests, admitted'[r] > 0
      PROVE  Cardinality(Stretch(admitted[r])') <= Limit
  <2>1. admitted' = [admitted EXCEPT ![q] = clock] /\ admitted'[r] <= clock
    BY <1>2 DEF Allows, ClocksInv
  <2>2. CASE clock <= admitted'[r] + Certain - 1
    <3>1. Stretch(admitted[r])' \subseteq window'
      BY <1>2, <2>1, <2>2 DEF AdmittedIn, WindowInv
    <3>. QED
      BY <3>1, Smaller DEF WindowInv
  <2>3. CASE clock > admitted'[r] + Certain - 1
    <3>1. Stretch(admitted[r])' \subseteq Stretch(admitted'[r])
      BY <2>1, <2>3 DEF AdmittedIn
    <3>2. CASE r # q
      <4>1. Cardinality(Stretch(admitted[r])) <= Limit /\ admitted'[r] = admitted[r]
        BY <1>2, <2>1, <3>2 DEF LimitKept
      <4>2. Stretch(admitted[r]) \subseteq Requests
        BY DEF AdmittedIn
      <4>. QED
        BY <3>1, <4>1, <4>2, Smaller
    <3>3. CASE r = q
      <4>1. Stretch(admitted[r])' = {}
        BY <2>1, <2>3, <3>3 DEF AdmittedIn
      <4>2. Cardinality({}) = 0 /\ 0 <= Limit
        BY FS_EmptySet
      <4>. QED
        BY <4>1, <4>2
    <3>. QED
      BY <3>2, <3>3
  <2>. QED
    BY <2>1, <2>2, <2>3
<1>. QED
  BY <1>1, <1>2
     DEF LimitKept, LimiterNext, Call, Allowed, Rejected, ReplyLost, Rejects, RequestRaises, Tick, limiterVars

\* No stretch of time shorter than Certain has more than Limit requests allowed.
THEOREM KeepsLimit == LimiterSpec => []LimitKept
<1>1. LimiterInit => LimitKept
  BY DEF LimiterInit, LimitKept
<1>2. LimiterInv /\ LimiterInv' /\ LimitKept /\ [LimiterNext]_limiterVars => LimitKept'
  BY LimitStays
<1>. QED
  BY LimiterInvariant, <1>1, <1>2, PTL DEF LimiterSpec

\* Nobody is turned away but for Limit requests that were allowed recently.
THEOREM JustifiedRejections == LimiterSpec => RejectionsJustified
<1>. LimiterConstants
  BY LimitAssumption, ClockAssumption DEF LimiterConstants
<1>1. ASSUME LimiterInv, [LimiterNext]_limiterVars, NEW r \in Requests, at[r] = "sent", at'[r] = "rejected"
      PROVE  Cardinality(AdmittedIn(clock - Window - Latency - 2 * Drift, clock)) >= Limit
  <2>. DEFINE Recent == AdmittedIn(clock - Window - Latency - 2 * Drift, clock)
  <2>1. ~Below(Pruned(r))
    BY <1>1 DEF LimiterInv, LimiterTypeOK, LimiterNext, limiterVars, Call, Allowed, Rejected, Rejects, ReplyLost,
                RequestRaises, Tick
  <2>2. now[r] >= clock - Latency - Drift
    BY <1>1 DEF LimiterInv, LimiterTypeOK, ClocksInv, LimiterConstants
  <2>3. ASSUME NEW q \in Pruned(r)
        PROVE  q \in Recent
    <3>1. /\ q \in Requests /\ admitted[q] # 0 /\ now[q] > now[r] - Window
      BY <1>1, <2>3 DEF LimiterInv, LimiterTypeOK, WindowInv, Pruned
    <3>2. now[q] <= admitted[q] + Drift /\ admitted[q] <= clock
      BY <1>1, <3>1 DEF LimiterInv, LimiterTypeOK, ClocksInv, LimiterConstants
    <3>. QED
      BY <1>1, <2>2, <3>1, <3>2 DEF LimiterInv, LimiterTypeOK, LimiterConstants, AdmittedIn
  <2>4. Recent \subseteq Requests
    BY DEF AdmittedIn
  <2>. QED
    BY <2>1, <2>3, <2>4, Smaller DEF Below, LimiterConstants
<1>2. LimiterInv /\ [LimiterNext]_limiterVars =>
        [\A r \in Requests :
           at[r] = "sent" /\ at'[r] = "rejected" =>
              Cardinality(AdmittedIn(clock - Window - Latency - 2 * Drift, clock)) >= Limit]_limiterVars
  BY <1>1
<1>. QED
  BY LimiterInvariant, <1>2, PTL DEF LimiterSpec, RejectionsJustified

----------------------------------------------------------------------------
(* The replica router.                                                     *)

\* Who holds the lock fetches.
Fetching == \A t \in Threads : where[t] = "fetch" <=> holder = t

\* The time of the last check is that of the last fetch, or of the one under way.
Noted ==
    /\ holder = None => lastCheck = fetched
    /\ holder # None => lastCheck = asked[holder]

\* Who decides noted a time less than an interval after the last check.
Recent == \A t \in Threads : where[t] = "decide" => asked[t] - lastCheck < Interval

TrackerInv == Fetching /\ Noted /\ Recent

----------------------------------------------------------------------------

\* Every step keeps the variables in their types.
LEMMA RouterTypesStay == ASSUME RouterTypeOK, [RouterNext]_routerVars PROVE RouterTypeOK'
<1>. USE LagsAssumption, TimeAssumption, ThreadsAssumption DEF RouterTypeOK, tracker, request, Stays
<1>1. CASE UNCHANGED routerVars
  BY <1>1 DEF routerVars
<1>2. ASSUME NEW t \in Threads, UsingReplica(t)
      PROVE  RouterTypeOK'
  BY <1>2 DEF UsingReplica
<1>3. ASSUME NEW t \in Threads, LeaveBlock(t)
      PROVE  RouterTypeOK'
  BY <1>3 DEF LeaveBlock, Cleared
<1>4. ASSUME NEW t \in Threads, DbForWrite(t)
      PROVE  RouterTypeOK'
  BY <1>4 DEF DbForWrite
<1>5. ASSUME NEW t \in Threads, DbForRead(t)
      PROVE  RouterTypeOK'
  BY <1>5 DEF DbForRead
<1>6. ASSUME NEW t \in Threads, FastPath(t)
      PROVE  RouterTypeOK'
  BY <1>6 DEF FastPath
<1>7. ASSUME NEW t \in Threads, SlowPath(t)
      PROVE  RouterTypeOK'
  BY <1>7 DEF SlowPath, CheckedAt
<1>8. ASSUME NEW t \in Threads, Fetch(t)
      PROVE  RouterTypeOK'
  BY <1>8 DEF Fetch
<1>9. ASSUME NEW t \in Threads, Decide(t)
      PROVE  RouterTypeOK'
  BY <1>9 DEF Decide
<1>10. ASSUME NEW l \in Lags, Report(l)
       PROVE  RouterTypeOK'
  BY <1>10 DEF Report
<1>11. CASE ReportExpires
  BY <1>11 DEF ReportExpires
<1>12. CASE TimePasses
  BY <1>12 DEF TimePasses
<1>. QED
  BY <1>1, <1>2, <1>3, <1>4, <1>5, <1>6, <1>7, <1>8, <1>9, <1>10, <1>11, <1>12 DEF RouterNext, Read

\* Every reachable state of the router is well typed; in particular no check is
\* dated later than the clock.
THEOREM RouterTypes == RouterSpec => []RouterTypeOK
<1>1. RouterInit => RouterTypeOK
  <2>. SUFFICES ASSUME RouterInit PROVE RouterTypeOK
    OBVIOUS
  <2>1. monotonic \in Nat /\ 0 \in 0..monotonic
    BY TimeAssumption DEF RouterInit
  <2>. QED
    BY <2>1 DEF RouterInit, RouterTypeOK
<1>. QED
  BY <1>1, RouterTypesStay, PTL DEF RouterSpec

----------------------------------------------------------------------------

\* The time of the last check changes only when a thread has waited an interval.
LEMMA ChecksAdvance ==
    ASSUME RouterTypeOK, [RouterNext]_routerVars
    PROVE  lastCheck' # lastCheck => lastCheck' - lastCheck >= Interval
<1>1. ASSUME NEW t \in Threads, SlowPath(t)
      PROVE  lastCheck' # lastCheck => lastCheck' - lastCheck >= Interval
  BY <1>1 DEF SlowPath, Again, Elapsed, CheckedAt
<1>2. CASE UNCHANGED lastCheck
  BY <1>2
<1>. QED
  BY <1>1, <1>2 DEF RouterNext, Read, routerVars, tracker, UsingReplica, LeaveBlock, DbForWrite, DbForRead,
     FastPath, Fetch, Decide, Report, ReportExpires, TimePasses

\* Fetches are an interval apart, whatever threads wait for the lock and
\* whatever `now' each of them has brought along.
THEOREM ChecksKeepDistance == RouterSpec => OneFetchPerInterval
<1>1. RouterTypeOK /\ [RouterNext]_routerVars => [lastCheck' # lastCheck => lastCheck' - lastCheck >= Interval]_routerVars
  BY ChecksAdvance
<1>. QED
  BY <1>1, RouterTypes, PTL DEF RouterSpec, OneFetchPerInterval

----------------------------------------------------------------------------

\* A step keeps what the tracker's fields say of each other.
LEMMA TrackerStays == ASSUME RouterTypeOK, TrackerInv, [RouterNext]_routerVars PROVE TrackerInv'
<1>. USE TimeAssumption, ThreadsAssumption DEF RouterTypeOK, TrackerInv, Fetching, Noted, Recent, tracker, request, Stays
<1>1. CASE UNCHANGED routerVars
  BY <1>1 DEF routerVars
<1>2. ASSUME NEW t \in Threads, UsingReplica(t) \/ LeaveBlock(t) \/ DbForWrite(t)
      PROVE  TrackerInv'
  BY <1>2 DEF UsingReplica, LeaveBlock, DbForWrite
<1>3. ASSUME NEW t \in Threads, DbForRead(t)
      PROVE  TrackerInv'
  BY <1>3 DEF DbForRead
<1>4. ASSUME NEW t \in Threads, FastPath(t)
      PROVE  TrackerInv'
  BY <1>4 DEF FastPath, Elapsed
<1>5. ASSUME NEW t \in Threads, SlowPath(t)
      PROVE  TrackerInv'
  <2>1. CASE Again(t)
    BY <1>5, <2>1 DEF SlowPath, Again, Elapsed, CheckedAt
  <2>2. CASE ~Again(t)
    BY <1>5, <2>2 DEF SlowPath, Again, Elapsed
  <2>. QED
    BY <2>1, <2>2
<1>6. ASSUME NEW t \in Threads, Fetch(t)
      PROVE  TrackerInv'
  BY <1>6 DEF Fetch
<1>7. ASSUME NEW t \in Threads, Decide(t)
      PROVE  TrackerInv'
  BY <1>7 DEF Decide
<1>8. CASE ReportExpires \/ TimePasses \/ \E l \in Lags : Report(l)
  BY <1>8 DEF ReportExpires, TimePasses, Report
<1>. QED
  BY <1>1, <1>2, <1>3, <1>4, <1>5, <1>6, <1>7, <1>8 DEF RouterNext, Read

\* The last check is the last fetch, or that of the thread which is fetching.
THEOREM TrackerInvariant == RouterSpec => []TrackerInv
<1>1. RouterInit => TrackerInv
  BY ThreadsAssumption DEF RouterInit, TrackerInv, Fetching, Noted, Recent
<1>. QED
  BY <1>1, TrackerStays, RouterTypes, PTL DEF RouterSpec

\* A decision uses a lag that was fetched less than an interval before the
\* thread asked, unless a fetch that recent is still under way.
THEOREM LagIsFresh == RouterSpec => []FreshLag
<1>1. RouterTypeOK /\ TrackerInv => FreshLag
  BY DEF RouterTypeOK, TrackerInv, Fetching, Noted, Recent, FreshLag
<1>. QED
  BY <1>1, RouterTypes, TrackerInvariant, PTL

----------------------------------------------------------------------------

\* The flag is set at the start of a block and cleared by whatever follows.
LEMMA OwnWritesStay == ASSUME RouterTypeOK, ReadsOwnWrites, [RouterNext]_routerVars PROVE ReadsOwnWrites'
<1>. USE DEF RouterTypeOK, ReadsOwnWrites, tracker, request, Stays
<1>1. CASE UNCHANGED request
  BY <1>1
<1>2. ASSUME NEW t \in Threads, UsingReplica(t)
      PROVE  ReadsOwnWrites'
  BY <1>2 DEF UsingReplica
<1>3. ASSUME NEW t \in Threads, LeaveBlock(t)
      PROVE  ReadsOwnWrites'
  BY <1>3 DEF LeaveBlock, Cleared
<1>4. ASSUME NEW t \in Threads, DbForWrite(t)
      PROVE  ReadsOwnWrites'
  BY <1>4 DEF DbForWrite
<1>. QED
  BY <1>1, <1>2, <1>3, <1>4 DEF RouterNext, Read, routerVars, DbForRead, FastPath, SlowPath, Fetch, Decide,
     Report, ReportExpires, TimePasses

\* A thread asks for the replica only inside a using_replica() block in which
\* it has not written.
THEOREM OwnWritesRead == RouterSpec => []ReadsOwnWrites
<1>1. RouterInit => ReadsOwnWrites
  BY DEF RouterInit, ReadsOwnWrites
<1>. QED
  BY <1>1, OwnWritesStay, RouterTypes, PTL DEF RouterSpec
=============================================================================
