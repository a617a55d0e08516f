-------------------------- MODULE DistributedLock --------------------------
(***************************************************************************)
(* AsyncDistributedLock: one Redis key, set with NX and a TTL, deleted by  *)
(* a script that compares the identifier first.                            *)
(*                                                                         *)
(* A command and the processing of its reply are separate steps.  A call   *)
(* that raises may have been applied, lost, or be still on its way, and    *)
(* the client may repeat it (redis_retry_on_timeout) or pass the error on. *)
(* The lease can expire at any time.                                       *)
(***************************************************************************)
EXTENDS Naturals

CONSTANTS
    Users,       \* coroutines, of any process, that use the lock
    MaxLocks,    \* bound: AsyncDistributedLock instances created
    MaxFaults    \* bound: calls that raise

ASSUME LockBounds == MaxLocks \in Nat /\ MaxFaults \in Nat

VARIABLES
    owner,       \* the identifier stored under the key, Nobody when absent
    late,        \* commands that raised at the client and may still arrive
    lock,        \* the instance a user holds in its hands
    pc,          \* where the user is
    acquired,    \* the instances whose _acquired is True
    made,        \* instances created
    faults,
    expired,     \* history: instances whose last lease ended by its TTL
    tainted      \* history: instances with a call that raised

vars == <<owner, late, lock, pc, acquired, made, faults, expired, tainted>>

Nobody == 0
Locks  == 1..MaxLocks

Command == [op : {"SET", "EVAL"}, by : Locks]

Goto(u, label) == pc' = [pc EXCEPT ![u] = label]

----------------------------------------------------------------------------
(* What Redis does.                                                        *)

\* SET name identifier NX PX timeout
SetNX(i) == owner' = IF owner = Nobody THEN i ELSE owner

\* Wrong: DEL without the comparison.
Delete(i) == owner' = Nobody

\* UNLOCK_SCRIPT
Unlock(i) == owner' = IF owner = i THEN Nobody ELSE owner

\* A call of instance i raises: applied, lost, or delayed.
Raises(i, op, Effect) ==
    /\ faults < MaxFaults
    /\ faults' = faults + 1
    /\ tainted' = tainted \cup {i}
    /\ \/ Effect /\ UNCHANGED late
       \/ UNCHANGED <<owner, late>>
       \/ late' = late \cup {[op |-> op, by |-> i]} /\ UNCHANGED owner

----------------------------------------------------------------------------
(* acquire().                                                              *)

\* async_lock() and every new AsyncDistributedLock: a fresh uuid4.
NewLock(u) ==
    /\ pc[u] = "idle"
    /\ made < MaxLocks
    /\ made' = made + 1
    /\ lock' = [lock EXCEPT ![u] = made + 1]
    /\ Goto(u, "set")
    /\ UNCHANGED <<owner, late, acquired, faults, expired, tainted>>

\* An instance may be used again, unless one of its calls raised.
SameLock(u) ==
    /\ pc[u] = "idle"
    /\ lock[u] # Nobody /\ lock[u] \notin tainted
    /\ Goto(u, "set")
    /\ UNCHANGED <<owner, late, lock, acquired, made, faults, expired, tainted>>

\* The command is executed and the reply is on its way.
Set(u) ==
    /\ pc[u] = "set"
    /\ SetNX(lock[u])
    /\ IF owner = Nobody
       THEN Goto(u, "granted") /\ expired' = expired \ {lock[u]}
       ELSE Goto(u, "refused") /\ UNCHANGED expired
    /\ UNCHANGED <<late, lock, acquired, made, faults, tainted>>

\* The client repeats the command, or acquire() raises and __aexit__ never runs.
SetRaises(u) ==
    /\ pc[u] = "set"
    /\ Raises(lock[u], "SET", SetNX(lock[u]))
    /\ UNCHANGED pc \/ Goto(u, "idle")
    /\ UNCHANGED <<lock, acquired, made, expired>>

\* Wrong: the reply is not remembered.
Unnoticed(i) == acquired

Noticed(i) == acquired \cup {i}

Granted(u) ==
    /\ pc[u] = "granted"
    /\ acquired' = Noticed(lock[u])
    /\ Goto(u, "inside")
    /\ UNCHANGED <<owner, late, lock, made, faults, expired, tainted>>

\* Sleep and try again, or the deadline has passed and acquire() is False.
Refused(u) ==
    /\ pc[u] = "refused"
    /\ acquired' = acquired \ {lock[u]}
    /\ Goto(u, "set") \/ Goto(u, "idle")
    /\ UNCHANGED <<owner, late, lock, made, faults, expired, tainted>>

----------------------------------------------------------------------------
(* release().                                                              *)

\* Nothing to do unless _acquired.
Leave(u) ==
    /\ pc[u] = "inside"
    /\ IF lock[u] \in acquired THEN Goto(u, "release") ELSE Goto(u, "idle")
    /\ UNCHANGED <<owner, late, lock, acquired, made, faults, expired, tainted>>

Release(u) ==
    /\ pc[u] = "release"
    /\ Unlock(lock[u])
    /\ Goto(u, "released")
    /\ UNCHANGED <<late, lock, acquired, made, faults, expired, tainted>>

\* The client repeats the script, or release() raises and _acquired stays True.
ReleaseRaises(u) ==
    /\ pc[u] = "release"
    /\ Raises(lock[u], "EVAL", Unlock(lock[u]))
    /\ UNCHANGED pc \/ Goto(u, "idle")
    /\ UNCHANGED <<lock, acquired, made, expired>>

Released(u) ==
    /\ pc[u] = "released"
    /\ acquired' = acquired \ {lock[u]}
    /\ Goto(u, "idle")
    /\ UNCHANGED <<owner, late, lock, made, faults, expired, tainted>>

----------------------------------------------------------------------------
(* Time and the network.                                                   *)

Expire ==
    /\ owner # Nobody
    /\ expired' = expired \cup {owner}
    /\ owner' = Nobody
    /\ UNCHANGED <<late, lock, pc, acquired, made, faults, tainted>>

Arrive(c) ==
    /\ late' = late \ {c}
    /\ \/ c.op = "SET" /\ SetNX(c.by)
       \/ c.op = "EVAL" /\ Unlock(c.by)
    /\ UNCHANGED <<lock, pc, acquired, made, faults, expired, tainted>>

----------------------------------------------------------------------------

Init ==
    /\ owner = Nobody /\ late = {}
    /\ lock = [u \in Users |-> Nobody]
    /\ pc   = [u \in Users |-> "idle"]
    /\ acquired = {} /\ made = 0 /\ faults = 0
    /\ expired = {} /\ tainted = {}

Acquire(u) == \/ NewLock(u) \/ SameLock(u) \/ Set(u) \/ SetRaises(u)
              \/ Granted(u) \/ Refused(u)

Exit(u) == Leave(u) \/ Release(u) \/ ReleaseRaises(u) \/ Released(u)

Next ==
    \/ \E u \in Users : Acquire(u) \/ Exit(u)
    \/ Expire
    \/ \E c \in late : Arrive(c)

Spec == Init /\ [][Next]_vars

----------------------------------------------------------------------------
(* Properties.                                                             *)

Places == {"idle", "set", "granted", "refused", "inside", "release", "released"}

TypeOK ==
    /\ owner \in 0..MaxLocks /\ late \subseteq Command
    /\ lock \in [Users -> 0..MaxLocks] /\ pc \in [Users -> Places]
    /\ acquired \subseteq Locks /\ made \in 0..MaxLocks /\ faults \in Nat
    /\ expired \subseteq Locks /\ tainted \subseteq Locks
    /\ \A u \in Users : pc[u] # "idle" => lock[u] \in Locks

\* Two users are inside together only if the lease of one of them has expired:
\* no late, repeated or foreign command ends a lease that is still running.
Exclusion ==
    \A u, v \in Users :
        u # v /\ pc[u] = "inside" /\ pc[v] = "inside" =>
            lock[u] \in expired \/ lock[v] \in expired

\* The key belongs to somebody who is going to release it, unless a call of its
\* instance raised: then only the TTL frees it.
NoLeak ==
    owner # Nobody => \/ owner \in tainted
                      \/ \E u \in Users : lock[u] = owner /\ pc[u] # "idle"

----------------------------------------------------------------------------
(* The inductive invariant.                                                *)

\* An instance belongs to one user, and is fresh when it is made.
OwnLocks ==
    /\ \A u \in Users : lock[u] <= made
    /\ \A u, v \in Users : u # v /\ lock[u] = lock[v] => lock[u] = Nobody
    /\ owner <= made /\ \A c \in late : c.by <= made /\ c.by \in tainted
    /\ \A i \in tainted : i <= made

\* Only a call that raised leaves a command behind, and scripts come from users
\* that have left.
LateScripts ==
    \A c \in late, u \in Users :
        c.op = "EVAL" /\ lock[u] = c.by => pc[u] \in {"idle", "release", "released"}

\* Who holds a lease that has not expired is the owner of the key.
LeaseHeld ==
    \A u \in Users :
        pc[u] \in {"granted", "inside"} /\ lock[u] \notin expired => owner = lock[u]

LockInv == TypeOK /\ OwnLocks /\ LateScripts /\ LeaseHeld
=============================================================================
