---------------------------- MODULE SharedCache ----------------------------
(***************************************************************************)
(* QuerySetCache over a backend that implements GenerationBackend (Redis   *)
(* or Memcached), shared by several processes of several threads each.     *)
(*                                                                         *)
(* A cached result is stored under a key that contains the generation      *)
(* token of every scope the query depends on, captured before its SQL.     *)
(* Invalidation installs a fresh token for the scope; a hit is served only *)
(* when the tokens read again after the lookup are still the captured      *)
(* ones.  Every backend call is a step of its own, so that the calls of    *)
(* different processes interleave; threads of one process are kept apart   *)
(* by the process's RLock where the code takes it.                         *)
(*                                                                         *)
(* Data is abstracted to time: `clock' counts commits, and a result is the *)
(* value of the clock when its SQL ran.  A uuid4 token is the next unused  *)
(* number: only equality of tokens matters, and a uuid never repeats.      *)
(***************************************************************************)
EXTENDS Naturals, FiniteSets

CONSTANTS
    Procs,       \* the processes that share the backend
    Threads,     \* all their threads
    ProcOf,      \* the process of a thread
    Scopes,      \* generation scopes: <<model, database>> and <<model, "*">>
    Queries,     \* querysets
    ScopesOf,    \* the scopes of every dependency of a queryset
    None,        \* no queryset, no scope
    MaxCommits,  \* bound: commits
    MaxTokens,   \* bound: tokens generated
    MaxCalls,    \* bound: direct calls of clear() and invalidate_model()
    MaxFaults    \* bound: lost or delayed calls, evictions, process restarts

ASSUME ThreadsAssumption == ProcOf \in [Threads -> Procs]
ASSUME ScopesAssumption  == ScopesOf \in [Queries -> SUBSET Scopes]
ASSUME NoneAssumption    == None \notin Queries \cup Scopes
ASSUME BoundsAssumption  == /\ MaxCommits \in Nat /\ MaxTokens \in Nat
                            /\ MaxCalls \in Nat   /\ MaxFaults \in Nat

VARIABLES
    clock,        \* commits so far
    \* the backend
    token,        \* token of each scope, NoToken when absent or evicted
    store,        \* cached results
    lateTokens,   \* token writes that raised at the client and may still arrive
    lateFills,    \* result writes that raised at the client and may still arrive
    \* each process: _QuerySetCacheState
    generation, pending, indexed, invalidated, clearFailed,
    \* each thread: where it is, and the locals of the call it executes
    pc, query, gens, todo, same, fence, row, scope, victims,
    \* the environment's budget
    minted, calls, faults,
    \* history, read by properties alone
    born,         \* the clock when a token was first installed
    notified,     \* the clock when a scope was last rotated in the backend, or
                  \* when a clear() that succeeded began
    mark,         \* the clock when a process last invalidated a scope
    since         \* for each scope, the clock that a lookup in progress must
                  \* at least reflect, or at which a clear() in progress began

backend == <<token, store, lateTokens, lateFills, minted, born, notified>>
process == <<generation, pending, indexed, invalidated, clearFailed, mark>>
frame   == <<query, gens, todo, same, fence, row, scope, victims, since>>
budget  == <<calls, faults>>
vars    == <<clock, backend, process, pc, frame, budget>>

----------------------------------------------------------------------------

NoToken  == 0
NoTokens == [s \in Scopes |-> NoToken]
Zero     == [s \in Scopes |-> 0]

\* _KeySnapshot.key: the digest covers the query and its captured generations.
Key   == [q : Queries, gens : [Scopes -> 0..MaxTokens]]
Entry == [key : Key, asof : Nat]

KeyOf(t)  == [q |-> query[t], gens |-> gens[t]]
Keys      == {e.key : e \in store}

\* `with state.lock': the program points at which a thread holds the lock of
\* its process between two backend calls.
Locked      == {"capture", "confirm", "publish", "delete", "clearing"}
LockFree(p) == \A u \in Threads : ProcOf[u] = p => pc[u] \notin Locked

\* The program points of get() and get_or_set().
ReadLabels == {"capture", "lookup", "confirm", "hit", "sql", "fill", "publish"}

\* The program points inside _read_generations.
Reading == {"capture", "confirm", "publish"}

Labels == ReadLabels \cup {"idle", "notify", "delete", "clearing"}

Goto(t, label) == pc' = [pc EXCEPT ![t] = label]

\* The call of thread t ends and its locals with it.
Return(t) ==
    /\ Goto(t, "idle")
    /\ query'   = [query EXCEPT ![t] = None]
    /\ gens'    = [gens EXCEPT ![t] = NoTokens]
    /\ todo'    = [todo EXCEPT ![t] = {}]
    /\ same'    = [same EXCEPT ![t] = TRUE]
    /\ fence'   = [fence EXCEPT ![t] = 0]
    /\ row'     = [row EXCEPT ![t] = 0]
    /\ scope'   = [scope EXCEPT ![t] = None]
    /\ victims' = [victims EXCEPT ![t] = {}]
    /\ since'   = [since EXCEPT ![t] = Zero]

Fault == /\ faults < MaxFaults
         /\ faults' = faults + 1

----------------------------------------------------------------------------
(* Token writes.  One attempt with a token of its own, never replayed: a   *)
(* call that raises was not applied, was applied and its reply lost, or    *)
(* is still on its way.                                                    *)

Mint == /\ minted < MaxTokens
        /\ minted' = minted + 1

Install(s, tok) ==
    /\ token' = [token EXCEPT ![s] = tok]
    /\ born'  = [born EXCEPT ![tok] = clock]

\* rotate_generation: an unconditional SET of a fresh token.
RotateApplied(s) ==
    /\ Mint
    /\ Install(s, minted + 1)
    /\ notified' = [notified EXCEPT ![s] = clock]
    /\ UNCHANGED lateTokens

\* get_generation on a missing token: SET NX or ADD of a fresh token.
AddApplied(s) ==
    /\ token[s] = NoToken
    /\ Mint
    /\ Install(s, minted + 1)
    /\ UNCHANGED <<notified, lateTokens>>

WriteDelayed(s, command) ==
    /\ Mint
    /\ lateTokens' = lateTokens \cup {[scope |-> s, tok |-> minted + 1, command |-> command]}
    /\ UNCHANGED <<token, born, notified>>

\* What rotate_generation may have done when it raises.
RotateRaised(s) ==
    \/ UNCHANGED <<token, born, notified, lateTokens, minted, faults>>
    \/ Fault /\ (RotateApplied(s) \/ WriteDelayed(s, "SET"))

\* What the reading half of _read_generations may have done when it raises.
ReadRaised(s) ==
    \/ UNCHANGED <<token, born, notified, lateTokens, minted, faults>>
    \/ Fault /\ token[s] = NoToken /\ (AddApplied(s) \/ WriteDelayed(s, "ADD"))

----------------------------------------------------------------------------
(* _read_generations, under the lock: first retry the pending rotations of *)
(* the scopes, then read each token, creating a missing one.               *)

\* The scopes of every model the query reads: query_dependencies().
Dependencies(q) == ScopesOf[q]

\* get() and get_or_set() enter _key_snapshot.
BeginRead(t, q) ==
    /\ pc[t] = "idle"
    /\ LockFree(ProcOf[t])
    /\ Goto(t, "capture")
    /\ query' = [query EXCEPT ![t] = q]
    /\ todo'  = [todo EXCEPT ![t] = Dependencies(q)]
    /\ UNCHANGED <<clock, backend, process, budget,
                   gens, same, fence, row, scope, victims, since>>

\* Wrong: tokens are read although the process owes a rotation.
SettledAlways(t) == TRUE

Settled(t) == todo[t] \cap pending[ProcOf[t]] = {}

RetryRotation(t, s) ==
    LET p == ProcOf[t] IN
    /\ pc[t] \in Reading
    /\ s \in todo[t] \cap pending[p]
    /\ RotateApplied(s)
    /\ pending' = [pending EXCEPT ![p] = @ \ {s}]
    /\ UNCHANGED <<clock, store, lateFills, generation, indexed, invalidated,
                   clearFailed, mark, pc, frame, budget>>

AddToken(t, s) ==
    /\ pc[t] \in Reading
    /\ Settled(t)
    /\ s \in todo[t]
    /\ AddApplied(s)
    /\ UNCHANGED <<clock, store, lateFills, process, pc, frame, budget>>

\* A token of the snapshot is captured, or compared with the captured one.
ReadToken(t, s) ==
    /\ pc[t] \in Reading
    /\ Settled(t)
    /\ s \in todo[t]
    /\ token[s] # NoToken
    /\ todo' = [todo EXCEPT ![t] = @ \ {s}]
    /\ IF pc[t] = "capture"
       THEN gens' = [gens EXCEPT ![t][s] = token[s]] /\ UNCHANGED same
       ELSE same' = [same EXCEPT ![t] = @ /\ token[s] = gens[t][s]] /\ UNCHANGED gens
    /\ UNCHANGED <<clock, backend, process, budget, pc,
                   query, fence, row, scope, victims, since>>

\* The lookup missed: get() returns None, get_or_set() notes the fence and
\* goes on to run the SQL.
Miss(t) ==
    \/ Return(t)
    \/ /\ Goto(t, "sql")
       /\ fence' = [fence EXCEPT ![t] = generation[ProcOf[t]]]
       /\ row' = [row EXCEPT ![t] = 0]
       /\ todo' = [todo EXCEPT ![t] = {}]
       /\ same' = [same EXCEPT ![t] = TRUE]
       /\ since' = [since EXCEPT ![t] = Zero]
       /\ UNCHANGED <<query, gens, scope, victims>>

\* GenerationUnavailableError.  While capturing, get() returns None and
\* get_or_set() runs its SQL without the cache; later, the tokens do not match.
Unavailable(t) ==
    /\ pc[t] \in Reading
    /\ \E s \in todo[t] :
          IF s \in pending[ProcOf[t]] THEN RotateRaised(s) ELSE ReadRaised(s)
    /\ IF pc[t] = "confirm" THEN Miss(t) ELSE Return(t)
    /\ UNCHANGED <<clock, store, lateFills, process, calls>>

\* The snapshot is complete: the key is known and the lock is released.
EndCapture(t) ==
    /\ pc[t] = "capture"
    /\ todo[t] = {}
    /\ Goto(t, "lookup")
    /\ UNCHANGED <<clock, backend, process, budget, frame>>

----------------------------------------------------------------------------
(* get() and get_or_set() once the key is known.                           *)

Later(x, y) == IF x > y THEN x ELSE y

\* History: what process p may no longer be served an older result than.
Promised(p) == [s \in Scopes |-> Later(notified[s], mark[p][s])]

\* Wrong: the index holds the query, not the key it was stored under.
RegisterQuery(p, k) == indexed' = [indexed EXCEPT ![p] = @ \cup {k.q}]

\* _register_key
Register(p, k) == indexed' = [indexed EXCEPT ![p] = @ \cup {k}]

\* backend.get finds nothing or fails, or the key may not be read at all.
LookupMiss(t) ==
    LET p == ProcOf[t] IN
    /\ pc[t] = "lookup"
    /\ LockFree(p)
    /\ \/ /\ clearFailed[p] \/ KeyOf(t) \in invalidated[p] \/ KeyOf(t) \notin Keys
          /\ UNCHANGED faults
       \/ Fault
    /\ Miss(t)
    /\ UNCHANGED <<clock, backend, process, calls>>

LookupFound(t) ==
    LET p == ProcOf[t] IN
    /\ pc[t] = "lookup"
    /\ LockFree(p)
    /\ ~clearFailed[p]
    /\ KeyOf(t) \notin invalidated[p]
    /\ \E e \in store :
          /\ e.key = KeyOf(t)
          /\ row' = [row EXCEPT ![t] = e.asof]
    /\ Goto(t, "confirm")
    /\ todo' = [todo EXCEPT ![t] = Dependencies(query[t])]
    /\ since' = [since EXCEPT ![t] = Promised(p)]
    /\ UNCHANGED <<clock, backend, process, budget,
                   query, gens, same, fence, scope, victims>>

\* _generations_match() is True: register the key and return the rows.
Hit(t) ==
    /\ pc[t] = "confirm"
    /\ todo[t] = {}
    /\ same[t]
    /\ Register(ProcOf[t], KeyOf(t))
    /\ Goto(t, "hit")
    /\ UNCHANGED <<clock, backend, budget, frame,
                   generation, pending, invalidated, clearFailed, mark>>

Superseded(t) ==
    /\ pc[t] = "confirm"
    /\ todo[t] = {}
    /\ ~same[t]
    /\ Miss(t)
    /\ UNCHANGED <<clock, backend, process, budget>>

ReturnRows(t) ==
    /\ pc[t] = "hit"
    /\ Return(t)
    /\ UNCHANGED <<clock, backend, process, budget>>

\* list(queryset), outside the lock.
Sql(t) ==
    /\ pc[t] = "sql"
    /\ row' = [row EXCEPT ![t] = clock]
    /\ Goto(t, "fill")
    /\ UNCHANGED <<clock, backend, process, budget,
                   query, gens, todo, same, fence, scope, victims, since>>

\* Wrong: only a failed clear stops the fill.
FencedByClear(t) == clearFailed[ProcOf[t]]

\* The local fence: an invalidation or clear of this process since the lookup.
Fenced(t) == \/ fence[t] # generation[ProcOf[t]]
             \/ clearFailed[ProcOf[t]]

BeginFill(t) ==
    /\ pc[t] = "fill"
    /\ LockFree(ProcOf[t])
    /\ ~Fenced(t)
    /\ Goto(t, "publish")
    /\ todo' = [todo EXCEPT ![t] = Dependencies(query[t])]
    /\ UNCHANGED <<clock, backend, process, budget,
                   query, gens, same, fence, row, scope, victims, since>>

\* Fenced, inside a transaction by now, or superseded: rows are not published.
SkipFill(t) ==
    /\ \/ pc[t] = "fill" /\ LockFree(ProcOf[t])
       \/ pc[t] = "publish" /\ todo[t] = {} /\ ~same[t]
    /\ Return(t)
    /\ UNCHANGED <<clock, backend, process, budget>>

\* backend.set under a key that contains the captured generations.
Written(k, v) == {e \in store : e.key # k} \cup {[key |-> k, asof |-> v]}

Publish(t) ==
    LET p == ProcOf[t]
        k == KeyOf(t) IN
    /\ pc[t] = "publish"
    /\ todo[t] = {}
    /\ same[t]
    /\ store' = Written(k, row[t])
    /\ Register(p, k)
    /\ invalidated' = [invalidated EXCEPT ![p] = @ \ {k}]
    /\ Return(t)
    /\ UNCHANGED <<clock, token, lateTokens, lateFills, minted, born, notified,
                   generation, pending, clearFailed, mark, budget>>

\* backend.set raised, whether applied, lost or delayed: _backend_set is False.
PublishFails(t) ==
    LET k == KeyOf(t) IN
    /\ pc[t] = "publish"
    /\ todo[t] = {}
    /\ same[t]
    /\ Fault
    /\ \/ UNCHANGED <<store, lateFills>>
       \/ store' = Written(k, row[t]) /\ UNCHANGED lateFills
       \/ /\ lateFills' = lateFills \cup {[key |-> k, asof |-> row[t]]}
          /\ UNCHANGED store
    /\ Return(t)
    /\ UNCHANGED <<clock, token, lateTokens, minted, born, notified, process, calls>>

----------------------------------------------------------------------------
(* Writers.  The signal handler runs invalidate_model after the commit.    *)

Commit(t, s) ==
    /\ pc[t] = "idle"
    /\ clock < MaxCommits
    /\ clock' = clock + 1
    /\ Goto(t, "notify")
    /\ scope' = [scope EXCEPT ![t] = s]
    /\ UNCHANGED <<backend, process, budget,
                   query, gens, todo, same, fence, row, victims, since>>

\* invalidate_model called by the application, e.g. after a bulk update.
CallInvalidate(t, s) ==
    /\ pc[t] = "idle"
    /\ calls < MaxCalls
    /\ calls' = calls + 1
    /\ Goto(t, "notify")
    /\ scope' = [scope EXCEPT ![t] = s]
    /\ UNCHANGED <<clock, backend, process, faults,
                   query, gens, todo, same, fence, row, victims, since>>

\* invalidate_model up to the deletions: fence, rotate, block the indexed keys.
Invalidate(t) ==
    LET p    == ProcOf[t]
        s    == scope[t]
        keys == {k \in indexed[p] : s \in ScopesOf[k.q]} IN
    /\ pc[t] = "notify"
    /\ LockFree(p)
    /\ generation' = [generation EXCEPT ![p] = @ + 1]
    /\ \/ /\ RotateApplied(s)
          /\ pending' = [pending EXCEPT ![p] = @ \ {s}]
          /\ UNCHANGED faults
       \/ /\ RotateRaised(s)
          /\ pending' = [pending EXCEPT ![p] = @ \cup {s}]
    /\ mark' = [mark EXCEPT ![p][s] = clock]
    /\ invalidated' = [invalidated EXCEPT ![p] = @ \cup keys]
    /\ Goto(t, "delete")
    /\ victims' = [victims EXCEPT ![t] = keys]
    /\ UNCHANGED <<clock, store, lateFills, indexed, clearFailed, calls,
                   query, gens, todo, same, fence, row, scope, since>>

\* Wrong: the key leaves the index and stays blocked.
UnregisterIndex(p, k) ==
    /\ indexed' = [indexed EXCEPT ![p] = @ \ {k}]
    /\ UNCHANGED invalidated

\* _unregister_key
Unregister(p, k) ==
    /\ indexed' = [indexed EXCEPT ![p] = @ \ {k}]
    /\ invalidated' = [invalidated EXCEPT ![p] = @ \ {k}]

\* backend.delete acknowledged, the entry present or not: forget the key.
DeleteKey(t, k) ==
    LET p == ProcOf[t] IN
    /\ pc[t] = "delete"
    /\ k \in victims[t]
    /\ store' = {e \in store : e.key # k}
    /\ Unregister(p, k)
    /\ victims' = [victims EXCEPT ![t] = @ \ {k}]
    /\ UNCHANGED <<clock, token, lateTokens, lateFills, minted, born, notified,
                   generation, pending, clearFailed, mark, pc, budget,
                   query, gens, todo, same, fence, row, scope, since>>

\* backend.delete raised: the key stays blocked and indexed.
DeleteFails(t, k) ==
    /\ pc[t] = "delete"
    /\ k \in victims[t]
    /\ Fault
    /\ store' \in {store, {e \in store : e.key # k}}
    /\ victims' = [victims EXCEPT ![t] = @ \ {k}]
    /\ UNCHANGED <<clock, token, lateTokens, lateFills, minted, born, notified,
                   process, pc, calls,
                   query, gens, todo, same, fence, row, scope, since>>

EndInvalidate(t) ==
    /\ pc[t] = "delete"
    /\ victims[t] = {}
    /\ Return(t)
    /\ UNCHANGED <<clock, backend, process, budget>>

----------------------------------------------------------------------------
(* clear(): SCAN and DEL of every key of the namespace, tokens included.   *)

\* Wrong: only results are deleted, tokens survive.
ResultsOnly == {}

\* The scopes whose tokens the SCAN finds.
Present == {s \in Scopes : token[s] # NoToken}

ClearBegin(t) ==
    LET p == ProcOf[t] IN
    /\ pc[t] = "idle"
    /\ LockFree(p)
    /\ calls < MaxCalls
    /\ calls' = calls + 1
    /\ generation' = [generation EXCEPT ![p] = @ + 1]
    /\ Goto(t, "clearing")
    /\ todo' = [todo EXCEPT ![t] = Present]
    /\ victims' = [victims EXCEPT ![t] = Keys]
    /\ since' = [since EXCEPT ![t] = [s \in Scopes |-> clock]]
    /\ UNCHANGED <<clock, backend, faults, pending, indexed, invalidated, clearFailed,
                   mark, query, gens, same, fence, row, scope>>

ClearToken(t, s) ==
    /\ pc[t] = "clearing"
    /\ s \in todo[t]
    /\ token' = [token EXCEPT ![s] = NoToken]
    /\ todo' = [todo EXCEPT ![t] = @ \ {s}]
    /\ UNCHANGED <<clock, store, lateTokens, lateFills, minted, born, notified, process,
                   pc, budget, query, gens, same, fence, row, scope, victims, since>>

ClearEntry(t, k) ==
    /\ pc[t] = "clearing"
    /\ k \in victims[t]
    /\ store' = {e \in store : e.key # k}
    /\ victims' = [victims EXCEPT ![t] = @ \ {k}]
    /\ UNCHANGED <<clock, token, lateTokens, lateFills, minted, born, notified, process,
                   pc, budget, query, gens, todo, same, fence, row, scope, since>>

ClearEnd(t) ==
    LET p == ProcOf[t] IN
    /\ pc[t] = "clearing"
    /\ todo[t] = {} /\ victims[t] = {}
    /\ indexed'     = [indexed EXCEPT ![p] = {}]
    /\ invalidated' = [invalidated EXCEPT ![p] = {}]
    /\ pending'     = [pending EXCEPT ![p] = {}]
    /\ clearFailed' = [clearFailed EXCEPT ![p] = FALSE]
    /\ notified' = [s \in Scopes |-> Later(notified[s], since[t][s])]
    /\ Return(t)
    /\ UNCHANGED <<clock, token, store, lateTokens, lateFills, minted, born,
                   generation, mark, budget>>

ClearFails(t) ==
    /\ pc[t] = "clearing"
    /\ Fault
    /\ clearFailed' = [clearFailed EXCEPT ![ProcOf[t]] = TRUE]
    /\ Return(t)
    /\ UNCHANGED <<clock, backend, generation, pending, indexed, invalidated, mark, calls>>

----------------------------------------------------------------------------
(* The backend and the environment.                                        *)

\* Wrong: the write is replayed, as a client that retries commands would do.
Replayed(w) == lateTokens

Arrived(w) == lateTokens \ {w}

\* A delayed token write arrives, once; ADD does nothing to a present token.
DeliverToken(w) ==
    /\ lateTokens' = Arrived(w)
    /\ IF w.command = "ADD" /\ token[w.scope] # NoToken
       THEN UNCHANGED <<token, born, notified>>
       ELSE /\ Install(w.scope, w.tok)
            /\ IF w.command = "ADD" THEN UNCHANGED notified
                                   ELSE notified' = [notified EXCEPT ![w.scope] = clock]
    /\ UNCHANGED <<clock, store, lateFills, minted, process, pc, frame, budget>>

DeliverFill(e) ==
    /\ lateFills' = lateFills \ {e}
    /\ store' = Written(e.key, e.asof)
    /\ UNCHANGED <<clock, token, lateTokens, minted, born, notified,
                   process, pc, frame, budget>>

EvictToken(s) ==
    /\ token[s] # NoToken
    /\ Fault
    /\ token' = [token EXCEPT ![s] = NoToken]
    /\ UNCHANGED <<clock, store, lateTokens, lateFills, minted, born, notified,
                   process, pc, frame, calls>>

\* Expiry or eviction of a result.
EvictEntry(e) ==
    /\ Fault
    /\ store' = store \ {e}
    /\ UNCHANGED <<clock, token, lateTokens, lateFills, minted, born, notified,
                   process, pc, frame, calls>>

\* A process dies and is started again: _QuerySetCacheState lives in memory.
Restart(p) ==
    LET Reset(f, v) == [t \in Threads |-> IF ProcOf[t] = p THEN v ELSE f[t]] IN
    /\ Fault
    /\ generation'  = [generation EXCEPT ![p] = 0]
    /\ pending'     = [pending EXCEPT ![p] = {}]
    /\ indexed'     = [indexed EXCEPT ![p] = {}]
    /\ invalidated' = [invalidated EXCEPT ![p] = {}]
    /\ clearFailed' = [clearFailed EXCEPT ![p] = FALSE]
    /\ mark'        = [mark EXCEPT ![p] = Zero]
    /\ pc'      = Reset(pc, "idle")
    /\ query'   = Reset(query, None)
    /\ gens'    = Reset(gens, NoTokens)
    /\ todo'    = Reset(todo, {})
    /\ same'    = Reset(same, TRUE)
    /\ fence'   = Reset(fence, 0)
    /\ row'     = Reset(row, 0)
    /\ scope'   = Reset(scope, None)
    /\ victims' = Reset(victims, {})
    /\ since'   = Reset(since, Zero)
    /\ UNCHANGED <<clock, backend, calls>>

----------------------------------------------------------------------------

Init ==
    /\ clock = 0
    /\ token = NoTokens
    /\ store = {} /\ lateTokens = {} /\ lateFills = {}
    /\ generation  = [p \in Procs |-> 0]
    /\ pending     = [p \in Procs |-> {}]
    /\ indexed     = [p \in Procs |-> {}]
    /\ invalidated = [p \in Procs |-> {}]
    /\ clearFailed = [p \in Procs |-> FALSE]
    /\ pc      = [t \in Threads |-> "idle"]
    /\ query   = [t \in Threads |-> None]
    /\ gens    = [t \in Threads |-> NoTokens]
    /\ todo    = [t \in Threads |-> {}]
    /\ same    = [t \in Threads |-> TRUE]
    /\ fence   = [t \in Threads |-> 0]
    /\ row     = [t \in Threads |-> 0]
    /\ scope   = [t \in Threads |-> None]
    /\ victims = [t \in Threads |-> {}]
    /\ minted = 0 /\ calls = 0 /\ faults = 0
    /\ born     = [k \in 0..MaxTokens |-> 0]
    /\ notified = Zero
    /\ mark     = [p \in Procs |-> Zero]
    /\ since    = [t \in Threads |-> Zero]

ReadStep(t) ==
    \/ \E s \in Scopes : RetryRotation(t, s) \/ AddToken(t, s) \/ ReadToken(t, s)
    \/ Unavailable(t) \/ EndCapture(t)
    \/ LookupMiss(t) \/ LookupFound(t) \/ Hit(t) \/ Superseded(t) \/ ReturnRows(t)
    \/ Sql(t)
    \/ BeginFill(t) \/ SkipFill(t) \/ Publish(t) \/ PublishFails(t)

WriteStep(t) ==
    \/ Invalidate(t)
    \/ \E k \in victims[t] : DeleteKey(t, k) \/ DeleteFails(t, k)
    \/ EndInvalidate(t)

ClearStep(t) ==
    \/ \E s \in todo[t] : ClearToken(t, s)
    \/ \E k \in victims[t] : ClearEntry(t, k)
    \/ ClearEnd(t) \/ ClearFails(t)

Environment ==
    \/ \E w \in lateTokens : DeliverToken(w)
    \/ \E e \in lateFills : DeliverFill(e)
    \/ \E s \in Scopes : EvictToken(s)
    \/ \E e \in store : EvictEntry(e)
    \/ \E p \in Procs : Restart(p)

Next ==
    \/ \E t \in Threads :
          \/ \E q \in Queries : BeginRead(t, q)
          \/ \E s \in Scopes : Commit(t, s) \/ CallInvalidate(t, s)
          \/ ClearBegin(t)
          \/ ReadStep(t) \/ WriteStep(t) \/ ClearStep(t)
    \/ Environment

Spec == Init /\ [][Next]_vars
----------------------------------------------------------------------------
(* Properties.                                                             *)

BudgetType == clock \in Nat /\ calls \in Nat /\ faults \in Nat

TokenType ==
    /\ minted \in 0..MaxTokens
    /\ token \in [Scopes -> 0..MaxTokens]
    /\ lateTokens \subseteq [scope : Scopes, tok : 1..MaxTokens, command : {"SET", "ADD"}]
    /\ born \in [0..MaxTokens -> Nat]
    /\ notified \in [Scopes -> Nat]

StoreType == store \subseteq Entry /\ lateFills \subseteq Entry

ProcessType ==
    /\ generation \in [Procs -> Nat]
    /\ pending \in [Procs -> SUBSET Scopes]
    /\ indexed \in [Procs -> SUBSET Key]
    /\ invalidated \in [Procs -> SUBSET Key]
    /\ clearFailed \in [Procs -> BOOLEAN]
    /\ mark \in [Procs -> [Scopes -> Nat]]

FrameType ==
    /\ pc \in [Threads -> Labels]
    /\ query \in [Threads -> Queries \cup {None}]
    /\ gens \in [Threads -> [Scopes -> 0..MaxTokens]]
    /\ todo \in [Threads -> SUBSET Scopes]
    /\ same \in [Threads -> BOOLEAN]
    /\ fence \in [Threads -> Nat]
    /\ row \in [Threads -> Nat]
    /\ scope \in [Threads -> Scopes \cup {None}]
    /\ victims \in [Threads -> SUBSET Key]
    /\ since \in [Threads -> [Scopes -> Nat]]

\* A thread that reads has a queryset, one that invalidates has a scope.
OperandType ==
    \A t \in Threads :
        /\ pc[t] \in ReadLabels => query[t] \in Queries
        /\ pc[t] \in {"notify", "delete"} => scope[t] \in Scopes

\* Type correctness, and each call has the operand it works on.
TypeOK == BudgetType /\ TokenType /\ StoreType /\ ProcessType /\ FrameType /\ OperandType

\* A hit never returns rows read before a rotation of one of the query's scopes
\* that the backend had applied, a clear() that had succeeded, or an invalidation
\* that its own process had performed (even one whose rotation failed) by the
\* time the result was looked up.
HitIsFresh ==
    \A t \in Threads :
        pc[t] = "hit" => \A s \in ScopesOf[query[t]] : row[t] >= since[t][s]

\* A blocked key stays in the index, so that the next invalidation of its
\* models finds it and retries the deletion that failed.
BlockedKeysStayIndexed ==
    \A p \in Procs : invalidated[p] \subseteq indexed[p]

\* The local fence: a process never publishes rows that it read before its own
\* invalidation of one of the query's scopes.
NoFillAfterInvalidation ==
    \A t \in Threads :
        pc[t] = "publish" =>
            \A s \in ScopesOf[query[t]] : row[t] >= mark[ProcOf[t]][s]

\* A token that becomes current is one that no stored result, no result still
\* on its way and no read in progress refers to: an old key never comes back.
Refers(k, tok) == \E s \in ScopesOf[k.q] : k.gens[s] = tok

InstalledTokensAreNew ==
    [][\A s \in Scopes :
          token'[s] \notin {token[s], NoToken} =>
              /\ \A e \in store \cup lateFills : ~Refers(e.key, token'[s])
              /\ \A t \in Threads :
                    pc[t] # "idle" => \A r \in Scopes : gens[t][r] # token'[s]]_vars

\* The cache keeps the contract of FreshReads: what a lookup is answered with
\* is bounded by the promises made when the lookup reached the backend.
Asking(t) == pc[t] \in {"confirm", "hit"}

Contract == INSTANCE FreshReads WITH
    promised <- notified,
    own      <- mark,
    asked    <- [t \in Threads |-> IF Asking(t) THEN query[t] ELSE None],
    need     <- [t \in Threads |-> IF Asking(t) THEN since[t] ELSE Zero],
    answer   <- [t \in Threads |-> IF pc[t] = "hit" THEN [asof |-> row[t]]
                                                    ELSE [none |-> TRUE]]

KeepsContract == Contract!Spec
=============================================================================
