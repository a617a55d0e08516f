----------------------------- MODULE LocalCache -----------------------------
(***************************************************************************)
(* QuerySetCache as it is without configuration: the state of one process  *)
(* over MemoryCacheBackend, an OrderedDict with a TTL and a maximal size,  *)
(* used by the threads of the process.                                     *)
(*                                                                         *)
(* Nothing is shared with other processes and there are no generations:    *)
(* late fills are stopped by the fence alone, and invalidation deletes the *)
(* keys it finds in the index.  Every operation of the backend holds its   *)
(* lock, and QuerySetCache its own from lookup to registration and from    *)
(* the fence to the last deletion, so each of these is one step.           *)
(*                                                                         *)
(* As in SharedCache, `clock' counts commits and a result is the value of  *)
(* the clock when its SQL ran; `now' is time.monotonic().                  *)
(***************************************************************************)
EXTENDS Naturals, Sequences, FiniteSets

CONSTANTS
    Threads,
    Models,
    Queries,     \* querysets, standing for their keys
    ModelsOf,    \* the models of every dependency of a queryset
    None,        \* no queryset, no model
    MaxSize,     \* maxsize of the backend
    TTL,         \* ttl of the cache
    MaxCommits,  \* bound: commits
    MaxCalls,    \* bound: direct calls of clear() and invalidate_model()
    MaxTime,     \* bound: the clock stops there
    MaxUses      \* bound: operations of the backend that touch an entry

ASSUME ModelsAssumption == ModelsOf \in [Queries -> SUBSET Models]
ASSUME NoneAssumption   == None \notin Queries \cup Models
ASSUME SizeAssumption   == MaxSize \in Nat /\ TTL \in Nat \ {0}

VARIABLES
    clock, now,
    data,        \* MemoryCacheBackend._data, the oldest entry first
    generation,  \* _QuerySetCacheState.generation
    indexed,     \* the keys in model_keys and key_models
    pc, query, fence, row, model,
    calls,
    uses,        \* history: lookups that hit and writes, counted
    mark         \* history: the clock when a model was last invalidated

thread == <<pc, query, fence, row, model>>
vars   == <<clock, now, data, generation, indexed, thread, calls, uses, mark>>

Entry == [key : Queries, asof : Nat, expires : Nat, used : Nat]

Keys == {data[i].key : i \in DOMAIN data}

----------------------------------------------------------------------------
(* MemoryCacheBackend.                                                     *)

Expired(e) == now >= e.expires

\* What is left of the first i entries when those under the keys are deleted.
Keeping(d, keys) ==
    LET kept[i \in 0..Len(d)] ==
            IF i = 0 THEN <<>>
            ELSE IF d[i].key \in keys THEN kept[i - 1] ELSE Append(kept[i - 1], d[i])
    IN  kept

Without(d, keys) == Keeping(d, keys)[Len(d)]

\* Wrong: a hit leaves the entry where it was.
Unmoved(k) ==
    [i \in DOMAIN data |->
        IF data[i].key = k THEN [data[i] EXCEPT !.used = uses + 1] ELSE data[i]]

\* get() of a live entry: move_to_end.
Touched(k) ==
    LET e == CHOOSE e \in {data[i] : i \in DOMAIN data} : e.key = k
    IN  Append(Without(data, {k}), [e EXCEPT !.used = uses + 1])

\* Wrong: one entry too many is kept.
KeepOneMore(d) == IF Len(d) > MaxSize + 1 THEN Tail(d) ELSE d

\* popitem(last=False) while there are too many: one is, at most.
Evicted(d) == IF Len(d) > MaxSize THEN Tail(d) ELSE d

\* set(): purge, write at the end, evict from the front.
Stored(k, v) ==
    LET purged == {data[i].key : i \in {j \in DOMAIN data : Expired(data[j])}}
    IN  Evicted(Append(Without(data, purged \cup {k}),
                       [key |-> k, asof |-> v, expires |-> now + TTL, used |-> uses + 1]))

----------------------------------------------------------------------------
(* get() and get_or_set().                                                 *)

Live(k) == \E i \in DOMAIN data : data[i].key = k /\ ~Expired(data[i])

\* A live entry: it is registered and its rows are returned.
Hit(t, q) ==
    /\ pc[t] = "idle"
    /\ Live(q)
    /\ uses < MaxUses
    /\ uses' = uses + 1
    /\ data' = Touched(q)
    /\ indexed' = indexed \cup {q}
    /\ UNCHANGED <<clock, now, generation, thread, calls, mark>>

\* No entry, or an expired one, which is removed: get() is None, get_or_set()
\* notes the fence and goes on to run the SQL.
Miss(t, q) ==
    /\ pc[t] = "idle"
    /\ ~Live(q)
    /\ data' = Without(data, {q})
    /\ \/ UNCHANGED <<pc, query, fence>>
       \/ /\ pc' = [pc EXCEPT ![t] = "sql"]
          /\ query' = [query EXCEPT ![t] = q]
          /\ fence' = [fence EXCEPT ![t] = generation]
    /\ UNCHANGED <<clock, now, generation, indexed, row, model, calls, uses, mark>>

Sql(t) ==
    /\ pc[t] = "sql"
    /\ row' = [row EXCEPT ![t] = clock]
    /\ pc' = [pc EXCEPT ![t] = "fill"]
    /\ UNCHANGED <<clock, now, data, generation, indexed, query, fence, model, calls, uses, mark>>

\* Wrong: whatever was invalidated meanwhile.
Unfenced(t) == TRUE

Unchanged(t) == fence[t] = generation

Finishes(t) == /\ pc' = [pc EXCEPT ![t] = "idle"]
               /\ query' = [query EXCEPT ![t] = None]
               /\ fence' = [fence EXCEPT ![t] = 0]
               /\ row' = [row EXCEPT ![t] = 0]
               /\ model' = [model EXCEPT ![t] = None]

\* Wrong: only a hit registers the key.
RegisterNothing(k) == indexed

Register(k) == indexed \cup {k}

Fill(t) ==
    /\ pc[t] = "fill"
    /\ Unchanged(t)
    /\ uses < MaxUses
    /\ uses' = uses + 1
    /\ data' = Stored(query[t], row[t])
    /\ indexed' = Register(query[t])
    /\ Finishes(t)
    /\ UNCHANGED <<clock, now, generation, calls, mark>>

\* Fenced, or inside a transaction by now.
SkipFill(t) ==
    /\ pc[t] = "fill"
    /\ Finishes(t)
    /\ UNCHANGED <<clock, now, data, generation, indexed, calls, uses, mark>>

----------------------------------------------------------------------------
(* Writers and clear().                                                    *)

Commit(t, m) ==
    /\ pc[t] = "idle"
    /\ clock < MaxCommits
    /\ clock' = clock + 1
    /\ pc' = [pc EXCEPT ![t] = "notify"]
    /\ model' = [model EXCEPT ![t] = m]
    /\ UNCHANGED <<now, data, generation, indexed, query, fence, row, calls, uses, mark>>

\* invalidate_model() called by the application, e.g. after a bulk update.
CallInvalidate(t, m) ==
    /\ pc[t] = "idle"
    /\ calls < MaxCalls
    /\ calls' = calls + 1
    /\ pc' = [pc EXCEPT ![t] = "notify"]
    /\ model' = [model EXCEPT ![t] = m]
    /\ UNCHANGED <<clock, now, data, generation, indexed, query, fence, row, uses, mark>>

\* After the commit, by on_commit().
Invalidate(t, m) ==
    LET keys == {k \in indexed : m \in ModelsOf[k]} IN
    /\ pc[t] = "notify" /\ model[t] = m
    /\ generation' = generation + 1
    /\ data' = Without(data, keys)
    /\ indexed' = indexed \ keys
    /\ mark' = [mark EXCEPT ![m] = clock]
    /\ Finishes(t)
    /\ UNCHANGED <<clock, now, calls, uses>>

Clear(t) ==
    /\ pc[t] = "idle"
    /\ calls < MaxCalls
    /\ calls' = calls + 1
    /\ generation' = generation + 1
    /\ data' = <<>>
    /\ indexed' = {}
    /\ mark' = [m \in Models |-> clock]
    /\ UNCHANGED <<clock, now, thread, uses>>

Tick == /\ now < MaxTime
        /\ now' = now + 1
        /\ UNCHANGED <<clock, data, generation, indexed, thread, calls, uses, mark>>

----------------------------------------------------------------------------

Init ==
    /\ clock = 0 /\ now = 0 /\ data = <<>> /\ generation = 0 /\ indexed = {}
    /\ pc    = [t \in Threads |-> "idle"]
    /\ query = [t \in Threads |-> None]
    /\ fence = [t \in Threads |-> 0]
    /\ row   = [t \in Threads |-> 0]
    /\ model = [t \in Threads |-> None]
    /\ calls = 0 /\ uses = 0
    /\ mark   = [m \in Models |-> 0]

Next ==
    \/ \E t \in Threads :
          \/ \E q \in Queries : Hit(t, q) \/ Miss(t, q)
          \/ Sql(t) \/ Fill(t) \/ SkipFill(t) \/ Clear(t)
          \/ \E m \in Models : Commit(t, m) \/ CallInvalidate(t, m) \/ Invalidate(t, m)
    \/ Tick

Spec == Init /\ [][Next]_vars

----------------------------------------------------------------------------
(* Properties.                                                             *)

TypeOK ==
    /\ clock \in Nat /\ now \in Nat /\ data \in Seq(Entry) /\ generation \in Nat
    /\ indexed \subseteq Queries
    /\ pc \in [Threads -> {"idle", "sql", "fill", "notify"}]
    /\ query \in [Threads -> Queries \cup {None}] /\ fence \in [Threads -> Nat]
    /\ row \in [Threads -> Nat] /\ model \in [Threads -> Models \cup {None}]
    /\ calls \in Nat /\ uses \in Nat
    /\ mark \in [Models -> Nat]
    /\ Len(data) <= MaxSize /\ Cardinality(Keys) = Len(data)

\* The cache holds no rows read before this process invalidated one of the
\* models they come from, whichever thread read them and however late it fills.
StoredIsFresh ==
    \A i \in DOMAIN data : \A m \in ModelsOf[data[i].key] : data[i].asof >= mark[m]

\* Every stored key is in the index, or no invalidation would ever find it.
StoredIsIndexed == Keys \subseteq indexed

\* The entry that makes room for another is the least recently used one.
EvictsLeastRecent ==
    [][\A i \in DOMAIN data, j \in DOMAIN data' :
          data[i].key \notin Keys' /\ ~Expired(data[i]) /\ pc' # pc
             /\ generation' = generation => data'[j].used > data[i].used]_vars
=============================================================================
