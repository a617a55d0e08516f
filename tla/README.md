# Specifications of django-nova

TLA+ modules for the parts of django-nova whose correctness depends on the order
in which processes, threads, coroutines and remote calls take their steps, with
the TLC runs that check them on small instances and the TLAPS proofs that carry
the main results to every instance. Paths below are relative to `src/src/nova/`
unless they start with `src/`; `scripts/` is `src/scripts/`.

## 1. The system

django-nova is a Django library. It has no server of its own: its code runs in
the application's processes (several workers, several threads or one event loop
each) which share Redis or Memcached and the databases.

| Component | State it keeps | Operations | Hard behaviour |
|---|---|---|---|
| QuerySet cache (`cache/queryset_cache.py`, `generation.py`, `generation_transport.py`) | per process: fence counter, pending rotations, key index, blocked keys, `clear_failed`; shared: one generation token per (model, database) scope and the results | `get`, `get_or_set`, `invalidate_model`, `clear` | tokens are read before the SQL and again after the lookup; token writes may be lost or late; deletions and clears fail half way |
| Memory backend (`cache/backends/memory.py`) | an `OrderedDict` with expiry times | `get`, `set`, `delete`, `clear`, bulk operations | LRU eviction, expiry, no shared tokens |
| Redis, Memcached backends (`cache/backends/redis.py`, `memcached.py`) | the server's | the same, and `get_generation(s)`, `rotate_generation` | single attempt per token write; SCAN is not atomic; TTLs in other units, judged by other clocks |
| Other cache backends (`redis_backend.py`, `django_cache.py`, `asyncio_backend.py`, `null.py`) | a dict, or the server's | the same, some of them coroutines | units of TTL, which operations enforce `maxsize`, bulk commands that fail half way |
| Invalidation (`cache/invalidation.py`) | signal registrations | handlers of `post_save`, `post_delete`, `m2m_changed`, run by `on_commit` | a commit and its invalidation are two steps |
| Query dependencies (`cache/dependencies.py`) | none | models a queryset reads: joins, subqueries, prefetches | an omitted model is never invalidated |
| Row snapshots (`cache/result_snapshot.py`, `read_contract.py`, `write_contract.py`) | copies of rows | copy on store and on hit | rows shared between callers |
| Task engine (`tasks/`) | an `asyncio.Queue`, a pool of workers, results | `start`, `submit`, `stop`, retries | `join()` against retries, cancellation, several `stop()` |
| Distributed lock (`redis/locks.py`) | one Redis key; per instance an identifier and `_acquired` | `acquire`, `release` | lost or repeated commands, leases that expire |
| Rate limiter (`redis/rate_limiter.py`) | one sorted set per key | `check_rate_limit` and its asynchronous twin | the clocks of the callers, latency, repeated scripts |
| Replica router (`db/router.py`, `typing/querysets.py`) | thread-local flag; shared lag and time of the last check | `db_for_read`, `db_for_write`, `using_replica`, `report_replica_lag` | threads race to refresh; checks while a fetch is under way |
| Redis clients (`redis/client.py`, `health.py`, `pubsub.py`) | process-wide clients and pools | get, close, ping | created twice, closed while in use |
| Read/write splitter (`db/splitter.py`), migration helpers | a context variable | context managers | nesting |
| Query planner (`query/`) | none | relations, prefetches and deferred columns of a schema | schemas in cycles, or reached by two paths |
| Validation (`validation/`), typed models (`typing/`) | the row that is written | the validation phases of a save, `update_fields` | load, validate and write are three steps; a partial update is validated over what was loaded |
| Adapters for DRF, FastAPI and GraphQL (`ecosystem/`), admin (`admin/`) | none | the writes of their handlers; fields and types derived from a schema | the projections must agree with each other; compilation meets schemas it has not finished |
| Measurement scripts (`scripts/run_*.py`, `summarize_*.py`) | a directory with a manifest and one report per worker | plan, run, record, analyze | killed runners, failed workers, sources that change, reports that are overwritten; collections that nobody asked for |
| Context and tracing (`core/`) | context variables | spans, request context | teardown, inheritance by tasks |
| Metrics, configuration, benchmarks and report tools | little or none | forwarding, text | - |

How they interact: a model's `save` triggers the signal handler, which after the
commit calls `invalidate_model` of the process's cache; the cache talks to its
backend under a per-process `RLock` (but runs SQL outside it); the router
decides where the SQL runs; lock, limiter and router talk to Redis through the
clients; tasks run on the worker coroutines of the process's engine. REST and
FastAPI handlers end in `NovaModel.save()`, and ask the planner for the queryset
from which their serializers read. The measurement scripts only share a
directory with each other.

What makes each of them correct: the cache, that no hit is staler than the
invalidations it can know of; the engine, that an accepted task runs to its end
once and that `stop()` waits for it; the lock, that two holders never overlap
while leases run; the limiter, that no stretch of time admits more than the
limit; the router, that decisions use a recent lag and that a thread which wrote
does not read old rows; the backends, that an entry lives for its TTL and that
`clear()` takes what it should and nothing else; the planner and the
dependencies, that nothing reachable is left out; the projections, that they are
the schema's; the writes, that what is stored satisfies the schema; the scripts,
that they accept nothing but a whole experiment and attribute collections to
what they interrupted; the snapshots, that no caller can change what another one gets.

`PROJECT.json` lists every component with its status, and every hazard at the
line where it bites, with the properties that would notice.

## 2. The modules

| Module | Models | Abstract counterpart, proofs |
|---|---|---|
| `SharedCache` | `QuerySetCache` over a `GenerationBackend`, in several processes of several threads | `FreshReads` (contract), `SharedCacheInvariant` (inductive invariants), `SharedCacheProofs` |
| `LocalCache` | `QuerySetCache` over `MemoryCacheBackend`, one process | `LocalCacheProofs` |
| `Invalidation` | `connect_invalidation()`, the relation graph, and the handlers in nested transactions | `InvalidationProofs` |
| `TaskEngine` | `AsyncioBackend` with its workers | `TaskEngineProofs` |
| `DistributedLock` | `AsyncDistributedLock` | `RedisProofs` |
| `RateLimiter` | the sliding-window script and its callers | `RedisProofs` |
| `ReplicaRouter` | `NovaDatabaseRouter`, `_ReplicaLagTracker`, `using_replica` | `RedisProofs` |
| `CacheBackends` | every operation of seven cache backends, as the commands they send | `LibraryProofs` |
| `ModelWrites` | the ways to `NovaModel.save()` and its phases, in concurrent requests | `LibraryProofs` |
| `SchemaPlans` | the query planner, and the projections of a schema for REST, GraphQL and the admin | closed sets of schemas, in the module; `LibraryProofs` |
| `Experiments` | runners and analyzers of six experiments | the design `Whole`, in the module; `MeasurementProofs` |
| `ObjectGraphs` | `analyze_graph()` of the lifetime reports | closure and reference counting, in the module; `MeasurementProofs` |
| `GcTimeline` | what a timed worker or a probe records of the collector, and the analyzers' reading of it | history `truth`, in the module; `TimelineProofs` |

`MC*` modules give TLC its instances. Operators marked `Wrong:` are the mistakes
a change to the code might make; no action uses them, and each property is
violated when one of them takes the place of the definition that follows it
(`PROJECT.json`, "mutants"). The last six modules share no state: `MCLibrary` lets
each behaviour pick one of them, while the others do not move.

### SharedCache

*State.* `token` and `store` are the server; `generation`, `pending`, `indexed`,
`invalidated`, `clearFailed` are the fields of `_QuerySetCacheState` (`model_keys`
and `key_models` together are `indexed`); `pc` and the variables after it are the
locals of the call a thread executes. `born`, `notified`, `mark` and `since` are
history that no guard reads.

*Steps.* Each call of the backend is a step, so that the calls of different
processes interleave as they do in production. Where the code holds
`state.lock`, `LockFree` keeps the other threads of the process out, and only
them. A read goes through `capture` (the tokens, after repeating the rotations
the process owes), `lookup`, `confirm` (the tokens again), `hit`, or through
`sql`, `fill` and `publish` (the fence, the tokens a third time, the SET).
`invalidate_model` raises the fence, rotates, blocks the indexed keys and deletes
them one by one. `clear()` deletes what its SCAN found one by one; keys and
tokens written meanwhile stay.

*Failures.* A call that raises was not applied, was applied, or is still on its
way (`lateTokens`, `lateFills`) and arrives at any later time, at most once,
because `generation_transport.py` forbids the client to repeat it. Tokens and
results are evicted at any time. `Restart` kills a process in the middle of
anything and starts it with an empty state. A late DEL is not a case of its own:
the eviction of a result at that moment is the same step.

*Data.* A result is the value of `clock` (the number of commits) when its SQL
ran. A uuid4 token is the next unused number, since only equality is ever
tested. The digest in a key is the query and its tokens. `ScopesOf` is a constant:
it stands for what `query_dependencies` returns and for the two scopes
`<<model, db>>` and `<<model, "*">>` of each model. `get_generation`'s three
attempts at ADD are one attempt that succeeds or raises. Tokens of one snapshot are read one at a
time, as Memcached does; the MGET of Redis is among these behaviours. Reads that
bypass the cache (uncacheable querysets, open transactions) change nothing and
are not steps.

*Contract.* `FreshReads` says what callers may rely on, without tokens, keys or
locks: an answer is at least as recent as every promise made for the query's
scopes when the lookup was made. `KeepsContract` maps `SharedCache` to it. A lookup
may end with a promise: when the tokens cannot be read again because an owed
rotation was applied and its reply lost, both happen in one step. One such step
takes two faults in one process, more than the runs allow; the theorem
`ContractKept` covers it.

### LocalCache

The backend does not share tokens, so that nothing but the fence and the key
index protects readers. Under the process's lock each of lookup, fill,
invalidation and clear is one step; SQL runs between them. `data` is the
`OrderedDict`, oldest first, with `expires` as the code computes it; `uses`
numbers the operations that touch an entry, for `EvictsLeastRecent` alone.
What stays of `data` when keys are deleted or have expired is the recursive function
`Keeping`, one entry after the other, as the loops of the backend have it.

### Invalidation

`Explore` is one turn of the work list of `related_model_graph()`, `Subscribe` the
registration at its end; `Connect` is called in any order and repeatedly, as
`ready()` does for the enabled models, and returns early for a model that was
connected as a relation of another one. `Init` chooses which relations the
application declares, so that one run covers every such schema. `Dependencies`
is what `query_dependencies` finds along the path of a queryset.

A transaction keeps, for the depth of each `atomic()` block it is in, a set of
written models and a list of hooks: releasing a savepoint adds both to those of
the block around it, rolling back drops both. The hooks of a commit run one after
the other while other threads read. The cache is `LocalCache` without TTL, size
and failures, since its question is whether the hooks come, not what they do.
Transactions, `on_commit` and the deletion of an object are Django's, modelled
from how the handlers use them. One alias only; `savepoint=False`, hooks of
the application that raise, and `on_delete=SET_NULL` are left out.

### TaskEngine

One event loop: what lies between two awaits is one step. `at` says at which
await a worker is suspended. `doomed` are workers whose `cancel()` has been called
and who have not been resumed yet. `Woken` is how `join()` wakes its waiters when
the count of unfinished tasks passes zero; `Take` respects that the loop resumes
coroutines in the order in which they were woken. A task function may return,
raise, or raise `CancelledError`, which is not an `Exception` and ends the worker
through `finally`.

### DistributedLock

A command and the processing of its reply are separate steps; the lease may
expire between any two of them. A call that raises may have been applied, be
lost or late, and the client repeats it (redis-py's `retry_on_timeout`) or passes the
error on. An instance is used by one user at a time and not used again after one
of its calls raised, as `async with` over `async_lock()` does.

### RateLimiter

The script is one atomic step. It compares the caller's time, read before the
call, with the times other callers carried. The constants `Drift` (how far a
clock is from Redis's) and `Latency` (how much later than its time a script can
run) bound what the code leaves open; `Opening` only keeps times positive.

### ReplicaRouter

The steps are the accesses to the shared tracker: the unlocked comparison, the
lock with the second comparison, the fetch (during which the lock is held and
time passes), the decision on `_lag_ms`. `Report` and `Expire` are the monitor
and its `EX`. The code's quirks are kept: a missing report counts as no lag, and
a nested `using_replica()` clears the flag of the enclosing block on exit.

### CacheBackends

A call becomes a list of commands (`todo`), each of them atomic at the server or
under the backend's lock; other clients' commands come in between. `Configure`
picks the backend. TTLs keep their arithmetic: rounding up to the second and down
to the millisecond, never to zero, Memcached's month beyond which a number is a
point in time, and the envelope in which Memcached values carry their deadline,
stamped and judged by the clocks of two clients. `clear()` of Redis goes page by
page: `Scan` returns any keys with the prefix, none at all included, and ends
once everything that was there all along has been named. `Raise` ends a call between two
commands. The cache calls only a few of these operations; `SharedCache` models the
generations.

### ModelWrites

A request is loaded (`Begin`), validated (`Validate` or `Refuse`), asked for
duplicates (`Unique`) and written (`Write`), with other requests and deletions in
between. `way` says by which handler it came: REST create and update (the payload
of a partial update is validated over what was loaded), FastAPI, `from_pydantic()`,
the admin's form, or code that calls `save()` with `update_fields`. Two fields with
a rule about both, one of them unique and one with a default, stand for a model;
values arrive as numbers, as text that spells one, as junk, or not at all.
Requests run in autocommit; transactions and the isolation of the
database are not added to them.

### SchemaPlans

Two walks that call themselves for the schemas they meet, each with an explicit
stack: `calls` of `find_deep_relations()`, which collect paths and share the set of visited
schemas (`found`), and `pending` calls of `_compile_schema()`, which share the cache of types
with its placeholders. A turn of a loop over fields is a step. When the outermost
call returns, `Plan` removes redundant paths, applies the exclusions, checks the
model and defers columns; `Compiled` replaces a placeholder by the type. The first steps make
up the schemas one by one, and the model, so that every combination is looked at. The
properties compare with what references reach: the schemas in every set that
holds the root and is closed under them.

### Experiments, ObjectGraphs, GcTimeline

`Experiments`: the runner launches one worker per job of its plan and saves the
manifest before and after; it may be killed, a worker may fail, write a report and
fail, or get a process id that was used before; sources and plugins may
change while it runs; afterwards reports are overwritten, entries dropped or
altered. Then the analyzer reads the directory. A hash is what it is the hash of.
The six experiments differ in their plans, in what a report must agree with and in
what is read again afterwards. `ObjectGraphs` keeps the two depth-first searches
with their explicit stacks, one turn of a loop per step; the roots come in the order of
their ids, as the reports list them. What it should find, closure (`Connected`) and what
reference counting frees (`Freed`), is defined by closed sets of objects, not by a search.
`GcTimeline` lets automatic collections fall
between any two milestones of a worker, also before the callback is installed and
inside the requested collection's call; a finalizer may switch automatic
collections on again. A milestone is a reading of the clock, a saved state of the
collector, or a change of the callback or of the switch; `Name` and the number of the read
say which. `truth` is the history of all collections: after which milestone each fell, its times,
which request it answered if any (`asked`), and the place of what the callback wrote of
it (`noted`). The analyzers never look at it; both properties compare what they conclude
with it. Statistics, bootstrap intervals and the text of the
summaries are left out.

## 3. The runs

| Run | Instance | What it shows |
|---|---|---|
| `shared_processes` | 2 processes of one thread, 1 scope, 1 queryset, 1 commit, 3 tokens, 1 direct call, 1 fault | `HitIsFresh`, `InstalledTokensAreNew`, `KeepsContract`, types |
| `shared_threads` | 1 process, 2 threads, 2 scopes, 1 commit, 4 tokens, 1 call, 1 fault | `NoFillAfterInvalidation`, `BlockedKeysStayIndexed` |
| `local` | 2 threads, 2 models, 3 querysets, room for 2 results, TTL 2, 2 commits, 1 call | `StoredIsFresh`, `StoredIsIndexed`, `EvictsLeastRecent`, types |
| `invalidation` | 2 connections, 4 models in every choice of a foreign key and a many-to-many relation, 3 querysets, 3 calls to connect, 2 writes, 2 commits, depth 2 | `StaleOnlyWhileAnnounced`, `OnlyCommittedRows`, `RollbackIsSilent`, types |
| `tasks` | 2 workers, a delayed and a retried task, 2 `stop()` calls, 1 foreign cancellation | `StopDrains`, `InOnePlace`, `AttemptsReported`, `TasksFinish`, `StopReturns`, types |
| `lock` | 3 users, 4 instances, 2 faults | `Exclusion`, `NoLeak`, the inductive invariant `LockInv` |
| `rate` | 3 requests, limit 2, window 6, latency 1, drift 1, 10 ticks | `LimitKept`, `RejectionsJustified`, the inductive invariant `LimiterInv` |
| `router` | 3 threads, interval 2, 2 ticks after start, nesting 2, a lag on each side of the threshold | `FreshLag`, `OneFetchPerInterval`, `ReadsOwnWrites`, types |
| `library` | backends: 7 kinds, 2 clients one tick apart, 2 keys and 1 foreign one, TTLs of 0, 1 and 3 ticks or none, a unit of 2 ticks, a month of 1 unit, 2 calls, 8 ticks; writes: 2 requests of 6 ways, 2 primary keys, values 0 and 1; schemas: 3, the root with 2 fields; experiments: 6, 1 to 4 repeats, 1 shock; graphs: 4 nodes, up to 4 edges; timelines: 2 reads, 2 automatic collections | `LivesForItsTTL`, `ClearIsExact`, `RowsSatisfySchema`, `PlanServesSerializer`, `ProjectionsMirrorSchema`, `VerdictIsRight`, `CyclesFound`, `TimelineIsTrue`, `CollectedAsAsked`, types |
| `tasks_restart`, `tasks_cancel`, `router_outage` | subsets of the above | three findings, section 6 |

*Bounds.* Two processes and one commit are enough for every race between a read
and an invalidation of another process, because a thread that has finished one
call can start the next: a stale fill needs one commit, one old token and one
rotation; a token that comes back needs a third. The fault budget of one pays for each
single failure at every point; two faults at once (a rotation lost and a clear
failed, say) are covered by the proofs, which have no bounds. Joins need two
scopes, whose tokens are read at different times: `shared_threads` has them in one
process, and `Freshness` proves `HitIsFresh` for any number of scopes and processes. Two threads suffice for the fence, since a lock has one
holder and one waiter. In `invalidation` two writes put one in a savepoint and
one around it, two commits order a fill of one connection between those of the
other, and the third call to connect finds everything connected. Two tasks
occupy both workers while a third event (stop, cancel, retry) takes place. Three users are one more than exclusion needs, for a late command
of a user that has left. Three requests exceed the limit of two, and the
ticks cover the window and the time until it has passed. In `router` the third
thread is the one that waits for the lock with an old `now`.

In `library` two calls are one that is under way and one that comes between its
commands. Of the TTLs one is below the unit, one is not a multiple of it and lies beyond the
month, and one has lapsed. Two requests suffice for a write between the
load and the write of another, and two values for a rule that is broken. Three
schemas make a cycle, a diamond and a shared schema below the root; the
two fields of the root have every kind of annotation that matters to the plan, and
the other schemas those that lead on. Four nodes are two cycles
joined by an edge, or a cycle with something downstream. One shock is any
single thing that goes wrong, at any moment; an analyzer that misses one cannot be
excused by a second. Two collections are one that spoils what was asked for and one
elsewhere.

That the instances
are large enough to break each property is shown by the mutants.

Bounds named `Max...` (and `Closing`) appear in guards only. `CHECK_DEADLOCK FALSE`
is set where a run stops when its budget is used up or all tasks are done, and in
`library`, whose parts end. The
`shared_*` runs check deadlock: no lock order and no owed rotation ever leaves
every process without a step.

*Symmetry* permutes users, requests, threads, or processes, in runs without
liveness properties only.

## 4. Fairness

Only `TaskEngine` states fairness, and only `TasksFinish` and `StopReturns` use
it. `WF(Turn(w))`: the event loop resumes every coroutine that can go on, in
order, so that a worker suspended at a delay, in a function or in a backoff
takes its next turn; this assumes that task functions end, by returning or
raising. `WF(Return(c))`: a `stop()` that has been woken, or whose workers have
ended, is resumed. Nobody is obliged to call `start()`, `submit()`, `stop()` or
`cancel()`. The liveness properties name the excuses the code leaves: a worker that
was cancelled, or that a task function ended by raising `CancelledError`. All
other modules have safety properties alone: no call has to be made, no message has to arrive.

## 5. What is proved

Checked by TLAPS for every value of the constants, under the named assumptions
of the modules: sets are as declared, bounds are natural numbers; for the
limiter the requests, for the engine the worker slots and for the backends the keys are finitely many.
Three assumptions say more. `Invalidation` takes cached querysets to be of
enabled models, as `QuerySetCache` is used, and through tables to be those Django
makes for one field each: they are not enabled models and end no path. `CacheBackends`
takes the clocks to differ by at most `Skew`, and the epoch to be further away than
Memcached's month. `ModelWrites` starts with rows that satisfy the schema.

**Shared cache** (`SharedCacheProofs`, with the invariants of `SharedCacheInvariant`)
- `TypeCorrect`: `Spec => []TypeOK`, action by action.
- `FenceHolds`, `BlockedIndexed`: a fence that still
  equals the process's generation was noted after the last invalidation, and the
  lock keeps it so until the fill is over (`FenceInv`).
- `FreshInvariant`, `Freshness`, `TokensAreNew`.
  `HitIsFresh` is not inductive: it speaks of the moment of the hit, while the
  reason lies in what tokens mean. `FreshInv` adds it in parts. *TokensInv*: a
  token not generated yet, or on its way, is *Clean*, nothing refers to it; hence
  the time `born` at which a referred token was installed never changes
  (`BornStable`). *LevelInv*: the Level of a scope (when its token was installed,
  or now if it has none) never decreases, and every promise lies below it,
  except for scopes whose rotation the process still owes. *EntryInv* and
  *RowInv*: a result was read after the tokens in its key were installed.
  *ConfirmInv*: tokens confirmed after a lookup are younger than the promises
  made before it. *ClearInv*: the scopes a `clear()` in progress has dealt with
  already keep what it is going to promise. A hit joins the last three.
  A part of the module says once what a step does to each part of the state, so
  that the invariant is argued over effects and not over thirty actions again.
- `ContractKept`: `SharedCache` implements `FreshReads`.
  The initial states map to initial states, and each step to one of the contract
  or to a stutter. It needs `FreshInv`, and `PastInv`: nothing was read or promised
  later than now. `PromisesRise` says that no step takes a promise back.

**Invalidation** (`InvalidationProofs`)
- `RelationsConnected`: whatever is related to a connected model is connected too
  (`Connected`). `ConnectedInv` adds what the work list means: it holds every
  neighbour of a model seen that has not been seen itself, and is empty when no
  exploration is under way.
- `InvalidationTypes`: a block that has ended leaves neither writes nor hooks.
- `CommittedRows`: no result is stored with rows that its connection had not
  committed (`CommittedInv`).
- `SilentRollbacks`: a commit announces nothing that it does not change. At every depth
  the hooks of a block are for models written in that block, and whatever was written there,
  if anyone subscribes to it, has a hook (*Announces*, by induction over the steps of
  blocks that are released into others).
- `StaleOnlyForAMoment`, that is `StaleOnlyWhileAnnounced`: a stored result is as
  recent as the last commit to each of its models, or that commit still has a hook
  to run which drops it (*Current*). The models on the path of a cached queryset are all
  subscribed to, by `Connected` and induction along the path; hence a commit that
  changes one of them has such a hook, by *Announces*. A reader that fills
  after the hook has run is held up by the fence.

**Local cache** (`LocalCacheProofs`)
- `LocalTypes`, `LocalFresh`, `LocalIndexed`: at most `maxsize` entries under
  different keys; none with rows from before an invalidation of their models; all of them
  registered. `LocalInv` says of the threads what the stored results need: a thread whose
  fence still equals the generation read its rows after the last invalidation of each of its
  models (*Behind*, *RowsFresh*).
- `LeastRecentGoes`: what a `set()` evicts while it lives was used before all that
  stays. The entries are in the order of their last use (*Ordered*, part of *Fine*).
- What the entries left by a filter are (*Selects*: the same, in the same order)
  is shown for every length. The induction is over a set of numbers, by the
  least-number principle, since theorems of the library that take an operator
  cannot be used.

**Backends** (`LibraryProofs`)
- `BackendTTL`, that is `LivesForItsTTL`. *Timely* bounds both deadlines of an entry, the
  server's and the envelope's, by the moments at which its value was asked for and
  arrived, kind by kind; *Packed* says the same of a value that a client of Memcached
  has stamped and not sent. Rounding costs at most a unit (`Rounding`); a number that
  is meant as a point in time is never taken for a duration, nor the reverse, because
  the epoch lies more than a month back (`PutPacked`).
- `BackendClears`, that is `ClearIsExact`. While a `clear()` is on its way
  (*OnItsWay*), what it has still to delete (*Remaining*: alive, under the prefix, written before
  it began) is not among the keys its pages have named, but for those its next command
  deletes; after the last page that command deletes them all. *Remaining* never grows,
  whatever others write.

**Writes** (`LibraryProofs`)
- `WritesValidated`, that is `RowsSatisfySchema`, for any number of requests and
  rows: what has passed validation satisfies the schema until it is written, cleaned or
  not (*Validated*). The table at the start satisfies it by assumption.

**Schemas** (`LibraryProofs`)
- `SchemasPlanned`, that is `PlanServesSerializer`, for any schemas that refer to each other in any
  way. Each call in progress is for the schema its path leads to, and each path
  that was added leads somewhere (*Followed*). What a visited schema refers to has been
  visited, or a call for it has not come to that field (*Explored*); when the outermost
  call has looked at its last field, the visited schemas are therefore closed under
  references and hold all that is reachable (`WalkIsWhole`). Removing the redundant
  paths loses no schema: paths have a greatest length, so that each of them is continued by
  one that nothing continues (`SomeDeepest`).
- `SchemasProjected`, that is `ProjectionsMirrorSchema`, by the same argument about the cache: what a
  cached schema refers to is cached, or its call is still to come to that field
  (*Cached*). That no schema is entered from within itself, a conjunct of both properties, is what
  keeps the recursion finite.

**Graph analysis** (`MeasurementProofs`)
- `GraphsAnalyzed`, that is `CyclesFound`, for every finite set of objects and any
  references among them. `GraphInv` has a part for each search.
  *FirstPass*: what lies on the stack above an open node was reached from it (*Descend*),
  what an open node refers to is visited or waits above it (*Promised*), and a finished
  node leads to nothing that finishes after all the nodes it is on a cycle with, unless
  one of those is still open (*Bounded*). When no node is open, *Finished* is left of
  that: a node that leads to another is on a cycle with one that finished no earlier.
  *SecondPass*: whatever refers to a node that is done is done, and what is
  gathered leads to the root, which of the nodes not done was finished last; by *Finished* the
  root then leads to all of it, so that a component is a cycle, and a whole one.
  *ThirdPass*: each object found has a referrer that was found, so none is
  ever freed; conversely, from an object that is not freed one can go back from referrer to
  referrer forever, and in a finite set that is a cycle.

**Measurement scripts** (`MeasurementProofs`)
- `ExperimentsAnalyzed`, that is `VerdictIsRight`, for any repeats and seeds and any
  number of shocks. Two arguments meet. The *plans*: the nested loops (`Laid`) number the jobs one
  to one by cell, repeat and place (`LaidJobs`, by quotients and remainders); from the
  cells and blocks of each script it follows that its plan crosses them all, takes turns and
  is balanced where it should be (`PlannedAsAsked`), hence is `Whole` (`WholePlan`). The
  *record*: `ExperimentInv` says that each entry names its own job's file, and a process id only with
  that process's report (*Saved*); that while nobody alters the directory, each report
  was judged good against those before it (*Carried*), of which a completed manifest has
  all; and that what was accepted has a file for every job of the plan (*AcceptedIsAll*).
  The analyzers check that times only rise, the one of the serializer matrix only that no
  job comes twice; numbers of 1..N that rise, or do not repeat, N of them, leave
  none out (`Increasing`, `NothingLeftOut`). Conversely everything an analyzer looks at follows from *Carried*
  (`CompletedAccepted`). `ExperimentConstants` has `Nothing`, Python's `None` in an
  entry, differ from every process id and exit code.

**Recordings of the collector** (`TimelineProofs`)
- `CollectionsAsAsked` and `TimelinesTrue`, that is `CollectedAsAsked` and `TimelineIsTrue`, for
  any number of reads and of collections, of any length and yield. The invariant
  `Recording` relates the recordings to the history:
  the readings of the clock rise, and each collection lies between those of the
  milestones before and after it (*Ordered*), while the clock stands still otherwise (*Exact*);
  the notes of the callback are, one to one, the collections during which it was there
  (*Notes*); each request had one full collection, whose yield was returned (*Answers*);
  the statistics saved at a milestone count the collections before it (*Counted*); and automatic
  collections are off only where a probe has switched them off (*Switched*).
  Milestones occur at known places (`TimedPlaces`, `ReadPlaces`, `ProbePlaces`), so that
  what lies between two readings, in the notes, is what fell between two milestones, in the
  history (`InsideScope`, `NotesMatched`). Hence the counts of a scope agree just if none was missed, and a
  difference of one full collection means that the requested one was alone (`AgreesWhen`,
  `OnlyCollection`, `OneFullWhen`). A collection is within a read's window or outside it, never across its
  edge (`WindowPart`), so that it overlaps with at most one window, and there with its whole length
  (`ReadOverlap`, `Split`); the sums over the notes are sums over the history because sums
  are sizes of sets (`Total`), which a one-to-one map keeps. In particular the
  refusal "GC partition double-counted time" (`scripts/summarize_serializer_gc.py:78`) is never
  reached (`partitioned`).

**Lock** (`RedisProofs`)
- `LockInvariant`, `LockExcludes`. `LockInv`: identifiers are not shared
  (*OwnLocks*); late and repeated unlock scripts belong to users that left
  (*LateScripts*); who holds a running lease owns the key (*LeaseHeld*). Two
  holders with running leases would own one key.
- `LockNotLeaked`: the key belongs to somebody who is going to release it, unless
  a call of its instance raised.

**Limiter** (`RedisProofs`)
- `LimiterInvariant`, `KeepsLimit`, `JustifiedRejections`. A member is pruned a
  window after its score, hence no earlier than `Certain == Window - Latency -
  2 * Drift` after it was admitted; the set therefore holds whoever was admitted
  within `Certain`, and its size bounds their number. A full set conversely
  contains only members admitted within `Window + Latency + 2 * Drift`.

**Router** (`RedisProofs`)
- `RouterTypes`; `ChecksKeepDistance`: two fetches begin at least an interval apart.
- `LagIsFresh`, `OwnWritesRead`, from `TrackerInv`: who holds the lock fetches
  (*Fetching*); the time stored is that of the last fetch or of the one under way
  (*Noted*); who decides noted a time less than an interval after it (*Recent*).

**Engine** (`TaskEngineProofs`)
- `EngineInvariant`; `EngineTypes`, `StopWaits` (when a `stop()` has waited for
  the queue, what was accepted before is done, or its worker was cancelled by
  somebody else), `TasksInOnePlace`. `EngineInv` relates the queue, the
  workers and the count of unfinished tasks: a task is in one place (*Apart*,
  *Whereabouts*), which agrees with where its worker is suspended (*Holding*,
  *Unstarted*); each that is not done is covered by the count (*Covered*), which is
  why a `join()` that returns leaves nothing (*Drained*).
- `AttemptsCounted`: the attempts reported are the calls that were made, by
  `CallsInv`, which says what a task still under way has used of them.

*Model-checked only.* Liveness under fairness and `ENABLED` are out of the prover's
reach. `TypeOK` of `MCLibrary` is
about the instance; the proofs about its parts have type invariants of their own.

## 6. Findings

1. `tasks/backends/asyncio_backend.py:115`: `_started` is never reset, so that
   `start()` after `stop()` starts no worker and tasks wait for ever, although
   `protocol.py:38` has `start()` start consuming (`tasks_restart`, `StartServes`).
2. `tasks/backends/asyncio_backend.py:53`: a worker cancelled in the initial
   delay is outside the `try`, never calls `task_done()`, and `stop()` waits in
   `join()` without end; the comment in
   `src/tests/tasks/backends/test_asyncio_backend.py:726` wants the bookkeeping to
   stay balanced (`tasks_cancel`, `Balanced`).
3. `db/router.py:58`: the time of the check is stored before the fetch, so that
   until it returns other threads decide on the previous lag, initially zero;
   `db/router.py:73` promises to route to the master while Redis is unreachable
   (`router_outage`, `FailSafe`). `FreshLag` states what does hold.

The models also make other points precise, some at odds with a comment:

- *Caches.* A process that dies between a commit and its rotation invalidates
  nothing. A rotation that fails binds only its own process until it is repeated.
  `set_many()` of the asynchronous backend ignores `maxsize`. Deletions that set
  foreign keys to NULL send no signal for the rows they change
  (`cache/invalidation.py:92`).
- *Redis.* A lost reply to SET NX locks everybody out until the TTL (`NoLeak`
  allows it). A lock instance that is entered twice forgets what it acquired
  (`redis/locks.py:74`). The limiter promises `Certain`, not `Window`. A missing lag
  report counts as no lag (`db/router.py:71`), as a test wants it.
- *Schemas.* A foreign key that is not in the schema is deferred by name, although
  `query/planner.py:66` says that the columns of foreign keys are always kept. A list in
  a nested schema is prefetched without the path that leads to it, which the check
  against the model refuses (`query/relations.py:70`). The set of visited schemas
  is shared, so that a schema reached by a second path is not followed there.
  `get_admin_schema()` raises on reverse relations.
- *Writes.* `ecosystem/drf.py:310` speaks of writing only supplied attributes,
  which is true of the instance; the row is saved whole. `update_fields` may leave a row that breaks a rule about
  two fields (the excuse `stale` of `RowsSatisfySchema`). A POST to FastAPI with an existing
  primary key overwrites. `Model.clean()` may change what Pydantic has validated.
- *Tasks.* `span.set_attribute()` is called where a failure counts as one of the
  function (`tasks/backends/asyncio_backend.py:71`), and in `NovaModel.save()` after the write.
- *Scripts.* An analyzer rejects a sound experiment when the system gives a process id
  twice. The serializer's GC analyzer does not compare hashes of the reports. A
  collection between `gc_state()` and the installation of the callback makes a
  sound worker fail its conditioning.

## 7. What is not modelled, and the plan

| Not modelled | Why |
|---|---|
| Row snapshots and contracts | a pickle round trip that copies; a result is a value in the models, which nobody can alias |
| Redis clients, health, pub/sub | global references assigned without a lock; the code promises a singleton and does nothing for it, so that only the race itself (`redis/client.py:73`) could be stated |
| Splitter, migration helpers | a context variable set and reset; SQL that is emitted |
| Task decorators, Redis and Celery backends | forward to `submit()`; raise `NotImplementedError` |
| Asynchronous ORM, managers | forward to Django |
| Schema registry and compiler | pure functions over Python types, run once per class |
| Refusals of `query_dependencies` | which plans are uncacheable (raw SQL, proxies, custom managers) is a case distinction on Django's internals |
| Pool settings, serializers, configuration, metrics, context, tracing | read once, or forwarded |
| Rendering, routing, authentication, pagination of the adapters | the frameworks' |
| Statistics and texts of the scripts, benchmarks | arithmetic on recorded numbers; formatting |

What would come next: explicit `through` models, whose rows Django deletes with signals of their own, in
`Invalidation`; row locks and transactions in `ModelWrites`.
