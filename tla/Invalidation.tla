---------------------------- MODULE Invalidation ----------------------------
(***************************************************************************)
(* connect_invalidation() and what it is for: writes in nested             *)
(* transactions announce themselves to a QuerySetCache of their process    *)
(* when they are committed, through signals of every model that a cached   *)
(* query can depend on.                                                    *)
(*                                                                         *)
(* At start-up the relations of the enabled models are explored and the    *)
(* handlers connected.  Afterwards each connection belongs to a thread and *)
(* reads, writes and commits; the cache is LocalCache without its TTL, its *)
(* size and its failures.  As there, a result is the value of `clock',     *)
(* the number of commits, when its SQL ran.                                *)
(***************************************************************************)
EXTENDS Naturals, Sequences, Functions

CONSTANTS
    Conns,       \* the connections of one alias, one for each thread
    Models,
    Enabled,     \* NovaModels with cache_enabled
    Links,       \* relations the application may declare: [from, to, through],
                 \* `through' being the table Django makes for a many-to-many field
    Queries,     \* querysets: [root, path], the path being the models it passes
    None,        \* no model, no queryset; the `through' of a foreign key
    MaxConnects, \* bound: calls of connect_invalidation()
    MaxCommits,  \* bound: commits
    MaxWrites,   \* bound: writes
    MaxDepth     \* bound: nested atomic() blocks

ASSUME ModelsAssumption == None \notin Models /\ Enabled \subseteq Models
ASSUME LinksAssumption ==
    Links \subseteq [from : Models, to : Models, through : Models \cup {None}]
\* What is cached are querysets of enabled models.
ASSUME QueriesAssumption ==
    \A q \in Queries : q.root \in Enabled /\ q.path \in Seq(Models)
\* A table Django makes serves one field, is no NovaModel, and has no name by
\* which a path could end in it.
ASSUME ThroughAssumption ==
    \A l \in Links : l.through # None =>
        /\ l.through \notin Enabled
        /\ \A q \in Queries : l.through \notin Range(q.path)
        /\ \A k \in Links : k.through = l.through => k = l
ASSUME DepthAssumption == MaxDepth \in Nat

VARIABLES
    links,       \* the relations that are declared
    root, pending, seen, throughs,   \* the locals of connect_invalidation()
    senders,     \* the receivers of post_save and post_delete of a model
    m2mSenders,  \* the receivers of m2m_changed of a through model
    connects,
    clock, changed,   \* commits so far, and the last one to change a model
    depth,       \* the atomic() blocks a connection is in
    writes,      \* what it has changed, by the block it was changed in
    hooks,       \* run_on_commit of the connection, by the block as well
    running,     \* the hooks of a commit that have not run yet
    stored, generation,   \* the cache: results, and _QuerySetCacheState.generation
    query, fence, row,    \* get_or_set() of a thread: query is None when idle
    written,
    mine         \* history: what the last commit of a connection changed

startup == <<links, root, pending, seen, throughs, senders, m2mSenders, connects>>
session == <<depth, writes, hooks, running, mine>>
cache   == <<stored, generation>>
reader  == <<query, fence, row>>
vars    == <<startup, clock, changed, written, session, cache, reader>>

----------------------------------------------------------------------------
(* Relations.                                                              *)

\* A hidden foreign key leads from a through model to either end.
Hidden == {[from |-> l.through, to |-> m, through |-> None] :
              l \in {k \in links : k.through # None}, m \in Models}

Declared == links \cup {h \in Hidden : \E l \in links :
                           l.through = h.from /\ h.to \in {l.from, l.to}}

\* get_fields(include_hidden=True): both directions of every relation.
Fields(m) == {[target |-> l.to, through |-> l.through] : l \in {k \in Declared : k.from = m}}
             \cup {[target |-> l.from, through |-> l.through] : l \in {k \in Declared : k.to = m}}

Targets(m)  == {f.target : f \in Fields(m)}
Throughs(m) == {f.through : f \in Fields(m)} \ {None}

\* query_dependencies(): the root, the models on the path, and the through
\* models in between.
Steps(q) == LET on == <<q.root>> \o q.path IN {<<on[i], on[i + 1]>> : i \in 1..Len(q.path)}

Between(m, n) == {f.through : f \in {g \in Fields(m) : g.target = n}} \ {None}

Dependencies(q) ==
    {q.root} \cup Range(q.path) \cup UNION {Between(s[1], s[2]) : s \in Steps(q)}

\* _relation_field() knows every relation of the path.
Cacheable(q) == \A s \in Steps(q) : s[2] \in Targets(s[1])

----------------------------------------------------------------------------
(* connect_invalidation().                                                 *)

\* A model that is connected, be it as a relation of another one, is done.
Connect(m) ==
    /\ root = None
    /\ connects < MaxConnects
    /\ connects' = connects + 1
    /\ IF m \in Enabled /\ senders[m] = 0
       THEN root' = m /\ pending' = {m}
       ELSE UNCHANGED <<root, pending>>
    /\ UNCHANGED <<links, seen, throughs, senders, m2mSenders,
                   clock, changed, written, session, cache, reader>>

\* Wrong: foreign keys are followed forward only.
Forward(m) == {l.to : l \in {k \in links : k.from = m}}

Onward(m) == Targets(m) \cup Throughs(m)

\* related_model_graph(): one model of the work list.
Explore(m) ==
    /\ m \in pending
    /\ IF m \in seen
       THEN pending' = pending \ {m} /\ UNCHANGED <<seen, throughs>>
       ELSE /\ seen' = seen \cup {m}
            /\ pending' = (pending \ {m}) \cup Onward(m)
            /\ throughs' = throughs \cup Throughs(m)
    /\ UNCHANGED <<links, root, senders, m2mSenders, connects,
                   clock, changed, written, session, cache, reader>>

\* _CONNECTED_SIGNALS: a signal of a model is connected once.
Once(receivers, m) == IF receivers[m] = 0 THEN 1 ELSE receivers[m]

Subscribe ==
    /\ root # None /\ pending = {}
    /\ senders'    = [m \in Models |-> IF m \in seen THEN Once(senders, m) ELSE senders[m]]
    /\ m2mSenders' = [m \in Models |-> IF m \in throughs THEN Once(m2mSenders, m)
                                                          ELSE m2mSenders[m]]
    /\ root' = None /\ seen' = {} /\ throughs' = {}
    /\ UNCHANGED <<links, pending, connects, clock, changed, written, session, cache, reader>>

\* NovaAppConfig.ready() has connected every enabled model.
Ready == root = None /\ \A m \in Enabled : senders[m] > 0

----------------------------------------------------------------------------
(* Transactions.                                                           *)

Blocks == 1..MaxDepth

Free(c) == Ready /\ query[c] = None /\ running[c] = <<>>

Begin(c) ==
    /\ Free(c) /\ depth[c] < MaxDepth
    /\ depth' = [depth EXCEPT ![c] = @ + 1]
    /\ UNCHANGED <<startup, clock, changed, written, writes, hooks, running, mine, cache, reader>>

Commits(c, models) ==
    /\ clock < MaxCommits
    /\ clock' = clock + 1
    /\ changed' = [m \in Models |-> IF m \in models THEN clock + 1 ELSE changed[m]]
    /\ mine' = [mine EXCEPT ![c] = models]

\* Wrong: the handler does not wait for the commit.
AtOnce(c, m) ==
    /\ running' = [running EXCEPT ![c] = Append(@, m)]
    /\ UNCHANGED hooks

\* transaction.on_commit(), in a block and outside of one.
OnCommit(c, m) ==
    IF depth[c] = 0
    THEN running' = [running EXCEPT ![c] = Append(@, m)] /\ UNCHANGED hooks
    ELSE hooks' = [hooks EXCEPT ![c][depth[c]] = Append(@, m)] /\ UNCHANGED running

\* Some models change, and the handler hears of m if it is connected.
Changes(c, models, m, receivers) ==
    /\ Free(c)
    /\ written < MaxWrites
    /\ written' = written + 1
    /\ IF receivers[m] > 0 THEN OnCommit(c, m) ELSE UNCHANGED <<hooks, running>>
    /\ IF depth[c] = 0
       THEN Commits(c, models) /\ UNCHANGED writes
       ELSE /\ writes' = [writes EXCEPT ![c][depth[c]] = @ \cup models]
            /\ UNCHANGED <<clock, changed, mine>>
    /\ UNCHANGED <<startup, depth, cache, reader>>

Save(c, m) == Changes(c, {m}, m, senders)

\* The rows of through models go with a deleted object, and without a signal.
Delete(c, m) == Changes(c, {m} \cup Throughs(m), m, senders)

\* add(), remove() and clear() of a many-to-many manager: the post_ actions.
ChangeM2M(c, l) == l.through # None /\ Changes(c, {l.through}, l.through, m2mSenders)

\* Wrong: a block that has ended keeps what happened in it.
Kept(blocks, c, nothing) == blocks

\* The innermost block ends.
Ended(blocks, c, nothing) == [blocks EXCEPT ![c][depth[c]] = nothing]

\* Well: what happened in it belongs to the block around it.
Release(c) ==
    LET inner == depth[c] IN
    /\ Free(c) /\ inner > 1
    /\ depth'  = [depth EXCEPT ![c] = inner - 1]
    /\ writes' = Ended([writes EXCEPT ![c][inner - 1] = @ \cup writes[c][inner]], c, {})
    /\ hooks'  = Ended([hooks EXCEPT ![c][inner - 1] = @ \o hooks[c][inner]], c, <<>>)
    /\ UNCHANGED <<startup, clock, changed, written, running, mine, cache, reader>>

\* Badly: with the writes, the hooks registered inside the block are dropped.
Rollback(c) ==
    /\ Free(c) /\ depth[c] > 0
    /\ depth'  = [depth EXCEPT ![c] = @ - 1]
    /\ writes' = Ended(writes, c, {})
    /\ hooks'  = Ended(hooks, c, <<>>)
    /\ UNCHANGED <<startup, clock, changed, written, running, mine, cache, reader>>

\* The outermost block ends well; its hooks run one after the other.
Commit(c) ==
    /\ Free(c) /\ depth[c] = 1
    /\ depth' = [depth EXCEPT ![c] = 0]
    /\ IF writes[c][1] = {}
       THEN mine' = [mine EXCEPT ![c] = {}] /\ UNCHANGED <<clock, changed>>
       ELSE Commits(c, writes[c][1])
    /\ writes' = Ended(writes, c, {})
    /\ running' = [running EXCEPT ![c] = hooks[c][1]]
    /\ hooks' = Ended(hooks, c, <<>>)
    /\ UNCHANGED <<startup, written, cache, reader>>

\* invalidate_after_commit() calls invalidate_model().
RunHook(c) ==
    /\ running[c] # <<>>
    /\ generation' = generation + 1
    /\ stored' = {e \in stored : Head(running[c]) \notin Dependencies(e.q)}
    /\ running' = [running EXCEPT ![c] = Tail(@)]
    /\ UNCHANGED <<startup, clock, changed, written, depth, writes, hooks, mine, reader>>

----------------------------------------------------------------------------
(* get_or_set() on a miss; a hit changes nothing.                          *)

\* Wrong: reads in a transaction use the cache as well.
NeverTransactional(c) == FALSE

\* _transactional_query()
Transactional(c) == depth[c] > 0

BeginRead(c, q) ==
    /\ Free(c)
    /\ ~Transactional(c) /\ Cacheable(q)
    /\ \A e \in stored : e.q # q
    /\ query' = [query EXCEPT ![c] = q]
    /\ fence' = [fence EXCEPT ![c] = generation]
    /\ row' = [row EXCEPT ![c] = None]
    /\ UNCHANGED <<startup, clock, changed, written, session, cache>>

\* The rows committed so far, and those this connection has not committed.
Sql(c) ==
    /\ query[c] # None /\ row[c] = None
    /\ row' = [row EXCEPT ![c] =
          [q |-> query[c], asof |-> clock,
           own |-> UNION Range(writes[c]) \cap Dependencies(query[c])]]
    /\ UNCHANGED <<startup, clock, changed, written, session, cache, query, fence>>

Fill(c) ==
    /\ query[c] # None /\ row[c] # None
    /\ stored' = IF fence[c] = generation /\ ~Transactional(c)
                 THEN {e \in stored : e.q # query[c]} \cup {row[c]}
                 ELSE stored
    /\ query' = [query EXCEPT ![c] = None]
    /\ fence' = [fence EXCEPT ![c] = 0]
    /\ row' = [row EXCEPT ![c] = None]
    /\ UNCHANGED <<startup, clock, changed, written, session, generation>>

----------------------------------------------------------------------------

Init ==
    /\ links \in SUBSET Links
    /\ root = None /\ pending = {} /\ seen = {} /\ throughs = {}
    /\ senders    = [m \in Models |-> 0]
    /\ m2mSenders = [m \in Models |-> 0]
    /\ connects = 0 /\ clock = 0 /\ written = 0
    /\ changed = [m \in Models |-> 0]
    /\ depth   = [c \in Conns |-> 0]
    /\ writes  = [c \in Conns |-> [d \in Blocks |-> {}]]
    /\ hooks   = [c \in Conns |-> [d \in Blocks |-> <<>>]]
    /\ running = [c \in Conns |-> <<>>]
    /\ mine    = [c \in Conns |-> {}]
    /\ stored = {} /\ generation = 0
    /\ query = [c \in Conns |-> None]
    /\ fence = [c \in Conns |-> 0]
    /\ row   = [c \in Conns |-> None]

Session(c) ==
    \/ Begin(c) \/ Release(c) \/ Rollback(c) \/ Commit(c) \/ RunHook(c)
    \/ \E m \in Models : Save(c, m) \/ Delete(c, m)
    \/ \E l \in links : ChangeM2M(c, l)

Read(c) == Sql(c) \/ Fill(c) \/ \E q \in Queries : BeginRead(c, q)

Next ==
    \/ \E m \in Models : Connect(m) \/ Explore(m)
    \/ Subscribe
    \/ \E c \in Conns : Session(c) \/ Read(c)

Spec == Init /\ [][Next]_vars

----------------------------------------------------------------------------
(* Properties.                                                             *)

Result == [q : Queries, asof : Nat, own : SUBSET Models]

\* Types, and no write or hook belongs to a block that has ended.
TypeOK ==
    /\ links \subseteq Links /\ root \in Models \cup {None}
    /\ pending \subseteq Models /\ seen \subseteq Models /\ throughs \subseteq Models
    /\ senders \in [Models -> Nat] /\ m2mSenders \in [Models -> Nat] /\ connects \in Nat
    /\ clock \in Nat /\ written \in Nat /\ changed \in [Models -> 0..clock]
    /\ depth \in [Conns -> 0..MaxDepth] /\ mine \in [Conns -> SUBSET Models]
    /\ writes \in [Conns -> [Blocks -> SUBSET Models]]
    /\ hooks \in [Conns -> [Blocks -> Seq(Models)]] /\ running \in [Conns -> Seq(Models)]
    /\ \A c \in Conns : \A d \in Blocks : d > depth[c] => writes[c][d] = {} /\ hooks[c][d] = <<>>
    /\ stored \subseteq Result /\ generation \in Nat /\ fence \in [Conns -> Nat]
    /\ query \in [Conns -> Queries \cup {None}] /\ row \in [Conns -> Result \cup {None}]

\* A stored result that a commit has made stale is about to be dropped: some
\* thread has yet to run the hook of a model the result depends on.  Hence
\* every dependency of every cacheable query is subscribed to, whatever enabled
\* model was connected first, and no older rows are filled in after the hook.
StaleOnlyWhileAnnounced ==
    \A e \in stored :
        (\E m \in Dependencies(e.q) : e.asof < changed[m]) =>
            \E c \in Conns : Range(running[c]) \cap Dependencies(e.q) # {}

\* No result is stored with rows that its connection had not committed.
OnlyCommittedRows == \A e \in stored : e.own = {}

\* "Rolled-back writes do not invalidate": what a commit announces it changed,
\* whatever savepoints were released or rolled back on the way.
RollbackIsSilent == \A c \in Conns : Range(running[c]) \subseteq mine[c]
=============================================================================
