-------------------------- MODULE InvalidationProofs --------------------------
(***************************************************************************)
(* What connect_invalidation() achieves for every relation graph: the      *)
(* models that are connected are closed under relations, in both           *)
(* directions and through hidden models, whatever was connected first.     *)
(* Hence every change that a cached query can depend on is announced by a  *)
(* hook, which follows it through nested transactions; nothing that was    *)
(* rolled back is announced, no uncommitted row is stored, and a result    *)
(* is stale only until the hooks of a commit have run.                     *)
(***************************************************************************)
EXTENDS Invalidation, WellFoundedInduction, TLAPS

----------------------------------------------------------------------------
(* Connected models.                                                       *)

\* Whoever is subscribed to a model is subscribed to all that its querysets
\* may pass on the next step.
Connected ==
    \A m \in Models : senders[m] > 0 =>
        /\ \A n \in Onward(m) : senders[n] > 0
        /\ \A n \in Throughs(m) : m2mSenders[n] > 0

\* The work list holds what the models seen so far lead to.
ConnectedInv ==
    /\ links \subseteq Links
    /\ pending \subseteq Models /\ seen \subseteq Models /\ throughs \subseteq Models
    /\ senders \in [Models -> Nat] /\ m2mSenders \in [Models -> Nat]
    /\ \A m \in seen : Onward(m) \subseteq seen \cup pending /\ Throughs(m) \subseteq throughs
    /\ root = None => pending = {} /\ seen = {}
    /\ Connected

\* Relations lead to models.
LEMMA RelationsLead ==
    ASSUME links \subseteq Links, NEW m \in Models
    PROVE  Throughs(m) \subseteq Models /\ Onward(m) \subseteq Models
<1>1. \A l \in links : l.from \in Models /\ l.to \in Models /\ l.through \in Models \cup {None}
  BY LinksAssumption
<1>2. \A h \in Hidden : h.from \in Models /\ h.to \in Models /\ h.through = None
  BY <1>1 DEF Hidden
<1>3. \A f \in Fields(m) : f.target \in Models /\ f.through \in Models \cup {None}
  BY <1>1, <1>2 DEF Fields, Declared
<1>4. QED
  BY <1>3 DEF Onward, Targets, Throughs

\* Relations stay what they were at start-up.
LEMMA RelationsStay ==
    ASSUME UNCHANGED links, NEW m
    PROVE  Throughs(m)' = Throughs(m) /\ Onward(m)' = Onward(m)
BY DEF Onward, Targets, Throughs, Fields, Declared, Hidden

\* Every step keeps the connected models closed under their relations.
LEMMA ConnectedStep == ConnectedInv /\ [Next]_vars => ConnectedInv'
<1> SUFFICES ASSUME ConnectedInv, [Next]_vars PROVE ConnectedInv'
  OBVIOUS
<1>1. CASE UNCHANGED startup
  <2>1. UNCHANGED <<links, root, pending, seen, throughs, senders, m2mSenders>>
    BY <1>1 DEF startup
  <2>2. \A m \in Models : Onward(m)' = Onward(m) /\ Throughs(m)' = Throughs(m)
    BY <2>1, RelationsStay
  <2>3. Connected'
    BY <2>1, <2>2 DEF ConnectedInv, Connected
  <2>4. \A m \in seen' : Onward(m)' \subseteq (seen \cup pending)' /\ Throughs(m)' \subseteq throughs'
    BY <2>1, <2>2 DEF ConnectedInv
  <2>5. QED
    BY <2>1, <2>3, <2>4 DEF ConnectedInv
<1>2. ASSUME NEW m \in Models, Connect(m)
      PROVE  ConnectedInv'
  <2>1. /\ UNCHANGED <<links, seen, throughs, senders, m2mSenders>>
        /\ \/ pending' = {m} /\ root' = m
           \/ UNCHANGED <<root, pending>>
    BY <1>2 DEF Connect
  <2>2. (root = None /\ pending = {} /\ root' # None) \/ UNCHANGED <<root, pending>>
    BY <1>2, <2>1, ModelsAssumption DEF Connect, ConnectedInv
  <2>3. \A n \in Models : Onward(n)' = Onward(n) /\ Throughs(n)' = Throughs(n)
    BY <2>1, RelationsStay
  <2>4. QED
    BY <2>1, <2>2, <2>3 DEF ConnectedInv, Connected
<1>3. ASSUME NEW m \in Models, Explore(m)
      PROVE  ConnectedInv'
  <2>1. UNCHANGED <<links, root, senders, m2mSenders>> /\ root # None
    BY <1>3 DEF Explore, ConnectedInv
  <2>2. Connected'
    BY <2>1, RelationsStay DEF ConnectedInv, Connected
  <2>3. CASE m \in seen
    BY <1>3, <2>1, <2>2, <2>3, RelationsStay DEF Explore, ConnectedInv
  <2>4. CASE m \notin seen
    <3>1. /\ seen' = seen \cup {m} /\ pending' = (pending \ {m}) \cup Onward(m)
          /\ throughs' = throughs \cup Throughs(m)
      BY <1>3, <2>4 DEF Explore
    <3>2. \A n \in seen' : Onward(n)' \subseteq (seen \cup pending)'
      BY <2>1, <3>1, RelationsStay DEF ConnectedInv
    <3>3. \A n \in seen' : Throughs(n)' \subseteq throughs'
      BY <2>1, <3>1, RelationsStay DEF ConnectedInv
    <3>4. QED
      BY <2>1, <2>2, <3>1, <3>2, <3>3, RelationsLead DEF ConnectedInv
  <2>5. QED
    BY <2>3, <2>4
<1>4. CASE Subscribe
  <2>1. /\ UNCHANGED <<links, pending>> /\ pending = {} /\ seen' = {} /\ throughs' = {}
        /\ root' = None
        /\ senders' = [m \in Models |-> IF m \in seen THEN Once(senders, m) ELSE senders[m]]
        /\ m2mSenders' = [m \in Models |-> IF m \in throughs THEN Once(m2mSenders, m)
                                                              ELSE m2mSenders[m]]
    BY <1>4 DEF Subscribe
  <2>2. \A m \in Models : senders'[m] > 0 <=> m \in seen \/ senders[m] > 0
    BY <2>1 DEF Once, ConnectedInv
  <2>3. \A m \in Models : m2mSenders'[m] > 0 <=> m \in throughs \/ m2mSenders[m] > 0
    BY <2>1 DEF Once, ConnectedInv
  <2>4. senders' \in [Models -> Nat] /\ m2mSenders' \in [Models -> Nat]
    BY <2>1 DEF Once, ConnectedInv
  <2>5. ASSUME NEW m \in Models, senders'[m] > 0
        PROVE  /\ \A n \in Onward(m) : senders'[n] > 0
               /\ \A n \in Throughs(m) : m2mSenders'[n] > 0
    <3>1. Onward(m) \subseteq Models /\ Throughs(m) \subseteq Models
      BY RelationsLead DEF ConnectedInv
    <3>2. CASE m \in seen
      BY <2>1, <2>2, <2>3, <3>1, <3>2 DEF ConnectedInv
    <3>3. CASE senders[m] > 0
      BY <2>2, <2>3, <3>1, <3>3 DEF ConnectedInv, Connected
    <3>4. QED
      BY <2>2, <2>5, <3>2, <3>3
  <2>6. Connected'
    BY <2>1, <2>5, RelationsStay DEF Connected
  <2>7. QED
    BY <2>1, <2>4, <2>6 DEF ConnectedInv
<1>5. CASE \E c \in Conns : Session(c) \/ Read(c)
  <2>1. UNCHANGED startup
    BY <1>5 DEF Session, Read, Begin, Release, Rollback, Commit, RunHook, Save, Delete,
                ChangeM2M, Changes, Sql, Fill, BeginRead
  <2>2. QED
    BY <2>1, <1>1
<1>6. CASE UNCHANGED vars
  BY <1>1, <1>6 DEF vars
<1>7. QED
  BY <1>2, <1>3, <1>4, <1>5, <1>6 DEF Next

\* connect_invalidation() leaves no gap, for any declared relations and any order
\* of calls: who is subscribed to a model is subscribed to every model that a
\* foreign key or a many-to-many relation, forward, reverse or hidden, leads to.
THEOREM RelationsConnected == Spec => []Connected
<1>1. Init => ConnectedInv
  BY DEF Init, ConnectedInv, Connected
<1>2. ConnectedInv => Connected
  BY DEF ConnectedInv
<1>3. QED
  BY <1>1, <1>2, ConnectedStep, PTL DEF Spec

----------------------------------------------------------------------------
(* Blocks.                                                                 *)

\* Types of start-up, of the connections, and of the cache and its readers.
StartupTypes ==
    /\ links \subseteq Links /\ root \in Models \cup {None}
    /\ pending \subseteq Models /\ seen \subseteq Models /\ throughs \subseteq Models
    /\ senders \in [Models -> Nat] /\ m2mSenders \in [Models -> Nat] /\ connects \in Nat

SessionTypes ==
    /\ clock \in Nat /\ written \in Nat /\ changed \in [Models -> 0..clock]
    /\ depth \in [Conns -> 0..MaxDepth] /\ mine \in [Conns -> SUBSET Models]
    /\ writes \in [Conns -> [Blocks -> SUBSET Models]]
    /\ hooks \in [Conns -> [Blocks -> Seq(Models)]] /\ running \in [Conns -> Seq(Models)]
    /\ \A c \in Conns : \A d \in Blocks : d > depth[c] => writes[c][d] = {} /\ hooks[c][d] = <<>>

ReaderTypes ==
    /\ stored \subseteq Result /\ generation \in Nat /\ fence \in [Conns -> Nat]
    /\ query \in [Conns -> Queries \cup {None}] /\ row \in [Conns -> Result \cup {None}]

\* The types of the variables, in groups.
LEMMA TypeParts == TypeOK <=> StartupTypes /\ SessionTypes /\ ReaderTypes
BY DEF TypeOK, StartupTypes, SessionTypes, ReaderTypes

\* What it means to give one block of a connection a new content.
LEMMA Put ==
    ASSUME NEW S, NEW blocks \in [Conns -> [Blocks -> S]],
           NEW c \in Conns, NEW k \in Blocks, NEW v \in S,
           NEW new, new = [blocks EXCEPT ![c][k] = v]
    PROVE  /\ new \in [Conns -> [Blocks -> S]]
           /\ new[c][k] = v
           /\ \A d \in Blocks \ {k} : new[c][d] = blocks[c][d]
           /\ \A b \in Conns \ {c} : new[b] = blocks[b]
OBVIOUS

\* The innermost block of a connection, and what is around it.
LEMMA Depths ==
    ASSUME SessionTypes, NEW c \in Conns
    PROVE  /\ depth[c] \in 0..MaxDepth /\ depth[c] \in Nat
           /\ depth[c] > 0 => depth[c] \in Blocks
           /\ depth[c] > 1 => depth[c] - 1 \in Blocks
BY DepthAssumption DEF SessionTypes, Blocks

\* A released block leaves its content to the block around it.
LEMMA Released ==
    ASSUME SessionTypes, NEW c \in Conns, Release(c)
    PROVE  /\ depth' = [depth EXCEPT ![c] = depth[c] - 1]
           /\ depth[c] > 1 /\ depth[c] \in Blocks /\ depth[c] - 1 \in Blocks
           /\ writes' \in [Conns -> [Blocks -> SUBSET Models]]
           /\ hooks' \in [Conns -> [Blocks -> Seq(Models)]]
           /\ writes'[c][depth[c]] = {} /\ hooks'[c][depth[c]] = <<>>
           /\ writes'[c][depth[c] - 1] = writes[c][depth[c] - 1] \cup writes[c][depth[c]]
           /\ hooks'[c][depth[c] - 1] = hooks[c][depth[c] - 1] \o hooks[c][depth[c]]
           /\ \A d \in Blocks \ {depth[c], depth[c] - 1} :
                 writes'[c][d] = writes[c][d] /\ hooks'[c][d] = hooks[c][d]
           /\ \A b \in Conns \ {c} : writes'[b] = writes[b] /\ hooks'[b] = hooks[b]
<1> DEFINE outer == depth[c] - 1
           both  == writes[c][outer] \cup writes[c][depth[c]]
           heard == hooks[c][outer] \o hooks[c][depth[c]]
           more  == [writes EXCEPT ![c][outer] = both]
           later == [hooks EXCEPT ![c][outer] = heard]
<1>1. depth[c] > 1 /\ depth[c] \in Blocks /\ outer \in Blocks /\ outer # depth[c]
  BY Depths DEF Release
<1>2. /\ depth' = [depth EXCEPT ![c] = outer]
      /\ writes' = [more EXCEPT ![c][depth[c]] = {}]
      /\ hooks' = [later EXCEPT ![c][depth[c]] = <<>>]
  BY DEF Release, Ended
<1>3. both \in SUBSET Models /\ heard \in Seq(Models) /\ <<>> \in Seq(Models) /\ {} \in SUBSET Models
  BY <1>1 DEF SessionTypes
<1>4. writes \in [Conns -> [Blocks -> SUBSET Models]] /\ hooks \in [Conns -> [Blocks -> Seq(Models)]]
  BY DEF SessionTypes
<1> HIDE DEF outer, both, heard
<1>5. /\ more \in [Conns -> [Blocks -> SUBSET Models]] /\ more[c][outer] = both
      /\ \A d \in Blocks \ {outer} : more[c][d] = writes[c][d]
      /\ \A b \in Conns \ {c} : more[b] = writes[b]
  BY <1>1, <1>3, <1>4, Put
<1>6. /\ later \in [Conns -> [Blocks -> Seq(Models)]] /\ later[c][outer] = heard
      /\ \A d \in Blocks \ {outer} : later[c][d] = hooks[c][d]
      /\ \A b \in Conns \ {c} : later[b] = hooks[b]
  BY <1>1, <1>3, <1>4, Put
<1> HIDE DEF more, later
<1>7. /\ writes' \in [Conns -> [Blocks -> SUBSET Models]] /\ writes'[c][depth[c]] = {}
      /\ \A d \in Blocks \ {depth[c]} : writes'[c][d] = more[c][d]
      /\ \A b \in Conns \ {c} : writes'[b] = more[b]
  BY <1>1, <1>2, <1>3, <1>5, Put
<1>8. /\ hooks' \in [Conns -> [Blocks -> Seq(Models)]] /\ hooks'[c][depth[c]] = <<>>
      /\ \A d \in Blocks \ {depth[c]} : hooks'[c][d] = later[c][d]
      /\ \A b \in Conns \ {c} : hooks'[b] = later[b]
  BY <1>1, <1>2, <1>3, <1>6, Put
<1>9. /\ writes'[c][outer] = both /\ hooks'[c][outer] = heard
      /\ \A d \in Blocks \ {depth[c], outer} :
            writes'[c][d] = writes[c][d] /\ hooks'[c][d] = hooks[c][d]
      /\ \A b \in Conns \ {c} : writes'[b] = writes[b] /\ hooks'[b] = hooks[b]
  BY <1>1, <1>5, <1>6, <1>7, <1>8
<1>10. QED
  BY <1>1, <1>2, <1>7, <1>8, <1>9 DEF outer, both, heard

\* A block that is rolled back, and the outermost one when it commits.
LEMMA Left ==
    ASSUME SessionTypes, NEW c \in Conns, Rollback(c) \/ Commit(c)
    PROVE  /\ depth' = [depth EXCEPT ![c] = depth[c] - 1]
           /\ depth[c] > 0 /\ depth[c] \in Blocks
           /\ writes' \in [Conns -> [Blocks -> SUBSET Models]]
           /\ hooks' \in [Conns -> [Blocks -> Seq(Models)]]
           /\ writes'[c][depth[c]] = {} /\ hooks'[c][depth[c]] = <<>>
           /\ \A d \in Blocks \ {depth[c]} :
                 writes'[c][d] = writes[c][d] /\ hooks'[c][d] = hooks[c][d]
           /\ \A b \in Conns \ {c} : writes'[b] = writes[b] /\ hooks'[b] = hooks[b]
<1>1. depth[c] > 0 /\ depth[c] \in Blocks
  BY Depths DEF Rollback, Commit
<1>2. /\ depth' = [depth EXCEPT ![c] = depth[c] - 1]
      /\ writes' = [writes EXCEPT ![c][depth[c]] = {}]
      /\ hooks' = [hooks EXCEPT ![c][depth[c]] = <<>>]
  BY DEF Rollback, Commit, Ended
<1>3. /\ writes \in [Conns -> [Blocks -> SUBSET Models]] /\ hooks \in [Conns -> [Blocks -> Seq(Models)]]
      /\ <<>> \in Seq(Models) /\ {} \in SUBSET Models
  BY DEF SessionTypes
<1>4. /\ writes' \in [Conns -> [Blocks -> SUBSET Models]] /\ writes'[c][depth[c]] = {}
      /\ \A d \in Blocks \ {depth[c]} : writes'[c][d] = writes[c][d]
      /\ \A b \in Conns \ {c} : writes'[b] = writes[b]
  BY <1>1, <1>2, <1>3, Put
<1>5. /\ hooks' \in [Conns -> [Blocks -> Seq(Models)]] /\ hooks'[c][depth[c]] = <<>>
      /\ \A d \in Blocks \ {depth[c]} : hooks'[c][d] = hooks[c][d]
      /\ \A b \in Conns \ {c} : hooks'[b] = hooks[b]
  BY <1>1, <1>2, <1>3, Put
<1>6. QED
  BY <1>1, <1>2, <1>4, <1>5

\* A write in a block notes its models there, and the hook if there is one.
LEMMA Written ==
    ASSUME SessionTypes, NEW c \in Conns, NEW models \in SUBSET Models, NEW m \in Models,
           NEW receivers, Changes(c, models, m, receivers), depth[c] # 0
    PROVE  /\ UNCHANGED <<clock, changed, mine, running, depth>> /\ depth[c] \in Blocks
           /\ writes' \in [Conns -> [Blocks -> SUBSET Models]]
           /\ hooks' \in [Conns -> [Blocks -> Seq(Models)]]
           /\ writes'[c][depth[c]] = writes[c][depth[c]] \cup models
           /\ hooks'[c][depth[c]] = IF receivers[m] > 0 THEN Append(hooks[c][depth[c]], m)
                                                        ELSE hooks[c][depth[c]]
           /\ \A d \in Blocks \ {depth[c]} :
                 writes'[c][d] = writes[c][d] /\ hooks'[c][d] = hooks[c][d]
           /\ \A b \in Conns \ {c} : writes'[b] = writes[b] /\ hooks'[b] = hooks[b]
<1> DEFINE more   == writes[c][depth[c]] \cup models
           longer == Append(hooks[c][depth[c]], m)
<1>1. depth[c] \in Blocks
  BY Depths
<1>2. /\ UNCHANGED <<clock, changed, mine, running, depth>>
      /\ writes' = [writes EXCEPT ![c][depth[c]] = more]
      /\ IF receivers[m] > 0 THEN hooks' = [hooks EXCEPT ![c][depth[c]] = longer]
                             ELSE hooks' = hooks
  BY DEF Changes, OnCommit
<1>3. /\ more \in SUBSET Models /\ longer \in Seq(Models)
      /\ writes \in [Conns -> [Blocks -> SUBSET Models]]
      /\ hooks \in [Conns -> [Blocks -> Seq(Models)]]
  BY <1>1 DEF SessionTypes
<1> HIDE DEF more, longer
<1>4. /\ writes' \in [Conns -> [Blocks -> SUBSET Models]] /\ writes'[c][depth[c]] = more
      /\ \A d \in Blocks \ {depth[c]} : writes'[c][d] = writes[c][d]
      /\ \A b \in Conns \ {c} : writes'[b] = writes[b]
  BY <1>1, <1>2, <1>3, Put
<1>5. CASE receivers[m] > 0
  <2>1. hooks' = [hooks EXCEPT ![c][depth[c]] = longer]
    BY <1>2, <1>5
  <2>2. /\ hooks' \in [Conns -> [Blocks -> Seq(Models)]] /\ hooks'[c][depth[c]] = longer
        /\ \A d \in Blocks \ {depth[c]} : hooks'[c][d] = hooks[c][d]
        /\ \A b \in Conns \ {c} : hooks'[b] = hooks[b]
    BY <1>1, <1>3, <2>1, Put
  <2>3. QED
    BY <1>1, <1>2, <1>4, <1>5, <2>2 DEF more, longer
<1>6. CASE ~(receivers[m] > 0)
  BY <1>1, <1>2, <1>3, <1>4, <1>6 DEF more
<1>7. QED
  BY <1>5, <1>6

----------------------------------------------------------------------------
(* Types.                                                                  *)

\* Start-up explores models and subscribes to models.
LEMMA StartupTyped == ASSUME StartupTypes, [Next]_vars PROVE StartupTypes'
<1>1. CASE UNCHANGED startup
  BY <1>1 DEF startup, StartupTypes
<1>2. ASSUME NEW m \in Models, Connect(m)
      PROVE  StartupTypes'
  BY <1>2 DEF Connect, StartupTypes
<1>3. ASSUME NEW m \in Models, Explore(m)
      PROVE  StartupTypes'
  <2>1. Throughs(m) \subseteq Models /\ Onward(m) \subseteq Models
    BY RelationsLead DEF StartupTypes
  <2>2. QED
    BY <1>3, <2>1 DEF Explore, StartupTypes
<1>4. CASE Subscribe
  BY <1>4 DEF Subscribe, Once, StartupTypes
<1>5. CASE \E c \in Conns : Session(c) \/ Read(c)
  <2>1. UNCHANGED startup
    BY <1>5 DEF Session, Read, Begin, Release, Rollback, Commit, RunHook, Save, Delete,
                ChangeM2M, Changes, Sql, Fill, BeginRead
  <2>2. QED
    BY <2>1, <1>1
<1>6. QED
  BY <1>1, <1>2, <1>3, <1>4, <1>5 DEF Next, vars

\* Every way to change rows: some models, one of which may have receivers.
LEMMA Writers ==
    ASSUME StartupTypes, NEW c \in Conns,
           \/ \E m \in Models : Save(c, m) \/ Delete(c, m)
           \/ \E l \in links : ChangeM2M(c, l)
    PROVE  \E models \in SUBSET Models, m \in Models :
              /\ m \in models
              /\ Changes(c, models, m, senders) \/ Changes(c, models, m, m2mSenders)
<1>1. ASSUME NEW m \in Models, Save(c, m)
      PROVE  \E models \in SUBSET Models : m \in models /\ Changes(c, models, m, senders)
  BY <1>1 DEF Save
<1>2. ASSUME NEW m \in Models, Delete(c, m)
      PROVE  \E models \in SUBSET Models : m \in models /\ Changes(c, models, m, senders)
  <2>1. {m} \cup Throughs(m) \in SUBSET Models
    BY RelationsLead DEF StartupTypes
  <2>2. QED
    BY <1>2, <2>1 DEF Delete
<1>3. ASSUME NEW l \in links, ChangeM2M(c, l)
      PROVE  \E models \in SUBSET Models, m \in Models :
                m \in models /\ Changes(c, models, m, m2mSenders)
  <2>1. l.through \in Models
    BY <1>3, LinksAssumption DEF ChangeM2M, StartupTypes
  <2>2. QED
    BY <1>3, <2>1 DEF ChangeM2M
<1>4. QED
  BY <1>1, <1>2, <1>3

\* A commit moves the clock, and the models it changes with it.
LEMMA Committed ==
    ASSUME SessionTypes, NEW c \in Conns, NEW models \in SUBSET Models, Commits(c, models)
    PROVE  /\ clock' \in Nat /\ changed' \in [Models -> 0..clock']
           /\ mine' \in [Conns -> SUBSET Models]
BY DEF Commits, SessionTypes

\* Transactions are about blocks that are open.
LEMMA SessionsTyped ==
    ASSUME StartupTypes, SessionTypes, [Next]_vars PROVE SessionTypes'
<1> DEFINE others == <<clock, changed, written, depth, writes, hooks, running, mine>>
<1>1. CASE UNCHANGED others
  BY <1>1 DEF SessionTypes
<1>2. CASE \/ \E m \in Models : Connect(m) \/ Explore(m)
           \/ Subscribe \/ UNCHANGED vars
           \/ \E c \in Conns : Read(c)
  <2>1. UNCHANGED others
    BY <1>2 DEF Connect, Explore, Subscribe, vars, session, Read, Sql, Fill, BeginRead
  <2>2. QED
    BY <1>1, <2>1
<1>3. ASSUME NEW c \in Conns, Begin(c)
      PROVE  SessionTypes'
  <2>1. /\ UNCHANGED <<clock, changed, written, writes, hooks, running, mine>>
        /\ depth[c] \in 0..MaxDepth /\ depth[c] < MaxDepth
        /\ depth' = [depth EXCEPT ![c] = depth[c] + 1]
    BY <1>3 DEF Begin, SessionTypes
  <2>2. depth' \in [Conns -> 0..MaxDepth] /\ \A b \in Conns : depth'[b] >= depth[b]
    BY <2>1, DepthAssumption DEF SessionTypes
  <2>3. ASSUME NEW b \in Conns, NEW d \in Blocks, d > depth'[b]
        PROVE  d > depth[b]
    BY <2>2, <2>3 DEF SessionTypes, Blocks
  <2>4. QED
    BY <2>1, <2>2, <2>3 DEF SessionTypes
<1>4. ASSUME NEW c \in Conns, Release(c)
      PROVE  SessionTypes'
  <2>1. /\ depth' = [depth EXCEPT ![c] = depth[c] - 1] /\ depth[c] > 1
        /\ writes' \in [Conns -> [Blocks -> SUBSET Models]]
        /\ hooks' \in [Conns -> [Blocks -> Seq(Models)]]
        /\ writes'[c][depth[c]] = {} /\ hooks'[c][depth[c]] = <<>>
        /\ \A d \in Blocks \ {depth[c], depth[c] - 1} :
              writes'[c][d] = writes[c][d] /\ hooks'[c][d] = hooks[c][d]
        /\ \A b \in Conns \ {c} : writes'[b] = writes[b] /\ hooks'[b] = hooks[b]
    BY <1>4, Released
  <2>2. UNCHANGED <<clock, changed, written, running, mine>>
    BY <1>4 DEF Release
  <2>3. depth[c] \in 0..MaxDepth /\ depth' \in [Conns -> 0..MaxDepth] /\ depth'[c] = depth[c] - 1
    BY <2>1, DepthAssumption DEF SessionTypes
  <2>4. ASSUME NEW d \in Blocks, d > depth[c] - 1
        PROVE  writes'[c][d] = {} /\ hooks'[c][d] = <<>>
    <3>1. d = depth[c] \/ (d > depth[c] /\ d \in Blocks \ {depth[c], depth[c] - 1})
      BY <2>3, <2>4 DEF Blocks
    <3>2. QED
      BY <2>1, <3>1 DEF SessionTypes
  <2>5. \A b \in Conns \ {c} : depth'[b] = depth[b]
    BY <2>1 DEF SessionTypes
  <2>6. \A b \in Conns : \A d \in Blocks :
           d > depth'[b] => writes'[b][d] = {} /\ hooks'[b][d] = <<>>
    BY <2>1, <2>3, <2>4, <2>5 DEF SessionTypes
  <2>7. QED
    BY <2>1, <2>2, <2>3, <2>6 DEF SessionTypes
<1>5. ASSUME NEW c \in Conns, Rollback(c) \/ Commit(c)
      PROVE  SessionTypes'
  <2>1. /\ depth' = [depth EXCEPT ![c] = depth[c] - 1] /\ depth[c] > 0 /\ depth[c] \in Blocks
        /\ writes' \in [Conns -> [Blocks -> SUBSET Models]]
        /\ hooks' \in [Conns -> [Blocks -> Seq(Models)]]
        /\ writes'[c][depth[c]] = {} /\ hooks'[c][depth[c]] = <<>>
        /\ \A d \in Blocks \ {depth[c]} :
              writes'[c][d] = writes[c][d] /\ hooks'[c][d] = hooks[c][d]
        /\ \A b \in Conns \ {c} : writes'[b] = writes[b] /\ hooks'[b] = hooks[b]
    BY <1>5, Left
  <2>2. depth[c] \in 0..MaxDepth /\ depth' \in [Conns -> 0..MaxDepth] /\ depth'[c] = depth[c] - 1
    BY <2>1, DepthAssumption DEF SessionTypes
  <2>3. ASSUME NEW d \in Blocks, d > depth[c] - 1
        PROVE  writes'[c][d] = {} /\ hooks'[c][d] = <<>>
    <3>1. d = depth[c] \/ (d > depth[c] /\ d \in Blocks \ {depth[c]})
      BY <2>2, <2>3 DEF Blocks
    <3>2. QED
      BY <2>1, <3>1 DEF SessionTypes
  <2>4. \A b \in Conns \ {c} : depth'[b] = depth[b]
    BY <2>1 DEF SessionTypes
  <2>5. \A b \in Conns : \A d \in Blocks :
           d > depth'[b] => writes'[b][d] = {} /\ hooks'[b][d] = <<>>
    BY <2>1, <2>2, <2>3, <2>4 DEF SessionTypes
  <2>6. CASE Rollback(c)
    <3>1. UNCHANGED <<clock, changed, written, running, mine>>
      BY <2>6 DEF Rollback
    <3>2. QED
      BY <2>1, <2>2, <2>5, <3>1 DEF SessionTypes
  <2>7. CASE Commit(c)
    <3>1. 1 \in Blocks /\ writes[c][1] \in SUBSET Models /\ hooks[c][1] \in Seq(Models)
      BY <2>1, <2>7 DEF Commit, SessionTypes
    <3>2. /\ UNCHANGED written /\ running' = [running EXCEPT ![c] = hooks[c][1]]
          /\ \/ mine' = [mine EXCEPT ![c] = {}] /\ UNCHANGED <<clock, changed>>
             \/ Commits(c, writes[c][1])
      BY <2>7 DEF Commit
    <3>3. running' \in [Conns -> Seq(Models)]
      BY <3>1, <3>2 DEF SessionTypes
    <3>4. /\ clock' \in Nat /\ changed' \in [Models -> 0..clock']
          /\ mine' \in [Conns -> SUBSET Models]
      <4>1. CASE mine' = [mine EXCEPT ![c] = {}] /\ UNCHANGED <<clock, changed>>
        BY <4>1 DEF SessionTypes
      <4>2. CASE Commits(c, writes[c][1])
        BY <3>1, <4>2, Committed
      <4>3. QED
        BY <3>2, <4>1, <4>2
    <3>5. QED
      BY <2>1, <2>2, <2>5, <3>2, <3>3, <3>4 DEF SessionTypes
  <2>8. QED
    BY <1>5, <2>6, <2>7
<1>6. ASSUME NEW c \in Conns, RunHook(c)
      PROVE  SessionTypes'
  <2>1. /\ UNCHANGED <<clock, changed, written, depth, writes, hooks, mine>>
        /\ running' = [running EXCEPT ![c] = Tail(@)] /\ running[c] # <<>>
    BY <1>6 DEF RunHook
  <2>2. running' \in [Conns -> Seq(Models)]
    BY <2>1 DEF SessionTypes
  <2>3. QED
    BY <2>1, <2>2 DEF SessionTypes
<1>7. ASSUME NEW c \in Conns, NEW models \in SUBSET Models, NEW m \in Models, NEW receivers,
             Changes(c, models, m, receivers)
      PROVE  SessionTypes'
  <2>1. UNCHANGED depth /\ written' \in Nat
    BY <1>7 DEF Changes, SessionTypes
  <2>2. CASE depth[c] = 0
    <3> DEFINE longer == Append(running[c], m)
    <3>1. /\ UNCHANGED <<writes, hooks>> /\ Commits(c, models)
          /\ running' = running \/ running' = [running EXCEPT ![c] = longer]
      BY <1>7, <2>2 DEF Changes, OnCommit
    <3>2. running \in [Conns -> Seq(Models)] /\ longer \in Seq(Models)
      BY DEF SessionTypes
    <3> HIDE DEF longer
    <3>3. running' \in [Conns -> Seq(Models)]
      BY <3>1, <3>2
    <3>4. /\ clock' \in Nat /\ changed' \in [Models -> 0..clock']
          /\ mine' \in [Conns -> SUBSET Models]
      BY <3>1, Committed
    <3>5. QED
      BY <2>1, <3>1, <3>3, <3>4 DEF SessionTypes
  <2>3. CASE depth[c] # 0
    <3>1. /\ UNCHANGED <<clock, changed, mine, running, depth>>
          /\ writes' \in [Conns -> [Blocks -> SUBSET Models]]
          /\ hooks' \in [Conns -> [Blocks -> Seq(Models)]]
          /\ \A d \in Blocks \ {depth[c]} :
                writes'[c][d] = writes[c][d] /\ hooks'[c][d] = hooks[c][d]
          /\ \A b \in Conns \ {c} : writes'[b] = writes[b] /\ hooks'[b] = hooks[b]
      BY <1>7, <2>3, Written
    <3>2. depth[c] \in Nat
      BY Depths
    <3>3. ASSUME NEW b \in Conns, NEW d \in Blocks, d > depth[b]
          PROVE  writes'[b][d] = {} /\ hooks'[b][d] = <<>>
      <4>1. b # c \/ d # depth[c]
        BY <3>2, <3>3 DEF Blocks
      <4>2. QED
        BY <3>1, <3>3, <4>1 DEF SessionTypes
    <3>4. QED
      BY <2>1, <3>1, <3>3 DEF SessionTypes
  <2>4. QED
    BY <2>2, <2>3
<1>8. ASSUME NEW c \in Conns,
             \/ \E m \in Models : Save(c, m) \/ Delete(c, m)
             \/ \E l \in links : ChangeM2M(c, l)
      PROVE  SessionTypes'
  BY <1>7, <1>8, Writers
<1>9. QED
  BY <1>2, <1>3, <1>4, <1>5, <1>6, <1>8 DEF Next, Session

\* Readers have a query and rows of it, and what they store is a result.
LEMMA ReadersTyped ==
    ASSUME SessionTypes, ReaderTypes, [Next]_vars PROVE ReaderTypes'
<1>1. CASE UNCHANGED <<cache, reader>>
  BY <1>1 DEF cache, reader, ReaderTypes
<1>2. CASE \/ \E m \in Models : Connect(m) \/ Explore(m)
           \/ Subscribe \/ UNCHANGED vars
           \/ \E c \in Conns :
                 \/ Begin(c) \/ Release(c) \/ Rollback(c) \/ Commit(c)
                 \/ \E m \in Models : Save(c, m) \/ Delete(c, m)
                 \/ \E l \in links : ChangeM2M(c, l)
  <2>1. UNCHANGED <<cache, reader>>
    BY <1>2 DEF Connect, Explore, Subscribe, vars, Begin, Release, Rollback, Commit,
                Save, Delete, ChangeM2M, Changes
  <2>2. QED
    BY <1>1, <2>1
<1>3. ASSUME NEW c \in Conns, RunHook(c)
      PROVE  ReaderTypes'
  <2>1. UNCHANGED reader /\ generation' = generation + 1 /\ stored' \subseteq stored
    BY <1>3 DEF RunHook
  <2>2. QED
    BY <2>1 DEF reader, ReaderTypes
<1>4. ASSUME NEW c \in Conns, NEW q \in Queries, BeginRead(c, q)
      PROVE  ReaderTypes'
  BY <1>4 DEF BeginRead, cache, ReaderTypes
<1>5. ASSUME NEW c \in Conns, Sql(c)
      PROVE  ReaderTypes'
  <2> DEFINE own == UNION Range(writes[c]) \cap Dependencies(query[c])
             new == [q |-> query[c], asof |-> clock, own |-> own]
  <2>1. UNCHANGED <<stored, generation, query, fence>> /\ row' = [row EXCEPT ![c] = new]
    BY <1>5 DEF Sql, cache
  <2>2. query[c] \in Queries /\ clock \in Nat
    BY <1>5 DEF Sql, ReaderTypes, SessionTypes
  <2>3. own \in SUBSET Models
    BY DEF SessionTypes, Range
  <2> HIDE DEF own
  <2>4. new \in Result
    BY <2>2, <2>3 DEF Result
  <2> HIDE DEF new
  <2>5. QED
    BY <2>1, <2>4 DEF ReaderTypes
<1>6. ASSUME NEW c \in Conns, Fill(c)
      PROVE  ReaderTypes'
  <2>1. /\ UNCHANGED generation /\ row[c] \in Result
        /\ query' = [query EXCEPT ![c] = None] /\ fence' = [fence EXCEPT ![c] = 0]
        /\ row' = [row EXCEPT ![c] = None]
        /\ \A e \in stored' : e \in stored \/ e = row[c]
    BY <1>6 DEF Fill, ReaderTypes
  <2>2. QED
    BY <2>1 DEF ReaderTypes
<1>7. QED
  BY <1>2, <1>3, <1>4, <1>5, <1>6 DEF Next, Session, Read

\* What a block has changed and the hooks it has registered are given up when it
\* ends, for any depth of nesting: atomic() leaves nothing behind in its connection.
THEOREM InvalidationTypes == Spec => []TypeOK
<1>1. Init => TypeOK
  <2>1. SUFFICES ASSUME Init PROVE TypeOK
    OBVIOUS
  <2>2. StartupTypes /\ ReaderTypes
    BY <2>1 DEF Init, StartupTypes, ReaderTypes
  <2>3. SessionTypes
    <3>1. <<>> \in Seq(Models) /\ 0 \in 0..MaxDepth
      BY DepthAssumption
    <3>2. QED
      BY <2>1, <3>1 DEF Init, SessionTypes
  <2>4. QED
    BY <2>2, <2>3, TypeParts
<1>2. TypeOK /\ [Next]_vars => TypeOK'
  <2>1. SUFFICES ASSUME TypeOK, [Next]_vars PROVE TypeOK'
    OBVIOUS
  <2>2. StartupTypes' /\ SessionTypes' /\ ReaderTypes'
    BY <2>1, TypeParts, StartupTyped, SessionsTyped, ReadersTyped
  <2>3. QED
    BY <2>2 DEF TypeOK, StartupTypes, SessionTypes, ReaderTypes, Result, Blocks
<1>3. QED
  BY <1>1, <1>2, PTL DEF Spec

----------------------------------------------------------------------------
(* Uncommitted rows.                                                       *)

\* Relations, and with them dependencies, stay what they were at start-up.
LEMMA DependenciesStay ==
    ASSUME [Next]_vars
    PROVE  UNCHANGED links /\ \A q : Dependencies(q)' = Dependencies(q) /\ Cacheable(q)' = Cacheable(q)
<1>1. UNCHANGED links
  <2>1. CASE UNCHANGED vars
    BY <2>1 DEF vars, startup
  <2>2. ASSUME NEW m \in Models, Connect(m) \/ Explore(m) PROVE UNCHANGED links
    BY <2>2 DEF Connect, Explore
  <2>3. CASE Subscribe
    BY <2>3 DEF Subscribe
  <2>4. ASSUME NEW c \in Conns, Session(c) PROVE UNCHANGED links
    <3>1. UNCHANGED startup
      BY <2>4 DEF Session, Begin, Release, Rollback, Commit, RunHook, Save, Delete, ChangeM2M, Changes
    <3>2. QED
      BY <3>1 DEF startup
  <2>5. ASSUME NEW c \in Conns, Read(c) PROVE UNCHANGED links
    <3>1. UNCHANGED startup
      BY <2>5 DEF Read, Sql, Fill, BeginRead
    <3>2. QED
      BY <3>1 DEF startup
  <2>6. QED
    BY <2>1, <2>2, <2>3, <2>4, <2>5 DEF Next
<1>2. \A m : Fields(m)' = Fields(m)
  <2>1. Declared' = Declared
    BY <1>1 DEF Declared, Hidden
  <2>2. QED
    BY <2>1 DEF Fields
<1>3. \A m, n : Between(m, n)' = Between(m, n) /\ Targets(m)' = Targets(m)
  BY <1>2 DEF Between, Targets
<1>4. \A q : Dependencies(q)' = Dependencies(q)
  BY <1>3 DEF Dependencies, Steps
<1>5. \A q : Cacheable(q)' = Cacheable(q)
  BY <1>3 DEF Cacheable, Steps
<1>6. QED
  BY <1>1, <1>4, <1>5

\* A read that may be stored goes on outside of any transaction.
Apart ==
    /\ \A c \in Conns :
          /\ query[c] # None => depth[c] = 0 /\ Cacheable(query[c])
          /\ row[c] # None => query[c] # None /\ row[c].q = query[c] /\ row[c].own = {}
          /\ fence[c] <= generation
    /\ \A e \in stored : Cacheable(e.q) /\ e.own = {}

\* Every step keeps reads and transactions of a connection apart.
LEMMA ApartStays == ASSUME TypeOK, Apart, [Next]_vars PROVE Apart'
<1>1. /\ SessionTypes /\ \A q : Cacheable(q)' = Cacheable(q)
      /\ generation \in Nat /\ fence \in [Conns -> Nat] /\ depth \in [Conns -> 0..MaxDepth]
      /\ query \in [Conns -> Queries \cup {None}] /\ row \in [Conns -> Result \cup {None}]
  BY TypeParts, DependenciesStay DEF TypeOK
<1>2. CASE UNCHANGED <<depth, query, fence, row, stored, generation>>
  BY <1>1, <1>2 DEF Apart
<1>3. CASE \/ \E m \in Models : Connect(m) \/ Explore(m)
           \/ Subscribe \/ UNCHANGED vars
           \/ \E c \in Conns : \/ \E m \in Models : Save(c, m) \/ Delete(c, m)
                               \/ \E l \in links : ChangeM2M(c, l)
  <2>1. UNCHANGED <<depth, query, fence, row, stored, generation>>
    BY <1>3 DEF Connect, Explore, Subscribe, vars, session, Save, Delete, ChangeM2M, Changes,
                cache, reader
  <2>2. QED
    BY <1>2, <2>1
<1>4. ASSUME NEW c \in Conns, Begin(c) \/ Release(c) \/ Rollback(c) \/ Commit(c)
      PROVE  Apart'
  <2>1. /\ UNCHANGED <<query, fence, row, stored, generation>> /\ query[c] = None
        /\ \E d : depth' = [depth EXCEPT ![c] = d]
    BY <1>4 DEF Begin, Release, Rollback, Commit, Free, cache, reader
  <2>2. \A b \in Conns : query[b] # None => depth'[b] = depth[b]
    BY <1>1, <2>1
  <2>3. QED
    BY <1>1, <2>1, <2>2 DEF Apart
<1>5. ASSUME NEW c \in Conns, RunHook(c)
      PROVE  Apart'
  <2>1. /\ UNCHANGED <<depth, query, fence, row>>
        /\ generation' = generation + 1 /\ stored' \subseteq stored
    BY <1>5 DEF RunHook, reader
  <2>2. QED
    BY <1>1, <2>1 DEF Apart
<1>6. ASSUME NEW c \in Conns, NEW q \in Queries, BeginRead(c, q)
      PROVE  Apart'
  <2>1. /\ UNCHANGED <<depth, stored, generation>> /\ Cacheable(q) /\ ~(depth[c] > 0)
        /\ query' = [query EXCEPT ![c] = q] /\ fence' = [fence EXCEPT ![c] = generation]
        /\ row' = [row EXCEPT ![c] = None]
    BY <1>6 DEF BeginRead, Transactional, session, cache
  <2>2. depth[c] = 0
    BY <1>1, <2>1
  <2>3. QED
    BY <1>1, <2>1, <2>2 DEF Apart
<1>7. ASSUME NEW c \in Conns, Sql(c)
      PROVE  Apart'
  <2>1. depth[c] = 0
    BY <1>7 DEF Sql, Apart
  <2>2. \A d \in Blocks : writes[c][d] = {}
    <3>1. \A d \in Blocks : d > depth[c]
      BY <2>1, DepthAssumption DEF Blocks
    <3>2. QED
      BY <1>1, <3>1 DEF SessionTypes
  <2>3. UNION Range(writes[c]) = {}
    BY <1>1, <2>2 DEF Range, SessionTypes
  <2>4. /\ UNCHANGED <<depth, stored, generation, query, fence>> /\ query[c] # None
        /\ row' = [row EXCEPT ![c] = [q |-> query[c], asof |-> clock, own |-> {}]]
    BY <1>7, <2>3 DEF Sql, session, cache
  <2>5. QED
    BY <1>1, <2>4 DEF Apart
<1>8. ASSUME NEW c \in Conns, Fill(c)
      PROVE  Apart'
  <2>1. /\ UNCHANGED <<depth, generation>> /\ row[c] # None
        /\ query' = [query EXCEPT ![c] = None] /\ fence' = [fence EXCEPT ![c] = 0]
        /\ row' = [row EXCEPT ![c] = None]
        /\ \A e \in stored' : e \in stored \/ e = row[c]
    BY <1>8 DEF Fill, session
  <2>2. Cacheable(row[c].q) /\ row[c].own = {}
    BY <2>1 DEF Apart
  <2>3. QED
    BY <1>1, <2>1, <2>2 DEF Apart
<1>9. QED
  BY <1>3, <1>4, <1>5, <1>6, <1>7, <1>8 DEF Next, Session, Read

\* No result is stored with rows that its connection had not committed: get_or_set()
\* bypasses the cache in a transaction, and a thread opens none while it reads.
THEOREM CommittedRows == Spec => []OnlyCommittedRows
<1>1. Init => Apart
  BY DEF Init, Apart
<1>2. TypeOK /\ Apart /\ [Next]_vars => Apart'
  BY ApartStays
<1>3. Apart => OnlyCommittedRows
  BY DEF Apart, OnlyCommittedRows
<1>4. QED
  BY <1>1, <1>2, <1>3, InvalidationTypes, PTL DEF Spec

----------------------------------------------------------------------------
(* Whom a query depends on.                                                *)

\* Induction over natural numbers, for a set of them.
LEMMA AllNumbers ==
    ASSUME NEW S, 0 \in S, \A n \in Nat : n \in S => n + 1 \in S
    PROVE  Nat \subseteq S
<1> DEFINE Below == {p \in Nat \X Nat : p[1] < p[2]}
           T == Nat \ S
<1>1. SUFFICES ASSUME T # {} PROVE FALSE
  OBVIOUS
<1>2. IsWellFoundedOn(Below, Nat)
  BY NatLessThanWellFounded DEF OpToRel
<1>3. \A x, y \in Nat : <<y, x>> \in Below <=> y < x
  OBVIOUS
<1>4. T \subseteq Nat
  OBVIOUS
<1> HIDE DEF Below, T
<1>5. PICK n \in T : \A k \in T : ~(<<k, n>> \in Below)
  BY <1>1, <1>2, <1>4, WFMin
<1>6. n \in Nat /\ n \notin S
  BY <1>5 DEF T
<1>7. n # 0 /\ n - 1 \in Nat /\ (n - 1) + 1 = n
  BY <1>6
<1>8. n - 1 \notin T
  <2>1. <<n - 1, n>> \in Below
    BY <1>3, <1>6, <1>7
  <2>2. QED
    BY <1>5, <2>1
<1>9. QED
  BY <1>6, <1>7, <1>8 DEF T

\* Every model on the way of a query is connected, when all enabled models are.
LEMMA PathConnected ==
    ASSUME TypeOK, Connected, Ready, NEW q \in Queries, Cacheable(q),
           NEW on, on = <<q.root>> \o q.path
    PROVE  \A i \in 1..(Len(q.path) + 1) : on[i] \in Models /\ senders[on[i]] > 0
<1> DEFINE S == {n \in Nat : n <= Len(q.path) => on[n + 1] \in Models /\ senders[on[n + 1]] > 0}
<1>1. /\ q.root \in Models /\ q.root \in Enabled /\ q.path \in Seq(Models)
      /\ Len(q.path) \in Nat
  BY QueriesAssumption, ModelsAssumption
<1>2. on[1] = q.root /\ \A i \in 1..Len(q.path) : on[i + 1] = q.path[i]
  BY <1>1
<1>3. 0 \in S
  BY <1>1, <1>2 DEF Ready
<1>4. ASSUME NEW n \in Nat, n \in S
      PROVE  n + 1 \in S
  <2>1. SUFFICES ASSUME n + 1 <= Len(q.path)
                 PROVE  on[(n + 1) + 1] \in Models /\ senders[on[(n + 1) + 1]] > 0
    OBVIOUS
  <2>2. on[n + 1] \in Models /\ senders[on[n + 1]] > 0 /\ n + 1 \in 1..Len(q.path)
    BY <1>1, <1>4, <2>1
  <2>3. <<on[n + 1], on[(n + 1) + 1]>> \in Steps(q)
    BY <2>2 DEF Steps
  <2>4. on[(n + 1) + 1] \in Targets(on[n + 1])
    BY <2>3 DEF Cacheable
  <2>5. on[(n + 1) + 1] \in Onward(on[n + 1])
    BY <2>4 DEF Onward
  <2>6. senders[on[(n + 1) + 1]] > 0
    BY <2>2, <2>5 DEF Connected
  <2>7. on[(n + 1) + 1] \in Models
    BY <1>1, <1>2, <2>2
  <2>8. QED
    BY <2>6, <2>7
<1>5. Nat \subseteq S
  <2> HIDE DEF S
  <2> QED
    BY <1>3, <1>4, AllNumbers
<1>6. ASSUME NEW i \in 1..(Len(q.path) + 1)
      PROVE  on[i] \in Models /\ senders[on[i]] > 0
  <2>1. i - 1 \in Nat /\ i - 1 <= Len(q.path) /\ (i - 1) + 1 = i
    BY <1>1
  <2>2. QED
    BY <1>5, <2>1
<1>7. QED
  BY <1>6

\* A field with a through model comes from the declared relation that has it.
LEMMA FieldDeclared ==
    ASSUME links \subseteq Links, NEW m, NEW f \in Fields(m), f.through # None
    PROVE  \E l \in links : /\ l.through = f.through
                            /\ \/ m = l.from /\ f.target = l.to
                               \/ m = l.to /\ f.target = l.from
<1>1. \A h \in Hidden : h.through = None
  BY DEF Hidden
<1>2. PICK l \in Declared : /\ l.through = f.through
                            /\ \/ m = l.from /\ f.target = l.to
                               \/ m = l.to /\ f.target = l.from
  BY DEF Fields
<1>3. l \in links
  BY <1>1, <1>2 DEF Declared
<1>4. QED
  BY <1>2, <1>3

\* connect_invalidation() has subscribed to every dependency of a query; and if one
\* is a through model, the query depends on both of its ends.
LEMMA Subscribed ==
    ASSUME TypeOK, Connected, Ready, NEW q \in Queries, Cacheable(q), NEW m \in Dependencies(q)
    PROVE  /\ m \in Models /\ senders[m] > 0
           /\ \A l \in links : l.through = m =>
                 m2mSenders[m] > 0 /\ l.from \in Dependencies(q) /\ l.to \in Dependencies(q)
<1> DEFINE on == <<q.root>> \o q.path
<1>1. /\ q.root \in Enabled /\ q.path \in Seq(Models) /\ Len(q.path) \in Nat
      /\ links \subseteq Links /\ q.root \in Models
  BY QueriesAssumption, ModelsAssumption DEF TypeOK
<1>2. on[1] = q.root /\ \A i \in 1..Len(q.path) : on[i + 1] = q.path[i]
  BY <1>1
<1>3. Steps(q) = {<<on[i], on[i + 1]>> : i \in 1..Len(q.path)}
  BY DEF Steps
<1>4. Range(q.path) = {q.path[i] : i \in 1..Len(q.path)}
  BY <1>1 DEF Range
<1> HIDE DEF on
<1>5. \A i \in 1..(Len(q.path) + 1) : on[i] \in Models /\ senders[on[i]] > 0
  BY PathConnected DEF on
\* Both ends of a step are dependencies, and connected models.
<1>6. \A i \in 1..(Len(q.path) + 1) : on[i] \in Dependencies(q)
  <2>1. ASSUME NEW i \in 1..(Len(q.path) + 1)
        PROVE  on[i] \in {q.root} \cup Range(q.path)
    <3>1. CASE i = 1
      BY <1>2, <3>1
    <3>2. CASE i # 1
      <4>1. i - 1 \in 1..Len(q.path) /\ (i - 1) + 1 = i
        BY <1>1, <3>2
      <4>2. on[i] = q.path[i - 1]
        BY <1>2, <4>1
      <4>3. QED
        BY <1>4, <4>1, <4>2
    <3>3. QED
      BY <3>1, <3>2
  <2>2. QED
    BY <2>1 DEF Dependencies
<1>7. ASSUME NEW s \in Steps(q)
      PROVE  /\ s[1] \in Models /\ senders[s[1]] > 0
             /\ s[1] \in Dependencies(q) /\ s[2] \in Dependencies(q)
  <2>1. PICK i \in 1..Len(q.path) : s = <<on[i], on[i + 1]>>
    BY <1>3
  <2>2. i \in 1..(Len(q.path) + 1) /\ i + 1 \in 1..(Len(q.path) + 1)
    BY <1>1
  <2>3. QED
    BY <1>5, <1>6, <2>1, <2>2
<1>8. CASE m \in {q.root} \cup Range(q.path)
  <2>1. m \in Models /\ senders[m] > 0
    <3>1. CASE m = q.root
      <4>1. 1 \in 1..(Len(q.path) + 1)
        BY <1>1
      <4>2. QED
        BY <1>2, <1>5, <3>1, <4>1
    <3>2. CASE m \in Range(q.path)
      <4>1. PICK i \in 1..Len(q.path) : m = q.path[i]
        BY <1>4, <3>2
      <4>2. i + 1 \in 1..(Len(q.path) + 1) /\ m = on[i + 1]
        BY <1>1, <1>2, <4>1
      <4>3. QED
        BY <1>5, <4>2
    <3>3. QED
      BY <1>8, <3>1, <3>2
  <2>2. ASSUME NEW l \in links, l.through = m
        PROVE  FALSE
    <3>1. l \in Links /\ l.through # None
      BY <1>1, <2>1, <2>2, ModelsAssumption
    <3>2. l.through \notin Enabled /\ l.through \notin Range(q.path)
      BY <3>1, ThroughAssumption
    <3>3. QED
      BY <1>1, <1>8, <2>2, <3>2
  <2>3. QED
    BY <2>1, <2>2
<1>9. CASE \E s \in Steps(q) : m \in Between(s[1], s[2])
  <2>1. PICK s \in Steps(q) : m \in Between(s[1], s[2])
    BY <1>9
  <2>2. PICK f \in Fields(s[1]) : f.target = s[2] /\ f.through = m /\ m # None
    BY <2>1 DEF Between
  <2>3. m \in Throughs(s[1])
    BY <2>2 DEF Throughs
  <2>4. m \in Models /\ senders[m] > 0 /\ m2mSenders[m] > 0
    BY <1>1, <1>7, <2>3, RelationsLead DEF Connected, Onward
  <2>5. PICK k \in links : /\ k.through = m
                           /\ \/ s[1] = k.from /\ f.target = k.to
                              \/ s[1] = k.to /\ f.target = k.from
    BY <1>1, <2>2, FieldDeclared
  <2>6. ASSUME NEW l \in links, l.through = m
        PROVE  l = k
    <3>1. l \in Links /\ k \in Links
      BY <1>1
    <3>2. QED
      BY <2>2, <2>5, <2>6, <3>1, ThroughAssumption
  <2>7. k.from \in Dependencies(q) /\ k.to \in Dependencies(q)
    BY <1>7, <2>2, <2>5
  <2>8. QED
    BY <2>4, <2>6, <2>7
<1>10. QED
  BY <1>8, <1>9 DEF Dependencies

----------------------------------------------------------------------------
(* What the hooks announce.                                                *)

\* The hooks name only models that have changed, and one that a query depends on
\* if anything has changed that it depends on.
Announces(changes, heard) ==
    /\ Range(heard) \subseteq changes
    /\ \A q \in Queries :
          Cacheable(q) /\ changes \cap Dependencies(q) # {} =>
              Range(heard) \cap Dependencies(q) # {}

\* In every block of every connection, at every depth.
AllAnnounced == \A c \in Conns : \A d \in Blocks : Announces(writes[c][d], hooks[c][d])

\* What occurs in a concatenation occurs in one of its parts.
LEMMA RangeConcat ==
    ASSUME NEW s \in Seq(Models), NEW t \in Seq(Models)
    PROVE  Range(s \o t) = Range(s) \cup Range(t)
<1>1. /\ Len(s) \in Nat /\ Len(t) \in Nat /\ DOMAIN s = 1..Len(s) /\ DOMAIN t = 1..Len(t)
      /\ DOMAIN (s \o t) = 1..(Len(s) + Len(t))
      /\ \A i \in 1..(Len(s) + Len(t)) : (s \o t)[i] = IF i <= Len(s) THEN s[i] ELSE t[i - Len(s)]
  OBVIOUS
<1>2. ASSUME NEW x \in Range(s \o t)
      PROVE  x \in Range(s) \cup Range(t)
  <2>1. PICK i \in 1..(Len(s) + Len(t)) : x = (s \o t)[i]
    BY <1>1 DEF Range
  <2>2. (i \in 1..Len(s) /\ x = s[i]) \/ (i - Len(s) \in 1..Len(t) /\ x = t[i - Len(s)])
    BY <1>1, <2>1
  <2>3. QED
    BY <1>1, <2>2 DEF Range
<1>3. ASSUME NEW i \in 1..Len(s)
      PROVE  s[i] \in Range(s \o t)
  <2>1. i \in 1..(Len(s) + Len(t)) /\ (s \o t)[i] = s[i]
    BY <1>1
  <2>2. QED
    BY <1>1, <2>1 DEF Range
<1>4. ASSUME NEW i \in 1..Len(t)
      PROVE  t[i] \in Range(s \o t)
  <2>1. Len(s) + i \in 1..(Len(s) + Len(t)) /\ (s \o t)[Len(s) + i] = t[i]
    BY <1>1
  <2>2. QED
    BY <1>1, <2>1 DEF Range
<1>5. Range(s) \subseteq Range(s \o t) /\ Range(t) \subseteq Range(s \o t)
  BY <1>1, <1>3, <1>4 DEF Range
<1>6. QED
  BY <1>2, <1>5

\* What occurs in a sequence is its head or occurs after it.
LEMMA RangeTail ==
    ASSUME NEW s \in Seq(Models), s # <<>>
    PROVE  Range(s) \subseteq {Head(s)} \cup Range(Tail(s)) /\ Range(Tail(s)) \subseteq Range(s)
<1>1. /\ Len(s) \in Nat /\ Len(s) > 0 /\ DOMAIN s = 1..Len(s) /\ Head(s) = s[1]
      /\ DOMAIN Tail(s) = 1..(Len(s) - 1) /\ \A i \in 1..(Len(s) - 1) : Tail(s)[i] = s[i + 1]
  OBVIOUS
<1>2. ASSUME NEW i \in 1..Len(s)
      PROVE  s[i] \in {Head(s)} \cup Range(Tail(s))
  <2>1. CASE i = 1
    BY <1>1, <2>1
  <2>2. CASE i # 1
    <3>1. i - 1 \in 1..(Len(s) - 1) /\ Tail(s)[i - 1] = s[i]
      BY <1>1, <2>2
    <3>2. QED
      BY <1>1, <3>1 DEF Range
  <2>3. QED
    BY <2>1, <2>2
<1>3. ASSUME NEW i \in 1..(Len(s) - 1)
      PROVE  Tail(s)[i] \in Range(s)
  BY <1>1 DEF Range
<1>4. QED
  BY <1>1, <1>2, <1>3 DEF Range

\* Nothing announces nothing, and announcements add up.
LEMMA NothingAnnounced == Announces({}, <<>>)
BY DEF Announces, Range

\* A released block hands on writes and hooks together.
LEMMA BothAnnounced ==
    ASSUME NEW s \in Seq(Models), NEW t \in Seq(Models), NEW v, NEW w,
           Announces(v, s), Announces(w, t)
    PROVE  Announces(v \cup w, s \o t)
BY RangeConcat DEF Announces

\* What the handlers make of a change.
Heard(m, receivers) == IF receivers[m] > 0 THEN <<m>> ELSE <<>>

\* Every way to change rows is announced, by the handlers connected to it.
LEMMA WritersAnnounce ==
    ASSUME TypeOK, Connected, NEW c \in Conns,
           \/ \E m \in Models : Save(c, m) \/ Delete(c, m)
           \/ \E l \in links : ChangeM2M(c, l)
    PROVE  \E models \in SUBSET Models, m \in Models, receivers \in {senders, m2mSenders} :
              Changes(c, models, m, receivers) /\ Announces(models, Heard(m, receivers))
<1>1. links \subseteq Links /\ \A m : Range(<<m>>) = {m}
  BY DEF TypeOK, Range
<1>2. ASSUME NEW m \in Models, Save(c, m)
      PROVE  Changes(c, {m}, m, senders) /\ Announces({m}, Heard(m, senders))
  <2>1. Changes(c, {m}, m, senders) /\ Ready
    BY <1>2 DEF Save, Changes, Free
  <2>2. ASSUME NEW q \in Queries, Cacheable(q), m \in Dependencies(q)
        PROVE  Heard(m, senders) = <<m>>
    BY <2>1, <2>2, Subscribed DEF Heard
  <2>3. Range(Heard(m, senders)) \subseteq {m}
    BY <1>1 DEF Heard, Range
  <2>4. QED
    BY <1>1, <2>1, <2>2, <2>3 DEF Announces
<1>3. ASSUME NEW m \in Models, Delete(c, m)
      PROVE  /\ {m} \cup Throughs(m) \in SUBSET Models
             /\ Changes(c, {m} \cup Throughs(m), m, senders)
             /\ Announces({m} \cup Throughs(m), Heard(m, senders))
  <2>1. Changes(c, {m} \cup Throughs(m), m, senders) /\ Ready
    BY <1>3 DEF Delete, Changes, Free
  <2>2. ASSUME NEW q \in Queries, Cacheable(q), NEW n \in {m} \cup Throughs(m),
               n \in Dependencies(q)
        PROVE  m \in Dependencies(q)
    <3>1. CASE n = m
      BY <2>2, <3>1
    <3>2. CASE n \in Throughs(m)
      <4>1. PICK f \in Fields(m) : f.through = n /\ n # None
        BY <3>2 DEF Throughs
      <4>2. PICK l \in links : l.through = n /\ (m = l.from \/ m = l.to)
        BY <1>1, <4>1, FieldDeclared
      <4>3. l.from \in Dependencies(q) /\ l.to \in Dependencies(q)
        BY <2>1, <2>2, <4>2, Subscribed
      <4>4. QED
        BY <4>2, <4>3
    <3>3. QED
      BY <3>1, <3>2
  <2>3. ASSUME NEW q \in Queries, Cacheable(q), m \in Dependencies(q)
        PROVE  Heard(m, senders) = <<m>>
    BY <2>1, <2>3, Subscribed DEF Heard
  <2>4. Range(Heard(m, senders)) \subseteq {m}
    BY <1>1 DEF Heard, Range
  <2>5. {m} \cup Throughs(m) \in SUBSET Models
    BY <1>1, RelationsLead
  <2>6. QED
    BY <1>1, <2>1, <2>2, <2>3, <2>4, <2>5 DEF Announces
<1>4. ASSUME NEW l \in links, ChangeM2M(c, l)
      PROVE  /\ l.through \in Models /\ Changes(c, {l.through}, l.through, m2mSenders)
             /\ Announces({l.through}, Heard(l.through, m2mSenders))
  <2>1. /\ Changes(c, {l.through}, l.through, m2mSenders) /\ Ready /\ l.through # None
        /\ l.through \in Models
    BY <1>1, <1>4, LinksAssumption DEF ChangeM2M, Changes, Free
  <2>2. ASSUME NEW q \in Queries, Cacheable(q), l.through \in Dependencies(q)
        PROVE  Heard(l.through, m2mSenders) = <<l.through>>
    BY <2>1, <2>2, Subscribed DEF Heard
  <2>3. Range(Heard(l.through, m2mSenders)) \subseteq {l.through}
    BY <1>1 DEF Heard, Range
  <2>4. QED
    BY <1>1, <2>1, <2>2, <2>3 DEF Announces
<1>5. QED
  BY <1>2, <1>3, <1>4

\* A commit: what it announces, and nothing of a reader or the cache.
Publishes(c, models, heard) ==
    /\ running[c] = <<>> /\ running' = [running EXCEPT ![c] = heard]
    /\ Announces(models, heard)
    /\ mine' = [mine EXCEPT ![c] = models]
    /\ clock' \in {clock, clock + 1}
    /\ \A m \in Models : m \in models \/ changed'[m] = changed[m]
    /\ UNCHANGED <<cache, reader>>

\* What a step does to the changes that are committed and to their hooks.
PublicEffect ==
    \/ UNCHANGED <<clock, changed, running, mine>>
    \/ \E c \in Conns, models \in SUBSET Models, heard \in Seq(Models) :
          Publishes(c, models, heard)
    \/ \E c \in Conns : RunHook(c)

\* Dependencies do not change, so that announcements only have to be looked at.
LEMMA AnnouncedStay ==
    ASSUME [Next]_vars, \A c \in Conns : \A d \in Blocks : Announces(writes'[c][d], hooks'[c][d])
    PROVE  AllAnnounced'
BY DependenciesStay DEF AllAnnounced, Announces, Blocks

\* Every step keeps the blocks announced, and commits only what is.
LEMMA PublicStep ==
    ASSUME TypeOK, Connected, AllAnnounced, [Next]_vars PROVE AllAnnounced' /\ PublicEffect
<1> DEFINE Stay == \A c \in Conns : \A d \in Blocks : Announces(writes'[c][d], hooks'[c][d])
<1>1. /\ SessionTypes /\ StartupTypes
      /\ \A c \in Conns : \A d \in Blocks :
            /\ Announces(writes[c][d], hooks[c][d])
            /\ writes[c][d] \in SUBSET Models /\ hooks[c][d] \in Seq(Models)
  BY TypeParts DEF AllAnnounced, SessionTypes
<1>2. ASSUME UNCHANGED <<writes, hooks, clock, changed, running, mine>>
      PROVE  Stay /\ PublicEffect
  BY <1>1, <1>2 DEF PublicEffect
<1>3. ASSUME \/ \E m \in Models : Connect(m) \/ Explore(m)
             \/ Subscribe \/ UNCHANGED vars
             \/ \E c \in Conns : Begin(c) \/ Read(c)
      PROVE  Stay /\ PublicEffect
  <2>1. UNCHANGED <<writes, hooks, clock, changed, running, mine>>
    BY <1>3 DEF Connect, Explore, Subscribe, vars, session, Begin, Read, Sql, Fill, BeginRead
  <2>2. QED
    BY <1>2, <2>1
<1>4. ASSUME NEW c \in Conns, Release(c)
      PROVE  Stay /\ PublicEffect
  <2> DEFINE inner == depth[c]
             outer == depth[c] - 1
  <2>1. /\ inner \in Blocks /\ outer \in Blocks
        /\ writes'[c][inner] = {} /\ hooks'[c][inner] = <<>>
        /\ writes'[c][outer] = writes[c][outer] \cup writes[c][inner]
        /\ hooks'[c][outer] = hooks[c][outer] \o hooks[c][inner]
        /\ \A d \in Blocks \ {inner, outer} :
              writes'[c][d] = writes[c][d] /\ hooks'[c][d] = hooks[c][d]
        /\ \A b \in Conns \ {c} : writes'[b] = writes[b] /\ hooks'[b] = hooks[b]
    BY <1>1, <1>4, Released
  <2> HIDE DEF inner, outer
  <2>2. Announces(writes'[c][outer], hooks'[c][outer])
    BY <1>1, <2>1, BothAnnounced
  <2>3. Announces(writes'[c][inner], hooks'[c][inner])
    BY <2>1, NothingAnnounced
  <2>4. Stay
    BY <1>1, <2>1, <2>2, <2>3
  <2>5. UNCHANGED <<clock, changed, running, mine>>
    BY <1>4 DEF Release
  <2>6. QED
    BY <2>4, <2>5 DEF PublicEffect
<1>5. ASSUME NEW c \in Conns, Rollback(c) \/ Commit(c)
      PROVE  Stay /\ PublicEffect
  <2> DEFINE inner == depth[c]
  <2>1. /\ inner \in Blocks
        /\ writes'[c][inner] = {} /\ hooks'[c][inner] = <<>>
        /\ \A d \in Blocks \ {inner} :
              writes'[c][d] = writes[c][d] /\ hooks'[c][d] = hooks[c][d]
        /\ \A b \in Conns \ {c} : writes'[b] = writes[b] /\ hooks'[b] = hooks[b]
    BY <1>1, <1>5, Left
  <2> HIDE DEF inner
  <2>2. Announces(writes'[c][inner], hooks'[c][inner])
    BY <2>1, NothingAnnounced
  <2>3. Stay
    BY <1>1, <2>1, <2>2
  <2>4. CASE Rollback(c)
    BY <2>3, <2>4 DEF Rollback, PublicEffect
  <2>5. CASE Commit(c)
    <3>1. 1 \in Blocks /\ running[c] = <<>> /\ UNCHANGED <<cache, reader>>
      BY <2>1, <2>5 DEF Commit, Free, inner
    <3>2. /\ running' = [running EXCEPT ![c] = hooks[c][1]]
          /\ \/ /\ mine' = [mine EXCEPT ![c] = writes[c][1]]
                /\ UNCHANGED <<clock, changed>>
             \/ Commits(c, writes[c][1])
      BY <2>5 DEF Commit
    <3>3. Publishes(c, writes[c][1], hooks[c][1])
      BY <1>1, <3>1, <3>2 DEF Publishes, Commits
    <3>4. QED
      BY <1>1, <2>3, <3>1, <3>3 DEF PublicEffect
  <2>6. QED
    BY <1>5, <2>4, <2>5
<1>6. ASSUME NEW c \in Conns, RunHook(c)
      PROVE  Stay /\ PublicEffect
  BY <1>1, <1>6 DEF RunHook, PublicEffect
<1>7. ASSUME NEW c \in Conns, NEW models \in SUBSET Models, NEW m \in Models, NEW receivers,
             Changes(c, models, m, receivers), Announces(models, Heard(m, receivers))
      PROVE  Stay /\ PublicEffect
  <2>1. Heard(m, receivers) \in Seq(Models)
    BY DEF Heard
  <2>2. CASE depth[c] = 0
    <3>1. /\ UNCHANGED <<writes, hooks, cache, reader>> /\ Commits(c, models) /\ running[c] = <<>>
          /\ IF receivers[m] > 0 THEN running' = [running EXCEPT ![c] = Append(running[c], m)]
                                 ELSE UNCHANGED running
      BY <1>7, <2>2 DEF Changes, Free, OnCommit
    <3>2. running' = [running EXCEPT ![c] = Heard(m, receivers)]
      <4>1. CASE receivers[m] > 0
        <5>1. Append(running[c], m) = <<m>>
          BY <3>1
        <5>2. QED
          BY <3>1, <4>1, <5>1 DEF Heard
      <4>2. CASE ~(receivers[m] > 0)
        BY <1>1, <3>1, <4>2 DEF Heard, SessionTypes
      <4>3. QED
        BY <4>1, <4>2
    <3>3. Publishes(c, models, Heard(m, receivers))
      BY <1>7, <3>1, <3>2 DEF Publishes, Commits
    <3>4. QED
      BY <1>1, <2>1, <3>1, <3>3 DEF PublicEffect
  <2>3. CASE depth[c] # 0
    <3> DEFINE inner == depth[c]
    <3>1. /\ UNCHANGED <<clock, changed, mine, running>> /\ inner \in Blocks
          /\ writes'[c][inner] = writes[c][inner] \cup models
          /\ hooks'[c][inner] = IF receivers[m] > 0 THEN Append(hooks[c][inner], m)
                                                    ELSE hooks[c][inner]
          /\ \A d \in Blocks \ {inner} :
                writes'[c][d] = writes[c][d] /\ hooks'[c][d] = hooks[c][d]
          /\ \A b \in Conns \ {c} : writes'[b] = writes[b] /\ hooks'[b] = hooks[b]
      BY <1>1, <1>7, <2>3, Written
    <3> HIDE DEF inner
    <3>2. hooks'[c][inner] = hooks[c][inner] \o Heard(m, receivers)
      <4> DEFINE old == hooks[c][inner]
      <4>1. old \in Seq(Models)
        BY <1>1, <3>1
      <4> HIDE DEF old
      <4>2. Append(old, m) = old \o <<m>> /\ old \o <<>> = old
        BY <4>1
      <4>3. QED
        BY <3>1, <4>2 DEF Heard, old
    <3>3. Announces(writes'[c][inner], hooks'[c][inner])
      <4>1. /\ hooks[c][inner] \in Seq(Models)
            /\ Announces(writes[c][inner], hooks[c][inner])
        BY <1>1, <3>1
      <4>2. Announces(writes[c][inner] \cup models, hooks[c][inner] \o Heard(m, receivers))
        BY <1>7, <2>1, <4>1, BothAnnounced
      <4>3. QED
        BY <3>1, <3>2, <4>2
    <3>4. Stay
      BY <1>1, <3>1, <3>3
    <3>5. QED
      BY <3>1, <3>4 DEF PublicEffect
  <2>4. QED
    BY <2>2, <2>3
<1>8. ASSUME NEW c \in Conns,
             \/ \E m \in Models : Save(c, m) \/ Delete(c, m)
             \/ \E l \in links : ChangeM2M(c, l)
      PROVE  Stay /\ PublicEffect
  BY <1>7, <1>8, WritersAnnounce
<1> HIDE DEF Stay
<1>9. Stay /\ PublicEffect
  BY <1>3, <1>4, <1>5, <1>6, <1>8 DEF Next, Session
<1>10. QED
  BY <1>9, AnnouncedStay DEF Stay

----------------------------------------------------------------------------
(* Silence and staleness.                                                  *)

\* What holds of the connected models, of the blocks, and of readers.
Surroundings == TypeOK /\ Apart /\ ConnectedInv /\ AllAnnounced

\* All this is invariant.
LEMMA SurroundingsHold == Spec => []Surroundings
<1>1. Init => Apart /\ ConnectedInv
  BY DEF Init, Apart, ConnectedInv, Connected
<1>2. Init => AllAnnounced
  BY NothingAnnounced DEF Init, AllAnnounced
<1>3. TypeOK /\ Apart /\ [Next]_vars => Apart'
  BY ApartStays
<1>4. TypeOK /\ ConnectedInv /\ AllAnnounced /\ [Next]_vars => AllAnnounced'
  BY PublicStep DEF ConnectedInv
<1>5. QED
  BY <1>1, <1>2, <1>3, <1>4, ConnectedStep, InvalidationTypes, PTL DEF Spec, Surroundings

\* "Rolled-back writes do not invalidate", for any nesting of atomic() blocks: the
\* models that a commit announces are among those it changes, because a released
\* block hands on its hooks with its writes and a rolled back one drops both.
THEOREM SilentRollbacks == Spec => []RollbackIsSilent
<1>1. Init => RollbackIsSilent
  BY DEF Init, RollbackIsSilent, Range
<1>2. Surroundings /\ RollbackIsSilent /\ [Next]_vars => RollbackIsSilent'
  <2>1. SUFFICES ASSUME Surroundings, RollbackIsSilent, [Next]_vars
                 PROVE  \A c \in Conns : Range(running'[c]) \subseteq mine'[c]
    BY DEF RollbackIsSilent
  <2>2. /\ PublicEffect
        /\ running \in [Conns -> Seq(Models)] /\ mine \in [Conns -> SUBSET Models]
    BY <2>1, PublicStep DEF Surroundings, ConnectedInv, TypeOK
  <2>3. CASE UNCHANGED <<clock, changed, running, mine>>
    BY <2>1, <2>3 DEF RollbackIsSilent
  <2>4. ASSUME NEW c \in Conns, NEW models \in SUBSET Models, NEW heard \in Seq(Models),
               Publishes(c, models, heard)
        PROVE  \A b \in Conns : Range(running'[b]) \subseteq mine'[b]
    <3>1. /\ running'[c] = heard /\ mine'[c] = models /\ Range(heard) \subseteq models
          /\ \A b \in Conns \ {c} : running'[b] = running[b] /\ mine'[b] = mine[b]
      BY <2>2, <2>4 DEF Publishes, Announces
    <3>2. QED
      BY <2>1, <3>1 DEF RollbackIsSilent
  <2>5. ASSUME NEW c \in Conns, RunHook(c)
        PROVE  \A b \in Conns : Range(running'[b]) \subseteq mine'[b]
    <3>1. /\ UNCHANGED mine /\ running[c] # <<>> /\ running'[c] = Tail(running[c])
          /\ \A b \in Conns \ {c} : running'[b] = running[b]
      BY <2>2, <2>5 DEF RunHook
    <3>2. running[c] \in Seq(Models)
      BY <2>2
    <3>3. Range(running'[c]) \subseteq Range(running[c])
      BY <3>1, <3>2, RangeTail
    <3>4. QED
      BY <2>1, <3>1, <3>3 DEF RollbackIsSilent
  <2>6. QED
    BY <2>2, <2>3, <2>4, <2>5 DEF PublicEffect
<1>3. QED
  BY <1>1, <1>2, SurroundingsHold, PTL DEF Spec

\* A result is not stale, or some thread has yet to run a hook that drops it.
Current(e) ==
    \A m \in Dependencies(e.q) : e.asof < changed[m] =>
        \E c \in Conns : Range(running[c]) \cap Dependencies(e.q) # {}

\* So are the stored results, and those that may still be stored.
AllCurrent ==
    /\ \A e \in stored : Current(e)
    /\ \A c \in Conns : row[c] # None /\ fence[c] = generation => Current(row[c])

\* A result stays so if no hook that concerns it runs.
LEMMA CurrentStays ==
    ASSUME TypeOK, PublicEffect, NEW e \in Result, Cacheable(e.q), Current(e),
           \A c \in Conns : RunHook(c) => Head(running[c]) \notin Dependencies(e.q),
           NEW m \in Dependencies(e.q), m \in Models, e.asof < changed'[m]
    PROVE  \E c \in Conns : Range(running'[c]) \cap Dependencies(e.q) # {}
<1> DEFINE D == Dependencies(e.q)
<1>1. running \in [Conns -> Seq(Models)] /\ e.q \in Queries /\ m \in D
  BY DEF TypeOK, Result
<1>2. e.asof < changed[m] => \E c \in Conns : Range(running[c]) \cap D # {}
  BY DEF Current
<1> HIDE DEF D
<1>3. CASE UNCHANGED <<clock, changed, running, mine>>
  BY <1>2, <1>3 DEF D
<1>4. ASSUME NEW c \in Conns, NEW models \in SUBSET Models, NEW heard \in Seq(Models),
             Publishes(c, models, heard)
      PROVE  \E b \in Conns : Range(running'[b]) \cap D # {}
  <2>1. /\ running[c] = <<>> /\ running'[c] = heard
        /\ \A b \in Conns \ {c} : running'[b] = running[b]
        /\ m \in models \/ changed'[m] = changed[m]
    BY <1>1, <1>4 DEF Publishes
  <2>2. CASE m \in models
    <3>1. Range(heard) \cap D # {}
      BY <1>1, <1>4, <2>2 DEF Publishes, Announces, D
    <3>2. QED
      BY <2>1, <3>1
  <2>3. CASE changed'[m] = changed[m]
    <3>1. PICK b \in Conns : Range(running[b]) \cap D # {}
      BY <1>2, <2>3
    <3>2. Range(running[c]) = {}
      BY <2>1 DEF Range
    <3>3. QED
      BY <2>1, <3>1, <3>2
  <2>4. QED
    BY <2>1, <2>2, <2>3
<1>5. ASSUME NEW c \in Conns, RunHook(c)
      PROVE  \E b \in Conns : Range(running'[b]) \cap D # {}
  <2>1. /\ UNCHANGED changed /\ running[c] # <<>> /\ running'[c] = Tail(running[c])
        /\ \A b \in Conns \ {c} : running'[b] = running[b]
        /\ running[c] \in Seq(Models)
    BY <1>1, <1>5 DEF RunHook
  <2>2. PICK b \in Conns : Range(running[b]) \cap D # {}
    BY <1>2, <2>1
  <2>3. PICK x \in Range(running[b]) : x \in D
    BY <2>2
  <2>4. Head(running[c]) \notin D
    BY <1>5 DEF D
  <2>5. b = c => x \in Range(Tail(running[c]))
    BY <2>1, <2>3, <2>4, RangeTail
  <2>6. QED
    BY <2>1, <2>3, <2>5
<1>6. QED
  BY <1>3, <1>4, <1>5 DEF PublicEffect, D

\* A step stores what was stored, or the rows of a reader whose fence still holds,
\* but nothing that a hook it runs is about.
StoredEffect(e) ==
    /\ \A c \in Conns : RunHook(c) => Head(running[c]) \notin Dependencies(e.q)
    /\ \/ e \in stored
       \/ \E c \in Conns : e = row[c] /\ row[c] # None /\ fence[c] = generation

\* Rows that may be stored after a step might have been before, or are new.
RowEffect(c) ==
    row'[c] # None /\ fence'[c] = generation' =>
        /\ \A b \in Conns : ~RunHook(b)
        /\ \/ row'[c] = row[c] /\ fence[c] = generation
           \/ row'[c].asof = clock /\ UNCHANGED <<clock, changed>>

\* A hook taken from the hooks to run leaves fewer of them.
LEMMA ShorterTail ==
    ASSUME NEW S, NEW s \in Seq(S), s # <<>>
    PROVE  Tail(s) # s
<1>1. Len(Tail(s)) = Len(s) - 1 /\ Len(s) \in Nat
  OBVIOUS
<1>2. ASSUME Tail(s) = s
      PROVE  FALSE
  <2>1. Len(Tail(s)) = Len(s)
    BY <1>2, Zenon
  <2>2. QED
    BY <1>1, <2>1
<1>3. QED
  BY <1>2

\* Every step treats results in these ways.
LEMMA ResultStep ==
    ASSUME TypeOK, Apart, [Next]_vars
    PROVE  (\A e \in stored' : StoredEffect(e)) /\ (\A c \in Conns : RowEffect(c))
<1> DEFINE Goal == (\A e \in stored' : StoredEffect(e)) /\ (\A c \in Conns : RowEffect(c))
<1>1. /\ generation \in Nat /\ fence \in [Conns -> Nat] /\ row \in [Conns -> Result \cup {None}]
      /\ \A c \in Conns : fence[c] <= generation
  BY DEF TypeOK, Apart
<1>2. \A c \in Conns : RunHook(c) => generation' # generation
  BY <1>1 DEF RunHook
<1>3. ASSUME UNCHANGED <<stored, generation, fence, row>>
      PROVE  Goal
  BY <1>2, <1>3 DEF StoredEffect, RowEffect
<1>4. ASSUME \/ \E m \in Models : Connect(m) \/ Explore(m)
             \/ Subscribe \/ UNCHANGED vars
             \/ \E c \in Conns :
                   \/ Begin(c) \/ Release(c) \/ Rollback(c) \/ Commit(c)
                   \/ \E m \in Models : Save(c, m) \/ Delete(c, m)
                   \/ \E l \in links : ChangeM2M(c, l)
      PROVE  Goal
  <2>1. UNCHANGED <<stored, generation, fence, row>>
    BY <1>4 DEF Connect, Explore, Subscribe, vars, Begin, Release, Rollback, Commit,
                Save, Delete, ChangeM2M, Changes, cache, reader
  <2>2. QED
    BY <1>3, <2>1
<1>5. ASSUME NEW c \in Conns, RunHook(c)
      PROVE  Goal
  <2>1. /\ UNCHANGED <<row, fence>> /\ generation' = generation + 1
        /\ running' = [running EXCEPT ![c] = Tail(@)] /\ running[c] # <<>>
        /\ stored' = {e \in stored : Head(running[c]) \notin Dependencies(e.q)}
    BY <1>5 DEF RunHook, reader
  <2>2. \A b \in Conns : fence'[b] # generation'
    BY <1>1, <2>1
  <2>3. \A b \in Conns : RunHook(b) => b = c
    <3>1. running \in [Conns -> Seq(Models)]
      BY DEF TypeOK
    <3>2. ASSUME NEW b \in Conns, RunHook(b), b # c
          PROVE  FALSE
      <4>1. running[c] = Tail(running[c])
        BY <2>1, <3>1, <3>2 DEF RunHook
      <4>2. QED
        BY <2>1, <3>1, <4>1, ShorterTail
    <3>3. QED
      BY <3>2
  <2>4. QED
    BY <2>1, <2>2, <2>3 DEF StoredEffect, RowEffect
<1>6. ASSUME NEW c \in Conns, NEW q \in Queries, BeginRead(c, q)
      PROVE  Goal
  <2>1. /\ UNCHANGED <<stored, generation>>
        /\ fence' = [fence EXCEPT ![c] = generation] /\ row' = [row EXCEPT ![c] = None]
    BY <1>6 DEF BeginRead, cache
  <2>2. QED
    BY <1>1, <1>2, <2>1 DEF StoredEffect, RowEffect
<1>7. ASSUME NEW c \in Conns, Sql(c)
      PROVE  Goal
  <2> DEFINE own == UNION Range(writes[c]) \cap Dependencies(query[c])
  <2>1. /\ UNCHANGED <<stored, generation, fence, clock, changed>>
        /\ row' = [row EXCEPT ![c] = [q |-> query[c], asof |-> clock, own |-> own]]
    BY <1>7 DEF Sql, cache
  <2> HIDE DEF own
  <2>2. row'[c].asof = clock /\ \A b \in Conns \ {c} : row'[b] = row[b]
    BY <1>1, <2>1
  <2>3. QED
    BY <1>2, <2>1, <2>2 DEF StoredEffect, RowEffect
<1>8. ASSUME NEW c \in Conns, Fill(c)
      PROVE  Goal
  <2>1. /\ UNCHANGED generation /\ row[c] # None /\ row' = [row EXCEPT ![c] = None]
        /\ fence' = [fence EXCEPT ![c] = 0]
        /\ \A e \in stored' : e \in stored \/ (e = row[c] /\ fence[c] = generation)
    BY <1>8 DEF Fill
  <2>2. QED
    BY <1>1, <1>2, <2>1 DEF StoredEffect, RowEffect
<1> HIDE DEF Goal
<1>9. Goal
  BY <1>4, <1>5, <1>6, <1>7, <1>8 DEF Next, Session, Read
<1>10. QED
  BY <1>9 DEF Goal

\* Every step leaves only current results behind.
LEMMA AllCurrentStay == ASSUME Surroundings, AllCurrent, [Next]_vars PROVE AllCurrent'
<1> DEFINE Then(e) == \A m \in Dependencies(e.q) : e.asof < changed'[m] =>
                          \E c \in Conns : Range(running'[c]) \cap Dependencies(e.q) # {}
<1>1. /\ TypeOK /\ Apart /\ PublicEffect
      /\ \A e \in stored' : StoredEffect(e)
      /\ \A c \in Conns : RowEffect(c)
      /\ \A q : Dependencies(q)' = Dependencies(q)
  BY PublicStep, ResultStep, DependenciesStay DEF Surroundings, ConnectedInv
<1>2. /\ stored \subseteq Result /\ row \in [Conns -> Result \cup {None}]
      /\ clock \in Nat /\ changed \in [Models -> 0..clock]
      /\ \A c \in Conns : row[c] # None => Cacheable(row[c].q)
      /\ \A e \in stored : Cacheable(e.q)
  BY <1>1 DEF TypeOK, Apart
<1>3. row' \in [Conns -> Result \cup {None}]
  BY <1>1, TypeParts, ReadersTyped DEF ReaderTypes
<1>4. ASSUME NEW q \in Queries
      PROVE  Dependencies(q) \subseteq Models
  <2>1. links \subseteq Links /\ q.root \in Models /\ q.path \in Seq(Models)
    BY <1>1, QueriesAssumption, ModelsAssumption DEF TypeOK
  <2>2. Range(q.path) \subseteq Models
    BY <2>1 DEF Range
  <2>3. ASSUME NEW m, NEW f \in Fields(m), f.through # None
        PROVE  f.through \in Models
    BY <2>1, <2>3, FieldDeclared, LinksAssumption
  <2>4. QED
    BY <2>1, <2>2, <2>3 DEF Dependencies, Between
<1>5. ASSUME NEW e \in Result, Cacheable(e.q), Current(e),
             \A c \in Conns : RunHook(c) => Head(running[c]) \notin Dependencies(e.q)
      PROVE  Then(e)
  <2>1. e.q \in Queries
    BY DEF Result
  <2>2. QED
    BY <1>1, <1>4, <1>5, <2>1, CurrentStays
<1>6. ASSUME NEW e \in stored'
      PROVE  Then(e)
  <2>1. e \in Result /\ Cacheable(e.q) /\ Current(e)
    BY <1>1, <1>2 DEF StoredEffect, AllCurrent
  <2>2. QED
    BY <1>1, <1>5, <2>1 DEF StoredEffect
<1>7. ASSUME NEW c \in Conns, row'[c] # None, fence'[c] = generation'
      PROVE  Then(row'[c])
  <2>1. CASE row'[c] = row[c] /\ fence[c] = generation
    <3>1. row[c] \in Result /\ Cacheable(row[c].q) /\ Current(row[c])
      BY <1>2, <1>7, <2>1 DEF AllCurrent
    <3>2. \A b \in Conns : ~RunHook(b)
      BY <1>1, <1>7 DEF RowEffect
    <3>3. QED
      BY <1>5, <2>1, <3>1, <3>2
  <2>2. CASE row'[c].asof = clock /\ UNCHANGED <<clock, changed>>
    <3>1. row'[c].q \in Queries
      BY <1>3, <1>7 DEF Result
    <3>2. ASSUME NEW m \in Dependencies(row'[c].q)
          PROVE  ~(row'[c].asof < changed'[m])
      <4>1. m \in Models
        BY <1>4, <3>1
      <4>2. changed[m] \in 0..clock
        BY <1>2, <4>1
      <4>3. QED
        BY <1>2, <2>2, <4>2
    <3>3. QED
      BY <3>2
  <2>3. QED
    BY <1>1, <1>7, <2>1, <2>2 DEF RowEffect
<1>8. QED
  BY <1>1, <1>6, <1>7 DEF AllCurrent, Current

\* Whatever models are related in whatever way, whatever writes are nested in
\* whatever transactions and whoever reads meanwhile: a stored result that a commit
\* has made stale is about to be dropped by a hook of that commit, and none such is
\* filled in after the hook has run.
THEOREM StaleOnlyForAMoment == Spec => []StaleOnlyWhileAnnounced
<1>1. Init => AllCurrent
  BY DEF Init, AllCurrent
<1>2. Surroundings /\ AllCurrent /\ [Next]_vars => AllCurrent'
  BY AllCurrentStay
<1>3. AllCurrent => StaleOnlyWhileAnnounced
  BY DEF AllCurrent, Current, StaleOnlyWhileAnnounced
<1>4. QED
  BY <1>1, <1>2, <1>3, SurroundingsHold, PTL DEF Spec

=============================================================================
