-------------------------- MODULE TaskEngineProofs --------------------------
(***************************************************************************)
(* The engine's safety, for any number of tasks, workers, retries, stop()  *)
(* calls and cancellations.                                                *)
(*                                                                         *)
(* EngineInv says where tasks are: a worker holds one exactly while it is  *)
(* suspended in a delay, in the function or in a backoff (Holding); no     *)
(* task is in two places (Apart); an accepted task is somewhere until it   *)
(* is finished or dropped (Whereabouts).  The count of the queue covers    *)
(* them all (Covered), so that a count of zero, for which stop() waits,    *)
(* means that nothing is left (Drained).                                   *)
(***************************************************************************)
EXTENDS TaskEngine, TLAPS, FiniteSetTheorems

Busy      == {"delay", "run", "backoff"}
Holders   == {w \in Slots : held[w] # None}
Queued(t) == \E i \in 1..Len(queue) : queue[i] = t
InHand(t) == \E w \in Slots : held[w] = t
Over(t)   == finished[t] \/ t \in dropped

Holding == \A w \in Slots : held[w] # None <=> at[w] \in Busy

Unstarted ==
    ~started => workers = {} /\ doomed = {} /\ \A w \in Slots : at[w] = "none"

Apart ==
    /\ \A i, j \in 1..Len(queue) : queue[i] = queue[j] => i = j
    /\ \A v, w \in Slots : held[v] # None /\ held[v] = held[w] => v = w
    /\ \A i \in 1..Len(queue), w \in Slots : queue[i] # held[w]

Whereabouts ==
    \A t \in Tasks :
        IF status[t] = "NEW" THEN ~Queued(t) /\ ~InHand(t) /\ ~Over(t)
        ELSE Over(t) <=> ~Queued(t) /\ ~InHand(t)

Covered == unfinished >= Len(queue) + Cardinality(Holders)

Drained ==
    \A c \in Stoppers :
        /\ \A t \in due[c] : status[t] # "NEW"
        /\ stop[c] \in {"woken", "gather", "stopped"} => \A t \in due[c] : Over(t)

EngineInv == TypeOK /\ Holding /\ Unstarted /\ Apart /\ Whereabouts /\ Covered /\ Drained

----------------------------------------------------------------------------
(* What the other steps rest on.                                           *)

\* The workers that hold a task can be counted.
LEMMA HoldersFinite == IsFiniteSet(Holders) /\ Cardinality(Holders) \in Nat
<1>1. Holders \subseteq Slots
  BY DEF Holders
<1>. QED
  BY <1>1, SlotsAssumption, FS_Subset, FS_CardinalityType

\* A worker that takes a task adds one to the holders.
LEMMA TakenUp ==
    ASSUME TypeOK, NEW w \in Slots, held[w] = None,
           NEW t \in Tasks, held' = [held EXCEPT ![w] = t]
    PROVE  Cardinality(Holders') = Cardinality(Holders) + 1
<1>1. Holders' = Holders \cup {w} /\ w \notin Holders
  BY NobodyAssumption DEF Holders, TypeOK
<1>. QED
  BY <1>1, HoldersFinite, FS_AddElement

\* One that lets go of its task is one less.
LEMMA PutDown ==
    ASSUME TypeOK, NEW w \in Slots, held[w] # None, held' = [held EXCEPT ![w] = None]
    PROVE  /\ Cardinality(Holders') = Cardinality(Holders) - 1
           /\ Cardinality(Holders) >= 1
<1>1. Holders' = Holders \ {w} /\ w \in Holders
  BY DEF Holders, TypeOK
<1>2. Cardinality(Holders') = Cardinality(Holders) - 1
  BY <1>1, HoldersFinite, FS_RemoveElement
<1>3. Cardinality(Holders') \in Nat
  BY <1>1, HoldersFinite, FS_RemoveElement, FS_CardinalityType
<1>. QED
  BY <1>2, <1>3, HoldersFinite

\* While a worker holds a task, the count is not zero.
LEMMA CountPositive ==
    ASSUME TypeOK, Covered, NEW w \in Slots, held[w] # None
    PROVE  unfinished >= 1
<1>1. w \in Holders
  BY DEF Holders
<1>2. Holders # {}
  BY <1>1
<1>3. Cardinality(Holders) # 0
  BY <1>2, HoldersFinite, FS_EmptySet
<1>4. Len(queue) \in Nat
  BY DEF TypeOK
<1>. QED
  BY <1>3, <1>4, HoldersFinite DEF Covered, TypeOK

\* A count of zero: every accepted task is finished or was dropped.
LEMMA NothingLeft ==
    ASSUME TypeOK, Covered, Whereabouts, unfinished = 0
    PROVE  \A t \in Tasks : status[t] # "NEW" => Over(t)
<1>1. Len(queue) \in Nat
  BY DEF TypeOK
<1>2. Len(queue) = 0 /\ Cardinality(Holders) = 0
  BY <1>1, HoldersFinite DEF Covered
<1>3. Holders = {}
  BY <1>2, HoldersFinite, FS_EmptySet
<1>4. ASSUME NEW t \in Tasks PROVE ~Queued(t) /\ ~InHand(t)
  <2>1. ~Queued(t)
    BY <1>2 DEF Queued
  <2>2. ~InHand(t)
    BY <1>3, NobodyAssumption DEF InHand, Holders
  <2>. QED
    BY <2>1, <2>2
<1>. QED
  BY <1>4 DEF Whereabouts

----------------------------------------------------------------------------
(* Types.                                                                  *)

\* A worker that is busy holds a task, and the count is not zero.
LEMMA BusyHolds ==
    ASSUME TypeOK, Holding, Covered, NEW w \in Slots, at[w] \in Busy
    PROVE  /\ held[w] \in Tasks /\ held[w] # None
           /\ unfinished >= 1 /\ unfinished - 1 \in Nat
<1>1. held[w] # None
  BY DEF Holding
<1>2. unfinished >= 1
  BY <1>1, CountPositive
<1>. QED
  BY <1>1, <1>2 DEF TypeOK

\* Waking the waiters of join() is a function of the same type.
LEMMA WokenType ==
    ASSUME TypeOK, NEW n
    PROVE  Woken(n) \in [Stoppers -> {"idle", "skipped", "join", "woken", "gather", "stopped"}]
BY DEF TypeOK, Woken

\* Every step keeps the variables in their types.
LEMMA TypesStay == ASSUME EngineInv, [Next]_vars PROVE TypeOK'
<1>. USE TasksAssumption DEF EngineInv, TypeOK, Suspended, Statuses, pool, results, caller, Moves, Rests
<1>1. CASE UNCHANGED vars
  BY <1>1 DEF vars
<1>2. CASE Start
  BY <1>2 DEF Start
<1>3. ASSUME NEW t \in Tasks, Submit(t)
      PROVE  TypeOK'
  BY <1>3 DEF Submit
<1>4. ASSUME NEW w \in Slots, Take(w)
      PROVE  TypeOK'
  <2>1. Head(queue) \in Tasks /\ Tail(queue) \in Seq(Tasks)
    BY <1>4 DEF Take
  <2>2. /\ status' \in [Tasks -> Statuses \cup {"NEW"}]
        /\ ran' \in [Tasks -> Nat] /\ at' \in [Slots -> Suspended]
    <3>1. CASE Moves(w, "delay") /\ UNCHANGED <<status, ran>>
      BY <3>1
    <3>2. CASE Begins(w, Head(queue))
      BY <2>1, <3>2 DEF Begins
    <3>. QED
      BY <1>4, <3>1, <3>2 DEF Take
  <2>. QED
    BY <1>4, <2>1, <2>2 DEF Take
<1>5. ASSUME NEW w \in Slots, EndDelay(w)
      PROVE  TypeOK'
  <2>1. held[w] \in Tasks
    BY <1>5, BusyHolds DEF EndDelay, Busy
  <2>2. /\ status' \in [Tasks -> Statuses \cup {"NEW"}]
        /\ ran' \in [Tasks -> Nat] /\ at' \in [Slots -> Suspended]
    BY <1>5, <2>1 DEF EndDelay, Begins
  <2>. QED
    BY <1>5, <2>2 DEF EndDelay
<1>6. ASSUME NEW w \in Slots, NEW verdict \in {"SUCCESS", "FAILED"}, Ends(w, verdict)
      PROVE  TypeOK'
  <2>1. at[w] \in Busy
    BY <1>6 DEF Ends, Busy
  <2>2. unfinished - 1 \in Nat /\ held[w] \in Tasks
    BY <2>1, BusyHolds
  <2>. QED
    BY <1>6, <2>2, WokenType DEF Ends, TaskDone
<1>7. ASSUME NEW w \in Slots, Backoff(w)
      PROVE  TypeOK'
  <2>1. held[w] \in Tasks
    BY <1>7, BusyHolds DEF Backoff, Busy
  <2>2. /\ attempts' \in [Tasks -> Nat] /\ counted' \in [Tasks -> Nat]
        /\ status' \in [Tasks -> Statuses \cup {"NEW"}] /\ at' \in [Slots -> Suspended]
    BY <1>7, <2>1 DEF Backoff
  <2>. QED
    BY <1>7, <2>2 DEF Backoff
<1>8. ASSUME NEW w \in Slots, Requeue(w)
      PROVE  TypeOK'
  <2>1. at[w] \in Busy
    BY <1>8 DEF Requeue, Busy
  <2>2. held[w] \in Tasks
    BY <2>1, BusyHolds
  <2>3. queue' \in Seq(Tasks)
    BY <1>8, <2>2 DEF Requeue, Again
  <2>4. unfinished' = unfinished /\ stop' = Woken(unfinished)
    BY <1>8 DEF Requeue, PutFirst
  <2>. QED
    BY <1>8, <2>3, <2>4, WokenType DEF Requeue
<1>9. ASSUME NEW w \in Slots, Cancelled(w)
      PROVE  TypeOK'
  <2>1. unfinished' \in Nat
    <3>1. CASE at[w] \in InTry
      BY <1>9, <3>1, BusyHolds DEF Cancelled, TaskDone, InTry, Busy
    <3>2. CASE at[w] \notin InTry
      BY <1>9, <3>2 DEF Cancelled
    <3>. QED
      BY <3>1, <3>2
  <2>2. stop' \in [Stoppers -> {"idle", "skipped", "join", "woken", "gather", "stopped"}]
    BY <1>9, WokenType DEF Cancelled, TaskDone
  <2>3. dropped' \subseteq Tasks
    BY <1>9, BusyHolds DEF Cancelled, Busy
  <2>. QED
    BY <1>9, <2>1, <2>2, <2>3 DEF Cancelled
<1>10. ASSUME NEW w \in Slots, Cancel(w)
       PROVE  TypeOK'
  BY <1>10 DEF Cancel
<1>11. ASSUME NEW c \in Stoppers, Stop(c) \/ Joined(c) \/ Gathered(c)
       PROVE  TypeOK'
  <2>1. CASE Stop(c)
    <3>1. /\ stop' \in [Stoppers -> {"idle", "skipped", "join", "woken", "gather", "stopped"}]
          /\ leaving' \in [Stoppers -> SUBSET Slots] /\ due' \in [Stoppers -> SUBSET Tasks]
          /\ doomed' \subseteq Slots /\ workers' \subseteq Slots
      BY <2>1 DEF Stop, Dismisses, Accepted
    <3>. QED
      BY <2>1, <3>1 DEF Stop
  <2>2. CASE Joined(c)
    BY <2>2 DEF Joined, Dismisses
  <2>3. CASE Gathered(c)
    BY <2>3 DEF Gathered
  <2>. QED
    BY <1>11, <2>1, <2>2, <2>3
<1>. QED
  BY <1>1, <1>2, <1>3, <1>4, <1>5, <1>6, <1>7, <1>8, <1>9, <1>10, <1>11
     DEF Next, Turn, Return, Succeeds, Fails, TaskCancelled, Dies

----------------------------------------------------------------------------
(* Where tasks are.                                                        *)

\* Workers hold a task exactly while they are busy with it.
LEMMA HoldingStays == ASSUME EngineInv, [Next]_vars PROVE Holding' /\ Unstarted'
<1>. USE NobodyAssumption DEF EngineInv, TypeOK, Holding, Unstarted, Busy, pool, results, caller, Moves, Rests
<1>1. CASE UNCHANGED vars
  BY <1>1 DEF vars
<1>2. CASE Start
  BY <1>2 DEF Start
<1>3. ASSUME NEW t \in Tasks, Submit(t)
      PROVE  Holding' /\ Unstarted'
  BY <1>3 DEF Submit
<1>4. ASSUME NEW w \in Slots, Take(w)
      PROVE  Holding' /\ Unstarted'
  <2>1. Head(queue) \in Tasks
    BY <1>4 DEF Take
  <2>. QED
    BY <1>4, <2>1 DEF Take, Begins
<1>5. ASSUME NEW w \in Slots, EndDelay(w) \/ Backoff(w) \/ Cancel(w)
      PROVE  Holding' /\ Unstarted'
  <2>1. CASE EndDelay(w) \/ Backoff(w)
    <3>1. /\ started' = started /\ workers' = workers /\ doomed' = doomed /\ held' = held
          /\ at[w] \in Busy
          /\ at' = [at EXCEPT ![w] = "run"] \/ at' = [at EXCEPT ![w] = "backoff"]
      BY <2>1 DEF EndDelay, Begins, Backoff
    <3>. QED
      BY <3>1
  <2>2. CASE Cancel(w)
    <3>1. /\ UNCHANGED <<started, workers, at, held>>
          /\ at[w] # "none" /\ doomed' = doomed \cup {w}
      BY <2>2 DEF Cancel
    <3>. QED
      BY <3>1
  <2>. QED
    BY <1>5, <2>1, <2>2
<1>6. ASSUME NEW w \in Slots, Requeue(w) \/ Succeeds(w) \/ Fails(w)
      PROVE  Holding' /\ Unstarted'
  <2>1. /\ started' = started /\ workers' = workers /\ doomed' = doomed
        /\ at' = [at EXCEPT ![w] = "get"] /\ held' = [held EXCEPT ![w] = None]
        /\ at[w] \in {"run", "backoff"}
    BY <1>6 DEF Requeue, Succeeds, Fails, Ends
  <2>. QED
    BY <2>1
<1>7. ASSUME NEW w \in Slots, TaskCancelled(w) \/ Dies(w)
      PROVE  Holding' /\ Unstarted'
  <2>1. /\ started' = started /\ workers' = workers /\ doomed' = doomed \ {w}
        /\ at' = [at EXCEPT ![w] = "dead"] /\ held' = [held EXCEPT ![w] = None]
    BY <1>7 DEF Cancelled, TaskCancelled, Dies
  <2>2. w \in doomed \/ at[w] = "run"
    BY <1>7 DEF TaskCancelled, Dies
  <2>. QED
    BY <2>1, <2>2
<1>8. ASSUME NEW c \in Stoppers, Stop(c)
      PROVE  Holding' /\ Unstarted'
  BY <1>8 DEF Stop, Dismisses
<1>9. ASSUME NEW c \in Stoppers, Gathered(c)
      PROVE  Holding' /\ Unstarted'
  BY <1>9 DEF Gathered
<1>10. ASSUME NEW c \in Stoppers, Joined(c)
      PROVE  Holding' /\ Unstarted'
  BY <1>10 DEF Joined, Dismisses
<1>. QED
  BY <1>1, <1>2, <1>3, <1>4, <1>5, <1>6, <1>7, <1>8, <1>9, <1>10
     DEF Next, Turn, Return

----------------------------------------------------------------------------
(* What a step does to the places of tasks, to the count and to stop().    *)

SameAccepted == \A t \in Tasks : status'[t] = "NEW" <=> status[t] = "NEW"
SameOver     == \A t \in Tasks : Over(t)' <=> Over(t)
Calm         == UNCHANGED <<unfinished, stop, due>>

Accepts(t) ==
    /\ status[t] = "NEW"
    /\ \A u \in Tasks : status'[u] = "NEW" <=> status[u] = "NEW" /\ u # t
    /\ queue' = Append(queue, t) /\ held' = held /\ SameOver
    /\ unfinished' = unfinished + 1 /\ UNCHANGED <<stop, due>>

Takes(w) ==
    /\ held[w] = None /\ queue # <<>>
    /\ queue' = Tail(queue) /\ held' = [held EXCEPT ![w] = Head(queue)]
    /\ SameAccepted /\ SameOver /\ Calm

GivesBack(w) ==
    /\ held[w] # None
    /\ queue' = Append(queue, held[w]) /\ held' = [held EXCEPT ![w] = None]
    /\ SameAccepted /\ SameOver
    /\ unfinished' = unfinished /\ stop' = Woken(unfinished) /\ due' = due

Settles(w) ==
    /\ held[w] # None
    /\ queue' = queue /\ held' = [held EXCEPT ![w] = None]
    /\ SameAccepted
    /\ \A t \in Tasks : Over(t)' <=> Over(t) \/ t = held[w]
    /\ \/ unfinished' = unfinished - 1 /\ stop' = Woken(unfinished - 1)
       \/ unfinished' = unfinished /\ stop' = stop
    /\ due' = due

\* A stop() call is entered, goes on or returns.
Advances(c) ==
    \/ /\ stop[c] = "idle" /\ due' = [due EXCEPT ![c] = Accepted]
       /\ \/ stop' = [stop EXCEPT ![c] = "skipped"]
          \/ stop' = [stop EXCEPT ![c] = "join"]
          \/ unfinished = 0 /\ stop' = [stop EXCEPT ![c] = "gather"]
    \/ /\ stop[c] \in {"woken", "gather"} /\ due' = due
       /\ stop' \in {[stop EXCEPT ![c] = "gather"], [stop EXCEPT ![c] = "stopped"]}

Moved == \E w \in Slots : Takes(w) \/ GivesBack(w) \/ Settles(w)

Unmoved ==
    /\ UNCHANGED <<queue, held, unfinished>> /\ SameAccepted /\ SameOver
    /\ UNCHANGED <<stop, due>> \/ \E c \in Stoppers : Advances(c)

Effect == (\E t \in Tasks : Accepts(t)) \/ Moved \/ Unmoved

\* The tasks in the hands of workers have been accepted and are not over.
LEMMA HeldAccepted ==
    ASSUME TypeOK, Whereabouts, NEW w \in Slots, held[w] # None
    PROVE  held[w] \in Tasks /\ status[held[w]] # "NEW" /\ ~Over(held[w])
<1>1. held[w] \in Tasks
  BY DEF TypeOK
<1>2. InHand(held[w])
  BY DEF InHand
<1>. QED
  BY <1>1, <1>2 DEF Whereabouts

\* What is next in the queue was submitted.
LEMMA QueuedAccepted ==
    ASSUME TypeOK, Whereabouts, queue # <<>>
    PROVE  Head(queue) \in Tasks /\ status[Head(queue)] # "NEW"
<1>1. Head(queue) \in Tasks /\ Len(queue) >= 1 /\ queue[1] = Head(queue)
  BY DEF TypeOK
<1>2. Queued(Head(queue))
  BY <1>1 DEF Queued
<1>. QED
  BY <1>1, <1>2 DEF Whereabouts

\* Each step of the engine has one of these effects.
LEMMA StepEffect == ASSUME EngineInv, [Next]_vars PROVE Effect
<1>. USE DEF EngineInv, TypeOK, results, pool, caller
<1>1. CASE UNCHANGED vars
  BY <1>1 DEF vars, Effect, Unmoved, SameAccepted, SameOver, Over
<1>2. CASE Start
  BY <1>2 DEF Start, Effect, Unmoved, SameAccepted, SameOver, Over
<1>3. ASSUME NEW t \in Tasks, Submit(t)
      PROVE  Effect
  BY <1>3 DEF Submit, Effect, Accepts, SameOver, Over
<1>4. ASSUME NEW w \in Slots, Take(w)
      PROVE  Effect
  <2>1. Head(queue) \in Tasks /\ status[Head(queue)] # "NEW"
    BY <1>4, QueuedAccepted DEF Take
  <2>2. held[w] = None
    BY <1>4 DEF Take, Holding, Busy
  <2>3. SameAccepted
    BY <1>4, <2>1 DEF Take, Begins, SameAccepted
  <2>4. SameOver /\ Calm
    BY <1>4 DEF Take, SameOver, Over, Calm
  <2>5. Takes(w)
    BY <1>4, <2>2, <2>3, <2>4 DEF Take, Takes
  <2>. QED
    BY <2>5 DEF Effect, Moved
<1>5. ASSUME NEW w \in Slots, EndDelay(w) \/ Backoff(w)
      PROVE  Effect
  <2>1. held[w] \in Tasks /\ status[held[w]] # "NEW"
    BY <1>5, BusyHolds, HeldAccepted DEF EndDelay, Backoff, Busy
  <2>2. SameAccepted
    BY <1>5, <2>1 DEF EndDelay, Begins, Backoff, SameAccepted
  <2>3. SameOver /\ UNCHANGED <<queue, held, unfinished, stop, due>>
    BY <1>5 DEF EndDelay, Backoff, SameOver, Over
  <2>. QED
    BY <2>2, <2>3 DEF Effect, Unmoved
<1>6. ASSUME NEW w \in Slots, Succeeds(w) \/ Fails(w)
      PROVE  Effect
  <2>1. held[w] \in Tasks /\ held[w] # None /\ status[held[w]] # "NEW"
    BY <1>6, BusyHolds, HeldAccepted DEF Succeeds, Fails, Ends, Busy
  <2>2. SameAccepted
    BY <1>6, <2>1 DEF Succeeds, Fails, Ends, SameAccepted
  <2>3. \A t \in Tasks : Over(t)' <=> Over(t) \/ t = held[w]
    BY <1>6, <2>1 DEF Succeeds, Fails, Ends, Over
  <2>4. Settles(w)
    BY <1>6, <2>1, <2>2, <2>3 DEF Succeeds, Fails, Ends, Rests, TaskDone, Settles
  <2>. QED
    BY <2>4 DEF Effect, Moved
<1>7. ASSUME NEW w \in Slots, Requeue(w)
      PROVE  Effect
  <2>1. held[w] # None
    BY <1>7, BusyHolds DEF Requeue, Busy
  <2>2. GivesBack(w)
    BY <1>7, <2>1 DEF Requeue, Again, Rests, PutFirst, GivesBack, SameAccepted, SameOver, Over
  <2>. QED
    BY <2>2 DEF Effect, Moved
<1>8. ASSUME NEW w \in Slots, Cancelled(w)
      PROVE  Effect
  <2>1. SameAccepted
    BY <1>8 DEF Cancelled, SameAccepted
  <2>2. CASE at[w] \in Busy
    <3>1. held[w] \in Tasks /\ held[w] # None
      BY <2>2, BusyHolds
    <3>2. \A t \in Tasks : Over(t)' <=> Over(t) \/ t = held[w]
      BY <1>8, <2>2, <3>1 DEF Cancelled, Over, Busy
    <3>3. Settles(w)
      BY <1>8, <2>1, <3>1, <3>2 DEF Cancelled, TaskDone, Settles
    <3>. QED
      BY <3>3 DEF Effect, Moved
  <2>3. CASE at[w] \notin Busy
    <3>1. held' = held
      BY <1>8, <2>3 DEF Cancelled, Holding
    <3>2. SameOver /\ UNCHANGED <<queue, unfinished, stop, due>>
      BY <1>8, <2>3 DEF Cancelled, Busy, InTry, SameOver, Over
    <3>. QED
      BY <2>1, <3>1, <3>2 DEF Effect, Unmoved
  <2>. QED
    BY <2>2, <2>3
<1>9. ASSUME NEW w \in Slots, Cancel(w)
      PROVE  Effect
  BY <1>9 DEF Cancel, Effect, Unmoved, SameAccepted, SameOver, Over
<1>10. ASSUME NEW c \in Stoppers, Stop(c) \/ Joined(c) \/ Gathered(c)
       PROVE  Effect
  <2>1. SameAccepted /\ SameOver /\ UNCHANGED <<queue, held, unfinished>>
    BY <1>10 DEF Stop, Joined, Gathered, SameAccepted, SameOver, Over
  <2>2. Advances(c)
    BY <1>10 DEF Stop, Joined, Gathered, Dismisses, Advances
  <2>. QED
    BY <2>1, <2>2 DEF Effect, Unmoved
<1>. QED
  BY <1>1, <1>2, <1>3, <1>4, <1>5, <1>6, <1>7, <1>8, <1>9, <1>10
     DEF Next, Turn, Return, TaskCancelled, Dies

----------------------------------------------------------------------------
(* What the effects mean for the places.                                   *)

\* put_nowait() and get(), as facts about the queue's places.
LEMMA Put ==
    ASSUME TypeOK, NEW t \in Tasks, queue' = Append(queue, t)
    PROVE  /\ Len(queue) \in Nat /\ Len(queue') = Len(queue) + 1
           /\ \A i \in 1..Len(queue) : queue'[i] = queue[i]
           /\ queue'[Len(queue) + 1] = t
BY DEF TypeOK

\* And where they are when one has left it at its head.
LEMMA Got ==
    ASSUME TypeOK, queue # <<>>, queue' = Tail(queue)
    PROVE  /\ Len(queue) \in Nat /\ Len(queue) >= 1 /\ Len(queue') = Len(queue) - 1
           /\ \A i \in 1..Len(queue') : queue'[i] = queue[i + 1]
           /\ Head(queue) = queue[1] /\ Head(queue) \in Tasks
BY DEF TypeOK

\* No step puts a task in two places, or loses one.
LEMMA ApartStays == ASSUME EngineInv, TypeOK', Effect PROVE Apart' /\ Whereabouts'
<1>. USE DEF EngineInv
<1>1. ASSUME NEW t \in Tasks, Accepts(t)
      PROVE  Apart' /\ Whereabouts'
  <2>1. queue' = Append(queue, t) /\ held' = held
    BY <1>1 DEF Accepts
  <2>2. ~Queued(t) /\ ~InHand(t) /\ ~Over(t)
    BY <1>1 DEF Accepts, Whereabouts
  <2>3. Apart'
    BY <2>1, <2>2, Put DEF Apart, Queued, InHand
  <2>4. ASSUME NEW u \in Tasks
        PROVE  /\ Queued(u)' <=> Queued(u) \/ u = t
               /\ InHand(u)' <=> InHand(u)
    BY <2>1, Put DEF Queued, InHand
  <2>5. Whereabouts'
    BY <1>1, <2>2, <2>4 DEF Accepts, SameOver, Whereabouts
  <2>. QED
    BY <2>3, <2>5
<1>2. ASSUME NEW w \in Slots, Takes(w)
      PROVE  Apart' /\ Whereabouts'
  <2>1. /\ queue # <<>> /\ queue' = Tail(queue) /\ held[w] = None
        /\ held' = [held EXCEPT ![w] = Head(queue)]
    BY <1>2 DEF Takes
  <2>2. /\ Len(queue) \in Nat /\ Len(queue) >= 1 /\ Len(queue') = Len(queue) - 1
        /\ \A i \in 1..Len(queue') : queue'[i] = queue[i + 1]
        /\ Head(queue) = queue[1] /\ Head(queue) \in Tasks
    BY <2>1, Got
  <2>3. \A v \in Slots : held'[v] = IF v = w THEN queue[1] ELSE held[v]
    BY <2>1, <2>2 DEF TypeOK
  <2>4. Apart'
    <3>1. \A i \in 1..Len(queue') : i + 1 \in 1..Len(queue) /\ queue'[i] = queue[i + 1] /\ i + 1 # 1 /\ i \in Nat
      BY <2>2
    <3>2. 1 \in 1..Len(queue)
      BY <2>2
    <3>3. \A i, j \in 1..Len(queue') : queue'[i] = queue'[j] => i = j
      <4>1. \A i, j \in 1..Len(queue') : queue'[i] = queue'[j] => i + 1 = j + 1
        BY <3>1 DEF Apart
      <4>. QED
        BY <3>1, <4>1
    <3>4. \A v, u \in Slots : held'[v] # None /\ held'[v] = held'[u] => v = u
      BY <2>3, <3>2 DEF Apart
    <3>5. ASSUME NEW i \in 1..Len(queue'), NEW v \in Slots
          PROVE  queue'[i] # held'[v]
      <4>1. queue[i + 1] # queue[1] /\ queue[i + 1] # held[v]
        BY <3>1, <3>2 DEF Apart
      <4>. QED
        BY <2>3, <3>1, <4>1
    <3>. QED
      BY <3>3, <3>4, <3>5 DEF Apart
  <2>5. ASSUME NEW u \in Tasks
        PROVE  Queued(u)' \/ InHand(u)' <=> Queued(u) \/ InHand(u)
    <3>1. Queued(u)' => Queued(u)
      BY <2>2 DEF Queued
    <3>2. Queued(u) => Queued(u)' \/ u = queue[1]
      <4>1. ASSUME NEW i \in 1..Len(queue), queue[i] = u, i # 1
            PROVE  Queued(u)'
        <5>1. i - 1 \in 1..Len(queue') /\ queue'[i - 1] = queue[i]
          BY <2>2, <4>1
        <5>. QED
          BY <4>1, <5>1 DEF Queued
      <4>. QED
        BY <4>1 DEF Queued
    <3>3. Queued(queue[1])
      BY <2>2 DEF Queued
    <3>4. InHand(u)' <=> InHand(u) \/ u = queue[1]
      BY <2>1, <2>3, NobodyAssumption DEF InHand
    <3>. QED
      BY <3>1, <3>2, <3>3, <3>4
  <2>6. Whereabouts'
    BY <1>2, <2>5 DEF Takes, SameAccepted, SameOver, Whereabouts
  <2>. QED
    BY <2>4, <2>6
<1>3. ASSUME NEW w \in Slots, GivesBack(w)
      PROVE  Apart' /\ Whereabouts'
  <2>1. /\ held[w] # None /\ held' = [held EXCEPT ![w] = None]
        /\ queue' = Append(queue, held[w])
    BY <1>3 DEF GivesBack
  <2>2. held[w] \in Tasks
    BY <2>1, HeldAccepted
  <2>3. \A v \in Slots : held'[v] = IF v = w THEN None ELSE held[v]
    BY <2>1 DEF TypeOK
  <2>4. /\ Len(queue) \in Nat /\ Len(queue') = Len(queue) + 1
        /\ \A i \in 1..Len(queue) : queue'[i] = queue[i] /\ queue[i] \in Tasks
        /\ queue'[Len(queue) + 1] = held[w]
    BY <2>1, <2>2, Put DEF TypeOK
  <2>5. Apart'
    BY <2>1, <2>2, <2>3, <2>4, NobodyAssumption DEF Apart
  <2>6. ASSUME NEW u \in Tasks
        PROVE  Queued(u)' \/ InHand(u)' <=> Queued(u) \/ InHand(u)
    <3>1. Queued(u)' <=> Queued(u) \/ u = held[w]
      BY <2>4 DEF Queued
    <3>2. InHand(u)' \/ u = held[w] <=> InHand(u)
      BY <2>3, NobodyAssumption DEF InHand
    <3>. QED
      BY <3>1, <3>2
  <2>7. Whereabouts'
    BY <1>3, <2>6 DEF GivesBack, SameAccepted, SameOver, Whereabouts
  <2>. QED
    BY <2>5, <2>7
<1>4. ASSUME NEW w \in Slots, Settles(w)
      PROVE  Apart' /\ Whereabouts'
  <2>1. held[w] # None /\ held' = [held EXCEPT ![w] = None] /\ queue' = queue
    BY <1>4 DEF Settles
  <2>2. held[w] \in Tasks /\ status[held[w]] # "NEW"
    BY <2>1, HeldAccepted
  <2>3. \A v \in Slots : held'[v] = IF v = w THEN None ELSE held[v]
    BY <2>1 DEF TypeOK
  <2>4. Len(queue) \in Nat /\ \A i \in 1..Len(queue) : queue[i] \in Tasks
    BY DEF TypeOK
  <2>5. Apart'
    BY <2>1, <2>3, <2>4, NobodyAssumption DEF Apart
  <2>6. ASSUME NEW u \in Tasks
        PROVE  /\ Queued(u)' <=> Queued(u)
               /\ InHand(u)' <=> InHand(u) /\ u # held[w]
               /\ u = held[w] => ~Queued(u)
    BY <2>1, <2>3, NobodyAssumption DEF Queued, InHand, Apart
  <2>7. Whereabouts'
    BY <1>4, <2>2, <2>6 DEF Settles, SameAccepted, Whereabouts
  <2>. QED
    BY <2>5, <2>7
<1>5. CASE Unmoved
  <2>1. queue' = queue /\ held' = held /\ SameAccepted /\ SameOver
    BY <1>5 DEF Unmoved
  <2>. QED
    BY <2>1 DEF Apart, Whereabouts, Queued, InHand, SameAccepted, SameOver
<1>. QED
  BY <1>1, <1>2, <1>3, <1>4, <1>5 DEF Effect, Moved

\* The count never falls below the number of tasks that are somewhere.
LEMMA CoveredStays == ASSUME EngineInv, TypeOK', Effect PROVE Covered'
<1>. USE DEF EngineInv
<1>0. /\ unfinished \in Nat /\ Len(queue) \in Nat /\ Cardinality(Holders) \in Nat
      /\ unfinished >= Len(queue) + Cardinality(Holders)
  BY HoldersFinite DEF TypeOK, Covered
<1>1. ASSUME NEW t \in Tasks, Accepts(t)
      PROVE  Covered'
  <2>1. Len(queue') = Len(queue) + 1 /\ unfinished' = unfinished + 1
    BY <1>1, Put DEF Accepts
  <2>2. Holders' = Holders
    BY <1>1 DEF Accepts, Holders
  <2>. QED
    BY <1>0, <2>1, <2>2 DEF Covered
<1>2. ASSUME NEW w \in Slots, Takes(w)
      PROVE  Covered'
  <2>1. Len(queue') = Len(queue) - 1 /\ Head(queue) \in Tasks /\ unfinished' = unfinished
    BY <1>2, Got DEF Takes, Calm
  <2>2. Cardinality(Holders') = Cardinality(Holders) + 1
    BY <1>2, <2>1, TakenUp DEF Takes
  <2>. QED
    BY <1>0, <2>1, <2>2 DEF Covered
<1>3. ASSUME NEW w \in Slots, GivesBack(w)
      PROVE  Covered'
  <2>1. held[w] \in Tasks
    BY <1>3, HeldAccepted DEF GivesBack
  <2>2. Len(queue') = Len(queue) + 1 /\ unfinished' = unfinished
    BY <1>3, <2>1, Put DEF GivesBack
  <2>3. Cardinality(Holders') = Cardinality(Holders) - 1
    BY <1>3, PutDown DEF GivesBack
  <2>. QED
    BY <1>0, <2>2, <2>3 DEF Covered
<1>4. ASSUME NEW w \in Slots, Settles(w)
      PROVE  Covered'
  <2>1. queue' = queue /\ unfinished' >= unfinished - 1
    BY <1>0, <1>4 DEF Settles
  <2>2. Cardinality(Holders') = Cardinality(Holders) - 1
    BY <1>4, PutDown DEF Settles
  <2>3. unfinished' \in Nat
    BY DEF TypeOK
  <2>. QED
    BY <1>0, <2>1, <2>2, <2>3 DEF Covered
<1>5. CASE Unmoved
  <2>1. queue' = queue /\ held' = held /\ unfinished' = unfinished
    BY <1>5 DEF Unmoved
  <2>2. Holders' = Holders
    BY <2>1 DEF Holders
  <2>. QED
    BY <1>0, <2>1, <2>2 DEF Covered
<1>. QED
  BY <1>1, <1>2, <1>3, <1>4, <1>5 DEF Effect, Moved

----------------------------------------------------------------------------
(* stop() and the main results.                                            *)

\* NothingLeft, after a step.
LEMMA NothingLeftThen ==
    ASSUME TypeOK', Covered', Whereabouts', unfinished' = 0
    PROVE  \A t \in Tasks : status'[t] # "NEW" => Over(t)'
<1>1. IsFiniteSet(Holders') /\ Cardinality(Holders') \in Nat
  <2>1. Holders' \subseteq Slots
    BY DEF Holders
  <2>. QED
    BY <2>1, SlotsAssumption, FS_Subset, FS_CardinalityType
<1>2. Len(queue') \in Nat
  BY DEF TypeOK
<1>3. Len(queue') = 0 /\ Cardinality(Holders') = 0
  BY <1>1, <1>2 DEF Covered
<1>4. Holders' = {}
  BY <1>1, <1>3, FS_EmptySet
<1>5. ASSUME NEW t \in Tasks PROVE ~Queued(t)' /\ ~InHand(t)'
  <2>1. ~Queued(t)'
    BY <1>3 DEF Queued
  <2>2. ~InHand(t)'
    BY <1>4, NobodyAssumption DEF InHand, Holders
  <2>. QED
    BY <2>1, <2>2
<1>. QED
  BY <1>5 DEF Whereabouts

\* stop() goes on only when what it waits for is over.
LEMMA DrainedStays ==
    ASSUME EngineInv, TypeOK', Covered', Whereabouts', Effect
    PROVE  Drained'
<1>. USE DEF EngineInv
<1>0. \A c \in Stoppers : due[c] \subseteq Tasks
  BY DEF TypeOK
<1>1. ASSUME NEW t \in Tasks, Accepts(t)
      PROVE  Drained'
  BY <1>0, <1>1 DEF Accepts, SameOver, Drained
<1>2. ASSUME NEW w \in Slots, Takes(w)
      PROVE  Drained'
  BY <1>0, <1>2 DEF Takes, Calm, SameAccepted, SameOver, Drained
<1>3. ASSUME NEW w \in Slots, GivesBack(w) \/ Settles(w)
      PROVE  Drained'
  <2>1. due' = due /\ \A t \in Tasks : /\ status'[t] = "NEW" <=> status[t] = "NEW"
                                       /\ Over(t) => Over(t)'
    BY <1>3 DEF GivesBack, Settles, SameAccepted, SameOver
  <2>2. stop' = stop \/ stop' = Woken(unfinished')
    BY <1>3 DEF GivesBack, Settles
  <2>3. ASSUME NEW c \in Stoppers, stop'[c] # stop[c]
        PROVE  \A t \in due[c] : Over(t)'
    <3>1. stop'[c] = Woken(unfinished')[c]
      BY <2>2, <2>3
    <3>2. Woken(unfinished')[c] = IF unfinished' = 0 /\ stop[c] = "join" THEN "woken" ELSE stop[c]
      BY DEF Woken
    <3>3. unfinished' = 0
      BY <2>3, <3>1, <3>2
    <3>4. \A t \in Tasks : status'[t] # "NEW" => Over(t)'
      BY <3>3, NothingLeftThen
    <3>. QED
      BY <1>0, <2>1, <3>4 DEF Drained
  <2>. QED
    BY <1>0, <2>1, <2>3 DEF Drained
<1>4. CASE Unmoved
  <2>1. \A t \in Tasks : /\ status'[t] = "NEW" <=> status[t] = "NEW"
                         /\ Over(t)' <=> Over(t)
    BY <1>4 DEF Unmoved, SameAccepted, SameOver
  <2>2. CASE UNCHANGED <<stop, due>>
    BY <1>0, <2>1, <2>2 DEF Drained
  <2>3. ASSUME NEW c \in Stoppers, Advances(c)
        PROVE  Drained'
    <3>1. ASSUME NEW d \in Stoppers, d # c
          PROVE  stop'[d] = stop[d] /\ due'[d] = due[d]
      BY <2>3, <3>1 DEF Advances, TypeOK
    <3>2. \A t \in due'[c] : t \in Tasks /\ status'[t] # "NEW"
      BY <1>0, <2>1, <2>3 DEF Advances, TypeOK, Accepted, Drained
    <3>3. stop'[c] \in {"woken", "gather", "stopped"} => \A t \in due'[c] : Over(t)'
      <4>1. CASE stop[c] \in {"woken", "gather"} /\ due' = due
        BY <1>0, <2>1, <4>1 DEF Drained
      <4>2. CASE unfinished = 0 /\ due' = [due EXCEPT ![c] = Accepted]
        <5>1. \A t \in Tasks : status[t] # "NEW" => Over(t)
          BY <4>2, NothingLeft
        <5>. QED
          BY <2>1, <4>2, <5>1 DEF Accepted, TypeOK
      <4>3. CASE stop' = [stop EXCEPT ![c] = "skipped"] \/ stop' = [stop EXCEPT ![c] = "join"]
        BY <4>3 DEF TypeOK
      <4>. QED
        BY <2>3, <4>1, <4>2, <4>3 DEF Advances
    <3>. QED
      BY <1>0, <2>1, <3>1, <3>2, <3>3 DEF Drained
  <2>. QED
    BY <1>4, <2>2, <2>3 DEF Unmoved
<1>. QED
  BY <1>1, <1>2, <1>3, <1>4 DEF Effect, Moved

\* An engine that was not started has nothing to do.
LEMMA EngineBegins == Init => EngineInv
<1>. SUFFICES ASSUME Init PROVE EngineInv
  OBVIOUS
<1>. USE TasksAssumption, NobodyAssumption DEF Init
<1>1. TypeOK
  <2>1. queue \in Seq(Tasks) /\ unfinished \in Nat /\ cancels \in Nat
    OBVIOUS
  <2>2. /\ status \in [Tasks -> Statuses \cup {"NEW"}] /\ finished \in [Tasks -> BOOLEAN]
        /\ attempts \in [Tasks -> Nat] /\ counted \in [Tasks -> Nat] /\ ran \in [Tasks -> Nat]
    OBVIOUS
  <2>3. at \in [Slots -> Suspended] /\ held \in [Slots -> Tasks \cup {None}]
    BY DEF Suspended
  <2>4. /\ stop \in [Stoppers -> {"idle", "skipped", "join", "woken", "gather", "stopped"}]
        /\ leaving \in [Stoppers -> SUBSET Slots] /\ due \in [Stoppers -> SUBSET Tasks]
    OBVIOUS
  <2>. QED
    BY <2>1, <2>2, <2>3, <2>4 DEF TypeOK
<1>2. Holding /\ Unstarted
  BY DEF Holding, Unstarted, Busy
<1>3. Len(queue) = 0
  OBVIOUS
<1>4. Apart /\ Whereabouts
  BY <1>3 DEF Apart, Whereabouts, Queued, InHand, Over
<1>5. Covered
  <2>1. Holders = {}
    BY DEF Holders
  <2>. QED
    BY <1>3, <2>1, FS_EmptySet DEF Covered
<1>6. Drained
  BY DEF Drained
<1>. QED
  BY <1>1, <1>2, <1>4, <1>5, <1>6 DEF EngineInv

\* Every task is where EngineInv says it is, whatever is cancelled.
THEOREM EngineInvariant == Spec => []EngineInv
<1>1. EngineInv /\ [Next]_vars => EngineInv'
  <2>. SUFFICES ASSUME EngineInv, [Next]_vars PROVE EngineInv'
    OBVIOUS
  <2>1. TypeOK' /\ Holding' /\ Unstarted' /\ Effect
    BY TypesStay, HoldingStays, StepEffect
  <2>2. Apart' /\ Whereabouts' /\ Covered'
    BY <2>1, ApartStays, CoveredStays
  <2>. QED
    BY <2>1, <2>2, DrainedStays DEF EngineInv
<1>. QED
  BY <1>1, EngineBegins, PTL DEF Spec

\* Every reachable state of the engine is well typed; the count of the queue
\* never falls below zero, where task_done() would raise.
THEOREM EngineTypes == Spec => []TypeOK
<1>1. EngineInv => TypeOK
  BY DEF EngineInv
<1>. QED
  BY <1>1, EngineInvariant, PTL

\* When stop() has waited for the queue, the tasks accepted before it are
\* finished or were dropped with a cancelled worker.
THEOREM StopWaits == Spec => []StopDrains
<1>1. EngineInv => StopDrains
  BY DEF EngineInv, Drained, Over, StopDrains
<1>. QED
  BY <1>1, EngineInvariant, PTL

\* A set that has an element, and no second one, has cardinality one.
LEMMA OneElement == ASSUME NEW S, NEW x \in S, \A y \in S : y = x PROVE Cardinality(S) = 1
<1>1. S = {x}
  OBVIOUS
<1>. QED
  BY <1>1, FS_Singleton

\* An accepted task is in one place until it is over, and in none afterwards.
THEOREM TasksInOnePlace == Spec => []InOnePlace
<1>1. ASSUME EngineInv, NEW t \in Accepted
      PROVE  Places(t) = IF finished[t] \/ t \in dropped THEN 0 ELSE 1
  <2>. DEFINE Q == {i \in DOMAIN queue : queue[i] = t}
              W == {w \in Slots : held[w] = t}
  <2>0. /\ t \in Tasks /\ t # None /\ status[t] # "NEW"
        /\ DOMAIN queue = 1..Len(queue)
    BY <1>1, NobodyAssumption DEF EngineInv, TypeOK, Accepted
  <2>1. Over(t) <=> ~Queued(t) /\ ~InHand(t)
    BY <1>1, <2>0 DEF EngineInv, Whereabouts
  <2>2. ~Queued(t) => Cardinality(Q) = 0
    <3>1. ~Queued(t) => Q = {}
      BY <2>0 DEF Queued
    <3>. QED
      BY <3>1, FS_EmptySet
  <2>3. ~InHand(t) => Cardinality(W) = 0
    <3>1. ~InHand(t) => W = {}
      BY DEF InHand
    <3>. QED
      BY <3>1, FS_EmptySet
  <2>4. Queued(t) => Cardinality(Q) = 1 /\ ~InHand(t)
    <3>. SUFFICES ASSUME Queued(t) PROVE Cardinality(Q) = 1 /\ ~InHand(t)
      OBVIOUS
    <3>1. PICK i \in 1..Len(queue) : queue[i] = t
      BY DEF Queued
    <3>2. i \in Q /\ \A j \in Q : j = i
      BY <1>1, <2>0, <3>1 DEF EngineInv, Apart
    <3>3. Cardinality(Q) = 1
      BY <3>2, OneElement
    <3>4. ~InHand(t)
      BY <1>1, <3>1 DEF EngineInv, Apart, InHand
    <3>. QED
      BY <3>3, <3>4
  <2>5. InHand(t) => Cardinality(W) = 1
    <3>. SUFFICES ASSUME InHand(t) PROVE Cardinality(W) = 1
      OBVIOUS
    <3>1. PICK w \in Slots : held[w] = t
      BY DEF InHand
    <3>2. w \in W /\ \A v \in W : v = w
      BY <1>1, <2>0, <3>1 DEF EngineInv, Apart
    <3>. QED
      BY <3>2, OneElement
  <2>. HIDE DEF Q, W
  <2>6. Cardinality(Q) + Cardinality(W) = IF Over(t) THEN 0 ELSE 1
    BY <2>1, <2>2, <2>3, <2>4, <2>5
  <2>. QED
    BY <2>6 DEF Places, Over, Q, W
<1>2. EngineInv => InOnePlace
  BY <1>1 DEF InOnePlace
<1>. QED
  BY <1>2, EngineInvariant, PTL

----------------------------------------------------------------------------
(* How often functions are called.                                         *)

Running(t) == \E w \in Slots : held[w] = t /\ at[w] = "run"

Counts(t) ==
    /\ attempts[t] <= Retries[t]
    /\ status[t] = "NEW" => ran[t] = 0 /\ attempts[t] = 0
    /\ ran[t] <= attempts[t] + 1
    /\ Running(t) => ran[t] = attempts[t] + 1
    /\ ~Running(t) /\ ~Over(t) => ran[t] = attempts[t]
    /\ status[t] \in {"SUCCESS", "FAILED"} => Over(t) /\ counted[t] = ran[t]

CallsInv == \A t \in Tasks : Counts(t)

\* A worker busy with t is the only one that holds it.
LEMMA OnlyHolder ==
    ASSUME EngineInv, NEW w \in Slots, at[w] \in Busy
    PROVE  /\ held[w] \in Tasks /\ held[w] # None
           /\ status[held[w]] # "NEW" /\ ~Over(held[w])
           /\ \A v \in Slots : held[v] = held[w] => v = w
           /\ Running(held[w]) <=> at[w] = "run"
<1>1. held[w] \in Tasks /\ held[w] # None
  BY BusyHolds DEF EngineInv
<1>2. \A v \in Slots : held[v] = held[w] => v = w
  BY <1>1 DEF EngineInv, Apart
<1>. QED
  BY <1>1, <1>2, HeldAccepted DEF EngineInv, Running

\* No function is called more often than max_retries allows.
LEMMA CallsStay == ASSUME EngineInv, CallsInv, [Next]_vars PROVE CallsInv'
<1>. USE TasksAssumption, NobodyAssumption DEF results, pool, caller
<1>0. /\ attempts \in [Tasks -> Nat] /\ ran \in [Tasks -> Nat] /\ counted \in [Tasks -> Nat]
      /\ status \in [Tasks -> Statuses \cup {"NEW"}] /\ finished \in [Tasks -> BOOLEAN]
      /\ at \in [Slots -> Suspended] /\ held \in [Slots -> Tasks \cup {None}]
  BY DEF EngineInv, TypeOK
<1>1. CASE UNCHANGED vars
  BY <1>1 DEF vars, CallsInv, Counts, Running, Over
<1>2. CASE Start
  <2>1. \A t \in Tasks : Running(t)' <=> Running(t)
    BY <1>2, <1>0 DEF Start, Running, EngineInv, Unstarted
  <2>. QED
    BY <1>2, <2>1 DEF Start, CallsInv, Counts, Over
<1>3. ASSUME NEW u \in Tasks, Submit(u)
      PROVE  CallsInv'
  BY <1>0, <1>3 DEF Submit, CallsInv, Counts, Running, Over
<1>4. ASSUME NEW w \in Slots, Take(w)
      PROVE  CallsInv'
  <2>0. Head(queue) \in Tasks
    BY <1>4, QueuedAccepted DEF Take, EngineInv
  <2>. PICK h \in Tasks : h = Head(queue)
    BY <2>0
  <2>1. h \in Tasks /\ status[h] # "NEW" /\ Queued(h)
    <3>1. queue # <<>>
      BY <1>4 DEF Take
    <3>2. h \in Tasks /\ status[h] # "NEW" /\ h = queue[1] /\ 1 \in 1..Len(queue)
      BY <3>1, QueuedAccepted DEF EngineInv, TypeOK
    <3>. QED
      BY <3>2 DEF Queued
  <2>2. ~Over(h) /\ \A v \in Slots : held[v] # h
    BY <2>1 DEF EngineInv, Whereabouts, Apart, Queued
  <2>3. \A v \in Slots : held'[v] = IF v = w THEN h ELSE held[v]
    BY <1>0, <1>4 DEF Take
  <2>4. held[w] = None
    BY <1>4 DEF Take, EngineInv, Holding, Busy
  <2>5. UNCHANGED <<attempts, counted, finished, dropped>>
    BY <1>4 DEF Take
  <2>6. CASE Moves(w, "delay") /\ UNCHANGED <<status, ran>>
    <3>1. \A v \in Slots : at'[v] = IF v = w THEN "delay" ELSE at[v]
      BY <1>0, <2>6 DEF Moves
    <3>2. \A t \in Tasks : Running(t)' <=> Running(t)
      BY <2>2, <2>3, <2>4, <3>1 DEF Running
    <3>. QED
      BY <2>5, <2>6, <3>2 DEF CallsInv, Counts, Over
  <2>7. CASE Begins(w, h)
    <3>1. \A v \in Slots : at'[v] = IF v = w THEN "run" ELSE at[v]
      BY <1>0, <2>7 DEF Begins, Moves
    <3>2. \A t \in Tasks : Running(t)' <=> Running(t) \/ t = h
      BY <2>2, <2>3, <2>4, <3>1 DEF Running
    <3>3. /\ \A t \in Tasks \ {h} : status'[t] = status[t] /\ ran'[t] = ran[t]
          /\ status'[h] = "RUNNING" /\ ran'[h] = ran[h] + 1
      BY <1>0, <2>1, <2>7 DEF Begins
    <3>4. ~Running(h)
      BY <2>2 DEF Running
    <3>5. Counts(h)'
      <4>1. ran[h] = attempts[h] /\ attempts[h] <= Retries[h] /\ attempts[h] \in Nat
        BY <1>0, <2>1, <2>2, <3>4 DEF CallsInv, Counts
      <4>. QED
        BY <2>1, <2>2, <2>5, <3>2, <3>3, <4>1 DEF Counts, Over
    <3>6. \A t \in Tasks \ {h} : Counts(t)'
      BY <2>5, <3>2, <3>3 DEF CallsInv, Counts, Over
    <3>. QED
      BY <3>5, <3>6 DEF CallsInv
  <2>. QED
    BY <1>4, <2>6, <2>7 DEF Take
<1>5. ASSUME NEW w \in Slots, EndDelay(w)
      PROVE  CallsInv'
  <2>0. held[w] \in Tasks
    BY <1>5, OnlyHolder DEF EndDelay, Busy
  <2>. PICK h \in Tasks : h = held[w]
    BY <2>0
  <2>1. /\ h \in Tasks /\ ~Over(h) /\ ~Running(h) /\ status[h] # "NEW"
        /\ \A v \in Slots : held[v] = h => v = w
    BY <1>5, OnlyHolder DEF EndDelay, Busy
  <2>2. UNCHANGED <<attempts, counted, finished, dropped, held>>
    BY <1>5 DEF EndDelay
  <2>3. \A v \in Slots : at'[v] = IF v = w THEN "run" ELSE at[v]
    BY <1>0, <1>5 DEF EndDelay, Begins, Moves
  <2>4. \A t \in Tasks : Running(t)' <=> Running(t) \/ t = h
    BY <1>5, <2>1, <2>2, <2>3 DEF Running, EndDelay
  <2>5. /\ \A t \in Tasks \ {h} : status'[t] = status[t] /\ ran'[t] = ran[t]
        /\ status'[h] = "RUNNING" /\ ran'[h] = ran[h] + 1
    BY <1>0, <1>5, <2>1 DEF EndDelay, Begins
  <2>6. Counts(h)'
    <3>1. ran[h] = attempts[h] /\ attempts[h] <= Retries[h] /\ attempts[h] \in Nat
      BY <1>0, <2>1 DEF CallsInv, Counts
    <3>. QED
      BY <2>1, <2>2, <2>4, <2>5, <3>1 DEF Counts, Over
  <2>7. \A t \in Tasks \ {h} : Counts(t)'
    BY <2>2, <2>4, <2>5 DEF CallsInv, Counts, Over
  <2>. QED
    BY <2>6, <2>7 DEF CallsInv
<1>6. ASSUME NEW w \in Slots, Succeeds(w) \/ Fails(w)
      PROVE  CallsInv'
  <2>0. held[w] \in Tasks
    BY <1>6, OnlyHolder DEF Succeeds, Fails, Ends, Busy
  <2>. PICK h \in Tasks : h = held[w]
    BY <2>0
  <2>1. /\ h \in Tasks /\ h # None /\ Running(h)
        /\ \A v \in Slots : held[v] = h => v = w
    BY <1>6, OnlyHolder DEF Succeeds, Fails, Ends, Busy
  <2>2. UNCHANGED <<attempts, ran, dropped>>
    BY <1>6 DEF Succeeds, Fails, Ends
  <2>3. \A v \in Slots : /\ at'[v] = IF v = w THEN "get" ELSE at[v]
                         /\ held'[v] = IF v = w THEN None ELSE held[v]
    BY <1>0, <1>6 DEF Succeeds, Fails, Ends, Rests, Moves
  <2>4. \A t \in Tasks : Running(t)' <=> Running(t) /\ t # h
    BY <2>1, <2>3 DEF Running
  <2>5. /\ \A t \in Tasks \ {h} : /\ status'[t] = status[t] /\ counted'[t] = counted[t]
                                  /\ finished'[t] = finished[t]
        /\ status'[h] \in {"SUCCESS", "FAILED"} /\ counted'[h] = attempts[h] + 1 /\ finished'[h] = TRUE
    BY <1>0, <1>6, <2>1 DEF Succeeds, Fails, Ends
  <2>6. Counts(h)'
    BY <2>1, <2>2, <2>4, <2>5 DEF Counts, Over, CallsInv
  <2>7. \A t \in Tasks \ {h} : Counts(t)'
    BY <2>2, <2>4, <2>5 DEF CallsInv, Counts, Over
  <2>. QED
    BY <2>6, <2>7 DEF CallsInv
<1>7. ASSUME NEW w \in Slots, Backoff(w)
      PROVE  CallsInv'
  <2>0. held[w] \in Tasks
    BY <1>7, OnlyHolder DEF Backoff, Busy
  <2>. PICK h \in Tasks : h = held[w]
    BY <2>0
  <2>1. /\ h \in Tasks /\ Running(h) /\ ~Over(h)
        /\ \A v \in Slots : held[v] = h => v = w
    BY <1>7, OnlyHolder DEF Backoff, Busy
  <2>2. UNCHANGED <<ran, finished, dropped, held>>
    BY <1>7 DEF Backoff
  <2>3. \A v \in Slots : at'[v] = IF v = w THEN "backoff" ELSE at[v]
    BY <1>0, <1>7 DEF Backoff, Moves
  <2>4. \A t \in Tasks : Running(t)' <=> Running(t) /\ t # h
    BY <2>1, <2>2, <2>3 DEF Running
  <2>5. /\ \A t \in Tasks \ {h} : /\ status'[t] = status[t] /\ counted'[t] = counted[t]
                                  /\ attempts'[t] = attempts[t]
        /\ status'[h] = "RETRYING" /\ attempts'[h] = attempts[h] + 1 /\ attempts[h] < Retries[h]
    BY <1>0, <1>7, <2>1 DEF Backoff, RetryLeft
  <2>6. Counts(h)'
    <3>1. ran[h] = attempts[h] + 1 /\ attempts[h] \in Nat /\ Retries[h] \in Nat
      BY <1>0, <2>1 DEF CallsInv, Counts
    <3>. QED
      BY <2>1, <2>2, <2>4, <2>5, <3>1 DEF Counts, Over
  <2>7. \A t \in Tasks \ {h} : Counts(t)'
    BY <2>2, <2>4, <2>5 DEF CallsInv, Counts, Over
  <2>. QED
    BY <2>6, <2>7 DEF CallsInv
<1>8. ASSUME NEW w \in Slots, Requeue(w)
      PROVE  CallsInv'
  <2>1. UNCHANGED <<status, attempts, counted, finished, ran, dropped>>
    BY <1>8 DEF Requeue
  <2>2. \A v \in Slots : /\ at'[v] = IF v = w THEN "get" ELSE at[v]
                         /\ held'[v] = IF v = w THEN None ELSE held[v]
    BY <1>0, <1>8 DEF Requeue, Rests, Moves
  <2>3. \A t \in Tasks : Running(t)' <=> Running(t)
    BY <1>8, <2>2 DEF Running, Requeue
  <2>. QED
    BY <2>1, <2>3 DEF CallsInv, Counts, Over
<1>9. ASSUME NEW w \in Slots, Cancelled(w)
      PROVE  CallsInv'
  <2>1. UNCHANGED <<status, attempts, counted, ran>>
    BY <1>9 DEF Cancelled
  <2>2. \A v \in Slots : /\ at'[v] = IF v = w THEN "dead" ELSE at[v]
                         /\ held'[v] = IF v = w THEN None ELSE held[v]
    BY <1>0, <1>9 DEF Cancelled, Moves
  <2>3. CASE at[w] \in Busy
    <3>0. held[w] \in Tasks
      BY <2>3, OnlyHolder
    <3>. PICK h \in Tasks : h = held[w]
      BY <3>0
    <3>1. /\ h \in Tasks /\ ~Over(h) /\ (Running(h) <=> at[w] = "run")
          /\ \A v \in Slots : held[v] = h => v = w
      BY <2>3, OnlyHolder
    <3>2. \A t \in Tasks : Over(t)' <=> Over(t) \/ t = h
      BY <1>0, <1>9, <2>3, <3>1 DEF Cancelled, Over, Busy
    <3>3. \A t \in Tasks : Running(t)' <=> Running(t) /\ t # h
      BY <2>2, <3>1 DEF Running
    <3>4. Counts(h)'
      BY <2>1, <3>1, <3>2, <3>3 DEF CallsInv, Counts
    <3>5. \A t \in Tasks \ {h} : Counts(t)'
      BY <2>1, <3>2, <3>3 DEF CallsInv, Counts
    <3>. QED
      BY <3>4, <3>5 DEF CallsInv
  <2>4. CASE at[w] \notin Busy
    <3>1. UNCHANGED <<finished, dropped>>
      BY <1>9, <2>4 DEF Cancelled, Busy
    <3>2. \A t \in Tasks : Running(t)' <=> Running(t)
      BY <2>2, <2>4 DEF Running, Busy
    <3>. QED
      BY <2>1, <3>1, <3>2 DEF CallsInv, Counts, Over
  <2>. QED
    BY <2>3, <2>4
<1>10. ASSUME NEW w \in Slots, Cancel(w)
       PROVE  CallsInv'
  BY <1>10 DEF Cancel, CallsInv, Counts, Running, Over
<1>11. ASSUME NEW c \in Stoppers, Stop(c) \/ Joined(c) \/ Gathered(c)
       PROVE  CallsInv'
  <2>1. UNCHANGED <<status, attempts, counted, finished, ran, dropped, at, held>>
    BY <1>11 DEF Stop, Joined, Gathered
  <2>. QED
    BY <2>1 DEF CallsInv, Counts, Running, Over
<1>. QED
  BY <1>1, <1>2, <1>3, <1>4, <1>5, <1>6, <1>7, <1>8, <1>9, <1>10, <1>11
     DEF Next, Turn, Return, TaskCancelled, Dies

\* A function is called at most max_retries + 1 times, and what is reported
\* in the end is the number of calls.
THEOREM AttemptsCounted == Spec => []AttemptsReported
<1>1. Init => CallsInv
  BY TasksAssumption DEF Init, CallsInv, Counts, Running, Over
<1>2. Spec => []CallsInv
  BY <1>1, CallsStay, EngineInvariant, PTL DEF Spec
<1>3. EngineInv /\ CallsInv => AttemptsReported
  BY TasksAssumption DEF EngineInv, TypeOK, CallsInv, Counts, AttemptsReported
<1>. QED
  BY <1>2, <1>3, EngineInvariant, PTL
=============================================================================
