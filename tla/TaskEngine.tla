----------------------------- MODULE TaskEngine -----------------------------
(***************************************************************************)
(* NovaTaskEngine over AsyncioBackend: tasks wait in an asyncio.Queue and  *)
(* a fixed pool of worker coroutines runs them, with an initial delay and  *)
(* retries; stop() waits for the queue to be joined and cancels the        *)
(* workers.                                                                *)
(*                                                                         *)
(* Everything runs on one event loop, so that what lies between two awaits *)
(* is one step.  Cancellation is asynchronous: Task.cancel() dooms a       *)
(* worker, which finds the CancelledError at the await it is suspended in. *)
(***************************************************************************)
EXTENDS Naturals, Sequences, FiniteSets

CONSTANTS
    Tasks,       \* the tasks that may be submitted, each once
    Delayed,     \* those submitted with delay > 0
    Retries,     \* max_retries of a task
    Slots,       \* the max_concurrent workers of the pool
    Stoppers,    \* the coroutines that call stop(), each once
    None,        \* no task
    MaxCancels   \* bound: workers cancelled by somebody else than stop()

ASSUME TasksAssumption == Delayed \subseteq Tasks /\ Retries \in [Tasks -> Nat]
ASSUME NobodyAssumption == None \notin Tasks
ASSUME SlotsAssumption == IsFiniteSet(Slots)
ASSUME CancelsAssumption == MaxCancels \in Nat

VARIABLES
    started,     \* AsyncioBackend._started
    workers,     \* AsyncioBackend._workers
    queue,       \* the asyncio.Queue ...
    unfinished,  \* ... and its count of unfinished tasks
    status,      \* TaskResult.status, "NEW" before submit()
    attempts,    \* _TaskPayload.attempts
    counted,     \* TaskResult.attempts
    finished,    \* whether TaskResult.finished_at is set
    at,          \* where each worker is suspended
    held,        \* the payload a worker holds
    doomed,      \* workers that have been cancelled and do not know it yet
    stop,        \* where each stop() call is
    leaving,     \* the workers a stop() call gathers
    cancels,     \* cancellations so far
    last,        \* history: the lifecycle method called last
    due,         \* history: the tasks accepted before a stop() call
    ran,         \* history: how often the function of a task was called
    dropped      \* history: tasks whose worker was cancelled before task_done()

pool    == <<at, held, doomed>>
results == <<status, attempts, counted, finished, ran, dropped>>
caller  == <<stop, leaving, due, last>>
vars    == <<started, workers, queue, unfinished, results, pool, caller, cancels>>

Suspended == {"none", "get", "delay", "run", "backoff", "dead"}
Statuses  == {"PENDING", "RUNNING", "SUCCESS", "FAILED", "RETRYING"}

\* Queue.join(): a waiter is woken once, when the count reaches zero.
Woken(n) == [c \in Stoppers |-> IF n = 0 /\ stop[c] = "join" THEN "woken" ELSE stop[c]]

\* Queue.task_done()
TaskDone == /\ unfinished' = unfinished - 1
            /\ stop' = Woken(unfinished - 1)

Moves(w, label) == at' = [at EXCEPT ![w] = label]

\* The worker goes back to `await self._queue.get()'.
Rests(w) == Moves(w, "get") /\ held' = [held EXCEPT ![w] = None]

Accepted == {t \in Tasks : status[t] # "NEW"}

----------------------------------------------------------------------------
\* start(): once started, never again.
Start ==
    /\ last' = "start"
    /\ IF started
       THEN UNCHANGED <<started, workers, at>>
       ELSE /\ started' = TRUE
            /\ workers' = Slots
            /\ at' = [w \in Slots |-> "get"]
    /\ UNCHANGED <<queue, unfinished, results, held, doomed, stop, leaving, due, cancels>>

Submit(t) ==
    /\ status[t] = "NEW"
    /\ status' = [status EXCEPT ![t] = "PENDING"]
    /\ queue' = Append(queue, t)
    /\ unfinished' = unfinished + 1
    /\ UNCHANGED <<started, workers, attempts, counted, finished, ran, dropped, pool, caller,
                   cancels>>

----------------------------------------------------------------------------
(* _worker.                                                                *)

\* status RUNNING, and the function is called.
Begins(w, t) ==
    /\ Moves(w, "run")
    /\ status' = [status EXCEPT ![t] = "RUNNING"]
    /\ ran' = [ran EXCEPT ![t] = @ + 1]

\* The loop resumes coroutines in the order in which they were woken, so that a
\* stop() that has been woken goes before a worker woken by a later submit().
Take(w) ==
    /\ at[w] = "get" /\ w \notin doomed
    /\ \A c \in Stoppers : stop[c] # "woken"
    /\ queue # <<>>
    /\ queue' = Tail(queue)
    /\ held' = [held EXCEPT ![w] = Head(queue)]
    /\ IF attempts[Head(queue)] = 0 /\ Head(queue) \in Delayed
       THEN Moves(w, "delay") /\ UNCHANGED <<status, ran>>
       ELSE Begins(w, Head(queue))
    /\ UNCHANGED <<started, workers, unfinished, attempts, counted, finished, dropped, doomed,
                   caller, cancels>>

EndDelay(w) ==
    /\ at[w] = "delay" /\ w \notin doomed
    /\ Begins(w, held[w])
    /\ UNCHANGED <<started, workers, queue, unfinished, attempts, counted, finished, dropped,
                   held, doomed, caller, cancels>>

\* The function returned, or raised and no attempt is left.
Ends(w, verdict) ==
    LET t == held[w] IN
    /\ at[w] = "run" /\ w \notin doomed
    /\ status' = [status EXCEPT ![t] = verdict]
    /\ counted' = [counted EXCEPT ![t] = attempts[t] + 1]
    /\ finished' = [finished EXCEPT ![t] = TRUE]
    /\ TaskDone
    /\ Rests(w)
    /\ UNCHANGED <<started, workers, queue, attempts, ran, dropped, doomed, leaving, due, last,
                   cancels>>

Succeeds(w) == Ends(w, "SUCCESS")
Fails(w)    == Ends(w, "FAILED") /\ attempts[held[w]] = Retries[held[w]]

\* Wrong: one attempt more than max_retries allows.
RetryLeftLate(t) == attempts[t] <= Retries[t]

RetryLeft(t) == attempts[t] < Retries[t]

\* The function raised: the worker sleeps for retry_delay, payload in hand.
Backoff(w) ==
    LET t == held[w] IN
    /\ at[w] = "run" /\ w \notin doomed
    /\ RetryLeft(t)
    /\ attempts' = [attempts EXCEPT ![t] = @ + 1]
    /\ counted' = [counted EXCEPT ![t] = attempts[t] + 1]
    /\ status' = [status EXCEPT ![t] = "RETRYING"]
    /\ Moves(w, "backoff")
    /\ UNCHANGED <<started, workers, queue, unfinished, finished, ran, dropped, held, doomed,
                   caller, cancels>>

\* Wrong: task_done() before put_nowait(), the count passes through zero.
DoneFirst == UNCHANGED unfinished /\ stop' = Woken(unfinished - 1)

\* Wrong: the payload goes back without being counted again.
PutUncounted == TaskDone

\* put_nowait() before task_done(), without an await: the count stays.
PutFirst == UNCHANGED unfinished /\ stop' = Woken(unfinished)

\* Wrong: the retry is announced and never queued.
Forgotten(t) == queue

Again(t) == Append(queue, t)

Requeue(w) ==
    /\ at[w] = "backoff" /\ w \notin doomed
    /\ queue' = Again(held[w])
    /\ PutFirst
    /\ Rests(w)
    /\ UNCHANGED <<started, workers, results, doomed, leaving, due, last, cancels>>

\* Wrong: task_done() is not in `finally', an exception that is not caught skips it.
NoFinally == {}

\* Where a worker is inside `try', so that `finally' calls task_done().
InTry == {"run", "backoff"}

\* A CancelledError is no Exception: `finally' alone sees it and the worker ends.
Cancelled(w) ==
    LET t == held[w] IN
    /\ Moves(w, "dead")
    /\ held' = [held EXCEPT ![w] = None]
    /\ doomed' = doomed \ {w}
    /\ IF at[w] \in InTry THEN TaskDone ELSE UNCHANGED <<unfinished, stop>>
    /\ finished' = IF at[w] = "run" THEN [finished EXCEPT ![t] = TRUE] ELSE finished
    /\ dropped' = IF at[w] \in {"delay", "backoff"} THEN dropped \cup {t} ELSE dropped
    /\ UNCHANGED <<started, workers, queue, status, attempts, counted, ran, leaving, due, last,
                   cancels>>

\* The function itself raises CancelledError, having awaited something cancelled.
TaskCancelled(w) == at[w] = "run" /\ Cancelled(w)

Dies(w) == w \in doomed /\ Cancelled(w)

\* Somebody else cancels a worker: the shutdown of the loop, or a test.
Cancel(w) ==
    /\ at[w] \notin {"none", "dead"} /\ w \notin doomed
    /\ cancels < MaxCancels
    /\ cancels' = cancels + 1
    /\ doomed' = doomed \cup {w}
    /\ UNCHANGED <<started, workers, queue, unfinished, results, at, held, caller>>

----------------------------------------------------------------------------
(* stop().                                                                 *)

\* The workers are cancelled and the list is emptied; _started stays.
Dismisses(c) ==
    /\ stop' = [stop EXCEPT ![c] = "gather"]
    /\ leaving' = [leaving EXCEPT ![c] = workers]
    /\ doomed' = doomed \cup {w \in workers : at[w] # "dead"}
    /\ workers' = {}

Stop(c) ==
    /\ stop[c] = "idle"
    /\ last' = "stop"
    /\ due' = [due EXCEPT ![c] = Accepted]
    /\ \/ /\ workers = {}
          /\ stop' = [stop EXCEPT ![c] = "skipped"]
          /\ UNCHANGED <<workers, leaving, doomed>>
       \/ /\ workers # {} /\ unfinished > 0
          /\ stop' = [stop EXCEPT ![c] = "join"]
          /\ UNCHANGED <<workers, leaving, doomed>>
       \/ workers # {} /\ unfinished = 0 /\ Dismisses(c)
    /\ UNCHANGED <<started, queue, unfinished, results, at, held, cancels>>

Joined(c) ==
    /\ stop[c] = "woken"
    /\ Dismisses(c)
    /\ UNCHANGED <<started, queue, unfinished, results, at, held, due, last, cancels>>

Gathered(c) ==
    /\ stop[c] = "gather"
    /\ \A w \in leaving[c] : at[w] = "dead"
    /\ stop' = [stop EXCEPT ![c] = "stopped"]
    /\ UNCHANGED <<started, workers, queue, unfinished, results, pool, leaving, due, last,
                   cancels>>

----------------------------------------------------------------------------

Init ==
    /\ started = FALSE /\ workers = {} /\ queue = <<>> /\ unfinished = 0
    /\ status   = [t \in Tasks |-> "NEW"]
    /\ attempts = [t \in Tasks |-> 0]
    /\ counted  = [t \in Tasks |-> 0]
    /\ finished = [t \in Tasks |-> FALSE]
    /\ ran      = [t \in Tasks |-> 0]
    /\ dropped  = {}
    /\ at   = [w \in Slots |-> "none"]
    /\ held = [w \in Slots |-> None]
    /\ doomed = {}
    /\ stop    = [c \in Stoppers |-> "idle"]
    /\ leaving = [c \in Stoppers |-> {}]
    /\ due     = [c \in Stoppers |-> {}]
    /\ last = "none" /\ cancels = 0

\* One turn of a worker.
Turn(w) ==
    \/ Take(w) \/ EndDelay(w) \/ Succeeds(w) \/ Fails(w)
    \/ Backoff(w) \/ Requeue(w) \/ TaskCancelled(w) \/ Dies(w)

Return(c) == Joined(c) \/ Gathered(c)

Next ==
    \/ Start
    \/ \E t \in Tasks : Submit(t)
    \/ \E w \in Slots : Turn(w) \/ Cancel(w)
    \/ \E c \in Stoppers : Stop(c) \/ Return(c)

\* The event loop runs every coroutine that can go on, and the functions of
\* tasks return or raise; nobody is obliged to call start(), submit() or stop().
Fairness == /\ \A w \in Slots : WF_vars(Turn(w))
            /\ \A c \in Stoppers : WF_vars(Return(c))

Spec == Init /\ [][Next]_vars /\ Fairness

----------------------------------------------------------------------------
(* Properties.                                                             *)

TypeOK ==
    /\ started \in BOOLEAN /\ workers \subseteq Slots
    /\ queue \in Seq(Tasks) /\ unfinished \in Nat
    /\ status \in [Tasks -> Statuses \cup {"NEW"}]
    /\ attempts \in [Tasks -> Nat] /\ counted \in [Tasks -> Nat] /\ ran \in [Tasks -> Nat]
    /\ finished \in [Tasks -> BOOLEAN] /\ dropped \subseteq Tasks
    /\ at \in [Slots -> Suspended] /\ held \in [Slots -> Tasks \cup {None}]
    /\ doomed \subseteq Slots
    /\ stop \in [Stoppers -> {"idle", "skipped", "join", "woken", "gather", "stopped"}]
    /\ leaving \in [Stoppers -> SUBSET Slots] /\ due \in [Stoppers -> SUBSET Tasks]
    /\ last \in {"none", "start", "stop"} /\ cancels \in Nat

\* When stop() has waited for the queue, every task accepted before the call is
\* finished, whatever was retried, submitted or stopped since, unless somebody
\* else cancelled the worker that held it.
StopDrains ==
    \A c \in Stoppers :
        stop[c] \in {"gather", "stopped"} => \A t \in due[c] \ dropped : finished[t]

\* An accepted task is in one place until it is finished: once in the queue or
\* in the hands of one worker, unless that worker was cancelled with it.
Places(t) == Cardinality({i \in DOMAIN queue : queue[i] = t})
             + Cardinality({w \in Slots : held[w] = t})

InOnePlace ==
    \A t \in Accepted :
        Places(t) = IF finished[t] \/ t \in dropped THEN 0 ELSE 1

\* The function of a task is called at most max_retries + 1 times, and a task
\* that succeeded or failed reports how often.
AttemptsReported ==
    \A t \in Tasks :
        /\ ran[t] <= Retries[t] + 1
        /\ status[t] \in {"SUCCESS", "FAILED"} => counted[t] = ran[t]

\* An accepted task of a started engine is eventually finished, unless a worker
\* ends, by stop() or by a task that raised CancelledError.
Served(t) == finished[t] \/ \E w \in Slots : at[w] = "dead" \/ w \in doomed

TasksFinish == \A t \in Tasks : (started /\ status[t] = "PENDING") ~> Served(t)

\* stop() returns, unless no worker is left to empty the queue or somebody else
\* cancelled a worker that held a task.
StopReturns ==
    \A c \in Stoppers :
        stop[c] = "join" ~> \/ stop[c] = "stopped" \/ dropped # {}
                            \/ \A w \in Slots : at[w] = "dead"

\* The count of the queue covers what is queued and what workers hold.
Balanced ==
    unfinished = Len(queue) + Cardinality({w \in Slots : held[w] # None})

\* After start(), and until stop(), there are workers to consume the queue.
StartServes == last = "start" => workers # {}
=============================================================================
