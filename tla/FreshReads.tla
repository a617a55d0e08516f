----------------------------- MODULE FreshReads -----------------------------
(***************************************************************************)
(* What a shared QuerySetCache promises, whatever it does inside: a result *)
(* it answers a lookup with was read from the database no earlier than any *)
(* invalidation promised for the query when the lookup was made.  It may   *)
(* always decline, and it need not answer with the newest rows.            *)
(***************************************************************************)
EXTENDS Naturals

CONSTANTS Procs, Threads, ProcOf, Scopes, Queries, ScopesOf, None

VARIABLES
    clock,     \* commits so far; a result is the clock when its SQL ran
    promised,  \* for each scope, no process serves an older result
    own,       \* for each process and scope, it serves no older result itself
    asked,     \* the queryset a thread has looked up, None otherwise
    need,      \* for each scope, the oldest result that may answer the lookup
    answer     \* the cached result the lookup is answered with, NoAnswer before

vars == <<clock, promised, own, asked, need, answer>>

Zero     == [s \in Scopes |-> 0]
Nothing  == [none |-> TRUE]
Rows(v)  == [asof |-> v]
Max2(x, y) == IF x > y THEN x ELSE y

Init ==
    /\ clock = 0
    /\ promised = Zero
    /\ own    = [p \in Procs |-> Zero]
    /\ asked  = [t \in Threads |-> None]
    /\ need   = [t \in Threads |-> Zero]
    /\ answer = [t \in Threads |-> Nothing]

Commit == /\ clock' = clock + 1
          /\ UNCHANGED <<promised, own, asked, need, answer>>

\* Some invalidations, or none, or a clear take effect for everybody.
Raised ==
    /\ \A s \in Scopes : promised[s] <= promised'[s] /\ promised'[s] <= clock
    /\ promised' = [s \in Scopes |-> promised'[s]]

Promise == Raised /\ UNCHANGED <<clock, own, asked, need, answer>>

\* A process invalidates a scope: it keeps to it even if nobody else hears.
Invalidate(p, s) ==
    /\ own' = [own EXCEPT ![p][s] = clock]
    /\ promised' \in {promised, [promised EXCEPT ![s] = clock]}
    /\ UNCHANGED <<clock, asked, need, answer>>

Ask(t, q) ==
    /\ asked[t] = None
    /\ asked' = [asked EXCEPT ![t] = q]
    /\ need'  = [need EXCEPT ![t] =
                    [s \in Scopes |-> Max2(promised[s], own[ProcOf[t]][s])]]
    /\ UNCHANGED <<clock, promised, own, answer>>

Answer(t) ==
    /\ asked[t] # None
    /\ answer[t] = Nothing
    /\ \E v \in 0..clock :
          /\ \A s \in ScopesOf[asked[t]] : need[t][s] <= v
          /\ answer' = [answer EXCEPT ![t] = Rows(v)]
    /\ UNCHANGED <<clock, promised, own, asked, need>>

\* The answer is returned, or the cache declines to give one: it may just have
\* repeated an owed invalidation whose reply was lost.
Finish(t) ==
    /\ asked[t] # None
    /\ Raised
    /\ asked'  = [asked EXCEPT ![t] = None]
    /\ need'   = [need EXCEPT ![t] = Zero]
    /\ answer' = [answer EXCEPT ![t] = Nothing]
    /\ UNCHANGED <<clock, own>>

\* A restarted process has forgotten its own promises and its lookups.
Forget(p) ==
    LET Reset(f, v) == [t \in Threads |-> IF ProcOf[t] = p THEN v ELSE f[t]] IN
    /\ own'    = [own EXCEPT ![p] = Zero]
    /\ asked'  = Reset(asked, None)
    /\ need'   = Reset(need, Zero)
    /\ answer' = Reset(answer, Nothing)
    /\ UNCHANGED <<clock, promised>>

Next ==
    \/ Commit \/ Promise
    \/ \E p \in Procs : Forget(p) \/ \E s \in Scopes : Invalidate(p, s)
    \/ \E t \in Threads :
          Answer(t) \/ Finish(t) \/ \E q \in Queries : Ask(t, q)

Spec == Init /\ [][Next]_vars
=============================================================================
