------------------------ MODULE SharedCacheInvariant ------------------------
(***************************************************************************)
(* The inductive invariant behind HitIsFresh.                              *)
(*                                                                         *)
(* Two facts carry it.  The clock at which a token was installed never     *)
(* changes while anything refers to the token, because a token that is     *)
(* installed is Clean: nothing refers to it yet.  And the Level of a       *)
(* scope, the oldest a token read from it can be from now on, never        *)
(* decreases; every promise made about a scope is below its Level.         *)
(***************************************************************************)
EXTENDS SharedCache

\* No scope, captured snapshot or result refers to token k.
Clean(k) ==
    /\ \A s \in Scopes : token[s] # k
    /\ \A t \in Threads, s \in Scopes : gens[t][s] # k
    /\ \A e \in store \cup lateFills, s \in Scopes : e.key.gens[s] # k

\* Tokens not generated yet, and tokens on their way, are referred to by nobody.
TokensInv ==
    /\ \A k \in 1..MaxTokens :
          k > minted => Clean(k) /\ \A w \in lateTokens : w.tok # k
    /\ \A w \in lateTokens : Clean(w.tok)
    /\ \A v, w \in lateTokens : v.tok = w.tok => v = w

\* Nothing lies in the future.
ClockInv ==
    /\ \A k \in 0..MaxTokens : born[k] <= clock
    /\ \A p \in Procs, s \in Scopes : mark[p][s] <= clock

\* The oldest that a token read from scope s can be from now on.
Level(s) == IF token[s] = NoToken THEN clock ELSE born[token[s]]

\* Promises are kept by the tokens, or the process still owes a rotation.
LevelInv ==
    /\ \A s \in Scopes : notified[s] <= Level(s)
    /\ \A p \in Procs, s \in Scopes : s \in pending[p] \/ mark[p][s] <= Level(s)

\* A result was read after its tokens were installed.
EntryInv ==
    \A e \in store \cup lateFills :
        \A s \in ScopesOf[e.key.q] : born[e.key.gens[s]] <= e.asof

RowInv ==
    \A t \in Threads :
        pc[t] \in {"fill", "publish", "confirm", "hit"} =>
            \A s \in ScopesOf[query[t]] : born[gens[t][s]] <= row[t]

\* The tokens confirmed so far are younger than what was promised at lookup.
ConfirmInv ==
    \A t \in Threads :
        pc[t] = "confirm" =>
            /\ \A s \in Scopes : since[t][s] <= Promised(ProcOf[t])[s]
            /\ same[t] => \A s \in ScopesOf[query[t]] \ todo[t] :
                             since[t][s] <= born[gens[t][s]]

\* The scopes a clear() has dealt with keep what it is going to promise.
ClearInv ==
    \A t \in Threads :
        pc[t] = "clearing" =>
            \A s \in Scopes :
                /\ mark[ProcOf[t]][s] <= since[t][s] /\ since[t][s] <= clock
                /\ s \notin todo[t] => since[t][s] <= Level(s)

\* The inductive invariant of the generation protocol.
FreshInv ==
    /\ TypeOK /\ TokensInv /\ ClockInv /\ LevelInv /\ EntryInv
    /\ RowInv /\ ConfirmInv /\ ClearInv /\ HitIsFresh

\* A thread whose fence still holds has read its rows after every invalidation
\* of its process, and the lock keeps the fence while the thread publishes.
FenceInv ==
    \A t \in Threads :
        LET p == ProcOf[t] IN
        /\ fence[t] <= generation[p]
        /\ pc[t] = "publish" => fence[t] = generation[p]
        /\ pc[t] \in {"fill", "publish"} /\ fence[t] = generation[p] =>
              \A s \in Scopes : mark[p][s] <= row[t]

\* The inductive invariant of the local fence and of the index of keys.
LocalInv ==
    /\ TypeOK /\ \A p \in Procs, s \in Scopes : mark[p][s] <= clock
    /\ FenceInv /\ BlockedKeysStayIndexed
=============================================================================
