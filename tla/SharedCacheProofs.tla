------------------------- MODULE SharedCacheProofs -------------------------
(***************************************************************************)
(* The proofs about the shared cache, in three parts.                      *)
(*                                                                         *)
(* 1. Type correctness, and what a process keeps on its own, whatever the  *)
(*    backend does: its fence against its own invalidations and its index  *)
(*    of blocked keys.  One case for each action of SharedCache.           *)
(* 2. What one step does to each part of the state that the freshness      *)
(*    invariant mentions.  Every lemma goes through the actions of Next    *)
(*    once, so that part 3 reasons about effects alone.                    *)
(* 3. FreshInv is inductive, hence a hit is never older than what had been *)
(*    promised when the result was looked up, for any number of processes, *)
(*    threads, scopes, querysets, invalidations and faults; and the step   *)
(*    simulation by which the cache implements FreshReads.                 *)
(***************************************************************************)
EXTENDS SharedCacheInvariant, TLAPS

----------------------------------------------------------------------------
(* Part 1: types, the fence and the index.                                 *)

\* rotate_generation leaves the tokens, their history and the late writes well typed.
LEMMA RotateType ==
    ASSUME TokenType, clock \in Nat, NEW s \in Scopes, RotateApplied(s) PROVE TokenType'
  BY BoundsAssumption DEF TokenType, RotateApplied, Mint, Install

\* So does the creation of a missing token.
LEMMA AddType ==
    ASSUME TokenType, clock \in Nat, NEW s \in Scopes, AddApplied(s) PROVE TokenType'
  BY BoundsAssumption DEF TokenType, AddApplied, Mint, Install

\* So does a token write that raised, whichever of its outcomes came about.
LEMMA RaisedType ==
    ASSUME TokenType, BudgetType, NEW s \in Scopes, RotateRaised(s) \/ ReadRaised(s)
    PROVE  TokenType' /\ faults' \in Nat
<1>1. CASE UNCHANGED <<token, born, notified, lateTokens, minted, faults>>
  BY <1>1 DEF TokenType, BudgetType
<1>2. CASE Fault /\ RotateApplied(s)
  BY <1>2, RotateType DEF Fault, BudgetType
<1>3. CASE Fault /\ AddApplied(s)
  BY <1>3, AddType DEF Fault, BudgetType
<1>4. CASE Fault /\ (WriteDelayed(s, "ADD") \/ WriteDelayed(s, "SET"))
  <2>1. CASE WriteDelayed(s, "ADD")
    BY <1>4, <2>1, BoundsAssumption DEF Fault, BudgetType, TokenType, WriteDelayed, Mint
  <2>2. CASE WriteDelayed(s, "SET")
    BY <1>4, <2>2, BoundsAssumption DEF Fault, BudgetType, TokenType, WriteDelayed, Mint
  <2>3. QED
    BY <1>4, <2>1, <2>2
<1>5. QED
  BY <1>1, <1>2, <1>3, <1>4, Zenon DEF RotateRaised, ReadRaised

\* The end of a call leaves the thread's locals well typed and without operand.
LEMMA ReturnType ==
    ASSUME FrameType, OperandType, NEW t \in Threads, Return(t)
    PROVE  FrameType' /\ OperandType'
  BY BoundsAssumption
     DEF FrameType, OperandType, Return, Goto, Labels, ReadLabels, NoTokens, NoToken, Zero

\* A lookup that missed either ends the call or goes on to the SQL with the
\* same queryset.
LEMMA MissType ==
    ASSUME FrameType, OperandType, ProcessType, NEW t \in Threads, pc[t] \in ReadLabels, Miss(t)
    PROVE  FrameType' /\ OperandType'
<1>1. CASE Return(t)
  BY <1>1, ReturnType
<1>2. CASE ~Return(t)
  <2>1. generation[ProcOf[t]] \in Nat
    BY ThreadsAssumption DEF ProcessType
  <2>2. /\ pc' = [pc EXCEPT ![t] = "sql"]
        /\ fence' = [fence EXCEPT ![t] = generation[ProcOf[t]]]
        /\ row' = [row EXCEPT ![t] = 0]
        /\ todo' = [todo EXCEPT ![t] = {}]
        /\ same' = [same EXCEPT ![t] = TRUE]
        /\ since' = [since EXCEPT ![t] = Zero]
        /\ UNCHANGED <<query, gens, scope, victims>>
    BY <1>2, Zenon DEF Miss, Goto
  <2>3. FrameType'
    BY <2>1, <2>2 DEF FrameType, Labels, ReadLabels, Zero
  <2>4. OperandType'
    BY <2>2 DEF FrameType, OperandType, ReadLabels
  <2>5. QED
    BY <2>3, <2>4
<1>3. QED
  BY <1>1, <1>2

\* Every step of every operation and of the environment keeps the types.
LEMMA TypeStep == TypeOK /\ [Next]_vars => TypeOK'
<1> SUFFICES ASSUME TypeOK, [Next]_vars PROVE TypeOK'
  OBVIOUS
<1>0. BudgetType /\ TokenType /\ StoreType /\ ProcessType /\ FrameType /\ OperandType
  BY DEF TypeOK
<1>1. ASSUME NEW t \in Threads, NEW q \in Queries, BeginRead(t, q) PROVE TypeOK'
  <2>1. BudgetType' /\ TokenType' /\ StoreType' /\ ProcessType'
    BY <1>0, <1>1
       DEF BeginRead, BudgetType, TokenType, StoreType, ProcessType, backend, process, budget
  <2>2. FrameType' /\ OperandType'
    BY <1>0, <1>1, ScopesAssumption
       DEF BeginRead, FrameType, backend, process, budget, OperandType, Goto, Labels,
           ReadLabels, Dependencies
  <2>3. QED
    BY <2>1, <2>2 DEF TypeOK
<1>2. ASSUME NEW t \in Threads, NEW s \in Scopes, RetryRotation(t, s) PROVE TypeOK'
  <2>1. BudgetType' /\ StoreType' /\ FrameType' /\ OperandType'
    BY <1>0, <1>2 DEF RetryRotation, BudgetType, StoreType, FrameType, OperandType, frame, budget
  <2>2. TokenType'
    BY <1>0, <1>2, RotateType DEF RetryRotation, TokenType, frame, budget, BudgetType
  <2>3. ProcessType'
    BY <1>0, <1>2, ThreadsAssumption DEF RetryRotation, ProcessType, frame, budget
  <2>4. QED
    BY <2>1, <2>2, <2>3 DEF TypeOK
<1>3. ASSUME NEW t \in Threads, NEW s \in Scopes, AddToken(t, s) PROVE TypeOK'
  <2>1. BudgetType' /\ StoreType' /\ ProcessType' /\ FrameType' /\ OperandType'
    BY <1>0, <1>3
       DEF AddToken, BudgetType, StoreType, ProcessType, FrameType, OperandType, process,
           frame, budget
  <2>2. TokenType'
    BY <1>0, <1>3, AddType DEF AddToken, TokenType, process, frame, budget, BudgetType
  <2>3. QED
    BY <2>1, <2>2 DEF TypeOK
<1>4. ASSUME NEW t \in Threads, NEW s \in Scopes, ReadToken(t, s) PROVE TypeOK'
  <2>1. token[s] \in 0..MaxTokens
    BY <1>0 DEF TokenType
  <2>2. gens' = gens \/ gens' = [gens EXCEPT ![t] = [gens[t] EXCEPT ![s] = token[s]]]
    BY <1>0, <1>4 DEF ReadToken, FrameType
  <2>3. gens' \in [Threads -> [Scopes -> 0..MaxTokens]]
    <3>1. gens[t] \in [Scopes -> 0..MaxTokens]
      BY <1>0 DEF FrameType
    <3>2. [gens[t] EXCEPT ![s] = token[s]] \in [Scopes -> 0..MaxTokens]
      BY <2>1, <3>1
    <3>3. QED
      BY <1>0, <2>2, <3>2 DEF FrameType
  <2>4. same' \in [Threads -> BOOLEAN]
    BY <1>0, <1>4 DEF ReadToken, FrameType
  <2>5. BudgetType' /\ TokenType' /\ StoreType' /\ ProcessType'
    BY <1>0, <1>4
       DEF ReadToken, BudgetType, TokenType, StoreType, ProcessType, backend, process, budget
  <2>6. FrameType' /\ OperandType'
    BY <1>0, <1>4, <2>1, <2>2, <2>3, <2>4
       DEF ReadToken, FrameType, backend, process, budget, OperandType, Goto, Labels,
           ReadLabels, TokenType, Reading
  <2>7. QED
    BY <2>5, <2>6 DEF TypeOK
<1>5. ASSUME NEW t \in Threads, Unavailable(t) PROVE TypeOK'
  <2>1. PICK s \in todo[t] : RotateRaised(s) \/ ReadRaised(s)
    BY <1>5, Zenon DEF Unavailable
  <2>2. s \in Scopes
    BY <1>0 DEF FrameType
  <2>3. StoreType' /\ ProcessType'
    BY <1>0, <1>5 DEF Unavailable, StoreType, ProcessType, process
  <2>4. BudgetType'
    BY <1>0, <1>5, <2>1, <2>2, RaisedType DEF Unavailable, BudgetType, process
  <2>5. TokenType'
    BY <1>0, <1>5, <2>1, <2>2, RaisedType DEF Unavailable, TokenType, process
  <2>6. FrameType' /\ OperandType'
    BY <1>0, <1>5, <2>1, <2>2, ReturnType, MissType
       DEF Unavailable, FrameType, process, OperandType, Goto, Labels, ReadLabels, Reading
  <2>7. QED
    BY <2>3, <2>4, <2>5, <2>6 DEF TypeOK
<1>6. ASSUME NEW t \in Threads, EndCapture(t) PROVE TypeOK'
  <2>1. BudgetType' /\ TokenType' /\ StoreType' /\ ProcessType'
    BY <1>0, <1>6
       DEF EndCapture, BudgetType, TokenType, StoreType, ProcessType, backend, process, frame,
           budget
  <2>2. FrameType' /\ OperandType'
    BY <1>0, <1>6
       DEF EndCapture, FrameType, backend, process, frame, budget, OperandType, Goto, Labels,
           ReadLabels
  <2>3. QED
    BY <2>1, <2>2 DEF TypeOK
<1>7. ASSUME NEW t \in Threads, LookupMiss(t) PROVE TypeOK'
  <2>1. TokenType' /\ StoreType' /\ ProcessType'
    BY <1>0, <1>7 DEF LookupMiss, TokenType, StoreType, ProcessType, backend, process
  <2>2. BudgetType'
    BY <1>0, <1>7 DEF LookupMiss, BudgetType, backend, process, Fault
  <2>3. FrameType' /\ OperandType'
    BY <1>0, <1>7, MissType
       DEF LookupMiss, FrameType, backend, process, OperandType, Goto, Labels, ReadLabels
  <2>4. QED
    BY <2>1, <2>2, <2>3 DEF TypeOK
<1>8. ASSUME NEW t \in Threads, LookupFound(t) PROVE TypeOK'
  <2>1. Promised(ProcOf[t]) \in [Scopes -> Nat]
    BY <1>0, ThreadsAssumption DEF Promised, Later, TokenType, ProcessType
  <2>2. PICK e \in store : row' = [row EXCEPT ![t] = e.asof]
    BY <1>8 DEF LookupFound
  <2>3. e.asof \in Nat
    BY <1>0 DEF StoreType, Entry
  <2>4. todo' = [todo EXCEPT ![t] = Dependencies(query[t])] /\ Dependencies(query[t]) \subseteq Scopes
    BY <1>0, <1>8, ScopesAssumption DEF LookupFound, Dependencies, OperandType, ReadLabels
  <2>5. BudgetType' /\ TokenType' /\ StoreType' /\ ProcessType'
    BY <1>0, <1>8
       DEF LookupFound, BudgetType, TokenType, StoreType, ProcessType, backend, process, budget
  <2>6. FrameType' /\ OperandType'
    BY <1>0, <1>8, <2>1, <2>2, <2>3, <2>4, ScopesAssumption, ThreadsAssumption
       DEF LookupFound, FrameType, backend, process, budget, OperandType, Goto, Labels,
           ReadLabels, Dependencies, Promised, Later, TokenType, ProcessType, StoreType, Entry
  <2>7. QED
    BY <2>5, <2>6 DEF TypeOK
<1>9. ASSUME NEW t \in Threads, Hit(t) PROVE TypeOK'
  <2>1. BudgetType' /\ TokenType' /\ StoreType'
    BY <1>0, <1>9 DEF Hit, BudgetType, TokenType, StoreType, backend, frame, budget
  <2>2. ProcessType'
    BY <1>0, <1>9, ThreadsAssumption
       DEF Hit, ProcessType, backend, frame, budget, Register, KeyOf, Key, FrameType,
           OperandType, ReadLabels
  <2>3. FrameType' /\ OperandType'
    BY <1>0, <1>9
       DEF Hit, FrameType, backend, frame, budget, OperandType, Goto, Labels, ReadLabels
  <2>4. QED
    BY <2>1, <2>2, <2>3 DEF TypeOK
<1>10. ASSUME NEW t \in Threads, Superseded(t) PROVE TypeOK'
  <2>1. BudgetType' /\ TokenType' /\ StoreType' /\ ProcessType'
    BY <1>0, <1>10
       DEF Superseded, BudgetType, TokenType, StoreType, ProcessType, backend, process, budget
  <2>2. FrameType' /\ OperandType'
    BY <1>0, <1>10, MissType
       DEF Superseded, FrameType, backend, process, budget, OperandType, Goto, Labels,
           ReadLabels
  <2>3. QED
    BY <2>1, <2>2 DEF TypeOK
<1>11. ASSUME NEW t \in Threads, ReturnRows(t) PROVE TypeOK'
  <2>1. BudgetType' /\ TokenType' /\ StoreType' /\ ProcessType'
    BY <1>0, <1>11
       DEF ReturnRows, BudgetType, TokenType, StoreType, ProcessType, backend, process, budget
  <2>2. FrameType' /\ OperandType'
    BY <1>0, <1>11, ReturnType
       DEF ReturnRows, FrameType, backend, process, budget, OperandType, Goto, Labels,
           ReadLabels
  <2>3. QED
    BY <2>1, <2>2 DEF TypeOK
<1>12. ASSUME NEW t \in Threads, Sql(t) PROVE TypeOK'
  <2>1. BudgetType' /\ TokenType' /\ StoreType' /\ ProcessType'
    BY <1>0, <1>12
       DEF Sql, BudgetType, TokenType, StoreType, ProcessType, backend, process, budget
  <2>2. FrameType' /\ OperandType'
    BY <1>0, <1>12
       DEF Sql, FrameType, backend, process, budget, OperandType, Goto, Labels, ReadLabels,
           BudgetType
  <2>3. QED
    BY <2>1, <2>2 DEF TypeOK
<1>13. ASSUME NEW t \in Threads, BeginFill(t) PROVE TypeOK'
  <2>1. BudgetType' /\ TokenType' /\ StoreType' /\ ProcessType'
    BY <1>0, <1>13
       DEF BeginFill, BudgetType, TokenType, StoreType, ProcessType, backend, process, budget
  <2>2. FrameType' /\ OperandType'
    BY <1>0, <1>13, ScopesAssumption
       DEF BeginFill, FrameType, backend, process, budget, OperandType, Goto, Labels,
           ReadLabels, Dependencies
  <2>3. QED
    BY <2>1, <2>2 DEF TypeOK
<1>14. ASSUME NEW t \in Threads, SkipFill(t) PROVE TypeOK'
  <2>1. BudgetType' /\ TokenType' /\ StoreType' /\ ProcessType'
    BY <1>0, <1>14
       DEF SkipFill, BudgetType, TokenType, StoreType, ProcessType, backend, process, budget
  <2>2. FrameType' /\ OperandType'
    BY <1>0, <1>14, ReturnType
       DEF SkipFill, FrameType, backend, process, budget, OperandType, Goto, Labels, ReadLabels
  <2>3. QED
    BY <2>1, <2>2 DEF TypeOK
<1>15. ASSUME NEW t \in Threads, Publish(t) PROVE TypeOK'
  <2>1. BudgetType' /\ TokenType'
    BY <1>0, <1>15 DEF Publish, BudgetType, TokenType, budget
  <2>2. StoreType'
    BY <1>0, <1>15
       DEF Publish, StoreType, budget, Entry, Key, Written, KeyOf, FrameType, OperandType,
           ReadLabels
  <2>3. ProcessType'
    BY <1>0, <1>15, ThreadsAssumption
       DEF Publish, ProcessType, budget, Register, KeyOf, Key, FrameType, OperandType,
           ReadLabels
  <2>4. FrameType' /\ OperandType'
    BY <1>0, <1>15, ReturnType
       DEF Publish, FrameType, budget, OperandType, Goto, Labels, ReadLabels
  <2>5. QED
    BY <2>1, <2>2, <2>3, <2>4 DEF TypeOK
<1>16. ASSUME NEW t \in Threads, PublishFails(t) PROVE TypeOK'
  <2>1. TokenType' /\ ProcessType'
    BY <1>0, <1>16 DEF PublishFails, TokenType, ProcessType, process
  <2>2. BudgetType'
    BY <1>0, <1>16 DEF PublishFails, BudgetType, process, Fault
  <2>3. StoreType'
    BY <1>0, <1>16
       DEF PublishFails, StoreType, process, Entry, Key, Written, KeyOf, FrameType,
           OperandType, ReadLabels
  <2>4. FrameType' /\ OperandType'
    BY <1>0, <1>16, ReturnType
       DEF PublishFails, FrameType, process, OperandType, Goto, Labels, ReadLabels
  <2>5. QED
    BY <2>1, <2>2, <2>3, <2>4 DEF TypeOK
<1>17. ASSUME NEW t \in Threads, NEW s \in Scopes, Commit(t, s) PROVE TypeOK'
  <2>1. TokenType' /\ StoreType' /\ ProcessType'
    BY <1>0, <1>17 DEF Commit, TokenType, StoreType, ProcessType, backend, process, budget
  <2>2. BudgetType'
    BY <1>0, <1>17 DEF Commit, BudgetType, backend, process, budget
  <2>3. FrameType' /\ OperandType'
    BY <1>0, <1>17
       DEF Commit, FrameType, backend, process, budget, OperandType, Goto, Labels, ReadLabels
  <2>4. QED
    BY <2>1, <2>2, <2>3 DEF TypeOK
<1>18. ASSUME NEW t \in Threads, NEW s \in Scopes, CallInvalidate(t, s) PROVE TypeOK'
  <2>1. TokenType' /\ StoreType' /\ ProcessType'
    BY <1>0, <1>18 DEF CallInvalidate, TokenType, StoreType, ProcessType, backend, process
  <2>2. BudgetType'
    BY <1>0, <1>18 DEF CallInvalidate, BudgetType, backend, process
  <2>3. FrameType' /\ OperandType'
    BY <1>0, <1>18
       DEF CallInvalidate, FrameType, backend, process, OperandType, Goto, Labels, ReadLabels
  <2>4. QED
    BY <2>1, <2>2, <2>3 DEF TypeOK
<1>19. ASSUME NEW t \in Threads, Invalidate(t) PROVE TypeOK'
  <2>1. scope[t] \in Scopes
    BY <1>0, <1>19 DEF Invalidate, OperandType
  <2>2. ProcOf[t] \in Procs
    BY ThreadsAssumption
  <2>3. StoreType'
    BY <1>0, <1>19 DEF Invalidate, StoreType
  <2>4. BudgetType'
    BY <1>0, <1>19, <2>1, <2>2, RaisedType DEF Invalidate, BudgetType
  <2>5. TokenType'
    BY <1>0, <1>19, <2>1, <2>2, RotateType, RaisedType DEF Invalidate, TokenType, BudgetType
  <2>6. ProcessType'
    <3> DEFINE p    == ProcOf[t]
               keys == {k \in indexed[p] : scope[t] \in ScopesOf[k.q]}
    <3>1. mark[p] \in [Scopes -> Nat] /\ keys \subseteq Key
      BY <1>0, <2>2 DEF ProcessType
    <3>2. [mark[p] EXCEPT ![scope[t]] = clock] \in [Scopes -> Nat]
      BY <1>0, <2>1, <3>1 DEF BudgetType
    <3>3. mark' = [mark EXCEPT ![p] = [mark[p] EXCEPT ![scope[t]] = clock]]
      BY <1>0, <1>19, <2>2 DEF Invalidate, ProcessType
    <3>4. mark' \in [Procs -> [Scopes -> Nat]]
      BY <1>0, <3>2, <3>3 DEF ProcessType
    <3>5. pending' \in [Procs -> SUBSET Scopes]
      BY <1>0, <1>19, <2>1 DEF Invalidate, ProcessType
    <3>6. invalidated' = [invalidated EXCEPT ![p] = @ \cup keys]
      BY <1>19 DEF Invalidate
    <3>7. invalidated' \in [Procs -> SUBSET Key]
      BY <1>0, <3>1, <3>6 DEF ProcessType
    <3>8. generation' \in [Procs -> Nat] /\ UNCHANGED <<indexed, clearFailed>>
      BY <1>0, <1>19, <2>2 DEF Invalidate, ProcessType
    <3>9. QED
      BY <1>0, <3>4, <3>5, <3>7, <3>8 DEF ProcessType
  <2>7. FrameType' /\ OperandType'
    BY <1>0, <1>19, <2>1, <2>2, ThreadsAssumption
       DEF Invalidate, FrameType, OperandType, Goto, Labels, ReadLabels, ProcessType
  <2>8. QED
    BY <2>3, <2>4, <2>5, <2>6, <2>7 DEF TypeOK
<1>20. ASSUME NEW t \in Threads, NEW k \in victims[t], DeleteKey(t, k) PROVE TypeOK'
  <2>1. BudgetType' /\ TokenType'
    BY <1>0, <1>20 DEF DeleteKey, BudgetType, TokenType, budget
  <2>2. StoreType'
    BY <1>0, <1>20 DEF DeleteKey, StoreType, budget, Entry, Key
  <2>3. ProcessType'
    BY <1>0, <1>20, ThreadsAssumption DEF DeleteKey, ProcessType, budget, Unregister
  <2>4. FrameType' /\ OperandType'
    BY <1>0, <1>20 DEF DeleteKey, FrameType, budget, OperandType, Goto, Labels, ReadLabels
  <2>5. QED
    BY <2>1, <2>2, <2>3, <2>4 DEF TypeOK
<1>21. ASSUME NEW t \in Threads, NEW k \in victims[t], DeleteFails(t, k) PROVE TypeOK'
  <2>1. TokenType' /\ ProcessType'
    BY <1>0, <1>21 DEF DeleteFails, TokenType, ProcessType, process
  <2>2. BudgetType'
    BY <1>0, <1>21 DEF DeleteFails, BudgetType, process, Fault
  <2>3. StoreType'
    BY <1>0, <1>21 DEF DeleteFails, StoreType, process, Entry, Key
  <2>4. FrameType' /\ OperandType'
    BY <1>0, <1>21 DEF DeleteFails, FrameType, process, OperandType, Goto, Labels, ReadLabels
  <2>5. QED
    BY <2>1, <2>2, <2>3, <2>4 DEF TypeOK
<1>22. ASSUME NEW t \in Threads, EndInvalidate(t) PROVE TypeOK'
  <2>1. BudgetType' /\ TokenType' /\ StoreType' /\ ProcessType'
    BY <1>0, <1>22
       DEF EndInvalidate, BudgetType, TokenType, StoreType, ProcessType, backend, process,
           budget
  <2>2. FrameType' /\ OperandType'
    BY <1>0, <1>22, ReturnType
       DEF EndInvalidate, FrameType, backend, process, budget, OperandType, Goto, Labels,
           ReadLabels
  <2>3. QED
    BY <2>1, <2>2 DEF TypeOK
<1>23. ASSUME NEW t \in Threads, ClearBegin(t) PROVE TypeOK'
  <2>1. TokenType' /\ StoreType'
    BY <1>0, <1>23 DEF ClearBegin, TokenType, StoreType, backend
  <2>2. BudgetType'
    BY <1>0, <1>23 DEF ClearBegin, BudgetType, backend
  <2>3. ProcessType'
    BY <1>0, <1>23, ThreadsAssumption DEF ClearBegin, ProcessType, backend
  <2>4. FrameType' /\ OperandType'
    BY <1>0, <1>23
       DEF ClearBegin, FrameType, backend, OperandType, Goto, Labels, ReadLabels, BudgetType,
           Keys, StoreType, Entry, Present
  <2>5. QED
    BY <2>1, <2>2, <2>3, <2>4 DEF TypeOK
<1>24. ASSUME NEW t \in Threads, NEW s \in todo[t], ClearToken(t, s) PROVE TypeOK'
  <2>1. BudgetType' /\ StoreType' /\ ProcessType'
    BY <1>0, <1>24 DEF ClearToken, BudgetType, StoreType, ProcessType, process, budget
  <2>2. TokenType'
    BY <1>0, <1>24, BoundsAssumption
       DEF ClearToken, TokenType, process, budget, NoToken, FrameType
  <2>3. FrameType' /\ OperandType'
    BY <1>0, <1>24
       DEF ClearToken, FrameType, process, budget, OperandType, Goto, Labels, ReadLabels
  <2>4. QED
    BY <2>1, <2>2, <2>3 DEF TypeOK
<1>25. ASSUME NEW t \in Threads, NEW k \in victims[t], ClearEntry(t, k) PROVE TypeOK'
  <2>1. BudgetType' /\ TokenType' /\ ProcessType'
    BY <1>0, <1>25 DEF ClearEntry, BudgetType, TokenType, ProcessType, process, budget
  <2>2. StoreType'
    BY <1>0, <1>25 DEF ClearEntry, StoreType, process, budget, Entry, Key
  <2>3. FrameType' /\ OperandType'
    BY <1>0, <1>25
       DEF ClearEntry, FrameType, process, budget, OperandType, Goto, Labels, ReadLabels
  <2>4. QED
    BY <2>1, <2>2, <2>3 DEF TypeOK
<1>26. ASSUME NEW t \in Threads, ClearEnd(t) PROVE TypeOK'
  <2>1. BudgetType' /\ StoreType'
    BY <1>0, <1>26 DEF ClearEnd, BudgetType, StoreType, budget
  <2>2. TokenType'
    BY <1>0, <1>26 DEF ClearEnd, TokenType, budget, BudgetType, FrameType, Later
  <2>3. ProcessType'
    BY <1>0, <1>26, ThreadsAssumption DEF ClearEnd, ProcessType, budget
  <2>4. FrameType' /\ OperandType'
    BY <1>0, <1>26, ReturnType
       DEF ClearEnd, FrameType, budget, OperandType, Goto, Labels, ReadLabels
  <2>5. QED
    BY <2>1, <2>2, <2>3, <2>4 DEF TypeOK
<1>27. ASSUME NEW t \in Threads, ClearFails(t) PROVE TypeOK'
  <2>1. TokenType' /\ StoreType'
    BY <1>0, <1>27 DEF ClearFails, TokenType, StoreType, backend
  <2>2. BudgetType'
    BY <1>0, <1>27 DEF ClearFails, BudgetType, backend, Fault
  <2>3. ProcessType'
    BY <1>0, <1>27, ThreadsAssumption DEF ClearFails, ProcessType, backend
  <2>4. FrameType' /\ OperandType'
    BY <1>0, <1>27, ReturnType
       DEF ClearFails, FrameType, backend, OperandType, Goto, Labels, ReadLabels
  <2>5. QED
    BY <2>1, <2>2, <2>3, <2>4 DEF TypeOK
<1>28. ASSUME NEW w \in lateTokens, DeliverToken(w) PROVE TypeOK'
  <2>1. w.scope \in Scopes /\ w.tok \in 1..MaxTokens
    BY <1>0 DEF TokenType
  <2>2. lateTokens' \subseteq lateTokens /\ UNCHANGED minted
    BY <1>28 DEF DeliverToken, Arrived
  <2>3. token' \in [Scopes -> 0..MaxTokens] /\ born' \in [0..MaxTokens -> Nat] /\ notified' \in [Scopes -> Nat]
    <3>1. CASE UNCHANGED <<token, born, notified>>
      BY <1>0, <3>1 DEF TokenType
    <3>2. CASE Install(w.scope, w.tok) /\ notified' \in {notified, [notified EXCEPT ![w.scope] = clock]}
      <4>1. w.tok \in 0..MaxTokens /\ clock \in Nat
        BY <1>0, <2>1, BoundsAssumption DEF BudgetType
      <4>2. token' = [token EXCEPT ![w.scope] = w.tok] /\ born' = [born EXCEPT ![w.tok] = clock]
        BY <3>2 DEF Install
      <4>3. token' \in [Scopes -> 0..MaxTokens]
        BY <1>0, <4>1, <4>2 DEF TokenType
      <4>4. born' \in [0..MaxTokens -> Nat]
        BY <1>0, <4>1, <4>2 DEF TokenType
      <4>5. notified' \in [Scopes -> Nat]
        BY <1>0, <3>2, <4>1 DEF TokenType
      <4>6. QED
        BY <4>3, <4>4, <4>5
    <3>3. QED
      BY <1>28, <3>1, <3>2 DEF DeliverToken
  <2>4. BudgetType' /\ StoreType' /\ ProcessType' /\ FrameType' /\ OperandType'
    BY <1>0, <1>28
       DEF DeliverToken, BudgetType, StoreType, ProcessType, FrameType, OperandType, process,
           frame, budget
  <2>5. TokenType'
    BY <1>0, <1>28, <2>1, <2>2, <2>3, BoundsAssumption
       DEF DeliverToken, TokenType, process, frame, budget, Install, Arrived, BudgetType
  <2>6. QED
    BY <2>4, <2>5 DEF TypeOK
<1>29. ASSUME NEW e \in lateFills, DeliverFill(e) PROVE TypeOK'
  <2>1. BudgetType' /\ TokenType' /\ ProcessType' /\ FrameType' /\ OperandType'
    BY <1>0, <1>29
       DEF DeliverFill, BudgetType, TokenType, ProcessType, FrameType, OperandType, process,
           frame, budget
  <2>2. StoreType'
    BY <1>0, <1>29 DEF DeliverFill, StoreType, process, frame, budget, Entry, Key, Written
  <2>3. QED
    BY <2>1, <2>2 DEF TypeOK
<1>30. ASSUME NEW s \in Scopes, EvictToken(s) PROVE TypeOK'
  <2>1. StoreType' /\ ProcessType' /\ FrameType' /\ OperandType'
    BY <1>0, <1>30 DEF EvictToken, StoreType, ProcessType, FrameType, OperandType, process, frame
  <2>2. BudgetType'
    BY <1>0, <1>30 DEF EvictToken, BudgetType, process, frame, Fault
  <2>3. TokenType'
    BY <1>0, <1>30, BoundsAssumption DEF EvictToken, TokenType, process, frame, NoToken
  <2>4. QED
    BY <2>1, <2>2, <2>3 DEF TypeOK
<1>31. ASSUME NEW e \in store, EvictEntry(e) PROVE TypeOK'
  <2>1. TokenType' /\ ProcessType' /\ FrameType' /\ OperandType'
    BY <1>0, <1>31 DEF EvictEntry, TokenType, ProcessType, FrameType, OperandType, process, frame
  <2>2. BudgetType'
    BY <1>0, <1>31 DEF EvictEntry, BudgetType, process, frame, Fault
  <2>3. StoreType'
    BY <1>0, <1>31 DEF EvictEntry, StoreType, process, frame, Entry, Key
  <2>4. QED
    BY <2>1, <2>2, <2>3 DEF TypeOK
<1>32. ASSUME NEW p \in Procs, Restart(p) PROVE TypeOK'
  <2>1. TokenType' /\ StoreType'
    BY <1>0, <1>32 DEF Restart, TokenType, StoreType, backend
  <2>2. BudgetType'
    BY <1>0, <1>32 DEF Restart, BudgetType, backend, Fault
  <2>3. ProcessType'
    BY <1>0, <1>32, ThreadsAssumption DEF Restart, ProcessType, backend, Zero
  <2>4. FrameType'
    <3>1. pc' \in [Threads -> Labels]
      BY <1>0, <1>32 DEF Restart, FrameType, Labels, ReadLabels
    <3>2. /\ query' \in [Threads -> Queries \cup {None}]
          /\ scope' \in [Threads -> Scopes \cup {None}]
      BY <1>0, <1>32 DEF Restart, FrameType
    <3>3. gens' \in [Threads -> [Scopes -> 0..MaxTokens]]
      BY <1>0, <1>32, BoundsAssumption DEF Restart, FrameType, NoTokens, NoToken
    <3>4. since' \in [Threads -> [Scopes -> Nat]]
      BY <1>0, <1>32 DEF Restart, FrameType, Zero
    <3>5. /\ todo' \in [Threads -> SUBSET Scopes]
          /\ victims' \in [Threads -> SUBSET Key]
      BY <1>0, <1>32 DEF Restart, FrameType
    <3>6. same' \in [Threads -> BOOLEAN]
      BY <1>0, <1>32 DEF Restart, FrameType
    <3>7. fence' \in [Threads -> Nat] /\ row' \in [Threads -> Nat]
      BY <1>0, <1>32 DEF Restart, FrameType
    <3>8. QED
      BY <3>1, <3>2, <3>3, <3>4, <3>5, <3>6, <3>7 DEF FrameType
  <2>5. OperandType'
    BY <1>0, <1>32 DEF Restart, FrameType, OperandType, ReadLabels
  <2>6. QED
    BY <2>1, <2>2, <2>3, <2>4, <2>5 DEF TypeOK
<1>33. CASE UNCHANGED vars
  BY <1>0, <1>33
     DEF vars, backend, process, frame, budget, TypeOK, BudgetType, TokenType, StoreType,
         ProcessType, FrameType, OperandType
<1>34. QED
  BY <1>1, <1>2, <1>3, <1>4, <1>5, <1>6, <1>7, <1>8, <1>9, <1>10, <1>11, <1>12, <1>13,
     <1>14, <1>15, <1>16, <1>17, <1>18, <1>19, <1>20, <1>21, <1>22, <1>23, <1>24, <1>25,
     <1>26, <1>27, <1>28, <1>29, <1>30, <1>31, <1>32, <1>33
     DEF Next, ReadStep, WriteStep, ClearStep, Environment

\* A fleet of processes that has just started is well typed.
LEMMA TypeInit == Init => TypeOK
<1> SUFFICES ASSUME Init PROVE TypeOK
  OBVIOUS
<1> USE BoundsAssumption DEF Init
<1>1. BudgetType /\ StoreType
  BY DEF BudgetType, StoreType
<1>2. TokenType
  BY DEF TokenType, NoTokens, NoToken, Zero
<1>3. ProcessType
  BY DEF ProcessType, Zero
<1>4. FrameType /\ OperandType
  BY DEF FrameType, OperandType, Labels, ReadLabels, NoTokens, NoToken, Zero
<1>5. QED
  BY <1>1, <1>2, <1>3, <1>4 DEF TypeOK

\* Type correctness: whatever the calls, the failures and the interleaving,
\* every variable keeps its type and every call the operand it works on.
THEOREM TypeCorrect == Spec => []TypeOK
  BY TypeInit, TypeStep, PTL DEF Spec

----------------------------------------------------------------------------
(* The fence and the index of a process.                                   *)

\* What a step does to the fence of a process.
Kept(p)    == generation'[p] = generation[p] /\ mark'[p] = mark[p]
Raised(p)  == generation'[p] = generation[p] + 1 /\ LockFree(p)
Reborn(p)  == /\ generation'[p] = 0 /\ mark'[p] = Zero
              /\ \A t \in Threads : ProcOf[t] = p => pc'[t] = "idle" /\ fence'[t] = 0

GenerationEffect(p) ==
    /\ Kept(p) \/ Raised(p) \/ Reborn(p)
    /\ \A s \in Scopes : mark'[p][s] \in {mark[p][s], clock, 0}
    /\ clock <= clock'

\* A step raises a process's generation by one, starts the process anew, or
\* leaves both its generation and its invalidations as they were.
LEMMA GenerationStep ==
    ASSUME TypeOK, [Next]_vars, NEW p \in Procs PROVE GenerationEffect(p)
<1>t. /\ generation \in [Procs -> Nat] /\ mark \in [Procs -> [Scopes -> Nat]] /\ clock \in Nat
  BY DEF TypeOK, ProcessType, BudgetType
<1>1. CASE UNCHANGED <<generation, mark>> /\ clock' \in {clock, clock + 1}
  BY <1>1, <1>t DEF GenerationEffect, Kept
<1>2. CASE \E t \in Threads :
               \/ \E q \in Queries : BeginRead(t, q)
               \/ \E s \in Scopes : Commit(t, s) \/ CallInvalidate(t, s)
               \/ ReadStep(t)
  <2>1. UNCHANGED <<generation, mark>> /\ clock' \in {clock, clock + 1}
    BY <1>2 DEF BeginRead, Commit, CallInvalidate, ReadStep, RetryRotation, AddToken, ReadToken,
                Unavailable, EndCapture, LookupMiss, LookupFound, Hit, Superseded, ReturnRows,
                Sql, BeginFill, SkipFill, Publish, PublishFails, process
  <2>2. QED
    BY <1>1, <2>1
<1>3. CASE \/ \E t \in Threads :
                 \/ \E k \in victims[t] : DeleteKey(t, k) \/ DeleteFails(t, k)
                 \/ EndInvalidate(t) \/ ClearStep(t)
           \/ \E w \in lateTokens : DeliverToken(w)
           \/ \E e \in lateFills : DeliverFill(e)
           \/ \E s \in Scopes : EvictToken(s)
           \/ \E e \in store : EvictEntry(e)
           \/ UNCHANGED vars
  <2>1. UNCHANGED <<generation, mark>> /\ clock' \in {clock, clock + 1}
    BY <1>3 DEF DeleteKey, DeleteFails, EndInvalidate, ClearStep, ClearToken, ClearEntry,
                ClearEnd, ClearFails, DeliverToken, DeliverFill, EvictToken, EvictEntry, vars,
                process
  <2>2. QED
    BY <1>1, <2>1
<1>4. ASSUME NEW t \in Threads, Invalidate(t)
      PROVE  GenerationEffect(p)
  <2>1. /\ LockFree(ProcOf[t]) /\ generation' = [generation EXCEPT ![ProcOf[t]] = @ + 1]
        /\ mark' = [mark EXCEPT ![ProcOf[t]][scope[t]] = clock] /\ UNCHANGED clock
    BY <1>4, Zenon DEF Invalidate
  <2>2. scope[t] \in Scopes /\ ProcOf[t] \in Procs
    BY <1>4, ThreadsAssumption DEF Invalidate, TypeOK, OperandType
  <2>3. mark'[ProcOf[t]] = [mark[ProcOf[t]] EXCEPT ![scope[t]] = clock]
    BY <2>1, <2>2, <1>t
  <2>4. p # ProcOf[t] => mark'[p] = mark[p] /\ generation'[p] = generation[p]
    BY <2>1, <1>t
  <2>5. p = ProcOf[t] => Raised(p)
    BY <2>1, <1>t DEF Raised
  <2>6. QED
    BY <2>1, <2>2, <2>3, <2>4, <2>5, <1>t DEF GenerationEffect, Kept
<1>5. ASSUME NEW t \in Threads, ClearBegin(t)
      PROVE  GenerationEffect(p)
  BY <1>5, <1>t DEF GenerationEffect, Kept, Raised, ClearBegin
<1>6. ASSUME NEW r \in Procs, Restart(r)
      PROVE  GenerationEffect(p)
  <2>1. CASE r = p
    <3>1. Reborn(p) /\ UNCHANGED clock
      BY <1>6, <1>t, <2>1 DEF Reborn, Restart
    <3>2. QED
      BY <3>1, <1>t DEF GenerationEffect, Reborn, Zero
  <2>2. CASE r # p
    BY <1>6, <1>t, <2>2 DEF GenerationEffect, Kept, Restart
  <2>3. QED
    BY <2>1, <2>2
<1>7. QED
  BY <1>2, <1>3, <1>4, <1>5, <1>6 DEF Next, WriteStep, Environment

\* What a step does to the fence and the rows of a thread.
FenceEffect(u) ==
    \/ pc'[u] = pc[u] /\ fence'[u] = fence[u] /\ row'[u] = row[u]
    \/ /\ pc'[u] \notin {"fill", "publish"}
       /\ fence'[u] \in {fence[u], 0, generation[ProcOf[u]]}
    \/ pc'[u] = "fill" /\ fence'[u] = fence[u] /\ row'[u] = clock /\ Kept(ProcOf[u])
    \/ /\ pc[u] = "fill" /\ pc'[u] = "publish" /\ fence[u] = generation[ProcOf[u]]
       /\ fence'[u] = fence[u] /\ row'[u] = row[u] /\ Kept(ProcOf[u])

\* A step treats the fence and the rows of thread u in one of the ways listed in
\* FenceEffect: a fill goes ahead only while the fence is the generation.
LEMMA FenceStep ==
    ASSUME TypeOK, [Next]_vars, NEW u \in Threads PROVE FenceEffect(u)
<1>f. /\ pc \in [Threads -> Labels] /\ row \in [Threads -> Nat] /\ fence \in [Threads -> Nat]
  BY DEF TypeOK, FrameType
<1>1. CASE UNCHANGED <<pc, fence, row>>
  BY <1>1 DEF FenceEffect
<1>2. ASSUME NEW t \in Threads, Return(t) \/ Miss(t)
      PROVE  FenceEffect(u)
  BY <1>2, <1>f DEF FenceEffect, Return, Miss, Goto
<1>3. CASE \/ \E t \in Threads :
                 \/ \E s \in Scopes :
                       RetryRotation(t, s) \/ AddToken(t, s) \/ ReadToken(t, s)
                 \/ \E s \in todo[t] : ClearToken(t, s)
                 \/ \E k \in victims[t] :
                       DeleteKey(t, k) \/ DeleteFails(t, k) \/ ClearEntry(t, k)
           \/ \E w \in lateTokens : DeliverToken(w)
           \/ \E e \in lateFills : DeliverFill(e)
           \/ \E s \in Scopes : EvictToken(s)
           \/ \E e \in store : EvictEntry(e)
           \/ UNCHANGED vars
  <2>1. UNCHANGED <<pc, fence, row>>
    BY <1>3 DEF RetryRotation, AddToken, ReadToken, ClearToken, DeleteKey, DeleteFails,
                ClearEntry, DeliverToken, DeliverFill, EvictToken, EvictEntry, vars, frame
  <2>2. QED
    BY <2>1, <1>1
<1>4. CASE \E t \in Threads :
               \/ Unavailable(t) \/ LookupMiss(t) \/ Superseded(t) \/ ReturnRows(t)
               \/ SkipFill(t) \/ Publish(t) \/ PublishFails(t) \/ EndInvalidate(t)
               \/ ClearEnd(t) \/ ClearFails(t)
  BY <1>4, <1>2 DEF Unavailable, LookupMiss, Superseded, ReturnRows, SkipFill, Publish,
                    PublishFails, EndInvalidate, ClearEnd, ClearFails
<1>5. ASSUME NEW t \in Threads,
             \/ \E q \in Queries : BeginRead(t, q)
             \/ \E s \in Scopes : Commit(t, s) \/ CallInvalidate(t, s)
             \/ EndCapture(t) \/ LookupFound(t) \/ Hit(t) \/ Invalidate(t) \/ ClearBegin(t)
      PROVE  FenceEffect(u)
  <2>1. CASE u = t
    BY <1>5, <2>1, <1>f DEF FenceEffect, BeginRead, Commit, CallInvalidate, EndCapture,
                            LookupFound, Hit, Invalidate, ClearBegin, Goto, frame
  <2>2. CASE u # t
    BY <1>5, <2>2, <1>f DEF FenceEffect, BeginRead, Commit, CallInvalidate, EndCapture,
                            LookupFound, Hit, Invalidate, ClearBegin, Goto, frame
  <2>3. QED
    BY <2>1, <2>2
<1>6. ASSUME NEW t \in Threads, Sql(t) \/ BeginFill(t)
      PROVE  FenceEffect(u)
  <2>1. \A p \in Procs : Kept(p)
    BY <1>6 DEF Kept, Sql, BeginFill, process
  <2>2. ProcOf[u] \in Procs
    BY ThreadsAssumption
  <2>3. QED
    BY <1>6, <2>1, <2>2, <1>f DEF FenceEffect, Sql, BeginFill, Fenced, Goto
<1>7. ASSUME NEW p \in Procs, Restart(p)
      PROVE  FenceEffect(u)
  BY <1>7 DEF FenceEffect, Restart
<1>8. QED
  BY <1>3, <1>4, <1>5, <1>6, <1>7 DEF Next, ReadStep, WriteStep, ClearStep, Environment

\* A fence that still holds was noted after the last invalidation of its process.
LEMMA FencePreserved ==
    ASSUME TypeOK, TypeOK', FenceInv, \A p \in Procs, s \in Scopes : mark[p][s] <= clock,
           [Next]_vars
    PROVE  FenceInv'
<1> SUFFICES ASSUME NEW t \in Threads
             PROVE  LET p == ProcOf[t] IN
                    /\ fence'[t] <= generation'[p]
                    /\ pc'[t] = "publish" => fence'[t] = generation'[p]
                    /\ pc'[t] \in {"fill", "publish"} /\ fence'[t] = generation'[p] =>
                          \A s \in Scopes : mark'[p][s] <= row'[t]
  BY DEF FenceInv
<1> DEFINE p == ProcOf[t]
<1>t. /\ p \in Procs /\ fence[t] \in Nat /\ fence'[t] \in Nat /\ row[t] \in Nat /\ clock \in Nat
      /\ generation[p] \in Nat /\ generation'[p] \in Nat
      /\ \A s \in Scopes : mark[p][s] \in Nat /\ mark'[p][s] \in Nat
  BY ThreadsAssumption DEF TypeOK, FrameType, ProcessType, BudgetType
<1>1. /\ fence[t] <= generation[p]
      /\ pc[t] = "publish" => fence[t] = generation[p]
      /\ pc[t] \in {"fill", "publish"} /\ fence[t] = generation[p] =>
            \A s \in Scopes : mark[p][s] <= row[t]
  BY DEF FenceInv
<1>2. FenceEffect(t) /\ GenerationEffect(p)
  BY <1>t, FenceStep, GenerationStep
<1>3. CASE Kept(p)
  BY <1>1, <1>2, <1>3, <1>t DEF FenceEffect, Kept
<1>4. CASE Raised(p)
  <2>1. pc[t] # "publish"
    BY <1>4 DEF Raised, LockFree, Locked
  <2>2. QED
    BY <1>1, <1>2, <1>4, <1>t, <2>1 DEF FenceEffect, Raised, Kept
<1>5. CASE Reborn(p)
  BY <1>5, <1>t DEF Reborn
<1>6. QED
  BY <1>2, <1>3, <1>4, <1>5 DEF GenerationEffect

\* Keys are blocked together with their index entry and leave both together.
LEMMA BlockedPreserved ==
    ASSUME TypeOK, BlockedKeysStayIndexed, [Next]_vars
    PROVE  BlockedKeysStayIndexed'
<1>t. indexed \in [Procs -> SUBSET Key] /\ invalidated \in [Procs -> SUBSET Key]
  BY DEF TypeOK, ProcessType
<1>1. CASE UNCHANGED <<indexed, invalidated>>
  BY <1>1 DEF BlockedKeysStayIndexed
<1>2. CASE \E t \in Threads :
               \/ \E q \in Queries : BeginRead(t, q)
               \/ \E s \in Scopes : Commit(t, s) \/ CallInvalidate(t, s)
               \/ \E s \in Scopes : RetryRotation(t, s) \/ AddToken(t, s) \/ ReadToken(t, s)
               \/ Unavailable(t) \/ EndCapture(t) \/ LookupMiss(t) \/ LookupFound(t)
               \/ Superseded(t) \/ ReturnRows(t) \/ Sql(t) \/ BeginFill(t) \/ SkipFill(t)
               \/ PublishFails(t)
  <2>1. UNCHANGED <<indexed, invalidated>>
    BY <1>2 DEF BeginRead, Commit, CallInvalidate, RetryRotation, AddToken, ReadToken,
                Unavailable, EndCapture, LookupMiss, LookupFound, Superseded, ReturnRows, Sql,
                BeginFill, SkipFill, PublishFails, process
  <2>2. QED
    BY <2>1, <1>1
<1>3. CASE \/ \E t \in Threads :
                 \/ \E k \in victims[t] : DeleteFails(t, k) \/ ClearEntry(t, k)
                 \/ \E s \in todo[t] : ClearToken(t, s)
                 \/ EndInvalidate(t) \/ ClearBegin(t) \/ ClearFails(t)
           \/ \E w \in lateTokens : DeliverToken(w)
           \/ \E e \in lateFills : DeliverFill(e)
           \/ \E s \in Scopes : EvictToken(s)
           \/ \E e \in store : EvictEntry(e)
           \/ UNCHANGED vars
  <2>1. UNCHANGED <<indexed, invalidated>>
    BY <1>3 DEF DeleteFails, ClearEntry, ClearToken, EndInvalidate, ClearBegin, ClearFails,
                DeliverToken, DeliverFill, EvictToken, EvictEntry, vars, process
  <2>2. QED
    BY <2>1, <1>1
<1>4. CASE \E t \in Threads : Hit(t) \/ Publish(t)
  BY <1>4, <1>t DEF BlockedKeysStayIndexed, Hit, Publish, Register
<1>5. CASE \E t \in Threads :
               Invalidate(t) \/ ClearEnd(t) \/ \E k \in victims[t] : DeleteKey(t, k)
  BY <1>5, <1>t DEF BlockedKeysStayIndexed, Invalidate, ClearEnd, DeleteKey, Unregister
<1>6. CASE \E p \in Procs : Restart(p)
  BY <1>6, <1>t DEF BlockedKeysStayIndexed, Restart
<1>7. QED
  BY <1>2, <1>3, <1>4, <1>5, <1>6 DEF Next, ReadStep, WriteStep, ClearStep, Environment

----------------------------------------------------------------------------

\* The local half of the cache, fence and key index, keeps its invariant,
\* whatever the backend loses or delays.
LEMMA LocalInvariant == Spec => []LocalInv
<1>1. Init => LocalInv
  <2> SUFFICES ASSUME Init PROVE LocalInv
    OBVIOUS
  <2>1. TypeOK
    BY TypeInit
  <2>2. QED
    BY <2>1, ThreadsAssumption DEF Init, LocalInv, FenceInv, BlockedKeysStayIndexed, Zero
<1>2. LocalInv /\ [Next]_vars => LocalInv'
  <2> SUFFICES ASSUME LocalInv, [Next]_vars PROVE LocalInv'
    OBVIOUS
  <2>1. TypeOK'
    BY TypeStep DEF LocalInv
  <2>2. ASSUME NEW p \in Procs, NEW s \in Scopes
        PROVE  mark'[p][s] <= clock'
    <3>1. GenerationEffect(p)
      BY GenerationStep DEF LocalInv
    <3>2. mark[p][s] <= clock /\ mark[p][s] \in Nat /\ clock \in Nat /\ clock' \in Nat
      BY <2>1 DEF LocalInv, TypeOK, ProcessType, BudgetType
    <3>3. QED
      BY <3>1, <3>2 DEF GenerationEffect
  <2>3. FenceInv' /\ BlockedKeysStayIndexed'
    BY <2>1, FencePreserved, BlockedPreserved DEF LocalInv
  <2>4. QED
    BY <2>1, <2>2, <2>3 DEF LocalInv
<1>3. QED
  BY <1>1, <1>2, PTL DEF Spec

\* No thread publishes rows that it read before an invalidation of its own
\* process, even one whose rotation never reached the backend.
THEOREM FenceHolds == Spec => []NoFillAfterInvalidation
<1>1. LocalInv => NoFillAfterInvalidation
  <2> SUFFICES ASSUME LocalInv, NEW t \in Threads, pc[t] = "publish",
                      NEW s \in ScopesOf[query[t]]
               PROVE  row[t] >= mark[ProcOf[t]][s]
    BY DEF NoFillAfterInvalidation
  <2>1. query[t] \in Queries /\ s \in Scopes
    BY ScopesAssumption DEF LocalInv, TypeOK, OperandType, ReadLabels
  <2>2. mark[ProcOf[t]][s] <= row[t]
    BY <2>1 DEF LocalInv, FenceInv
  <2>3. mark[ProcOf[t]][s] \in Nat /\ row[t] \in Nat
    BY <2>1, ThreadsAssumption DEF LocalInv, TypeOK, ProcessType, FrameType
  <2>4. QED
    BY <2>2, <2>3
<1>2. QED
  BY <1>1, LocalInvariant, PTL

\* A key whose deletion failed is found again by the next invalidation.
THEOREM BlockedIndexed == Spec => []BlockedKeysStayIndexed
<1>1. LocalInv => BlockedKeysStayIndexed
  BY DEF LocalInv
<1>2. QED
  BY <1>1, LocalInvariant, PTL

----------------------------------------------------------------------------
(* Part 2: what a step does to the tokens, to the results and to a         *)
(* captured snapshot, action by action.                                    *)

TokensKept == UNCHANGED <<token, born, lateTokens, minted>>

\* The ways in which a step can touch the tokens.
TokenEffect ==
    \/ TokensKept
    \/ \E s \in Scopes :
          Mint /\ Install(s, minted + 1) /\ UNCHANGED lateTokens
    \/ \E s \in Scopes, c \in {"SET", "ADD"} :
          /\ Mint /\ UNCHANGED <<token, born>>
          /\ lateTokens' = lateTokens \cup {[scope |-> s, tok |-> minted + 1, command |-> c]}
    \/ \E w \in lateTokens :
          /\ lateTokens' = lateTokens \ {w} /\ UNCHANGED minted
          /\ UNCHANGED <<token, born>> \/ Install(w.scope, w.tok)
    \/ \E s \in Scopes :
          /\ token' = [token EXCEPT ![s] = NoToken]
          /\ UNCHANGED <<born, lateTokens, minted>>

\* Every step treats the tokens in one of the ways listed in TokenEffect.
LEMMA TokenStep ==
    ASSUME TypeOK, [Next]_vars PROVE TokenEffect
<1>1. CASE \E t \in Threads :
               \/ \E q \in Queries : BeginRead(t, q)
               \/ \E s \in Scopes : ReadToken(t, s)
               \/ EndCapture(t) \/ LookupMiss(t) \/ LookupFound(t) \/ Hit(t)
               \/ Superseded(t) \/ ReturnRows(t) \/ Sql(t) \/ BeginFill(t)
               \/ SkipFill(t) \/ Publish(t) \/ PublishFails(t)
  BY <1>1 DEF TokenEffect, TokensKept, backend, BeginRead, ReadToken, EndCapture, LookupMiss,
              LookupFound, Hit, Superseded, ReturnRows, Sql, BeginFill, SkipFill, Publish,
              PublishFails
<1>2. CASE \E t \in Threads :
               \/ \E s \in Scopes : Commit(t, s) \/ CallInvalidate(t, s)
               \/ \E k \in victims[t] : DeleteKey(t, k) \/ DeleteFails(t, k) \/ ClearEntry(t, k)
               \/ EndInvalidate(t) \/ ClearBegin(t) \/ ClearEnd(t) \/ ClearFails(t)
  BY <1>2 DEF TokenEffect, TokensKept, backend, Commit, CallInvalidate, DeleteKey, DeleteFails,
              EndInvalidate, ClearBegin, ClearEntry, ClearEnd, ClearFails
<1>3. CASE \/ \E e \in lateFills : DeliverFill(e)
           \/ \E e \in store : EvictEntry(e)
           \/ \E p \in Procs : Restart(p)
           \/ UNCHANGED vars
  BY <1>3 DEF TokenEffect, TokensKept, backend, DeliverFill, EvictEntry, Restart, vars
<1>4. ASSUME NEW t \in Threads, NEW s \in Scopes, RetryRotation(t, s) \/ AddToken(t, s)
      PROVE  TokenEffect
  BY <1>4 DEF TokenEffect, RetryRotation, AddToken, RotateApplied, AddApplied
<1>5. ASSUME NEW s \in Scopes, RotateApplied(s) \/ RotateRaised(s) \/ ReadRaised(s)
      PROVE  TokenEffect
  <2>1. CASE UNCHANGED <<token, born, notified, lateTokens, minted, faults>>
    BY <2>1 DEF TokenEffect, TokensKept
  <2>2. CASE RotateApplied(s) \/ AddApplied(s)
    BY <2>2 DEF TokenEffect, RotateApplied, AddApplied
  <2>3. CASE WriteDelayed(s, "SET") \/ WriteDelayed(s, "ADD")
    BY <2>3 DEF TokenEffect, WriteDelayed
  <2>4. QED
    BY <1>5, <2>1, <2>2, <2>3, Zenon DEF RotateRaised, ReadRaised
<1>6. ASSUME NEW t \in Threads, Unavailable(t)
      PROVE  TokenEffect
  <2>1. PICK s \in todo[t] : RotateRaised(s) \/ ReadRaised(s)
    BY <1>6, Zenon DEF Unavailable
  <2>2. QED
    BY <2>1, <1>5 DEF TypeOK, FrameType
<1>7. ASSUME NEW t \in Threads, Invalidate(t)
      PROVE  TokenEffect
  <2>1. scope[t] \in Scopes
    BY <1>7 DEF Invalidate, TypeOK, OperandType
  <2>2. QED
    BY <1>7, <2>1, <1>5 DEF Invalidate
<1>8. ASSUME NEW t \in Threads, NEW s \in todo[t], ClearToken(t, s)
      PROVE  TokenEffect
  BY <1>8 DEF TokenEffect, ClearToken, TypeOK, FrameType
<1>9. ASSUME NEW s \in Scopes, EvictToken(s)
      PROVE  TokenEffect
  BY <1>9 DEF TokenEffect, EvictToken
<1>10. ASSUME NEW w \in lateTokens, DeliverToken(w)
       PROVE  TokenEffect
  <2>1. lateTokens' = lateTokens \ {w} /\ UNCHANGED minted
    BY <1>10 DEF DeliverToken, Arrived
  <2>2. UNCHANGED <<token, born>> \/ Install(w.scope, w.tok)
    BY <1>10 DEF DeliverToken
  <2>3. QED
    BY <2>1, <2>2, Zenon DEF TokenEffect
<1>11. QED
  BY <1>1, <1>2, <1>3, <1>4, <1>6, <1>7, <1>8, <1>9, <1>10
     DEF Next, ReadStep, WriteStep, ClearStep, Environment

\* Time passes only when the tokens stay.
ClockEffect == clock' = clock \/ (clock' = clock + 1 /\ TokensKept)

\* Only a commit moves the clock, and it touches no token.
LEMMA ClockStep ==
    ASSUME TypeOK, [Next]_vars PROVE ClockEffect
<1>1. CASE \E t \in Threads, s \in Scopes : Commit(t, s)
  BY <1>1 DEF ClockEffect, TokensKept, Commit, backend
<1>2. CASE ~\E t \in Threads, s \in Scopes : Commit(t, s)
  <2>1. CASE \E t \in Threads :
               \/ \E q \in Queries : BeginRead(t, q)
               \/ \E s \in Scopes : CallInvalidate(t, s)
               \/ ClearBegin(t) \/ ReadStep(t)
    BY <2>1 DEF ClockEffect, BeginRead, CallInvalidate, ClearBegin, ReadStep, RetryRotation,
                AddToken, ReadToken, Unavailable, EndCapture, LookupMiss, LookupFound, Hit,
                Superseded, ReturnRows, Sql, BeginFill, SkipFill, Publish, PublishFails
  <2>2. CASE \E t \in Threads : WriteStep(t) \/ ClearStep(t)
    BY <2>2 DEF ClockEffect, WriteStep, ClearStep, Invalidate, DeleteKey, DeleteFails,
                EndInvalidate, ClearToken, ClearEntry, ClearEnd, ClearFails
  <2>3. CASE Environment \/ UNCHANGED vars
    BY <2>3 DEF ClockEffect, Environment, DeliverToken, DeliverFill, EvictToken, EvictEntry,
                Restart, vars
  <2>4. QED
    BY <1>2, <2>1, <2>2, <2>3 DEF Next
<1>3. QED
  BY <1>1, <1>2

\* A snapshot only ever takes up current tokens.
GensEffect ==
    \A t \in Threads, s \in Scopes : gens'[t][s] \in {gens[t][s], NoToken, token[s]}

\* A step fills a snapshot with current tokens, keeps it or drops it.
LEMMA GensStep ==
    ASSUME TypeOK, [Next]_vars PROVE GensEffect
<1>g. gens \in [Threads -> [Scopes -> 0..MaxTokens]]
  BY DEF TypeOK, FrameType
<1>1. CASE UNCHANGED gens
  BY <1>1 DEF GensEffect
<1>2. ASSUME NEW t \in Threads, Return(t)
      PROVE  GensEffect
  BY <1>2, <1>g DEF GensEffect, Return, NoTokens
<1>3. ASSUME NEW t \in Threads, NEW s \in Scopes, ReadToken(t, s)
      PROVE  GensEffect
  <2>1. CASE UNCHANGED gens
    BY <2>1, <1>1
  <2>2. CASE gens' = [gens EXCEPT ![t][s] = token[s]]
    <3>1. gens'[t] = [gens[t] EXCEPT ![s] = token[s]]
      BY <2>2, <1>g
    <3>2. \A u \in Threads : u # t => gens'[u] = gens[u]
      BY <2>2, <1>g
    <3>3. QED
      BY <3>1, <3>2, <1>g DEF GensEffect
  <2>3. QED
    BY <1>3, <2>1, <2>2 DEF ReadToken
<1>4. ASSUME NEW t \in Threads, Miss(t)
      PROVE  GensEffect
  BY <1>4, <1>1, <1>2 DEF Miss
<1>5. ASSUME NEW p \in Procs, Restart(p)
      PROVE  GensEffect
  BY <1>5, <1>g DEF GensEffect, Restart, NoTokens
<1>6. CASE \E t \in Threads :
               \/ \E q \in Queries : BeginRead(t, q)
               \/ \E s \in Scopes : Commit(t, s) \/ CallInvalidate(t, s)
               \/ \E s \in Scopes : RetryRotation(t, s) \/ AddToken(t, s)
               \/ EndCapture(t) \/ LookupFound(t) \/ Hit(t) \/ Sql(t) \/ BeginFill(t)
               \/ Invalidate(t) \/ ClearBegin(t)
               \/ \E k \in victims[t] : DeleteKey(t, k) \/ DeleteFails(t, k) \/ ClearEntry(t, k)
               \/ \E s \in todo[t] : ClearToken(t, s)
  <2>1. UNCHANGED gens
    BY <1>6 DEF BeginRead, Commit, CallInvalidate, RetryRotation, AddToken, EndCapture,
                LookupFound, Hit, Sql, BeginFill, Invalidate, ClearBegin, DeleteKey,
                DeleteFails, ClearEntry, ClearToken, frame
  <2>2. QED
    BY <2>1, <1>1
<1>7. CASE \E t \in Threads :
               \/ Unavailable(t) \/ LookupMiss(t) \/ Superseded(t) \/ ReturnRows(t)
               \/ SkipFill(t) \/ Publish(t) \/ PublishFails(t) \/ EndInvalidate(t)
               \/ ClearEnd(t) \/ ClearFails(t)
  BY <1>7, <1>2, <1>4 DEF Unavailable, LookupMiss, Superseded, ReturnRows, SkipFill, Publish,
                          PublishFails, EndInvalidate, ClearEnd, ClearFails
<1>8. CASE \/ \E w \in lateTokens : DeliverToken(w)
           \/ \E e \in lateFills : DeliverFill(e)
           \/ \E s \in Scopes : EvictToken(s)
           \/ \E e \in store : EvictEntry(e)
           \/ UNCHANGED vars
  BY <1>8, <1>1 DEF DeliverToken, DeliverFill, EvictToken, EvictEntry, vars, frame
<1>9. QED
  BY <1>3, <1>5, <1>6, <1>7, <1>8 DEF Next, ReadStep, WriteStep, ClearStep, Environment

\* New results come from a thread that publishes its rows under its own key.
StoreEffect ==
    \A e \in (store \cup lateFills)' :
        \/ e \in store \cup lateFills
        \/ \E t \in Threads : pc[t] = "publish" /\ e = [key |-> KeyOf(t), asof |-> row[t]]

\* Results enter the store, or set out for it, from Publish and PublishFails only.
LEMMA StoreStep ==
    ASSUME TypeOK, [Next]_vars PROVE StoreEffect
<1>1. CASE UNCHANGED <<store, lateFills>>
  BY <1>1 DEF StoreEffect
<1>2. CASE \E t \in Threads :
               \/ \E q \in Queries : BeginRead(t, q)
               \/ \E s \in Scopes : Commit(t, s) \/ CallInvalidate(t, s)
               \/ \E s \in Scopes : RetryRotation(t, s) \/ AddToken(t, s) \/ ReadToken(t, s)
               \/ Unavailable(t) \/ EndCapture(t) \/ LookupMiss(t) \/ LookupFound(t) \/ Hit(t)
               \/ Superseded(t) \/ ReturnRows(t) \/ Sql(t) \/ BeginFill(t) \/ SkipFill(t)
  <2>1. UNCHANGED <<store, lateFills>>
    BY <1>2 DEF BeginRead, Commit, CallInvalidate, RetryRotation, AddToken, ReadToken,
                Unavailable, EndCapture, LookupMiss, LookupFound, Hit, Superseded, ReturnRows,
                Sql, BeginFill, SkipFill, backend
  <2>2. QED
    BY <2>1, <1>1
<1>3. CASE \/ \E t \in Threads :
                 \/ Invalidate(t) \/ EndInvalidate(t) \/ ClearBegin(t)
                 \/ \E s \in todo[t] : ClearToken(t, s)
                 \/ ClearEnd(t) \/ ClearFails(t)
           \/ \E w \in lateTokens : DeliverToken(w)
           \/ \E s \in Scopes : EvictToken(s)
           \/ \E p \in Procs : Restart(p)
           \/ UNCHANGED vars
  <2>1. UNCHANGED <<store, lateFills>>
    BY <1>3 DEF Invalidate, EndInvalidate, ClearBegin, ClearToken, ClearEnd, ClearFails,
                DeliverToken, EvictToken, Restart, vars, backend
  <2>2. QED
    BY <2>1, <1>1
<1>4. CASE \E t \in Threads : Publish(t) \/ PublishFails(t)
  BY <1>4 DEF StoreEffect, Publish, PublishFails, Written
<1>5. CASE \/ \E t \in Threads : \E k \in victims[t] :
                 DeleteKey(t, k) \/ DeleteFails(t, k) \/ ClearEntry(t, k)
           \/ \E e \in store : EvictEntry(e)
  BY <1>5 DEF StoreEffect, DeleteKey, DeleteFails, ClearEntry, EvictEntry
<1>6. ASSUME NEW e \in lateFills, DeliverFill(e)
      PROVE  StoreEffect
  <2>1. e = [key |-> e.key, asof |-> e.asof]
    BY DEF TypeOK, StoreType, Entry
  <2>2. QED
    BY <1>6, <2>1 DEF StoreEffect, DeliverFill, Written
<1>7. QED
  BY <1>2, <1>3, <1>4, <1>5, <1>6 DEF Next, ReadStep, WriteStep, ClearStep, Environment

----------------------------------------------------------------------------
(* What a step does to a thread that holds rows or confirms tokens, and to *)
(* the promises.                                                           *)

\* Where the invariant says something about a thread.
Watched == {"fill", "publish", "confirm", "hit", "clearing"}

Framed(u) ==
    /\ pc'[u] = pc[u] /\ query'[u] = query[u] /\ gens'[u] = gens[u] /\ row'[u] = row[u]
    /\ since'[u] = since[u] /\ same'[u] = same[u] /\ todo'[u] = todo[u]

PromisesKept == UNCHANGED <<token, born, notified, mark, pending, clock>>

Confirms(u) ==
    \E s \in todo[u] :
        /\ pc[u] \in {"confirm", "publish"} /\ Settled(u) /\ token[s] # NoToken
        /\ todo'[u] = todo[u] \ {s}
        /\ same'[u] => same[u] /\ token[s] = gens[u][s]
        /\ pc'[u] = pc[u] /\ query'[u] = query[u] /\ gens'[u] = gens[u]
        /\ row'[u] = row[u] /\ since'[u] = since[u]

Finds(u) ==
    /\ pc'[u] = "confirm" /\ query'[u] = query[u] /\ gens'[u] = gens[u]
    /\ \E e \in store : e.key = KeyOf(u) /\ row'[u] = e.asof
    /\ todo'[u] = ScopesOf[query[u]]
    /\ since'[u] = Promised(ProcOf[u])
    /\ PromisesKept

Hits(u) ==
    /\ pc[u] = "confirm" /\ todo[u] = {} /\ same[u]
    /\ pc'[u] = "hit" /\ query'[u] = query[u] /\ gens'[u] = gens[u]
    /\ row'[u] = row[u] /\ since'[u] = since[u]

Reads(u) ==
    /\ pc'[u] = "fill" /\ gens'[u] = gens[u] /\ row'[u] = clock /\ PromisesKept

Publishes(u) ==
    /\ pc[u] = "fill" /\ pc'[u] = "publish"
    /\ query'[u] = query[u] /\ gens'[u] = gens[u] /\ row'[u] = row[u]

Clears(u) ==
    \/ /\ pc'[u] = "clearing" /\ todo'[u] = Present
       /\ since'[u] = [s \in Scopes |-> clock] /\ PromisesKept
    \/ /\ pc[u] = "clearing" /\ pc'[u] = "clearing" /\ since'[u] = since[u]
       /\ \E s \in todo[u] : todo'[u] = todo[u] \ {s} /\ token'[s] = NoToken

ThreadEffect(u) ==
    \/ Framed(u)
    \/ pc'[u] \notin Watched
    \/ Confirms(u) \/ Finds(u) \/ Hits(u) \/ Reads(u) \/ Publishes(u) \/ Clears(u)

\* Every step treats thread u in one of the ways listed in ThreadEffect: the
\* steps of other threads, the backend and commits leave its locals alone.
LEMMA ThreadStep ==
    ASSUME TypeOK, [Next]_vars, NEW u \in Threads PROVE ThreadEffect(u)
<1>f. /\ pc \in [Threads -> Labels] /\ query \in [Threads -> Queries \cup {None}]
      /\ gens \in [Threads -> [Scopes -> 0..MaxTokens]] /\ todo \in [Threads -> SUBSET Scopes]
      /\ same \in [Threads -> BOOLEAN] /\ row \in [Threads -> Nat]
      /\ since \in [Threads -> [Scopes -> Nat]]
  BY DEF TypeOK, FrameType
<1>1. CASE UNCHANGED <<pc, query, gens, row, since, same, todo>>
  BY <1>1 DEF ThreadEffect, Framed
<1>2. ASSUME NEW t \in Threads, Return(t)
      PROVE  ThreadEffect(u)
  <2>1. CASE u = t
    BY <1>2, <2>1, <1>f DEF ThreadEffect, Return, Goto, Watched
  <2>2. CASE u # t
    BY <1>2, <2>2, <1>f DEF ThreadEffect, Framed, Return, Goto
  <2>3. QED
    BY <2>1, <2>2
<1>3. ASSUME NEW t \in Threads, Miss(t)
      PROVE  ThreadEffect(u)
  <2>1. CASE u = t /\ Goto(t, "sql")
    BY <2>1, <1>f DEF ThreadEffect, Goto, Watched
  <2>2. CASE u # t /\ ~Return(t)
    BY <1>3, <2>2, <1>f DEF ThreadEffect, Framed, Miss, Goto
  <2>3. QED
    BY <1>2, <1>3, <2>1, <2>2 DEF Miss
<1>4. CASE \E t \in Threads :
               \/ \E s \in Scopes : RetryRotation(t, s) \/ AddToken(t, s)
               \/ \E k \in victims[t] : DeleteKey(t, k) \/ DeleteFails(t, k) \/ ClearEntry(t, k)
  <2>1. UNCHANGED <<pc, query, gens, row, since, same, todo>>
    BY <1>4 DEF RetryRotation, AddToken, DeleteKey, DeleteFails, ClearEntry, frame
  <2>2. QED
    BY <2>1, <1>1
<1>5. CASE \/ \E w \in lateTokens : DeliverToken(w)
           \/ \E e \in lateFills : DeliverFill(e)
           \/ \E s \in Scopes : EvictToken(s)
           \/ \E e \in store : EvictEntry(e)
           \/ UNCHANGED vars
  <2>1. UNCHANGED <<pc, query, gens, row, since, same, todo>>
    BY <1>5 DEF DeliverToken, DeliverFill, EvictToken, EvictEntry, vars, frame
  <2>2. QED
    BY <2>1, <1>1
<1>6. CASE \E t \in Threads :
               \/ Unavailable(t) \/ LookupMiss(t) \/ Superseded(t) \/ ReturnRows(t)
               \/ SkipFill(t) \/ Publish(t) \/ PublishFails(t) \/ EndInvalidate(t)
               \/ ClearEnd(t) \/ ClearFails(t)
  BY <1>6, <1>2, <1>3 DEF Unavailable, LookupMiss, Superseded, ReturnRows, SkipFill, Publish,
                          PublishFails, EndInvalidate, ClearEnd, ClearFails
<1>7. ASSUME NEW t \in Threads,
             \/ \E q \in Queries : BeginRead(t, q)
             \/ \E s \in Scopes : Commit(t, s) \/ CallInvalidate(t, s)
             \/ EndCapture(t) \/ Invalidate(t)
      PROVE  ThreadEffect(u)
  <2>1. CASE u = t
    BY <1>7, <2>1, <1>f DEF ThreadEffect, Watched, BeginRead, Commit, CallInvalidate,
                            EndCapture, Invalidate, Goto
  <2>2. CASE u # t
    BY <1>7, <2>2, <1>f DEF ThreadEffect, Framed, BeginRead, Commit, CallInvalidate,
                            EndCapture, Invalidate, Goto, frame
  <2>3. QED
    BY <2>1, <2>2
<1>8. ASSUME NEW t \in Threads, NEW s \in Scopes, ReadToken(t, s)
      PROVE  ThreadEffect(u)
  <2>1. CASE u # t
    <3>1. gens'[u] = gens[u] /\ same'[u] = same[u]
      BY <1>8, <2>1, <1>f DEF ReadToken
    <3>2. QED
      BY <1>8, <2>1, <3>1, <1>f DEF ThreadEffect, Framed, ReadToken
  <2>2. CASE u = t /\ pc[t] = "capture"
    BY <1>8, <2>2 DEF ThreadEffect, Watched, ReadToken
  <2>3. CASE u = t /\ pc[t] # "capture"
    <3>1. same'[u] = (same[u] /\ token[s] = gens[u][s])
      BY <1>8, <2>3, <1>f DEF ReadToken
    <3>2. todo'[u] = todo[u] \ {s}
      BY <1>8, <2>3, <1>f DEF ReadToken
    <3>3. Confirms(u)
      BY <1>8, <2>3, <3>1, <3>2 DEF Confirms, ReadToken, Reading
    <3>4. QED
      BY <3>3 DEF ThreadEffect
  <2>4. QED
    BY <2>1, <2>2, <2>3
<1>9. ASSUME NEW t \in Threads, LookupFound(t)
      PROVE  ThreadEffect(u)
  <2>1. CASE u # t
    BY <1>9, <2>1, <1>f DEF ThreadEffect, Framed, LookupFound, Goto
  <2>2. CASE u = t
    <3>1. PICK e \in store : e.key = KeyOf(t) /\ row' = [row EXCEPT ![t] = e.asof]
      BY <1>9 DEF LookupFound
    <3>2. row'[t] = e.asof
      BY <3>1, <1>f
    <3>3. PromisesKept
      BY <1>9 DEF PromisesKept, LookupFound, backend, process
    <3>4. /\ pc'[t] = "confirm" /\ query'[t] = query[t] /\ gens'[t] = gens[t]
          /\ todo'[t] = ScopesOf[query[t]]
      BY <1>9, <1>f DEF LookupFound, Goto, Dependencies
    <3>5. since'[t] = Promised(ProcOf[t])
      BY <1>9, <1>f DEF LookupFound
    <3>6. Finds(t)
      BY <3>1, <3>2, <3>3, <3>4, <3>5 DEF Finds
    <3>7. QED
      BY <2>2, <3>6 DEF ThreadEffect
  <2>3. QED
    BY <2>1, <2>2
<1>10. ASSUME NEW t \in Threads, Hit(t) \/ Sql(t) \/ BeginFill(t)
       PROVE  ThreadEffect(u)
  <2>1. CASE u # t
    BY <1>10, <2>1, <1>f DEF ThreadEffect, Framed, Hit, Sql, BeginFill, Goto, frame
  <2>2. CASE u = t /\ Hit(t)
    BY <2>2, <1>f DEF ThreadEffect, Hits, Hit, Goto, frame
  <2>3. CASE u = t /\ Sql(t)
    <3>1. PromisesKept
      BY <2>3 DEF PromisesKept, Sql, backend, process
    <3>2. QED
      BY <2>3, <3>1, <1>f DEF ThreadEffect, Reads, Sql, Goto
  <2>4. CASE u = t /\ BeginFill(t)
    BY <2>4, <1>f DEF ThreadEffect, Publishes, BeginFill, Goto
  <2>5. QED
    BY <1>10, <2>1, <2>2, <2>3, <2>4
<1>11. ASSUME NEW t \in Threads, ClearBegin(t)
       PROVE  ThreadEffect(u)
  <2>1. CASE u # t
    BY <1>11, <2>1, <1>f DEF ThreadEffect, Framed, ClearBegin, Goto
  <2>2. CASE u = t
    <3>1. PromisesKept
      BY <1>11 DEF PromisesKept, ClearBegin, backend
    <3>2. pc'[t] = "clearing" /\ todo'[t] = Present /\ since'[t] = [s \in Scopes |-> clock]
      BY <1>11, <1>f DEF ClearBegin, Goto
    <3>3. QED
      BY <2>2, <3>1, <3>2 DEF ThreadEffect, Clears
  <2>3. QED
    BY <2>1, <2>2
<1>12. ASSUME NEW t \in Threads, NEW s \in todo[t], ClearToken(t, s)
       PROVE  ThreadEffect(u)
  <2>1. CASE u # t
    BY <1>12, <2>1, <1>f DEF ThreadEffect, Framed, ClearToken
  <2>2. CASE u = t
    <3>1. token'[s] = NoToken
      BY <1>12, <1>f DEF ClearToken, TypeOK, TokenType
    <3>2. QED
      BY <1>12, <2>2, <3>1, <1>f DEF ThreadEffect, Clears, ClearToken
  <2>3. QED
    BY <2>1, <2>2
<1>13. ASSUME NEW p \in Procs, Restart(p)
       PROVE  ThreadEffect(u)
  <2>1. CASE ProcOf[u] = p
    BY <1>13, <2>1 DEF ThreadEffect, Watched, Restart
  <2>2. CASE ProcOf[u] # p
    BY <1>13, <2>2 DEF ThreadEffect, Framed, Restart
  <2>3. QED
    BY <2>1, <2>2
<1>14. QED
  BY <1>4, <1>5, <1>6, <1>7, <1>8, <1>9, <1>10, <1>11, <1>12, <1>13
     DEF Next, ReadStep, WriteStep, ClearStep, Environment

\* The token of s has just been installed.
Rotated(s) == token'[s] # NoToken /\ born'[token'[s]] = clock

\* Some thread of process p, or of any, completes a clear().
Cleared(t) == pc[t] = "clearing" /\ todo[t] = {}

NotifiedEffect(s) ==
    \/ notified'[s] = notified[s]
    \/ notified'[s] = clock /\ Rotated(s)
    \/ /\ notified[s] <= notified'[s]
       /\ \E t \in Threads : Cleared(t) /\ notified'[s] \in {notified[s], since[t][s]}

OwnEffect(p, s) ==
    \/ /\ mark'[p][s] = mark[p][s]
       /\ \/ s \in pending'[p] \/ s \notin pending[p] \/ Rotated(s)
          \/ \E t \in Threads : ProcOf[t] = p /\ Cleared(t)
    \/ mark'[p][s] = clock /\ LockFree(p) /\ (s \in pending'[p] \/ Rotated(s))
    \/ mark'[p][s] = 0 /\ \A t \in Threads : ProcOf[t] = p => pc'[t] = "idle"

PromiseEffect == /\ \A s \in Scopes : NotifiedEffect(s)
                 /\ \A p \in Procs, s \in Scopes : OwnEffect(p, s)

\* A rotation that was applied installs a fresh token at the present clock and
\* promises nothing about other scopes.
LEMMA RotatedApplied ==
    ASSUME TypeOK, NEW s \in Scopes, RotateApplied(s)
    PROVE  /\ Rotated(s) /\ notified'[s] = clock
           /\ \A r \in Scopes : r # s => notified'[r] = notified[r]
<1>1. minted + 1 \in 0..MaxTokens
  BY BoundsAssumption DEF RotateApplied, Mint, TypeOK, TokenType
<1>2. token'[s] = minted + 1 /\ born'[minted + 1] = clock
  BY <1>1 DEF RotateApplied, Install, TypeOK, TokenType
<1>3. QED
  BY <1>1, <1>2 DEF Rotated, NoToken, RotateApplied, TypeOK, TokenType

\* Every step changes what is promised, to everybody or by a process to itself,
\* in one of the ways listed in NotifiedEffect and OwnEffect.
LEMMA PromiseStep ==
    ASSUME TypeOK, [Next]_vars PROVE PromiseEffect
<1>t. /\ notified \in [Scopes -> Nat] /\ mark \in [Procs -> [Scopes -> Nat]]
      /\ pending \in [Procs -> SUBSET Scopes] /\ minted \in 0..MaxTokens
  BY DEF TypeOK, TokenType, ProcessType
<1>1. CASE UNCHANGED <<notified, mark, pending>>
  BY <1>1 DEF PromiseEffect, NotifiedEffect, OwnEffect
<1>2. CASE \E t \in Threads :
               \/ \E q \in Queries : BeginRead(t, q)
               \/ \E s \in Scopes : Commit(t, s) \/ CallInvalidate(t, s)
               \/ \E s \in Scopes : AddToken(t, s) \/ ReadToken(t, s)
               \/ EndCapture(t) \/ LookupMiss(t) \/ LookupFound(t) \/ Hit(t)
               \/ Superseded(t) \/ ReturnRows(t) \/ Sql(t) \/ BeginFill(t) \/ SkipFill(t)
               \/ Publish(t) \/ PublishFails(t)
  <2>1. UNCHANGED <<notified, mark, pending>>
    BY <1>2 DEF BeginRead, Commit, CallInvalidate, AddToken, AddApplied, ReadToken, EndCapture,
                LookupMiss, LookupFound, Hit, Superseded, ReturnRows, Sql, BeginFill, SkipFill,
                Publish, PublishFails, backend, process
  <2>2. QED
    BY <2>1, <1>1
<1>3. CASE \/ \E t \in Threads :
                 \/ \E k \in victims[t] :
                       DeleteKey(t, k) \/ DeleteFails(t, k) \/ ClearEntry(t, k)
                 \/ EndInvalidate(t) \/ ClearBegin(t)
                 \/ \E s \in todo[t] : ClearToken(t, s)
                 \/ ClearFails(t)
           \/ \E e \in lateFills : DeliverFill(e)
           \/ \E s \in Scopes : EvictToken(s)
           \/ \E e \in store : EvictEntry(e)
           \/ UNCHANGED vars
  <2>1. UNCHANGED <<notified, mark, pending>>
    BY <1>3 DEF DeleteKey, DeleteFails, ClearEntry, EndInvalidate, ClearBegin, ClearToken,
                ClearFails, DeliverFill, EvictToken, EvictEntry, vars, backend, process
  <2>2. QED
    BY <2>1, <1>1
<1>4. ASSUME NEW t \in Threads, NEW s \in Scopes, RetryRotation(t, s)
      PROVE  PromiseEffect
  <2>1. /\ Rotated(s) /\ notified'[s] = clock /\ UNCHANGED mark
        /\ \A r \in Scopes : r # s => notified'[r] = notified[r]
    BY <1>4, RotatedApplied DEF RetryRotation
  <2>2. \A p \in Procs, r \in Scopes : r = s \/ r \in pending'[p] \/ r \notin pending[p]
    BY <1>4, <1>t DEF RetryRotation
  <2>3. QED
    BY <2>1, <2>2, <1>t DEF PromiseEffect, NotifiedEffect, OwnEffect
<1>5. ASSUME NEW s \in Scopes, RotateRaised(s) \/ ReadRaised(s)
      PROVE  \A r \in Scopes : NotifiedEffect(r)
  <2>1. CASE RotateApplied(s)
    BY <2>1, RotatedApplied DEF NotifiedEffect
  <2>2. CASE ~RotateApplied(s)
    BY <1>5, <2>2 DEF RotateRaised, ReadRaised, AddApplied, WriteDelayed, NotifiedEffect
  <2>3. QED
    BY <2>1, <2>2
<1>6. ASSUME NEW t \in Threads, Unavailable(t)
      PROVE  PromiseEffect
  <2>1. PICK s \in todo[t] : RotateRaised(s) \/ ReadRaised(s)
    BY <1>6, Zenon DEF Unavailable
  <2>2. \A r \in Scopes : NotifiedEffect(r)
    BY <2>1, <1>5 DEF TypeOK, FrameType
  <2>3. UNCHANGED <<mark, pending>>
    BY <1>6 DEF Unavailable, process
  <2>4. QED
    BY <2>2, <2>3 DEF PromiseEffect, OwnEffect
<1>7. ASSUME NEW t \in Threads, Invalidate(t)
      PROVE  PromiseEffect
  <2>1. scope[t] \in Scopes /\ ProcOf[t] \in Procs
    BY <1>7, ThreadsAssumption DEF Invalidate, TypeOK, OperandType
  <2>2. LockFree(ProcOf[t]) /\ mark' = [mark EXCEPT ![ProcOf[t]][scope[t]] = clock]
    BY <1>7, Zenon DEF Invalidate
  <2>3. mark'[ProcOf[t]] = [mark[ProcOf[t]] EXCEPT ![scope[t]] = clock]
    BY <2>1, <2>2, <1>t
  <2>4. \A p \in Procs : p # ProcOf[t] => mark'[p] = mark[p]
    BY <2>2, <1>t
  <2>5. \/ /\ RotateApplied(scope[t])
           /\ pending' = [pending EXCEPT ![ProcOf[t]] = @ \ {scope[t]}]
        \/ /\ RotateRaised(scope[t])
           /\ pending' = [pending EXCEPT ![ProcOf[t]] = @ \cup {scope[t]}]
    BY <1>7, Zenon DEF Invalidate
  <2>6. \A r \in Scopes : NotifiedEffect(r)
    <3>1. CASE RotateApplied(scope[t])
      BY <3>1, <2>1, RotatedApplied DEF NotifiedEffect
    <3>2. QED
      BY <3>1, <2>1, <2>5, <1>5
  <2>7. scope[t] \in pending'[ProcOf[t]] \/ Rotated(scope[t])
    BY <2>1, <2>5, <1>t, RotatedApplied
  <2>8. \A p \in Procs, r \in Scopes :
           p # ProcOf[t] \/ r # scope[t] => r \in pending'[p] \/ r \notin pending[p]
    BY <2>1, <2>5, <1>t
  <2>9. \A p \in Procs, r \in Scopes : OwnEffect(p, r)
    BY <2>1, <2>2, <2>3, <2>4, <2>7, <2>8, <1>t DEF OwnEffect
  <2>10. QED
    BY <2>6, <2>9 DEF PromiseEffect
<1>8. ASSUME NEW t \in Threads, ClearEnd(t)
      PROVE  PromiseEffect
  <2>1. ProcOf[t] \in Procs
    BY ThreadsAssumption
  <2>2. \A s \in Scopes : /\ notified'[s] \in {notified[s], since[t][s]}
                          /\ notified[s] <= notified'[s]
    BY <1>8, <1>t DEF ClearEnd, Later, TypeOK, FrameType
  <2>3. UNCHANGED mark /\ \A p \in Procs : p # ProcOf[t] => pending'[p] = pending[p]
    BY <1>8, <1>t DEF ClearEnd
  <2>4. Cleared(t)
    BY <1>8 DEF ClearEnd, Cleared
  <2>5. QED
    BY <2>1, <2>2, <2>3, <2>4 DEF PromiseEffect, NotifiedEffect, OwnEffect
<1>9. ASSUME NEW w \in lateTokens, DeliverToken(w)
      PROVE  PromiseEffect
  <2>0. w.scope \in Scopes /\ w.tok \in 1..MaxTokens
    BY DEF TypeOK, TokenType
  <2>1. \A s \in Scopes : NotifiedEffect(s)
    <3>1. CASE UNCHANGED notified
      BY <3>1 DEF NotifiedEffect
    <3>2. CASE Install(w.scope, w.tok) /\ notified' = [notified EXCEPT ![w.scope] = clock]
      BY <2>0, <3>2, <1>t DEF NotifiedEffect, Rotated, Install, NoToken, TypeOK, TokenType
    <3>3. QED
      BY <1>9, <3>1, <3>2 DEF DeliverToken
  <2>2. UNCHANGED <<mark, pending>>
    BY <1>9 DEF DeliverToken, process
  <2>3. QED
    BY <2>1, <2>2 DEF PromiseEffect, OwnEffect
<1>10. ASSUME NEW p \in Procs, Restart(p)
       PROVE  PromiseEffect
  <2>1. /\ UNCHANGED notified
        /\ mark' = [mark EXCEPT ![p] = Zero] /\ pending' = [pending EXCEPT ![p] = {}]
    BY <1>10 DEF Restart, backend
  <2>2. \A t \in Threads : ProcOf[t] = p => pc'[t] = "idle"
    BY <1>10 DEF Restart
  <2>3. \A q \in Procs : q # p => mark'[q] = mark[q] /\ pending'[q] = pending[q]
    BY <2>1, <1>t
  <2>4. \A s \in Scopes : mark'[p][s] = 0
    BY <2>1, <1>t DEF Zero
  <2>5. QED
    BY <2>1, <2>2, <2>3, <2>4 DEF PromiseEffect, NotifiedEffect, OwnEffect
<1>11. QED
  BY <1>2, <1>3, <1>4, <1>6, <1>7, <1>8, <1>9, <1>10
     DEF Next, ReadStep, WriteStep, ClearStep, Environment

----------------------------------------------------------------------------
(* Part 3: the inductive invariant; first the tokens.                      *)

\* A token that nobody refers to is not referred to until it is installed.
LEMMA CleanStays ==
    ASSUME TypeOK, GensEffect, StoreEffect,
           NEW k \in 1..MaxTokens, Clean(k), \A s \in Scopes : token'[s] # k
    PROVE  Clean(k)'
<1>1. k # NoToken
  BY BoundsAssumption DEF NoToken
<1>2. \A t \in Threads, s \in Scopes : gens'[t][s] # k
  BY <1>1 DEF Clean, GensEffect
<1>3. ASSUME NEW e \in (store \cup lateFills)', NEW s \in Scopes
      PROVE  e.key.gens[s] # k
  <2>1. CASE e \in store \cup lateFills
    BY <2>1 DEF Clean
  <2>2. CASE \E t \in Threads : e = [key |-> KeyOf(t), asof |-> row[t]]
    BY <2>2 DEF Clean, KeyOf
  <2>3. QED
    BY <2>1, <2>2 DEF StoreEffect
<1>4. QED
  BY <1>2, <1>3 DEF Clean

\* A step installs only tokens that nobody refers to.
LEMMA TokensPreserved ==
    ASSUME TypeOK, TokensInv, [Next]_vars PROVE TokensInv'
<1>e. TokenEffect /\ GensEffect /\ StoreEffect
  BY TokenStep, GensStep, StoreStep
<1>t. /\ token \in [Scopes -> 0..MaxTokens] /\ minted \in 0..MaxTokens /\ MaxTokens \in Nat
      /\ \A w \in lateTokens : w.tok \in 1..MaxTokens /\ w.scope \in Scopes
  BY BoundsAssumption DEF TypeOK, TokenType
<1>1. CASE TokensKept
  <2>1. \A k \in 1..MaxTokens : Clean(k) => Clean(k)'
    BY <1>1, <1>e, CleanStays DEF TokensKept, Clean
  <2>2. QED
    BY <1>1, <1>t, <2>1 DEF TokensKept, TokensInv
<1>2. ASSUME NEW s \in Scopes, Mint, Install(s, minted + 1), UNCHANGED lateTokens
      PROVE  TokensInv'
  <2>1. \A k \in 1..MaxTokens : Clean(k) /\ k # minted + 1 => Clean(k)'
    BY <1>2, <1>t, <1>e, CleanStays DEF Clean, Install
  <2>2. minted' = minted + 1 /\ minted + 1 \in 1..MaxTokens
    BY <1>2, <1>t DEF Mint
  <2>3. \A w \in lateTokens : w.tok # minted + 1
    BY <2>2, <1>t DEF TokensInv
  <2>4. QED
    BY <1>2, <1>t, <2>1, <2>2, <2>3 DEF TokensInv
<1>3. ASSUME NEW s \in Scopes, NEW c \in {"SET", "ADD"}, Mint, UNCHANGED <<token, born>>,
             lateTokens' = lateTokens \cup {[scope |-> s, tok |-> minted + 1, command |-> c]}
      PROVE  TokensInv'
  <2>1. \A k \in 1..MaxTokens : Clean(k) => Clean(k)'
    BY <1>3, <1>e, CleanStays DEF Clean
  <2>2. minted' = minted + 1 /\ minted + 1 \in 1..MaxTokens
    BY <1>3, <1>t DEF Mint
  <2>3. Clean(minted + 1) /\ \A w \in lateTokens : w.tok # minted + 1
    BY <2>2, <1>t DEF TokensInv
  <2>4. QED
    BY <1>3, <1>t, <2>1, <2>2, <2>3 DEF TokensInv
<1>4. ASSUME NEW w \in lateTokens, lateTokens' = lateTokens \ {w}, UNCHANGED minted,
             UNCHANGED <<token, born>> \/ Install(w.scope, w.tok)
      PROVE  TokensInv'
  <2>1. \A k \in 1..MaxTokens : Clean(k) /\ k # w.tok => Clean(k)'
    BY <1>4, <1>t, <1>e, CleanStays DEF Clean, Install
  <2>2. \A v \in lateTokens \ {w} : v.tok # w.tok
    BY DEF TokensInv
  <2>3. w.tok <= minted
    BY <1>t DEF TokensInv
  <2>4. QED
    BY <1>4, <1>t, <2>1, <2>2, <2>3 DEF TokensInv
<1>5. ASSUME NEW s \in Scopes, token' = [token EXCEPT ![s] = NoToken],
             UNCHANGED <<born, lateTokens, minted>>
      PROVE  TokensInv'
  <2>1. \A k \in 1..MaxTokens : Clean(k) => Clean(k)'
    BY <1>5, <1>t, <1>e, CleanStays DEF Clean, NoToken
  <2>2. QED
    BY <1>5, <1>t, <2>1 DEF TokensInv
<1>6. QED
  BY <1>1, <1>2, <1>3, <1>4, <1>5, <1>e DEF TokenEffect

\* The history of a token stays while anything refers to it.
LEMMA BornStable ==
    ASSUME TypeOK, TokensInv, [Next]_vars,
           NEW k \in 0..MaxTokens, k = NoToken \/ ~Clean(k)
    PROVE  born'[k] = born[k]
<1>t. /\ born \in [0..MaxTokens -> Nat] /\ minted \in 0..MaxTokens /\ MaxTokens \in Nat
      /\ \A w \in lateTokens : w.tok \in 1..MaxTokens
  BY BoundsAssumption DEF TypeOK, TokenType
<1>1. CASE UNCHANGED born
  BY <1>1
<1>2. ASSUME NEW s \in Scopes, Mint, Install(s, minted + 1)
      PROVE  born'[k] = born[k]
  BY <1>2, <1>t DEF Mint, Install, TokensInv, NoToken
<1>3. ASSUME NEW w \in lateTokens, Install(w.scope, w.tok)
      PROVE  born'[k] = born[k]
  BY <1>3, <1>t DEF Install, TokensInv, NoToken
<1>4. QED
  BY <1>1, <1>2, <1>3, TokenStep DEF TokenEffect, TokensKept

\* What a step may put in the place of a scope's token.
LEMMA TokenSucceeds ==
    ASSUME TypeOK, [Next]_vars, NEW s \in Scopes
    PROVE  token'[s] \in {token[s], NoToken} \/ Rotated(s)
<1>t. /\ token \in [Scopes -> 0..MaxTokens] /\ born \in [0..MaxTokens -> Nat]
      /\ minted \in 0..MaxTokens /\ MaxTokens \in Nat
      /\ \A w \in lateTokens : w.tok \in 1..MaxTokens /\ w.scope \in Scopes
  BY BoundsAssumption DEF TypeOK, TokenType
<1>1. ASSUME NEW r \in Scopes, Mint, Install(r, minted + 1)
      PROVE  token'[s] = token[s] \/ Rotated(s)
  BY <1>1, <1>t DEF Mint, Install, Rotated, NoToken
<1>2. ASSUME NEW w \in lateTokens, Install(w.scope, w.tok)
      PROVE  token'[s] = token[s] \/ Rotated(s)
  BY <1>2, <1>t DEF Install, Rotated, NoToken
<1>3. ASSUME NEW r \in Scopes, token' = [token EXCEPT ![r] = NoToken]
      PROVE  token'[s] \in {token[s], NoToken}
  BY <1>3, <1>t
<1>4. QED
  BY <1>1, <1>2, <1>3, TokenStep DEF TokenEffect, TokensKept

\* Tokens are only ever replaced by younger ones.
LEMMA LevelRises ==
    ASSUME TypeOK, TokensInv, ClockInv, [Next]_vars, NEW s \in Scopes
    PROVE  Level(s) <= Level(s)' /\ Level(s) <= clock
<1>t. /\ token[s] \in 0..MaxTokens /\ born \in [0..MaxTokens -> Nat] /\ clock \in Nat
  BY DEF TypeOK, TokenType, BudgetType
<1>1. Level(s) <= clock /\ clock <= clock' /\ Level(s) \in Nat
  BY <1>t, ClockStep DEF Level, ClockInv, ClockEffect
<1>2. CASE token'[s] = token[s]
  BY <1>2, <1>1, <1>t, BornStable DEF Level, Clean
<1>3. CASE token'[s] = NoToken
  BY <1>1, <1>3, <1>t, ClockStep DEF Level, ClockEffect
<1>4. CASE Rotated(s)
  BY <1>1, <1>4 DEF Level, Rotated
<1>5. QED
  BY <1>1, <1>2, <1>3, <1>4, TokenSucceeds

----------------------------------------------------------------------------
(* The parts of the invariant.                                             *)

\* Every time that a step records is the present.
LEMMA ClockPreserved ==
    ASSUME TypeOK, TypeOK', ClockInv, [Next]_vars PROVE ClockInv'
<1>t. /\ clock \in Nat /\ clock' \in Nat /\ born \in [0..MaxTokens -> Nat]
      /\ mark \in [Procs -> [Scopes -> Nat]]
  BY DEF TypeOK, BudgetType, TokenType, ProcessType
<1>c. clock <= clock'
  BY <1>t, ClockStep DEF ClockEffect
<1>1. ASSUME NEW k \in 0..MaxTokens PROVE born'[k] <= clock'
  <2>1. born'[k] \in {born[k], clock}
    BY <1>t, TokenStep DEF TokenEffect, TokensKept, Install
  <2>2. QED
    BY <1>c, <1>t, <2>1 DEF ClockInv
<1>2. ASSUME NEW p \in Procs, NEW s \in Scopes PROVE mark'[p][s] <= clock'
  <2>1. OwnEffect(p, s)
    BY PromiseStep DEF PromiseEffect
  <2>2. QED
    BY <1>c, <1>t, <2>1 DEF OwnEffect, ClockInv
<1>3. QED
  BY <1>1, <1>2 DEF ClockInv

\* A completed clear() promises no more than the tokens keep.
LEMMA LevelPreserved ==
    ASSUME TypeOK, TypeOK', TokensInv, ClockInv, LevelInv, ClearInv, [Next]_vars
    PROVE  LevelInv'
<1>1. ASSUME NEW s \in Scopes PROVE notified'[s] <= Level(s)'
  <2>t. /\ notified[s] \in Nat /\ notified'[s] \in Nat /\ Level(s) \in Nat /\ Level(s)' \in Nat
        /\ clock \in Nat
    BY DEF TypeOK, TokenType, BudgetType, Level
  <2>1. CASE notified'[s] = notified[s]
    BY <2>1, <2>t, LevelRises DEF LevelInv
  <2>2. CASE notified'[s] = clock /\ Rotated(s)
    BY <2>2, <2>t DEF Rotated, Level
  <2>3. ASSUME NEW t \in Threads, Cleared(t), notified'[s] = since[t][s]
        PROVE  notified'[s] <= Level(s)'
    <3>1. since[t][s] <= Level(s)
      BY <2>3 DEF ClearInv, Cleared
    <3>2. QED
      BY <2>3, <3>1, <2>t, LevelRises
  <2>4. NotifiedEffect(s)
    BY PromiseStep DEF PromiseEffect
  <2>5. QED
    BY <2>1, <2>2, <2>3, <2>4 DEF NotifiedEffect
<1>2. ASSUME NEW p \in Procs, NEW s \in Scopes
      PROVE  s \in pending'[p] \/ mark'[p][s] <= Level(s)'
  <2>t. /\ mark[p][s] \in Nat /\ mark'[p][s] \in Nat /\ Level(s) \in Nat /\ Level(s)' \in Nat
        /\ clock \in Nat
    BY DEF TypeOK, TokenType, ProcessType, BudgetType, Level
  <2>1. Rotated(s) => Level(s)' = clock
    BY DEF Rotated, Level
  <2>2. mark'[p][s] = mark[p][s] \/ mark'[p][s] = clock \/ mark'[p][s] = 0
    BY PromiseStep DEF PromiseEffect, OwnEffect
  <2>3. mark[p][s] <= clock
    BY DEF ClockInv
  <2>4. CASE Rotated(s)
    BY <2>t, <2>1, <2>2, <2>3, <2>4
  <2>5. CASE mark'[p][s] = mark[p][s] /\ s \notin pending[p]
    <3>1. mark[p][s] <= Level(s)
      BY <2>5 DEF LevelInv
    <3>2. QED
      BY <2>5, <2>t, <3>1, LevelRises
  <2>6. ASSUME NEW t \in Threads, ProcOf[t] = p, Cleared(t), mark'[p][s] = mark[p][s]
        PROVE  mark'[p][s] <= Level(s)'
    <3>1. mark[p][s] <= since[t][s] /\ since[t][s] <= Level(s) /\ since[t][s] \in Nat
      BY <2>6 DEF ClearInv, Cleared, TypeOK, FrameType
    <3>2. QED
      BY <2>6, <2>t, <3>1, LevelRises
  <2>7. CASE mark'[p][s] = 0
    BY <2>7, <2>t
  <2>8. OwnEffect(p, s)
    BY PromiseStep DEF PromiseEffect
  <2>9. QED
    BY <2>4, <2>5, <2>6, <2>7, <2>8 DEF OwnEffect
<1>3. QED
  BY <1>1, <1>2 DEF LevelInv

\* A token that is captured, or part of a key, keeps its history.
LEMMA HeldStable ==
    ASSUME TypeOK, TokensInv, [Next]_vars
    PROVE  /\ \A t \in Threads, s \in Scopes : born'[gens[t][s]] = born[gens[t][s]]
           /\ \A e \in store \cup lateFills, s \in Scopes :
                 born'[e.key.gens[s]] = born[e.key.gens[s]]
<1>1. ASSUME NEW t \in Threads, NEW s \in Scopes
      PROVE  born'[gens[t][s]] = born[gens[t][s]]
  <2>1. gens[t][s] \in 0..MaxTokens /\ ~Clean(gens[t][s])
    BY DEF TypeOK, FrameType, Clean
  <2>2. QED
    BY <2>1, BornStable
<1>2. ASSUME NEW e \in store \cup lateFills, NEW s \in Scopes
      PROVE  born'[e.key.gens[s]] = born[e.key.gens[s]]
  <2>1. e.key.gens[s] \in 0..MaxTokens
    BY DEF TypeOK, StoreType, Entry, Key
  <2>2. ~Clean(e.key.gens[s])
    BY DEF Clean
  <2>3. QED
    BY <2>1, <2>2, BornStable
<1>3. QED
  BY <1>1, <1>2

\* A result on its way into the store carries the bound of the thread's rows.
LEMMA EntryPreserved ==
    ASSUME TypeOK, TokensInv, EntryInv, RowInv, [Next]_vars
    PROVE  EntryInv'
<1>1. ASSUME NEW e \in (store \cup lateFills)', NEW s \in ScopesOf[e.key.q]
      PROVE  born'[e.key.gens[s]] <= e.asof
  <2>1. CASE e \in store \cup lateFills
    <3>1. s \in Scopes
      BY <2>1, ScopesAssumption DEF TypeOK, StoreType, Entry, Key
    <3>2. QED
      BY <2>1, <3>1, HeldStable DEF EntryInv
  <2>2. ASSUME NEW t \in Threads, pc[t] = "publish", e = [key |-> KeyOf(t), asof |-> row[t]]
        PROVE  born'[e.key.gens[s]] <= e.asof
    <3>1. query[t] \in Queries
      BY <2>2 DEF TypeOK, OperandType, ReadLabels
    <3>2. s \in ScopesOf[query[t]] /\ s \in Scopes
      BY <2>2, <3>1, ScopesAssumption DEF KeyOf
    <3>3. QED
      BY <2>2, <3>2, HeldStable DEF RowInv, KeyOf
  <2>3. QED
    BY <2>1, <2>2, StoreStep DEF StoreEffect
<1>2. QED
  BY <1>1 DEF EntryInv

\* The SQL runs after the snapshot, and a found result is not older than its key.
LEMMA RowPreserved ==
    ASSUME TypeOK, TypeOK', TokensInv, ClockInv, EntryInv, RowInv, [Next]_vars
    PROVE  RowInv'
<1>1. SUFFICES ASSUME NEW t \in Threads, pc'[t] \in {"fill", "publish", "confirm", "hit"},
                      NEW s \in ScopesOf[query'[t]]
               PROVE  born'[gens'[t][s]] <= row'[t]
  BY DEF RowInv
<1>2. query'[t] \in Queries
  BY <1>1 DEF TypeOK, OperandType, ReadLabels
<1>3. s \in Scopes
  BY <1>1, <1>2, ScopesAssumption
<1>4. born'[gens[t][s]] = born[gens[t][s]]
  BY <1>3, HeldStable
<1>5. CASE Framed(t) \/ Confirms(t) \/ Hits(t) \/ Publishes(t)
  BY <1>1, <1>4, <1>5 DEF RowInv, Framed, Confirms, Hits, Publishes
<1>6. CASE Finds(t)
  <2>1. PICK e \in store : e.key = KeyOf(t) /\ row'[t] = e.asof
    BY <1>6 DEF Finds
  <2>2. born[e.key.gens[s]] <= e.asof
    BY <1>1, <1>6, <2>1 DEF Finds, EntryInv, KeyOf
  <2>3. QED
    BY <1>4, <1>6, <2>1, <2>2 DEF Finds, KeyOf
<1>7. CASE Reads(t)
  BY <1>3, <1>4, <1>7 DEF Reads, ClockInv, TypeOK, FrameType
<1>8. QED
  BY <1>1, <1>5, <1>6, <1>7, ThreadStep DEF ThreadEffect, Watched, Clears

\* A token confirmed once is younger than the promises made before the lookup.
LEMMA ConfirmPreserved ==
    ASSUME TypeOK, TypeOK', TokensInv, ClockInv, LevelInv, ClearInv, ConfirmInv, [Next]_vars
    PROVE  ConfirmInv'
<1>1. SUFFICES ASSUME NEW t \in Threads, pc'[t] = "confirm"
               PROVE  /\ \A s \in Scopes : since'[t][s] <= Promised(ProcOf[t])'[s]
                      /\ same'[t] => \A s \in ScopesOf[query'[t]] \ todo'[t] :
                                        since'[t][s] <= born'[gens'[t][s]]
  BY DEF ConfirmInv
<1>p. ProcOf[t] \in Procs /\ query'[t] \in Queries /\ ScopesOf[query'[t]] \subseteq Scopes
  BY <1>1, ThreadsAssumption, ScopesAssumption DEF TypeOK, OperandType, ReadLabels
<1>t. \A s \in Scopes :
         /\ Promised(ProcOf[t])[s] = Later(notified[s], mark[ProcOf[t]][s])
         /\ notified[s] \in Nat /\ mark[ProcOf[t]][s] \in Nat /\ Level(s) \in Nat
         /\ since[t][s] \in Nat /\ gens[t][s] \in 0..MaxTokens
  <2> SUFFICES ASSUME NEW s \in Scopes
               PROVE  /\ Promised(ProcOf[t])[s] = Later(notified[s], mark[ProcOf[t]][s])
                      /\ notified[s] \in Nat /\ mark[ProcOf[t]][s] \in Nat /\ Level(s) \in Nat
                      /\ since[t][s] \in Nat /\ gens[t][s] \in 0..MaxTokens
    OBVIOUS
  <2>1. Promised(ProcOf[t])[s] = Later(notified[s], mark[ProcOf[t]][s])
    BY DEF Promised
  <2>2. notified[s] \in Nat /\ mark[ProcOf[t]][s] \in Nat
    BY <1>p DEF TypeOK, TokenType, ProcessType
  <2>3. Level(s) \in Nat
    BY DEF TypeOK, TokenType, BudgetType, Level
  <2>4. since[t][s] \in Nat /\ gens[t][s] \in 0..MaxTokens
    BY DEF TypeOK, FrameType
  <2>5. QED
    BY <2>1, <2>2, <2>3, <2>4
<1>b. \A s \in Scopes : born[gens[t][s]] \in Nat
  BY <1>t DEF TypeOK, TokenType
<1>r. ASSUME NEW s \in Scopes
      PROVE  /\ Promised(ProcOf[t])[s] <= Promised(ProcOf[t])'[s]
             /\ Promised(ProcOf[t])[s] \in Nat /\ Promised(ProcOf[t])'[s] \in Nat
  <2>1. notified'[s] \in Nat /\ mark'[ProcOf[t]][s] \in Nat /\ clock \in Nat
    BY <1>p DEF TypeOK, TokenType, ProcessType, BudgetType
  <2>2. mark[ProcOf[t]][s] <= mark'[ProcOf[t]][s]
    <3>1. OwnEffect(ProcOf[t], s)
      BY <1>p, PromiseStep DEF PromiseEffect
    <3>2. mark[ProcOf[t]][s] <= clock
      BY <1>p DEF ClockInv
    <3>3. QED
      BY <1>1, <1>t, <2>1, <3>1, <3>2 DEF OwnEffect
  <2>3. notified[s] <= notified'[s]
    <3>1. NotifiedEffect(s)
      BY PromiseStep DEF PromiseEffect
    <3>2. notified[s] <= Level(s) /\ Level(s) <= clock
      BY LevelRises DEF LevelInv
    <3>3. QED
      BY <1>t, <2>1, <3>1, <3>2 DEF NotifiedEffect
  <2>4. Promised(ProcOf[t])'[s] = Later(notified'[s], mark'[ProcOf[t]][s])
    BY DEF Promised, Later
  <2>5. QED
    BY <1>t, <2>1, <2>2, <2>3, <2>4 DEF Later
<1>2. CASE Framed(t)
  BY <1>1, <1>2, <1>p, <1>r, <1>t, HeldStable DEF Framed, ConfirmInv
<1>3. CASE Finds(t)
  <2>1. UNCHANGED <<notified, mark>>
    BY <1>3 DEF Finds, PromisesKept
  <2>2. \A s \in Scopes : since'[t][s] = Promised(ProcOf[t])[s]
    BY <1>3 DEF Finds
  <2>3. QED
    BY <1>3, <1>p, <1>r, <2>2 DEF Finds
<1>4. CASE Confirms(t)
  <2>1. PICK r \in todo[t] :
           /\ Settled(t) /\ token[r] # NoToken /\ todo'[t] = todo[t] \ {r}
           /\ same'[t] => same[t] /\ token[r] = gens[t][r]
    BY <1>4 DEF Confirms
  <2>2. /\ pc[t] = "confirm" /\ query'[t] = query[t] /\ gens'[t] = gens[t]
        /\ since'[t] = since[t]
    BY <1>1, <1>4 DEF Confirms
  <2>3. ASSUME NEW s \in Scopes PROVE since'[t][s] <= Promised(ProcOf[t])'[s]
    BY <1>r, <1>t, <2>2 DEF ConfirmInv
  <2>4. ASSUME same'[t], NEW s \in ScopesOf[query'[t]] \ todo'[t]
        PROVE  since'[t][s] <= born'[gens'[t][s]]
    <3>0. s \in Scopes /\ born'[gens'[t][s]] = born[gens[t][s]]
      BY <1>p, <2>2, <2>4, HeldStable
    <3>1. CASE s # r
      BY <2>1, <2>2, <2>4, <3>0, <3>1 DEF ConfirmInv
    <3>2. CASE s = r
      <4>1. born[gens[t][s]] = Level(s)
        BY <2>1, <2>4, <3>2 DEF Level
      <4>2. s \notin pending[ProcOf[t]]
        BY <2>1, <3>2 DEF Settled
      <4>3. notified[s] <= Level(s) /\ mark[ProcOf[t]][s] <= Level(s)
        BY <1>p, <3>0, <4>2 DEF LevelInv
      <4>4. since[t][s] <= Later(notified[s], mark[ProcOf[t]][s])
        BY <1>t, <2>2, <3>0 DEF ConfirmInv
      <4>5. QED
        BY <1>t, <2>2, <3>0, <4>1, <4>3, <4>4 DEF Later
    <3>3. QED
      BY <3>1, <3>2
  <2>5. QED
    BY <2>3, <2>4
<1>5. QED
  BY <1>1, <1>2, <1>3, <1>4, ThreadStep
     DEF ThreadEffect, Watched, Hits, Reads, Publishes, Clears

\* No token written after a clear() began is older than the clear().
LEMMA ClearPreserved ==
    ASSUME TypeOK, TypeOK', TokensInv, ClockInv, ClearInv, [Next]_vars
    PROVE  ClearInv'
<1>1. SUFFICES ASSUME NEW t \in Threads, pc'[t] = "clearing", NEW s \in Scopes
               PROVE  /\ mark'[ProcOf[t]][s] <= since'[t][s] /\ since'[t][s] <= clock'
                      /\ s \notin todo'[t] => since'[t][s] <= Level(s)'
  BY DEF ClearInv
<1>t. /\ ProcOf[t] \in Procs /\ token[s] \in 0..MaxTokens
      /\ mark[ProcOf[t]][s] \in Nat /\ mark'[ProcOf[t]][s] \in Nat
      /\ since[t][s] \in Nat /\ since'[t][s] \in Nat /\ clock \in Nat /\ clock' \in Nat
      /\ Level(s) \in Nat /\ Level(s)' \in Nat
  BY ThreadsAssumption DEF TypeOK, TokenType, ProcessType, FrameType, BudgetType, Level
<1>c. clock <= clock'
  BY <1>t, ClockStep DEF ClockEffect
<1>m. pc[t] = "clearing" => mark'[ProcOf[t]][s] = mark[ProcOf[t]][s]
  <2>1. pc[t] = "clearing" => ~LockFree(ProcOf[t])
    BY DEF LockFree, Locked
  <2>2. OwnEffect(ProcOf[t], s)
    BY <1>t, PromiseStep DEF PromiseEffect
  <2>3. QED
    BY <1>1, <2>1, <2>2 DEF OwnEffect
<1>2. CASE Framed(t)
  BY <1>1, <1>2, <1>c, <1>m, <1>t, LevelRises DEF Framed, ClearInv
<1>3. CASE /\ todo'[t] = Present
           /\ since'[t] = [r \in Scopes |-> clock] /\ PromisesKept
  <2>1. since'[t][s] = clock /\ mark'[ProcOf[t]][s] = mark[ProcOf[t]][s]
    BY <1>3 DEF PromisesKept
  <2>2. mark[ProcOf[t]][s] <= clock
    BY <1>t DEF ClockInv
  <2>3. s \notin todo'[t] => Level(s)' = clock
    BY <1>3 DEF Present, Level, PromisesKept
  <2>4. QED
    BY <1>c, <1>t, <2>1, <2>2, <2>3
<1>4. CASE /\ pc[t] = "clearing" /\ since'[t] = since[t]
           /\ \E r \in todo[t] : todo'[t] = todo[t] \ {r} /\ token'[r] = NoToken
  <2>1. /\ mark[ProcOf[t]][s] <= since[t][s] /\ since[t][s] <= clock
        /\ (s \notin todo[t] => since[t][s] <= Level(s))
    BY <1>4 DEF ClearInv
  <2>2. token'[s] = NoToken => Level(s)' = clock'
    BY DEF Level
  <2>3. QED
    BY <1>4, <1>c, <1>m, <1>t, <2>1, <2>2, LevelRises
<1>5. QED
  BY <1>1, <1>2, <1>3, <1>4, ThreadStep
     DEF ThreadEffect, Watched, Confirms, Finds, Hits, Reads, Publishes, Clears

\* The tokens of a hit were all confirmed, so that they vouch for its rows.
LEMMA HitPreserved ==
    ASSUME TypeOK, TypeOK', TokensInv, RowInv, ConfirmInv, HitIsFresh, [Next]_vars
    PROVE  HitIsFresh'
<1>1. SUFFICES ASSUME NEW t \in Threads, pc'[t] = "hit", NEW s \in ScopesOf[query'[t]]
               PROVE  row'[t] >= since'[t][s]
  BY DEF HitIsFresh
<1>2. query'[t] \in Queries /\ s \in Scopes
  BY <1>1, ScopesAssumption DEF TypeOK, OperandType, ReadLabels
<1>3. CASE Framed(t)
  BY <1>1, <1>3 DEF Framed, HitIsFresh
<1>4. CASE Hits(t)
  <2>1. since[t][s] <= born[gens[t][s]]
    BY <1>1, <1>2, <1>4 DEF Hits, ConfirmInv
  <2>2. born[gens[t][s]] <= row[t]
    BY <1>1, <1>4 DEF Hits, RowInv
  <2>3. since[t][s] \in Nat /\ row[t] \in Nat /\ gens[t][s] \in 0..MaxTokens
    BY <1>2 DEF TypeOK, FrameType
  <2>4. born[gens[t][s]] \in Nat
    BY <2>3 DEF TypeOK, TokenType
  <2>5. QED
    BY <1>4, <2>1, <2>2, <2>3, <2>4 DEF Hits
<1>5. QED
  BY <1>1, <1>3, <1>4, ThreadStep
     DEF ThreadEffect, Watched, Confirms, Finds, Reads, Publishes, Clears

----------------------------------------------------------------------------
(* The theorems.                                                           *)

\* The invariant holds when nothing is stored and no call is in progress.
LEMMA FreshInit == Init => FreshInv
<1> SUFFICES ASSUME Init PROVE FreshInv
  OBVIOUS
<1>1. TypeOK
  BY TypeInit
<1>2. TokensInv
  BY BoundsAssumption DEF Init, TokensInv, Clean, NoTokens, NoToken
<1>3. ClockInv /\ LevelInv
  BY DEF Init, ClockInv, LevelInv, Level, NoTokens, NoToken, Zero
<1>4. EntryInv /\ RowInv /\ ConfirmInv /\ ClearInv /\ HitIsFresh
  BY DEF Init, EntryInv, RowInv, ConfirmInv, ClearInv, HitIsFresh
<1>5. QED
  BY <1>1, <1>2, <1>3, <1>4 DEF FreshInv

\* Every step keeps every part of the invariant.
LEMMA FreshStep == FreshInv /\ [Next]_vars => FreshInv'
<1> SUFFICES ASSUME FreshInv, [Next]_vars PROVE FreshInv'
  OBVIOUS
<1>1. TypeOK'
  BY TypeStep DEF FreshInv
<1>2. TokensInv' /\ ClockInv' /\ LevelInv' /\ ClearInv'
  BY <1>1, TokensPreserved, ClockPreserved, LevelPreserved, ClearPreserved DEF FreshInv
<1>3. EntryInv' /\ RowInv' /\ ConfirmInv' /\ HitIsFresh'
  BY <1>1, EntryPreserved, RowPreserved, ConfirmPreserved, HitPreserved DEF FreshInv
<1>4. QED
  BY <1>1, <1>2, <1>3 DEF FreshInv

\* The generation protocol keeps its inductive invariant.
THEOREM FreshInvariant == Spec => []FreshInv
  BY FreshInit, FreshStep, PTL DEF Spec

\* A hit of get() or get_or_set() is never older than the invalidations and
\* clears promised for the query's models when the result was looked up.
THEOREM Freshness == Spec => []HitIsFresh
<1>1. FreshInv => HitIsFresh
  BY DEF FreshInv
<1>2. QED
  BY <1>1, FreshInvariant, PTL

\* A token that becomes current is one that no key refers to: superseded
\* generations never come back.
THEOREM TokensAreNew == Spec => InstalledTokensAreNew
<1>1. FreshInv /\ [Next]_vars =>
         [\A s \in Scopes :
             token'[s] \notin {token[s], NoToken} =>
                 /\ \A e \in store \cup lateFills : ~Refers(e.key, token'[s])
                 /\ \A t \in Threads :
                       pc[t] # "idle" => \A r \in Scopes : gens[t][r] # token'[s]]_vars
  <2> SUFFICES ASSUME FreshInv, [Next]_vars, NEW s \in Scopes,
                      token'[s] \notin {token[s], NoToken}
               PROVE  /\ \A e \in store \cup lateFills : ~Refers(e.key, token'[s])
                      /\ \A t \in Threads :
                            pc[t] # "idle" => \A r \in Scopes : gens[t][r] # token'[s]
    OBVIOUS
  <2>1. Clean(token'[s])
    <3>t. /\ token \in [Scopes -> 0..MaxTokens] /\ minted \in 0..MaxTokens /\ MaxTokens \in Nat
          /\ \A w \in lateTokens : w.tok \in 1..MaxTokens /\ w.scope \in Scopes
      BY BoundsAssumption DEF FreshInv, TypeOK, TokenType
    <3>1. ASSUME NEW r \in Scopes, Mint, Install(r, minted + 1)
          PROVE  Clean(token'[s])
      <4>1. token'[s] = minted + 1
        BY <3>1, <3>t DEF Install
      <4>2. QED
        BY <3>1, <3>t, <4>1 DEF Mint, FreshInv, TokensInv
    <3>2. ASSUME NEW w \in lateTokens, Install(w.scope, w.tok)
          PROVE  Clean(token'[s])
      BY <3>2, <3>t DEF Install, FreshInv, TokensInv
    <3>3. ASSUME NEW r \in Scopes, token' = [token EXCEPT ![r] = NoToken]
          PROVE  FALSE
      BY <3>3, <3>t
    <3>4. TokenEffect
      BY TokenStep DEF FreshInv
    <3>5. QED
      BY <3>1, <3>2, <3>3, <3>4 DEF TokenEffect, TokensKept
  <2>2. ASSUME NEW e \in store \cup lateFills PROVE ~Refers(e.key, token'[s])
    BY <2>1, ScopesAssumption DEF Clean, Refers, FreshInv, TypeOK, StoreType, Entry, Key
  <2>3. QED
    BY <2>1, <2>2 DEF Clean
<1>2. QED
  BY <1>1, FreshInvariant, PTL DEF Spec, InstalledTokensAreNew

----------------------------------------------------------------------------
(* The contract.                                                           *)

\* No result, stored or held by a thread, was read in the future.
PastInv ==
    /\ \A e \in store \cup lateFills : e.asof <= clock
    /\ \A t \in Threads :
          pc[t] \in {"fill", "publish", "confirm", "hit"} => row[t] <= clock

\* Rows enter as of the present and are only passed on.
LEMMA PastPreserved ==
    ASSUME TypeOK, TypeOK', PastInv, [Next]_vars PROVE PastInv'
<1>c. clock \in Nat /\ clock' \in Nat /\ clock <= clock'
  BY ClockStep DEF ClockEffect, TypeOK, BudgetType
<1>1. ASSUME NEW e \in (store \cup lateFills)' PROVE e.asof <= clock'
  <2>0. e.asof \in Nat
    BY DEF TypeOK, StoreType, Entry
  <2>1. CASE e \in store \cup lateFills
    BY <1>c, <2>0, <2>1 DEF PastInv
  <2>2. ASSUME NEW t \in Threads, pc[t] = "publish", e.asof = row[t]
        PROVE  e.asof <= clock'
    BY <1>c, <2>0, <2>2 DEF PastInv
  <2>3. QED
    BY <2>1, <2>2, StoreStep DEF StoreEffect
<1>2. ASSUME NEW t \in Threads, pc'[t] \in {"fill", "publish", "confirm", "hit"}
      PROVE  row'[t] <= clock'
  <2>0. row[t] \in Nat /\ row'[t] \in Nat
    BY DEF TypeOK, FrameType
  <2>1. CASE Finds(t)
    BY <1>c, <2>0, <2>1 DEF Finds, PastInv
  <2>2. CASE Framed(t) \/ Confirms(t) \/ Hits(t) \/ Reads(t) \/ Publishes(t)
    BY <1>2, <1>c, <2>0, <2>2 DEF Framed, Confirms, Hits, Reads, Publishes, PastInv
  <2>3. QED
    BY <1>2, <2>1, <2>2, ThreadStep DEF ThreadEffect, Watched, Clears
<1>3. QED
  BY <1>1, <1>2 DEF PastInv

\* Whatever a step does to the promises made to everybody, it raises them, and
\* to no more than the present.
LEMMA PromisesRise ==
    ASSUME FreshInv, FreshInv', [Next]_vars PROVE Contract!Raised
<1>1. ASSUME NEW s \in Scopes
      PROVE  notified[s] <= notified'[s] /\ notified'[s] <= clock
  <2>t. /\ notified[s] \in Nat /\ notified'[s] \in Nat /\ clock \in Nat /\ Level(s) \in Nat
    BY DEF FreshInv, TypeOK, TokenType, BudgetType, Level
  <2>1. notified[s] <= Level(s) /\ Level(s) <= clock
    BY LevelRises DEF FreshInv, LevelInv
  <2>2. ASSUME NEW t \in Threads, Cleared(t) PROVE since[t][s] <= clock
    BY <2>2 DEF FreshInv, ClearInv, Cleared
  <2>3. NotifiedEffect(s)
    BY PromiseStep DEF FreshInv, PromiseEffect
  <2>4. QED
    BY <2>t, <2>1, <2>2, <2>3 DEF NotifiedEffect
<1>2. notified' = [s \in Scopes |-> notified'[s]]
  BY DEF FreshInv, TypeOK, TokenType
<1>3. QED
  BY <1>1, <1>2 DEF Contract!Raised

\* A caller of the contract sees nothing of what thread t does.
ViewKept(t) ==
    \/ /\ pc'[t] = pc[t] /\ query'[t] = query[t]
       /\ row'[t] = row[t] /\ since'[t] = since[t]
    \/ ~Asking(t) /\ ~Asking(t)'

ViewsKept == UNCHANGED <<[t \in Threads |-> IF Asking(t) THEN query[t] ELSE None],
                         [t \in Threads |-> IF Asking(t) THEN since[t] ELSE Zero],
                         [t \in Threads |-> IF pc[t] = "hit" THEN [asof |-> row[t]]
                                                             ELSE [none |-> TRUE]]>>

\* When no thread shows anything, the contract's variables for the threads stay.
LEMMA ViewsStay ==
    ASSUME \A t \in Threads : ViewKept(t) PROVE ViewsKept
BY DEF ViewKept, ViewsKept, Asking

\* A step that neither moves the clock, nor marks a scope, nor shows is a promise.
LEMMA Unseen ==
    ASSUME FreshInv, FreshInv', [Next]_vars, UNCHANGED <<clock, mark>>,
           \A t \in Threads : ViewKept(t)
    PROVE  Contract!Promise
BY PromisesRise, ViewsStay DEF Contract!Promise, ViewsKept

\* A thread that was asking and asks no more has finished its lookup.
LEMMA Finished ==
    ASSUME FreshInv, FreshInv', [Next]_vars, UNCHANGED <<clock, mark>>,
           NEW t \in Threads, Asking(t), ~Asking(t)',
           \A u \in Threads \ {t} : ViewKept(u)
    PROVE  Contract!Finish(t)
<1>1. query[t] # None
  BY NoneAssumption DEF Asking, FreshInv, TypeOK, OperandType, ReadLabels
<1>2. QED
  BY <1>1, PromisesRise DEF Contract!Finish, ViewKept, Asking, Contract!Nothing, Contract!Zero, Zero

\* A thread whose call ends, or whose lookup misses, asks no more, and no other
\* thread notices.
LEMMA Declines ==
    ASSUME TypeOK, NEW t \in Threads, Return(t) \/ Miss(t)
    PROVE  ~Asking(t)' /\ \A u \in Threads \ {t} : ViewKept(u)
<1>f. /\ pc \in [Threads -> Labels] /\ query \in [Threads -> Queries \cup {None}]
      /\ row \in [Threads -> Nat] /\ since \in [Threads -> [Scopes -> Nat]]
  BY DEF TypeOK, FrameType
<1>1. CASE Return(t)
  BY <1>f, <1>1 DEF Return, Goto, Asking, ViewKept
<1>2. CASE Miss(t) /\ ~Return(t)
  BY <1>f, <1>2 DEF Miss, Goto, Asking, ViewKept
<1>3. QED
  BY <1>1, <1>2

\* What a step that looks nothing up and answers nothing is to the contract.
LEMMA UnseenSteps ==
    ASSUME FreshInv, FreshInv', [Next]_vars,
           \/ \E t \in Threads :
                 \/ \E q \in Queries : BeginRead(t, q)
                 \/ \E s \in Scopes : CallInvalidate(t, s)
                 \/ \E s \in Scopes : RetryRotation(t, s) \/ AddToken(t, s) \/ ReadToken(t, s)
                 \/ EndCapture(t) \/ LookupMiss(t) \/ Sql(t) \/ BeginFill(t) \/ SkipFill(t)
                 \/ Publish(t) \/ PublishFails(t) \/ EndInvalidate(t)
                 \/ \E k \in victims[t] : DeleteKey(t, k) \/ DeleteFails(t, k)
                 \/ ClearBegin(t) \/ ClearStep(t)
           \/ \E w \in lateTokens : DeliverToken(w)
           \/ \E e \in lateFills : DeliverFill(e)
           \/ \E s \in Scopes : EvictToken(s)
           \/ \E e \in store : EvictEntry(e)
    PROVE  Contract!Promise
<1>f. /\ TypeOK /\ pc \in [Threads -> Labels] /\ query \in [Threads -> Queries \cup {None}]
      /\ row \in [Threads -> Nat] /\ since \in [Threads -> [Scopes -> Nat]]
  BY DEF FreshInv, TypeOK, FrameType
<1>1. CASE \E t \in Threads :
               \/ \E s \in Scopes : RetryRotation(t, s) \/ AddToken(t, s) \/ ReadToken(t, s)
               \/ \E k \in victims[t] : DeleteKey(t, k) \/ DeleteFails(t, k) \/ ClearEntry(t, k)
               \/ \E s \in todo[t] : ClearToken(t, s)
  <2>1. UNCHANGED <<pc, query, row, since, clock, mark>>
    BY <1>1 DEF RetryRotation, AddToken, ReadToken, DeleteKey, DeleteFails, ClearEntry,
                ClearToken, frame, process
  <2>2. QED
    BY <2>1, Unseen DEF ViewKept
<1>2. CASE \/ \E w \in lateTokens : DeliverToken(w)
           \/ \E e \in lateFills : DeliverFill(e)
           \/ \E s \in Scopes : EvictToken(s)
           \/ \E e \in store : EvictEntry(e)
  <2>1. UNCHANGED <<pc, query, row, since, clock, mark>>
    BY <1>2 DEF DeliverToken, DeliverFill, EvictToken, EvictEntry, frame, process
  <2>2. QED
    BY <2>1, Unseen DEF ViewKept
<1>3. ASSUME NEW t \in Threads,
             \/ \E q \in Queries : BeginRead(t, q)
             \/ \E s \in Scopes : CallInvalidate(t, s)
             \/ EndCapture(t) \/ Sql(t) \/ BeginFill(t) \/ ClearBegin(t)
      PROVE  Contract!Promise
  <2>1. UNCHANGED <<clock, mark>>
    BY <1>3 DEF BeginRead, CallInvalidate, EndCapture, Sql, BeginFill, ClearBegin, process
  <2>2. ViewKept(t)
    BY <1>3, <1>f DEF ViewKept, Asking, Goto, BeginRead, CallInvalidate, EndCapture, Sql,
                      BeginFill, ClearBegin
  <2>3. \A u \in Threads \ {t} : ViewKept(u)
    BY <1>3, <1>f DEF ViewKept, Goto, BeginRead, CallInvalidate, EndCapture, Sql, BeginFill,
                      ClearBegin, frame
  <2>4. QED
    BY <2>1, <2>2, <2>3, Unseen
<1>4. ASSUME NEW t \in Threads,
             \/ LookupMiss(t) \/ SkipFill(t) \/ Publish(t) \/ PublishFails(t)
             \/ EndInvalidate(t) \/ ClearEnd(t) \/ ClearFails(t)
      PROVE  Contract!Promise
  <2>1. UNCHANGED <<clock, mark>>
    BY <1>4 DEF LookupMiss, SkipFill, Publish, PublishFails, EndInvalidate, ClearEnd,
                ClearFails, process
  <2>2. ~Asking(t) /\ (Return(t) \/ Miss(t))
    BY <1>4 DEF Asking, LookupMiss, SkipFill, Publish, PublishFails, EndInvalidate, ClearEnd,
                ClearFails
  <2>3. \A u \in Threads : ViewKept(u)
    BY <1>f, <2>2, Declines DEF ViewKept
  <2>4. QED
    BY <2>1, <2>3, Unseen
<1>5. QED
  BY <1>1, <1>2, <1>3, <1>4 DEF ClearStep

\* A thread whose lookup fails or is over.
LEMMA Finishes ==
    ASSUME FreshInv, FreshInv', [Next]_vars, NEW t \in Threads,
           Unavailable(t) \/ Superseded(t) \/ ReturnRows(t)
    PROVE  Contract!Promise \/ Contract!Finish(t)
<1>1. UNCHANGED <<clock, mark>>
  BY DEF Unavailable, Superseded, ReturnRows, process
<1>2. Return(t) \/ Miss(t)
  BY DEF Unavailable, Superseded, ReturnRows
<1>3. ~Asking(t)' /\ \A u \in Threads \ {t} : ViewKept(u)
  BY <1>2, Declines DEF FreshInv
<1>4. CASE Asking(t)
  BY <1>1, <1>3, <1>4, Finished
<1>5. CASE ~Asking(t)
  <2>1. \A u \in Threads : ViewKept(u)
    BY <1>3, <1>5 DEF ViewKept
  <2>2. QED
    BY <1>1, <2>1, Unseen
<1>6. QED
  BY <1>4, <1>5

\* A commit, before its invalidation, is only the passing of time.
LEMMA Commits ==
    ASSUME FreshInv, NEW t \in Threads, NEW s \in Scopes, Commit(t, s)
    PROVE  Contract!Commit
<1>f. pc \in [Threads -> Labels]
  BY DEF FreshInv, TypeOK, FrameType
<1>1. UNCHANGED <<query, row, since, notified, mark>> /\ clock' = clock + 1
  BY DEF Commit, backend, process
<1>2. \A u \in Threads : ViewKept(u)
  BY <1>1, <1>f DEF Commit, Goto, ViewKept, Asking
<1>3. QED
  BY <1>1, <1>2, ViewsStay DEF Contract!Commit, ViewsKept

\* invalidate_model: the process keeps to it, and everybody if the rotation was
\* applied, whether or not its reply arrived.
LEMMA Invalidates ==
    ASSUME FreshInv, FreshInv', NEW t \in Threads, Invalidate(t)
    PROVE  Contract!Invalidate(ProcOf[t], scope[t])
<1>f. pc \in [Threads -> Labels]
  BY DEF FreshInv, TypeOK, FrameType
<1>1. UNCHANGED <<query, row, since, clock>>
  BY DEF Invalidate
<1>2. mark' = [mark EXCEPT ![ProcOf[t]][scope[t]] = clock]
  BY Zenon DEF Invalidate
<1>3. notified' \in {notified, [notified EXCEPT ![scope[t]] = clock]}
  BY Z3 DEF Invalidate, RotateApplied, RotateRaised, WriteDelayed
<1>4. \A u \in Threads : ViewKept(u)
  BY <1>1, <1>f DEF Invalidate, Goto, ViewKept, Asking
<1>5. QED
  BY <1>1, <1>2, <1>3, <1>4, ViewsStay DEF Contract!Invalidate, ViewsKept

\* The lookup that found a result is the question the contract is about.
LEMMA Asks ==
    ASSUME FreshInv, FreshInv', NEW t \in Threads, LookupFound(t),
           NEW q \in Queries, q = query[t]
    PROVE  Contract!Ask(t, q)
<1>f. /\ pc \in [Threads -> Labels] /\ row \in [Threads -> Nat]
      /\ since \in [Threads -> [Scopes -> Nat]]
  BY DEF FreshInv, TypeOK, FrameType
<1>1. UNCHANGED <<query, notified, mark, clock>>
  BY DEF LookupFound, backend, process
<1>2. pc[t] = "lookup" /\ pc' = [pc EXCEPT ![t] = "confirm"]
  BY DEF LookupFound, Goto
<1>3. since' = [since EXCEPT ![t] =
                   [s \in Scopes |-> Later(notified[s], mark[ProcOf[t]][s])]]
  BY DEF LookupFound, Promised
<1>4. \A u \in Threads : u # t => row'[u] = row[u]
  BY <1>f DEF LookupFound
<1>5. QED
  BY <1>1, <1>2, <1>3, <1>4, <1>f DEF Contract!Ask, Contract!Max2, Later, Asking

\* A hit answers it, with rows that keep every promise made before the question.
LEMMA Answers ==
    ASSUME FreshInv, FreshInv', PastInv, NEW t \in Threads, Hit(t)
    PROVE  Contract!Answer(t)
<1>f. /\ pc \in [Threads -> Labels] /\ row[t] \in Nat /\ clock \in Nat
      /\ since[t] \in [Scopes -> Nat]
  BY DEF FreshInv, TypeOK, FrameType, BudgetType
<1>1. UNCHANGED <<query, row, since, notified, mark, clock>>
  BY DEF Hit, backend, frame
<1>2. pc[t] = "confirm" /\ pc' = [pc EXCEPT ![t] = "hit"]
  BY DEF Hit, Goto
<1>3. query[t] \in Queries /\ query[t] # None /\ ScopesOf[query[t]] \subseteq Scopes
  BY <1>2, NoneAssumption, ScopesAssumption DEF FreshInv, TypeOK, OperandType, ReadLabels
<1>4. row[t] \in 0..clock
  BY <1>f, <1>2 DEF PastInv
<1>5. \A s \in ScopesOf[query[t]] : since[t][s] <= row[t]
  BY <1>f, <1>1, <1>2, <1>3 DEF FreshInv, HitIsFresh
<1>6. [u \in Threads |-> IF pc[u] = "hit" THEN [asof |-> row[u]] ELSE [none |-> TRUE]]' =
          [[u \in Threads |-> IF pc[u] = "hit" THEN [asof |-> row[u]] ELSE [none |-> TRUE]]
             EXCEPT ![t] = [asof |-> row[t]]]
  BY <1>f, <1>1, <1>2
<1>7. UNCHANGED <<[u \in Threads |-> IF Asking(u) THEN query[u] ELSE None],
                  [u \in Threads |-> IF Asking(u) THEN since[u] ELSE Zero]>>
  BY <1>f, <1>1, <1>2 DEF Asking
<1>8. Asking(t) /\ pc[t] # "hit"
  BY <1>2 DEF Asking
<1>9. QED
  BY <1>1, <1>3, <1>4, <1>5, <1>6, <1>7, <1>8
     DEF Contract!Answer, Contract!Nothing, Contract!Rows

\* A restart forgets what the process promised to itself, and its lookups.
LEMMA Forgets ==
    ASSUME FreshInv, NEW p \in Procs, Restart(p)
    PROVE  Contract!Forget(p)
<1>1. UNCHANGED <<notified, clock>> /\ mark' = [mark EXCEPT ![p] = Zero]
  BY DEF Restart, backend
<1>2. \A t \in Threads : ProcOf[t] = p => pc'[t] = "idle"
  BY DEF Restart
<1>3. \A t \in Threads : ProcOf[t] # p =>
          /\ pc'[t] = pc[t] /\ query'[t] = query[t] /\ row'[t] = row[t] /\ since'[t] = since[t]
  BY DEF Restart
<1>4. QED
  BY <1>1, <1>2, <1>3 DEF Contract!Forget, Contract!Nothing, Contract!Zero, Zero, Asking

\* The cache keeps the contract of FreshReads: every step of its threads and of
\* its backend is a step of the contract, or shows nothing of itself.
THEOREM ContractKept == Spec => KeepsContract
<1>1. Init => Contract!Init /\ PastInv
  BY DEF Init, PastInv, Contract!Init, Contract!Zero, Contract!Nothing, Zero, Asking
<1>2. FreshInv /\ FreshInv' /\ PastInv /\ [Next]_vars => PastInv'
  BY PastPreserved DEF FreshInv
<1>3. FreshInv /\ FreshInv' /\ PastInv /\ [Next]_vars => [Contract!Next]_(Contract!vars)
  <2> SUFFICES ASSUME FreshInv, FreshInv', PastInv, [Next]_vars
               PROVE  Contract!Next \/ UNCHANGED Contract!vars
    OBVIOUS
  <2>1. CASE UNCHANGED vars
    <3>1. UNCHANGED <<pc, query, row, since, clock, mark, notified>>
      BY <2>1 DEF vars, backend, process, frame
    <3>2. QED
      BY <3>1 DEF Contract!vars, Asking
  <2>2. CASE \E t \in Threads, s \in Scopes : Commit(t, s)
    BY <2>2, Commits DEF Contract!Next
  <2>3. ASSUME NEW t \in Threads, Invalidate(t) PROVE Contract!Next
    <3>1. ProcOf[t] \in Procs /\ scope[t] \in Scopes
      BY <2>3, ThreadsAssumption DEF Invalidate, FreshInv, TypeOK, OperandType
    <3>2. QED
      BY <2>3, <3>1, Invalidates DEF Contract!Next
  <2>4. ASSUME NEW t \in Threads, LookupFound(t) PROVE Contract!Next
    <3>1. PICK q \in Queries : q = query[t]
      BY <2>4 DEF LookupFound, FreshInv, TypeOK, OperandType, ReadLabels
    <3>2. Contract!Ask(t, q)
      BY <2>4, <3>1, Asks
    <3>3. QED
      BY <3>2 DEF Contract!Next
  <2>5. CASE \E t \in Threads : Hit(t)
    BY <2>5, Answers DEF Contract!Next
  <2>6. CASE \E t \in Threads : Unavailable(t) \/ Superseded(t) \/ ReturnRows(t)
    BY <2>6, Finishes DEF Contract!Next
  <2>7. CASE \E p \in Procs : Restart(p)
    BY <2>7, Forgets DEF Contract!Next
  <2>8. Contract!Promise => Contract!Next
    BY DEF Contract!Next
  <2>9. QED
    BY <2>1, <2>2, <2>3, <2>4, <2>5, <2>6, <2>7, <2>8, UnseenSteps
       DEF Next, ReadStep, WriteStep, Environment
<1>4. QED
  BY <1>1, <1>2, <1>3, FreshInvariant, PTL DEF Spec, KeepsContract, Contract!Spec
=============================================================================
