-------------------------- MODULE MeasurementProofs --------------------------
(***************************************************************************)
(* The measurement scripts, for every value of their constants: the        *)
(* analysis of object graphs, whose depth-first searches find the cycles   *)
(* and what they keep alive; and the experiments, whose analyzers accept   *)
(* the whole experiment and nothing less.                                  *)
(***************************************************************************)
EXTENDS LibraryProofs, ObjectGraphs, Experiments

----------------------------------------------------------------------------
(* analyze_graph(): the two searches.                                      *)

\* One or more of the references E lead from n to m.
Leads(E, n, m) ==
    \A C \in SUBSET Nodes :
        /\ \A k \in Nodes : <<n, k>> \in E => k \in C
        /\ \A k \in C : \A l \in Nodes : <<k, l>> \in E => l \in C
        => m \in C

Mutual(E, n, m) == Leads(E, n, m) /\ Leads(E, m, n)

\* The nodes that a stack of the first search has to come back to, and those
\* that it has yet to look at.
Opened(s)  == {n \in Nodes : \E i \in 1..Len(s) : s[i] = <<n, TRUE>>}
Awaiting(s) == {n \in Nodes : \E i \in 1..Len(s) : s[i] = <<n, FALSE>>}

\* No node is opened twice.
Once(s) == \A i, j \in 1..Len(s), n \in Nodes : s[i] = <<n, TRUE>> /\ s[j] = <<n, TRUE>> => i = j

\* Whatever lies above an open node was reached from it.
Descend(E, s) ==
    \A i, j \in 1..Len(s) : i < j =>
        \A n, m \in Nodes, b \in BOOLEAN : s[i] = <<n, TRUE>> /\ s[j] = <<m, b>> => Leads(E, n, m)

\* What an open node refers to has been visited or waits above it.
Promised(E, s, seen) ==
    \A i \in 1..Len(s) : \A n, m \in Nodes :
        s[i] = <<n, TRUE>> /\ <<n, m>> \in E =>
            m \in seen \/ \E j \in 1..Len(s) : j > i /\ s[j] = <<m, FALSE>>

\* A finished node u leads to nothing that finishes after all of the nodes it is
\* on a cycle with: one of those is open, or finishes no earlier.
Bounded(E, s, done) ==
    \A i \in 1..Len(done) : \A v \in Nodes : Leads(E, done[i], v) =>
        \/ \E w \in Opened(s) : Mutual(E, w, done[i])
        \/ \E j, k \in 1..Len(done) :
              done[j] = v /\ j <= k /\ (k = i \/ Mutual(E, done[i], done[k]))

FirstPass ==
    /\ stack \in Seq(Nodes \X BOOLEAN) /\ left \in Seq(Nodes) /\ finished \in Seq(Nodes)
    /\ visited = Range(finished) \cup Opened(stack)
    /\ Nodes \subseteq visited \cup Range(left) \cup Awaiting(stack)
    /\ Opened(stack) \cap Range(finished) = {} /\ Once(stack)
    /\ \A i, j \in 1..Len(finished) : finished[i] = finished[j] => i = j
    /\ Descend(edges, stack)
    /\ Promised(edges, stack, visited)
    /\ \A n \in Range(finished), m \in Nodes : <<n, m>> \in edges => m \in visited
    /\ Bounded(edges, stack, finished)
    /\ component = {} /\ cycles = {}

\* A node that leads to another is on a cycle with one that finished no earlier.
Finished ==
    /\ finished \in Seq(Nodes) /\ Range(finished) = Nodes
    /\ \A i, j \in 1..Len(finished) : Leads(edges, finished[i], finished[j]) =>
           \E k \in 1..Len(finished) : j <= k /\ (k = i \/ Mutual(edges, finished[i], finished[k]))

Cycle(E, n) == {m \in Nodes : Leads(E, n, m) /\ Leads(E, m, n)}
CyclesOf(E, S) == {Cycle(E, n) : n \in {n \in S : Leads(E, n, n)}}

\* The nodes being gathered, and those whose components have been.
Gathering == component \cup Range(stack)
Done      == visited \ Gathering

SecondPass ==
    /\ Finished
    /\ left \in Seq(Nodes) /\ Len(left) <= Len(finished)
    /\ \A i \in 1..Len(left) : left[i] = finished[Len(left) + 1 - i]
    /\ stack \in Seq(Nodes) /\ Gathering \subseteq visited /\ visited \subseteq Nodes
    /\ \A d \in Done, m \in Nodes : <<m, d>> \in edges => m \in Done
    /\ \A c \in component, m \in Nodes : <<m, c>> \in edges => m \in visited
    /\ \A i \in 1..Len(finished) : i > Len(left) + 1 => finished[i] \in Done
    /\ Len(left) < Len(finished) => finished[Len(left) + 1] \in visited
    /\ Gathering # {} =>
           /\ Len(left) < Len(finished) /\ finished[Len(left) + 1] \in Gathering
           /\ \A x \in Gathering : x = finished[Len(left) + 1] \/ Leads(edges, x, finished[Len(left) + 1])
    /\ cycles = CyclesOf(edges, Done)

ThirdPass ==
    /\ cycles = CyclesOf(edges, Nodes)
    /\ stack \in Seq(Nodes) /\ Range(stack) \subseteq reachable
    /\ UNION cycles \subseteq reachable /\ reachable \subseteq Nodes
    /\ \A x \in reachable \ Range(stack), m \in Nodes : <<x, m>> \in edges => m \in reachable
    /\ \A x \in reachable : \E o \in reachable : <<o, x>> \in edges

GraphInv ==
    /\ edges \subseteq Nodes \X Nodes
    /\ pass \in {"order", "components", "downstream", "reported"}
    /\ pass = "order" => FirstPass
    /\ pass = "components" => SecondPass
    /\ pass = "downstream" => ThirdPass
    /\ pass = "reported" => ThirdPass /\ stack = <<>>

----------------------------------------------------------------------------
(* Where references lead.                                                  *)

\* One reference leads to its target.
LEMMA OneReference ==
    ASSUME NEW E, NEW n, NEW m \in Nodes, <<n, m>> \in E
    PROVE  Leads(E, n, m)
BY DEF Leads

\* References lead nowhere but into a set that holds the targets of n and those of its own
\* members.
LEMMA LeadsIntoClosed ==
    ASSUME NEW E, NEW n, NEW m, Leads(E, n, m),
           NEW C, C \subseteq Nodes,
           \A k \in Nodes : <<n, k>> \in E => k \in C,
           \A k \in C : \A l \in Nodes : <<k, l>> \in E => l \in C
    PROVE  m \in C
BY DEF Leads

\* What a node on the way leads to, the start leads to as well.
LEMMA LeadsOn ==
    ASSUME NEW E, NEW n, NEW k, NEW m, Leads(E, n, k), k \in Nodes, Leads(E, k, m)
    PROVE  Leads(E, n, m)
<1>1. SUFFICES ASSUME NEW C \in SUBSET Nodes,
                      \A l \in Nodes : <<n, l>> \in E => l \in C,
                      \A j \in C : \A l \in Nodes : <<j, l>> \in E => l \in C
               PROVE  m \in C
  BY DEF Leads
<1>2. k \in C
  BY <1>1 DEF Leads
<1>3. QED
  BY <1>1, <1>2 DEF Leads

\* What is closed under being referred from contains whatever leads into it.
LEMMA LeadsOutOfClosed ==
    ASSUME NEW E, NEW n \in Nodes, NEW m \in Nodes, Leads(E, n, m),
           NEW D, m \in D,
           \A d \in D : \A k \in Nodes : <<k, d>> \in E => k \in D
    PROVE  n \in D
<1>1. SUFFICES ASSUME n \notin D PROVE FALSE
  OBVIOUS
<1>2. \A k \in Nodes : <<n, k>> \in E => k \in Nodes \ D
  BY <1>1
<1>3. \A j \in Nodes \ D : \A l \in Nodes : <<j, l>> \in E => l \in Nodes \ D
  OBVIOUS
<1>4. Nodes \ D \in SUBSET Nodes
  OBVIOUS
<1>5. m \in Nodes \ D
  BY <1>2, <1>3, <1>4 DEF Leads
<1>6. QED
  BY <1>5

\* A way out of a set has a last reference within it and a first one that leaves it.
LEMMA Exit ==
    ASSUME NEW E, NEW n, NEW v, Leads(E, n, v), NEW C, C \subseteq Nodes, n \in C, v \notin C
    PROVE  \E c \in C : \E d \in Nodes \ C :
               <<c, d>> \in E /\ (c = n \/ Leads(E, n, c)) /\ Leads(E, n, d)
<1>1. SUFFICES ASSUME \A c \in C : \A d \in Nodes \ C :
                          <<c, d>> \in E => ~ ((c = n \/ Leads(E, n, c)) /\ Leads(E, n, d))
               PROVE  FALSE
  OBVIOUS
<1> DEFINE Within == {c \in C : c = n \/ Leads(E, n, c)}
<1>2. ASSUME NEW c \in Within, NEW d \in Nodes, <<c, d>> \in E PROVE d \in Within
  <2>1. Leads(E, c, d)
    BY <1>2, OneReference
  <2>2. Leads(E, n, d)
    BY <1>2, <2>1, LeadsOn
  <2>3. QED
    BY <1>1, <1>2, <2>2
<1>3. \A k \in Nodes : <<n, k>> \in E => k \in Within
  BY <1>2
<1>4. v \in Within
  <2>1. \A j \in Within : \A l \in Nodes : <<j, l>> \in E => l \in Within
    BY <1>2
  <2>2. Within \in SUBSET Nodes
    OBVIOUS
  <2> HIDE DEF Within
  <2>3. QED
    BY <1>3, <2>1, <2>2 DEF Leads
<1>5. QED
  BY <1>4

\* A way has a last reference.
LEMMA LastReference ==
    ASSUME NEW E, NEW n \in Nodes, NEW m \in Nodes, Leads(E, n, m)
    PROVE  \E k \in Nodes : <<k, m>> \in E /\ (k = n \/ Leads(E, n, k))
<1> DEFINE Reached == {l \in Nodes : \E k \in Nodes : <<k, l>> \in E /\ (k = n \/ Leads(E, n, k))}
<1>1. \A k \in Nodes : <<n, k>> \in E => k \in Reached
  OBVIOUS
<1>2. ASSUME NEW j \in Reached, NEW l \in Nodes, <<j, l>> \in E PROVE l \in Reached
  <2>1. PICK k \in Nodes : <<k, j>> \in E /\ (k = n \/ Leads(E, n, k))
    OBVIOUS
  <2>2. Leads(E, k, j)
    BY <2>1, OneReference
  <2>3. Leads(E, n, j)
    BY <2>1, <2>2, LeadsOn
  <2>4. QED
    BY <1>2, <2>3
<1>3. m \in Reached
  <2>1. \A j \in Reached : \A l \in Nodes : <<j, l>> \in E => l \in Reached
    BY <1>2
  <2>2. Reached \in SUBSET Nodes
    OBVIOUS
  <2> HIDE DEF Reached
  <2>3. QED
    BY <1>1, <2>1, <2>2 DEF Leads
<1>4. QED
  BY <1>3

----------------------------------------------------------------------------
(* Enumerations.                                                           *)

\* An enumeration without repetitions leaves nothing out.
LEMMA Enumerated ==
    ASSUME NEW S, IsFiniteSet(S), NEW s \in [1..Cardinality(S) -> S],
           \A i, j \in 1..Cardinality(S) : i # j => s[i] # s[j]
    PROVE  s \in Seq(S) /\ Len(s) = Cardinality(S) /\ Range(s) = S
<1>1. Cardinality(S) \in Nat
  BY FS_CardinalityType
<1> DEFINE N == Cardinality(S)
<1>2. IsFiniteSet(1..N) /\ Cardinality(1..N) = N
  BY <1>1, FS_Interval
<1>3. s \in Injection(1..N, S)
  BY DEF Injection, IsInjective
<1>4. s \in Surjection(1..N, S)
  BY <1>2, <1>3, FS_Injection
<1>5. s \in Seq(S) /\ Len(s) = N
  BY <1>1
<1>6. QED
  BY <1>4, <1>5 DEF Surjection, Range

\* list(a_set), in whatever order it comes, holds the members of the set.
LEMMA AnyOrder ==
    ASSUME NEW S, IsFiniteSet(S), NEW s \in SetToSeqs(S)
    PROVE  s \in Seq(S) /\ Range(s) = S
<1>1. s \in [1..Cardinality(S) -> S] /\ \A i, j \in 1..Cardinality(S) : i # j => s[i] # s[j]
  BY DEF SetToSeqs
<1>2. QED
  BY <1>1, Enumerated

\* sorted(a_set) exists and holds the members of the set.
LEMMA Sorted ==
    ASSUME NEW S, IsFiniteSet(S), S \subseteq Nat
    PROVE  sorted(S) \in Seq(S) /\ Range(sorted(S)) = S
<1> DEFINE N == Cardinality(S)
           Ascends(s) == \A i, j \in DOMAIN s : i < j => s[i] < s[j]
           Smaller(x) == {y \in S : y < x}
           Rank == [x \in S |-> Cardinality(Smaller(x)) + 1]
<1>1. N \in Nat
  BY FS_CardinalityType
<1>2. ASSUME NEW x \in S PROVE IsFiniteSet(Smaller(x)) /\ Cardinality(Smaller(x)) \in Nat
                               /\ Cardinality(Smaller(x)) < N
  <2>1. IsFiniteSet(S \ {x}) /\ Cardinality(S \ {x}) = N - 1
    BY FS_RemoveElement
  <2>2. Smaller(x) \in SUBSET (S \ {x})
    OBVIOUS
  <2>3. IsFiniteSet(Smaller(x)) /\ Cardinality(Smaller(x)) <= Cardinality(S \ {x})
    BY <2>1, <2>2, FS_Subset
  <2>4. Cardinality(Smaller(x)) \in Nat
    BY <2>3, FS_CardinalityType
  <2>5. QED
    BY <1>1, <2>1, <2>3, <2>4
<1>3. ASSUME NEW x \in S, NEW z \in S, x < z PROVE Cardinality(Smaller(x)) < Cardinality(Smaller(z))
  <2>1. Smaller(x) \in SUBSET Smaller(z)
    <3>1. ASSUME NEW y \in S, y < x PROVE y < z
      <4>1. x \in Nat /\ y \in Nat /\ z \in Nat
        OBVIOUS
      <4>2. QED
        BY <1>3, <3>1, <4>1
    <3>2. QED
      BY <3>1
  <2>2. Smaller(x) # Smaller(z)
    <3>1. x \in Smaller(z) /\ x \notin Smaller(x)
      BY <1>3
    <3>2. QED
      BY <3>1
  <2> HIDE DEF Smaller
  <2>3. Cardinality(Smaller(x)) <= Cardinality(Smaller(z)) /\ Cardinality(Smaller(z)) # Cardinality(Smaller(x))
    BY <1>2, <2>1, <2>2, FS_Subset
  <2>4. QED
    BY <1>2, <2>3
<1> HIDE DEF Smaller
<1>4. Rank \in [S -> 1..N]
  BY <1>1, <1>2
<1>5. \A x, z \in S : x < z => Rank[x] < Rank[z]
  BY <1>2, <1>3
<1>6. Rank \in Surjection(S, 1..N)
  <2>1. IsFiniteSet(1..N) /\ Cardinality(1..N) = N
    BY <1>1, FS_Interval
  <2>2. \A x, z \in S : Rank[x] = Rank[z] => x = z
    <3> HIDE DEF Rank
    <3>1. SUFFICES ASSUME NEW x \in S, NEW z \in S, Rank[x] = Rank[z] PROVE x = z
      OBVIOUS
    <3>2. x \in Nat /\ z \in Nat /\ Rank[x] \in Nat
      BY <1>1, <1>4
    <3>3. QED
      BY <1>5, <3>1, <3>2
  <2> HIDE DEF Rank
  <2>3. Rank \in Injection(S, 1..N)
    BY <1>4, <2>2 DEF Injection, IsInjective
  <2>4. QED
    BY <2>1, <2>3, FS_Injection
<1> HIDE DEF Rank
<1> DEFINE Listed == [i \in 1..N |-> CHOOSE x \in S : Rank[x] = i]
<1>7. \A i \in 1..N : Listed[i] \in S /\ Rank[Listed[i]] = i
  BY <1>6 DEF Surjection
<1>8. Listed \in [1..N -> S] /\ Ascends(Listed)
  <2>1. Listed \in [1..N -> S]
    BY <1>7
  <2> HIDE DEF Listed
  <2>2. ASSUME NEW i \in 1..N, NEW j \in 1..N, i < j PROVE Listed[i] < Listed[j]
    <3>1. Listed[i] \in S /\ Listed[j] \in S /\ Listed[i] \in Nat /\ Listed[j] \in Nat
      BY <1>7
    <3>2. Listed[j] < Listed[i] => j < i
      BY <1>5, <1>7, <3>1
    <3>3. Listed[j] = Listed[i] => j = i
      BY <1>7
    <3>4. i \in Nat /\ j \in Nat
      BY <1>1
    <3>5. QED
      BY <2>2, <3>1, <3>2, <3>3, <3>4
  <2>3. QED
    BY <2>1, <2>2
<1>9. sorted(S) \in [1..N -> S] /\ Ascends(sorted(S))
  <2> HIDE DEF Listed
  <2>1. sorted(S) = CHOOSE s \in [1..N -> S] : Ascends(s)
    BY DEF sorted
  <2>2. \E s \in [1..N -> S] : Ascends(s)
    BY <1>8
  <2> HIDE DEF Ascends
  <2>3. QED
    BY <2>1, <2>2
<1>10. ASSUME NEW i \in 1..N, NEW j \in 1..N, i # j PROVE sorted(S)[i] # sorted(S)[j]
  <2>1. i \in Nat /\ j \in Nat /\ (i < j \/ j < i)
    BY <1>1, <1>10
  <2>2. sorted(S)[i] \in Nat /\ sorted(S)[j] \in Nat
    BY <1>9
  <2>3. sorted(S)[i] < sorted(S)[j] \/ sorted(S)[j] < sorted(S)[i]
    BY <1>9, <2>1
  <2>4. QED
    BY <2>2, <2>3
<1>11. QED
  BY <1>9, <1>10, Enumerated

----------------------------------------------------------------------------
(* The first search.                                                       *)

\* Entries of the first stack that are equal name the same node in the same state.
LEMMA SameEntry ==
    ASSUME NEW n, NEW m, NEW b \in BOOLEAN, NEW c \in BOOLEAN, <<n, b>> = <<m, c>>
    PROVE  n = m /\ b = c
OBVIOUS

\* An entry of the first stack is an open node or one that waits.
LEMMA EntryIs ==
    ASSUME NEW x \in Nodes \X BOOLEAN
    PROVE  \E n \in Nodes : x = <<n, TRUE>> \/ x = <<n, FALSE>>
<1>1. PICK n \in Nodes, b \in BOOLEAN : x = <<n, b>>
  OBVIOUS
<1>2. CASE b = TRUE
  BY <1>1, <1>2
<1>3. CASE b = FALSE
  BY <1>1, <1>3
<1>4. QED
  BY <1>2, <1>3

\* No entry is both.
LEMMA OpenOrNot == \A n, m : <<n, TRUE>> # <<m, FALSE>>
<1>1. SUFFICES ASSUME NEW n, NEW m, <<n, TRUE>> = <<m, FALSE>> PROVE FALSE
  OBVIOUS
<1>2. TRUE = FALSE
  BY <1>1, SameEntry
<1>3. QED
  BY <1>2

\* An entry, which is open or of a node seen before, is taken from the stack s.
Taken(E, s, t, n, seen) ==
    /\ n \in Nodes /\ s \in Seq(Nodes \X BOOLEAN) /\ s # <<>> /\ t \in Seq(Nodes \X BOOLEAN)
    /\ Len(t) = Len(s) - 1 /\ \A i \in 1..Len(t) : t[i] = s[i]
    /\ s[Len(s)] = <<n, TRUE>> \/ (s[Len(s)] = <<n, FALSE>> /\ n \in seen)
    /\ Once(s) /\ Descend(E, s) /\ Promised(E, s, seen)

TakenAsAny(E, s, t, seen) ==
    Opened(t) \subseteq Opened(s) /\ Once(t) /\ Descend(E, t) /\ Promised(E, t, seen)
TakenAsClosed(s, t, n) ==
    Opened(s) \subseteq Opened(t) /\ Awaiting(s) \subseteq Awaiting(t) \cup {n}
TakenAsOpen(E, s, t, n, seen) ==
    /\ Opened(s) \subseteq Opened(t) \cup {n} /\ Awaiting(s) \subseteq Awaiting(t)
    /\ \A m \in Nodes : <<n, m>> \in E => m \in seen
    /\ \A w \in Opened(t) : w # n /\ Leads(E, w, n)

\* Popping the last entry keeps what is known of the stack below it, whether it was an open
\* node that is finished now or a waiting one.
LEMMA EntryTaken ==
    ASSUME NEW E, NEW s, NEW t, NEW n, NEW seen, Taken(E, s, t, n, seen)
    PROVE  /\ TakenAsAny(E, s, t, seen)
           /\ s[Len(s)] = <<n, FALSE>> => TakenAsClosed(s, t, n)
           /\ s[Len(s)] = <<n, TRUE>> => TakenAsOpen(E, s, t, n, seen)
<1> DEFINE A == Nodes \X BOOLEAN
<1> SUFFICES ASSUME n \in Nodes, s \in Seq(A), s # <<>>, t \in Seq(A),
                    Len(t) = Len(s) - 1, \A i \in 1..Len(t) : t[i] = s[i],
                    s[Len(s)] = <<n, TRUE>> \/ (s[Len(s)] = <<n, FALSE>> /\ n \in seen),
                    Once(s), Descend(E, s), Promised(E, s, seen)
             PROVE  /\ TakenAsAny(E, s, t, seen)
                    /\ s[Len(s)] = <<n, FALSE>> => TakenAsClosed(s, t, n)
                    /\ s[Len(s)] = <<n, TRUE>> => TakenAsOpen(E, s, t, n, seen)
  BY DEF Taken
<1> HIDE DEF A
<1> DEFINE L == Len(s)
<1>1. L \in Nat \ {0} /\ 1..L = 1..Len(t) \cup {L} /\ Len(t) \in Nat /\ L \in 1..L
  OBVIOUS
<1>2. \A i \in 1..Len(t) : i \in 1..L /\ i < L
  BY <1>1
<1>3. Opened(t) \subseteq Opened(s)
  BY <1>2 DEF Opened
<1>4. ASSUME NEW w \in Opened(s), w \notin Opened(t) PROVE s[L] = <<n, TRUE>> /\ w = n
  <2>1. PICK i \in 1..L : s[i] = <<w, TRUE>> /\ w \in Nodes
    BY <1>4 DEF Opened
  <2>2. i = L
    BY <1>1, <1>4, <2>1 DEF Opened
  <2>3. s[L] = <<n, TRUE>>
    BY <2>1, <2>2, OpenOrNot
  <2>4. <<w, TRUE>> = <<n, TRUE>>
    BY <2>1, <2>2, <2>3
  <2>5. QED
    BY <2>3, <2>4, SameEntry
<1>5. ASSUME NEW w \in Awaiting(s), w \notin Awaiting(t) PROVE s[L] = <<n, FALSE>> /\ w = n
  <2>1. PICK i \in 1..L : s[i] = <<w, FALSE>> /\ w \in Nodes
    BY <1>5 DEF Awaiting
  <2>2. i = L
    BY <1>1, <1>5, <2>1 DEF Awaiting
  <2>3. s[L] = <<n, FALSE>>
    BY <2>1, <2>2, OpenOrNot
  <2>4. <<w, FALSE>> = <<n, FALSE>>
    BY <2>1, <2>2, <2>3
  <2>5. QED
    BY <2>3, <2>4, SameEntry
<1>6. Descend(E, t)
  BY <1>2 DEF Descend
<1>7. Promised(E, t, seen)
  <2>1. SUFFICES ASSUME NEW i \in 1..Len(t), NEW k \in Nodes, NEW m \in Nodes,
                        t[i] = <<k, TRUE>>, <<k, m>> \in E, m \notin seen
                 PROVE  \E j \in 1..Len(t) : j > i /\ t[j] = <<m, FALSE>>
    BY DEF Promised
  <2>2. i \in 1..L /\ s[i] = <<k, TRUE>>
    BY <1>2, <2>1
  <2>3. PICK j \in 1..L : j > i /\ s[j] = <<m, FALSE>>
    BY <2>1, <2>2 DEF Promised
  <2>4. j # L
    <3>1. SUFFICES ASSUME j = L PROVE FALSE
      OBVIOUS
    <3>2. s[L] = <<n, FALSE>> /\ n \in seen
      BY <2>3, <3>1, OpenOrNot
    <3>3. <<m, FALSE>> = <<n, FALSE>>
      BY <2>3, <3>1, <3>2
    <3>4. QED
      BY <2>1, <3>2, <3>3, SameEntry
  <2>5. j \in 1..Len(t)
    BY <1>1, <2>4
  <2>6. QED
    BY <2>3, <2>5
<1>8. ASSUME s[L] = <<n, TRUE>>, NEW m \in Nodes, <<n, m>> \in E PROVE m \in seen
  <2>1. m \in seen \/ \E j \in 1..L : j > L /\ s[j] = <<m, FALSE>>
    BY <1>1, <1>8 DEF Promised
  <2>2. \A j \in 1..L : ~ (j > L)
    BY <1>1
  <2>3. QED
    BY <2>1, <2>2
<1>9. ASSUME s[L] = <<n, TRUE>>, NEW w \in Opened(t) PROVE w # n /\ Leads(E, w, n)
  <2>1. PICK i \in 1..Len(t) : t[i] = <<w, TRUE>> /\ w \in Nodes
    BY <1>9 DEF Opened
  <2>2. i \in 1..L /\ i < L /\ s[i] = <<w, TRUE>>
    BY <1>2, <2>1
  <2>3. Leads(E, w, n)
    BY <1>1, <1>9, <2>1, <2>2 DEF Descend
  <2>4. w # n
    <3>1. SUFFICES ASSUME w = n PROVE FALSE
      OBVIOUS
    <3>2. s[i] = <<n, TRUE>> /\ s[L] = <<n, TRUE>>
      BY <1>9, <2>2, <3>1
    <3>3. i = L
      BY <1>1, <2>2, <3>2 DEF Once
    <3>4. QED
      BY <1>1, <2>2, <3>3
  <2>5. QED
    BY <2>3, <2>4
<1>10. Once(t)
  BY <1>2 DEF Once
<1>11. TakenAsAny(E, s, t, seen)
  BY <1>3, <1>6, <1>7, <1>10 DEF TakenAsAny
<1>12. ASSUME s[L] = <<n, FALSE>> PROVE TakenAsClosed(s, t, n)
  BY <1>4, <1>5, <1>12, OpenOrNot DEF TakenAsClosed
<1>13. ASSUME s[L] = <<n, TRUE>> PROVE TakenAsOpen(E, s, t, n, seen)
  BY <1>4, <1>5, <1>8, <1>9, <1>13, OpenOrNot DEF TakenAsOpen
<1>14. QED
  BY <1>11, <1>12, <1>13

\* The node of the last entry of s is opened, and its children are put on top of it.
Expanded(E, s, t, n, seen) ==
    /\ n \in Nodes \ Opened(s) /\ s \in Seq(Nodes \X BOOLEAN) /\ s # <<>> /\ t \in Seq(Nodes \X BOOLEAN)
    /\ Len(t) >= Len(s) /\ \A i \in 1..Len(s) : i < Len(s) => t[i] = s[i]
    /\ s[Len(s)] = <<n, FALSE>> /\ t[Len(s)] = <<n, TRUE>>
    /\ \A i \in 1..Len(t) : i > Len(s) => \E m \in Nodes : t[i] = <<m, FALSE>> /\ <<n, m>> \in E
    /\ \A m \in Nodes : <<n, m>> \in E => \E i \in 1..Len(t) : i > Len(s) /\ t[i] = <<m, FALSE>>
    /\ Once(s) /\ Descend(E, s) /\ Promised(E, s, seen)

\* A node that is opened leads to the children pushed above it, and all of these wait.
LEMMA NodeOpened ==
    ASSUME NEW E, NEW s, NEW t, NEW n, NEW seen, Expanded(E, s, t, n, seen)
    PROVE  /\ Opened(t) = Opened(s) \cup {n}
           /\ Awaiting(s) \subseteq Awaiting(t) \cup {n}
           /\ Once(t) /\ Descend(E, t) /\ Promised(E, t, seen \cup {n})
<1> DEFINE A == Nodes \X BOOLEAN
<1> SUFFICES ASSUME n \in Nodes, n \notin Opened(s), s \in Seq(A), s # <<>>, t \in Seq(A),
                    Len(t) >= Len(s), \A i \in 1..Len(s) : i < Len(s) => t[i] = s[i],
                    s[Len(s)] = <<n, FALSE>>, t[Len(s)] = <<n, TRUE>>,
                    \A i \in 1..Len(t) : i > Len(s) => \E m \in Nodes : t[i] = <<m, FALSE>> /\ <<n, m>> \in E,
                    \A m \in Nodes : <<n, m>> \in E => \E i \in 1..Len(t) : i > Len(s) /\ t[i] = <<m, FALSE>>,
                    Once(s), Descend(E, s), Promised(E, s, seen)
             PROVE  /\ Opened(t) = Opened(s) \cup {n}
                    /\ Awaiting(s) \subseteq Awaiting(t) \cup {n}
                    /\ Once(t) /\ Descend(E, t) /\ Promised(E, t, seen \cup {n})
  BY DEF Expanded
<1> HIDE DEF A
<1> DEFINE L == Len(s)
<1>1. L \in Nat \ {0} /\ Len(t) \in Nat /\ L \in 1..L /\ L \in 1..Len(t)
  OBVIOUS
<1>2. \A i \in 1..L : i \in 1..Len(t) /\ (i = L \/ i < L)
  BY <1>1
<1>3. \A i \in 1..Len(t) : i > L \/ i = L \/ (i \in 1..L /\ i < L)
  BY <1>1
<1>4. Opened(t) = Opened(s) \cup {n}
  <2>1. ASSUME NEW w \in Opened(t) PROVE w \in Opened(s) \cup {n}
    <3>1. PICK i \in 1..Len(t) : t[i] = <<w, TRUE>> /\ w \in Nodes
      BY <2>1 DEF Opened
    <3>2. ~ (i > L)
      BY <3>1, OpenOrNot
    <3>3. CASE i = L
      <4>1. <<w, TRUE>> = <<n, TRUE>>
        BY <3>1, <3>3
      <4>2. QED
        BY <4>1, SameEntry
    <3>4. CASE i \in 1..L /\ i < L
      BY <3>1, <3>4 DEF Opened
    <3>5. QED
      BY <1>3, <3>2, <3>3, <3>4
  <2>2. ASSUME NEW w \in Opened(s) PROVE w \in Opened(t)
    <3>1. PICK i \in 1..L : s[i] = <<w, TRUE>> /\ w \in Nodes
      BY <2>2 DEF Opened
    <3>2. i # L
      BY <3>1, OpenOrNot
    <3>3. QED
      BY <1>2, <3>1, <3>2 DEF Opened
  <2>3. n \in Opened(t)
    BY <1>1 DEF Opened
  <2>4. QED
    BY <2>1, <2>2, <2>3
<1>5. Awaiting(s) \subseteq Awaiting(t) \cup {n}
  <2>1. ASSUME NEW w \in Awaiting(s), w \notin Awaiting(t) PROVE w = n
    <3>1. PICK i \in 1..L : s[i] = <<w, FALSE>> /\ w \in Nodes
      BY <2>1 DEF Awaiting
    <3>2. i = L
      BY <1>2, <2>1, <3>1 DEF Awaiting
    <3>3. <<w, FALSE>> = <<n, FALSE>>
      BY <3>1, <3>2
    <3>4. QED
      BY <3>3, SameEntry
  <2>2. QED
    BY <2>1
<1>6. ASSUME NEW i \in 1..Len(t), NEW j \in 1..Len(t), i < j, NEW k \in Nodes, NEW m \in Nodes,
             NEW b \in BOOLEAN, t[i] = <<k, TRUE>>, t[j] = <<m, b>>
      PROVE  Leads(E, k, m)
  <2>1. ~ (i > L)
    BY <1>6, OpenOrNot
  <2>2. ASSUME i \in 1..L, i < L PROVE Leads(E, k, n)
    <3>1. s[i] = <<k, TRUE>>
      BY <1>6, <2>2
    <3>2. QED
      BY <1>1, <2>2, <3>1 DEF Descend
  <2>3. CASE j > L
    <3>1. <<n, m>> \in E
      <4>1. PICK l \in Nodes : t[j] = <<l, FALSE>> /\ <<n, l>> \in E
        BY <2>3
      <4>2. <<l, FALSE>> = <<m, b>>
        BY <1>6, <4>1
      <4>3. QED
        BY <4>1, <4>2, SameEntry
    <3>2. Leads(E, n, m)
      BY <3>1, OneReference
    <3>3. CASE i = L
      <4>1. k = n
        BY <1>6, <3>3
      <4>2. QED
        BY <3>2, <4>1
    <3>4. CASE i \in 1..L /\ i < L
      BY <2>2, <3>2, <3>4, LeadsOn
    <3>5. QED
      BY <1>3, <2>1, <3>3, <3>4
  <2>4. CASE j = L
    <3>1. m = n
      BY <1>6, <2>4
    <3>2. i \in 1..L /\ i < L
      BY <1>1, <1>6, <2>4
    <3>3. QED
      BY <2>2, <3>1, <3>2
  <2>5. CASE j \in 1..L /\ j < L
    <3>1. i \in 1..L /\ i < L
      BY <1>1, <1>6, <2>5
    <3>2. s[i] = <<k, TRUE>> /\ s[j] = <<m, b>>
      BY <1>6, <2>5, <3>1
    <3>3. QED
      BY <1>6, <2>5, <3>1, <3>2 DEF Descend
  <2>6. QED
    BY <1>3, <2>3, <2>4, <2>5
<1>7. Descend(E, t)
  BY <1>6 DEF Descend
<1>8. ASSUME NEW i \in 1..Len(t), NEW k \in Nodes, NEW m \in Nodes,
             t[i] = <<k, TRUE>>, <<k, m>> \in E, m \notin seen, m # n
      PROVE  \E j \in 1..Len(t) : j > i /\ t[j] = <<m, FALSE>>
  <2>1. ~ (i > L)
    BY <1>8, OpenOrNot
  <2>2. CASE i = L
    <3>1. k = n
      BY <1>8, <2>2
    <3>2. QED
      BY <1>8, <2>2, <3>1
  <2>3. CASE i \in 1..L /\ i < L
    <3>1. s[i] = <<k, TRUE>>
      BY <1>8, <2>3
    <3>2. PICK j \in 1..L : j > i /\ s[j] = <<m, FALSE>>
      BY <1>8, <2>3, <3>1 DEF Promised
    <3>3. j # L
      BY <1>8, <3>2
    <3>4. QED
      BY <1>2, <3>2, <3>3
  <2>4. QED
    BY <1>3, <2>1, <2>2, <2>3
<1>9. Promised(E, t, seen \cup {n})
  <2>1. ASSUME NEW i \in 1..Len(t), NEW k \in Nodes, NEW m \in Nodes, t[i] = <<k, TRUE>>, <<k, m>> \in E
        PROVE  m \in seen \cup {n} \/ \E j \in 1..Len(t) : j > i /\ t[j] = <<m, FALSE>>
    <3>1. CASE m \in seen \/ m = n
      BY <3>1
    <3>2. CASE m \notin seen /\ m # n
      BY <1>8, <2>1, <3>2
    <3>3. QED
      BY <3>1, <3>2
  <2>2. QED
    BY <2>1 DEF Promised
<1>10. Once(t)
  <2>1. ASSUME NEW i \in 1..Len(t), NEW m \in Nodes, t[i] = <<m, TRUE>>
        PROVE  (i = L /\ m = n) \/ (i \in 1..L /\ i < L /\ s[i] = <<m, TRUE>> /\ m # n)
    <3>1. ~ (i > L)
      BY <2>1, OpenOrNot
    <3>2. CASE i = L
      <4>1. <<m, TRUE>> = <<n, TRUE>>
        BY <2>1, <3>2
      <4>2. QED
        BY <3>2, <4>1, SameEntry
    <3>3. CASE i \in 1..L /\ i < L
      <4>1. s[i] = <<m, TRUE>>
        BY <2>1, <3>3
      <4>2. m \in Opened(s)
        BY <3>3, <4>1 DEF Opened
      <4>3. QED
        BY <3>3, <4>1, <4>2
    <3>4. QED
      BY <1>3, <3>1, <3>2, <3>3
  <2>2. ASSUME NEW i \in 1..Len(t), NEW j \in 1..Len(t), NEW m \in Nodes, t[i] = <<m, TRUE>>, t[j] = <<m, TRUE>>
        PROVE  i = j
    <3>1. CASE m = n
      BY <2>1, <2>2, <3>1
    <3>2. CASE m # n
      <4>1. i \in 1..L /\ j \in 1..L /\ s[i] = <<m, TRUE>> /\ s[j] = <<m, TRUE>>
        BY <2>1, <2>2, <3>2
      <4>2. QED
        BY <4>1 DEF Once
    <3>3. QED
      BY <3>1, <3>2
  <2>3. QED
    BY <2>2 DEF Once
<1>11. QED
  BY <1>4, <1>5, <1>7, <1>9, <1>10

\* A node is finished: it leads to finished nodes, or to open ones, which all lead to it.
LEMMA NodeFinished ==
    ASSUME NEW E, NEW s, NEW t, NEW done \in Seq(Nodes), NEW n \in Nodes,
           Opened(s) \subseteq Opened(t) \cup {n}, Opened(t) \subseteq Opened(s),
           \A w \in Opened(t) : Leads(E, w, n),
           \A d \in Range(done) \cup {n} : \A m \in Nodes :
               <<d, m>> \in E => m \in Range(done) \cup Opened(s),
           Bounded(E, s, done)
    PROVE  Bounded(E, t, Append(done, n))
<1> DEFINE last  == Append(done, n)
           N     == Len(done) + 1
           After == Range(done) \cup {n}
           Met(i, v) == \E j, k \in 1..N :
                            last[j] = v /\ j <= k /\ (k = i \/ Mutual(E, last[i], last[k]))
<1>1. /\ last \in Seq(Nodes) /\ Len(last) = N /\ N \in Nat /\ last[N] = n /\ N \in 1..N
      /\ \A i \in 1..Len(done) : last[i] = done[i] /\ i \in 1..N
      /\ \A i \in 1..N : i = N \/ i \in 1..Len(done)
  OBVIOUS
<1>2. After \subseteq Nodes
  BY DEF Range
<1>3. \A v \in After : \E j \in 1..N : last[j] = v
  <2>1. \A v \in Range(done) : \E j \in 1..Len(done) : done[j] = v
    BY DEF Range
  <2>2. QED
    BY <1>1, <2>1
<1> HIDE DEF last, N
\* What n leads to has finished, or n is on a cycle with an open node.
<1>4. ASSUME NEW v \in Nodes, Leads(E, n, v), v \notin After
      PROVE  \E w \in Opened(t) : Mutual(E, w, n)
  <2>1. PICK c \in After, d \in Nodes \ After :
            <<c, d>> \in E /\ (c = n \/ Leads(E, n, c)) /\ Leads(E, n, d)
    <3>1. n \in After
      OBVIOUS
    <3> HIDE DEF After
    <3>2. QED
      BY <1>2, <1>4, <3>1, Exit
  <2>2. d \in Opened(t)
    BY <2>1
  <2>3. QED
    BY <2>1, <2>2 DEF Mutual
<1>5. ASSUME NEW i \in 1..N, NEW v \in Nodes, Leads(E, last[i], v)
      PROVE  (\E w \in Opened(t) : Mutual(E, w, last[i])) \/ Met(i, v)
  <2>1. ASSUME NEW u \in Nodes, u = last[i], u = n \/ Mutual(E, u, n)
        PROVE  (\E w \in Opened(t) : Mutual(E, w, u)) \/ Met(i, v)
    <3>1. u = n \/ (Leads(E, u, n) /\ Leads(E, n, u))
      BY <2>1 DEF Mutual
    <3>2. Leads(E, n, v)
      BY <1>5, <2>1, <3>1, LeadsOn
    <3>3. CASE v \in After
      <4>1. PICK j \in 1..N : last[j] = v
        BY <1>3, <3>3
      <4>2. j <= N
        BY <1>1, <4>1
      <4>3. N = i \/ Mutual(E, last[i], last[N]) \/ u = n
        BY <1>1, <2>1
      <4>4. CASE N = i \/ Mutual(E, last[i], last[N])
        BY <1>1, <4>1, <4>2, <4>4
      <4>5. CASE u = n /\ N # i
        <5>1. i \in 1..Len(done) /\ done[i] = n
          BY <1>1, <2>1, <4>5
        <5>2. CASE Leads(E, n, n)
          BY <1>1, <2>1, <4>1, <4>2, <4>5, <5>2 DEF Mutual
        <5>3. CASE ~ Leads(E, n, n)
          <6>1. (\E w \in Opened(s) : Mutual(E, w, n))
                \/ \E a, k \in 1..Len(done) :
                       done[a] = v /\ a <= k /\ (k = i \/ Mutual(E, n, done[k]))
            BY <3>2, <5>1 DEF Bounded
          <6>2. CASE \E w \in Opened(s) : Mutual(E, w, n)
            <7>1. PICK w \in Opened(s) : Mutual(E, w, n)
              BY <6>2
            <7>2. w # n
              BY <5>3, <7>1 DEF Mutual
            <7>3. QED
              BY <2>1, <4>5, <7>1, <7>2
          <6>3. CASE \E a, k \in 1..Len(done) :
                         done[a] = v /\ a <= k /\ (k = i \/ Mutual(E, n, done[k]))
            BY <1>1, <2>1, <4>5, <6>3
          <6>4. QED
            BY <6>1, <6>2, <6>3
        <5>4. QED
          BY <5>2, <5>3
      <4>6. QED
        BY <4>3, <4>4, <4>5
    <3>4. CASE v \notin After
      <4>1. PICK w \in Opened(t) : Mutual(E, w, n)
        BY <1>4, <3>2, <3>4
      <4>2. w \in Nodes
        BY <4>1 DEF Opened
      <4>3. Mutual(E, w, u)
        BY <3>1, <4>1, <4>2, LeadsOn DEF Mutual
      <4>4. QED
        BY <4>1, <4>3
    <3>5. QED
      BY <3>3, <3>4
  <2>2. last[i] \in Nodes
    BY <1>1
  <2>3. CASE i = N
    BY <1>1, <2>1, <2>2, <2>3
  <2>4. CASE i \in 1..Len(done)
    <3>1. last[i] = done[i]
      BY <1>1, <2>4
    <3>2. (\E w \in Opened(s) : Mutual(E, w, done[i]))
          \/ \E j, k \in 1..Len(done) :
                 done[j] = v /\ j <= k /\ (k = i \/ Mutual(E, done[i], done[k]))
      BY <1>5, <2>4, <3>1 DEF Bounded
    <3>3. CASE \E w \in Opened(s) : Mutual(E, w, done[i])
      <4>1. PICK w \in Opened(s) : Mutual(E, w, done[i])
        BY <3>3
      <4>2. CASE w = n
        <5>1. Mutual(E, last[i], n)
          BY <3>1, <4>1, <4>2 DEF Mutual
        <5>2. QED
          BY <2>1, <2>2, <5>1
      <4>3. CASE w # n
        BY <3>1, <4>1, <4>3
      <4>4. QED
        BY <4>2, <4>3
    <3>4. CASE \E j, k \in 1..Len(done) :
                   done[j] = v /\ j <= k /\ (k = i \/ Mutual(E, done[i], done[k]))
      BY <1>1, <3>1, <3>4
    <3>5. QED
      BY <3>2, <3>3, <3>4
  <2>5. QED
    BY <1>1, <2>3, <2>4
<1>6. QED
  BY <1>1, <1>5 DEF Bounded, last, N

\* The entries pushed for the children of a node wait, and there is one for each child.
LEMMA ChildrenAwait ==
    ASSUME ObjectGraphConstants, NEW n
    PROVE  /\ Children(n) \in Seq(Nodes \X BOOLEAN)
           /\ \A i \in 1..Len(Children(n)) : \E m \in Nodes :
                  Children(n)[i] = <<m, FALSE>> /\ <<n, m>> \in edges
           /\ \A m \in Nodes : <<n, m>> \in edges =>
                  \E i \in 1..Len(Children(n)) : Children(n)[i] = <<m, FALSE>>
<1> DEFINE S == adjacency(n)
           u == sorted(S)
           r == Reverse(u)
<1>1. S \in SUBSET Nodes /\ \A m : m \in S <=> m \in Nodes /\ <<n, m>> \in edges
  BY DEF adjacency
<1>2. IsFiniteSet(S) /\ S \subseteq Nat
  BY <1>1, FS_Subset DEF ObjectGraphConstants
<1> HIDE DEF S
<1>3. u \in Seq(S) /\ Range(u) = S
  BY <1>2, Sorted
<1> HIDE DEF u
<1>4. /\ r \in Seq(S) /\ Len(r) = Len(u) /\ \A i \in 1..Len(u) : r[i] = u[Len(u) - i + 1]
      /\ \A i \in 1..Len(u) : Len(u) - i + 1 \in 1..Len(u) /\ Len(u) - (Len(u) - i + 1) + 1 = i
  BY <1>3 DEF Reverse
<1> HIDE DEF r
<1>5. Children(n) = [i \in 1..Len(r) |-> <<r[i], FALSE>>]
  BY DEF Children, r, u, S
<1>6. \A i \in 1..Len(r) : r[i] \in S
  BY <1>4
<1>7. \A m \in S : \E i \in 1..Len(r) : r[i] = m
  <2>1. ASSUME NEW m \in S PROVE \E i \in 1..Len(r) : r[i] = m
    <3>1. PICK i \in 1..Len(u) : u[i] = m
      BY <1>3, Elements
    <3>2. r[Len(u) - i + 1] = m
      BY <1>4, <3>1
    <3>3. QED
      BY <1>4, <3>1, <3>2
  <2>2. QED
    BY <2>1
<1>8. Len(r) \in Nat
  BY <1>4
<1>9. Children(n) \in Seq(Nodes \X BOOLEAN) /\ Len(Children(n)) = Len(r)
  <2> DEFINE q == [i \in 1..Len(r) |-> <<r[i], FALSE>>]
             A == Nodes \X BOOLEAN
  <2>1. \A i \in 1..Len(r) : <<r[i], FALSE>> \in A
    BY <1>1, <1>6
  <2> HIDE DEF A
  <2>2. q \in [1..Len(r) -> A]
    BY <2>1
  <2> HIDE DEF q
  <2>4. q \in Seq(A) /\ Len(q) = Len(r)
    BY <1>8, <2>2
  <2>3. QED
    BY <1>5, <2>4 DEF A, q
<1>10. \A i \in 1..Len(r) : Children(n)[i] = <<r[i], FALSE>>
  BY <1>5
<1>11. ASSUME NEW i \in 1..Len(Children(n))
       PROVE  \E m \in Nodes : Children(n)[i] = <<m, FALSE>> /\ <<n, m>> \in edges
  <2>1. r[i] \in Nodes /\ <<n, r[i]>> \in edges /\ Children(n)[i] = <<r[i], FALSE>>
    BY <1>1, <1>6, <1>9, <1>10
  <2>2. QED
    BY <2>1
<1>12. ASSUME NEW m \in Nodes, <<n, m>> \in edges
       PROVE  \E i \in 1..Len(Children(n)) : Children(n)[i] = <<m, FALSE>>
  <2>1. PICK i \in 1..Len(r) : r[i] = m
    BY <1>1, <1>7, <1>12
  <2>2. QED
    BY <1>9, <1>10, <2>1
<1>13. QED
  BY <1>9, <1>11, <1>12

\* A graph that has just been read: nothing is visited, and every node is a root.
LEMMA GraphStarts ==
    ASSUME ObjectGraphConstants, GraphInit
    PROVE  GraphInv
<1>1. left \in Seq(Nodes) /\ Range(left) = Nodes
  BY Sorted DEF GraphInit, ObjectGraphConstants
<1>2. stack = <<>> /\ finished = <<>> /\ visited = {} /\ pass = "order" /\ component = {} /\ cycles = {}
      /\ edges \subseteq Nodes \X Nodes
  BY DEF GraphInit
<1>3. Len(<<>>) = 0 /\ 1..0 = {} /\ <<>> \in Seq(Nodes) /\ <<>> \in Seq(Nodes \X BOOLEAN)
  OBVIOUS
<1>4. Opened(stack) = {} /\ Range(finished) = {}
  BY <1>2, <1>3 DEF Opened, Range
<1>5. /\ Once(stack) /\ Descend(edges, stack) /\ Promised(edges, stack, visited)
      /\ Bounded(edges, stack, finished)
  BY <1>2, <1>3 DEF Once, Descend, Promised, Bounded
<1>6. FirstPass
  BY <1>1, <1>2, <1>3, <1>4, <1>5 DEF FirstPass
<1>7. QED
  BY <1>2, <1>6 DEF GraphInv

\* The first search starts from its next root.
LEMMA RootTaken ==
    ASSUME GraphInv, NextRoot
    PROVE  GraphInv'
<1>1. FirstPass /\ stack = <<>> /\ left # <<>> /\ left \in Seq(Nodes)
  BY DEF NextRoot, GraphInv, FirstPass
<1> DEFINE n == Head(left)
<1>2. n \in Nodes /\ Tail(left) \in Seq(Nodes) /\ Range(left) \subseteq Range(Tail(left)) \cup {n}
  <2>1. /\ n \in Nodes /\ Tail(left) \in Seq(Nodes) /\ Len(Tail(left)) = Len(left) - 1
        /\ \A i \in 1..Len(left) : i = 1 \/ (i - 1 \in 1..Len(Tail(left)) /\ Tail(left)[i - 1] = left[i])
        /\ left[1] = n
    BY <1>1
  <2> DEFINE t == Tail(left)
  <2>4. \A y : y \in Range(t) <=> \E i \in 1..Len(t) : t[i] = y
    BY <2>1, Elements
  <2>5. \A y : y \in Range(left) <=> \E i \in 1..Len(left) : left[i] = y
    BY <1>1, Elements
  <2> HIDE DEF t, n
  <2>2. ASSUME NEW x \in Range(left) PROVE x \in Range(t) \cup {n}
    <3>1. PICK i \in 1..Len(left) : left[i] = x
      BY <2>2, <2>5
    <3>2. CASE i = 1
      BY <2>1, <3>1, <3>2
    <3>3. CASE i - 1 \in 1..Len(t) /\ t[i - 1] = left[i]
      BY <2>4, <3>1, <3>3
    <3>4. QED
      BY <2>1, <3>2, <3>3 DEF t
  <2>3. QED
    BY <2>1, <2>2 DEF t
<1> HIDE DEF n
<1>3. stack' = <<<<n, FALSE>>>> /\ left' = Tail(left) /\ pass = "order"
      /\ UNCHANGED <<edges, pass, visited, finished, component, cycles>>
  BY DEF NextRoot, n
<1>4. stack' \in Seq(Nodes \X BOOLEAN) /\ Len(stack') = 1 /\ stack'[1] = <<n, FALSE>> /\ 1..1 = {1}
  <2> DEFINE e == <<n, FALSE>>
             A == Nodes \X BOOLEAN
  <2>1. e \in A
    BY <1>2
  <2> HIDE DEF e, A
  <2>2. <<e>> \in Seq(A) /\ Len(<<e>>) = 1 /\ <<e>>[1] = e
    BY <2>1
  <2>3. stack' = <<e>>
    BY <1>3 DEF e
  <2>4. stack' \in Seq(A) /\ Len(stack') = 1 /\ stack'[1] = e
    BY <2>2, <2>3
  <2>5. 1..1 = {1}
    OBVIOUS
  <2>6. QED
    BY <2>4, <2>5 DEF e, A
<1>5. Opened(stack) = {} /\ Awaiting(stack) = {}
  BY <1>1 DEF Opened, Awaiting
<1>6. Opened(stack') = {} /\ n \in Awaiting(stack')
  <2>1. \A i \in 1..Len(stack') : stack'[i] = <<n, FALSE>>
    BY <1>4
  <2>2. QED
    BY <1>2, <1>4, <2>1, OpenOrNot DEF Opened, Awaiting
<1>7. Once(stack') /\ Descend(edges, stack') /\ Promised(edges, stack', visited)
  <2>1. \A i, j \in 1..Len(stack') : ~ (i < j)
    BY <1>4
  <2>2. \A i \in 1..Len(stack'), k \in Nodes : stack'[i] # <<k, TRUE>>
    BY <1>4, OpenOrNot
  <2>3. QED
    BY <2>1, <2>2, <1>4 DEF Once, Descend, Promised
<1>8. Bounded(edges, stack', finished)
  BY <1>1, <1>5, <1>6 DEF FirstPass, Bounded
<1>9. FirstPass'
  BY <1>1, <1>2, <1>3, <1>4, <1>5, <1>6, <1>7, <1>8 DEF FirstPass
<1>10. QED
  BY <1>3, <1>9 DEF GraphInv

\* The first search pops an entry: it finishes an open node, drops a visited one, or opens
\* a new one. A node is finished when all it refers to has been visited, so that whatever it
\* leads to is finished, or on a cycle with a node that is still open.
LEMMA EntryPopped ==
    ASSUME ObjectGraphConstants, GraphInv, Pop
    PROVE  GraphInv'
<1>1. FirstPass /\ stack # <<>> /\ stack \in Seq(Nodes \X BOOLEAN) /\ finished \in Seq(Nodes)
  BY DEF Pop, GraphInv, FirstPass
<1>2. pass = "order" /\ UNCHANGED <<edges, pass, left, component, cycles>>
  BY DEF Pop
<1>3. PICK n \in Nodes : stack[Len(stack)] = <<n, TRUE>> \/ stack[Len(stack)] = <<n, FALSE>>
  <2>1. Last(stack) \in Nodes \X BOOLEAN /\ Last(stack) = stack[Len(stack)]
    BY <1>1, AllButLast
  <2>2. QED
    BY <2>1, EntryIs
<1>4. /\ Front(stack) \in Seq(Nodes \X BOOLEAN) /\ Len(Front(stack)) = Len(stack) - 1
      /\ \A i \in 1..Len(Front(stack)) : Front(stack)[i] = stack[i]
      /\ Len(stack) \in 1..Len(stack) /\ Len(stack) \in Nat \ {0}
  <2> DEFINE A == Nodes \X BOOLEAN
  <2>1. stack \in Seq(A) /\ stack # <<>>
    BY <1>1
  <2> HIDE DEF A
  <2>2. /\ Front(stack) \in Seq(A) /\ Len(Front(stack)) = Len(stack) - 1
        /\ \A i \in 1..Len(Front(stack)) : Front(stack)[i] = stack[i]
        /\ Len(stack) \in 1..Len(stack) /\ Len(stack) \in Nat \ {0}
    BY <2>1, AllButLast
  <2>3. QED
    BY <2>2 DEF A
<1>5. /\ Once(stack) /\ Descend(edges, stack) /\ Promised(edges, stack, visited)
      /\ Bounded(edges, stack, finished)
  BY <1>1 DEF FirstPass
<1>6. CASE stack[Len(stack)] = <<n, TRUE>>
  <2>1. Last(stack)[1] = n /\ Last(stack)[2] = TRUE
    BY <1>6 DEF Last
  <2>2. stack' = Front(stack) /\ finished' = Append(finished, n) /\ visited' = visited
    BY <2>1 DEF Pop
  <2>3. /\ stack' \in Seq(Nodes \X BOOLEAN) /\ Len(stack') = Len(stack) - 1
        /\ \A i \in 1..Len(stack') : stack'[i] = stack[i]
    BY <1>4, <2>2
  <2>4. /\ Opened(stack') \subseteq Opened(stack) /\ Opened(stack) \subseteq Opened(stack') \cup {n}
        /\ Awaiting(stack) \subseteq Awaiting(stack')
        /\ Once(stack') /\ Descend(edges, stack') /\ Promised(edges, stack', visited)
        /\ \A m \in Nodes : <<n, m>> \in edges => m \in visited
        /\ \A w \in Opened(stack') : w # n /\ Leads(edges, w, n)
    <3>1. Taken(edges, stack, stack', n, visited)
      BY <1>1, <1>5, <1>6, <2>3 DEF Taken
    <3>2. QED
      <4>1. Once(stack') /\ Opened(stack') \subseteq Opened(stack)
            /\ Descend(edges, stack') /\ Promised(edges, stack', visited)
        BY <3>1, EntryTaken DEF TakenAsAny
      <4>2. /\ Opened(stack) \subseteq Opened(stack') \cup {n} /\ Awaiting(stack) \subseteq Awaiting(stack')
            /\ \A m \in Nodes : <<n, m>> \in edges => m \in visited
            /\ \A w \in Opened(stack') : w # n /\ Leads(edges, w, n)
        BY <1>6, <3>1, EntryTaken DEF TakenAsOpen
      <4>3. QED
        BY <4>1, <4>2
  <2>5. n \in Opened(stack)
    BY <1>4, <1>6 DEF Opened
  <2>6. Range(finished') = Range(finished) \cup {n} /\ finished' \in Seq(Nodes)
    BY <1>1, <2>2, ElementsOfAppend
  <2>12. Opened(stack') \cap Range(finished') = {}
    BY <1>1, <2>4, <2>6 DEF FirstPass
  <2>13. \A i, j \in 1..Len(finished') : finished'[i] = finished'[j] => i = j
    <3>1. n \notin Range(finished)
      BY <1>1, <2>5 DEF FirstPass
    <3>2. \A i \in 1..Len(finished) : finished[i] # n
      BY <1>1, <3>1, Elements
    <3>3. \A i, j \in 1..Len(finished) : finished[i] = finished[j] => i = j
      BY <1>1 DEF FirstPass
    <3>4. /\ Len(finished') = Len(finished) + 1 /\ finished'[Len(finished) + 1] = n
          /\ \A i \in 1..Len(finished) : finished'[i] = finished[i]
          /\ \A i \in 1..Len(finished) + 1 : i = Len(finished) + 1 \/ i \in 1..Len(finished)
      BY <1>1, <2>2, Appended
    <3>5. QED
      BY <3>2, <3>3, <3>4
  <2>7. Bounded(edges, stack', finished')
    <3>1. \A d \in Range(finished) \cup {n} : \A m \in Nodes :
              <<d, m>> \in edges => m \in Range(finished) \cup Opened(stack)
      BY <1>1, <2>4 DEF FirstPass
    <3>2. QED
      BY <1>1, <1>5, <2>2, <2>4, <3>1, NodeFinished
  <2>8. visited' = Range(finished') \cup Opened(stack')
    BY <1>1, <2>2, <2>4, <2>5, <2>6 DEF FirstPass
  <2>9. \A k \in Range(finished'), m \in Nodes : <<k, m>> \in edges => m \in visited'
    BY <1>1, <2>2, <2>4, <2>6 DEF FirstPass
  <2>10. FirstPass'
    BY <1>1, <1>2, <2>2, <2>3, <2>4, <2>6, <2>7, <2>8, <2>9, <2>12, <2>13 DEF FirstPass
  <2>11. QED
    BY <1>2, <2>10 DEF GraphInv
<1>7. ASSUME stack[Len(stack)] = <<n, FALSE>>
      PROVE  /\ finished' = finished /\ visited' = visited \cup {n}
             /\ n \in visited => stack' = Front(stack)
             /\ n \notin visited => stack' = Append(Front(stack), <<n, TRUE>>) \o Children(n)
  <2>1. Last(stack)[1] = n /\ Last(stack)[2] = FALSE
    BY <1>7 DEF Last
  <2>2. QED
    BY <2>1 DEF Pop
<1>8. CASE stack[Len(stack)] = <<n, FALSE>> /\ n \in visited
  <2>1. stack' = Front(stack) /\ finished' = finished /\ visited' = visited
    BY <1>7, <1>8
  <2>2. /\ stack' \in Seq(Nodes \X BOOLEAN) /\ Len(stack') = Len(stack) - 1
        /\ \A i \in 1..Len(stack') : stack'[i] = stack[i]
    BY <1>4, <2>1
  <2>3. /\ Opened(stack') = Opened(stack) /\ Awaiting(stack) \subseteq Awaiting(stack') \cup {n}
        /\ Once(stack') /\ Descend(edges, stack') /\ Promised(edges, stack', visited)
    <3>1. Taken(edges, stack, stack', n, visited)
      BY <1>1, <1>5, <1>8, <2>2 DEF Taken
    <3>2. QED
      <4>1. /\ Opened(stack') \subseteq Opened(stack) /\ Opened(stack) \subseteq Opened(stack')
            /\ Awaiting(stack) \subseteq Awaiting(stack') \cup {n}
            /\ Once(stack') /\ Descend(edges, stack') /\ Promised(edges, stack', visited)
        <5>1. stack[Len(stack)] = <<n, FALSE>>
          BY <1>8
        <5>2. /\ Opened(stack') \subseteq Opened(stack)
              /\ Once(stack') /\ Descend(edges, stack') /\ Promised(edges, stack', visited)
          BY <3>1, EntryTaken DEF TakenAsAny
        <5>3. Opened(stack) \subseteq Opened(stack') /\ Awaiting(stack) \subseteq Awaiting(stack') \cup {n}
          BY <3>1, <5>1, EntryTaken DEF TakenAsClosed
        <5>4. QED
          BY <5>2, <5>3
      <4>2. QED
        BY <4>1
  <2>4. Bounded(edges, stack', finished')
    BY <1>5, <2>1, <2>3 DEF Bounded
  <2>5. FirstPass'
    BY <1>1, <1>2, <1>8, <2>1, <2>2, <2>3, <2>4 DEF FirstPass
  <2>6. QED
    BY <1>2, <2>5 DEF GraphInv
<1>9. CASE stack[Len(stack)] = <<n, FALSE>> /\ n \notin visited
  <2> DEFINE A == Nodes \X BOOLEAN
             e == <<n, TRUE>>
             c == Children(n)
             f == Front(stack)
             L == Len(stack)
  <2>1. /\ c \in Seq(A)
        /\ \A i \in 1..Len(c) : \E m \in Nodes : c[i] = <<m, FALSE>> /\ <<n, m>> \in edges
        /\ \A m \in Nodes : <<n, m>> \in edges => \E i \in 1..Len(c) : c[i] = <<m, FALSE>>
    BY ChildrenAwait
  <2>2. L \in Nat \ {0} /\ f \in Seq(A) /\ Len(f) = L - 1 /\ \A i \in 1..Len(f) : f[i] = stack[i]
    BY <1>4
  <2>3. stack' = Append(f, e) \o c /\ finished' = finished /\ visited' = visited \cup {n}
    BY <1>7, <1>9
  <2>4. e \in A
    OBVIOUS
  <2> HIDE DEF A, e, c, f, L
  <2>5. L = Len(f) + 1
    BY <2>2
  <2>6. /\ stack' \in Seq(A) /\ Len(stack') = L + Len(c) /\ Len(c) \in Nat
        /\ \A i \in 1..L : i < L => stack'[i] = f[i] /\ i \in 1..Len(f)
        /\ stack'[L] = e
        /\ \A i \in 1..Len(c) : stack'[L + i] = c[i] /\ L + i \in 1..Len(stack') /\ L + i > L
        /\ \A i \in 1..Len(stack') : i > L => i - L \in 1..Len(c) /\ i = L + (i - L)
    <3>1. f \in Seq(A) /\ c \in Seq(A) /\ e \in A /\ stack' = Append(f, e) \o c /\ L = Len(f) + 1
      BY <2>1, <2>2, <2>3, <2>4, <2>5
    <3>2. QED
      BY <3>1, PutOn
  <2>7. \A i \in 1..Len(stack') : i > L => \E m \in Nodes : stack'[i] = <<m, FALSE>> /\ <<n, m>> \in edges
    <3>1. \A i \in 1..Len(stack') : i > L => stack'[i] = c[i - L] /\ i - L \in 1..Len(c)
      BY <2>6
    <3>2. QED
      BY <2>1, <3>1
  <2>8. \A m \in Nodes : <<n, m>> \in edges => \E i \in 1..Len(stack') : i > L /\ stack'[i] = <<m, FALSE>>
    <3>1. ASSUME NEW m \in Nodes, <<n, m>> \in edges
          PROVE  \E i \in 1..Len(stack') : i > L /\ stack'[i] = <<m, FALSE>>
      <4>1. PICK i \in 1..Len(c) : c[i] = <<m, FALSE>>
        BY <2>1, <3>1
      <4>2. QED
        BY <2>6, <4>1
    <3>2. QED
      BY <3>1
  <2>9. /\ stack[L] = <<n, FALSE>> /\ stack'[L] = <<n, TRUE>> /\ Len(stack') >= L
        /\ \A i \in 1..L : i < L => stack'[i] = stack[i]
    <3>1. stack[L] = <<n, FALSE>> /\ stack'[L] = <<n, TRUE>>
      BY <1>9, <2>6 DEF L, e
    <3>2. Len(stack') >= L
      BY <2>2, <2>6
    <3>3. QED
      BY <2>2, <2>6, <3>1, <3>2
  <2>10. /\ Opened(stack') = Opened(stack) \cup {n}
         /\ Awaiting(stack) \subseteq Awaiting(stack') \cup {n}
         /\ Once(stack') /\ Descend(edges, stack') /\ Promised(edges, stack', visited')
    <3>1. Expanded(edges, stack, stack', n, visited)
      <4>1. n \notin Opened(stack)
        BY <1>1, <1>9 DEF FirstPass
      <4>2. QED
        BY <1>1, <1>5, <2>3, <2>6, <2>7, <2>8, <2>9, <4>1 DEF Expanded, L, A
    <3>2. QED
      <4>1. /\ Opened(stack') = Opened(stack) \cup {n}
            /\ Awaiting(stack) \subseteq Awaiting(stack') \cup {n}
            /\ Once(stack') /\ Descend(edges, stack') /\ Promised(edges, stack', visited \cup {n})
        BY <3>1, NodeOpened
      <4>2. QED
        BY <2>3, <4>1
  <2>11. Bounded(edges, stack', finished')
    BY <1>5, <2>3, <2>10 DEF Bounded
  <2>14. Opened(stack') \cap Range(finished') = {}
    BY <1>1, <1>9, <2>3, <2>10 DEF FirstPass
  <2>12. FirstPass'
    BY <1>1, <1>2, <2>3, <2>6, <2>10, <2>11, <2>14 DEF FirstPass, A
  <2>13. QED
    BY <1>2, <2>12 DEF GraphInv
<1>10. QED
  BY <1>3, <1>6, <1>8, <1>9

----------------------------------------------------------------------------
(* The second search.                                                      *)

\* No node is on no cycle.
LEMMA NothingOf == ASSUME NEW E PROVE CyclesOf(E, {}) = {}
BY DEF CyclesOf

\* The order of the first search, once no node is open, is what the second one relies on.
LEMMA OrderKept ==
    ASSUME ObjectGraphConstants, GraphInv, Ordered
    PROVE  GraphInv'
<1>1. /\ FirstPass /\ stack = <<>> /\ left = <<>> /\ pass' = "components"
      /\ left' = Reverse(finished) /\ visited' = {} /\ stack' = stack /\ edges' = edges
      /\ finished' = finished /\ component' = component /\ cycles' = cycles
      /\ finished \in Seq(Nodes) /\ component = {} /\ cycles = {}
  BY DEF Ordered, GraphInv, FirstPass
<1>2. Opened(stack) = {} /\ Awaiting(stack) = {} /\ Range(left) = {} /\ Range(stack) = {}
  BY <1>1 DEF Opened, Awaiting, Range
<1>3. Range(finished) = Nodes
  <2>1. Range(finished) \subseteq Nodes
    BY <1>1, Elements
  <2>2. QED
    BY <1>1, <1>2, <2>1 DEF FirstPass
<1>4. Finished
  <2>1. Bounded(edges, stack, finished) /\ \A i, j \in 1..Len(finished) : finished[i] = finished[j] => i = j
    BY <1>1 DEF FirstPass
  <2>2. ASSUME NEW i \in 1..Len(finished), NEW j \in 1..Len(finished), Leads(edges, finished[i], finished[j])
        PROVE  \E k \in 1..Len(finished) : j <= k /\ (k = i \/ Mutual(edges, finished[i], finished[k]))
    <3>1. finished[j] \in Nodes
      BY <1>1
    <3>2. PICK a \in 1..Len(finished) : \E k \in 1..Len(finished) :
                finished[a] = finished[j] /\ a <= k /\ (k = i \/ Mutual(edges, finished[i], finished[k]))
      BY <1>2, <2>1, <2>2, <3>1 DEF Bounded
    <3>3. a = j
      BY <2>1, <3>2
    <3>4. QED
      BY <3>2, <3>3
  <2>3. QED
    BY <1>1, <1>3, <2>2 DEF Finished
<1>5. /\ left' \in Seq(Nodes) /\ Len(left') = Len(finished) /\ Len(finished) \in Nat
      /\ \A i \in 1..Len(left') : left'[i] = finished'[Len(left') + 1 - i]
  <2>1. Len(finished) \in Nat /\ \A i \in 1..Len(finished) : finished[i] \in Nodes
    BY <1>1
  <2>2. /\ \A i \in 1..Len(finished) : Len(finished) - i + 1 \in 1..Len(finished)
        /\ \A i \in 1..Len(finished) : Len(finished) - i + 1 = Len(finished) + 1 - i
    BY <2>1
  <2>3. left' = [i \in 1..Len(finished) |-> finished[Len(finished) - i + 1]]
    BY <1>1 DEF Reverse
  <2>4. left' \in [1..Len(finished) -> Nodes]
    BY <2>1, <2>2, <2>3
  <2>5. left' \in Seq(Nodes) /\ Len(left') = Len(finished)
    BY <2>1, <2>4
  <2>6. QED
    BY <1>1, <2>1, <2>2, <2>3, <2>5
<1>6. Gathering' = {} /\ Done' = {}
  BY <1>1, <1>2 DEF Gathering, Done
<1>7. <<>> \in Seq(Nodes)
  OBVIOUS
<1>8. Finished'
  BY <1>1, <1>4 DEF Finished
<1>9. \A i \in 1..Len(finished) : ~ (i > Len(left') + 1) /\ ~ (Len(left') < Len(finished))
  BY <1>5
<1>10. cycles' = CyclesOf(edges', Done')
  BY <1>1, <1>6, NothingOf
<1>11. SecondPass'
  BY <1>1, <1>5, <1>6, <1>7, <1>8, <1>9, <1>10 DEF SecondPass
<1>12. QED
  BY <1>1, <1>11 DEF GraphInv

\* The second search starts a component at its next root, or skips a root it has visited.
LEMMA ComponentBegun ==
    ASSUME GraphInv, NextComponent
    PROVE  GraphInv'
<1> DEFINE q == Len(left)
           h == Head(left)
<1>1. /\ SecondPass /\ Finished /\ stack = <<>> /\ component = {} /\ left # <<>> /\ left' = Tail(left)
      /\ edges' = edges /\ pass' = pass /\ pass = "components" /\ finished' = finished
      /\ component' = component /\ cycles' = cycles /\ edges \subseteq Nodes \X Nodes
      /\ left \in Seq(Nodes) /\ finished \in Seq(Nodes) /\ q <= Len(finished)
  BY DEF NextComponent, GraphInv, SecondPass, Finished
<1>2. h \in visited => stack' = stack /\ visited' = visited
  BY DEF NextComponent
<1>3. h \notin visited => stack' = <<h>> /\ visited' = visited \cup {h}
  BY DEF NextComponent
<1>4. Gathering = {} /\ Done = visited
  <2>1. Range(stack) = {}
    BY <1>1 DEF Range
  <2>2. QED
    BY <1>1, <2>1 DEF Gathering, Done
<1>5. /\ q \in Nat \ {0} /\ left' \in Seq(Nodes) /\ Len(left') = q - 1 /\ h = left[1] /\ h \in Nodes
      /\ \A i \in 1..q - 1 : left'[i] = left[i + 1]
      /\ Len(finished) \in Nat
  BY <1>1
<1>6. h = finished[q]
  <2>1. 1 \in 1..q /\ q + 1 - 1 = q
    BY <1>5
  <2>2. QED
    BY <1>1, <1>5, <2>1 DEF SecondPass
<1> HIDE DEF h, q
<1>7. \A i \in 1..Len(left') : left'[i] = finished'[Len(left') + 1 - i]
  <2>1. \A i \in 1..q : left[i] = finished[q + 1 - i]
    BY <1>1 DEF SecondPass, q
  <2>2. ASSUME NEW i \in 1..q - 1 PROVE left'[i] = finished[q - 1 + 1 - i]
    <3>1. i + 1 \in 1..q /\ q + 1 - (i + 1) = q - 1 + 1 - i
      BY <1>5
    <3>2. QED
      BY <1>5, <2>1, <3>1
  <2>3. QED
    BY <1>1, <1>5, <2>2
<1>8. /\ \A i \in 1..Len(finished) : i > q => finished[i] \in visited
      /\ q - 1 + 1 = q /\ q - 1 < Len(finished) /\ q - 1 <= Len(finished) /\ q \in 1..Len(finished)
  <2>1. \A i \in 1..Len(finished) : i > q + 1 => finished[i] \in visited
    BY <1>1, <1>4 DEF SecondPass, q
  <2>2. q < Len(finished) => finished[q + 1] \in visited
    BY <1>1 DEF SecondPass, q
  <2>3. q <= Len(finished)
    BY <1>1 DEF q
  <2>4. ASSUME NEW i \in 1..Len(finished), i > q PROVE finished[i] \in visited
    <3>1. i > q + 1 \/ (i = q + 1 /\ q < Len(finished))
      BY <1>5, <2>4
    <3>2. QED
      BY <2>1, <2>2, <3>1
  <2>5. QED
    BY <1>5, <2>3, <2>4
<1>9. Done' = visited /\ h \in visited' /\ visited' \subseteq Nodes
      /\ stack' \in Seq(Nodes) /\ Gathering' \subseteq {h} /\ Gathering' \subseteq visited'
  <2>1. visited \subseteq Nodes
    BY <1>1 DEF SecondPass
  <2>2. CASE h \in visited
    <3>1. stack' = <<>> /\ visited' = visited /\ Range(stack') = {}
      BY <1>1, <1>2, <2>2 DEF Range
    <3>2. QED
      BY <1>1, <2>1, <2>2, <3>1 DEF Gathering, Done
  <2>3. CASE h \notin visited
    <3>1. /\ stack' = <<h>> /\ visited' = visited \cup {h}
          /\ stack' \in Seq(Nodes) /\ Len(stack') = 1 /\ stack'[1] = h /\ 1..1 = {1}
      <4>1. <<h>> \in Seq(Nodes) /\ Len(<<h>>) = 1 /\ <<h>>[1] = h
        BY <1>5
      <4>2. stack' = <<h>> /\ visited' = visited \cup {h}
        BY <1>3, <2>3
      <4>3. 1..1 = {1}
        OBVIOUS
      <4>4. Len(stack') = 1 /\ stack'[1] = h /\ stack' \in Seq(Nodes)
        BY <4>1, <4>2
      <4>5. QED
        BY <4>2, <4>3, <4>4
    <3>2. Range(stack') = {h}
      <4>1. stack' \in Seq(Nodes)
        BY <3>1
      <4>2. \A x : x \in Range(stack') <=> \E i \in 1..Len(stack') : stack'[i] = x
        BY <4>1, Elements
      <4>3. \A i \in 1..Len(stack') : i = 1
        BY <3>1
      <4>4. 1 \in 1..Len(stack')
        BY <3>1
      <4>5. stack'[1] = h
        BY <3>1
      <4>6. QED
        BY <4>2, <4>3, <4>4, <4>5
    <3>3. QED
      BY <1>1, <1>5, <2>1, <2>3, <3>1, <3>2 DEF Gathering, Done
  <2>4. QED
    BY <2>2, <2>3
<1>10. Finished'
  BY <1>1 DEF Finished
<1>11. \A d \in Done', m \in Nodes : <<m, d>> \in edges' => m \in Done'
  BY <1>1, <1>4, <1>9 DEF SecondPass
<1>12. cycles' = CyclesOf(edges', Done')
  BY <1>1, <1>4, <1>9 DEF SecondPass
<1>13. Gathering' # {} => h \in Gathering' /\ \A x \in Gathering' : x = h
  BY <1>9
<1>14. SecondPass'
  BY <1>1, <1>5, <1>6, <1>7, <1>8, <1>9, <1>10, <1>11, <1>12, <1>13 DEF SecondPass
<1>15. QED
  BY <1>1, <1>14 DEF GraphInv

\* The second search adds a node to the component, and what refers to that node to its stack.
\* A referrer that is not done leads to the root, which was finished last of those not done.
LEMMA NodeGathered ==
    ASSUME ObjectGraphConstants, GraphInv, Gather
    PROVE  GraphInv'
<1> DEFINE n == Last(stack)
           f == Front(stack)
           fresh == reverse(n) \ visited
           r == finished[Len(left) + 1]
<1>1. /\ SecondPass /\ Finished /\ stack # <<>> /\ edges' = edges /\ pass' = pass /\ pass = "components"
      /\ finished' = finished /\ left' = left /\ cycles' = cycles /\ edges \subseteq Nodes \X Nodes
      /\ stack \in Seq(Nodes) /\ Gathering \subseteq visited /\ visited \subseteq Nodes
      /\ finished \in Seq(Nodes)
  BY DEF Gather, GraphInv, SecondPass, Finished
<1>2. component' = component \cup {n} /\ visited' = visited \cup fresh
  BY DEF Gather
<1>3. PICK order \in SetToSeqs(fresh) : stack' = f \o order
  BY DEF Gather
<1>4. fresh \subseteq Nodes /\ \A m \in Nodes : m \in fresh <=> <<m, n>> \in edges /\ m \notin visited
  BY DEF reverse
<1>5. Range(stack) = Range(f) \cup {n} /\ f \in Seq(Nodes) /\ n \in Nodes
  BY <1>1, ElementsButLast
<1> HIDE DEF n, f, fresh
<1>6. IsFiniteSet(fresh)
  BY <1>4, FS_Subset DEF ObjectGraphConstants
<1>7. order \in Seq(Nodes) /\ Range(order) = fresh
  <2>1. order \in Seq(fresh) /\ Range(order) = fresh
    BY <1>3, <1>6, AnyOrder
  <2>2. Len(order) \in Nat /\ order \in [1..Len(order) -> fresh]
    BY <2>1
  <2>3. order \in [1..Len(order) -> Nodes]
    BY <1>4, <2>2
  <2>4. order \in Seq(Nodes)
    BY <2>2, <2>3
  <2>5. QED
    BY <2>1, <2>4
<1>8. stack' \in Seq(Nodes) /\ Range(stack') = Range(f) \cup fresh
  <2>1. f \o order \in Seq(Nodes)
    BY <1>5, <1>7, Joined
  <2>2. Range(f \o order) = Range(f) \cup fresh
    BY <1>5, <1>7, ElementsOfJoin
  <2>3. QED
    BY <1>3, <2>1, <2>2
<1>9. Gathering' = Gathering \cup fresh
  BY <1>2, <1>5, <1>8 DEF Gathering
<1>10. Done' = Done
  <2>1. fresh \cap visited = {}
    BY <1>4, <1>1
  <2>2. Done' = (visited \cup fresh) \ (Gathering \cup fresh)
    BY <1>2, <1>9 DEF Done
  <2>3. QED
    BY <1>1, <2>1, <2>2 DEF Done
<1>11. n \in Gathering
  BY <1>5 DEF Gathering
<1> HIDE DEF r
<1>12. Len(left) < Len(finished) /\ r \in Gathering /\ \A x \in Gathering : x = r \/ Leads(edges, x, r)
  BY <1>1, <1>11 DEF SecondPass, r
<1>13. ASSUME NEW x \in Gathering' PROVE x = r \/ Leads(edges, x, r)
  <2>1. CASE x \in Gathering
    BY <1>12, <2>1
  <2>2. CASE x \in fresh
    <3>1. Leads(edges, x, n)
      BY <1>4, <1>5, <2>2, OneReference
    <3>2. n = r \/ Leads(edges, n, r)
      BY <1>11, <1>12
    <3>3. QED
      BY <1>5, <3>1, <3>2, LeadsOn
  <2>3. QED
    BY <1>9, <2>1, <2>2
<1>14. \A c \in component', m \in Nodes : <<m, c>> \in edges' => m \in visited'
  <2>1. \A c \in component, m \in Nodes : <<m, c>> \in edges => m \in visited
    BY <1>1 DEF SecondPass
  <2>2. \A m \in Nodes : <<m, n>> \in edges => m \in visited \cup fresh
    BY <1>4
  <2>3. QED
    BY <1>1, <1>2, <2>1, <2>2
<1>15. Finished'
  BY <1>1 DEF Finished
<1>16. Gathering' \subseteq visited' /\ visited' \subseteq Nodes /\ r \in Gathering' /\ r \in visited'
  BY <1>1, <1>2, <1>4, <1>9, <1>12
<1>17. \A d \in Done', m \in Nodes : <<m, d>> \in edges' => m \in Done'
  BY <1>1, <1>10 DEF SecondPass
<1>18. cycles' = CyclesOf(edges', Done')
  BY <1>1, <1>10 DEF SecondPass
<1>19. /\ left' \in Seq(Nodes) /\ Len(left') <= Len(finished')
       /\ \A i \in 1..Len(left') : left'[i] = finished'[Len(left') + 1 - i]
       /\ \A i \in 1..Len(finished') : i > Len(left') + 1 => finished'[i] \in Done'
  BY <1>1, <1>10 DEF SecondPass
<1>20. r = finished'[Len(left') + 1] /\ Len(left') < Len(finished')
  BY <1>1, <1>12 DEF r
<1>23. /\ Gathering' # {} =>
             /\ Len(left') < Len(finished') /\ finished'[Len(left') + 1] \in Gathering'
             /\ \A x \in Gathering' : x = finished'[Len(left') + 1] \/ Leads(edges', x, finished'[Len(left') + 1])
       /\ Len(left') < Len(finished') => finished'[Len(left') + 1] \in visited'
  BY <1>1, <1>13, <1>16, <1>20
<1>21. SecondPass'
  BY <1>8, <1>23, <1>14, <1>15, <1>16, <1>17, <1>18, <1>19, <1>20 DEF SecondPass
<1>22. QED
  BY <1>1, <1>21 DEF GraphInv

\* More than one node, one of which is r.
LEMMA MoreThanOne ==
    ASSUME NEW C, IsFiniteSet(C), NEW r \in C
    PROVE  Cardinality(C) > 1 <=> \E x \in C : x # r
<1>1. Cardinality(C) \in Nat
  BY FS_CardinalityType
<1>2. Cardinality(C) # 0
  BY FS_EmptySet
<1>3. Cardinality(C) = 1 <=> \E x : C = {x}
  BY FS_Singleton
<1>4. QED
  BY <1>1, <1>2, <1>3

\* What has been gathered from r backwards is what r is on cycles with.
LEMMA ComponentFound ==
    ASSUME NEW E, NEW C, C \subseteq Nodes, IsFiniteSet(C), NEW D, D \subseteq Nodes, NEW r \in C,
           r \notin D,
           \A x \in C : x = r \/ Mutual(E, x, r),
           \A d \in D, m \in Nodes : <<m, d>> \in E => m \in D,
           \A v \in C \cup D, m \in Nodes : <<m, v>> \in E => m \in C \cup D
    PROVE  /\ (Cardinality(C) > 1 \/ \E n \in C : <<n, n>> \in E) <=> Leads(E, r, r)
           /\ CyclesOf(E, D \cup C) = IF Leads(E, r, r) THEN CyclesOf(E, D) \cup {C} ELSE CyclesOf(E, D)
<1>1. ASSUME NEW x \in Nodes, Leads(E, x, r), Leads(E, r, x) PROVE x \in C
  <2> DEFINE V == C \cup D
  <2>3. x \in V
    <3>1. r \in V /\ r \in Nodes /\ \A v \in V : \A m \in Nodes : <<m, v>> \in E => m \in V
      OBVIOUS
    <3> HIDE DEF V
    <3>2. QED
      BY <1>1, <3>1, LeadsOutOfClosed
  <2>2. x \in D => r \in D
    BY <1>1, LeadsOutOfClosed
  <2>4. QED
    BY <2>3, <2>2
<1>2. ASSUME Leads(E, r, r) PROVE C = Cycle(E, r)
  <2>1. \A x \in C : Leads(E, x, r) /\ Leads(E, r, x)
    BY <1>2 DEF Mutual
  <2>2. QED
    BY <1>1, <2>1 DEF Cycle
<1>3. ASSUME NEW n \in C, Leads(E, n, n) PROVE Leads(E, r, r)
  BY <1>3, LeadsOn DEF Mutual
<1>4. ASSUME NEW n \in C, Leads(E, r, r) PROVE Leads(E, n, n) /\ Cycle(E, n) = C
  <2>1. Leads(E, n, r) /\ Leads(E, r, n)
    BY <1>4 DEF Mutual
  <2>2. Leads(E, n, n)
    BY <2>1, LeadsOn
  <2>3. ASSUME NEW m \in Nodes PROVE Leads(E, n, m) /\ Leads(E, m, n) <=> Leads(E, r, m) /\ Leads(E, m, r)
    BY <2>1, LeadsOn
  <2>4. Cycle(E, n) = Cycle(E, r)
    BY <2>3 DEF Cycle
  <2>5. QED
    BY <1>2, <1>4, <2>2, <2>4
<1>5. ASSUME Leads(E, r, r) PROVE Cardinality(C) > 1 \/ \E n \in C : <<n, n>> \in E
  <2>1. PICK k \in Nodes : <<k, r>> \in E /\ (k = r \/ Leads(E, r, k))
    BY <1>5, LastReference
  <2>2. CASE k = r
    BY <2>1, <2>2
  <2>3. CASE k # r
    <3>1. Leads(E, k, r)
      BY <2>1, OneReference
    <3>2. k \in C
      BY <1>1, <2>1, <2>3, <3>1
    <3>3. QED
      BY <2>3, <3>2, MoreThanOne
  <2>4. QED
    BY <2>2, <2>3
<1>6. ASSUME Cardinality(C) > 1 \/ \E n \in C : <<n, n>> \in E PROVE Leads(E, r, r)
  <2>1. CASE Cardinality(C) > 1
    <3>1. PICK x \in C : x # r
      BY <2>1, MoreThanOne
    <3>2. QED
      BY <3>1, LeadsOn DEF Mutual
  <2>2. CASE \E n \in C : <<n, n>> \in E
    <3>1. PICK n \in C : <<n, n>> \in E
      BY <2>2
    <3>2. Leads(E, n, n)
      BY <3>1, OneReference
    <3>3. QED
      BY <1>3, <3>2
  <2>3. QED
    BY <1>6, <2>1, <2>2
<1>7. CASE Leads(E, r, r)
  <2>1. CyclesOf(E, D \cup C) = CyclesOf(E, D) \cup {C}
    BY <1>4, <1>7 DEF CyclesOf
  <2>2. QED
    BY <1>5, <1>7, <2>1
<1>8. CASE ~ Leads(E, r, r)
  <2>1. CyclesOf(E, D \cup C) = CyclesOf(E, D)
    BY <1>3, <1>8 DEF CyclesOf
  <2>2. QED
    BY <1>6, <1>8, <2>1
<1>9. QED
  BY <1>7, <1>8

\* A component gathered completely is the set of all nodes on a cycle with its root: what refers
\* to it is in it or done, and by the order of the first search its root leads to all of it.
LEMMA ComponentDone ==
    ASSUME ObjectGraphConstants, GraphInv, Gathered
    PROVE  GraphInv'
<1> DEFINE q == Len(left)
           r == finished[Len(left) + 1]
           C == component
           D == Done
<1>1. /\ SecondPass /\ Finished /\ stack = <<>> /\ C # {} /\ edges' = edges /\ pass' = pass /\ pass = "components"
      /\ finished' = finished /\ left' = left /\ visited' = visited /\ stack' = stack /\ component' = {}
      /\ cycles' = IF Cyclic(C) THEN cycles \cup {C} ELSE cycles
      /\ Gathering \subseteq visited /\ visited \subseteq Nodes /\ left \in Seq(Nodes)
      /\ finished \in Seq(Nodes) /\ edges \subseteq Nodes \X Nodes
  BY DEF Gathered, GraphInv, SecondPass, Finished
<1>2. /\ Range(stack) = {} /\ Gathering = C /\ D = visited \ C /\ D \cup C = visited
      /\ C \subseteq Nodes /\ D \subseteq Nodes
  <2>1. Range(stack) = {}
    BY <1>1 DEF Range
  <2>2. QED
    BY <1>1, <2>1 DEF Gathering, Done
<1>3. Gathering' = {} /\ Done' = D \cup C
  BY <1>1, <1>2 DEF Gathering, Done
<1>4. /\ q < Len(finished) /\ r \in C /\ q \in Nat /\ Len(finished) \in Nat
      /\ \A x \in C : x = r \/ Leads(edges, x, r)
      /\ \A d \in D, m \in Nodes : <<m, d>> \in edges => m \in D
      /\ \A c \in C, m \in Nodes : <<m, c>> \in edges => m \in D \cup C
      /\ \A i \in 1..Len(finished) : i > q + 1 => finished[i] \in D
      /\ cycles = CyclesOf(edges, D)
  BY <1>1, <1>2 DEF SecondPass
<1> HIDE DEF q, C, D
<1>5. r \in Nodes /\ r \notin D /\ q + 1 \in 1..Len(finished)
  <2>1. q + 1 \in 1..Len(finished)
    BY <1>4
  <2> HIDE DEF r
  <2>2. r \in Nodes /\ r \notin D
    BY <1>2, <1>4
  <2>3. QED
    BY <2>1, <2>2
<1>6. /\ \A i, j \in 1..Len(finished) : Leads(edges, finished[i], finished[j]) =>
              \E k \in 1..Len(finished) : j <= k /\ (k = i \/ Mutual(edges, finished[i], finished[k]))
      /\ Range(finished) = Nodes
  BY <1>1 DEF Finished
<1>7. r = finished[q + 1]
  BY DEF q
<1> HIDE DEF r
<1>8. ASSUME NEW x \in C, x # r PROVE Mutual(edges, x, r)
  <2>1. PICK i \in 1..Len(finished) : finished[i] = x
    BY <1>1, <1>2, <1>6, Elements
  <2>2. Leads(edges, finished[i], finished[q + 1])
    BY <1>4, <1>7, <1>8, <2>1
  <2>3. PICK k \in 1..Len(finished) : q + 1 <= k /\ (k = i \/ Mutual(edges, x, finished[k]))
    BY <1>5, <1>6, <2>1, <2>2
  <2>4. k = q + 1 \/ k > q + 1
    BY <1>4, <2>3
  <2>5. x \notin D
    BY <1>2
  <2>6. CASE k = q + 1
    BY <1>7, <1>8, <2>1, <2>3, <2>6
  <2>7. CASE k > q + 1
    <3>1. finished[k] \in D
      BY <1>4, <2>7
    <3>2. k # i
      BY <2>1, <2>5, <3>1
    <3>3. Leads(edges, x, finished[k])
      BY <2>3, <3>2 DEF Mutual
    <3>4. x \in D
      <4>1. x \in Nodes /\ finished[k] \in Nodes
        BY <1>2, <3>1
      <4>2. \A d \in D : \A m \in Nodes : <<m, d>> \in edges => m \in D
        BY <1>4
      <4>3. QED
        BY <3>1, <3>3, <4>1, <4>2, LeadsOutOfClosed
    <3>5. QED
      BY <2>5, <3>4
  <2>8. QED
    BY <2>4, <2>6, <2>7
<1>9. IsFiniteSet(C)
  BY <1>2, FS_Subset DEF ObjectGraphConstants
<1>10. /\ (Cardinality(C) > 1 \/ \E n \in C : <<n, n>> \in edges) <=> Leads(edges, r, r)
       /\ CyclesOf(edges, D \cup C) = IF Leads(edges, r, r) THEN CyclesOf(edges, D) \cup {C} ELSE CyclesOf(edges, D)
  <2>1. \A x \in C : x = r \/ Mutual(edges, x, r)
    BY <1>8
  <2>2. \A v \in C \cup D, m \in Nodes : <<m, v>> \in edges => m \in C \cup D
    BY <1>4
  <2>3. \A d \in D, m \in Nodes : <<m, d>> \in edges => m \in D
    BY <1>4
  <2>4. r \in C /\ r \notin D /\ C \subseteq Nodes /\ D \subseteq Nodes
    BY <1>2, <1>4, <1>5
  <2>5. QED
    BY <1>9, <2>1, <2>2, <2>3, <2>4, ComponentFound
<1>11. Cyclic(C) <=> Leads(edges, r, r)
  <2>1. \A n \in C : n \in adjacency(n) <=> <<n, n>> \in edges
    BY <1>2 DEF adjacency
  <2>2. QED
    BY <1>10, <2>1 DEF Cyclic
<1>12. cycles' = CyclesOf(edges', Done')
  BY <1>1, <1>3, <1>4, <1>10, <1>11 DEF C
<1>13. Finished'
  BY <1>1 DEF Finished
<1>14. \A d \in Done', m \in Nodes : <<m, d>> \in edges' => m \in Done'
  BY <1>1, <1>3, <1>4
<1>15. /\ left' \in Seq(Nodes) /\ Len(left') <= Len(finished')
       /\ \A i \in 1..Len(left') : left'[i] = finished'[Len(left') + 1 - i]
       /\ Len(left') < Len(finished') => finished'[Len(left') + 1] \in visited'
       /\ stack' \in Seq(Nodes)
  BY <1>1 DEF SecondPass
<1>16. \A i \in 1..Len(finished') : i > Len(left') + 1 => finished'[i] \in Done'
  BY <1>1, <1>3, <1>4 DEF q
<1>17. SecondPass'
  BY <1>1, <1>3, <1>12, <1>13, <1>14, <1>15, <1>16 DEF SecondPass
<1>18. QED
  BY <1>1, <1>17 DEF GraphInv

\* When no root is left every node is in a component, and the last search starts from the cycles.
LEMMA ComponentsSeparated ==
    ASSUME ObjectGraphConstants, GraphInv, Separated
    PROVE  GraphInv'
<1> DEFINE U == UNION cycles
<1>1. /\ SecondPass /\ Finished /\ stack = <<>> /\ component = {} /\ left = <<>> /\ edges' = edges
      /\ pass' = "downstream" /\ reachable' = U /\ cycles' = cycles
      /\ visited \subseteq Nodes /\ finished \in Seq(Nodes) /\ edges \subseteq Nodes \X Nodes
  BY DEF Separated, GraphInv, SecondPass, Finished
<1>2. PICK order \in SetToSeqs(U) : stack' = order
  BY DEF Separated
<1>3. Gathering = {} /\ Done = visited
  <2>1. Range(stack) = {}
    BY <1>1 DEF Range
  <2>2. QED
    BY <1>1, <2>1 DEF Gathering, Done
<1>4. Done = Nodes
  <2>1. Len(left) = 0
    BY <1>1
  <2>2. \A i \in 1..Len(finished) : (i > 1 => finished[i] \in Done) /\ (0 < Len(finished) => finished[1] \in visited)
    BY <1>1, <2>1 DEF SecondPass
  <2>3. \A i \in 1..Len(finished) : (i > 1 \/ i = 1) /\ 0 < Len(finished)
    BY <1>1
  <2>4. \A i \in 1..Len(finished) : finished[i] \in visited
    BY <1>3, <2>2, <2>3
  <2>5. Range(finished) = Nodes
    BY <1>1 DEF Finished
  <2>6. Nodes \subseteq visited
    BY <1>1, <2>4, <2>5, Elements
  <2>7. QED
    BY <1>1, <1>3, <2>6
<1>5. cycles = CyclesOf(edges, Nodes)
  BY <1>1, <1>4 DEF SecondPass
<1>6. U \subseteq Nodes
  BY <1>5 DEF CyclesOf, Cycle
<1>7. \A x \in U : \E o \in U : <<o, x>> \in edges
  <2>1. ASSUME NEW x \in U PROVE \E o \in U : <<o, x>> \in edges
    <3>1. PICK n \in Nodes : Leads(edges, n, n) /\ x \in Cycle(edges, n) /\ Cycle(edges, n) \subseteq U
      BY <1>5, <2>1 DEF CyclesOf
    <3>2. x \in Nodes /\ Leads(edges, n, x) /\ Leads(edges, x, n)
      BY <3>1 DEF Cycle
    <3>3. PICK o \in Nodes : <<o, x>> \in edges /\ (o = n \/ Leads(edges, n, o))
      BY <3>2, LastReference
    <3>4. Leads(edges, n, o)
      BY <3>1, <3>3
    <3>5. Leads(edges, o, n)
      <4>1. Leads(edges, o, x)
        BY <3>2, <3>3, OneReference
      <4>2. QED
        BY <3>2, <4>1, LeadsOn
    <3>6. o \in Cycle(edges, n)
      BY <3>4, <3>5 DEF Cycle
    <3>7. QED
      BY <3>1, <3>3, <3>6
  <2>2. QED
    BY <2>1
<1> HIDE DEF U
<1>8. stack' \in Seq(Nodes) /\ Range(stack') = U
  <2>1. IsFiniteSet(U)
    BY <1>6, FS_Subset DEF ObjectGraphConstants
  <2>2. order \in Seq(U) /\ Range(order) = U
    BY <1>2, <2>1, AnyOrder
  <2>3. Len(order) \in Nat /\ order \in [1..Len(order) -> U]
    BY <2>2
  <2>4. order \in [1..Len(order) -> Nodes]
    BY <1>6, <2>3
  <2>5. order \in Seq(Nodes)
    BY <2>3, <2>4
  <2>6. QED
    BY <1>2, <2>2, <2>5
<1>9. cycles' = CyclesOf(edges', Nodes)
  BY <1>1, <1>5
<1>10. UNION cycles' = U
  BY <1>1 DEF U
<1>11. \A x \in reachable' : \E o \in reachable' : <<o, x>> \in edges'
  BY <1>1, <1>7
<1>12. /\ Range(stack') \subseteq reachable' /\ UNION cycles' \subseteq reachable' /\ reachable' \subseteq Nodes
       /\ \A x \in reachable' \ Range(stack'), m \in Nodes : <<x, m>> \in edges' => m \in reachable'
  BY <1>1, <1>6, <1>8, <1>10
<1>13. ThirdPass'
  BY <1>8, <1>9, <1>11, <1>12 DEF ThirdPass
<1>14. QED
  BY <1>1, <1>13 DEF GraphInv

----------------------------------------------------------------------------
(* What the cycles keep.                                                   *)

\* The last search adds what a node refers to; every node it holds has a referrer that it holds.
LEMMA ReferencesFollowed ==
    ASSUME ObjectGraphConstants, GraphInv, Downstream
    PROVE  GraphInv'
<1> DEFINE n == Last(stack)
           f == Front(stack)
           fresh == adjacency(n) \ reachable
<1>1. /\ ThirdPass /\ stack # <<>> /\ edges' = edges /\ pass' = pass /\ pass = "downstream" /\ cycles' = cycles
      /\ reachable' = reachable \cup fresh
      /\ stack \in Seq(Nodes) /\ Range(stack) \subseteq reachable
      /\ UNION cycles \subseteq reachable /\ reachable \subseteq Nodes
      /\ \A x \in reachable \ Range(stack), m \in Nodes : <<x, m>> \in edges => m \in reachable
      /\ \A x \in reachable : \E o \in reachable : <<o, x>> \in edges
      /\ cycles = CyclesOf(edges, Nodes) /\ edges \subseteq Nodes \X Nodes
  BY DEF Downstream, GraphInv, ThirdPass
<1>2. PICK order \in SetToSeqs(fresh) : stack' = f \o order
  BY DEF Downstream
<1>3. fresh \subseteq Nodes /\ \A m \in Nodes : m \in fresh <=> <<n, m>> \in edges /\ m \notin reachable
  BY DEF adjacency
<1>4. Range(stack) = Range(f) \cup {n} /\ f \in Seq(Nodes) /\ n \in Nodes
  BY <1>1, ElementsButLast
<1> HIDE DEF n, f, fresh
<1>5. order \in Seq(Nodes) /\ Range(order) = fresh
  <2>1. IsFiniteSet(fresh)
    BY <1>3, FS_Subset DEF ObjectGraphConstants
  <2>2. order \in Seq(fresh) /\ Range(order) = fresh
    BY <1>2, <2>1, AnyOrder
  <2>3. Len(order) \in Nat /\ order \in [1..Len(order) -> fresh]
    BY <2>2
  <2>4. order \in [1..Len(order) -> Nodes]
    BY <1>3, <2>3
  <2>5. order \in Seq(Nodes)
    BY <2>3, <2>4
  <2>6. QED
    BY <2>2, <2>5
<1>6. stack' \in Seq(Nodes) /\ Range(stack') = Range(f) \cup fresh
  <2>1. f \o order \in Seq(Nodes)
    BY <1>4, <1>5, Joined
  <2>2. Range(f \o order) = Range(f) \cup fresh
    BY <1>4, <1>5, ElementsOfJoin
  <2>3. QED
    BY <1>2, <2>1, <2>2
<1>7. \A x \in reachable' \ Range(stack'), m \in Nodes : <<x, m>> \in edges' => m \in reachable'
  BY <1>1, <1>3, <1>4, <1>6
<1>8. \A x \in reachable' : \E o \in reachable' : <<o, x>> \in edges'
  <2>1. n \in reachable
    BY <1>1, <1>4
  <2>2. QED
    BY <1>1, <1>3, <2>1
<1>9. Range(stack') \subseteq reachable' /\ UNION cycles' \subseteq reachable' /\ reachable' \subseteq Nodes
  BY <1>1, <1>3, <1>4, <1>6
<1>10. cycles' = CyclesOf(edges', Nodes)
  BY <1>1
<1>11. ThirdPass'
  BY <1>6, <1>7, <1>8, <1>9, <1>10 DEF ThirdPass
<1>12. QED
  BY <1>1, <1>11 DEF GraphInv

\* The last search ends with an empty stack.
LEMMA ReportWritten ==
    ASSUME GraphInv, Reported
    PROVE  GraphInv'
<1>1. /\ ThirdPass /\ stack = <<>> /\ stack' = stack /\ edges' = edges /\ cycles' = cycles
      /\ reachable' = reachable /\ pass' = "reported" /\ edges \subseteq Nodes \X Nodes
  BY DEF Reported, GraphInv
<1>2. ThirdPass'
  BY <1>1 DEF ThirdPass
<1>3. QED
  BY <1>1, <1>2 DEF GraphInv

\* Among finitely many nodes each of which another or itself refers to, one is on a cycle.
LEMMA NoEndlessDescent ==
    ASSUME NEW E, NEW T, T \subseteq Nodes, IsFiniteSet(T), T # {},
           \A m \in T : \E o \in T : <<o, m>> \in E
    PROVE  \E n \in T : Leads(E, n, n)
<1> DEFINE Above(x) == {y \in T : Leads(E, y, x)}
           Sizes == {Cardinality(Above(x)) : x \in T}
<1>1. \A x \in T : IsFiniteSet(Above(x)) /\ Cardinality(Above(x)) \in Nat
  <2>1. ASSUME NEW x \in T PROVE IsFiniteSet(Above(x)) /\ Cardinality(Above(x)) \in Nat
    <3>1. Above(x) \in SUBSET T
      OBVIOUS
    <3> HIDE DEF Above
    <3>2. IsFiniteSet(Above(x))
      BY <3>1, FS_Subset
    <3>3. QED
      BY <3>2, FS_CardinalityType
  <2>2. QED
    BY <2>1
<1>2. PICK x \in T : \A y \in T : Cardinality(Above(x)) <= Cardinality(Above(y))
  <2> HIDE DEF Above
  <2>1. Sizes \subseteq Nat /\ Sizes # {}
    BY <1>1
  <2> HIDE DEF Sizes
  <2>2. PICK s \in Sizes : \A k \in Sizes : s <= k
    BY <2>1, LeastNumber
  <2>3. QED
    BY <2>2 DEF Sizes
<1>3. PICK y \in T : <<y, x>> \in E
  OBVIOUS
<1>4. Leads(E, y, x)
  BY <1>3, OneReference
<1>5. Above(y) \in SUBSET Above(x) /\ y \in Above(x)
  BY <1>4, LeadsOn
<1>6. Above(y) = Above(x)
  <2> HIDE DEF Above
  <2>1. /\ Cardinality(Above(y)) <= Cardinality(Above(x))
        /\ Cardinality(Above(x)) = Cardinality(Above(y)) => Above(x) = Above(y)
    BY <1>1, <1>5, FS_Subset
  <2>2. Cardinality(Above(x)) <= Cardinality(Above(y))
    BY <1>2
  <2>3. QED
    BY <1>1, <2>1, <2>2
<1>7. QED
  BY <1>5, <1>6

\* The property and the invariant mean the same by a way along references.
LEMMA SameConnection ==
    ASSUME NEW n \in Nodes, NEW m \in Nodes
    PROVE  Connected(n, m) <=> Leads(edges, n, m)
BY DEF Connected, Closed, Leads, adjacency

\* In the end the report holds what it should.
LEMMA ReportIsRight ==
    ASSUME ObjectGraphConstants, GraphInv
    PROVE  CyclesFound
<1>1. SUFFICES ASSUME pass = "reported"
               PROVE  /\ cycles = {{m \in Nodes : Connected(n, m) /\ Connected(m, n)} :
                                       n \in {n \in Nodes : Connected(n, n)}}
                      /\ reachable = Nodes \ Freed
  BY DEF CyclesFound
<1>2. /\ ThirdPass /\ stack = <<>> /\ cycles = CyclesOf(edges, Nodes)
      /\ UNION cycles \subseteq reachable /\ reachable \subseteq Nodes
      /\ \A x \in reachable \ Range(stack), m \in Nodes : <<x, m>> \in edges => m \in reachable
      /\ \A x \in reachable : \E o \in reachable : <<o, x>> \in edges
  BY <1>1 DEF GraphInv, ThirdPass
<1>3. cycles = {{m \in Nodes : Connected(n, m) /\ Connected(m, n)} :
                    n \in {n \in Nodes : Connected(n, n)}}
  <2>1. \A n \in Nodes : Cycle(edges, n) = {m \in Nodes : Connected(n, m) /\ Connected(m, n)}
    BY SameConnection DEF Cycle
  <2>2. {n \in Nodes : Leads(edges, n, n)} = {n \in Nodes : Connected(n, n)}
    BY SameConnection
  <2>3. QED
    BY <1>2, <2>1, <2>2 DEF CyclesOf
<1>4. \A x \in reachable, m \in Nodes : <<x, m>> \in edges => m \in reachable
  <2>1. Range(stack) = {}
    BY <1>2 DEF Range
  <2>2. QED
    BY <1>2, <2>1
<1>5. ASSUME NEW x \in reachable PROVE x \notin Freed
  <2> DEFINE F == Nodes \ reachable
  <2>1. \A k \in Nodes : (\A o \in Nodes : <<o, k>> \in edges => o \in F) => k \in F
    BY <1>2
  <2>2. F \in SUBSET Nodes /\ x \notin F
    BY <1>5
  <2> HIDE DEF F
  <2>3. QED
    BY <2>1, <2>2 DEF Freed
<1>6. ASSUME NEW x \in Nodes \ reachable PROVE x \in Freed
  <2>1. SUFFICES ASSUME NEW F \in SUBSET Nodes,
                        \A k \in Nodes : (\A o \in Nodes : <<o, k>> \in edges => o \in F) => k \in F,
                        x \notin F
                 PROVE  FALSE
    BY <1>6 DEF Freed
  <2> DEFINE T == Nodes \ (F \cup reachable)
  <2>2. \A m \in T : \E o \in T : <<o, m>> \in edges
    BY <1>4, <2>1
  <2>3. T \subseteq Nodes /\ T # {}
    BY <1>6, <2>1
  <2>4. T \cap reachable = {}
    OBVIOUS
  <2> HIDE DEF T
  <2>5. IsFiniteSet(T)
    BY <2>3, FS_Subset DEF ObjectGraphConstants
  <2>6. PICK n \in T : Leads(edges, n, n)
    BY <2>2, <2>3, <2>5, NoEndlessDescent
  <2>7. n \in Cycle(edges, n) /\ Cycle(edges, n) \in cycles
    BY <1>2, <2>3, <2>6 DEF Cycle, CyclesOf
  <2>8. QED
    BY <1>2, <2>4, <2>7
<1>7. QED
  BY <1>2, <1>3, <1>5, <1>6

\* analyze_graph() (src/scripts/summarize_serializer_gc.py:177), for any finite set of objects and
\* whatever refers to what among them: the cycles of its report are the sets of objects that
\* reach each other, and the objects it counts as kept by cycles, on one or downstream of
\* one, are exactly those that reference counting does not free.
THEOREM GraphsAnalyzed == GraphInit /\ [][GraphNext]_graphVars => []CyclesFound
<1>1. GraphInit => GraphInv
  BY GraphStarts, ObjectGraphConstants
<1>2. GraphInv /\ [GraphNext]_graphVars => GraphInv'
  <2>1. CASE UNCHANGED graphVars
    <3>1. /\ edges' = edges /\ pass' = pass /\ left' = left /\ stack' = stack /\ visited' = visited
          /\ finished' = finished /\ component' = component /\ cycles' = cycles /\ reachable' = reachable
      BY <2>1 DEF graphVars
    <3>2. FirstPass => FirstPass'
      BY <3>1 DEF FirstPass
    <3>3. Done' = Done /\ Gathering' = Gathering /\ (Finished => Finished')
      BY <3>1 DEF Done, Gathering, Finished
    <3>4. SecondPass => SecondPass'
      BY <3>1, <3>3 DEF SecondPass
    <3>5. ThirdPass => ThirdPass'
      BY <3>1 DEF ThirdPass
    <3>6. QED
      BY <3>1, <3>2, <3>4, <3>5 DEF GraphInv
  <2>2. CASE GraphNext
    BY <2>2, ObjectGraphConstants, RootTaken, EntryPopped, OrderKept, ComponentBegun, NodeGathered,
       ComponentDone, ComponentsSeparated, ReferencesFollowed, ReportWritten DEF GraphNext
  <2>3. QED
    BY <2>1, <2>2
<1>3. GraphInv => CyclesFound
  BY ReportIsRight, ObjectGraphConstants
<1>4. QED
  BY <1>1, <1>2, <1>3, PTL

----------------------------------------------------------------------------
(* The measurement scripts: the plans their loops lay out.                 *)

\* A number is its quotient and its remainder.
LEMMA Divided ==
    ASSUME NEW x \in Nat, NEW L \in Nat \ {0}
    PROVE  /\ x \div L \in Nat /\ x % L \in 0..(L - 1)
           /\ x = L * (x \div L) + (x % L)
OBVIOUS

\* Quotient and remainder of a number that is put together from them.
LEMMA Quotient ==
    ASSUME NEW L \in Nat \ {0}, NEW q \in Nat, NEW r \in 0..(L - 1)
    PROVE  (L * q + r) \div L = q /\ (L * q + r) % L = r
OBVIOUS

\* The quotient of a number of a table of C rows of L is one of its rows.
LEMMA QuotientBelow ==
    ASSUME NEW L \in Nat \ {0}, NEW C \in Nat, NEW x \in 0..(C * L - 1)
    PROVE  x \div L \in 0..(C - 1)
OBVIOUS

\* A row and a place in it are a number of the table.
LEMMA Rows ==
    ASSUME NEW L \in Nat \ {0}, NEW C \in Nat, NEW q \in 0..(C - 1), NEW r \in 0..(L - 1)
    PROVE  L * q + r \in 0..(C * L - 1)
OBVIOUS

\* Such a number tells its row and its place.
InRow(x, L, C, q, r) == L \in Nat \ {0} /\ C \in Nat /\ q \in 0..(C - 1) /\ r \in 0..(L - 1) /\ x = L * q + r

LEMMA PlaceInRow ==
    ASSUME NEW x, NEW L, NEW C, NEW q, NEW r, InRow(x, L, C, q, r)
    PROVE  x \in 0..(C * L - 1) /\ x \div L = q /\ x % L = r
<1>1. L \in Nat \ {0} /\ C \in Nat /\ q \in 0..(C - 1) /\ r \in 0..(L - 1) /\ x = L * q + r /\ q \in Nat
  BY DEF InRow
<1>2. L * q + r \in 0..(C * L - 1)
  BY <1>1, Rows
<1>3. (L * q + r) \div L = q /\ (L * q + r) % L = r
  BY <1>1, Quotient
<1>4. QED
  BY <1>1, <1>2, <1>3

\* The size of a plan, and the number of the job in cell c, repeat r and place i.
Size(C, n, b)         == C * n * b
Number(n, b, c, r, i) == b * (n * (c - 1) + (r - 1)) + i

\* L has one job for each cell, repeat and place, and no others.
Numbered(L, cells, blocks, C, n, b) ==
    /\ DOMAIN L = 1..Size(C, n, b) /\ Size(C, n, b) \in Nat
    /\ L \in Seq(Range(L)) /\ Len(L) = Size(C, n, b)
    /\ \A k \in 1..Size(C, n, b) : \E c \in 1..C, r \in 1..n, i \in 1..b :
           L[k] = Job(cells[c], r, blocks[r][i], i) /\ k = Number(n, b, c, r, i)
    /\ \A c \in 1..C, r \in 1..n, i \in 1..b :
           /\ Number(n, b, c, r, i) \in 1..Size(C, n, b)
           /\ L[Number(n, b, c, r, i)] = Job(cells[c], r, blocks[r][i], i)

\* The loops that make a plan (run_full_gc_probe.py, jobs_for()) number its jobs: each
\* cell, repeat and place has one number, and each number has one of each.
LEMMA LaidJobs ==
    ASSUME NEW cells, NEW blocks, NEW C \in Nat, NEW n \in Nat \ {0}, NEW b \in Nat \ {0},
           Len(cells) = C, Len(blocks) = n, Len(blocks[1]) = b
    PROVE  Numbered(Laid(cells, blocks), cells, blocks, C, n, b)
<1> DEFINE L == Laid(cells, blocks)
           N == C * n * b
           P(k) == 1 + ((k - 1) % b)
           B(k) == (k - 1) \div b
           R(k) == 1 + (B(k) % n)
           c0(k) == 1 + (B(k) \div n)
<1>1. N \in Nat /\ C * n \in Nat /\ N = (C * n) * b
  OBVIOUS
<1>2. L = [k \in 1..N |-> Job(cells[c0(k)], R(k), blocks[R(k)][P(k)], P(k))]
  BY DEF Laid
<1>3. L \in Seq(Range(L)) /\ Len(L) = N /\ DOMAIN L = 1..N
  <2>1. DOMAIN L = 1..N
    BY <1>2
  <2>2. \A k \in 1..N : L[k] \in Range(L)
    BY <2>1 DEF Range
  <2>3. L \in [1..N -> Range(L)]
    BY <1>2, <2>1, <2>2
  <2>4. QED
    BY <1>1, <2>1, <2>3
<1>4. ASSUME NEW k \in 1..N
      PROVE  \E c \in 1..C, r \in 1..n, i \in 1..b :
                  L[k] = Job(cells[c], r, blocks[r][i], i) /\ k = b * (n * (c - 1) + (r - 1)) + i
  <2>1. k - 1 \in 0..((C * n) * b - 1)
    BY <1>1
  <2>2. B(k) \in 0..(C * n - 1) /\ k - 1 = b * B(k) + ((k - 1) % b) /\ (k - 1) % b \in 0..(b - 1)
    <3> DEFINE m == C * n
               x == k - 1
    <3>1. m \in Nat /\ x \in 0..(m * b - 1) /\ x \in Nat
      BY <1>1, <2>1
    <3> HIDE DEF m, x
    <3>2. x \div b \in 0..(m - 1)
      BY <3>1, QuotientBelow
    <3>3. x = b * (x \div b) + (x % b) /\ x % b \in 0..(b - 1)
      BY <3>1, Divided
    <3>4. QED
      BY <3>2, <3>3 DEF x, m
  <2>3. B(k) \div n \in 0..(C - 1) /\ B(k) = n * (B(k) \div n) + (B(k) % n) /\ B(k) % n \in 0..(n - 1)
    <3> DEFINE x == B(k)
    <3>1. x \in 0..(C * n - 1) /\ x \in Nat
      BY <1>1, <2>2
    <3> HIDE DEF x
    <3>2. x \div n \in 0..(C - 1)
      BY <3>1, QuotientBelow
    <3>3. x = n * (x \div n) + (x % n) /\ x % n \in 0..(n - 1)
      BY <3>1, Divided
    <3>4. QED
      BY <3>2, <3>3 DEF x
  <2>4. c0(k) \in 1..C /\ R(k) \in 1..n /\ P(k) \in 1..b
    BY <2>2, <2>3
  <2>5. c0(k) - 1 = B(k) \div n /\ R(k) - 1 = B(k) % n
    BY <2>2, <2>3
  <2>6. n * (c0(k) - 1) + (R(k) - 1) = B(k)
    BY <2>3, <2>5
  <2>7. b * (n * (c0(k) - 1) + (R(k) - 1)) + P(k) = b * B(k) + P(k)
    BY <2>6
  <2>8. b * B(k) + P(k) = k
    BY <2>2
  <2>9. L[k] = Job(cells[c0(k)], R(k), blocks[R(k)][P(k)], P(k))
    BY <1>2
  <2> HIDE DEF c0, R, P, B, L
  <2>10. QED
    BY <2>4, <2>7, <2>8, <2>9
<1>5. ASSUME NEW c \in 1..C, NEW r \in 1..n, NEW i \in 1..b
      PROVE  /\ b * (n * (c - 1) + (r - 1)) + i \in 1..N
             /\ L[b * (n * (c - 1) + (r - 1)) + i] = Job(cells[c], r, blocks[r][i], i)
  <2> DEFINE q == n * (c - 1) + (r - 1)
             k == b * q + i
  <2>1. c - 1 \in 0..(C - 1) /\ r - 1 \in 0..(n - 1) /\ i - 1 \in 0..(b - 1)
    OBVIOUS
  <2>2. q \in 0..(C * n - 1) /\ q \div n = c - 1 /\ q % n = r - 1
    <3> DEFINE x == c - 1
               y == r - 1
    <3>1. x \in 0..(C - 1) /\ y \in 0..(n - 1) /\ x \in Nat
      BY <2>1
    <3> HIDE DEF x, y
    <3>2. n * x + y \in 0..(C * n - 1)
      BY <3>1, Rows
    <3>3. (n * x + y) \div n = x /\ (n * x + y) % n = y
      BY <3>1, Quotient
    <3>4. QED
      BY <3>2, <3>3 DEF x, y
  <2>3. q \in Nat /\ k - 1 = b * q + (i - 1)
    <3> HIDE DEF q
    <3>1. q \in Nat
      BY <1>1, <2>2
    <3>2. QED
      BY <3>1
  <2>4. k - 1 \in 0..((C * n) * b - 1) /\ (k - 1) \div b = q /\ (k - 1) % b = i - 1
    <3> DEFINE z == i - 1
               M == C * n
               w == k - 1
    <3>1. b \in Nat \ {0} /\ M \in Nat /\ q \in 0..(M - 1) /\ z \in 0..(b - 1)
      <4> HIDE DEF q, k
      <4>1. QED
        BY <1>1, <2>1, <2>2
    <3>2. w = b * q + z
      BY <2>3
    <3> HIDE DEF q, k, z, M, w
    <3>3. InRow(w, b, M, q, z)
      BY <3>1, <3>2 DEF InRow
    <3>4. w \in 0..(M * b - 1) /\ w \div b = q /\ w % b = z
      BY <3>3, PlaceInRow
    <3>5. QED
      BY <3>4 DEF z, M, w
  <2>5. k \in 1..N
    <3>1. k \in Int
      BY <2>3
    <3> HIDE DEF k
    <3>2. QED
      BY <1>1, <2>4, <3>1
  <2>6. P(k) = i /\ B(k) = q
    <3> HIDE DEF k, q
    <3>1. QED
      BY <2>4
  <2>7. R(k) = r /\ c0(k) = c
    <3> HIDE DEF k, q
    <3>1. QED
      <4>1. R(k) = 1 + (q % n) /\ c0(k) = 1 + (q \div n)
        BY <2>6
      <4>2. R(k) = 1 + (r - 1) /\ c0(k) = 1 + (c - 1)
        BY <2>2, <4>1
      <4> HIDE DEF R, c0, B
      <4>3. QED
        BY <4>2
  <2>8. L[k] = Job(cells[c0(k)], R(k), blocks[R(k)][P(k)], P(k))
    BY <1>2, <2>5
  <2>9. L[k] = Job(cells[c], r, blocks[r][i], i)
    <3> HIDE DEF L, c0, R, P, k
    <3>1. QED
      BY <2>6, <2>7, <2>8
  <2>10. QED
    BY <2>5, <2>9
<1> HIDE DEF L
<1>6. QED
  BY <1>1, <1>3, <1>4, <1>5 DEF L, Size, Number, Numbered

\* Repeats with one remainder are as many as there are blocks of b.
LEMMA Residues ==
    ASSUME NEW n \in Nat, NEW b \in Nat \ {0}, n % b = 0, NEW d \in 0..(b - 1)
    PROVE  LET S == {r \in 1..n : r % b = d} IN IsFiniteSet(S) /\ Cardinality(S) = n \div b
<1> DEFINE S == {r \in 1..n : r % b = d}
           q == n \div b
           e == IF d = 0 THEN b ELSE d
           f == [m \in 1..q |-> b * (m - 1) + e]
<1>1. q \in Nat /\ n = b * q
  BY Divided
<1>2. e \in 1..b /\ e % b = d
  <2>1. CASE d = 0
    <3>1. b = b * 1 + 0 /\ 0 \in 0..(b - 1)
      OBVIOUS
    <3>2. (b * 1 + 0) % b = 0
      BY <3>1, Quotient
    <3>3. QED
      BY <2>1, <3>1, <3>2
  <2>2. CASE d # 0
    <3>1. (b * 0 + d) % b = d
      BY Quotient
    <3>2. QED
      BY <2>2, <3>1
  <2>3. QED
    BY <2>1, <2>2
<1> HIDE DEF q, e
<1>3. ASSUME NEW m \in 1..q PROVE b * (m - 1) + e \in S
  <2>1. b * (m - 1) + e \in 1..n
    <3>1. m - 1 \in 0..(q - 1) /\ e - 1 \in 0..(b - 1)
      BY <1>1, <1>2
    <3>2. b * (m - 1) + (e - 1) \in 0..(q * b - 1)
      BY <1>1, <3>1, Rows
    <3>3. b * (m - 1) \in Int /\ e \in Int /\ q * b = n
      BY <1>1, <1>2
    <3>4. QED
      BY <3>2, <3>3
  <2>2. (b * (m - 1) + e) % b = d
    <3>1. CASE d = 0
      <4>1. e = b /\ b * (m - 1) + e = b * m + 0 /\ m \in Nat
        BY <3>1 DEF e
      <4>2. (b * m + 0) % b = 0
        BY <4>1, Quotient
      <4>3. QED
        BY <3>1, <4>1, <4>2
    <3>2. CASE d # 0
      <4>1. e = d /\ m - 1 \in Nat
        BY <3>2 DEF e
      <4>2. (b * (m - 1) + d) % b = d
        BY <4>1, Quotient
      <4>3. QED
        BY <4>1, <4>2
    <3>3. QED
      BY <3>1, <3>2
  <2>3. QED
    BY <2>1, <2>2
<1>4. ASSUME NEW r \in S PROVE \E m \in 1..q : r = b * (m - 1) + e
  <2>1. r \in Nat /\ r \in 1..n /\ r = b * (r \div b) + d /\ r \div b \in Nat
    BY Divided
  <2> DEFINE t == r \div b
  <2>2. t \in Nat /\ r = b * t + d
    BY <2>1
  <2> HIDE DEF t
  <2>3. CASE d = 0
    <3>1. r = b * ((t + 1 - 1) - 1) + b /\ e = b /\ b * t \in 1..(b * q)
      BY <1>1, <2>1, <2>2, <2>3 DEF e
    <3>2. t \in 1..q
      BY <1>1, <2>2, <3>1
    <3>3. QED
      BY <3>1, <3>2
  <2>4. CASE d # 0
    <3>1. r = b * ((t + 1) - 1) + e /\ b * t + d <= b * q /\ d >= 1
      BY <1>1, <2>1, <2>2, <2>4 DEF e
    <3>2. t < q
      BY <1>1, <2>2, <3>1
    <3>3. t + 1 \in 1..q
      BY <1>1, <2>2, <3>2
    <3>4. QED
      BY <3>1, <3>3
  <2>5. QED
    BY <2>3, <2>4
<1>5. f \in Bijection(1..q, S)
  <2>1. f \in [1..q -> S]
    BY <1>3
  <2>2. ASSUME NEW k \in 1..q, NEW m \in 1..q, f[k] = f[m] PROVE k = m
    <3>1. b * (k - 1) + e = b * (m - 1) + e
      BY <2>2
    <3>2. k - 1 \in Int /\ m - 1 \in Int /\ e \in Int /\ k \in Int /\ m \in Int
      BY <1>1, <1>2
    <3>3. b * (k - 1) = b * (m - 1)
      BY <3>1, <3>2
    <3>4. QED
      BY <3>2, <3>3
  <2>3. \A r \in S : \E m \in 1..q : f[m] = r
    BY <1>4
  <2> HIDE DEF f, S
  <2>4. QED
    BY <2>1, <2>2, <2>3 DEF Bijection, Injection, Surjection, IsInjective
<1>6. IsFiniteSet(1..q) /\ Cardinality(1..q) = q
  BY <1>1, FS_Interval
<1>7. ExistsBijection(1..q, S)
  BY <1>5 DEF ExistsBijection
<1> HIDE DEF S
<1>8. IsFiniteSet(S) /\ Cardinality(S) = q
  BY <1>6, <1>7, FS_Bijection
<1>9. QED
  BY <1>8 DEF S, q

\* The cells and blocks of a plan: no cell twice, and in each block every arm once.
Layout(cells, blocks, C, n, b, arms) ==
    /\ C \in Nat \ {0} /\ n \in Nat \ {0} /\ b \in Nat \ {0}
    /\ Len(cells) = C /\ Len(blocks) = n /\ Len(blocks[1]) = b
    /\ DOMAIN cells = 1..C
    /\ \A c, d \in 1..C : cells[c] = cells[d] => c = d
    /\ \A r \in 1..n : \A i \in 1..b : blocks[r][i] \in arms
    /\ \A r \in 1..n : \A a \in arms : \E i \in 1..b : blocks[r][i] = a

\* The jobs of a plan, in whatever order and but for their places.
Jobbed(J, cells, blocks, C, n, b) ==
    /\ \A j \in J : \E c \in 1..C, r \in 1..n, i \in 1..b :
           j.cell = cells[c] /\ j.repeat = r /\ j.arm = blocks[r][i]
    /\ \A c \in 1..C, r \in 1..n, i \in 1..b : \E j \in J :
           j.cell = cells[c] /\ j.repeat = r /\ j.arm = blocks[r][i]

\* Every cell has every arm in every repeat.
CrossesAll(J, cells, n, arms) ==
    /\ {j.arm : j \in J} = arms
    /\ {j.cell : j \in J} = Range(cells)
    /\ Cardinality({j.cell : j \in J}) = Len(cells)
    /\ {<<j.cell, j.repeat, j.arm>> : j \in J} = {j.cell : j \in J} \X (1..n) \X arms
    /\ {<<j.cell, j.repeat>> : j \in J} = Range(cells) \X (1..n)

\* A plan with one job for each cell, repeat and arm crosses them all.
LEMMA Crossed ==
    ASSUME NEW J, NEW cells, NEW blocks, NEW C, NEW n, NEW b, NEW arms,
           Layout(cells, blocks, C, n, b, arms), Jobbed(J, cells, blocks, C, n, b)
    PROVE  CrossesAll(J, cells, n, arms)
<1>1. /\ C \in Nat \ {0} /\ n \in Nat \ {0} /\ b \in Nat \ {0}
      /\ 1 \in 1..C /\ 1 \in 1..n /\ 1 \in 1..b
      /\ DOMAIN cells = 1..C
      /\ \A r \in 1..n : \A i \in 1..b : blocks[r][i] \in arms
      /\ \A r \in 1..n : \A a \in arms : \E i \in 1..b : blocks[r][i] = a
  <2>1. /\ C \in Nat \ {0} /\ n \in Nat \ {0} /\ b \in Nat \ {0}
        /\ DOMAIN cells = 1..C
        /\ \A r \in 1..n : \A i \in 1..b : blocks[r][i] \in arms
        /\ \A r \in 1..n : \A a \in arms : \E i \in 1..b : blocks[r][i] = a
    BY Zenon DEF Layout
  <2>2. \A m \in Nat \ {0} : 1 \in 1..m
    OBVIOUS
  <2>3. QED
    BY <2>1, <2>2
<1>2. ASSUME NEW j \in J
      PROVE  j.cell \in Range(cells) /\ j.repeat \in 1..n /\ j.arm \in arms
  <2>1. PICK c \in 1..C, r \in 1..n, i \in 1..b :
           j.cell = cells[c] /\ j.repeat = r /\ j.arm = blocks[r][i]
    BY DEF Jobbed
  <2>2. QED
    BY <1>1, <2>1 DEF Range
<1>3. ASSUME NEW x \in Range(cells), NEW r \in 1..n, NEW a \in arms
      PROVE  \E j \in J : j.cell = x /\ j.repeat = r /\ j.arm = a
  <2>1. PICK c \in 1..C : cells[c] = x
    BY <1>1 DEF Range
  <2>2. PICK i \in 1..b : blocks[r][i] = a
    BY <1>1
  <2>3. \E j \in J : j.cell = cells[c] /\ j.repeat = r /\ j.arm = blocks[r][i]
    BY DEF Jobbed
  <2>4. QED
    BY <2>1, <2>2, <2>3
<1>4. PICK a0 \in arms : TRUE
  BY <1>1
<1>5. PICK x0 \in Range(cells) : TRUE
  <2>1. cells[1] \in Range(cells)
    BY <1>1 DEF Range
  <2>2. QED
    BY <2>1
<1>6. {j.arm : j \in J} = arms
  BY <1>1, <1>2, <1>3, <1>5
<1>7. {j.cell : j \in J} = Range(cells)
  BY <1>1, <1>2, <1>3, <1>4
<1>8. Cardinality(Range(cells)) = C
  <2> DEFINE f == [c \in 1..C |-> cells[c]]
  <2>1. f \in [1..C -> Range(cells)]
    BY <1>1 DEF Range
  <2>2. \A c, d \in 1..C : f[c] = f[d] => c = d
    BY DEF Layout
  <2>3. \A x \in Range(cells) : \E c \in 1..C : f[c] = x
    BY <1>1 DEF Range
  <2> HIDE DEF f
  <2>4. f \in Bijection(1..C, Range(cells))
    BY <2>1, <2>2, <2>3 DEF Bijection, Injection, Surjection, IsInjective
  <2>5. IsFiniteSet(1..C) /\ Cardinality(1..C) = C
    BY <1>1, FS_Interval
  <2>6. ExistsBijection(1..C, Range(cells))
    BY <2>4 DEF ExistsBijection
  <2>7. QED
    BY <2>5, <2>6, FS_Bijection
<1>9. {<<j.cell, j.repeat, j.arm>> : j \in J} = Range(cells) \X (1..n) \X arms
  BY <1>2, <1>3
<1>10. {<<j.cell, j.repeat>> : j \in J} = Range(cells) \X (1..n)
  BY <1>2, <1>3, <1>4
<1>11. Len(cells) = C
  BY DEF Layout
<1>12. QED
  BY <1>6, <1>7, <1>8, <1>9, <1>10, <1>11 DEF CrossesAll

\* The same without the numbers.
Holds(L, cells, blocks, C, n, b) ==
    /\ DOMAIN L = 1..Size(C, n, b)
    /\ \A k \in 1..Size(C, n, b) : \E c \in 1..C, r \in 1..n, i \in 1..b :
           L[k] = Job(cells[c], r, blocks[r][i], i)
    /\ \A c \in 1..C, r \in 1..n, i \in 1..b : \E k \in 1..Size(C, n, b) :
           L[k] = Job(cells[c], r, blocks[r][i], i)

\* What the loops lay out is what the layout asks for.
LEMMA LaidAt ==
    ASSUME NEW cells, NEW blocks, NEW C, NEW n, NEW b, NEW arms,
           Layout(cells, blocks, C, n, b, arms)
    PROVE  Holds(Laid(cells, blocks), cells, blocks, C, n, b)
<1> DEFINE L == Laid(cells, blocks)
<1>1. Numbered(L, cells, blocks, C, n, b)
  BY LaidJobs DEF Layout
<1> HIDE DEF L
<1>2. DOMAIN L = 1..Size(C, n, b)
  BY <1>1 DEF Numbered
<1>3. ASSUME NEW k \in 1..Size(C, n, b)
      PROVE  \E c \in 1..C, r \in 1..n, i \in 1..b : L[k] = Job(cells[c], r, blocks[r][i], i)
  BY <1>1 DEF Numbered
<1>4. ASSUME NEW c \in 1..C, NEW r \in 1..n, NEW i \in 1..b
      PROVE  \E k \in 1..Size(C, n, b) : L[k] = Job(cells[c], r, blocks[r][i], i)
  BY <1>1 DEF Numbered
<1>5. QED
  BY <1>2, <1>3, <1>4 DEF L, Holds

\* A plan has the jobs it is laid out for.
LEMMA LaidOut ==
    ASSUME NEW cells, NEW blocks, NEW C, NEW n, NEW b, NEW arms,
           Layout(cells, blocks, C, n, b, arms)
    PROVE  Jobbed(Range(Laid(cells, blocks)), cells, blocks, C, n, b)
<1> DEFINE L == Laid(cells, blocks)
<1>1. /\ DOMAIN L = 1..Size(C, n, b)
      /\ \A k \in 1..Size(C, n, b) : \E c \in 1..C, r \in 1..n, i \in 1..b :
             L[k] = Job(cells[c], r, blocks[r][i], i)
      /\ \A c \in 1..C, r \in 1..n, i \in 1..b : \E k \in 1..Size(C, n, b) :
             L[k] = Job(cells[c], r, blocks[r][i], i)
  <2>1. Holds(L, cells, blocks, C, n, b)
    BY LaidAt
  <2> HIDE DEF L
  <2>2. QED
    BY <2>1 DEF Holds
<1> HIDE DEF L
<1>2. \A x, r, a, i : LET j == Job(x, r, a, i) IN j.cell = x /\ j.repeat = r /\ j.arm = a
  BY DEF Job
<1>3. ASSUME NEW j \in Range(L)
      PROVE  \E c \in 1..C, r \in 1..n, i \in 1..b : j.cell = cells[c] /\ j.repeat = r /\ j.arm = blocks[r][i]
  <2>1. PICK k \in 1..Size(C, n, b) : L[k] = j
    BY <1>1 DEF Range
  <2>2. PICK c \in 1..C, r \in 1..n, i \in 1..b : L[k] = Job(cells[c], r, blocks[r][i], i)
    BY <1>1
  <2>3. QED
    BY <1>2, <2>1, <2>2
<1>4. ASSUME NEW c \in 1..C, NEW r \in 1..n, NEW i \in 1..b
      PROVE  \E j \in Range(L) : j.cell = cells[c] /\ j.repeat = r /\ j.arm = blocks[r][i]
  <2>1. PICK k \in 1..Size(C, n, b) : L[k] = Job(cells[c], r, blocks[r][i], i)
    BY <1>1
  <2>2. L[k] \in Range(L)
    BY <1>1 DEF Range
  <2>3. QED
    BY <1>2, <2>1, <2>2
<1>5. QED
  BY <1>3, <1>4 DEF Jobbed, L

\* m jobs of cell x have arm a at place p.
Often(J, x, a, p, m) == Cardinality({j \in J : j.cell = x /\ j.arm = a /\ j.place = p}) = m

\* Where an arm has one place in every b-th block, it has it as often as any other.
LEMMA Balances ==
    ASSUME NEW cells, NEW blocks, NEW C, NEW n, NEW b, NEW arms,
           Layout(cells, blocks, C, n, b, arms), n % b = 0,
           NEW x \in Range(cells), NEW a, NEW p \in 1..b, NEW d \in 0..(b - 1),
           \A r \in 1..n : blocks[r][p] = a <=> r % b = d
    PROVE  Often(Range(Laid(cells, blocks)), x, a, p, n \div b)
<1> DEFINE L == Laid(cells, blocks)
           S == {r \in 1..n : r % b = d}
           T == {j \in Range(L) : j.cell = x /\ j.arm = a /\ j.place = p}
           f == [r \in S |-> Job(x, r, a, p)]
<1>1. /\ C \in Nat /\ n \in Nat \ {0} /\ b \in Nat \ {0} /\ Len(cells) = C /\ Len(blocks) = n /\ Len(blocks[1]) = b
      /\ DOMAIN cells = 1..C
  BY DEF Layout
<1>2. /\ DOMAIN L = 1..Size(C, n, b)
      /\ \A k \in 1..Size(C, n, b) : \E c \in 1..C, r \in 1..n, i \in 1..b :
             L[k] = Job(cells[c], r, blocks[r][i], i)
      /\ \A c \in 1..C, r \in 1..n, i \in 1..b : \E k \in 1..Size(C, n, b) :
             L[k] = Job(cells[c], r, blocks[r][i], i)
  <2>1. Holds(L, cells, blocks, C, n, b)
    BY LaidAt
  <2> HIDE DEF L
  <2>2. QED
    BY <2>1 DEF Holds
<1> HIDE DEF L
<1>3. \A y, r, e, i : LET j == Job(y, r, e, i) IN j.cell = y /\ j.repeat = r /\ j.arm = e /\ j.place = i
  BY DEF Job
<1>4. ASSUME NEW r \in S PROVE Job(x, r, a, p) \in T
  <2>1. PICK c \in 1..C : cells[c] = x
    BY <1>1 DEF Range
  <2>2. blocks[r][p] = a
    OBVIOUS
  <2>3. PICK k \in 1..Size(C, n, b) : L[k] = Job(x, r, a, p)
    <3>1. r \in 1..n
      OBVIOUS
    <3>2. \E k \in 1..Size(C, n, b) : L[k] = Job(cells[c], r, blocks[r][p], p)
      BY <1>2, <3>1
    <3>3. QED
      BY <2>1, <2>2, <3>2
  <2>4. L[k] \in Range(L)
    BY <1>2 DEF Range
  <2>5. QED
    BY <1>3, <2>3, <2>4
<1>5. ASSUME NEW j \in T PROVE \E r \in S : j = Job(x, r, a, p)
  <2>1. PICK k \in 1..Size(C, n, b) : L[k] = j
    BY <1>2 DEF Range
  <2>2. PICK c \in 1..C, r \in 1..n, i \in 1..b : j = Job(cells[c], r, blocks[r][i], i)
    <3>1. \E c \in 1..C, r \in 1..n, i \in 1..b : L[k] = Job(cells[c], r, blocks[r][i], i)
      BY <1>2
    <3>2. QED
      BY <2>1, <3>1
  <2>3. cells[c] = x /\ blocks[r][i] = a /\ i = p
    BY <1>3, <2>2
  <2>4. r \in S
    BY <2>3
  <2>5. QED
    BY <2>2, <2>3, <2>4
<1>6. f \in Bijection(S, T)
  <2>1. f \in [S -> T]
    BY <1>4
  <2>2. ASSUME NEW q \in S, NEW r \in S, f[q] = f[r] PROVE q = r
    <3>1. Job(x, q, a, p) = Job(x, r, a, p)
      BY <2>2
    <3>2. QED
      BY <1>3, <3>1
  <2>3. \A j \in T : \E r \in S : f[r] = j
    BY <1>5
  <2> HIDE DEF f, S, T
  <2>4. QED
    BY <2>1, <2>2, <2>3 DEF Bijection, Injection, Surjection, IsInjective
<1>7. IsFiniteSet(S) /\ Cardinality(S) = n \div b
  BY <1>1, Residues
<1> HIDE DEF f, S, T
<1>8. ExistsBijection(S, T)
  BY <1>6 DEF ExistsBijection
<1>9. Cardinality(T) = n \div b
  BY <1>7, <1>8, FS_Bijection
<1>10. QED
  BY <1>9 DEF T, L, Often

----------------------------------------------------------------------------
(* The cells of the plans, and the blocks of their arms.                   *)

\* A sequence that is not empty and in which nothing comes twice.
Unrepeated(s) ==
    /\ s \in Seq(Range(s)) /\ Len(s) \in Nat \ {0} /\ DOMAIN s = 1..Len(s)
    /\ \A c, d \in 1..Len(s) : s[c] = s[d] => c = d

\* The tuples the scripts list their cells and arms with repeat nothing.
LEMMA PairUnrepeated ==
    ASSUME NEW x, NEW y, x # y
    PROVE  /\ Unrepeated(<<x, y>>) /\ Len(<<x, y>>) = 2
           /\ Range(<<x, y>>) = {x, y} /\ <<x, y>>[1] = x /\ <<x, y>>[2] = y
<1> DEFINE s == <<x, y>>
<1>1. Len(s) = 2 /\ DOMAIN s = 1..2 /\ s[1] = x /\ s[2] = y
  OBVIOUS
<1>2. \A i \in 1..2 : i = 1 \/ i = 2
  OBVIOUS
<1> HIDE DEF s
<1>3. Range(s) = {x, y}
  BY <1>1, <1>2 DEF Range
<1>4. s \in Seq({x, y})
  BY DEF s
<1>5. Unrepeated(s)
  BY <1>1, <1>2, <1>3, <1>4 DEF Unrepeated
<1>6. QED
  BY <1>1, <1>3, <1>5 DEF s

\* A sequence of one repeats nothing.
LEMMA SingleUnrepeated ==
    ASSUME NEW x
    PROVE  Unrepeated(<<x>>) /\ Len(<<x>>) = 1 /\ Range(<<x>>) = {x} /\ <<x>>[1] = x
<1> DEFINE s == <<x>>
<1>1. Len(s) = 1 /\ DOMAIN s = 1..1 /\ s[1] = x
  OBVIOUS
<1>2. \A i \in 1..1 : i = 1
  OBVIOUS
<1> HIDE DEF s
<1>3. Range(s) = {x}
  BY <1>1, <1>2 DEF Range
<1>4. s \in Seq({x})
  BY DEF s
<1>5. Unrepeated(s)
  BY <1>1, <1>2, <1>3, <1>4 DEF Unrepeated
<1>6. QED
  BY <1>1, <1>3, <1>5 DEF s

\* Neither does a sequence backwards.
LEMMA ReverseUnrepeated ==
    ASSUME NEW s, Unrepeated(s)
    PROVE  Unrepeated(Reverse(s)) /\ Len(Reverse(s)) = Len(s) /\ Range(Reverse(s)) = Range(s)
<1> DEFINE N == Len(s)
           t == Reverse(s)
<1>1. N \in Nat \ {0} /\ DOMAIN s = 1..N /\ \A c, d \in 1..N : s[c] = s[d] => c = d
  BY DEF Unrepeated
<1>2. t = [i \in 1..N |-> s[N - i + 1]]
  BY DEF Reverse
<1> HIDE DEF N, t
<1>3. DOMAIN t = 1..N /\ Len(t) = N /\ t \in Seq(Range(s))
  <2>1. DOMAIN t = 1..N
    BY <1>2
  <2>2. t \in [1..N -> Range(s)]
    <3>1. \A i \in 1..N : N - i + 1 \in 1..N
      BY <1>1
    <3>2. QED
      BY <1>1, <1>2, <3>1 DEF Range
  <2>3. t \in Seq(Range(s))
    BY <1>1, <2>2
  <2>4. QED
    BY <1>1, <2>1, <2>3
<1>4. \A i \in 1..N : N - i + 1 \in 1..N /\ t[i] = s[N - i + 1] /\ t[N - i + 1] = s[i]
  BY <1>1, <1>2
<1>5. \A c, d \in 1..N : t[c] = t[d] => c = d
  <2>1. SUFFICES ASSUME NEW c \in 1..N, NEW d \in 1..N, t[c] = t[d] PROVE c = d
    OBVIOUS
  <2>2. N - c + 1 = N - d + 1
    BY <1>1, <1>4, <2>1
  <2>3. QED
    BY <1>1, <2>2
<1>6. Range(t) = Range(s)
  BY <1>1, <1>3, <1>4 DEF Range
<1>7. QED
  BY <1>1, <1>3, <1>5, <1>6 DEF Unrepeated, N, t

\* Nor the product of two (itertools.product), which has a pair for every two of theirs.
LEMMA ProductUnrepeated ==
    ASSUME NEW p, NEW q, Unrepeated(p), Unrepeated(q)
    PROVE  /\ Unrepeated(Product(p, q)) /\ Len(Product(p, q)) = Len(p) * Len(q)
           /\ Range(Product(p, q)) \subseteq Range(p) \X Range(q)
<1> DEFINE P == Len(p)
           Q == Len(q)
           s == Product(p, q)
           u(k) == 1 + ((k - 1) \div Q)
           v(k) == 1 + ((k - 1) % Q)
<1>1. /\ P \in Nat \ {0} /\ Q \in Nat \ {0} /\ DOMAIN p = 1..P /\ DOMAIN q = 1..Q
      /\ \A c, d \in 1..P : p[c] = p[d] => c = d
      /\ \A c, d \in 1..Q : q[c] = q[d] => c = d
  BY DEF Unrepeated
<1>2. s = [k \in 1..(P * Q) |-> <<p[u(k)], q[v(k)]>>]
  BY DEF Product
<1>3. P * Q \in Nat \ {0}
  BY <1>1
<1> HIDE DEF P, Q, s
<1>4. ASSUME NEW k \in 1..(P * Q)
      PROVE  u(k) \in 1..P /\ v(k) \in 1..Q /\ k = Q * (u(k) - 1) + v(k)
  <2> DEFINE x == k - 1
  <2>1. x \in 0..(P * Q - 1) /\ x \in Nat /\ k = x + 1
    BY <1>3
  <2> HIDE DEF x
  <2>2. x \div Q \in 0..(P - 1)
    BY <1>1, <2>1, QuotientBelow
  <2>3. x = Q * (x \div Q) + (x % Q) /\ x % Q \in 0..(Q - 1)
    BY <1>1, <2>1, Divided
  <2>4. u(k) = 1 + (x \div Q) /\ v(k) = 1 + (x % Q)
    BY DEF x
  <2>5. u(k) - 1 = x \div Q /\ v(k) = (x % Q) + 1
    <3> DEFINE a == x \div Q
               m == x % Q
    <3>1. a \in Int /\ m \in Int /\ u(k) = 1 + a /\ v(k) = 1 + m
      BY <1>1, <2>2, <2>3, <2>4
    <3> HIDE DEF a, m, u, v
    <3>2. u(k) - 1 = a /\ v(k) = m + 1
      BY <3>1
    <3>3. QED
      BY <3>2 DEF a, m
  <2> HIDE DEF u, v
  <2>6. QED
    <3> DEFINE a == x \div Q
               m == x % Q
    <3>1. a \in 0..(P - 1) /\ m \in 0..(Q - 1) /\ x = Q * a + m /\ k = x + 1
      BY <2>1, <2>2, <2>3
    <3>2. u(k) = 1 + a /\ v(k) = 1 + m /\ u(k) - 1 = a
      BY <2>4, <2>5
    <3> HIDE DEF a, m
    <3>3. u(k) \in 1..P /\ v(k) \in 1..Q
      BY <1>1, <3>1, <3>2
    <3>4. Q * (u(k) - 1) = Q * a /\ Q * a \in Int
      BY <1>1, <3>1, <3>2
    <3> DEFINE t == Q * a
    <3>5. t \in Int /\ k = (t + m) + 1 /\ Q * (u(k) - 1) + v(k) = t + (1 + m)
      BY <3>1, <3>2, <3>4
    <3> HIDE DEF t
    <3>6. k = Q * (u(k) - 1) + v(k)
      BY <1>1, <3>1, <3>5
    <3>7. QED
      BY <3>3, <3>6
<1> HIDE DEF u, v
<1>5. ASSUME NEW k \in 1..(P * Q)
      PROVE  s[k] = <<p[u(k)], q[v(k)]>> /\ s[k] \in Range(p) \X Range(q)
  <2>1. p[u(k)] \in Range(p) /\ q[v(k)] \in Range(q)
    BY <1>1, <1>4 DEF Range
  <2>2. QED
    BY <1>2, <2>1
<1>6. DOMAIN s = 1..(P * Q) /\ Len(s) = P * Q /\ s \in Seq(Range(s))
  <2>1. DOMAIN s = 1..(P * Q)
    BY <1>2
  <2>2. s \in [1..(P * Q) -> Range(s)]
    <3>1. \A k \in 1..(P * Q) : s[k] \in Range(s)
      BY <2>1 DEF Range
    <3>2. QED
      BY <1>2, <2>1, <3>1
  <2>3. s \in Seq(Range(s))
    BY <1>3, <2>2
  <2>4. QED
    BY <1>3, <2>1, <2>3
<1>7. \A c, d \in 1..(P * Q) : s[c] = s[d] => c = d
  <2>1. SUFFICES ASSUME NEW c \in 1..(P * Q), NEW d \in 1..(P * Q), s[c] = s[d] PROVE c = d
    OBVIOUS
  <2>2. p[u(c)] = p[u(d)] /\ q[v(c)] = q[v(d)]
    BY <1>5, <2>1
  <2>3. u(c) = u(d) /\ v(c) = v(d)
    BY <1>1, <1>4, <2>2
  <2>4. QED
    BY <1>4, <2>3
<1>8. Range(s) \subseteq Range(p) \X Range(q)
  BY <1>5, <1>6 DEF Range
<1>9. QED
  BY <1>3, <1>6, <1>7, <1>8 DEF Unrepeated, P, Q, s

\* Nor a sequence that something new is put before.
LEMMA LedUnrepeated ==
    ASSUME NEW x, NEW q, Unrepeated(q), x \notin Range(q)
    PROVE  Unrepeated(<<x>> \o q) /\ Len(<<x>> \o q) = Len(q) + 1
<1> DEFINE Q == Len(q)
           s == <<x>> \o q
           E == Range(q) \cup {x}
<1>1. Q \in Nat \ {0} /\ DOMAIN q = 1..Q /\ (\A c, d \in 1..Q : q[c] = q[d] => c = d) /\ q \in Seq(Range(q))
  BY DEF Unrepeated
<1>2. q \in Seq(E) /\ <<x>> \in Seq(E) /\ \A i \in 1..Q : q[i] # x
  <2>1. \A i \in 1..Q : q[i] \in Range(q)
    BY <1>1 DEF Range
  <2>2. QED
    BY <1>1, <2>1
<1>3. /\ s \in Seq(E) /\ Len(s) = Q + 1 /\ DOMAIN s = 1..(Q + 1)
      /\ s[1] = x /\ \A i \in 2..(Q + 1) : s[i] = q[i - 1] /\ i - 1 \in 1..Q
  BY <1>1, <1>2
<1>4. \A i \in 1..(Q + 1) : i = 1 \/ i \in 2..(Q + 1)
  BY <1>1
<1> HIDE DEF s, Q
<1>5. \A c, d \in 1..(Q + 1) : s[c] = s[d] => c = d
  <2>1. SUFFICES ASSUME NEW c \in 1..(Q + 1), NEW d \in 1..(Q + 1), s[c] = s[d] PROVE c = d
    OBVIOUS
  <2>2. CASE c = 1 \/ d = 1
    BY <1>2, <1>3, <1>4, <2>1, <2>2
  <2>3. CASE c \in 2..(Q + 1) /\ d \in 2..(Q + 1)
    <3>1. c - 1 = d - 1
      BY <1>1, <1>3, <2>1, <2>3
    <3>2. QED
      BY <1>1, <2>3, <3>1
  <2>4. QED
    BY <1>4, <2>2, <2>3
<1>6. s \in Seq(Range(s))
  <2>1. \A i \in 1..(Q + 1) : s[i] \in Range(s)
    BY <1>3 DEF Range
  <2>2. QED
    BY <1>1, <1>3, <2>1
<1>7. Len(s) \in Nat \ {0}
  BY <1>1, <1>3
<1>8. QED
  BY <1>3, <1>5, <1>6, <1>7 DEF Unrepeated, s, Q

\* Shuffling (random.Random(seed).shuffle) loses nothing and repeats nothing.
LEMMA ShuffledUnrepeated ==
    ASSUME NEW s, Unrepeated(s), NEW x
    PROVE  Unrepeated(Shuffled(s, x)) /\ Len(Shuffled(s, x)) = Len(s) /\ Range(Shuffled(s, x)) = Range(s)
BY ReverseUnrepeated DEF Shuffled

\* The cells of the plans.
LEMMA Cells ==
    /\ Unrepeated(Validations) /\ Len(Validations) = 2
    /\ Unrepeated(SerializerCells) /\ Len(SerializerCells) = 4
    /\ Unrepeated(EnvironmentCells) /\ Len(EnvironmentCells) = 4
    /\ Unrepeated(InventoryCells) /\ Len(InventoryCells) = 5
    /\ Unrepeated(PluginCells) /\ Len(PluginCells) = 9
<1>1. Unrepeated(Validations) /\ Len(Validations) = 2
  BY PairUnrepeated DEF Validations
<1>2. Unrepeated(Variants) /\ Len(Variants) = 2
  BY PairUnrepeated DEF Variants
<1>3. Unrepeated(<<"timing", "lifetime">>) /\ Len(<<"timing", "lifetime">>) = 2
  BY PairUnrepeated
<1>4. Unrepeated(SerializerCells) /\ Len(SerializerCells) = 4
  <2> DEFINE w == <<"timing", "lifetime">>
  <2> HIDE DEF w
  <2>1. Unrepeated(w) /\ Len(w) = 2
    BY <1>3 DEF w
  <2>2. Unrepeated(Product(w, Validations))
    BY <1>1, <2>1, ProductUnrepeated
  <2>3. Len(Product(w, Validations)) = Len(w) * Len(Validations)
    BY <1>1, <2>1, ProductUnrepeated
  <2>4. SerializerCells = Product(w, Validations)
    BY DEF SerializerCells, w
  <2>5. QED
    BY <1>1, <2>1, <2>2, <2>3, <2>4
<1>5. Unrepeated(EnvironmentCells) /\ Len(EnvironmentCells) = 4
  <2>1. Unrepeated(Product(Variants, Validations))
    BY <1>1, <1>2, ProductUnrepeated
  <2>2. Len(Product(Variants, Validations)) = Len(Variants) * Len(Validations)
    BY <1>1, <1>2, ProductUnrepeated
  <2>3. QED
    BY <1>1, <1>2, <2>1, <2>2 DEF EnvironmentCells
<1>6. Unrepeated(InventoryCells) /\ Len(InventoryCells) = 5
  <2> DEFINE w == <<"after_warmup">>
             q == Product(w, EnvironmentCells)
             x == <<"startup", "none">>
  <2>1. Unrepeated(w) /\ Len(w) = 1 /\ Range(w) = {"after_warmup"}
    BY SingleUnrepeated
  <2> HIDE DEF w
  <2>2. Unrepeated(q) /\ Len(q) = 1 * 4 /\ Range(q) \subseteq {"after_warmup"} \X Range(EnvironmentCells)
    BY <1>5, <2>1, ProductUnrepeated
  <2>3. x \notin Range(q)
    <3>1. x \notin {"after_warmup"} \X Range(EnvironmentCells)
      OBVIOUS
    <3>2. QED
      BY <2>2, <3>1
  <2> HIDE DEF q, x
  <2>4. Unrepeated(<<x>> \o q)
    BY <2>2, <2>3, LedUnrepeated
  <2>5. Len(<<x>> \o q) = Len(q) + 1
    BY <2>2, <2>3, LedUnrepeated
  <2>6. InventoryCells = <<x>> \o q
    BY DEF InventoryCells, x, q, w
  <2>7. QED
    BY <2>2, <2>4, <2>5, <2>6
<1>7. Unrepeated(PluginCells) /\ Len(PluginCells) = 9
  <2> DEFINE w == <<"timing", "after_warmup">>
             q == Product(w, EnvironmentCells)
             x == <<"startup", "none">>
  <2>1. Unrepeated(w) /\ Len(w) = 2 /\ Range(w) = {"timing", "after_warmup"}
    BY PairUnrepeated
  <2> HIDE DEF w
  <2>2. Unrepeated(q) /\ Len(q) = 2 * 4 /\ Range(q) \subseteq {"timing", "after_warmup"} \X Range(EnvironmentCells)
    BY <1>5, <2>1, ProductUnrepeated
  <2>3. x \notin Range(q)
    <3>1. x \notin {"timing", "after_warmup"} \X Range(EnvironmentCells)
      OBVIOUS
    <3>2. QED
      BY <2>2, <3>1
  <2> HIDE DEF q, x
  <2>4. Unrepeated(<<x>> \o q)
    BY <2>2, <2>3, LedUnrepeated
  <2>5. Len(<<x>> \o q) = Len(q) + 1
    BY <2>2, <2>3, LedUnrepeated
  <2>6. PluginCells = <<x>> \o q
    BY DEF PluginCells, x, q, w
  <2>7. QED
    BY <2>2, <2>4, <2>5, <2>6
<1>8. QED
  BY <1>1, <1>4, <1>5, <1>6, <1>7

\* The blocks of two arms that take turns.
LEMMA Turns ==
    ASSUME NEW x, NEW y, x # y, NEW r \in Nat
    PROVE  LET a == Alternating(<<x, y>>, r)
           IN  /\ Len(a) = 2 /\ a \in {<<x, y>>, <<y, x>>}
               /\ a[1] = IF r % 2 = 1 THEN x ELSE y
               /\ a[2] = IF r % 2 = 1 THEN y ELSE x
<1>1. Reverse(<<x, y>>) = <<y, x>>
  <2> DEFINE s == Reverse(<<x, y>>)
  <2>1. s = [i \in 1..2 |-> <<x, y>>[(2 - i) + 1]]
    BY DEF Reverse
  <2>2. s[1] = y /\ s[2] = x /\ DOMAIN s = 1..2
    BY <2>1
  <2>3. <<y, x>> = [i \in 1..2 |-> IF i = 1 THEN y ELSE x]
    OBVIOUS
  <2>4. s = [i \in 1..2 |-> IF i = 1 THEN y ELSE x]
    BY <2>1
  <2>5. QED
    BY <2>3, <2>4
<1>2. QED
  BY <1>1 DEF Alternating

\* Two arms that take turns, an order in the odd repeats and the other in the even ones.
LEMMA TurnsLayout ==
    ASSUME NEW cells, Unrepeated(cells), NEW n \in Nat \ {0}, NEW x, NEW y, x # y
    PROVE  /\ Layout(cells, Blocks(<<x, y>>, n), Len(cells), n, 2, {x, y})
           /\ \A r \in 1..n : Blocks(<<x, y>>, n)[r] = Alternating(<<x, y>>, r)
<1> DEFINE B == Blocks(<<x, y>>, n)
<1>1. B = [r \in 1..n |-> Alternating(<<x, y>>, r)]
  BY DEF Blocks
<1>2. /\ Len(B) = n /\ \A r \in 1..n : B[r] = Alternating(<<x, y>>, r)
  BY <1>1
<1> HIDE DEF B
<1>3. ASSUME NEW r \in 1..n
      PROVE  /\ Len(B[r]) = 2
             /\ B[r][1] = IF r % 2 = 1 THEN x ELSE y
             /\ B[r][2] = IF r % 2 = 1 THEN y ELSE x
  BY <1>2, Turns
<1>4. 1 \in 1..n /\ \A i \in 1..2 : i = 1 \/ i = 2
  OBVIOUS
<1>5. \A r \in 1..n : \A i \in 1..2 : B[r][i] \in {x, y}
  BY <1>3, <1>4
<1>6. \A r \in 1..n : \A a \in {x, y} : \E i \in 1..2 : B[r][i] = a
  <2>1. 1 \in 1..2 /\ 2 \in 1..2
    OBVIOUS
  <2>2. QED
    BY <1>3, <2>1
<1>7. Len(B[1]) = 2
  BY <1>3, <1>4
<1>8. /\ Len(cells) \in Nat \ {0} /\ DOMAIN cells = 1..Len(cells)
      /\ \A c, d \in 1..Len(cells) : cells[c] = cells[d] => c = d
  BY DEF Unrepeated
<1>9. Layout(cells, B, Len(cells), n, 2, {x, y})
  BY <1>2, <1>5, <1>6, <1>7, <1>8 DEF Layout
<1>10. QED
  BY <1>2, <1>9 DEF B

\* The arms of the preparation experiment: a plugin profile, with or without preparation.
PreparationArms == {"autoload", "django_only"} \X BOOLEAN

\* The four pairs of a or b with x or y, in order.
Crossing(s, a, b, x, y) ==
    /\ Len(s) = 4
    /\ s[1] = <<a, x>> /\ s[2] = <<a, y>> /\ s[3] = <<b, x>> /\ s[4] = <<b, y>>

\* The product of two pairs.
LEMMA PairsOfPairs ==
    ASSUME NEW a, NEW b, NEW x, NEW y
    PROVE  Crossing(Product(<<a, b>>, <<x, y>>), a, b, x, y)
<1> DEFINE p == <<a, b>>
           q == <<x, y>>
           s == Product(p, q)
<1>1. Len(p) = 2 /\ p[1] = a /\ p[2] = b /\ Len(q) = 2 /\ q[1] = x /\ q[2] = y
  OBVIOUS
<1> HIDE DEF p, q
<1>2. s = [k \in 1..4 |-> <<p[1 + ((k - 1) \div 2)], q[1 + ((k - 1) % 2)]>>]
  BY <1>1 DEF Product
<1>3. /\ (1 - 1) \div 2 = 0 /\ (1 - 1) % 2 = 0 /\ (2 - 1) \div 2 = 0 /\ (2 - 1) % 2 = 1
      /\ (3 - 1) \div 2 = 1 /\ (3 - 1) % 2 = 0 /\ (4 - 1) \div 2 = 1 /\ (4 - 1) % 2 = 1
  OBVIOUS
<1>4. 1 \in 1..4 /\ 2 \in 1..4 /\ 3 \in 1..4 /\ 4 \in 1..4
  OBVIOUS
<1>5. /\ s[1] = <<p[1 + ((1 - 1) \div 2)], q[1 + ((1 - 1) % 2)]>>
      /\ s[2] = <<p[1 + ((2 - 1) \div 2)], q[1 + ((2 - 1) % 2)]>>
      /\ s[3] = <<p[1 + ((3 - 1) \div 2)], q[1 + ((3 - 1) % 2)]>>
      /\ s[4] = <<p[1 + ((4 - 1) \div 2)], q[1 + ((4 - 1) % 2)]>>
  BY <1>2, <1>4
<1>6. Len(s) = 4
  <2> HIDE DEF s
  <2>1. DOMAIN s = 1..4
    BY <1>2
  <2>2. \A k \in 1..4 : s[k] \in Range(s)
    BY <2>1 DEF Range
  <2>3. s \in [1..4 -> Range(s)]
    BY <1>2, <2>1, <2>2
  <2>4. QED
    BY <2>1, <2>3
<1>7. s[1] = <<a, x>> /\ s[2] = <<a, y>> /\ s[3] = <<b, x>> /\ s[4] = <<b, y>>
  BY <1>1, <1>3, <1>5
<1>8. QED
  BY <1>6, <1>7 DEF s, p, q, Crossing

\* The block of a repeat of run_gc_preparation.py, from its two pairs.
LEMMA PreparationBlocks ==
    ASSUME NEW r \in Nat
    PROVE  LET f == IF r % 4 \in {2, 3} THEN "django_only" ELSE "autoload"
               g == IF r % 4 \in {2, 3} THEN "autoload" ELSE "django_only"
               t == IF r % 2 = 1 THEN FALSE ELSE TRUE
               u == IF r % 2 = 1 THEN TRUE ELSE FALSE
           IN  Crossing(PreparationBlock(r), f, g, t, u)
<1> DEFINE f == IF r % 4 \in {2, 3} THEN "django_only" ELSE "autoload"
           g == IF r % 4 \in {2, 3} THEN "autoload" ELSE "django_only"
           t == IF r % 2 = 1 THEN FALSE ELSE TRUE
           u == IF r % 2 = 1 THEN TRUE ELSE FALSE
<1>1. Alternating(<<FALSE, TRUE>>, r) = <<t, u>>
  <2> DEFINE a == Alternating(<<FALSE, TRUE>>, r)
  <2> DEFINE x == FALSE
             y == TRUE
  <2>1. x # y
    OBVIOUS
  <2> HIDE DEF x, y
  <2>2. a \in {<<x, y>>, <<y, x>>} /\ a[1] = (IF r % 2 = 1 THEN x ELSE y) /\ a[2] = (IF r % 2 = 1 THEN y ELSE x)
    <3> DEFINE z == Alternating(<<x, y>>, r)
    <3>1. z \in {<<x, y>>, <<y, x>>}
      BY <2>1, Turns
    <3>2. z[1] = (IF r % 2 = 1 THEN x ELSE y) /\ z[2] = (IF r % 2 = 1 THEN y ELSE x)
      BY <2>1, Turns
    <3>3. a = z
      BY DEF x, y
    <3> HIDE DEF a, z
    <3>4. QED
      BY <3>1, <3>2, <3>3
  <2>3. a = <<a[1], a[2]>>
    <3> HIDE DEF a
    <3>1. QED
      BY <2>2
  <2>4. a[1] = t /\ a[2] = u
    BY <2>2 DEF x, y
  <2> HIDE DEF a, t, u
  <2>5. QED
    BY <2>3, <2>4 DEF a
<1>2. (IF r % 4 \in {2, 3} THEN <<"django_only", "autoload">> ELSE <<"autoload", "django_only">>) = <<f, g>>
  OBVIOUS
<1> HIDE DEF f, g, t, u
<1>3. PreparationBlock(r) = Product(<<f, g>>, <<t, u>>)
  BY <1>1, <1>2 DEF PreparationBlock
<1>4. Crossing(PreparationBlock(r), f, g, t, u)
  BY <1>3, PairsOfPairs
<1>5. QED
  BY <1>4 DEF f, g, t, u

\* A set of two elements.
LEMMA TwoElements ==
    ASSUME NEW x, NEW y, x # y
    PROVE  IsFiniteSet({x, y}) /\ Cardinality({x, y}) = 2
<1>1. IsFiniteSet({y}) /\ Cardinality({y}) = 1
  BY FS_Singleton
<1>2. x \notin {y} /\ {y} \cup {x} = {x, y}
  OBVIOUS
<1>3. IsFiniteSet({y} \cup {x}) /\ Cardinality({y} \cup {x}) = Cardinality({y}) + 1
  BY <1>1, <1>2, FS_AddElement
<1>4. QED
  BY <1>1, <1>2, <1>3

\* The four blocks, by the remainder of the repeat.
LEMMA FourBlocks ==
    ASSUME NEW r \in Nat
    PROVE  /\ r % 4 \in 0..3
           /\ r % 4 = 0 => Crossing(PreparationBlock(r), "autoload", "django_only", TRUE, FALSE)
           /\ r % 4 = 1 => Crossing(PreparationBlock(r), "autoload", "django_only", FALSE, TRUE)
           /\ r % 4 = 2 => Crossing(PreparationBlock(r), "django_only", "autoload", TRUE, FALSE)
           /\ r % 4 = 3 => Crossing(PreparationBlock(r), "django_only", "autoload", FALSE, TRUE)
<1> DEFINE f == IF r % 4 \in {2, 3} THEN "django_only" ELSE "autoload"
           g == IF r % 4 \in {2, 3} THEN "autoload" ELSE "django_only"
           t == IF r % 2 = 1 THEN FALSE ELSE TRUE
           u == IF r % 2 = 1 THEN TRUE ELSE FALSE
<1>1. Crossing(PreparationBlock(r), f, g, t, u)
  BY PreparationBlocks
<1>2. /\ r % 4 \in 0..3 /\ r % 2 \in 0..1
      /\ r % 4 \in {1, 3} <=> r % 2 = 1
  OBVIOUS
<1>3. ASSUME r % 4 = 0
      PROVE  f = "autoload" /\ g = "django_only" /\ t = TRUE /\ u = FALSE
  <2>1. r % 2 # 1
    BY <1>2, <1>3
  <2>2. QED
    BY <1>3, <2>1
<1>4. ASSUME r % 4 = 1
      PROVE  f = "autoload" /\ g = "django_only" /\ t = FALSE /\ u = TRUE
  <2>1. r % 2 = 1
    BY <1>2, <1>4
  <2>2. QED
    BY <1>4, <2>1
<1>5. ASSUME r % 4 = 2
      PROVE  f = "django_only" /\ g = "autoload" /\ t = TRUE /\ u = FALSE
  <2>1. r % 2 # 1
    BY <1>2, <1>5
  <2>2. QED
    BY <1>5, <2>1
<1>6. ASSUME r % 4 = 3
      PROVE  f = "django_only" /\ g = "autoload" /\ t = FALSE /\ u = TRUE
  <2>1. r % 2 = 1
    BY <1>2, <1>6
  <2>2. QED
    BY <1>6, <2>1
<1> HIDE DEF f, g, t, u
<1>7. r % 4 = 0 => Crossing(PreparationBlock(r), "autoload", "django_only", TRUE, FALSE)
  BY <1>1, <1>3
<1>8. r % 4 = 1 => Crossing(PreparationBlock(r), "autoload", "django_only", FALSE, TRUE)
  BY <1>1, <1>4
<1>9. r % 4 = 2 => Crossing(PreparationBlock(r), "django_only", "autoload", TRUE, FALSE)
  BY <1>1, <1>5
<1>10. r % 4 = 3 => Crossing(PreparationBlock(r), "django_only", "autoload", FALSE, TRUE)
  BY <1>1, <1>6
<1>11. QED
  BY <1>2, <1>7, <1>8, <1>9, <1>10

\* Each arm has one place in every fourth block.
LEMMA FourPlaces ==
    /\ \A r \in Nat, i \in 1..4 : PreparationBlock(r)[i] \in PreparationArms
    /\ \A r \in Nat : \A a \in PreparationArms : \E i \in 1..4 : PreparationBlock(r)[i] = a
    /\ \A r \in Nat : Len(PreparationBlock(r)) = 4
    /\ \A i \in 1..4 : \A a \in PreparationArms : \E d \in 0..3 : \A r \in Nat :
           PreparationBlock(r)[i] = a <=> r % 4 = d
<1> DEFINE a0 == <<"autoload", FALSE>>
           a1 == <<"autoload", TRUE>>
           d0 == <<"django_only", FALSE>>
           d1 == <<"django_only", TRUE>>
           Is(r, w, x, y, z) ==
               LET B == PreparationBlock(r) IN B[1] = w /\ B[2] = x /\ B[3] = y /\ B[4] = z
<1>1. /\ a0 # a1 /\ a0 # d0 /\ a0 # d1 /\ a1 # d0 /\ a1 # d1 /\ d0 # d1
  OBVIOUS
<1>2. PreparationArms = {a0, a1, d0, d1}
  <2>1. \A a : a \in PreparationArms <=> \E p \in {"autoload", "django_only"}, q \in BOOLEAN : a = <<p, q>>
    BY DEF PreparationArms
  <2>2. \A q \in BOOLEAN : q = TRUE \/ q = FALSE
    OBVIOUS
  <2>3. TRUE \in BOOLEAN /\ FALSE \in BOOLEAN
    OBVIOUS
  <2>4. \A a : a \in PreparationArms <=> a \in {a0, a1, d0, d1}
    BY <2>1, <2>2, <2>3
  <2>5. QED
    BY <2>4
<1>3. ASSUME NEW r \in Nat
      PROVE  /\ r % 4 \in 0..3
             /\ r % 4 = 0 => Is(r, a1, a0, d1, d0)
             /\ r % 4 = 1 => Is(r, a0, a1, d0, d1)
             /\ r % 4 = 2 => Is(r, d1, d0, a1, a0)
             /\ r % 4 = 3 => Is(r, d0, d1, a0, a1)
  <2> DEFINE B == PreparationBlock(r)
  <2> HIDE DEF B
  <2>1. r % 4 = 0 => Crossing(B, "autoload", "django_only", TRUE, FALSE)
    BY FourBlocks DEF B
  <2>2. r % 4 = 1 => Crossing(B, "autoload", "django_only", FALSE, TRUE)
    BY FourBlocks DEF B
  <2>3. r % 4 = 2 => Crossing(B, "django_only", "autoload", TRUE, FALSE)
    BY FourBlocks DEF B
  <2>4. r % 4 = 3 => Crossing(B, "django_only", "autoload", FALSE, TRUE)
    BY FourBlocks DEF B
  <2>5. r % 4 \in 0..3
    BY FourBlocks
  <2>6. \A w, x, y, z : Is(r, w, x, y, z) <=> B[1] = w /\ B[2] = x /\ B[3] = y /\ B[4] = z
    BY DEF B
  <2>7. r % 4 = 0 => Is(r, a1, a0, d1, d0)
    BY <2>1, <2>6 DEF Crossing
  <2>8. r % 4 = 1 => Is(r, a0, a1, d0, d1)
    BY <2>2, <2>6 DEF Crossing
  <2>9. r % 4 = 2 => Is(r, d1, d0, a1, a0)
    BY <2>3, <2>6 DEF Crossing
  <2>10. r % 4 = 3 => Is(r, d0, d1, a0, a1)
    BY <2>4, <2>6 DEF Crossing
  <2>11. QED
    BY <2>5, <2>7, <2>8, <2>9, <2>10
<1>4. ASSUME NEW r \in Nat PROVE Len(PreparationBlock(r)) = 4
  <2> DEFINE B == PreparationBlock(r)
             m == r % 4
  <2>1. /\ m \in 0..3
        /\ m = 0 => Crossing(B, "autoload", "django_only", TRUE, FALSE)
        /\ m = 1 => Crossing(B, "autoload", "django_only", FALSE, TRUE)
        /\ m = 2 => Crossing(B, "django_only", "autoload", TRUE, FALSE)
        /\ m = 3 => Crossing(B, "django_only", "autoload", FALSE, TRUE)
    BY FourBlocks
  <2> HIDE DEF B, m
  <2>2. m = 0 \/ m = 1 \/ m = 2 \/ m = 3
    BY <2>1
  <2>3. Len(B) = 4
    BY <2>1, <2>2 DEF Crossing
  <2>4. QED
    BY <2>3 DEF B
<1> HIDE DEF a0, a1, d0, d1
<1>5. \A i \in 1..4 : i = 1 \/ i = 2 \/ i = 3 \/ i = 4
  OBVIOUS
<1>6. \A r \in Nat : r % 4 = 0 \/ r % 4 = 1 \/ r % 4 = 2 \/ r % 4 = 3
  BY <1>3
<1>7. ASSUME NEW r \in Nat, NEW i \in 1..4
      PROVE  PreparationBlock(r)[i] \in PreparationArms
  BY <1>2, <1>3, <1>5, <1>6
<1>8. ASSUME NEW r \in Nat, NEW a \in PreparationArms
      PROVE  \E i \in 1..4 : PreparationBlock(r)[i] = a
  <2>1. 1 \in 1..4 /\ 2 \in 1..4 /\ 3 \in 1..4 /\ 4 \in 1..4
    OBVIOUS
  <2>2. QED
    BY <1>2, <1>3, <1>6, <2>1
<1>9. ASSUME NEW i \in 1..4, NEW a \in PreparationArms
      PROVE  \E d \in 0..3 : \A r \in Nat : PreparationBlock(r)[i] = a <=> r % 4 = d
  <2> DEFINE Order(w, x, y, z) ==
                 \A r \in Nat : /\ (r % 4 = 0 => PreparationBlock(r)[i] = w)
                               /\ (r % 4 = 1 => PreparationBlock(r)[i] = x)
                               /\ (r % 4 = 2 => PreparationBlock(r)[i] = y)
                               /\ (r % 4 = 3 => PreparationBlock(r)[i] = z)
  <2>1. Order(a1, a0, d1, d0) \/ Order(a0, a1, d0, d1) \/ Order(d1, d0, a1, a0) \/ Order(d0, d1, a0, a1)
    <3>1. CASE i = 1
      <4>1. Order(a1, a0, d1, d0)
        BY <1>3, <3>1
      <4>2. QED
        BY <4>1
    <3>2. CASE i = 2
      <4>1. Order(a0, a1, d0, d1)
        BY <1>3, <3>2
      <4>2. QED
        BY <4>1
    <3>3. CASE i = 3
      <4>1. Order(d1, d0, a1, a0)
        BY <1>3, <3>3
      <4>2. QED
        BY <4>1
    <3>4. CASE i = 4
      <4>1. Order(d0, d1, a0, a1)
        BY <1>3, <3>4
      <4>2. QED
        BY <4>1
    <3>5. QED
      BY <1>5, <3>1, <3>2, <3>3, <3>4
  <2>2. ASSUME NEW w, NEW x, NEW y, NEW z, Order(w, x, y, z), {w, x, y, z} = PreparationArms,
               w # x, w # y, w # z, x # y, x # z, y # z
        PROVE  \E d \in 0..3 : \A r \in Nat : PreparationBlock(r)[i] = a <=> r % 4 = d
    <3>1. 0 \in 0..3 /\ 1 \in 0..3 /\ 2 \in 0..3 /\ 3 \in 0..3
      OBVIOUS
    <3>2. ASSUME NEW r \in Nat
          PROVE  /\ PreparationBlock(r)[i] = w <=> r % 4 = 0
                 /\ PreparationBlock(r)[i] = x <=> r % 4 = 1
                 /\ PreparationBlock(r)[i] = y <=> r % 4 = 2
                 /\ PreparationBlock(r)[i] = z <=> r % 4 = 3
      <4> DEFINE v == PreparationBlock(r)[i]
                 m == r % 4
      <4>1. /\ m = 0 \/ m = 1 \/ m = 2 \/ m = 3
            /\ m = 0 => v = w
            /\ m = 1 => v = x
            /\ m = 2 => v = y
            /\ m = 3 => v = z
        BY <1>6, <2>2
      <4> HIDE DEF v, m
      <4>2. (v = w <=> m = 0) /\ (v = x <=> m = 1) /\ (v = y <=> m = 2) /\ (v = z <=> m = 3)
        BY <2>2, <4>1
      <4>3. QED
        BY <4>2 DEF v, m
    <3>3. a = w \/ a = x \/ a = y \/ a = z
      BY <2>2
    <3>4. QED
      BY <3>1, <3>2, <3>3
  <2> HIDE DEF Order
  <2>3. QED
    BY <1>1, <1>2, <2>1, <2>2
<1>10. QED
  BY <1>4, <1>7, <1>8, <1>9

\* The cells and blocks of run_gc_preparation.py.
LEMMA PreparationLayout ==
    ASSUME NEW cells, Unrepeated(cells), NEW n \in Nat \ {0}
    PROVE  /\ Layout(cells, [r \in 1..n |-> PreparationBlock(r)], Len(cells), n, 4, PreparationArms)
           /\ Cardinality(PreparationArms) = 4
<1> DEFINE B == [r \in 1..n |-> PreparationBlock(r)]
<1>1. Len(B) = n /\ \A r \in 1..n : r \in Nat /\ B[r] = PreparationBlock(r)
  OBVIOUS
<1> HIDE DEF B
<1>2. 1 \in 1..n
  OBVIOUS
<1>3. Len(B[1]) = 4
  BY <1>1, <1>2, FourPlaces
<1>4. \A r \in 1..n : \A i \in 1..4 : B[r][i] \in PreparationArms
  BY <1>1, FourPlaces
<1>5. \A r \in 1..n : \A a \in PreparationArms : \E i \in 1..4 : B[r][i] = a
  BY <1>1, FourPlaces
<1>6. /\ Len(cells) \in Nat \ {0} /\ DOMAIN cells = 1..Len(cells)
      /\ \A c, d \in 1..Len(cells) : cells[c] = cells[d] => c = d
  BY DEF Unrepeated
<1>7. Layout(cells, B, Len(cells), n, 4, PreparationArms)
  BY <1>1, <1>3, <1>4, <1>5, <1>6 DEF Layout
<1>8. Cardinality(PreparationArms) = 4
  <2>1. IsFiniteSet({"autoload", "django_only"}) /\ Cardinality({"autoload", "django_only"}) = 2
    BY TwoElements
  <2>2. IsFiniteSet(BOOLEAN) /\ Cardinality(BOOLEAN) = 2
    <3>1. BOOLEAN = {TRUE, FALSE} /\ TRUE # FALSE
      OBVIOUS
    <3>2. QED
      BY <3>1, TwoElements
  <2>3. QED
    BY <2>1, <2>2, FS_Product DEF PreparationArms
<1>9. QED
  BY <1>7, <1>8 DEF B

\* What a plan of n repeats has to be: every cell with every arm of a block in every
\* repeat, and every arm as often at one place as at another.
Balanced(J, n, b, arms) ==
    n % b = 0 =>
        \A c \in {j.cell : j \in J}, a \in arms, p \in 1..b :
            Often(J, c, a, p, n \div b)

\* L is a sequence of size jobs.
IsPlan(L, size) == L \in Seq(Range(L)) /\ Len(L) = size /\ size \in Nat \ {0} /\ DOMAIN L = 1..size

----------------------------------------------------------------------------
(* The plan of each experiment, and that it is the whole of it.            *)

\* A plan whose blocks give each arm one place in every b-th repeat crosses all its cells,
\* repeats and arms, and is balanced.
LEMMA LaidPlan ==
    ASSUME NEW cells, NEW blocks, NEW n, NEW b, NEW arms,
           Layout(cells, blocks, Len(cells), n, b, arms),
           \A p \in 1..b : \A a \in arms : \E d \in 0..(b - 1) : \A r \in 1..n : blocks[r][p] = a <=> r % b = d
    PROVE  /\ IsPlan(Laid(cells, blocks), Size(Len(cells), n, b))
           /\ CrossesAll(Range(Laid(cells, blocks)), cells, n, arms)
           /\ Balanced(Range(Laid(cells, blocks)), n, b, arms)
<1> DEFINE L == Laid(cells, blocks)
           C == Len(cells)
<1>1. C \in Nat \ {0} /\ n \in Nat \ {0} /\ b \in Nat \ {0} /\ Len(blocks) = n /\ Len(blocks[1]) = b
  BY DEF Layout
<1>2. IsPlan(L, Size(C, n, b))
  <2>1. Numbered(L, cells, blocks, C, n, b)
    BY <1>1, LaidJobs
  <2> HIDE DEF L, C
  <2>2. Size(C, n, b) \in Nat \ {0}
    BY <1>1 DEF Size
  <2>3. QED
    BY <2>1, <2>2 DEF Numbered, IsPlan
<1>3. Jobbed(Range(L), cells, blocks, C, n, b)
  BY LaidOut
<1>4. CrossesAll(Range(L), cells, n, arms)
  BY <1>3, Crossed
<1>5. ASSUME n % b = 0, NEW c \in Range(cells), NEW a \in arms, NEW p \in 1..b
      PROVE  Often(Range(L), c, a, p, n \div b)
  <2>1. PICK d \in 0..(b - 1) : \A r \in 1..n : blocks[r][p] = a <=> r % b = d
    OBVIOUS
  <2>2. QED
    BY <1>5, <2>1, Balances
<1> HIDE DEF L, C
<1>6. {j.cell : j \in Range(L)} = Range(cells)
  BY <1>4 DEF CrossesAll
<1>7. Balanced(Range(L), n, b, arms)
  BY <1>5, <1>6 DEF Balanced
<1>8. QED
  BY <1>2, <1>4, <1>7 DEF L, C

\* The pairs of a plan of two arms.
Turned(L, size, x, y) ==
    \A k \in 1..size : k % 2 = 1 =>
        /\ k + 1 \in 1..size
        /\ [L[k] EXCEPT !.arm = L[k + 1].arm, !.place = L[k + 1].place] = L[k + 1]
        /\ <<L[k].arm, L[k + 1].arm>> = Alternating(<<x, y>>, L[k].repeat)

\* What the plan of two arms that take turns is: every pair of jobs has both arms of one cell
\* and repeat, in the order of that repeat.
LEMMA TurnsPlan ==
    ASSUME NEW cells, Unrepeated(cells), NEW n \in Nat \ {0}, NEW x, NEW y, x # y
    PROVE  LET L == Laid(cells, Blocks(<<x, y>>, n))
               N == Size(Len(cells), n, 2)
           IN  /\ IsPlan(L, N) /\ CrossesAll(Range(L), cells, n, {x, y})
               /\ Balanced(Range(L), n, 2, {x, y}) /\ Turned(L, N, x, y)
<1> DEFINE B == Blocks(<<x, y>>, n)
           L == Laid(cells, B)
           C == Len(cells)
           N == Size(C, n, 2)
<1>1. Layout(cells, B, C, n, 2, {x, y}) /\ \A r \in 1..n : B[r] = Alternating(<<x, y>>, r)
  BY TurnsLayout
<1> HIDE DEF B
<1>2. ASSUME NEW r \in 1..n
      PROVE  /\ B[r] = <<B[r][1], B[r][2]>>
             /\ B[r][1] = IF r % 2 = 1 THEN x ELSE y
             /\ B[r][2] = IF r % 2 = 1 THEN y ELSE x
  <2> DEFINE a == Alternating(<<x, y>>, r)
  <2>1. B[r] = a /\ r \in Nat
    BY <1>1
  <2>2. a \in {<<x, y>>, <<y, x>>}
    BY Turns
  <2>3. a[1] = (IF r % 2 = 1 THEN x ELSE y) /\ a[2] = (IF r % 2 = 1 THEN y ELSE x)
    BY Turns
  <2> HIDE DEF a
  <2>4. a = <<a[1], a[2]>>
    BY <2>2
  <2>5. QED
    BY <2>1, <2>3, <2>4
<1>3. \A p \in 1..2 : \A a \in {x, y} : \E d \in 0..(2 - 1) : \A r \in 1..n : B[r][p] = a <=> r % 2 = d
  <2>1. SUFFICES ASSUME NEW p \in 1..2, NEW a \in {x, y}
                 PROVE  \E d \in 0..(2 - 1) : \A r \in 1..n : B[r][p] = a <=> r % 2 = d
    OBVIOUS
  <2>2. \A r \in 1..n : r % 2 \in {0, 1}
    OBVIOUS
  <2>3. 0 \in 0..(2 - 1) /\ 1 \in 0..(2 - 1) /\ (p = 1 \/ p = 2)
    OBVIOUS
  <2>4. CASE (p = 1 /\ a = x) \/ (p = 2 /\ a = y)
    <3>1. \A r \in 1..n : B[r][p] = a <=> r % 2 = 1
      BY <1>2, <2>4
    <3>2. QED
      BY <2>3, <3>1
  <2>5. CASE (p = 1 /\ a = y) \/ (p = 2 /\ a = x)
    <3>1. \A r \in 1..n : B[r][p] = a <=> r % 2 = 0
      BY <1>2, <2>2, <2>5
    <3>2. QED
      BY <2>3, <3>1
  <2>6. QED
    BY <2>3, <2>4, <2>5
<1>4. IsPlan(L, N) /\ CrossesAll(Range(L), cells, n, {x, y}) /\ Balanced(Range(L), n, 2, {x, y})
  <2> DEFINE E == {x, y}
  <2>1. /\ Layout(cells, B, Len(cells), n, 2, E)
        /\ \A p \in 1..2 : \A a \in E : \E d \in 0..(2 - 1) : \A r \in 1..n : B[r][p] = a <=> r % 2 = d
    BY <1>1, <1>3
  <2> HIDE DEF E
  <2>2. /\ IsPlan(Laid(cells, B), Size(Len(cells), n, 2))
        /\ CrossesAll(Range(Laid(cells, B)), cells, n, E)
        /\ Balanced(Range(Laid(cells, B)), n, 2, E)
    BY <2>1, LaidPlan
  <2>3. QED
    BY <2>2 DEF E
<1>5. Numbered(L, cells, B, C, n, 2)
  BY <1>1, LaidJobs DEF Layout
<1>6. C \in Nat \ {0}
  BY DEF Unrepeated
<1> HIDE DEF L, C
<1>7. ASSUME NEW k \in 1..N, k % 2 = 1
      PROVE  /\ k + 1 \in 1..N
             /\ [L[k] EXCEPT !.arm = L[k + 1].arm, !.place = L[k + 1].place] = L[k + 1]
             /\ <<L[k].arm, L[k + 1].arm>> = Alternating(<<x, y>>, L[k].repeat)
  <2>1. PICK c \in 1..C, r \in 1..n, i \in 1..2 :
           L[k] = Job(cells[c], r, B[r][i], i) /\ k = Number(n, 2, c, r, i)
    BY <1>5 DEF Numbered
  <2> DEFINE z == n * (c - 1) + (r - 1)
  <2>2. z \in Int /\ k = 2 * z + i
    BY <1>6, <2>1 DEF Number
  <2>3. i = 1 /\ k + 1 = Number(n, 2, c, r, 2)
    <3>1. Number(n, 2, c, r, 2) = 2 * z + 2
      BY DEF Number
    <3> HIDE DEF z
    <3>2. QED
      BY <1>7, <2>2, <3>1
  <2>4. Number(n, 2, c, r, 2) \in 1..N /\ L[Number(n, 2, c, r, 2)] = Job(cells[c], r, B[r][2], 2)
    <3>1. 2 \in 1..2
      OBVIOUS
    <3>2. QED
      BY <1>5, <3>1 DEF Numbered
  <2>5. L[k] = Job(cells[c], r, B[r][1], 1) /\ L[k + 1] = Job(cells[c], r, B[r][2], 2) /\ k + 1 \in 1..N
    BY <2>1, <2>3, <2>4
  <2>6. B[r] = <<B[r][1], B[r][2]>> /\ B[r] = Alternating(<<x, y>>, r)
    BY <1>1, <1>2
  <2> DEFINE f == B[r][1]
             g == B[r][2]
  <2> HIDE DEF f, g, N
  <2>7. L[k] = Job(cells[c], r, f, 1) /\ L[k + 1] = Job(cells[c], r, g, 2) /\ Alternating(<<x, y>>, r) = <<f, g>>
    BY <2>5, <2>6 DEF f, g
  <2>8. L[k].arm = f /\ L[k + 1].arm = g /\ L[k + 1].place = 2 /\ L[k].repeat = r
    BY <2>7 DEF Job
  <2>9. [Job(cells[c], r, f, 1) EXCEPT !.arm = g, !.place = 2] = Job(cells[c], r, g, 2)
    <3>1. [Job(cells[c], r, f, 1) EXCEPT !.arm = g] = Job(cells[c], r, g, 1)
      BY DEF Job
    <3>2. [Job(cells[c], r, g, 1) EXCEPT !.place = 2] = Job(cells[c], r, g, 2)
      BY DEF Job
    <3>3. QED
      BY <3>1, <3>2
  <2>10. QED
    BY <2>5, <2>7, <2>8, <2>9
<1>8. Turned(L, N, x, y)
  BY <1>7 DEF Turned
<1>9. QED
  BY <1>4, <1>8 DEF L, C, B

\* What the plan of run_gc_preparation.py is.
LEMMA PreparationPlan ==
    ASSUME NEW cells, Unrepeated(cells), NEW n \in Nat \ {0}
    PROVE  LET L == Laid(cells, [r \in 1..n |-> PreparationBlock(r)])
           IN  /\ IsPlan(L, Size(Len(cells), n, 4)) /\ CrossesAll(Range(L), cells, n, PreparationArms)
               /\ Balanced(Range(L), n, 4, PreparationArms)
<1> DEFINE B == [r \in 1..n |-> PreparationBlock(r)]
<1>1. Layout(cells, B, Len(cells), n, 4, PreparationArms)
  BY PreparationLayout
<1>2. \A r \in 1..n : r \in Nat /\ B[r] = PreparationBlock(r)
  OBVIOUS
<1> HIDE DEF B
<1>3. ASSUME NEW p \in 1..4, NEW a \in PreparationArms
      PROVE  \E d \in 0..(4 - 1) : \A r \in 1..n : B[r][p] = a <=> r % 4 = d
  <2>1. PICK d \in 0..3 : \A r \in Nat : PreparationBlock(r)[p] = a <=> r % 4 = d
    BY FourPlaces
  <2>2. \A r \in 1..n : B[r][p] = a <=> r % 4 = d
    BY <1>2, <2>1
  <2>3. d \in 0..(4 - 1)
    OBVIOUS
  <2>4. QED
    BY <2>2, <2>3
<1>4. /\ IsPlan(Laid(cells, B), Size(Len(cells), n, 4))
      /\ CrossesAll(Range(Laid(cells, B)), cells, n, PreparationArms)
      /\ Balanced(Range(Laid(cells, B)), n, 4, PreparationArms)
  BY <1>1, <1>3, LaidPlan
<1>5. QED
  BY <1>4 DEF B

\* A plan backwards is a plan of the same jobs.
LEMMA ReverseRange ==
    ASSUME NEW s, NEW N, IsPlan(s, N)
    PROVE  IsPlan(Reverse(s), N) /\ Range(Reverse(s)) = Range(s)
<1> DEFINE t == Reverse(s)
<1>1. N \in Nat \ {0} /\ DOMAIN s = 1..N /\ Len(s) = N /\ s \in Seq(Range(s))
  BY DEF IsPlan
<1>2. t = [i \in 1..N |-> s[N - i + 1]]
  BY <1>1 DEF Reverse
<1> HIDE DEF t
<1>3. \A i \in 1..N : N - i + 1 \in 1..N /\ t[i] = s[N - i + 1] /\ t[N - i + 1] = s[i]
  BY <1>1, <1>2
<1>4. DOMAIN t = 1..N
  BY <1>2
<1>5. Range(t) = Range(s)
  <2>1. Range(s) = {s[i] : i \in 1..N} /\ Range(t) = {t[i] : i \in 1..N}
    BY <1>1, <1>4 DEF Range
  <2>2. \A i \in 1..N : t[i] \in Range(s) /\ s[i] \in Range(t)
    BY <1>3, <2>1
  <2>3. QED
    BY <2>1, <2>2
<1>6. t \in [1..N -> Range(s)]
  BY <1>1, <1>2, <1>3 DEF Range
<1>7. t \in Seq(Range(s))
  BY <1>1, <1>6
<1>8. Len(t) = N
  BY <1>1, <1>4, <1>7
<1>9. QED
  BY <1>1, <1>4, <1>5, <1>7, <1>8 DEF IsPlan, t

\* Every job of one variant has its like of the other.
Hinted(L, size) ==
    \A k \in 1..size : \E m \in 1..size :
        L[k].arm # L[m].arm /\ [L[k] EXCEPT !.arm = L[m].arm] = L[m]

\* What the plan of run_serializer_gc.py is, which alone is reversed in every other repeat.
LEMMA SerializerPlan ==
    ASSUME NEW n \in Nat \ {0}, NEW s
    PROVE  LET L == SerializerJobs(n, s)
               N == Size(4, n, 2)
           IN  /\ IsPlan(L, N) /\ CrossesAll(Range(L), SerializerCells, n, {"original", "without_instance"})
               /\ Hinted(L, N)
<1> DEFINE B == [r \in 1..n |-> Variants]
           x == "original"
           y == "without_instance"
           cells == SerializerCells
           K == Laid(cells, B)
           N == Size(4, n, 2)
           M == [k \in DOMAIN K |-> [K[k] EXCEPT !.place = 0]]
           L == SerializerJobs(n, s)
<1>1. /\ Unrepeated(cells) /\ Len(cells) = 4
      /\ Variants[1] = x /\ Variants[2] = y /\ Len(Variants) = 2 /\ x # y
  BY Cells DEF Variants
<1>2. Len(B) = n /\ (\A r \in 1..n : B[r] = Variants) /\ 1 \in 1..n
  OBVIOUS
<1> HIDE DEF B, x, y, cells
<1>3. Layout(cells, B, 4, n, 2, {x, y})
  <2>1. \A i \in 1..2 : i = 1 \/ i = 2
    OBVIOUS
  <2>2. \A r \in 1..n : \A i \in 1..2 : B[r][i] \in {x, y}
    BY <1>1, <1>2, <2>1
  <2>3. \A r \in 1..n : \A a \in {x, y} : \E i \in 1..2 : B[r][i] = a
    <3>1. 1 \in 1..2 /\ 2 \in 1..2
      OBVIOUS
    <3>2. QED
      BY <1>1, <1>2, <3>1
  <2>4. /\ DOMAIN cells = 1..Len(cells)
        /\ \A c, d \in 1..Len(cells) : cells[c] = cells[d] => c = d
    BY <1>1 DEF Unrepeated
  <2>5. Len(B[1]) = 2
    BY <1>1, <1>2
  <2>6. QED
    BY <1>1, <1>2, <2>2, <2>3, <2>4, <2>5 DEF Layout
<1>4. Holds(K, cells, B, 4, n, 2)
  BY <1>3, LaidAt
<1>5. N \in Nat \ {0} /\ DOMAIN K = 1..N
  <2> HIDE DEF K
  <2>1. QED
    BY <1>4 DEF Holds, Size
<1>6. L = Shuffled(M, s)
  BY DEF SerializerJobs, cells, B
<1> HIDE DEF K, L, N
<1>7. DOMAIN M = 1..N /\ IsPlan(M, N)
  <2>1. DOMAIN M = 1..N
    BY <1>5
  <2>2. M \in [1..N -> Range(M)]
    <3>1. M = [k \in 1..N |-> [K[k] EXCEPT !.place = 0]]
      BY <1>5
    <3> HIDE DEF M
    <3>2. \A k \in 1..N : M[k] \in Range(M)
      BY <2>1 DEF Range
    <3>3. QED
      BY <2>1, <3>1, <3>2
  <2> HIDE DEF M
  <2>3. M \in Seq(Range(M))
    BY <1>5, <2>2
  <2>4. QED
    BY <1>5, <2>1, <2>3 DEF IsPlan
<1>8. ASSUME NEW k \in 1..N
      PROVE  \E c \in 1..4, r \in 1..n, i \in 1..2 : M[k] = Job(cells[c], r, Variants[i], 0)
  <2>1. PICK c \in 1..4, r \in 1..n, i \in 1..2 : K[k] = Job(cells[c], r, B[r][i], i)
    <3>1. k \in 1..Size(4, n, 2)
      BY DEF N
    <3>2. QED
      BY <1>4, <3>1 DEF Holds
  <2>2. M[k] = [Job(cells[c], r, Variants[i], i) EXCEPT !.place = 0]
    BY <1>2, <1>5, <2>1
  <2>3. M[k] = Job(cells[c], r, Variants[i], 0)
    BY <2>2 DEF Job
  <2>4. QED
    BY <2>3
<1>9. ASSUME NEW c \in 1..4, NEW r \in 1..n, NEW i \in 1..2
      PROVE  \E k \in 1..N : M[k] = Job(cells[c], r, Variants[i], 0)
  <2>1. PICK k \in 1..N : K[k] = Job(cells[c], r, B[r][i], i)
    <3>1. \E k \in 1..Size(4, n, 2) : K[k] = Job(cells[c], r, B[r][i], i)
      BY <1>4 DEF Holds
    <3>2. QED
      BY <3>1 DEF N
  <2>2. M[k] = [Job(cells[c], r, Variants[i], i) EXCEPT !.place = 0]
    BY <1>2, <1>5, <2>1
  <2>3. M[k] = Job(cells[c], r, Variants[i], 0)
    BY <2>2 DEF Job
  <2>4. QED
    BY <2>1, <2>3
<1> HIDE DEF M
<1>10. IsPlan(L, N) /\ Range(L) = Range(M)
  BY <1>6, <1>7, ReverseRange DEF Shuffled
<1>11. Range(M) = {M[k] : k \in 1..N}
  BY <1>7 DEF Range
<1>12. DOMAIN L = 1..N /\ Range(L) = {L[k] : k \in 1..N}
  BY <1>10 DEF IsPlan, Range
<1>13. \A c, r, a, p : LET j == Job(c, r, a, p) IN j.cell = c /\ j.repeat = r /\ j.arm = a
  BY DEF Job
<1>14. Jobbed(Range(L), cells, B, 4, n, 2)
  <2>1. \A j \in Range(L) : \E c \in 1..4, r \in 1..n, i \in 1..2 :
           j.cell = cells[c] /\ j.repeat = r /\ j.arm = B[r][i]
    <3>1. SUFFICES ASSUME NEW j \in Range(L)
                   PROVE  \E c \in 1..4, r \in 1..n, i \in 1..2 :
                             j.cell = cells[c] /\ j.repeat = r /\ j.arm = B[r][i]
      OBVIOUS
    <3>2. PICK k \in 1..N : j = M[k]
      BY <1>10, <1>11
    <3>3. PICK c \in 1..4, r \in 1..n, i \in 1..2 : j = Job(cells[c], r, Variants[i], 0)
      <4>1. \E c \in 1..4, r \in 1..n, i \in 1..2 : M[k] = Job(cells[c], r, Variants[i], 0)
        BY <1>8
      <4>2. QED
        BY <3>2, <4>1
    <3>4. QED
      BY <1>2, <1>13, <3>3
  <2>2. \A c \in 1..4, r \in 1..n, i \in 1..2 : \E j \in Range(L) :
           j.cell = cells[c] /\ j.repeat = r /\ j.arm = B[r][i]
    <3>1. SUFFICES ASSUME NEW c \in 1..4, NEW r \in 1..n, NEW i \in 1..2
                   PROVE  \E j \in Range(L) : j.cell = cells[c] /\ j.repeat = r /\ j.arm = B[r][i]
      OBVIOUS
    <3>2. PICK k \in 1..N : M[k] = Job(cells[c], r, Variants[i], 0)
      BY <1>9
    <3>3. M[k] \in Range(L)
      BY <1>10, <1>11
    <3>4. QED
      BY <1>2, <1>13, <3>2, <3>3
  <2>3. QED
    BY <2>1, <2>2 DEF Jobbed
<1>15. CrossesAll(Range(L), cells, n, {x, y})
  BY <1>3, <1>14, Crossed
<1>16. Hinted(L, N)
  <2>1. SUFFICES ASSUME NEW k \in 1..N
                 PROVE  \E m \in 1..N : L[k].arm # L[m].arm /\ [L[k] EXCEPT !.arm = L[m].arm] = L[m]
    BY DEF Hinted
  <2>2. PICK q \in 1..N : M[q] = L[k]
    BY <1>10, <1>11, <1>12
  <2>3. PICK c \in 1..4, r \in 1..n, i \in 1..2 : L[k] = Job(cells[c], r, Variants[i], 0)
    <3>1. \E c \in 1..4, r \in 1..n, i \in 1..2 : M[q] = Job(cells[c], r, Variants[i], 0)
      BY <1>8
    <3>2. QED
      BY <2>2, <3>1
  <2>4. PICK h \in 1..2 : Variants[h] # Variants[i]
    <3>1. (i = 1 \/ i = 2) /\ 1 \in 1..2 /\ 2 \in 1..2
      OBVIOUS
    <3>2. QED
      BY <1>1, <3>1
  <2>5. PICK m \in 1..N : L[m] = Job(cells[c], r, Variants[h], 0)
    <3>1. PICK p \in 1..N : M[p] = Job(cells[c], r, Variants[h], 0)
      BY <1>9
    <3>2. PICK m \in 1..N : L[m] = M[p]
      BY <1>10, <1>11, <1>12
    <3>3. QED
      BY <3>1, <3>2
  <2>6. L[k].arm = Variants[i] /\ L[m].arm = Variants[h]
    BY <1>13, <2>3, <2>5
  <2>7. [Job(cells[c], r, Variants[i], 0) EXCEPT !.arm = Variants[h]] = Job(cells[c], r, Variants[h], 0)
    BY DEF Job
  <2>8. QED
    BY <2>3, <2>4, <2>5, <2>6, <2>7
<1>17. QED
  BY <1>10, <1>15, <1>16 DEF L, N, x, y, cells

\* Shuffling the cells takes nothing from what is crossed.
LEMMA ShuffledPlan ==
    ASSUME NEW J, NEW cells, Unrepeated(cells), NEW s, NEW n, NEW arms, CrossesAll(J, Shuffled(cells, s), n, arms)
    PROVE  CrossesAll(J, cells, n, arms)
<1> DEFINE c == Shuffled(cells, s)
<1>1. Range(c) = Range(cells) /\ Len(c) = Len(cells)
  BY ShuffledUnrepeated
<1>2. CrossesAll(J, c, n, arms)
  OBVIOUS
<1> HIDE DEF c
<1>3. QED
  BY <1>1, <1>2 DEF CrossesAll

\* The plan of the experiment at hand.
LEMMA PlannedJobs ==
    ASSUME what \in Experimented, seed \in Seeds
    PROVE  /\ planned = Jobs(what, seed) /\ Repeats[what] \in Nat \ {0}
           /\ what \in {"serializer", "environment", "inventory", "plugins", "full_gc", "preparation"}
<1>1. Repeats \in [Experimented -> Nat \ {0}]
      /\ Experimented \subseteq {"serializer", "environment", "inventory", "plugins", "full_gc", "preparation"}
  BY ExperimentConstants
<1>2. Plans[what][seed] = Jobs(what, seed)
  BY DEF Plans
<1>3. QED
  BY <1>1, <1>2 DEF planned

\* The plan of two arms that take turns, over shuffled cells.
LEMMA ShuffledTurnsPlan ==
    ASSUME NEW cells, Unrepeated(cells), NEW s, NEW n \in Nat \ {0}, NEW x, NEW y, x # y
    PROVE  LET L == Laid(Shuffled(cells, s), Blocks(<<x, y>>, n))
               N == Size(Len(cells), n, 2)
           IN  /\ IsPlan(L, N) /\ CrossesAll(Range(L), cells, n, {x, y})
               /\ Balanced(Range(L), n, 2, {x, y}) /\ Turned(L, N, x, y)
<1> DEFINE c == Shuffled(cells, s)
           L == Laid(c, Blocks(<<x, y>>, n))
<1>1. Unrepeated(c) /\ Len(c) = Len(cells)
  BY ShuffledUnrepeated
<1> HIDE DEF c
<1>2. /\ IsPlan(L, Size(Len(c), n, 2)) /\ CrossesAll(Range(L), c, n, {x, y})
      /\ Balanced(Range(L), n, 2, {x, y}) /\ Turned(L, Size(Len(c), n, 2), x, y)
  BY <1>1, TurnsPlan
<1> HIDE DEF L
<1>3. CrossesAll(Range(L), cells, n, {x, y})
  BY <1>2, ShuffledPlan DEF c
<1>4. QED
  BY <1>1, <1>2, <1>3 DEF L, c

\* What is asked of the plan of two arms that take turns.
TurnsAsked(cells, size, x, y) ==
    /\ IsPlan(planned, Repeats[what] * size) /\ CrossesAll(Range(planned), cells, Repeats[what], {x, y})
    /\ Balanced(Range(planned), Repeats[what], 2, {x, y}) /\ Turned(planned, Repeats[what] * size, x, y)

\* Whatever the experiment and its seed, its plan is what its analyzer asks of a plan.
LEMMA PlannedAsAsked ==
    ASSUME what \in Experimented, seed \in Seeds
    PROVE  /\ what = "serializer" =>
                /\ IsPlan(planned, Repeats[what] * 8)
                /\ CrossesAll(Range(planned), SerializerCells, Repeats[what], {"original", "without_instance"})
                /\ Hinted(planned, Repeats[what] * 8)
           /\ what = "environment" => TurnsAsked(EnvironmentCells, 8, "minimal", "pytest")
           /\ what = "inventory" => TurnsAsked(InventoryCells, 10, "minimal", "pytest")
           /\ what = "plugins" => TurnsAsked(PluginCells, 18, "autoload", "django_only")
           /\ what = "full_gc" => TurnsAsked(Validations, 4, "autoload", "django_only")
           /\ what = "preparation" =>
                /\ IsPlan(planned, Repeats[what] * 8)
                /\ CrossesAll(Range(planned), Validations, Repeats[what], PreparationArms)
                /\ Balanced(Range(planned), Repeats[what], 4, PreparationArms)
<1> DEFINE n == Repeats[what]
<1>1. n \in Nat \ {0} /\ planned = Jobs(what, seed)
  BY PlannedJobs
<1>2. /\ Size(4, n, 2) = n * 8 /\ Size(5, n, 2) = n * 10 /\ Size(9, n, 2) = n * 18
      /\ Size(2, n, 2) = n * 4 /\ Size(2, n, 4) = n * 8
  <2> HIDE DEF n
  <2>1. QED
    BY <1>1 DEF Size
<1>3. ASSUME what = "serializer"
      PROVE  /\ IsPlan(planned, n * 8)
             /\ CrossesAll(Range(planned), SerializerCells, n, {"original", "without_instance"})
             /\ Hinted(planned, n * 8)
  <2>1. planned = SerializerJobs(n, seed)
    BY <1>1, <1>3 DEF Jobs
  <2> HIDE DEF n
  <2> DEFINE L == SerializerJobs(n, seed)
  <2>2. /\ IsPlan(L, Size(4, n, 2)) /\ CrossesAll(Range(L), SerializerCells, n, {"original", "without_instance"})
        /\ Hinted(L, Size(4, n, 2))
    BY <1>1, SerializerPlan
  <2> HIDE DEF L
  <2>3. planned = L
    BY <2>1 DEF L
  <2>4. QED
    BY <1>2, <2>2, <2>3
<1>4. ASSUME what = "environment"
      PROVE  TurnsAsked(EnvironmentCells, 8, "minimal", "pytest")
  <2> DEFINE L == Laid(Shuffled(EnvironmentCells, seed), Blocks(<<"minimal", "pytest">>, n))
  <2>1. planned = L
    BY <1>1, <1>4 DEF Jobs, EnvironmentJobs
  <2>2. Unrepeated(EnvironmentCells) /\ Len(EnvironmentCells) = 4 /\ "minimal" # "pytest"
    BY Cells
  <2> HIDE DEF n
  <2>3. /\ IsPlan(L, Size(Len(EnvironmentCells), n, 2)) /\ CrossesAll(Range(L), EnvironmentCells, n, {"minimal", "pytest"})
        /\ Balanced(Range(L), n, 2, {"minimal", "pytest"}) /\ Turned(L, Size(Len(EnvironmentCells), n, 2), "minimal", "pytest")
    BY <1>1, <2>2, ShuffledTurnsPlan
  <2> HIDE DEF L
  <2>4. Size(Len(EnvironmentCells), n, 2) = n * 8
    BY <1>2, <2>2
  <2>5. QED
    BY <2>1, <2>3, <2>4 DEF TurnsAsked, n
<1>5. ASSUME what = "inventory"
      PROVE  TurnsAsked(InventoryCells, 10, "minimal", "pytest")
  <2> DEFINE L == Laid(Shuffled(InventoryCells, seed), Blocks(<<"minimal", "pytest">>, n))
  <2>1. planned = L
    BY <1>1, <1>5 DEF Jobs, InventoryJobs
  <2>2. Unrepeated(InventoryCells) /\ Len(InventoryCells) = 5 /\ "minimal" # "pytest"
    BY Cells
  <2> HIDE DEF n
  <2>3. /\ IsPlan(L, Size(Len(InventoryCells), n, 2)) /\ CrossesAll(Range(L), InventoryCells, n, {"minimal", "pytest"})
        /\ Balanced(Range(L), n, 2, {"minimal", "pytest"}) /\ Turned(L, Size(Len(InventoryCells), n, 2), "minimal", "pytest")
    BY <1>1, <2>2, ShuffledTurnsPlan
  <2> HIDE DEF L
  <2>4. Size(Len(InventoryCells), n, 2) = n * 10
    BY <1>2, <2>2
  <2>5. QED
    BY <2>1, <2>3, <2>4 DEF TurnsAsked, n
<1>6. ASSUME what = "plugins"
      PROVE  TurnsAsked(PluginCells, 18, "autoload", "django_only")
  <2> DEFINE L == Laid(Shuffled(PluginCells, seed), Blocks(<<"autoload", "django_only">>, n))
  <2>1. planned = L
    BY <1>1, <1>6 DEF Jobs, PluginJobs
  <2>2. Unrepeated(PluginCells) /\ Len(PluginCells) = 9 /\ "autoload" # "django_only"
    BY Cells
  <2> HIDE DEF n
  <2>3. /\ IsPlan(L, Size(Len(PluginCells), n, 2)) /\ CrossesAll(Range(L), PluginCells, n, {"autoload", "django_only"})
        /\ Balanced(Range(L), n, 2, {"autoload", "django_only"}) /\ Turned(L, Size(Len(PluginCells), n, 2), "autoload", "django_only")
    BY <1>1, <2>2, ShuffledTurnsPlan
  <2> HIDE DEF L
  <2>4. Size(Len(PluginCells), n, 2) = n * 18
    BY <1>2, <2>2
  <2>5. QED
    BY <2>1, <2>3, <2>4 DEF TurnsAsked, n
<1>7. ASSUME what = "full_gc"
      PROVE  TurnsAsked(Validations, 4, "autoload", "django_only")
  <2> DEFINE L == Laid(Shuffled(Validations, seed), Blocks(<<"autoload", "django_only">>, n))
  <2>1. planned = L
    BY <1>1, <1>7 DEF Jobs, FullGcJobs
  <2>2. Unrepeated(Validations) /\ Len(Validations) = 2 /\ "autoload" # "django_only"
    BY Cells
  <2> HIDE DEF n
  <2>3. /\ IsPlan(L, Size(Len(Validations), n, 2)) /\ CrossesAll(Range(L), Validations, n, {"autoload", "django_only"})
        /\ Balanced(Range(L), n, 2, {"autoload", "django_only"}) /\ Turned(L, Size(Len(Validations), n, 2), "autoload", "django_only")
    BY <1>1, <2>2, ShuffledTurnsPlan
  <2> HIDE DEF L
  <2>4. Size(Len(Validations), n, 2) = n * 4
    BY <1>2, <2>2
  <2>5. QED
    BY <2>1, <2>3, <2>4 DEF TurnsAsked, n
<1>8. ASSUME what = "preparation"
      PROVE  /\ IsPlan(planned, n * 8)
             /\ CrossesAll(Range(planned), Validations, n, PreparationArms)
             /\ Balanced(Range(planned), n, 4, PreparationArms)
  <2> DEFINE c == Shuffled(Validations, seed)
             L == Laid(c, [r \in 1..n |-> PreparationBlock(r)])
  <2>1. planned = L
    BY <1>1, <1>8 DEF Jobs, PreparationJobs
  <2> HIDE DEF n
  <2>2. Unrepeated(Validations) /\ Unrepeated(c) /\ Len(c) = 2
    BY Cells, ShuffledUnrepeated
  <2> HIDE DEF c
  <2>3. /\ IsPlan(L, Size(Len(c), n, 4)) /\ CrossesAll(Range(L), c, n, PreparationArms)
        /\ Balanced(Range(L), n, 4, PreparationArms)
    BY <1>1, <2>2, PreparationPlan
  <2> HIDE DEF L
  <2>4. CrossesAll(Range(L), Validations, n, PreparationArms)
    BY <2>2, <2>3, ShuffledPlan DEF c
  <2>5. QED
    BY <1>2, <2>1, <2>2, <2>3, <2>4
<1>9. QED
  BY <1>3, <1>4, <1>5, <1>6, <1>7, <1>8

\* A plan is the whole experiment.
LEMMA WholeWhenCrossed ==
    ASSUME NEW cells, NEW arms, NEW b, NEW size, what \in Experimented,
           IsPlan(planned, size), CrossesAll(Range(planned), cells, Repeats[what], arms),
           Len(cells) = (CASE what = "serializer" -> 4 [] what = "environment" -> 4 [] what = "inventory" -> 5
                           [] what = "plugins" -> 9 [] what = "full_gc" -> 2 [] what = "preparation" -> 2),
           what # "serializer" => Cardinality(arms) = b /\ Balanced(Range(planned), Repeats[what], b, arms)
    PROVE  Whole(Range(planned))
<1> DEFINE J == Range(planned)
           n == Repeats[what]
<1>1. Arms = arms
  <2>1. Arms = {j.arm : j \in J}
    BY DEF Arms, Range
  <2>2. QED
    BY <2>1 DEF CrossesAll
<1>2. {<<j.cell, j.repeat, j.arm>> : j \in J} = {j.cell : j \in J} \X (1..n) \X Arms
  BY <1>1 DEF CrossesAll
<1>3. Cardinality({j.cell : j \in J}) = Len(cells)
  BY DEF CrossesAll
<1>4. ASSUME n % Cardinality(Arms) = 0, what # "serializer",
             NEW c \in {j.cell : j \in J}, NEW a \in Arms, NEW p \in 1..Cardinality(Arms)
      PROVE  Cardinality({j \in J : j.cell = c /\ j.arm = a /\ j.place = p}) = n \div Cardinality(Arms)
  <2>1. Often(J, c, a, p, n \div Cardinality(Arms))
    BY <1>1, <1>4 DEF Balanced
  <2>2. QED
    BY <2>1 DEF Often
<1> HIDE DEF J, n
<1>5. Whole(J)
  BY <1>2, <1>3, <1>4 DEF Whole, n
<1>6. QED
  BY <1>5 DEF J

\* So every plan is the whole experiment.
LEMMA WholePlan ==
    ASSUME what \in Experimented, seed \in Seeds
    PROVE  Whole(Range(planned))
<1>1. what \in {"serializer", "environment", "inventory", "plugins", "full_gc", "preparation"}
  BY PlannedJobs
<1>2. ASSUME NEW cells, NEW size, NEW x, NEW y, x # y, TurnsAsked(cells, size, x, y), what # "serializer",
             Len(cells) = (CASE what = "serializer" -> 4 [] what = "environment" -> 4 [] what = "inventory" -> 5
                             [] what = "plugins" -> 9 [] what = "full_gc" -> 2 [] what = "preparation" -> 2)
      PROVE  Whole(Range(planned))
  <2>1. Cardinality({x, y}) = 2
    BY <1>2, TwoElements
  <2>2. QED
    BY <1>2, <2>1, WholeWhenCrossed DEF TurnsAsked
<1>3. CASE what = "serializer"
  <2>1. /\ IsPlan(planned, Repeats[what] * 8)
        /\ CrossesAll(Range(planned), SerializerCells, Repeats[what], {"original", "without_instance"})
        /\ Len(SerializerCells) = 4
    BY <1>3, PlannedAsAsked, Cells
  <2>2. QED
    BY <1>3, <2>1, WholeWhenCrossed
<1>4. CASE what = "environment"
  <2>1. TurnsAsked(EnvironmentCells, 8, "minimal", "pytest") /\ Len(EnvironmentCells) = 4 /\ "minimal" # "pytest"
    BY <1>4, PlannedAsAsked, Cells
  <2>2. QED
    BY <1>2, <1>4, <2>1
<1>5. CASE what = "inventory"
  <2>1. TurnsAsked(InventoryCells, 10, "minimal", "pytest") /\ Len(InventoryCells) = 5 /\ "minimal" # "pytest"
    BY <1>5, PlannedAsAsked, Cells
  <2>2. QED
    BY <1>2, <1>5, <2>1
<1>6. CASE what = "plugins"
  <2>1. TurnsAsked(PluginCells, 18, "autoload", "django_only") /\ Len(PluginCells) = 9 /\ "autoload" # "django_only"
    BY <1>6, PlannedAsAsked, Cells
  <2>2. QED
    BY <1>2, <1>6, <2>1
<1>7. CASE what = "full_gc"
  <2>1. TurnsAsked(Validations, 4, "autoload", "django_only") /\ Len(Validations) = 2 /\ "autoload" # "django_only"
    BY <1>7, PlannedAsAsked, Cells
  <2>2. QED
    BY <1>2, <1>7, <2>1
<1>8. CASE what = "preparation"
  <2>1. /\ IsPlan(planned, Repeats[what] * 8)
        /\ CrossesAll(Range(planned), Validations, Repeats[what], PreparationArms)
        /\ Balanced(Range(planned), Repeats[what], 4, PreparationArms)
        /\ Len(Validations) = 2
    BY <1>8, PlannedAsAsked, Cells
  <2>2. Cardinality(PreparationArms) = 4
    <3>1. 1 \in Nat \ {0}
      OBVIOUS
    <3>2. QED
      BY Cells, PreparationLayout, <3>1
  <2>3. QED
    BY <1>8, <2>1, <2>2, WholeWhenCrossed
<1>9. QED
  BY <1>1, <1>3, <1>4, <1>5, <1>6, <1>7, <1>8

----------------------------------------------------------------------------
(* A run of an experiment: the invariant of what is recorded.              *)

\* What a worker finds of the sources and plugins, what it reports, and what the
\* manifest has of a job.
Bits    == {0, 1}
Worlds  == [shared : Bits, own : Bits, plugins : Bits]
Reports == [job : Nat, pid : Nat, tidy : BOOLEAN, edited : BOOLEAN, shared : Bits, own : Bits,
            plugins : SUBSET {"django", "new"}]
EntryRecords == [job : Nat, file : Nat, code : {0, 1, Nothing}, launched : Nat, finished : Nat \cup {Nothing},
                 pid : Nat \cup {Nothing}, hash : Reports \cup {Nothing}]

\* An entry names the job's own file and times, and with a process id the report
\* of that process.
OwnEntry(en, size, reports) ==
    /\ en \in EntryRecords
    /\ en.job \in 1..size /\ en.file = en.job /\ en.launched = 2 * en.job
    /\ en.code = 0 => en.finished = 2 * en.job + 1
    /\ en.pid # Nothing => en.job \in DOMAIN reports /\ en.pid = reports[en.job].pid /\ en.hash = reports[en.job]

\* Every entry of the manifest is such a one.
OwnEntries(q, size, reports) == q \in Seq(EntryRecords) /\ \A k \in DOMAIN q : OwnEntry(q[k], size, reports)

\* The entry of a worker whose report was taken.
Full(i, rep) ==
    [job |-> i, file |-> i, code |-> 0, launched |-> 2 * i, finished |-> 2 * i + 1, pid |-> rep.pid, hash |-> rep]

\* The reports before that of job i.
First(reports, i) == [m \in 1..(i - 1) |-> reports[m]]

\* Before main(): nothing is there.
Untouched ==
    phase = "none" =>
        /\ what = "none" /\ runs = <<>> /\ files = <<>> /\ ran = <<>>
        /\ altered = FALSE /\ verdict = "none"

\* The types of what is recorded; a report for each process id.
Recording ==
    /\ phase \in {"none", "between", "worker", "failed", "killed", "done"}
    /\ world \in Worlds /\ altered \in BOOLEAN
    /\ files \in Seq(Reports) /\ ran \in Seq(Reports) /\ Len(files) = Len(ran)
    /\ runs \in Seq(EntryRecords) /\ Len(ran) <= Len(runs)

\* What a manifest holds.
DiskFields == {"there", "torn", "complete", "runs", "plan", "expected", "intact", "reference"}

\* Once started, the entries in memory and on the disk are of their own jobs, altered or not.
Saved ==
    phase # "none" =>
        /\ what \in Experimented /\ seed \in Seeds
        /\ Len(runs) <= Len(planned) /\ OwnEntries(runs, Len(planned), ran)
        /\ DOMAIN disk = DiskFields /\ disk.expected = Len(planned)
        /\ OwnEntries(disk.runs, Len(planned), ran)

\* While nothing is altered, every report was judged against those before it and recorded
\* whole; of a job under way there is a bare entry; and a completed manifest has all of it.
Carried ==
    /\ phase \in {"between", "worker"} => altered = FALSE
    /\ phase \in {"between", "worker", "done"} /\ altered = FALSE =>
        /\ files = ran
        /\ \A i \in DOMAIN ran : runs[i] = Full(i, ran[i]) /\ GoodReport(ran[i], i, First(ran, i))
        /\ phase # "worker" => Len(runs) = Len(ran)
        /\ phase = "worker" => Len(runs) = Len(ran) + 1 /\ runs[Len(runs)] = Entry(Len(runs))
        /\ phase = "done" => Len(runs) = Len(planned) /\ disk = Manifest(planned, runs, TRUE)

\* What was accepted has a file for every job of the plan and no other.
AcceptedIsAll ==
    verdict = "accepted" =>
        /\ \A n \in DOMAIN Entries : FileOf(n).job \in DOMAIN planned
        /\ \A k \in DOMAIN planned : \E n \in DOMAIN Entries : FileOf(n).job = k

\* The invariant: what is on the record, how it came there, and what a verdict says of it.
ExperimentInv ==
    Untouched /\ Recording /\ Saved /\ Carried /\ AcceptedIsAll /\ AcceptedAsRun /\ CompletedIsAccepted

\* A report is judged by the experiment and its plan only.
LEMMA JudgedAlike ==
    ASSUME what' = what, planned' = planned
    PROVE  \A rep, i, q : GoodReport(rep, i, q)' <=> GoodReport(rep, i, q)
BY DEF GoodReport, SerializerReport, EnvironmentReport, InventoryReport, PluginReport, FullGcReport, PreparationReport

\* A later report takes nothing from an entry.
LEMMA OwnLater ==
    ASSUME NEW q, NEW size, NEW reports \in Seq(Reports), NEW rep \in Reports, OwnEntries(q, size, reports)
    PROVE  OwnEntries(q, size, Append(reports, rep))
<1> DEFINE r == Append(reports, rep)
<1>1. /\ DOMAIN reports \subseteq DOMAIN r
      /\ \A i \in DOMAIN reports : r[i] = reports[i]
  OBVIOUS
<1> HIDE DEF r
<1>2. ASSUME NEW en, OwnEntry(en, size, reports) PROVE OwnEntry(en, size, r)
  BY <1>1, <1>2 DEF OwnEntry
<1>3. QED
  BY <1>2 DEF OwnEntries, r

\* The entry of a job that is launched.
LEMMA EntryIsOwn ==
    ASSUME NEW size \in Nat, NEW i \in 1..size, NEW reports
    PROVE  /\ OwnEntry(Entry(i), size, reports) /\ Entry(i) \in EntryRecords
           /\ Entry(i).job = i
BY ExperimentConstants DEF OwnEntry, Entry, EntryRecords

\* Adding an entry of its own to the manifest.
LEMMA OwnAppended ==
    ASSUME NEW q, NEW size, NEW reports, OwnEntries(q, size, reports), NEW en, OwnEntry(en, size, reports)
    PROVE  OwnEntries(Append(q, en), size, reports)
<1> DEFINE r == Append(q, en)
<1>1. q \in Seq(EntryRecords) /\ en \in EntryRecords
  BY DEF OwnEntries, OwnEntry
<1>2. /\ r \in Seq(EntryRecords)
      /\ \A k \in DOMAIN r : r[k] = en \/ (k \in DOMAIN q /\ r[k] = q[k])
  BY <1>1
<1> HIDE DEF r
<1>3. OwnEntries(r, size, reports)
  BY <1>2 DEF OwnEntries
<1>4. QED
  BY <1>3 DEF r

\* The manifest with another entry for job i.
WithEntry(q, i, en) == [q EXCEPT ![i] = en]

\* Writing an entry anew.
LEMMA OwnReplaced ==
    ASSUME NEW q, NEW size, NEW reports, OwnEntries(q, size, reports), NEW en, OwnEntry(en, size, reports), NEW i
    PROVE  OwnEntries(WithEntry(q, i, en), size, reports) /\ Len(WithEntry(q, i, en)) = Len(q)
<1> DEFINE r == [q EXCEPT ![i] = en]
<1>1. q \in Seq(EntryRecords) /\ en \in EntryRecords
  BY DEF OwnEntries, OwnEntry
<1>2. /\ r \in Seq(EntryRecords) /\ DOMAIN r = DOMAIN q /\ Len(r) = Len(q)
      /\ \A k \in DOMAIN r : r[k] = en \/ (k \in DOMAIN q /\ r[k] = q[k])
  <2>1. Len(q) \in Nat /\ DOMAIN q = 1..Len(q) /\ q \in [1..Len(q) -> EntryRecords]
    BY <1>1
  <2>2. r = [k \in 1..Len(q) |-> IF k = i THEN en ELSE q[k]]
    BY <2>1
  <2>3. r \in [1..Len(q) -> EntryRecords]
    BY <1>1, <2>1
  <2> HIDE DEF r
  <2>4. r \in Seq(EntryRecords) /\ DOMAIN r = DOMAIN q
    BY <2>1, <2>3
  <2>5. Len(r) = Len(q)
    BY <2>1, <2>4
  <2>6. QED
    BY <2>1, <2>2, <2>4, <2>5
<1> HIDE DEF r
<1>3. OwnEntries(r, size, reports)
  BY <1>2 DEF OwnEntries
<1>4. QED
  BY <1>2, <1>3 DEF r, WithEntry

\* The entry of a worker whose report was taken names its report.
LEMMA FullIsOwn ==
    ASSUME NEW size \in Nat, NEW i \in 1..size, NEW reports, i \in DOMAIN reports, reports[i] \in Reports
    PROVE  /\ OwnEntry(Full(i, reports[i]), size, reports)
           /\ Full(i, reports[i]) \in EntryRecords
<1> DEFINE rep == reports[i]
<1>1. rep \in Reports /\ rep.pid \in Nat
  BY DEF Reports
<1> HIDE DEF rep
<1>2. Full(i, rep) \in EntryRecords
  BY <1>1 DEF Full, EntryRecords
<1>3. /\ Full(i, rep).job = i /\ Full(i, rep).file = i /\ Full(i, rep).launched = 2 * i
      /\ Full(i, rep).finished = 2 * i + 1 /\ Full(i, rep).pid = rep.pid /\ Full(i, rep).hash = rep
  BY DEF Full
<1>4. OwnEntry(Full(i, rep), size, reports)
  BY <1>2, <1>3 DEF OwnEntry, rep
<1>5. QED
  BY <1>2, <1>4 DEF rep

\* What came before a job does not change with a later report.
LEMMA FirstAppended ==
    ASSUME NEW r \in Seq(Reports), NEW rep \in Reports
    PROVE  /\ \A i \in 1..(Len(r) + 1) : First(Append(r, rep), i) = First(r, i)
           /\ First(r, Len(r) + 1) = r
<1> DEFINE q == Append(r, rep)
<1>1. /\ Len(r) \in Nat /\ DOMAIN r = 1..Len(r)
      /\ \A m \in 1..Len(r) : q[m] = r[m]
  OBVIOUS
<1> HIDE DEF q
<1>2. ASSUME NEW i \in 1..(Len(r) + 1) PROVE First(q, i) = First(r, i)
  <2>1. \A m \in 1..(i - 1) : m \in 1..Len(r)
    BY <1>1
  <2>2. \A m \in 1..(i - 1) : q[m] = r[m]
    BY <1>1, <2>1
  <2>3. QED
    BY <2>2 DEF First
<1>3. First(r, Len(r) + 1) = r
  <2>1. (Len(r) + 1) - 1 = Len(r)
    BY <1>1
  <2>2. First(r, Len(r) + 1) = [m \in 1..Len(r) |-> r[m]]
    BY <2>1 DEF First
  <2>3. r = [m \in DOMAIN r |-> r[m]]
    BY <1>1
  <2>4. QED
    BY <1>1, <2>2, <2>3
<1>4. QED
  BY <1>2, <1>3 DEF q

\* m is the manifest of a plan of jobs and the entries rs.
IsSaved(m, jobs, rs) ==
    /\ DOMAIN m = DiskFields
    /\ m.runs = rs /\ m.expected = Len(jobs) /\ m.torn = FALSE /\ m.intact = TRUE
    /\ m.plan = [i \in DOMAIN jobs |-> i]

\* What write_manifest() writes.
LEMMA ManifestIs ==
    /\ \A jobs, rs : IsSaved(Manifest(jobs, rs, FALSE), jobs, rs)
    /\ \A jobs, rs : /\ IsSaved(Manifest(jobs, rs, TRUE), jobs, rs)
                     /\ Manifest(jobs, rs, TRUE).complete = TRUE
                     /\ Manifest(jobs, rs, TRUE).reference = Sources(rs[1].hash)
BY DEF Manifest, DiskFields, IsSaved

\* The plan is a sequence of some length.
LEMMA PlannedLength ==
    ASSUME what \in Experimented, seed \in Seeds
    PROVE  Len(planned) \in Nat \ {0} /\ DOMAIN planned = 1..Len(planned)
<1>1. \E size : IsPlan(planned, size)
  <2>1. what \in {"serializer", "environment", "inventory", "plugins", "full_gc", "preparation"}
    BY PlannedJobs
  <2>2. QED
    BY <2>1, PlannedAsAsked DEF TurnsAsked
<1>2. QED
  BY <1>1 DEF IsPlan

\* Until there is a verdict nothing is said of it.
LEMMA Unjudged ==
    ASSUME Recording', Saved', Carried', phase' # "none", verdict' = "none"
    PROVE  ExperimentInv'
BY DEF ExperimentInv, Untouched, AcceptedIsAll, AcceptedAsRun, CompletedIsAccepted

\* What a worker reports.
LEMMA ReportTyped ==
    ASSUME NEW i \in Nat, NEW pid \in Nat, NEW w \in Worlds, NEW tidy \in BOOLEAN
    PROVE  Report(i, pid, w, tidy) \in Reports /\ Report(i, pid, w, tidy).pid = pid
<1>1. w.shared \in Bits /\ w.own \in Bits
  BY DEF Worlds
<1>2. \A arm : Loaded(arm, w) \in SUBSET {"django", "new"}
  BY DEF Loaded
<1>3. (IF what = "serializer" THEN {} ELSE Loaded(Profile(planned[i].arm), w)) \in SUBSET {"django", "new"}
  BY <1>2
<1>4. QED
  BY <1>1, <1>3 DEF Report, Reports

\* The plan has a length before and after a step.
LEMMA PlannedNext ==
    /\ (what \in Experimented /\ seed \in Seeds => Len(planned) \in Nat \ {0} /\ DOMAIN planned = 1..Len(planned))
    /\ (what \in Experimented /\ seed \in Seeds => Len(planned) \in Nat \ {0} /\ DOMAIN planned = 1..Len(planned))'
<1>1. what \in Experimented /\ seed \in Seeds => Len(planned) \in Nat \ {0} /\ DOMAIN planned = 1..Len(planned)
  BY PlannedLength
<1>2. QED
  BY <1>1, PTL

----------------------------------------------------------------------------
(* Every step of a run keeps it.                                           *)

\* main() of a runner.
LEMMA StartKeeps ==
    ASSUME ExperimentInv, NEW e \in Experimented, NEW s \in Seeds, StartExperiment(e, s)
    PROVE  ExperimentInv'
<1>1. /\ phase = "none" /\ what' = e /\ seed' = s /\ phase' = "between"
      /\ disk' = Manifest(Plans[e][s], <<>>, FALSE)
      /\ runs' = runs /\ files' = files /\ world' = world /\ altered' = altered /\ ran' = ran /\ verdict' = verdict
  BY DEF StartExperiment
<1>2. runs = <<>> /\ files = <<>> /\ ran = <<>> /\ altered = FALSE /\ verdict = "none" /\ world \in Worlds
  BY <1>1 DEF ExperimentInv, Untouched, Recording
<1>3. planned' = Plans[e][s] /\ Len(planned') \in Nat
  BY <1>1, PlannedNext DEF planned
<1>4. \A n, r : OwnEntries(<<>>, n, r)
  BY DEF OwnEntries
<1>5. Recording'
  BY <1>1 DEF ExperimentInv, Recording
<1>6. Saved'
  <2>1. DOMAIN disk' = DiskFields /\ disk'.expected = Len(Plans[e][s]) /\ disk'.runs = <<>>
    <3>1. IsSaved(Manifest(Plans[e][s], <<>>, FALSE), Plans[e][s], <<>>)
      BY ManifestIs
    <3>2. IsSaved(disk', Plans[e][s], <<>>)
      BY <1>1, <3>1
    <3>3. QED
      BY <3>2 DEF IsSaved
  <2>2. Len(runs') <= Len(planned')
    BY <1>1, <1>2, <1>3
  <2>3. QED
    BY <1>1, <1>2, <1>3, <1>4, <2>1, <2>2 DEF Saved
<1>7. Carried'
  BY <1>1, <1>2 DEF Carried
<1>8. QED
  BY <1>1, <1>2, <1>5, <1>6, <1>7, Unjudged

\* What an action of a started experiment starts from.
LEMMA Underway ==
    ASSUME ExperimentInv, phase # "none"
    PROVE  /\ what \in Experimented /\ seed \in Seeds
           /\ Len(planned) \in Nat \ {0} /\ DOMAIN planned = 1..Len(planned)
           /\ Len(runs) \in Nat /\ Len(runs) <= Len(planned) /\ OwnEntries(runs, Len(planned), ran)
           /\ DOMAIN disk = DiskFields /\ disk.expected = Len(planned)
           /\ OwnEntries(disk.runs, Len(planned), ran)
           /\ world \in Worlds /\ files \in Seq(Reports) /\ ran \in Seq(Reports) /\ Len(files) = Len(ran)
           /\ runs \in Seq(EntryRecords) /\ Len(ran) <= Len(runs)
BY PlannedLength DEF ExperimentInv, Saved, Recording

\* Launching a worker, with the manifest saved before it.
LEMMA LaunchKeeps ==
    ASSUME ExperimentInv, Launch, verdict = "none"
    PROVE  ExperimentInv'
<1> DEFINE i == Len(runs) + 1
           rs == Append(runs, Entry(i))
<1>1. /\ phase = "between" /\ Len(runs) < Len(planned) /\ runs' = rs /\ disk' = Manifest(planned, rs, FALSE)
      /\ phase' = "worker" /\ what' = what /\ seed' = seed /\ files' = files /\ world' = world
      /\ altered' = altered /\ ran' = ran /\ verdict' = verdict
  BY DEF Launch
<1>2. phase # "none" /\ planned' = planned
  BY <1>1 DEF planned
<1>3. /\ what \in Experimented /\ seed \in Seeds /\ Len(planned) \in Nat /\ Len(runs) \in Nat
      /\ OwnEntries(runs, Len(planned), ran) /\ runs \in Seq(EntryRecords)
      /\ world \in Worlds /\ files \in Seq(Reports) /\ ran \in Seq(Reports) /\ Len(files) = Len(ran)
      /\ Len(ran) <= Len(runs)
  BY <1>2, Underway
<1>4. /\ altered = FALSE /\ files = ran /\ Len(runs) = Len(ran)
      /\ \A k \in DOMAIN ran : runs[k] = Full(k, ran[k]) /\ GoodReport(ran[k], k, First(ran, k))
  BY <1>1 DEF ExperimentInv, Carried
<1>5. i \in 1..Len(planned)
  BY <1>1, <1>3
<1>6. OwnEntry(Entry(i), Len(planned), ran) /\ Entry(i) \in EntryRecords
  BY <1>3, <1>5, EntryIsOwn
<1>7. /\ rs \in Seq(EntryRecords) /\ Len(rs) = i /\ rs[i] = Entry(i)
      /\ \A k \in 1..Len(runs) : rs[k] = runs[k]
  <2> HIDE DEF i
  <2>1. QED
    BY <1>3, <1>6 DEF i
<1>8. OwnEntries(rs, Len(planned), ran)
  BY <1>3, <1>6, OwnAppended
<1>0. i = Len(runs) + 1
  OBVIOUS
<1> HIDE DEF rs, i
<1>9. Recording'
  <2>1. altered' \in BOOLEAN
    BY <1>1 DEF ExperimentInv, Recording
  <2>2. QED
    BY <1>0, <1>1, <1>3, <1>7, <2>1 DEF Recording
<1>10. Saved'
  <2>1. DOMAIN disk' = DiskFields /\ disk'.expected = Len(planned) /\ disk'.runs = rs
    <3>1. disk' = Manifest(planned, rs, FALSE)
      BY <1>1
    <3>2. IsSaved(Manifest(planned, rs, FALSE), planned, rs)
      BY ManifestIs
    <3>3. QED
      BY <3>1, <3>2 DEF IsSaved
  <2>2. Len(rs) <= Len(planned)
    BY <1>3, <1>5, <1>7
  <2>3. OwnEntries(runs', Len(planned'), ran') /\ OwnEntries(disk'.runs, Len(planned'), ran')
    BY <1>1, <1>2, <1>8, <2>1
  <2>4. QED
    BY <1>1, <1>2, <1>3, <2>1, <2>2, <2>3 DEF Saved
<1>11. Carried'
  <2>1. \A k \in DOMAIN ran : k \in 1..Len(runs)
    BY <1>3, <1>4
  <2>2. \A rep, k, q : GoodReport(rep, k, q)' <=> GoodReport(rep, k, q)
    BY <1>1, <1>2, JudgedAlike
  <2>3. \A k \in DOMAIN ran : rs[k] = Full(k, ran[k]) /\ GoodReport(ran[k], k, First(ran, k))
    BY <1>4, <1>7, <2>1
  <2>4. Len(runs') = Len(ran') + 1 /\ runs'[Len(runs')] = Entry(Len(runs'))
    BY <1>1, <1>4, <1>0, <1>7
  <2>5. phase' = "worker" /\ altered' = FALSE /\ files' = ran' /\ ran' = ran /\ runs' = rs
    BY <1>1, <1>4
  <2>6. \A k \in DOMAIN ran' : runs'[k] = Full(k, ran'[k])
    BY <2>3, <2>5
  <2>7. (\A k \in DOMAIN ran : GoodReport(ran[k], k, First(ran, k)))'
    BY <2>2, <2>3, <2>5
  <2>8. QED
    BY <2>4, <2>5, <2>6, <2>7 DEF Carried
<1>12. QED
  BY <1>1, <1>9, <1>10, <1>11, Unjudged

\* A runner that stops at a worker that failed or at a report it rejects.
LEMMA FailsKeeps ==
    ASSUME ExperimentInv, Fails, verdict = "none"
    PROVE  ExperimentInv'
<1> DEFINE i == Len(runs)
           en == [runs[i] EXCEPT !.code = 1, !.finished = 2 * i + 1]
<1>1. /\ phase \in {"between", "worker"} /\ phase' = "failed"
      /\ runs' = IF phase = "worker" THEN [runs EXCEPT ![i] = en] ELSE runs
      /\ disk' = Manifest(planned, runs', FALSE)
      /\ what' = what /\ seed' = seed /\ files' = files /\ world' = world
      /\ altered' = altered /\ ran' = ran /\ verdict' = verdict
  BY DEF Fails
<1>2. phase # "none" /\ planned' = planned
  BY <1>1 DEF planned
<1>3. /\ what \in Experimented /\ seed \in Seeds /\ Len(planned) \in Nat /\ i \in Nat /\ i <= Len(planned)
      /\ OwnEntries(runs, Len(planned), ran) /\ runs \in Seq(EntryRecords)
      /\ world \in Worlds /\ files \in Seq(Reports) /\ ran \in Seq(Reports) /\ Len(files) = Len(ran)
      /\ Len(ran) <= i
  BY <1>2, Underway
<1>4. phase = "worker" => i = Len(ran) + 1 /\ runs[i] = Entry(i)
  BY <1>1 DEF ExperimentInv, Carried
<1>5. OwnEntries(runs', Len(planned), ran) /\ Len(runs') = i
  <2>1. CASE phase = "worker"
    <3>1. i \in 1..Len(planned)
      BY <1>3, <1>4, <2>1
    <3>2. OwnEntry(en, Len(planned), ran)
      <4>1. en = [Entry(i) EXCEPT !.code = 1, !.finished = 2 * i + 1]
        BY <1>4, <2>1
      <4>2. /\ en.job = i /\ en.file = i /\ en.code = 1 /\ en.launched = 2 * i /\ en.finished = 2 * i + 1
            /\ en.pid = Nothing /\ en.hash = Nothing
        BY <4>1 DEF Entry
      <4>3. en \in EntryRecords
        <5>1. en = [job |-> i, file |-> i, code |-> 1, launched |-> 2 * i, finished |-> 2 * i + 1,
                    pid |-> Nothing, hash |-> Nothing]
          <6>1. [Entry(i) EXCEPT !.code = 1] =
                   [job |-> i, file |-> i, code |-> 1, launched |-> 2 * i, finished |-> Nothing,
                    pid |-> Nothing, hash |-> Nothing]
            BY DEF Entry
          <6>2. en = [[Entry(i) EXCEPT !.code = 1] EXCEPT !.finished = 2 * i + 1]
            BY <4>1
          <6> HIDE DEF en
          <6>3. QED
            BY <6>1, <6>2
        <5> HIDE DEF en, i
        <5>2. i \in Nat /\ 2 * i \in Nat /\ 2 * i + 1 \in Nat
          BY <1>3
        <5>3. QED
          BY <5>1, <5>2 DEF EntryRecords
      <4> HIDE DEF en, i
      <4>4. QED
        BY <3>1, <4>2, <4>3 DEF OwnEntry
    <3> HIDE DEF en
    <3>3. OwnEntries([runs EXCEPT ![i] = en], Len(planned), ran) /\ Len([runs EXCEPT ![i] = en]) = i
      <4>1. /\ OwnEntries(WithEntry(runs, i, en), Len(planned), ran)
            /\ Len(WithEntry(runs, i, en)) = Len(runs) /\ Len(runs) = i
        BY <1>3, <3>2, OwnReplaced
      <4>2. QED
        BY <4>1 DEF WithEntry
    <3>4. QED
      BY <1>1, <2>1, <3>3
  <2>2. CASE phase = "between"
    BY <1>1, <1>3, <2>2
  <2>3. QED
    BY <1>1, <2>1, <2>2
<1>6. Recording'
  BY <1>1, <1>3, <1>5 DEF ExperimentInv, Recording, OwnEntries
<1>7. Saved'
  <2>1. DOMAIN disk' = DiskFields /\ disk'.expected = Len(planned) /\ disk'.runs = runs'
    <3>1. disk' = Manifest(planned, runs', FALSE)
      BY <1>1
    <3>2. IsSaved(Manifest(planned, runs', FALSE), planned, runs')
      BY ManifestIs
    <3>3. QED
      BY <3>1, <3>2 DEF IsSaved
  <2>2. QED
    BY <1>1, <1>2, <1>3, <1>5, <2>1 DEF Saved
<1>8. Carried'
  BY <1>1 DEF Carried
<1>9. QED
  BY <1>1, <1>6, <1>7, <1>8, Unjudged

\* The last manifest, marked complete.
LEMMA CompletesKeeps ==
    ASSUME ExperimentInv, Completes, verdict = "none"
    PROVE  ExperimentInv'
<1>1. /\ phase = "between" /\ Len(runs) = Len(planned) /\ phase' = "done" /\ disk' = Manifest(planned, runs, TRUE)
      /\ what' = what /\ seed' = seed /\ runs' = runs /\ files' = files /\ world' = world
      /\ altered' = altered /\ ran' = ran /\ verdict' = verdict
  BY DEF Completes
<1>2. phase # "none" /\ planned' = planned
  BY <1>1 DEF planned
<1>3. /\ what \in Experimented /\ seed \in Seeds /\ Len(runs) <= Len(planned)
      /\ OwnEntries(runs, Len(planned), ran)
  BY <1>2, Underway
<1>4. Recording'
  BY <1>1 DEF ExperimentInv, Recording
<1>5. Saved'
  <2>1. DOMAIN disk' = DiskFields /\ disk'.expected = Len(planned) /\ disk'.runs = runs
    <3>1. IsSaved(disk', planned, runs)
      BY <1>1, ManifestIs
    <3>2. QED
      BY <3>1 DEF IsSaved
  <2>2. QED
    BY <1>1, <1>2, <1>3, <2>1 DEF Saved
<1>6. Carried'
  <2>1. \A rep, k, q : GoodReport(rep, k, q)' <=> GoodReport(rep, k, q)
    BY <1>1, <1>2, JudgedAlike
  <2>2. disk' = Manifest(planned', runs', TRUE)
    BY <1>1, <1>2
  <2>3. /\ files = ran /\ Len(runs) = Len(ran)
        /\ \A k \in DOMAIN ran : runs[k] = Full(k, ran[k]) /\ GoodReport(ran[k], k, First(ran, k))
    BY <1>1 DEF ExperimentInv, Carried
  <2>4. QED
    BY <1>1, <1>2, <2>1, <2>2, <2>3 DEF Carried
<1>7. QED
  BY <1>1, <1>4, <1>5, <1>6, Unjudged

\* A runner that dies, maybe while it writes the manifest.
LEMMA KilledKeeps ==
    ASSUME ExperimentInv, Killed, verdict = "none"
    PROVE  ExperimentInv'
<1>1. /\ phase \in {"between", "worker"} /\ phase' = "killed"
      /\ disk' = disk \/ disk' = [disk EXCEPT !.torn = TRUE]
      /\ what' = what /\ seed' = seed /\ runs' = runs /\ files' = files /\ world' = world
      /\ altered' = altered /\ ran' = ran /\ verdict' = verdict
  BY DEF Killed
<1>2. phase # "none" /\ planned' = planned
  BY <1>1 DEF planned
<1>3. /\ what \in Experimented /\ seed \in Seeds /\ Len(runs) <= Len(planned)
      /\ OwnEntries(runs, Len(planned), ran)
      /\ DOMAIN disk = DiskFields /\ disk.expected = Len(planned)
      /\ OwnEntries(disk.runs, Len(planned), ran)
  BY <1>2, Underway
<1>4. DOMAIN disk' = DiskFields /\ disk'.expected = disk.expected /\ disk'.runs = disk.runs
  BY <1>1, <1>3 DEF DiskFields
<1>5. Recording'
  BY <1>1 DEF ExperimentInv, Recording
<1>6. Saved'
  BY <1>1, <1>2, <1>3, <1>4 DEF Saved
<1>7. Carried'
  BY <1>1 DEF Carried
<1>8. QED
  BY <1>1, <1>5, <1>6, <1>7, Unjudged

\* The sources or the plugins change between two workers.
LEMMA DriftKeeps ==
    ASSUME ExperimentInv, NEW part \in DOMAIN world, Drift(part), verdict = "none"
    PROVE  ExperimentInv'
<1>1. /\ phase \in {"between", "worker"} /\ world' = [world EXCEPT ![part] = 1]
      /\ what' = what /\ seed' = seed /\ phase' = phase /\ runs' = runs /\ disk' = disk /\ files' = files
      /\ altered' = altered /\ ran' = ran /\ verdict' = verdict
  BY DEF Drift
<1>2. phase # "none" /\ planned' = planned
  BY <1>1 DEF planned
<1>3. world \in Worlds
  BY <1>2, Underway
<1>4. world' \in Worlds
  BY <1>1, <1>3 DEF Worlds, Bits
<1>5. Recording'
  BY <1>1, <1>4 DEF ExperimentInv, Recording
<1>6. Saved'
  BY <1>1, <1>2 DEF ExperimentInv, Saved
<1>7. Carried'
  <2>1. \A rep, k, q : GoodReport(rep, k, q)' <=> GoodReport(rep, k, q)
    BY <1>1, <1>2, JudgedAlike
  <2>2. /\ altered = FALSE /\ files = ran
        /\ \A k \in DOMAIN ran : runs[k] = Full(k, ran[k]) /\ GoodReport(ran[k], k, First(ran, k))
        /\ phase # "worker" => Len(runs) = Len(ran)
        /\ phase = "worker" => Len(runs) = Len(ran) + 1 /\ runs[Len(runs)] = Entry(Len(runs))
    BY <1>1 DEF ExperimentInv, Carried
  <2>3. QED
    BY <1>1, <1>2, <2>1, <2>2 DEF Carried
<1>8. QED
  BY <1>1, <1>2, <1>5, <1>6, <1>7, Unjudged

\* A worker that ends: its report is judged and recorded with its process and its hash, or
\* the experiment fails.
LEMMA WorkerKeeps ==
    ASSUME ExperimentInv, NEW pid \in 1..Len(runs), NEW tidy \in BOOLEAN, WorkerEnds(pid, tidy), verdict = "none"
    PROVE  ExperimentInv'
<1> DEFINE i == Len(runs)
           rep == Report(i, pid, world, tidy)
           rs == [runs EXCEPT ![i] = Full(i, rep)]
           bad == [Entry(i) EXCEPT !.code = 0, !.finished = 2 * i + 1]
           r == Append(ran, rep)
<1>1. /\ phase = "worker" /\ files' = Append(files, rep) /\ ran' = r
      /\ what' = what /\ seed' = seed /\ world' = world /\ altered' = altered /\ verdict' = verdict
  BY DEF WorkerEnds
<1>2. phase # "none" /\ planned' = planned
  BY <1>1 DEF planned
<1>3. /\ what \in Experimented /\ seed \in Seeds /\ Len(planned) \in Nat /\ i \in Nat /\ i <= Len(planned)
      /\ OwnEntries(runs, Len(planned), ran) /\ runs \in Seq(EntryRecords)
      /\ world \in Worlds /\ files \in Seq(Reports) /\ ran \in Seq(Reports) /\ Len(files) = Len(ran)
  BY <1>2, Underway
<1>4. /\ altered = FALSE /\ files = ran /\ i = Len(ran) + 1 /\ runs[i] = Entry(i)
      /\ \A k \in DOMAIN ran : runs[k] = Full(k, ran[k]) /\ GoodReport(ran[k], k, First(ran, k))
  BY <1>1 DEF ExperimentInv, Carried
<1>5. \/ /\ GoodReport(rep, i, files) /\ runs' = rs /\ disk' = Manifest(planned, runs', FALSE) /\ phase' = "between"
      \/ /\ runs' = [runs EXCEPT ![i] = bad] /\ disk' = Manifest(planned, runs', FALSE) /\ phase' = "failed"
  <2>1. [Entry(i) EXCEPT !.code = 0, !.finished = 2 * i + 1, !.pid = pid, !.hash = rep] = Full(i, rep)
    <3>1. rep.pid = pid
      BY DEF Report
    <3> DEFINE a == [Entry(i) EXCEPT !.code = 0]
               b == [a EXCEPT !.finished = 2 * i + 1]
               c == [b EXCEPT !.pid = pid]
    <3> HIDE DEF rep, i
    <3>2. a = [job |-> i, file |-> i, code |-> 0, launched |-> 2 * i, finished |-> Nothing,
               pid |-> Nothing, hash |-> Nothing]
      BY DEF Entry
    <3> HIDE DEF a
    <3>3. b = [job |-> i, file |-> i, code |-> 0, launched |-> 2 * i, finished |-> 2 * i + 1,
               pid |-> Nothing, hash |-> Nothing]
      BY <3>2
    <3> HIDE DEF b
    <3>4. c = [job |-> i, file |-> i, code |-> 0, launched |-> 2 * i, finished |-> 2 * i + 1,
               pid |-> pid, hash |-> Nothing]
      BY <3>3
    <3> HIDE DEF c
    <3>5. [c EXCEPT !.hash = rep] = Full(i, rep)
      BY <3>1, <3>4 DEF Full
    <3>6. QED
      BY <3>5 DEF a, b, c
  <2>2. runs[i] = Entry(i)
    BY <1>4
  <2>3. \/ /\ GoodReport(rep, i, files) /\ phase' = "between"
           /\ runs' = [runs EXCEPT ![i] = [runs[i] EXCEPT !.code = 0, !.finished = 2 * i + 1, !.pid = pid, !.hash = rep]]
           /\ disk' = Manifest(planned, runs', FALSE)
        \/ /\ runs' = [runs EXCEPT ![i] = [runs[i] EXCEPT !.code = 0, !.finished = 2 * i + 1]] /\ phase' = "failed"
           /\ disk' = Manifest(planned, runs', FALSE)
    BY DEF WorkerEnds
  <2> HIDE DEF rep, i
  <2>4. QED
    BY <2>1, <2>2, <2>3
<1>6. rep \in Reports /\ rep.pid = pid
  <2>1. pid \in Nat
    OBVIOUS
  <2>2. QED
    BY <1>3, <2>1, ReportTyped
<1>7. i \in 1..Len(planned) /\ i \in 1..i
  BY <1>3, <1>4
<1>8. /\ r \in Seq(Reports) /\ Len(r) = i /\ DOMAIN r = 1..i /\ r[i] = rep
      /\ \A k \in 1..(i - 1) : k \in DOMAIN ran /\ r[k] = ran[k]
  <2> HIDE DEF rep
  <2>1. QED
    BY <1>3, <1>4, <1>6
<1>9. OwnEntries(runs, Len(planned), r)
  BY <1>3, <1>6, OwnLater
<1>10. /\ \A k \in 1..i : First(r, k) = First(ran, k)
       /\ First(ran, i) = ran
  <2> HIDE DEF rep, i
  <2>1. QED
    BY <1>3, <1>4, <1>6, FirstAppended
<1>11. files' = ran' /\ files' \in Seq(Reports) /\ ran' = r
  BY <1>1, <1>4, <1>8
<1>0. rs = [runs EXCEPT ![i] = Full(i, rep)]
  OBVIOUS
<1> HIDE DEF r, rep, i, rs
<1>12. OwnEntries(runs', Len(planned), r) /\ Len(runs') = i /\ DOMAIN disk' = DiskFields
       /\ disk'.expected = Len(planned) /\ disk'.runs = runs' /\ phase' \in {"between", "failed"}
  <2>1. IsSaved(disk', planned, runs') /\ phase' \in {"between", "failed"}
    <3>1. disk' = Manifest(planned, runs', FALSE) /\ phase' \in {"between", "failed"}
      BY <1>5
    <3>2. IsSaved(Manifest(planned, runs', FALSE), planned, runs')
      BY ManifestIs
    <3>3. QED
      BY <3>1, <3>2
  <2>2. CASE runs' = rs
    <3>1. OwnEntry(Full(i, r[i]), Len(planned), r)
      BY <1>3, <1>6, <1>7, <1>8, FullIsOwn
    <3>2. OwnEntries(rs, Len(planned), r) /\ Len(rs) = Len(runs)
      <4>1. OwnEntry(Full(i, rep), Len(planned), r)
        BY <1>8, <3>1
      <4>2. /\ OwnEntries([runs EXCEPT ![i] = Full(i, rep)], Len(planned), r)
            /\ Len([runs EXCEPT ![i] = Full(i, rep)]) = Len(runs)
        <5>1. OwnEntries(runs, Len(planned), r) /\ OwnEntry(Full(i, rep), Len(planned), r)
          BY <1>9, <4>1
        <5>2. /\ OwnEntries(WithEntry(runs, i, Full(i, rep)), Len(planned), r)
              /\ Len(WithEntry(runs, i, Full(i, rep))) = Len(runs)
          BY <5>1, OwnReplaced
        <5>3. QED
          BY <5>2 DEF WithEntry
      <4>3. QED
        BY <1>0, <4>2
    <3>3. QED
      BY <2>1, <2>2, <3>2 DEF IsSaved, i
  <2>3. CASE runs' = [runs EXCEPT ![i] = bad]
    <3>1. bad = [job |-> i, file |-> i, code |-> 0, launched |-> 2 * i, finished |-> 2 * i + 1,
                 pid |-> Nothing, hash |-> Nothing]
      <4>1. [Entry(i) EXCEPT !.code = 0] = [job |-> i, file |-> i, code |-> 0, launched |-> 2 * i,
                 finished |-> Nothing, pid |-> Nothing, hash |-> Nothing]
        BY DEF Entry
      <4>2. bad = [[Entry(i) EXCEPT !.code = 0] EXCEPT !.finished = 2 * i + 1]
        OBVIOUS
      <4> HIDE DEF bad
      <4>3. QED
        BY <4>1, <4>2
    <3> HIDE DEF bad
    <3>2. i \in Nat /\ 2 * i \in Nat /\ 2 * i + 1 \in Nat
      BY <1>3
    <3>3. bad \in EntryRecords
      BY <3>1, <3>2 DEF EntryRecords
    <3>4. OwnEntry(bad, Len(planned), r)
      BY <1>7, <3>1, <3>3 DEF OwnEntry
    <3>5. OwnEntries([runs EXCEPT ![i] = bad], Len(planned), r) /\ Len([runs EXCEPT ![i] = bad]) = Len(runs)
      <4>1. OwnEntries(runs, Len(planned), r) /\ OwnEntry(bad, Len(planned), r)
        BY <1>9, <3>4
      <4>2. OwnEntries(WithEntry(runs, i, bad), Len(planned), r) /\ Len(WithEntry(runs, i, bad)) = Len(runs)
        BY <4>1, OwnReplaced
      <4>3. QED
        BY <4>2 DEF WithEntry
    <3>6. QED
      BY <2>1, <2>3, <3>5 DEF IsSaved, i
  <2>4. QED
    BY <1>5, <2>2, <2>3
<1>13. Recording'
  <2>1. altered' \in BOOLEAN
    BY <1>1 DEF ExperimentInv, Recording
  <2>2. QED
    BY <1>1, <1>3, <1>8, <1>11, <1>12, <2>1 DEF Recording, OwnEntries
<1>14. Saved'
  <2>1. OwnEntries(runs', Len(planned'), ran') /\ OwnEntries(disk'.runs, Len(planned'), ran')
    BY <1>2, <1>11, <1>12
  <2>2. Len(runs') <= Len(planned')
    BY <1>2, <1>3, <1>12
  <2>3. QED
    BY <1>1, <1>2, <1>3, <1>12, <2>1, <2>2 DEF Saved
<1>15. Carried'
  <2>1. CASE phase' = "failed"
    BY <2>1 DEF Carried
  <2>2. CASE phase' = "between"
    <3>1. GoodReport(rep, i, files) /\ runs' = rs
      BY <1>5, <2>2
    <3>2. DOMAIN rs = 1..i /\ rs[i] = Full(i, rep) /\ \A k \in 1..(i - 1) : rs[k] = runs[k]
      <4>1. DOMAIN runs = 1..i
        BY <1>3 DEF i
      <4>2. QED
        BY <1>0, <1>7, <4>1
    <3>3. ASSUME NEW k \in 1..i
          PROVE  rs[k] = Full(k, r[k]) /\ GoodReport(r[k], k, First(r, k))
      <4>1. CASE k = i
        BY <1>4, <1>8, <1>10, <3>1, <3>2, <4>1
      <4>2. CASE k # i
        <5>1. k \in 1..(i - 1)
          BY <1>7, <4>2
        <5>2. QED
          BY <1>4, <1>8, <1>10, <3>2, <5>1
      <4>3. QED
        BY <4>1, <4>2
    <3>4. \A p, k, q : GoodReport(p, k, q)' <=> GoodReport(p, k, q)
      BY <1>1, <1>2, JudgedAlike
    <3>5. (\A k \in DOMAIN ran : runs[k] = Full(k, ran[k]) /\ GoodReport(ran[k], k, First(ran, k)))'
      BY <1>8, <1>11, <3>1, <3>3, <3>4
    <3>6. Len(runs') = Len(ran')
      BY <1>8, <1>11, <1>12
    <3>7. QED
      BY <1>1, <1>4, <1>11, <2>2, <3>5, <3>6 DEF Carried
  <2>3. QED
    BY <1>12, <2>1, <2>2
<1>16. QED
  BY <1>1, <1>12, <1>13, <1>14, <1>15, Unjudged

\* Two entries that change places stay what they are.
LEMMA SwappedIsOwn ==
    ASSUME NEW q, NEW size, NEW reports, OwnEntries(q, size, reports), NEW i \in 1..(Len(q) - 1)
    PROVE  OwnEntries(Swapped(q, i), size, reports)
<1> DEFINE s == Swapped(q, i)
<1>1. /\ q \in Seq(EntryRecords) /\ Len(q) \in Nat /\ DOMAIN q = 1..Len(q)
      /\ \A k \in 1..Len(q) : OwnEntry(q[k], size, reports)
  BY DEF OwnEntries
<1>2. i \in 1..Len(q) /\ i + 1 \in 1..Len(q)
  BY <1>1
<1>3. OwnEntries(WithEntry(q, i, q[i + 1]), size, reports)
  BY <1>1, <1>2, OwnReplaced
<1>4. OwnEntries(WithEntry(WithEntry(q, i, q[i + 1]), i + 1, q[i]), size, reports)
  BY <1>1, <1>2, <1>3, OwnReplaced
<1>5. s = WithEntry(WithEntry(q, i, q[i + 1]), i + 1, q[i])
  BY DEF Swapped, WithEntry
<1>6. QED
  BY <1>4, <1>5

\* As do those that are left when the last is lost.
LEMMA FrontIsOwn ==
    ASSUME NEW q, NEW size, NEW reports, OwnEntries(q, size, reports), q # <<>>
    PROVE  OwnEntries(Front(q), size, reports)
<1>1. q \in Seq(EntryRecords) /\ \A k \in DOMAIN q : OwnEntry(q[k], size, reports)
  BY DEF OwnEntries
<1>2. /\ Front(q) \in Seq(EntryRecords)
      /\ \A k \in DOMAIN Front(q) : k \in DOMAIN q /\ Front(q)[k] = q[k]
  BY <1>1 DEF Front
<1>3. QED
  BY <1>1, <1>2 DEF OwnEntries

\* Whatever becomes of the directory afterwards: a file lost, changed or taken from another
\* job, and entries lost, doubled or out of order.
LEMMA AlterKeeps ==
    ASSUME ExperimentInv, Alter
    PROVE  ExperimentInv'
<1>1. /\ phase \in {"done", "failed", "killed"} /\ verdict = "none" /\ altered' = TRUE
      /\ what' = what /\ seed' = seed /\ phase' = phase /\ runs' = runs /\ world' = world
      /\ ran' = ran /\ verdict' = verdict
  BY DEF Alter
<1>2. phase # "none" /\ planned' = planned
  BY <1>1 DEF planned
<1>3. /\ what \in Experimented /\ seed \in Seeds /\ Len(runs) <= Len(planned)
      /\ OwnEntries(runs, Len(planned), ran)
      /\ DOMAIN disk = DiskFields /\ disk.expected = Len(planned)
      /\ OwnEntries(disk.runs, Len(planned), ran)
      /\ world \in Worlds /\ files \in Seq(Reports) /\ ran \in Seq(Reports) /\ Len(files) = Len(ran)
      /\ runs \in Seq(EntryRecords) /\ Len(ran) <= Len(runs)
  BY <1>2, Underway
<1>4. /\ files' \in Seq(Reports) /\ Len(files') = Len(files)
      /\ DOMAIN disk' = DiskFields /\ disk'.expected = disk.expected
      /\ OwnEntries(disk'.runs, Len(planned), ran)
  <2>1. CASE \E i \in DOMAIN files, w \in {AsBefore, world} :
                files' = [files EXCEPT ![i] = Report(i, 0, w, TRUE)] /\ disk' = disk
    <3>1. PICK i \in DOMAIN files, w \in {AsBefore, world} :
                files' = [files EXCEPT ![i] = Report(i, 0, w, TRUE)] /\ disk' = disk
      BY <2>1
    <3>2. AsBefore \in Worlds
      BY DEF AsBefore, Worlds, Bits
    <3>3. i \in Nat /\ w \in Worlds
      BY <1>3, <3>2
    <3>4. Report(i, 0, w, TRUE) \in Reports
      BY <3>3, ReportTyped
    <3> DEFINE rep == Report(i, 0, w, TRUE)
    <3> HIDE DEF rep
    <3>5. files' = [files EXCEPT ![i] = rep] /\ rep \in Reports
      BY <3>1, <3>4 DEF rep
    <3>6. files' \in Seq(Reports) /\ Len(files') = Len(files)
      BY <1>3, <3>5
    <3>7. QED
      BY <1>3, <3>1, <3>6
  <2>2. CASE \E i \in DOMAIN files : files' = [files EXCEPT ![i].edited = TRUE] /\ disk' = disk
    <3>1. PICK i \in DOMAIN files : files' = [files EXCEPT ![i] = [files[i] EXCEPT !.edited = TRUE]] /\ disk' = disk
      BY <2>2
    <3>2. [files[i] EXCEPT !.edited = TRUE] \in Reports
      <4>1. files[i] \in Reports
        BY <1>3
      <4>2. QED
        BY <4>1 DEF Reports
    <3>3. files' \in Seq(Reports) /\ Len(files') = Len(files)
      BY <1>3, <3>1, <3>2
    <3>4. QED
      BY <1>3, <3>1, <3>3
  <2>3. CASE \E i, j \in DOMAIN files : i # j /\ files' = [files EXCEPT ![i] = files[j]] /\ disk' = disk
    BY <1>3, <2>3
  <2>4. CASE \E i \in 1..(Len(disk.runs) - 1), withPlan \in BOOLEAN :
                /\ files' = files
                /\ disk' = [disk EXCEPT !.runs = Swapped(@, i), !.plan = IF withPlan THEN Swapped(@, i) ELSE @]
    <3>1. PICK i \in 1..(Len(disk.runs) - 1), withPlan \in BOOLEAN :
                /\ files' = files
                /\ disk' = [disk EXCEPT !.runs = Swapped(disk.runs, i),
                                        !.plan = IF withPlan THEN Swapped(disk.plan, i) ELSE disk.plan]
      BY <2>4
    <3>2. OwnEntries(Swapped(disk.runs, i), Len(planned), ran)
      BY <1>3, SwappedIsOwn
    <3>3. DOMAIN disk' = DiskFields /\ disk'.expected = disk.expected /\ disk'.runs = Swapped(disk.runs, i)
      BY <1>3, <3>1 DEF DiskFields
    <3>4. QED
      BY <1>3, <3>1, <3>2, <3>3
  <2>5. CASE files' = files /\ disk.runs # <<>> /\ disk' = [disk EXCEPT !.runs = Front(@)]
    <3>1. OwnEntries(Front(disk.runs), Len(planned), ran)
      BY <1>3, <2>5, FrontIsOwn
    <3>2. DOMAIN disk' = DiskFields /\ disk'.expected = disk.expected /\ disk'.runs = Front(disk.runs)
      BY <1>3, <2>5 DEF DiskFields
    <3>3. QED
      BY <1>3, <2>5, <3>1, <3>2
  <2>6. CASE files' = files /\ (disk' = [disk EXCEPT !.intact = FALSE] \/ disk' = [disk EXCEPT !.complete = TRUE])
    <3>1. DOMAIN disk' = DiskFields /\ disk'.expected = disk.expected /\ disk'.runs = disk.runs
      BY <1>3, <2>6 DEF DiskFields
    <3>2. QED
      BY <1>3, <2>6, <3>1
  <2>7. QED
    BY <2>1, <2>2, <2>3, <2>4, <2>5, <2>6 DEF Alter
<1>5. Recording'
  BY <1>1, <1>3, <1>4 DEF Recording
<1>6. Saved'
  BY <1>1, <1>2, <1>3, <1>4 DEF Saved
<1>7. Carried'
  BY <1>1 DEF Carried
<1>8. QED
  BY <1>1, <1>2, <1>5, <1>6, <1>7, Unjudged

----------------------------------------------------------------------------
(* What an analyzer that accepts has seen, and what it cannot refuse.      *)

\* A sequence in which numbers of 1..N only rise, N of them, is 1, 2, ..., N: why times in
\* order leave no job out (analyzers check that a run starts after the one before it ended).
LEMMA Increasing ==
    ASSUME NEW N \in Nat, NEW f, \A n \in 1..N : f[n] \in 1..N, \A n \in 1..N : n > 1 => f[n - 1] < f[n]
    PROVE  \A n \in 1..N : f[n] = n
<1> DEFINE S == {k \in Nat : k + 1 \in 1..N => f[k + 1] >= k + 1}
           T == {k \in Nat : k < N => f[N - k] <= N - k}
<1>1. 0 \in S
  OBVIOUS
<1>2. ASSUME NEW k \in Nat, k \in S PROVE k + 1 \in S
  <2>1. SUFFICES ASSUME (k + 1) + 1 \in 1..N PROVE f[(k + 1) + 1] >= (k + 1) + 1
    OBVIOUS
  <2>2. k + 1 \in 1..N /\ f[k + 1] >= k + 1
    BY <1>2, <2>1
  <2> DEFINE n == (k + 1) + 1
  <2>3. n \in 1..N /\ n > 1 /\ n - 1 = k + 1
    BY <2>1
  <2> HIDE DEF n
  <2>4. f[n - 1] < f[n]
    BY <2>3
  <2>5. f[k + 1] \in Int /\ f[n] \in Int /\ f[k + 1] < f[n]
    BY <2>2, <2>3, <2>4
  <2>6. f[n] >= (k + 1) + 1
    BY <2>2, <2>5
  <2>7. QED
    BY <2>6 DEF n
<1>3. 0 \in T
  OBVIOUS
<1>4. ASSUME NEW k \in Nat, k \in T PROVE k + 1 \in T
  <2>1. SUFFICES ASSUME k + 1 < N PROVE f[N - (k + 1)] <= N - (k + 1)
    OBVIOUS
  <2> DEFINE n == N - k
  <2>2. n \in 1..N /\ n > 1 /\ f[n] <= n /\ n - 1 = N - (k + 1) /\ n - 1 \in 1..N
    BY <1>4, <2>1
  <2> HIDE DEF n
  <2>3. f[n - 1] < f[n] /\ f[n - 1] \in Int /\ f[n] \in Int
    BY <2>2
  <2>4. f[n - 1] <= n - 1
    BY <2>2, <2>3
  <2>5. QED
    BY <2>2, <2>4
<1> HIDE DEF S, T
<1>5. Nat \subseteq S /\ Nat \subseteq T
  BY <1>1, <1>2, <1>3, <1>4, AllNumbers
<1>6. ASSUME NEW n \in 1..N PROVE f[n] = n
  <2>1. n - 1 \in S /\ N - n \in T
    BY <1>5
  <2>2. (n - 1) + 1 = n /\ N - (N - n) = n /\ N - n < N
    OBVIOUS
  <2>3. f[n] >= n
    BY <2>1, <2>2 DEF S
  <2>4. f[n] <= n
    BY <2>1, <2>2 DEF T
  <2>5. QED
    BY <2>3, <2>4
<1>7. QED
  BY <1>6

\* A one-to-one numbering of N by 1..N leaves nothing out.
LEMMA NothingLeftOut ==
    ASSUME NEW N \in Nat, NEW f, DOMAIN f = 1..N, Len(f) = N, \A n \in 1..N : f[n] \in 1..N, Distinct(f)
    PROVE  \A k \in 1..N : \E n \in 1..N : f[n] = k
<1>1. Range(f) \subseteq 1..N
  BY DEF Range
<1>2. IsFiniteSet(1..N) /\ Cardinality(1..N) = N
  BY FS_Interval
<1>3. Cardinality(Range(f)) = N
  BY DEF Distinct
<1>4. Range(f) = 1..N
  <2>1. Range(f) \in SUBSET (1..N)
    BY <1>1
  <2>2. Cardinality(1..N) = Cardinality(Range(f)) => 1..N = Range(f)
    BY <1>2, <2>1, FS_Subset
  <2>3. QED
    BY <1>2, <1>3, <2>2
<1>5. QED
  BY <1>4 DEF Range

\* A numbering over 1..N by itself.
LEMMA Identity ==
    ASSUME NEW N \in Nat
    PROVE  LET f == [n \in 1..N |-> n] IN Distinct(f) /\ Len(f) = N /\ Range(f) = 1..N /\ DOMAIN f = 1..N
<1> DEFINE f == [n \in 1..N |-> n]
<1>1. DOMAIN f = 1..N /\ f \in Seq(1..N) /\ Len(f) = N
  OBVIOUS
<1>2. Range(f) = 1..N
  BY DEF Range
<1>3. IsFiniteSet(1..N) /\ Cardinality(1..N) = N
  BY FS_Interval
<1> HIDE DEF f
<1>4. Distinct(f)
  BY <1>1, <1>2, <1>3 DEF Distinct
<1>5. QED
  BY <1>1, <1>2, <1>4 DEF f

\* What every judgement of a report asks.
LEMMA Judgement ==
    ASSUME what \in Experimented, seed \in Seeds, NEW rep, NEW i, NEW earlier, GoodReport(rep, i, earlier)
    PROVE  /\ rep.job = i /\ SameSources(rep, earlier)
           /\ what = "serializer" => rep.tidy
           /\ what = "environment" =>
                IF planned[i].arm = "minimal" THEN rep.plugins = {}
                ELSE rep.plugins # {} /\ SamePlugins(rep, earlier)
           /\ what \notin {"serializer", "environment"} => rep.plugins = ExpectedPlugins(Profile(planned[i].arm))
<1>1. what \in {"serializer", "environment", "inventory", "plugins", "full_gc", "preparation"}
  BY PlannedJobs
<1>2. CASE what = "serializer"
  BY <1>2 DEF GoodReport, SerializerReport
<1>3. CASE what = "environment"
  BY <1>3 DEF GoodReport, EnvironmentReport
<1>4. CASE what = "inventory"
  BY <1>4 DEF GoodReport, InventoryReport, Profile
<1>5. CASE what = "plugins"
  BY <1>5 DEF GoodReport, PluginReport, Profile
<1>6. CASE what = "full_gc"
  BY <1>6 DEF GoodReport, FullGcReport, Profile
<1>7. CASE what = "preparation"
  BY <1>7 DEF GoodReport, PreparationReport, Profile
<1>8. QED
  BY <1>1, <1>2, <1>3, <1>4, <1>5, <1>6, <1>7

\* Good reports are from the same sources, and with the same plugins under one profile.
LEMMA GoodTogether ==
    ASSUME what \in Experimented, seed \in Seeds, NEW N \in Nat, NEW f,
           \A n \in 1..N : GoodReport(f[n], n, First(f, n))
    PROVE  /\ \A n, m \in 1..N : Sources(f[n]) = Sources(f[m])
           /\ what # "serializer" =>
                \A n, m \in 1..N : Profile(planned[n].arm) = Profile(planned[m].arm) => f[n].plugins = f[m].plugins
<1>1. \A n \in 1..N : DOMAIN First(f, n) = 1..(n - 1) /\ \A m \in 1..(n - 1) : First(f, n)[m] = f[m]
  BY DEF First
<1>2. ASSUME NEW n \in 1..N PROVE Sources(f[n]) = Sources(f[1])
  <2>1. CASE n = 1
    BY <2>1
  <2>2. CASE n > 1
    <3>1. SameSources(f[n], First(f, n))
      BY Judgement
    <3>2. 1 \in DOMAIN First(f, n) /\ First(f, n)[1] = f[1]
      <4>1. 1 \in 1..(n - 1)
        BY <2>2
      <4>2. QED
        BY <1>1, <4>1
    <3>3. First(f, n) # <<>>
      BY <3>2
    <3>4. QED
      BY <3>1, <3>2, <3>3 DEF SameSources
  <2>3. QED
    BY <2>1, <2>2
<1>3. ASSUME what # "serializer", NEW n \in 1..N, NEW m \in 1..N, n < m,
             Profile(planned[n].arm) = Profile(planned[m].arm)
      PROVE  f[n].plugins = f[m].plugins
  <2>1. CASE what = "environment"
    <3>1. planned[n].arm = planned[m].arm
      BY <1>3, <2>1 DEF Profile
    <3>2. /\ IF planned[n].arm = "minimal" THEN f[n].plugins = {}
             ELSE f[n].plugins # {} /\ SamePlugins(f[n], First(f, n))
          /\ IF planned[m].arm = "minimal" THEN f[m].plugins = {}
             ELSE f[m].plugins # {} /\ SamePlugins(f[m], First(f, m))
      BY <2>1, Judgement
    <3>3. n \in DOMAIN First(f, m) /\ First(f, m)[n] = f[n]
      <4>1. n \in 1..(m - 1)
        BY <1>3
      <4>2. DOMAIN First(f, m) = 1..(m - 1) /\ \A k \in 1..(m - 1) : First(f, m)[k] = f[k]
        BY <1>1
      <4>3. QED
        BY <4>1, <4>2
    <3>4. f[n] \in Range(First(f, m))
      BY <3>3 DEF Range
    <3>5. QED
      BY <3>1, <3>2, <3>4 DEF SamePlugins
  <2>2. CASE what # "environment"
    <3>1. what \notin {"serializer", "environment"}
      BY <1>3, <2>2
    <3>2. /\ f[n].plugins = ExpectedPlugins(Profile(planned[n].arm))
          /\ f[m].plugins = ExpectedPlugins(Profile(planned[m].arm))
      BY <3>1, Judgement
    <3>3. QED
      BY <1>3, <3>2
  <2>3. QED
    BY <2>1, <2>2
<1>4. ASSUME what # "serializer", NEW n \in 1..N, NEW m \in 1..N,
             Profile(planned[n].arm) = Profile(planned[m].arm)
      PROVE  f[n].plugins = f[m].plugins
  <2>1. n < m \/ n = m \/ m < n
    OBVIOUS
  <2>2. QED
    BY <1>3, <1>4, <2>1
<1>5. QED
  BY <1>2, <1>4

\* What the records of an experiment are that an analyzer has found in order.
LEMMA RecordedIs ==
    ASSUME ExperimentInv, phase # "none", Recorded
    PROVE  /\ DOMAIN Entries = 1..Len(planned) /\ DOMAIN ran = 1..Len(planned)
           /\ \A n \in 1..Len(planned) : FileOf(n) = ran[n] /\ GoodReport(ran[n], n, First(ran, n))
           /\ Distinct([n \in DOMAIN ran |-> ran[n].pid])
<1> DEFINE N == Len(planned)
           E == Entries
<1>1. /\ N \in Nat \ {0} /\ DOMAIN planned = 1..N /\ OwnEntries(E, N, ran) /\ disk.expected = N
      /\ files \in Seq(Reports) /\ ran \in Seq(Reports) /\ Len(runs) \in Nat
      /\ Len(ran) <= Len(runs) /\ Len(runs) <= N
  BY Underway DEF Entries
<1>2. Present /\ Matched /\ Sequential /\ Unmodified /\ OwnProcess /\ AllGood
  BY DEF Recorded
<1>3. Len(E) = N /\ DOMAIN E = 1..N /\ E \in Seq(EntryRecords)
  <2>1. Len(E) = N
    BY <1>1, <1>2 DEF Matched
  <2>2. E \in Seq(EntryRecords)
    BY <1>1 DEF OwnEntries
  <2> HIDE DEF E, N
  <2>3. QED
    BY <2>1, <2>2
<1> HIDE DEF N, E
<1>4. ASSUME NEW n \in 1..N
      PROVE  /\ E[n].job \in 1..N /\ E[n].file = E[n].job /\ E[n].file \in DOMAIN files
             /\ E[n].launched = 2 * E[n].job /\ E[n].finished = 2 * E[n].job + 1
             /\ E[n].pid # Nothing => E[n].job \in DOMAIN ran /\ E[n].hash = ran[E[n].job]
  <2>1. OwnEntry(E[n], N, ran)
    BY <1>1, <1>3 DEF OwnEntries
  <2>2. E[n].code = 0 /\ E[n].file \in DOMAIN files
    BY <1>2, <1>3 DEF Present, E
  <2>3. QED
    BY <2>1, <2>2 DEF OwnEntry
<1>5. \A n \in 1..N : E[n].job = n
  <2> DEFINE f == [n \in 1..N |-> E[n].job]
  <2>1. \A n \in 1..N : f[n] \in 1..N
    BY <1>4
  <2>2. ASSUME NEW n \in 1..N, n > 1 PROVE f[n - 1] < f[n]
    <3>1. n - 1 \in 1..N
      BY <1>1, <2>2
    <3>2. E[n - 1].finished <= E[n].launched
      BY <1>2, <1>3, <2>2 DEF Sequential, E
    <3> DEFINE x == E[n - 1].job
               y == E[n].job
    <3>3. x \in 1..N /\ y \in 1..N /\ 2 * x + 1 <= 2 * y
      <4>1. E[n - 1].finished = 2 * x + 1 /\ E[n].launched = 2 * y
        BY <1>4, <3>1
      <4>2. QED
        BY <1>4, <3>1, <3>2, <4>1
    <3>4. f[n - 1] = x /\ f[n] = y
      BY <3>1
    <3> HIDE DEF x, y, f
    <3>5. x < y
      BY <1>1, <3>3
    <3>6. QED
      BY <3>4, <3>5
  <2> HIDE DEF f
  <2>3. \A n \in 1..N : f[n] = n
    BY <1>1, <2>1, <2>2, Increasing
  <2>4. QED
    BY <2>3 DEF f
<1>6. ASSUME NEW n \in 1..N
      PROVE  n \in DOMAIN ran /\ FileOf(n) = ran[n]
  <2>1. FileOf(n) = files[E[n].file] /\ E[n].file \in DOMAIN files
    BY <1>4 DEF FileOf, E
  <2>2. FileOf(n).pid \in Nat
    <3>1. FileOf(n) \in Reports
      BY <1>1, <2>1
    <3>2. QED
      BY <3>1 DEF Reports
  <2>3. FileOf(n).pid = E[n].pid /\ FileOf(n) = E[n].hash
    BY <1>2, <1>3 DEF OwnProcess, Unmodified, E
  <2>4. E[n].pid # Nothing
    BY <2>2, <2>3, ExperimentConstants
  <2>5. QED
    BY <1>4, <1>5, <2>3, <2>4
<1>7. DOMAIN ran = 1..N
  <2>1. Len(ran) \in Nat /\ DOMAIN ran = 1..Len(ran)
    BY <1>1
  <2>2. N \in 1..N
    BY <1>1
  <2>3. N \in DOMAIN ran
    BY <1>6, <2>2
  <2>4. Len(ran) = N
    <3>1. N \in 1..Len(ran)
      BY <2>1, <2>3
    <3> DEFINE k == Len(ran)
               m == Len(runs)
    <3>2. N \in 1..k /\ k \in Nat /\ m \in Nat /\ k <= m /\ m <= N
      BY <1>1, <2>1, <3>1
    <3> HIDE DEF k, m
    <3>3. k = N
      BY <1>1, <3>2
    <3>4. QED
      BY <3>3 DEF k
  <2>5. QED
    BY <2>1, <2>4
<1>8. ASSUME NEW n \in 1..N PROVE GoodReport(ran[n], n, First(ran, n))
  <2>1. GoodReport(FileOf(n), E[n].job, Before(n))
    BY <1>2, <1>3 DEF AllGood, E
  <2>2. Before(n) = First(ran, n)
    <3>1. \A m \in 1..(n - 1) : m \in 1..N
      BY <1>1
    <3>2. \A m \in 1..(n - 1) : FileOf(m) = ran[m]
      BY <1>6, <3>1
    <3>3. QED
      BY <3>2 DEF Before, First
  <2>3. QED
    BY <1>5, <1>6, <2>1, <2>2
<1>9. Distinct([n \in DOMAIN ran |-> ran[n].pid])
  <2>1. Distinct([n \in DOMAIN E |-> FileOf(n).pid])
    BY <1>2 DEF OwnProcess, E
  <2>2. [n \in DOMAIN E |-> FileOf(n).pid] = [n \in DOMAIN ran |-> ran[n].pid]
    BY <1>3, <1>6, <1>7
  <2>3. QED
    BY <2>1, <2>2
<1>10. QED
  BY <1>3, <1>6, <1>7, <1>8, <1>9 DEF N, E

\* What the records of the serializer matrix are.
LEMMA MatrixIs ==
    ASSUME ExperimentInv, phase # "none", MatrixAccepts
    PROVE  /\ DOMAIN Entries = 1..Len(planned)
           /\ \A n \in 1..Len(planned) : FileOf(n).job \in 1..Len(planned) /\ Sources(FileOf(n)) = disk.reference
           /\ \A k \in 1..Len(planned) : \E n \in 1..Len(planned) : FileOf(n).job = k
<1> DEFINE N == Len(planned)
           E == Entries
           f == [n \in DOMAIN E |-> FileOf(n).job]
<1>1. N \in Nat \ {0} /\ OwnEntries(E, N, ran) /\ disk.expected = N
  BY Underway DEF Entries
<1>2. Len(E) = N /\ DOMAIN E = 1..N
  <2>1. Len(E) = N
    BY <1>1 DEF MatrixAccepts
  <2>2. E \in Seq(EntryRecords)
    BY <1>1 DEF OwnEntries
  <2> HIDE DEF E, N
  <2>3. QED
    BY <2>1, <2>2
<1>3. /\ \A n \in DOMAIN E : FileOf(n).job = E[n].job /\ Sources(FileOf(n)) = disk.reference
      /\ Distinct(f)
  BY DEF MatrixAccepts
<1> HIDE DEF N, E
<1>4. \A n \in 1..N : FileOf(n).job \in 1..N
  <2>1. \A n \in 1..N : OwnEntry(E[n], N, ran)
    BY <1>1, <1>2 DEF OwnEntries
  <2>2. QED
    BY <1>2, <1>3, <2>1 DEF OwnEntry
<1>5. DOMAIN f = 1..N /\ Len(f) = N /\ \A n \in 1..N : f[n] = FileOf(n).job
  <2>1. f = [n \in 1..N |-> FileOf(n).job]
    BY <1>2
  <2>2. f \in [1..N -> 1..N]
    BY <1>4, <2>1
  <2> HIDE DEF f
  <2>3. DOMAIN f = 1..N /\ f \in Seq(1..N)
    BY <1>1, <2>2
  <2>4. Len(f) = N
    BY <1>1, <2>3
  <2>5. QED
    BY <2>1, <2>3, <2>4
<1> HIDE DEF f
<1>6. \A k \in 1..N : \E n \in 1..N : f[n] = k
  <2>1. \A n \in 1..N : f[n] \in 1..N
    BY <1>4, <1>5
  <2>2. QED
    <3>1. N \in Nat /\ DOMAIN f = 1..N /\ Len(f) = N /\ (\A n \in 1..N : f[n] \in 1..N) /\ Distinct(f)
      BY <1>1, <1>3, <1>5, <2>1
    <3>2. QED
      BY <3>1, NothingLeftOut
<1>7. DOMAIN E = 1..N /\ \A n \in 1..N : FileOf(n).job \in 1..N /\ Sources(FileOf(n)) = disk.reference
  BY <1>2, <1>3, <1>4
<1>8. ASSUME NEW k \in 1..N
      PROVE  \E n \in 1..N : FileOf(n).job = k
  <2>1. PICK n \in 1..N : f[n] = k
    BY <1>6
  <2>2. FileOf(n).job = k
    BY <1>5, <2>1
  <2>3. QED
    BY <2>2
<1>9. QED
  BY <1>7, <1>8 DEF N, E

\* What is accepted is every job of the plan, and all of it is as it was run.
LEMMA AcceptsWhole ==
    ASSUME ExperimentInv, phase # "none", Accepts
    PROVE  /\ \A n \in DOMAIN Entries : FileOf(n).job \in DOMAIN planned
           /\ \A k \in DOMAIN planned : \E n \in DOMAIN Entries : FileOf(n).job = k
           /\ \A n, m \in DOMAIN Entries : Sources(FileOf(n)) = Sources(FileOf(m))
           /\ what # "serializer" =>
                /\ \A n \in DOMAIN Entries : FileOf(n) = ran[n]
                /\ Distinct([n \in DOMAIN ran |-> ran[n].pid])
                /\ \A n, m \in DOMAIN ran :
                     Profile(planned[n].arm) = Profile(planned[m].arm) => ran[n].plugins = ran[m].plugins
<1>1. what \in Experimented /\ seed \in Seeds /\ Len(planned) \in Nat /\ DOMAIN planned = 1..Len(planned)
  BY Underway
<1>2. what \in {"serializer", "environment", "inventory", "plugins", "full_gc", "preparation"}
  BY <1>1, PlannedJobs
<1>3. CASE what = "serializer"
  <2>1. MatrixAccepts
    BY <1>3 DEF Accepts
  <2>2. /\ DOMAIN Entries = 1..Len(planned)
        /\ \A n \in 1..Len(planned) : FileOf(n).job \in 1..Len(planned) /\ Sources(FileOf(n)) = disk.reference
        /\ \A k \in 1..Len(planned) : \E n \in 1..Len(planned) : FileOf(n).job = k
    BY <2>1, MatrixIs
  <2>3. QED
    BY <1>1, <1>3, <2>2
<1>4. CASE what # "serializer"
  <2> DEFINE N == Len(planned)
  <2>1. Recorded
    BY <1>2, <1>4 DEF Accepts, EnvironmentAccepts, InventoryAccepts, PluginsAccept, FullGcAccepts, PreparationAccepts
  <2>2. /\ DOMAIN Entries = 1..N /\ DOMAIN ran = 1..N
        /\ \A n \in 1..N : FileOf(n) = ran[n] /\ GoodReport(ran[n], n, First(ran, n))
        /\ Distinct([n \in DOMAIN ran |-> ran[n].pid])
    BY <2>1, RecordedIs
  <2>3. \A n \in 1..N : ran[n].job = n
    BY <1>1, <2>2, Judgement
  <2>4. /\ \A n, m \in 1..N : Sources(ran[n]) = Sources(ran[m])
        /\ \A n, m \in 1..N : Profile(planned[n].arm) = Profile(planned[m].arm) => ran[n].plugins = ran[m].plugins
    BY <1>1, <1>4, <2>2, GoodTogether
  <2>5. DOMAIN planned = 1..N
    BY <1>1
  <2> HIDE DEF N
  <2>6. QED
    BY <2>2, <2>3, <2>4, <2>5
<1>5. QED
  BY <1>3, <1>4

\* The directory of an experiment that was completed and left alone.
LEMMA CompletedIs ==
    ASSUME ExperimentInv, phase = "done", altered = FALSE
    PROVE  /\ what \in Experimented /\ seed \in Seeds
           /\ Len(planned) \in Nat \ {0} /\ DOMAIN planned = 1..Len(planned)
           /\ Len(Entries) = Len(planned) /\ DOMAIN Entries = 1..Len(planned)
           /\ DOMAIN files = 1..Len(planned) /\ DOMAIN ran = 1..Len(planned)
           /\ IsSaved(disk, planned, runs) /\ disk.complete = TRUE /\ disk.reference = Sources(ran[1])
           /\ \A n \in 1..Len(planned) :
                /\ Entries[n] = Full(n, ran[n]) /\ FileOf(n) = ran[n]
                /\ GoodReport(ran[n], n, First(ran, n))
           /\ \A n \in 1..Len(planned) : Before(n) = First(ran, n)
<1> DEFINE N == Len(planned)
<1>1. /\ what \in Experimented /\ seed \in Seeds /\ N \in Nat \ {0} /\ DOMAIN planned = 1..N
      /\ files \in Seq(Reports) /\ ran \in Seq(Reports) /\ runs \in Seq(EntryRecords)
  BY Underway
<1>2. /\ files = ran /\ Len(runs) = Len(ran) /\ Len(runs) = N /\ disk = Manifest(planned, runs, TRUE)
      /\ \A i \in DOMAIN ran : runs[i] = Full(i, ran[i]) /\ GoodReport(ran[i], i, First(ran, i))
  BY DEF ExperimentInv, Carried
<1> HIDE DEF N
<1>3. DOMAIN ran = 1..N /\ DOMAIN files = 1..N /\ DOMAIN runs = 1..N
  <2>1. Len(ran) = N /\ Len(runs) = N
    BY <1>2
  <2>2. DOMAIN ran = 1..Len(ran) /\ DOMAIN runs = 1..Len(runs)
    BY <1>1
  <2>3. QED
    BY <1>2, <2>1, <2>2
<1>4. IsSaved(disk, planned, runs) /\ disk.complete = TRUE /\ disk.reference = Sources(runs[1].hash)
  BY <1>2, ManifestIs
<1>5. Entries = runs
  BY <1>4 DEF Entries, IsSaved
<1>6. ASSUME NEW n \in 1..N
      PROVE  Entries[n] = Full(n, ran[n]) /\ FileOf(n) = ran[n] /\ GoodReport(ran[n], n, First(ran, n))
  <2>1. Entries[n] = Full(n, ran[n]) /\ GoodReport(ran[n], n, First(ran, n))
    BY <1>2, <1>3, <1>5
  <2>2. Entries[n].file = n
    BY <2>1 DEF Full
  <2>3. QED
    BY <1>2, <2>1, <2>2 DEF FileOf
<1>7. 1 \in 1..N
  BY <1>1
<1>8. disk.reference = Sources(ran[1])
  <2>1. Entries[1].hash = ran[1]
    <3>1. Entries[1] = Full(1, ran[1])
      BY <1>6, <1>7
    <3>2. QED
      BY <3>1 DEF Full
  <2>2. QED
    BY <1>4, <1>5, <2>1
<1>9. \A n \in 1..N : Before(n) = First(ran, n)
  <2>1. SUFFICES ASSUME NEW n \in 1..N PROVE Before(n) = First(ran, n)
    OBVIOUS
  <2>2. \A m \in 1..(n - 1) : m \in 1..N
    BY <1>1
  <2>3. \A m \in 1..(n - 1) : FileOf(m) = ran[m]
    BY <1>6, <2>2
  <2>4. QED
    BY <2>3 DEF Before, First
<1>10. QED
  BY <1>1, <1>2, <1>3, <1>4, <1>5, <1>6, <1>8, <1>9 DEF N

\* Its reports are all there, each in a file of its own.
LEMMA DistinctFiles ==
    ASSUME ExperimentInv, phase = "done", altered = FALSE
    PROVE  Present /\ Distinct([n \in DOMAIN Entries |-> Entries[n].file])
<1> DEFINE N == Len(planned)
<1>1. /\ N \in Nat /\ DOMAIN Entries = 1..N /\ DOMAIN files = 1..N
      /\ \A n \in 1..N : Entries[n] = Full(n, ran[n])
  BY CompletedIs
<1>2. \A n \in 1..N : Entries[n].file = n /\ Entries[n].code = 0
  BY <1>1 DEF Full
<1>3. Present
  BY <1>1, <1>2 DEF Present
<1>4. [n \in DOMAIN Entries |-> Entries[n].file] = [n \in 1..N |-> n]
  BY <1>1, <1>2
<1>5. Distinct([n \in 1..N |-> n])
  BY <1>1, Identity
<1> HIDE DEF N
<1>6. QED
  BY <1>3, <1>4, <1>5

\* An analyzer finds its records in order.
LEMMA CompletedIsRecorded ==
    ASSUME ExperimentInv, phase = "done", altered = FALSE, Distinct([n \in DOMAIN ran |-> ran[n].pid])
    PROVE  Recorded
<1> DEFINE N == Len(planned)
<1>1. /\ N \in Nat \ {0} /\ DOMAIN planned = 1..N
      /\ Len(Entries) = N /\ DOMAIN Entries = 1..N /\ DOMAIN files = 1..N /\ DOMAIN ran = 1..N
      /\ IsSaved(disk, planned, runs) /\ disk.complete = TRUE
      /\ \A n \in 1..N : /\ Entries[n] = Full(n, ran[n]) /\ FileOf(n) = ran[n]
                         /\ GoodReport(ran[n], n, First(ran, n))
      /\ \A n \in 1..N : Before(n) = First(ran, n)
  BY CompletedIs
<1> HIDE DEF N
<1>2. \A n \in 1..N : /\ Entries[n].file = n /\ Entries[n].code = 0 /\ Entries[n].job = n
                      /\ Entries[n].launched = 2 * n /\ Entries[n].finished = 2 * n + 1
                      /\ Entries[n].pid = ran[n].pid /\ Entries[n].hash = ran[n]
  BY <1>1 DEF Full
<1>3. Present /\ Distinct([n \in DOMAIN Entries |-> Entries[n].file])
  BY DistinctFiles
<1>4. Matched
  <2>1. disk.plan = [i \in 1..N |-> i] /\ disk.expected = N
    BY <1>1 DEF IsSaved, N
  <2>2. Len(disk.plan) = N /\ \A n \in 1..N : disk.plan[n] = n
    BY <1>1, <2>1, Identity
  <2>3. QED
    BY <1>1, <1>2, <2>1, <2>2 DEF Matched
<1>5. Sequential
  <2>1. SUFFICES ASSUME NEW n \in 1..N
                 PROVE  /\ Entries[n].launched < Entries[n].finished
                        /\ n > 1 => Entries[n - 1].finished <= Entries[n].launched
    BY <1>1 DEF Sequential
  <2>2. Entries[n].launched < Entries[n].finished
    BY <1>1, <1>2
  <2>3. ASSUME n > 1 PROVE Entries[n - 1].finished <= Entries[n].launched
    <3>1. n - 1 \in 1..N
      BY <1>1, <2>3
    <3>2. Entries[n - 1].finished = 2 * (n - 1) + 1 /\ Entries[n].launched = 2 * n
      BY <1>2, <3>1
    <3>3. QED
      BY <1>1, <3>2
  <2>4. QED
    BY <2>2, <2>3
<1>6. Unmodified
  BY <1>1, <1>2 DEF Unmodified
<1>7. OwnProcess
  <2>1. [n \in DOMAIN Entries |-> FileOf(n).pid] = [n \in DOMAIN ran |-> ran[n].pid]
    BY <1>1
  <2>2. Distinct([n \in DOMAIN Entries |-> FileOf(n).pid])
    BY <2>1
  <2>3. \A n \in DOMAIN Entries : FileOf(n).pid = Entries[n].pid
    BY <1>1, <1>2
  <2>4. QED
    BY <1>3, <2>2, <2>3 DEF OwnProcess
<1>8. AllGood
  BY <1>1, <1>2 DEF AllGood
<1>9. disk.complete /\ disk.intact
  BY <1>1 DEF IsSaved
<1>10. QED
  BY <1>3, <1>4, <1>5, <1>6, <1>7, <1>8, <1>9 DEF Recorded

\* The plan as it was saved is the plan.
LEMMA PlanAsLaid ==
    ASSUME ExperimentInv, phase = "done", altered = FALSE
    PROVE  /\ disk.plan = [i \in DOMAIN planned |-> i] /\ DOMAIN disk.plan = DOMAIN planned
           /\ Range(disk.plan) = DOMAIN planned /\ \A n \in DOMAIN planned : disk.plan[n] = n
<1>1. disk.plan = [i \in DOMAIN planned |-> i] /\ DOMAIN planned = 1..Len(planned)
  BY CompletedIs DEF IsSaved
<1>2. DOMAIN disk.plan = DOMAIN planned /\ \A n \in DOMAIN planned : disk.plan[n] = n
  BY <1>1
<1>3. Range(disk.plan) = DOMAIN planned
  BY <1>2 DEF Range
<1>4. QED
  BY <1>1, <1>2, <1>3

\* An analyzer of two arms that take turns finds them so.
LEMMA TurnsAccepted ==
    ASSUME ExperimentInv, phase = "done", altered = FALSE, NEW cells, NEW size, NEW x, NEW y,
           TurnsAsked(cells, size, x, y)
    PROVE  Len(Entries) = Repeats[what] * size /\ PairsAlternate(<<x, y>>) /\ CellsAre(cells)
<1> DEFINE N == Len(planned)
           P == disk.plan
<1>1. /\ N = Repeats[what] * size /\ DOMAIN planned = 1..N /\ Turned(planned, N, x, y)
      /\ CrossesAll(Range(planned), cells, Repeats[what], {x, y})
  BY DEF TurnsAsked, IsPlan
<1>2. Len(Entries) = N /\ N \in Nat
  BY CompletedIs
<1>3. DOMAIN P = 1..N /\ Range(P) = 1..N /\ \A n \in 1..N : P[n] = n
  BY <1>1, PlanAsLaid
<1> HIDE DEF N, P
<1>4. PairsAlternate(<<x, y>>)
  <2>1. SUFFICES ASSUME NEW n \in 1..N, n % 2 = 1
                 PROVE  LET first == planned[P[n]]  second == planned[P[n + 1]]
                        IN  /\ [first EXCEPT !.arm = second.arm, !.place = second.place] = second
                            /\ <<first.arm, second.arm>> = Alternating(<<x, y>>, first.repeat)
    BY <1>3 DEF PairsAlternate, P
  <2>2. /\ n + 1 \in 1..N
        /\ [planned[n] EXCEPT !.arm = planned[n + 1].arm, !.place = planned[n + 1].place] = planned[n + 1]
        /\ <<planned[n].arm, planned[n + 1].arm>> = Alternating(<<x, y>>, planned[n].repeat)
    BY <1>1, <2>1 DEF Turned
  <2>3. P[n] = n /\ P[n + 1] = n + 1
    BY <1>3, <2>2
  <2>4. QED
    BY <2>2, <2>3
<1>5. CellsAre(cells)
  <2>1. {<<planned[i].cell, planned[i].repeat>> : i \in 1..N} = {<<j.cell, j.repeat>> : j \in Range(planned)}
    BY <1>1 DEF Range
  <2>2. {<<j.cell, j.repeat>> : j \in Range(planned)} = Range(cells) \X (1..Repeats[what])
    BY <1>1 DEF CrossesAll
  <2>3. {<<planned[i].cell, planned[i].repeat>> : i \in Range(P)} = Range(cells) \X (1..Repeats[what])
    BY <1>3, <2>1, <2>2
  <2>4. QED
    BY <2>3 DEF CellsAre, P
<1>6. QED
  BY <1>1, <1>2, <1>4, <1>5

\* summarize_serializer_gc.py accepts it.
LEMMA MatrixAccepted ==
    ASSUME ExperimentInv, phase = "done", altered = FALSE, what = "serializer"
    PROVE  MatrixAccepts
<1> DEFINE N == Len(planned)
<1>1. /\ what \in Experimented /\ seed \in Seeds /\ N \in Nat \ {0}
      /\ Len(Entries) = N /\ DOMAIN Entries = 1..N
      /\ IsSaved(disk, planned, runs) /\ disk.complete = TRUE /\ disk.reference = Sources(ran[1])
      /\ \A n \in 1..N : /\ Entries[n] = Full(n, ran[n]) /\ FileOf(n) = ran[n]
                         /\ GoodReport(ran[n], n, First(ran, n))
  BY CompletedIs
<1>2. N = Repeats[what] * 8 /\ Hinted(planned, N)
  <2>1. IsPlan(planned, Repeats[what] * 8) /\ Hinted(planned, Repeats[what] * 8)
    BY <1>1, PlannedAsAsked
  <2>2. N = Repeats[what] * 8
    BY <2>1 DEF IsPlan
  <2>3. QED
    BY <2>1, <2>2
<1>3. disk.expected = N
  BY <1>1 DEF IsSaved
<1> HIDE DEF N
<1>4. Present /\ Distinct([n \in DOMAIN Entries |-> Entries[n].file])
  BY DistinctFiles
<1>5. \A n \in 1..N : Entries[n].job = n
  BY <1>1 DEF Full
<1>6. \A n \in 1..N : FileOf(n).job = n /\ FileOf(n).tidy
  BY <1>1, Judgement
<1>7. Distinct([n \in DOMAIN Entries |-> FileOf(n).job])
  <2>1. [n \in DOMAIN Entries |-> FileOf(n).job] = [n \in 1..N |-> n]
    BY <1>1, <1>6
  <2>2. Distinct([n \in 1..N |-> n])
    BY <1>1, Identity
  <2>3. QED
    BY <2>1, <2>2
<1>8. \A n \in 1..N : Sources(FileOf(n)) = disk.reference
  <2>1. 1 \in 1..N
    BY <1>1
  <2>2. \A n, m \in 1..N : Sources(ran[n]) = Sources(ran[m])
    BY <1>1, GoodTogether
  <2>3. QED
    BY <1>1, <2>1, <2>2
<1>9. HintsPaired
  <2>1. SUFFICES ASSUME NEW n \in 1..N
                 PROVE  \E m \in 1..N :
                            LET j == planned[Entries[n].job]  k == planned[Entries[m].job]
                            IN  j.arm # k.arm /\ [j EXCEPT !.arm = k.arm] = k
    BY <1>1 DEF HintsPaired
  <2>2. PICK m \in 1..N : /\ planned[n].arm # planned[m].arm
                          /\ [planned[n] EXCEPT !.arm = planned[m].arm] = planned[m]
    BY <1>2 DEF Hinted
  <2>3. QED
    BY <1>5, <2>2
<1>10. QED
  BY <1>1, <1>3, <1>4, <1>5, <1>6, <1>7, <1>8, <1>9 DEF MatrixAccepts

\* Whichever the experiment, its analyzer accepts it.
LEMMA CompletedAccepted ==
    ASSUME ExperimentInv, phase = "done", altered = FALSE,
           what = "serializer" \/ Distinct([n \in DOMAIN ran |-> ran[n].pid])
    PROVE  ~ disk.torn /\ Accepts
<1>1. /\ what \in Experimented /\ seed \in Seeds /\ ~ disk.torn /\ Len(Entries) = Len(planned)
  BY CompletedIs DEF IsSaved
<1>2. what \in {"serializer", "environment", "inventory", "plugins", "full_gc", "preparation"}
  BY <1>1, PlannedJobs
<1>3. CASE what = "serializer"
  BY <1>1, <1>3, MatrixAccepted DEF Accepts
<1>4. ASSUME what # "serializer" PROVE Recorded /\ disk.plan = [i \in DOMAIN planned |-> i]
  BY <1>4, CompletedIsRecorded, PlanAsLaid
<1>5. CASE what = "environment"
  <2>1. TurnsAsked(EnvironmentCells, 8, "minimal", "pytest")
    BY <1>1, <1>5, PlannedAsAsked
  <2>2. /\ Len(Entries) = Repeats[what] * 8 /\ PairsAlternate(<<"minimal", "pytest">>)
        /\ CellsAre(EnvironmentCells)
    BY <2>1, TurnsAccepted
  <2>3. QED
    BY <1>1, <1>4, <1>5, <2>2 DEF Accepts, EnvironmentAccepts
<1>6. CASE what = "inventory"
  <2>1. TurnsAsked(InventoryCells, 10, "minimal", "pytest")
    BY <1>1, <1>6, PlannedAsAsked
  <2>2. /\ Len(Entries) = Repeats[what] * 10 /\ PairsAlternate(<<"minimal", "pytest">>)
        /\ CellsAre(InventoryCells)
    BY <2>1, TurnsAccepted
  <2>3. QED
    BY <1>1, <1>4, <1>6, <2>2 DEF Accepts, InventoryAccepts
<1>7. CASE what = "plugins"
  <2>1. TurnsAsked(PluginCells, 18, "autoload", "django_only")
    BY <1>1, <1>7, PlannedAsAsked
  <2>2. Len(planned) = Repeats[what] * 18
    BY <2>1 DEF TurnsAsked, IsPlan
  <2>3. QED
    BY <1>1, <1>4, <1>7, <2>2 DEF Accepts, PluginsAccept, AsLaid
<1>8. CASE what = "full_gc"
  <2>1. TurnsAsked(Validations, 4, "autoload", "django_only")
    BY <1>1, <1>8, PlannedAsAsked
  <2>2. Len(planned) = Repeats[what] * 4
    BY <2>1 DEF TurnsAsked, IsPlan
  <2>3. QED
    BY <1>1, <1>4, <1>8, <2>2 DEF Accepts, FullGcAccepts, AsLaid
<1>9. CASE what = "preparation"
  <2>1. IsPlan(planned, Repeats[what] * 8)
    BY <1>1, <1>9, PlannedAsAsked
  <2>2. Len(planned) = Repeats[what] * 8
    BY <2>1 DEF IsPlan
  <2>3. QED
    BY <1>1, <1>4, <1>9, <2>2 DEF Accepts, PreparationAccepts, AsLaid
<1>10. QED
  BY <1>2, <1>3, <1>5, <1>6, <1>7, <1>8, <1>9

----------------------------------------------------------------------------
(* The analysis, and the theorem.                                          *)

\* An analyzer, which accepts only what is all there and refuses nothing that is.
LEMMA AnalyzeKeeps ==
    ASSUME ExperimentInv, Analyze
    PROVE  ExperimentInv'
<1>1. /\ phase # "none" /\ verdict = "none"
      /\ verdict' = IF ~disk.torn /\ Accepts THEN "accepted" ELSE "rejected"
      /\ what' = what /\ seed' = seed /\ phase' = phase /\ runs' = runs /\ disk' = disk /\ files' = files
      /\ world' = world /\ altered' = altered /\ ran' = ran
  BY DEF Analyze
<1>2. planned' = planned
  BY <1>1 DEF planned
<1>3. Untouched' /\ Recording' /\ Saved'
  BY <1>1, <1>2 DEF ExperimentInv, Untouched, Recording, Saved
<1>4. Carried'
  <2>1. \A rep, k, q : GoodReport(rep, k, q)' <=> GoodReport(rep, k, q)
    BY <1>1, <1>2, JudgedAlike
  <2>2. Carried
    BY DEF ExperimentInv
  <2>3. QED
    BY <1>1, <1>2, <2>1, <2>2 DEF Carried
<1>5. verdict' = "accepted" => Accepts
  BY <1>1
<1>6. AcceptedIsAll'
  <2>1. SUFFICES ASSUME verdict' = "accepted"
                 PROVE  (/\ \A n \in DOMAIN Entries : FileOf(n).job \in DOMAIN planned
                         /\ \A k \in DOMAIN planned : \E n \in DOMAIN Entries : FileOf(n).job = k)'
    BY DEF AcceptedIsAll
  <2>2. /\ \A n \in DOMAIN Entries : FileOf(n).job \in DOMAIN planned
        /\ \A k \in DOMAIN planned : \E n \in DOMAIN Entries : FileOf(n).job = k
    BY <1>1, <1>5, <2>1, AcceptsWhole
  <2>3. QED
    BY <1>1, <1>2, <2>2 DEF Entries, FileOf
<1>7. AcceptedAsRun'
  <2>1. CASE verdict' = "accepted"
    <3>1. /\ \A n, m \in DOMAIN Entries : Sources(FileOf(n)) = Sources(FileOf(m))
          /\ what # "serializer" =>
               /\ \A n \in DOMAIN Entries : FileOf(n) = ran[n]
               /\ Distinct([n \in DOMAIN ran |-> ran[n].pid])
               /\ \A n, m \in DOMAIN ran :
                    Profile(planned[n].arm) = Profile(planned[m].arm) => ran[n].plugins = ran[m].plugins
      BY <1>1, <1>5, <2>1, AcceptsWhole
    <3>2. QED
      BY <1>1, <1>2, <3>1 DEF AcceptedAsRun, Entries, FileOf, Sources, Profile
  <2>2. CASE verdict' # "accepted"
    BY <2>2 DEF AcceptedAsRun
  <2>3. QED
    BY <2>1, <2>2
<1>8. CompletedIsAccepted'
  <2>1. ASSUME verdict' = "rejected", phase = "done", altered = FALSE
        PROVE  what # "serializer" /\ ~Distinct([n \in DOMAIN ran |-> ran[n].pid])
    <3>1. ~(~disk.torn /\ Accepts)
      BY <1>1, <2>1
    <3>2. QED
      BY <2>1, <3>1, CompletedAccepted
  <2>2. altered \in BOOLEAN
    BY DEF ExperimentInv, Recording
  <2>3. verdict' = "rejected" /\ phase' = "done" /\ ~altered' =>
            what' # "serializer" /\ ~Distinct([n \in DOMAIN ran' |-> ran'[n].pid])
    BY <1>1, <2>1, <2>2
  <2>4. QED
    BY <2>3 DEF CompletedIsAccepted
<1>9. QED
  BY <1>3, <1>4, <1>6, <1>7, <1>8 DEF ExperimentInv

\* A step of something else.
LEMMA FrozenKeeps ==
    ASSUME ExperimentInv, UNCHANGED experimentVars
    PROVE  ExperimentInv'
<1>1. /\ what' = what /\ seed' = seed /\ phase' = phase /\ runs' = runs /\ disk' = disk /\ files' = files
      /\ world' = world /\ altered' = altered /\ ran' = ran /\ verdict' = verdict
  BY DEF experimentVars
<1>2. planned' = planned
  BY <1>1 DEF planned
<1>3. Untouched' /\ Recording' /\ Saved'
  BY <1>1, <1>2 DEF ExperimentInv, Untouched, Recording, Saved
<1>4. Carried'
  <2>1. \A rep, k, q : GoodReport(rep, k, q)' <=> GoodReport(rep, k, q)
    BY <1>1, <1>2, JudgedAlike
  <2>2. Carried
    BY DEF ExperimentInv
  <2>3. QED
    BY <1>1, <1>2, <2>1, <2>2 DEF Carried
<1>5. AcceptedIsAll'
  BY <1>1, <1>2 DEF ExperimentInv, AcceptedIsAll, Entries, FileOf
<1>6. AcceptedAsRun'
  <2>1. AcceptedAsRun
    BY DEF ExperimentInv
  <2>2. QED
    BY <1>1, <1>2, <2>1 DEF AcceptedAsRun, Entries, FileOf, Sources, Profile
<1>7. CompletedIsAccepted'
  BY <1>1 DEF ExperimentInv, CompletedIsAccepted
<1>8. QED
  BY <1>3, <1>4, <1>5, <1>6, <1>7 DEF ExperimentInv

\* Before anything is run.
LEMMA ExperimentInitially ==
    ASSUME ExperimentInit
    PROVE  ExperimentInv
<1>1. /\ what = "none" /\ phase = "none" /\ runs = <<>> /\ files = <<>> /\ world = AsBefore /\ altered = FALSE
      /\ ran = <<>> /\ verdict = "none"
  BY DEF ExperimentInit
<1>2. Recording
  <2>1. altered \in BOOLEAN
    BY <1>1
  <2>2. world \in Worlds
    BY <1>1 DEF AsBefore, Worlds, Bits
  <2>3. QED
    BY <1>1, <2>1, <2>2 DEF Recording
<1>3. QED
  BY <1>1, <1>2 DEF ExperimentInv, Untouched, Saved, Carried, AcceptedIsAll, AcceptedAsRun, CompletedIsAccepted

\* Every step of a runner, a worker, an analyzer and what befalls them.
LEMMA ExperimentStep ==
    ASSUME ExperimentInv, ExperimentNext
    PROVE  ExperimentInv'
<1>1. ASSUME NEW e \in Experimented, NEW s \in Seeds, StartExperiment(e, s) PROVE ExperimentInv'
  BY <1>1, StartKeeps
<1>2. CASE verdict = "none" /\ Launch
  BY <1>2, LaunchKeeps
<1>3. CASE verdict = "none" /\ Completes
  BY <1>3, CompletesKeeps
<1>4. CASE verdict = "none" /\ Fails
  BY <1>4, FailsKeeps
<1>5. CASE verdict = "none" /\ Killed
  BY <1>5, KilledKeeps
<1>6. ASSUME verdict = "none", NEW pid \in 1..Len(runs), NEW tidy \in BOOLEAN, WorkerEnds(pid, tidy)
      PROVE  ExperimentInv'
  BY <1>6, WorkerKeeps
<1>7. ASSUME verdict = "none", NEW part \in DOMAIN world, Drift(part) PROVE ExperimentInv'
  BY <1>7, DriftKeeps
<1>8. CASE Alter
  BY <1>8, AlterKeeps
<1>9. CASE Analyze
  BY <1>9, AnalyzeKeeps
<1>10. QED
  BY <1>1, <1>2, <1>3, <1>4, <1>5, <1>6, <1>7, <1>8, <1>9 DEF ExperimentNext

\* The invariant gives the verdict.
LEMMA ExperimentVerdict ==
    ASSUME ExperimentInv
    PROVE  VerdictIsRight
<1>1. AcceptedAsRun /\ CompletedIsAccepted
  BY DEF ExperimentInv
<1>2. AcceptedIsWhole
  <2>1. SUFFICES ASSUME verdict = "accepted"
                 PROVE  Whole({planned[FileOf(n).job] : n \in DOMAIN Entries})
    BY DEF AcceptedIsWhole
  <2>2. /\ \A n \in DOMAIN Entries : FileOf(n).job \in DOMAIN planned
        /\ \A k \in DOMAIN planned : \E n \in DOMAIN Entries : FileOf(n).job = k
    BY <2>1 DEF ExperimentInv, AcceptedIsAll
  <2>3. {planned[FileOf(n).job] : n \in DOMAIN Entries} = Range(planned)
    BY <2>2 DEF Range
  <2>4. phase # "none"
    BY <2>1 DEF ExperimentInv, Untouched
  <2>5. Whole(Range(planned))
    BY <2>4, Underway, WholePlan
  <2>6. QED
    BY <2>3, <2>5
<1>3. QED
  BY <1>1, <1>2 DEF VerdictIsRight

\* The runners and analyzers of the measurement scripts (src/scripts/run_*.py, summarize_*.py),
\* for any repeats, seeds and number of shocks: whatever a worker reports, however the sources drift,
\* whenever a runner dies and whatever becomes of its files, an analyzer accepts a directory
\* only when it has the whole experiment, every cell with every arm in every repeat, from one
\* state of the sources and each profile's plugins, and it accepts every experiment that
\* completed and was left alone, unless the system gave two workers one process id.
THEOREM ExperimentsAnalyzed ==
    ExperimentInit /\ [][ExperimentNext]_experimentVars => []VerdictIsRight
<1>1. ExperimentInit => ExperimentInv
  BY ExperimentInitially
<1>2. ExperimentInv /\ [ExperimentNext]_experimentVars => ExperimentInv'
  BY ExperimentStep, FrozenKeeps
<1>3. ExperimentInv => VerdictIsRight
  BY ExperimentVerdict
<1>4. QED
  BY <1>1, <1>2, <1>3, PTL
=============================================================================
