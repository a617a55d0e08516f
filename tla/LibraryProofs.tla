---------------------------- MODULE LibraryProofs ----------------------------
(***************************************************************************)
(* Parts of the library that MCLibrary checks on one instance, for every   *)
(* value of their constants: the cache backends, an entry of which lives   *)
(* for its TTL and no longer whatever units and clocks it is counted in,   *)
(* and whose clear() takes what it should; the writes of models, after     *)
(* which a row satisfies the schema; and what is derived from a schema,    *)
(* whose plan loads what the serializer reads and whose projections agree. *)
(*                                                                         *)
(* The lemmas about numbers and sequences come first; MeasurementProofs    *)
(* relies on them, too.                                                    *)
(***************************************************************************)
EXTENDS CacheBackends, ModelWrites, SchemaPlans, FiniteSetTheorems,
        SequenceTheorems, WellFoundedInduction, TLAPS

----------------------------------------------------------------------------
(* Induction over natural numbers, for a set of them.                      *)

\* A nonempty set of natural numbers has a least one.
LEMMA LeastNumber ==
    ASSUME NEW T, T \subseteq Nat, T # {}
    PROVE  \E n \in T : \A k \in T : n <= k
<1>1. PICK R : IsWellFoundedOn(R, Nat) /\ \A x, y \in Nat : <<y, x>> \in R <=> y < x
  <2> DEFINE Below == {p \in Nat \X Nat : p[1] < p[2]}
  <2>1. IsWellFoundedOn(Below, Nat)
    BY NatLessThanWellFounded DEF OpToRel
  <2>2. \A x, y \in Nat : <<y, x>> \in Below <=> y < x
    OBVIOUS
  <2> HIDE DEF Below
  <2>3. QED
    BY <2>1, <2>2
<1>2. PICK x \in T : \A y \in T : ~ (<<y, x>> \in R)
  BY <1>1, WFMin
<1>3. ASSUME NEW y \in T PROVE x <= y
  <2>1. x \in Nat /\ y \in Nat
    OBVIOUS
  <2>2. ~(y < x)
    BY <1>1, <1>2, <2>1
  <2>3. QED
    BY <2>1, <2>2
<1>4. QED
  BY <1>3

\* A set that holds 0 and with each number the next one holds all of them.
LEMMA AllNumbers ==
    ASSUME NEW S, 0 \in S, \A n \in Nat : n \in S => n + 1 \in S
    PROVE  Nat \subseteq S
<1> DEFINE T == Nat \ S
<1>1. SUFFICES ASSUME T # {} PROVE FALSE
  OBVIOUS
<1>2. T \subseteq Nat
  OBVIOUS
<1>3. PICK n \in T : \A k \in T : n <= k
  <2> HIDE DEF T
  <2> QED
    BY <1>1, <1>2, LeastNumber
<1>4. n \in Nat /\ n # 0 /\ n - 1 \in Nat /\ n - 1 \notin T
  BY <1>3
<1>5. QED
  BY <1>3, <1>4

----------------------------------------------------------------------------
(* Choosing places of a sequence.                                          *)

\* The definition of Choosing is sound: there is a function that satisfies it.
LEMMA ChoosingDefined ==
    ASSUME NEW s, Len(s) \in Nat, NEW P
    PROVE  Choosing(s, P) =
             [n \in 0..Len(s) |->
                IF n = 0 THEN <<>>
                ELSE IF n \in P THEN Append(Choosing(s, P)[n - 1], s[n])
                ELSE Choosing(s, P)[n - 1]]
<1> DEFINE After(v, i) == IF i \in P THEN Append(v, s[i]) ELSE v
           Recurs(f, n) == f = [i \in 0..n |-> IF i = 0 THEN <<>> ELSE After(f[i - 1], i)]
           S == {n \in Nat : \E f : Recurs(f, n)}
<1> HIDE DEF After
<1>1. 0 \in S
  <2>1. Recurs([i \in 0..0 |-> <<>>], 0)
    OBVIOUS
  <2>2. QED
    BY <2>1
<1>2. ASSUME NEW n \in Nat, n \in S
      PROVE  n + 1 \in S
  <2>1. PICK f : Recurs(f, n)
    BY <1>2
  <2> DEFINE g == [i \in 0..(n + 1) |-> IF i = n + 1 THEN After(f[n], n + 1) ELSE f[i]]
  <2>2. ASSUME NEW i \in 0..(n + 1)
        PROVE  g[i] = IF i = 0 THEN <<>> ELSE After(g[i - 1], i)
    <3>1. CASE i = n + 1
      <4>1. g[i] = After(f[n], n + 1) /\ g[i - 1] = f[n]
        BY <3>1
      <4>2. QED
        BY <3>1, <4>1
    <3>2. CASE i = 0
      BY <2>1, <3>2
    <3>3. CASE i \in 1..n
      <4>1. g[i] = f[i] /\ g[i - 1] = f[i - 1]
        BY <3>3
      <4>2. f[i] = After(f[i - 1], i)
        BY <2>1, <3>3
      <4>3. QED
        BY <3>3, <4>1, <4>2
    <3>4. QED
      BY <3>1, <3>2, <3>3
  <2>3. Recurs(g, n + 1)
    BY <2>2
  <2> HIDE DEF Recurs
  <2>4. \E h : Recurs(h, n + 1)
    BY <2>3
  <2>5. QED
    BY <2>4
<1>3. Len(s) \in S
  <2> HIDE DEF S
  <2> QED
    BY <1>1, <1>2, AllNumbers
<1>4. PICK f : Recurs(f, Len(s))
  BY <1>3
<1>5. QED
  BY <1>4 DEF Choosing, After

\* What occurs once something is appended, concatenated or taken off.
LEMMA AppendRange ==
    ASSUME NEW E, NEW s \in Seq(E), NEW e \in E
    PROVE  Append(s, e) \in Seq(E) /\ Range(Append(s, e)) = Range(s) \cup {e}
<1>1. /\ Len(s) \in Nat /\ DOMAIN s = 1..Len(s) /\ DOMAIN Append(s, e) = 1..(Len(s) + 1)
      /\ \A i \in 1..Len(s) : Append(s, e)[i] = s[i]
      /\ Append(s, e)[Len(s) + 1] = e
  OBVIOUS
<1>2. 1..(Len(s) + 1) = (1..Len(s)) \cup {Len(s) + 1}
  BY <1>1
<1>3. QED
  BY <1>1, <1>2 DEF Range

\* What occurs at the chosen places occurs, and nothing else.
LEMMA ChosenRange ==
    ASSUME NEW E, NEW s \in Seq(E), NEW P
    PROVE  /\ Chosen(s, P) \in Seq(E)
           /\ Range(Chosen(s, P)) = {s[i] : i \in P \cap DOMAIN s}
<1> DEFINE K == Choosing(s, P)
           S == {n \in Nat : n <= Len(s) =>
                    K[n] \in Seq(E) /\ Range(K[n]) = {s[i] : i \in P \cap (1..n)}}
<1>1. Len(s) \in Nat /\ DOMAIN s = 1..Len(s)
  OBVIOUS
<1>2. K[0] = <<>> /\ \A n \in 1..Len(s) :
         K[n] = IF n \in P THEN Append(K[n - 1], s[n]) ELSE K[n - 1]
  <2> HIDE DEF K
  <2>1. K = [n \in 0..Len(s) |-> IF n = 0 THEN <<>>
               ELSE IF n \in P THEN Append(K[n - 1], s[n]) ELSE K[n - 1]]
    BY <1>1, ChoosingDefined DEF K
  <2>2. ASSUME NEW n \in 1..Len(s)
        PROVE  K[n] = IF n \in P THEN Append(K[n - 1], s[n]) ELSE K[n - 1]
    <3>1. n \in 0..Len(s) /\ n # 0
      BY <1>1
    <3>2. QED
      BY <2>1, <3>1
  <2>3. K[0] = <<>>
    BY <1>1, <2>1
  <2>4. QED
    BY <2>2, <2>3
<1> HIDE DEF K
<1>3. 0 \in S
  <2>1. <<>> \in Seq(E) /\ Range(<<>>) = {}
    BY DEF Range
  <2>2. {s[i] : i \in P \cap (1..0)} = {}
    OBVIOUS
  <2>3. QED
    BY <1>2, <2>1, <2>2
<1>4. ASSUME NEW n \in Nat, n \in S
      PROVE  n + 1 \in S
  <2>1. SUFFICES ASSUME n + 1 <= Len(s)
                 PROVE  K[n + 1] \in Seq(E) /\ Range(K[n + 1]) = {s[i] : i \in P \cap (1..(n + 1))}
    OBVIOUS
  <2>2. /\ K[n] \in Seq(E) /\ Range(K[n]) = {s[i] : i \in P \cap (1..n)}
        /\ n + 1 \in 1..Len(s) /\ s[n + 1] \in E /\ (n + 1) - 1 = n
    BY <1>1, <1>4, <2>1
  <2>3. K[n + 1] = IF n + 1 \in P THEN Append(K[n], s[n + 1]) ELSE K[n]
    BY <1>2, <2>2
  <2>4. 1..(n + 1) = (1..n) \cup {n + 1}
    OBVIOUS
  <2>5. CASE n + 1 \in P
    <3>1. {s[i] : i \in P \cap (1..(n + 1))} = {s[i] : i \in P \cap (1..n)} \cup {s[n + 1]}
      <4>1. P \cap (1..(n + 1)) = (P \cap (1..n)) \cup {n + 1}
        BY <2>4, <2>5
      <4>2. \A A : {s[i] : i \in A \cup {n + 1}} = {s[i] : i \in A} \cup {s[n + 1]}
        OBVIOUS
      <4>3. QED
        BY <4>1, <4>2
    <3>2. \A k \in Seq(E), e \in E :
             Append(k, e) \in Seq(E) /\ Range(Append(k, e)) = Range(k) \cup {e}
      BY AppendRange
    <3>3. K[n + 1] = Append(K[n], s[n + 1])
      BY <2>3, <2>5
    <3>4. Append(K[n], s[n + 1]) \in Seq(E) /\ Range(Append(K[n], s[n + 1])) = Range(K[n]) \cup {s[n + 1]}
      BY <2>2, <3>2
    <3>5. QED
      BY <2>2, <3>1, <3>3, <3>4
  <2>6. CASE n + 1 \notin P
    BY <2>2, <2>3, <2>4, <2>6
  <2>7. QED
    BY <2>5, <2>6
<1>5. Len(s) \in S
  <2> HIDE DEF S
  <2> QED
    BY <1>1, <1>3, <1>4, AllNumbers
<1>6. QED
  BY <1>1, <1>5 DEF Chosen, K

\* What occurs in a concatenation occurs in one of its parts.
LEMMA ConcatRange ==
    ASSUME NEW E, NEW s \in Seq(E), NEW t \in Seq(E)
    PROVE  s \o t \in Seq(E) /\ Range(s \o t) = Range(s) \cup Range(t)
<1>1. /\ Len(s) \in Nat /\ Len(t) \in Nat /\ DOMAIN s = 1..Len(s) /\ DOMAIN t = 1..Len(t)
      /\ DOMAIN (s \o t) = 1..(Len(s) + Len(t))
      /\ \A i \in 1..(Len(s) + Len(t)) : (s \o t)[i] = IF i <= Len(s) THEN s[i] ELSE t[i - Len(s)]
  OBVIOUS
<1>2. \A i \in DOMAIN (s \o t) : (s \o t)[i] \in Range(s) \cup Range(t)
  <2>1. ASSUME NEW i \in 1..(Len(s) + Len(t))
        PROVE  (s \o t)[i] \in Range(s) \cup Range(t)
    <3>1. CASE i <= Len(s)
      BY <1>1, <3>1 DEF Range
    <3>2. CASE i > Len(s)
      <4>1. i - Len(s) \in 1..Len(t) /\ (s \o t)[i] = t[i - Len(s)]
        BY <1>1, <3>2
      <4>2. QED
        BY <1>1, <4>1 DEF Range
    <3>3. QED
      BY <1>1, <3>1, <3>2
  <2>2. QED
    BY <1>1, <2>1
<1>3. \A i \in DOMAIN s : s[i] \in Range(s \o t)
  BY <1>1 DEF Range
<1>4. \A i \in DOMAIN t : t[i] \in Range(s \o t)
  <2>1. \A i \in 1..Len(t) : Len(s) + i \in 1..(Len(s) + Len(t)) /\ (s \o t)[Len(s) + i] = t[i]
    BY <1>1
  <2>2. QED
    BY <1>1, <2>1 DEF Range
<1>5. Range(s \o t) = Range(s) \cup Range(t)
  BY <1>2, <1>3, <1>4 DEF Range
<1>6. QED
  BY <1>5

\* Sequences of two, or less.
LEMMA Pairs ==
    ASSUME NEW x, NEW y
    PROVE  /\ <<x>> \o <<y>> = <<x, y>> /\ <<>> \o <<y>> = <<y>>
           /\ <<x>> \o <<>> = <<x>> /\ <<>> \o <<>> = <<>>
<1> DEFINE E == {x, y}
<1>1. <<>> \in Seq(E) /\ <<x>> \in Seq(E) /\ <<y>> \in Seq(E)
  OBVIOUS
<1>2. <<x>> \o <<y>> = <<x, y>>
  <2> DEFINE s == <<x>> \o <<y>>
  <2>1. s \in Seq(E) /\ Len(s) = 2 /\ s[1] = x /\ s[2] = y
    BY <1>1
  <2> HIDE DEF s
  <2>2. s = <<x, y>>
    BY <2>1
  <2>3. QED
    BY <2>2 DEF s
<1>3. \A s \in Seq(E) : <<>> \o s = s /\ s \o <<>> = s
  BY ConcatEmptySeq
<1>4. QED
  BY <1>1, <1>2, <1>3

\* The head occurs, and what is left occurred.
LEMMA TailRange ==
    ASSUME NEW E, NEW s \in Seq(E), s # <<>>
    PROVE  /\ Head(s) \in E /\ Head(s) \in Range(s)
           /\ Tail(s) \in Seq(E) /\ Range(Tail(s)) \subseteq Range(s)
<1>1. /\ Len(s) \in Nat /\ Len(s) > 0 /\ DOMAIN s = 1..Len(s) /\ Head(s) = s[1]
      /\ DOMAIN Tail(s) = 1..(Len(s) - 1) /\ \A i \in 1..(Len(s) - 1) : Tail(s)[i] = s[i + 1]
  OBVIOUS
<1>2. QED
  BY <1>1 DEF Range

----------------------------------------------------------------------------
(* The parts and the elements of sequences.                                *)

\* The parts of a stack that is not empty.
LEMMA AllButLast ==
    ASSUME NEW S, NEW s \in Seq(S), s # <<>>
    PROVE  /\ Front(s) \in Seq(S) /\ Len(Front(s)) = Len(s) - 1 /\ Last(s) = s[Len(s)] /\ Last(s) \in S
           /\ Len(s) \in 1..Len(s) /\ Len(s) \in Nat \ {0}
           /\ \A i \in 1..Len(Front(s)) : Front(s)[i] = s[i] /\ i \in 1..Len(s)
<1>1. Len(s) \in Nat \ {0} /\ Len(s) \in 1..Len(s) /\ \A i \in 1..Len(s) : s[i] \in S
  OBVIOUS
<1> DEFINE L == Len(s)
<1> HIDE DEF L
<1>2. 1 \in Int /\ L - 1 \in Int /\ \A i \in 1..L - 1 : i \in 1..Len(s) /\ s[i] \in S /\ 1 + i - 1 = i
  BY <1>1 DEF L
<1>3. /\ SubSeq(s, 1, L - 1) \in Seq(S)
      /\ Len(SubSeq(s, 1, L - 1)) = IF 1 <= L - 1 THEN L - 1 - 1 + 1 ELSE 0
      /\ \A i \in 1..L - 1 - 1 + 1 : SubSeq(s, 1, L - 1)[i] = s[1 + i - 1]
  BY <1>2, SubSeqProperties
<1>4. Len(SubSeq(s, 1, L - 1)) = L - 1 /\ L - 1 - 1 + 1 = L - 1
  <2>1. L \in Nat \ {0}
    BY <1>1 DEF L
  <2>2. QED
    BY <1>3, <2>1
<1>5. Front(s) = SubSeq(s, 1, L - 1) /\ Last(s) = s[L]
  BY DEF Front, Last, L
<1> HIDE DEF L
<1>6. \A i \in 1..Len(Front(s)) : Front(s)[i] = s[i] /\ i \in 1..Len(s)
  BY <1>2, <1>3, <1>4, <1>5
<1>7. QED
  BY <1>1, <1>3, <1>4, <1>5, <1>6 DEF L

\* The parts of two sequences put together.
LEMMA Joined ==
    ASSUME NEW S, NEW a \in Seq(S), NEW c \in Seq(S)
    PROVE  /\ a \o c \in Seq(S) /\ Len(a \o c) = Len(a) + Len(c) /\ Len(a) \in Nat /\ Len(c) \in Nat
           /\ \A i \in 1..Len(a) : (a \o c)[i] = a[i] /\ i \in 1..Len(a \o c)
           /\ \A i \in 1..Len(c) : (a \o c)[Len(a) + i] = c[i] /\ Len(a) + i \in 1..Len(a \o c)
           /\ \A i \in 1..Len(a \o c) : i > Len(a) => i - Len(a) \in 1..Len(c) /\ i = Len(a) + (i - Len(a))
OBVIOUS

\* The parts of a sequence with one element more.
LEMMA Appended ==
    ASSUME NEW S, NEW f \in Seq(S), NEW e \in S
    PROVE  /\ Append(f, e) \in Seq(S) /\ Len(Append(f, e)) = Len(f) + 1 /\ Len(f) \in Nat
           /\ Append(f, e)[Len(f) + 1] = e
           /\ \A i \in 1..Len(f) : Append(f, e)[i] = f[i] /\ i \in 1..Len(f) + 1
OBVIOUS

\* An element and some more are put on top.
LEMMA PutOn ==
    ASSUME NEW S, NEW f \in Seq(S), NEW c \in Seq(S), NEW e \in S,
           NEW t, t = Append(f, e) \o c, NEW L, L = Len(f) + 1
    PROVE  /\ t \in Seq(S) /\ Len(t) = L + Len(c) /\ L \in Nat \ {0} /\ Len(c) \in Nat
           /\ \A i \in 1..L : i < L => t[i] = f[i] /\ i \in 1..Len(f)
           /\ t[L] = e
           /\ \A i \in 1..Len(c) : t[L + i] = c[i] /\ L + i \in 1..Len(t) /\ L + i > L
           /\ \A i \in 1..Len(t) : i > L => i - L \in 1..Len(c) /\ i = L + (i - L)
<1> DEFINE a == Append(f, e)
<1>1. a \in Seq(S) /\ Len(a) = L /\ Len(f) \in Nat /\ a[L] = e /\ \A i \in 1..Len(f) : a[i] = f[i]
  BY Appended
<1> HIDE DEF a
<1>2. t = a \o c
  BY DEF a
<1>3. /\ t \in Seq(S) /\ Len(t) = L + Len(c) /\ Len(c) \in Nat
      /\ \A i \in 1..L : t[i] = a[i] /\ i \in 1..Len(t)
      /\ \A i \in 1..Len(c) : t[L + i] = c[i] /\ L + i \in 1..Len(t)
      /\ \A i \in 1..Len(t) : i > L => i - L \in 1..Len(c) /\ i = L + (i - L)
  <2> DEFINE u == a \o c
  <2>1. /\ u \in Seq(S) /\ Len(u) = Len(a) + Len(c) /\ Len(c) \in Nat
        /\ \A i \in 1..Len(a) : u[i] = a[i] /\ i \in 1..Len(u)
        /\ \A i \in 1..Len(c) : u[Len(a) + i] = c[i] /\ Len(a) + i \in 1..Len(u)
        /\ \A i \in 1..Len(u) : i > Len(a) => i - Len(a) \in 1..Len(c) /\ i = Len(a) + (i - Len(a))
    BY <1>1, Joined
  <2>2. t = u /\ Len(a) = L
    BY <1>1, <1>2
  <2> HIDE DEF u
  <2>3. QED
    BY <2>1, <2>2
<1>4. L \in Nat \ {0} /\ L \in 1..L /\ \A i \in 1..L : i < L => i \in 1..Len(f)
  BY <1>1
<1>5. \A i \in 1..Len(c) : L + i > L
  BY <1>3, <1>4
<1>6. QED
  BY <1>1, <1>3, <1>4, <1>5

\* The elements of a sequence, by index.
LEMMA Elements ==
    ASSUME NEW S, NEW s \in Seq(S)
    PROVE  Range(s) \subseteq S /\ \A x : x \in Range(s) <=> \E i \in 1..Len(s) : s[i] = x
BY DEF Range

\* The elements of a sequence with one more.
LEMMA ElementsOfAppend ==
    ASSUME NEW S, NEW s \in Seq(S), NEW x \in S
    PROVE  Range(Append(s, x)) = Range(s) \cup {x}
<1>1. /\ Append(s, x) \in Seq(S) /\ Len(Append(s, x)) = Len(s) + 1 /\ Append(s, x)[Len(s) + 1] = x
      /\ \A i \in 1..Len(s) : Append(s, x)[i] = s[i] /\ i \in 1..Len(s) + 1
      /\ \A i \in 1..Len(s) + 1 : i = Len(s) + 1 \/ i \in 1..Len(s)
      /\ Len(s) + 1 \in 1..Len(s) + 1
  OBVIOUS
<1> DEFINE a == Append(s, x)
<1> HIDE DEF a
<1>2. \A y : y \in Range(a) <=> \E i \in 1..Len(s) + 1 : a[i] = y
  <2>1. a \in Seq(S) /\ Len(a) = Len(s) + 1
    BY <1>1 DEF a
  <2>2. \A y : y \in Range(a) <=> \E i \in 1..Len(a) : a[i] = y
    BY <2>1, Elements
  <2>3. QED
    BY <2>1, <2>2
<1>3. \A y : y \in Range(s) <=> \E i \in 1..Len(s) : s[i] = y
  BY Elements
<1>4. ASSUME NEW y \in Range(a) PROVE y \in Range(s) \cup {x}
  BY <1>1, <1>2, <1>3, <1>4 DEF a
<1>5. ASSUME NEW y \in Range(s) PROVE y \in Range(a)
  BY <1>1, <1>2, <1>3, <1>5 DEF a
<1>6. x \in Range(a)
  BY <1>1, <1>2 DEF a
<1>7. QED
  BY <1>4, <1>5, <1>6 DEF a

\* The elements of two sequences put together.
LEMMA ElementsOfJoin ==
    ASSUME NEW S, NEW s \in Seq(S), NEW t \in Seq(S)
    PROVE  Range(s \o t) = Range(s) \cup Range(t)
<1> DEFINE u == s \o t
<1>1. /\ u \in Seq(S) /\ Len(u) = Len(s) + Len(t) /\ Len(s) \in Nat /\ Len(t) \in Nat
      /\ \A i \in 1..Len(s) : u[i] = s[i] /\ i \in 1..Len(u)
      /\ \A i \in 1..Len(t) : u[Len(s) + i] = t[i] /\ Len(s) + i \in 1..Len(u)
      /\ \A i \in 1..Len(u) : i > Len(s) => i - Len(s) \in 1..Len(t) /\ i = Len(s) + (i - Len(s))
  BY Joined
<1> HIDE DEF u
<1>2. \A i \in 1..Len(u) : i \in 1..Len(s) \/ i > Len(s)
  BY <1>1
<1>3. /\ \A x : x \in Range(u) <=> \E i \in 1..Len(u) : u[i] = x
      /\ \A x : x \in Range(s) <=> \E i \in 1..Len(s) : s[i] = x
      /\ \A x : x \in Range(t) <=> \E i \in 1..Len(t) : t[i] = x
  BY <1>1, Elements
<1>4. ASSUME NEW x \in Range(u) PROVE x \in Range(s) \cup Range(t)
  <2>1. PICK i \in 1..Len(u) : u[i] = x
    BY <1>3, <1>4
  <2>2. CASE i \in 1..Len(s)
    BY <1>1, <1>3, <2>1, <2>2
  <2>3. CASE i > Len(s)
    <3>1. i - Len(s) \in 1..Len(t) /\ t[i - Len(s)] = u[i]
      BY <1>1, <2>3
    <3>2. QED
      BY <1>3, <2>1, <3>1
  <2>4. QED
    BY <1>2, <2>2, <2>3
<1>5. ASSUME NEW x \in Range(s) \cup Range(t) PROVE x \in Range(u)
  BY <1>1, <1>3, <1>5
<1>6. QED
  BY <1>4, <1>5 DEF u

\* The elements of a stack are its last and those below it.
LEMMA ElementsButLast ==
    ASSUME NEW S, NEW s \in Seq(S), s # <<>>
    PROVE  Range(s) = Range(Front(s)) \cup {Last(s)} /\ Front(s) \in Seq(S) /\ Last(s) \in S
<1> DEFINE f == Front(s)
<1>1. /\ f \in Seq(S) /\ Len(f) = Len(s) - 1 /\ Last(s) = s[Len(s)] /\ Last(s) \in S
      /\ Len(s) \in 1..Len(s) /\ Len(s) \in Nat \ {0}
      /\ \A i \in 1..Len(f) : f[i] = s[i] /\ i \in 1..Len(s)
  BY AllButLast
<1> HIDE DEF f
<1>2. \A i \in 1..Len(s) : i = Len(s) \/ i \in 1..Len(f)
  BY <1>1
<1>3. /\ \A x : x \in Range(s) <=> \E i \in 1..Len(s) : s[i] = x
      /\ \A x : x \in Range(f) <=> \E i \in 1..Len(f) : f[i] = x
  BY <1>1, Elements
<1>4. Range(s) = Range(f) \cup {Last(s)}
  <2>1. ASSUME NEW x \in Range(s) PROVE x \in Range(f) \cup {Last(s)}
    BY <1>1, <1>2, <1>3, <2>1
  <2>2. ASSUME NEW x \in Range(f) PROVE x \in Range(s)
    BY <1>1, <1>3, <2>2
  <2>3. Last(s) \in Range(s)
    BY <1>1, <1>3
  <2>4. QED
    BY <2>1, <2>2, <2>3
<1>5. QED
  BY <1>1, <1>4 DEF f

----------------------------------------------------------------------------
(* The backends: types.                                                    *)

Lives == Int \cup {Never}

StoredEntry ==
    [key : Keys \cup Foreign, seq : Nat, asked : Int, at : Int,
     ttl : Lives, until : Lives, envelope : Lives]

TTLs == Lifetimes \cup {NoTTL}

Command ==
    [op : {"get", "del"}, keys : Seq(Keys)]
    \cup [op : {"set"}, keys : Seq(Keys) \ {<<>>}, ttl : TTLs]
    \cup [op : {"put"}, keys : Seq(Keys) \ {<<>>}, ttl : Lives, bulk : BOOLEAN,
          asked : Int, expire : Int, envelope : Lives]
    \cup [op : {"scan", "flush", "purge"}]

BackendTypes ==
    /\ kind \in Kinds \cup {"none"} /\ now \in Nat /\ Epoch <= now
    /\ store \in Seq(StoredEntry) /\ todo \in [Clients -> Seq(Command)]
    /\ scanned \in [Clients -> SUBSET Keys] /\ clearing \subseteq Clients
    /\ writes \in Nat /\ begun \in [Clients -> Nat] /\ cleared \in Nat /\ made \in Nat

\* What a TTL of the caller comes to.
LEMMA SecondsType ==
    ASSUME NEW t \in TTLs
    PROVE  Seconds(t) \in Lives /\ (~Lapsed(t) /\ Seconds(t) # Never => Seconds(t) > 0)
BY BackendConstants DEF Seconds, Lapsed, Lives, TTLs

\* What dividing and multiplying by the unit does.
LEMMA Rounding ==
    ASSUME NEW n \in Int
    PROVE  /\ n \div Unit \in Int /\ Ceil(n) \in Int
           /\ n - Unit < (n \div Unit) * Unit /\ (n \div Unit) * Unit <= n
           /\ n <= Ceil(n) * Unit /\ Ceil(n) * Unit < n + Unit
<1>1. Unit \in Nat /\ Unit > 0
  BY BackendConstants
<1>2. \A m \in Int : m \div Unit \in Int /\ m < Unit * (m \div Unit) + Unit /\ Unit * (m \div Unit) <= m
  BY <1>1
<1>3. n + Unit - 1 \in Int
  BY <1>1
<1>4. \A m \in Int : Unit * m = m * Unit /\ m * Unit \in Int
  BY <1>1
<1>5. QED
  BY <1>1, <1>2, <1>3, <1>4 DEF Ceil

----------------------------------------------------------------------------
(* The backends: how long an entry is going to live.                       *)

\* The deadlines of an entry are as far away as its TTL, up to the rounding of
\* Redis and the clocks of the clients of Memcached.
Timely(e) ==
    /\ e.asked <= e.at /\ e.at <= now
    /\ e.ttl = Never => e.until = Never /\ e.envelope = Never
    /\ e.ttl # Never => e.ttl > 0 /\ e.until \in Int
    /\ e.ttl # Never /\ IsRedis =>
          /\ e.asked = e.at /\ e.envelope = Never
          /\ e.at + e.ttl - Unit <= e.until /\ e.until <= e.at + e.ttl + Unit
    /\ e.ttl # Never /\ kind = "memcached" =>
          /\ e.asked + e.ttl <= e.until /\ e.envelope \in Int
          /\ e.asked + e.ttl <= e.envelope /\ e.envelope <= e.asked + e.ttl + Skew
    /\ e.ttl # Never /\ ~IsRedis /\ kind # "memcached" =>
          e.asked = e.at /\ e.until = e.at + e.ttl /\ e.envelope = Never

\* A value that a client of Memcached has packed: however long it takes to send
\* it, it will be read neither longer nor less.
Packed(cmd) ==
    /\ cmd.asked <= now
    /\ cmd.ttl = Never => cmd.envelope = Never
    /\ cmd.ttl # Never =>
          /\ cmd.ttl > 0 /\ cmd.envelope \in Int
          /\ cmd.asked + cmd.ttl <= cmd.envelope /\ cmd.envelope <= cmd.asked + cmd.ttl + Skew
          /\ cmd.expire > Month => cmd.asked + cmd.ttl <= cmd.expire * Unit
          /\ cmd.expire <= Month => cmd.ttl <= cmd.expire * Unit

\* Such an entry can be read as long as it should, and no longer.
LEMMA TimelyLives ==
    ASSUME now \in Nat, NEW e \in StoredEntry, Timely(e), NEW c \in Clients
    PROVE  IF e.ttl = Never THEN Readable(e, c)
           ELSE /\ now >= e.at + e.ttl + Tolerance => ~Readable(e, c)
                /\ now < e.asked + e.ttl - Tolerance => Readable(e, c)
<1>1. /\ e.at \in Int /\ e.asked \in Int /\ e.ttl \in Int \cup {Never} /\ Never \notin Int
      /\ Unit \in Nat /\ Skew \in Nat /\ Ahead[c] \in Nat /\ Ahead[c] <= Skew
  BY BackendConstants DEF StoredEntry, Lives
<1>2. CASE e.ttl = Never
  BY <1>2 DEF Timely, Readable, Alive, Valid
<1>3. CASE e.ttl # Never /\ IsRedis
  <2>1. Tolerance = Unit
    BY <1>3 DEF Tolerance
  <2>2. QED
    BY <1>1, <1>3, <2>1 DEF Timely, Readable, Alive, Valid
<1>4. CASE e.ttl # Never /\ kind = "memcached"
  <2>1. Tolerance = Skew
    BY <1>4 DEF Tolerance, IsRedis
  <2>2. QED
    BY <1>1, <1>4, <2>1 DEF Timely, Readable, Alive, Valid
<1>5. CASE e.ttl # Never /\ ~IsRedis /\ kind # "memcached"
  <2>1. Tolerance = 0
    BY <1>5 DEF Tolerance
  <2>2. QED
    BY <1>1, <1>5, <2>1 DEF Timely, Readable, Alive, Valid
<1>6. QED
  BY <1>2, <1>3, <1>4, <1>5

\* _pack() and _memcached_expire(), before and beyond a month.
LEMMA PutPacked ==
    ASSUME BackendTypes, kind = "memcached", NEW c \in Clients, NEW ks, NEW t \in TTLs, ~Lapsed(t)
    PROVE  Packed(Put(c, ks, t)) /\ Put(c, ks, t).expire \in Int
<1> DEFINE s == Seconds(t)
           a == Ahead[c]
           p == Put(c, ks, t)
<1>1. /\ now \in Nat /\ a \in Nat /\ a <= Skew /\ Skew \in Nat /\ Never \notin Int
      /\ Unit \in Nat /\ Unit > 0 /\ Month \in Nat /\ Month * Unit \in Nat
      /\ Month * Unit < now
  BY BackendConstants DEF BackendTypes
<1>2. s \in Lives /\ (s # Never => s \in Int /\ s > 0)
  BY SecondsType DEF Lapsed, Lives
<1>3. /\ p.asked = now /\ p.ttl = s
      /\ s = Never => p.envelope = Never /\ p.expire = 0
      /\ s # Never => p.envelope = now + a + s /\ p.expire = Expire(c, t)
  BY DEF Put, IsRedis
<1>4. Expire(c, t) = IF s > Month * Unit THEN Ceil(now + a + s) ELSE AtLeast(Ceil(s), 1)
  BY <1>2 DEF Expire
<1> HIDE DEF s, a, p
<1>5. CASE s = Never
  BY <1>1, <1>3, <1>5 DEF Packed, p
<1>6. CASE s # Never /\ s > Month * Unit
  <2> DEFINE n == now + a + s
             x == Ceil(n)
  <2>1. n \in Int /\ n > Month * Unit /\ s + now <= n
    BY <1>1, <1>2, <1>6
  <2> HIDE DEF n
  <2>2. x \in Int /\ n <= x * Unit
    BY <2>1, Rounding
  <2>3. p.expire = x
    BY <1>3, <1>4, <1>6 DEF n
  <2> HIDE DEF x
  <2>4. x > Month
    <3>1. SUFFICES ASSUME x <= Month PROVE FALSE
      BY <1>1, <2>2
    <3>2. x * Unit <= Month * Unit
      BY <1>1, <2>2, <3>1
    <3>3. QED
      BY <1>1, <2>1, <2>2, <3>2
  <2>5. QED
    BY <1>1, <1>2, <1>3, <1>6, <2>1, <2>2, <2>3, <2>4 DEF Packed, p, n
<1>7. CASE s # Never /\ ~(s > Month * Unit)
  <2> DEFINE x == Ceil(s)
  <2>1. x \in Int /\ s <= x * Unit /\ x * Unit < s + Unit
    BY <1>2, <1>7, Rounding
  <2>2. p.expire = AtLeast(x, 1)
    BY <1>3, <1>4, <1>7
  <2> HIDE DEF x
  <2>3. x > 0
    <3>1. SUFFICES ASSUME x <= 0 PROVE FALSE
      BY <2>1
    <3>2. x * Unit <= 0
      BY <1>1, <2>1, <3>1
    <3>3. QED
      BY <1>1, <1>2, <1>7, <2>1, <3>2
  <2>4. p.expire = x
    BY <2>1, <2>2, <2>3 DEF AtLeast
  <2>5. x <= Month
    <3>1. SUFFICES ASSUME x >= Month + 1 PROVE FALSE
      BY <1>1, <2>1
    <3>2. x * Unit >= (Month + 1) * Unit /\ (Month + 1) * Unit = Month * Unit + Unit
      BY <1>1, <2>1, <3>1
    <3>3. QED
      BY <1>1, <1>2, <1>7, <2>1, <3>2
  <2>6. QED
    BY <1>1, <1>2, <1>3, <1>7, <2>1, <2>4, <2>5 DEF Packed, p
<1>8. p.expire \in Int
  <2>1. \A x \in Int : AtLeast(x, 1) \in Int
    BY DEF AtLeast
  <2>2. \A x \in Int : Ceil(x) \in Int
    BY Rounding
  <2>3. QED
    BY <1>1, <1>2, <1>3, <1>4, <2>1, <2>2
<1>9. QED
  BY <1>2, <1>5, <1>6, <1>7, <1>8 DEF p

\* A value that is stamped when it is executed: Redis counts whole milliseconds,
\* at least one, and the backends of the process count as they are told.
LEMMA PutTimely ==
    ASSUME BackendTypes, kind # "memcached",
           NEW c \in Clients, NEW ks, NEW t \in TTLs, ~Lapsed(t), NEW k \in Keys
    PROVE  Written(Put(c, ks, t), k) \in StoredEntry /\ Timely(Written(Put(c, ks, t), k))
<1> DEFINE s == Seconds(t)
           p == Put(c, ks, t)
           e == Written(p, k)
<1>1. /\ now \in Nat /\ Never \notin Int /\ Unit \in Nat /\ Unit > 0 /\ writes + 1 \in Nat
  BY BackendConstants DEF BackendTypes
<1>2. s \in Lives /\ (s # Never => s \in Int /\ s > 0)
  BY SecondsType DEF Lapsed, Lives
<1>3. /\ p.ttl = s /\ p.asked = now /\ p.envelope = Never
      /\ s # Never /\ IsRedis => p.expire = Milliseconds(t)
  BY DEF Put
<1>4. e = [key |-> k, seq |-> writes + 1, asked |-> now, at |-> now, ttl |-> s,
           until |-> Until(p), envelope |-> Never]
  BY <1>3 DEF Written
<1>5. Milliseconds(t) = AtLeast(s \div Unit, 1)
  BY DEF Milliseconds
<1> SUFFICES e \in StoredEntry /\ Timely(e)
  OBVIOUS
<1> HIDE DEF s, p, e
<1>6. CASE s = Never
  <2>1. Until(p) = Never
    BY <1>3, <1>6 DEF Until
  <2>2. QED
    BY <1>1, <1>2, <1>4, <1>6, <2>1 DEF Timely, StoredEntry, Lives
<1>7. CASE s # Never /\ IsRedis
  <2> DEFINE m == s \div Unit
  <2>1. m \in Int /\ s - Unit < m * Unit /\ m * Unit <= s
    BY <1>2, <1>7, Rounding
  <2>2. p.expire = AtLeast(m, 1)
    BY <1>3, <1>5, <1>7
  <2> HIDE DEF m
  <2>3. Until(p) = now + p.expire * Unit
    BY <1>3, <1>7 DEF Until
  <2>4. CASE m < 1
    <3>1. p.expire = 1
      BY <2>2, <2>4 DEF AtLeast
    <3>2. Until(p) = now + Unit /\ m * Unit <= 0
      BY <1>1, <2>1, <2>3, <2>4, <3>1
    <3>3. QED
      BY <1>1, <1>2, <1>4, <1>7, <2>1, <3>2 DEF Timely, StoredEntry, Lives, IsRedis
  <2>5. CASE ~(m < 1)
    <3>1. p.expire = m
      BY <2>2, <2>5 DEF AtLeast
    <3>2. Until(p) = now + m * Unit /\ m * Unit \in Int
      BY <1>1, <2>1, <2>3, <3>1
    <3>3. QED
      BY <1>1, <1>2, <1>4, <1>7, <2>1, <3>2 DEF Timely, StoredEntry, Lives, IsRedis
  <2>6. QED
    BY <2>4, <2>5
<1>8. CASE s # Never /\ ~IsRedis
  <2>1. Until(p) = now + s
    BY <1>3, <1>8 DEF Until
  <2>2. QED
    BY <1>1, <1>2, <1>4, <1>8, <2>1 DEF Timely, StoredEntry, Lives, IsRedis
<1>9. QED
  BY <1>6, <1>7, <1>8

\* A value that was packed at some time is written at another.
LEMMA PackedTimely ==
    ASSUME BackendTypes, kind = "memcached",
           NEW cmd \in Command, cmd.op = "put", Packed(cmd), NEW k \in Keys
    PROVE  Written(cmd, k) \in StoredEntry /\ Timely(Written(cmd, k))
<1> DEFINE e == Written(cmd, k)
<1>1. /\ now \in Nat /\ Epoch <= now /\ Never \notin Int /\ Unit \in Nat /\ Unit > 0
      /\ writes + 1 \in Nat /\ Skew \in Nat
  BY BackendConstants DEF BackendTypes
<1>2. /\ cmd.ttl \in Lives /\ cmd.asked \in Int /\ cmd.expire \in Int /\ cmd.envelope \in Lives
  BY DEF Command
<1>3. e = [key |-> k, seq |-> writes + 1, asked |-> cmd.asked, at |-> now, ttl |-> cmd.ttl,
           until |-> Until(cmd), envelope |-> cmd.envelope]
  BY DEF Written
<1> SUFFICES e \in StoredEntry /\ Timely(e)
  OBVIOUS
<1> HIDE DEF e
<1>4. CASE cmd.ttl = Never
  <2>1. Until(cmd) = Never
    BY <1>4 DEF Until
  <2>2. QED
    BY <1>1, <1>2, <1>3, <1>4, <2>1 DEF Timely, StoredEntry, Lives, Packed, IsRedis
<1>5. CASE cmd.ttl # Never
  <2>1. Until(cmd) = IF cmd.expire > Month THEN cmd.expire * Unit ELSE now + cmd.expire * Unit
    BY <1>5 DEF Until, Deadline, IsRedis
  <2>2. cmd.expire * Unit \in Int /\ Month \in Nat
    BY <1>1, <1>2, BackendConstants
  <2>3. Until(cmd) \in Int /\ cmd.asked + cmd.ttl <= Until(cmd)
    BY <1>1, <1>2, <1>5, <2>1, <2>2 DEF Packed, Lives
  <2>4. QED
    BY <1>1, <1>2, <1>3, <1>5, <2>3 DEF Timely, StoredEntry, Lives, Packed, IsRedis
<1>6. QED
  BY <1>4, <1>5

----------------------------------------------------------------------------
(* The backends: what commands do to the store.                            *)

\* The keys of a store are those of what occurs in it.
LEMMA HeldRange ==
    ASSUME NEW s
    PROVE  Held(s) = {e.key : e \in Range(s)}
BY DEF Held, Range

\* What occurs in a sequence of entries is an entry.
LEMMA EntryTypes ==
    ASSUME NEW s \in Seq(StoredEntry), NEW e \in Range(s)
    PROVE  e \in StoredEntry /\ e.seq \in Nat /\ e.key \in Keys \cup Foreign
<1>1. e \in StoredEntry
  BY DEF Range
<1>2. QED
  BY <1>1 DEF StoredEntry

\* What is chosen was there.
LEMMA ChosenOf ==
    ASSUME NEW E, NEW s \in Seq(E), NEW P
    PROVE  Chosen(s, P) \in Seq(E) /\ Range(Chosen(s, P)) \subseteq Range(s)
<1>1. Chosen(s, P) \in Seq(E) /\ Range(Chosen(s, P)) = {s[i] : i \in P \cap DOMAIN s}
  BY ChosenRange
<1>2. QED
  BY <1>1 DEF Range

\* What is not under the keys stays.
LEMMA DroppedRange ==
    ASSUME NEW E, NEW s \in Seq(E), NEW ks
    PROVE  Dropped(s, ks) \in Seq(E) /\ Range(Dropped(s, ks)) = {e \in Range(s) : e.key \notin ks}
<1> DEFINE P == {i \in DOMAIN s : s[i].key \notin ks}
<1>1. Chosen(s, P) \in Seq(E) /\ Range(Chosen(s, P)) = {s[i] : i \in P \cap DOMAIN s}
  BY ChosenRange
<1>2. {s[i] : i \in P \cap DOMAIN s} = {e \in Range(s) : e.key \notin ks}
  BY DEF Range
<1>3. QED
  BY <1>1, <1>2 DEF Dropped

\* A value for each of some keys.
LEMMA AllWrittenTyped ==
    ASSUME NEW cmd, \A k \in Keys : Written(cmd, k) \in StoredEntry, NEW ks \in Seq(Keys)
    PROVE  /\ AllWritten(cmd, ks) \in Seq(StoredEntry)
           /\ Range(AllWritten(cmd, ks)) = {Written(cmd, k) : k \in Range(ks)}
<1>1. Len(ks) \in Nat /\ DOMAIN ks = 1..Len(ks) /\ \A i \in 1..Len(ks) : ks[i] \in Keys
  OBVIOUS
<1>2. AllWritten(cmd, ks) \in [1..Len(ks) -> StoredEntry]
  BY <1>1 DEF AllWritten
<1>3. AllWritten(cmd, ks) \in Seq(StoredEntry)
  BY <1>1, <1>2, SeqDef
<1>4. Range(AllWritten(cmd, ks)) = {Written(cmd, k) : k \in Range(ks)}
  BY DEF AllWritten, Range
<1>5. QED
  BY <1>3, <1>4

\* A dict that is updated keeps its keys and has nothing new but the values.
LEMMA ReplacedTyped ==
    ASSUME NEW cmd, cmd.keys \in Seq(Keys), \A k \in Keys : Written(cmd, k) \in StoredEntry,
           NEW s \in Seq(StoredEntry)
    PROVE  /\ Replaced(s, cmd) \in Seq(StoredEntry)
           /\ Range(Replaced(s, cmd)) \subseteq Range(s) \cup {Written(cmd, k) : k \in Keys}
           /\ Held(s) \subseteq Held(Replaced(s, cmd))
<1> DEFINE a == [i \in DOMAIN s |-> IF s[i].key \in Range(cmd.keys)
                                    THEN Written(cmd, s[i].key) ELSE s[i]]
           ks == Chosen(cmd.keys, {i \in DOMAIN cmd.keys : cmd.keys[i] \notin Held(s)})
           b == AllWritten(cmd, ks)
<1>1. Len(s) \in Nat /\ DOMAIN s = 1..Len(s) /\ \A i \in 1..Len(s) : s[i] \in StoredEntry
  OBVIOUS
<1>2. Range(cmd.keys) \subseteq Keys
  BY DEF Range
<1>3. \A k : Written(cmd, k).key = k
  BY DEF Written
<1>4. a \in [1..Len(s) -> StoredEntry]
  BY <1>1, <1>2
<1>5. a \in Seq(StoredEntry)
  BY <1>1, <1>4, SeqDef
<1>6. Range(a) \subseteq Range(s) \cup {Written(cmd, k) : k \in Keys}
  BY <1>2 DEF Range
<1>7. Held(s) \subseteq Held(a)
  <2>1. ASSUME NEW i \in DOMAIN s
        PROVE  i \in DOMAIN a /\ a[i].key = s[i].key
    BY <1>3
  <2>2. QED
    BY <2>1 DEF Held
<1>8. ks \in Seq(Keys)
  BY ChosenRange
<1>9. b \in Seq(StoredEntry) /\ Range(b) \subseteq {Written(cmd, k) : k \in Keys}
  <2>1. b \in Seq(StoredEntry) /\ Range(b) = {Written(cmd, k) : k \in Range(ks)}
    BY <1>8, AllWrittenTyped
  <2>2. Range(ks) \subseteq Keys
    BY <1>8 DEF Range
  <2>3. QED
    BY <2>1, <2>2
<1>10. Replaced(s, cmd) = a \o b
  BY DEF Replaced
<1> HIDE DEF a, b, ks
<1>11. a \o b \in Seq(StoredEntry) /\ Range(a \o b) = Range(a) \cup Range(b)
  BY <1>5, <1>9, ConcatRange
<1>12. Held(a) \subseteq Held(a \o b)
  BY <1>11, HeldRange
<1>13. QED
  BY <1>6, <1>7, <1>9, <1>10, <1>11, <1>12

\* Nothing is in the store after a put but what was there and what was put.
LEMMA PutStore ==
    ASSUME BackendTypes, NEW cmd, cmd.keys \in Seq(Keys) \ {<<>>},
           \A k \in Keys : Written(cmd, k) \in StoredEntry
    PROVE  /\ AfterPut(cmd) \in Seq(StoredEntry)
           /\ Range(AfterPut(cmd)) \subseteq Range(store) \cup {Written(cmd, k) : k \in Keys}
           /\ IsRedis => Held(store) \subseteq Held(AfterPut(cmd))
<1>1. /\ store \in Seq(StoredEntry) /\ MaxSize \in Nat /\ MaxSize > 0
  BY BackendConstants DEF BackendTypes
<1>2. CASE kind = "memory"
  <2> DEFINE e == Written(cmd, cmd.keys[1])
             p == Purged(store)
             d == Dropped(p, {e.key})
             s == Append(d, e)
  <2>1. cmd.keys[1] \in Keys
    OBVIOUS
  <2>2. e \in StoredEntry /\ e \in {Written(cmd, k) : k \in Keys}
    BY <2>1
  <2>3. p \in Seq(StoredEntry) /\ Range(p) \subseteq Range(store)
    BY <1>1, ChosenOf DEF Purged
  <2>4. AfterPut(cmd) = IF Len(s) > MaxSize THEN Tail(s) ELSE s
    BY <1>2 DEF AfterPut, InMemory
  <2> HIDE DEF e, p
  <2>5. d \in Seq(StoredEntry) /\ Range(d) \subseteq Range(p)
    <3>1. Dropped(p, {e.key}) \in Seq(StoredEntry) /\ Range(Dropped(p, {e.key})) = {f \in Range(p) : f.key \notin {e.key}}
      BY <2>3, DroppedRange
    <3>2. QED
      BY <3>1
  <2> HIDE DEF d
  <2>6. s \in Seq(StoredEntry) /\ Range(s) = Range(d) \cup {e} /\ s # <<>>
    BY <2>2, <2>5, AppendRange
  <2> HIDE DEF s
  <2>7. Tail(s) \in Seq(StoredEntry) /\ Range(Tail(s)) \subseteq Range(s)
    BY <2>6, TailRange
  <2>8. QED
    BY <1>2, <2>2, <2>3, <2>4, <2>5, <2>6, <2>7 DEF IsRedis
<1>3. CASE kind # "memory"
  <2> DEFINE s == RoomInAsyncio(cmd)
  <2>1. AfterPut(cmd) = Replaced(s, cmd)
    BY <1>3 DEF AfterPut
  <2>2. /\ s \in Seq(StoredEntry) /\ Range(s) \subseteq Range(store)
        /\ IsRedis => s = store
    <3>1. CASE s = store
      BY <1>1, <3>1
    <3>2. CASE s # store
      <4>1. kind = "asyncio" /\ s = Tail(store) /\ Len(store) >= MaxSize
        BY <3>2 DEF RoomInAsyncio
      <4>2. store # <<>>
        BY <1>1, <4>1
      <4>3. QED
        BY <1>1, <4>1, <4>2, TailRange DEF IsRedis
    <3>3. QED
      BY <3>1, <3>2
  <2> HIDE DEF s
  <2>3. /\ Replaced(s, cmd) \in Seq(StoredEntry)
        /\ Range(Replaced(s, cmd)) \subseteq Range(s) \cup {Written(cmd, k) : k \in Keys}
        /\ Held(s) \subseteq Held(Replaced(s, cmd))
    BY <2>2, ReplacedTyped
  <2>4. QED
    BY <2>1, <2>2, <2>3
<1>4. QED
  BY <1>2, <1>3

----------------------------------------------------------------------------
(* The backends: the commands of a call.                                   *)

\* Nothing is written with a lifetime that is over, and only Memcached's clients
\* send values that they have packed before.
Sendable(cmd) ==
    /\ cmd.op = "set" => ~Lapsed(cmd.ttl)
    /\ cmd.op = "put" => kind = "memcached" /\ Packed(cmd)
    /\ cmd.op = "purge" => kind = "memory"
    /\ cmd.op = "flush" => ~IsRedis
    /\ cmd.op = "scan" => IsRedis

\* A call that is not clear().
Usual(call) ==
    /\ call \in Seq(Command)
    /\ \A i \in DOMAIN call : Sendable(call[i]) /\ call[i].op \in {"get", "del", "set", "purge"}

\* One command, and one for each key in turn.
LEMMA UsualOne ==
    ASSUME NEW cmd \in Command, Sendable(cmd), cmd.op \in {"get", "del", "set", "purge"}
    PROVE  Usual(<<cmd>>)
<1>1. <<cmd>> \in Seq(Command) /\ DOMAIN <<cmd>> = {1} /\ <<cmd>>[1] = cmd
  OBVIOUS
<1>2. QED
  BY <1>1 DEF Usual

\* Reading and deleting some keys.
LEMMA UsualGet ==
    ASSUME NEW ks \in Seq(Keys)
    PROVE  /\ Usual(<<Get(ks)>>) /\ Usual(<<Del(ks)>>)
           /\ Get(ks) \in Command /\ Del(ks) \in Command /\ Sendable(Get(ks)) /\ Sendable(Del(ks))
<1>1. /\ Get(ks) \in Command /\ Get(ks).op = "get"
      /\ Del(ks) \in Command /\ Del(ks).op = "del"
  BY DEF Get, Del, Command
<1>2. Sendable(Get(ks)) /\ Sendable(Del(ks))
  BY <1>1 DEF Sendable
<1>3. QED
  BY <1>1, <1>2, UsualOne

\* Writing some keys, if not for a time that is over.
LEMMA UsualSet ==
    ASSUME NEW ks \in Seq(Keys) \ {<<>>}, NEW t \in TTLs, ~Lapsed(t)
    PROVE  Usual(<<Set(ks, t)>>) /\ Set(ks, t) \in Command /\ Sendable(Set(ks, t))
<1>1. Set(ks, t) \in Command /\ Set(ks, t).op = "set" /\ Set(ks, t).ttl = t
  BY DEF Set, Command
<1>2. Sendable(Set(ks, t))
  BY <1>1 DEF Sendable
<1>3. QED
  BY <1>1, <1>2, UsualOne

\* The same key by key.
LEMMA UsualEach ==
    ASSUME NEW ks \in Seq(Keys), NEW t \in TTLs
    PROVE  Usual(Each(Get, ks)) /\ Usual(Each(Del, ks)) /\ (~Lapsed(t) => Usual(EachSet(ks, t)))
<1>1. Len(ks) \in Nat /\ DOMAIN ks = 1..Len(ks)
  OBVIOUS
<1>2. \A i \in DOMAIN ks : <<ks[i]>> \in Seq(Keys) \ {<<>>}
  <2>1. ASSUME NEW i \in DOMAIN ks
        PROVE  <<ks[i]>> \in Seq(Keys) \ {<<>>}
    <3>1. ks[i] \in Keys
      OBVIOUS
    <3>2. QED
      BY <3>1
  <2>2. QED
    BY <2>1
<1>3. \A ss \in Seq(Keys) : /\ Get(ss) \in Command /\ Sendable(Get(ss)) /\ Get(ss).op = "get"
                            /\ Del(ss) \in Command /\ Sendable(Del(ss)) /\ Del(ss).op = "del"
  BY UsualGet DEF Get, Del
<1>4. Usual(Each(Get, ks))
  <2>1. \A i \in DOMAIN ks : Get(<<ks[i]>>) \in Command
    BY <1>2, <1>3
  <2>2. Each(Get, ks) \in [1..Len(ks) -> Command]
    BY <1>1, <2>1 DEF Each
  <2>3. Each(Get, ks) \in Seq(Command)
    BY <1>1, <2>2, SeqDef
  <2>4. \A i \in DOMAIN Each(Get, ks) : i \in DOMAIN ks /\ Each(Get, ks)[i] = Get(<<ks[i]>>)
    BY DEF Each
  <2>5. QED
    BY <1>2, <1>3, <2>3, <2>4 DEF Usual
<1>5. Usual(Each(Del, ks))
  <2>1. \A i \in DOMAIN ks : Del(<<ks[i]>>) \in Command
    BY <1>2, <1>3
  <2>2. Each(Del, ks) \in [1..Len(ks) -> Command]
    BY <1>1, <2>1 DEF Each
  <2>3. Each(Del, ks) \in Seq(Command)
    BY <1>1, <2>2, SeqDef
  <2>4. \A i \in DOMAIN Each(Del, ks) : i \in DOMAIN ks /\ Each(Del, ks)[i] = Del(<<ks[i]>>)
    BY DEF Each
  <2>5. QED
    BY <1>2, <1>3, <2>3, <2>4 DEF Usual
<1>6. ASSUME ~Lapsed(t)
      PROVE  Usual(EachSet(ks, t))
  <2>1. \A ss \in Seq(Keys) \ {<<>>} :
           Set(ss, t) \in Command /\ Sendable(Set(ss, t)) /\ Set(ss, t).op = "set"
    BY <1>6, UsualSet DEF Set
  <2>2. EachSet(ks, t) \in [1..Len(ks) -> Command]
    BY <1>1, <1>2, <2>1 DEF EachSet, Each
  <2>3. EachSet(ks, t) \in Seq(Command)
    BY <1>1, <2>2, SeqDef
  <2>4. \A i \in DOMAIN EachSet(ks, t) : i \in DOMAIN ks /\ EachSet(ks, t)[i] = Set(<<ks[i]>>, t)
    BY DEF EachSet, Each
  <2>5. QED
    BY <1>2, <2>1, <2>3, <2>4 DEF Usual
<1>7. QED
  BY <1>4, <1>5, <1>6

\* Every method of every backend sends what it may; clear() is one of two.
LEMMA CallsUsual ==
    ASSUME kind \in Kinds, NEW k \in Keys, NEW ks \in Seq(Keys) \ {<<>>}, NEW t \in TTLs,
           NEW call \in Calls(k, ks, t)
    PROVE  Usual(call) \/ (call = Clear /\ IsRedis) \/ (call = Flush /\ ~IsRedis)
<1>1. <<k>> \in Seq(Keys) \ {<<>>}
  OBVIOUS
<1>2. \A c \in OneKey(k, t) : Usual(c)
  <2>1. Usual(SetOne(k, t))
    BY <1>1, UsualGet, UsualSet DEF SetOne
  <2>2. QED
    BY <1>1, <2>1, UsualGet DEF OneKey
<1>3. \A c \in InTurn(ks, t) : Usual(c)
  BY UsualEach DEF InTurn
<1>4. Usual(<<Get(ks)>>) /\ Usual(<<Del(ks)>>) /\ (~Lapsed(t) => Usual(EachSet(ks, t)))
  BY UsualGet, UsualEach
<1>5. CASE call \in RedisCalls(k, ks, t) /\ IsRedis
  BY <1>2, <1>4, <1>5 DEF RedisCalls
<1>6. CASE call \in MemcachedCalls(k, ks, t) \cup DjangoCalls(k, ks, t) /\ ~IsRedis
  BY <1>2, <1>3, <1>6 DEF MemcachedCalls, DjangoCalls
<1>7. CASE call \in MemoryCalls(k, ks, t) /\ kind = "memory"
  <2>1. Usual(<<[op |-> "purge"]>>)
    <3>1. [op |-> "purge"] \in Command /\ Sendable([op |-> "purge"])
      BY <1>7 DEF Command, Sendable
    <3>2. QED
      BY <3>1, UsualOne
  <2>2. QED
    BY <1>2, <1>3, <1>7, <2>1 DEF MemoryCalls, IsRedis
<1>8. CASE call \in NullCalls(k, ks, t) \cup AsyncioCalls(k, ks, t) /\ kind \in {"null", "asyncio"}
  <2>1. ~Lapsed(t)
    BY <1>8 DEF Lapsed, Seconds, Locked
  <2>2. Usual(<<Set(ks, t)>>)
    BY <2>1, UsualSet
  <2>3. QED
    BY <1>2, <1>4, <1>8, <2>2 DEF NullCalls, AsyncioCalls, IsRedis
<1>9. QED
  <2>1. kind \in {"redis", "async_redis", "memcached", "django", "memory", "null", "asyncio"}
    BY BackendConstants
  <2>2. QED
    BY <1>5, <1>6, <1>7, <1>8, <2>1 DEF Calls, AsyncRedisCalls, IsRedis

----------------------------------------------------------------------------
(* The backends: steps.                                                    *)

\* A finite set in any order.
LEMMA SeqOfSet ==
    ASSUME NEW S, IsFiniteSet(S)
    PROVE  SetToSeq(S) \in Seq(S) /\ Range(SetToSeq(S)) = S
<1> DEFINE n == Cardinality(S)
           f == SetToSeq(S)
<1>1. n \in Nat /\ ExistsBijection(1..n, S)
  BY FS_CardinalityType
<1>2. \E g \in [1..n -> S] : IsInjective(g)
  BY <1>1 DEF ExistsBijection, Bijection, Injection
<1>3. f \in [1..n -> S] /\ IsInjective(f)
  BY <1>2 DEF SetToSeq
<1> HIDE DEF n, f
<1>4. f \in Seq(S)
  BY <1>1, <1>3, SeqDef
<1>5. Range(f) = S
  <2>1. IsFiniteSet(1..n) /\ Cardinality(1..n) = n
    BY <1>1, FS_Interval
  <2>2. f \in Injection(1..n, S)
    BY <1>3 DEF Injection
  <2>3. IsFiniteSet(Range(f)) /\ Cardinality(Range(f)) = n /\ Range(f) \subseteq S
    <3>1. f \in Surjection(1..n, Range(f))
      BY <1>3 DEF Surjection, Range
    <3>2. f \in Bijection(1..n, Range(f))
      BY <1>3, <3>1 DEF Bijection, Injection, Surjection, IsInjective
    <3>3. ExistsBijection(1..n, Range(f))
      BY <3>2 DEF ExistsBijection
    <3>4. QED
      BY <1>3, <2>1, <3>3, FS_Bijection DEF Range
  <2>4. Cardinality(S) = n
    BY DEF n
  <2>5. QED
    BY <2>3, <2>4, FS_Subset
<1>6. QED
  BY <1>4, <1>5 DEF f

\* What a command does to the store, whoever sends it.
StoreEffect(cmd) ==
    \/ /\ cmd.op \in {"set", "put"} /\ writes' = writes + 1
       /\ \A e \in Range(store') :
             e \in Range(store) \/ (e.key \in Keys /\ e.seq = writes + 1 /\ Timely(e))
       /\ IsRedis => Held(store) \subseteq Held(store')
    \/ /\ cmd.op = "del" /\ writes' = writes
       /\ Range(store') = {e \in Range(store) : e.key \notin Range(cmd.keys)}
    \/ /\ cmd.op \in {"get", "purge"} /\ writes' = writes
       /\ Range(store') \subseteq Range(store) /\ (IsRedis => store' = store)
    \/ /\ cmd.op = "flush" /\ writes' = writes
       /\ store' = <<>> /\ ~IsRedis

\* A put writes what lives as long as it should.
LEMMA PutEffect ==
    ASSUME BackendTypes, NEW cmd, cmd.keys \in Seq(Keys) \ {<<>>},
           \A k \in Keys : Written(cmd, k) \in StoredEntry /\ Timely(Written(cmd, k))
    PROVE  /\ AfterPut(cmd) \in Seq(StoredEntry)
           /\ \A e \in Range(AfterPut(cmd)) :
                 e \in Range(store) \/ (e.key \in Keys /\ e.seq = writes + 1 /\ Timely(e))
           /\ IsRedis => Held(store) \subseteq Held(AfterPut(cmd))
<1>1. /\ AfterPut(cmd) \in Seq(StoredEntry)
      /\ Range(AfterPut(cmd)) \subseteq Range(store) \cup {Written(cmd, k) : k \in Keys}
      /\ IsRedis => Held(store) \subseteq Held(AfterPut(cmd))
  BY PutStore
<1>2. \A k \in Keys : Written(cmd, k).key = k /\ Written(cmd, k).seq = writes + 1
  BY DEF Written
<1> HIDE DEF Timely, Written, AfterPut
<1>3. QED
  BY <1>1, <1>2

\* Each command, when it is executed.
LEMMA ExecuteEffect ==
    ASSUME BackendTypes, NEW c \in Clients, Execute(c), Sendable(Head(todo[c]))
    PROVE  store' \in Seq(StoredEntry) /\ Head(todo[c]) \in Command /\ StoreEffect(Head(todo[c]))
<1> DEFINE cmd == Head(todo[c])
<1>1. todo[c] \in Seq(Command) /\ todo[c] # <<>> /\ store \in Seq(StoredEntry)
  BY DEF BackendTypes, Execute
<1>2. cmd \in Command
  BY <1>1
<1>3. ASSUME cmd.op = "set"
      PROVE  store' \in Seq(StoredEntry) /\ StoreEffect(cmd)
  <2> DEFINE p == Put(c, cmd.keys, cmd.ttl)
  <2>1. kind # "memcached" /\ writes' = writes + 1 /\ store' = AfterPut(p)
    BY <1>3 DEF Execute, Put
  <2>2. cmd.keys \in Seq(Keys) \ {<<>>} /\ cmd.ttl \in TTLs /\ ~Lapsed(cmd.ttl)
    BY <1>2, <1>3 DEF Command, Sendable
  <2>3. p.keys = cmd.keys
    BY DEF Put
  <2>4. \A k \in Keys : Written(p, k) \in StoredEntry /\ Timely(Written(p, k))
    BY <2>1, <2>2, PutTimely
  <2> HIDE DEF p
  <2>5. /\ AfterPut(p) \in Seq(StoredEntry)
        /\ \A e \in Range(AfterPut(p)) :
              e \in Range(store) \/ (e.key \in Keys /\ e.seq = writes + 1 /\ Timely(e))
        /\ IsRedis => Held(store) \subseteq Held(AfterPut(p))
    BY <2>2, <2>3, <2>4, PutEffect
  <2>6. QED
    BY <1>3, <2>1, <2>5 DEF StoreEffect
<1>4. ASSUME cmd.op = "put"
      PROVE  store' \in Seq(StoredEntry) /\ StoreEffect(cmd)
  <2>1. kind = "memcached" /\ Packed(cmd) /\ writes' = writes + 1 /\ store' = AfterPut(cmd)
    BY <1>4 DEF Execute, Sendable
  <2>2. cmd.keys \in Seq(Keys) \ {<<>>}
    BY <1>2, <1>4 DEF Command
  <2>3. \A k \in Keys : Written(cmd, k) \in StoredEntry /\ Timely(Written(cmd, k))
    BY <1>2, <1>4, <2>1, PackedTimely
  <2> HIDE DEF cmd
  <2>4. /\ AfterPut(cmd) \in Seq(StoredEntry)
        /\ \A e \in Range(AfterPut(cmd)) :
              e \in Range(store) \/ (e.key \in Keys /\ e.seq = writes + 1 /\ Timely(e))
        /\ IsRedis => Held(store) \subseteq Held(AfterPut(cmd))
    BY <2>2, <2>3, PutEffect
  <2>5. QED
    BY <1>4, <2>1, <2>4 DEF StoreEffect
<1>5. ASSUME cmd.op = "del"
      PROVE  store' \in Seq(StoredEntry) /\ StoreEffect(cmd)
  <2>1. store' = Dropped(store, Range(cmd.keys)) /\ writes' = writes
    BY <1>5 DEF Execute
  <2>2. \A ks : /\ Dropped(store, ks) \in Seq(StoredEntry)
                /\ Range(Dropped(store, ks)) = {e \in Range(store) : e.key \notin ks}
    BY <1>1, DroppedRange
  <2> HIDE DEF cmd
  <2>3. QED
    BY <1>5, <2>1, <2>2 DEF StoreEffect
<1>6. ASSUME cmd.op = "get"
      PROVE  store' \in Seq(StoredEntry) /\ StoreEffect(cmd)
  <2>1. store' = AfterGet(cmd) /\ writes' = writes
    BY <1>6 DEF Execute
  <2>2. CASE kind # "memory"
    <3>1. store' = store
      BY <2>1, <2>2 DEF AfterGet
    <3>2. QED
      BY <1>1, <1>6, <2>1, <3>1 DEF StoreEffect
  <2>3. CASE kind = "memory"
    <3> DEFINE k == cmd.keys[1]
               d == Dropped(store, {k})
               f == Chosen(store, {i \in DOMAIN store : store[i].key = k /\ Alive(store[i])})
    <3>1. store' = d \o f
      BY <2>1, <2>3 DEF AfterGet
    <3>2. f \in Seq(StoredEntry) /\ Range(f) \subseteq Range(store)
      BY <1>1, ChosenOf
    <3>3. d \in Seq(StoredEntry) /\ Range(d) \subseteq Range(store)
      <4> HIDE DEF k
      <4>1. d \in Seq(StoredEntry) /\ Range(d) = {e \in Range(store) : e.key \notin {k}}
        BY <1>1, DroppedRange
      <4>2. QED
        BY <4>1
    <3> HIDE DEF d, f
    <3>4. d \o f \in Seq(StoredEntry) /\ Range(d \o f) = Range(d) \cup Range(f)
      BY <3>2, <3>3, ConcatRange
    <3>5. QED
      BY <1>6, <2>1, <2>3, <3>1, <3>2, <3>3, <3>4 DEF StoreEffect, IsRedis
  <2>4. QED
    BY <2>2, <2>3
<1>7. ASSUME cmd.op = "purge"
      PROVE  store' \in Seq(StoredEntry) /\ StoreEffect(cmd)
  <2>1. store' = Purged(store) /\ writes' = writes
    BY <1>7 DEF Execute
  <2>2. store' \in Seq(StoredEntry) /\ Range(store') \subseteq Range(store)
    BY <1>1, <2>1, ChosenOf DEF Purged
  <2>3. ~IsRedis
    BY <1>7 DEF Sendable, IsRedis
  <2>4. QED
    BY <1>7, <2>1, <2>2, <2>3 DEF StoreEffect
<1>8. ASSUME cmd.op = "flush"
      PROVE  store' \in Seq(StoredEntry) /\ StoreEffect(cmd)
  <2>1. store' = <<>> /\ writes' = writes
    BY <1>8 DEF Execute
  <2>2. <<>> \in Seq(StoredEntry)
    OBVIOUS
  <2>3. QED
    BY <1>8, <2>1, <2>2 DEF StoreEffect, Sendable
<1>9. cmd.op # "scan"
  BY DEF Execute
<1>10. cmd.op \in {"get", "del", "set", "put", "scan", "flush", "purge"}
  BY <1>2 DEF Command
<1>11. QED
  BY <1>2, <1>3, <1>4, <1>5, <1>6, <1>7, <1>8, <1>9, <1>10

AllTimely == \A e \in Range(store) : Timely(e)

AllSendable == \A c \in Clients : \A i \in DOMAIN todo[c] : Sendable(todo[c][i])

\* What makes TTLs hold: types, and what is on its way is as timely as what has arrived.
Sound ==
    /\ BackendTypes
    /\ kind = "none" => store = <<>> /\ \A c \in Clients : todo[c] = <<>>
    /\ AllTimely /\ AllSendable

\* Time does nothing to deadlines.
LEMMA Later ==
    ASSUME now \in Nat, now' \in Nat, now <= now', kind' = kind
    PROVE  /\ \A e \in StoredEntry : Timely(e) => Timely(e)'
           /\ \A cmd \in Command : Sendable(cmd) => Sendable(cmd)'
<1>1. \A e \in StoredEntry : Timely(e) => Timely(e)'
  <2>1. SUFFICES ASSUME NEW e \in StoredEntry, Timely(e) PROVE Timely(e)'
    OBVIOUS
  <2>2. e.at \in Int
    BY DEF StoredEntry
  <2>3. QED
    BY <2>1, <2>2 DEF Timely, IsRedis
<1>2. \A cmd \in Command : Sendable(cmd) => Sendable(cmd)'
  <2>1. SUFFICES ASSUME NEW cmd \in Command, Sendable(cmd) PROVE Sendable(cmd)'
    OBVIOUS
  <2>2. (cmd.op = "set" => ~Lapsed(cmd.ttl))'
    BY <2>1 DEF Sendable, Lapsed, Seconds, Locked
  <2>3. (cmd.op = "put" => kind = "memcached" /\ Packed(cmd))'
    <3>1. ASSUME cmd.op = "put" PROVE cmd.asked \in Int
      BY <3>1 DEF Command
    <3>2. QED
      BY <2>1, <3>1 DEF Sendable, Packed
  <2>4. QED
    BY <2>1, <2>2, <2>3 DEF Sendable, IsRedis
<1>3. QED
  BY <1>1, <1>2

\* One client's call goes on.
LEMMA TodoGoesOn ==
    ASSUME BackendTypes, AllSendable, kind' = kind, now' = now,
           NEW c \in Clients, NEW rest \in Seq(Command), todo' = [todo EXCEPT ![c] = rest],
           \A i \in DOMAIN rest : Sendable(rest[i])
    PROVE  todo' \in [Clients -> Seq(Command)] /\ AllSendable'
<1>1. /\ todo \in [Clients -> Seq(Command)] /\ now \in Nat
      /\ \A s \in Seq(Command) : DOMAIN s = 1..Len(s) /\ \A i \in DOMAIN s : s[i] \in Command
  BY DEF BackendTypes
<1>2. todo' \in [Clients -> Seq(Command)]
  BY <1>1
<1>3. \A cmd \in Command : Sendable(cmd) => Sendable(cmd)'
  BY <1>1, Later
<1>4. ASSUME NEW b \in Clients, NEW i \in DOMAIN todo'[b]
      PROVE  todo'[b][i] \in Command /\ Sendable(todo'[b][i])
  <2>1. CASE b = c
    BY <1>1, <2>1
  <2>2. CASE b # c
    BY <1>1, <2>2 DEF AllSendable
  <2>3. QED
    BY <2>1, <2>2
<1> HIDE DEF Sendable
<1>5. AllSendable'
  BY <1>3, <1>4 DEF AllSendable
<1>6. QED
  BY <1>2, <1>5

\* There are finitely many keys of others.
LEMMA StrangersFinite == IsFiniteSet({Stranger(f) : f \in Foreign})
<1> DEFINE T == {Stranger(f) : f \in Foreign}
           g == [f \in Foreign |-> Stranger(f)]
<1>1. g \in Surjection(Foreign, T)
  BY DEF Surjection
<1>2. IsFiniteSet(Foreign)
  BY BackendConstants
<1> HIDE DEF g, T
<1>3. IsFiniteSet(T)
  BY <1>1, <1>2, FS_Surjection
<1>4. QED
  BY <1>3 DEF T

\* What others keep on the server, before anything was written.
LEMMA ConfigureSound ==
    ASSUME Sound, NEW k \in Kinds, Configure(k)
    PROVE  Sound'
<1> DEFINE T == {Stranger(f) : f \in Foreign}
<1>1. /\ kind = "none" /\ kind' = k /\ now' = now /\ todo' = todo
      /\ \A c \in Clients : todo[c] = <<>>
      /\ k # "none" /\ Epoch \in Nat /\ now \in Nat /\ Epoch <= now
  BY BackendConstants DEF Sound, BackendTypes, Configure
<1>2. IsFiniteSet(T)
  BY StrangersFinite
<1>3. \A e \in T : e \in StoredEntry /\ (Timely(e))'
  <2>1. SUFFICES ASSUME NEW f \in Foreign PROVE Stranger(f) \in StoredEntry /\ (Timely(Stranger(f)))'
    OBVIOUS
  <2>2. Stranger(f) \in StoredEntry
    BY <1>1 DEF Stranger, StoredEntry, Lives
  <2>3. (Timely(Stranger(f)))'
    BY <1>1 DEF Stranger, Timely
  <2>4. QED
    BY <2>2, <2>3
<1>4. store' = <<>> \/ store' = SetToSeq(T)
  BY DEF Configure
<1> HIDE DEF T
<1>5. SetToSeq(T) \in Seq(T) /\ Range(SetToSeq(T)) = T
  BY <1>2, SeqOfSet
<1>6. store' \in Seq(StoredEntry) /\ \A e \in Range(store') : (Timely(e))'
  <2>1. T \subseteq StoredEntry
    BY <1>3
  <2>2. SetToSeq(T) \in Seq(StoredEntry)
    <3> DEFINE s == SetToSeq(T)
    <3>1. s \in Seq(T)
      BY <1>5
    <3> HIDE DEF s
    <3>2. s \in Seq(StoredEntry)
      BY <2>1, <3>1
    <3>3. QED
      BY <3>2 DEF s
  <2>3. Range(<<>>) = {}
    BY DEF Range
  <2>4. CASE store' = <<>>
    BY <2>3, <2>4
  <2>5. CASE store' = SetToSeq(T)
    BY <1>3, <1>5, <2>2, <2>5
  <2>6. QED
    BY <1>4, <2>4, <2>5
<1>7. BackendTypes'
  BY <1>1, <1>6 DEF Sound, BackendTypes, Configure
<1>8. AllSendable'
  BY <1>1 DEF AllSendable
<1>9. QED
  BY <1>1, <1>6, <1>7, <1>8 DEF Sound, AllTimely

\* The entries that stay are as timely as they were.
LEMMA StoreKeepsTime ==
    ASSUME BackendTypes, AllTimely, kind' = kind, now' = now, store' \in Seq(StoredEntry),
           \A e \in Range(store') : e \in Range(store) \/ Timely(e)
    PROVE  AllTimely'
<1>1. /\ now \in Nat /\ store \in Seq(StoredEntry)
      /\ \A s \in Seq(StoredEntry) : Range(s) \subseteq StoredEntry
  BY DEF BackendTypes, Range
<1>2. \A e \in StoredEntry : Timely(e) => (Timely(e))'
  BY <1>1, Later
<1> HIDE DEF Timely
<1>3. \A e \in Range(store') : e \in StoredEntry /\ Timely(e)
  BY <1>1 DEF AllTimely
<1>4. QED
  BY <1>2, <1>3 DEF AllTimely

\* A call that is sent.
LEMMA CallSound ==
    ASSUME Sound, NEW c \in Clients, Call(c)
    PROVE  Sound'
<1> DEFINE all == SetToSeq(Keys)
<1>1. /\ BackendTypes /\ AllTimely /\ AllSendable
      /\ kind # "none" /\ kind' = kind /\ now' = now /\ store' = store /\ kind \in Kinds
  BY DEF Sound, Call, BackendTypes
<1>2. PICK k \in Keys, t \in TTLs : \E call \in Calls(k, all, t) :
         /\ todo' = [todo EXCEPT ![c] = call]
         /\ clearing' = IF call \in {Clear, Flush} THEN clearing \cup {c} ELSE clearing
         /\ begun' = IF call \in {Clear, Flush} THEN [begun EXCEPT ![c] = writes] ELSE begun
  BY DEF Call, TTLs
<1>3. PICK call \in Calls(k, all, t) :
         /\ todo' = [todo EXCEPT ![c] = call]
         /\ clearing' = IF call \in {Clear, Flush} THEN clearing \cup {c} ELSE clearing
         /\ begun' = IF call \in {Clear, Flush} THEN [begun EXCEPT ![c] = writes] ELSE begun
  BY <1>2
<1>4. all \in Seq(Keys) \ {<<>>}
  <2>1. IsFiniteSet(Keys)
    BY BackendConstants
  <2>2. all \in Seq(Keys) /\ Range(all) = Keys
    BY <2>1, SeqOfSet
  <2>3. Range(<<>>) = {}
    BY DEF Range
  <2> HIDE DEF all
  <2>4. QED
    BY <1>2, <2>2, <2>3
<1> HIDE DEF all
<1>5. Usual(call) \/ (call = Clear /\ IsRedis) \/ (call = Flush /\ ~IsRedis)
  BY <1>1, <1>3, <1>4, CallsUsual
<1>6. call \in Seq(Command) /\ \A i \in DOMAIN call : Sendable(call[i])
  <2>1. CASE Usual(call)
    BY <2>1 DEF Usual
  <2>2. CASE call = Clear /\ IsRedis
    <3>1. [op |-> "scan"] \in Command /\ Sendable([op |-> "scan"])
      BY <2>2 DEF Command, Sendable
    <3>2. QED
      BY <2>2, <3>1 DEF Clear
  <2>3. CASE call = Flush /\ ~IsRedis
    <3>1. [op |-> "flush"] \in Command /\ Sendable([op |-> "flush"])
      BY <2>3 DEF Command, Sendable
    <3>2. QED
      BY <2>3, <3>1 DEF Flush
  <2>4. QED
    BY <1>5, <2>1, <2>2, <2>3
<1>7. todo' \in [Clients -> Seq(Command)] /\ AllSendable'
  BY <1>1, <1>3, <1>6, TodoGoesOn
<1>8. BackendTypes'
  BY <1>1, <1>3, <1>7 DEF BackendTypes, Call
<1>9. AllTimely'
  <2>1. store' \in Seq(StoredEntry)
    BY <1>1 DEF BackendTypes
  <2>2. QED
    BY <1>1, <2>1, StoreKeepsTime
<1>10. QED
  BY <1>1, <1>7, <1>8, <1>9 DEF Sound

\* A value that is packed.
LEMMA StampSound ==
    ASSUME Sound, NEW c \in Clients, Stamp(c)
    PROVE  Sound'
<1> DEFINE cmd == Head(todo[c])
           p == Put(c, cmd.keys, cmd.ttl)
           rest == <<p>> \o Tail(todo[c])
<1>1. /\ BackendTypes /\ AllTimely /\ AllSendable
      /\ kind = "memcached" /\ kind' = kind /\ now' = now /\ store' = store
      /\ todo[c] \in Seq(Command) /\ todo[c] # <<>> /\ cmd.op = "set"
      /\ now \in Nat
  BY DEF Sound, Stamp, BackendTypes
<1>2. todo' = [todo EXCEPT ![c] = rest]
  BY DEF Stamp
<1>3. cmd \in Command /\ cmd \in Range(todo[c]) /\ Tail(todo[c]) \in Seq(Command)
      /\ Range(Tail(todo[c])) \subseteq Range(todo[c])
  BY <1>1, TailRange
<1>4. \A x \in Range(todo[c]) : Sendable(x)
  BY <1>1 DEF AllSendable, Range
<1>5. cmd.keys \in Seq(Keys) \ {<<>>} /\ cmd.ttl \in TTLs /\ ~Lapsed(cmd.ttl)
  BY <1>1, <1>3, <1>4 DEF Command, Sendable
<1>6. p \in Command /\ Sendable(p)
  <2>1. Packed(p) /\ p.expire \in Int
    BY <1>1, <1>5, PutPacked
  <2>2. Seconds(cmd.ttl) \in Lives /\ Ahead[c] \in Int
    BY <1>5, SecondsType, BackendConstants
  <2>3. p.envelope \in Lives
    BY <1>1, <2>2 DEF Put, Lives
  <2>4. p \in Command
    BY <1>1, <1>5, <2>1, <2>2, <2>3 DEF Put, Command
  <2>5. p.op = "put"
    BY DEF Put
  <2> HIDE DEF p
  <2>6. QED
    BY <1>1, <2>1, <2>4, <2>5 DEF Sendable
<1> HIDE DEF p, cmd
<1>7. rest \in Seq(Command) /\ \A i \in DOMAIN rest : Sendable(rest[i])
  <2> DEFINE one == <<p>>
             more == Tail(todo[c])
  <2>1. one \in Seq(Command) /\ Range(one) = {p}
    BY <1>6 DEF Range
  <2>2. more \in Seq(Command)
    BY <1>3
  <2> HIDE DEF one, more
  <2>3. one \o more \in Seq(Command) /\ Range(one \o more) = Range(one) \cup Range(more)
    BY <2>1, <2>2, ConcatRange
  <2>4. \A x \in Range(one \o more) : Sendable(x)
    BY <1>3, <1>4, <1>6, <2>1, <2>3 DEF more
  <2>5. QED
    BY <2>3, <2>4 DEF Range, one, more
<1> HIDE DEF rest
<1>8. todo' \in [Clients -> Seq(Command)] /\ AllSendable'
  BY <1>1, <1>2, <1>7, TodoGoesOn
<1>9. BackendTypes'
  BY <1>1, <1>8 DEF BackendTypes, Stamp
<1>10. AllTimely'
  <2>1. store' \in Seq(StoredEntry)
    BY <1>1 DEF BackendTypes
  <2>2. QED
    BY <1>1, <2>1, StoreKeepsTime
<1>11. QED
  BY <1>1, <1>8, <1>9, <1>10 DEF Sound

\* A command that reaches the store.
LEMMA ExecuteSound ==
    ASSUME Sound, NEW c \in Clients, Execute(c)
    PROVE  Sound'
<1> DEFINE cmd == Head(todo[c])
           rest == Tail(todo[c])
<1>1. /\ BackendTypes /\ AllTimely /\ AllSendable
      /\ kind' = kind /\ now' = now /\ todo[c] \in Seq(Command) /\ todo[c] # <<>>
      /\ todo' = [todo EXCEPT ![c] = rest]
  BY DEF Sound, Execute, BackendTypes, Goes
<1>2. kind # "none"
  BY <1>1 DEF Sound
<1>3. cmd \in Range(todo[c]) /\ rest \in Seq(Command) /\ Range(rest) \subseteq Range(todo[c])
  BY <1>1, TailRange
<1>4. \A x \in Range(todo[c]) : Sendable(x)
  BY <1>1 DEF AllSendable, Range
<1>5. store' \in Seq(StoredEntry) /\ StoreEffect(cmd)
  BY <1>1, <1>3, <1>4, ExecuteEffect
<1>6. \A i \in DOMAIN rest : Sendable(rest[i])
  BY <1>3, <1>4 DEF Range
<1> HIDE DEF rest, cmd
<1>7. todo' \in [Clients -> Seq(Command)] /\ AllSendable'
  BY <1>1, <1>3, <1>6, TodoGoesOn
<1>8. /\ writes' \in Nat
      /\ \A e \in Range(store') : e \in Range(store) \/ Timely(e)
  <2>1. writes \in Nat /\ Range(<<>>) = {}
    BY <1>1 DEF BackendTypes, Range
  <2> HIDE DEF Timely
  <2>2. QED
    BY <1>5, <2>1 DEF StoreEffect
<1>9. AllTimely'
  BY <1>1, <1>5, <1>8, StoreKeepsTime
<1>10. BackendTypes'
  <2>1. clearing' \subseteq Clients
    BY <1>1 DEF BackendTypes, Execute, Goes
  <2>2. cleared' \in Nat
    BY <1>1 DEF BackendTypes, Execute, Goes, AtLeast
  <2>3. QED
    BY <1>1, <1>5, <1>7, <1>8, <2>1, <2>2 DEF BackendTypes, Execute
<1>11. QED
  BY <1>1, <1>2, <1>7, <1>9, <1>10 DEF Sound

\* A page of keys: what is deleted next is of the caller's own keys.
LEMMA PageKeys ==
    ASSUME BackendTypes, NEW page \in SUBSET Keys
    PROVE  SetToSeq(page) \in Seq(Keys) /\ Range(SetToSeq(page)) = page
<1>1. IsFiniteSet(page)
  BY BackendConstants, FS_Subset
<1> DEFINE s == SetToSeq(page)
<1>2. s \in Seq(page) /\ Range(s) = page
  BY <1>1, SeqOfSet
<1> HIDE DEF s
<1>3. s \in Seq(Keys)
  BY <1>2
<1>4. QED
  BY <1>2, <1>3 DEF s

\* A page names keys of the caller's, and the rest of the call may be sent.
LEMMA PageEffect ==
    ASSUME BackendTypes, AllSendable, NEW c \in Clients, Scan(c)
    PROVE  /\ IsRedis
           /\ \E page \in SUBSET Keys, last \in BOOLEAN :
                 /\ \A e \in Range(store) :
                       last /\ Alive(e) /\ e.key \notin Foreign /\ e.seq <= begun[c]
                          => e.key \in scanned[c] \cup page
                 /\ scanned' = [scanned EXCEPT ![c] = IF last THEN {} ELSE @ \cup page]
                 /\ Goes(c, AfterPage(page, last))
                 /\ AfterPage(page, last) \in Seq(Command)
                 /\ \A i \in DOMAIN AfterPage(page, last) : Sendable(AfterPage(page, last)[i])
<1>1. todo[c] \in Seq(Command) /\ todo[c] # <<>> /\ Head(todo[c]).op = "scan"
  BY DEF BackendTypes, Scan
<1>2. IsRedis
  <2>1. Head(todo[c]) = todo[c][1] /\ 1 \in DOMAIN todo[c]
    BY <1>1
  <2>2. QED
    BY <1>1, <2>1 DEF AllSendable, Sendable
<1> DEFINE matching == {e \in Range(store) : Alive(e) /\ MatchesPrefix(e.key)}
           allAlong == {e.key : e \in {e \in matching : e.seq <= begun[c]}}
<1>3. PICK page \in SUBSET {e.key : e \in matching}, last \in BOOLEAN :
         /\ last => allAlong \subseteq scanned[c] \cup page
         /\ scanned' = [scanned EXCEPT ![c] = IF last THEN {} ELSE @ \cup page]
         /\ Goes(c, AfterPage(page, last))
  BY DEF Scan
<1>4. page \in SUBSET Keys
  <2>1. \A e \in Range(store) : e.key \in Keys \cup Foreign
    BY EntryTypes DEF BackendTypes
  <2>2. QED
    BY <1>3, <2>1 DEF MatchesPrefix
<1>5. \A e \in Range(store) :
         last /\ Alive(e) /\ e.key \notin Foreign /\ e.seq <= begun[c] => e.key \in scanned[c] \cup page
  BY <1>3 DEF MatchesPrefix
<1>6. SetToSeq(page) \in Seq(Keys)
  BY <1>4, PageKeys
<1> DEFINE d == Del(SetToSeq(page))
           sc == [op |-> "scan"]
<1>7. d \in Command /\ Sendable(d) /\ sc \in Command /\ Sendable(sc)
  BY <1>2, <1>6, UsualGet DEF Command, Sendable
<1> DEFINE rest == AfterPage(page, last)
<1>8. rest \in {<<>>, <<d>>, <<sc>>, <<d, sc>>}
  <2> HIDE DEF d, sc
  <2>1. <<d>> \o <<sc>> = <<d, sc>> /\ <<>> \o <<sc>> = <<sc>> /\ <<d>> \o <<>> = <<d>> /\ <<>> \o <<>> = <<>>
    BY Pairs
  <2>2. rest = (IF page = {} THEN <<>> ELSE <<d>>) \o (IF last THEN <<>> ELSE <<sc>>)
    BY DEF AfterPage, Clear, d, sc
  <2> HIDE DEF rest
  <2>3. QED
    BY <2>1, <2>2
<1> HIDE DEF d, sc
<1>9. rest \in Seq(Command) /\ \A i \in DOMAIN rest : Sendable(rest[i])
  <2> HIDE DEF rest
  <2>1. CASE rest = <<>>
    BY <2>1
  <2>2. CASE rest = <<d>>
    BY <1>7, <2>2
  <2>3. CASE rest = <<sc>>
    BY <1>7, <2>3
  <2>4. CASE rest = <<d, sc>>
    BY <1>7, <2>4
  <2>5. QED
    BY <1>8, <2>1, <2>2, <2>3, <2>4
<1>10. QED
  BY <1>2, <1>3, <1>4, <1>5, <1>9

\* A page of clear().
LEMMA ScanSound ==
    ASSUME Sound, NEW c \in Clients, Scan(c)
    PROVE  Sound'
<1>1. /\ BackendTypes /\ AllTimely /\ AllSendable /\ kind # "none"
      /\ kind' = kind /\ now' = now /\ store' = store
  <2>1. todo[c] # <<>>
    BY DEF Scan
  <2>2. QED
    BY <2>1 DEF Sound, Scan
<1>2. PICK page \in SUBSET Keys, last \in BOOLEAN :
         /\ scanned' = [scanned EXCEPT ![c] = IF last THEN {} ELSE @ \cup page]
         /\ Goes(c, AfterPage(page, last))
         /\ AfterPage(page, last) \in Seq(Command)
         /\ \A i \in DOMAIN AfterPage(page, last) : Sendable(AfterPage(page, last)[i])
  BY <1>1, PageEffect
<1> DEFINE rest == AfterPage(page, last)
<1>3. todo' = [todo EXCEPT ![c] = rest] /\ rest \in Seq(Command) /\ \A i \in DOMAIN rest : Sendable(rest[i])
  BY <1>2 DEF Goes
<1> HIDE DEF rest
<1>4. todo' \in [Clients -> Seq(Command)] /\ AllSendable'
  BY <1>1, <1>3, TodoGoesOn
<1>5. BackendTypes'
  <2>1. clearing' \subseteq Clients
    BY <1>1, <1>2 DEF BackendTypes, Goes
  <2>2. cleared' \in Nat
    BY <1>1, <1>2 DEF BackendTypes, Goes, AtLeast
  <2>3. scanned' \in [Clients -> SUBSET Keys]
    BY <1>1, <1>2 DEF BackendTypes
  <2>4. QED
    BY <1>1, <1>4, <2>1, <2>2, <2>3 DEF BackendTypes, Scan
<1>6. AllTimely'
  <2>1. store' \in Seq(StoredEntry)
    BY <1>1 DEF BackendTypes
  <2>2. QED
    BY <1>1, <2>1, StoreKeepsTime
<1>7. QED
  BY <1>1, <1>4, <1>5, <1>6 DEF Sound

\* A call that raises.
LEMMA RaiseSound ==
    ASSUME Sound, NEW c \in Clients, Raise(c)
    PROVE  Sound'
<1>1. /\ BackendTypes /\ AllTimely /\ AllSendable /\ kind # "none"
      /\ kind' = kind /\ now' = now /\ store' = store /\ todo' = [todo EXCEPT ![c] = <<>>]
  BY DEF Sound, Raise, IsRedis
<1>2. <<>> \in Seq(Command) /\ \A i \in DOMAIN <<>> : Sendable(<<>>[i])
  OBVIOUS
<1>3. todo' \in [Clients -> Seq(Command)] /\ AllSendable'
  BY <1>1, <1>2, TodoGoesOn
<1>4. BackendTypes'
  BY <1>1, <1>3 DEF BackendTypes, Raise
<1>5. AllTimely'
  <2>1. store' \in Seq(StoredEntry)
    BY <1>1 DEF BackendTypes
  <2>2. QED
    BY <1>1, <2>1, StoreKeepsTime
<1>6. QED
  BY <1>1, <1>3, <1>4, <1>5 DEF Sound

\* Time that passes.
LEMMA PassSound ==
    ASSUME Sound, Pass
    PROVE  Sound'
<1>1. /\ BackendTypes /\ AllTimely /\ AllSendable /\ kind # "none" /\ kind' = kind
      /\ now \in Nat /\ now' = now + 1 /\ store' = store /\ todo' = todo /\ Epoch \in Nat
  BY BackendConstants DEF Sound, Pass, BackendTypes
<1>2. /\ \A e \in StoredEntry : Timely(e) => (Timely(e))'
      /\ \A x \in Command : Sendable(x) => (Sendable(x))'
  BY <1>1, Later
<1>3. BackendTypes'
  BY <1>1 DEF BackendTypes, Pass
<1>4. /\ \A e \in Range(store) : e \in StoredEntry
      /\ \A b \in Clients : \A i \in DOMAIN todo[b] : todo[b][i] \in Command
  BY <1>1 DEF BackendTypes, Range
<1> HIDE DEF Timely, Sendable
<1>5. AllTimely'
  BY <1>1, <1>2, <1>4 DEF AllTimely
<1>6. AllSendable'
  BY <1>1, <1>2, <1>4 DEF AllSendable
<1>7. QED
  BY <1>1, <1>3, <1>5, <1>6 DEF Sound

\* No step makes an entry, or what a client is about to send, untimely.
LEMMA SoundStays ==
    ASSUME Sound, [BackendNext]_backendVars
    PROVE  Sound'
<1>1. CASE UNCHANGED backendVars
  <2>1. /\ BackendTypes /\ AllTimely /\ AllSendable /\ kind' = kind /\ now' = now
        /\ store' = store /\ todo' = todo /\ now \in Nat
    BY <1>1 DEF Sound, backendVars, BackendTypes
  <2>2. BackendTypes'
    BY <1>1, <2>1 DEF BackendTypes, backendVars
  <2>3. AllTimely'
    <3>1. store' \in Seq(StoredEntry)
      BY <2>1 DEF BackendTypes
    <3>2. QED
      BY <2>1, <3>1, StoreKeepsTime
  <2>4. AllSendable'
    <3>1. /\ \A x \in Command : Sendable(x) => (Sendable(x))'
          /\ \A b \in Clients : \A i \in DOMAIN todo[b] : todo[b][i] \in Command
      BY <2>1, Later DEF BackendTypes
    <3> HIDE DEF Sendable
    <3>2. QED
      BY <2>1, <3>1 DEF AllSendable
  <2>5. QED
    BY <2>1, <2>2, <2>3, <2>4 DEF Sound
<1>2. CASE \E k \in Kinds : Configure(k)
  BY <1>2, ConfigureSound
<1>3. ASSUME NEW c \in Clients, Call(c) \/ Stamp(c) \/ Execute(c) \/ Scan(c) \/ Raise(c)
      PROVE  Sound'
  BY <1>3, CallSound, StampSound, ExecuteSound, ScanSound, RaiseSound
<1>4. CASE Pass
  BY <1>4, PassSound
<1>5. QED
  BY <1>1, <1>2, <1>3, <1>4 DEF BackendNext

\* Nothing is stored or on its way at first.
LEMMA SoundAtFirst == BackendInit => Sound
<1>1. SUFFICES ASSUME BackendInit PROVE Sound
  OBVIOUS
<1>2. Epoch \in Nat /\ <<>> \in Seq(StoredEntry) /\ <<>> \in Seq(Command) /\ DOMAIN <<>> = {} /\ Range(<<>>) = {}
  BY BackendConstants DEF Range
<1>3. BackendTypes
  BY <1>1, <1>2 DEF BackendInit, BackendTypes
<1>4. AllTimely /\ AllSendable
  BY <1>1, <1>2 DEF BackendInit, AllTimely, AllSendable
<1>5. QED
  BY <1>1, <1>2, <1>3, <1>4 DEF BackendInit, Sound

\* The promise is about every place of the store.
LEMMA SoundLives == Sound => LivesForItsTTL
<1>1. SUFFICES ASSUME Sound, NEW i \in DOMAIN store, NEW c \in Clients
               PROVE  LET e == store[i]
                      IN  IF e.ttl = Never THEN Readable(e, c)
                          ELSE /\ now >= e.at + e.ttl + Tolerance => ~Readable(e, c)
                               /\ now < e.asked + e.ttl - Tolerance => Readable(e, c)
  BY DEF LivesForItsTTL
<1> DEFINE e == store[i]
<1>2. now \in Nat /\ e \in StoredEntry /\ Timely(e)
  BY <1>1 DEF Sound, BackendTypes, AllTimely, Range
<1> HIDE DEF e
<1>3. IF e.ttl = Never THEN Readable(e, c)
      ELSE /\ now >= e.at + e.ttl + Tolerance => ~Readable(e, c)
           /\ now < e.asked + e.ttl - Tolerance => Readable(e, c)
  BY <1>2, TimelyLives
<1>4. QED
  BY <1>3 DEF e

\* Whatever the backend, the unit it counts in and the clocks of its clients, an
\* entry is read for its TTL, up to that unit or the difference of the clocks.
THEOREM BackendTTL == BackendInit /\ [][BackendNext]_backendVars => []LivesForItsTTL
<1>1. BackendInit => Sound
  BY SoundAtFirst
<1>2. Sound /\ [BackendNext]_backendVars => Sound'
  BY SoundStays
<1>3. Sound => LivesForItsTTL
  BY SoundLives
<1>4. QED
  BY <1>1, <1>2, <1>3, PTL

----------------------------------------------------------------------------
(* The backends: clear().                                                  *)

\* What a client that is in clear() has still to delete.
Remaining(c) == {e \in Range(store) : Alive(e) /\ e.key \notin Foreign /\ e.seq <= begun[c]}

\* The keys that its next command deletes.
Marked(c) == Range(Head(todo[c]).keys)

\* How far a clear() has come: what a page has named is deleted before the next
\* page, and the last page leaves nothing that is not named.
OnItsWay(c) ==
    IF c \notin clearing
    THEN scanned[c] = {} /\ \A i \in DOMAIN todo[c] : todo[c][i].op \notin {"scan", "flush"}
    ELSE \/ Len(todo[c]) = 1 /\ todo[c][1].op = "flush" /\ scanned[c] = {}
         \/ /\ Len(todo[c]) = 1 /\ todo[c][1].op = "scan"
            /\ \A e \in Remaining(c) : e.key \notin scanned[c]
         \/ /\ Len(todo[c]) = 2 /\ todo[c][1].op = "del" /\ todo[c][2].op = "scan"
            /\ \A e \in Remaining(c) : e.key \in scanned[c] => e.key \in Marked(c)
         \/ /\ Len(todo[c]) = 1 /\ todo[c][1].op = "del" /\ scanned[c] = {}
            /\ \A e \in Remaining(c) : e.key \in Marked(c)

\* What the last clear() to finish has left.
Left ==
    /\ cleared <= writes
    /\ \A e \in Range(store) : Alive(e) /\ e.key \notin Foreign => e.seq > cleared
    /\ IsRedis => Foreign \subseteq Held(store)

Clears ==
    /\ Sound /\ Left
    /\ \A c \in Clients : begun[c] <= writes /\ OnItsWay(c)

\* Nothing comes back to life, and what is written now is not what a clear()
\* that has begun is for.
LEMMA RemainingShrinks ==
    ASSUME BackendTypes, store' \in Seq(StoredEntry), kind' = kind, now' \in Nat, now <= now',
           \A e \in Range(store') : e \in Range(store) \/ e.seq > writes,
           NEW b \in Clients, begun[b] <= writes, begun'[b] = begun[b]
    PROVE  Remaining(b)' \subseteq Remaining(b)
<1>1. now \in Nat /\ begun[b] \in Nat /\ writes \in Nat /\ Never \notin Int
  BY BackendConstants DEF BackendTypes
<1>2. ASSUME NEW e \in Remaining(b)'
      PROVE  e \in Remaining(b)
  <2>1. /\ e \in Range(store') /\ Alive(e)' /\ e.key \notin Foreign /\ e.seq <= begun[b]
    BY <1>2 DEF Remaining
  <2>2. e \in StoredEntry
    BY <2>1 DEF Range
  <2>3. e.seq \in Nat /\ (e.until = Never \/ e.until \in Int)
    BY <2>2 DEF StoredEntry, Lives
  <2>4. e \in Range(store)
    BY <1>1, <2>1, <2>3
  <2>5. Alive(e)
    BY <1>1, <2>1, <2>3 DEF Alive
  <2>6. QED
    BY <2>1, <2>4, <2>5 DEF Remaining
<1>3. QED
  BY <1>2

\* A clear() that another client's step leaves alone is where it was.
LEMMA StaysOnItsWay ==
    ASSUME BackendTypes, NEW b \in Clients, OnItsWay(b), Remaining(b)' \subseteq Remaining(b),
           todo'[b] = todo[b], scanned'[b] = scanned[b], b \in clearing' <=> b \in clearing
    PROVE  OnItsWay(b)'
<1>1. Marked(b)' = Marked(b)
  BY DEF Marked
<1> HIDE DEF Marked, Remaining
<1>2. QED
  BY <1>1 DEF OnItsWay

\* What was left stays so, when what is new is written now and no key of others goes.
LEMMA StaysLeft ==
    ASSUME BackendTypes, Left, store' \in Seq(StoredEntry), kind' = kind, now' \in Nat, now <= now',
           writes' \in Nat, writes <= writes', cleared' = cleared,
           \A e \in Range(store') : e \in Range(store) \/ e.seq > writes,
           IsRedis => Foreign \subseteq Held(store')
    PROVE  Left'
<1>1. now \in Nat /\ cleared \in Nat /\ writes \in Nat /\ Never \notin Int
  BY BackendConstants DEF BackendTypes
<1>2. ASSUME NEW e \in Range(store'), Alive(e)', e.key \notin Foreign
      PROVE  e.seq > cleared
  <2>1. e \in StoredEntry
    BY DEF Range
  <2>2. e.seq \in Nat /\ (e.until = Never \/ e.until \in Int)
    BY <2>1 DEF StoredEntry, Lives
  <2>3. Alive(e)
    BY <1>1, <1>2, <2>2 DEF Alive
  <2>4. QED
    BY <1>1, <1>2, <2>2, <2>3 DEF Left
<1>3. IsRedis' => Foreign \subseteq Held(store')
  BY DEF IsRedis
<1>4. Held(store)' = Held(store')
  BY DEF Held
<1>5. QED
  BY <1>1, <1>2, <1>3, <1>4 DEF Left

\* Configuring.
LEMMA ConfigureClears ==
    ASSUME Clears, NEW k \in Kinds, Configure(k)
    PROVE  Clears'
<1> DEFINE T == {Stranger(f) : f \in Foreign}
<1>1. Sound'
  BY ConfigureSound DEF Clears
<1>2. /\ BackendTypes /\ BackendTypes' /\ kind = "none" /\ \A c \in Clients : todo[c] = <<>>
      /\ todo' = todo /\ scanned' = scanned /\ clearing' = clearing /\ begun' = begun
      /\ writes' = writes /\ cleared' = cleared
      /\ store' = <<>> \/ store' = SetToSeq(T)
      /\ k \in {"redis", "async_redis"} => store' = SetToSeq(T)
  BY <1>1 DEF Clears, Sound, Configure
<1>3. \A e \in T : e.key \in Foreign
  BY DEF Stranger
<1>4. {e.key : e \in T} = Foreign
  <2>1. \A f \in Foreign : Stranger(f) \in T /\ Stranger(f).key = f
    BY DEF Stranger
  <2>2. \A e \in T : \E f \in Foreign : e = Stranger(f)
    OBVIOUS
  <2> HIDE DEF T
  <2>3. QED
    BY <2>1, <2>2
<1>5. IsFiniteSet(T)
  BY StrangersFinite
<1> HIDE DEF T
<1>6. Range(SetToSeq(T)) = T /\ Range(<<>>) = {}
  BY <1>5, SeqOfSet DEF Range
<1>7. \A e \in Range(store') : e.key \in Foreign
  BY <1>2, <1>3, <1>6
<1>8. k \in {"redis", "async_redis"} => Held(store') = Foreign
  BY <1>2, <1>4, <1>6, HeldRange
<1>9. Left'
  <2>1. Held(store)' = Held(store') /\ (IsRedis' => k \in {"redis", "async_redis"})
    BY DEF Held, IsRedis, Configure
  <2>2. QED
    BY <1>2, <1>7, <1>8, <2>1 DEF Clears, Left
<1>10. ASSUME NEW c \in Clients
       PROVE  begun'[c] <= writes' /\ OnItsWay(c)'
  <2>1. OnItsWay(c) /\ begun[c] <= writes /\ todo[c] = <<>>
    BY <1>2 DEF Clears
  <2>2. c \notin clearing
    BY <2>1 DEF OnItsWay
  <2>3. QED
    BY <1>2, <2>1, <2>2 DEF OnItsWay
<1>11. QED
  BY <1>1, <1>9, <1>10 DEF Clears

\* Sending.
LEMMA CallClears ==
    ASSUME Clears, NEW c \in Clients, Call(c)
    PROVE  Clears'
<1> DEFINE all == SetToSeq(Keys)
<1>1. Sound'
  BY CallSound DEF Clears
<1>2. /\ BackendTypes /\ BackendTypes' /\ kind \in Kinds /\ todo[c] = <<>>
      /\ kind' = kind /\ now' = now /\ store' = store /\ scanned' = scanned
      /\ writes' = writes /\ cleared' = cleared
      /\ writes \in Nat /\ now \in Nat /\ store \in Seq(StoredEntry)
      /\ todo \in [Clients -> Seq(Command)] /\ begun \in [Clients -> Nat]
  BY <1>1 DEF Clears, Sound, Call, BackendTypes
<1>3. PICK k \in Keys, t \in TTLs : \E call \in Calls(k, all, t) :
         /\ todo' = [todo EXCEPT ![c] = call]
         /\ clearing' = IF call \in {Clear, Flush} THEN clearing \cup {c} ELSE clearing
         /\ begun' = IF call \in {Clear, Flush} THEN [begun EXCEPT ![c] = writes] ELSE begun
  BY DEF Call, TTLs
<1>4. PICK call \in Calls(k, all, t) :
         /\ todo' = [todo EXCEPT ![c] = call]
         /\ clearing' = IF call \in {Clear, Flush} THEN clearing \cup {c} ELSE clearing
         /\ begun' = IF call \in {Clear, Flush} THEN [begun EXCEPT ![c] = writes] ELSE begun
  BY <1>3
<1>5. all \in Seq(Keys) \ {<<>>}
  <2>1. all \in Seq(Keys) /\ Range(all) = Keys
    BY BackendConstants, SeqOfSet
  <2>2. Range(<<>>) = {}
    BY DEF Range
  <2> HIDE DEF all
  <2>3. k \in Range(all)
    BY <1>3, <2>1
  <2>4. all # <<>>
    BY <2>2, <2>3
  <2>5. QED
    BY <2>1, <2>4
<1> HIDE DEF all
<1>6. Usual(call) \/ call = Clear \/ call = Flush
  BY <1>2, <1>4, <1>5, CallsUsual
<1>7. \A b \in Clients : begun[b] <= writes /\ OnItsWay(b)
  BY DEF Clears
<1>8. c \notin clearing /\ scanned[c] = {}
  <2>1. Len(todo[c]) = 0
    BY <1>2
  <2>2. OnItsWay(c)
    BY <1>7
  <2>3. QED
    BY <2>1, <2>2 DEF OnItsWay
<1>9. \A b \in Clients : begun'[b] <= writes'
  BY <1>2, <1>4, <1>7
<1>10. OnItsWay(c)'
  <2>1. todo'[c] = call /\ scanned'[c] = {}
    BY <1>2, <1>4, <1>8
  <2>2. CASE call = Clear
    BY <1>4, <2>1, <2>2 DEF OnItsWay, Clear
  <2>3. CASE call = Flush
    BY <1>4, <2>1, <2>3 DEF OnItsWay, Flush
  <2>4. CASE Usual(call)
    <3>1. \A i \in DOMAIN call : call[i].op \notin {"scan", "flush"}
      BY <2>4 DEF Usual
    <3>2. call \notin {Clear, Flush}
      <4>1. 1 \in DOMAIN Clear /\ Clear[1].op = "scan" /\ 1 \in DOMAIN Flush /\ Flush[1].op = "flush"
        BY DEF Clear, Flush
      <4>2. QED
        BY <3>1, <4>1
    <3>3. c \notin clearing'
      BY <1>4, <1>8, <3>2
    <3>4. QED
      BY <2>1, <3>1, <3>3 DEF OnItsWay
  <2>5. QED
    BY <1>6, <2>2, <2>3, <2>4
<1>11. ASSUME NEW b \in Clients, b # c
       PROVE  OnItsWay(b)'
  <2>1. /\ todo'[b] = todo[b] /\ scanned'[b] = scanned[b] /\ begun'[b] = begun[b]
        /\ b \in clearing' <=> b \in clearing
    BY <1>2, <1>4, <1>11
  <2>2. Remaining(b)' \subseteq Remaining(b)
    <3>1. now' \in Nat /\ now <= now' /\ store' \in Seq(StoredEntry)
      BY <1>2
    <3>2. QED
      BY <1>2, <1>7, <2>1, <3>1, RemainingShrinks
  <2>3. QED
    BY <1>2, <1>7, <2>1, <2>2, StaysOnItsWay
<1>12. Left'
  BY <1>2 DEF Clears, Left, Alive, Held, IsRedis
<1>13. QED
  BY <1>1, <1>9, <1>10, <1>11, <1>12 DEF Clears

\* Packing.
LEMMA StampClears ==
    ASSUME Clears, NEW c \in Clients, Stamp(c)
    PROVE  Clears'
<1> DEFINE p == Put(c, Head(todo[c]).keys, Head(todo[c]).ttl)
           rest == <<p>> \o Tail(todo[c])
<1>1. Sound'
  BY StampSound DEF Clears
<1>2. /\ BackendTypes /\ BackendTypes' /\ todo[c] # <<>> /\ Head(todo[c]).op = "set"
      /\ todo' = [todo EXCEPT ![c] = rest]
      /\ kind' = kind /\ now' = now /\ store' = store /\ scanned' = scanned /\ begun' = begun
      /\ writes' = writes /\ cleared' = cleared /\ clearing' = clearing
      /\ now \in Nat /\ store \in Seq(StoredEntry) /\ todo \in [Clients -> Seq(Command)]
      /\ rest = todo'[c] /\ todo'[c] \in Seq(Command)
  BY <1>1 DEF Clears, Sound, Stamp, BackendTypes
<1>3. \A b \in Clients : begun[b] <= writes /\ OnItsWay(b)
  BY DEF Clears
<1>4. /\ todo[c] \in Seq(Command) /\ Len(todo[c]) \in Nat \ {0} /\ todo[c][1].op = "set"
      /\ DOMAIN todo[c] = 1..Len(todo[c])
  BY <1>2
<1>5. c \notin clearing
  BY <1>3, <1>4 DEF OnItsWay
<1>6. OnItsWay(c)'
  <2>1. p.op = "put"
    BY DEF Put
  <2> HIDE DEF p
  <2>2. /\ DOMAIN rest = DOMAIN todo[c] /\ rest[1] = p
        /\ \A i \in DOMAIN todo[c] : i # 1 => rest[i] = todo[c][i]
    BY <1>4
  <2>3. \A i \in DOMAIN rest : rest[i].op \notin {"scan", "flush"}
    BY <1>3, <1>5, <2>1, <2>2 DEF OnItsWay
  <2> HIDE DEF rest
  <2>4. QED
    BY <1>2, <1>3, <1>5, <2>3 DEF OnItsWay
<1>7. ASSUME NEW b \in Clients, b # c
      PROVE  OnItsWay(b)'
  <2> HIDE DEF rest
  <2>1. /\ todo'[b] = todo[b] /\ scanned'[b] = scanned[b] /\ begun'[b] = begun[b]
        /\ b \in clearing' <=> b \in clearing
    BY <1>2, <1>7
  <2>2. Remaining(b)' \subseteq Remaining(b)
    <3>1. now' \in Nat /\ now <= now' /\ store' \in Seq(StoredEntry)
      BY <1>2
    <3>2. QED
      BY <1>2, <1>3, <2>1, <3>1, RemainingShrinks
  <2>3. QED
    BY <1>2, <1>3, <2>1, <2>2, StaysOnItsWay
<1>8. Left'
  BY <1>2 DEF Clears, Left, Alive, Held, IsRedis
<1>9. QED
  BY <1>1, <1>2, <1>3, <1>6, <1>7, <1>8 DEF Clears

\* What a command adds is new, and the keys of others stay on their server.
LEMMA EffectLeft ==
    ASSUME BackendTypes, Left, store' \in Seq(StoredEntry), kind' = kind, now' = now,
           NEW cmd \in Command, StoreEffect(cmd)
    PROVE  /\ writes' \in Nat /\ writes <= writes'
           /\ \A e \in Range(store') : e \in Range(store) \/ e.seq > writes
           /\ IsRedis => Foreign \subseteq Held(store')
<1>1. writes \in Nat /\ store \in Seq(StoredEntry) /\ Keys \cap Foreign = {} /\ Range(<<>>) = {}
  BY BackendConstants DEF BackendTypes, Range
<1>2. writes' \in Nat /\ writes <= writes'
  BY <1>1 DEF StoreEffect
<1>3. \A e \in Range(store') : e \in Range(store) \/ e.seq > writes
  <2> HIDE DEF Timely
  <2>1. \A e \in Range(store') : e \in Range(store) \/ e.seq = writes + 1
    BY <1>1 DEF StoreEffect
  <2>2. QED
    BY <1>1, <2>1
<1>4. ASSUME IsRedis
      PROVE  Foreign \subseteq Held(store')
  <2>1. Foreign \subseteq Held(store)
    BY <1>4 DEF Left
  <2>2. CASE cmd.op = "del"
    <3>1. Range(cmd.keys) \subseteq Keys
      BY <2>2 DEF Command, Range
    <3>2. Range(store') = {e \in Range(store) : e.key \notin Range(cmd.keys)}
      BY <2>2 DEF StoreEffect
    <3>3. Held(store) = {e.key : e \in Range(store)} /\ Held(store') = {e.key : e \in Range(store')}
      BY HeldRange
    <3>4. QED
      BY <1>1, <2>1, <3>1, <3>2, <3>3
  <2>3. CASE cmd.op # "del"
    <3>1. Held(store) \subseteq Held(store')
      <4> HIDE DEF Held
      <4>1. QED
        BY <1>4, <2>3 DEF StoreEffect
    <3>2. QED
      BY <2>1, <3>1
  <2>4. QED
    BY <2>2, <2>3
<1>5. QED
  BY <1>2, <1>3, <1>4

\* Executing: the last command of a clear() leaves nothing of what it is for.
LEMMA ExecuteClears ==
    ASSUME Clears, NEW c \in Clients, Execute(c)
    PROVE  Clears'
<1> DEFINE cmd == Head(todo[c])
           rest == Tail(todo[c])
<1>1. Sound'
  BY ExecuteSound DEF Clears
<1>2. /\ BackendTypes /\ BackendTypes' /\ AllSendable /\ Left
      /\ todo[c] \in Seq(Command) /\ todo[c] # <<>> /\ cmd.op # "scan"
      /\ kind' = kind /\ now' = now /\ scanned' = scanned /\ begun' = begun
      /\ todo' = [todo EXCEPT ![c] = rest]
      /\ clearing' = (IF rest = <<>> THEN clearing \ {c} ELSE clearing)
      /\ cleared' = (IF rest = <<>> /\ c \in clearing THEN AtLeast(cleared, begun[c]) ELSE cleared)
      /\ now \in Nat /\ writes \in Nat /\ cleared \in Nat /\ store' \in Seq(StoredEntry)
      /\ todo \in [Clients -> Seq(Command)] /\ begun \in [Clients -> Nat]
      /\ \A b \in Clients : begun[b] <= writes /\ OnItsWay(b)
  BY <1>1 DEF Clears, Sound, Execute, Goes, BackendTypes
<1>3. cmd \in Command /\ Sendable(cmd)
  <2>1. 1 \in DOMAIN todo[c] /\ cmd = todo[c][1]
    BY <1>2
  <2>2. QED
    BY <1>2, <2>1 DEF AllSendable
<1>4. StoreEffect(cmd)
  BY <1>2, <1>3, ExecuteEffect
<1>5. /\ Len(todo[c]) \in Nat \ {0} /\ DOMAIN todo[c] = 1..Len(todo[c]) /\ cmd = todo[c][1]
      /\ Len(rest) = Len(todo[c]) - 1 /\ \A i \in 1..(Len(todo[c]) - 1) : rest[i] = todo[c][i + 1]
      /\ DOMAIN rest = 1..(Len(todo[c]) - 1) /\ (rest = <<>> <=> Len(todo[c]) = 1)
  <2> DEFINE t == todo[c]
  <2>1. t \in Seq(Command) /\ t # <<>>
    BY <1>2
  <2> HIDE DEF t
  <2>2. /\ Len(t) \in Nat \ {0} /\ DOMAIN t = 1..Len(t) /\ Head(t) = t[1]
        /\ Len(Tail(t)) = Len(t) - 1 /\ \A i \in 1..(Len(t) - 1) : Tail(t)[i] = t[i + 1]
        /\ DOMAIN Tail(t) = 1..(Len(t) - 1) /\ Tail(t) \in Seq(Command)
    BY <2>1
  <2>3. Tail(t) = <<>> <=> Len(t) = 1
    <3>1. \A u \in Seq(Command) : u = <<>> <=> Len(u) = 0
      OBVIOUS
    <3>2. Tail(t) = <<>> <=> Len(Tail(t)) = 0
      BY <2>2, <3>1
    <3>3. Len(Tail(t)) = 0 <=> Len(t) = 1
      BY <2>2
    <3>4. QED
      BY <3>2, <3>3
  <2>4. QED
    BY <2>2, <2>3 DEF t
<1> HIDE DEF cmd, rest
<1>6. /\ writes' \in Nat /\ writes <= writes'
      /\ \A e \in Range(store') : e \in Range(store) \/ e.seq > writes
      /\ IsRedis => Foreign \subseteq Held(store')
  BY <1>2, <1>3, <1>4, EffectLeft
<1>7. \A b \in Clients : Remaining(b)' \subseteq Remaining(b)
  <2>1. ASSUME NEW b \in Clients
        PROVE  Remaining(b)' \subseteq Remaining(b)
    <3>1. begun[b] <= writes /\ begun'[b] = begun[b] /\ now' \in Nat /\ now <= now'
      BY <1>2
    <3>2. QED
      BY <1>2, <1>6, <3>1, RemainingShrinks
  <2>2. QED
    BY <2>1
<1>8. ASSUME NEW b \in Clients
      PROVE  begun'[b] <= writes'
  BY <1>2, <1>6
<1>9. ASSUME NEW b \in Clients, b # c
      PROVE  OnItsWay(b)'
  <2>1. todo'[b] = todo[b] /\ scanned'[b] = scanned[b] /\ (b \in clearing' <=> b \in clearing)
    BY <1>2, <1>9
  <2>2. QED
    BY <1>2, <1>7, <2>1, StaysOnItsWay
<1>10. ASSUME cmd.op = "del"
       PROVE  \A e \in Range(store') : e \in Range(store) /\ e.key \notin Marked(c)
  <2>1. Marked(c) = Range(cmd.keys)
    BY DEF Marked, cmd
  <2>2. QED
    BY <1>4, <1>10, <2>1 DEF StoreEffect
<1>11. OnItsWay(c)'
  <2>1. todo'[c] = rest /\ scanned'[c] = scanned[c] /\ OnItsWay(c)
    BY <1>2
  <2>2. CASE c \notin clearing
    <3>1. \A i \in DOMAIN rest : rest[i].op \notin {"scan", "flush"}
      <4>1. \A i \in DOMAIN todo[c] : todo[c][i].op \notin {"scan", "flush"}
        BY <2>1, <2>2 DEF OnItsWay
      <4>2. \A i \in DOMAIN rest : i + 1 \in DOMAIN todo[c] /\ rest[i] = todo[c][i + 1]
        BY <1>5
      <4>3. QED
        BY <4>1, <4>2
    <3>2. c \notin clearing' /\ scanned[c] = {}
      BY <1>2, <2>1, <2>2 DEF OnItsWay
    <3>3. QED
      BY <2>1, <3>1, <3>2 DEF OnItsWay
  <2>3. CASE c \in clearing /\ Len(todo[c]) = 1
    <3>1. rest = <<>> /\ c \notin clearing' /\ scanned[c] = {}
      BY <1>2, <1>5, <2>1, <2>3 DEF OnItsWay
    <3>2. QED
      BY <2>1, <3>1 DEF OnItsWay
  <2>4. CASE c \in clearing /\ Len(todo[c]) # 1
    <3>1. /\ Len(todo[c]) = 2 /\ cmd.op = "del" /\ todo[c][2].op = "scan"
          /\ \A e \in Remaining(c) : e.key \in scanned[c] => e.key \in Marked(c)
      BY <1>5, <2>1, <2>4 DEF OnItsWay
    <3>2. Len(rest) = 1 /\ rest[1].op = "scan" /\ c \in clearing'
      BY <1>2, <1>5, <2>4, <3>1
    <3>3. \A e \in Remaining(c)' : e \in Remaining(c) /\ e.key \notin Marked(c)
      BY <1>7, <1>10, <3>1 DEF Remaining
    <3>4. \A e \in Remaining(c)' : e.key \notin scanned[c]
      BY <3>1, <3>3
    <3>5. QED
      BY <2>1, <3>2, <3>4 DEF OnItsWay
  <2>5. QED
    BY <2>2, <2>3, <2>4
<1>12. Left'
  <2>1. CASE cleared' = cleared
    <3>1. now' \in Nat /\ now <= now'
      BY <1>2
    <3>2. QED
      BY <1>2, <1>6, <2>1, <3>1, StaysLeft
  <2>2. CASE cleared' # cleared
    <3>1. c \in clearing /\ Len(todo[c]) = 1 /\ cleared' = begun[c] /\ begun[c] \in Nat /\ begun[c] <= writes
      BY <1>2, <1>5, <2>2 DEF AtLeast
    <3>2. cmd.op \in {"flush", "del"} /\ (cmd.op = "del" => \A e \in Remaining(c) : e.key \in Marked(c))
      <4>1. OnItsWay(c)
        BY <1>2
      <4>2. QED
        BY <1>2, <1>5, <3>1, <4>1 DEF OnItsWay
    <3>3. Remaining(c)' = {}
      <4>1. CASE cmd.op = "flush"
        <5>1. store' = <<>> /\ Range(<<>>) = {}
          BY <1>4, <4>1 DEF StoreEffect, Range
        <5>2. QED
          BY <5>1 DEF Remaining
      <4>2. CASE cmd.op = "del"
        <5>1. \A e \in Remaining(c)' : e \in Remaining(c) /\ e.key \notin Marked(c)
          BY <1>7, <1>10, <4>2 DEF Remaining
        <5>2. QED
          BY <3>2, <4>2, <5>1
      <4>3. QED
        BY <3>2, <4>1, <4>2
    <3>4. \A e \in Range(store') : Alive(e)' /\ e.key \notin Foreign => e.seq > begun[c]
      <4>1. \A e \in Range(store') : e.seq \in Nat
        BY <1>2, EntryTypes
      <4>2. \A e \in Range(store') : ~(Alive(e)' /\ e.key \notin Foreign /\ e.seq <= begun[c])
        BY <1>2, <3>3 DEF Remaining
      <4>3. QED
        BY <3>1, <4>1, <4>2
    <3>5. (IsRedis => Foreign \subseteq Held(store))'
      BY <1>2, <1>6 DEF IsRedis, Held
    <3>6. cleared' <= writes'
      BY <1>2, <1>6, <3>1
    <3>7. QED
      BY <3>1, <3>4, <3>5, <3>6 DEF Left
  <2>3. QED
    BY <2>1, <2>2
<1>13. QED
  BY <1>1, <1>8, <1>9, <1>11, <1>12 DEF Clears

\* A page: the last one names whatever was there all along and is there still.
LEMMA ScanClears ==
    ASSUME Clears, NEW c \in Clients, Scan(c)
    PROVE  Clears'
<1>1. Sound'
  BY ScanSound DEF Clears
<1>2. /\ BackendTypes /\ BackendTypes' /\ AllSendable /\ Left
      /\ todo[c] \in Seq(Command) /\ todo[c] # <<>> /\ Head(todo[c]).op = "scan"
      /\ kind' = kind /\ now' = now /\ store' = store /\ begun' = begun /\ writes' = writes
      /\ now \in Nat /\ writes \in Nat /\ cleared \in Nat /\ store \in Seq(StoredEntry)
      /\ todo \in [Clients -> Seq(Command)] /\ begun \in [Clients -> Nat]
      /\ scanned \in [Clients -> SUBSET Keys]
      /\ \A b \in Clients : begun[b] <= writes /\ OnItsWay(b)
  BY <1>1 DEF Clears, Sound, Scan, BackendTypes
<1>3. PICK page \in SUBSET Keys, last \in BOOLEAN :
         /\ \A e \in Range(store) :
               last /\ Alive(e) /\ e.key \notin Foreign /\ e.seq <= begun[c]
                  => e.key \in scanned[c] \cup page
         /\ scanned' = [scanned EXCEPT ![c] = IF last THEN {} ELSE @ \cup page]
         /\ Goes(c, AfterPage(page, last))
         /\ AfterPage(page, last) \in Seq(Command)
  BY <1>2, PageEffect
<1> DEFINE d == Del(SetToSeq(page))
           sc == [op |-> "scan"]
           rest == AfterPage(page, last)
<1>4. c \in clearing /\ \A e \in Remaining(c) : e.key \notin scanned[c]
  <2>1. todo[c][1].op = "scan" /\ 1 \in DOMAIN todo[c] /\ OnItsWay(c)
    BY <1>2
  <2>2. QED
    BY <2>1 DEF OnItsWay
<1>5. rest = (IF page = {} THEN <<>> ELSE <<d>>) \o (IF last THEN <<>> ELSE <<sc>>)
  BY DEF AfterPage, Clear
<1>6. d.op = "del" /\ Range(d.keys) = page
  BY <1>2, PageKeys DEF Del
<1>7. sc.op = "scan"
  OBVIOUS
<1>8. /\ todo' = [todo EXCEPT ![c] = rest]
      /\ clearing' = (IF rest = <<>> THEN clearing \ {c} ELSE clearing)
      /\ cleared' = (IF rest = <<>> /\ c \in clearing THEN AtLeast(cleared, begun[c]) ELSE cleared)
  BY <1>3 DEF Goes
<1> HIDE DEF d, sc, rest
<1>9. \A b \in Clients : Remaining(b)' = Remaining(b)
  BY <1>2 DEF Remaining, Alive
<1>10. ASSUME NEW b \in Clients, b # c
       PROVE  OnItsWay(b)'
  <2>1. todo'[b] = todo[b] /\ scanned'[b] = scanned[b] /\ (b \in clearing' <=> b \in clearing)
    BY <1>2, <1>3, <1>8, <1>10
  <2>2. QED
    BY <1>2, <1>9, <2>1, StaysOnItsWay
<1>11. todo'[c] = rest /\ scanned'[c] = (IF last THEN {} ELSE scanned[c] \cup page)
  BY <1>2, <1>3, <1>8
<1>12. last => \A e \in Remaining(c) : e.key \in page
  <2>1. \A e \in Remaining(c) :
           e \in Range(store) /\ Alive(e) /\ e.key \notin Foreign /\ e.seq <= begun[c]
    BY DEF Remaining
  <2>2. QED
    BY <1>3, <1>4, <2>1
<1>13. page # {} => rest[1] = d /\ Marked(c)' = page
                    /\ Len(rest) = (IF last THEN 1 ELSE 2) /\ (~last => rest[2] = sc)
  <2>1. page # {} => rest = IF last THEN <<d>> ELSE <<d, sc>>
    <3>1. <<d>> \o <<sc>> = <<d, sc>> /\ <<d>> \o <<>> = <<d>>
      BY Pairs
    <3>2. QED
      BY <1>5, <3>1
  <2>2. Head(<<d>>) = d /\ Head(<<d, sc>>) = d
    OBVIOUS
  <2>3. page # {} => Marked(c)' = page
    BY <1>6, <1>11, <2>1, <2>2 DEF Marked
  <2>4. QED
    BY <2>1, <2>3
<1>14. page = {} => rest = IF last THEN <<>> ELSE <<sc>>
  BY <1>5
<1>15. OnItsWay(c)'
  <2>1. CASE page # {} /\ last
    <3>1. Len(rest) = 1 /\ rest[1].op = "del" /\ rest # <<>>
      BY <1>6, <1>13, <2>1
    <3>2. c \in clearing' /\ scanned'[c] = {}
      BY <1>4, <1>8, <1>11, <2>1, <3>1
    <3>3. \A e \in Remaining(c)' : e.key \in Marked(c)'
      BY <1>9, <1>12, <1>13, <2>1
    <3>4. QED
      BY <1>11, <3>1, <3>2, <3>3 DEF OnItsWay
  <2>2. CASE page # {} /\ ~last
    <3>1. Len(rest) = 2 /\ rest[1].op = "del" /\ rest[2].op = "scan" /\ rest # <<>>
      BY <1>6, <1>7, <1>13, <2>2
    <3>2. c \in clearing' /\ scanned'[c] = scanned[c] \cup page
      BY <1>4, <1>8, <1>11, <2>2, <3>1
    <3>3. \A e \in Remaining(c)' : e.key \in scanned'[c] => e.key \in Marked(c)'
      BY <1>4, <1>9, <1>13, <2>2, <3>2
    <3>4. QED
      BY <1>11, <3>1, <3>2, <3>3 DEF OnItsWay
  <2>3. CASE page = {} /\ last
    <3>1. c \notin clearing' /\ scanned'[c] = {} /\ todo'[c] = <<>>
      BY <1>8, <1>11, <1>14, <2>3
    <3>2. QED
      BY <3>1 DEF OnItsWay
  <2>4. CASE page = {} /\ ~last
    <3>1. Len(rest) = 1 /\ rest[1].op = "scan" /\ rest # <<>>
      BY <1>7, <1>14, <2>4
    <3>2. c \in clearing' /\ scanned'[c] = scanned[c]
      BY <1>4, <1>8, <1>11, <2>4, <3>1
    <3>3. \A e \in Remaining(c)' : e.key \notin scanned'[c]
      BY <1>4, <1>9, <3>2
    <3>4. QED
      BY <1>11, <3>1, <3>2, <3>3 DEF OnItsWay
  <2>5. QED
    BY <2>1, <2>2, <2>3, <2>4
<1>16. Left'
  <2>1. CASE cleared' = cleared
    BY <1>2, <2>1 DEF Left, Alive, IsRedis, Held
  <2>2. CASE cleared' # cleared
    <3>1. rest = <<>> /\ cleared' = begun[c] /\ begun[c] \in Nat /\ begun[c] <= writes
      BY <1>2, <1>8, <2>2 DEF AtLeast
    <3>2. Remaining(c) = {}
      <4>1. page = {} /\ last
        BY <1>13, <1>14, <3>1
      <4>2. QED
        BY <1>12, <4>1
    <3>3. \A e \in Range(store) : Alive(e) /\ e.key \notin Foreign => e.seq > begun[c]
      <4>1. \A e \in Range(store) : e.seq \in Nat
        BY <1>2, EntryTypes
      <4>2. QED
        BY <3>1, <3>2, <4>1 DEF Remaining
    <3>4. QED
      BY <1>2, <3>1, <3>3 DEF Left, Alive, IsRedis, Held
  <2>3. QED
    BY <2>1, <2>2
<1>17. \A b \in Clients : begun'[b] <= writes'
  BY <1>2
<1>18. QED
  BY <1>1, <1>10, <1>15, <1>16, <1>17 DEF Clears

\* Raising: the clear() is given up, and nothing is promised for it.
LEMMA RaiseClears ==
    ASSUME Clears, NEW c \in Clients, Raise(c)
    PROVE  Clears'
<1>1. Sound'
  BY RaiseSound DEF Clears
<1>2. /\ BackendTypes /\ BackendTypes' /\ Left
      /\ todo' = [todo EXCEPT ![c] = <<>>] /\ scanned' = [scanned EXCEPT ![c] = {}]
      /\ clearing' = clearing \ {c} /\ cleared' = cleared
      /\ kind' = kind /\ now' = now /\ store' = store /\ begun' = begun /\ writes' = writes
      /\ todo \in [Clients -> Seq(Command)] /\ scanned \in [Clients -> SUBSET Keys]
      /\ \A b \in Clients : begun[b] <= writes /\ OnItsWay(b)
  BY <1>1 DEF Clears, Sound, Raise, BackendTypes
<1>3. ASSUME NEW b \in Clients
      PROVE  OnItsWay(b)'
  <2>1. CASE b = c
    <3>1. todo'[c] = <<>> /\ scanned'[c] = {} /\ c \notin clearing'
      BY <1>2
    <3>2. QED
      BY <2>1, <3>1 DEF OnItsWay
  <2>2. CASE b # c
    <3>1. todo'[b] = todo[b] /\ scanned'[b] = scanned[b] /\ (b \in clearing' <=> b \in clearing)
      BY <1>2, <2>2
    <3>2. Remaining(b)' = Remaining(b)
      BY <1>2 DEF Remaining, Alive
    <3>3. QED
      BY <1>2, <3>1, <3>2, StaysOnItsWay
  <2>3. QED
    BY <2>1, <2>2
<1>4. Left'
  BY <1>2 DEF Left, Alive, IsRedis, Held
<1>5. QED
  BY <1>1, <1>2, <1>3, <1>4 DEF Clears

\* Time, which only takes entries away.
LEMMA PassClears ==
    ASSUME Clears, Pass
    PROVE  Clears'
<1>1. Sound'
  BY PassSound DEF Clears
<1>2. /\ BackendTypes /\ BackendTypes' /\ Left
      /\ kind' = kind /\ now \in Nat /\ now' = now + 1 /\ store' = store /\ store \in Seq(StoredEntry)
      /\ todo' = todo /\ scanned' = scanned /\ clearing' = clearing /\ begun' = begun
      /\ writes \in Nat /\ writes' = writes /\ cleared' = cleared
      /\ \A b \in Clients : begun[b] <= writes /\ OnItsWay(b)
  BY <1>1 DEF Clears, Sound, Pass, BackendTypes
<1>3. /\ now' \in Nat /\ now <= now' /\ writes' \in Nat /\ writes <= writes' /\ store' \in Seq(StoredEntry)
      /\ \A e \in Range(store') : e \in Range(store) \/ e.seq > writes
      /\ IsRedis => Foreign \subseteq Held(store')
  BY <1>2 DEF Left
<1>4. ASSUME NEW b \in Clients
      PROVE  OnItsWay(b)'
  <2>1. Remaining(b)' \subseteq Remaining(b)
    BY <1>2, <1>3, RemainingShrinks
  <2>2. QED
    BY <1>2, <2>1, StaysOnItsWay
<1>5. Left'
  BY <1>2, <1>3, StaysLeft
<1>6. QED
  BY <1>1, <1>2, <1>4, <1>5 DEF Clears

\* No step lets an entry escape a clear(), nor a clear() take the keys of others.
LEMMA ClearsStays ==
    ASSUME Clears, [BackendNext]_backendVars
    PROVE  Clears'
<1>1. CASE UNCHANGED backendVars
  <2>1. Sound'
    BY <1>1, SoundStays DEF Clears
  <2>2. /\ kind' = kind /\ now' = now /\ store' = store /\ todo' = todo /\ scanned' = scanned
        /\ clearing' = clearing /\ begun' = begun /\ writes' = writes /\ cleared' = cleared
    BY <1>1 DEF backendVars
  <2>3. Left'
    BY <2>2 DEF Clears, Left, Alive, IsRedis, Held
  <2>4. ASSUME NEW b \in Clients
        PROVE  begun'[b] <= writes' /\ OnItsWay(b)'
    <3>1. BackendTypes /\ begun[b] <= writes /\ OnItsWay(b)
      BY DEF Clears, Sound
    <3>2. Remaining(b)' = Remaining(b)
      BY <2>2 DEF Remaining, Alive
    <3>3. QED
      BY <2>2, <3>1, <3>2, StaysOnItsWay
  <2>5. QED
    BY <2>1, <2>3, <2>4 DEF Clears
<1>2. CASE \E k \in Kinds : Configure(k)
  BY <1>2, ConfigureClears
<1>3. ASSUME NEW c \in Clients, Call(c) \/ Stamp(c) \/ Execute(c) \/ Scan(c) \/ Raise(c)
      PROVE  Clears'
  BY <1>3, CallClears, StampClears, ExecuteClears, ScanClears, RaiseClears
<1>4. CASE Pass
  BY <1>4, PassClears
<1>5. QED
  BY <1>1, <1>2, <1>3, <1>4 DEF BackendNext

\* No one clears anything at first.
LEMMA ClearsAtFirst == BackendInit => Clears
<1>1. SUFFICES ASSUME BackendInit PROVE Clears
  OBVIOUS
<1>2. Sound /\ Range(<<>>) = {}
  BY <1>1, SoundAtFirst DEF Range
<1>3. Left
  BY <1>1, <1>2 DEF BackendInit, Left, IsRedis
<1>4. \A b \in Clients : begun[b] <= writes /\ OnItsWay(b)
  BY <1>1 DEF BackendInit, OnItsWay
<1>5. QED
  BY <1>2, <1>3, <1>4 DEF Clears

\* However many clients write, expire and delete while a clear() goes through the
\* pages of a Redis server, it leaves none of the entries that were there when it
\* began, and it takes none that is not its own.
THEOREM BackendClears == BackendInit /\ [][BackendNext]_backendVars => []ClearIsExact
<1>1. BackendInit => Clears
  BY ClearsAtFirst
<1>2. Clears /\ [BackendNext]_backendVars => Clears'
  BY ClearsStays
<1>3. Clears => ClearIsExact
  BY DEF Clears, Left, ClearIsExact
<1>4. QED
  BY <1>1, <1>2, <1>3, PTL

----------------------------------------------------------------------------
(* The writes of models.                                                   *)

Steps == {"new", "validate", "unique", "write", "done", "refused", "error"}

\* What passed the validation of save() satisfies the schema until it is written,
\* and so do the rows, but for those that two saves wrote one half each of.
Validated ==
    /\ step \in [Requests -> Steps] /\ object = [r \in Requests |-> object[r]]
    /\ Strict => \A r \in Requests : step[r] \in {"unique", "write"} => Satisfies(object[r])
    /\ RowsSatisfySchema

\* field.clean() gives back what the schema accepts as well.
LEMMA CleaningKeeps ==
    ASSUME NEW o, Satisfies(o)
    PROVE  Satisfies(CleanAll(o))
<1>1. \A f \in Fields : o[f].form \in {"number", "text"} /\ CleanAll(o)[f] = Cleaned(o[f])
  BY DEF Satisfies, Accepted, CleanAll
<1>2. \A v : /\ Cleaned(v).n = v.n
             /\ v.form \in {"number", "text"} => Cleaned(v).form = "number"
  BY DEF Cleaned, Num
<1>3. "low" \in Fields /\ "high" \in Fields /\ o["low"].n <= o["high"].n
  BY DEF Fields, Satisfies
<1> HIDE DEF Cleaned
<1>4. QED
  BY <1>1, <1>2, <1>3 DEF Satisfies, Accepted

\* A request that ends leaves the table and what the others hold alone.
LEMMA EndsValidated ==
    ASSUME Validated, NEW r \in Requests, NEW how \in {"refused", "error"},
           Ends(r, how), rows' = rows, stale' = stale
    PROVE  Validated'
<1>1. /\ step' = [step EXCEPT ![r] = how] /\ object' = [object EXCEPT ![r] = Blank]
      /\ step \in [Requests -> Steps] /\ object = [q \in Requests |-> object[q]]
      /\ rows' = rows /\ stale' = stale
  BY DEF Ends, Validated
<1>2. step' \in [Requests -> Steps]
  BY <1>1 DEF Steps
<1>3. object' = [q \in Requests |-> object'[q]]
  BY <1>1
<1>4. \A q \in Requests : step'[q] \in {"unique", "write"} => q # r /\ step'[q] = step[q] /\ object'[q] = object[q]
  BY <1>1
<1>5. QED
  BY <1>1, <1>2, <1>3, <1>4 DEF Validated, RowsSatisfySchema, Satisfies

\* Validation is of the instance that is then saved, cleaned.
LEMMA ValidateValidated ==
    ASSUME Validated, NEW r \in Requests, Validate(r)
    PROVE  Validated'
<1> DEFINE o == Filled(r)
<1>1. CASE Transport(r) /\ Pydantic(o, attrs[r]) /\ DjangoFields(o)
  <2>1. /\ object' = [object EXCEPT ![r] = PutBack(o)] /\ step' = [step EXCEPT ![r] = "unique"]
        /\ rows' = rows /\ stale' = stale
        /\ step \in [Requests -> Steps] /\ object = [q \in Requests |-> object[q]]
    BY <1>1 DEF Validate, Validated
  <2>2. Strict => Satisfies(PutBack(o))
    <3> HIDE DEF o
    <3>1. QED
      BY <1>1, CleaningKeeps DEF Pydantic, PutBack
  <2> HIDE DEF o
  <2>3. step' \in [Requests -> Steps] /\ object' = [q \in Requests |-> object'[q]]
    BY <2>1 DEF Steps
  <2>4. ASSUME Strict, NEW q \in Requests, step'[q] \in {"unique", "write"}
        PROVE  Satisfies(object'[q])
    <3>1. CASE q = r
      <4>1. object'[q] = PutBack(o)
        BY <2>1, <3>1
      <4>2. QED
        BY <2>2, <2>4, <4>1
    <3>2. CASE q # r
      <4>1. object'[q] = object[q] /\ step'[q] = step[q]
        BY <2>1, <3>2
      <4>2. QED
        BY <2>4, <4>1 DEF Validated
    <3>3. QED
      BY <3>1, <3>2
  <2>5. RowsSatisfySchema'
    BY <2>1 DEF Validated, RowsSatisfySchema, Satisfies
  <2>6. Strict => \A q \in Requests : step'[q] \in {"unique", "write"} => Satisfies(object[q])'
    BY <2>4 DEF Satisfies
  <2>7. QED
    BY <2>3, <2>5, <2>6 DEF Validated
<1>2. CASE ~(Transport(r) /\ Pydantic(o, attrs[r]) /\ DjangoFields(o))
  <2>1. Ends(r, "refused") /\ rows' = rows /\ stale' = stale
    BY <1>2 DEF Validate
  <2>2. QED
    BY <2>1, EndsValidated
<1>3. QED
  BY <1>1, <1>2

\* The write of all columns satisfies the schema; that of some either gives the
\* row that was validated or is remembered.
LEMMA WriteValidated ==
    ASSUME Validated, NEW r \in Requests, NEW p \in Pks, Write(r, p)
    PROVE  Validated'
<1> DEFINE new  == CleanAll(object[r])
           kept == IF p \in DOMAIN rows THEN rows[p] ELSE new
           row  == [f \in Fields |-> IF f \in columns[r] THEN new[f] ELSE kept[f]]
<1>1. CASE Duplicate(p, row["high"]) \/ (columns[r] # Fields /\ p \notin DOMAIN rows)
  <2>1. Ends(r, "error") /\ rows' = rows /\ stale' = stale
    BY <1>1 DEF Write
  <2>2. QED
    BY <2>1, EndsValidated
<1>2. CASE ~(Duplicate(p, row["high"]) \/ (columns[r] # Fields /\ p \notin DOMAIN rows))
  <2>1. /\ step' = [step EXCEPT ![r] = "done"] /\ object' = object
        /\ rows' = [q \in DOMAIN rows \cup {p} |-> IF q = p THEN row ELSE rows[q]]
        /\ stale' = IF row = new THEN stale \ {p} ELSE stale \cup {p}
        /\ step[r] = "write"
        /\ step \in [Requests -> Steps] /\ object = [q \in Requests |-> object[q]]
    BY <1>2 DEF Write, Validated
  <2>2. Strict => Satisfies(new)
    <3>1. Strict => Satisfies(object[r])
      BY <2>1 DEF Validated
    <3>2. QED
      BY <3>1, CleaningKeeps
  <2> HIDE DEF new, row
  <2>3. step' \in [Requests -> Steps]
    BY <2>1 DEF Steps
  <2>4. \A q \in Requests : step'[q] \in {"unique", "write"} => step'[q] = step[q] /\ object'[q] = object[q]
    BY <2>1
  <2>5. ASSUME Strict, NEW q \in DOMAIN rows'
        PROVE  Satisfies(rows'[q]) \/ q \in stale'
    <3>1. CASE q = p
      <4>1. rows'[q] = row
        BY <2>1, <3>1
      <4>2. QED
        BY <2>1, <2>2, <2>5, <3>1, <4>1
    <3>2. CASE q # p
      <4>1. q \in DOMAIN rows /\ rows'[q] = rows[q] /\ (q \in stale => q \in stale')
        BY <2>1, <3>2
      <4>2. Satisfies(rows[q]) \/ q \in stale
        BY <2>5, <4>1 DEF Validated, RowsSatisfySchema
      <4>3. QED
        BY <4>1, <4>2
    <3>3. QED
      BY <3>1, <3>2
  <2>6. RowsSatisfySchema'
    BY <2>5 DEF RowsSatisfySchema, Satisfies
  <2>7. QED
    BY <2>1, <2>3, <2>4, <2>6 DEF Validated, Satisfies
<1>3. QED
  BY <1>1, <1>2

\* No step of any request, and no deletion, breaks the schema.
LEMMA ValidatedStays ==
    ASSUME Validated, [WriteNext]_writeVars
    PROVE  Validated'
<1>1. /\ step \in [Requests -> Steps] /\ object = [r \in Requests |-> object[r]]
      /\ Strict => \A r \in Requests : step[r] \in {"unique", "write"} => Satisfies(object[r])
      /\ RowsSatisfySchema
  BY DEF Validated
<1>2. CASE UNCHANGED writeVars
  BY <1>1, <1>2 DEF Validated, RowsSatisfySchema, Satisfies, writeVars, request
<1>3. ASSUME NEW r \in Requests, NEW w, NEW p, NEW given, NEW cols, Begin(r, w, p, given, cols)
      PROVE  Validated'
  <2> DEFINE new == IF p \in DOMAIN rows /\ w \notin Schemaful THEN rows[p] ELSE Blank
  <2>1. /\ step' = [step EXCEPT ![r] = "validate"] /\ object' = [object EXCEPT ![r] = new]
        /\ rows' = rows /\ stale' = stale
    BY <1>3 DEF Begin
  <2> HIDE DEF new
  <2>2. \A q \in Requests : step'[q] \in {"unique", "write"} => step'[q] = step[q] /\ object'[q] = object[q]
    BY <1>1, <2>1
  <2>3. step' \in [Requests -> Steps] /\ object' = [q \in Requests |-> object'[q]]
    BY <1>1, <2>1 DEF Steps
  <2>4. QED
    BY <1>1, <2>1, <2>2, <2>3 DEF Validated, RowsSatisfySchema, Satisfies
<1>4. ASSUME NEW r \in Requests, Validate(r)
      PROVE  Validated'
  BY <1>4, ValidateValidated
<1>5. ASSUME NEW r \in Requests, Refuse(r)
      PROVE  Validated'
  <2>1. Ends(r, "refused") /\ rows' = rows /\ stale' = stale
    BY <1>5 DEF Refuse
  <2>2. QED
    BY <2>1, EndsValidated
<1>6. ASSUME NEW r \in Requests, Unique(r)
      PROVE  Validated'
  <2>1. CASE Ends(r, "refused")
    <3>1. rows' = rows /\ stale' = stale
      BY <1>6 DEF Unique
    <3>2. QED
      BY <2>1, <3>1, EndsValidated
  <2>2. CASE step' = [step EXCEPT ![r] = "write"] /\ object' = object
    <3>1. step[r] = "unique" /\ rows' = rows /\ stale' = stale
      BY <1>6 DEF Unique
    <3>2. \A q \in Requests : step'[q] \in {"unique", "write"} => step[q] \in {"unique", "write"}
      BY <1>1, <2>2, <3>1
    <3>3. step' \in [Requests -> Steps]
      BY <1>1, <2>2 DEF Steps
    <3>4. QED
      BY <1>1, <2>2, <3>1, <3>2, <3>3 DEF Validated, RowsSatisfySchema, Satisfies
  <2>3. QED
    BY <1>6, <2>1, <2>2 DEF Unique
<1>7. ASSUME NEW r \in Requests, NEW p \in Pks, Write(r, p)
      PROVE  Validated'
  BY <1>7, WriteValidated
<1>8. ASSUME NEW p \in Pks, Delete(p)
      PROVE  Validated'
  <2>1. /\ rows' = [q \in DOMAIN rows \ {p} |-> rows[q]] /\ stale' = stale \ {p}
        /\ step' = step /\ object' = object
    BY <1>8 DEF Delete, request
  <2>2. ASSUME Strict, NEW q \in DOMAIN rows'
        PROVE  Satisfies(rows'[q]) \/ q \in stale'
    <3>1. q \in DOMAIN rows /\ q # p /\ rows'[q] = rows[q]
      BY <2>1
    <3>2. Satisfies(rows[q]) \/ q \in stale
      BY <1>1, <2>2, <3>1 DEF RowsSatisfySchema
    <3>3. QED
      BY <2>1, <3>1, <3>2
  <2>3. RowsSatisfySchema'
    BY <2>2 DEF RowsSatisfySchema, Satisfies
  <2>4. QED
    BY <1>1, <2>1, <2>3 DEF Validated, Satisfies
<1>9. QED
  BY <1>2, <1>3, <1>4, <1>5, <1>6, <1>7, <1>8 DEF WriteNext

\* The requests start with rows that satisfy the schema.
LEMMA ValidatedAtFirst == WriteInit => Validated
<1>1. SUFFICES ASSUME WriteInit PROVE Validated
  OBVIOUS
<1>2. step \in [Requests -> Steps] /\ object = [r \in Requests |-> object[r]]
  BY <1>1 DEF WriteInit, Steps
<1>3. \A r \in Requests : step[r] \notin {"unique", "write"}
  BY <1>1 DEF WriteInit
<1>4. RowsSatisfySchema
  BY <1>1, SeedAssumption DEF WriteInit, RowsSatisfySchema
<1>5. QED
  BY <1>2, <1>3, <1>4 DEF Validated

\* Whoever writes, in whatever order, from whatever was loaded before: a row breaks
\* the schema only where update_fields wrote a half of it for another half.
THEOREM WritesValidated == WriteInit /\ [][WriteNext]_writeVars => []RowsSatisfySchema
<1>1. WriteInit => Validated
  BY ValidatedAtFirst
<1>2. Validated /\ [WriteNext]_writeVars => Validated'
  BY ValidatedStays
<1>3. Validated => RowsSatisfySchema
  BY DEF Validated
<1>4. QED
  BY <1>1, <1>2, <1>3, PTL

----------------------------------------------------------------------------
(* Schema plans: the invariant.                                            *)

Walks        == [schema : Schemas, path : Seq(STRING), next : Nat \ {0}]
Compilations == [schema : Schemas, next : Nat \ {0}]

\* The schemas that a path of names leads to.
Led == [p \in Seq(STRING) |-> {s \in Schemas : LeadsTo(p, s)}]

\* What the joins should reach, and what has a type.
Referenced == Reachable({"object", "optional"})
Projects   == Reachable({"object", "optional", "list", "tuple"})

Unsupported == \E s \in Projects : \E i \in DOMAIN schema[s] : schema[s][i].kind = "other"

\* The walks go through schemas that no longer change.
Settled ==
    /\ DOMAIN schema \subseteq Schemas
    /\ \A s \in DOMAIN schema : schema[s] \in [DOMAIN FieldsOf[s] -> Annotations]
    /\ calls # <<>> \/ plan.state = "ok" => stored # <<>>
    /\ stored # <<>> \/ pending # <<>> \/ types.state # "none" => DOMAIN schema = Schemas

\* The paths that find_deep_relations() has added lead somewhere, and what it has
\* visited was joined, the root apart.
Followed ==
    /\ \A k \in DOMAIN calls : calls[k].schema \in Led[calls[k].path]
    /\ \A p \in found.select : p # <<>> /\ Led[p] # {}
    /\ \E m \in Nat : \A p \in found.select : Len(p) <= m
    /\ \A s \in found.seen \ {Root} : \E p \in found.select : s \in Led[p]

\* What a visited schema refers to was visited, too, or its call has not come to
\* that field yet.
Explored ==
    /\ Root \in found.seen
    /\ \A s \in found.seen : \A i \in DOMAIN FieldsOf[s] :
         Nested(schema[s][i]) =>
            \/ schema[s][i].to \in found.seen
            \/ \E k \in DOMAIN calls : calls[k].schema = s /\ calls[k].next <= i

WalkInv ==
    /\ calls \in Seq(Walks) /\ EnteredOnce(calls)
    /\ found.select \subseteq Seq(STRING) /\ found.prefetch \subseteq Seq(STRING) /\ found.seen \subseteq Schemas
    /\ \A k \in DOMAIN calls : calls[k].schema \in found.seen
    /\ calls # <<>> => Followed /\ Explored

\* What the plan has to be once it is made.
Served ==
    /\ plan.defer \cap (RestFields \cup {p[1] : p \in plan.select}) = {}
    /\ \A p \in plan.select :
         /\ p \in Seq(STRING) /\ Led[p] # {}
         /\ p[1] \notin exclude
         /\ ~\E q \in plan.select : IsFurther(p, q)
    /\ exclude = {} =>
         \A s \in Referenced \ {Root} :
            \E p \in plan.select : \E n \in 1..Len(p) : s \in Led[SubSeq(p, 1, n)]

\* The types of the fields of each schema.
WholeTypes == [s \in Schemas |-> [i \in DOMAIN FieldsOf[s] |-> Projected(schema[s][i])]]

\* A cached schema is finished, or a call for it has not returned; what it refers
\* to is in the cache, too, or its call has not come to that field yet.
Cached ==
    \A s \in DOMAIN types.of :
        /\ \A i \in DOMAIN FieldsOf[s] :
             \/ schema[s][i].kind # "other" /\ schema[s][i].to \in DOMAIN types.of \cup {NoSchema}
             \/ \E k \in DOMAIN pending : pending[k].schema = s /\ pending[k].next <= i
        /\ \/ \E k \in DOMAIN pending : pending[k].schema = s
           \/ types.of[s] = WholeTypes[s]

CompileInv ==
    /\ pending \in Seq(Compilations) /\ EnteredOnce(pending)
    /\ DOMAIN types = {"state", "of"} /\ types.state \in {"none", "ok", "error"}
    /\ types.state # "none" => pending = <<>>
    /\ \A k \in DOMAIN pending : pending[k].schema \in DOMAIN types.of
    /\ DOMAIN types.of \subseteq Schemas
    /\ pending # <<>> \/ types.state = "ok" =>
         /\ Root \in DOMAIN types.of /\ DOMAIN types.of \subseteq Projects
         /\ Cached
    /\ types.state = "error" => Unsupported

SchemaInv ==
    /\ Settled /\ WalkInv /\ CompileInv
    /\ plan.state \in {"none", "ok", "error"}
    /\ plan.state = "ok" => Served

----------------------------------------------------------------------------
(* Paths and sets of schemas.                                              *)

\* What paths lead to depends on the schemas alone.
LEMMA SchemasFixed ==
    ASSUME UNCHANGED schema
    PROVE  UNCHANGED <<Led, Referenced, Projects, Unsupported, WholeTypes>>
<1>1. UNCHANGED Led
  BY DEF Led, LeadsTo, Refers, Nested
<1>2. UNCHANGED Referenced
  BY DEF Referenced, Reachable
<1>3. UNCHANGED Projects
  BY DEF Projects, Reachable
<1>4. UNCHANGED Unsupported
  BY <1>3 DEF Unsupported
<1>5. UNCHANGED WholeTypes
  BY DEF WholeTypes, Projected, Type
<1>6. QED
  BY <1>1, <1>2, <1>3, <1>4, <1>5

\* The empty path leads to the root.
LEMMA EmptyLeads ==
    ASSUME SchemaConstants
    PROVE  <<>> \in Seq(STRING) /\ Root \in Led[<<>>]
<1> DEFINE via == [n \in 0..0 |-> Root]
<1>1. Root \in Schemas
  BY DEF SchemaConstants
<1>2. via \in [0..Len(<<>>) -> Schemas] /\ via[0] = Root /\ via[Len(<<>>)] = Root
  BY <1>1
<1>3. LeadsTo(<<>>, Root)
  <2> HIDE DEF via
  <2> QED
    BY <1>2 DEF LeadsTo
<1>4. QED
  BY <1>1, <1>3 DEF Led

\* A path is continued by the name of a field that refers on.
LEMMA LeadsFurther ==
    ASSUME NEW p \in Seq(STRING), NEW s \in Led[p], NEW name \in STRING, NEW t \in Schemas,
           Refers(s, name, t)
    PROVE  Append(p, name) \in Seq(STRING) /\ t \in Led[Append(p, name)]
<1> DEFINE q == Append(p, name)
<1>1. /\ q \in Seq(STRING) /\ Len(q) = Len(p) + 1 /\ Len(p) \in Nat
      /\ \A n \in 1..Len(p) : q[n] = p[n]
      /\ q[Len(p) + 1] = name
  <2>1. p \in Seq(STRING) /\ name \in STRING
    OBVIOUS
  <2>2. /\ q \in Seq(STRING) /\ Len(q) = Len(p) + 1 /\ Len(p) \in Nat
        /\ q[Len(p) + 1] = name
        /\ \A n \in 1..Len(p) : q[n] = p[n] /\ n \in 1..Len(p) + 1
    BY <2>1, Appended
  <2>3. QED
    BY <2>2
<1>2. PICK via \in [0..Len(p) -> Schemas] :
          /\ via[0] = Root /\ via[Len(p)] = s
          /\ \A n \in DOMAIN p : Refers(via[n - 1], p[n], via[n])
  BY DEF Led, LeadsTo
<1> HIDE DEF q
<1> DEFINE on == [n \in 0..Len(q) |-> IF n = Len(q) THEN t ELSE via[n]]
<1>3. on \in [0..Len(q) -> Schemas]
  BY <1>1, <1>2
<1>4. on[0] = Root /\ on[Len(q)] = t /\ \A n \in 0..Len(p) : on[n] = via[n]
  BY <1>1, <1>2
<1> HIDE DEF on
<1>5. ASSUME NEW n \in DOMAIN q PROVE Refers(on[n - 1], q[n], on[n])
  <2>1. n \in 1..Len(p) + 1 /\ DOMAIN p = 1..Len(p)
    BY <1>1
  <2>2. CASE n = Len(p) + 1
    <3>1. on[n] = t /\ q[n] = name
      BY <1>1, <1>4, <2>2
    <3>2. on[n - 1] = s
      <4>1. n - 1 = Len(p) /\ Len(p) \in 0..Len(p)
        BY <1>1, <2>2
      <4>2. QED
        BY <4>1, <1>2, <1>4
    <3>3. QED
      BY <3>1, <3>2
  <2>3. CASE n \in 1..Len(p)
    <3>1. on[n] = via[n] /\ on[n - 1] = via[n - 1] /\ q[n] = p[n]
      BY <1>1, <1>4, <2>3
    <3>2. QED
      BY <3>1, <1>2, <2>1, <2>3
  <2>4. QED
    BY <2>1, <2>2, <2>3, <1>1
<1>6. LeadsTo(q, t)
  BY <1>3, <1>4, <1>5 DEF LeadsTo
<1>7. QED
  BY <1>1, <1>6 DEF Led, q

\* An annotation refers to a schema or to none.
LEMMA Annotated ==
    ASSUME NEW a \in Annotations
    PROVE  /\ a.kind \in {"scalar", "other", "object", "optional", "list", "tuple"}
           /\ a.kind \in {"scalar", "other"} => a.to = NoSchema
           /\ a.kind \in {"object", "optional", "list", "tuple"} => a.to \in Schemas
<1>1. CASE a \in {Annotation("scalar", NoSchema), Annotation("other", NoSchema)}
  BY <1>1 DEF Annotation
<1>2. CASE \E k \in {"object", "optional", "list", "tuple"}, s \in Schemas : a = Annotation(k, s)
  BY <1>2 DEF Annotation
<1>3. QED
  BY <1>1, <1>2 DEF Annotations

\* A set of schemas with the root that references do not leave holds all that they reach.
LEMMA ReachedStays ==
    ASSUME NEW kinds, NEW near, near \subseteq Schemas, Root \in near,
           \A t \in near : \A i \in DOMAIN schema[t] : schema[t][i].kind \in kinds => schema[t][i].to \in near
    PROVE  Reachable(kinds) \subseteq near
BY DEF Reachable

\* The root is reached, and from what is reached all that it refers to.
LEMMA ReachedOn ==
    ASSUME SchemaConstants, NEW kinds
    PROVE  /\ Root \in Reachable(kinds) /\ Reachable(kinds) \subseteq Schemas
           /\ \A t \in Reachable(kinds) : \A i \in DOMAIN schema[t] :
                schema[t][i].kind \in kinds /\ schema[t][i].to \in Schemas => schema[t][i].to \in Reachable(kinds)
BY DEF Reachable, SchemaConstants

\* Of the paths that continue a path there is one that no other continues.
LEMMA SomeDeepest ==
    ASSUME NEW paths, paths \subseteq Seq(STRING), NEW m \in Nat, \A p \in paths : Len(p) <= m,
           NEW p \in paths
    PROVE  \E q \in Deepest(paths) : Len(p) <= Len(q) /\ SubSeq(q, 1, Len(p)) = p
<1> DEFINE Continues(q) == Len(p) <= Len(q) /\ \A i \in 1..Len(p) : q[i] = p[i]
           T == {n \in Nat : \A q \in paths : Continues(q) => Len(q) <= n}
<1>1. p \in Seq(STRING) /\ Len(p) \in Nat /\ Continues(p) /\ \A q \in paths : Len(q) \in Nat /\ q \in Seq(STRING)
  OBVIOUS
<1>2. PICK n \in T : \A k \in T : n <= k
  <2>1. m \in T
    OBVIOUS
  <2>2. T \subseteq Nat /\ T # {}
    BY <2>1
  <2> HIDE DEF T
  <2>3. QED
    BY <2>2, LeastNumber
<1>3. n \in Nat /\ \A q \in paths : Continues(q) => Len(q) <= n
  BY <1>2
<1>4. PICK q \in paths : Continues(q) /\ Len(q) = n
  <2>1. SUFFICES ASSUME \A q \in paths : Continues(q) => Len(q) # n PROVE FALSE
    OBVIOUS
  <2>2. \A q \in paths : Continues(q) => Len(q) <= n - 1
    <3> HIDE DEF Continues
    <3> QED
      BY <1>1, <1>3, <2>1
  <2>3. n - 1 \in Nat
    <3>1. Len(p) <= n - 1
      BY <1>1, <2>2
    <3>2. QED
      BY <3>1, <1>1, <1>3
  <2>4. n - 1 \in T
    BY <2>2, <2>3
  <2>5. n <= n - 1
    <3> HIDE DEF T
    <3> QED
      BY <1>2, <2>4
  <2>6. QED
    BY <2>5, <1>3
<1>5. ASSUME NEW r \in paths, IsFurther(q, r) PROVE FALSE
  <2>1. q # r /\ Len(q) <= Len(r) /\ SubSeq(q, 1, Len(q)) = SubSeq(r, 1, Len(q))
    BY <1>5 DEF IsFurther, IsPrefix
  <2>2. q \in Seq(STRING) /\ r \in Seq(STRING) /\ Len(q) \in Nat /\ Len(r) \in Nat
    BY <1>1
  <2>3. \A i \in 1..Len(q) : SubSeq(r, 1, Len(q))[i] = r[i]
    BY <2>1, <2>2
  <2>4. SubSeq(q, 1, Len(q)) = q
    BY <2>2, SubSeqFull
  <2>5. \A i \in 1..Len(q) : q[i] = r[i]
    BY <2>1, <2>3, <2>4
  <2>6. Len(r) <= n
    <3>1. Continues(r)
      BY <1>1, <1>4, <2>1, <2>2, <2>5
    <3>2. QED
      BY <1>3, <3>1
  <2>7. Len(r) = Len(q)
    BY <1>4, <2>1, <2>2, <2>6, <1>3
  <2>8. r = q
    <3>1. DOMAIN r = 1..Len(q) /\ DOMAIN q = 1..Len(q) /\ r = [i \in DOMAIN r |-> r[i]] /\ q = [i \in DOMAIN q |-> q[i]]
      BY <2>2, <2>7
    <3>2. QED
      BY <2>5, <3>1
  <2>9. QED
    BY <2>1, <2>8
<1>6. q \in Deepest(paths)
  BY <1>5 DEF Deepest
<1>7. SubSeq(q, 1, Len(p)) = p
  <2>1. q \in Seq(STRING) /\ Len(q) \in Nat /\ Len(p) \in 0..Len(q)
    BY <1>1, <1>4
  <2>2. /\ DOMAIN SubSeq(q, 1, Len(p)) = 1..Len(p)
        /\ \A i \in 1..Len(p) : SubSeq(q, 1, Len(p))[i] = q[i]
        /\ SubSeq(q, 1, Len(p)) = [i \in 1..Len(p) |-> q[i]]
    BY <2>1, <1>1
  <2>3. p = [i \in 1..Len(p) |-> p[i]]
    BY <1>1
  <2>4. QED
    BY <1>4, <2>2, <2>3
<1>8. QED
  BY <1>4, <1>6, <1>7


----------------------------------------------------------------------------
(* Schema plans: the steps.                                                *)

\* Nothing has been declared at first.
LEMMA SchemaInitially ==
    ASSUME SchemaInit
    PROVE  SchemaInv
<1>1. Settled
  BY DEF SchemaInit, Settled
<1>2. WalkInv
  BY DEF SchemaInit, WalkInv, EnteredOnce
<1>3. CompileInv
  BY DEF SchemaInit, CompileInv, EnteredOnce
<1>4. QED
  BY <1>1, <1>2, <1>3 DEF SchemaInit, SchemaInv

\* What holds of the plan is about the schemas, the model and the plan.
LEMMA ServedFixed ==
    ASSUME Served, UNCHANGED <<schema, stored, exclude, plan>>
    PROVE  Served'
<1>1. UNCHANGED <<Led, Referenced>>
  BY SchemasFixed
<1>2. UNCHANGED RestFields
  BY DEF RestFields
<1>3. QED
  BY <1>1, <1>2 DEF Served, IsFurther

\* And of a walk about the schemas and what the walk keeps.
LEMMA WalkFixed ==
    ASSUME WalkInv, UNCHANGED <<schema, calls, found>>
    PROVE  WalkInv'
<1>1. UNCHANGED Led
  BY SchemasFixed
<1>2. UNCHANGED Followed
  BY <1>1 DEF Followed
<1>3. UNCHANGED Explored
  BY DEF Explored, Nested
<1>4. UNCHANGED EnteredOnce(calls)
  BY DEF EnteredOnce
<1>5. QED
  BY <1>2, <1>3, <1>4 DEF WalkInv

\* And of a compilation about the schemas, the cache and the calls of _compile_schema().
LEMMA CompileFixed ==
    ASSUME CompileInv, UNCHANGED <<schema, pending, types>>
    PROVE  CompileInv'
<1>1. UNCHANGED <<Projects, Unsupported, WholeTypes>>
  BY SchemasFixed
<1>2. UNCHANGED Cached
  BY <1>1 DEF Cached
<1>3. UNCHANGED EnteredOnce(pending)
  BY DEF EnteredOnce
<1>4. QED
  BY <1>1, <1>2, <1>3 DEF CompileInv

\* A schema is declared before anything looks at it.
LEMMA DeclareSchemaKeeps ==
    ASSUME SchemaInv, NEW s \in Schemas,
           NEW annotations \in [DOMAIN FieldsOf[s] -> {a \in Annotations : a.kind \in KindsOf[s]}],
           DeclareSchema(s, annotations)
    PROVE  SchemaInv'
<1>1. /\ s \notin DOMAIN schema
      /\ schema' = [x \in DOMAIN schema \cup {s} |-> IF x = s THEN annotations ELSE schema[x]]
      /\ UNCHANGED <<stored, exclude, calls, found, plan, pending, types>>
  BY DEF DeclareSchema
<1>2. stored = <<>> /\ calls = <<>> /\ plan.state # "ok" /\ pending = <<>> /\ types.state = "none"
  BY <1>1 DEF SchemaInv, Settled, CompileInv
<1>3. annotations \in [DOMAIN FieldsOf[s] -> Annotations]
  OBVIOUS
<1>4. Settled'
  <2>1. DOMAIN schema' = DOMAIN schema \cup {s}
    BY <1>1
  <2>2. \A x \in DOMAIN schema' : schema'[x] = IF x = s THEN annotations ELSE schema[x]
    BY <1>1
  <2>3. QED
    BY <1>1, <1>2, <1>3, <2>1, <2>2 DEF SchemaInv, Settled
<1>5. WalkInv'
  BY <1>1, <1>2 DEF SchemaInv, WalkInv, EnteredOnce
<1>6. CompileInv'
  BY <1>1, <1>2 DEF SchemaInv, CompileInv, EnteredOnce
<1>7. QED
  BY <1>1, <1>2, <1>4, <1>5, <1>6 DEF SchemaInv

\* A model is declared before the plan is made, which is what asks for it.
LEMMA DeclareModelKeeps ==
    ASSUME SchemaInv, NEW cols, NEW excluded, DeclareModel(cols, excluded)
    PROVE  SchemaInv'
<1>1. /\ DOMAIN schema = Schemas /\ stored = <<>>
      /\ UNCHANGED <<schema, calls, found, plan, pending, types>>
  BY DEF DeclareModel
<1>2. calls = <<>> /\ plan.state # "ok"
  BY <1>1 DEF SchemaInv, Settled
<1>3. WalkInv' /\ CompileInv'
  BY <1>1, WalkFixed, CompileFixed DEF SchemaInv
<1>4. Settled'
  BY <1>1, <1>2 DEF SchemaInv, Settled
<1>5. QED
  BY <1>1, <1>2, <1>3, <1>4 DEF SchemaInv

----------------------------------------------------------------------------
(* The plan.                                                               *)

\* find_deep_relations() is called for the root schema.
LEMMA StartPlanKeeps ==
    ASSUME SchemaConstants, SchemaInv, StartPlan
    PROVE  SchemaInv'
<1>1. /\ plan.state = "none" /\ stored # <<>> /\ pending = <<>>
      /\ calls' = <<[schema |-> Root, path |-> <<>>, next |-> 1]>>
      /\ found' = [select |-> {}, prefetch |-> {}, seen |-> {Root}]
      /\ UNCHANGED <<schema, stored, exclude, plan, pending, types>>
  BY DEF StartPlan, Idle, Walk
<1>2. UNCHANGED Led /\ Root \in Led[<<>>] /\ <<>> \in Seq(STRING) /\ Root \in Schemas
  BY <1>1, SchemasFixed, EmptyLeads DEF SchemaConstants
<1>3. [schema |-> Root, path |-> <<>>, next |-> 1] \in Walks
  BY <1>2 DEF Walks
<1>4. /\ calls' \in Seq(Walks) /\ DOMAIN calls' = {1}
      /\ calls'[1].schema = Root /\ calls'[1].path = <<>> /\ calls'[1].next = 1
  BY <1>1, <1>3
<1>5. Followed'
  BY <1>1, <1>2, <1>4 DEF Followed
<1>6. Explored'
  <2>1. \A i \in DOMAIN FieldsOf[Root] : 1 <= i
    BY <1>2 DEF SchemaConstants
  <2>2. QED
    BY <1>1, <1>4, <2>1 DEF Explored
<1>7. WalkInv'
  BY <1>1, <1>2, <1>4, <1>5, <1>6 DEF WalkInv, EnteredOnce
<1>8. Settled' /\ CompileInv'
  BY <1>1, CompileFixed DEF SchemaInv, Settled
<1>9. QED
  BY <1>1, <1>7, <1>8 DEF SchemaInv

\* A call that goes on to the next field.
LEMMA NextWalk ==
    ASSUME NEW r \in Walks, NEW x, x = [r EXCEPT !.next = r.next + 1]
    PROVE  x \in Walks /\ x.schema = r.schema /\ x.path = r.path /\ x.next = r.next + 1
<1>1. x \in Walks
  BY DEF Walks
<1>2. QED
  BY DEF Walks

\* A call of find_deep_relations() has a schema, a path and a field it comes to next.
LEMMA WalkParts ==
    ASSUME NEW r \in Walks
    PROVE  r.schema \in Schemas /\ r.path \in Seq(STRING) /\ r.next \in Nat \ {0}
BY DEF Walks

\* What has an element is not empty, and one element is a sequence.
LEMMA AppendedSome ==
    ASSUME NEW S, NEW f \in Seq(S), NEW e \in S
    PROVE  Append(f, e) # <<>> /\ <<e>> \in Seq(S)
<1>1. Len(Append(f, e)) # Len(<<>>)
  <2>1. Len(Append(f, e)) = Len(f) + 1 /\ Len(f) \in Nat
    BY Appended
  <2>2. Len(<<>>) = 0
    OBVIOUS
  <2>3. QED
    BY <2>1, <2>2
<1>2. <<e>> \in Seq(S)
  OBVIOUS
<1>3. QED
  BY <1>1, <1>2

\* A path goes on by a name.
LEMMA PathOn ==
    ASSUME NEW p \in Seq(STRING), NEW w \in STRING
    PROVE  /\ Append(p, w) \in Seq(STRING) /\ Append(p, w) # <<>> /\ Len(Append(p, w)) \in Nat
           /\ <<w>> \in Seq(STRING)
<1>1. /\ Append(p, w) \in Seq(STRING) /\ Len(Append(p, w)) = Len(p) + 1 /\ Len(p) \in Nat
  BY Appended
<1>2. Len(Append(p, w)) \in Nat
  BY <1>1
<1>3. Append(p, w) # <<>> /\ <<w>> \in Seq(STRING)
  BY AppendedSome
<1>4. QED
  BY <1>1, <1>2, <1>3

\* A call begins at the first field of its schema.
LEMMA WalkMade ==
    ASSUME NEW s \in Schemas, NEW p \in Seq(STRING)
    PROVE  [schema |-> s, path |-> p, next |-> 1] \in Walks
BY DEF Walks

\* The loop of the innermost call goes on.
LEMMA NextOfWalks ==
    ASSUME NEW s \in Seq(Walks), s # <<>>
    PROVE  /\ NextField(s) \in Seq(Walks) /\ Len(NextField(s)) = Len(s)
           /\ Len(s) \in 1..Len(s) /\ Len(s) \in Nat
           /\ \A k \in 1..Len(s) :
                /\ NextField(s)[k].schema = s[k].schema
                /\ NextField(s)[k].path = s[k].path
                /\ NextField(s)[k].next = IF k = Len(s) THEN s[k].next + 1 ELSE s[k].next
<1> DEFINE n == Len(s)
           w == [s[n] EXCEPT !.next = s[n].next + 1]
<1>1. n \in Nat /\ n \in 1..n /\ DOMAIN s = 1..n /\ \A k \in 1..n : s[k] \in Walks
  OBVIOUS
<1>2. w \in Walks /\ w.schema = s[n].schema /\ w.path = s[n].path /\ w.next = s[n].next + 1
  BY <1>1, NextWalk
<1>3. NextField(s) = [s EXCEPT ![n] = w]
  BY DEF NextField
<1> HIDE DEF w
<1>4. NextField(s) \in Seq(Walks) /\ Len(NextField(s)) = n
  BY <1>1, <1>2, <1>3
<1>5. \A k \in 1..n : NextField(s)[k] = IF k = n THEN w ELSE s[k]
  BY <1>1, <1>3
<1>6. QED
  BY <1>1, <1>2, <1>4, <1>5


\* A turn of the loop adds what the field stands for, and perhaps a call.
LEMMA LookAtFieldKeeps ==
    ASSUME SchemaConstants, SchemaInv, LookAtField
    PROVE  SchemaInv'
<1> DEFINE n == Len(calls)
           s == calls[n].schema
           i == calls[n].next
           a == schema[s][i]
           name == FieldsOf[s][i]
           path == Append(calls[n].path, name)
           joins == Nested(a) /\ a.to # s
           fresh == joins /\ a.to \notin found.seen
           on == NextField(calls)
           deeper == [schema |-> a.to, path |-> path, next |-> 1]
<1>1. /\ calls # <<>> /\ i \in DOMAIN FieldsOf[s]
      /\ calls' = IF fresh THEN Append(on, deeper) ELSE on
      /\ found'.select = IF joins THEN found.select \cup {path} ELSE found.select
      /\ found'.prefetch = IF a.kind = "list" THEN found.prefetch \cup {<<name>>} ELSE found.prefetch
      /\ found'.seen = IF fresh THEN found.seen \cup {a.to} ELSE found.seen
      /\ UNCHANGED <<schema, stored, exclude, plan, pending, types>>
  BY DEF LookAtField, Looping, Last, Walk
<1>2. /\ calls \in Seq(Walks) /\ EnteredOnce(calls) /\ Followed /\ Explored
      /\ found.select \subseteq Seq(STRING) /\ found.prefetch \subseteq Seq(STRING) /\ found.seen \subseteq Schemas
      /\ \A k \in DOMAIN calls : calls[k].schema \in found.seen
  BY <1>1 DEF SchemaInv, WalkInv
<1>3. /\ on \in Seq(Walks) /\ Len(on) = n /\ n \in 1..n /\ n \in Nat /\ DOMAIN on = 1..n /\ DOMAIN calls = 1..n
      /\ \A k \in 1..n :
           /\ on[k].schema = calls[k].schema
           /\ on[k].path = calls[k].path
           /\ on[k].next = IF k = n THEN i + 1 ELSE calls[k].next
  <2>1. calls \in Seq(Walks) /\ calls # <<>>
    BY <1>1, <1>2
  <2>2. /\ NextField(calls) \in Seq(Walks) /\ Len(NextField(calls)) = Len(calls)
        /\ Len(calls) \in 1..Len(calls) /\ Len(calls) \in Nat
        /\ \A k \in 1..Len(calls) :
             /\ NextField(calls)[k].schema = calls[k].schema
             /\ NextField(calls)[k].path = calls[k].path
             /\ NextField(calls)[k].next = IF k = Len(calls) THEN calls[k].next + 1 ELSE calls[k].next
    BY <2>1, NextOfWalks
  <2>3. DOMAIN calls = 1..n /\ DOMAIN on = 1..Len(on)
    BY <2>1, <2>2
  <2>4. \A k \in 1..n : on[k].next = IF k = n THEN i + 1 ELSE calls[k].next
    BY <2>2
  <2>5. QED
    BY <2>2, <2>3, <2>4
<1>4. \A k \in 1..n : /\ calls[k].schema \in Schemas /\ calls[k].path \in Seq(STRING)
                      /\ calls[k].next \in Nat \ {0} /\ calls[k].schema \in found.seen
  <2>1. \A k \in 1..n : calls[k] \in Walks
    BY <1>2, ElementOfSeq
  <2>2. QED
    BY <1>2, <1>3, <2>1, WalkParts
<1>5. /\ s \in Schemas /\ s \in found.seen /\ i \in Nat \ {0} /\ calls[n].path \in Seq(STRING)
      /\ FieldsOf[s] \in Seq(STRING) /\ name \in STRING /\ a \in Annotations
  <2>1. s \in Schemas /\ s \in found.seen /\ i \in Nat \ {0} /\ calls[n].path \in Seq(STRING)
    BY <1>3, <1>4
  <2>2. FieldsOf[s] \in Seq(STRING)
    BY <2>1 DEF SchemaConstants
  <2>3. schema[s] \in [DOMAIN FieldsOf[s] -> Annotations]
    BY <1>1, <2>1 DEF SchemaInv, Settled
  <2>4. i \in DOMAIN FieldsOf[s]
    BY <1>1
  <2>5. name \in STRING
    BY <2>2, <2>4, ElementOfSeq
  <2>6. a \in Annotations
    BY <2>3, <2>4
  <2>7. QED
    BY <2>1, <2>2, <2>5, <2>6
<1>6. path \in Seq(STRING) /\ path # <<>> /\ Len(path) \in Nat /\ <<name>> \in Seq(STRING)
  <2>1. calls[n].path \in Seq(STRING) /\ name \in STRING
    BY <1>5
  <2>2. QED
    BY <2>1, PathOn
<1>7. joins => a.to \in Schemas /\ Refers(s, name, a.to)
  <2>1. SUFFICES ASSUME joins PROVE a.to \in Schemas /\ Refers(s, name, a.to)
    OBVIOUS
  <2>2. a.to \in Schemas
    BY <1>5, <2>1, Annotated DEF Nested
  <2>3. QED
    BY <1>1, <2>1, <2>2 DEF Refers
<1>8. joins => a.to \in Led[path]
  <2>1. s \in Led[calls[n].path]
    BY <1>2, <1>3 DEF Followed
  <2>2. QED
    BY <1>5, <1>7, <2>1, LeadsFurther
<1>9. fresh => deeper \in Walks
  <2>1. path \in Seq(STRING)
    BY <1>6
  <2>2. fresh => a.to \in Schemas
    BY <1>7
  <2>3. QED
    BY <2>1, <2>2, WalkMade
<1>10. UNCHANGED Led
  BY <1>1, SchemasFixed
<1> HIDE DEF on, deeper
<1>11. /\ calls' \in Seq(Walks)
       /\ \A k \in 1..n : calls'[k] = on[k] /\ k \in DOMAIN calls'
       /\ \A k \in DOMAIN calls' : k \in 1..n \/ (fresh /\ k = n + 1)
       /\ fresh => n + 1 \in DOMAIN calls' /\ calls'[n + 1] = deeper
  <2>1. CASE fresh
    <3>1. calls' = Append(on, deeper)
      BY <1>1, <2>1
    <3>2. deeper \in Walks /\ on \in Seq(Walks) /\ Len(on) = n /\ n \in Nat
      BY <1>3, <1>9, <2>1
    <3>3. /\ calls' \in Seq(Walks) /\ Len(calls') = Len(on) + 1 /\ calls'[Len(on) + 1] = deeper
          /\ \A k \in 1..Len(on) : calls'[k] = on[k] /\ k \in 1..Len(on) + 1
      BY <3>1, <3>2, Appended
    <3>4. DOMAIN calls' = 1..n + 1
      BY <3>2, <3>3
    <3>5. \A k \in 1..n + 1 : k \in 1..n \/ k = n + 1
      BY <3>2
    <3>6. n + 1 \in 1..n + 1
      BY <3>2
    <3>7. QED
      BY <2>1, <3>2, <3>3, <3>4, <3>5, <3>6
  <2>2. CASE ~fresh
    <3>1. calls' = on
      BY <1>1, <2>2
    <3>2. QED
      BY <1>3, <2>2, <3>1
  <2>3. QED
    BY <2>1, <2>2
<1>12. /\ \A k \in 1..n : /\ calls'[k].schema = calls[k].schema /\ calls'[k].path = calls[k].path
                          /\ calls'[k].next = IF k = n THEN i + 1 ELSE calls[k].next
       /\ fresh => /\ calls'[n + 1].schema = a.to /\ calls'[n + 1].path = path
                   /\ calls'[n + 1].next = 1
  <2>1. deeper.schema = a.to /\ deeper.path = path /\ deeper.next = 1
    BY DEF deeper
  <2>2. QED
    BY <1>3, <1>11, <2>1
<1> HIDE DEF path, name, a, fresh
<1>13. fresh <=> joins /\ a.to \notin found.seen
  BY DEF fresh, a
<1>14. EnteredOnce(calls)'
  <2>1. \A j, k \in 1..n : calls[j].schema = calls[k].schema => j = k
    BY <1>2, <1>3 DEF EnteredOnce
  <2>2. ASSUME NEW j \in DOMAIN calls', NEW k \in DOMAIN calls', calls'[j].schema = calls'[k].schema
        PROVE  j = k
    <3>1. CASE j \in 1..n /\ k \in 1..n
      BY <1>12, <2>1, <2>2, <3>1
    <3>2. ~(fresh /\ j = n + 1 /\ k \in 1..n)
      <4>1. SUFFICES ASSUME fresh, j = n + 1, k \in 1..n
                     PROVE  FALSE
        OBVIOUS
      <4>2. calls'[j].schema = a.to /\ a.to \notin found.seen
        BY <1>12, <1>13, <4>1
      <4>3. calls'[k].schema \in found.seen
        BY <1>4, <1>12, <4>1
      <4>4. QED
        BY <2>2, <4>2, <4>3
    <3>3. ~(fresh /\ k = n + 1 /\ j \in 1..n)
      <4>1. SUFFICES ASSUME fresh, k = n + 1, j \in 1..n
                     PROVE  FALSE
        OBVIOUS
      <4>2. calls'[k].schema = a.to /\ a.to \notin found.seen
        BY <1>12, <1>13, <4>1
      <4>3. calls'[j].schema \in found.seen
        BY <1>4, <1>12, <4>1
      <4>4. QED
        BY <2>2, <4>2, <4>3
    <3>4. CASE j = n + 1 /\ k = n + 1
      BY <3>4
    <3>5. j \in 1..n \/ (fresh /\ j = n + 1)
      BY <1>11
    <3>6. k \in 1..n \/ (fresh /\ k = n + 1)
      BY <1>11
    <3>7. QED
      BY <3>1, <3>2, <3>3, <3>4, <3>5, <3>6
  <2>3. QED
    BY <2>2 DEF EnteredOnce
<1>15. (\A k \in DOMAIN calls : calls[k].schema \in found.seen)'
  BY <1>1, <1>4, <1>11, <1>12
<1>16. Followed'
  <2>1. ASSUME NEW k \in DOMAIN calls' PROVE calls'[k].schema \in Led[calls'[k].path]
    BY <1>2, <1>3, <1>8, <1>11, <1>12, <1>13 DEF Followed
  <2>2. \A p \in found'.select : p # <<>> /\ Led[p] # {}
    BY <1>1, <1>2, <1>6, <1>8 DEF Followed
  <2>3. \E b \in Nat : \A p \in found'.select : Len(p) <= b
    <3>1. PICK b \in Nat : \A p \in found.select : Len(p) <= b
      BY <1>2 DEF Followed
    <3>2. \A p \in found'.select : Len(p) <= b + Len(path)
      <4>1. \A p \in found.select : Len(p) \in Nat
        BY <1>2
      <4>2. QED
        BY <1>1, <1>6, <3>1, <4>1
    <3>3. QED
      BY <1>6, <3>2
  <2>4. \A t \in found'.seen \ {Root} : \E p \in found'.select : t \in Led[p]
    BY <1>1, <1>2, <1>8, <1>13 DEF Followed
  <2>5. QED
    BY <1>10, <2>1, <2>2, <2>3, <2>4 DEF Followed
<1>17. Explored'
  <2>1. ASSUME NEW t \in found'.seen, NEW j \in DOMAIN FieldsOf[t], Nested(schema[t][j])
        PROVE  \/ schema[t][j].to \in found'.seen
               \/ \E k \in DOMAIN calls' : calls'[k].schema = t /\ calls'[k].next <= j
    <3>1. CASE t \in found.seen
      <4>1. CASE schema[t][j].to \in found.seen
        BY <1>1, <4>1
      <4>2. CASE \E k \in DOMAIN calls : calls[k].schema = t /\ calls[k].next <= j
        <5>1. PICK k \in 1..n : calls[k].schema = t /\ calls[k].next <= j
          BY <1>3, <4>2
        <5>2. k \in DOMAIN calls'
          BY <1>11
        <5>3. t \in Schemas /\ j \in Nat
          <6>1. t \in Schemas
            BY <1>4, <5>1
          <6>2. QED
            BY <6>1 DEF SchemaConstants
        <5>4. CASE k # n \/ i < j
          <6>1. calls'[k].schema = t /\ calls'[k].next <= j
            BY <1>5, <1>12, <5>1, <5>3, <5>4
          <6>2. QED
            BY <5>2, <6>1
        <5>5. CASE k = n /\ i = j
          <6>1. t = s /\ schema[t][j] = a
            BY <5>1, <5>5 DEF a
          <6>2. a.to = s \/ joins
            BY <2>1, <6>1
          <6>3. a.to \in found'.seen
            BY <1>1, <1>5, <1>13, <6>2
          <6>4. QED
            BY <6>1, <6>3
        <5>6. (k # n \/ i < j) \/ (k = n /\ i = j)
          BY <1>5, <5>1, <5>3
        <5>7. QED
          BY <5>4, <5>5, <5>6
      <4>3. QED
        BY <1>2, <2>1, <3>1, <4>1, <4>2 DEF Explored
    <3>2. CASE t \notin found.seen
      <4>1. fresh /\ t = a.to
        BY <1>1, <3>2
      <4>2. t \in Schemas
        BY <1>7, <1>13, <4>1
      <4>3. 1 <= j
        BY <4>2 DEF SchemaConstants
      <4>4. n + 1 \in DOMAIN calls' /\ calls'[n + 1].schema = t /\ calls'[n + 1].next <= j
        BY <1>11, <1>12, <4>1, <4>3
      <4>5. QED
        BY <4>4
    <3>3. QED
      BY <3>1, <3>2
  <2>2. Root \in found'.seen
    BY <1>1, <1>2 DEF Explored
  <2>3. \A t, j : Nested(schema'[t][j]) <=> Nested(schema[t][j])
    BY <1>1 DEF Nested
  <2>4. QED
    BY <1>1, <2>1, <2>2, <2>3 DEF Explored, Nested
<1>18. /\ found'.select \subseteq Seq(STRING) /\ found'.prefetch \subseteq Seq(STRING)
       /\ found'.seen \subseteq Schemas
  BY <1>1, <1>2, <1>6, <1>7, <1>13
<1>19. WalkInv'
  BY <1>11, <1>14, <1>15, <1>16, <1>17, <1>18 DEF WalkInv
<1>20. Settled' /\ CompileInv'
  BY <1>1, CompileFixed DEF SchemaInv, Settled
<1>21. plan.state = "ok" => Served'
  BY <1>1, ServedFixed DEF SchemaInv
<1>22. QED
  BY <1>1, <1>19, <1>20, <1>21 DEF SchemaInv


\* What a call has not looked at is less than all once it has looked at all.
LEMMA LookedAtAll ==
    ASSUME SchemaConstants, NEW s \in Schemas, NEW next \in Nat \ {0}, next \notin DOMAIN FieldsOf[s],
           NEW i \in DOMAIN FieldsOf[s]
    PROVE  ~(next <= i)
<1>1. FieldsOf[s] \in Seq(STRING)
  BY DEF SchemaConstants
<1>2. Len(FieldsOf[s]) \in Nat /\ DOMAIN FieldsOf[s] = 1..Len(FieldsOf[s])
  BY <1>1
<1>3. QED
  BY <1>2

\* A call that has looked at all its fields leaves nothing to its callers.
LEMMA ReturnKeeps ==
    ASSUME SchemaConstants, SchemaInv, Return
    PROVE  SchemaInv'
<1> DEFINE n == Len(calls)
<1>1. /\ calls # <<>> /\ calls[n].next \notin DOMAIN FieldsOf[calls[n].schema] /\ n > 1
      /\ calls' = Front(calls)
      /\ UNCHANGED <<schema, stored, exclude, found, plan, pending, types>>
  BY DEF Return, AtEnd, Last
<1>2. /\ calls \in Seq(Walks) /\ EnteredOnce(calls) /\ Followed /\ Explored
      /\ found.select \subseteq Seq(STRING) /\ found.prefetch \subseteq Seq(STRING) /\ found.seen \subseteq Schemas
      /\ \A k \in DOMAIN calls : calls[k].schema \in found.seen
  BY <1>1 DEF SchemaInv, WalkInv
<1>3. /\ calls' \in Seq(Walks) /\ Len(calls') = n - 1 /\ n \in 1..n /\ n \in Nat \ {0}
      /\ \A k \in 1..Len(calls') : calls'[k] = calls[k] /\ k \in 1..n
  <2>1. /\ Front(calls) \in Seq(Walks) /\ Len(Front(calls)) = Len(calls) - 1
        /\ Len(calls) \in 1..Len(calls) /\ Len(calls) \in Nat \ {0}
        /\ \A k \in 1..Len(Front(calls)) : Front(calls)[k] = calls[k] /\ k \in 1..Len(calls)
    BY <1>1, <1>2, AllButLast
  <2>2. QED
    BY <1>1, <2>1
<1>4. DOMAIN calls = 1..n /\ DOMAIN calls' = 1..n - 1 /\ calls' # <<>>
  BY <1>1, <1>2, <1>3
<1>5. \A k \in DOMAIN calls' : calls'[k] = calls[k] /\ k \in DOMAIN calls
  BY <1>3, <1>4
<1>6. \A k \in DOMAIN calls : k \in DOMAIN calls' \/ k = n
  BY <1>3, <1>4
<1>7. calls[n].schema \in Schemas /\ calls[n].next \in Nat \ {0}
  <2>1. calls[n] \in Walks
    BY <1>2, <1>3, ElementOfSeq
  <2>2. QED
    BY <2>1, WalkParts
<1> HIDE DEF n
<1>8. UNCHANGED Led
  BY <1>1, SchemasFixed
<1>9. Followed'
  BY <1>1, <1>2, <1>5, <1>8 DEF Followed
<1>10. Explored'
  <2>1. ASSUME NEW t \in found.seen, NEW j \in DOMAIN FieldsOf[t], Nested(schema[t][j]),
               schema[t][j].to \notin found.seen
        PROVE  \E k \in DOMAIN calls' : calls'[k].schema = t /\ calls'[k].next <= j
    <3>1. PICK k \in DOMAIN calls : calls[k].schema = t /\ calls[k].next <= j
      BY <1>2, <2>1 DEF Explored
    <3>2. k # n
      BY <1>1, <1>7, <2>1, <3>1, LookedAtAll
    <3>3. QED
      BY <1>5, <1>6, <3>1, <3>2
  <2>2. QED
    BY <1>1, <1>2, <2>1 DEF Explored, Nested
<1>11. EnteredOnce(calls)'
  BY <1>2, <1>5 DEF EnteredOnce
<1>12. WalkInv'
  BY <1>1, <1>2, <1>3, <1>5, <1>9, <1>10, <1>11 DEF WalkInv
<1>13. Settled' /\ CompileInv'
  BY <1>1, CompileFixed DEF SchemaInv, Settled
<1>14. plan.state = "ok" => Served'
  BY <1>1, ServedFixed DEF SchemaInv
<1>15. QED
  BY <1>1, <1>12, <1>13, <1>14 DEF SchemaInv

\* When the outermost call returns, all that references reach has been visited.
LEMMA WalkIsWhole ==
    ASSUME SchemaConstants, SchemaInv, AtEnd(calls), Len(calls) = 1
    PROVE  Referenced \subseteq found.seen
<1>1. /\ calls # <<>> /\ calls \in Seq(Walks) /\ Explored /\ DOMAIN schema = Schemas
      /\ found.seen \subseteq Schemas
      /\ \A s \in Schemas : schema[s] \in [DOMAIN FieldsOf[s] -> Annotations]
  BY DEF AtEnd, SchemaInv, WalkInv, Settled
<1>2. 1 \in 1..Len(calls) /\ DOMAIN calls = {1} /\ calls[1].next \notin DOMAIN FieldsOf[calls[1].schema]
  BY <1>1 DEF AtEnd, Last
<1>3. calls[1].schema \in Schemas /\ calls[1].next \in Nat \ {0}
  <2>1. calls[1] \in Walks
    BY <1>1, <1>2, ElementOfSeq
  <2>2. QED
    BY <2>1, WalkParts
<1>4. ASSUME NEW t \in found.seen, NEW i \in DOMAIN schema[t], schema[t][i].kind \in {"object", "optional"}
      PROVE  schema[t][i].to \in found.seen
  <2>1. t \in Schemas /\ i \in DOMAIN FieldsOf[t] /\ Nested(schema[t][i])
    BY <1>1, <1>4 DEF Nested
  <2>2. SUFFICES ASSUME calls[1].schema = t /\ calls[1].next <= i PROVE FALSE
    BY <1>1, <1>2, <2>1 DEF Explored
  <2>3. QED
    BY <1>2, <1>3, <2>1, <2>2, LookedAtAll
<1>5. Root \in found.seen
  BY <1>1 DEF Explored
<1>6. QED
  BY <1>1, <1>4, <1>5, ReachedStays DEF Referenced

\* The hints that were gathered make a plan that serves the serializer.
LEMMA PlanKeeps ==
    ASSUME SchemaConstants, SchemaInv, Plan
    PROVE  SchemaInv'
<1>1. /\ AtEnd(calls) /\ Len(calls) = 1 /\ calls' = <<>>
      /\ UNCHANGED <<schema, stored, exclude, found, pending, types>>
  BY DEF Plan
<1>2. calls # <<>> /\ Followed /\ found.select \subseteq Seq(STRING) /\ stored # <<>>
  BY <1>1 DEF AtEnd, SchemaInv, WalkInv, Settled
<1>3. UNCHANGED <<Led, Referenced, RestFields>>
  BY <1>1, SchemasFixed DEF RestFields
<1>4. WalkInv'
  BY <1>1 DEF SchemaInv, WalkInv, EnteredOnce
<1>5. CASE ~RootsExist(Hints)
  <2>1. plan'.state = "error"
    BY <1>5 DEF Plan
  <2>2. Settled' /\ CompileInv'
    BY <1>1, <2>1, CompileFixed DEF SchemaInv, Settled
  <2>3. QED
    BY <1>4, <2>1, <2>2 DEF SchemaInv
<1>6. CASE RootsExist(Hints)
  <2>1. /\ plan'.state = "ok" /\ plan'.select = Hints.select /\ plan'.defer = Deferred(Hints)
    BY <1>6 DEF Plan
  <2>2. Hints.select = {p \in Deepest(found.select) : p[1] \notin exclude}
    BY DEF Hints
  <2>3. plan'.defer \cap (RestFields \cup {p[1] : p \in plan'.select}) = {}
    BY <2>1 DEF Deferred, Needed, RestFields
  <2>4. ASSUME NEW p \in plan'.select
        PROVE  /\ p \in Seq(STRING) /\ Led[p] # {} /\ p[1] \notin exclude
               /\ ~\E q \in plan'.select : IsFurther(p, q)
    <3>1. p \in found.select /\ p[1] \notin exclude /\ ~\E q \in found.select : IsFurther(p, q)
      BY <2>1, <2>2 DEF Deepest
    <3>2. plan'.select \subseteq found.select
      BY <2>1, <2>2 DEF Deepest
    <3>3. QED
      BY <1>2, <3>1, <3>2 DEF Followed
  <2>5. ASSUME exclude = {}, NEW s \in Referenced \ {Root}
        PROVE  \E p \in plan'.select : \E n \in 1..Len(p) : s \in Led[SubSeq(p, 1, n)]
    <3>1. s \in found.seen
      BY <1>1, WalkIsWhole
    <3>2. PICK p \in found.select : s \in Led[p]
      BY <1>2, <2>5, <3>1 DEF Followed
    <3>3. PICK m \in Nat : \A q \in found.select : Len(q) <= m
      BY <1>2 DEF Followed
    <3>4. PICK q \in Deepest(found.select) : Len(p) <= Len(q) /\ SubSeq(q, 1, Len(p)) = p
      BY <1>2, <3>3, SomeDeepest
    <3>5. q \in plan'.select
      BY <2>1, <2>2, <2>5, <3>4
    <3>6. Len(p) \in 1..Len(q)
      <4>1. p \in Seq(STRING) /\ q \in Seq(STRING) /\ p # <<>>
        BY <1>2, <3>4 DEF Deepest, Followed
      <4>2. Len(p) \in Nat /\ Len(p) # 0 /\ Len(q) \in Nat
        BY <4>1
      <4>3. QED
        BY <3>4, <4>2
    <3>7. QED
      BY <3>2, <3>4, <3>5, <3>6
  <2>6. Served'
    BY <1>1, <1>3, <2>3, <2>4, <2>5 DEF Served, IsFurther
  <2>7. Settled' /\ CompileInv'
    BY <1>1, <1>2, CompileFixed DEF SchemaInv, Settled
  <2>8. QED
    BY <1>4, <2>1, <2>6, <2>7 DEF SchemaInv
<1>7. QED
  BY <1>5, <1>6


----------------------------------------------------------------------------
(* The types for GraphQL.                                                  *)

\* A call of _compile_schema() that goes on to the next field.
LEMMA NextCompilation ==
    ASSUME NEW r \in Compilations, NEW x, x = [r EXCEPT !.next = r.next + 1]
    PROVE  x \in Compilations /\ x.schema = r.schema /\ x.next = r.next + 1
<1>1. x \in Compilations
  BY DEF Compilations
<1>2. QED
  BY DEF Compilations

\* A call of _compile_schema() has a schema and a field it comes to next.
LEMMA CompilationParts ==
    ASSUME NEW r \in Compilations
    PROVE  r.schema \in Schemas /\ r.next \in Nat \ {0}
BY DEF Compilations

\* The loop of its innermost call goes on.
LEMMA NextOfCompilations ==
    ASSUME NEW s \in Seq(Compilations), s # <<>>
    PROVE  /\ NextField(s) \in Seq(Compilations) /\ Len(NextField(s)) = Len(s)
           /\ Len(s) \in 1..Len(s) /\ Len(s) \in Nat
           /\ \A k \in 1..Len(s) :
                /\ NextField(s)[k].schema = s[k].schema
                /\ NextField(s)[k].next = IF k = Len(s) THEN s[k].next + 1 ELSE s[k].next
<1> DEFINE n == Len(s)
           w == [s[n] EXCEPT !.next = s[n].next + 1]
<1>1. n \in Nat /\ n \in 1..n /\ DOMAIN s = 1..n /\ \A k \in 1..n : s[k] \in Compilations
  OBVIOUS
<1>2. w \in Compilations /\ w.schema = s[n].schema /\ w.next = s[n].next + 1
  BY <1>1, NextCompilation
<1>3. NextField(s) = [s EXCEPT ![n] = w]
  BY DEF NextField
<1> HIDE DEF w
<1>4. NextField(s) \in Seq(Compilations) /\ Len(NextField(s)) = n
  BY <1>1, <1>2, <1>3
<1>5. \A k \in 1..n : NextField(s)[k] = IF k = n THEN w ELSE s[k]
  BY <1>1, <1>3
<1>6. QED
  BY <1>1, <1>2, <1>4, <1>5

\* What a compilation leaves alone stays as it was.
LEMMA CompilingFixed ==
    ASSUME SchemaInv, UNCHANGED <<schema, stored, exclude, calls, found, plan>>, CompileInv',
           DOMAIN schema = Schemas
    PROVE  SchemaInv'
<1>1. WalkInv'
  BY WalkFixed DEF SchemaInv
<1>2. Settled'
  BY DEF SchemaInv, Settled
<1>3. plan.state = "ok" => Served'
  BY ServedFixed DEF SchemaInv
<1>4. QED
  BY <1>1, <1>2, <1>3 DEF SchemaInv

\* to_strawberry_type() begins with the root and an empty cache.
LEMMA StartCompilationKeeps ==
    ASSUME SchemaConstants, SchemaInv, StartCompilation
    PROVE  SchemaInv'
<1>1. /\ types.state = "none" /\ DOMAIN schema = Schemas
      /\ pending' = <<[schema |-> Root, next |-> 1]>>
      /\ types' = [types EXCEPT !.of = [s \in {Root} |-> <<>>]]
      /\ UNCHANGED <<schema, stored, exclude, calls, found, plan>>
  BY DEF StartCompilation
<1>2. Root \in Schemas /\ Root \in Projects /\ UNCHANGED Projects
  BY <1>1, ReachedOn, SchemasFixed DEF SchemaConstants, Projects
<1>3. [schema |-> Root, next |-> 1] \in Compilations
  BY <1>2 DEF Compilations
<1>4. /\ pending' \in Seq(Compilations) /\ DOMAIN pending' = {1}
      /\ pending'[1].schema = Root /\ pending'[1].next = 1
  BY <1>1, <1>3
<1>5. types'.state = "none" /\ types'.of = [s \in {Root} |-> <<>>] /\ DOMAIN types' = {"state", "of"}
  <2>1. DOMAIN types = {"state", "of"}
    BY DEF SchemaInv, CompileInv
  <2>2. QED
    BY <1>1, <2>1
<1>6. DOMAIN types'.of = {Root}
  BY <1>5
<1>7. Cached'
  <2>1. \A i \in DOMAIN FieldsOf[Root] : 1 <= i
    BY <1>2 DEF SchemaConstants
  <2>2. QED
    BY <1>4, <1>6, <2>1 DEF Cached
<1>8. pending' # <<>>
  BY <1>1
<1>9. CompileInv'
  BY <1>2, <1>4, <1>5, <1>6, <1>7, <1>8 DEF CompileInv, EnteredOnce
<1>10. QED
  BY <1>1, <1>9, CompilingFixed

\* The call at work: its schema is in the cache, and its field is annotated.
LEMMA Compiling ==
    ASSUME SchemaConstants, SchemaInv, Looping(pending),
           NEW n, n = Len(pending), NEW s, s = pending[n].schema, NEW i, i = pending[n].next
    PROVE  /\ pending # <<>> /\ pending \in Seq(Compilations) /\ EnteredOnce(pending)
           /\ n \in 1..n /\ n \in Nat /\ DOMAIN pending = 1..n
           /\ \A k \in 1..n : /\ pending[k].schema \in Schemas /\ pending[k].next \in Nat \ {0}
                               /\ pending[k].schema \in DOMAIN types.of
           /\ types.state = "none" /\ DOMAIN types = {"state", "of"}
           /\ Cached /\ Root \in DOMAIN types.of /\ DOMAIN types.of \subseteq Projects
           /\ DOMAIN types.of \subseteq Schemas /\ Projects \subseteq Schemas
           /\ DOMAIN schema = Schemas /\ s \in Schemas /\ i \in Nat \ {0}
           /\ i \in DOMAIN FieldsOf[s] /\ i \in DOMAIN schema[s] /\ schema[s][i] \in Annotations
<1>1. pending # <<>> /\ i \in DOMAIN FieldsOf[s]
  BY DEF Looping, Last
<1>2. /\ pending \in Seq(Compilations) /\ EnteredOnce(pending) /\ Cached
      /\ types.state = "none" /\ DOMAIN types = {"state", "of"} /\ Root \in DOMAIN types.of
      /\ DOMAIN types.of \subseteq Projects /\ DOMAIN types.of \subseteq Schemas
      /\ \A k \in DOMAIN pending : pending[k].schema \in DOMAIN types.of
  BY <1>1 DEF SchemaInv, CompileInv
<1>3. n \in Nat /\ n \in 1..n /\ DOMAIN pending = 1..n
  BY <1>1, <1>2
<1>4. \A k \in 1..n : pending[k].schema \in Schemas /\ pending[k].next \in Nat \ {0}
  <2>1. \A k \in 1..n : pending[k] \in Compilations
    BY <1>2, ElementOfSeq
  <2>2. QED
    BY <2>1, CompilationParts
<1>5. DOMAIN schema = Schemas /\ schema[s] \in [DOMAIN FieldsOf[s] -> Annotations]
  BY <1>1, <1>3, <1>4 DEF SchemaInv, Settled
<1>6. Projects \subseteq Schemas
  BY ReachedOn DEF Projects
<1>7. i \in DOMAIN schema[s] /\ schema[s][i] \in Annotations
  BY <1>1, <1>5
<1>8. QED
  BY <1>1, <1>2, <1>3, <1>4, <1>5, <1>6, <1>7

\* Something unsupported ends the compilation, and the root refers to it.
LEMMA UnsupportedKeeps ==
    ASSUME SchemaConstants, SchemaInv, Looping(pending),
           schema[Last(pending).schema][Last(pending).next].kind = "other",
           pending' = <<>>, types' = [types EXCEPT !.state = "error"],
           UNCHANGED <<schema, stored, exclude, calls, found, plan>>
    PROVE  SchemaInv'
<1> DEFINE n == Len(pending)
           s == pending[n].schema
           i == pending[n].next
<1>1. /\ s \in DOMAIN types.of /\ DOMAIN types.of \subseteq Projects /\ i \in DOMAIN schema[s]
      /\ DOMAIN types = {"state", "of"} /\ DOMAIN types.of \subseteq Schemas /\ DOMAIN schema = Schemas
  BY Compiling
<1>2. schema[s][i].kind = "other"
  BY DEF Last
<1>3. Unsupported /\ UNCHANGED Unsupported
  BY <1>1, <1>2, SchemasFixed DEF Unsupported
<1>4. types'.state = "error" /\ types'.of = types.of /\ DOMAIN types' = {"state", "of"}
  BY <1>1
<1>5. CompileInv'
  BY <1>1, <1>3, <1>4 DEF CompileInv, EnteredOnce
<1>6. QED
  BY <1>1, <1>5, CompilingFixed

\* A field of a known type is passed.
LEMMA KnownKeeps ==
    ASSUME SchemaConstants, SchemaInv, Looping(pending),
           NEW a, a = schema[Last(pending).schema][Last(pending).next],
           a.kind # "other", a.to \in DOMAIN types.of \cup {NoSchema},
           pending' = NextField(pending), types' = types,
           UNCHANGED <<schema, stored, exclude, calls, found, plan>>
    PROVE  SchemaInv'
<1> DEFINE n == Len(pending)
           s == pending[n].schema
           i == pending[n].next
<1>1. /\ pending # <<>> /\ pending \in Seq(Compilations) /\ EnteredOnce(pending)
      /\ n \in 1..n /\ n \in Nat /\ DOMAIN pending = 1..n
      /\ \A k \in 1..n : /\ pending[k].schema \in Schemas /\ pending[k].next \in Nat \ {0}
                          /\ pending[k].schema \in DOMAIN types.of
      /\ types.state = "none" /\ DOMAIN types = {"state", "of"}
      /\ Cached /\ Root \in DOMAIN types.of /\ DOMAIN types.of \subseteq Projects
      /\ DOMAIN types.of \subseteq Schemas /\ DOMAIN schema = Schemas /\ i \in Nat \ {0}
  BY Compiling
<1>2. a = schema[s][i]
  BY DEF Last
<1>3. /\ pending' \in Seq(Compilations) /\ Len(pending') = n
      /\ \A k \in 1..n : /\ pending'[k].schema = pending[k].schema
                          /\ pending'[k].next = IF k = n THEN i + 1 ELSE pending[k].next
  BY <1>1, NextOfCompilations
<1>4. DOMAIN pending' = 1..n /\ pending' # <<>>
  <2>1. DOMAIN pending' = 1..n
    BY <1>3
  <2>2. QED
    BY <1>1, <2>1
<1> HIDE DEF n
<1>5. Cached'
  <2>1. ASSUME NEW t \in DOMAIN types.of, NEW j \in DOMAIN FieldsOf[t]
        PROVE  \/ schema[t][j].kind # "other" /\ schema[t][j].to \in DOMAIN types.of \cup {NoSchema}
               \/ \E k \in 1..n : pending'[k].schema = t /\ pending'[k].next <= j
    <3>1. CASE \E k \in 1..n : pending[k].schema = t /\ pending[k].next <= j
      <4>1. PICK k \in 1..n : pending[k].schema = t /\ pending[k].next <= j
        BY <3>1
      <4>2. j \in Nat
        BY <1>1, <2>1 DEF SchemaConstants
      <4>3. CASE k = n /\ i = j
        BY <1>2, <4>1, <4>3
      <4>4. CASE k # n \/ i < j
        <5>1. pending'[k].schema = t /\ pending'[k].next <= j
          BY <1>1, <1>3, <4>1, <4>2, <4>4
        <5>2. QED
          BY <5>1
      <4>5. QED
        BY <1>1, <4>1, <4>2, <4>3, <4>4
    <3>2. QED
      BY <1>1, <2>1, <3>1 DEF Cached
  <2>2. ASSUME NEW t \in DOMAIN types.of
        PROVE  \/ \E k \in 1..n : pending'[k].schema = t
               \/ types.of[t] = WholeTypes[t]
    <3>1. (\E k \in DOMAIN pending : pending[k].schema = t) \/ types.of[t] = WholeTypes[t]
      BY <1>1 DEF Cached
    <3>2. QED
      BY <1>1, <1>3, <3>1
  <2>3. UNCHANGED WholeTypes
    BY SchemasFixed
  <2>4. QED
    BY <1>4, <2>1, <2>2, <2>3 DEF Cached
<1>6. EnteredOnce(pending)'
  <2>1. \A j, k \in 1..n : pending[j].schema = pending[k].schema => j = k
    BY <1>1 DEF EnteredOnce
  <2>2. \A j, k \in 1..n : pending'[j].schema = pending'[k].schema => j = k
    BY <1>3, <2>1
  <2>3. QED
    BY <1>4, <2>2 DEF EnteredOnce
<1>7. UNCHANGED Projects
  BY SchemasFixed
<1>8. CompileInv'
  BY <1>1, <1>3, <1>4, <1>5, <1>6, <1>7 DEF CompileInv
<1>9. QED
  BY <1>1, <1>8, CompilingFixed


\* A schema that is not in the cache gets its placeholder, and a call.
Enters(t) ==
    /\ pending' = Append(NextField(pending), [schema |-> t, next |-> 1])
    /\ types' = [types EXCEPT !.of = Store(types.of, t, <<>>)]

LEMMA EnterKeeps ==
    ASSUME SchemaConstants, SchemaInv, Looping(pending),
           NEW a, a = schema[Last(pending).schema][Last(pending).next],
           a.kind # "other", a.to \notin DOMAIN types.of \cup {NoSchema},
           Enters(a.to), UNCHANGED <<schema, stored, exclude, calls, found, plan>>
    PROVE  SchemaInv'
<1> DEFINE n == Len(pending)
           s == pending[n].schema
           i == pending[n].next
           on == NextField(pending)
           deeper == [schema |-> a.to, next |-> 1]
<1>1. /\ pending # <<>> /\ pending \in Seq(Compilations) /\ EnteredOnce(pending)
      /\ n \in 1..n /\ n \in Nat /\ DOMAIN pending = 1..n
      /\ \A k \in 1..n : /\ pending[k].schema \in Schemas /\ pending[k].next \in Nat \ {0}
                          /\ pending[k].schema \in DOMAIN types.of
      /\ types.state = "none" /\ DOMAIN types = {"state", "of"}
      /\ Cached /\ Root \in DOMAIN types.of /\ DOMAIN types.of \subseteq Projects
      /\ DOMAIN types.of \subseteq Schemas /\ Projects \subseteq Schemas
      /\ DOMAIN schema = Schemas /\ s \in Schemas /\ i \in Nat \ {0}
      /\ i \in DOMAIN FieldsOf[s] /\ i \in DOMAIN schema[s] /\ schema[s][i] \in Annotations
  BY Compiling
<1>2. a = schema[s][i]
  BY DEF Last
<1>3. a.kind \in {"object", "optional", "list", "tuple"} /\ a.to \in Schemas
  BY <1>1, <1>2, Annotated
<1>4. a.to \in Projects
  <2>1. s \in Projects
    BY <1>1
  <2>2. QED
    BY <1>1, <1>2, <1>3, <2>1, ReachedOn DEF Projects
<1>5. /\ on \in Seq(Compilations) /\ Len(on) = n
      /\ \A k \in 1..n : /\ on[k].schema = pending[k].schema
                          /\ on[k].next = IF k = n THEN i + 1 ELSE pending[k].next
  BY <1>1, NextOfCompilations
<1>6. deeper \in Compilations /\ deeper.schema = a.to /\ deeper.next = 1
  BY <1>3 DEF Compilations
<1> HIDE DEF on, deeper
<1>7. /\ pending' \in Seq(Compilations) /\ Len(pending') = Len(on) + 1 /\ pending'[Len(on) + 1] = deeper
      /\ \A k \in 1..Len(on) : pending'[k] = on[k] /\ k \in 1..Len(on) + 1
  <2>1. pending' = Append(on, deeper)
    BY DEF Enters, on, deeper
  <2>2. on \in Seq(Compilations) /\ deeper \in Compilations
    BY <1>5, <1>6
  <2>3. /\ Append(on, deeper) \in Seq(Compilations) /\ Len(Append(on, deeper)) = Len(on) + 1 /\ Len(on) \in Nat
        /\ Append(on, deeper)[Len(on) + 1] = deeper
        /\ \A k \in 1..Len(on) : Append(on, deeper)[k] = on[k] /\ k \in 1..Len(on) + 1
    BY <2>2, Appended
  <2>4. QED
    BY <2>1, <2>3
<1>8. /\ DOMAIN pending' = 1..n + 1 /\ n + 1 \in 1..n + 1
      /\ \A k \in 1..n + 1 : k \in 1..n \/ k = n + 1
      /\ \A k \in 1..n : k \in 1..n + 1
  <2>1. DOMAIN pending' = 1..n + 1
    BY <1>5, <1>7
  <2>2. QED
    BY <1>1, <2>1
<1>9. /\ \A k \in 1..n : /\ pending'[k].schema = pending[k].schema
                         /\ pending'[k].next = IF k = n THEN i + 1 ELSE pending[k].next
      /\ pending'[n + 1].schema = a.to /\ pending'[n + 1].next = 1
  <2>1. pending'[n + 1] = deeper /\ \A k \in 1..n : pending'[k] = on[k]
    BY <1>5, <1>7
  <2>2. pending'[n + 1].schema = a.to /\ pending'[n + 1].next = 1
    BY <1>6, <2>1
  <2>3. \A k \in 1..n : /\ pending'[k].schema = pending[k].schema
                         /\ pending'[k].next = IF k = n THEN i + 1 ELSE pending[k].next
    BY <1>5, <2>1
  <2>4. QED
    BY <2>2, <2>3
<1>10. pending' # <<>>
  BY <1>8
<1>11. types'.state = "none" /\ types'.of = Store(types.of, a.to, <<>>) /\ DOMAIN types' = {"state", "of"}
  BY <1>1 DEF Enters
<1>12. /\ DOMAIN types'.of = DOMAIN types.of \cup {a.to}
       /\ \A t \in DOMAIN types.of : types'.of[t] = types.of[t]
  BY <1>11 DEF Store
<1> HIDE DEF n
<1>13. Cached'
  <2>1. ASSUME NEW t \in DOMAIN types'.of, NEW j \in DOMAIN FieldsOf[t]
        PROVE  \/ schema[t][j].kind # "other" /\ schema[t][j].to \in DOMAIN types'.of \cup {NoSchema}
               \/ \E k \in DOMAIN pending' : pending'[k].schema = t /\ pending'[k].next <= j
    <3>1. t \in Schemas /\ j \in Nat /\ 1 <= j
      <4>1. t \in Schemas
        BY <1>1, <1>3, <1>12
      <4>2. QED
        BY <4>1 DEF SchemaConstants
    <3>2. CASE t \in DOMAIN types.of /\ \E k \in 1..n : pending[k].schema = t /\ pending[k].next <= j
      <4>1. PICK k \in 1..n : pending[k].schema = t /\ pending[k].next <= j
        BY <3>2
      <4>2. CASE k = n /\ i = j
        BY <1>2, <1>12, <4>1, <4>2
      <4>3. CASE k # n \/ i < j
        <5>1. pending'[k].schema = t /\ pending'[k].next <= j
          <6>1. pending'[k].schema = t
            BY <1>9, <4>1
          <6>2. CASE k # n
            BY <1>9, <4>1, <6>1, <6>2
          <6>3. CASE k = n /\ i < j
            <7>1. pending'[k].next = i + 1
              BY <1>9, <6>3
            <7>2. i + 1 <= j
              BY <1>1, <3>1, <6>3
            <7>3. QED
              BY <6>1, <7>1, <7>2
          <6>4. QED
            BY <4>3, <6>2, <6>3
        <5>2. QED
          BY <1>8, <5>1
      <4>4. k = n => i <= j
        BY <4>1
      <4>5. i \in Nat
        BY <1>1
      <4>6. (k = n /\ i = j) \/ k # n \/ i < j
        BY <3>1, <4>4, <4>5
      <4>7. QED
        BY <4>2, <4>3, <4>6
    <3>3. CASE t = a.to
      BY <1>8, <1>9, <3>1, <3>3
    <3>4. CASE t \in DOMAIN types.of /\ schema[t][j].kind # "other"
                 /\ schema[t][j].to \in DOMAIN types.of \cup {NoSchema}
      BY <1>12, <3>4
    <3>5. t \in DOMAIN types.of \/ t = a.to
      BY <1>12
    <3>6. QED
      BY <1>1, <3>2, <3>3, <3>4, <3>5 DEF Cached
  <2>2. ASSUME NEW t \in DOMAIN types'.of
        PROVE  (\E k \in DOMAIN pending' : pending'[k].schema = t) \/ types'.of[t] = WholeTypes[t]
    <3>1. CASE t = a.to
      BY <1>8, <1>9, <3>1
    <3>2. CASE t \in DOMAIN types.of
      <4>1. (\E k \in DOMAIN pending : pending[k].schema = t) \/ types.of[t] = WholeTypes[t]
        BY <1>1, <3>2 DEF Cached
      <4>2. QED
        BY <1>1, <1>8, <1>9, <1>12, <3>2, <4>1
    <3>3. QED
      BY <1>12, <3>1, <3>2
  <2>3. UNCHANGED WholeTypes
    BY SchemasFixed
  <2>4. UNCHANGED schema
    OBVIOUS
  <2>5. ASSUME NEW t \in DOMAIN types'.of, NEW j \in DOMAIN FieldsOf[t]
        PROVE  \/ schema'[t][j].kind # "other" /\ schema'[t][j].to \in DOMAIN types'.of \cup {NoSchema}
               \/ \E k \in DOMAIN pending' : pending'[k].schema = t /\ pending'[k].next <= j
    BY <2>1, <2>4
  <2>6. ASSUME NEW t \in DOMAIN types'.of
        PROVE  (\E k \in DOMAIN pending' : pending'[k].schema = t) \/ types'.of[t] = WholeTypes'[t]
    BY <2>2, <2>3
  <2>7. QED
    BY <2>5, <2>6 DEF Cached
<1>14. EnteredOnce(pending)'
  <2>1. \A k \in 1..n : pending[k].schema # a.to
    BY <1>1
  <2>2. \A j, k \in 1..n : pending[j].schema = pending[k].schema => j = k
    BY <1>1 DEF EnteredOnce
  <2>3. QED
    BY <1>8, <1>9, <2>1, <2>2 DEF EnteredOnce
<1>15. UNCHANGED Projects
  BY SchemasFixed
<1>16. \A k \in DOMAIN pending' : pending'[k].schema \in DOMAIN types'.of
  BY <1>1, <1>8, <1>9, <1>12
<1>17. CompileInv'
  <2>1. /\ DOMAIN types'.of \subseteq Schemas /\ DOMAIN types'.of \subseteq Projects
        /\ Root \in DOMAIN types'.of
    BY <1>1, <1>3, <1>4, <1>12
  <2>2. QED
    BY <1>7, <1>10, <1>11, <1>13, <1>14, <1>15, <1>16, <2>1 DEF CompileInv
<1>18. QED
  BY <1>1, <1>17, CompilingFixed

\* A field is refused, passed or makes a further call.
LEMMA CompileFieldKeeps ==
    ASSUME SchemaConstants, SchemaInv, CompileField
    PROVE  SchemaInv'
<1>1. Looping(pending) /\ UNCHANGED <<schema, stored, exclude, calls, found, plan>>
  BY DEF CompileField
<1> DEFINE a == schema[Last(pending).schema][Last(pending).next]
<1>2. CASE a.kind = "other" /\ pending' = <<>> /\ types' = [types EXCEPT !.state = "error"]
  BY <1>1, <1>2, UnsupportedKeeps
<1>3. CASE /\ a.kind # "other" /\ a.to \in DOMAIN types.of \cup {NoSchema}
           /\ pending' = NextField(pending) /\ types' = types
  BY <1>1, <1>3, KnownKeeps
<1>4. CASE /\ a.kind # "other" /\ a.to \notin DOMAIN types.of \cup {NoSchema}
           /\ pending' = Append(NextField(pending), [schema |-> a.to, next |-> 1])
           /\ types' = [types EXCEPT !.of = Store(types.of, a.to, <<>>)]
  <2>1. Enters(a.to)
    BY <1>4 DEF Enters
  <2>2. QED
    BY <1>1, <1>4, <2>1, EnterKeeps
<1>5. QED
  BY <1>2, <1>3, <1>4 DEF CompileField

\* A schema whose fields all have types gets its own.
LEMMA CompiledKeeps ==
    ASSUME SchemaConstants, SchemaInv, Compiled
    PROVE  SchemaInv'
<1> DEFINE n == Len(pending)
           s == pending[n].schema
           whole == [i \in DOMAIN FieldsOf[s] |-> Projected(schema[s][i])]
<1>1. /\ pending # <<>> /\ pending[n].next \notin DOMAIN FieldsOf[s]
      /\ pending' = Front(pending)
      /\ types'.state = (IF n = 1 THEN "ok" ELSE types.state) /\ types'.of = Store(types.of, s, whole)
      /\ DOMAIN types' = {"state", "of"}
      /\ UNCHANGED <<schema, stored, exclude, calls, found, plan>>
  BY DEF Compiled, AtEnd, Last
<1>2. /\ pending \in Seq(Compilations) /\ EnteredOnce(pending) /\ Cached /\ types.state = "none"
      /\ Root \in DOMAIN types.of /\ DOMAIN types.of \subseteq Projects /\ DOMAIN types.of \subseteq Schemas
      /\ \A k \in DOMAIN pending : pending[k].schema \in DOMAIN types.of
      /\ DOMAIN schema = Schemas
  BY <1>1 DEF SchemaInv, CompileInv, Settled
<1>3. /\ pending' \in Seq(Compilations) /\ Len(pending') = n - 1 /\ n \in 1..n /\ n \in Nat \ {0}
      /\ \A k \in 1..Len(pending') : pending'[k] = pending[k] /\ k \in 1..n
  <2>1. /\ Front(pending) \in Seq(Compilations) /\ Len(Front(pending)) = Len(pending) - 1
        /\ Len(pending) \in 1..Len(pending) /\ Len(pending) \in Nat \ {0}
        /\ \A k \in 1..Len(Front(pending)) : Front(pending)[k] = pending[k] /\ k \in 1..Len(pending)
    BY <1>1, <1>2, AllButLast
  <2>2. QED
    BY <1>1, <2>1
<1>4. DOMAIN pending = 1..n /\ DOMAIN pending' = 1..n - 1 /\ (pending' = <<>> <=> n = 1)
  BY <1>2, <1>3
<1>5. \A k \in DOMAIN pending' : pending'[k] = pending[k] /\ k \in DOMAIN pending
  BY <1>3, <1>4
<1>6. \A k \in DOMAIN pending : k \in DOMAIN pending' \/ k = n
  BY <1>3, <1>4
<1>7. s \in Schemas /\ pending[n].next \in Nat \ {0} /\ s \in DOMAIN types.of /\ n \in DOMAIN pending
  <2>1. pending[n] \in Compilations
    BY <1>2, <1>3, ElementOfSeq
  <2>2. QED
    BY <1>2, <1>3, <1>4, <2>1, CompilationParts
<1>8. whole = WholeTypes[s]
  BY <1>7 DEF WholeTypes
<1> HIDE DEF n, whole
<1>9. /\ DOMAIN types'.of = DOMAIN types.of
      /\ \A t \in DOMAIN types.of : types'.of[t] = IF t = s THEN WholeTypes[s] ELSE types.of[t]
  BY <1>1, <1>7, <1>8 DEF Store
<1>10. UNCHANGED <<Projects, WholeTypes>>
  BY <1>1, SchemasFixed
<1>11. Cached'
  <2>1. ASSUME NEW t \in DOMAIN types.of, NEW j \in DOMAIN FieldsOf[t]
        PROVE  \/ schema[t][j].kind # "other" /\ schema[t][j].to \in DOMAIN types.of \cup {NoSchema}
               \/ \E k \in DOMAIN pending' : pending'[k].schema = t /\ pending'[k].next <= j
    <3>1. CASE \E k \in DOMAIN pending : pending[k].schema = t /\ pending[k].next <= j
      <4>1. PICK k \in DOMAIN pending : pending[k].schema = t /\ pending[k].next <= j
        BY <3>1
      <4>2. k # n
        BY <1>1, <1>7, <2>1, <4>1, LookedAtAll
      <4>3. QED
        BY <1>5, <1>6, <4>1, <4>2
    <3>2. QED
      BY <1>2, <2>1, <3>1 DEF Cached
  <2>2. ASSUME NEW t \in DOMAIN types.of
        PROVE  (\E k \in DOMAIN pending' : pending'[k].schema = t) \/ types'.of[t] = WholeTypes[t]
    <3>1. CASE t = s
      BY <1>9, <3>1
    <3>2. CASE t # s
      <4>1. (\E k \in DOMAIN pending : pending[k].schema = t) \/ types.of[t] = WholeTypes[t]
        BY <1>2 DEF Cached
      <4>2. \A k \in DOMAIN pending : pending[k].schema = t => k \in DOMAIN pending' /\ pending'[k] = pending[k]
        BY <1>5, <1>6, <3>2
      <4>3. QED
        BY <1>9, <3>2, <4>1, <4>2
    <3>3. QED
      BY <3>1, <3>2
  <2>3. QED
    BY <1>1, <1>9, <1>10, <2>1, <2>2 DEF Cached
<1>12. EnteredOnce(pending)'
  BY <1>2, <1>5 DEF EnteredOnce
<1>13. \A k \in DOMAIN pending' : pending'[k].schema \in DOMAIN types'.of
  BY <1>2, <1>5, <1>9
<1>14. CompileInv'
  BY <1>1, <1>2, <1>3, <1>4, <1>9, <1>10, <1>11, <1>12, <1>13 DEF CompileInv
<1>15. QED
  BY <1>1, <1>2, <1>14, CompilingFixed

----------------------------------------------------------------------------
(* Schema plans: the theorems.                                             *)

\* Every step keeps the invariant.
LEMMA SchemaStep ==
    ASSUME SchemaConstants, SchemaInv, [SchemaNext]_schemaVars
    PROVE  SchemaInv'
<1>1. CASE UNCHANGED schemaVars
  <2>1. UNCHANGED <<schema, stored, exclude, calls, found, plan, pending, types>>
    BY <1>1 DEF schemaVars
  <2>2. WalkInv' /\ CompileInv'
    BY <2>1, WalkFixed, CompileFixed DEF SchemaInv
  <2>3. plan.state = "ok" => Served'
    BY <2>1, ServedFixed DEF SchemaInv
  <2>4. QED
    BY <2>1, <2>2, <2>3 DEF SchemaInv, Settled
<1>2. ASSUME NEW s \in Schemas,
             NEW annotations \in [DOMAIN FieldsOf[s] -> {a \in Annotations : a.kind \in KindsOf[s]}],
             DeclareSchema(s, annotations)
      PROVE  SchemaInv'
  BY <1>2, DeclareSchemaKeeps
<1>3. ASSUME NEW cols, NEW excluded, DeclareModel(cols, excluded) PROVE SchemaInv'
  BY <1>3, DeclareModelKeeps
<1>4. QED
  BY <1>1, <1>2, <1>3, StartPlanKeeps, LookAtFieldKeeps, ReturnKeeps, PlanKeeps,
     StartCompilationKeeps, CompileFieldKeeps, CompiledKeeps DEF SchemaNext

\* The invariant says of build_query_plan() what the property does.
LEMMA PlanServes ==
    ASSUME SchemaInv
    PROVE  PlanServesSerializer
<1>1. EnteredOnce(calls)
  BY DEF SchemaInv, WalkInv
<1>2. SUFFICES ASSUME plan.state = "ok"
               PROVE  /\ plan.defer \cap (RestFields \cup {p[1] : p \in plan.select}) = {}
                      /\ \A p \in plan.select :
                           /\ \E s \in Schemas : LeadsTo(p, s)
                           /\ p[1] \notin exclude
                           /\ ~\E q \in plan.select : IsFurther(p, q)
                      /\ exclude = {} =>
                           \A s \in Reachable({"object", "optional"}) \ {Root} :
                              \E p \in plan.select : \E n \in 1..Len(p) : LeadsTo(SubSeq(p, 1, n), s)
  BY <1>1 DEF PlanServesSerializer
<1>3. Served
  BY <1>2 DEF SchemaInv
<1>4. \A p \in Seq(STRING) : Led[p] = {s \in Schemas : LeadsTo(p, s)}
  BY DEF Led
<1>5. \A p \in plan.select : \E s \in Schemas : LeadsTo(p, s)
  BY <1>3, <1>4 DEF Served
<1>6. ASSUME exclude = {}, NEW s \in Reachable({"object", "optional"}) \ {Root}
      PROVE  \E p \in plan.select : \E n \in 1..Len(p) : LeadsTo(SubSeq(p, 1, n), s)
  <2>1. PICK p \in plan.select : \E n \in 1..Len(p) : s \in Led[SubSeq(p, 1, n)]
    BY <1>3, <1>6 DEF Served, Referenced
  <2>2. PICK n \in 1..Len(p) : s \in Led[SubSeq(p, 1, n)]
    BY <2>1
  <2>3. p \in Seq(STRING)
    BY <1>3 DEF Served
  <2>4. SubSeq(p, 1, n) \in Seq(STRING)
    BY <2>2, <2>3
  <2>5. LeadsTo(SubSeq(p, 1, n), s)
    BY <1>4, <2>2, <2>4
  <2>6. QED
    BY <2>2, <2>5
<1>7. QED
  BY <1>3, <1>5, <1>6 DEF Served

\* Once the compilation is over, what is cached is what references reach.
LEMMA ProjectionsMirror ==
    ASSUME SchemaConstants, SchemaInv
    PROVE  ProjectionsMirrorSchema
<1> DEFINE all == Reachable({"object", "optional", "list", "tuple"})
<1>1. EnteredOnce(pending) /\ (types.state = "error" => Unsupported)
  BY DEF SchemaInv, CompileInv
<1>2. ASSUME types.state = "ok"
      PROVE  /\ ~Unsupported
             /\ DOMAIN types.of = Projects
             /\ RestFields \cup AdminFields \subseteq {FieldsOf[Root][i] : i \in DOMAIN types.of[Root]}
             /\ \A s \in Projects : \A i \in DOMAIN FieldsOf[s] :
                  /\ types.of[s][i].to = schema[s][i].to
                  /\ (types.of[s][i].kind = "nullable") <=> (schema[s][i].kind = "optional")
                  /\ (types.of[s][i].kind = "list") <=> (schema[s][i].kind \in {"list", "tuple"})
  <2>1. /\ pending = <<>> /\ Cached /\ Root \in DOMAIN types.of
        /\ DOMAIN types.of \subseteq Projects /\ DOMAIN types.of \subseteq Schemas
        /\ DOMAIN schema = Schemas
        /\ \A s \in Schemas : schema[s] \in [DOMAIN FieldsOf[s] -> Annotations]
    BY <1>2 DEF SchemaInv, CompileInv, Settled
  <2>2. \A s \in DOMAIN types.of :
          /\ types.of[s] = [i \in DOMAIN FieldsOf[s] |-> Projected(schema[s][i])]
          /\ \A i \in DOMAIN FieldsOf[s] :
               schema[s][i].kind # "other" /\ schema[s][i].to \in DOMAIN types.of \cup {NoSchema}
    <3>1. DOMAIN pending = {}
      BY <2>1
    <3>2. \A s \in DOMAIN types.of : types.of[s] = WholeTypes[s]
      BY <2>1, <3>1 DEF Cached
    <3>3. \A s \in Schemas : WholeTypes[s] = [i \in DOMAIN FieldsOf[s] |-> Projected(schema[s][i])]
      BY DEF WholeTypes
    <3>4. QED
      BY <2>1, <3>1, <3>2, <3>3 DEF Cached
  <2>3. DOMAIN types.of = Projects
    <3>1. ASSUME NEW t \in DOMAIN types.of, NEW i \in DOMAIN schema[t],
                 schema[t][i].kind \in {"object", "optional", "list", "tuple"}
          PROVE  schema[t][i].to \in DOMAIN types.of
      <4>1. t \in Schemas /\ i \in DOMAIN FieldsOf[t] /\ schema[t][i] \in Annotations
        BY <2>1, <3>1
      <4>2. schema[t][i].to \in Schemas
        BY <3>1, <4>1, Annotated
      <4>3. QED
        BY <2>2, <4>1, <4>2 DEF SchemaConstants
    <3>2. Projects \subseteq DOMAIN types.of
      <4> DEFINE near == DOMAIN types.of
                 kinds == {"object", "optional", "list", "tuple"}
      <4>1. /\ near \subseteq Schemas /\ Root \in near
            /\ \A t \in near : \A i \in DOMAIN schema[t] : schema[t][i].kind \in kinds => schema[t][i].to \in near
        BY <2>1, <3>1
      <4> HIDE DEF near, kinds
      <4>2. Reachable(kinds) \subseteq near
        BY <4>1, ReachedStays
      <4>3. QED
        BY <4>2 DEF Projects, near, kinds
    <3>3. QED
      BY <2>1, <3>2
  <2>4. ~Unsupported
    <3>1. \A s \in Projects : DOMAIN schema[s] = DOMAIN FieldsOf[s]
      BY <2>1, <2>3
    <3>2. QED
      BY <2>2, <2>3, <3>1 DEF Unsupported
  <2>5. RestFields \cup AdminFields \subseteq {FieldsOf[Root][i] : i \in DOMAIN types.of[Root]}
    <3>1. DOMAIN types.of[Root] = DOMAIN FieldsOf[Root]
      BY <2>1, <2>2
    <3>2. Names(Root) = {FieldsOf[Root][i] : i \in DOMAIN FieldsOf[Root]}
      BY DEF Names, Range
    <3>3. RestFields \subseteq Names(Root) /\ AdminFields \subseteq Names(Root)
      BY DEF RestFields, AdminFields
    <3>4. QED
      BY <3>1, <3>2, <3>3
  <2>6. ASSUME NEW s \in Projects, NEW i \in DOMAIN FieldsOf[s]
        PROVE  /\ types.of[s][i].to = schema[s][i].to
               /\ (types.of[s][i].kind = "nullable") <=> (schema[s][i].kind = "optional")
               /\ (types.of[s][i].kind = "list") <=> (schema[s][i].kind \in {"list", "tuple"})
    <3> DEFINE a == schema[s][i]
    <3>1. s \in Schemas /\ s \in DOMAIN types.of /\ a \in Annotations /\ a.kind # "other"
      BY <2>1, <2>2, <2>3, <2>6
    <3>2. types.of[s][i] = Projected(a)
      BY <2>2, <2>6, <3>1
    <3>3. /\ a.kind \in {"scalar", "object", "optional", "list", "tuple"}
          /\ a.kind = "scalar" => a.to = NoSchema
      BY <3>1, Annotated
    <3> HIDE DEF a
    <3>4. /\ Projected(a).to = a.to
          /\ (Projected(a).kind = "nullable") <=> (a.kind = "optional")
          /\ (Projected(a).kind = "list") <=> (a.kind \in {"list", "tuple"})
      BY <3>3 DEF Projected, Type
    <3>5. QED
      BY <3>2, <3>4 DEF a
  <2>7. QED
    BY <2>3, <2>4, <2>5, <2>6
<1>3. QED
  BY <1>1, <1>2 DEF ProjectionsMirrorSchema, Unsupported, Projects

\* The invariant includes the types of what the walks keep.
LEMMA SchemasTyped ==
    ASSUME SchemaInv
    PROVE  SchemaTypeOK
BY DEF SchemaInv, Settled, WalkInv, CompileInv, SchemaTypeOK, Walks, Compilations

\* find_deep_relations() and build_query_plan() (src/src/nova/query), for any schemas, however
\* they refer to each other, any model and exclusions: the plan joins what the schema reads
\* along its references, cycles and shared schemas included, defers nothing that is read or
\* joined, and no schema is entered from within itself, so that the walk ends.
THEOREM SchemasPlanned == SchemaInit /\ [][SchemaNext]_schemaVars => []PlanServesSerializer
<1>1. SchemaInit => SchemaInv
  BY SchemaInitially
<1>2. SchemaInv /\ [SchemaNext]_schemaVars => SchemaInv'
  BY SchemaStep, SchemaConstants
<1>3. SchemaInv => PlanServesSerializer
  BY PlanServes
<1>4. QED
  BY <1>1, <1>2, <1>3, PTL

\* to_strawberry_type() (src/src/nova/ecosystem/graphql.py) and the projections for REST and the
\* admin, for any schemas: the compilation refuses exactly what refers to something unsupported
\* and else gives every reachable schema, once, a type with its fields, nullability and lists.
THEOREM SchemasProjected == SchemaInit /\ [][SchemaNext]_schemaVars => []ProjectionsMirrorSchema
<1>1. SchemaInit => SchemaInv
  BY SchemaInitially
<1>2. SchemaInv /\ [SchemaNext]_schemaVars => SchemaInv'
  BY SchemaStep, SchemaConstants
<1>3. SchemaInv => ProjectionsMirrorSchema
  BY ProjectionsMirror, SchemaConstants
<1>4. QED
  BY <1>1, <1>2, <1>3, PTL
=============================================================================
