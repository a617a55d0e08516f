--------------------------- MODULE LocalCacheProofs ---------------------------
(***************************************************************************)
(* The cache over the memory backend, for any number of threads, models    *)
(* and querysets: it holds nothing stale, finds what it holds through its  *)
(* index, and makes room at the expense of the least recently used result. *)
(*                                                                         *)
(* The entries are a sequence.  What is left of it when some are deleted   *)
(* is described once, by an order-preserving map into the old sequence     *)
(* (`Selects'); this is the only induction, and it is over the length.     *)
(***************************************************************************)
EXTENDS LocalCache, FiniteSetTheorems, WellFoundedInduction, TLAPS

----------------------------------------------------------------------------
(* Induction over natural numbers, for a set of them.                      *)

\* A nonempty set of natural numbers has a least one.
LEMMA LeastNumber ==
    ASSUME NEW T, T \subseteq Nat, T # {}
    PROVE  \E n \in T : \A k \in T : n <= k
<1>1. PICK R : IsWellFoundedOn(R, Nat) /\ \A x, y \in Nat : <<y, x>> \in R <=> y < x
  <2> DEFINE Below == {p \in Nat \X Nat : p[1] < p[2]}
  <2>1. IsWellFoundedOn(Below, Nat)
    BY NatLessThanWellFounded DEF OpToRel
  <2>2. \A x, y \in Nat : <<y, x>> \in Below <=> y < x
    OBVIOUS
  <2> HIDE DEF Below
  <2>3. QED
    BY <2>1, <2>2
<1>2. PICK x \in T : \A y \in T : ~ (<<y, x>> \in R)
  BY <1>1, WFMin
<1>3. ASSUME NEW y \in T PROVE x <= y
  <2>1. x \in Nat /\ y \in Nat
    OBVIOUS
  <2>2. ~(y < x)
    BY <1>1, <1>2, <2>1
  <2>3. QED
    BY <2>1, <2>2
<1>4. QED
  BY <1>3

\* A set that holds 0 and with each number the next one holds all of them.
LEMMA AllNumbers ==
    ASSUME NEW S, 0 \in S, \A n \in Nat : n \in S => n + 1 \in S
    PROVE  Nat \subseteq S
<1> DEFINE T == Nat \ S
<1>1. SUFFICES ASSUME T # {} PROVE FALSE
  OBVIOUS
<1>2. T \subseteq Nat
  OBVIOUS
<1>3. PICK n \in T : \A k \in T : n <= k
  <2> HIDE DEF T
  <2> QED
    BY <1>1, <1>2, LeastNumber
<1>4. n \in Nat /\ n # 0 /\ n - 1 \in Nat /\ n - 1 \notin T
  BY <1>3
<1>5. QED
  BY <1>3, <1>4

----------------------------------------------------------------------------
(* Deleting entries.                                                       *)

\* The definition of Keeping is sound: there is a function that satisfies it.
LEMMA KeepingDefined ==
    ASSUME NEW d, Len(d) \in Nat, NEW keys
    PROVE  Keeping(d, keys) =
             [i \in 0..Len(d) |->
                IF i = 0 THEN <<>>
                ELSE IF d[i].key \in keys THEN Keeping(d, keys)[i - 1]
                ELSE Append(Keeping(d, keys)[i - 1], d[i])]
<1> DEFINE After(v, i) == IF d[i].key \in keys THEN v ELSE Append(v, d[i])
           Recurs(f, n) == f = [i \in 0..n |-> IF i = 0 THEN <<>> ELSE After(f[i - 1], i)]
           S == {n \in Nat : \E f : Recurs(f, n)}
<1> HIDE DEF After
<1>1. 0 \in S
  <2>1. Recurs([i \in 0..0 |-> <<>>], 0)
    OBVIOUS
  <2>2. QED
    BY <2>1
<1>2. ASSUME NEW n \in Nat, n \in S
      PROVE  n + 1 \in S
  <2>1. PICK f : Recurs(f, n)
    BY <1>2
  <2> DEFINE g == [i \in 0..(n + 1) |-> IF i = n + 1 THEN After(f[n], n + 1) ELSE f[i]]
  <2>2. ASSUME NEW i \in 0..(n + 1)
        PROVE  g[i] = IF i = 0 THEN <<>> ELSE After(g[i - 1], i)
    <3>1. CASE i = n + 1
      <4>1. g[i] = After(f[n], n + 1) /\ g[i - 1] = f[n]
        BY <3>1
      <4>2. QED
        BY <3>1, <4>1
    <3>2. CASE i = 0
      BY <2>1, <3>2
    <3>3. CASE i \in 1..n
      <4>1. g[i] = f[i] /\ g[i - 1] = f[i - 1]
        BY <3>3
      <4>2. f[i] = After(f[i - 1], i)
        BY <2>1, <3>3
      <4>3. QED
        BY <3>3, <4>1, <4>2
    <3>4. QED
      BY <3>1, <3>2, <3>3
  <2>3. Recurs(g, n + 1)
    BY <2>2
  <2> HIDE DEF Recurs
  <2>4. \E h : Recurs(h, n + 1)
    BY <2>3
  <2>5. QED
    BY <2>4
<1>3. Len(d) \in S
  <2> HIDE DEF S
  <2> QED
    BY <1>1, <1>2, AllNumbers
<1>4. PICK f : Recurs(f, Len(d))
  BY <1>3
<1>5. QED
  BY <1>4 DEF Keeping, After

\* w is what is left of the first n entries of d: g leads from the places in w
\* to the places in d, in the same order.
Leads(g, w, d, n, keys) ==
    /\ g \in [1..Len(w) -> 1..n]
    /\ \A i, j \in 1..Len(w) : i < j => g[i] < g[j]
    /\ \A i \in 1..Len(w) : w[i] = d[g[i]] /\ w[i].key \notin keys
    /\ \A k \in 1..n : d[k].key \notin keys => \E i \in 1..Len(w) : g[i] = k

Selects(w, d, n, keys) ==
    /\ Len(w) <= n
    /\ (\E k \in 1..n : d[k].key \in keys) => Len(w) < n
    /\ \E g : Leads(g, w, d, n, keys)

\* One entry more, deleted or kept.
LEMMA SelectsNext ==
    ASSUME NEW E, NEW d \in Seq(E), NEW keys, NEW n \in Nat, n + 1 <= Len(d),
           NEW w \in Seq(E), Selects(w, d, n, keys)
    PROVE  /\ d[n + 1].key \in keys => Selects(w, d, n + 1, keys)
           /\ d[n + 1].key \notin keys => Selects(Append(w, d[n + 1]), d, n + 1, keys)
<1>1. PICK g : Leads(g, w, d, n, keys)
  BY DEF Selects
<1>2. Len(w) \in Nat /\ Len(w) <= n
  BY DEF Selects
<1>3. CASE d[n + 1].key \in keys
  <2>1. \A k \in 1..(n + 1) : d[k].key \notin keys => k \in 1..n
    BY <1>3
  <2>2. g \in [1..Len(w) -> 1..(n + 1)]
    BY <1>1 DEF Leads
  <2>3. Leads(g, w, d, n + 1, keys)
    BY <1>1, <2>1, <2>2 DEF Leads
  <2>4. QED
    BY <1>2, <1>3, <2>3 DEF Selects
<1>4. CASE d[n + 1].key \notin keys
  <2> DEFINE v == Append(w, d[n + 1])
             h == [i \in 1..(Len(w) + 1) |-> IF i = Len(w) + 1 THEN n + 1 ELSE g[i]]
  <2>1. /\ Len(v) = Len(w) + 1
        /\ v[Len(w) + 1] = d[n + 1]
        /\ \A i \in 1..Len(w) : v[i] = w[i]
    BY <1>2
  <2>2. /\ h \in [1..Len(v) -> 1..(n + 1)]
        /\ h[Len(w) + 1] = n + 1
        /\ \A i \in 1..Len(w) : h[i] = g[i] /\ g[i] \in 1..n
    <3>1. \A i \in 1..Len(w) : g[i] \in 1..n
      BY <1>1 DEF Leads
    <3>2. h[Len(w) + 1] = n + 1 /\ \A i \in 1..Len(w) : h[i] = g[i]
      BY <1>2
    <3>3. \A i \in 1..(Len(w) + 1) : h[i] \in 1..(n + 1)
      BY <1>2, <3>1
    <3>4. QED
      BY <2>1, <3>1, <3>2, <3>3
  <2> HIDE DEF v, h
  <2>3. \A i \in 1..Len(v) : i \in 1..Len(w) \/ i = Len(w) + 1
    BY <1>2, <2>1
  <2>4. ASSUME NEW i \in 1..Len(v), NEW j \in 1..Len(v), i < j
        PROVE  h[i] < h[j]
    <3>1. i \in 1..Len(w) /\ h[i] = g[i] /\ g[i] \in 1..n
      BY <1>2, <2>1, <2>2, <2>4
    <3>2. CASE j = Len(w) + 1
      BY <2>2, <3>1, <3>2
    <3>3. CASE j \in 1..Len(w)
      BY <1>1, <2>2, <2>4, <3>1, <3>3 DEF Leads
    <3>4. QED
      BY <2>3, <3>2, <3>3
  <2>5. \A i \in 1..Len(v) : v[i] = d[h[i]] /\ v[i].key \notin keys
    BY <1>1, <1>4, <2>1, <2>2, <2>3 DEF Leads
  <2>6. \A k \in 1..(n + 1) : d[k].key \notin keys => \E i \in 1..Len(v) : h[i] = k
    <3>1. ASSUME NEW k \in 1..(n + 1), d[k].key \notin keys
          PROVE  \E i \in 1..Len(v) : h[i] = k
      <4>1. CASE k = n + 1
        BY <1>2, <2>1, <2>2, <4>1
      <4>2. CASE k \in 1..n
        <5>1. PICK i \in 1..Len(w) : g[i] = k
          BY <1>1, <3>1, <4>2 DEF Leads
        <5>2. QED
          BY <1>2, <2>1, <2>2, <5>1
      <4>3. QED
        BY <4>1, <4>2
    <3>2. QED
      BY <3>1
  <2>7. Leads(h, v, d, n + 1, keys)
    BY <2>2, <2>4, <2>5, <2>6 DEF Leads
  <2>8. Selects(v, d, n + 1, keys)
    <3>1. ASSUME NEW k \in 1..(n + 1), d[k].key \in keys
          PROVE  Len(v) < n + 1
      <4>1. k \in 1..n
        BY <1>4, <3>1
      <4>2. Len(w) < n
        BY <3>1, <4>1 DEF Selects
      <4>3. QED
        BY <1>2, <2>1, <4>2
    <3>2. QED
      BY <1>2, <2>1, <2>7, <3>1 DEF Selects
  <2>9. QED
    BY <1>4, <2>8 DEF v
<1>5. QED
  BY <1>3, <1>4

\* Without deletes the entries under the keys, and keeps the others in order.
LEMMA WithoutSelects ==
    ASSUME NEW E, NEW d \in Seq(E), NEW keys
    PROVE  Without(d, keys) \in Seq(E) /\ Selects(Without(d, keys), d, Len(d), keys)
<1> DEFINE K == Keeping(d, keys)
           S == {n \in Nat : n <= Len(d) => K[n] \in Seq(E) /\ Selects(K[n], d, n, keys)}
<1>1. /\ Len(d) \in Nat
      /\ K[0] = <<>>
      /\ \A i \in 1..Len(d) :
            K[i] = IF d[i].key \in keys THEN K[i - 1] ELSE Append(K[i - 1], d[i])
  <2>1. Len(d) \in Nat
    OBVIOUS
  <2> HIDE DEF K
  <2>2. K = [i \in 0..Len(d) |->
               IF i = 0 THEN <<>>
               ELSE IF d[i].key \in keys THEN K[i - 1] ELSE Append(K[i - 1], d[i])]
    BY <2>1, KeepingDefined DEF K
  <2>3. ASSUME NEW i \in 1..Len(d)
        PROVE  K[i] = IF d[i].key \in keys THEN K[i - 1] ELSE Append(K[i - 1], d[i])
    <3>1. i \in 0..Len(d) /\ i # 0
      BY <2>1
    <3>2. QED
      BY <2>2, <3>1
  <2>4. K[0] = <<>>
    BY <2>1, <2>2
  <2>5. QED
    BY <2>1, <2>3, <2>4
<1> HIDE DEF K
<1>2. 0 \in S
  <2>1. <<>> \in Seq(E) /\ Len(<<>>) = 0
    OBVIOUS
  <2>2. Leads(<<>>, <<>>, d, 0, keys)
    BY <2>1 DEF Leads
  <2>3. Selects(<<>>, d, 0, keys)
    BY <2>1, <2>2 DEF Selects
  <2>4. QED
    BY <1>1, <2>1, <2>3
<1>3. ASSUME NEW n \in Nat, n \in S
      PROVE  n + 1 \in S
  <2>1. SUFFICES ASSUME n + 1 <= Len(d)
                 PROVE  K[n + 1] \in Seq(E) /\ Selects(K[n + 1], d, n + 1, keys)
    OBVIOUS
  <2>2. K[n] \in Seq(E) /\ Selects(K[n], d, n, keys) /\ n + 1 \in 1..Len(d)
    BY <1>1, <1>3, <2>1
  <2>3. d[n + 1] \in E /\ (n + 1) - 1 = n
    BY <2>2
  <2>4. K[n + 1] = IF d[n + 1].key \in keys THEN K[n] ELSE Append(K[n], d[n + 1])
    BY <1>1, <2>2, <2>3
  <2>5. QED
    BY <2>1, <2>2, <2>3, <2>4, SelectsNext
<1>4. Len(d) \in S
  <2> HIDE DEF S
  <2> QED
    BY <1>1, <1>2, <1>3, AllNumbers
<1>5. QED
  BY <1>1, <1>4 DEF Without, K

----------------------------------------------------------------------------
(* The order of the entries.                                               *)

Distinct(d) == \A i, j \in 1..Len(d) : d[i].key = d[j].key => i = j

\* The least recently used entry comes first.
Ordered(d) == \A i, j \in 1..Len(d) : i < j => d[i].used < d[j].used

Fine(d, u) ==
    /\ d \in Seq(Entry)
    /\ Distinct(d) /\ Ordered(d) /\ \A i \in 1..Len(d) : d[i].used <= u

\* What is left comes from the entries there were, and is all but the deleted.
LEMMA WithoutKeeps ==
    ASSUME NEW d \in Seq(Entry), NEW keys, NEW w, w = Without(d, keys)
    PROVE  /\ w \in Seq(Entry) /\ Len(w) <= Len(d)
           /\ (\E k \in 1..Len(d) : d[k].key \in keys) => Len(w) < Len(d)
           /\ \A i \in 1..Len(w) : w[i].key \notin keys /\ \E k \in 1..Len(d) : w[i] = d[k]
           /\ \A k \in 1..Len(d) :
                 d[k].key \notin keys => \E i \in 1..Len(w) : w[i] = d[k]
<1>1. w \in Seq(Entry) /\ Selects(w, d, Len(d), keys)
  BY WithoutSelects
<1>2. PICK g : Leads(g, w, d, Len(d), keys)
  BY <1>1 DEF Selects
<1>3. ASSUME NEW i \in 1..Len(w)
      PROVE  w[i].key \notin keys /\ \E k \in 1..Len(d) : w[i] = d[k]
  BY <1>2 DEF Leads
<1>4. ASSUME NEW k \in 1..Len(d), d[k].key \notin keys
      PROVE  \E i \in 1..Len(w) : w[i] = d[k]
  BY <1>2, <1>4 DEF Leads
<1>5. QED
  BY <1>1, <1>3, <1>4 DEF Selects

\* Deletions keep the entries in order.
LEMMA WithoutFine ==
    ASSUME NEW u \in Nat, NEW d, Fine(d, u), NEW keys
    PROVE  Fine(Without(d, keys), u)
<1> DEFINE w == Without(d, keys)
<1>1. d \in Seq(Entry) /\ Len(d) \in Nat
  BY DEF Fine
<1>2. w \in Seq(Entry) /\ Selects(w, d, Len(d), keys) /\ Len(w) \in Nat
  BY <1>1, WithoutSelects
<1> HIDE DEF w
<1>3. PICK g : Leads(g, w, d, Len(d), keys)
  BY <1>2 DEF Selects
<1>4. \A i \in 1..Len(w) : g[i] \in 1..Len(d) /\ w[i] = d[g[i]]
  BY <1>3 DEF Leads
<1>6. ASSUME NEW i \in 1..Len(w), NEW j \in 1..Len(w), i < j
      PROVE  w[i].used < w[j].used
  <2>1. g[i] < g[j]
    BY <1>3, <1>6 DEF Leads
  <2>2. w[i] = d[g[i]] /\ w[j] = d[g[j]] /\ g[i] \in 1..Len(d) /\ g[j] \in 1..Len(d)
    BY <1>4
  <2>3. Ordered(d)
    BY DEF Fine
  <2>4. QED
    BY <2>1, <2>2, <2>3 DEF Ordered
<1>7. ASSUME NEW i \in 1..Len(w), NEW j \in 1..Len(w), w[i].key = w[j].key
      PROVE  i = j
  <2>1. g[i] = g[j]
    <3>1. w[i] = d[g[i]] /\ w[j] = d[g[j]] /\ g[i] \in 1..Len(d) /\ g[j] \in 1..Len(d)
      BY <1>4
    <3>2. Distinct(d)
      BY DEF Fine
    <3>3. QED
      BY <1>7, <3>1, <3>2 DEF Distinct
  <2>2. i \in Nat /\ j \in Nat /\ g[i] \in Nat /\ g[j] \in Nat
    BY <1>4
  <2>3. ~(i < j) /\ ~(j < i)
    BY <1>3, <2>1, <2>2 DEF Leads
  <2>4. QED
    BY <2>2, <2>3
<1>8. \A i \in 1..Len(w) : w[i].used <= u
  BY <1>4 DEF Fine
<1>9. Fine(w, u)
  BY <1>2, <1>6, <1>7, <1>8 DEF Fine, Distinct, Ordered
<1>10. QED
  BY <1>9 DEF w

\* An entry that is used now goes to the end.
LEMMA AppendFine ==
    ASSUME NEW u \in Nat, NEW d, Fine(d, u),
           NEW e \in Entry, e.used = u + 1, \A i \in 1..Len(d) : d[i].key # e.key
    PROVE  Fine(Append(d, e), u + 1)
<1> DEFINE v == Append(d, e)
<1>1. d \in Seq(Entry) /\ Len(d) \in Nat /\ \A i \in 1..Len(d) : d[i] \in Entry
  BY DEF Fine
<1>2. /\ v \in Seq(Entry) /\ Len(v) = Len(d) + 1 /\ v[Len(v)] = e
      /\ \A i \in 1..Len(v) : i = Len(v) \/ (i \in 1..Len(d) /\ v[i] = d[i])
  BY <1>1
<1> HIDE DEF v
<1>4. \A i \in 1..Len(d) : d[i].used <= u /\ d[i].used \in Nat
  BY <1>1 DEF Fine, Entry
<1>5. ASSUME NEW i \in 1..Len(v), NEW j \in 1..Len(v), i < j
      PROVE  v[i].used < v[j].used
  <2>1. i \in 1..Len(d) /\ v[i] = d[i]
    BY <1>1, <1>2, <1>5
  <2>2. CASE j = Len(v)
    BY <1>2, <1>4, <2>1, <2>2
  <2>3. CASE j \in 1..Len(d) /\ v[j] = d[j]
    BY <1>5, <2>1, <2>3 DEF Fine, Ordered
  <2>4. QED
    BY <1>2, <2>2, <2>3
<1>6. ASSUME NEW i \in 1..Len(v), NEW j \in 1..Len(v), v[i].key = v[j].key
      PROVE  i = j
  <2>1. CASE i = Len(v) \/ j = Len(v)
    BY <1>2, <1>6, <2>1
  <2>2. CASE i \in 1..Len(d) /\ v[i] = d[i] /\ j \in 1..Len(d) /\ v[j] = d[j]
    BY <1>6, <2>2 DEF Fine, Distinct
  <2>3. QED
    BY <1>2, <2>1, <2>2
<1>7. \A i \in 1..Len(v) : v[i].used <= u + 1
  BY <1>2, <1>4
<1>8. Fine(v, u + 1)
  BY <1>2, <1>5, <1>6, <1>7 DEF Fine, Distinct, Ordered
<1>9. QED
  BY <1>8 DEF v

\* Without its first entry, the rest is in order.
LEMMA TailFine ==
    ASSUME NEW u \in Nat, NEW d, Fine(d, u), d # <<>>
    PROVE  /\ Fine(Tail(d), u) /\ Len(Tail(d)) = Len(d) - 1
           /\ \A i \in 1..Len(Tail(d)) : i + 1 \in 1..Len(d) /\ Tail(d)[i] = d[i + 1]
<1>1. d \in Seq(Entry) /\ Len(d) \in Nat /\ Len(d) > 0
  BY DEF Fine
<1>2. Tail(d) \in Seq(Entry) /\ Len(Tail(d)) = Len(d) - 1
  BY <1>1
<1>3. \A i \in 1..Len(Tail(d)) : i + 1 \in 1..Len(d) /\ Tail(d)[i] = d[i + 1]
  BY <1>1, <1>2
<1>4. Distinct(Tail(d)) /\ Ordered(Tail(d)) /\ \A i \in 1..Len(Tail(d)) : Tail(d)[i].used <= u
  BY <1>1, <1>2, <1>3 DEF Fine, Distinct, Ordered
<1>5. QED
  BY <1>2, <1>3, <1>4 DEF Fine

\* A hit moves the entry to the end and leaves the rows as they are.
LEMMA TouchedFine ==
    ASSUME uses \in Nat, Fine(data, uses), NEW q, Live(q)
    PROVE  /\ Fine(Touched(q), uses + 1) /\ Len(Touched(q)) <= Len(data)
           /\ \A i \in 1..Len(Touched(q)) : \E k \in 1..Len(data) :
                 Touched(q)[i].key = data[k].key /\ Touched(q)[i].asof = data[k].asof
<1>1. data \in Seq(Entry) /\ Len(data) \in Nat /\ DOMAIN data = 1..Len(data)
  BY DEF Fine
<1> DEFINE old  == CHOOSE e \in {data[i] : i \in DOMAIN data} : e.key = q
           e    == [old EXCEPT !.used = uses + 1]
           rest == Without(data, {q})
<1>2. \E k \in 1..Len(data) : old = data[k] /\ data[k].key = q
  BY <1>1 DEF Live
<1>3. PICK k \in 1..Len(data) : old = data[k] /\ data[k].key = q
  BY <1>2
<1> HIDE DEF old
<1>4. data[k] \in Entry
  BY <1>1
<1>5. e \in Entry /\ e.used = uses + 1 /\ e.key = data[k].key /\ e.asof = data[k].asof
  BY <1>3, <1>4 DEF Entry
<1>6. /\ rest \in Seq(Entry) /\ Len(rest) < Len(data)
      /\ \A i \in 1..Len(rest) : rest[i].key # q /\ \E j \in 1..Len(data) : rest[i] = data[j]
  <2> DEFINE gone == {q}
  <2>1. data[k].key \in gone /\ rest = Without(data, gone)
    BY <1>3
  <2> HIDE DEF gone, rest
  <2>2. data \in Seq(Entry) /\ rest = Without(data, gone) /\ \E j \in 1..Len(data) : data[j].key \in gone
    BY <1>1, <2>1
  <2>3. rest \in Seq(Entry) /\ Len(rest) < Len(data)
    BY <2>2, WithoutKeeps
  <2>4. \A i \in 1..Len(rest) : rest[i].key \notin gone /\ \E j \in 1..Len(data) : rest[i] = data[j]
    BY <2>2, WithoutKeeps
  <2>5. \A i \in 1..Len(rest) : rest[i].key # q /\ \E j \in 1..Len(data) : rest[i] = data[j]
    BY <2>4 DEF gone
  <2>6. QED
    BY <2>3, <2>5
<1>7. Fine(rest, uses)
  BY WithoutFine
<1>8. Touched(q) = Append(rest, e)
  BY DEF Touched, old
<1> HIDE DEF e, rest
<1>9. Fine(Touched(q), uses + 1)
  BY <1>3, <1>5, <1>6, <1>7, <1>8, AppendFine
<1>10. /\ Len(Touched(q)) = Len(rest) + 1 /\ Len(rest) \in Nat
       /\ \A i \in 1..Len(Touched(q)) :
             Touched(q)[i] = e \/ (i \in 1..Len(rest) /\ Touched(q)[i] = rest[i])
  BY <1>6, <1>8
<1>11. Len(Touched(q)) <= Len(data)
  BY <1>1, <1>6, <1>10
<1>12. ASSUME NEW i \in 1..Len(Touched(q))
       PROVE  \E j \in 1..Len(data) :
                 Touched(q)[i].key = data[j].key /\ Touched(q)[i].asof = data[j].asof
  <2>1. CASE Touched(q)[i] = e
    BY <1>5, <2>1
  <2>2. CASE i \in 1..Len(rest) /\ Touched(q)[i] = rest[i]
    BY <1>6, <2>2
  <2>3. QED
    BY <1>10, <2>1, <2>2
<1>13. QED
  BY <1>9, <1>11, <1>12

\* A write drops expired entries, puts the new one at the end, and drops the
\* first one if there are too many: whoever goes and has not expired was used
\* less recently than all that stay.
LEMMA StoredFine ==
    ASSUME uses \in Nat, now \in Nat, Fine(data, uses), Len(data) <= MaxSize,
           NEW q \in Queries, NEW v \in Nat, NEW s, s = Stored(q, v)
    PROVE  /\ Fine(s, uses + 1) /\ Len(s) <= MaxSize
           /\ \A i \in 1..Len(s) : \/ s[i].key = q /\ s[i].asof = v
                                   \/ \E k \in 1..Len(data) : s[i] = data[k]
           /\ \A k \in 1..Len(data) :
                 ~Expired(data[k]) /\ (\A i \in 1..Len(s) : s[i].key # data[k].key) =>
                    \A i \in 1..Len(s) : s[i].used > data[k].used
<1> DEFINE purged == {data[i].key : i \in {j \in DOMAIN data : Expired(data[j])}}
           rest   == Without(data, purged \cup {q})
           e      == [key |-> q, asof |-> v, expires |-> now + TTL, used |-> uses + 1]
           all    == Append(rest, e)
<1>1. data \in Seq(Entry) /\ Len(data) \in Nat /\ DOMAIN data = 1..Len(data)
  BY DEF Fine
<1>2. /\ rest \in Seq(Entry) /\ Len(rest) <= Len(data) /\ Len(rest) \in Nat
      /\ \A i \in 1..Len(rest) :
            rest[i].key # q /\ \E k \in 1..Len(data) : rest[i] = data[k]
      /\ \A k \in 1..Len(data) :
            data[k].key \notin purged \cup {q} => \E i \in 1..Len(rest) : rest[i] = data[k]
  <2> DEFINE gone == purged \cup {q}
  <2>1. q \in gone /\ rest = Without(data, gone)
    OBVIOUS
  <2> HIDE DEF gone, rest
  <2>2. /\ rest \in Seq(Entry) /\ Len(rest) <= Len(data)
        /\ \A i \in 1..Len(rest) :
              rest[i].key \notin gone /\ \E k \in 1..Len(data) : rest[i] = data[k]
        /\ \A k \in 1..Len(data) :
              data[k].key \notin gone => \E i \in 1..Len(rest) : rest[i] = data[k]
    BY <1>1, <2>1, WithoutKeeps
  <2>3. \A i \in 1..Len(rest) : rest[i].key # q
    BY <2>1, <2>2
  <2>4. QED
    BY <2>2, <2>3 DEF gone
<1>3. Fine(rest, uses)
  BY WithoutFine
<1>4. e \in Entry /\ e.key = q /\ e.asof = v /\ e.used = uses + 1
  BY SizeAssumption DEF Entry
<1>5. s = Evicted(all)
  BY DEF Stored
<1>6. ASSUME NEW k \in 1..Len(data), ~Expired(data[k])
      PROVE  data[k].key \notin purged
  BY <1>1, <1>6 DEF Fine, Distinct
<1> HIDE DEF purged, rest, e
<1>7. Fine(all, uses + 1)
  BY <1>2, <1>3, <1>4, AppendFine
<1>8. /\ Len(all) = Len(rest) + 1 /\ all[Len(all)] = e
      /\ \A i \in 1..Len(rest) : i \in 1..Len(all) /\ all[i] = rest[i]
      /\ \A i \in 1..Len(all) : i = Len(all) \/ (i \in 1..Len(rest) /\ all[i] = rest[i])
  BY <1>2
<1>9. \A i \in 1..Len(all) :
         \/ all[i].key = q /\ all[i].asof = v
         \/ \E k \in 1..Len(data) : all[i] = data[k]
  BY <1>2, <1>4, <1>8
<1>10. ASSUME NEW k \in 1..Len(data), ~Expired(data[k])
       PROVE  \E i \in 1..Len(all) : all[i].key = data[k].key
  <2>1. CASE data[k].key = q
    BY <1>2, <1>4, <1>8, <2>1
  <2>2. CASE data[k].key # q
    BY <1>2, <1>6, <1>8, <1>10, <2>2
  <2>3. QED
    BY <2>1, <2>2
<1> HIDE DEF all
<1>11. CASE Len(all) <= MaxSize
  <2>1. s = all
    BY <1>2, <1>5, <1>8, <1>11, SizeAssumption DEF Evicted
  <2>2. QED
    BY <1>7, <1>9, <1>10, <1>11, <2>1
<1>12. CASE Len(all) > MaxSize
  <2>1. s = Tail(all) /\ all # <<>> /\ all \in Seq(Entry) /\ Len(all) \in Nat
    BY <1>2, <1>5, <1>7, <1>8, <1>12, SizeAssumption DEF Evicted, Fine
  <2>2. /\ Fine(s, uses + 1) /\ Len(s) = Len(all) - 1
        /\ \A i \in 1..Len(s) : i + 1 \in 1..Len(all) /\ s[i] = all[i + 1]
    BY <1>7, <2>1, TailFine
  <2>3. Len(s) <= MaxSize
    BY <1>2, <1>8, <2>2, SizeAssumption
  <2>4. ASSUME NEW k \in 1..Len(data), ~Expired(data[k]),
               \A i \in 1..Len(s) : s[i].key # data[k].key,
               NEW i \in 1..Len(s)
        PROVE  s[i].used > data[k].used
    <3>1. PICK j \in 1..Len(all) : all[j].key = data[k].key
      BY <1>10, <2>4
    <3>2. j = 1
      <4>1. ASSUME j # 1 PROVE FALSE
        <5>1. j - 1 \in 1..Len(s) /\ s[j - 1] = all[j]
          BY <2>1, <2>2, <4>1
        <5>2. QED
          BY <2>4, <3>1, <5>1
      <4>2. QED
        BY <4>1
    <3>3. all[1] = data[k]
      <4>1. Len(all) # 1
        BY <2>1, <2>2, <2>4
      <4>2. 1 \in 1..Len(rest) /\ all[1] = rest[1]
        BY <1>8, <2>1, <3>2, <4>1
      <4>3. PICK m \in 1..Len(data) : rest[1] = data[m]
        BY <1>2, <4>2
      <4>4. m = k
        BY <1>1, <3>1, <3>2, <4>2, <4>3 DEF Fine, Distinct
      <4>5. QED
        BY <4>2, <4>3, <4>4
    <3>4. all[1].used < all[i + 1].used
      <4>1. 1 \in 1..Len(all) /\ i + 1 \in 1..Len(all) /\ 1 < i + 1
        BY <2>1, <2>2
      <4>2. QED
        BY <1>7, <4>1 DEF Fine, Ordered
    <3>5. all[i + 1].used \in Nat /\ data[k].used \in Nat
      <4>1. i + 1 \in 1..Len(all)
        BY <2>2
      <4>2. all[i + 1] \in Entry /\ data[k] \in Entry
        BY <1>1, <2>1, <4>1
      <4>3. QED
        BY <4>2 DEF Entry
    <3>6. QED
      BY <2>2, <3>3, <3>4, <3>5
  <2>5. QED
    BY <1>9, <2>2, <2>3, <2>4
<1>13. QED
  BY <1>2, <1>8, <1>11, <1>12, SizeAssumption

----------------------------------------------------------------------------
(* What a step does to the entries.                                        *)

\* As many keys as entries, when no two entries have the same one.
LEMMA KeysCounted ==
    ASSUME data \in Seq(Entry), Distinct(data)
    PROVE  Cardinality(Keys) = Len(data)
<1> DEFINE f == [i \in 1..Len(data) |-> data[i].key]
<1>1. Len(data) \in Nat /\ DOMAIN data = 1..Len(data)
  OBVIOUS
<1>2. Keys = {f[i] : i \in 1..Len(data)}
  BY <1>1 DEF Keys
<1>3. f \in Bijection(1..Len(data), Keys)
  BY <1>1, <1>2 DEF Distinct, Bijection, Injection, Surjection, IsInjective
<1>4. ExistsBijection(1..Len(data), Keys)
  BY <1>3 DEF ExistsBijection
<1>5. QED
  BY <1>1, <1>4, FS_CountingElements

\* TypeOK, with the order of the entries instead of their number.
Typed ==
    /\ clock \in Nat /\ now \in Nat /\ generation \in Nat
    /\ indexed \subseteq Queries
    /\ pc \in [Threads -> {"idle", "sql", "fill", "notify"}]
    /\ query \in [Threads -> Queries \cup {None}] /\ fence \in [Threads -> Nat]
    /\ row \in [Threads -> Nat] /\ model \in [Threads -> Models \cup {None}]
    /\ calls \in Nat /\ uses \in Nat
    /\ mark \in [Models -> Nat]
    /\ Fine(data, uses) /\ Len(data) <= MaxSize

\* Entries go, are used, or are written; nothing else changes their rows.
DataEffect ==
    \/ data' = data /\ uses' = uses
    \/ \E keys : data' = Without(data, keys) /\ uses' = uses
    \/ \E q \in Queries : Live(q) /\ data' = Touched(q) /\ uses' = uses + 1
    \/ \E q \in Queries, v \in Nat : data' = Stored(q, v) /\ uses' = uses + 1
    \/ data' = <<>> /\ uses' = uses

\* Readers have a query.
Reading == \A t \in Threads : pc[t] \in {"sql", "fill"} => query[t] \in Queries

\* Every step treats the entries in one of these ways.
LEMMA DataStep == ASSUME Typed, Reading, [Next]_vars PROVE DataEffect
<1>1. CASE UNCHANGED vars
  BY <1>1 DEF vars, DataEffect
<1>2. ASSUME NEW t \in Threads, NEW q \in Queries, Hit(t, q)
      PROVE  DataEffect
  BY <1>2 DEF Hit, DataEffect
<1>3. ASSUME NEW t \in Threads, NEW q \in Queries, Miss(t, q)
      PROVE  DataEffect
  BY <1>3 DEF Miss, DataEffect
<1>4. ASSUME NEW t \in Threads, Sql(t) \/ SkipFill(t)
      PROVE  DataEffect
  BY <1>4 DEF Sql, SkipFill, DataEffect
<1>5. ASSUME NEW t \in Threads, Fill(t)
      PROVE  DataEffect
  <2>1. query[t] \in Queries /\ row[t] \in Nat
    BY <1>5 DEF Fill, Reading, Typed
  <2>2. QED
    BY <1>5, <2>1 DEF Fill, DataEffect
<1>6. ASSUME NEW t \in Threads, Clear(t)
      PROVE  DataEffect
  BY <1>6 DEF Clear, DataEffect
<1>7. ASSUME NEW t \in Threads, NEW m \in Models, Commit(t, m) \/ CallInvalidate(t, m)
      PROVE  DataEffect
  BY <1>7 DEF Commit, CallInvalidate, DataEffect
<1>8. ASSUME NEW t \in Threads, NEW m \in Models, Invalidate(t, m)
      PROVE  DataEffect
  BY <1>8 DEF Invalidate, DataEffect
<1>9. CASE Tick
  BY <1>9 DEF Tick, DataEffect
<1>10. QED
  BY <1>1, <1>2, <1>3, <1>4, <1>5, <1>6, <1>7, <1>8, <1>9 DEF Next

\* Whatever happens, the entries stay in order and within the size.
LEMMA DataFine ==
    ASSUME Typed, DataEffect
    PROVE  Fine(data, uses)' /\ Len(data') <= MaxSize /\ uses' \in Nat
<1>1. uses \in Nat /\ now \in Nat /\ Fine(data, uses) /\ Len(data) <= MaxSize /\ Len(data) \in Nat
  BY DEF Typed, Fine
<1>2. CASE data' = data /\ uses' = uses
  BY <1>1, <1>2 DEF Fine, Distinct, Ordered
<1>3. ASSUME NEW keys, data' = Without(data, keys), uses' = uses
      PROVE  Fine(data', uses') /\ Len(data') <= MaxSize
  <2>1. Fine(data', uses')
    BY <1>1, <1>3, WithoutFine
  <2>2. data \in Seq(Entry) /\ Len(data') \in Nat
    BY <1>1, <2>1 DEF Fine
  <2>3. Len(data') <= Len(data)
    BY <1>3, <2>2, WithoutKeeps
  <2>4. QED
    BY <1>1, <2>1, <2>2, <2>3, SizeAssumption
<1>4. ASSUME NEW q \in Queries, Live(q), data' = Touched(q), uses' = uses + 1
      PROVE  Fine(data', uses') /\ Len(data') <= MaxSize
  <2>1. Fine(data', uses') /\ Len(data') <= Len(data)
    BY <1>1, <1>4, TouchedFine
  <2>2. Len(data') \in Nat
    BY <2>1 DEF Fine
  <2>3. QED
    BY <1>1, <2>1, <2>2, SizeAssumption
<1>5. ASSUME NEW q \in Queries, NEW v \in Nat, data' = Stored(q, v), uses' = uses + 1
      PROVE  Fine(data', uses') /\ Len(data') <= MaxSize
  BY <1>1, <1>5, StoredFine
<1>6. CASE data' = <<>> /\ uses' = uses
  BY <1>1, <1>6, SizeAssumption DEF Fine, Distinct, Ordered
<1>7. Fine(data', uses') /\ Len(data') <= MaxSize /\ uses' \in Nat
  BY <1>1, <1>2, <1>3, <1>4, <1>5, <1>6 DEF DataEffect
<1>8. QED
  BY <1>7 DEF Fine, Distinct, Ordered

----------------------------------------------------------------------------
(* The inductive invariant.                                                *)

\* A fence is never ahead, nor is the moment of an invalidation.
Behind ==
    /\ \A t \in Threads : fence[t] <= generation
    /\ \A m \in Models : mark[m] <= clock

\* Rows that may still be filled in were read after the last invalidation of
\* each of their models: an invalidation since would have moved the generation
\* away from the fence.
RowsFresh ==
    \A t \in Threads :
        pc[t] = "fill" /\ fence[t] = generation =>
            \A m \in ModelsOf[query[t]] : row[t] >= mark[m]

LocalInv ==
    Typed /\ Reading /\ Behind /\ RowsFresh /\ StoredIsFresh /\ StoredIsIndexed

\* Every step keeps the types.
LEMMA TypedStays == ASSUME LocalInv, [Next]_vars PROVE Typed'
<1>1. Typed /\ Reading
  BY DEF LocalInv
<1>2. Fine(data, uses)' /\ Len(data') <= MaxSize /\ uses' \in Nat
  BY <1>1, DataStep, DataFine
<1> DEFINE Rest ==
      /\ clock \in Nat /\ now \in Nat /\ generation \in Nat /\ indexed \subseteq Queries
      /\ pc \in [Threads -> {"idle", "sql", "fill", "notify"}]
      /\ query \in [Threads -> Queries \cup {None}] /\ fence \in [Threads -> Nat]
      /\ row \in [Threads -> Nat] /\ model \in [Threads -> Models \cup {None}]
      /\ calls \in Nat /\ mark \in [Models -> Nat]
<1>3. Rest
  BY <1>1 DEF Typed
<1>4. ASSUME UNCHANGED vars
      PROVE  Rest'
  BY <1>3, <1>4 DEF vars, thread
<1>5. ASSUME NEW t \in Threads, NEW q \in Queries, Hit(t, q)
      PROVE  Rest'
  BY <1>3, <1>5 DEF Hit, thread
<1>6. ASSUME NEW t \in Threads, NEW q \in Queries, Miss(t, q)
      PROVE  Rest'
  BY <1>3, <1>6 DEF Miss
<1>7. ASSUME NEW t \in Threads, Sql(t) \/ SkipFill(t)
      PROVE  Rest'
  BY <1>3, <1>7 DEF Sql, SkipFill, Finishes
<1>8. ASSUME NEW t \in Threads, Fill(t)
      PROVE  Rest'
  <2>1. query[t] \in Queries
    BY <1>1, <1>8 DEF Fill, Reading
  <2>2. QED
    BY <1>3, <1>8, <2>1 DEF Fill, Finishes, Register
<1>9. ASSUME NEW t \in Threads, Clear(t)
      PROVE  Rest'
  BY <1>3, <1>9 DEF Clear, thread
<1>10. ASSUME NEW t \in Threads, NEW m \in Models, Commit(t, m) \/ CallInvalidate(t, m)
       PROVE  Rest'
  BY <1>3, <1>10 DEF Commit, CallInvalidate
<1>11. ASSUME NEW t \in Threads, NEW m \in Models, Invalidate(t, m)
       PROVE  Rest'
  BY <1>3, <1>11 DEF Invalidate, Finishes
<1>12. ASSUME Tick
       PROVE  Rest'
  BY <1>3, <1>12 DEF Tick, thread
<1> HIDE DEF Rest
<1>13. Rest'
  BY <1>4, <1>5, <1>6, <1>7, <1>8, <1>9, <1>10, <1>11, <1>12 DEF Next
<1>14. QED
  BY <1>2, <1>13 DEF Typed, Rest

\* A reader stays where it is, is no longer one, notes the fence, or reads.
ReaderEffect(s) ==
    \/ pc'[s] = pc[s] /\ query'[s] = query[s] /\ fence'[s] = fence[s] /\ row'[s] = row[s]
    \/ pc'[s] \notin {"sql", "fill"} /\ fence'[s] \in {0, fence[s]}
    \/ pc'[s] = "sql" /\ query'[s] \in Queries /\ fence'[s] = generation
    \/ /\ pc[s] = "sql" /\ pc'[s] = "fill" /\ row'[s] = clock
       /\ query'[s] = query[s] /\ fence'[s] = fence[s]

\* Marks move to the present, and the generation moves with them.
MarkEffect ==
    \/ generation' = generation /\ mark' = mark /\ clock' \in {clock, clock + 1}
    \/ /\ generation' = generation + 1 /\ clock' = clock
       /\ \A m \in Models : mark'[m] \in {mark[m], clock}

\* Every step treats readers and marks in one of these ways.
LEMMA ReaderStep ==
    ASSUME Typed, [Next]_vars PROVE MarkEffect /\ \A s \in Threads : ReaderEffect(s)
<1>. USE DEF Typed, ReaderEffect, MarkEffect
<1>1. CASE UNCHANGED vars
  BY <1>1 DEF vars, thread
<1>2. ASSUME NEW t \in Threads, NEW q \in Queries, Hit(t, q)
      PROVE  MarkEffect /\ \A s \in Threads : ReaderEffect(s)
  BY <1>2 DEF Hit, thread
<1>3. ASSUME NEW t \in Threads, NEW q \in Queries, Miss(t, q)
      PROVE  MarkEffect /\ \A s \in Threads : ReaderEffect(s)
  BY <1>3 DEF Miss
<1>4. ASSUME NEW t \in Threads, Sql(t)
      PROVE  MarkEffect /\ \A s \in Threads : ReaderEffect(s)
  BY <1>4 DEF Sql
<1>5. ASSUME NEW t \in Threads, Fill(t) \/ SkipFill(t)
      PROVE  MarkEffect /\ \A s \in Threads : ReaderEffect(s)
  BY <1>5 DEF Fill, SkipFill, Finishes
<1>6. ASSUME NEW t \in Threads, Clear(t)
      PROVE  MarkEffect /\ \A s \in Threads : ReaderEffect(s)
  BY <1>6 DEF Clear, thread
<1>7. ASSUME NEW t \in Threads, NEW m \in Models, Commit(t, m) \/ CallInvalidate(t, m)
      PROVE  MarkEffect /\ \A s \in Threads : ReaderEffect(s)
  BY <1>7 DEF Commit, CallInvalidate
<1>8. ASSUME NEW t \in Threads, NEW m \in Models, Invalidate(t, m)
      PROVE  MarkEffect /\ \A s \in Threads : ReaderEffect(s)
  BY <1>8 DEF Invalidate, Finishes
<1>9. CASE Tick
  BY <1>9 DEF Tick, thread
<1>. HIDE DEF Typed, ReaderEffect, MarkEffect
<1>10. QED
  BY <1>1, <1>2, <1>3, <1>4, <1>5, <1>6, <1>7, <1>8, <1>9 DEF Next

\* Readers, fences and marks stay as they should be.
LEMMA ReadersStay == ASSUME LocalInv, [Next]_vars PROVE Reading' /\ Behind' /\ RowsFresh'
<1>1. MarkEffect /\ \A s \in Threads : ReaderEffect(s)
  BY ReaderStep DEF LocalInv
<1>2. /\ \A s \in Threads : fence[s] \in Nat /\ fence[s] <= generation
      /\ generation \in Nat /\ clock \in Nat
      /\ \A m \in Models : mark[m] \in Nat /\ mark[m] <= clock
  BY DEF LocalInv, Typed, Behind
<1>3. Behind'
  <2>1. ASSUME NEW s \in Threads
        PROVE  fence'[s] <= generation'
    BY <1>1, <1>2 DEF ReaderEffect, MarkEffect
  <2>2. ASSUME NEW m \in Models
        PROVE  mark'[m] <= clock'
    BY <1>1, <1>2 DEF MarkEffect
  <2>3. QED
    BY <2>1, <2>2 DEF Behind
<1>4. Reading'
  BY <1>1 DEF LocalInv, Reading, ReaderEffect
<1>5. RowsFresh'
  <2>1. SUFFICES ASSUME NEW s \in Threads, pc'[s] = "fill", fence'[s] = generation',
                        NEW m \in ModelsOf[query'[s]]
                 PROVE  row'[s] >= mark'[m]
    BY DEF RowsFresh
  <2>2. query'[s] \in Queries /\ m \in Models
    BY <1>4, <2>1, ModelsAssumption DEF Reading
  <2>3. generation' = generation /\ mark' = mark /\ fence'[s] = fence[s] /\ query'[s] = query[s]
    BY <1>1, <1>2, <2>1 DEF ReaderEffect, MarkEffect
  <2>4. CASE pc[s] = "fill" /\ row'[s] = row[s]
    BY <2>1, <2>3, <2>4 DEF LocalInv, RowsFresh
  <2>5. CASE row'[s] = clock
    BY <1>2, <2>2, <2>3, <2>5
  <2>6. QED
    BY <1>1, <2>1, <2>4, <2>5 DEF ReaderEffect
<1>6. QED
  BY <1>3, <1>4, <1>5

\* The index loses only the keys whose entries go with them.
LEMMA StoredStay == ASSUME LocalInv, [Next]_vars PROVE StoredIsIndexed' /\ StoredIsFresh'
<1>1. /\ Fine(data, uses) /\ uses \in Nat /\ now \in Nat /\ Len(data) <= MaxSize
      /\ data \in Seq(Entry) /\ Len(data) \in Nat /\ DOMAIN data = 1..Len(data)
      /\ indexed \subseteq Queries
  BY DEF LocalInv, Typed, Fine
<1>2. data' \in Seq(Entry) /\ Len(data') \in Nat /\ DOMAIN data' = 1..Len(data')
  BY TypedStays DEF Typed, Fine
<1>3. Keys' = {data'[i].key : i \in 1..Len(data')} /\ Keys = {data[i].key : i \in 1..Len(data)}
  BY <1>1, <1>2 DEF Keys
\* An entry that was there, with the rows it had.
<1> DEFINE Old(i) == \E k \in 1..Len(data) : /\ data'[i].key = data[k].key
                                             /\ data'[i].asof = data[k].asof
<1>4. ASSUME NEW i \in 1..Len(data'), Old(i), indexed \subseteq indexed', mark' = mark
      PROVE  /\ data'[i].key \in indexed'
             /\ \A m \in ModelsOf[data'[i].key] : data'[i].asof >= mark'[m]
  BY <1>1, <1>3, <1>4 DEF LocalInv, StoredIsFresh, StoredIsIndexed
<1> DEFINE Goal == \A i \in 1..Len(data') :
                      /\ data'[i].key \in indexed'
                      /\ \A m \in ModelsOf[data'[i].key] : data'[i].asof >= mark'[m]
<1>5. ASSUME data' = data, indexed' = indexed, mark' = mark
      PROVE  Goal
  BY <1>4, <1>5
<1>6. ASSUME NEW t \in Threads, NEW q \in Queries, Hit(t, q)
      PROVE  Goal
  <2>1. Live(q) /\ data' = Touched(q) /\ indexed \subseteq indexed' /\ mark' = mark
    BY <1>6 DEF Hit
  <2>2. \A i \in 1..Len(data') : Old(i)
    BY <1>1, <2>1, TouchedFine
  <2>3. QED
    BY <1>4, <2>1, <2>2
<1>7. ASSUME NEW t \in Threads, NEW q \in Queries, Miss(t, q)
      PROVE  Goal
  <2>1. data' = Without(data, {q}) /\ indexed' = indexed /\ mark' = mark
    BY <1>7 DEF Miss
  <2>2. \A i \in 1..Len(data') : \E k \in 1..Len(data) : data'[i] = data[k]
    BY <1>1, <2>1, WithoutKeeps
  <2>3. \A i \in 1..Len(data') : Old(i)
    BY <2>2
  <2>4. QED
    BY <1>4, <2>1, <2>3
<1>8. ASSUME NEW t \in Threads, Fill(t)
      PROVE  Goal
  <2>1. /\ data' = Stored(query[t], row[t]) /\ indexed' = indexed \cup {query[t]} /\ mark' = mark
        /\ pc[t] = "fill" /\ fence[t] = generation
    BY <1>8 DEF Fill, Register, Unchanged
  <2>2. query[t] \in Queries /\ row[t] \in Nat
    BY <2>1 DEF LocalInv, Typed, Reading
  <2>3. ASSUME NEW i \in 1..Len(data')
        PROVE  Old(i) \/ (data'[i].key = query[t] /\ data'[i].asof = row[t])
    BY <1>1, <2>1, <2>2, StoredFine
  <2>4. ASSUME NEW i \in 1..Len(data'), data'[i].key = query[t], data'[i].asof = row[t]
        PROVE  \A m \in ModelsOf[data'[i].key] : data'[i].asof >= mark'[m]
    BY <2>1, <2>4 DEF LocalInv, RowsFresh
  <2>5. QED
    BY <1>4, <2>1, <2>3, <2>4
<1>9. ASSUME NEW t \in Threads, Clear(t)
      PROVE  Goal
  BY <1>9 DEF Clear
<1>10. ASSUME NEW t \in Threads, NEW m \in Models, Invalidate(t, m)
       PROVE  Goal
  <2> DEFINE keys == {k \in indexed : m \in ModelsOf[k]}
  <2>1. /\ data' = Without(data, keys) /\ indexed' = indexed \ keys
        /\ mark' = [mark EXCEPT ![m] = clock]
    BY <1>10 DEF Invalidate
  <2> HIDE DEF keys
  <2>2. ASSUME NEW i \in 1..Len(data')
        PROVE  data'[i].key \notin keys /\ \E k \in 1..Len(data) : data'[i] = data[k]
    BY <1>1, <2>1, WithoutKeeps
  <2>3. ASSUME NEW i \in 1..Len(data')
        PROVE  /\ data'[i].key \in indexed /\ m \notin ModelsOf[data'[i].key]
               /\ \A n \in ModelsOf[data'[i].key] : data'[i].asof >= mark[n]
    <3>1. PICK k \in 1..Len(data) : data'[i] = data[k]
      BY <2>2
    <3>2. data[k].key \in indexed /\ \A n \in ModelsOf[data[k].key] : data[k].asof >= mark[n]
      BY <1>1, <1>3 DEF LocalInv, StoredIsFresh, StoredIsIndexed
    <3>3. QED
      BY <2>2, <3>1, <3>2 DEF keys
  <2>4. ASSUME NEW i \in 1..Len(data'), NEW n \in ModelsOf[data'[i].key]
        PROVE  mark'[n] = mark[n]
    <3>1. data'[i].key \in Queries /\ n \in Models /\ n # m
      BY <1>1, <2>3, ModelsAssumption
    <3>2. QED
      BY <2>1, <3>1 DEF LocalInv, Typed
  <2>5. QED
    BY <2>1, <2>2, <2>3, <2>4
<1>11. ASSUME [Next]_vars
       PROVE  Goal
  <2> HIDE DEF Goal
  <2>1. ASSUME NEW t \in Threads, Sql(t) \/ SkipFill(t)
        PROVE  Goal
    BY <1>5, <2>1 DEF Sql, SkipFill
  <2>2. ASSUME NEW t \in Threads, NEW m \in Models, Commit(t, m) \/ CallInvalidate(t, m)
        PROVE  Goal
    BY <1>5, <2>2 DEF Commit, CallInvalidate
  <2>3. ASSUME Tick \/ UNCHANGED vars
        PROVE  Goal
    BY <1>5, <2>3 DEF Tick, vars
  <2>4. QED
    BY <1>6, <1>7, <1>8, <1>9, <1>10, <1>11, <2>1, <2>2, <2>3 DEF Next
<1>12. QED
  BY <1>2, <1>3, <1>11 DEF StoredIsIndexed, StoredIsFresh

----------------------------------------------------------------------------
(* The theorems.                                                           *)

\* LocalInv holds in every state.
LEMMA LocalInvariant == Spec => []LocalInv
<1>1. Init => LocalInv
  <2>1. SUFFICES ASSUME Init PROVE LocalInv
    OBVIOUS
  <2>2. data = <<>> /\ uses = 0 /\ <<>> \in Seq(Entry) /\ Len(<<>>) = 0
    BY <2>1 DEF Init
  <2>3. Fine(data, uses) /\ Len(data) <= MaxSize
    BY <2>2, SizeAssumption DEF Fine, Distinct, Ordered
  <2>4. Typed /\ Reading /\ Behind /\ RowsFresh
    BY <2>1, <2>3 DEF Init, Typed, Reading, Behind, RowsFresh
  <2>5. StoredIsFresh /\ StoredIsIndexed
    BY <2>2 DEF StoredIsFresh, StoredIsIndexed, Keys
  <2>6. QED
    BY <2>4, <2>5 DEF LocalInv
<1>2. LocalInv /\ [Next]_vars => LocalInv'
  BY TypedStays, ReadersStay, StoredStay DEF LocalInv
<1>3. QED
  BY <1>1, <1>2, PTL DEF Spec

\* MemoryCacheBackend holds at most maxsize entries, no two under one key: a set()
\* replaces the entry it finds and evicts while there are too many, and neither a
\* hit nor a deletion adds any.
THEOREM LocalTypes == Spec => []TypeOK
<1>1. LocalInv => TypeOK
  BY KeysCounted DEF LocalInv, Typed, Fine, TypeOK
<1>2. QED
  BY <1>1, LocalInvariant, PTL

\* QuerySetCache with the fence alone, without generations shared by processes: no
\* thread stores rows it read before invalidate_model() was run for one of their
\* models, and none stay, however many threads read and fill meanwhile.
THEOREM LocalFresh == Spec => []StoredIsFresh
<1>1. LocalInv => StoredIsFresh
  BY DEF LocalInv
<1>2. QED
  BY <1>1, LocalInvariant, PTL

\* Every stored key is registered under its models, by whichever operation it got
\* in: an entry that the index lost would outlive every invalidation.
THEOREM LocalIndexed == Spec => []StoredIsIndexed
<1>1. LocalInv => StoredIsIndexed
  BY DEF LocalInv
<1>2. QED
  BY <1>1, LocalInvariant, PTL

\* The OrderedDict is a least-recently-used cache, for every maxsize: when a set()
\* makes a live entry go, all that stay were looked up or written after it.
THEOREM LeastRecentGoes == Spec => EvictsLeastRecent
<1> DEFINE Gone(i, j) == data[i].key \notin Keys' /\ ~Expired(data[i])
                            /\ pc' # pc /\ generation' = generation
           Evicts == \A i \in DOMAIN data, j \in DOMAIN data' :
                        Gone(i, j) => data'[j].used > data[i].used
<1>1. LocalInv /\ [Next]_vars => Evicts
  <2>1. SUFFICES ASSUME LocalInv, [Next]_vars,
                        NEW i \in DOMAIN data, NEW j \in DOMAIN data', Gone(i, j)
                 PROVE  data'[j].used > data[i].used
    OBVIOUS
  <2>2. /\ Fine(data, uses) /\ uses \in Nat /\ now \in Nat /\ generation \in Nat
        /\ Len(data) <= MaxSize /\ data \in Seq(Entry)
    BY <2>1 DEF LocalInv, Typed, Fine
  <2>3. data' \in Seq(Entry)
    BY <2>1, TypedStays DEF Typed, Fine
  <2>4. i \in 1..Len(data) /\ j \in 1..Len(data') /\ \A k \in 1..Len(data') : data'[k].key \in Keys'
    BY <2>1, <2>2, <2>3 DEF Keys
  <2>5. data' # data
    BY <2>1 DEF Keys
  <2>6. ASSUME NEW t \in Threads, NEW q \in Queries, Miss(t, q)
        PROVE  FALSE
    <3> DEFINE gone == {q}
    <3>1. data' = Without(data, gone) /\ ~Live(q)
      BY <2>6 DEF Miss
    <3>2. data[i].key \notin gone
      BY <2>1, <3>1 DEF Live
    <3> HIDE DEF gone
    <3>3. \A n \in 1..Len(data) :
             data[n].key \notin gone => \E k \in 1..Len(data') : data'[k] = data[n]
      BY <2>2, <3>1, WithoutKeeps
    <3>4. QED
      BY <2>1, <2>4, <3>2, <3>3
  <2>7. ASSUME NEW t \in Threads, Fill(t)
        PROVE  data'[j].used > data[i].used
    <3>1. query[t] \in Queries /\ row[t] \in Nat /\ data' = Stored(query[t], row[t])
      BY <2>1, <2>7 DEF LocalInv, Reading, Typed, Fill
    <3>2. ~Expired(data[i]) /\ \A k \in 1..Len(data') : data'[k].key # data[i].key
      BY <2>1, <2>4
    <3>3. QED
      BY <2>2, <2>4, <3>1, <3>2, StoredFine
  <2>8. ASSUME NEW t \in Threads, Sql(t) \/ SkipFill(t) \/ Clear(t)
        PROVE  FALSE
    BY <2>1, <2>2, <2>5, <2>8 DEF Sql, SkipFill, Clear
  <2>9. ASSUME NEW t \in Threads, NEW m \in Models,
               Commit(t, m) \/ CallInvalidate(t, m) \/ Invalidate(t, m)
        PROVE  FALSE
    BY <2>1, <2>2, <2>5, <2>9 DEF Commit, CallInvalidate, Invalidate
  <2>10. ASSUME NEW t \in Threads, NEW q \in Queries, Hit(t, q)
         PROVE  FALSE
    BY <2>1, <2>10 DEF Hit, thread
  <2>11. ~Tick /\ ~UNCHANGED vars
    BY <2>5 DEF Tick, vars
  <2>12. QED
    BY <2>1, <2>6, <2>7, <2>8, <2>9, <2>10, <2>11 DEF Next
<1>2. QED
  BY <1>1, LocalInvariant, PTL DEF Spec, EvictsLeastRecent

=============================================================================
