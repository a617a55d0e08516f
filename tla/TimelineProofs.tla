--------------------------- MODULE TimelineProofs ---------------------------
(***************************************************************************)
(* What a worker records of the collector, and what the analyzers make of  *)
(* it, for any number of reads and of collections, wherever they fall.     *)
(*                                                                         *)
(* Recording is inductive.  It relates what was recorded to the history of *)
(* all collections: the readings of the clock and the collections follow   *)
(* each other (Ordered) without gaps (Exact); the callback's notes are the *)
(* collections during which it was there (Notes), the requests had one     *)
(* each (Answers), and the saved statistics count those before (Counted).  *)
(* As every milestone has its known place, what lies between two readings  *)
(* is then what fell between two milestones, and sums over the notes are   *)
(* sums over the collections.                                              *)
(***************************************************************************)
EXTENDS GcTimeline, SequencesExt, SequenceTheorems, FiniteSetTheorems, TLAPS

----------------------------------------------------------------------------
(* Numbers and sequences.                                                  *)

\* A number is its quotient and its remainder.
LEMMA Divided ==
    ASSUME NEW x \in Nat, NEW L \in Nat \ {0}
    PROVE  /\ x \div L \in Nat /\ x % L \in 0..(L - 1)
           /\ x = L * (x \div L) + (x % L)
OBVIOUS

\* Quotient and remainder of a number that is put together from them.
LEMMA Quotient ==
    ASSUME NEW L \in Nat \ {0}, NEW q \in Nat, NEW r \in 0..(L - 1)
    PROVE  (L * q + r) \div L = q /\ (L * q + r) % L = r
OBVIOUS

\* A function on the first n numbers is a sequence of n.
LEMMA LengthOf ==
    ASSUME NEW n \in Nat, NEW s, DOMAIN s = 1..n, s = [i \in 1..n |-> s[i]]
    PROVE  s \in Seq(Range(s)) /\ Len(s) = n
<1> DEFINE S == Range(s)
<1>1. \A i \in 1..n : s[i] \in S
  BY DEF Range
<1> HIDE DEF S
<1>2. s \in [1..n -> S]
  BY <1>1
<1>3. s \in Seq(S)
  BY <1>2, SeqDef
<1>4. Len(s) \in Nat /\ DOMAIN s = 1..Len(s)
  BY <1>3
<1>5. Len(s) = n
  BY <1>4
<1>6. QED
  BY <1>3, <1>5 DEF S

\* The parts of a sequence with one element more.
LEMMA Appended ==
    ASSUME NEW S, NEW f \in Seq(S), NEW e \in S
    PROVE  /\ Append(f, e) \in Seq(S) /\ Len(Append(f, e)) = Len(f) + 1 /\ Len(f) \in Nat
           /\ Append(f, e)[Len(f) + 1] = e
           /\ \A i \in 1..Len(f) : Append(f, e)[i] = f[i] /\ i \in 1..Len(f) + 1
OBVIOUS

----------------------------------------------------------------------------
(* What a worker records of the collector: the milestones.                 *)

Timed == worker # <<"probe">>

\* A requested collection is a milestone more.
Request == IF worker[2] THEN 1 ELSE 0

\* The milestones of a read, those before the first one, before a certain one, and
\* until the end of the last.
Width   == IF worker[3] THEN 5 ELSE 3
Opening  == 10 + Request
Turn(r) == Opening + Width * (r - 1)
Ending  == Opening + Width * Reads

\* A timed worker is told whether to ask for a collection and whether to validate.
LEMMA Told ==
    ASSUME GcTimelineConstants, worker \in Workers, Timed
    PROVE  /\ worker[2] \in BOOLEAN /\ worker[3] \in BOOLEAN
           /\ Request \in {0, 1} /\ Width \in {3, 5} /\ Opening \in Nat /\ Ending \in Nat
           /\ Reads \in Nat \ {0} /\ Opening < Ending
           /\ Len(Conditioning(worker[2])) = Opening /\ Len(Read(worker[3])) = Width
           /\ \A k \in 1..10 : k <= Opening
<1>1. worker[2] \in BOOLEAN /\ worker[3] \in BOOLEAN /\ Reads \in Nat \ {0}
  BY DEF GcTimelineConstants, Timed
<1>2. Request \in {0, 1} /\ Width \in {3, 5}
  BY <1>1 DEF Request, Width
<1>3. Opening \in Nat /\ Ending \in Nat /\ Opening < Ending /\ \A k \in 1..10 : k <= Opening
  BY <1>1, <1>2 DEF Opening, Ending
<1>4. Len(Conditioning(worker[2])) = Opening
  BY <1>1 DEF Conditioning, Opening, Request
<1>5. Len(Read(worker[3])) = Width
  BY <1>1 DEF Read, Width
<1>6. QED
  BY <1>1, <1>2, <1>3, <1>4, <1>5

\* The milestones of timed_reads(), by their places.
LEMMA TimedMilestones ==
    ASSUME GcTimelineConstants, worker \in Workers, Timed
    PROVE  /\ DOMAIN program = 1..Ending + 2 /\ Len(program) = Ending + 2
           /\ \A k \in 1..Opening : k \in DOMAIN program /\ program[k] = <<Conditioning(worker[2])[k], 0>>
           /\ program[Ending + 1] = <<"deafen", 0>> /\ program[Ending + 2] = <<"loop_end", 0>>
           /\ \A k \in DOMAIN program : k > Opening /\ k <= Ending =>
                \E r \in 1..Reads, j \in 1..Width : k = Turn(r) + j
           /\ \A r \in 1..Reads, j \in 1..Width :
                /\ Turn(r) \in Nat /\ Turn(r) >= Opening /\ Turn(r) + j <= Ending
                /\ program[Turn(r) + j] = <<Read(worker[3])[j], r>>
<1> DEFINE w2 == worker[2]
           w3 == worker[3]
           o == Opening
           l == Width
           closing == <<"deafen", "loop_end">>
<1>1. /\ Request \in {0, 1} /\ l \in {3, 5} /\ o \in Nat /\ Ending \in Nat /\ Reads \in Nat \ {0}
      /\ Len(Conditioning(w2)) = o /\ Len(Read(w3)) = l /\ Ending = o + l * Reads
  BY Told DEF Ending
<1>2. program = TimedReads(w2, w3)
  BY DEF program, Program, Timed
<1>3. program = [k \in 1..Ending + 2 |->
            IF k <= o THEN <<Conditioning(w2)[k], 0>>
            ELSE IF k > Ending THEN <<closing[k - Ending], 0>>
            ELSE <<Read(w3)[1 + ((k - o - 1) % l)], 1 + ((k - o - 1) \div l)>>]
  <2>1. \A a, b : Len(Conditioning(w2)) + Reads * Len(Read(w3)) = Ending
    BY <1>1
  <2>2. QED
    BY <1>1, <1>2, <2>1, Reads * l = l * Reads DEF TimedReads
<1> HIDE DEF w2, w3
<1>4. DOMAIN program = 1..Ending + 2
  BY <1>3
<1>5. Len(program) = Ending + 2
  <2>1. program = [k \in 1..Ending + 2 |-> program[k]] /\ Ending + 2 \in Nat
    BY <1>1, <1>3
  <2>2. QED
    BY <1>4, <2>1, LengthOf
<1>6. o <= Ending
  BY <1>1
<1>7. \A k \in 1..o : k \in DOMAIN program /\ program[k] = <<Conditioning(w2)[k], 0>>
  <2>1. \A k \in 1..o : k \in 1..Ending + 2 /\ k <= o
    BY <1>1, <1>6
  <2>2. QED
    BY <1>3, <1>4, <2>1
<1>8. program[Ending + 1] = <<"deafen", 0>> /\ program[Ending + 2] = <<"loop_end", 0>>
  <2>1. /\ Ending + 1 \in 1..Ending + 2 /\ Ending + 2 \in 1..Ending + 2
        /\ Ending + 1 > Ending /\ Ending + 2 > Ending /\ ~(Ending + 1 <= o) /\ ~(Ending + 2 <= o)
        /\ (Ending + 1) - Ending = 1 /\ (Ending + 2) - Ending = 2
    BY <1>1, <1>6
  <2>2. QED
    BY <1>3, <2>1
<1>9. ASSUME NEW k \in DOMAIN program, k > o, k <= Ending
      PROVE  \E r \in 1..Reads, j \in 1..l : k = Turn(r) + j
  <2> DEFINE x == k - o - 1
             r == 1 + (x \div l)
             j == 1 + (x % l)
  <2>1. k \in Nat /\ x \in Nat /\ k = o + 1 + x /\ x < l * Reads
    BY <1>1, <1>4, <1>9
  <2> HIDE DEF x
  <2>2. CASE l = 3
    <3>1. x = 3 * (x \div 3) + (x % 3) /\ x \div 3 \in Nat /\ x % 3 \in 0..2
      <4>1. x \in Nat /\ 3 \in Nat \ {0} /\ 3 - 1 = 2
        BY <2>1
      <4>2. QED
        BY <4>1, Divided
    <3>2. r \in 1..Reads /\ j \in 1..l /\ k = o + l * (r - 1) + j
      BY <1>1, <2>1, <2>2, <3>1
    <3>3. QED
      BY <3>2 DEF Turn
  <2>3. CASE l = 5
    <3>1. x = 5 * (x \div 5) + (x % 5) /\ x \div 5 \in Nat /\ x % 5 \in 0..4
      <4>1. x \in Nat /\ 5 \in Nat \ {0} /\ 5 - 1 = 4
        BY <2>1
      <4>2. QED
        BY <4>1, Divided
    <3>2. r \in 1..Reads /\ j \in 1..l /\ k = o + l * (r - 1) + j
      BY <1>1, <2>1, <2>3, <3>1
    <3>3. QED
      BY <3>2 DEF Turn
  <2>4. QED
    BY <1>1, <2>2, <2>3
<1>10. ASSUME NEW r \in 1..Reads, NEW j \in 1..l
       PROVE  /\ Turn(r) \in Nat /\ Turn(r) >= o /\ Turn(r) + j <= Ending
              /\ program[Turn(r) + j] = <<Read(w3)[j], r>>
  <2> DEFINE k == Turn(r) + j
             x == l * (r - 1) + (j - 1)
  <2>1. Turn(r) = o + l * (r - 1) /\ r \in Nat /\ j \in Nat /\ r - 1 \in Nat /\ j - 1 \in 0..l - 1 /\ l \in Nat \ {0}
    BY <1>1 DEF Turn
  <2>2. Turn(r) \in Nat /\ Turn(r) >= o /\ k <= Ending /\ k > o /\ k - o - 1 = x
    <3>1. CASE l = 3
      BY <1>1, <2>1, <3>1
    <3>2. CASE l = 5
      BY <1>1, <2>1, <3>2
    <3>3. QED
      BY <1>1, <3>1, <3>2
  <2>3. x \div l = r - 1 /\ x % l = j - 1
    BY <2>1, Quotient
  <2>4. k \in 1..Ending + 2 /\ ~(k <= o) /\ ~(k > Ending)
    BY <1>1, <2>1, <2>2
  <2> HIDE DEF k, x
  <2>5. program[k] = <<Read(w3)[1 + (x % l)], 1 + (x \div l)>>
    BY <1>3, <2>2, <2>4
  <2>6. 1 + (x % l) = j /\ 1 + (x \div l) = r
    BY <2>1, <2>3
  <2>7. QED
    BY <2>2, <2>5, <2>6 DEF k
<1>11. QED
  BY <1>4, <1>5, <1>7, <1>8, <1>9, <1>10 DEF w2, w3

----------------------------------------------------------------------------
(* The invariant of the recordings.                                        *)

\* Where the callback is there.
Hearing == IF Timed THEN (3..5 + Request) \cup (Opening..Ending) ELSE {}

\* The milestone after which the i-th collection is requested, and how many are.
Requests == IF Timed THEN Request ELSE 2
Asks     == [i \in 1..Requests |-> IF Timed THEN 4 ELSE 3 * i]

\* What the collector counts of some collections.
CountsOf(t, S) ==
    [g \in Generations |->
        [collections |-> Cardinality({n \in S : t[n].generation = g}),
         collected   |-> Total([n \in {k \in S : t[k].generation = g} |-> t[n].collected])]]

CountRecord == [collections : Nat, collected : Nat]
StateRecord == [enabled : BOOLEAN, stats : [Generations -> CountRecord]]
EventRecord == [start : Nat, end : Nat, generation : Generations, collected : Nat]
TruthRecord == [at : Nat, start : Nat, end : Nat, generation : Generations, collected : Nat,
                asked : Nat, noted : Nat]

\* One reading and one state of each milestone.
Recorded ==
    /\ worker \in Workers
    /\ steps \in Nat /\ steps <= Len(program)
    /\ clock \in Nat /\ enabled \in BOOLEAN
    /\ times \in Seq(Nat) /\ Len(times) = steps
    /\ states \in Seq(StateRecord) /\ Len(states) = steps
    /\ returned \in Seq(Nat)
    /\ events \in Seq(EventRecord)
    /\ truth \in Seq(TruthRecord)

\* The readings grow, and a collection lies between those of two milestones.
Ordered ==
    /\ \A k \in 1..steps : times[k] <= clock
    /\ \A j, k \in 1..steps : j < k => times[j] < times[k]
    /\ \A n \in 1..Len(truth) :
         /\ truth[n].at <= steps /\ truth[n].start < truth[n].end /\ truth[n].end <= clock
         /\ \A k \in 1..steps : /\ k <= truth[n].at => times[k] < truth[n].start
                                /\ k > truth[n].at  => truth[n].end <= times[k]
    /\ \A m \in 1..Len(events) : events[m].end <= clock
    /\ \A l, m \in 1..Len(events) : l < m => events[l].end < events[m].start

\* The clock stands still but for readings of it and for collections.
Exact ==
    /\ steps > 0 /\ (\A n \in 1..Len(truth) : truth[n].at # steps) => clock = times[steps]
    /\ \A k \in 1..steps : k < steps /\ (\A n \in 1..Len(truth) : truth[n].at # k) => times[k + 1] = times[k] + 1
    /\ \A n \in 1..Len(truth) : truth[n].asked # 0 =>
         /\ truth[n].at < steps /\ truth[n].end = times[truth[n].at + 1]
         /\ (\A m \in 1..Len(truth) : truth[m].at = truth[n].at => m = n) =>
                truth[n].start = times[truth[n].at] + 1

\* The callback notes the collections during which it is there.
Notes ==
    /\ listening = (steps \in Hearing)
    /\ \A n \in 1..Len(truth) :
         /\ truth[n].noted # 0 <=> truth[n].at \in Hearing
         /\ truth[n].noted # 0 =>
              /\ truth[n].noted \in 1..Len(events)
              /\ events[truth[n].noted].start = truth[n].start
              /\ events[truth[n].noted].end = truth[n].end
              /\ events[truth[n].noted].generation = truth[n].generation
              /\ events[truth[n].noted].collected = truth[n].collected
    /\ \A m \in 1..Len(events) : \E n \in 1..Len(truth) : truth[n].noted = m
    /\ \A n, k \in 1..Len(truth) : truth[n].noted = truth[k].noted /\ truth[n].noted # 0 => n = k

\* Each request had one collection, of all generations.
Answers ==
    /\ \A n \in 1..Len(truth) : truth[n].asked # 0 =>
         /\ truth[n].asked \in 1..Len(returned)
         /\ returned[truth[n].asked] = truth[n].collected
         /\ truth[n].generation = 2 /\ truth[n].at = Asks[truth[n].asked]
    /\ \A i \in 1..Len(returned) : \E n \in 1..Len(truth) : truth[n].asked = i
    /\ \A n, k \in 1..Len(truth) : truth[n].asked = truth[k].asked /\ truth[n].asked # 0 => n = k
    /\ Len(returned) <= Requests
    /\ \A i \in 1..Requests : i <= Len(returned) <=> Asks[i] < steps

\* The collector has counted the collections so far, at each milestone as well.
Counted ==
    /\ stats = CountsOf(truth, 1..Len(truth))
    /\ \A k \in 1..steps : states[k].stats = CountsOf(truth, {n \in 1..Len(truth) : truth[n].at < k})

\* Automatic collections are only ever off in a probe, until its first request.
Switched ==
    /\ Timed => enabled /\ \A k \in 1..steps : states[k].enabled
    /\ ~Timed =>
         /\ steps \in {0, 1, 10, 11} => enabled
         /\ steps \in {2, 3} => ~enabled
         /\ 1 <= steps => states[1].enabled
         /\ 3 <= steps => ~states[3].enabled
         /\ 11 <= steps => states[11].enabled

Recording == Recorded /\ Ordered /\ Exact /\ Notes /\ Answers /\ Counted /\ Switched

\* The milestones of a probe.
LEMMA ProbeMilestones ==
    ASSUME worker \in Workers, ~Timed
    PROVE  /\ DOMAIN program = 1..11 /\ Len(program) = 11
           /\ program[1] = <<"before", 0>> /\ program[2] = <<"disable", 0>>
           /\ program[3] = <<"before_preparation", 0>> /\ program[4] = <<"collect", 0>>
           /\ program[5] = <<"before_measured", 0>> /\ program[6] = <<"start", 0>>
           /\ program[7] = <<"collect", 0>> /\ program[8] = <<"end", 0>>
           /\ program[9] = <<"after_measured", 0>> /\ program[10] = <<"enable", 0>>
           /\ program[11] = <<"restored", 0>>
<1>1. program = CollectPair
  BY DEF program, Program, Timed
<1>2. /\ DOMAIN program = 1..11 /\ program = [i \in 1..11 |-> program[i]]
      /\ program[1] = <<"before", 0>> /\ program[2] = <<"disable", 0>>
      /\ program[3] = <<"before_preparation", 0>> /\ program[4] = <<"collect", 0>>
      /\ program[5] = <<"before_measured", 0>> /\ program[6] = <<"start", 0>>
      /\ program[7] = <<"collect", 0>> /\ program[8] = <<"end", 0>>
      /\ program[9] = <<"after_measured", 0>> /\ program[10] = <<"enable", 0>>
      /\ program[11] = <<"restored", 0>>
  BY <1>1 DEF CollectPair
<1>3. Len(program) = 11
  <2>1. 11 \in Nat
    OBVIOUS
  <2>2. QED
    BY <1>2, <2>1, LengthOf
<1>4. QED
  BY <1>2, <1>3

\* The milestones before the first read.
LEMMA OpeningMilestones ==
    ASSUME GcTimelineConstants, worker \in Workers, Timed
    PROVE  /\ program[1] = <<"scope_before", 0>> /\ program[2] = <<"scope_start", 0>>
           /\ program[3] = <<"listen", 0>> /\ program[4] = <<"call_start", 0>>
           /\ Request = 1 => program[5] = <<"collect", 0>>
           /\ program[5 + Request] = <<"call_end", 0>> /\ program[6 + Request] = <<"deafen", 0>>
           /\ program[7 + Request] = <<"scope_end", 0>> /\ program[8 + Request] = <<"scope_after", 0>>
           /\ program[9 + Request] = <<"loop_start", 0>> /\ program[10 + Request] = <<"listen", 0>>
<1>1. \A k \in 1..Opening : program[k] = <<Conditioning(worker[2])[k], 0>>
  BY TimedMilestones
<1>2. worker[2] \in BOOLEAN
  BY Told
<1>3. CASE worker[2]
  <2>1. Request = 1 /\ Opening = 11
    BY <1>3 DEF Request, Opening
  <2>2. \A k \in 1..11 : program[k] = <<Conditioning(TRUE)[k], 0>>
    <3>1. worker[2] = TRUE
      BY <1>3, <1>2
    <3>2. QED
      BY <1>1, <2>1, <3>1
  <2>3. /\ program[1] = <<"scope_before", 0>> /\ program[2] = <<"scope_start", 0>>
        /\ program[3] = <<"listen", 0>> /\ program[4] = <<"call_start", 0>>
        /\ program[5] = <<"collect", 0>> /\ program[6] = <<"call_end", 0>> /\ program[7] = <<"deafen", 0>>
        /\ program[8] = <<"scope_end", 0>> /\ program[9] = <<"scope_after", 0>>
        /\ program[10] = <<"loop_start", 0>> /\ program[11] = <<"listen", 0>>
    BY <2>2 DEF Conditioning
  <2>4. QED
    BY <2>1, <2>3
<1>4. CASE ~worker[2]
  <2>1. Request = 0 /\ Opening = 10
    BY <1>4 DEF Request, Opening
  <2>2. \A k \in 1..10 : program[k] = <<Conditioning(FALSE)[k], 0>>
    <3>1. worker[2] = FALSE
      BY <1>4, <1>2
    <3>2. QED
      BY <1>1, <2>1, <3>1
  <2>3. /\ program[1] = <<"scope_before", 0>> /\ program[2] = <<"scope_start", 0>>
        /\ program[3] = <<"listen", 0>> /\ program[4] = <<"call_start", 0>>
        /\ program[5] = <<"call_end", 0>> /\ program[6] = <<"deafen", 0>>
        /\ program[7] = <<"scope_end", 0>> /\ program[8] = <<"scope_after", 0>>
        /\ program[9] = <<"loop_start", 0>> /\ program[10] = <<"listen", 0>>
    BY <2>2 DEF Conditioning
  <2>4. QED
    BY <2>1, <2>3
<1>5. QED
  BY <1>2, <1>3, <1>4

\* The milestones of a read.
LEMMA ReadMilestones ==
    ASSUME GcTimelineConstants, worker \in Workers, Timed, NEW r \in 1..Reads
    PROVE  /\ program[Turn(r) + 1] = <<"op_start", r>> /\ program[Turn(r) + 2] = <<"op_end", r>>
           /\ program[Turn(r) + Width] = <<"released", r>>
           /\ worker[3] => /\ Width = 5 /\ program[Turn(r) + 3] = <<"validation_start", r>>
                           /\ program[Turn(r) + 4] = <<"validation_end", r>>
           /\ ~worker[3] => Width = 3
<1>1. \A j \in 1..Width : program[Turn(r) + j] = <<Read(worker[3])[j], r>>
  BY TimedMilestones
<1>2. worker[3] \in BOOLEAN
  BY Told
<1>3. CASE worker[3]
  <2>1. Width = 5 /\ worker[3] = TRUE
    BY <1>2, <1>3 DEF Width
  <2>2. \A j \in 1..5 : program[Turn(r) + j] = <<Read(TRUE)[j], r>>
    BY <1>1, <2>1
  <2>3. /\ Read(TRUE)[1] = "op_start" /\ Read(TRUE)[2] = "op_end" /\ Read(TRUE)[3] = "validation_start"
        /\ Read(TRUE)[4] = "validation_end" /\ Read(TRUE)[5] = "released"
    BY DEF Read
  <2>4. /\ program[Turn(r) + 1] = <<"op_start", r>> /\ program[Turn(r) + 2] = <<"op_end", r>>
        /\ program[Turn(r) + 3] = <<"validation_start", r>> /\ program[Turn(r) + 4] = <<"validation_end", r>>
        /\ program[Turn(r) + 5] = <<"released", r>>
    <3>1. 1 \in 1..5 /\ 2 \in 1..5 /\ 3 \in 1..5 /\ 4 \in 1..5 /\ 5 \in 1..5
      OBVIOUS
    <3>2. QED
      BY <2>2, <2>3, <3>1
  <2>5. QED
    BY <1>3, <2>1, <2>4
<1>4. CASE ~worker[3]
  <2>1. Width = 3 /\ worker[3] = FALSE
    BY <1>2, <1>4 DEF Width
  <2>2. \A j \in 1..3 : program[Turn(r) + j] = <<Read(FALSE)[j], r>>
    BY <1>1, <2>1
  <2>3. Read(FALSE)[1] = "op_start" /\ Read(FALSE)[2] = "op_end" /\ Read(FALSE)[3] = "released"
    BY DEF Read
  <2>4. /\ program[Turn(r) + 1] = <<"op_start", r>> /\ program[Turn(r) + 2] = <<"op_end", r>>
        /\ program[Turn(r) + 3] = <<"released", r>>
    <3>1. 1 \in 1..3 /\ 2 \in 1..3 /\ 3 \in 1..3
      OBVIOUS
    <3>2. QED
      BY <2>2, <2>3, <3>1
  <2>5. QED
    BY <1>4, <2>1, <2>4
<1>5. QED
  BY <1>2, <1>3, <1>4

\* What a milestone within a read is called.
LEMMA NamesInRead ==
    ASSUME GcTimelineConstants, worker \in Workers, Timed, NEW k \in DOMAIN program, k > Opening, k <= Ending
    PROVE  Name(k) \in {"op_start", "op_end", "validation_start", "validation_end", "released"}
<1>1. PICK r \in 1..Reads, j \in 1..Width : k = Turn(r) + j
  BY TimedMilestones
<1>2. program[k] = <<Read(worker[3])[j], r>>
  BY <1>1, TimedMilestones
<1>3. worker[3] \in BOOLEAN /\ j \in 1..(IF worker[3] THEN 5 ELSE 3)
  BY <1>1, Told DEF Width
<1>4. Read(worker[3])[j] \in {"op_start", "op_end", "validation_start", "validation_end", "released"}
  <2>1. CASE worker[3]
    BY <1>3, <2>1 DEF Read
  <2>2. CASE ~worker[3]
    BY <1>3, <2>2 DEF Read
  <2>3. QED
    BY <2>1, <2>2
<1>5. QED
  BY <1>2, <1>4 DEF Name

\* Where collections are requested, and where the callback comes and goes, and
\* automatic collections are switched off and on.
LEMMA TimedNames ==
    ASSUME GcTimelineConstants, worker \in Workers, Timed, NEW k \in DOMAIN program
    PROVE  /\ Name(k) = "collect" <=> Request = 1 /\ k = 5
           /\ Name(k) = "listen" <=> k = 3 \/ k = Opening
           /\ Name(k) = "deafen" <=> k = 6 + Request \/ k = Ending + 1
           /\ Name(k) # "disable" /\ Name(k) # "enable"
<1>1. /\ DOMAIN program = 1..Ending + 2 /\ Opening = 10 + Request /\ Ending \in Nat /\ Opening < Ending
      /\ Request \in {0, 1}
  BY TimedMilestones, Told DEF Opening
<1>2. CASE k <= Opening
  <2>1. /\ Name(1) = "scope_before" /\ Name(2) = "scope_start" /\ Name(3) = "listen" /\ Name(4) = "call_start"
        /\ Request = 1 => Name(5) = "collect"
        /\ Name(5 + Request) = "call_end" /\ Name(6 + Request) = "deafen" /\ Name(7 + Request) = "scope_end"
        /\ Name(8 + Request) = "scope_after" /\ Name(9 + Request) = "loop_start" /\ Name(10 + Request) = "listen"
    BY OpeningMilestones DEF Name
  <2>2. k \in Nat /\ 1 <= k /\ k <= Opening
    BY <1>1, <1>2
  <2>3. CASE Request = 0
    <3>1. Opening = 10 /\ (k = 1 \/ k = 2 \/ k = 3 \/ k = 4 \/ k = 5 \/ k = 6 \/ k = 7 \/ k = 8 \/ k = 9 \/ k = 10)
      BY <1>1, <2>2, <2>3
    <3>2. k # Ending + 1
      BY <1>1, <2>2
    <3>3. QED
      BY <2>1, <2>3, <3>1, <3>2
  <2>4. CASE Request = 1
    <3>1. /\ Opening = 11
          /\ k = 1 \/ k = 2 \/ k = 3 \/ k = 4 \/ k = 5 \/ k = 6 \/ k = 7 \/ k = 8 \/ k = 9 \/ k = 10 \/ k = 11
      BY <1>1, <2>2, <2>4
    <3>2. k # Ending + 1
      BY <1>1, <2>2
    <3>3. QED
      BY <2>1, <2>4, <3>1, <3>2
  <2>5. QED
    BY <1>1, <2>3, <2>4
<1>3. CASE k > Opening /\ k <= Ending
  BY <1>1, <1>3, NamesInRead
<1>4. CASE k = Ending + 1
  BY <1>1, <1>4, TimedMilestones DEF Name
<1>5. CASE k = Ending + 2
  BY <1>1, <1>5, TimedMilestones DEF Name
<1>6. QED
  BY <1>1, <1>2, <1>3, <1>4, <1>5

\* The same of a probe.
LEMMA ProbeNames ==
    ASSUME worker \in Workers, ~Timed, NEW k \in DOMAIN program
    PROVE  /\ Name(k) = "collect" <=> k = 4 \/ k = 7
           /\ Name(k) # "listen" /\ Name(k) # "deafen"
           /\ Name(k) = "disable" <=> k = 2
           /\ Name(k) = "enable" <=> k = 10
<1>1. k \in {1, 2, 3, 4, 5, 6, 7, 8, 9, 10, 11}
  BY ProbeMilestones
<1>2. QED
  BY <1>1, ProbeMilestones DEF Name

\* Collections are requested where it is said they are, and the callback is there
\* from its installation to its removal.
LEMMA Milestone ==
    ASSUME GcTimelineConstants, worker \in Workers, NEW k \in Nat, k < Len(program)
    PROVE  /\ k + 1 \in DOMAIN program
           /\ Name(k + 1) = "collect" <=> \E i \in 1..Requests : Asks[i] = k
           /\ Name(k + 1) = "collect" => (k + 1 \in Hearing <=> k \in Hearing)
           /\ Name(k + 1) = "listen" => k + 1 \in Hearing
           /\ Name(k + 1) = "deafen" => k + 1 \notin Hearing
           /\ Name(k + 1) \notin {"listen", "deafen"} => (k + 1 \in Hearing <=> k \in Hearing)
<1>1. CASE Timed
  <2>1. /\ DOMAIN program = 1..Ending + 2 /\ Len(program) = Ending + 2
        /\ Opening = 10 + Request /\ Ending \in Nat /\ Opening < Ending
        /\ Request \in {0, 1} /\ k + 1 \in DOMAIN program
    <3>1. DOMAIN program = 1..Ending + 2 /\ Len(program) = Ending + 2
      BY <1>1, TimedMilestones
    <3>2. Opening = 10 + Request /\ Ending \in Nat /\ Opening < Ending /\ Request \in {0, 1}
      BY <1>1, Told DEF Opening
    <3>3. k + 1 \in 1..Ending + 2
      BY <3>1, <3>2
    <3>4. QED
      BY <3>1, <3>2, <3>3
  <2>2. /\ Name(k + 1) = "collect" <=> Request = 1 /\ k = 4
        /\ Name(k + 1) = "listen" <=> k = 2 \/ k + 1 = Opening
        /\ Name(k + 1) = "deafen" <=> k = 5 + Request \/ k = Ending
    <3>1. /\ Name(k + 1) = "collect" <=> Request = 1 /\ k + 1 = 5
          /\ Name(k + 1) = "listen" <=> k + 1 = 3 \/ k + 1 = Opening
          /\ Name(k + 1) = "deafen" <=> k + 1 = 6 + Request \/ k + 1 = Ending + 1
      BY <1>1, <2>1, TimedNames
    <3>2. QED
      BY <2>1, <3>1
  <2>3. Requests = Request /\ \A i \in 1..Requests : Asks[i] = 4
    BY <1>1 DEF Requests, Asks
  <2>4. \A j \in Nat : j \in Hearing <=> j \in 3..5 + Request \/ j \in Opening..Ending
    BY <1>1 DEF Hearing
  <2>5. Name(k + 1) = "collect" <=> \E i \in 1..Requests : Asks[i] = k
    BY <2>1, <2>2, <2>3
  <2>6. QED
    BY <2>1, <2>2, <2>4, <2>5
<1>2. CASE ~Timed
  <2>1. DOMAIN program = 1..11 /\ Len(program) = 11 /\ k + 1 \in DOMAIN program
    <3>1. DOMAIN program = 1..11 /\ Len(program) = 11
      BY <1>2, ProbeMilestones
    <3>2. k + 1 \in 1..11
      BY <3>1
    <3>3. QED
      BY <3>1, <3>2
  <2>2. /\ Name(k + 1) = "collect" <=> k = 3 \/ k = 6
        /\ Name(k + 1) # "listen" /\ Name(k + 1) # "deafen"
    BY <1>2, <2>1, ProbeNames
  <2>3. Requests = 2 /\ \A i \in 1..Requests : Asks[i] = 3 * i
    BY <1>2 DEF Requests, Asks
  <2>4. Name(k + 1) = "collect" <=> \E i \in 1..Requests : Asks[i] = k
    <3>1. 1..Requests = {1, 2} /\ Asks[1] = 3 /\ Asks[2] = 6
      BY <2>3
    <3>2. QED
      BY <2>2, <3>1
  <2>5. k \notin Hearing /\ k + 1 \notin Hearing
    BY <1>2 DEF Hearing
  <2>6. QED
    BY <2>1, <2>2, <2>4, <2>5
<1>3. QED
  BY <1>1, <1>2

\* Requests come one after the other, none at the very beginning.
LEMMA AsksGrow ==
    ASSUME GcTimelineConstants, worker \in Workers
    PROVE  /\ Requests \in Nat /\ \A i \in 1..Requests : Asks[i] \in Nat /\ Asks[i] >= 3
           /\ \A i, j \in 1..Requests : i < j => Asks[i] < Asks[j]
           /\ 0 \notin Hearing
<1>1. CASE Timed
  <2>1. Request \in {0, 1} /\ Requests = Request /\ Opening = 10 + Request
    BY <1>1, Told DEF Requests, Opening
  <2>2. \A i \in 1..Requests : Asks[i] = 4
    BY <1>1 DEF Asks
  <2>3. Hearing = (3..5 + Request) \cup (Opening..Ending)
    BY <1>1 DEF Hearing
  <2>4. QED
    BY <2>1, <2>2, <2>3
<1>2. CASE ~Timed
  <2>1. Requests = 2
    BY <1>2 DEF Requests
  <2>2. \A i \in 1..Requests : Asks[i] = 3 * i
    BY <1>2 DEF Asks
  <2>3. QED
    BY <1>2, <2>1, <2>2 DEF Hearing
<1>3. QED
  BY <1>1, <1>2

----------------------------------------------------------------------------
(* Sums, and what the collector counts.                                    *)

\* What Total counts.
Pairs(f) == UNION {{n} \X (1..f[n]) : n \in DOMAIN f}

\* A pair of a number of the sum.
LEMMA InPairs ==
    ASSUME NEW S, NEW f, DOMAIN f = S
    PROVE  /\ \A n \in S : \A i \in 1..f[n] : <<n, i>> \in Pairs(f)
           /\ \A p \in Pairs(f) : p[1] \in S /\ p[2] \in 1..f[p[1]] /\ p = <<p[1], p[2]>>
BY DEF Pairs

\* A sum of finitely many numbers is a number.
LEMMA TotalNat ==
    ASSUME NEW S, IsFiniteSet(S), NEW f \in [S -> Nat]
    PROVE  IsFiniteSet(Pairs(f)) /\ Total(f) = Cardinality(Pairs(f)) /\ Total(f) \in Nat
<1> DEFINE part == [n \in S |-> {n} \X (1..f[n])]
           T == {part[n] : n \in S}
<1>1. part \in Surjection(S, T)
  BY DEF Surjection
<1>2. IsFiniteSet(T)
  BY <1>1, FS_Surjection
<1>3. ASSUME NEW n \in S
      PROVE  IsFiniteSet(part[n])
  <2>1. IsFiniteSet({n}) /\ IsFiniteSet(1..f[n])
    <3>1. 1 \in Int /\ f[n] \in Int
      OBVIOUS
    <3>2. IsFiniteSet(1..f[n])
      BY <3>1, FS_Interval
    <3>3. QED
      BY <3>2, FS_Singleton
  <2>2. IsFiniteSet({n} \X (1..f[n]))
    BY <2>1, FS_Product
  <2>3. QED
    BY <2>2
<1>4. \A U \in T : IsFiniteSet(U)
  BY <1>3
<1>5. IsFiniteSet(UNION T)
  BY <1>2, <1>4, FS_UNION
<1>6. UNION T = Pairs(f)
  BY DEF Pairs
<1>7. QED
  BY <1>5, <1>6, FS_CardinalityType DEF Total, Pairs

\* A map that is one to one and leaves nothing out is a bijection, and conversely.
LEMMA OneToOne ==
    ASSUME NEW R, NEW S, NEW b
    PROVE  b \in Bijection(R, S) <=> /\ b \in [R -> S]
                                     /\ \A n, k \in R : b[n] = b[k] => n = k
                                     /\ \A m \in S : \E n \in R : b[n] = m
BY DEF Bijection, Injection, Surjection, IsInjective

\* Two sums are equal when each number of the one is one of the other, and the
\* rest of those are zero.
LEMMA TotalMatched ==
    ASSUME NEW R, IsFiniteSet(R), NEW S, NEW b \in Bijection(R, S),
           NEW P, P \subseteq R, NEW d \in [P -> Nat], NEW f, DOMAIN f = S,
           \A n \in P : f[b[n]] = d[n], \A n \in R : n \notin P => f[b[n]] = 0
    PROVE  Total(f) = Total(d)
<1>0. /\ b \in [R -> S]
      /\ \A n, k \in R : b[n] = b[k] => n = k
      /\ \A m \in S : \E n \in R : b[n] = m
  BY OneToOne
<1>1. IsFiniteSet(P)
  BY FS_Subset
<1>2. IsFiniteSet(Pairs(d)) /\ Total(d) = Cardinality(Pairs(d))
  BY <1>1, TotalNat
<1> DEFINE h == [p \in Pairs(d) |-> <<b[p[1]], p[2]>>]
<1>3. DOMAIN d = P
  OBVIOUS
<1>4. \A p \in Pairs(d) : p[1] \in P /\ p[2] \in 1..d[p[1]] /\ p = <<p[1], p[2]>>
  BY <1>3, InPairs
<1>5. \A p \in Pairs(d) : h[p] \in Pairs(f)
  <2>1. ASSUME NEW p \in Pairs(d)
        PROVE  <<b[p[1]], p[2]>> \in Pairs(f)
    <3>1. p[1] \in P /\ p[2] \in 1..d[p[1]]
      BY <1>4
    <3>2. b[p[1]] \in S /\ p[2] \in 1..f[b[p[1]]]
      BY <1>0, <3>1
    <3>3. QED
      BY <3>2, InPairs
  <2>2. QED
    BY <2>1
<1>6. \A p, q \in Pairs(d) : h[p] = h[q] => p = q
  <2>1. ASSUME NEW p \in Pairs(d), NEW q \in Pairs(d), h[p] = h[q]
        PROVE  p = q
    <3>1. b[p[1]] = b[q[1]] /\ p[2] = q[2]
      BY <2>1
    <3>2. p[1] \in R /\ q[1] \in R
      BY <1>4
    <3>3. p[1] = q[1]
      BY <1>0, <3>1, <3>2
    <3>4. QED
      BY <1>4, <3>1, <3>3
  <2>2. QED
    BY <2>1
<1>7. \A q \in Pairs(f) : \E p \in Pairs(d) : h[p] = q
  <2>1. ASSUME NEW q \in Pairs(f)
        PROVE  \E p \in Pairs(d) : h[p] = q
    <3>1. q[1] \in S /\ q[2] \in 1..f[q[1]] /\ q = <<q[1], q[2]>>
      BY InPairs
    <3>2. PICK n \in R : b[n] = q[1]
      BY <1>0, <3>1
    <3>3. n \in P
      <4>1. CASE n \notin P
        BY <3>1, <3>2, <4>1
      <4>2. QED
        BY <4>1
    <3>4. q[2] \in 1..d[n]
      BY <3>1, <3>2, <3>3
    <3>5. <<n, q[2]>> \in Pairs(d)
      BY <1>3, <3>3, <3>4, InPairs
    <3>6. h[<<n, q[2]>>] = <<b[n], q[2]>>
      BY <3>5
    <3>7. QED
      BY <3>1, <3>2, <3>5, <3>6
  <2>2. QED
    BY <2>1
<1>8. h \in Bijection(Pairs(d), Pairs(f))
  <2>1. h \in [Pairs(d) -> Pairs(f)]
    BY <1>5
  <2>2. h \in Injection(Pairs(d), Pairs(f))
    <3> HIDE DEF h
    <3>1. QED
      BY <1>6, <2>1 DEF Injection, IsInjective
  <2>3. h \in Surjection(Pairs(d), Pairs(f))
    <3> HIDE DEF h
    <3>1. QED
      BY <1>7, <2>1 DEF Surjection
  <2>4. QED
    BY <2>2, <2>3 DEF Bijection
<1> HIDE DEF h
<1>9. Cardinality(Pairs(f)) = Cardinality(Pairs(d))
  BY <1>2, <1>8, FS_Bijection DEF ExistsBijection
<1>10. QED
  BY <1>2, <1>9 DEF Total, Pairs

\* Two sums are equal when the numbers of the one are those of the other.
LEMMA TotalSame ==
    ASSUME NEW R, IsFiniteSet(R), NEW S, NEW b \in Bijection(R, S),
           NEW d \in [R -> Nat], NEW f, DOMAIN f = S, \A n \in R : f[b[n]] = d[n]
    PROVE  Total(f) = Total(d)
<1> DEFINE P == R
<1>1. P \subseteq R /\ d \in [P -> Nat] /\ (\A n \in P : f[b[n]] = d[n]) /\ \A n \in R : n \notin P => f[b[n]] = 0
  OBVIOUS
<1> HIDE DEF P
<1>2. QED
  BY <1>1, TotalMatched

\* A sum over two disjoint sets.
LEMMA TotalJoin ==
    ASSUME NEW S, IsFiniteSet(S), NEW T, IsFiniteSet(T), S \cap T = {}, NEW f \in [S \cup T -> Nat]
    PROVE  Total(f) = Total([n \in S |-> f[n]]) + Total([n \in T |-> f[n]])
<1> DEFINE s == [n \in S |-> f[n]]
           t == [n \in T |-> f[n]]
<1>1. /\ IsFiniteSet(Pairs(s)) /\ Total(s) = Cardinality(Pairs(s)) /\ Total(s) \in Nat
      /\ IsFiniteSet(Pairs(t)) /\ Total(t) = Cardinality(Pairs(t)) /\ Total(t) \in Nat
  <2>1. s \in [S -> Nat] /\ t \in [T -> Nat]
    OBVIOUS
  <2> HIDE DEF s, t
  <2>2. QED
    BY <2>1, TotalNat
<1>2. Pairs(f) = Pairs(s) \cup Pairs(t)
  BY DEF Pairs
<1>3. Pairs(s) \cap Pairs(t) = {}
  BY DEF Pairs
<1> HIDE DEF s, t
<1>4. Cardinality(Pairs(f)) = Cardinality(Pairs(s)) + Cardinality(Pairs(t)) - 0
  <2>1. Cardinality(Pairs(s) \cup Pairs(t))
          = Cardinality(Pairs(s)) + Cardinality(Pairs(t)) - Cardinality(Pairs(s) \cap Pairs(t))
    BY <1>1, FS_Union
  <2>2. Cardinality(Pairs(s) \cap Pairs(t)) = 0
    BY <1>3, FS_EmptySet
  <2>3. QED
    BY <1>2, <2>1, <2>2
<1>5. Total(f) = Cardinality(Pairs(f))
  BY DEF Total, Pairs
<1>6. QED
  BY <1>1, <1>4, <1>5 DEF s, t

\* A sum that has one number that is not zero, or none.
LEMMA TotalOnly ==
    ASSUME NEW S, NEW f \in [S -> Nat]
    PROVE  /\ \A a \in S : (\A n \in S : n # a => f[n] = 0) => Total(f) = f[a]
           /\ (\A n \in S : f[n] = 0) => Total(f) = 0
<1>1. ASSUME NEW a \in S, \A n \in S : n # a => f[n] = 0
      PROVE  Total(f) = f[a]
  <2>1. Pairs(f) = {a} \X (1..f[a])
    <3>1. Pairs(f) \subseteq {a} \X (1..f[a])
      <4>1. ASSUME NEW p \in Pairs(f)
            PROVE  p \in {a} \X (1..f[a])
        <5>1. p[1] \in S /\ p[2] \in 1..f[p[1]] /\ p = <<p[1], p[2]>>
          BY InPairs
        <5>2. p[1] = a
          <6>1. CASE p[1] # a
            BY <1>1, <5>1, <6>1
          <6>2. QED
            BY <6>1
        <5>3. QED
          BY <5>1, <5>2
      <4>2. QED
        BY <4>1
    <3>2. \A p \in {a} \X (1..f[a]) : p \in Pairs(f)
      BY DEF Pairs
    <3>3. QED
      BY <3>1, <3>2
  <2>2. /\ IsFiniteSet({a}) /\ Cardinality({a}) = 1
        /\ IsFiniteSet(1..f[a]) /\ Cardinality(1..f[a]) = f[a]
    <3>1. f[a] \in Nat /\ 1 \in Int /\ f[a] \in Int
      OBVIOUS
    <3>2. IsFiniteSet(1..f[a]) /\ Cardinality(1..f[a]) = IF 1 > f[a] THEN 0 ELSE f[a] - 1 + 1
      BY <3>1, FS_Interval
    <3>3. Cardinality(1..f[a]) = f[a]
      BY <3>1, <3>2
    <3>4. QED
      BY <3>2, <3>3, FS_Singleton
  <2>3. Cardinality({a} \X (1..f[a])) = 1 * f[a]
    <3>1. Cardinality({a} \X (1..f[a])) = Cardinality({a}) * Cardinality(1..f[a])
      BY <2>2, FS_Product
    <3>2. QED
      BY <2>2, <3>1
  <2>4. f[a] \in Nat
    OBVIOUS
  <2>5. QED
    BY <2>1, <2>3, <2>4 DEF Total, Pairs
<1>2. ASSUME \A n \in S : f[n] = 0
      PROVE  Total(f) = 0
  <2>1. Pairs(f) = {}
    <3>1. ASSUME NEW p \in Pairs(f)
          PROVE  FALSE
      <4>1. p[1] \in S /\ p[2] \in 1..f[p[1]]
        BY InPairs
      <4>2. QED
        BY <1>2, <4>1
    <3>2. QED
      BY <3>1
  <2>2. QED
    BY <2>1, FS_EmptySet DEF Total, Pairs
<1>3. QED
  BY <1>1, <1>2

\* What the collector counts depends on the collections alone.
LEMMA CountsSame ==
    ASSUME NEW t, NEW u, NEW S, \A n \in S : t[n] = u[n]
    PROVE  CountsOf(t, S) = CountsOf(u, S)
<1>1. \A g \in Generations : {n \in S : t[n].generation = g} = {n \in S : u[n].generation = g}
  OBVIOUS
<1>2. \A g \in Generations :
        [n \in {k \in S : t[k].generation = g} |-> t[n].collected]
          = [n \in {k \in S : u[k].generation = g} |-> u[n].collected]
  BY <1>1
<1>3. QED
  BY <1>1, <1>2 DEF CountsOf

\* Counts are numbers, and those of two disjoint sets of collections add up.
LEMMA CountsJoin ==
    ASSUME NEW t, NEW S, IsFiniteSet(S), NEW T, IsFiniteSet(T), S \cap T = {},
           \A n \in S \cup T : t[n].collected \in Nat
    PROVE  /\ CountsOf(t, S) \in [Generations -> CountRecord]
           /\ \A g \in Generations :
                /\ CountsOf(t, S \cup T)[g].collections
                     = CountsOf(t, S)[g].collections + CountsOf(t, T)[g].collections
                /\ CountsOf(t, S \cup T)[g].collected
                     = CountsOf(t, S)[g].collected + CountsOf(t, T)[g].collected
<1>1. ASSUME NEW g \in Generations
      PROVE  /\ Cardinality({n \in S : t[n].generation = g}) \in Nat
             /\ Total([n \in {k \in S : t[k].generation = g} |-> t[n].collected]) \in Nat
             /\ CountsOf(t, S \cup T)[g].collections
                  = CountsOf(t, S)[g].collections + CountsOf(t, T)[g].collections
             /\ CountsOf(t, S \cup T)[g].collected
                  = CountsOf(t, S)[g].collected + CountsOf(t, T)[g].collected
  <2> DEFINE A == {n \in S : t[n].generation = g}
             B == {n \in T : t[n].generation = g}
             C == {n \in S \cup T : t[n].generation = g}
             f == [n \in A \cup B |-> t[n].collected]
  <2>1. C = A \cup B /\ A \cap B = {}
    OBVIOUS
  <2>2. IsFiniteSet(A) /\ IsFiniteSet(B)
    BY FS_Subset
  <2>3. f \in [A \cup B -> Nat]
    OBVIOUS
  <2>4. /\ [n \in A |-> f[n]] = [n \in A |-> t[n].collected]
        /\ [n \in B |-> f[n]] = [n \in B |-> t[n].collected]
        /\ [n \in C |-> t[n].collected] = f
    BY <2>1
  <2>5. CountsOf(t, S \cup T)[g] = [collections |-> Cardinality(C), collected |-> Total([n \in C |-> t[n].collected])]
    BY DEF CountsOf
  <2>6. CountsOf(t, S)[g] = [collections |-> Cardinality(A), collected |-> Total([n \in A |-> t[n].collected])]
    BY DEF CountsOf
  <2>7. CountsOf(t, T)[g] = [collections |-> Cardinality(B), collected |-> Total([n \in B |-> t[n].collected])]
    BY DEF CountsOf
  <2>8. [n \in A |-> t[n].collected] \in [A -> Nat]
    OBVIOUS
  <2> HIDE DEF A, B, C, f
  <2>9. Cardinality(C) = Cardinality(A) + Cardinality(B)
    <3>1. Cardinality(A \cup B) = Cardinality(A) + Cardinality(B) - Cardinality(A \cap B)
      BY <2>2, FS_Union
    <3>2. Cardinality(A) \in Nat /\ Cardinality(B) \in Nat /\ Cardinality(A \cap B) = 0
      BY <2>1, <2>2, FS_CardinalityType, FS_EmptySet
    <3>3. QED
      BY <2>1, <3>1, <3>2
  <2>10. Total(f) = Total([n \in A |-> f[n]]) + Total([n \in B |-> f[n]])
    BY <2>1, <2>2, <2>3, TotalJoin
  <2>11. Total([n \in A |-> t[n].collected]) \in Nat
    BY <2>2, <2>8, TotalNat
  <2>12. Cardinality(A) \in Nat
    BY <2>2, FS_CardinalityType
  <2>13. QED
    BY <2>4, <2>5, <2>6, <2>7, <2>9, <2>10, <2>11, <2>12 DEF A
<1>2. CountsOf(t, S) \in [Generations -> CountRecord]
  BY <1>1 DEF CountsOf, CountRecord
<1>3. QED
  BY <1>1, <1>2

\* The count of a single collection.
LEMMA CountsOne ==
    ASSUME NEW u, NEW x, NEW g \in Generations, u[x].generation = g, u[x].collected \in Nat
    PROVE  CountsOf(u, {x})[g] = [collections |-> 1, collected |-> u[x].collected]
<1>1. CountsOf(u, {x})[g] = [collections |-> 1, collected |-> u[x].collected]
  <2> DEFINE f == [n \in {x} |-> u[n].collected]
  <2>1. {n \in {x} : u[n].generation = g} = {x}
    OBVIOUS
  <2>2. CountsOf(u, {x})[g] = [collections |-> Cardinality({x}), collected |-> Total(f)]
    BY <2>1 DEF CountsOf
  <2>3. f \in [{x} -> Nat] /\ x \in {x} /\ f[x] = u[x].collected /\ \A n \in {x} : n # x => f[n] = 0
    OBVIOUS
  <2> HIDE DEF f
  <2>4. Total(f) = f[x]
    BY <2>3, TotalOnly
  <2>5. f[x] = u[x].collected
    BY <2>3
  <2>6. Cardinality({x}) = 1
    BY FS_Singleton
  <2>7. QED
    BY <2>2, <2>4, <2>5, <2>6
<1>2. QED
  BY <1>1

\* No collection of a set is of some generation.
LEMMA CountsNone ==
    ASSUME NEW u, NEW S, NEW h \in Generations, \A n \in S : u[n].generation # h
    PROVE  CountsOf(u, S)[h] = [collections |-> 0, collected |-> 0]
<1> DEFINE f == [n \in {} |-> u[n].collected]
<1>1. {n \in S : u[n].generation = h} = {}
  OBVIOUS
<1>2. CountsOf(u, S)[h] = [collections |-> Cardinality({}), collected |-> Total(f)]
  BY <1>1 DEF CountsOf
<1>3. f \in [{} -> Nat] /\ \A n \in {} : f[n] = 0
  OBVIOUS
<1> HIDE DEF f
<1>4. Total(f) = 0
  BY <1>3, TotalOnly
<1>5. QED
  BY <1>2, <1>4, FS_EmptySet

\* One more collection.
LEMMA CountsMore ==
    ASSUME NEW t, NEW u, NEW S, IsFiniteSet(S), NEW x, x \notin S, \A n \in S : t[n] = u[n],
           NEW W, W = S \cup {x}, \A n \in W : u[n].collected \in Nat, NEW g \in Generations, u[x].generation = g
    PROVE  \A h \in Generations :
             CountsOf(u, W)[h] = IF h = g THEN [collections |-> CountsOf(t, S)[h].collections + 1,
                                                collected |-> CountsOf(t, S)[h].collected + u[x].collected]
                                 ELSE CountsOf(t, S)[h]
<1>1. CountsOf(t, S) = CountsOf(u, S)
  BY CountsSame
<1>2. IsFiniteSet({x}) /\ Cardinality({x}) = 1 /\ S \cap {x} = {}
  BY FS_Singleton
<1>3. /\ CountsOf(u, S) \in [Generations -> CountRecord]
      /\ \A h \in Generations :
           /\ CountsOf(u, S \cup {x})[h].collections
                = CountsOf(u, S)[h].collections + CountsOf(u, {x})[h].collections
           /\ CountsOf(u, S \cup {x})[h].collected
                = CountsOf(u, S)[h].collected + CountsOf(u, {x})[h].collected
  <2> DEFINE X == {x}
  <2>1. IsFiniteSet(X) /\ S \cap X = {} /\ \A n \in S \cup X : u[n].collected \in Nat
    BY <1>2
  <2> HIDE DEF X
  <2>2. /\ CountsOf(u, S) \in [Generations -> CountRecord]
        /\ \A h \in Generations :
             /\ CountsOf(u, S \cup X)[h].collections
                  = CountsOf(u, S)[h].collections + CountsOf(u, X)[h].collections
             /\ CountsOf(u, S \cup X)[h].collected
                  = CountsOf(u, S)[h].collected + CountsOf(u, X)[h].collected
    BY <2>1, CountsJoin
  <2>3. QED
    BY <2>2 DEF X
<1>4. CountsOf(u, {x})[g].collections = 1 /\ CountsOf(u, {x})[g].collected = u[x].collected
  <2>1. CountsOf(u, {x})[g] = [collections |-> 1, collected |-> u[x].collected]
    <3>1. u[x].collected \in Nat
      OBVIOUS
    <3>2. QED
      BY <3>1, CountsOne
  <2>2. QED
    BY <2>1
<1>5. \A h \in Generations : h # g => CountsOf(u, {x})[h].collections = 0 /\ CountsOf(u, {x})[h].collected = 0
  <2>1. ASSUME NEW h \in Generations, h # g
        PROVE  CountsOf(u, {x})[h].collections = 0 /\ CountsOf(u, {x})[h].collected = 0
    <3>1. \A n \in {x} : u[n].generation # h
      BY <2>1
    <3>2. CountsOf(u, {x})[h] = [collections |-> 0, collected |-> 0]
      BY <3>1, CountsNone
    <3>3. QED
      BY <3>2
  <2>2. QED
    BY <2>1
<1> DEFINE a == CountsOf(u, S)
           z == CountsOf(u, S \cup {x})
<1>6. \A h \in Generations : /\ a[h] = [collections |-> a[h].collections, collected |-> a[h].collected]
                             /\ a[h].collections \in Nat /\ a[h].collected \in Nat
  BY <1>3 DEF CountRecord
<1>7. \A h \in Generations : z[h] = [collections |-> z[h].collections, collected |-> z[h].collected]
  BY DEF CountsOf
<1>8. \A h \in Generations :
        z[h] = IF h = g THEN [collections |-> a[h].collections + 1, collected |-> a[h].collected + u[x].collected]
               ELSE a[h]
  <2>1. ASSUME NEW h \in Generations
        PROVE  z[h] = IF h = g THEN [collections |-> a[h].collections + 1, collected |-> a[h].collected + u[x].collected]
                      ELSE a[h]
    <3>1. /\ z[h].collections = a[h].collections + CountsOf(u, {x})[h].collections
          /\ z[h].collected = a[h].collected + CountsOf(u, {x})[h].collected
      BY <1>3
    <3> HIDE DEF a, z
    <3>2. CASE h = g
      BY <1>4, <1>7, <3>1, <3>2
    <3>3. CASE h # g
      <4>1. CountsOf(u, {x})[h].collections = 0 /\ CountsOf(u, {x})[h].collected = 0
        BY <1>5, <3>3
      <4>2. a[h].collections \in Nat /\ a[h].collected \in Nat
        BY <1>6
      <4>3. z[h].collections = a[h].collections /\ z[h].collected = a[h].collected
        BY <3>1, <4>1, <4>2
      <4>4. z[h] = a[h]
        BY <1>6, <1>7, <4>3
      <4>5. QED
        BY <3>3, <4>4
    <3>4. QED
      BY <3>2, <3>3
  <2>2. QED
    BY <2>1
<1>9. QED
  BY <1>1, <1>8 DEF a, z

\* Some of the collections are all of them if as many of each generation are.
LEMMA CountsEqual ==
    ASSUME NEW t, NEW D, IsFiniteSet(D), NEW S, S \subseteq D, \A n \in D : t[n].generation \in Generations,
           \A g \in Generations : CountsOf(t, S)[g].collections = CountsOf(t, D)[g].collections
    PROVE  S = D
<1>1. ASSUME NEW n \in D
      PROVE  n \in S
  <2> DEFINE g == t[n].generation
             A == {k \in S : t[k].generation = g}
             B == {k \in D : t[k].generation = g}
  <2>1. CountsOf(t, S)[g].collections = Cardinality(A) /\ CountsOf(t, D)[g].collections = Cardinality(B)
    BY DEF CountsOf
  <2>2. A \in SUBSET B /\ IsFiniteSet(B) /\ n \in B
    <3>1. IsFiniteSet(B)
      BY FS_Subset
    <3>2. QED
      BY <3>1
  <2>3. Cardinality(A) = Cardinality(B)
    BY <2>1
  <2>4. n \in A => n \in S
    OBVIOUS
  <2> HIDE DEF A, B
  <2>5. A = B
    BY <2>2, <2>3, FS_Subset
  <2>6. QED
    BY <2>2, <2>4, <2>5
<1>2. QED
  BY <1>1

----------------------------------------------------------------------------
(* The invariant holds at first, and every step keeps it.                  *)

\* The program depends on the worker alone.
LEMMA SameWorker ==
    ASSUME worker' = worker
    PROVE  program' = program /\ Hearing' = Hearing /\ Asks' = Asks /\ Requests' = Requests /\ (Timed' <=> Timed)
<1>1. Timed' <=> Timed
  BY DEF Timed
<1>2. program' = program
  BY DEF program
<1>3. Request' = Request /\ Width' = Width
  BY DEF Request, Width
<1>4. Opening' = Opening
  BY <1>3 DEF Opening
<1>5. Ending' = Ending
  BY <1>3, <1>4 DEF Ending
<1>6. Hearing' = Hearing
  BY <1>1, <1>3, <1>4, <1>5 DEF Hearing
<1>7. Requests' = Requests
  BY <1>1, <1>3 DEF Requests
<1>8. Asks' = Asks
  BY <1>1, <1>7 DEF Asks
<1>9. QED
  BY <1>1, <1>2, <1>6, <1>7, <1>8

\* Nothing has been collected at first.
LEMMA RecordingStarts ==
    ASSUME GcTimelineConstants, TimelineInit
    PROVE  Recording
<1>1. /\ worker \in Workers /\ steps = 0 /\ clock = 0 /\ enabled = TRUE /\ listening = FALSE /\ stats = NoStats
      /\ times = <<>> /\ states = <<>> /\ returned = <<>> /\ events = <<>> /\ truth = <<>>
  BY DEF TimelineInit
<1>2. Len(program) \in Nat
  <2>1. CASE Timed
    BY <1>1, <2>1, TimedMilestones, Told
  <2>2. CASE ~Timed
    BY <1>1, <2>2, ProbeMilestones
  <2>3. QED
    BY <2>1, <2>2
<1>3. Recorded
  BY <1>1, <1>2 DEF Recorded
<1>4. Ordered
  BY <1>1 DEF Ordered
<1>5. Exact
  BY <1>1 DEF Exact
<1>6. Notes
  <2>1. listening = FALSE /\ (steps \in Hearing) = FALSE
    BY <1>1, AsksGrow
  <2>2. listening = (steps \in Hearing)
    BY <2>1
  <2>3. Len(truth) = 0 /\ Len(events) = 0
    BY <1>1
  <2>4. QED
    BY <2>2, <2>3 DEF Notes
<1>7. Answers
  <2>1. Requests \in Nat /\ \A i \in 1..Requests : Asks[i] \in Nat /\ Asks[i] >= 3
    BY <1>1, AsksGrow
  <2>2. QED
    BY <1>1, <2>1 DEF Answers
<1>8. Counted
  <2>1. 1..Len(truth) = {} /\ 1..steps = {}
    BY <1>1
  <2>2. \A g \in Generations : CountsOf(truth, {})[g] = [collections |-> 0, collected |-> 0]
    BY CountsNone
  <2>3. CountsOf(truth, {}) = NoStats
    <3>1. CountsOf(truth, {}) = [g \in Generations |-> CountsOf(truth, {})[g]]
      BY DEF CountsOf
    <3>2. QED
      BY <2>2, <3>1 DEF NoStats
  <2>4. QED
    BY <1>1, <2>1, <2>3 DEF Counted
<1>9. Switched
  BY <1>1 DEF Switched
<1>10. QED
  BY <1>3, <1>4, <1>5, <1>6, <1>7, <1>8, <1>9 DEF Recording

\* What passing a milestone records.
LEMMA Passing ==
    ASSUME GcTimelineConstants, Recording, ~done, Passed(clock'), clock' \in Nat,
           stats' \in [Generations -> CountRecord]
    PROVE  /\ worker' = worker /\ steps' = steps + 1 /\ steps \in Nat /\ steps < Len(program)
           /\ worker' \in Workers /\ steps' \in Nat /\ steps' <= Len(program')
           /\ times' \in Seq(Nat) /\ Len(times') = steps + 1 /\ times'[steps + 1] = clock'
           /\ \A k \in 1..steps : times'[k] = times[k] /\ states'[k] = states[k]
           /\ states' \in Seq(StateRecord) /\ Len(states') = steps + 1
           /\ states'[steps + 1].stats = stats' /\ states'[steps + 1].enabled = enabled
<1>1. /\ steps' = steps + 1 /\ worker' = worker /\ times' = Append(times, clock')
      /\ states' = Append(states, [enabled |-> enabled, stats |-> stats'])
  BY DEF Passed
<1>2. /\ worker \in Workers /\ steps \in Nat /\ steps <= Len(program) /\ times \in Seq(Nat) /\ Len(times) = steps
      /\ states \in Seq(StateRecord) /\ Len(states) = steps /\ enabled \in BOOLEAN
  BY DEF Recording, Recorded
<1>3. Len(program) \in Nat
  <2>1. CASE Timed
    BY <1>2, <2>1, TimedMilestones, Told
  <2>2. CASE ~Timed
    BY <1>2, <2>2, ProbeMilestones
  <2>3. QED
    BY <2>1, <2>2
<1>4. steps < Len(program) /\ steps' <= Len(program')
  <2>1. steps # Len(program)
    BY DEF done
  <2>2. program' = program
    BY <1>1, SameWorker
  <2>3. QED
    BY <1>1, <1>2, <1>3, <2>1, <2>2
<1>5. /\ times' \in Seq(Nat) /\ Len(times') = steps + 1 /\ times'[steps + 1] = clock'
      /\ \A k \in 1..steps : times'[k] = times[k]
  BY <1>1, <1>2, Appended
<1> DEFINE r == [enabled |-> enabled, stats |-> stats']
<1>6. r \in StateRecord /\ r.stats = stats' /\ r.enabled = enabled
  BY <1>2 DEF StateRecord
<1>7. states' = Append(states, r)
  BY <1>1
<1> HIDE DEF r
<1>8. /\ states' \in Seq(StateRecord) /\ Len(states') = steps + 1 /\ states'[steps + 1] = r
      /\ \A k \in 1..steps : states'[k] = states[k]
  BY <1>2, <1>6, <1>7, Appended
<1>9. QED
  BY <1>1, <1>2, <1>4, <1>5, <1>6, <1>8

\* What a collection adds.
LEMMA Collecting ==
    ASSUME GcTimelineConstants, Recording, NEW g \in {0, 2}, NEW ns \in 1..MaxPause, NEW freed \in 0..MaxFreed,
           NEW asked \in Nat, Collect(g, ns, freed, asked)
    PROVE  /\ clock' = clock + 1 + ns /\ clock \in Nat /\ clock' \in Nat /\ clock' > clock + 1
           /\ enabled' \in BOOLEAN /\ enabled' \in {enabled, TRUE} /\ freed \in Nat
           /\ truth' \in Seq(TruthRecord) /\ Len(truth') = Len(truth) + 1 /\ Len(truth) \in Nat
           /\ \A n \in 1..Len(truth) : truth'[n] = truth[n]
           /\ truth'[Len(truth) + 1].at = steps /\ truth'[Len(truth) + 1].start = clock + 1
           /\ truth'[Len(truth) + 1].end = clock' /\ truth'[Len(truth) + 1].generation = g
           /\ truth'[Len(truth) + 1].collected = freed /\ truth'[Len(truth) + 1].asked = asked
           /\ truth'[Len(truth) + 1].noted = IF listening THEN Len(events) + 1 ELSE 0
           /\ events' \in Seq(EventRecord) /\ Len(events) \in Nat
           /\ \A m \in 1..Len(events) : events'[m] = events[m]
           /\ listening  => /\ Len(events') = Len(events) + 1
                            /\ events'[Len(events) + 1].start = clock + 1 /\ events'[Len(events) + 1].end = clock'
                            /\ events'[Len(events) + 1].generation = g /\ events'[Len(events) + 1].collected = freed
           /\ ~listening => Len(events') = Len(events)
           /\ stats' \in [Generations -> CountRecord] /\ stats' = CountsOf(truth', 1..Len(truth'))
<1> DEFINE e == [start |-> clock + 1, end |-> clock', generation |-> g, collected |-> freed]
           x == [at |-> steps, start |-> clock + 1, end |-> clock', generation |-> g,
                 collected |-> freed, asked |-> asked,
                 noted |-> IF listening THEN Len(events) + 1 ELSE 0]
<1>1. /\ clock' = clock + 1 + ns /\ events' = IF listening THEN Append(events, e) ELSE events
      /\ truth' = Append(truth, x) /\ enabled' \in {enabled, TRUE}
      /\ stats' = [stats EXCEPT ![g] = [collections |-> @.collections + 1, collected |-> @.collected + freed]]
  BY DEF Collect
<1>2. /\ clock \in Nat /\ steps \in Nat /\ events \in Seq(EventRecord) /\ truth \in Seq(TruthRecord) /\ enabled \in BOOLEAN
  BY DEF Recording, Recorded
<1>3. clock' \in Nat /\ clock' > clock + 1 /\ freed \in Nat /\ g \in Generations /\ clock + 1 \in Nat
  <2>1. clock' = clock + 1 + ns /\ clock \in Nat
    BY <1>1, <1>2
  <2>2. ns \in Nat /\ ns > 0 /\ freed \in Nat
    BY DEF GcTimelineConstants
  <2>3. g \in Generations
    BY DEF Generations
  <2>4. QED
    BY <2>1, <2>2, <2>3
<1>4. Len(events) \in Nat /\ Len(truth) \in Nat
  BY <1>2
<1>5. /\ e \in EventRecord /\ e.start = clock + 1 /\ e.end = clock' /\ e.generation = g /\ e.collected = freed
  BY <1>3 DEF EventRecord
<1>6. /\ x \in TruthRecord /\ x.at = steps /\ x.start = clock + 1 /\ x.end = clock' /\ x.generation = g
      /\ x.collected = freed /\ x.asked = asked /\ x.noted = IF listening THEN Len(events) + 1 ELSE 0
  BY <1>2, <1>3, <1>4 DEF TruthRecord
<1> HIDE DEF e, x
<1>7. /\ truth' \in Seq(TruthRecord) /\ Len(truth') = Len(truth) + 1 /\ truth'[Len(truth) + 1] = x
      /\ \A n \in 1..Len(truth) : truth'[n] = truth[n]
  BY <1>1, <1>2, <1>6, Appended
<1>8. /\ events' \in Seq(EventRecord) /\ \A m \in 1..Len(events) : events'[m] = events[m]
      /\ listening => Len(events') = Len(events) + 1 /\ events'[Len(events) + 1] = e
      /\ ~listening => Len(events') = Len(events)
  <2>1. /\ Append(events, e) \in Seq(EventRecord) /\ Len(Append(events, e)) = Len(events) + 1
        /\ Append(events, e)[Len(events) + 1] = e
        /\ \A m \in 1..Len(events) : Append(events, e)[m] = events[m]
    BY <1>2, <1>5, Appended
  <2>2. CASE listening
    BY <1>1, <2>1, <2>2
  <2>3. CASE ~listening
    BY <1>1, <1>2, <2>3
  <2>4. QED
    BY <2>2, <2>3
<1>9. stats' = CountsOf(truth', 1..Len(truth'))
  <2> DEFINE S == 1..Len(truth)
             y == Len(truth) + 1
             u == truth'
  <2>1. IsFiniteSet(S) /\ y \notin S /\ 1..Len(u) = S \cup {y}
    <3>1. IsFiniteSet(S)
      BY <1>4, FS_Interval
    <3>2. QED
      BY <1>4, <1>7, <3>1
  <2>2. /\ u[y].generation = g
        /\ \A n \in S \cup {y} : u[n].collected \in Nat
    <3>1. \A n \in 1..Len(u) : u[n] \in TruthRecord
      BY <1>7
    <3>2. \A n \in S \cup {y} : u[n].collected \in Nat
      BY <2>1, <3>1 DEF TruthRecord
    <3>3. u[y].generation = g
      BY <1>6, <1>7
    <3>4. QED
      BY <3>2, <3>3
  <2>3. stats = CountsOf(truth, S)
    BY DEF Recording, Counted
  <2>4. u[y].collected = freed /\ \A n \in S : truth[n] = u[n]
    BY <2>2, <1>6, <1>7
  <2> HIDE DEF S, y, u
  <2> DEFINE W == 1..Len(u)
  <2> HIDE DEF W
  <2>5. \A h \in Generations :
          CountsOf(u, W)[h] = IF h = g THEN [collections |-> CountsOf(truth, S)[h].collections + 1,
                                             collected |-> CountsOf(truth, S)[h].collected + u[y].collected]
                              ELSE CountsOf(truth, S)[h]
    <3>1. W = S \cup {y}
      BY <2>1 DEF W
    <3>2. \A n \in W : u[n].collected \in Nat
      BY <2>2, <3>1
    <3>3. IsFiniteSet(S) /\ y \notin S /\ (\A n \in S : truth[n] = u[n]) /\ u[y].generation = g /\ g \in Generations
      BY <1>3, <2>1, <2>2, <2>4
    <3>4. QED
      BY <3>1, <3>2, <3>3, CountsMore
  <2>6. stats' = [stats EXCEPT ![g] = [collections |-> stats[g].collections + 1,
                                         collected |-> stats[g].collected + freed]]
    BY <1>1
  <2>7. CountsOf(u, 1..Len(u)) = stats'
    <3>1. CountsOf(u, W) = [h \in Generations |-> CountsOf(u, W)[h]]
      BY DEF CountsOf
    <3>2. stats = [h \in Generations |-> CountsOf(truth, S)[h]]
      BY <2>3 DEF CountsOf
    <3>3. stats' = CountsOf(u, W)
      BY <1>3, <2>3, <2>4, <2>5, <2>6, <3>1, <3>2
    <3>4. QED
      BY <3>3 DEF W
  <2>8. QED
    BY <2>7 DEF u
<1>10. stats' \in [Generations -> CountRecord]
  <2> DEFINE u == truth'
             S == 1..Len(u)
             Z == {}
  <2>1. IsFiniteSet(S) /\ IsFiniteSet(Z) /\ S \cap Z = {} /\ \A n \in S \cup Z : u[n].collected \in Nat
    <3>1. \A n \in 1..Len(u) : u[n] \in TruthRecord
      BY <1>7
    <3>2. \A n \in S \cup Z : u[n].collected \in Nat
      BY <3>1 DEF TruthRecord
    <3>3. Len(u) \in Int /\ 1 \in Int
      BY <1>4, <1>7
    <3>4. QED
      BY <3>2, <3>3, FS_Interval, FS_EmptySet
  <2>2. stats' = CountsOf(u, S)
    BY <1>9
  <2> HIDE DEF u, S, Z
  <2>3. CountsOf(u, S) \in [Generations -> CountRecord]
    BY <2>1, CountsJoin
  <2>4. QED
    BY <2>2, <2>3
<1>11. QED
  BY <1>1, <1>2, <1>3, <1>4, <1>5, <1>6, <1>7, <1>8, <1>9, <1>10

\* A collection is noted just if the callback is there.
LEMMA Noting ==
    ASSUME GcTimelineConstants, Recording, NEW g \in {0, 2}, NEW ns \in 1..MaxPause, NEW freed \in 0..MaxFreed,
           NEW asked \in Nat, Collect(g, ns, freed, asked), worker' = worker
    PROVE  /\ \A n \in 1..Len(truth') :
                /\ truth'[n].noted # 0 <=> truth'[n].at \in Hearing'
                /\ truth'[n].noted # 0 =>
                     /\ truth'[n].noted \in 1..Len(events')
                     /\ events'[truth'[n].noted].start = truth'[n].start
                     /\ events'[truth'[n].noted].end = truth'[n].end
                     /\ events'[truth'[n].noted].generation = truth'[n].generation
                     /\ events'[truth'[n].noted].collected = truth'[n].collected
           /\ \A m \in 1..Len(events') : \E n \in 1..Len(truth') : truth'[n].noted = m
           /\ \A n, k \in 1..Len(truth') : truth'[n].noted = truth'[k].noted /\ truth'[n].noted # 0 => n = k
           /\ \A m \in 1..Len(events') : events'[m].end <= clock'
           /\ \A l, m \in 1..Len(events') : l < m => events'[l].end < events'[m].start
<1>1. /\ clock' = clock + 1 + ns /\ clock \in Nat /\ clock' \in Nat /\ clock' > clock + 1
      /\ enabled' \in BOOLEAN /\ enabled' \in {enabled, TRUE} /\ freed \in Nat
      /\ truth' \in Seq(TruthRecord) /\ Len(truth') = Len(truth) + 1 /\ Len(truth) \in Nat
      /\ \A n \in 1..Len(truth) : truth'[n] = truth[n]
      /\ truth'[Len(truth) + 1].at = steps /\ truth'[Len(truth) + 1].start = clock + 1
      /\ truth'[Len(truth) + 1].end = clock' /\ truth'[Len(truth) + 1].generation = g
      /\ truth'[Len(truth) + 1].collected = freed /\ truth'[Len(truth) + 1].asked = asked
      /\ truth'[Len(truth) + 1].noted = IF listening THEN Len(events) + 1 ELSE 0
      /\ events' \in Seq(EventRecord) /\ Len(events) \in Nat
      /\ \A m \in 1..Len(events) : events'[m] = events[m]
      /\ listening  => /\ Len(events') = Len(events) + 1
                       /\ events'[Len(events) + 1].start = clock + 1 /\ events'[Len(events) + 1].end = clock'
                       /\ events'[Len(events) + 1].generation = g /\ events'[Len(events) + 1].collected = freed
      /\ ~listening => Len(events') = Len(events)
      /\ stats' \in [Generations -> CountRecord] /\ stats' = CountsOf(truth', 1..Len(truth'))
  BY Collecting
<1>2. Hearing' = Hearing
  BY SameWorker
<1>3. steps \in Nat /\ Ordered /\ Notes
  BY DEF Recording, Recorded
<1>4. (listening <=> steps \in Hearing) /\ (listening \/ ~listening)
  BY <1>3 DEF Notes
<1>5. ASSUME NEW n \in 1..Len(truth')
      PROVE  /\ truth'[n].noted # 0 <=> truth'[n].at \in Hearing'
             /\ truth'[n].noted # 0 =>
                  /\ truth'[n].noted \in 1..Len(events')
                  /\ events'[truth'[n].noted].start = truth'[n].start
                  /\ events'[truth'[n].noted].end = truth'[n].end
                  /\ events'[truth'[n].noted].generation = truth'[n].generation
                  /\ events'[truth'[n].noted].collected = truth'[n].collected
  <2>1. CASE n \in 1..Len(truth)
    <3>1. truth'[n] = truth[n]
      BY <1>1, <2>1
    <3>2. /\ truth[n].noted # 0 <=> truth[n].at \in Hearing
          /\ truth[n].noted # 0 =>
                  /\ truth[n].noted \in 1..Len(events)
                  /\ events[truth[n].noted].start = truth[n].start
                  /\ events[truth[n].noted].end = truth[n].end
                  /\ events[truth[n].noted].generation = truth[n].generation
                  /\ events[truth[n].noted].collected = truth[n].collected
      BY <1>3, <2>1 DEF Notes
    <3>3. Len(events') = Len(events) \/ Len(events') = Len(events) + 1
      BY <1>1, <1>4
    <3>4. \A m \in 1..Len(events) : m \in 1..Len(events') /\ events'[m] = events[m]
      <4>1. Len(events) \in Nat /\ \A m \in 1..Len(events) : events'[m] = events[m]
        BY <1>1
      <4>2. QED
        BY <3>3, <4>1
    <3>5. QED
      BY <1>2, <3>1, <3>2, <3>4
  <2>2. CASE n = Len(truth) + 1
    <3>1. /\ truth'[n].at = steps /\ truth'[n].start = clock + 1 /\ truth'[n].end = clock'
          /\ truth'[n].generation = g /\ truth'[n].collected = freed
          /\ truth'[n].noted = IF listening THEN Len(events) + 1 ELSE 0
      BY <1>1, <2>2
    <3>2. QED
      BY <1>1, <1>2, <1>4, <3>1
  <2>3. QED
    BY <1>1, <2>1, <2>2
<1>6. ASSUME NEW m \in 1..Len(events')
      PROVE  \E n \in 1..Len(truth') : truth'[n].noted = m
  <2>1. CASE m \in 1..Len(events)
    <3>1. PICK n \in 1..Len(truth) : truth[n].noted = m
      BY <1>3, <2>1 DEF Notes
    <3>2. n \in 1..Len(truth') /\ truth'[n].noted = m
      BY <1>1, <3>1
    <3>3. QED
      BY <3>2
  <2>2. CASE m \notin 1..Len(events)
    <3>1. listening /\ m = Len(events) + 1
      BY <1>1, <1>4, <2>2
    <3>2. Len(truth) + 1 \in 1..Len(truth') /\ truth'[Len(truth) + 1].noted = m
      BY <1>1, <3>1
    <3>3. QED
      BY <3>2
  <2>3. QED
    BY <2>1, <2>2
<1>7. ASSUME NEW n \in 1..Len(truth'), NEW k \in 1..Len(truth'), truth'[n].noted = truth'[k].noted, truth'[n].noted # 0
      PROVE  n = k
  <2>1. \A i \in 1..Len(truth) : truth'[i].noted = truth[i].noted
    BY <1>1
  <2>2. \A i \in 1..Len(truth) : truth[i].noted # 0 => truth[i].noted <= Len(events)
    <3>1. \A i \in 1..Len(truth) : truth[i].noted # 0 => truth[i].noted \in 1..Len(events)
      BY <1>3 DEF Notes
    <3>2. ASSUME NEW i \in 1..Len(truth), truth[i].noted # 0
          PROVE  truth[i].noted <= Len(events)
      <4>1. truth[i].noted \in 1..Len(events)
        BY <3>1, <3>2
      <4>2. QED
        BY <4>1
    <3>3. QED
      BY <3>2
  <2>3. truth'[Len(truth) + 1].noted \in {0, Len(events) + 1}
    BY <1>1, <1>4
  <2>4. \A i, j \in 1..Len(truth) : truth[i].noted = truth[j].noted /\ truth[i].noted # 0 => i = j
    BY <1>3 DEF Notes
  <2>5. n \in 1..Len(truth) \/ n = Len(truth) + 1
    BY <1>1
  <2>6. k \in 1..Len(truth) \/ k = Len(truth) + 1
    BY <1>1
  <2>7. CASE n \in 1..Len(truth) /\ k \in 1..Len(truth)
    BY <1>7, <2>1, <2>4, <2>7
  <2>8. CASE n \in 1..Len(truth) /\ k = Len(truth) + 1
    <3>1. truth[n].noted # 0 /\ truth[n].noted \in {0, Len(events) + 1} /\ truth[n].noted <= Len(events)
      BY <1>7, <2>1, <2>2, <2>3, <2>8
    <3>2. QED
      BY <1>1, <3>1
  <2>9. CASE n = Len(truth) + 1 /\ k \in 1..Len(truth)
    <3>1. truth[k].noted # 0 /\ truth[k].noted \in {0, Len(events) + 1} /\ truth[k].noted <= Len(events)
      BY <1>7, <2>1, <2>2, <2>3, <2>9
    <3>2. QED
      BY <1>1, <3>1
  <2>10. QED
    BY <2>5, <2>6, <2>7, <2>8, <2>9
<1>8. /\ \A m \in 1..Len(events') : events'[m].end <= clock'
      /\ \A l, m \in 1..Len(events') : l < m => events'[l].end < events'[m].start
  <2>1. /\ \A m \in 1..Len(events) : events[m].end <= clock
        /\ \A l, m \in 1..Len(events) : l < m => events[l].end < events[m].start
    BY <1>3 DEF Ordered
  <2>2. \A m \in 1..Len(events) : events[m].end \in Nat
    <3>1. events \in Seq(EventRecord)
      BY DEF Recording, Recorded
    <3>2. \A m \in 1..Len(events) : events[m] \in EventRecord
      BY <3>1
    <3>3. QED
      BY <3>2 DEF EventRecord
  <2>3. CASE listening
    <3>1. ASSUME NEW m \in 1..Len(events')
          PROVE  /\ m \in 1..Len(events) => events'[m] = events[m] /\ events[m].end <= clock /\ events[m].end \in Nat
                 /\ m \notin 1..Len(events) => /\ m = Len(events) + 1 /\ events'[m].start = clock + 1
                                              /\ events'[m].end = clock'
      <4>1. /\ Len(events') = Len(events) + 1 /\ Len(events) \in Nat
            /\ events'[Len(events) + 1].start = clock + 1 /\ events'[Len(events) + 1].end = clock'
        BY <1>1, <2>3
      <4>2. CASE m \in 1..Len(events)
        <5>1. events'[m] = events[m]
          BY <1>1, <4>2
        <5>2. QED
          BY <2>1, <2>2, <4>2, <5>1
      <4>3. CASE m \notin 1..Len(events)
        <5>1. m = Len(events) + 1
          BY <4>1, <4>3
        <5>2. QED
          BY <4>1, <4>3, <5>1
      <4>4. QED
        BY <4>2, <4>3
    <3>2. ASSUME NEW m \in 1..Len(events')
          PROVE  events'[m].end <= clock'
      <4>1. clock \in Nat /\ clock' \in Nat /\ clock <= clock'
        BY <1>1
      <4>2. CASE m \in 1..Len(events)
        <5>1. events'[m].end <= clock /\ events'[m].end \in Nat
          BY <3>1, <4>2
        <5>2. QED
          BY <4>1, <5>1
      <4>3. CASE m \notin 1..Len(events)
        BY <3>1, <4>1, <4>3
      <4>4. QED
        BY <4>2, <4>3
    <3>3. ASSUME NEW l \in 1..Len(events'), NEW m \in 1..Len(events'), l < m
          PROVE  events'[l].end < events'[m].start
      <4>1. l \in 1..Len(events) /\ events'[l] = events[l]
        <5>1. Len(events') = Len(events) + 1 /\ Len(events) \in Nat
          BY <1>1, <2>3
        <5>2. l \in 1..Len(events)
          BY <3>3, <5>1
        <5>3. QED
          BY <3>1, <5>2
      <4>2. CASE m \in 1..Len(events)
        <5>1. events'[m] = events[m] /\ events[l].end < events[m].start
          BY <2>1, <3>1, <3>3, <4>1, <4>2
        <5>2. QED
          BY <4>1, <5>1
      <4>3. CASE m \notin 1..Len(events)
        <5>1. events'[m].start = clock + 1 /\ events[l].end <= clock /\ events[l].end \in Nat
          BY <3>1, <4>1, <4>3
        <5>2. clock \in Nat
          BY <1>1
        <5>3. events[l].end < clock + 1
          BY <5>1, <5>2
        <5>4. QED
          BY <4>1, <5>1, <5>3
      <4>4. QED
        BY <4>2, <4>3
    <3>4. QED
      BY <3>2, <3>3
  <2>4. CASE ~listening
    <3>1. Len(events') = Len(events) /\ \A m \in 1..Len(events) : events'[m] = events[m]
      BY <1>1, <2>4
    <3>2. \A m \in 1..Len(events') : events'[m].end <= clock'
      BY <1>1, <2>1, <2>2, <3>1
    <3>3. \A l, m \in 1..Len(events') : l < m => events'[l].end < events'[m].start
      BY <2>1, <3>1
    <3>4. QED
      BY <3>2, <3>3
  <2>5. QED
    BY <1>4, <2>3, <2>4
<1>9. QED
  BY <1>5, <1>6, <1>7, <1>8

\* A collection that comes by itself.
LEMMA AutomaticKeeps ==
    ASSUME GcTimelineConstants, Recording, NEW g \in {0, 2}, NEW ns \in 1..MaxPause, NEW freed \in 0..MaxFreed,
           Automatic(g, ns, freed)
    PROVE  Recording'
<1>1. /\ enabled /\ Collect(g, ns, freed, 0) /\ worker' = worker /\ steps' = steps /\ listening' = listening
      /\ times' = times /\ states' = states /\ returned' = returned
  BY DEF Automatic
<1>2. /\ clock' = clock + 1 + ns /\ clock \in Nat /\ clock' \in Nat /\ clock' > clock + 1
      /\ enabled' \in BOOLEAN /\ enabled' \in {enabled, TRUE} /\ freed \in Nat
      /\ truth' \in Seq(TruthRecord) /\ Len(truth') = Len(truth) + 1 /\ Len(truth) \in Nat
      /\ \A n \in 1..Len(truth) : truth'[n] = truth[n]
      /\ truth'[Len(truth) + 1].at = steps /\ truth'[Len(truth) + 1].start = clock + 1
      /\ truth'[Len(truth) + 1].end = clock' /\ truth'[Len(truth) + 1].generation = g
      /\ truth'[Len(truth) + 1].collected = freed /\ truth'[Len(truth) + 1].asked = 0
      /\ truth'[Len(truth) + 1].noted = IF listening THEN Len(events) + 1 ELSE 0
      /\ events' \in Seq(EventRecord) /\ Len(events) \in Nat
      /\ \A m \in 1..Len(events) : events'[m] = events[m]
      /\ listening  => /\ Len(events') = Len(events) + 1
                       /\ events'[Len(events) + 1].start = clock + 1 /\ events'[Len(events) + 1].end = clock'
                       /\ events'[Len(events) + 1].generation = g /\ events'[Len(events) + 1].collected = freed
      /\ ~listening => Len(events') = Len(events)
      /\ stats' \in [Generations -> CountRecord] /\ stats' = CountsOf(truth', 1..Len(truth'))
  BY <1>1, Collecting
<1>3. program' = program /\ Hearing' = Hearing /\ Asks' = Asks /\ Requests' = Requests /\ (Timed' <=> Timed)
  BY <1>1, SameWorker
<1>4. Recorded'
  <2>1. /\ worker \in Workers /\ steps \in Nat /\ steps <= Len(program) /\ times \in Seq(Nat) /\ Len(times) = steps
        /\ states \in Seq(StateRecord) /\ Len(states) = steps /\ returned \in Seq(Nat)
    BY DEF Recording, Recorded
  <2>2. QED
    BY <1>1, <1>2, <1>3, <2>1 DEF Recorded
<1>5. steps \in Nat /\ Ordered /\ Exact /\ Notes /\ Answers /\ Counted /\ Switched
  BY DEF Recording, Recorded
<1>6. Ordered'
  <2>1. \A n \in 1..Len(truth') : n \in 1..Len(truth) \/ n = Len(truth) + 1
    BY <1>2
  <2>2. /\ \A k \in 1..steps' : times'[k] <= clock'
        /\ \A j, k \in 1..steps' : j < k => times'[j] < times'[k]
    <3>1. /\ \A k \in 1..steps : times[k] <= clock
          /\ \A j, k \in 1..steps : j < k => times[j] < times[k]
      BY <1>5 DEF Ordered
    <3>2. \A k \in 1..steps : times[k] \in Nat
      BY DEF Recording, Recorded
    <3>3. QED
      BY <1>1, <1>2, <3>1, <3>2
  <2>3. ASSUME NEW n \in 1..Len(truth')
        PROVE  /\ truth'[n].at <= steps' /\ truth'[n].start < truth'[n].end /\ truth'[n].end <= clock'
               /\ \A k \in 1..steps' : /\ k <= truth'[n].at => times'[k] < truth'[n].start
                                       /\ k > truth'[n].at  => truth'[n].end <= times'[k]
    <3>1. CASE n \in 1..Len(truth)
      <4>1. /\ truth[n].at <= steps /\ truth[n].start < truth[n].end /\ truth[n].end <= clock
            /\ \A k \in 1..steps : /\ k <= truth[n].at => times[k] < truth[n].start
                                   /\ k > truth[n].at  => truth[n].end <= times[k]
        BY <1>5, <3>1 DEF Ordered
      <4>2. truth'[n] = truth[n]
        BY <1>2, <3>1
      <4>3. truth[n].end \in Nat
        <5>1. truth \in Seq(TruthRecord)
          BY DEF Recording, Recorded
        <5>2. truth[n] \in TruthRecord
          BY <3>1, <5>1
        <5>3. QED
          BY <5>2 DEF TruthRecord
      <4>4. clock \in Nat /\ clock' \in Nat /\ clock <= clock' /\ steps' = steps /\ times' = times
        BY <1>1, <1>2
      <4>5. QED
        BY <4>1, <4>2, <4>3, <4>4
    <3>2. CASE n = Len(truth) + 1
      <4>1. truth'[n].at = steps /\ truth'[n].start = clock + 1 /\ truth'[n].end = clock'
        BY <1>2, <3>2
      <4>2. \A k \in 1..steps : times[k] <= clock /\ times[k] \in Nat
        BY <1>5 DEF Ordered, Recording, Recorded
      <4>3. clock \in Nat /\ clock' \in Nat /\ clock + 1 < clock' /\ steps' = steps /\ times' = times
        BY <1>1, <1>2
      <4>4. \A k \in 1..steps : times[k] < clock + 1 /\ k <= steps
        BY <1>5, <4>2, <4>3
      <4>5. QED
        BY <1>5, <4>1, <4>3, <4>4
    <3>3. QED
      BY <2>1, <3>1, <3>2
  <2>4. /\ \A m \in 1..Len(events') : events'[m].end <= clock'
        /\ \A l, m \in 1..Len(events') : l < m => events'[l].end < events'[m].start
    BY <1>1, Noting
  <2>5. QED
    BY <2>2, <2>3, <2>4 DEF Ordered
<1>7. Exact'
  <2>1. steps' > 0 /\ (\A n \in 1..Len(truth') : truth'[n].at # steps') => clock' = times'[steps']
    BY <1>1, <1>2
  <2>2. ASSUME NEW k \in 1..steps', k < steps', \A n \in 1..Len(truth') : truth'[n].at # k
        PROVE  times'[k + 1] = times'[k] + 1
    <3>1. \A n \in 1..Len(truth) : truth[n].at # k
      <4>1. \A n \in 1..Len(truth) : truth'[n] = truth[n] /\ n \in 1..Len(truth')
        BY <1>2
      <4>2. QED
        BY <2>2, <4>1
    <3>2. QED
      BY <1>1, <1>5, <2>2, <3>1 DEF Exact
  <2>3. ASSUME NEW n \in 1..Len(truth'), truth'[n].asked # 0
        PROVE  /\ truth'[n].at < steps' /\ truth'[n].end = times'[truth'[n].at + 1]
               /\ (\A m \in 1..Len(truth') : truth'[m].at = truth'[n].at => m = n) =>
                      truth'[n].start = times'[truth'[n].at] + 1
    <3>1. n \in 1..Len(truth) /\ truth'[n] = truth[n]
      <4>1. n \in 1..Len(truth) \/ n = Len(truth) + 1
        BY <1>2
      <4>2. truth'[Len(truth) + 1].asked = 0
        BY <1>2
      <4>3. n \in 1..Len(truth)
        BY <2>3, <4>1, <4>2
      <4>4. QED
        BY <1>2, <4>3
    <3>2. /\ truth[n].at < steps /\ truth[n].end = times[truth[n].at + 1]
          /\ (\A m \in 1..Len(truth) : truth[m].at = truth[n].at => m = n) =>
                      truth[n].start = times[truth[n].at] + 1
      BY <1>5, <2>3, <3>1 DEF Exact
    <3>3. (\A m \in 1..Len(truth') : truth'[m].at = truth'[n].at => m = n) =>
            (\A m \in 1..Len(truth) : truth[m].at = truth[n].at => m = n)
      BY <1>2, <3>1
    <3>4. QED
      BY <1>1, <3>1, <3>2, <3>3
  <2>4. QED
    BY <2>1, <2>2, <2>3 DEF Exact
<1>8. Notes'
  <2>1. listening' = (steps' \in Hearing')
    BY <1>1, <1>3, <1>5 DEF Notes
  <2>2. /\ \A n \in 1..Len(truth') :
             /\ truth'[n].noted # 0 <=> truth'[n].at \in Hearing'
             /\ truth'[n].noted # 0 =>
                  /\ truth'[n].noted \in 1..Len(events')
                  /\ events'[truth'[n].noted].start = truth'[n].start
                  /\ events'[truth'[n].noted].end = truth'[n].end
                  /\ events'[truth'[n].noted].generation = truth'[n].generation
                  /\ events'[truth'[n].noted].collected = truth'[n].collected
        /\ \A m \in 1..Len(events') : \E n \in 1..Len(truth') : truth'[n].noted = m
        /\ \A n, k \in 1..Len(truth') : truth'[n].noted = truth'[k].noted /\ truth'[n].noted # 0 => n = k
    BY <1>1, Noting
  <2>3. QED
    BY <2>1, <2>2 DEF Notes
<1>9. Answers'
  <2>1. ASSUME NEW n \in 1..Len(truth'), truth'[n].asked # 0
        PROVE  n \in 1..Len(truth) /\ truth'[n] = truth[n]
    <3>1. n \in 1..Len(truth) \/ n = Len(truth) + 1
      BY <1>2
    <3>2. truth'[Len(truth) + 1].asked = 0
      BY <1>2
    <3>3. n \in 1..Len(truth)
      BY <2>1, <3>1, <3>2
    <3>4. QED
      BY <1>2, <3>3
  <2>2. ASSUME NEW n \in 1..Len(truth'), truth'[n].asked # 0
        PROVE  /\ truth'[n].asked \in 1..Len(returned')
               /\ returned'[truth'[n].asked] = truth'[n].collected
               /\ truth'[n].generation = 2 /\ truth'[n].at = Asks'[truth'[n].asked]
    <3>1. n \in 1..Len(truth) /\ truth'[n] = truth[n]
      BY <2>1, <2>2
    <3>2. QED
      BY <1>1, <1>3, <1>5, <2>2, <3>1 DEF Answers
  <2>3. ASSUME NEW i \in 1..Len(returned')
        PROVE  \E n \in 1..Len(truth') : truth'[n].asked = i
    <3>1. PICK n \in 1..Len(truth) : truth[n].asked = i
      BY <1>1, <1>5 DEF Answers
    <3>2. n \in 1..Len(truth') /\ truth'[n].asked = i
      BY <1>2, <3>1
    <3>3. QED
      BY <3>2
  <2>4. \A n, k \in 1..Len(truth') : truth'[n].asked = truth'[k].asked /\ truth'[n].asked # 0 => n = k
    BY <1>5, <2>1 DEF Answers
  <2>5. /\ Len(returned') <= Requests'
        /\ \A i \in 1..Requests' : i <= Len(returned') <=> Asks'[i] < steps'
    BY <1>1, <1>3, <1>5 DEF Answers
  <2>6. QED
    BY <2>2, <2>3, <2>4, <2>5 DEF Answers
<1>10. Counted'
  <2>1. ASSUME NEW k \in 1..steps
        PROVE  states'[k].stats = CountsOf(truth', {n \in 1..Len(truth') : truth'[n].at < k})
    <3> DEFINE S == {n \in 1..Len(truth) : truth[n].at < k}
    <3>1. {n \in 1..Len(truth') : truth'[n].at < k} = S
      BY <1>2, <1>5
    <3>2. \A n \in S : truth[n] = truth'[n]
      BY <1>2
    <3>3. states[k].stats = CountsOf(truth, S)
      BY <1>5 DEF Counted
    <3> HIDE DEF S
    <3>4. CountsOf(truth, S) = CountsOf(truth', S)
      BY <3>2, CountsSame
    <3>5. QED
      BY <1>1, <3>1, <3>3, <3>4
  <2>2. QED
    BY <1>1, <1>2, <2>1 DEF Counted
<1>11. Switched'
  <2>1. enabled' = TRUE
    BY <1>1, <1>2
  <2>2. QED
    BY <1>1, <1>3, <1>5, <2>1 DEF Switched
<1>12. QED
  BY <1>4, <1>6, <1>7, <1>8, <1>9, <1>10, <1>11 DEF Recording

\* A step that is no collection.
LEMMA StepKeeps ==
    ASSUME GcTimelineConstants, Recording, Step
    PROVE  Recording'
<1>1. /\ ~done /\ Name(steps + 1) # "collect" /\ clock' = clock + 1
      /\ listening' = CASE Name(steps + 1) = "listen" -> TRUE
                        [] Name(steps + 1) = "deafen" -> FALSE
                        [] OTHER                         -> listening
      /\ enabled' = CASE Name(steps + 1) = "disable" -> FALSE
                      [] Name(steps + 1) = "enable"  -> TRUE
                      [] OTHER                          -> enabled
      /\ stats' = stats /\ returned' = returned /\ events' = events /\ truth' = truth
      /\ Passed(clock')
  BY DEF Step
<1>2. /\ steps \in Nat /\ Ordered /\ Exact /\ Notes /\ Answers /\ Counted /\ Switched
      /\ clock \in Nat /\ enabled \in BOOLEAN /\ worker \in Workers /\ times \in Seq(Nat) /\ Len(times) = steps
      /\ returned \in Seq(Nat) /\ events \in Seq(EventRecord) /\ truth \in Seq(TruthRecord)
  BY DEF Recording, Recorded
<1>3. stats' \in [Generations -> CountRecord]
  <2> DEFINE S == 1..Len(truth)
             Z == {}
  <2>1. IsFiniteSet(S) /\ IsFiniteSet(Z) /\ S \cap Z = {} /\ \A n \in S \cup Z : truth[n].collected \in Nat
    <3>1. \A n \in 1..Len(truth) : truth[n] \in TruthRecord
      BY <1>2
    <3>2. \A n \in S \cup Z : truth[n].collected \in Nat
      BY <3>1 DEF TruthRecord
    <3>3. Len(truth) \in Int /\ 1 \in Int
      BY <1>2
    <3>4. QED
      BY <3>2, <3>3, FS_Interval, FS_EmptySet
  <2>2. stats = CountsOf(truth, S)
    BY <1>2 DEF Counted
  <2> HIDE DEF S, Z
  <2>3. CountsOf(truth, S) \in [Generations -> CountRecord]
    BY <2>1, CountsJoin
  <2>4. QED
    BY <1>1, <2>2, <2>3
<1>4. /\ worker' = worker /\ steps' = steps + 1 /\ steps < Len(program)
      /\ worker' \in Workers /\ steps' \in Nat /\ steps' <= Len(program')
      /\ times' \in Seq(Nat) /\ Len(times') = steps + 1 /\ times'[steps + 1] = clock'
      /\ \A k \in 1..steps : times'[k] = times[k] /\ states'[k] = states[k]
      /\ states' \in Seq(StateRecord) /\ Len(states') = steps + 1
      /\ states'[steps + 1].stats = stats' /\ states'[steps + 1].enabled = enabled
  <2>1. clock' \in Nat
    BY <1>1, <1>2
  <2>2. QED
    BY <1>1, <1>3, <2>1, Passing
<1>5. program' = program /\ Hearing' = Hearing /\ Asks' = Asks /\ Requests' = Requests /\ (Timed' <=> Timed)
  BY <1>4, SameWorker
<1>6. enabled' \in BOOLEAN
  BY <1>1, <1>2
<1>7. Recorded'
  <2>1. clock' \in Nat
    BY <1>1, <1>2
  <2>2. QED
    BY <1>1, <1>2, <1>4, <1>6, <2>1 DEF Recorded
<1>8. \A n \in 1..Len(truth) : truth[n].at \in Nat /\ truth[n].end \in Nat /\ truth[n].start \in Nat /\ truth[n].asked \in Nat
  <2>1. \A n \in 1..Len(truth) : truth[n] \in TruthRecord
    BY <1>2
  <2>2. QED
    BY <2>1 DEF TruthRecord
<1>9. \A k \in 1..steps : times[k] \in Nat
  BY <1>2
<1>10. \A k \in 1..steps' : k \in 1..steps \/ k = steps + 1
  BY <1>2, <1>4
<1>11. Ordered'
  <2>1. ASSUME NEW k \in 1..steps'
        PROVE  /\ times'[k] <= clock'
               /\ \A j \in 1..steps' : j < k => times'[j] < times'[k]
    <3>1. \A j \in 1..steps : times[j] <= clock /\ \A i \in 1..steps : i < j => times[i] < times[j]
      BY <1>2 DEF Ordered
    <3>2. CASE k \in 1..steps
      <4>1. \A j \in 1..steps' : j < k => j \in 1..steps
        BY <1>2, <1>10, <3>2
      <4>2. times'[k] = times[k] /\ times[k] <= clock /\ times[k] \in Nat
        BY <1>4, <1>9, <3>1, <3>2
      <4>3. \A j \in 1..steps' : j < k => times'[j] < times'[k]
        BY <1>4, <3>1, <3>2, <4>1, <4>2
      <4>4. clock \in Nat /\ clock' = clock + 1
        BY <1>1, <1>2
      <4>5. QED
        BY <4>2, <4>3, <4>4
    <3>3. CASE k = steps + 1
      <4>1. \A j \in 1..steps' : j < k => j \in 1..steps
        BY <1>2, <1>10, <3>3
      <4>2. clock \in Nat /\ clock' = clock + 1 /\ times'[k] = clock'
        BY <1>1, <1>2, <1>4, <3>3
      <4>3. \A j \in 1..steps : times'[j] = times[j] /\ times[j] <= clock /\ times[j] \in Nat
        BY <1>4, <1>9, <3>1
      <4>4. QED
        BY <4>1, <4>2, <4>3
    <3>4. QED
      BY <1>10, <3>2, <3>3
  <2>2. ASSUME NEW n \in 1..Len(truth')
        PROVE  /\ truth'[n].at <= steps' /\ truth'[n].start < truth'[n].end /\ truth'[n].end <= clock'
               /\ \A k \in 1..steps' : /\ k <= truth'[n].at => times'[k] < truth'[n].start
                                       /\ k > truth'[n].at  => truth'[n].end <= times'[k]
    <3>1. /\ truth[n].at <= steps /\ truth[n].start < truth[n].end /\ truth[n].end <= clock
          /\ \A k \in 1..steps : /\ k <= truth[n].at => times[k] < truth[n].start
                                 /\ k > truth[n].at  => truth[n].end <= times[k]
      BY <1>1, <1>2 DEF Ordered
    <3>2. truth[n].at \in Nat /\ truth[n].end \in Nat /\ truth'[n] = truth[n]
      BY <1>1, <1>8
    <3>3. truth'[n].at <= steps' /\ truth'[n].start < truth'[n].end /\ truth'[n].end <= clock'
      <4>1. steps \in Nat /\ steps' = steps + 1 /\ clock \in Nat /\ clock' = clock + 1
        BY <1>1, <1>2, <1>4
      <4>2. truth[n].at <= steps' /\ truth[n].start < truth[n].end /\ truth[n].end <= clock'
        BY <3>1, <3>2, <4>1
      <4>3. QED
        BY <3>2, <4>2
    <3>4. ASSUME NEW k \in 1..steps'
          PROVE  /\ k <= truth'[n].at => times'[k] < truth'[n].start
                 /\ k > truth'[n].at  => truth'[n].end <= times'[k]
      <4>1. CASE k \in 1..steps
        <5>1. times'[k] = times[k]
          BY <1>4, <4>1
        <5>2. QED
          BY <3>1, <3>2, <4>1, <5>1
      <4>2. CASE k = steps + 1
        <5>1. times'[k] = clock'
          BY <1>4, <4>2
        <5>2. steps \in Nat
          BY <1>2
        <5>3. ~(k <= truth[n].at)
          BY <3>1, <3>2, <4>2, <5>2
        <5>4. QED
          BY <3>2, <3>3, <5>1, <5>3
      <4>3. QED
        BY <1>10, <4>1, <4>2
    <3>5. QED
      BY <3>3, <3>4
  <2>3. /\ \A m \in 1..Len(events') : events'[m].end <= clock'
        /\ \A l, m \in 1..Len(events') : l < m => events'[l].end < events'[m].start
    <3>1. \A m \in 1..Len(events) : events[m].end <= clock /\ events[m].end \in Nat
      <4>1. \A m \in 1..Len(events) : events[m] \in EventRecord
        BY <1>2
      <4>2. \A m \in 1..Len(events) : events[m].end \in Nat
        BY <4>1 DEF EventRecord
      <4>3. QED
        BY <1>2, <4>2 DEF Ordered
    <3>2. \A m \in 1..Len(events') : events'[m].end <= clock'
      BY <1>1, <1>2, <3>1
    <3>3. QED
      BY <1>1, <1>2, <3>2 DEF Ordered
  <2>4. QED
    BY <2>1, <2>2, <2>3 DEF Ordered
<1>12. Exact'
  <2>1. clock' = times'[steps']
    BY <1>4
  <2>2. ASSUME NEW k \in 1..steps', k < steps', \A n \in 1..Len(truth') : truth'[n].at # k
        PROVE  times'[k + 1] = times'[k] + 1
    <3>1. k \in 1..steps /\ \A n \in 1..Len(truth) : truth[n].at # k
      BY <1>1, <1>2, <1>4, <1>10, <2>2
    <3>2. CASE k < steps
      <4>1. times[k + 1] = times[k] + 1
        BY <1>2, <3>1, <3>2 DEF Exact
      <4>2. k + 1 \in 1..steps
        BY <1>2, <3>1, <3>2
      <4>3. QED
        BY <1>4, <3>1, <4>1, <4>2
    <3>3. CASE k = steps
      <4>1. clock = times[steps]
        BY <1>2, <3>1, <3>3 DEF Exact
      <4>2. QED
        BY <1>1, <1>4, <3>1, <3>3, <4>1
    <3>4. QED
      BY <1>2, <3>1, <3>2, <3>3
  <2>3. ASSUME NEW n \in 1..Len(truth'), truth'[n].asked # 0
        PROVE  /\ truth'[n].at < steps' /\ truth'[n].end = times'[truth'[n].at + 1]
               /\ (\A m \in 1..Len(truth') : truth'[m].at = truth'[n].at => m = n) =>
                      truth'[n].start = times'[truth'[n].at] + 1
    <3>1. /\ truth[n].at < steps /\ truth[n].end = times[truth[n].at + 1]
          /\ (\A m \in 1..Len(truth) : truth[m].at = truth[n].at => m = n) =>
                      truth[n].start = times[truth[n].at] + 1
      BY <1>1, <1>2, <2>3 DEF Exact
    <3>2. truth[n].at \in 1..steps /\ truth[n].at + 1 \in 1..steps
      <4>1. /\ truth[n].asked \in 1..Len(returned) /\ truth[n].at = Asks[truth[n].asked] /\ Len(returned) <= Requests
        BY <1>1, <1>2, <2>3 DEF Answers
      <4>2. Len(returned) \in Nat /\ Requests \in Nat
        BY <1>2, AsksGrow
      <4>3. truth[n].asked \in 1..Requests
        BY <4>1, <4>2
      <4>4. truth[n].at >= 3
        BY <1>2, <4>1, <4>3, AsksGrow
      <4>5. truth[n].at \in Nat /\ truth[n].at < steps
        BY <1>1, <1>8, <3>1
      <4>6. steps \in Nat
        BY <1>2
      <4>7. QED
        BY <4>4, <4>5, <4>6
    <3>3. truth'[n] = truth[n] /\ truth' = truth
      BY <1>1
    <3>4. /\ times'[truth[n].at] = times[truth[n].at] /\ times'[truth[n].at + 1] = times[truth[n].at + 1]
          /\ truth[n].at < steps'
      <4>1. \A k \in 1..steps : times'[k] = times[k]
        BY <1>4
      <4>2. times'[truth[n].at] = times[truth[n].at] /\ times'[truth[n].at + 1] = times[truth[n].at + 1]
        BY <3>2, <4>1
      <4>3. steps \in Nat /\ steps' = steps + 1
        BY <1>2, <1>4
      <4>4. truth[n].at < steps'
        BY <3>2, <4>3
      <4>5. QED
        BY <4>2, <4>4
    <3>5. QED
      BY <3>1, <3>3, <3>4
  <2>4. QED
    BY <2>1, <2>2, <2>3 DEF Exact
<1>13. /\ steps + 1 \in DOMAIN program
       /\ Name(steps + 1) = "collect" <=> \E i \in 1..Requests : Asks[i] = steps
       /\ Name(steps + 1) = "listen" => steps + 1 \in Hearing
       /\ Name(steps + 1) = "deafen" => steps + 1 \notin Hearing
       /\ Name(steps + 1) \notin {"listen", "deafen"} => (steps + 1 \in Hearing <=> steps \in Hearing)
  BY <1>2, <1>4, Milestone
<1>14. Notes'
  <2>1. listening' = (steps' \in Hearing')
    <3>1. listening = (steps \in Hearing)
      BY <1>2 DEF Notes
    <3>2. CASE Name(steps + 1) = "listen"
      BY <1>1, <1>4, <1>5, <1>13, <3>2
    <3>3. CASE Name(steps + 1) = "deafen"
      <4>1. listening' = FALSE
        BY <1>1, <3>3
      <4>2. (steps' \in Hearing') = FALSE
        BY <1>4, <1>5, <1>13, <3>3
      <4>3. QED
        BY <4>1, <4>2
    <3>4. CASE Name(steps + 1) \notin {"listen", "deafen"}
      <4>1. listening' = listening
        BY <1>1, <3>4
      <4>2. steps' \in Hearing' <=> steps \in Hearing
        BY <1>4, <1>5, <1>13, <3>4
      <4>3. QED
        BY <3>1, <4>1, <4>2
    <3>5. QED
      BY <3>2, <3>3, <3>4
  <2>2. QED
    BY <1>1, <1>2, <1>5, <2>1 DEF Notes
<1>15. Answers'
  <2>1. \A i \in 1..Requests' : i <= Len(returned') <=> Asks'[i] < steps'
    <3>1. ASSUME NEW i \in 1..Requests
          PROVE  Asks[i] < steps <=> Asks[i] < steps + 1
      <4>1. Asks[i] # steps /\ Asks[i] \in Nat
        BY <1>1, <1>2, <1>13, AsksGrow
      <4>2. QED
        BY <1>2, <4>1
    <3>2. QED
      BY <1>1, <1>2, <1>4, <1>5, <3>1 DEF Answers
  <2>2. QED
    BY <1>1, <1>2, <1>5, <2>1 DEF Answers
<1>16. Counted'
  <2>1. ASSUME NEW k \in 1..steps'
        PROVE  states'[k].stats = CountsOf(truth', {n \in 1..Len(truth') : truth'[n].at < k})
    <3>1. CASE k \in 1..steps
      <4>1. states'[k] = states[k]
        BY <1>4, <3>1
      <4>2. states[k].stats = CountsOf(truth, {n \in 1..Len(truth) : truth[n].at < k})
        BY <1>2, <3>1 DEF Counted
      <4>3. truth' = truth
        BY <1>1
      <4>4. QED
        BY <4>1, <4>2, <4>3
    <3>2. CASE k = steps + 1
      <4>1. \A n \in 1..Len(truth) : truth[n].at <= steps
        BY <1>2 DEF Ordered
      <4>2. {n \in 1..Len(truth) : truth[n].at < k} = 1..Len(truth)
        BY <1>2, <1>8, <3>2, <4>1
      <4>3. stats = CountsOf(truth, 1..Len(truth))
        BY <1>2 DEF Counted
      <4>4. QED
        BY <1>1, <1>4, <3>2, <4>2, <4>3
    <3>3. QED
      BY <1>10, <3>1, <3>2
  <2>2. QED
    BY <1>1, <1>2, <2>1 DEF Counted
<1>17. Switched'
  <2>1. CASE Timed
    <3>1. Name(steps + 1) # "disable" /\ Name(steps + 1) # "enable"
      BY <1>2, <1>13, <2>1, TimedNames
    <3>2. enabled' = enabled
      BY <1>1, <3>1
    <3>3. enabled /\ \A k \in 1..steps : states[k].enabled
      BY <1>2, <2>1 DEF Switched
    <3>4. \A k \in 1..steps' : states'[k].enabled
      BY <1>4, <1>10, <3>3
    <3>5. QED
      BY <1>5, <2>1, <3>2, <3>3, <3>4 DEF Switched
  <2>2. CASE ~Timed
    <3>1. Name(steps + 1) = "disable" <=> steps + 1 = 2
      BY <1>2, <1>13, <2>2, ProbeNames
    <3>2. Name(steps + 1) = "enable" <=> steps + 1 = 10
      BY <1>2, <1>13, <2>2, ProbeNames
    <3>3. /\ steps + 1 = 2 => enabled' = FALSE
          /\ steps + 1 = 10 => enabled' = TRUE
          /\ steps + 1 # 2 /\ steps + 1 # 10 => enabled' = enabled
      <4>1. CASE steps + 1 = 2
        <5>1. Name(steps + 1) = "disable"
          BY <3>1, <4>1
        <5>2. enabled' = FALSE
          BY <1>1, <5>1
        <5>3. QED
          BY <1>2, <4>1, <5>2
      <4>2. CASE steps + 1 = 10
        <5>1. Name(steps + 1) = "enable"
          BY <3>2, <4>2
        <5>2. enabled' = TRUE
          BY <1>1, <5>1
        <5>3. steps + 1 # 2
          BY <4>2
        <5>4. QED
          BY <4>2, <5>2, <5>3
      <4>3. CASE steps + 1 # 2 /\ steps + 1 # 10
        <5>1. Name(steps + 1) # "disable" /\ Name(steps + 1) # "enable"
          BY <3>1, <3>2, <4>3
        <5>2. QED
          BY <1>1, <1>2, <4>3, <5>1
      <4>4. QED
        BY <4>1, <4>2, <4>3
    <3>4. /\ steps \in {0, 1, 10, 11} => enabled
          /\ steps \in {2, 3} => ~enabled
          /\ 1 <= steps => states[1].enabled
          /\ 3 <= steps => ~states[3].enabled
          /\ 11 <= steps => states[11].enabled
      BY <1>2, <2>2 DEF Switched
    <3>5. /\ steps' \in {0, 1, 10, 11} => enabled'
          /\ steps' \in {2, 3} => ~enabled'
      BY <1>2, <1>4, <3>3, <3>4
    <3>6. 1 <= steps' => states'[1].enabled
      <4>1. CASE steps = 0
        <5>1. states'[1].enabled = enabled
          BY <1>4, <4>1
        <5>2. QED
          BY <3>4, <4>1, <5>1
      <4>2. CASE steps # 0
        <5>1. 1 <= steps' => 1 <= steps /\ 1 \in 1..steps
          BY <1>2, <1>4, <4>2
        <5>2. QED
          BY <1>4, <3>4, <5>1
      <4>3. QED
        BY <4>1, <4>2
    <3>7. 3 <= steps' => ~states'[3].enabled
      <4>1. CASE steps = 2
        <5>1. states'[3].enabled = enabled
          BY <1>4, <4>1
        <5>2. QED
          BY <3>4, <4>1, <5>1
      <4>2. CASE steps # 2
        <5>1. 3 <= steps' => 3 <= steps /\ 3 \in 1..steps
          BY <1>2, <1>4, <4>2
        <5>2. QED
          BY <1>4, <3>4, <5>1
      <4>3. QED
        BY <4>1, <4>2
    <3>8. 11 <= steps' => states'[11].enabled
      <4>1. CASE steps = 10
        <5>1. states'[11].enabled = enabled
          BY <1>4, <4>1
        <5>2. QED
          BY <3>4, <4>1, <5>1
      <4>2. CASE steps # 10
        <5>1. 11 <= steps' => 11 <= steps /\ 11 \in 1..steps
          BY <1>2, <1>4, <4>2
        <5>2. QED
          BY <1>4, <3>4, <5>1
      <4>3. QED
        BY <4>1, <4>2
    <3>9. QED
      BY <1>5, <2>2, <3>5, <3>6, <3>7, <3>8 DEF Switched
  <2>3. QED
    BY <2>1, <2>2
<1>18. QED
  BY <1>7, <1>11, <1>12, <1>14, <1>15, <1>16, <1>17 DEF Recording

\* A collection that the program requests.
LEMMA ExplicitKeeps ==
    ASSUME GcTimelineConstants, Recording, NEW ns \in 1..MaxPause, NEW freed \in 0..MaxFreed, Explicit(ns, freed)
    PROVE  Recording'
<1>1. /\ ~done /\ Name(steps + 1) = "collect" /\ Collect(2, ns, freed, Len(returned) + 1) /\ listening' = listening
      /\ returned' = Append(returned, freed) /\ Passed(clock')
  BY DEF Explicit
<1>2. /\ steps \in Nat /\ Ordered /\ Exact /\ Notes /\ Answers /\ Counted /\ Switched
      /\ clock \in Nat /\ enabled \in BOOLEAN /\ worker \in Workers /\ times \in Seq(Nat) /\ Len(times) = steps
      /\ returned \in Seq(Nat) /\ Len(returned) + 1 \in Nat /\ Len(returned) \in Nat /\ truth \in Seq(TruthRecord)
  BY DEF Recording, Recorded
<1>3. /\ clock' = clock + 1 + ns /\ clock' \in Nat /\ clock' > clock + 1
      /\ enabled' \in BOOLEAN /\ enabled' \in {enabled, TRUE} /\ freed \in Nat
      /\ truth' \in Seq(TruthRecord) /\ Len(truth') = Len(truth) + 1 /\ Len(truth) \in Nat
      /\ \A n \in 1..Len(truth) : truth'[n] = truth[n]
      /\ truth'[Len(truth) + 1].at = steps /\ truth'[Len(truth) + 1].start = clock + 1
      /\ truth'[Len(truth) + 1].end = clock' /\ truth'[Len(truth) + 1].generation = 2
      /\ truth'[Len(truth) + 1].collected = freed /\ truth'[Len(truth) + 1].asked = Len(returned) + 1
      /\ events' \in Seq(EventRecord) /\ Len(events) \in Nat
      /\ stats' \in [Generations -> CountRecord] /\ stats' = CountsOf(truth', 1..Len(truth'))
  <2> DEFINE a == Len(returned) + 1
             two == 2
  <2>1. a \in Nat /\ Collect(two, ns, freed, a) /\ two \in {0, 2}
    BY <1>1, <1>2
  <2> HIDE DEF a, two
  <2>2. /\ clock' = clock + 1 + ns /\ clock \in Nat /\ clock' \in Nat /\ clock' > clock + 1
        /\ enabled' \in BOOLEAN /\ enabled' \in {enabled, TRUE} /\ freed \in Nat
        /\ truth' \in Seq(TruthRecord) /\ Len(truth') = Len(truth) + 1 /\ Len(truth) \in Nat
        /\ \A n \in 1..Len(truth) : truth'[n] = truth[n]
        /\ truth'[Len(truth) + 1].at = steps /\ truth'[Len(truth) + 1].start = clock + 1
        /\ truth'[Len(truth) + 1].end = clock' /\ truth'[Len(truth) + 1].generation = two
        /\ truth'[Len(truth) + 1].collected = freed /\ truth'[Len(truth) + 1].asked = a
        /\ truth'[Len(truth) + 1].noted = IF listening THEN Len(events) + 1 ELSE 0
        /\ events' \in Seq(EventRecord) /\ Len(events) \in Nat
        /\ \A m \in 1..Len(events) : events'[m] = events[m]
        /\ listening  => /\ Len(events') = Len(events) + 1
                         /\ events'[Len(events) + 1].start = clock + 1 /\ events'[Len(events) + 1].end = clock'
                         /\ events'[Len(events) + 1].generation = two /\ events'[Len(events) + 1].collected = freed
        /\ ~listening => Len(events') = Len(events)
        /\ stats' \in [Generations -> CountRecord] /\ stats' = CountsOf(truth', 1..Len(truth'))
    BY <2>1, Collecting
  <2>3. QED
    BY <2>2 DEF a, two
<1>4. /\ worker' = worker /\ steps' = steps + 1 /\ steps < Len(program)
      /\ worker' \in Workers /\ steps' \in Nat /\ steps' <= Len(program')
      /\ times' \in Seq(Nat) /\ Len(times') = steps + 1 /\ times'[steps + 1] = clock'
      /\ \A k \in 1..steps : times'[k] = times[k] /\ states'[k] = states[k]
      /\ states' \in Seq(StateRecord) /\ Len(states') = steps + 1
      /\ states'[steps + 1].stats = stats' /\ states'[steps + 1].enabled = enabled
  BY <1>1, <1>3, Passing
<1>5. program' = program /\ Hearing' = Hearing /\ Asks' = Asks /\ Requests' = Requests /\ (Timed' <=> Timed)
  BY <1>4, SameWorker
<1>6. /\ returned' \in Seq(Nat) /\ Len(returned') = Len(returned) + 1 /\ returned'[Len(returned) + 1] = freed
      /\ \A i \in 1..Len(returned) : returned'[i] = returned[i]
  BY <1>1, <1>2, <1>3, Appended
<1>7. Recorded'
  BY <1>3, <1>4, <1>6 DEF Recorded
<1>8. \A n \in 1..Len(truth) : truth[n].at \in Nat /\ truth[n].end \in Nat /\ truth[n].start \in Nat /\ truth[n].asked \in Nat
  <2>1. \A n \in 1..Len(truth) : truth[n] \in TruthRecord
    BY <1>2
  <2>2. QED
    BY <2>1 DEF TruthRecord
<1>9. \A k \in 1..steps : times[k] \in Nat
  BY <1>2
<1>10. \A k \in 1..steps' : k \in 1..steps \/ k = steps + 1
  BY <1>2, <1>4
<1>11. \A n \in 1..Len(truth') : n \in 1..Len(truth) \/ n = Len(truth) + 1
  BY <1>3
<1>12. Ordered'
  <2>1. ASSUME NEW k \in 1..steps'
        PROVE  /\ times'[k] <= clock'
               /\ \A j \in 1..steps' : j < k => times'[j] < times'[k]
    <3>1. \A j \in 1..steps : times[j] <= clock /\ \A i \in 1..steps : i < j => times[i] < times[j]
      BY <1>2 DEF Ordered
    <3>2. CASE k \in 1..steps
      <4>1. \A j \in 1..steps' : j < k => j \in 1..steps
        BY <1>2, <1>10, <3>2
      <4>2. times'[k] = times[k] /\ times[k] <= clock /\ times[k] \in Nat
        BY <1>4, <1>9, <3>1, <3>2
      <4>3. \A j \in 1..steps' : j < k => times'[j] < times'[k]
        BY <1>4, <3>1, <3>2, <4>1, <4>2
      <4>4. clock \in Nat /\ clock' \in Nat /\ clock' > clock + 1
        BY <1>2, <1>3
      <4>5. QED
        BY <4>2, <4>3, <4>4
    <3>3. CASE k = steps + 1
      <4>1. \A j \in 1..steps' : j < k => j \in 1..steps
        BY <1>2, <1>10, <3>3
      <4>2. times'[k] = clock'
        BY <1>4, <3>3
      <4>3. ASSUME NEW j \in 1..steps', j < k
            PROVE  times'[j] < times'[k]
        <5>1. times'[j] = times[j] /\ times[j] <= clock /\ times[j] \in Nat
          BY <1>4, <1>9, <3>1, <4>1, <4>3
        <5>2. clock \in Nat /\ clock' \in Nat /\ clock' > clock + 1
          BY <1>2, <1>3
        <5>3. QED
          BY <4>2, <5>1, <5>2
      <4>4. QED
        BY <1>3, <4>2, <4>3
    <3>4. QED
      BY <1>10, <3>2, <3>3
  <2>2. ASSUME NEW n \in 1..Len(truth')
        PROVE  /\ truth'[n].at <= steps' /\ truth'[n].start < truth'[n].end /\ truth'[n].end <= clock'
               /\ \A k \in 1..steps' : /\ k <= truth'[n].at => times'[k] < truth'[n].start
                                       /\ k > truth'[n].at  => truth'[n].end <= times'[k]
    <3>1. CASE n \in 1..Len(truth)
      <4>1. /\ truth[n].at <= steps /\ truth[n].start < truth[n].end /\ truth[n].end <= clock
            /\ \A k \in 1..steps : /\ k <= truth[n].at => times[k] < truth[n].start
                                   /\ k > truth[n].at  => truth[n].end <= times[k]
        BY <1>2, <3>1 DEF Ordered
      <4>2. truth[n].at \in Nat /\ truth[n].end \in Nat /\ truth'[n] = truth[n]
        BY <1>3, <1>8, <3>1
      <4>3. truth'[n].at <= steps' /\ truth'[n].start < truth'[n].end /\ truth'[n].end <= clock'
        <5>1. steps \in Nat /\ steps' = steps + 1 /\ clock \in Nat /\ clock' \in Nat /\ clock' > clock + 1
          BY <1>2, <1>3, <1>4
        <5>2. truth[n].at <= steps /\ truth[n].start < truth[n].end /\ truth[n].end <= clock
          BY <4>1
        <5>3. truth[n].at <= steps' /\ truth[n].end <= clock'
          BY <4>2, <5>1, <5>2
        <5>4. QED
          BY <4>2, <5>2, <5>3
      <4>4. ASSUME NEW k \in 1..steps'
            PROVE  /\ k <= truth'[n].at => times'[k] < truth'[n].start
                   /\ k > truth'[n].at  => truth'[n].end <= times'[k]
        <5>1. CASE k \in 1..steps
          <6>1. times'[k] = times[k]
            BY <1>4, <5>1
          <6>2. QED
            BY <4>1, <4>2, <5>1, <6>1
        <5>2. CASE k = steps + 1
          <6>1. ~(k <= truth[n].at) /\ times'[k] = clock' /\ truth'[n] = truth[n]
            <7>1. steps \in Nat
              BY <1>2
            <7>2. ~(k <= truth[n].at)
              BY <4>1, <4>2, <5>2, <7>1
            <7>3. times'[k] = clock'
              BY <1>4, <5>2
            <7>4. QED
              BY <4>2, <7>2, <7>3
          <6>2. QED
            BY <4>3, <6>1
        <5>3. QED
          BY <1>10, <5>1, <5>2
      <4>5. QED
        BY <4>3, <4>4
    <3>2. CASE n = Len(truth) + 1
      <4>1. truth'[n].at = steps /\ truth'[n].start = clock + 1 /\ truth'[n].end = clock'
        BY <1>3, <3>2
      <4>2. ASSUME NEW k \in 1..steps'
            PROVE  /\ k <= steps => times'[k] < clock + 1
                   /\ k > steps  => clock' <= times'[k]
        <5>1. CASE k \in 1..steps
          <6>1. times'[k] = times[k] /\ times[k] <= clock /\ times[k] \in Nat
            BY <1>2, <1>4, <1>9, <5>1 DEF Ordered
          <6>2. QED
            BY <1>2, <5>1, <6>1
        <5>2. CASE k = steps + 1
          BY <1>2, <1>3, <1>4, <5>2
        <5>3. QED
          BY <1>10, <5>1, <5>2
      <4>3. QED
        BY <1>2, <1>3, <1>4, <4>1, <4>2
    <3>3. QED
      BY <1>11, <3>1, <3>2
  <2>3. /\ \A m \in 1..Len(events') : events'[m].end <= clock'
        /\ \A l, m \in 1..Len(events') : l < m => events'[l].end < events'[m].start
    BY <1>1, <1>2, <1>4, Noting
  <2>4. QED
    BY <2>1, <2>2, <2>3 DEF Ordered
<1>13. /\ \E i \in 1..Requests : Asks[i] = steps
       /\ steps + 1 \in Hearing <=> steps \in Hearing
  BY <1>1, <1>2, <1>4, Milestone
<1>14. /\ Requests \in Nat /\ \A i \in 1..Requests : Asks[i] \in Nat /\ Asks[i] >= 3
       /\ \A i, j \in 1..Requests : i < j => Asks[i] < Asks[j]
  BY <1>2, AsksGrow
<1>15. /\ Len(returned) + 1 \in 1..Requests /\ Asks[Len(returned) + 1] = steps
       /\ \A i \in 1..Requests : i <= Len(returned) + 1 <=> Asks[i] < steps + 1
  <2>1. PICK i \in 1..Requests : Asks[i] = steps
    BY <1>13
  <2>2. \A j \in 1..Requests : j <= Len(returned) <=> Asks[j] < steps
    BY <1>2 DEF Answers
  <2>3. i > Len(returned)
    <3>1. steps \in Nat /\ Len(returned) \in Nat
      BY <1>2
    <3>2. ~(i <= Len(returned))
      BY <2>1, <2>2, <3>1
    <3>3. i \in Nat
      BY <1>14
    <3>4. QED
      BY <3>1, <3>2, <3>3
  <2>4. i <= Len(returned) + 1
    <3>1. CASE i = 1
      BY <1>2, <3>1
    <3>2. CASE i > 1
      <4>1. i - 1 \in 1..Requests /\ i - 1 < i
        BY <1>14, <2>1, <3>2
      <4>2. Asks[i - 1] < steps
        BY <1>14, <2>1, <4>1
      <4>3. i - 1 <= Len(returned)
        BY <2>2, <4>1, <4>2
      <4>4. QED
        BY <1>2, <4>3
    <3>3. QED
      BY <3>1, <3>2
  <2>5. i = Len(returned) + 1
    BY <1>2, <2>3, <2>4
  <2>6. ASSUME NEW j \in 1..Requests
        PROVE  j <= i <=> Asks[j] < steps + 1
    <3>1. CASE j < i
      BY <1>2, <1>14, <2>1, <3>1
    <3>2. CASE j = i
      BY <1>2, <2>1, <3>2
    <3>3. CASE j > i
      <4>1. Asks[i] < Asks[j] /\ Asks[i] \in Nat /\ Asks[j] \in Nat /\ ~(j <= i)
        BY <1>14, <2>1, <3>3
      <4>2. ~(Asks[j] < steps + 1)
        BY <2>1, <4>1
      <4>3. QED
        BY <4>1, <4>2
    <3>4. QED
      BY <3>1, <3>2, <3>3
  <2>7. QED
    BY <2>1, <2>5, <2>6
<1>16. Answers'
  <2>1. ASSUME NEW n \in 1..Len(truth'), truth'[n].asked # 0
        PROVE  /\ truth'[n].asked \in 1..Len(returned')
               /\ returned'[truth'[n].asked] = truth'[n].collected
               /\ truth'[n].generation = 2 /\ truth'[n].at = Asks'[truth'[n].asked]
    <3>1. CASE n \in 1..Len(truth)
      <4>1. truth'[n] = truth[n]
        BY <1>3, <3>1
      <4>2. /\ truth[n].asked \in 1..Len(returned) /\ returned[truth[n].asked] = truth[n].collected
            /\ truth[n].generation = 2 /\ truth[n].at = Asks[truth[n].asked]
        BY <1>2, <2>1, <3>1, <4>1 DEF Answers
      <4>3. truth[n].asked \in 1..Len(returned')
        BY <1>2, <1>6, <4>2
      <4>4. QED
        BY <1>5, <1>6, <4>1, <4>2, <4>3
    <3>2. CASE n = Len(truth) + 1
      <4>1. truth'[n].asked = Len(returned) + 1 /\ truth'[n].collected = freed /\ truth'[n].at = steps /\ truth'[n].generation = 2
        BY <1>3, <3>2
      <4>2. Len(returned) + 1 \in 1..Len(returned')
        BY <1>2, <1>6
      <4>3. QED
        BY <1>5, <1>6, <1>15, <4>1, <4>2
    <3>3. QED
      BY <1>11, <3>1, <3>2
  <2>2. ASSUME NEW i \in 1..Len(returned')
        PROVE  \E n \in 1..Len(truth') : truth'[n].asked = i
    <3>1. CASE i \in 1..Len(returned)
      <4>1. PICK n \in 1..Len(truth) : truth[n].asked = i
        BY <1>2, <3>1 DEF Answers
      <4>2. n \in 1..Len(truth') /\ truth'[n].asked = i
        BY <1>3, <4>1
      <4>3. QED
        BY <4>2
    <3>2. CASE i \notin 1..Len(returned)
      <4>1. i = Len(returned) + 1
        BY <1>2, <1>6, <3>2
      <4>2. Len(truth) + 1 \in 1..Len(truth') /\ truth'[Len(truth) + 1].asked = i
        BY <1>3, <4>1
      <4>3. QED
        BY <4>2
    <3>3. QED
      BY <3>1, <3>2
  <2>3. ASSUME NEW n \in 1..Len(truth'), NEW k \in 1..Len(truth'), truth'[n].asked = truth'[k].asked, truth'[n].asked # 0
        PROVE  n = k
    <3>1. ASSUME NEW i \in 1..Len(truth), truth'[i].asked = Len(returned) + 1
          PROVE  FALSE
      <4>1. truth[i].asked = Len(returned) + 1
        BY <1>3, <3>1
      <4>2. truth[i].asked # 0
        BY <1>2, <4>1
      <4>3. truth[i].asked \in 1..Len(returned)
        BY <1>2, <4>2 DEF Answers
      <4>4. QED
        BY <1>2, <4>1, <4>3
    <3>2. CASE n \in 1..Len(truth) /\ k \in 1..Len(truth)
      <4>1. truth'[n] = truth[n] /\ truth'[k] = truth[k]
        BY <1>3, <3>2
      <4>2. QED
        BY <1>2, <2>3, <3>2, <4>1 DEF Answers
    <3>3. CASE n \in 1..Len(truth) /\ k = Len(truth) + 1
      BY <1>3, <2>3, <3>1, <3>3
    <3>4. CASE n = Len(truth) + 1 /\ k \in 1..Len(truth)
      BY <1>3, <2>3, <3>1, <3>4
    <3>5. QED
      BY <1>11, <3>2, <3>3, <3>4
  <2>4. Len(returned') <= Requests' /\ \A i \in 1..Requests' : i <= Len(returned') <=> Asks'[i] < steps'
    <3>1. Len(returned') <= Requests'
      BY <1>2, <1>5, <1>6, <1>14, <1>15
    <3>2. QED
      BY <1>4, <1>5, <1>6, <1>15, <3>1
  <2>5. QED
    BY <2>1, <2>2, <2>3, <2>4 DEF Answers
<1>17. Exact'
  <2>1. clock' = times'[steps']
    BY <1>4
  <2>2. ASSUME NEW k \in 1..steps', k < steps', \A n \in 1..Len(truth') : truth'[n].at # k
        PROVE  times'[k + 1] = times'[k] + 1
    <3>1. k \in 1..steps /\ \A n \in 1..Len(truth) : truth[n].at # k
      <4>1. k \in 1..steps
        BY <1>2, <1>4, <2>2
      <4>2. \A n \in 1..Len(truth) : n \in 1..Len(truth') /\ truth'[n] = truth[n]
        BY <1>3
      <4>3. QED
        BY <2>2, <4>1, <4>2
    <3>2. k # steps
      <4>1. Len(truth) + 1 \in 1..Len(truth') /\ truth'[Len(truth) + 1].at = steps
        BY <1>3
      <4>2. QED
        BY <2>2, <4>1
    <3>3. k < steps
      BY <1>2, <3>1, <3>2
    <3>4. times[k + 1] = times[k] + 1
      BY <1>2, <3>1, <3>3 DEF Exact
    <3>5. k + 1 \in 1..steps
      BY <1>2, <3>1, <3>3
    <3>6. QED
      BY <1>4, <3>1, <3>4, <3>5
  <2>3. ASSUME NEW n \in 1..Len(truth'), truth'[n].asked # 0
        PROVE  /\ truth'[n].at < steps' /\ truth'[n].end = times'[truth'[n].at + 1]
               /\ (\A m \in 1..Len(truth') : truth'[m].at = truth'[n].at => m = n) =>
                      truth'[n].start = times'[truth'[n].at] + 1
    <3>1. CASE n \in 1..Len(truth)
      <4>1. truth'[n] = truth[n] /\ truth[n].asked # 0
        BY <1>3, <2>3, <3>1
      <4>2. /\ truth[n].at < steps /\ truth[n].end = times[truth[n].at + 1]
            /\ (\A m \in 1..Len(truth) : truth[m].at = truth[n].at => m = n) =>
                        truth[n].start = times[truth[n].at] + 1
        BY <1>2, <3>1, <4>1 DEF Exact
      <4>3. truth[n].at \in 1..steps /\ truth[n].at + 1 \in 1..steps
        <5>1. /\ truth[n].asked \in 1..Len(returned) /\ truth[n].at = Asks[truth[n].asked] /\ Len(returned) <= Requests
          BY <1>2, <3>1, <4>1 DEF Answers
        <5>2. truth[n].asked \in 1..Requests
          BY <1>2, <1>14, <5>1
        <5>3. truth[n].at >= 3
          BY <1>14, <5>1, <5>2
        <5>4. truth[n].at \in Nat /\ truth[n].at < steps
          BY <1>8, <3>1, <4>2
        <5>5. steps \in Nat
          BY <1>2
        <5>6. QED
          BY <5>3, <5>4, <5>5
      <4>4. /\ times'[truth[n].at] = times[truth[n].at] /\ times'[truth[n].at + 1] = times[truth[n].at + 1]
            /\ truth[n].at < steps'
        <5>1. \A k \in 1..steps : times'[k] = times[k]
          BY <1>4
        <5>2. times'[truth[n].at] = times[truth[n].at] /\ times'[truth[n].at + 1] = times[truth[n].at + 1]
          BY <4>3, <5>1
        <5>3. steps \in Nat /\ steps' = steps + 1
          BY <1>2, <1>4
        <5>4. truth[n].at < steps'
          BY <4>3, <5>3
        <5>5. QED
          BY <5>2, <5>4
      <4>5. (\A m \in 1..Len(truth') : truth'[m].at = truth'[n].at => m = n) =>
              (\A m \in 1..Len(truth) : truth[m].at = truth[n].at => m = n)
        <5>1. \A m \in 1..Len(truth) : m \in 1..Len(truth') /\ truth'[m] = truth[m]
          BY <1>3
        <5>2. truth'[n] = truth[n]
          BY <3>1, <5>1
        <5>3. QED
          BY <5>1, <5>2
      <4>6. QED
        BY <4>1, <4>2, <4>4, <4>5
    <3>2. CASE n = Len(truth) + 1
      <4>1. truth'[n].at = steps /\ truth'[n].start = clock + 1 /\ truth'[n].end = clock'
        BY <1>3, <3>2
      <4>2. steps >= 3
        BY <1>14, <1>15
      <4>3. ASSUME \A m \in 1..Len(truth') : truth'[m].at = truth'[n].at => m = n
            PROVE  clock = times[steps]
        <5>1. \A m \in 1..Len(truth) : truth[m].at # steps
          <6>1. ASSUME NEW m \in 1..Len(truth), truth[m].at = steps
                PROVE  FALSE
            <7>1. m \in 1..Len(truth') /\ truth'[m].at = steps /\ m # n
              BY <1>3, <3>2, <6>1
            <7>2. QED
              BY <4>1, <4>3, <7>1
          <6>2. QED
            BY <6>1
        <5>2. QED
          <6>1. Exact /\ steps \in Nat
            BY <1>2
          <6>2. steps > 0
            BY <4>2, <6>1
          <6>3. QED
            BY <5>1, <6>1, <6>2 DEF Exact
      <4>4. times'[steps] = times[steps] /\ times'[steps + 1] = clock'
        <5>1. steps \in 1..steps
          BY <1>2, <4>2
        <5>2. QED
          BY <1>4, <5>1
      <4>5. truth'[n].at < steps'
        <5>1. steps \in Nat
          BY <1>2
        <5>2. steps' = steps + 1
          BY <1>4
        <5>3. QED
          BY <4>1, <5>1, <5>2
      <4>6. truth'[n].end = times'[truth'[n].at + 1]
        BY <4>1, <4>4
      <4>7. (\A m \in 1..Len(truth') : truth'[m].at = truth'[n].at => m = n) =>
               truth'[n].start = times'[truth'[n].at] + 1
        BY <4>1, <4>3, <4>4
      <4>8. QED
        BY <4>5, <4>6, <4>7
    <3>3. QED
      BY <1>11, <3>1, <3>2
  <2>4. QED
    BY <2>1, <2>2, <2>3 DEF Exact
<1>18. Notes'
  <2>1. listening' = (steps' \in Hearing')
    <3>1. listening = (steps \in Hearing)
      BY <1>2 DEF Notes
    <3>2. steps' \in Hearing' <=> steps \in Hearing
      BY <1>4, <1>5, <1>13
    <3>3. QED
      BY <1>1, <3>1, <3>2
  <2>2. /\ \A n \in 1..Len(truth') :
             /\ truth'[n].noted # 0 <=> truth'[n].at \in Hearing'
             /\ truth'[n].noted # 0 =>
                  /\ truth'[n].noted \in 1..Len(events')
                  /\ events'[truth'[n].noted].start = truth'[n].start
                  /\ events'[truth'[n].noted].end = truth'[n].end
                  /\ events'[truth'[n].noted].generation = truth'[n].generation
                  /\ events'[truth'[n].noted].collected = truth'[n].collected
        /\ \A m \in 1..Len(events') : \E n \in 1..Len(truth') : truth'[n].noted = m
        /\ \A n, k \in 1..Len(truth') : truth'[n].noted = truth'[k].noted /\ truth'[n].noted # 0 => n = k
    BY <1>1, <1>2, <1>4, Noting
  <2>3. QED
    BY <2>1, <2>2 DEF Notes
<1>19. Counted'
  <2>1. \A n \in 1..Len(truth) : truth[n].at <= steps
    BY <1>2 DEF Ordered
  <2>2. ASSUME NEW k \in 1..steps'
        PROVE  states'[k].stats = CountsOf(truth', {n \in 1..Len(truth') : truth'[n].at < k})
    <3>1. CASE k \in 1..steps
      <4> DEFINE S == {n \in 1..Len(truth) : truth[n].at < k}
      <4>1. {n \in 1..Len(truth') : truth'[n].at < k} = S
        <5>1. ~(truth'[Len(truth) + 1].at < k)
          BY <1>2, <1>3, <3>1
        <5>2. \A n \in 1..Len(truth) : n \in 1..Len(truth') /\ truth'[n].at = truth[n].at
          BY <1>3
        <5>3. QED
          BY <1>11, <5>1, <5>2
      <4>2. \A n \in S : truth[n] = truth'[n]
        BY <1>3
      <4>3. states[k].stats = CountsOf(truth, S)
        BY <1>2, <3>1 DEF Counted
      <4> HIDE DEF S
      <4>4. CountsOf(truth, S) = CountsOf(truth', S)
        BY <4>2, CountsSame
      <4>5. QED
        BY <1>4, <3>1, <4>1, <4>3, <4>4
    <3>2. CASE k = steps + 1
      <4>1. \A n \in 1..Len(truth') : truth'[n].at < k
        <5>1. ASSUME NEW n \in 1..Len(truth')
              PROVE  truth'[n].at < k
          <6>1. CASE n \in 1..Len(truth)
            <7>1. truth'[n] = truth[n] /\ truth[n].at <= steps /\ truth[n].at \in Nat /\ steps \in Nat
              BY <1>2, <1>3, <1>8, <2>1, <6>1
            <7>2. QED
              BY <3>2, <7>1
          <6>2. CASE n = Len(truth) + 1
            BY <1>2, <1>3, <3>2, <6>2
          <6>3. QED
            BY <1>11, <6>1, <6>2
        <5>2. QED
          BY <5>1
      <4>2. {n \in 1..Len(truth') : truth'[n].at < k} = 1..Len(truth')
        BY <4>1
      <4>3. QED
        BY <1>3, <1>4, <3>2, <4>2
    <3>3. QED
      BY <1>10, <3>1, <3>2
  <2>3. QED
    BY <1>3, <2>2 DEF Counted
<1>20. Switched'
  <2>1. CASE Timed
    <3>1. enabled /\ \A k \in 1..steps : states[k].enabled
      BY <1>2, <2>1 DEF Switched
    <3>2. enabled'
      BY <1>3, <3>1
    <3>3. \A k \in 1..steps' : states'[k].enabled
      BY <1>4, <1>10, <3>1
    <3>4. QED
      BY <1>5, <2>1, <3>2, <3>3 DEF Switched
  <2>2. CASE ~Timed
    <3>1. steps = 3 \/ steps = 6
      <4>1. Name(steps + 1) = "collect" <=> steps + 1 = 4 \/ steps + 1 = 7
        <5>1. steps + 1 \in DOMAIN program
          BY <1>2, <1>4, Milestone
        <5>2. QED
          BY <1>2, <2>2, <5>1, ProbeNames
      <4>2. QED
        BY <1>1, <1>2, <4>1
    <3>2. /\ 1 <= steps => states[1].enabled
          /\ 3 <= steps => ~states[3].enabled
          /\ 11 <= steps => states[11].enabled
      BY <1>2, <2>2 DEF Switched
    <3>3. states'[1] = states[1] /\ states'[3] = states[3] /\ (steps' = 4 \/ steps' = 7)
      BY <1>4, <3>1
    <3>4. states[1].enabled /\ ~states[3].enabled
      BY <3>1, <3>2
    <3>5. QED
      BY <1>5, <2>2, <3>3, <3>4 DEF Switched
  <2>3. QED
    BY <2>1, <2>2
<1>21. QED
  BY <1>7, <1>12, <1>16, <1>17, <1>18, <1>19, <1>20 DEF Recording

\* Every step keeps the invariant.
LEMMA RecordingKept ==
    ASSUME GcTimelineConstants, Recording, [TimelineNext]_timelineVars
    PROVE  Recording'
<1>1. CASE TimelineNext
  <2>1. CASE Step
    BY <2>1, StepKeeps
  <2>2. ASSUME NEW ns \in 1..MaxPause, NEW freed \in 0..MaxFreed, Explicit(ns, freed)
        PROVE  Recording'
    BY <2>2, ExplicitKeeps
  <2>3. ASSUME NEW g \in {0, 2}, NEW ns \in 1..MaxPause, NEW freed \in 0..MaxFreed, Automatic(g, ns, freed)
        PROVE  Recording'
    BY <2>3, AutomaticKeeps
  <2>4. QED
    BY <1>1, <2>1, <2>2, <2>3 DEF TimelineNext
<1>2. CASE UNCHANGED timelineVars
  <2>1. /\ worker' = worker /\ steps' = steps /\ clock' = clock /\ enabled' = enabled /\ listening' = listening
        /\ stats' = stats /\ times' = times /\ states' = states /\ returned' = returned /\ events' = events /\ truth' = truth
    BY <1>2 DEF timelineVars
  <2>2. program' = program /\ Hearing' = Hearing /\ Asks' = Asks /\ Requests' = Requests /\ (Timed' <=> Timed)
    BY <2>1, SameWorker
  <2>3. Recorded' /\ Ordered'
    BY <2>1, <2>2 DEF Recording, Recorded, Ordered
  <2>4. Exact' /\ Notes'
    BY <2>1, <2>2 DEF Recording, Exact, Notes
  <2>5. Answers' /\ Counted' /\ Switched'
    BY <2>1, <2>2 DEF Recording, Answers, Counted, Switched
  <2>6. QED
    BY <2>3, <2>4, <2>5 DEF Recording
<1>3. QED
  BY <1>1, <1>2

----------------------------------------------------------------------------
(* Where the milestones are.                                               *)

\* But for the coming and going of the callback, a milestone occurs once.
LEMMA OnePlace ==
    ASSUME GcTimelineConstants, worker \in Workers, Timed, NEW j \in DOMAIN program, NEW k \in DOMAIN program,
           program[j] = program[k], Name(j) \notin {"listen", "deafen"}
    PROVE  j = k
<1>1. /\ DOMAIN program = 1..Ending + 2 /\ Opening = 10 + Request /\ Ending \in Nat /\ Opening < Ending
      /\ Request \in {0, 1}
  <2>1. DOMAIN program = 1..Ending + 2
    BY TimedMilestones
  <2>2. Opening = 10 + Request /\ Ending \in Nat /\ Opening < Ending /\ Request \in {0, 1}
    BY Told DEF Opening
  <2>3. QED
    BY <2>1, <2>2
<1>2. ASSUME NEW i \in DOMAIN program
      PROVE  \/ i <= Opening /\ program[i][2] = 0 /\ program[i][1] # "loop_end"
             \/ \E r \in 1..Reads, a \in 1..Width : i = Turn(r) + a /\ program[i] = <<Read(worker[3])[a], r>>
             \/ i = Ending + 1 /\ program[i] = <<"deafen", 0>>
             \/ i = Ending + 2 /\ program[i] = <<"loop_end", 0>>
  <2>1. CASE i <= Opening
    <3>1. i \in {1, 2, 3, 4, 5 + Request, 6 + Request, 7 + Request, 8 + Request, 9 + Request, 10 + Request}
          \/ (i = 5 /\ Request = 1)
      BY <1>1, <2>1
    <3>2. program[i][2] = 0 /\ program[i][1] # "loop_end"
      BY <1>1, <3>1, OpeningMilestones
    <3>3. QED
      BY <2>1, <3>2
  <2>2. CASE i > Opening /\ i <= Ending
    <3>1. PICK r \in 1..Reads, a \in 1..Width : i = Turn(r) + a
      BY <2>2, TimedMilestones
    <3>2. program[i] = <<Read(worker[3])[a], r>>
      BY <3>1, TimedMilestones
    <3>3. QED
      BY <3>1, <3>2
  <2>3. CASE i = Ending + 1
    BY <2>3, TimedMilestones
  <2>4. CASE i = Ending + 2
    BY <2>4, TimedMilestones
  <2>5. QED
    BY <1>1, <2>1, <2>2, <2>3, <2>4
<1>3. ASSUME NEW a \in 1..Width, NEW b \in 1..Width, Read(worker[3])[a] = Read(worker[3])[b]
      PROVE  a = b
  <2>1. worker[3] \in BOOLEAN
    BY Told
  <2>2. CASE worker[3]
    <3>1. worker[3] = TRUE /\ a \in 1..5 /\ b \in 1..5
      BY <2>1, <2>2 DEF Width
    <3>2. Read(TRUE)[a] = Read(TRUE)[b]
      BY <1>3, <3>1
    <3>3. QED
      BY <3>1, <3>2 DEF Read
  <2>3. CASE ~worker[3]
    <3>1. worker[3] = FALSE /\ a \in 1..3 /\ b \in 1..3
      BY <2>1, <2>3 DEF Width
    <3>2. Read(FALSE)[a] = Read(FALSE)[b]
      BY <1>3, <3>1
    <3>3. QED
      BY <3>1, <3>2 DEF Read
  <2>4. QED
    BY <2>2, <2>3
<1>4. program[j][1] = program[k][1] /\ program[j][2] = program[k][2]
      /\ program[j][1] # "listen" /\ program[j][1] # "deafen"
  BY DEF Name
<1>5. CASE j <= Opening /\ k <= Opening
  <2>1. \A i \in 1..Opening : i \in {1, 2, 3, 4, 5 + Request, 6 + Request, 7 + Request, 8 + Request, 9 + Request, 10 + Request}
           \/ (i = 5 /\ Request = 1)
    BY <1>1
  <2>2. j \in 1..Opening /\ k \in 1..Opening
    BY <1>1, <1>5
  <2> DEFINE p == program
  <2>3. /\ p[1][1] = "scope_before" /\ p[2][1] = "scope_start" /\ p[3][1] = "listen" /\ p[4][1] = "call_start"
        /\ Request = 1 => p[5][1] = "collect"
        /\ p[5 + Request][1] = "call_end" /\ p[6 + Request][1] = "deafen"
        /\ p[7 + Request][1] = "scope_end" /\ p[8 + Request][1] = "scope_after"
        /\ p[9 + Request][1] = "loop_start" /\ p[10 + Request][1] = "listen"
    BY OpeningMilestones
  <2> HIDE DEF p
  <2>4. p[j][1] = p[k][1] /\ p[j][1] # "listen" /\ p[j][1] # "deafen"
    BY <1>4 DEF p
  <2>5. CASE Request = 0
    <3>1. j \in {1, 2, 3, 4, 5, 6, 7, 8, 9, 10} /\ k \in {1, 2, 3, 4, 5, 6, 7, 8, 9, 10}
      BY <1>1, <2>2, <2>5
    <3>2. /\ p[5][1] = "call_end" /\ p[6][1] = "deafen" /\ p[7][1] = "scope_end" /\ p[8][1] = "scope_after"
          /\ p[9][1] = "loop_start" /\ p[10][1] = "listen"
      BY <2>3, <2>5
    <3>3. QED
      BY <2>3, <2>4, <3>1, <3>2
  <2>6. CASE Request = 1
    <3>1. j \in {1, 2, 3, 4, 5, 6, 7, 8, 9, 10, 11} /\ k \in {1, 2, 3, 4, 5, 6, 7, 8, 9, 10, 11}
      BY <1>1, <2>2, <2>6
    <3>2. /\ p[5][1] = "collect" /\ p[6][1] = "call_end" /\ p[7][1] = "deafen" /\ p[8][1] = "scope_end"
          /\ p[9][1] = "scope_after" /\ p[10][1] = "loop_start" /\ p[11][1] = "listen"
      BY <2>3, <2>6
    <3>3. QED
      BY <2>3, <2>4, <3>1, <3>2
  <2>7. QED
    BY <1>1, <2>5, <2>6
<1>6. ASSUME NEW r \in 1..Reads, NEW a \in 1..Width, j = Turn(r) + a, program[j] = <<Read(worker[3])[a], r>>
      PROVE  j = k
  <2>1. program[k][1] = Read(worker[3])[a] /\ program[k][2] = r /\ r # 0
    BY <1>4, <1>6
  <2>2. PICK s \in 1..Reads, b \in 1..Width : k = Turn(s) + b /\ program[k] = <<Read(worker[3])[b], s>>
    BY <1>2, <2>1
  <2>3. s = r /\ Read(worker[3])[a] = Read(worker[3])[b]
    BY <2>1, <2>2
  <2>4. a = b
    BY <1>3, <2>3
  <2>5. QED
    BY <1>6, <2>2, <2>3, <2>4
<1>7. CASE j <= Opening /\ program[j][2] = 0 /\ program[j][1] # "loop_end"
  <2>1. ASSUME NEW s \in 1..Reads, NEW b \in 1..Width, program[k] = <<Read(worker[3])[b], s>>
        PROVE  FALSE
    BY <1>4, <1>7, <2>1
  <2>2. k # Ending + 1 \/ program[k] # <<"deafen", 0>>
    BY <1>4
  <2>3. k # Ending + 2 \/ program[k] # <<"loop_end", 0>>
    BY <1>4, <1>7
  <2>4. k <= Opening
    BY <1>2, <2>1, <2>2, <2>3
  <2>5. QED
    BY <1>5, <1>7, <2>4
<1>8. CASE j = Ending + 2 /\ program[j] = <<"loop_end", 0>>
  <2>1. program[k][1] = "loop_end" /\ program[k][2] = 0
    BY <1>4, <1>8
  <2>2. k = Ending + 2
    BY <1>2, <2>1
  <2>3. QED
    BY <1>8, <2>2
<1>9. j # Ending + 1 \/ program[j] # <<"deafen", 0>>
  BY <1>4
<1>10. QED
  BY <1>2, <1>6, <1>7, <1>8, <1>9

\* A milestone is where it was found.
LEMMA Found ==
    ASSUME GcTimelineConstants, worker \in Workers, Timed, NEW name, NEW r, NEW k \in DOMAIN program,
           program[k] = <<name, r>>, name \notin {"listen", "deafen"}
    PROVE  Place(name, r) = k
<1>1. \E j \in DOMAIN program : program[j] = <<name, r>>
  OBVIOUS
<1>2. Place(name, r) \in DOMAIN program /\ program[Place(name, r)] = <<name, r>>
  BY <1>1 DEF Place
<1>3. Name(k) = name
  BY DEF Name
<1>4. QED
  BY <1>2, <1>3, OnePlace

\* The places of the milestones of a timed worker.
LEMMA TimedPlaces ==
    ASSUME GcTimelineConstants, worker \in Workers, Timed
    PROVE  /\ Place("scope_before", 0) = 1 /\ Place("scope_start", 0) = 2 /\ Place("call_start", 0) = 4
           /\ Place("call_end", 0) = 5 + Request /\ Place("scope_end", 0) = 7 + Request
           /\ Place("scope_after", 0) = 8 + Request
           /\ Place("loop_start", 0) = 9 + Request /\ Place("loop_end", 0) = Ending + 2
<1>1. DOMAIN program = 1..Ending + 2 /\ program[Ending + 2] = <<"loop_end", 0>>
  BY TimedMilestones
<1>2. Ending \in Nat /\ 10 + Request < Ending /\ Request \in {0, 1}
  BY Told DEF Opening
<1>3. /\ 1 \in DOMAIN program /\ 2 \in DOMAIN program /\ 4 \in DOMAIN program /\ 5 + Request \in DOMAIN program
      /\ 7 + Request \in DOMAIN program /\ 8 + Request \in DOMAIN program /\ 9 + Request \in DOMAIN program
      /\ Ending + 2 \in DOMAIN program
  BY <1>1, <1>2
<1>4. /\ program[1] = <<"scope_before", 0>> /\ program[2] = <<"scope_start", 0>>
      /\ program[4] = <<"call_start", 0>> /\ program[5 + Request] = <<"call_end", 0>>
      /\ program[7 + Request] = <<"scope_end", 0>> /\ program[8 + Request] = <<"scope_after", 0>>
      /\ program[9 + Request] = <<"loop_start", 0>>
  BY OpeningMilestones
<1>5. Place("scope_before", 0) = 1 /\ Place("scope_start", 0) = 2 /\ Place("call_start", 0) = 4
  BY <1>3, <1>4, Found
<1>6. Place("call_end", 0) = 5 + Request /\ Place("scope_end", 0) = 7 + Request
  BY <1>3, <1>4, Found
<1>7. Place("scope_after", 0) = 8 + Request /\ Place("loop_start", 0) = 9 + Request
  BY <1>3, <1>4, Found
<1>8. Place("loop_end", 0) = Ending + 2
  BY <1>1, <1>3, Found
<1>9. QED
  BY <1>5, <1>6, <1>7, <1>8

\* Those of the milestones of a read.
LEMMA ReadPlaces ==
    ASSUME GcTimelineConstants, worker \in Workers, Timed, NEW r \in 1..Reads
    PROVE  /\ Turn(r) \in Nat /\ Turn(r) >= Opening /\ Turn(r) + Width <= Ending
           /\ Place("op_start", r) = Turn(r) + 1 /\ Place("op_end", r) = Turn(r) + 2
           /\ Place("released", r) = Turn(r) + Width
           /\ worker[3] => /\ Width = 5 /\ Place("validation_start", r) = Turn(r) + 3
                           /\ Place("validation_end", r) = Turn(r) + 4
           /\ ~worker[3] => Width = 3
<1>1. /\ program[Turn(r) + 1] = <<"op_start", r>> /\ program[Turn(r) + 2] = <<"op_end", r>>
      /\ program[Turn(r) + Width] = <<"released", r>>
      /\ worker[3] => /\ Width = 5 /\ program[Turn(r) + 3] = <<"validation_start", r>>
                      /\ program[Turn(r) + 4] = <<"validation_end", r>>
      /\ ~worker[3] => Width = 3
  BY ReadMilestones
<1>2. DOMAIN program = 1..Ending + 2
  BY TimedMilestones
<1>3. Ending \in Nat /\ Opening \in Nat /\ Width \in {3, 5}
  BY Told
<1>4. Turn(r) \in Nat /\ Turn(r) >= Opening /\ Turn(r) + Width <= Ending
  <2>1. Width \in 1..Width
    BY <1>3
  <2>2. QED
    BY <2>1, TimedMilestones
<1>5. \A a \in 1..Width : Turn(r) + a \in DOMAIN program
  BY <1>2, <1>3, <1>4
<1>6. Turn(r) + 1 \in DOMAIN program /\ Turn(r) + 2 \in DOMAIN program /\ Turn(r) + Width \in DOMAIN program
  BY <1>3, <1>5
<1>7. Place("op_start", r) = Turn(r) + 1 /\ Place("op_end", r) = Turn(r) + 2 /\ Place("released", r) = Turn(r) + Width
  BY <1>1, <1>6, Found
<1>8. worker[3] => Place("validation_start", r) = Turn(r) + 3 /\ Place("validation_end", r) = Turn(r) + 4
  <2>1. worker[3] => Turn(r) + 3 \in DOMAIN program /\ Turn(r) + 4 \in DOMAIN program
    BY <1>1, <1>5
  <2>2. QED
    BY <1>1, <2>1, Found
<1>9. QED
  BY <1>1, <1>4, <1>7, <1>8

\* The places of the milestones of a probe.
LEMMA ProbePlaces ==
    ASSUME worker \in Workers, ~Timed
    PROVE  /\ Place("before", 0) = 1 /\ Place("before_preparation", 0) = 3 /\ Place("before_measured", 0) = 5
           /\ Place("start", 0) = 6 /\ Place("end", 0) = 8 /\ Place("after_measured", 0) = 9
           /\ Place("restored", 0) = 11
<1>1. /\ DOMAIN program = 1..11
      /\ program[1] = <<"before", 0>> /\ program[2] = <<"disable", 0>>
      /\ program[3] = <<"before_preparation", 0>> /\ program[4] = <<"collect", 0>>
      /\ program[5] = <<"before_measured", 0>> /\ program[6] = <<"start", 0>>
      /\ program[7] = <<"collect", 0>> /\ program[8] = <<"end", 0>>
      /\ program[9] = <<"after_measured", 0>> /\ program[10] = <<"enable", 0>>
      /\ program[11] = <<"restored", 0>>
  BY ProbeMilestones
<1>2. ASSUME NEW name, NEW k \in 1..11, program[k] = <<name, 0>>,
             \A j \in 1..11 : program[j] = <<name, 0>> => j = k
      PROVE  Place(name, 0) = k
  BY <1>1, <1>2 DEF Place
<1>3. \A j \in 1..11 : j \in {1, 2, 3, 4, 5, 6, 7, 8, 9, 10, 11}
  OBVIOUS
<1>4. Place("before", 0) = 1 /\ Place("before_preparation", 0) = 3
  <2>1. \A j \in 1..11 : (program[j] = <<"before", 0>> => j = 1) /\ (program[j] = <<"before_preparation", 0>> => j = 3)
    BY <1>1, <1>3
  <2>2. QED
    BY <1>1, <1>2, <2>1
<1>5. Place("before_measured", 0) = 5 /\ Place("start", 0) = 6
  <2>1. \A j \in 1..11 : (program[j] = <<"before_measured", 0>> => j = 5) /\ (program[j] = <<"start", 0>> => j = 6)
    BY <1>1, <1>3
  <2>2. QED
    BY <1>1, <1>2, <2>1
<1>6. Place("end", 0) = 8 /\ Place("after_measured", 0) = 9
  <2>1. \A j \in 1..11 : (program[j] = <<"end", 0>> => j = 8) /\ (program[j] = <<"after_measured", 0>> => j = 9)
    BY <1>1, <1>3
  <2>2. QED
    BY <1>1, <1>2, <2>1
<1>7. Place("restored", 0) = 11
  <2>1. \A j \in 1..11 : program[j] = <<"restored", 0>> => j = 11
    BY <1>1, <1>3
  <2>2. QED
    BY <1>1, <1>2, <2>1
<1>8. QED
  BY <1>4, <1>5, <1>6, <1>7

----------------------------------------------------------------------------
(* What the analyzers make of the recordings.                              *)

\* The collections between two milestones.
Amid(j, k) == {n \in 1..Len(truth) : j <= truth[n].at /\ truth[n].at < k}

\* The collections are finitely many, of a generation each.
LEMMA Collections ==
    ASSUME Recording
    PROVE  /\ steps \in Nat /\ Len(truth) \in Nat /\ DOMAIN truth = 1..Len(truth) /\ IsFiniteSet(1..Len(truth))
           /\ \A n \in 1..Len(truth) :
                /\ truth[n].at \in Nat /\ truth[n].start \in Nat /\ truth[n].end \in Nat
                /\ truth[n].generation \in Generations /\ truth[n].collected \in Nat
                /\ truth[n].asked \in Nat /\ truth[n].noted \in Nat /\ truth[n].at <= steps
           /\ \A j, k : IsFiniteSet(Amid(j, k))
<1>1. steps \in Nat /\ truth \in Seq(TruthRecord)
  BY DEF Recording, Recorded
<1>2. Len(truth) \in Nat /\ DOMAIN truth = 1..Len(truth) /\ \A n \in 1..Len(truth) : truth[n] \in TruthRecord
  BY <1>1
<1>3. IsFiniteSet(1..Len(truth))
  <2>1. 1 \in Int /\ Len(truth) \in Int
    BY <1>2
  <2>2. QED
    BY <2>1, FS_Interval
<1>4. \A n \in 1..Len(truth) :
        /\ truth[n].at \in Nat /\ truth[n].start \in Nat /\ truth[n].end \in Nat
        /\ truth[n].generation \in Generations /\ truth[n].collected \in Nat
        /\ truth[n].asked \in Nat /\ truth[n].noted \in Nat
  BY <1>2 DEF TruthRecord
<1>5. \A n \in 1..Len(truth) : truth[n].at <= steps
  BY DEF Recording, Ordered
<1>6. ASSUME NEW j, NEW k
      PROVE  IsFiniteSet(Amid(j, k))
  <2>1. Amid(j, k) \in SUBSET (1..Len(truth))
    BY DEF Amid
  <2>2. QED
    BY <1>3, <2>1, FS_Subset
<1>7. QED
  BY <1>1, <1>2, <1>3, <1>4, <1>5, <1>6

\* The difference of two states of the collector is what was collected between.
LEMMA DifferenceOf ==
    ASSUME Recording, NEW j \in 1..steps, NEW k \in 1..steps, j <= k, NEW g \in Generations
    PROVE  Difference(states[j], states[k])[g] = CountsOf(truth, Amid(j, k))[g]
<1> DEFINE S == {n \in 1..Len(truth) : truth[n].at < j}
           T == Amid(j, k)
           U == {n \in 1..Len(truth) : truth[n].at < k}
<1>1. states[j].stats = CountsOf(truth, S) /\ states[k].stats = CountsOf(truth, U)
  BY DEF Recording, Counted
<1>2. steps \in Nat /\ \A n \in 1..Len(truth) : truth[n].at \in Nat /\ truth[n].collected \in Nat
  BY Collections
<1>3. U = S \cup T /\ S \cap T = {}
  BY <1>2 DEF Amid
<1>4. IsFiniteSet(S) /\ IsFiniteSet(T)
  <2>1. S \in SUBSET (1..Len(truth))
    OBVIOUS
  <2> HIDE DEF S
  <2>2. IsFiniteSet(S)
    BY <2>1, Collections, FS_Subset
  <2>3. QED
    BY <2>2, Collections
<1>5. \A n \in S \cup T : truth[n].collected \in Nat
  BY <1>2 DEF Amid
<1> HIDE DEF S, T, U
<1>6. /\ CountsOf(truth, S) \in [Generations -> CountRecord]
      /\ CountsOf(truth, S \cup T)[g].collections = CountsOf(truth, S)[g].collections + CountsOf(truth, T)[g].collections
      /\ CountsOf(truth, S \cup T)[g].collected = CountsOf(truth, S)[g].collected + CountsOf(truth, T)[g].collected
  BY <1>3, <1>4, <1>5, CountsJoin
<1>7. CountsOf(truth, T) \in [Generations -> CountRecord]
  <2> DEFINE Z == {}
  <2>1. IsFiniteSet(Z) /\ T \cap Z = {} /\ \A n \in T \cup Z : truth[n].collected \in Nat
    BY <1>5, FS_EmptySet
  <2> HIDE DEF Z
  <2>2. QED
    BY <1>4, <2>1, CountsJoin
<1>8. /\ CountsOf(truth, S)[g].collections \in Nat /\ CountsOf(truth, S)[g].collected \in Nat
      /\ CountsOf(truth, T)[g].collections \in Nat /\ CountsOf(truth, T)[g].collected \in Nat
  BY <1>6, <1>7 DEF CountRecord
<1>9. /\ states[k].stats[g].collections - states[j].stats[g].collections = CountsOf(truth, T)[g].collections
      /\ states[k].stats[g].collected - states[j].stats[g].collected = CountsOf(truth, T)[g].collected
  BY <1>1, <1>3, <1>6, <1>8
<1>10. Difference(states[j], states[k])[g]
         = [collections |-> states[k].stats[g].collections - states[j].stats[g].collections,
            collected   |-> states[k].stats[g].collected - states[j].stats[g].collected]
  BY DEF Difference
<1>11. CountsOf(truth, T)[g] = [collections |-> CountsOf(truth, T)[g].collections,
                                collected   |-> CountsOf(truth, T)[g].collected]
  <2>1. CountsOf(truth, T)[g] \in CountRecord
    BY <1>7
  <2>2. QED
    BY <2>1 DEF CountRecord
<1>12. QED
  BY <1>9, <1>10, <1>11 DEF T

\* A note lies in a scope just if the collection lies between its milestones.
LEMMA InsideScope ==
    ASSUME Recording, NEW j \in 1..steps, NEW k \in 1..steps, NEW n \in 1..Len(truth), truth[n].noted # 0
    PROVE  truth[n].noted \in Inside(times[j], times[k]) <=> n \in Amid(j, k)
<1>1. /\ truth[n].noted \in 1..Len(events)
      /\ events[truth[n].noted].start = truth[n].start /\ events[truth[n].noted].end = truth[n].end
  BY DEF Recording, Notes
<1>2. truth[n].at \in Nat /\ truth[n].start \in Nat /\ truth[n].end \in Nat /\ steps \in Nat
  BY Collections
<1>3. times[j] \in Nat /\ times[k] \in Nat /\ DOMAIN events = 1..Len(events)
  BY DEF Recording, Recorded
<1>4. /\ truth[n].start < truth[n].end
      /\ j <= truth[n].at => times[j] < truth[n].start
      /\ j > truth[n].at  => truth[n].end <= times[j]
      /\ k <= truth[n].at => times[k] < truth[n].start
      /\ k > truth[n].at  => truth[n].end <= times[k]
  BY DEF Recording, Ordered
<1>5. times[j] <= truth[n].start <=> j <= truth[n].at
  <2>1. times[j] \in Nat /\ truth[n].start \in Nat /\ truth[n].end \in Nat /\ truth[n].at \in Nat /\ j \in Nat
    BY <1>2, <1>3
  <2>2. CASE j <= truth[n].at
    BY <1>4, <2>1, <2>2
  <2>3. CASE j > truth[n].at
    <3>1. truth[n].start < truth[n].end /\ truth[n].end <= times[j]
      BY <1>4, <2>3
    <3>2. QED
      BY <2>1, <2>3, <3>1
  <2>4. QED
    BY <2>1, <2>2, <2>3
<1>6. truth[n].end <= times[k] <=> truth[n].at < k
  <2>1. times[k] \in Nat /\ truth[n].start \in Nat /\ truth[n].end \in Nat /\ truth[n].at \in Nat /\ k \in Nat
    BY <1>2, <1>3
  <2>2. CASE k > truth[n].at
    BY <1>4, <2>1, <2>2
  <2>3. CASE k <= truth[n].at
    <3>1. truth[n].start < truth[n].end /\ times[k] < truth[n].start
      BY <1>4, <2>3
    <3>2. QED
      BY <2>1, <2>3, <3>1
  <2>4. QED
    BY <2>1, <2>2, <2>3
<1>7. QED
  BY <1>1, <1>3, <1>5, <1>6 DEF Inside, Amid

\* The collections that a callback noted in a scope.
NotedIn(scope) == {n \in 1..Len(truth) : truth[n].noted # 0 /\ truth[n].noted \in scope}

\* Those of a generation, what the callback noted of a generation, and the note
\* of each.
NotedOf(scope, g)  == {n \in NotedIn(scope) : truth[n].generation = g}
EventsOf(scope, g) == {m \in scope : events[m].generation = g}
NoteOf(scope, g)   == [n \in NotedOf(scope, g) |-> truth[n].noted]

\* Each collection of a generation that a callback noted in a scope has its note.
LEMMA NotesMatched ==
    ASSUME Recording, NEW scope, scope \subseteq DOMAIN events, NEW g \in Generations
    PROVE  /\ IsFiniteSet(NotedOf(scope, g)) /\ NoteOf(scope, g) \in [NotedOf(scope, g) -> EventsOf(scope, g)]
           /\ \A n, k \in NotedOf(scope, g) : NoteOf(scope, g)[n] = NoteOf(scope, g)[k] => n = k
           /\ \A m \in EventsOf(scope, g) : \E n \in NotedOf(scope, g) : NoteOf(scope, g)[n] = m
<1> DEFINE A == {n \in NotedIn(scope) : truth[n].generation = g}
           B == {m \in scope : events[m].generation = g}
           b == [n \in A |-> truth[n].noted]
<1>1. \A n \in A : /\ n \in 1..Len(truth) /\ truth[n].noted # 0 /\ truth[n].noted \in scope
                   /\ events[truth[n].noted].generation = truth[n].generation
  BY DEF Recording, Notes, NotedIn
<1>2. b \in [A -> B]
  BY <1>1
<1>3. \A n, k \in A : b[n] = b[k] => n = k
  BY <1>1 DEF Recording, Notes
<1>4. ASSUME NEW m \in B
      PROVE  \E n \in A : b[n] = m
  <2>1. m \in 1..Len(events) /\ m # 0
    <3>1. m \in DOMAIN events /\ DOMAIN events = 1..Len(events)
      BY DEF Recording, Recorded
    <3>2. QED
      BY <3>1
  <2>2. PICK n \in 1..Len(truth) : truth[n].noted = m
    BY <2>1 DEF Recording, Notes
  <2>3. events[m].generation = truth[n].generation
    BY <2>1, <2>2 DEF Recording, Notes
  <2>4. n \in A
    BY <2>1, <2>2, <2>3 DEF NotedIn
  <2>5. QED
    BY <2>2, <2>4
<1>5. IsFiniteSet(A)
  <2>1. A \in SUBSET (1..Len(truth))
    BY <1>1
  <2> HIDE DEF A
  <2>2. QED
    BY <2>1, Collections, FS_Subset
<1>6. A = NotedOf(scope, g) /\ B = EventsOf(scope, g) /\ b = NoteOf(scope, g)
  BY DEF NotedOf, EventsOf, NoteOf
<1> HIDE DEF A, B, b
<1>7. QED
  BY <1>2, <1>3, <1>4, <1>5, <1>6

\* What is noted between two milestones is what the collector did, where the
\* callback is there.
LEMMA SummaryOf ==
    ASSUME Recording, NEW scope, scope \subseteq DOMAIN events, NEW g \in Generations
    PROVE  /\ summarize_scope(scope, g).collections = CountsOf(truth, NotedIn(scope))[g].collections
           /\ summarize_scope(scope, g).collected = CountsOf(truth, NotedIn(scope))[g].collected
<1> DEFINE A == NotedOf(scope, g)
           B == EventsOf(scope, g)
           b == NoteOf(scope, g)
           d == [n \in A |-> truth[n].collected]
           f == [m \in B |-> events[m].collected]
<1>1. /\ summarize_scope(scope, g).collections = Cardinality(B)
      /\ summarize_scope(scope, g).collected = Total(f)
  BY DEF summarize_scope, EventsOf
<1>2. /\ CountsOf(truth, NotedIn(scope))[g].collections = Cardinality(A)
      /\ CountsOf(truth, NotedIn(scope))[g].collected = Total(d)
  <2>1. CountsOf(truth, NotedIn(scope))[g] = [collections |-> Cardinality(A), collected |-> Total(d)]
    BY DEF CountsOf, NotedOf
  <2> HIDE DEF A, d
  <2>2. QED
    BY <2>1
<1>3. /\ IsFiniteSet(A) /\ b \in [A -> B]
      /\ \A n, k \in A : b[n] = b[k] => n = k
      /\ \A m \in B : \E n \in A : b[n] = m
  BY NotesMatched
<1>4. \A n \in A : f[b[n]] = d[n]
  <2>1. \A n \in A : b[n] = truth[n].noted /\ b[n] \in B
    BY <1>3 DEF NoteOf
  <2>2. \A n \in A : events[truth[n].noted].collected = truth[n].collected
    BY DEF Recording, Notes, NotedIn, NotedOf
  <2>3. QED
    BY <2>1, <2>2
<1>5. d \in [A -> Nat]
  BY Collections DEF NotedIn, NotedOf
<1>6. DOMAIN f = B
  OBVIOUS
<1> HIDE DEF A, B, b, d, f
<1>7. IsFiniteSet(A) /\ b \in Bijection(A, B)
  BY <1>3, OneToOne
<1>8. Total(f) = Total(d)
  BY <1>4, <1>5, <1>6, <1>7, TotalSame
<1>9. Cardinality(B) = Cardinality(A)
  BY <1>7, FS_Bijection DEF ExistsBijection
<1>10. QED
  BY <1>1, <1>2, <1>8, <1>9

\* A full collection is the only one of a time just if the counts say so.
LEMMA OnlyOne ==
    ASSUME Recording, NEW D, D \subseteq 1..Len(truth), NEW a \in D, truth[a].generation = 2
    PROVE  D = {a} <=> /\ CountsOf(truth, D)[0] = [collections |-> 0, collected |-> 0]
                       /\ CountsOf(truth, D)[1] = [collections |-> 0, collected |-> 0]
                       /\ CountsOf(truth, D)[2] = [collections |-> 1, collected |-> truth[a].collected]
<1>1. IsFiniteSet(D) /\ 0 \in Generations /\ 1 \in Generations /\ 2 \in Generations
  <2>1. D \in SUBSET (1..Len(truth))
    OBVIOUS
  <2>2. IsFiniteSet(D)
    BY <2>1, Collections, FS_Subset
  <2>3. QED
    BY <2>2 DEF Generations
<1>2. \A n \in D : truth[n].generation \in {0, 1, 2} /\ truth[n].collected \in Nat
  BY Collections DEF Generations
<1>3. ASSUME NEW g \in Generations, \A n \in D : truth[n].generation # g
      PROVE  CountsOf(truth, D)[g] = [collections |-> 0, collected |-> 0]
  BY <1>3, CountsNone
<1>4. ASSUME D = {a}
      PROVE  /\ CountsOf(truth, D)[0] = [collections |-> 0, collected |-> 0]
             /\ CountsOf(truth, D)[1] = [collections |-> 0, collected |-> 0]
             /\ CountsOf(truth, D)[2] = [collections |-> 1, collected |-> truth[a].collected]
  <2>1. CountsOf(truth, D)[2] = [collections |-> 1, collected |-> truth[a].collected]
    BY <1>1, <1>2, <1>4, CountsOne
  <2>2. \A n \in D : truth[n].generation # 0 /\ truth[n].generation # 1
    BY <1>4
  <2>3. QED
    BY <1>1, <1>3, <2>1, <2>2
<1>5. ASSUME CountsOf(truth, D)[0] = [collections |-> 0, collected |-> 0],
             CountsOf(truth, D)[1] = [collections |-> 0, collected |-> 0],
             CountsOf(truth, D)[2] = [collections |-> 1, collected |-> truth[a].collected]
      PROVE  D = {a}
  <2> DEFINE B == [g \in Generations |-> {n \in D : truth[n].generation = g}]
  <2>1. \A g \in Generations : CountsOf(truth, D)[g].collections = Cardinality(B[g])
    BY DEF CountsOf
  <2>2. \A g \in Generations : IsFiniteSet(B[g])
    <3>1. ASSUME NEW g \in Generations
          PROVE  IsFiniteSet(B[g])
      <4>1. B[g] \in SUBSET D
        OBVIOUS
      <4> HIDE DEF B
      <4>2. QED
        BY <1>1, <4>1, FS_Subset
    <3>2. QED
      BY <3>1
  <2>3. /\ \A n \in D : n \in B[truth[n].generation] /\ truth[n].generation \in Generations
        /\ a \in B[2]
    BY <1>1, <1>2
  <2> HIDE DEF B
  <2>4. Cardinality(B[0]) = 0 /\ Cardinality(B[1]) = 0
    <3>1. CountsOf(truth, D)[0].collections = 0 /\ CountsOf(truth, D)[1].collections = 0
      BY <1>5
    <3>2. QED
      BY <1>1, <2>1, <3>1
  <2>5. Cardinality(B[2]) = 1
    <3>1. CountsOf(truth, D)[2].collections = 1
      BY <1>5
    <3>2. QED
      BY <1>1, <2>1, <3>1
  <2>6. B[0] = {} /\ B[1] = {}
    BY <1>1, <2>2, <2>4, FS_EmptySet
  <2>7. PICK x : B[2] = {x}
    BY <1>1, <2>2, <2>5, FS_Singleton
  <2>8. \A n \in D : n \in B[2]
    BY <1>2, <2>3, <2>6
  <2>9. QED
    BY <2>3, <2>7, <2>8
<1>6. QED
  BY <1>4, <1>5

----------------------------------------------------------------------------
(* Conditioned workers and probes are accepted as they were asked for.     *)

\* What lies between two milestones, by their places.
LEMMA BetweenPlaces ==
    ASSUME Recording, NEW from, NEW to
    PROVE  Between(from, to) = Amid(Place(from, 0), Place(to, 0))
BY Collections DEF Between, Amid

\* A worker that is done has passed its last milestone.
LEMMA WhenDone ==
    ASSUME GcTimelineConstants, Recording, done
    PROVE  /\ worker \in Workers
           /\ Timed => /\ steps = Ending + 2 /\ Ending \in Nat /\ 10 + Request < Ending /\ Request \in {0, 1}
                       /\ Opening = 10 + Request /\ worker[2] \in BOOLEAN
           /\ ~Timed => steps = 11
<1>1. worker \in Workers
  BY DEF Recording, Recorded
<1>2. CASE Timed
  BY <1>1, <1>2, Told, TimedMilestones DEF done, Opening
<1>3. CASE ~Timed
  BY <1>1, <1>3, ProbeMilestones DEF done
<1>4. QED
  BY <1>1, <1>2, <1>3

\* The callback of the conditioning notes what is collected while it is there.
LEMMA ScopeNoted ==
    ASSUME GcTimelineConstants, Recording, done, Timed
    PROVE  LET scope == Inside(times[2], times[7 + Request])
           IN  /\ scope \subseteq DOMAIN events
               /\ NotedIn(scope) = {n \in 1..Len(truth) : truth[n].at \in 3..5 + Request}
<1> DEFINE scope == Inside(times[2], times[7 + Request])
<1>1. /\ steps = Ending + 2 /\ Ending \in Nat /\ 10 + Request < Ending /\ Request \in {0, 1}
      /\ Opening = 10 + Request
  BY WhenDone
<1>2. 2 \in 1..steps /\ 7 + Request \in 1..steps
  BY <1>1
<1>3. \A n \in 1..Len(truth) : /\ truth[n].at \in Nat
                               /\ truth[n].noted # 0 <=> truth[n].at \in (3..5 + Request) \cup (Opening..Ending)
  BY Collections DEF Recording, Notes, Hearing
<1>4. ASSUME NEW n \in 1..Len(truth), truth[n].noted # 0
      PROVE  truth[n].noted \in scope <=> 2 <= truth[n].at /\ truth[n].at < 7 + Request
  BY <1>2, <1>4, InsideScope DEF Amid
<1>5. scope \subseteq DOMAIN events
  BY DEF Inside
<1> HIDE DEF scope
<1>6. ASSUME NEW n \in 1..Len(truth)
      PROVE  truth[n].noted # 0 /\ truth[n].noted \in scope <=> truth[n].at \in 3..5 + Request
  <2>1. CASE truth[n].noted = 0
    BY <1>1, <1>3, <2>1
  <2>2. CASE truth[n].noted # 0
    <3>1. truth[n].noted \in scope <=> 2 <= truth[n].at /\ truth[n].at < 7 + Request
      BY <1>4, <2>2
    <3>2. truth[n].at \in (3..5 + Request) \cup (Opening..Ending) /\ truth[n].at \in Nat
      BY <1>3, <2>2
    <3>3. QED
      BY <1>1, <2>2, <3>1, <3>2
  <2>3. QED
    BY <2>1, <2>2
<1>7. NotedIn(scope) = {n \in 1..Len(truth) : truth[n].at \in 3..5 + Request}
  BY <1>6 DEF NotedIn
<1>8. QED
  BY <1>5, <1>7 DEF scope

\* The callback noted what the collector counted just if it noted all collections.
LEMMA AgreesWhen ==
    ASSUME GcTimelineConstants, Recording, done, Timed
    PROVE  LET scope == Inside(times[2], times[7 + Request])
           IN  Agrees(scope) <=> NotedIn(scope) = Amid(1, 8 + Request)
<1> DEFINE scope == Inside(times[2], times[7 + Request])
           D == Amid(1, 8 + Request)
<1>1. /\ steps = Ending + 2 /\ Ending \in Nat /\ 10 + Request < Ending /\ Request \in {0, 1}
      /\ worker \in Workers
  BY WhenDone
<1>2. 1 \in 1..steps /\ 8 + Request \in 1..steps /\ 1 <= 8 + Request
  BY <1>1
<1>3. State("scope_before") = states[1] /\ State("scope_after") = states[8 + Request]
  <2>1. Place("scope_before", 0) = 1 /\ Place("scope_after", 0) = 8 + Request
    BY <1>1, TimedPlaces
  <2>2. QED
    BY <2>1 DEF State
<1>4. scope \subseteq DOMAIN events /\ NotedIn(scope) = {n \in 1..Len(truth) : truth[n].at \in 3..5 + Request}
  BY ScopeNoted
<1>5. NotedIn(scope) \subseteq D
  BY <1>1, <1>4, Collections DEF Amid
<1>6. IsFiniteSet(D) /\ \A n \in D : truth[n].generation \in Generations
  BY Collections DEF Amid
<1> HIDE DEF scope
<1>7. \A g \in Generations : Difference(states[1], states[8 + Request])[g] = CountsOf(truth, D)[g]
  BY <1>2, DifferenceOf
<1>8. \A g \in Generations : /\ summarize_scope(scope, g).collections = CountsOf(truth, NotedIn(scope))[g].collections
                             /\ summarize_scope(scope, g).collected = CountsOf(truth, NotedIn(scope))[g].collected
  <2>1. scope \subseteq DOMAIN events
    BY <1>4
  <2>2. QED
    BY <2>1, SummaryOf
<1> HIDE DEF D
<1>9. Agrees(scope) <=> \A g \in Generations :
          /\ CountsOf(truth, D)[g].collections = CountsOf(truth, NotedIn(scope))[g].collections
          /\ CountsOf(truth, D)[g].collected = CountsOf(truth, NotedIn(scope))[g].collected
  BY <1>3, <1>7, <1>8 DEF Agrees
<1>10. ASSUME Agrees(scope)
       PROVE  NotedIn(scope) = D
  <2>1. \A g \in Generations : CountsOf(truth, NotedIn(scope))[g].collections = CountsOf(truth, D)[g].collections
    BY <1>9, <1>10
  <2>2. QED
    BY <1>5, <1>6, <2>1, CountsEqual
<1>11. NotedIn(scope) = D => Agrees(scope)
  BY <1>9
<1>12. QED
  BY <1>10, <1>11 DEF D, scope

\* A requested collection is the only one of its call just if none was automatic.
LEMMA OnlyCollection ==
    ASSUME GcTimelineConstants, Recording, done, Timed, worker[2]
    PROVE  LET found == Inside(times[4], times[6])
           IN  (\E m \in found : /\ found = {m} /\ events[m].generation = 2 /\ returned = <<events[m].collected>>)
                 <=> ~\E n \in Amid(4, 6) : truth[n].asked = 0
<1> DEFINE found == Inside(times[4], times[6])
<1>1. /\ steps = Ending + 2 /\ Ending \in Nat /\ 10 + Request < Ending /\ Request = 1
      /\ Opening = 11 /\ 4 \in 1..steps /\ 6 \in 1..steps
  BY WhenDone DEF Request
<1>2. Requests = 1 /\ Asks[1] = 4
  BY <1>1 DEF Requests, Asks
<1>3. Len(returned) = 1 /\ returned \in Seq(Nat)
  <2>1. Len(returned) <= 1 /\ (1 <= Len(returned) <=> 4 < steps)
    BY <1>2 DEF Recording, Answers
  <2>2. returned \in Seq(Nat) /\ Len(returned) \in Nat
    BY DEF Recording, Recorded
  <2>3. 1 <= Len(returned)
    <3>1. 4 < steps
      BY <1>1
    <3>2. QED
      BY <2>1, <3>1
  <2>4. \A x \in Nat : 1 <= x /\ x <= 1 => x = 1
    OBVIOUS
  <2>5. QED
    BY <2>1, <2>2, <2>3, <2>4
<1>4. PICK a \in 1..Len(truth) : truth[a].asked = 1
  BY <1>3 DEF Recording, Answers
<1>5. truth[a].at = 4 /\ truth[a].generation = 2 /\ returned[1] = truth[a].collected
  BY <1>2, <1>4 DEF Recording, Answers
<1>6. \A n \in 1..Len(truth) : truth[n].asked \in {0, 1} /\ (truth[n].asked = 1 => n = a)
  <2>1. \A n \in 1..Len(truth) : truth[n].asked # 0 => truth[n].asked \in 1..1
    BY <1>3 DEF Recording, Answers
  <2>2. \A n \in 1..Len(truth) : truth[n].asked = 1 => n = a
    BY <1>4 DEF Recording, Answers
  <2>3. QED
    BY <2>1, <2>2
<1>7. ASSUME NEW n \in Amid(4, 6)
      PROVE  n \in 1..Len(truth) /\ truth[n].noted # 0 /\ truth[n].noted \in found
  <2>1. n \in 1..Len(truth) /\ truth[n].at \in 3..5 + Request
    <3>1. n \in 1..Len(truth) /\ truth[n].at \in Nat /\ 4 <= truth[n].at /\ truth[n].at < 6
      BY Collections DEF Amid
    <3>2. \A x \in Nat : 4 <= x /\ x < 6 => x \in 3..5 + 1
      OBVIOUS
    <3>3. QED
      BY <1>1, <3>1, <3>2
  <2>2. truth[n].noted # 0
    BY <2>1 DEF Recording, Notes, Hearing
  <2>3. QED
    BY <1>1, <2>1, <2>2, InsideScope
<1>8. ASSUME NEW m \in found
      PROVE  \E n \in Amid(4, 6) : truth[n].noted = m
  <2>1. m \in 1..Len(events) /\ m # 0
    <3>1. m \in DOMAIN events /\ DOMAIN events = 1..Len(events)
      BY DEF Recording, Recorded, Inside
    <3>2. QED
      BY <3>1
  <2>2. PICK n \in 1..Len(truth) : truth[n].noted = m
    BY <2>1 DEF Recording, Notes
  <2>3. n \in Amid(4, 6)
    BY <1>1, <2>1, <2>2, InsideScope
  <2>4. QED
    BY <2>2, <2>3
<1> HIDE DEF found
<1>9. a \in Amid(4, 6)
  BY <1>5 DEF Amid
<1>10. truth[a].noted \in found /\ truth[a].noted # 0
       /\ events[truth[a].noted].generation = 2 /\ events[truth[a].noted].collected = returned[1]
  <2>1. truth[a].noted \in found /\ truth[a].noted # 0
    BY <1>7, <1>9
  <2>2. QED
    BY <1>5, <2>1 DEF Recording, Notes
<1>11. ASSUME \A n \in Amid(4, 6) : truth[n].asked # 0
       PROVE  \E m \in found : /\ found = {m} /\ events[m].generation = 2 /\ returned = <<events[m].collected>>
  <2>1. \A n \in Amid(4, 6) : n = a
    BY <1>6, <1>7, <1>11
  <2>2. found = {truth[a].noted}
    BY <1>8, <1>10, <2>1
  <2>3. returned = <<returned[1]>>
    BY <1>3
  <2>4. QED
    BY <1>10, <2>2, <2>3
<1>12. ASSUME NEW m \in found, found = {m}, NEW n \in Amid(4, 6), truth[n].asked = 0
       PROVE  FALSE
  <2>1. truth[n].noted = m /\ truth[a].noted = m
    BY <1>7, <1>9, <1>12
  <2>2. n \in 1..Len(truth) /\ truth[n].noted # 0
    BY <1>7
  <2>3. n = a
    BY <2>1, <2>2 DEF Recording, Notes
  <2>4. QED
    BY <1>4, <1>12, <2>3
<1>13. QED
  BY <1>11, <1>12 DEF found

\* The collections of a conditioning that its callback missed.
LEMMA MissedOnes ==
    ASSUME GcTimelineConstants, Recording, done, Timed
    PROVE  {n \in Between("scope_before", "scope_after") :
              Name(truth[n].at) \in {"scope_before", "scope_start", "deafen", "scope_end"}} = {}
             <=> NotedIn(Inside(times[2], times[7 + Request])) = Amid(1, 8 + Request)
<1>1. /\ Request \in {0, 1} /\ worker \in Workers
  BY WhenDone
<1>2. NotedIn(Inside(times[2], times[7 + Request])) = {n \in 1..Len(truth) : truth[n].at \in 3..5 + Request}
  BY ScopeNoted
<1>3. Between("scope_before", "scope_after") = Amid(1, 8 + Request)
  <2>1. Place("scope_before", 0) = 1 /\ Place("scope_after", 0) = 8 + Request
    BY <1>1, TimedPlaces
  <2>2. QED
    BY <2>1, BetweenPlaces
<1>4. ASSUME NEW n \in Amid(1, 8 + Request)
      PROVE  Name(truth[n].at) \in {"scope_before", "scope_start", "deafen", "scope_end"}
               <=> ~(truth[n].at \in 3..5 + Request)
  <2>1. truth[n].at \in Nat /\ 1 <= truth[n].at /\ truth[n].at < 8 + Request
    BY Collections DEF Amid
  <2>2. /\ Name(1) = "scope_before" /\ Name(2) = "scope_start" /\ Name(3) = "listen" /\ Name(4) = "call_start"
        /\ Request = 1 => Name(5) = "collect"
        /\ Name(5 + Request) = "call_end" /\ Name(6 + Request) = "deafen" /\ Name(7 + Request) = "scope_end"
    BY <1>1, OpeningMilestones DEF Name
  <2> DEFINE x == truth[n].at
  <2>3. x \in Nat /\ 1 <= x /\ x < 8 + Request
    BY <2>1
  <2> HIDE DEF x
  <2>4. CASE Request = 0
    <3>1. x = 1 \/ x = 2 \/ x = 3 \/ x = 4 \/ x = 5 \/ x = 6 \/ x = 7
      BY <2>3, <2>4
    <3>2. QED
      BY <2>2, <2>4, <3>1 DEF x
  <2>5. CASE Request = 1
    <3>1. x = 1 \/ x = 2 \/ x = 3 \/ x = 4 \/ x = 5 \/ x = 6 \/ x = 7 \/ x = 8
      BY <2>3, <2>5
    <3>2. QED
      BY <2>2, <2>5, <3>1 DEF x
  <2>6. QED
    BY <1>1, <2>4, <2>5
<1>5. \A n \in Amid(1, 8 + Request) : n \in 1..Len(truth)
  BY DEF Amid
<1>6. \A n \in 1..Len(truth) : truth[n].at \in 3..5 + Request => n \in Amid(1, 8 + Request)
  <2>1. ASSUME NEW n \in 1..Len(truth), truth[n].at \in 3..5 + Request
        PROVE  1 <= truth[n].at /\ truth[n].at < 8 + Request
    <3>1. Request \in {0, 1}
      BY <1>1
    <3>2. QED
      BY <2>1, <3>1
  <2>2. QED
    BY <2>1 DEF Amid
<1>7. QED
  BY <1>2, <1>3, <1>4, <1>5, <1>6

\* What a conditioned worker is accepted for.
LEMMA TimedAsAsked ==
    ASSUME GcTimelineConstants, Recording, done, Timed
    PROVE  LET missed == {n \in Between("scope_before", "scope_after") :
                            Name(truth[n].at) \in {"scope_before", "scope_start", "deafen", "scope_end"}}
               spoilt == worker[2] /\ \E n \in Between("call_start", "call_end") : truth[n].asked = 0
           IN  check_conditioning = (missed = {} /\ ~spoilt)
<1> DEFINE scope == Inside(times[2], times[7 + Request])
           found == Inside(times[4], times[5 + Request])
           only  == \E m \in found : found = {m} /\ events[m].generation = 2 /\ returned = <<events[m].collected>>
           missed == {n \in Between("scope_before", "scope_after") :
                        Name(truth[n].at) \in {"scope_before", "scope_start", "deafen", "scope_end"}}
           spoilt == \E n \in Between("call_start", "call_end") : truth[n].asked = 0
<1>1. /\ Request \in {0, 1} /\ worker \in Workers /\ worker[2] \in BOOLEAN
      /\ steps = Ending + 2 /\ Ending \in Nat /\ 10 + Request < Ending
  BY WhenDone
<1>2. /\ Place("scope_before", 0) = 1 /\ Place("scope_start", 0) = 2 /\ Place("call_start", 0) = 4
      /\ Place("call_end", 0) = 5 + Request /\ Place("scope_end", 0) = 7 + Request
      /\ Place("scope_after", 0) = 8 + Request
  BY <1>1, TimedPlaces
<1>3. /\ Inside(Time("scope_start", 0), Time("scope_end", 0)) = scope
      /\ Inside(Time("call_start", 0), Time("call_end", 0)) = found
  BY <1>2 DEF Time
<1>4. State("scope_before").enabled /\ State("scope_after").enabled
  <2>1. 1 \in 1..steps /\ 8 + Request \in 1..steps
    <3>1. steps = Ending + 2 /\ Ending \in Nat /\ 10 + Request < Ending /\ Request \in {0, 1}
      BY <1>1
    <3>2. QED
      BY <3>1
  <2>2. states[1].enabled /\ states[8 + Request].enabled
    BY <2>1 DEF Recording, Switched
  <2>3. QED
    BY <1>2, <2>2 DEF State
<1>5. Agrees(scope) <=> missed = {}
  BY AgreesWhen, MissedOnes
<1>6. worker[2] => (only <=> ~spoilt)
  <2>1. ASSUME worker[2]
        PROVE  only <=> ~spoilt
    <3>1. Request = 1 /\ 5 + Request = 6
      BY <2>1 DEF Request
    <3>2. Between("call_start", "call_end") = Amid(4, 6)
      BY <1>2, <3>1, BetweenPlaces
    <3>3. QED
      BY <2>1, <3>1, <3>2, OnlyCollection
  <2>2. QED
    BY <2>1
<1>7. ~worker[2] => returned = <<>>
  <2>1. ~worker[2] => Len(returned) <= 0
    BY DEF Recording, Answers, Requests, Request
  <2>2. returned \in Seq(Nat) /\ Len(returned) \in Nat
    BY DEF Recording, Recorded
  <2>3. QED
    BY <2>1, <2>2
<1> HIDE DEF scope, found, missed, spoilt
<1>8. check_conditioning <=> Agrees(scope) /\ (worker[2] => only) /\ (~worker[2] => returned = <<>>)
  BY <1>3, <1>4 DEF check_conditioning
<1> HIDE DEF only
<1>9. check_conditioning <=> missed = {} /\ ~(worker[2] /\ spoilt)
  BY <1>1, <1>5, <1>6, <1>7, <1>8
<1>10. check_conditioning \in BOOLEAN
  BY DEF check_conditioning
<1>11. check_conditioning = (missed = {} /\ ~(worker[2] /\ spoilt))
  BY <1>9, <1>10
<1>12. QED
  BY <1>11 DEF missed, spoilt

\* The statistics of two milestones are the same just if nothing was collected
\* between.
LEMMA NothingCollected ==
    ASSUME Recording, NEW j \in 1..steps, NEW k \in 1..steps, j <= k
    PROVE  states[j].stats = states[k].stats <=> Amid(j, k) = {}
<1> DEFINE S == {n \in 1..Len(truth) : truth[n].at < j}
           D == {n \in 1..Len(truth) : truth[n].at < k}
<1>1. states[j].stats = CountsOf(truth, S) /\ states[k].stats = CountsOf(truth, D)
  BY DEF Recording, Counted
<1>2. steps \in Nat /\ \A n \in 1..Len(truth) : truth[n].at \in Nat
  BY Collections
<1>3. S \subseteq D /\ (Amid(j, k) = {} <=> S = D)
  BY <1>2 DEF Amid
<1>4. IsFiniteSet(D) /\ \A n \in D : truth[n].generation \in Generations
  <2>1. D \in SUBSET (1..Len(truth)) /\ \A n \in D : truth[n].generation \in Generations
    BY Collections
  <2> HIDE DEF D
  <2>2. QED
    BY <2>1, Collections, FS_Subset
<1> HIDE DEF S, D
<1>5. ASSUME CountsOf(truth, S) = CountsOf(truth, D)
      PROVE  S = D
  <2>1. \A g \in Generations : CountsOf(truth, S)[g].collections = CountsOf(truth, D)[g].collections
    BY <1>5
  <2>2. QED
    BY <1>3, <1>4, <2>1, CountsEqual
<1>6. QED
  BY <1>1, <1>3, <1>5

\* One full collection between two milestones.
LEMMA OneFullWhen ==
    ASSUME Recording, NEW j \in 1..steps, NEW k \in 1..steps, j <= k, NEW a \in Amid(j, k), truth[a].generation = 2
    PROVE  OneFull(states[j], states[k], truth[a].collected) <=> Amid(j, k) = {a}
<1> DEFINE D == Amid(j, k)
<1>1. D \subseteq 1..Len(truth)
  BY DEF Amid
<1>2. \A g \in Generations : Difference(states[j], states[k])[g] = CountsOf(truth, D)[g]
  BY DifferenceOf
<1>3. 0 \in Generations /\ 1 \in Generations /\ 2 \in Generations
  BY DEF Generations
<1>4. NoStats[0] = [collections |-> 0, collected |-> 0] /\ NoStats[1] = [collections |-> 0, collected |-> 0]
  BY <1>3 DEF NoStats
<1> HIDE DEF D
<1>5. D = {a} <=> /\ CountsOf(truth, D)[0] = [collections |-> 0, collected |-> 0]
                  /\ CountsOf(truth, D)[1] = [collections |-> 0, collected |-> 0]
                  /\ CountsOf(truth, D)[2] = [collections |-> 1, collected |-> truth[a].collected]
  <2>1. a \in D
    BY DEF D
  <2>2. QED
    BY <1>1, <2>1, OnlyOne
<1> DEFINE zero == [collections |-> 0, collected |-> 0]
           one == [collections |-> 1, collected |-> truth[a].collected]
<1>6. OneFull(states[j], states[k], truth[a].collected)
        <=> /\ Difference(states[j], states[k])[0] = NoStats[0]
            /\ Difference(states[j], states[k])[1] = NoStats[1]
            /\ Difference(states[j], states[k])[2] = one
  BY DEF OneFull
<1>7. D = {a} <=> CountsOf(truth, D)[0] = zero /\ CountsOf(truth, D)[1] = zero /\ CountsOf(truth, D)[2] = one
  BY <1>5
<1>8. NoStats[0] = zero /\ NoStats[1] = zero
  BY <1>4
<1> HIDE DEF zero, one
<1>9. QED
  BY <1>2, <1>3, <1>6, <1>7, <1>8 DEF D

\* What a probe is accepted for.
LEMMA ProbeAsAsked ==
    ASSUME GcTimelineConstants, Recording, done, ~Timed
    PROVE  LET around == Between("before", "restored")
               disturbed == \/ \E n \in around : truth[n].asked = 0
                            \/ \E name \in {"before_measured", "after_measured"} : State(name).enabled
           IN  /\ validate_probe = ~disturbed
               /\ validate_probe => \E n \in around :
                    /\ Between("start", "end") = {n} /\ truth[n].generation = 2
                    /\ returned[2] = truth[n].collected
                    /\ Time("end", 0) - Time("start", 0) = truth[n].end - truth[n].start + 2
<1> DEFINE around == Between("before", "restored")
           unasked == \E n \in around : truth[n].asked = 0
           on == states[5].enabled \/ states[9].enabled
<1>1. steps = 11 /\ worker \in Workers
  BY WhenDone
<1>2. /\ Place("before", 0) = 1 /\ Place("before_preparation", 0) = 3 /\ Place("before_measured", 0) = 5
      /\ Place("start", 0) = 6 /\ Place("end", 0) = 8 /\ Place("after_measured", 0) = 9
      /\ Place("restored", 0) = 11
  BY <1>1, ProbePlaces
<1>3. around = Amid(1, 11) /\ Between("start", "end") = Amid(6, 8)
  BY <1>2, BetweenPlaces
<1>4. /\ State("before") = states[1] /\ State("before_preparation") = states[3]
      /\ State("before_measured") = states[5] /\ State("after_measured") = states[9]
      /\ State("restored") = states[11] /\ Time("start", 0) = times[6] /\ Time("end", 0) = times[8]
  BY <1>2 DEF State, Time
<1>5. states[1].enabled /\ states[11].enabled /\ ~states[3].enabled
  BY <1>1 DEF Recording, Switched
<1>6. Requests = 2 /\ Asks[1] = 3 /\ Asks[2] = 6
  BY DEF Requests, Asks
<1>7. Len(returned) = 2
  <2>1. Len(returned) <= 2 /\ (2 <= Len(returned) <=> 6 < steps)
    BY <1>6 DEF Recording, Answers
  <2>2. Len(returned) \in Nat
    BY DEF Recording, Recorded
  <2>3. 6 < steps
    BY <1>1
  <2>4. \A x \in Nat : 2 <= x /\ x <= 2 => x = 2
    OBVIOUS
  <2>5. QED
    BY <2>1, <2>2, <2>3, <2>4
<1>8. PICK a \in 1..Len(truth) : truth[a].asked = 1
  BY <1>7 DEF Recording, Answers
<1>9. PICK c \in 1..Len(truth) : truth[c].asked = 2
  BY <1>7 DEF Recording, Answers
<1>10. /\ truth[a].at = 3 /\ truth[a].generation = 2 /\ returned[1] = truth[a].collected
       /\ truth[c].at = 6 /\ truth[c].generation = 2 /\ returned[2] = truth[c].collected
  <2>1. \A n \in 1..Len(truth) : truth[n].asked # 0 =>
          /\ returned[truth[n].asked] = truth[n].collected
          /\ truth[n].generation = 2 /\ truth[n].at = Asks[truth[n].asked]
    BY DEF Recording, Answers
  <2>2. truth[a].at = 3 /\ truth[a].generation = 2 /\ returned[1] = truth[a].collected
    BY <1>6, <1>8, <2>1
  <2>3. truth[c].at = 6 /\ truth[c].generation = 2 /\ returned[2] = truth[c].collected
    BY <1>6, <1>9, <2>1
  <2>4. QED
    BY <2>2, <2>3
<1>11. \A n \in 1..Len(truth) : truth[n].asked = 0 \/ n = a \/ n = c
  <2>1. \A n \in 1..Len(truth) : truth[n].asked # 0 => truth[n].asked \in 1..2
    <3>1. \A n \in 1..Len(truth) : truth[n].asked # 0 => truth[n].asked \in 1..Len(returned)
      BY DEF Recording, Answers
    <3>2. QED
      BY <1>7, <3>1
  <2>2. \A n \in 1..Len(truth) : (truth[n].asked = 1 => n = a) /\ (truth[n].asked = 2 => n = c)
    <3>1. \A n, k \in 1..Len(truth) : truth[n].asked = truth[k].asked /\ truth[n].asked # 0 => n = k
      BY DEF Recording, Answers
    <3>2. QED
      BY <1>8, <1>9, <3>1
  <2>3. \A n \in 1..Len(truth) : truth[n].asked \in Nat
    BY Collections
  <2>4. QED
    BY <2>1, <2>2, <2>3
<1>12. \A n \in 1..Len(truth) : truth[n].at \in Nat /\ truth[n].start \in Nat /\ truth[n].end \in Nat
  BY Collections
<1>13. OneFull(states[3], states[5], returned[1]) <=> Amid(3, 5) = {a}
  <2>1. 3 \in 1..steps /\ 5 \in 1..steps
    BY <1>1
  <2>2. a \in Amid(3, 5)
    BY <1>10 DEF Amid
  <2>3. QED
    BY <1>10, <2>1, <2>2, OneFullWhen
<1>14. OneFull(states[5], states[9], returned[2]) <=> Amid(5, 9) = {c}
  <2>1. 5 \in 1..steps /\ 9 \in 1..steps
    BY <1>1
  <2>2. c \in Amid(5, 9)
    BY <1>10 DEF Amid
  <2>3. QED
    BY <1>10, <2>1, <2>2, OneFullWhen
<1>15. /\ states[1].stats = states[3].stats <=> Amid(1, 3) = {}
       /\ states[9].stats = states[11].stats <=> Amid(9, 11) = {}
  <2>1. 1 \in 1..steps /\ 3 \in 1..steps /\ 9 \in 1..steps /\ 11 \in 1..steps
    BY <1>1
  <2>2. QED
    BY <2>1, NothingCollected
<1>16. validate_probe <=> /\ ~on /\ Amid(3, 5) = {a} /\ Amid(5, 9) = {c}
                          /\ Amid(1, 3) = {} /\ Amid(9, 11) = {}
  <2>1. validate_probe <=> /\ ~states[5].enabled /\ ~states[9].enabled
                           /\ OneFull(states[3], states[5], returned[1])
                           /\ OneFull(states[5], states[9], returned[2])
                           /\ states[1].stats = states[3].stats /\ states[9].stats = states[11].stats
    BY <1>4, <1>5 DEF validate_probe
  <2>2. QED
    BY <1>13, <1>14, <1>15, <2>1
<1>17. unasked <=> ~(Amid(3, 5) = {a} /\ Amid(5, 9) = {c} /\ Amid(1, 3) = {} /\ Amid(9, 11) = {})
  <2>1. ASSUME ~unasked
        PROVE  Amid(3, 5) = {a} /\ Amid(5, 9) = {c} /\ Amid(1, 3) = {} /\ Amid(9, 11) = {}
    <3>1. \A n \in 1..Len(truth) : 1 <= truth[n].at /\ truth[n].at < 11 => n = a \/ n = c
      BY <1>3, <1>11, <2>1 DEF Amid
    <3>2. \A n \in 1..Len(truth) : 1 <= truth[n].at /\ truth[n].at < 11 =>
             (n = a /\ truth[n].at = 3) \/ (n = c /\ truth[n].at = 6)
      BY <1>10, <3>1
    <3>3. ASSUME NEW j \in 1..11, NEW k \in 1..11, NEW n \in Amid(j, k)
          PROVE  (n = a /\ j <= 3 /\ 3 < k) \/ (n = c /\ j <= 6 /\ 6 < k)
      <4>1. n \in 1..Len(truth) /\ j <= truth[n].at /\ truth[n].at < k /\ truth[n].at \in Nat
        BY <1>12 DEF Amid
      <4>2. 1 <= truth[n].at /\ truth[n].at < 11
        BY <4>1
      <4>3. QED
        BY <3>2, <4>1, <4>2
    <3>4. (\A n \in Amid(3, 5) : n = a) /\ (\A n \in Amid(5, 9) : n = c)
      BY <3>3
    <3>5. Amid(1, 3) = {} /\ Amid(9, 11) = {}
      <4>1. (\A n \in Amid(1, 3) : FALSE) /\ (\A n \in Amid(9, 11) : FALSE)
        BY <3>3
      <4>2. QED
        BY <4>1
    <3>6. a \in Amid(3, 5) /\ c \in Amid(5, 9)
      BY <1>10 DEF Amid
    <3>7. QED
      BY <3>4, <3>5, <3>6
  <2>2. ASSUME Amid(3, 5) = {a}, Amid(5, 9) = {c}, Amid(1, 3) = {}, Amid(9, 11) = {}
        PROVE  ~unasked
    <3>1. \A n \in Amid(1, 11) : n \in Amid(1, 3) \/ n \in Amid(3, 5) \/ n \in Amid(5, 9) \/ n \in Amid(9, 11)
      BY <1>12 DEF Amid
    <3>2. \A n \in Amid(1, 11) : n = a \/ n = c
      BY <2>2, <3>1
    <3>3. QED
      BY <1>3, <1>8, <1>9, <3>2
  <2>3. QED
    BY <2>1, <2>2
<1>18. ASSUME validate_probe
       PROVE  /\ c \in around /\ Between("start", "end") = {c} /\ truth[c].generation = 2
              /\ returned[2] = truth[c].collected
              /\ Time("end", 0) - Time("start", 0) = truth[c].end - truth[c].start + 2
  <2>1. Amid(5, 9) = {c}
    BY <1>16, <1>18
  <2>2. \A n \in 1..Len(truth) : truth[n].at = 6 \/ truth[n].at = 7 => n = c
    BY <2>1 DEF Amid
  <2>3. \A n \in 1..Len(truth) : truth[n].at # 7
    BY <1>10, <2>2
  <2>4. Amid(6, 8) = {c}
    <3>1. \A x \in Nat : 6 <= x /\ x < 8 => x = 6 \/ x = 7
      OBVIOUS
    <3>2. \A n \in Amid(6, 8) : n = c
      BY <1>12, <2>2, <3>1 DEF Amid
    <3>3. c \in Amid(6, 8)
      BY <1>10 DEF Amid
    <3>4. QED
      BY <3>2, <3>3
  <2>5. c \in Amid(1, 11)
    BY <1>10 DEF Amid
  <2>6. truth[c].end = times[6 + 1] /\ truth[c].start = times[6] + 1
    <3>1. truth[c].asked # 0
      BY <1>9
    <3>2. \A m \in 1..Len(truth) : truth[m].at = truth[c].at => m = c
      BY <1>10, <2>2
    <3>3. truth[c].end = times[truth[c].at + 1] /\ truth[c].start = times[truth[c].at] + 1
      BY <3>1, <3>2 DEF Recording, Exact
    <3>4. QED
      BY <1>10, <3>3
  <2>7. times[7 + 1] = times[7] + 1
    BY <1>1, <2>3 DEF Recording, Exact
  <2>8. times[6] \in Nat /\ times[7] \in Nat
    <3>1. times \in Seq(Nat) /\ Len(times) = 11
      BY <1>1 DEF Recording, Recorded
    <3>2. 6 \in 1..11 /\ 7 \in 1..11
      OBVIOUS
    <3>3. \A i \in 1..Len(times) : times[i] \in Nat
      <4>1. times \in Seq(Nat)
        BY <3>1
      <4>2. QED
        BY <4>1
    <3>4. \A i \in 1..11 : times[i] \in Nat
      BY <3>1, <3>3
    <3>5. QED
      BY <3>2, <3>4
  <2>9. times[8] - times[6] = truth[c].end - truth[c].start + 2
    <3>1. truth[c].end = times[7] /\ truth[c].start = times[6] + 1 /\ times[8] = times[7] + 1
      BY <2>6, <2>7
    <3>2. \A x, y \in Nat : (y + 1) - x = y - (x + 1) + 2
      OBVIOUS
    <3>3. (times[7] + 1) - times[6] = times[7] - (times[6] + 1) + 2
      BY <2>8, <3>2
    <3>4. QED
      BY <3>1, <3>3
  <2>10. QED
    BY <1>3, <1>4, <1>10, <2>4, <2>5, <2>9
<1>19. (\E name \in {"before_measured", "after_measured"} : State(name).enabled) <=> on
  BY <1>4
<1> HIDE DEF around, on, unasked
<1>20. validate_probe <=> ~(unasked \/ on)
  BY <1>16, <1>17
<1>21. validate_probe \in BOOLEAN
  BY DEF validate_probe
<1>22. validate_probe = ~(unasked \/ \E name \in {"before_measured", "after_measured"} : State(name).enabled)
  BY <1>19, <1>20, <1>21
<1>23. QED
  BY <1>18, <1>22 DEF around, unasked

\* Conditioned workers and probes are accepted just if nothing disturbed what
\* they asked of the collector: check_conditioning() and validate_probe() see all
\* that happens between their milestones, in whatever generation.
THEOREM CollectionsAsAsked == TimelineInit /\ [][TimelineNext]_timelineVars => []CollectedAsAsked
<1>1. TimelineInit => Recording
  BY RecordingStarts, GcTimelineConstants
<1>2. Recording /\ [TimelineNext]_timelineVars => Recording'
  BY RecordingKept, GcTimelineConstants
<1>3. Recording => CollectedAsAsked
  <2>1. ASSUME Recording, done, ~Timed
        PROVE  CollectedAsAsked
    BY <2>1, ProbeAsAsked, GcTimelineConstants DEF CollectedAsAsked, Timed
  <2>2. ASSUME Recording, done, Timed
        PROVE  CollectedAsAsked
    BY <2>2, TimedAsAsked, GcTimelineConstants DEF CollectedAsAsked, Timed
  <2>3. ~done => CollectedAsAsked
    BY DEF CollectedAsAsked
  <2>4. QED
    BY <2>1, <2>2, <2>3
<1>4. QED
  BY <1>1, <1>2, <1>3, PTL

----------------------------------------------------------------------------
(* Where the collections of the loop fell.                                 *)

\* The callback of the loop notes what is collected while it is there.
LEMMA LoopNoted ==
    ASSUME GcTimelineConstants, Recording, done, Timed
    PROVE  /\ Loop \subseteq DOMAIN events
           /\ NotedIn(Loop) = Heard
           /\ Heard = {n \in 1..Len(truth) : truth[n].at \in Opening..Ending}
<1>1. /\ steps = Ending + 2 /\ Ending \in Nat /\ 10 + Request < Ending /\ Request \in {0, 1}
      /\ Opening = 10 + Request /\ worker \in Workers
  BY WhenDone
<1>2. Place("loop_start", 0) = 9 + Request /\ Place("loop_end", 0) = Ending + 2
  BY <1>1, TimedPlaces
<1>3. Loop = Inside(times[9 + Request], times[Ending + 2])
  BY <1>2 DEF Loop, Time
<1>4. Loop \subseteq DOMAIN events
  BY <1>3 DEF Inside
<1>5. \A n \in 1..Len(truth) : /\ truth[n].at \in Nat
                               /\ truth[n].noted # 0 <=> truth[n].at \in (3..5 + Request) \cup (Opening..Ending)
  BY Collections DEF Recording, Notes, Hearing
<1>6. ASSUME NEW n \in 1..Len(truth)
      PROVE  truth[n].noted # 0 /\ truth[n].noted \in Loop <=> truth[n].at \in Opening..Ending
  <2>1. CASE truth[n].noted = 0
    BY <1>1, <1>5, <2>1
  <2>2. CASE truth[n].noted # 0
    <3>1. 9 + Request \in 1..steps /\ Ending + 2 \in 1..steps
      BY <1>1
    <3>2. truth[n].noted \in Loop <=> 9 + Request <= truth[n].at /\ truth[n].at < Ending + 2
      BY <1>3, <2>2, <3>1, InsideScope DEF Amid
    <3>3. truth[n].at \in (3..5 + Request) \cup (Opening..Ending) /\ truth[n].at \in Nat
      BY <1>5, <2>2
    <3>4. QED
      BY <1>1, <2>2, <3>2, <3>3
  <2>3. QED
    BY <2>1, <2>2
<1>7. NotedIn(Loop) = {n \in 1..Len(truth) : truth[n].at \in Opening..Ending}
  BY <1>6 DEF NotedIn
<1>8. Between("loop_start", "loop_end") = Amid(9 + Request, Ending + 2)
  BY <1>2, BetweenPlaces
<1>9. ASSUME NEW n \in 1..Len(truth), 9 + Request <= truth[n].at, truth[n].at < Ending + 2
      PROVE  Name(truth[n].at) \notin {"loop_start", "deafen"} <=> truth[n].at \in Opening..Ending
  <2> DEFINE k == truth[n].at
  <2>1. k \in Nat
    BY <1>5
  <2>2. 9 + Request <= k /\ k < Ending + 2
    BY <1>9
  <2> HIDE DEF k
  <2>3. k \in DOMAIN program
    <3>1. DOMAIN program = 1..Ending + 2
      BY <1>1, TimedMilestones
    <3>2. QED
      BY <1>1, <2>1, <2>2, <3>1
  <2>4. Name(k) = "deafen" <=> k = Ending + 1
    <3>1. Name(k) = "deafen" <=> k = 6 + Request \/ k = Ending + 1
      BY <1>1, <2>3, TimedNames
    <3>2. QED
      BY <1>1, <2>1, <2>2, <3>1
  <2>5. CASE k = 9 + Request
    <3>1. Name(k) = "loop_start"
      BY <1>1, <2>5, OpeningMilestones DEF Name
    <3>2. k \notin Opening..Ending
      BY <1>1, <2>5
    <3>3. QED
      BY <3>1, <3>2 DEF k
  <2>6. CASE k = Ending + 1
    <3>1. k \notin Opening..Ending
      BY <1>1, <2>6
    <3>2. QED
      BY <2>4, <2>6, <3>1 DEF k
  <2>7. CASE k = Opening
    <3>1. Name(k) = "listen" /\ k \in Opening..Ending
      BY <1>1, <2>7, OpeningMilestones DEF Name
    <3>2. QED
      BY <3>1 DEF k
  <2>8. CASE k > Opening /\ k <= Ending
    <3>1. Name(k) \in {"op_start", "op_end", "validation_start", "validation_end", "released"}
      BY <1>1, <2>3, <2>8, NamesInRead
    <3>2. k \in Opening..Ending
      BY <1>1, <2>1, <2>8
    <3>3. QED
      BY <3>1, <3>2 DEF k
  <2>9. k = 9 + Request \/ k = Ending + 1 \/ k = Opening \/ (k > Opening /\ k <= Ending)
    BY <1>1, <2>1, <2>2
  <2>10. QED
    BY <2>5, <2>6, <2>7, <2>8, <2>9
<1>10. \A n \in 1..Len(truth) : truth[n].at \in Opening..Ending => 9 + Request <= truth[n].at /\ truth[n].at < Ending + 2
  <2>1. \A k \in Opening..Ending : 9 + Request <= k /\ k < Ending + 2
    BY <1>1
  <2>2. QED
    BY <2>1
<1>11. Heard = {n \in 1..Len(truth) : truth[n].at \in Opening..Ending}
  BY <1>8, <1>9, <1>10 DEF Heard, Amid
<1>12. QED
  BY <1>4, <1>7, <1>11

\* What the worker does after a milestone of a read.
Phase(k, q) ==
    IF k = Turn(q) + 1 THEN <<"loads", q>>
    ELSE IF worker[3] /\ k = Turn(q) + 3 THEN <<"validation", q>>
    ELSE IF k < Turn(q) + Width THEN <<"post_load_or_disposal", q>>
    ELSE <<IF q < Reads THEN "between_reads" ELSE "after_last_read", q>>

\* A milestone of the loop belongs to one read, and it and its predecessors have
\* started by then.
LEMMA OneRead ==
    ASSUME GcTimelineConstants, worker \in Workers, Timed, NEW k \in Nat, k > Opening, k <= Ending
    PROVE  \E q \in 1..Reads : /\ Turn(q) + 1 <= k /\ k <= Turn(q) + Width
                               /\ program[k][2] = q
                               /\ \A r \in 1..Reads : /\ Turn(r) + 1 <= k <=> r <= q
                                                      /\ Turn(r) + 1 <= k /\ k <= Turn(r) + Width => r = q
<1>1. /\ DOMAIN program = 1..Ending + 2 /\ Opening \in Nat /\ Ending \in Nat /\ Width \in {3, 5}
      /\ Reads \in Nat
  BY Told, TimedMilestones
<1>2. k \in DOMAIN program
  BY <1>1
<1>3. PICK q \in 1..Reads, j \in 1..Width : k = Turn(q) + j
  BY <1>2, TimedMilestones
<1>4. program[k] = <<Read(worker[3])[j], q>>
  BY <1>3, TimedMilestones
<1>5. \A r \in 1..Reads : Turn(r) = Opening + Width * (r - 1)
  BY DEF Turn
<1>6. ASSUME NEW r \in 1..Reads
      PROVE  /\ Turn(r) + 1 <= k <=> r <= q
             /\ Turn(r) + 1 <= k /\ k <= Turn(r) + Width => r = q
  <2>1. k = Opening + Width * (q - 1) + j /\ Turn(r) = Opening + Width * (r - 1)
    BY <1>3, <1>5
  <2>2. q \in Nat /\ r \in Nat /\ j \in Nat /\ 1 <= j /\ j <= Width
    BY <1>1
  <2>3. CASE Width = 3
    <3>1. k = Opening + 3 * (q - 1) + j /\ Turn(r) = Opening + 3 * (r - 1) /\ j <= 3
      BY <2>1, <2>2, <2>3
    <3>2. QED
      BY <1>1, <2>2, <2>3, <3>1
  <2>4. CASE Width = 5
    <3>1. k = Opening + 5 * (q - 1) + j /\ Turn(r) = Opening + 5 * (r - 1) /\ j <= 5
      BY <2>1, <2>2, <2>4
    <3>2. QED
      BY <1>1, <2>2, <2>4, <3>1
  <2>5. QED
    BY <1>1, <2>3, <2>4
<1>7. Turn(q) + 1 <= k /\ k <= Turn(q) + Width
  <2>1. Turn(q) \in Nat /\ j \in Nat /\ 1 <= j /\ j <= Width
    BY <1>1, TimedMilestones
  <2>2. QED
    BY <1>1, <1>3, <2>1
<1>8. QED
  BY <1>4, <1>6, <1>7

\* Where a collection is said to have fallen.
LEMMA StageOf ==
    ASSUME GcTimelineConstants, Recording, done, Timed, NEW n \in Heard
    PROVE  /\ truth[n].at = Opening => Stage(n) = <<"before_first_read", 0>>
           /\ \A q \in 1..Reads : Turn(q) + 1 <= truth[n].at /\ truth[n].at <= Turn(q) + Width =>
                                    Stage(n) = Phase(truth[n].at, q)
<1>1. /\ steps = Ending + 2 /\ Ending \in Nat /\ 10 + Request < Ending /\ Request \in {0, 1}
      /\ Opening = 10 + Request /\ worker \in Workers
  BY WhenDone
<1> DEFINE k == truth[n].at
<1>2. Stage(n) = LET name == Name(k)
                     r    == program[k][2]
                 IN  CASE name = "op_start"         -> <<"loads", r>>
                       [] name = "validation_start" -> <<"validation", r>>
                       [] name \in {"op_end", "validation_end"} -> <<"post_load_or_disposal", r>>
                       [] name = "released"         -> <<IF r < Reads THEN "between_reads" ELSE "after_last_read", r>>
                       [] OTHER                     -> <<"before_first_read", 0>>
  BY DEF Stage
<1>3. k \in Nat
  BY LoopNoted, Collections
<1> HIDE DEF k
<1>4. ASSUME k = Opening
      PROVE  Stage(n) = <<"before_first_read", 0>>
  <2>1. Name(k) = "listen"
    BY <1>1, <1>4, OpeningMilestones DEF Name
  <2>2. QED
    BY <1>2, <2>1
<1>5. ASSUME NEW q \in 1..Reads, Turn(q) + 1 <= k, k <= Turn(q) + Width
      PROVE  Stage(n) = Phase(k, q)
  <2>1. /\ program[Turn(q) + 1] = <<"op_start", q>> /\ program[Turn(q) + 2] = <<"op_end", q>>
        /\ program[Turn(q) + Width] = <<"released", q>>
        /\ worker[3] => /\ Width = 5 /\ program[Turn(q) + 3] = <<"validation_start", q>>
                        /\ program[Turn(q) + 4] = <<"validation_end", q>>
        /\ ~worker[3] => Width = 3
    BY <1>1, ReadMilestones
  <2>2. Turn(q) \in Nat
    BY <1>1, ReadPlaces
  <2>3. CASE worker[3]
    <3>1. k = Turn(q) + 1 \/ k = Turn(q) + 2 \/ k = Turn(q) + 3 \/ k = Turn(q) + 4 \/ k = Turn(q) + 5
      BY <1>3, <1>5, <2>1, <2>2, <2>3
    <3>2. /\ program[Turn(q) + 5] = <<"released", q>> /\ Width = 5
          /\ program[Turn(q) + 3] = <<"validation_start", q>>
          /\ program[Turn(q) + 4] = <<"validation_end", q>>
      BY <2>1, <2>3
    <3>3. CASE k = Turn(q) + 1
      BY <1>2, <2>1, <3>3 DEF Name, Phase
    <3>4. CASE k = Turn(q) + 2
      <4>1. Stage(n) = <<"post_load_or_disposal", q>>
        BY <1>2, <2>1, <3>4 DEF Name
      <4>2. k # Turn(q) + 1 /\ k # Turn(q) + 3 /\ k < Turn(q) + Width
        BY <2>2, <3>2, <3>4
      <4>3. QED
        BY <4>1, <4>2 DEF Phase
    <3>5. CASE k = Turn(q) + 3
      <4>1. Stage(n) = <<"validation", q>>
        BY <1>2, <3>2, <3>5 DEF Name
      <4>2. k # Turn(q) + 1
        BY <2>2, <3>5
      <4>3. QED
        BY <2>3, <3>5, <4>1, <4>2 DEF Phase
    <3>6. CASE k = Turn(q) + 4
      <4>1. Stage(n) = <<"post_load_or_disposal", q>>
        BY <1>2, <3>2, <3>6 DEF Name
      <4>2. k # Turn(q) + 1 /\ k # Turn(q) + 3 /\ k < Turn(q) + Width
        BY <2>2, <3>2, <3>6
      <4>3. QED
        BY <4>1, <4>2 DEF Phase
    <3>7. CASE k = Turn(q) + 5
      <4>1. Stage(n) = <<IF q < Reads THEN "between_reads" ELSE "after_last_read", q>>
        BY <1>2, <3>2, <3>7 DEF Name
      <4>2. k # Turn(q) + 1 /\ k # Turn(q) + 3 /\ ~(k < Turn(q) + Width)
        BY <2>2, <3>2, <3>7
      <4>3. QED
        BY <4>1, <4>2 DEF Phase
    <3>8. QED
      BY <3>1, <3>3, <3>4, <3>5, <3>6, <3>7
  <2>4. CASE ~worker[3]
    <3>1. k = Turn(q) + 1 \/ k = Turn(q) + 2 \/ k = Turn(q) + 3
      BY <1>3, <1>5, <2>1, <2>2, <2>4
    <3>2. program[Turn(q) + 3] = <<"released", q>> /\ Width = 3
      BY <2>1, <2>4
    <3>3. CASE k = Turn(q) + 1
      BY <1>2, <2>1, <3>3 DEF Name, Phase
    <3>4. CASE k = Turn(q) + 2
      <4>1. Stage(n) = <<"post_load_or_disposal", q>>
        BY <1>2, <2>1, <3>4 DEF Name
      <4>2. k # Turn(q) + 1 /\ k < Turn(q) + Width
        BY <2>2, <3>2, <3>4
      <4>3. QED
        BY <2>4, <4>1, <4>2 DEF Phase
    <3>5. CASE k = Turn(q) + 3
      <4>1. Stage(n) = <<IF q < Reads THEN "between_reads" ELSE "after_last_read", q>>
        BY <1>2, <3>2, <3>5 DEF Name
      <4>2. k # Turn(q) + 1 /\ ~(k < Turn(q) + Width)
        BY <2>2, <3>2, <3>5
      <4>3. QED
        BY <2>4, <4>1, <4>2 DEF Phase
    <3>6. QED
      BY <3>1, <3>3, <3>4, <3>5
  <2>5. QED
    BY <2>3, <2>4
<1>6. QED
  BY <1>4, <1>5 DEF k

\* A collection lies between two milestones, or before or after them.
LEMMA WindowPart ==
    ASSUME Recording, NEW n \in 1..Len(truth), NEW i \in 1..steps, NEW j \in 1..steps, i <= j
    PROVE  LET ns == IF i <= truth[n].at /\ truth[n].at < j THEN truth[n].end - truth[n].start ELSE 0
           IN  /\ ns \in Nat /\ truth[n].end - truth[n].start \in Nat \ {0}
               /\ Larger(0, Smaller(truth[n].end, times[j]) - Larger(truth[n].start, times[i])) = ns
               /\ Larger(0, Smaller(times[j], truth[n].end) - Larger(times[i], truth[n].start)) = ns
<1> DEFINE a == truth[n].at
           s == truth[n].start
           e == truth[n].end
           x == times[i]
           y == times[j]
<1>1. a \in Nat /\ s \in Nat /\ e \in Nat /\ i \in Nat /\ j \in Nat
  BY Collections
<1>2. x \in Nat /\ y \in Nat
  <2>1. times \in Seq(Nat) /\ Len(times) = steps
    BY DEF Recording, Recorded
  <2>2. QED
    BY <2>1
<1>3. /\ s < e
      /\ i <= a => x < s
      /\ i > a  => e <= x
      /\ j <= a => y < s
      /\ j > a  => e <= y
  BY DEF Recording, Ordered
<1>4. i < j => x < y
  BY DEF Recording, Ordered
<1>5. i = j => x = y
  OBVIOUS
<1> HIDE DEF a, s, e, x, y
<1>6. e - s \in Nat \ {0}
  BY <1>1, <1>3
<1>7. CASE i <= a /\ a < j
  <2>1. /\ Larger(0, Smaller(e, y) - Larger(s, x)) = e - s
        /\ Larger(0, Smaller(y, e) - Larger(x, s)) = e - s
    BY <1>1, <1>2, <1>3, <1>7 DEF Larger, Smaller
  <2>2. QED
    BY <1>6, <1>7, <2>1 DEF a, s, e, x, y
<1>8. CASE ~(i <= a /\ a < j)
  <2>1. /\ Larger(0, Smaller(e, y) - Larger(s, x)) = 0
        /\ Larger(0, Smaller(y, e) - Larger(x, s)) = 0
    <3>1. a < i \/ j <= a
      BY <1>1, <1>8
    <3>2. CASE a < i
      BY <1>1, <1>2, <1>3, <1>4, <1>5, <3>2 DEF Larger, Smaller
    <3>3. CASE j <= a
      BY <1>1, <1>2, <1>3, <1>4, <1>5, <3>3 DEF Larger, Smaller
    <3>4. QED
      BY <3>1, <3>2, <3>3
  <2>2. QED
    BY <1>6, <1>8, <2>1 DEF a, s, e, x, y
<1>9. QED
  BY <1>7, <1>8

\* The windows of the reads.
LEMMA ReadWindows ==
    ASSUME GcTimelineConstants, worker \in Workers, Timed
    PROVE  /\ Windows("op_start", "op_end") = [r \in 1..Reads |-> <<times[Turn(r) + 1], times[Turn(r) + 2]>>]
           /\ Windows("op_start", "released") = [r \in 1..Reads |-> <<times[Turn(r) + 1], times[Turn(r) + Width]>>]
           /\ worker[3] => Windows("validation_start", "validation_end")
                             = [r \in 1..Reads |-> <<times[Turn(r) + 3], times[Turn(r) + 4]>>]
           /\ ~worker[3] => DOMAIN Windows("validation_start", "validation_end") = {}
<1>1. /\ DOMAIN program = 1..Ending + 2 /\ Opening \in Nat /\ Ending \in Nat /\ Width \in {3, 5}
      /\ Opening < Ending
  BY Told, TimedMilestones
<1>2. ASSUME NEW r \in 1..Reads
      PROVE  /\ Time("op_start", r) = times[Turn(r) + 1] /\ Time("op_end", r) = times[Turn(r) + 2]
             /\ Time("released", r) = times[Turn(r) + Width]
             /\ worker[3] => /\ Time("validation_start", r) = times[Turn(r) + 3]
                             /\ Time("validation_end", r) = times[Turn(r) + 4]
  BY ReadPlaces DEF Time
<1>3. ASSUME NEW r \in 1..Reads
      PROVE  /\ \E k \in DOMAIN program : program[k] = <<"op_start", r>>
             /\ worker[3] => \E k \in DOMAIN program : program[k] = <<"validation_start", r>>
  <2>1. /\ program[Turn(r) + 1] = <<"op_start", r>>
        /\ worker[3] => program[Turn(r) + 3] = <<"validation_start", r>> /\ Width = 5
    BY ReadMilestones
  <2>2. Turn(r) \in Nat /\ Turn(r) + Width <= Ending
    BY ReadPlaces
  <2>3. Turn(r) + 1 \in 1..Ending + 2 /\ (Width = 5 => Turn(r) + 3 \in 1..Ending + 2)
    BY <1>1, <2>2
  <2>4. QED
    BY <1>1, <2>1, <2>3
<1>4. ASSUME ~worker[3], NEW r \in 1..Reads, NEW k \in DOMAIN program, program[k] = <<"validation_start", r>>
      PROVE  FALSE
  <2>1. r # 0 /\ program[k][2] = r /\ program[k][1] = "validation_start"
    BY <1>4
  <2>2. CASE k <= Opening
    <3>1. k \in 1..Opening
      BY <1>1, <2>2
    <3>2. program[k][2] = 0
      BY <3>1, TimedMilestones
    <3>3. QED
      BY <2>1, <3>2
  <2>3. CASE k = Ending + 1 \/ k = Ending + 2
    BY <2>1, <2>3, TimedMilestones
  <2>4. CASE k > Opening /\ k <= Ending
    <3>1. PICK q \in 1..Reads, j \in 1..Width : k = Turn(q) + j
      BY <2>4, TimedMilestones
    <3>2. Width = 3 /\ program[Turn(q) + 1] = <<"op_start", q>> /\ program[Turn(q) + 2] = <<"op_end", q>>
          /\ program[Turn(q) + Width] = <<"released", q>>
      BY <1>4, ReadMilestones
    <3>3. j = 1 \/ j = 2 \/ j = Width
      BY <3>2
    <3>4. program[k][1] # "validation_start"
      BY <3>1, <3>2, <3>3
    <3>5. QED
      BY <2>1, <3>4
  <2>5. QED
    BY <1>1, <2>2, <2>3, <2>4
<1>5. {r \in 1..Reads : \E k \in DOMAIN program : program[k] = <<"op_start", r>>} = 1..Reads
  BY <1>3
<1>6. Windows("op_start", "op_end") = [r \in 1..Reads |-> <<Time("op_start", r), Time("op_end", r)>>]
      /\ Windows("op_start", "released") = [r \in 1..Reads |-> <<Time("op_start", r), Time("released", r)>>]
  BY <1>5 DEF Windows
<1>7. Windows("op_start", "op_end") = [r \in 1..Reads |-> <<times[Turn(r) + 1], times[Turn(r) + 2]>>]
      /\ Windows("op_start", "released") = [r \in 1..Reads |-> <<times[Turn(r) + 1], times[Turn(r) + Width]>>]
  BY <1>2, <1>6
<1>8. ASSUME worker[3]
      PROVE  Windows("validation_start", "validation_end")
               = [r \in 1..Reads |-> <<times[Turn(r) + 3], times[Turn(r) + 4]>>]
  <2>1. {r \in 1..Reads : \E k \in DOMAIN program : program[k] = <<"validation_start", r>>} = 1..Reads
    BY <1>3, <1>8
  <2>2. Windows("validation_start", "validation_end")
          = [r \in 1..Reads |-> <<Time("validation_start", r), Time("validation_end", r)>>]
    BY <2>1 DEF Windows
  <2>3. QED
    BY <1>2, <1>8, <2>2
<1>9. ASSUME ~worker[3]
      PROVE  DOMAIN Windows("validation_start", "validation_end") = {}
  <2>1. {r \in 1..Reads : \E k \in DOMAIN program : program[k] = <<"validation_start", r>>} = {}
    BY <1>4, <1>9
  <2>2. QED
    BY <2>1 DEF Windows
<1>10. QED
  BY <1>7, <1>8, <1>9

\* A collection overlaps with the windows of its own read, if at all.
LEMMA ReadOverlap ==
    ASSUME GcTimelineConstants, Recording, done, Timed, NEW n \in Heard,
           NEW i \in 1..Width, NEW j \in 1..Width, i < j
    PROVE  LET windows == [r \in 1..Reads |-> <<times[Turn(r) + i], times[Turn(r) + j]>>]
           IN  /\ (\E q \in 1..Reads : Turn(q) + i <= truth[n].at /\ truth[n].at < Turn(q) + j)
                    => overlap(<<truth[n].start, truth[n].end>>, windows) = truth[n].end - truth[n].start
               /\ ~(\E q \in 1..Reads : Turn(q) + i <= truth[n].at /\ truth[n].at < Turn(q) + j)
                    => overlap(<<truth[n].start, truth[n].end>>, windows) = 0
<1> DEFINE windows == [r \in 1..Reads |-> <<times[Turn(r) + i], times[Turn(r) + j]>>]
           part == [r \in 1..Reads |-> Larger(0, Smaller(truth[n].end, times[Turn(r) + j])
                                                  - Larger(truth[n].start, times[Turn(r) + i]))]
           Covers(r) == Turn(r) + i <= truth[n].at /\ truth[n].at < Turn(r) + j
<1>1. overlap(<<truth[n].start, truth[n].end>>, windows) = Total(part)
  BY DEF overlap
<1>2. /\ steps = Ending + 2 /\ Ending \in Nat /\ Opening = 10 + Request /\ Request \in {0, 1} /\ worker \in Workers
  BY WhenDone
<1>3. Width \in {3, 5} /\ i \in Nat /\ j \in Nat /\ 1 <= i /\ j <= Width
  BY <1>2, Told
<1>4. n \in 1..Len(truth) /\ truth[n].at \in Nat /\ truth[n].end - truth[n].start \in Nat
  <2>1. n \in 1..Len(truth)
    BY LoopNoted
  <2>2. truth[n].start < truth[n].end /\ truth[n].start \in Nat /\ truth[n].end \in Nat /\ truth[n].at \in Nat
    BY <2>1, Collections DEF Recording, Ordered
  <2>3. QED
    BY <2>1, <2>2
<1>5. ASSUME NEW r \in 1..Reads
      PROVE  /\ Turn(r) \in Nat
             /\ part[r] = IF Covers(r) THEN truth[n].end - truth[n].start ELSE 0
  <2>1. Turn(r) \in Nat /\ Turn(r) + Width <= Ending
    BY <1>2, ReadPlaces
  <2>2. Turn(r) + i \in 1..steps /\ Turn(r) + j \in 1..steps /\ Turn(r) + i <= Turn(r) + j
    BY <1>2, <1>3, <2>1
  <2>3. Larger(0, Smaller(truth[n].end, times[Turn(r) + j]) - Larger(truth[n].start, times[Turn(r) + i]))
          = IF Covers(r) THEN truth[n].end - truth[n].start ELSE 0
    BY <1>4, <2>2, WindowPart
  <2>4. QED
    BY <2>1, <2>3
<1>6. ASSUME NEW q \in 1..Reads, NEW r \in 1..Reads, Covers(q), Covers(r)
      PROVE  q = r
  <2> DEFINE k == truth[n].at
  <2>1. ASSUME NEW v \in 1..Reads, Covers(v)
        PROVE  Turn(v) + 1 <= k /\ k <= Turn(v) + Width
    <3>1. Turn(v) \in Nat /\ Turn(v) + i <= k /\ k < Turn(v) + j
      BY <1>5, <2>1
    <3>2. k \in Nat
      BY <1>4
    <3> HIDE DEF k
    <3>3. QED
      BY <1>3, <3>1, <3>2
  <2>2. Turn(q) + 1 <= k /\ k <= Turn(q) + Width /\ Turn(r) + 1 <= k /\ k <= Turn(r) + Width
    BY <1>6, <2>1
  <2>3. k \in Nat
    BY <1>4
  <2> HIDE DEF k, Covers
  <2>4. k > Opening /\ k <= Ending
    <3>1. Turn(q) \in Nat /\ Turn(q) >= Opening /\ Turn(q) + Width <= Ending
      BY <1>2, ReadPlaces
    <3>2. Opening \in Nat /\ Ending \in Nat
      BY <1>2
    <3>3. QED
      BY <1>3, <2>2, <2>3, <3>1, <3>2
  <2>5. PICK u \in 1..Reads : \A v \in 1..Reads : Turn(v) + 1 <= k /\ k <= Turn(v) + Width => v = u
    BY <1>2, <2>3, <2>4, OneRead
  <2>6. QED
    BY <2>2, <2>5
<1> HIDE DEF part, Covers, windows
<1>7. part \in [1..Reads -> Nat]
  <2>1. \A r \in 1..Reads : part[r] \in Nat
    BY <1>4, <1>5
  <2>2. part = [r \in 1..Reads |-> part[r]]
    BY DEF part
  <2>3. QED
    BY <2>1, <2>2
<1>8. ASSUME NEW q \in 1..Reads, Covers(q)
      PROVE  Total(part) = truth[n].end - truth[n].start
  <2>1. \A r \in 1..Reads : r # q => part[r] = 0
    BY <1>5, <1>6, <1>8
  <2>2. Total(part) = part[q]
    BY <1>7, <2>1, TotalOnly
  <2>3. QED
    BY <1>5, <1>8, <2>2
<1>9. ASSUME \A q \in 1..Reads : ~Covers(q)
      PROVE  Total(part) = 0
  <2>1. \A r \in 1..Reads : part[r] = 0
    BY <1>5, <1>9
  <2>2. QED
    BY <1>7, <2>1, TotalOnly
<1>10. QED
  BY <1>1, <1>8, <1>9 DEF Covers, windows

\* What the stage of a collection says of its place.
LEMMA StagePlaces ==
    ASSUME GcTimelineConstants, Recording, done, Timed, NEW n \in Heard
    PROVE  /\ Stage(n)[1] \in {"loads", "validation", "post_load_or_disposal", "between_reads",
                               "after_last_read", "before_first_read"}
           /\ Stage(n)[1] = "loads"
                <=> \E q \in 1..Reads : Turn(q) + 1 <= truth[n].at /\ truth[n].at < Turn(q) + 2
           /\ Stage(n)[1] = "validation"
                <=> worker[3] /\ \E q \in 1..Reads : Turn(q) + 3 <= truth[n].at /\ truth[n].at < Turn(q) + 4
           /\ \A r \in 1..Reads : Stage(n)[2] = r /\ Stage(n)[1] \notin {"between_reads", "after_last_read"}
                <=> Turn(r) + 1 <= truth[n].at /\ truth[n].at < Turn(r) + Width
<1> DEFINE k == truth[n].at
<1>1. /\ Ending \in Nat /\ Opening \in Nat /\ worker \in Workers
  BY WhenDone
<1>2. k \in Nat /\ k >= Opening /\ k <= Ending
  <2>1. n \in 1..Len(truth) /\ k \in Opening..Ending
    BY LoopNoted
  <2>2. QED
    BY <1>1, <2>1
<1>3. ASSUME NEW r \in 1..Reads
      PROVE  Turn(r) \in Nat /\ Turn(r) >= Opening
  BY <1>1, ReadPlaces
<1>4. Width \in {3, 5} /\ (worker[3] => Width = 5)
  BY <1>1, Told DEF Width
<1>5. /\ k = Opening => Stage(n) = <<"before_first_read", 0>>
      /\ \A q \in 1..Reads : Turn(q) + 1 <= k /\ k <= Turn(q) + Width => Stage(n) = Phase(k, q)
  BY StageOf
<1> HIDE DEF k
<1>6. CASE k = Opening
  <2>1. \A r \in 1..Reads : ~(Turn(r) + 1 <= k) /\ ~(Turn(r) + 3 <= k)
    BY <1>1, <1>3, <1>6
  <2>2. Stage(n)[1] = "before_first_read" /\ Stage(n)[2] = 0
    BY <1>5, <1>6
  <2>3. \A r \in 1..Reads : r # 0
    OBVIOUS
  <2>4. QED
    BY <2>1, <2>2, <2>3 DEF k
<1>7. CASE k > Opening
  <2>1. PICK q \in 1..Reads : /\ Turn(q) + 1 <= k /\ k <= Turn(q) + Width
                              /\ \A r \in 1..Reads : Turn(r) + 1 <= k /\ k <= Turn(r) + Width => r = q
    BY <1>1, <1>2, <1>7, OneRead
  <2>2. Stage(n) = Phase(k, q)
    BY <1>5, <2>1
  <2>3. Turn(q) \in Nat
    BY <1>3
  <2>4. \A r \in 1..Reads : Turn(r) + 1 <= k /\ k < Turn(r) + Width => r = q
    <3>1. ASSUME NEW r \in 1..Reads, Turn(r) + 1 <= k, k < Turn(r) + Width
          PROVE  k <= Turn(r) + Width
      BY <1>2, <1>3, <1>4, <3>1
    <3>2. QED
      BY <2>1, <3>1
  <2>5. \A r \in 1..Reads : Turn(r) + 1 <= k /\ k < Turn(r) + 2 => r = q
    <3>1. ASSUME NEW r \in 1..Reads, k < Turn(r) + 2
          PROVE  k < Turn(r) + Width
      BY <1>2, <1>3, <1>4, <3>1
    <3>2. QED
      BY <2>4, <3>1
  <2>6. worker[3] => \A r \in 1..Reads : Turn(r) + 3 <= k /\ k < Turn(r) + 4 => r = q
    <3>1. ASSUME worker[3], NEW r \in 1..Reads, Turn(r) + 3 <= k, k < Turn(r) + 4
          PROVE  Turn(r) + 1 <= k /\ k < Turn(r) + Width
      BY <1>2, <1>3, <1>4, <3>1
    <3>2. QED
      BY <2>4, <3>1
  <2>7. CASE k = Turn(q) + 1
    <3>1. Stage(n)[1] = "loads" /\ Stage(n)[2] = q
      BY <2>2, <2>7 DEF Phase
    <3>2. k < Turn(q) + 2 /\ k < Turn(q) + Width /\ ~(Turn(q) + 3 <= k)
      BY <1>4, <2>3, <2>7
    <3>3. QED
      BY <2>1, <2>4, <2>5, <2>6, <3>1, <3>2 DEF k
  <2>8. CASE k # Turn(q) + 1 /\ worker[3] /\ k = Turn(q) + 3
    <3>1. Stage(n)[1] = "validation" /\ Stage(n)[2] = q
      BY <2>2, <2>8 DEF Phase
    <3>2. ~(k < Turn(q) + 2) /\ k < Turn(q) + Width /\ Turn(q) + 3 <= k /\ k < Turn(q) + 4
      BY <1>4, <2>3, <2>8
    <3>3. QED
      BY <2>1, <2>4, <2>5, <2>6, <2>8, <3>1, <3>2 DEF k
  <2>9. ASSUME k # Turn(q) + 1, ~(worker[3] /\ k = Turn(q) + 3)
        PROVE  /\ ~(k < Turn(q) + 2)
               /\ ~(worker[3] /\ Turn(q) + 3 <= k /\ k < Turn(q) + 4)
    BY <1>2, <2>1, <2>3, <2>9
  <2>10. CASE k # Turn(q) + 1 /\ ~(worker[3] /\ k = Turn(q) + 3) /\ k < Turn(q) + Width
    <3>1. Stage(n)[1] = "post_load_or_disposal" /\ Stage(n)[2] = q
      BY <2>2, <2>10 DEF Phase
    <3>2. QED
      BY <2>1, <2>4, <2>5, <2>6, <2>9, <2>10, <3>1 DEF k
  <2>11. CASE k # Turn(q) + 1 /\ ~(worker[3] /\ k = Turn(q) + 3) /\ ~(k < Turn(q) + Width)
    <3>1. Stage(n)[1] \in {"between_reads", "after_last_read"} /\ Stage(n)[2] = q
      BY <2>2, <2>11 DEF Phase
    <3>2. QED
      BY <2>1, <2>4, <2>5, <2>6, <2>9, <2>11, <3>1 DEF k
  <2>12. QED
    BY <2>7, <2>8, <2>10, <2>11
<1>8. QED
  BY <1>1, <1>2, <1>6, <1>7

\* What a collection costs the calls and the validation of the reads.
LEMMA Overlaps ==
    ASSUME GcTimelineConstants, Recording, done, Timed, NEW n \in Heard
    PROVE  LET span == <<truth[n].start, truth[n].end>>
               ns   == truth[n].end - truth[n].start
           IN  /\ overlap(span, Windows("op_start", "op_end")) = IF Stage(n)[1] = "loads" THEN ns ELSE 0
               /\ overlap(span, Windows("validation_start", "validation_end"))
                    = IF Stage(n)[1] = "validation" THEN ns ELSE 0
<1> DEFINE span == <<truth[n].start, truth[n].end>>
           ns   == truth[n].end - truth[n].start
<1>1. worker \in Workers
  BY WhenDone
<1>2. Width \in {3, 5} /\ (worker[3] => Width = 5)
  BY <1>1, Told DEF Width
<1>3. overlap(span, Windows("op_start", "op_end")) = IF Stage(n)[1] = "loads" THEN ns ELSE 0
  <2> DEFINE w == [r \in 1..Reads |-> <<times[Turn(r) + 1], times[Turn(r) + 2]>>]
  <2>1. Windows("op_start", "op_end") = w
    BY <1>1, ReadWindows
  <2>2. /\ (\E q \in 1..Reads : Turn(q) + 1 <= truth[n].at /\ truth[n].at < Turn(q) + 2) => overlap(span, w) = ns
        /\ ~(\E q \in 1..Reads : Turn(q) + 1 <= truth[n].at /\ truth[n].at < Turn(q) + 2) => overlap(span, w) = 0
    <3>1. 1 \in 1..Width /\ 2 \in 1..Width /\ 1 < 2
      BY <1>2
    <3>2. QED
      BY <3>1, ReadOverlap
  <2> HIDE DEF w, span, ns
  <2>3. Stage(n)[1] = "loads" <=> \E q \in 1..Reads : Turn(q) + 1 <= truth[n].at /\ truth[n].at < Turn(q) + 2
    BY StagePlaces
  <2>4. CASE Stage(n)[1] = "loads"
    BY <2>1, <2>2, <2>3, <2>4
  <2>5. CASE Stage(n)[1] # "loads"
    BY <2>1, <2>2, <2>3, <2>5
  <2>6. QED
    BY <2>4, <2>5
<1>4. overlap(span, Windows("validation_start", "validation_end")) = IF Stage(n)[1] = "validation" THEN ns ELSE 0
  <2>1. Stage(n)[1] = "validation"
          <=> worker[3] /\ \E q \in 1..Reads : Turn(q) + 3 <= truth[n].at /\ truth[n].at < Turn(q) + 4
    BY StagePlaces
  <2>2. CASE worker[3]
    <3> DEFINE w == [r \in 1..Reads |-> <<times[Turn(r) + 3], times[Turn(r) + 4]>>]
    <3>1. Windows("validation_start", "validation_end") = w
      BY <1>1, <2>2, ReadWindows
    <3>2. /\ (\E q \in 1..Reads : Turn(q) + 3 <= truth[n].at /\ truth[n].at < Turn(q) + 4) => overlap(span, w) = ns
          /\ ~(\E q \in 1..Reads : Turn(q) + 3 <= truth[n].at /\ truth[n].at < Turn(q) + 4) => overlap(span, w) = 0
      <4>1. 3 \in 1..Width /\ 4 \in 1..Width /\ 3 < 4
        BY <1>2, <2>2
      <4>2. QED
        BY <4>1, ReadOverlap
    <3> HIDE DEF w, span, ns
    <3>3. CASE Stage(n)[1] = "validation"
      BY <2>1, <2>2, <3>1, <3>2, <3>3
    <3>4. CASE Stage(n)[1] # "validation"
      BY <2>1, <2>2, <3>1, <3>2, <3>4
    <3>5. QED
      BY <3>3, <3>4
  <2>3. CASE ~worker[3]
    <3> DEFINE w == Windows("validation_start", "validation_end")
               part == [r \in DOMAIN w |-> Larger(0, Smaller(span[2], w[r][2]) - Larger(span[1], w[r][1]))]
    <3>1. DOMAIN w = {}
      BY <1>1, <2>3, ReadWindows
    <3> HIDE DEF w
    <3>2. part \in [{} -> Nat] /\ \A r \in {} : part[r] = 0
      BY <3>1
    <3>3. overlap(span, w) = Total(part)
      BY DEF overlap
    <3> HIDE DEF part
    <3>4. Total(part) = 0
      BY <3>2, TotalOnly
    <3>5. QED
      BY <2>1, <2>3, <3>3, <3>4 DEF w
  <2>4. QED
    BY <2>2, <2>3
<1>5. QED
  BY <1>3, <1>4

\* Full collections are located in the read and the phase that they interrupted.
LEMMA Position ==
    ASSUME GcTimelineConstants, Recording, done, Timed, NEW n \in Heard
    PROVE  gen2_position(truth[n].start) = Stage(n)
<1> DEFINE k == truth[n].at
           t == truth[n].start
<1>1. /\ steps = Ending + 2 /\ Ending \in Nat /\ Opening \in Nat /\ worker \in Workers
  BY WhenDone
<1>2. n \in 1..Len(truth) /\ k \in Nat /\ k >= Opening /\ k <= Ending /\ t \in Nat
  <2>1. n \in 1..Len(truth) /\ k \in Opening..Ending
    BY LoopNoted
  <2>2. t \in Nat
    BY <2>1, Collections
  <2>3. QED
    BY <1>1, <2>1, <2>2
<1>3. ASSUME NEW i \in 1..steps
      PROVE  (times[i] <= t <=> i <= k) /\ (t < times[i] <=> k < i)
  <2>1. /\ t < truth[n].end
        /\ i <= k => times[i] < t
        /\ i > k  => truth[n].end <= times[i]
    BY <1>2 DEF Recording, Ordered
  <2>2. truth[n].end \in Nat /\ times[i] \in Nat
    <3>1. times \in Seq(Nat) /\ Len(times) = steps
      BY DEF Recording, Recorded
    <3>2. QED
      BY <1>2, <3>1, Collections
  <2>3. QED
    BY <1>1, <1>2, <2>1, <2>2
<1>4. Width \in {3, 5} /\ (worker[3] => Width = 5) /\ Reads \in Nat \ {0}
  BY <1>1, Told DEF Width
<1>5. ASSUME NEW r \in 1..Reads
      PROVE  /\ Turn(r) \in Nat /\ Turn(r) >= Opening
             /\ Turn(r) + 1 \in 1..steps /\ Turn(r) + 2 \in 1..steps /\ Turn(r) + Width \in 1..steps
             /\ worker[3] => Turn(r) + 3 \in 1..steps /\ Turn(r) + 4 \in 1..steps
             /\ Time("op_start", r) = times[Turn(r) + 1] /\ Time("op_end", r) = times[Turn(r) + 2]
             /\ Time("released", r) = times[Turn(r) + Width]
             /\ worker[3] => /\ Time("validation_start", r) = times[Turn(r) + 3]
                             /\ Time("validation_end", r) = times[Turn(r) + 4]
  <2>1. Turn(r) \in Nat /\ Turn(r) >= Opening /\ Turn(r) + Width <= Ending
    BY <1>1, ReadPlaces
  <2>2. /\ Turn(r) + 1 \in 1..steps /\ Turn(r) + 2 \in 1..steps /\ Turn(r) + Width \in 1..steps
        /\ worker[3] => Turn(r) + 3 \in 1..steps /\ Turn(r) + 4 \in 1..steps
    BY <1>1, <1>4, <2>1
  <2>3. QED
    BY <1>1, <2>1, <2>2, ReadPlaces DEF Time
<1>6. /\ k = Opening => Stage(n) = <<"before_first_read", 0>>
      /\ \A q \in 1..Reads : Turn(q) + 1 <= k /\ k <= Turn(q) + Width => Stage(n) = Phase(k, q)
  BY StageOf
<1> HIDE DEF k, t
<1>7. LastStarted(t) = Cardinality({r \in 1..Reads : Turn(r) + 1 <= k})
  <2>1. \A r \in 1..Reads : Time("op_start", r) <= t <=> Turn(r) + 1 <= k
    BY <1>3, <1>5
  <2>2. {r \in 1..Reads : Time("op_start", r) <= t} = {r \in 1..Reads : Turn(r) + 1 <= k}
    BY <2>1
  <2>3. QED
    BY <2>2 DEF LastStarted
<1>8. CASE k = Opening
  <2>1. {r \in 1..Reads : Turn(r) + 1 <= k} = {}
    BY <1>1, <1>5, <1>8
  <2>2. LastStarted(t) = 0
    BY <1>7, <2>1, FS_EmptySet
  <2>3. gen2_position(t) = <<"before_first_read", 0>>
    BY <2>2 DEF gen2_position
  <2>4. QED
    BY <1>6, <1>8, <2>3 DEF t
<1>9. CASE k > Opening
  <2>1. PICK q \in 1..Reads : /\ Turn(q) + 1 <= k /\ k <= Turn(q) + Width
                              /\ \A r \in 1..Reads : Turn(r) + 1 <= k <=> r <= q
    BY <1>1, <1>2, <1>9, OneRead
  <2>2. q \in Nat /\ q # 0 /\ {r \in 1..Reads : Turn(r) + 1 <= k} = 1..q
    <3>1. q \in Nat /\ q # 0 /\ q <= Reads
      BY <1>4
    <3>2. {r \in 1..Reads : Turn(r) + 1 <= k} = {r \in 1..Reads : r <= q}
      BY <2>1
    <3>3. {r \in 1..Reads : r <= q} = 1..q
      BY <1>4, <3>1
    <3>4. QED
      BY <3>1, <3>2, <3>3
  <2>3. LastStarted(t) = q
    <3>1. Cardinality(1..q) = q
      <4>1. 1 \in Int /\ q \in Int /\ q \in Nat /\ q # 0
        BY <2>2
      <4>2. Cardinality(1..q) = IF 1 > q THEN 0 ELSE q - 1 + 1
        BY <4>1, FS_Interval
      <4>3. QED
        BY <4>1, <4>2
    <3>2. QED
      BY <1>7, <2>2, <3>1
  <2>4. Turn(q) \in Nat
    BY <1>5
  <2>5. /\ t < Time("op_end", q) <=> k < Turn(q) + 2
        /\ t < Time("released", q) <=> k < Turn(q) + Width
        /\ worker[3] => (Time("validation_start", q) <= t /\ t < Time("validation_end", q)
                           <=> Turn(q) + 3 <= k /\ k < Turn(q) + 4)
    BY <1>3, <1>5
  <2>6. gen2_position(t) = IF k < Turn(q) + 2 THEN <<"loads", q>>
                           ELSE IF worker[3] /\ Turn(q) + 3 <= k /\ k < Turn(q) + 4 THEN <<"validation", q>>
                           ELSE IF k < Turn(q) + Width THEN <<"post_load_or_disposal", q>>
                           ELSE <<IF q < Reads THEN "between_reads" ELSE "after_last_read", q>>
    BY <2>2, <2>3, <2>5 DEF gen2_position
  <2>7. (k < Turn(q) + 2 <=> k = Turn(q) + 1) /\ (Turn(q) + 3 <= k /\ k < Turn(q) + 4 <=> k = Turn(q) + 3)
    BY <1>2, <2>1, <2>4
  <2>8. gen2_position(t) = Phase(k, q)
    BY <2>6, <2>7 DEF Phase
  <2>9. QED
    BY <1>6, <2>1, <2>8 DEF t
<1>10. QED
  BY <1>1, <1>2, <1>8, <1>9

----------------------------------------------------------------------------
(* The timeline is true.                                                   *)

\* What some collections of a generation cost, by their notes, and zero of the
\* others.
Costs(f, P, g) ==
    /\ P \subseteq NotedOf(Loop, g) /\ DOMAIN f = EventsOf(Loop, g)
    /\ \A n \in P : f[truth[n].noted] = truth[n].end - truth[n].start
    /\ \A n \in NotedOf(Loop, g) : n \notin P => f[truth[n].noted] = 0

\* The sum over the notes of what is true of some of the collections, and zero of
\* the others.
LEMMA LoopSum ==
    ASSUME GcTimelineConstants, Recording, done, Timed, NEW g \in Generations,
           NEW P, NEW f, Costs(f, P, g)
    PROVE  Total(f) = Total([n \in P |-> truth[n].end - truth[n].start])
<1> DEFINE A == NotedOf(Loop, g)
           B == EventsOf(Loop, g)
           b == NoteOf(Loop, g)
           d == [n \in P |-> truth[n].end - truth[n].start]
<1>1. Loop \subseteq DOMAIN events
  BY LoopNoted
<1>2. /\ IsFiniteSet(A) /\ b \in [A -> B]
      /\ \A n, k \in A : b[n] = b[k] => n = k
      /\ \A m \in B : \E n \in A : b[n] = m
  <2> HIDE DEF A, B, b, d
  <2>1. /\ IsFiniteSet(NotedOf(Loop, g)) /\ NoteOf(Loop, g) \in [NotedOf(Loop, g) -> EventsOf(Loop, g)]
        /\ \A n, k \in NotedOf(Loop, g) : NoteOf(Loop, g)[n] = NoteOf(Loop, g)[k] => n = k
        /\ \A m \in EventsOf(Loop, g) : \E n \in NotedOf(Loop, g) : NoteOf(Loop, g)[n] = m
    BY <1>1, NotesMatched
  <2>2. QED
    BY <2>1 DEF A, B, b
<1>3. \A n \in A : b[n] = truth[n].noted /\ n \in 1..Len(truth)
  BY DEF NoteOf, NotedOf, NotedIn
<1>4. \A n \in 1..Len(truth) : truth[n].end - truth[n].start \in Nat
  <2>1. \A n \in 1..Len(truth) : truth[n].start < truth[n].end /\ truth[n].start \in Nat /\ truth[n].end \in Nat
    BY Collections DEF Recording, Ordered
  <2>2. QED
    BY <2>1
<1>5. P \subseteq A /\ DOMAIN f = B
  BY DEF Costs
<1>6. d \in [P -> Nat]
  BY <1>3, <1>4, <1>5
<1>7. \A n \in P : f[b[n]] = d[n]
  BY <1>3, <1>5 DEF Costs
<1>8. \A n \in A : n \notin P => f[b[n]] = 0
  BY <1>3 DEF Costs
<1> HIDE DEF A, B, b, d
<1>9. Total(f) = Total(d)
  <2>1. IsFiniteSet(A) /\ b \in Bijection(A, B)
    BY <1>2, OneToOne
  <2>2. QED
    BY <1>5, <1>6, <1>7, <1>8, <2>1, TotalMatched
<1>10. QED
  BY <1>9 DEF d

\* The cost of a collection is split, and none of it is counted twice.
LEMMA Split ==
    ASSUME GcTimelineConstants, Recording, done, Timed, NEW n \in Heard
    PROVE  LET e     == events[truth[n].noted]
               ns    == truth[n].end - truth[n].start
               stage == Stage(n)[1]
           IN  /\ ns \in Nat /\ e.end - e.start = ns /\ e.start = truth[n].start
               /\ Span(e) = <<truth[n].start, truth[n].end>>
               /\ overlap(Span(e), Windows("op_start", "op_end")) = IF stage = "loads" THEN ns ELSE 0
               /\ overlap(Span(e), Windows("validation_start", "validation_end"))
                    = IF stage = "validation" THEN ns ELSE 0
<1>1. n \in 1..Len(truth) /\ truth[n].noted # 0
  BY LoopNoted DEF NotedIn
<1>2. /\ events[truth[n].noted].start = truth[n].start
      /\ events[truth[n].noted].end = truth[n].end
  BY <1>1 DEF Recording, Notes
<1>3. truth[n].end - truth[n].start \in Nat
  <2>1. truth[n].start < truth[n].end /\ truth[n].start \in Nat /\ truth[n].end \in Nat
    BY <1>1, Collections DEF Recording, Ordered
  <2>2. QED
    BY <2>1
<1>4. Span(events[truth[n].noted]) = <<truth[n].start, truth[n].end>>
  BY <1>2 DEF Span
<1>5. /\ overlap(<<truth[n].start, truth[n].end>>, Windows("op_start", "op_end"))
           = IF Stage(n)[1] = "loads" THEN truth[n].end - truth[n].start ELSE 0
      /\ overlap(<<truth[n].start, truth[n].end>>, Windows("validation_start", "validation_end"))
           = IF Stage(n)[1] = "validation" THEN truth[n].end - truth[n].start ELSE 0
  BY Overlaps
<1>6. QED
  BY <1>2, <1>3, <1>4, <1>5

\* The summary of a generation.
LEMMA SummaryIsTrue ==
    ASSUME GcTimelineConstants, Recording, done, Timed, NEW g \in Generations
    PROVE  /\ summarize_scope(Loop, g).partitioned
           /\ summarize_scope(Loop, g).call = Spent(g, {"loads"})
           /\ summarize_scope(Loop, g).validation = Spent(g, {"validation"})
           /\ summarize_scope(Loop, g).other
                = Spent(g, {"post_load_or_disposal", "between_reads", "after_last_read", "before_first_read"})
           /\ summarize_scope(Loop, g).collections = Cardinality({n \in Heard : truth[n].generation = g})
<1> DEFINE A == NotedOf(Loop, g)
           B == EventsOf(Loop, g)
           others == {"post_load_or_disposal", "between_reads", "after_last_read", "before_first_read"}
           calls == Windows("op_start", "op_end")
           checks == Windows("validation_start", "validation_end")
           ns == [m \in B |-> events[m].end - events[m].start]
           call == [m \in B |-> overlap(Span(events[m]), calls)]
           check == [m \in B |-> overlap(Span(events[m]), checks)]
           rest == [m \in B |-> ns[m] - call[m] - check[m]]
<1>1. /\ summarize_scope(Loop, g).partitioned <=> \A m \in B : call[m] + check[m] <= ns[m]
      /\ summarize_scope(Loop, g).call = Total(call)
      /\ summarize_scope(Loop, g).validation = Total(check)
      /\ summarize_scope(Loop, g).other = Total(rest)
  BY DEF summarize_scope, EventsOf
<1>2. Loop \subseteq DOMAIN events /\ NotedIn(Loop) = Heard
  BY LoopNoted
<1>3. A = {n \in Heard : truth[n].generation = g}
  BY <1>2 DEF NotedOf
<1>4. /\ \A n \in A : truth[n].noted \in B
      /\ \A m \in B : \E n \in A : truth[n].noted = m
  <2>1. /\ NoteOf(Loop, g) \in [A -> B]
        /\ \A m \in B : \E n \in A : NoteOf(Loop, g)[n] = m
    <3>1. Loop \subseteq DOMAIN events
      BY <1>2
    <3>2. /\ NoteOf(Loop, g) \in [NotedOf(Loop, g) -> EventsOf(Loop, g)]
          /\ \A m \in EventsOf(Loop, g) : \E n \in NotedOf(Loop, g) : NoteOf(Loop, g)[n] = m
      BY <3>1, NotesMatched
    <3>3. QED
      BY <3>2
  <2>2. \A n \in A : NoteOf(Loop, g)[n] = truth[n].noted
    BY DEF NoteOf
  <2>3. QED
    BY <2>1, <2>2
<1>5. ASSUME NEW n \in A
      PROVE  LET m == truth[n].noted
                 d == truth[n].end - truth[n].start
             IN  /\ d \in Nat /\ ns[m] = d
                 /\ call[m] = IF Stage(n)[1] = "loads" THEN d ELSE 0
                 /\ check[m] = IF Stage(n)[1] = "validation" THEN d ELSE 0
                 /\ Stage(n)[1] \in {"loads", "validation"} \cup others
  <2>1. n \in Heard
    BY <1>3
  <2>2. truth[n].noted \in B
    BY <1>4
  <2>3. Stage(n)[1] \in {"loads", "validation"} \cup others
    BY <2>1, StagePlaces
  <2> HIDE DEF A, B, calls, checks
  <2>4. /\ ns[truth[n].noted] = events[truth[n].noted].end - events[truth[n].noted].start
        /\ call[truth[n].noted] = overlap(Span(events[truth[n].noted]), calls)
        /\ check[truth[n].noted] = overlap(Span(events[truth[n].noted]), checks)
    BY <2>2
  <2>5. QED
    BY <2>1, <2>3, <2>4, Split DEF calls, checks
<1>6. /\ DOMAIN call = B /\ DOMAIN check = B /\ DOMAIN rest = B
      /\ \A m \in B : rest[m] = ns[m] - call[m] - check[m]
  OBVIOUS
<1> HIDE DEF A, B, calls, checks, ns, call, check, rest
<1>7. \A m \in B : call[m] + check[m] <= ns[m]
  <2>1. ASSUME NEW n \in A
        PROVE  call[truth[n].noted] + check[truth[n].noted] <= ns[truth[n].noted]
    BY <1>5
  <2>2. QED
    BY <1>4, <2>1
<1>8. ASSUME NEW n \in A
      PROVE  rest[truth[n].noted] = IF Stage(n)[1] \in others THEN truth[n].end - truth[n].start ELSE 0
  <2>1. rest[truth[n].noted] = ns[truth[n].noted] - call[truth[n].noted] - check[truth[n].noted]
    BY <1>4, <1>6
  <2>2. QED
    BY <1>5, <2>1
<1>9. \A during : {n \in Heard : truth[n].generation = g /\ Stage(n)[1] \in during}
                    = {n \in A : Stage(n)[1] \in during}
  BY <1>3
<1>10. ASSUME NEW during, NEW f, DOMAIN f = B,
              \A n \in A : f[truth[n].noted] = IF Stage(n)[1] \in during THEN truth[n].end - truth[n].start ELSE 0
       PROVE  Total(f) = Spent(g, during)
  <2> DEFINE P == {n \in A : Stage(n)[1] \in during}
  <2>1. P \subseteq A
    OBVIOUS
  <2>2. /\ \A n \in P : f[truth[n].noted] = truth[n].end - truth[n].start
        /\ \A n \in A : n \notin P => f[truth[n].noted] = 0
    BY <1>10
  <2>3. Spent(g, during) = Total([n \in P |-> truth[n].end - truth[n].start])
    BY <1>9 DEF Spent
  <2> HIDE DEF P
  <2>4. Costs(f, P, g)
    BY <1>10, <2>1, <2>2 DEF Costs, A, B
  <2>5. QED
    BY <2>3, <2>4, LoopSum
<1>11. Total(call) = Spent(g, {"loads"})
  <2>1. \A n \in A : call[truth[n].noted] = IF Stage(n)[1] \in {"loads"} THEN truth[n].end - truth[n].start ELSE 0
    BY <1>5
  <2>2. QED
    BY <1>6, <1>10, <2>1
<1>12. Total(check) = Spent(g, {"validation"})
  <2>1. \A n \in A : check[truth[n].noted]
                       = IF Stage(n)[1] \in {"validation"} THEN truth[n].end - truth[n].start ELSE 0
    BY <1>5
  <2>2. QED
    BY <1>6, <1>10, <2>1
<1>13. Total(rest) = Spent(g, others)
  BY <1>6, <1>8, <1>10
<1>14. summarize_scope(Loop, g).collections = Cardinality({n \in Heard : truth[n].generation = g})
  <2>1. summarize_scope(Loop, g).collections = CountsOf(truth, NotedIn(Loop))[g].collections
    BY <1>2, SummaryOf
  <2>2. CountsOf(truth, Heard)[g].collections = Cardinality({n \in Heard : truth[n].generation = g})
    BY DEF CountsOf
  <2>3. QED
    BY <1>2, <2>1, <2>2
<1>15. QED
  BY <1>1, <1>7, <1>11, <1>12, <1>13, <1>14

\* The events of full collections, and the collections.
LEMMA FullOnes ==
    ASSUME GcTimelineConstants, Recording, done, Timed
    PROVE  LET full  == {m \in Loop : events[m].generation = 2}
               fully == {n \in Heard : truth[n].generation = 2}
           IN  /\ \A n \in fully : truth[n].noted \in full
               /\ \A m \in full : \E n \in fully : truth[n].noted = m
<1>1. Loop \subseteq DOMAIN events /\ NotedIn(Loop) = Heard /\ 2 \in Generations
  BY LoopNoted DEF Generations
<1>2. /\ NoteOf(Loop, 2) \in [NotedOf(Loop, 2) -> EventsOf(Loop, 2)]
      /\ \A m \in EventsOf(Loop, 2) : \E n \in NotedOf(Loop, 2) : NoteOf(Loop, 2)[n] = m
  BY <1>1, NotesMatched
<1>3. \A n \in NotedOf(Loop, 2) : NoteOf(Loop, 2)[n] = truth[n].noted
  BY DEF NoteOf
<1>4. /\ NotedOf(Loop, 2) = {n \in Heard : truth[n].generation = 2}
      /\ EventsOf(Loop, 2) = {m \in Loop : events[m].generation = 2}
  BY <1>1 DEF NotedOf, EventsOf
<1>5. QED
  BY <1>2, <1>3, <1>4

\* A read is touched by the full collections between its start and its release.
LEMMA Touched ==
    ASSUME GcTimelineConstants, Recording, done, Timed, NEW n \in Heard, NEW r \in 1..Reads
    PROVE  overlap(Windows("op_start", "released")[r], <<Span(events[truth[n].noted])>>) > 0
             <=> Stage(n)[2] = r /\ Stage(n)[1] \notin {"between_reads", "after_last_read"}
<1> DEFINE w == <<times[Turn(r) + 1], times[Turn(r) + Width]>>
           one == <<Span(events[truth[n].noted])>>
           part == [i \in DOMAIN one |-> Larger(0, Smaller(w[2], one[i][2]) - Larger(w[1], one[i][1]))]
           ns == IF Turn(r) + 1 <= truth[n].at /\ truth[n].at < Turn(r) + Width
                 THEN truth[n].end - truth[n].start ELSE 0
<1>1. /\ steps = Ending + 2 /\ Ending \in Nat /\ worker \in Workers
  BY WhenDone
<1>2. Windows("op_start", "released")[r] = w
  BY <1>1, ReadWindows
<1>3. Turn(r) + 1 \in 1..steps /\ Turn(r) + Width \in 1..steps /\ Turn(r) + 1 <= Turn(r) + Width
  <2>1. Turn(r) \in Nat /\ Turn(r) + Width <= Ending /\ Width \in {3, 5}
    BY <1>1, ReadPlaces, Told
  <2>2. QED
    BY <1>1, <2>1
<1>4. n \in 1..Len(truth)
  BY LoopNoted
<1>5. /\ ns \in Nat /\ truth[n].end - truth[n].start \in Nat \ {0}
      /\ Larger(0, Smaller(times[Turn(r) + Width], truth[n].end) - Larger(times[Turn(r) + 1], truth[n].start)) = ns
  BY <1>3, <1>4, WindowPart
<1>6. Span(events[truth[n].noted]) = <<truth[n].start, truth[n].end>>
  BY Split
<1>7. overlap(w, one) = Total(part)
  BY DEF overlap
<1>8. DOMAIN part = {1} /\ part[1] = ns
  <2>1. DOMAIN one = {1} /\ one[1] = <<truth[n].start, truth[n].end>>
    BY <1>6
  <2> HIDE DEF one, ns
  <2>2. part[1] = Larger(0, Smaller(times[Turn(r) + Width], truth[n].end) - Larger(times[Turn(r) + 1], truth[n].start))
    BY <2>1
  <2>3. QED
    BY <1>5, <2>1, <2>2 DEF ns
<1>9. part \in [{1} -> Nat]
  <2>1. part = [i \in {1} |-> part[i]]
    BY <1>8
  <2> HIDE DEF part, ns
  <2>2. QED
    BY <1>5, <1>8, <2>1
<1> HIDE DEF part, w, one
<1>10. Total(part) = ns
  <2>1. \A i \in {1} : i # 1 => part[i] = 0
    OBVIOUS
  <2> HIDE DEF ns
  <2>2. QED
    BY <1>8, <1>9, <2>1, TotalOnly
<1>11. ns > 0 <=> Turn(r) + 1 <= truth[n].at /\ truth[n].at < Turn(r) + Width
  BY <1>5
<1>12. Stage(n)[2] = r /\ Stage(n)[1] \notin {"between_reads", "after_last_read"}
         <=> Turn(r) + 1 <= truth[n].at /\ truth[n].at < Turn(r) + Width
  BY StagePlaces
<1> HIDE DEF ns
<1>13. QED
  BY <1>2, <1>7, <1>10, <1>11, <1>12 DEF one

\* The analysis of the recordings of a timed worker is what happened: the time of
\* the collections is split as it was spent (summarize_scope()), full collections
\* are located where they fell (gen2_position()), and slow reads are attributed to
\* them as they were (analyze_timing()).
THEOREM TimelinesTrue == TimelineInit /\ [][TimelineNext]_timelineVars => []TimelineIsTrue
<1>1. TimelineInit => Recording
  BY RecordingStarts, GcTimelineConstants
<1>2. Recording /\ [TimelineNext]_timelineVars => Recording'
  BY RecordingKept, GcTimelineConstants
<1>3. ASSUME Recording, done, Timed
      PROVE  TimelineIsTrue
  <2> DEFINE full  == {m \in Loop : events[m].generation = 2}
             fully == {n \in Heard : truth[n].generation = 2}
             windows == Windows("op_start", "released")
             slow == {r \in 1..Reads : windows[r][2] - windows[r][1] > SlowNs}
  <2>1. \A g \in Generations :
          /\ summarize_scope(Loop, g).partitioned
          /\ summarize_scope(Loop, g).call = Spent(g, {"loads"})
          /\ summarize_scope(Loop, g).validation = Spent(g, {"validation"})
          /\ summarize_scope(Loop, g).other
               = Spent(g, {"post_load_or_disposal", "between_reads", "after_last_read", "before_first_read"})
          /\ summarize_scope(Loop, g).collections = Cardinality({n \in Heard : truth[n].generation = g})
    BY <1>3, SummaryIsTrue, GcTimelineConstants
  <2>2. /\ \A n \in fully : truth[n].noted \in full
        /\ \A m \in full : \E n \in fully : truth[n].noted = m
    BY <1>3, FullOnes, GcTimelineConstants
  <2>3. \A n \in fully : /\ events[truth[n].noted].start = truth[n].start
                         /\ gen2_position(truth[n].start) = Stage(n)
    BY <1>3, Split, Position, GcTimelineConstants
  <2>4. {gen2_position(events[m].start) : m \in full} = {Stage(n) : n \in fully}
    <3>1. \A n \in fully : gen2_position(events[truth[n].noted].start) = Stage(n)
      BY <2>3
    <3> HIDE DEF full, fully
    <3>2. QED
      BY <2>2, <3>1
  <2>5. \A n \in fully, r \in 1..Reads : overlap(windows[r], <<Span(events[truth[n].noted])>>) > 0
          <=> Stage(n)[2] = r /\ Stage(n)[1] \notin {"between_reads", "after_last_read"}
    BY <1>3, Touched, GcTimelineConstants
  <2>6. SlowReads[1] = slow /\ SlowReads[2] = {r \in slow : \E m \in full : overlap(windows[r], <<Span(events[m])>>) > 0}
    BY DEF SlowReads
  <2>7. slow \subseteq 1..Reads
    OBVIOUS
  <2> HIDE DEF full, fully, windows, slow
  <2>8. \A r \in slow : (\E m \in full : overlap(windows[r], <<Span(events[m])>>) > 0)
          <=> \E n \in fully : Stage(n)[2] = r /\ Stage(n)[1] \notin {"between_reads", "after_last_read"}
    <3>1. ASSUME NEW r \in slow, NEW m \in full, overlap(windows[r], <<Span(events[m])>>) > 0
          PROVE  \E n \in fully : Stage(n)[2] = r /\ Stage(n)[1] \notin {"between_reads", "after_last_read"}
      <4>1. PICK n \in fully : truth[n].noted = m
        BY <2>2
      <4>2. r \in 1..Reads
        BY <2>7
      <4>3. QED
        BY <2>5, <3>1, <4>1, <4>2
    <3>2. ASSUME NEW r \in slow, NEW n \in fully, Stage(n)[2] = r,
                 Stage(n)[1] \notin {"between_reads", "after_last_read"}
          PROVE  \E m \in full : overlap(windows[r], <<Span(events[m])>>) > 0
      <4>1. truth[n].noted \in full
        BY <2>2
      <4>2. r \in 1..Reads
        BY <2>7
      <4>3. overlap(windows[r], <<Span(events[truth[n].noted])>>) > 0
        BY <2>5, <3>2, <4>2
      <4>4. QED
        BY <4>1, <4>3
    <3>3. QED
      BY <3>1, <3>2
  <2>9. SlowReads[2] = {r \in slow : \E n \in fully : Stage(n)[2] = r /\ Stage(n)[1] \notin {"between_reads", "after_last_read"}}
    BY <2>6, <2>8
  <2>10. SlowReads[2] = {r \in SlowReads[1] : \E n \in Heard :
                             /\ truth[n].generation = 2 /\ Stage(n)[2] = r
                             /\ Stage(n)[1] \notin {"between_reads", "after_last_read"}}
    BY <2>6, <2>9 DEF fully
  <2>11. QED
    BY <2>1, <2>4, <2>10 DEF TimelineIsTrue, full, fully
<1>4. ~(done /\ Timed) => TimelineIsTrue
  BY DEF TimelineIsTrue, Timed
<1>5. QED
  BY <1>1, <1>2, <1>3, <1>4, PTL
=============================================================================
