----------------------------- MODULE GcTimeline -----------------------------
(***************************************************************************)
(* What a worker of the measurement scripts records about the collector,   *)
(* and what the analyzers make of it.  A timed worker conditions the       *)
(* collector and then repeats a read, noting the clock at its milestones   *)
(* while a callback notes the collections; a probe has the collector make  *)
(* two full collections and measures the second.  Automatic collections    *)
(* fall anywhere, also before the callback is there, and finalizers run    *)
(* code of others.                                                         *)
(*                                                                         *)
(* The clock counts nanoseconds and no two readings of it are equal.       *)
(***************************************************************************)
EXTENDS Integers, Sequences, FiniteSets

CONSTANTS
    Workers,         \* the kinds of worker to look at
    Reads,           \* of a timed worker
    MaxCollections,  \* automatic ones
    MaxPause,        \* the longest collection, in ns
    MaxFreed,        \* objects that one collection frees
    SlowNs           \* a read that takes longer is slow

Generations == 0..2

ASSUME GcTimelineConstants ==
    /\ Workers \subseteq ({"timed"} \X BOOLEAN \X BOOLEAN) \cup {<<"probe">>}
    /\ Reads \in Nat \ {0} /\ MaxPause \in Nat \ {0} /\ MaxFreed \in Nat

VARIABLES
    worker,     \* <<"timed", prepare_gc, validate>> or <<"probe">>
    steps,      \* how many milestones it has passed
    clock,
    enabled,    \* automatic collections
    listening,  \* the callback is installed
    stats,      \* gc.get_stats()
    times,      \* the clock at each milestone
    states,     \* the collector at each milestone
    returned,   \* by gc.collect(2)
    events,     \* that the callback noted
    truth       \* history: all collections

timelineVars == <<worker, steps, clock, enabled, listening, stats, times, states, returned, events, truth>>

Read(validate) ==
    IF validate THEN <<"op_start", "op_end", "validation_start", "validation_end", "released">>
                ELSE <<"op_start", "op_end", "released">>

\* A scope saves the state of the collector, reads the clock and installs its
\* callback, and leaves in the opposite order. The loop is in a second one.
Conditioning(prepare) ==
    IF prepare
    THEN <<"scope_before", "scope_start", "listen", "call_start", "collect", "call_end",
           "deafen", "scope_end", "scope_after", "loop_start", "listen">>
    ELSE <<"scope_before", "scope_start", "listen", "call_start", "call_end",
           "deafen", "scope_end", "scope_after", "loop_start", "listen">>

\* timed_reads(): the milestones, and the number of the read they belong to.
TimedReads(prepare, validate) ==
    LET opening == Conditioning(prepare)
        read    == Read(validate)
        closing == <<"deafen", "loop_end">>
        begin   == Len(opening)
        end     == begin + Reads * Len(read)
    IN  [k \in 1..(end + 2) |->
            IF k <= begin THEN <<opening[k], 0>>
            ELSE IF k > end THEN <<closing[k - end], 0>>
            ELSE <<read[1 + ((k - begin - 1) % Len(read))], 1 + ((k - begin - 1) \div Len(read))>>]

\* collect_pair().
CollectPair ==
    LET names == <<"before", "disable", "before_preparation", "collect", "before_measured", "start",
                   "collect", "end", "after_measured", "enable", "restored">>
    IN  [k \in 1..11 |-> <<names[k], 0>>]

Program == [w \in Workers |-> IF w = <<"probe">> THEN CollectPair ELSE TimedReads(w[2], w[3])]
program == Program[worker]
done    == steps = Len(program)
Name(k) == program[k][1]

NoStats == [g \in Generations |-> [collections |-> 0, collected |-> 0]]

TimelineInit ==
    /\ worker \in Workers
    /\ steps = 0 /\ clock = 0
    /\ enabled = TRUE /\ listening = FALSE
    /\ stats = NoStats
    /\ times = <<>> /\ states = <<>> /\ returned = <<>> /\ events = <<>> /\ truth = <<>>

\* A collection of generation g, during which a finalizer may switch automatic
\* collections on. Of a requested one, asked is the number of the request.
Collect(g, ns, freed, asked) ==
    /\ clock' = clock + 1 + ns
    /\ stats' = [stats EXCEPT ![g] = [collections |-> @.collections + 1, collected |-> @.collected + freed]]
    /\ events' = IF listening
                 THEN Append(events, [start |-> clock + 1, end |-> clock', generation |-> g, collected |-> freed])
                 ELSE events
    /\ truth' = Append(truth, [at |-> steps, start |-> clock + 1, end |-> clock', generation |-> g,
                               collected |-> freed, asked |-> asked,
                               noted |-> IF listening THEN Len(events) + 1 ELSE 0])
    /\ enabled' \in {enabled, TRUE}

Automatic(g, ns, freed) ==
    /\ enabled /\ ~done
    /\ Len(truth) - Len(returned) < MaxCollections
    /\ Collect(g, ns, freed, 0)
    /\ UNCHANGED <<worker, steps, listening, times, states, returned>>

Passed(reading) ==
    /\ steps' = steps + 1
    /\ times' = Append(times, reading)
    /\ states' = Append(states, [enabled |-> enabled, stats |-> stats'])
    /\ UNCHANGED worker

Explicit(ns, freed) ==
    /\ ~done /\ Name(steps + 1) = "collect"
    /\ Collect(2, ns, freed, Len(returned) + 1)
    /\ returned' = Append(returned, freed)
    /\ Passed(clock')
    /\ UNCHANGED listening

Step ==
    /\ ~done /\ Name(steps + 1) # "collect"
    /\ clock' = clock + 1
    /\ listening' = CASE Name(steps + 1) = "listen" -> TRUE
                      [] Name(steps + 1) = "deafen" -> FALSE
                      [] OTHER                         -> listening
    /\ enabled' = CASE Name(steps + 1) = "disable" -> FALSE
                    [] Name(steps + 1) = "enable"  -> TRUE
                    [] OTHER                          -> enabled
    /\ UNCHANGED <<stats, returned, events, truth>>
    /\ Passed(clock')

TimelineNext ==
    \/ Step
    \/ \E ns \in 1..MaxPause, freed \in 0..MaxFreed :
         Explicit(ns, freed) \/ \E g \in {0, 2} : Automatic(g, ns, freed)

----------------------------------------------------------------------------
(* The analyzers.                                                          *)

Larger(a, b)  == IF a > b THEN a ELSE b
Smaller(a, b) == IF a < b THEN a ELSE b

Place(name, read) == CHOOSE k \in DOMAIN program : program[k] = <<name, read>>
Time(name, read)  == times[Place(name, read)]
State(name)       == states[Place(name, 0)]

\* From one milestone to another of each read that has them.
Windows(from, to) ==
    [r \in {r \in 1..Reads : \E k \in DOMAIN program : program[k] = <<from, r>>} |-> <<Time(from, r), Time(to, r)>>]

\* The sum of the values of a function, none of which is negative.
Total(f) == Cardinality(UNION {{n} \X (1..f[n]) : n \in DOMAIN f})

overlap(w, windows) ==
    Total([n \in DOMAIN windows |->
              Larger(0, Smaller(w[2], windows[n][2]) - Larger(w[1], windows[n][1]))])

Span(e) == <<e.start, e.end>>
Inside(from, to) == {n \in DOMAIN events : from <= events[n].start /\ events[n].end <= to}

\* What the loop's collections of one generation cost, and where. No time may be
\* counted twice.
summarize_scope(scope, g) ==
    LET selected   == {n \in scope : events[n].generation = g}
        calls      == Windows("op_start", "op_end")
        validation == Windows("validation_start", "validation_end")
        ns         == [n \in selected |-> events[n].end - events[n].start]
        call       == [n \in selected |-> overlap(Span(events[n]), calls)]
        check      == [n \in selected |-> overlap(Span(events[n]), validation)]
    IN  [collections |-> Cardinality(selected),
         collected   |-> Total([n \in selected |-> events[n].collected]),
         partitioned |-> \A n \in selected : call[n] + check[n] <= ns[n],
         call        |-> Total(call),
         validation  |-> Total(check),
         other       |-> Total([n \in selected |-> ns[n] - call[n] - check[n]])]

Loop == Inside(Time("loop_start", 0), Time("loop_end", 0))

\* analyze_timing(): the slow reads, with disposal, and those of them that a
\* full collection touched.
SlowReads ==
    LET full == {n \in Loop : events[n].generation = 2}
        windows == Windows("op_start", "released")
        slow == {r \in 1..Reads : windows[r][2] - windows[r][1] > SlowNs}
    IN  <<slow, {r \in slow : \E n \in full : overlap(windows[r], <<Span(events[n])>>) > 0}>>

\* Wrong: bisect_left(starts, t), and the read that begins next.
NextStarted(t) == Smaller(Reads, 1 + Cardinality({r \in 1..Reads : Time("op_start", r) < t}))

\* bisect_right(starts, t) - 1: the last read that has started by then.
LastStarted(t) == Cardinality({r \in 1..Reads : Time("op_start", r) <= t})

gen2_position(t) ==
    LET i == LastStarted(t)
        validating == worker[3] /\ Time("validation_start", i) <= t /\ t < Time("validation_end", i)
    IN  IF i = 0 THEN <<"before_first_read", 0>>
        ELSE IF t < Time("op_end", i) THEN <<"loads", i>>
        ELSE IF validating THEN <<"validation", i>>
        ELSE IF t < Time("released", i) THEN <<"post_load_or_disposal", i>>
        ELSE <<IF i < Reads THEN "between_reads" ELSE "after_last_read", i>>

Difference(from, to) ==
    [g \in Generations |-> [collections |-> to.stats[g].collections - from.stats[g].collections,
                            collected   |-> to.stats[g].collected - from.stats[g].collected]]

\* Wrong: only what the callback noted is compared.
AsNoted(scope) ==
    \A g \in {events[n].generation : n \in scope} : summarize_scope(scope, g).collections > 0

\* The callback noted what the collector counted.
Agrees(scope) ==
    \A g \in Generations :
        LET counted == Difference(State("scope_before"), State("scope_after"))[g]
        IN  /\ counted.collections = summarize_scope(scope, g).collections
            /\ counted.collected = summarize_scope(scope, g).collected

check_conditioning ==
    LET scope == Inside(Time("scope_start", 0), Time("scope_end", 0))
        found == Inside(Time("call_start", 0), Time("call_end", 0))
    IN  /\ State("scope_before").enabled /\ State("scope_after").enabled
        /\ Agrees(scope)
        /\ worker[2] => \E n \in found : /\ found = {n} /\ events[n].generation = 2
                                         /\ returned = <<events[n].collected>>
        /\ ~worker[2] => returned = <<>>

\* One full collection, and nothing else.
OneFull(from, to, freed) ==
    /\ \A g \in {0, 1} : Difference(from, to)[g] = NoStats[g]
    /\ Difference(from, to)[2] = [collections |-> 1, collected |-> freed]

validate_probe ==
    /\ State("before").enabled /\ State("restored").enabled
    /\ \A name \in {"before_preparation", "before_measured", "after_measured"} : ~State(name).enabled
    /\ OneFull(State("before_preparation"), State("before_measured"), returned[1])
    /\ OneFull(State("before_measured"), State("after_measured"), returned[2])
    /\ State("before").stats = State("before_preparation").stats
    /\ State("after_measured").stats = State("restored").stats

----------------------------------------------------------------------------
TimelineTypeOK ==
    /\ steps = Len(times) /\ steps = Len(states) /\ steps <= Len(program)
    /\ \A n \in 2..steps : times[n - 1] < times[n]
    /\ \A n \in 2..Len(events) : events[n - 1].end < events[n].start

Between(from, to) ==
    {n \in DOMAIN truth : Place(from, 0) <= truth[n].at /\ truth[n].at < Place(to, 0)}

\* Where a collection of the loop fell: what the worker was doing, in which read.
Stage(n) ==
    LET name == Name(truth[n].at)
        r    == program[truth[n].at][2]
    IN  CASE name = "op_start"         -> <<"loads", r>>
          [] name = "validation_start" -> <<"validation", r>>
          [] name \in {"op_end", "validation_end"} -> <<"post_load_or_disposal", r>>
          [] name = "released"         -> <<IF r < Reads THEN "between_reads" ELSE "after_last_read", r>>
          [] OTHER                     -> <<"before_first_read", 0>>

Heard == {n \in Between("loop_start", "loop_end") : Name(truth[n].at) \notin {"loop_start", "deafen"}}

Spent(g, during) ==
    Total([n \in {n \in Heard : truth[n].generation = g /\ Stage(n)[1] \in during} |-> truth[n].end - truth[n].start])

\* The time of the collections is split among loading, validation and the rest
\* as it was spent, full collections are located in the read and the phase they
\* interrupted, and a slow read is said to have been touched by a full one just
\* if it was.
TimelineIsTrue ==
    done /\ worker # <<"probe">> =>
        /\ \A g \in Generations :
             LET sum == summarize_scope(Loop, g)
             IN  /\ sum.partitioned
                 /\ sum.call = Spent(g, {"loads"}) /\ sum.validation = Spent(g, {"validation"})
                 /\ sum.other = Spent(g, {"post_load_or_disposal", "between_reads", "after_last_read", "before_first_read"})
                 /\ sum.collections = Cardinality({n \in Heard : truth[n].generation = g})
        /\ {gen2_position(events[n].start) : n \in {n \in Loop : events[n].generation = 2}}
             = {Stage(n) : n \in {n \in Heard : truth[n].generation = 2}}
        /\ SlowReads[2] = {r \in SlowReads[1] : \E n \in Heard :
                             /\ truth[n].generation = 2 /\ Stage(n)[2] = r
                             /\ Stage(n)[1] \notin {"between_reads", "after_last_read"}}

\* A prepared worker is accepted just if the collection it asked for is the only
\* one of that call, and any worker just if the callback missed none; an accepted
\* probe measured one full collection and returned what that one freed, while
\* nothing else was collected around it.  What is refused had such a disturbance.
CollectedAsAsked ==
    done =>
        IF worker = <<"probe">>
        THEN LET around == Between("before", "restored")
                 disturbed == \/ \E n \in around : truth[n].asked = 0
                              \/ \E name \in {"before_measured", "after_measured"} : State(name).enabled
             IN  /\ validate_probe = ~disturbed
                 /\ validate_probe => \E n \in around :
                      /\ Between("start", "end") = {n} /\ truth[n].generation = 2
                      /\ returned[2] = truth[n].collected
                      /\ Time("end", 0) - Time("start", 0) = truth[n].end - truth[n].start + 2
        ELSE LET missed == {n \in Between("scope_before", "scope_after") :
                              Name(truth[n].at) \in {"scope_before", "scope_start", "deafen", "scope_end"}}
                 spoilt == worker[2] /\ \E n \in Between("call_start", "call_end") : truth[n].asked = 0
             IN  check_conditioning = (missed = {} /\ ~spoilt)
=============================================================================
