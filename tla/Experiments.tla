---------------------------- MODULE Experiments ----------------------------
(***************************************************************************)
(* The measurement scripts: run_X starts one fresh process per job of a    *)
(* plan, one after the other, and records them in a manifest; summarize_X  *)
(* reads the directory later, perhaps on another day, and must not take    *)
(* anything for the experiment but the whole experiment.                   *)
(*                                                                         *)
(* Meanwhile the runner may be killed and a worker fail, sources and       *)
(* plugins may change, the system may reuse a process id, and afterwards   *)
(* reports may be overwritten by a rerun or the manifest edited.           *)
(*                                                                         *)
(* The scripts differ in their cells, in what a report must agree with and *)
(* in what is looked at again afterwards.  A job is named by its place in  *)
(* the plan, a hash is what it is the hash of.                             *)
(***************************************************************************)
EXTENDS Naturals, SequencesExt

CONSTANTS
    Experimented,  \* the experiments to look at
    Repeats,       \* of each experiment
    Seeds,         \* 1 leaves the cells in order, 2 reverses them
    MaxShocks,     \* how much goes wrong
    Nothing

ASSUME ExperimentConstants ==
    /\ Experimented \subseteq {"serializer", "environment", "inventory", "plugins", "full_gc", "preparation"}
    /\ Repeats \in [Experimented -> Nat \ {0}] /\ Seeds \subseteq {1, 2}
    /\ Nothing \notin Nat

VARIABLES
    what, seed,  \* the experiment
    phase,       \* of the runner
    runs,        \* the manifest's entries, as the runner has them
    disk,        \* the manifest as it was saved last
    files,       \* the reports, by the number in their names
    world,       \* sources (those a reference covers, the others) and plugins
    shocks,
    altered,     \* history: the directory was changed afterwards
    ran,         \* history: what each worker reported
    verdict

experimentVars == <<what, seed, phase, runs, disk, files, world, shocks, altered, ran, verdict>>

----------------------------------------------------------------------------
(* The plans.                                                              *)

Variants       == <<"original", "without_instance">>
Validations == <<"off", "on">>

\* The pairs in the order of two nested loops.
Product(p, q) ==
    [k \in 1..(Len(p) * Len(q)) |-> <<p[1 + ((k - 1) \div Len(q))], q[1 + ((k - 1) % Len(q))]>>]

\* What random.Random(seed).shuffle() leaves.
Shuffled(cells, s) == IF s = 1 THEN cells ELSE Reverse(cells)

Job(cell, repeat, arm, place) == [cell |-> cell, repeat |-> repeat, arm |-> arm, place |-> place]

\* For each cell its repeats and for each repeat its block, the arms of which are
\* next to each other.
Laid(cells, blocks) ==
    LET size == Len(blocks[1])
    IN  [k \in 1..(Len(cells) * Len(blocks) * size) |->
            LET place  == 1 + ((k - 1) % size)
                block  == (k - 1) \div size
                repeat == 1 + (block % Len(blocks))
            IN  Job(cells[1 + (block \div Len(blocks))], repeat, blocks[repeat][place], place)]

Alternating(arms, r) == IF r % 2 = 1 THEN arms ELSE Reverse(arms)
Blocks(arms, n)      == [r \in 1..n |-> Alternating(arms, r)]

\* jobs_for() of the serializer matrix shuffles single jobs, hint variants included.
SerializerCells == Product(<<"timing", "lifetime">>, Validations)
SerializerJobs(n, s) ==
    LET jobs == Laid(SerializerCells, [r \in 1..n |-> Variants])
    IN  Shuffled([k \in DOMAIN jobs |-> [jobs[k] EXCEPT !.place = 0]], s)

EnvironmentCells == Product(Variants, Validations)
EnvironmentJobs(n, s) == Laid(Shuffled(EnvironmentCells, s), Blocks(<<"minimal", "pytest">>, n))

InventoryCells == <<<<"startup", "none">>>> \o Product(<<"after_warmup">>, EnvironmentCells)
InventoryJobs(n, s) == Laid(Shuffled(InventoryCells, s), Blocks(<<"minimal", "pytest">>, n))

PluginCells == <<<<"startup", "none">>>> \o Product(<<"timing", "after_warmup">>, EnvironmentCells)
PluginJobs(n, s) == Laid(Shuffled(PluginCells, s), Blocks(<<"autoload", "django_only">>, n))

FullGcJobs(n, s) == Laid(Shuffled(Validations, s), Blocks(<<"autoload", "django_only">>, n))

\* Pairs without and with preparation within each profile; both orders vary.
PreparationBlock(r) ==
    LET profiles == IF r % 4 \in {2, 3} THEN <<"django_only", "autoload">>
                    ELSE <<"autoload", "django_only">>
    IN  Product(profiles, Alternating(<<FALSE, TRUE>>, r))

PreparationJobs(n, s) == Laid(Shuffled(Validations, s), [r \in 1..n |-> PreparationBlock(r)])

Jobs(e, s) ==
    CASE e = "serializer"  -> SerializerJobs(Repeats[e], s)
      [] e = "environment" -> EnvironmentJobs(Repeats[e], s)
      [] e = "inventory"   -> InventoryJobs(Repeats[e], s)
      [] e = "plugins"     -> PluginJobs(Repeats[e], s)
      [] e = "full_gc"     -> FullGcJobs(Repeats[e], s)
      [] e = "preparation" -> PreparationJobs(Repeats[e], s)

Plans == [e \in Experimented |-> [s \in Seeds |-> Jobs(e, s)]]
planned == Plans[what][seed]

----------------------------------------------------------------------------
(* What a worker reports, and what the runner and the analyzer ask of it.  *)

AsBefore == [shared |-> 0, own |-> 0, plugins |-> 0]   \* as the reference has it

\* The distributions that pytest loads in a worker.
Loaded(arm, w) ==
    CASE arm = "minimal"     -> {}
      [] arm = "django_only" -> {"django"}
      [] OTHER               -> {"django"} \cup (IF w.plugins = 0 THEN {} ELSE {"new"})

\* expected_plugins(): what the reference has, or pytest-django alone.
ExpectedPlugins(arm) == Loaded(arm, AsBefore)

Profile(arm) == IF what = "preparation" THEN arm[1] ELSE arm

\* tidy: the GC policy, the scopes, the counts and the work in the report are
\* what the job asked for.
Report(i, pid, w, tidy) ==
    [job |-> i, pid |-> pid, tidy |-> tidy, edited |-> FALSE, shared |-> w.shared, own |-> w.own,
     plugins |-> IF what = "serializer" THEN {} ELSE Loaded(Profile(planned[i].arm), w)]

Sources(rep) == <<rep.shared, rep.own>>

\* earlier: the reports of the workers before it.
SameSources(rep, earlier) == earlier # <<>> => Sources(rep) = Sources(earlier[1])
SamePlugins(rep, earlier) == \A q \in Range(earlier) : q.plugins # {} => rep.plugins = q.plugins
AsReferenced(rep)       == rep.shared = AsBefore.shared

\* check_report()
SerializerReport(rep, i, earlier) == rep.job = i /\ rep.tidy /\ SameSources(rep, earlier)

\* validate_report() of the environment: no plugins without pytest.
EnvironmentReport(rep, i, earlier) ==
    /\ rep.job = i /\ rep.tidy /\ SameSources(rep, earlier)
    /\ IF planned[i].arm = "minimal" THEN rep.plugins = {}
       ELSE rep.plugins # {} /\ SamePlugins(rep, earlier)

\* The others have a reference to agree with, in sources and plugins.
InventoryReport(rep, i, earlier) ==
    /\ rep.job = i /\ rep.tidy /\ SameSources(rep, earlier) /\ AsReferenced(rep)
    /\ rep.plugins = ExpectedPlugins(planned[i].arm)

\* Timing workers like those of the environment, the others like the inventory's.
PluginReport(rep, i, earlier) ==
    /\ rep.job = i /\ SameSources(rep, earlier) /\ AsReferenced(rep)
    /\ rep.plugins = ExpectedPlugins(planned[i].arm)
    /\ IF planned[i].cell[1] = "timing" THEN rep.tidy ELSE InventoryReport(rep, i, earlier)

FullGcReport(rep, i, earlier) ==
    /\ rep.job = i /\ rep.tidy /\ SameSources(rep, earlier) /\ AsReferenced(rep)
    /\ rep.plugins = ExpectedPlugins(planned[i].arm)

PreparationReport(rep, i, earlier) ==
    /\ rep.job = i /\ rep.tidy /\ SameSources(rep, earlier) /\ AsReferenced(rep)
    /\ rep.plugins = ExpectedPlugins(planned[i].arm[1])

GoodReport(rep, i, earlier) ==
    CASE what = "serializer"  -> SerializerReport(rep, i, earlier)
      [] what = "environment" -> EnvironmentReport(rep, i, earlier)
      [] what = "inventory"   -> InventoryReport(rep, i, earlier)
      [] what = "plugins"     -> PluginReport(rep, i, earlier)
      [] what = "full_gc"     -> FullGcReport(rep, i, earlier)
      [] what = "preparation" -> PreparationReport(rep, i, earlier)

----------------------------------------------------------------------------
(* The runners.                                                            *)

Unsaved == [there |-> FALSE]

Manifest(jobs, rs, complete) ==
    [there |-> TRUE, torn |-> FALSE, complete |-> complete, runs |-> rs,
     plan |-> [i \in DOMAIN jobs |-> i], expected |-> Len(jobs), intact |-> TRUE,
     \* In the end the serializer matrix notes what it compared all sources with.
     reference |-> IF complete THEN Sources(rs[1].hash) ELSE Nothing]

ExperimentInit ==
    /\ what = "none" /\ seed = 0 /\ phase = "none"
    /\ runs = <<>>
    /\ disk = Unsaved
    /\ files = <<>>
    /\ world = AsBefore
    /\ shocks = 0
    /\ altered = FALSE
    /\ ran = <<>>
    /\ verdict = "none"

\* main() up to its loop; a reference was validated and copied, or the payloads made.
StartExperiment(e, s) ==
    /\ phase = "none"
    /\ what' = e /\ seed' = s
    /\ phase' = "between"
    /\ disk' = Manifest(Plans[e][s], <<>>, FALSE)
    /\ UNCHANGED <<runs, files, world, shocks, altered, ran, verdict>>

Entry(i) == [job |-> i, file |-> i, code |-> Nothing, launched |-> 2 * i, finished |-> Nothing,
             pid |-> Nothing, hash |-> Nothing]

\* The entry is in the manifest before its worker runs.
Launch ==
    /\ phase = "between" /\ Len(runs) < Len(planned)
    /\ LET rs == Append(runs, Entry(Len(runs) + 1))
       IN  runs' = rs /\ disk' = Manifest(planned, rs, FALSE)
    /\ phase' = "worker"
    /\ UNCHANGED <<what, seed, files, world, shocks, altered, ran, verdict>>

Shock(n) == shocks + n <= MaxShocks /\ shocks' = shocks + n

\* The worker has ended and written its report, which the runner then reads:
\* wrong, untidy or from other sources, it ends the experiment.  The system
\* gives out ids again in time, though never the runner's own.
WorkerEnds(pid, tidy) ==
    LET i   == Len(runs)
        rep == Report(i, pid, world, tidy)
        rs  == [runs EXCEPT ![i] = [@ EXCEPT !.code = 0, !.finished = 2 * i + 1, !.pid = pid, !.hash = rep]]
    IN  /\ phase = "worker"
        /\ Shock((IF pid = i THEN 0 ELSE 1) + (IF tidy THEN 0 ELSE 1))
        /\ files' = Append(files, rep)
        /\ ran' = Append(ran, rep)
        /\ IF GoodReport(rep, i, files)
           THEN runs' = rs /\ disk' = Manifest(planned, rs, FALSE) /\ phase' = "between"
           ELSE /\ runs' = [runs EXCEPT ![i] = [@ EXCEPT !.code = 0, !.finished = 2 * i + 1]]
                /\ disk' = Manifest(planned, runs', FALSE)
                /\ phase' = "failed"
        /\ UNCHANGED <<what, seed, world, altered, verdict>>

\* A worker that fails, or an error of the system: the finally clause saves.
Fails ==
    /\ phase \in {"between", "worker"}
    /\ Shock(1)
    /\ phase' = "failed"
    /\ runs' = IF phase = "worker" THEN [runs EXCEPT ![Len(runs)] = [@ EXCEPT !.code = 1, !.finished = 2 * Len(runs) + 1]]
             ELSE runs
    /\ disk' = Manifest(planned, runs', FALSE)
    /\ UNCHANGED <<what, seed, files, world, altered, ran, verdict>>

Completes ==
    /\ phase = "between" /\ Len(runs) = Len(planned)
    /\ phase' = "done"
    /\ disk' = Manifest(planned, runs, TRUE)
    /\ UNCHANGED <<what, seed, runs, files, world, shocks, altered, ran, verdict>>

\* save() replaces the manifest by a finished file; the serializer matrix
\* writes over it.
Atomic == what # "serializer"

\* The runner is killed; what it had not saved is lost.
Killed ==
    /\ phase \in {"between", "worker"}
    /\ Shock(1)
    /\ phase' = "killed"
    /\ disk' \in {disk} \cup (IF Atomic THEN {} ELSE {[disk EXCEPT !.torn = TRUE]})
    /\ UNCHANGED <<what, seed, runs, files, world, altered, ran, verdict>>

\* Someone commits, or installs a package.
Drift(part) ==
    /\ phase \in {"between", "worker"}
    /\ world[part] = 0
    /\ Shock(1)
    /\ world' = [world EXCEPT ![part] = 1]
    /\ UNCHANGED <<what, seed, phase, runs, disk, files, altered, ran, verdict>>

Swapped(q, i) == [q EXCEPT ![i] = q[i + 1], ![i + 1] = q[i]]

\* The directory is changed once the runner is gone: a job is run again by
\* hand, a report edited or copied over another, the manifest or a payload edited.
Alter ==
    /\ phase \in {"done", "failed", "killed"} /\ verdict = "none" /\ files # <<>>
    /\ Shock(1)
    /\ altered' = TRUE
    /\ \/ \E i \in DOMAIN files, w \in {AsBefore, world} :
            files' = [files EXCEPT ![i] = Report(i, 0, w, TRUE)] /\ disk' = disk
       \/ \E i \in DOMAIN files : files' = [files EXCEPT ![i].edited = TRUE] /\ disk' = disk
       \/ \E i, j \in DOMAIN files : i # j /\ files' = [files EXCEPT ![i] = files[j]] /\ disk' = disk
       \/ \E i \in 1..(Len(disk.runs) - 1), withPlan \in BOOLEAN :
            /\ files' = files
            /\ disk' = [disk EXCEPT !.runs = Swapped(@, i), !.plan = IF withPlan THEN Swapped(@, i) ELSE @]
       \/ files' = files /\ disk.runs # <<>> /\ disk' = [disk EXCEPT !.runs = Front(@)]
       \/ files' = files /\ disk' = [disk EXCEPT !.intact = FALSE]
       \/ files' = files /\ disk' = [disk EXCEPT !.complete = TRUE]
    /\ UNCHANGED <<what, seed, phase, runs, world, ran, verdict>>

----------------------------------------------------------------------------
(* The analyzers: each looks at what is on the disk, and at nothing else.  *)

Entries   == disk.runs
FileOf(n) == files[Entries[n].file]
Before(n) == [m \in 1..(n - 1) |-> FileOf(m)]

Present == \A n \in DOMAIN Entries : Entries[n].file \in DOMAIN files /\ Entries[n].code = 0

\* One entry per job of the plan and none that failed.
Matched ==
    /\ Len(Entries) = Len(disk.plan) /\ Len(Entries) = disk.expected
    /\ \A n \in DOMAIN Entries : Entries[n].job = disk.plan[n]

Sequential ==
    \A n \in DOMAIN Entries :
        /\ Entries[n].launched < Entries[n].finished
        /\ n > 1 => Entries[n - 1].finished <= Entries[n].launched

\* Wrong: the hashes are not compared.
Unhashed == TRUE

\* The bytes of each report are those that the runner read.
Unmodified == \A n \in DOMAIN Entries : FileOf(n) = Entries[n].hash

Distinct(q) == Cardinality(Range(q)) = Len(q)

OwnProcess ==
    /\ Distinct([n \in DOMAIN Entries |-> Entries[n].file])
    /\ Distinct([n \in DOMAIN Entries |-> FileOf(n).pid])
    /\ \A n \in DOMAIN Entries : FileOf(n).pid = Entries[n].pid

AllGood == \A n \in DOMAIN Entries : GoodReport(FileOf(n), Entries[n].job, Before(n))

Recorded == disk.complete /\ disk.intact /\ Present /\ Matched /\ Sequential /\ Unmodified /\ OwnProcess /\ AllGood

\* Pairs that differ in the worker alone and take turns in going first.
PairsAlternate(arms) ==
    \A n \in {n \in DOMAIN disk.plan : n % 2 = 1} :
        LET first == planned[disk.plan[n]]  second == planned[disk.plan[n + 1]]
        IN  /\ [first EXCEPT !.arm = second.arm, !.place = second.place] = second
            /\ <<first.arm, second.arm>> = Alternating(arms, first.repeat)

CellsAre(cells) ==
    {<<planned[i].cell, planned[i].repeat>> : i \in Range(disk.plan)} = Range(cells) \X (1..Repeats[what])

EnvironmentAccepts ==
    /\ Recorded
    /\ Len(Entries) = Repeats[what] * 8
    /\ PairsAlternate(<<"minimal", "pytest">>) /\ CellsAre(EnvironmentCells)

InventoryAccepts ==
    /\ Recorded
    /\ Len(Entries) = Repeats[what] * 10
    /\ PairsAlternate(<<"minimal", "pytest">>) /\ CellsAre(InventoryCells)

\* The later ones lay the plan again from the repeats and the seed.
AsLaid(size) == disk.plan = [i \in DOMAIN planned |-> i] /\ Len(Entries) = Repeats[what] * size

PluginsAccept     == Recorded /\ AsLaid(18)
FullGcAccepts     == Recorded /\ AsLaid(4)
PreparationAccepts == Recorded /\ AsLaid(8)

\* compare_hints(): every job of one variant has its like of the other.
HintsPaired ==
    \A n \in DOMAIN Entries : \E m \in DOMAIN Entries :
        LET j == planned[Entries[n].job]  k == planned[Entries[m].job]
        IN  j.arm # k.arm /\ [j EXCEPT !.arm = k.arm] = k

\* The first analyzer asks for neither hashes nor process ids nor a plan: each
\* entry names another file with another configuration, all as the manifest's
\* reference has it.
MatrixAccepts ==
    /\ disk.complete /\ Present
    /\ Len(Entries) = disk.expected
    /\ Distinct([n \in DOMAIN Entries |-> Entries[n].file])
    /\ Distinct([n \in DOMAIN Entries |-> FileOf(n).job])
    /\ \A n \in DOMAIN Entries :
         /\ FileOf(n).job = Entries[n].job /\ FileOf(n).tidy
         /\ Sources(FileOf(n)) = disk.reference
    /\ HintsPaired

Accepts ==
    CASE what = "serializer"  -> MatrixAccepts
      [] what = "environment" -> EnvironmentAccepts
      [] what = "inventory"   -> InventoryAccepts
      [] what = "plugins"     -> PluginsAccept
      [] what = "full_gc"     -> FullGcAccepts
      [] what = "preparation" -> PreparationAccepts

Analyze ==
    /\ phase # "none" /\ verdict = "none"
    /\ verdict' = IF ~disk.torn /\ Accepts THEN "accepted" ELSE "rejected"
    /\ UNCHANGED <<what, seed, phase, runs, disk, files, world, shocks, altered, ran>>

ExperimentNext ==
    \/ \E e \in Experimented, s \in Seeds : StartExperiment(e, s)
    \/ /\ verdict = "none"
       /\ \/ Launch \/ Completes \/ Fails \/ Killed
          \/ \E pid \in 1..Len(runs), tidy \in BOOLEAN : WorkerEnds(pid, tidy)
          \/ \E part \in DOMAIN world : Drift(part)
    \/ Alter
    \/ Analyze

----------------------------------------------------------------------------
ExperimentTypeOK ==
    /\ phase \in {"none", "between", "worker", "failed", "killed", "done"}
    /\ what \in Experimented \cup {"none"}
    /\ Len(ran) <= Len(runs)
    /\ disk.there => Len(disk.runs) <= Len(runs)

\* What the design asks for, without the loops: every cell with every arm in
\* every repeat, and every arm as often at one place of a block as at another
\* once the repeats are a multiple of the arms.
Arms == {planned[i].arm : i \in DOMAIN planned}

Whole(jobs) ==
    /\ {<<j.cell, j.repeat, j.arm>> : j \in jobs} = {j.cell : j \in jobs} \X (1..Repeats[what]) \X Arms
    /\ Cardinality({j.cell : j \in jobs}) =
         CASE what = "serializer" -> 4 [] what = "environment" -> 4 [] what = "inventory" -> 5
           [] what = "plugins" -> 9 [] what = "full_gc" -> 2 [] what = "preparation" -> 2
    /\ Repeats[what] % Cardinality(Arms) = 0 /\ what # "serializer" =>
         \A c \in {j.cell : j \in jobs}, a \in Arms, p \in 1..Cardinality(Arms) :
            Cardinality({j \in jobs : j.cell = c /\ j.arm = a /\ j.place = p}) = Repeats[what] \div Cardinality(Arms)

\* An analyzer accepts nothing but the whole experiment, each job once.
AcceptedIsWhole ==
    verdict = "accepted" => Whole({planned[FileOf(n).job] : n \in DOMAIN Entries})

\* All reports are from the same sources and for all but the first experiment as
\* their workers wrote them, each worker its own process and the plugins as they
\* were expected.
AcceptedAsRun ==
    verdict = "accepted" =>
        /\ \A n, m \in DOMAIN Entries : Sources(FileOf(n)) = Sources(FileOf(m))
        /\ what # "serializer" =>
             /\ \A n \in DOMAIN Entries : FileOf(n) = ran[n]
             /\ Distinct([n \in DOMAIN ran |-> ran[n].pid])
             /\ \A n, m \in DOMAIN ran :
                  Profile(planned[n].arm) = Profile(planned[m].arm) => ran[n].plugins = ran[m].plugins

\* What a runner completed is accepted, unless it was changed afterwards or the
\* system gave two workers the same process id.
CompletedIsAccepted ==
    verdict = "rejected" /\ phase = "done" /\ ~altered =>
        what # "serializer" /\ ~Distinct([n \in DOMAIN ran |-> ran[n].pid])

\* The analyzers tell an experiment that was carried out from anything else.
VerdictIsRight == AcceptedIsWhole /\ AcceptedAsRun /\ CompletedIsAccepted
=============================================================================
