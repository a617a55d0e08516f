------------------------------ MODULE MCLibrary ------------------------------
\* The parts of the library that share no state, each for itself: a behaviour
\* picks one of them, and the others do not move.
EXTENDS CacheBackends, ModelWrites, SchemaPlans, Experiments, ObjectGraphs, GcTimeline

CONSTANTS c1, c2, p1, p2, A, B, C

MCAhead    == [c \in Clients |-> IF c = c1 THEN 0 ELSE 1]
MCSeed     == [p \in {p1} |-> [low |-> Num(0), high |-> Num(1)]]
MCInputs   == {Absent, Num(0), Num(1), Text(0)}
MCFieldsOf == [s \in Schemas |-> CASE s = A -> <<"x", "y">> [] s = B -> <<"b">> [] s = C -> <<"c">>]
MCKindsOf  == [s \in Schemas |->
    CASE s = A -> {"scalar", "object", "list"}
      [] s = B -> {"object", "optional", "tuple"}
      [] s = C -> {"object", "other"}]
\* As many repeats as it takes until every arm has had every place.
MCRepeats  == [e \in Experimented |->
    CASE e \in {"serializer", "plugins"} -> 1 [] e = "preparation" -> 4 [] OTHER -> 2]
MCWorkers  == {<<"probe">>, <<"timed", TRUE, FALSE>>, <<"timed", FALSE, TRUE>>}

VARIABLE part

vars == <<part, backendVars, writeVars, schemaVars, experimentVars, graphVars, timelineVars>>

Init ==
    /\ part \in {"backends", "writes", "schemas", "experiments", "graphs", "timelines"}
    /\ BackendInit /\ WriteInit /\ SchemaInit /\ ExperimentInit
    /\ IF part = "graphs" THEN GraphInit ELSE GraphInit /\ edges = {}
    /\ IF part = "timelines" THEN TimelineInit ELSE TimelineInit /\ worker = <<"probe">>

Next ==
    /\ UNCHANGED part
    /\ \/ /\ part = "backends" /\ BackendNext
          /\ UNCHANGED <<writeVars, schemaVars, experimentVars, graphVars, timelineVars>>
       \/ /\ part = "writes" /\ WriteNext
          /\ UNCHANGED <<backendVars, schemaVars, experimentVars, graphVars, timelineVars>>
       \/ /\ part = "schemas" /\ SchemaNext
          /\ UNCHANGED <<backendVars, writeVars, experimentVars, graphVars, timelineVars>>
       \/ /\ part = "experiments" /\ ExperimentNext
          /\ UNCHANGED <<backendVars, writeVars, schemaVars, graphVars, timelineVars>>
       \/ /\ part = "graphs" /\ GraphNext
          /\ UNCHANGED <<backendVars, writeVars, schemaVars, experimentVars, timelineVars>>
       \/ /\ part = "timelines" /\ TimelineNext
          /\ UNCHANGED <<backendVars, writeVars, schemaVars, experimentVars, graphVars>>

Spec == Init /\ [][Next]_vars

\* The values of all variables are of their types in every part.
TypeOK ==
    CASE part = "backends"    -> BackendTypeOK
      [] part = "writes"      -> WriteTypeOK
      [] part = "schemas"     -> SchemaTypeOK
      [] part = "experiments" -> ExperimentTypeOK
      [] part = "graphs"      -> GraphTypeOK
      [] part = "timelines"   -> TimelineTypeOK
=============================================================================
