---------------------------- MODULE ObjectGraphs ----------------------------
(***************************************************************************)
(* analyze_graph() of the lifetime reports: which of the observed objects  *)
(* lie on reference cycles, and which others those cycles keep alive.      *)
(* Cycles are strongly connected components, found with two depth-first    *)
(* searches that keep stacks of their own.                                 *)
(***************************************************************************)
EXTENDS Naturals, SequencesExt

CONSTANTS
    Nodes,      \* ids of the observed objects
    MaxEdges    \* of a graph

ASSUME ObjectGraphConstants == Nodes \subseteq Nat /\ IsFiniteSet(Nodes)

VARIABLES
    edges,      \* of the report
    pass,       \* "order", "components", "downstream", "reported"
    left,       \* the roots still to be looked at
    stack,      \* of <<node, expanded>> in the first pass, of nodes later
    visited,
    finished,   \* nodes in the order in which the first pass left them
    component,  \* the one that is being gathered
    cycles,
    reachable   \* from a cycle

graphVars == <<edges, pass, left, stack, visited, finished, component, cycles, reachable>>

adjacency(n) == {m \in Nodes : <<n, m>> \in edges}
\* Wrong: the second search follows the edges forwards, too.
Forwards(n)  == adjacency(n)
reverse(n)   == {m \in Nodes : <<m, n>> \in edges}

\* The ids of a set from the smallest to the largest. Reports number the objects
\* and list them in this order.
sorted(S) == CHOOSE s \in [1..Cardinality(S) -> S] : \A i, j \in DOMAIN s : i < j => s[i] < s[j]

GraphInit ==
    /\ edges \in {e \in SUBSET (Nodes \X Nodes) : Cardinality(e) <= MaxEdges}
    /\ pass = "order"
    /\ left = sorted(Nodes)
    /\ stack = <<>>
    /\ visited = {} /\ finished = <<>>
    /\ component = {} /\ cycles = {}
    /\ reachable = {}

----------------------------------------------------------------------------
(* The first pass: the order in which the nodes are finished.              *)

NextRoot ==
    /\ pass = "order" /\ stack = <<>> /\ left # <<>>
    /\ stack' = <<<<Head(left), FALSE>>>>
    /\ left' = Tail(left)
    /\ UNCHANGED <<edges, pass, visited, finished, component, cycles, reachable>>

\* The smallest child is to be popped first.
Children(n) ==
    LET children == Reverse(sorted(adjacency(n)))
    IN  [i \in 1..Len(children) |-> <<children[i], FALSE>>]

Pop ==
    /\ pass = "order" /\ stack # <<>>
    /\ LET node == Last(stack)[1]  expanded == Last(stack)[2]
       IN  IF expanded
           THEN stack' = Front(stack) /\ finished' = Append(finished, node) /\ visited' = visited
           ELSE /\ finished' = finished
                /\ visited' = visited \cup {node}
                /\ stack' = IF node \in visited THEN Front(stack)
                            ELSE Append(Front(stack), <<node, TRUE>>) \o Children(node)
    /\ UNCHANGED <<edges, pass, left, component, cycles, reachable>>

Ordered ==
    /\ pass = "order" /\ stack = <<>> /\ left = <<>>
    /\ pass' = "components"
    /\ left' = Reverse(finished)
    /\ visited' = {}
    /\ UNCHANGED <<edges, stack, finished, component, cycles, reachable>>

----------------------------------------------------------------------------
(* The second: what reaches each root, along the edges backwards.          *)

NextComponent ==
    /\ pass = "components" /\ stack = <<>> /\ component = {} /\ left # <<>>
    /\ left' = Tail(left)
    /\ IF Head(left) \in visited THEN UNCHANGED <<stack, visited>>
       ELSE stack' = <<Head(left)>> /\ visited' = visited \cup {Head(left)}
    /\ UNCHANGED <<edges, pass, finished, component, cycles, reachable>>

\* A set is walked in any order.
Gather ==
    /\ pass = "components" /\ stack # <<>>
    /\ component' = component \cup {Last(stack)}
    /\ LET fresh == reverse(Last(stack)) \ visited
       IN  /\ visited' = visited \cup fresh
           /\ \E order \in SetToSeqs(fresh) : stack' = Front(stack) \o order
    /\ UNCHANGED <<edges, pass, left, finished, cycles, reachable>>

\* A single node is a cycle if it refers to itself.
Cyclic(c) == Cardinality(c) > 1 \/ \E n \in c : n \in adjacency(n)

Gathered ==
    /\ pass = "components" /\ stack = <<>> /\ component # {}
    /\ cycles' = IF Cyclic(component) THEN cycles \cup {component} ELSE cycles
    /\ component' = {}
    /\ UNCHANGED <<edges, pass, left, stack, visited, finished, reachable>>

Separated ==
    /\ pass = "components" /\ stack = <<>> /\ component = {} /\ left = <<>>
    /\ pass' = "downstream"
    /\ reachable' = UNION cycles
    /\ \E order \in SetToSeqs(UNION cycles) : stack' = order
    /\ UNCHANGED <<edges, left, visited, finished, component, cycles>>

----------------------------------------------------------------------------
(* And what the cycles refer to.                                           *)

Downstream ==
    /\ pass = "downstream" /\ stack # <<>>
    /\ LET fresh == adjacency(Last(stack)) \ reachable
       IN  /\ reachable' = reachable \cup fresh
           /\ \E order \in SetToSeqs(fresh) : stack' = Front(stack) \o order
    /\ UNCHANGED <<edges, pass, left, visited, finished, component, cycles>>

Reported ==
    /\ pass = "downstream" /\ stack = <<>>
    /\ pass' = "reported"
    /\ UNCHANGED <<edges, left, stack, visited, finished, component, cycles, reachable>>

GraphNext ==
    \/ NextRoot \/ Pop \/ Ordered
    \/ NextComponent \/ Gather \/ Gathered \/ Separated
    \/ Downstream \/ Reported

----------------------------------------------------------------------------
GraphTypeOK ==
    /\ visited \subseteq Nodes /\ reachable \subseteq Nodes
    /\ Range(finished) \subseteq Nodes /\ Cardinality(Range(finished)) = Len(finished)
    /\ pass # "order" => Range(finished) = Nodes

\* A set of objects that every reference out of it leads back into.
Closed(C) == \A k \in C : adjacency(k) \subseteq C

\* One or more references lead from n to m.
Connected(n, m) ==
    \A C \in SUBSET Nodes : adjacency(n) \subseteq C /\ Closed(C) => m \in C

\* What reference counting frees, once nothing outside refers to the objects: no
\* more than it must, if it frees whatever no object left refers to.
Freed == {m \in Nodes :
    \A F \in SUBSET Nodes :
        (\A k \in Nodes : (\A o \in Nodes : <<o, k>> \in edges => o \in F) => k \in F) => m \in F}

\* The cycles of a report are the sets of objects that reach each other, and the
\* objects on a cycle or downstream of one are just those that reference
\* counting cannot free, which is what the lifetime report wants to explain.
CyclesFound ==
    pass = "reported" =>
        /\ cycles = {{m \in Nodes : Connected(n, m) /\ Connected(m, n)} : n \in {n \in Nodes : Connected(n, n)}}
        /\ reachable = Nodes \ Freed
=============================================================================
