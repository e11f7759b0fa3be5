---------------------------- MODULE ServiceGraph ----------------------------
(***************************************************************************)
(* The graphs the architecture detectors walk: services that call each     *)
(* other, and the components of one service.  A graph is its set of edges. *)
(* Cycles are found by Tarjan's algorithm, translated step for step,       *)
(* with the calls that have not returned in a stack of their own.          *)
(***************************************************************************)
EXTENDS StaticFacts

CONSTANTS
    FanThreshold,           \* edges of a service that are worth a finding
    ComponentFanThreshold   \* the same for a component

Nodes(edges) == {e[1] : e \in edges} \cup {e[2] : e \in edges}

\* Relations between indexed services, whatever their protocol.
InternalEdges == UNION {{<<s, r.to>> : r \in facts[s].relations} : s \in Indexed}

-----------------------------------------------------------------------------
(* Tarjan's algorithm: index and lowlink of the visited nodes, the stack of *)
(* nodes whose component is open, the components that are complete.  calls  *)
(* are the calls of strongconnect that have not returned, the first one     *)
(* first, and rest the neighbors that a call has still to look at, in the   *)
(* order in which CHOOSE takes them.                                        *)

Neighbors(edges, node) == {e[2] : e \in {d \in edges : d[1] = node}}

Lower(a, b) == IF a < b THEN a ELSE b

Unvisited == [index |-> <<>>, lowlink |-> <<>>, rest |-> <<>>, counter |-> 0,
              stack |-> <<>>, calls |-> <<>>, result |-> {}]

With(f, node, value) == [n \in DOMAIN f \cup {node} |-> IF n = node THEN value ELSE f[n]]

\* strongconnect is called.
Enter(walk, node, edges) ==
    [index |-> With(walk.index, node, walk.counter),
     lowlink |-> With(walk.lowlink, node, walk.counter),
     rest |-> With(walk.rest, node, Neighbors(edges, node)),
     counter |-> walk.counter + 1,
     stack |-> Append(walk.stack, node), calls |-> Append(walk.calls, node),
     result |-> walk.result]

Lowered(walk, node, value) == [walk EXCEPT !.lowlink[node] = Lower(@, value)]

MeetAnyVisited(walk, node, neighbor) == Lowered(walk, node, walk.index[neighbor])

\* A node that is visited but no longer on the stack is in a closed component.
MeetVisited(walk, node, neighbor) ==
    IF \E i \in DOMAIN walk.stack : walk.stack[i] = neighbor
    THEN Lowered(walk, node, walk.index[neighbor])
    ELSE walk

\* One turn of the loop over the neighbors.
LookAtNeighbor(walk, node, edges) ==
    LET neighbor == CHOOSE n \in walk.rest[node] : TRUE
        looking == [walk EXCEPT !.rest[node] = @ \ {neighbor}]
    IN  IF neighbor \in DOMAIN walk.index
        THEN MeetVisited(looking, node, neighbor)
        ELSE Enter(looking, neighbor, edges)

CloseComponent(walk, node) ==
    LET root == CHOOSE i \in DOMAIN walk.stack : walk.stack[i] = node
    IN  [walk EXCEPT
            !.stack = SubSeq(@, 1, root - 1),
            !.result = @ \cup {{walk.stack[i] : i \in root..Len(walk.stack)}}]

\* strongconnect returns, and its caller goes on with the lowlink of the node.
Return(walk, node) ==
    LET closed == IF walk.lowlink[node] = walk.index[node]
                  THEN CloseComponent(walk, node) ELSE walk
        callers == SubSeq(walk.calls, 1, Len(walk.calls) - 1)
        returned == [closed EXCEPT !.calls = callers]
    IN  IF callers = <<>> THEN returned
        ELSE Lowered(returned, callers[Len(callers)], walk.lowlink[node])

ConnectRound(walk, edges) ==
    LET node == walk.calls[Len(walk.calls)]
        unvisited == Nodes(edges) \ DOMAIN walk.index
    IN  IF walk.calls # <<>>
        THEN IF walk.rest[node] # {} THEN LookAtNeighbor(walk, node, edges) ELSE Return(walk, node)
        ELSE IF unvisited # {} THEN Enter(walk, CHOOSE n \in unvisited : TRUE, edges) ELSE walk

\* Every node is entered and left once, and every edge looked at once.
TarjanScc(edges) ==
    LET rounds == 2 * Cardinality(Nodes(edges)) + Cardinality(edges)
        walk[n \in 0..rounds] == IF n = 0 THEN Unvisited ELSE ConnectRound(walk[n - 1], edges)
    IN  {c \in walk[rounds].result : Cardinality(c) > 1}

-----------------------------------------------------------------------------
(* Detectors.                                                               *)

FindCycles ==
    {[kind |-> "cycle", services |-> {ServiceName(n) : n \in c \cap Indexed}] :
        c \in TarjanScc(InternalEdges)}

FanOut(edges, node) == Cardinality({e[2] : e \in {d \in edges : d[1] = node}})

FanIn(edges, node) == Cardinality({e[1] : e \in {d \in edges : d[2] = node}})

FindFanImbalance ==
    {[kind |-> "fan_out", services |-> {ServiceName(n)}, count |-> FanOut(InternalEdges, n)] :
        n \in {m \in Indexed : FanOut(InternalEdges, m) >= FanThreshold}}
    \cup
    {[kind |-> "fan_in", services |-> {ServiceName(n)}, count |-> FanIn(InternalEdges, n)] :
        n \in {m \in Indexed : FanIn(InternalEdges, m) >= FanThreshold}}

\* Flow edges lifted to the owners of their symbols: an owner that no edge
\* leaves is a boundary and not a component, a call to itself is no coupling.
ComponentEdges(s) ==
    LET pairs == {<<OwnerOf[e.from], OwnerOf[e.to]>> :
                     e \in {d \in facts[s].edges : d.kind \in {"invokes", "injects"}}}
        local == {p[1] : p \in pairs}
    IN  {p \in pairs : p[1] # p[2] /\ p[2] \in local}

FindComponentCycles ==
    UNION {{[kind |-> "component_cycle", services |-> {ServiceName(s)}, components |-> c] :
               c \in TarjanScc(ComponentEdges(s))} : s \in Indexed}

ComponentFans(s, kind, Fan(_, _)) ==
    LET edges == ComponentEdges(s)
    IN  {[kind |-> kind, services |-> {ServiceName(s)}, component |-> n, count |-> Fan(edges, n)] :
            n \in {m \in Nodes(edges) : Fan(edges, m) >= ComponentFanThreshold}}

FindComponentFanImbalance ==
    UNION {ComponentFans(s, "component_fan_out", FanOut)
           \cup ComponentFans(s, "component_fan_in", FanIn) : s \in Indexed}

-----------------------------------------------------------------------------
(* Properties.                                                              *)

\* The least set with a node that no edge leaves.
ReachedFrom(edges, node) ==
    LET closed == {C \in SUBSET Nodes(edges) :
                      node \in C /\ \A e \in edges : e[1] \in C => e[2] \in C}
    IN  {n \in Nodes(edges) : \A C \in closed : n \in C}

Component(edges, node) ==
    {n \in Nodes(edges) : n \in ReachedFrom(edges, node) /\ node \in ReachedFrom(edges, n)}

\* Reference definition: the largest sets of nodes that all reach each other.
MutuallyReachable(edges) ==
    {c \in {Component(edges, n) : n \in Nodes(edges)} : Cardinality(c) > 1}

Names(nodes) == {ServiceName(n) : n \in nodes}

\* The circular dependencies that are reported are exactly the sets of
\* services, or of components of one service, that reach each other: the depth
\* first search neither splits a cycle, joins two, nor reports a node that only
\* calls itself.  Components depend on each other by calls that stay between
\* components, and each member of a cycle shows up in the fan counts.
CyclesAreMutual ==
    /\ FindCycles = {[kind |-> "cycle", services |-> Names(c)] :
                        c \in MutuallyReachable(InternalEdges)}
    /\ \A s \in Indexed :
           {f.components : f \in {g \in FindComponentCycles : g.services = {ServiceName(s)}}}
           = MutuallyReachable(ComponentEdges(s))
    /\ FanThreshold = 1 =>
           \A f \in FindCycles : \A name \in f.services :
               \A kind \in {"fan_out", "fan_in"} :
                   \E g \in FindFanImbalance : g.kind = kind /\ g.services = {name}
    /\ ComponentFanThreshold = 1 =>
           \A f \in FindComponentCycles : \A component \in f.components :
               Cardinality({g \in FindComponentFanImbalance :
                               g.services = f.services /\ g.component = component}) = 2

=============================================================================
