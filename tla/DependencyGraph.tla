-------------------------- MODULE DependencyGraph --------------------------
(***************************************************************************)
(* DependencyGraph (mode/utils/graphs/graph.py): a graph as it is built,   *)
(* or connected to another, and its topological sort.  The order of a list *)
(* of successors, and so which of the nodes that are ready is popped next, *)
(* is left open.                                                           *)
(***************************************************************************)
EXTENDS Integers, Sequences, FiniteSets, SequencesExt

CONSTANTS
    Vertex, None,
    MaxEdges   \* bound: edges added

VARIABLES
    adjacent,  \* [Vertex -> None, or the number of edges to each vertex]
    edges,     \* edges added so far
    sort,      \* where _khan62() or topsort() is
    count, ready, result  \* of _khan62

vars == <<adjacent, edges, sort, count, ready, result>>
graph == <<adjacent, edges>>

Adjacency == [Vertex -> 0..MaxEdges]
NoEdges == [v \in Vertex |-> 0]
Vertices == {v \in Vertex : adjacent[v] # None}
Edges == {e \in Vertices \X Vertex : adjacent[e[1]][e[2]] > 0}

TypeOK ==
    /\ adjacent \in [Vertex -> {None} \cup Adjacency]
    /\ edges \in 0..MaxEdges
    /\ sort \in {"none", "khan", "done", "key_error", "sorted", "raised"}
    /\ count \in Adjacency /\ ready \subseteq Vertex /\ result \in Seq(Vertex)

Init ==
    /\ adjacent = [v \in Vertex |-> None] /\ edges = 0
    /\ sort = "none" /\ count = NoEdges /\ ready = {} /\ result = <<>>

AddArc(v) ==
    /\ sort = "none" /\ v \notin Vertices
    /\ adjacent' = [adjacent EXCEPT ![v] = NoEdges]
    /\ UNCHANGED <<edges, sort, count, ready, result>>

\* self[A].append(B): A must be in the graph, B need not.  update() is add_arc
\* for all objects and then add_edge.
AddEdge(v, w) ==
    /\ sort = "none" /\ v \in Vertices /\ edges < MaxEdges
    /\ edges' = edges + 1
    /\ adjacent' = [adjacent EXCEPT ![v][w] = @ + 1]
    /\ UNCHANGED <<sort, count, ready, result>>

\* connect(): the lists of the other graph take the place of one's own, and
\* what is added to either graph later is in both.
Connect(v, w) ==
    /\ sort = "none" /\ edges < MaxEdges
    /\ edges' = edges + 1
    /\ adjacent' = [adjacent EXCEPT ![v] = [NoEdges EXCEPT ![w] = 1]]
    /\ UNCHANGED <<sort, count, ready, result>>

-----------------------------------------------------------------------------
(* _khan62.                                                                *)

\* Mutant: an edge that was added twice counts once.
InDegreeOnce(w) == Cardinality({v \in Vertices : adjacent[v][w] > 0})

\* The number of edges to w, which counts even if it is not in the graph.
InDegree(w) == FoldSet(LAMBDA v, n : adjacent[v][w] + n, 0, Vertices)
KhanBegins ==
    /\ sort = "none"
    /\ sort' = "khan"
    /\ count' = [w \in Vertex |-> InDegree(w)]
    /\ ready' = {v \in Vertices : count'[v] = 0}
    /\ result' = <<>>
    /\ UNCHANGED <<adjacent, edges>>

\* self[node] raises KeyError for a node that is not in the graph.
KhanStep ==
    /\ sort = "khan"
    /\ \E v \in ready :
         /\ result' = Append(result, v)
         /\ IF v \in Vertices
              THEN /\ count' = [w \in Vertex |-> count[w] - adjacent[v][w]]
                   /\ ready' = (ready \ {v}) \cup {w \in Vertex : count[w] > 0 /\ count'[w] = 0}
                   /\ UNCHANGED sort
              ELSE sort' = "key_error" /\ UNCHANGED <<count, ready>>
    /\ UNCHANGED <<adjacent, edges>>

KhanEnds ==
    /\ sort = "khan" /\ ready = {}
    /\ sort' = "done"
    /\ result' = Reverse(result)
    /\ UNCHANGED <<adjacent, edges, count, ready>>

SortReturns ==
    /\ sort \notin {"none", "khan"}
    /\ sort' = "none" /\ count' = NoEdges /\ ready' = {} /\ result' = <<>>
    /\ UNCHANGED <<adjacent, edges>>

-----------------------------------------------------------------------------
(* topsort.                                                                *)

\* _tarjan72 keeps the numbers of the nodes in low, a list, which it assigns
\* at the node it visits: out of range, as the list is empty.
Low == <<>>
VisitRaises(v) == Low = <<>>
Topsort ==
    /\ sort = "none"
    /\ sort' = IF \E v \in Vertices : VisitRaises(v) THEN "raised" ELSE "sorted"
    /\ UNCHANGED <<adjacent, edges, count, ready, result>>

Build == \E v \in Vertex : AddArc(v) \/ \E w \in Vertex : AddEdge(v, w) \/ Connect(v, w)
Next == Build \/ KhanBegins \/ KhanStep \/ KhanEnds \/ SortReturns \/ Topsort

Spec == Init /\ [][Next]_vars

-----------------------------------------------------------------------------
\* The vertices that can be reached from v along the edges of the graph.
Reach(v) ==
    LET reach[n \in Nat] == IF n = 0 THEN {w \in Vertex : <<v, w>> \in Edges}
                            ELSE reach[n - 1] \cup {w \in Vertex : \E u \in reach[n - 1] :
                                                      <<u, w>> \in Edges}
    IN  reach[Cardinality(Vertex)]
BehindCycle(w) == \E v \in Vertex : v \in Reach(v) /\ w \in Reach(v)
Position(v) == CHOOSE i \in DOMAIN result : result[i] = v

\* _khan62 returns every vertex that does not hang on a cycle, once, after all
\* it depends on; the others are missing without a word.  It raises only if
\* something depends on an object that was not added.
KhanRight ==
    /\ sort = "done" =>
         /\ IsInjective(result)
         /\ ToSet(result) = {v \in Vertices : ~BehindCycle(v)}
         /\ \A e \in Edges :
              {e[1], e[2]} \subseteq ToSet(result) => Position(e[2]) < Position(e[1])
    /\ sort = "key_error" => \E e \in Edges : e[2] \notin Vertices

\* "Supports a robust topological sort": topsort() of a graph without cycles
\* whose objects were all added returns.
Sortable == \A v \in Vertices : Reach(v) \subseteq Vertices /\ v \notin Reach(v)
DocTopsort == sort = "raised" => ~Sortable
=============================================================================
