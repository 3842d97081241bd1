-------------------------------- MODULE Node --------------------------------
(***************************************************************************)
(* Node (mode/utils/trees.py): the links of a tree, which every operation  *)
(* changes one at a time.  The services of a program hang their beacons    *)
(* in such a tree.                                                         *)
(***************************************************************************)
EXTENDS Integers, FiniteSets

CONSTANTS Beacon, None

VARIABLES
    parent, root,  \* [Beacon -> Beacon \cup {None}]
    children,      \* [Beacon -> SUBSET Beacon]
    exists,        \* nodes that were made
    carried,       \* history: whose root an ancestor that moved left as it was
    discarded,     \* history: children discarded that know their parent still
    misled         \* history: a node with a parent, or under a carried one, was attached

vars == <<parent, root, children, exists, carried, discarded, misled>>
links == <<parent, root, children>>

TypeOK ==
    /\ parent \in [Beacon -> Beacon \cup {None}] /\ root \in [Beacon -> Beacon \cup {None}]
    /\ children \in [Beacon -> SUBSET Beacon]
    /\ {exists, carried, discarded} \subseteq SUBSET Beacon /\ misled \in BOOLEAN

Nowhere == [n \in Beacon |-> None]
Init ==
    /\ parent = Nowhere /\ root = Nowhere
    /\ children = [n \in Beacon |-> {}]
    /\ exists = {} /\ carried = {} /\ discarded = {} /\ misled = FALSE

RootOf(p) == IF root[p] # None THEN root[p] ELSE p

\* walk(): up the parents; the set is all that a walk in a circle yields.
Walk(n) ==
    LET walk[i \in Nat] == IF i = 0 THEN {n}
                           ELSE walk[i - 1] \cup ({parent[m] : m \in walk[i - 1]} \ {None})
    IN  walk[Cardinality(Beacon)]
Below(n) == {m \in Beacon \ {n} : n \in Walk(m)}

MakeNode(n) ==
    /\ n \notin exists
    /\ exists' = exists \cup {n}
    /\ UNCHANGED <<links, carried, discarded, misled>>

New(p, n) ==
    /\ p \in exists /\ n \notin exists
    /\ exists' = exists \cup {n}
    /\ parent' = [parent EXCEPT ![n] = p] /\ root' = [root EXCEPT ![n] = RootOf(p)]
    /\ children' = [children EXCEPT ![p] = @ \cup {n}]
    /\ carried' = IF p \in carried THEN carried \cup {n} ELSE carried
    /\ UNCHANGED <<discarded, misled>>

\* The setters of root and parent raise ValueError for the node itself.  The
\* old parent keeps the child, and what is below keeps its root.
Reattach(n, p) ==
    /\ {n, p} \subseteq exists
    /\ RootOf(p) # n /\ p # n
    /\ root' = [root EXCEPT ![n] = RootOf(p)]
    /\ parent' = [parent EXCEPT ![n] = p]
    /\ children' = [children EXCEPT ![p] = @ \cup {n}]
    /\ carried' = (carried \ {n}) \cup Below(n) \cup (IF p \in carried THEN {n} ELSE {})
    /\ discarded' = discarded \ {n}
    /\ misled' = (misled \/ parent[n] # None \/ p \in carried)
    /\ UNCHANGED exists

\* Whatever parent is given, the node leaves its own.
Detach(n) ==
    /\ n \in exists
    /\ children' = IF parent[n] = None THEN children
                   ELSE [children EXCEPT ![parent[n]] = @ \ {n}]
    /\ parent' = [parent EXCEPT ![n] = None] /\ root' = [root EXCEPT ![n] = None]
    /\ carried' = (carried \ {n}) \cup (IF root[n] = None THEN {} ELSE Below(n))
    /\ discarded' = discarded \ {n}
    /\ UNCHANGED <<exists, misled>>

\* discard() of the parent: the child is not told.
Discard(p, n) ==
    /\ n \in children[p]
    /\ children' = [children EXCEPT ![p] = @ \ {n}]
    /\ discarded' = IF parent[n] = p THEN discarded \cup {n} ELSE discarded
    /\ UNCHANGED <<parent, root, exists, carried, misled>>

Next ==
    \/ \E n \in Beacon : MakeNode(n) \/ Detach(n)
    \/ \E n, p \in Beacon : New(p, n) \/ Reattach(n, p) \/ Discard(p, n)

Spec == Init /\ [][Next]_vars

-----------------------------------------------------------------------------
\* The test of reattach() against the root keeps walk() out of circles as long
\* as only nodes without a parent are attached, to nodes whose root is true.
WalkEnds == ~misled => \A n \in exists : parent[n] # None => n \notin Walk(parent[n])

\* A parent has its children in its list, and the root of a node is the end of
\* its walk unless an ancestor was moved since.
RootTrue ==
    \A n \in exists :
      /\ parent[n] # None /\ n \notin discarded => n \in children[parent[n]]
      /\ ~misled /\ n \notin carried =>
           parent[RootOf(n)] = None /\ RootOf(n) \in Walk(n)
TreeRight == WalkEnds /\ RootTrue
=============================================================================
