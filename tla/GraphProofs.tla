----------------------------- MODULE GraphProofs -----------------------------
(* Dependency graphs and asynchronous iteration: for any vertices, edges and *)
(* items; and the types of all parts.                                        *)
EXTENDS CollectionProofs

-----------------------------------------------------------------------------
(* Sums and reachability.                                                  *)

\* Numbers are added up over a finite set of vertices.
AddsUp(S, f) ==
    /\ S \in [SUBSET Vertex -> Nat] /\ S[{}] = 0
    /\ \A X \in SUBSET Vertex : \A x \in X : S[X] = f[x] + S[X \ {x}]
Total(f, X) == (CHOOSE S : AddsUp(S, f))[X]

LEMMA VerticesAre ==
    /\ IsFiniteSet(Vertex)
    /\ \A X \in SUBSET Vertex : IsFiniteSet(X) /\ Cardinality(X) \in Nat
    /\ \A X \in SUBSET Vertex : \A x \in X :
         X \ {x} \in SUBSET Vertex /\ Cardinality(X \ {x}) < Cardinality(X)
<1>1. IsFiniteSet(Vertex)
  BY DataConstants
<1>2. ASSUME NEW X \in SUBSET Vertex PROVE IsFiniteSet(X) /\ Cardinality(X) \in Nat
  BY <1>1, FS_Subset, FS_CardinalityType
<1>3. ASSUME NEW X \in SUBSET Vertex, NEW x \in X
      PROVE  X \ {x} \in SUBSET Vertex /\ Cardinality(X \ {x}) < Cardinality(X)
  <2>1. Cardinality(X \ {x}) = Cardinality(X) - 1
    BY <1>2, FS_RemoveElement
  <2>2. Cardinality(X) \in Nat
    BY <1>2
  <2> QED
    BY <2>1, <2>2
<1> QED
  BY <1>1, <1>2, <1>3

\* Induction over the sets of vertices.
LEMMA VertexInduction ==
    ASSUME NEW T,
           \A X \in SUBSET Vertex : (\A x \in X : X \ {x} \in T) => X \in T
    PROVE  \A X \in SUBSET Vertex : X \in T
<1> DEFINE S == SUBSET Vertex
           size == [X \in S |-> Cardinality(X)]
<1>1. size \in [S -> Nat]
  BY VerticesAre
<1>2. ASSUME NEW X \in S, \A r \in S : size[r] < size[X] => r \in T PROVE X \in T
  <2>1. ASSUME NEW x \in X PROVE X \ {x} \in T
    <3>1. X \ {x} \in S /\ Cardinality(X \ {x}) < Cardinality(X)
      BY VerticesAre
    <3>2. size[X \ {x}] = Cardinality(X \ {x}) /\ size[X] = Cardinality(X)
      BY <3>1
    <3> HIDE DEF size, S
    <3> QED
      BY <1>2, <3>1, <3>2
  <2> QED
    BY <2>1
<1> HIDE DEF size, S
<1>3. \A X \in S : X \in T
  BY <1>1, <1>2, MeasureInduction
<1> QED
  BY <1>3 DEF S

\* However the elements are chosen, the sum is the same.
LEMMA SumExists ==
    ASSUME NEW f \in [Vertex -> Nat]
    PROVE  \E S : AddsUp(S, f)
<1> DEFINE D == SUBSET Vertex
           Y == Nat
           pick == [X \in D |-> CHOOSE x \in X : TRUE]
           size == [X \in D |-> Cardinality(X)]
           base == {{}}
           first == [X \in D |-> 0]
           prev == [X \in D |-> IF X = {} THEN {} ELSE X \ {pick[X]}]
           step == [X \in D |-> [n \in Y |-> IF X = {} THEN n ELSE f[pick[X]] + n]]
<1>0. \A X \in D : X # {} => pick[X] \in X
  OBVIOUS
<1> HIDE DEF pick
<1>1. Shrinks(D, Y, size, base, first, prev, step)
  <2>1. size \in [D -> Nat] /\ first \in [D -> Y]
    BY VerticesAre
  <2>2. prev \in [D -> D]
    OBVIOUS
  <2>3. step \in [D -> [Y -> Y]]
    <3>1. ASSUME NEW X \in D, NEW n \in Y PROVE (IF X = {} THEN n ELSE f[pick[X]] + n) \in Y
      <4>1. CASE X = {}
        BY <4>1
      <4>2. CASE X # {}
        <5>1. f[pick[X]] \in Nat
          BY <1>0, <4>2
        <5> QED
          BY <4>2, <5>1
      <4> QED
        BY <4>1, <4>2
    <3> HIDE DEF D, Y
    <3> QED
      BY <3>1
  <2>4. ASSUME NEW X \in D, X \notin base PROVE size[prev[X]] < size[X]
    <3>1. pick[X] \in X /\ prev[X] = X \ {pick[X]}
      BY <1>0, <2>4
    <3>2. X \ {pick[X]} \in D /\ Cardinality(X \ {pick[X]}) < Cardinality(X)
      BY <3>1, VerticesAre
    <3>3. size[X \ {pick[X]}] = Cardinality(X \ {pick[X]}) /\ size[X] = Cardinality(X)
      BY <3>2
    <3> QED
      BY <3>1, <3>2, <3>3
  <2> HIDE DEF D, Y, size, base, first, prev, step
  <2> QED
    BY <2>1, <2>2, <2>3, <2>4 DEF Shrinks
<1>2. PICK S \in [D -> Y] : Follows(S, D, base, first, prev, step)
  <2> HIDE DEF D, Y, size, base, first, prev, step
  <2> QED
    BY <1>1, RecursiveFunction
<1>3. S[{}] = 0
  BY <1>2 DEF Follows
<1>4. ASSUME NEW X \in D, X # {} PROVE S[X] = f[pick[X]] + S[X \ {pick[X]}] /\ pick[X] \in X
  <2>1. S[X] = step[X][S[prev[X]]] /\ prev[X] = X \ {pick[X]}
    BY <1>2, <1>4 DEF Follows
  <2>2. S[X \ {pick[X]}] \in Y
    BY <1>0, <1>4
  <2> QED
    BY <1>0, <1>4, <2>1, <2>2
<1> DEFINE T == {X \in D : \A x \in X : S[X] = f[x] + S[X \ {x}]}
<1>5. ASSUME NEW X \in SUBSET Vertex, \A x \in X : X \ {x} \in T PROVE X \in T
  <2> SUFFICES ASSUME NEW x \in X PROVE S[X] = f[x] + S[X \ {x}]
    OBVIOUS
  <2> DEFINE c == pick[X]
             Z == (X \ {c}) \ {x}
  <2>1. c \in X /\ S[X] = f[c] + S[X \ {c}]
    BY <1>4
  <2> HIDE DEF c
  <2>2. CASE x # c
    <3>1. S[X \ {c}] = f[x] + S[Z]
      BY <1>5, <2>1, <2>2
    <3>2. S[X \ {x}] = f[c] + S[(X \ {x}) \ {c}]
      BY <1>5, <2>1, <2>2
    <3>3. (X \ {x}) \ {c} = Z /\ Z \in D
      OBVIOUS
    <3>4. S[Z] \in Nat /\ f[c] \in Nat /\ f[x] \in Nat
      BY <2>1, <3>3
    <3> HIDE DEF Z
    <3>5. S[X \ {x}] = f[c] + S[Z]
      BY <3>2, <3>3
    <3> QED
      BY <2>1, <3>1, <3>4, <3>5
  <2>3. CASE x = c
    BY <2>1, <2>3
  <2> QED
    BY <2>2, <2>3
<1>6. \A X \in SUBSET Vertex : X \in T
  <2> HIDE DEF T
  <2> QED
    BY <1>5, VertexInduction
<1>7. S \in [SUBSET Vertex -> Nat]
  OBVIOUS
<1> QED
  BY <1>3, <1>6, <1>7 DEF AddsUp

LEMMA TotalIs ==
    ASSUME NEW f \in [Vertex -> Nat]
    PROVE  /\ Total(f, {}) = 0
           /\ \A X \in SUBSET Vertex : Total(f, X) \in Nat
           /\ \A X \in SUBSET Vertex : \A x \in X : Total(f, X) = f[x] + Total(f, X \ {x})
<1> DEFINE S == CHOOSE S : AddsUp(S, f)
<1>1. AddsUp(S, f)
  BY SumExists
<1> HIDE DEF S
<1>2. \A X : Total(f, X) = S[X]
  BY DEF Total, S
<1> QED
  BY <1>1, <1>2 DEF AddsUp

LEMMA TotalSame ==
    ASSUME NEW f \in [Vertex -> Nat], NEW g \in [Vertex -> Nat], NEW X \in SUBSET Vertex,
           \A x \in X : f[x] = g[x]
    PROVE  Total(f, X) = Total(g, X)
<1> DEFINE T == {Z \in SUBSET Vertex : (\A x \in Z : f[x] = g[x]) => Total(f, Z) = Total(g, Z)}
<1>1. ASSUME NEW Z \in SUBSET Vertex, \A x \in Z : Z \ {x} \in T PROVE Z \in T
  <2> SUFFICES ASSUME \A x \in Z : f[x] = g[x] PROVE Total(f, Z) = Total(g, Z)
    OBVIOUS
  <2>1. CASE Z = {}
    BY <2>1, TotalIs
  <2>2. CASE Z # {}
    <3>1. PICK x \in Z : TRUE
      BY <2>2
    <3>2. Total(f, Z \ {x}) = Total(g, Z \ {x})
      BY <1>1
    <3>3. Total(f, Z) = f[x] + Total(f, Z \ {x}) /\ Total(g, Z) = g[x] + Total(g, Z \ {x})
      BY TotalIs
    <3> QED
      BY <3>2, <3>3
  <2> QED
    BY <2>1, <2>2
<1>2. \A Z \in SUBSET Vertex : Z \in T
  <2> HIDE DEF T
  <2> QED
    BY <1>1, VertexInduction
<1> QED
  BY <1>2

LEMMA TotalZero ==
    ASSUME NEW f \in [Vertex -> Nat], NEW X \in SUBSET Vertex
    PROVE  Total(f, X) = 0 <=> \A x \in X : f[x] = 0
<1> DEFINE zero == [v \in Vertex |-> 0]
           T == {Z \in SUBSET Vertex : Total(zero, Z) = 0}
<1>1. zero \in [Vertex -> Nat] /\ \A x \in Vertex : zero[x] = 0
  OBVIOUS
<1> HIDE DEF zero
<1>2. ASSUME NEW Z \in SUBSET Vertex, \A x \in Z : Z \ {x} \in T PROVE Z \in T
  <2>1. CASE Z = {}
    BY <1>1, <2>1, TotalIs
  <2>2. CASE Z # {}
    <3>1. PICK x \in Z : TRUE
      BY <2>2
    <3>2. Total(zero, Z \ {x}) = 0 /\ Total(zero, Z) = zero[x] + Total(zero, Z \ {x})
      BY <1>1, <1>2, TotalIs
    <3>3. zero[x] = 0
      BY <1>1
    <3> QED
      BY <3>2, <3>3
  <2> QED
    BY <2>1, <2>2
<1>3. Total(zero, X) = 0
  <2> HIDE DEF T
  <2>1. X \in T
    BY <1>2, VertexInduction
  <2> QED
    BY <2>1 DEF T
<1>4. ASSUME \A x \in X : f[x] = 0 PROVE Total(f, X) = 0
  <2>1. \A x \in X : f[x] = zero[x]
    BY <1>1, <1>4
  <2> QED
    BY <1>1, <1>3, <2>1, TotalSame
<1>5. ASSUME Total(f, X) = 0, NEW x \in X PROVE f[x] = 0
  <2>1. Total(f, X) = f[x] + Total(f, X \ {x}) /\ Total(f, X \ {x}) \in Nat /\ f[x] \in Nat
    BY TotalIs
  <2> QED
    BY <1>5, <2>1
<1> QED
  BY <1>4, <1>5

\* What adds nothing can be left out.
LEMMA TotalRest ==
    ASSUME NEW f \in [Vertex -> Nat], NEW X \in SUBSET Vertex, \A x \in Vertex \ X : f[x] = 0
    PROVE  Total(f, Vertex) = Total(f, X)
<1> DEFINE T == {Z \in SUBSET Vertex : X \subseteq Z => Total(f, Z) = Total(f, X)}
<1>1. ASSUME NEW Z \in SUBSET Vertex, \A x \in Z : Z \ {x} \in T PROVE Z \in T
  <2> SUFFICES ASSUME X \subseteq Z PROVE Total(f, Z) = Total(f, X)
    OBVIOUS
  <2>1. CASE Z = X
    BY <2>1
  <2>2. CASE Z # X
    <3>1. PICK x \in Z : x \notin X
      BY <2>2
    <3>2. Total(f, Z \ {x}) = Total(f, X)
      BY <1>1, <3>1
    <3>3. Total(f, Z) = f[x] + Total(f, Z \ {x}) /\ f[x] = 0 /\ Total(f, Z \ {x}) \in Nat
      BY <3>1, TotalIs
    <3> QED
      BY <3>2, <3>3
  <2> QED
    BY <2>1, <2>2
<1>2. \A Z \in SUBSET Vertex : Z \in T
  <2> HIDE DEF T
  <2> QED
    BY <1>1, VertexInduction
<1> QED
  BY <1>2

\* The numbers of edges to w.
Column(adj, w) == [v \in Vertex |-> IF adj[v] = None THEN 0 ELSE adj[v][w]]

LEMMA ColumnIs ==
    ASSUME NEW adj \in [Vertex -> {None} \cup Graphs!Adjacency], NEW w \in Vertex, MaxEdges \in Nat
    PROVE  /\ Column(adj, w) \in [Vertex -> Nat]
           /\ \A v \in Vertex : adj[v] # None => Column(adj, w)[v] = adj[v][w] /\ adj[v][w] \in Nat
           /\ \A v \in Vertex : adj[v] = None => Column(adj, w)[v] = 0
<1>1. \A v \in Vertex : adj[v] # None => adj[v] \in [Vertex -> 0..MaxEdges]
  BY DEF Graphs!Adjacency
<1>2. \A v \in Vertex : adj[v] # None => adj[v][w] \in Nat
  BY <1>1
<1> QED
  BY <1>2 DEF Column

LEMMA InDegreeIs ==
    ASSUME Graphs!TypeOK, NEW w \in Vertex, MaxEdges \in Nat
    PROVE  Graphs!InDegree(w) = Total(Column(adjacent, w), Vertex)
<1> DEFINE V == Graphs!Vertices
           W(it) == [s \in SUBSET V |->
                       IF s = {} THEN 0
                       ELSE adjacent[CHOOSE x \in s : TRUE][w] + it[s \ {CHOOSE x \in s : TRUE}]]
           iter == CHOOSE it : it = W(it)
           f == Column(adjacent, w)
<1>1. Graphs!InDegree(w) = iter[V]
  BY Zenon DEF Graphs!InDegree, Graphs!FoldSet, Graphs!MapThenFoldSet
<1>2. /\ f \in [Vertex -> Nat] /\ V \in SUBSET Vertex
      /\ \A v \in V : f[v] = adjacent[v][w]
      /\ \A v \in Vertex \ V : f[v] = 0
  BY ColumnIs DEF Graphs!Vertices, Graphs!TypeOK
<1> HIDE DEF V, f
<1>3. \E it : it = W(it)
  <2> DEFINE it == [s \in SUBSET V |-> Total(f, s)]
  <2>1. ASSUME NEW s \in SUBSET V
        PROVE  it[s] = IF s = {} THEN 0
                       ELSE adjacent[CHOOSE x \in s : TRUE][w] + it[s \ {CHOOSE x \in s : TRUE}]
    <3>1. CASE s = {}
      BY <1>2, <3>1, TotalIs
    <3>2. CASE s # {}
      <4> DEFINE x == CHOOSE x \in s : TRUE
      <4>1. x \in s
        BY <3>2
      <4> HIDE DEF x
      <4>2. x \in V /\ s \in SUBSET Vertex /\ s \ {x} \in SUBSET V
        BY <1>2, <4>1
      <4>3. Total(f, s) = f[x] + Total(f, s \ {x})
        BY <1>2, <4>1, <4>2, TotalIs
      <4>4. it[s] = adjacent[x][w] + it[s \ {x}]
        BY <1>2, <4>2, <4>3
      <4> HIDE DEF it
      <4> QED
        BY <3>2, <4>4 DEF x
    <3> QED
      BY <3>1, <3>2
  <2>2. it = [s \in SUBSET V |-> it[s]]
    OBVIOUS
  <2> HIDE DEF it
  <2>3. W(it) = [s \in SUBSET V |-> it[s]]
    BY <2>1
  <2>4. it = W(it)
    BY <2>2, <2>3, Zenon
  <2> QED
    BY <2>4
<1>4. iter = W(iter)
  <2> HIDE DEF W
  <2> QED
    BY <1>3
<1> HIDE DEF iter
<1> DEFINE T == {Z \in SUBSET Vertex : Z \subseteq V => iter[Z] = Total(f, Z)}
<1>5. ASSUME NEW Z \in SUBSET Vertex, \A x \in Z : Z \ {x} \in T PROVE Z \in T
  <2> SUFFICES ASSUME Z \subseteq V PROVE iter[Z] = Total(f, Z)
    OBVIOUS
  <2>1. CASE Z = {}
    BY <1>2, <1>4, <2>1, TotalIs
  <2>2. CASE Z # {}
    <3> DEFINE x == CHOOSE x \in Z : TRUE
    <3>1. x \in Z
      BY <2>2
    <3>2. iter[Z] = adjacent[x][w] + iter[Z \ {x}]
      BY <1>4, <2>2
    <3> HIDE DEF x
    <3>3. iter[Z \ {x}] = Total(f, Z \ {x})
      BY <1>5, <3>1
    <3>4. Total(f, Z) = f[x] + Total(f, Z \ {x}) /\ f[x] = adjacent[x][w]
      BY <1>2, <3>1, TotalIs
    <3> QED
      BY <3>2, <3>3, <3>4
  <2> QED
    BY <2>1, <2>2
<1>6. iter[V] = Total(f, V)
  <2> HIDE DEF T
  <2>1. V \in T
    BY <1>2, <1>5, VertexInduction
  <2> QED
    BY <2>1 DEF T
<1>7. Total(f, Vertex) = Total(f, V)
  BY <1>2, TotalRest
<1> QED
  BY <1>1, <1>6, <1>7 DEF f

-----------------------------------------------------------------------------
\* A set that only grows by what is in it stops growing within the size of a finite set.
Grows(B, up) ==
    /\ IsFiniteSet(B) /\ up \in [SUBSET B -> SUBSET B]
    /\ \A X \in SUBSET B : X \subseteq up[X]
Iterates(f, B, up) == f \in [Nat -> SUBSET B] /\ \A i \in Nat : f[i + 1] = up[f[i]]

LEMMA GrowthStops ==
    ASSUME NEW B, NEW up, Grows(B, up), NEW f, Iterates(f, B, up)
    PROVE  up[f[Cardinality(B)]] = f[Cardinality(B)]
<1> USE DEF Grows, Iterates
<1>1. Cardinality(B) \in Nat
  BY FS_CardinalityType
<1>2. \A X \in SUBSET B : IsFiniteSet(X) /\ Cardinality(X) \in Nat /\ Cardinality(X) <= Cardinality(B)
  BY <1>1, FS_Subset, FS_CardinalityType
<1>3. ASSUME NEW X \in SUBSET B, up[X] # X PROVE Cardinality(X) + 1 <= Cardinality(up[X])
  <2>1. up[X] \in SUBSET B /\ X \subseteq up[X] /\ IsFiniteSet(up[X])
    BY <1>2
  <2>2. Cardinality(X) <= Cardinality(up[X]) /\ Cardinality(X) # Cardinality(up[X])
    BY <1>3, <2>1, FS_Subset
  <2>3. Cardinality(X) \in Nat /\ Cardinality(up[X]) \in Nat
    BY <1>2, <2>1
  <2> QED
    BY <2>2, <2>3
<1> DEFINE T == {i \in Nat : up[f[i]] = f[i] \/ Cardinality(f[i]) >= i}
<1>4. 0 \in T
  <2>1. f[0] \in SUBSET B
    OBVIOUS
  <2>2. Cardinality(f[0]) \in Nat
    BY <1>2, <2>1
  <2> QED
    BY <2>2
<1>5. ASSUME NEW i \in Nat, i \in T PROVE i + 1 \in T
  <2>1. f[i] \in SUBSET B /\ f[i + 1] = up[f[i]] /\ i + 1 \in Nat /\ f[i + 1] \in SUBSET B
    OBVIOUS
  <2>2. CASE up[f[i]] = f[i]
    BY <2>1, <2>2
  <2>3. CASE up[f[i]] # f[i]
    <3>1. Cardinality(f[i]) + 1 <= Cardinality(f[i + 1]) /\ Cardinality(f[i]) >= i
      BY <1>3, <1>5, <2>1, <2>3
    <3>2. Cardinality(f[i]) \in Nat /\ Cardinality(f[i + 1]) \in Nat
      BY <1>2, <2>1
    <3>3. Cardinality(f[i + 1]) >= i + 1
      BY <3>1, <3>2
    <3> QED
      BY <2>1, <3>3
  <2> QED
    BY <2>2, <2>3
<1>6. \A i \in Nat : i \in T
  <2> HIDE DEF T
  <2> QED
    BY <1>4, <1>5, Induction
<1> DEFINE n == Cardinality(B)
<1>7. up[f[n]] = f[n] \/ Cardinality(f[n]) >= n
  BY <1>1, <1>6
<1>8. CASE up[f[n]] # f[n]
  <2>1. f[n] \in SUBSET B /\ up[f[n]] \in SUBSET B
    BY <1>1
  <2>2. Cardinality(f[n]) + 1 <= Cardinality(up[f[n]]) /\ Cardinality(up[f[n]]) <= n
    BY <1>2, <1>3, <1>8, <2>1
  <2>3. Cardinality(f[n]) \in Nat /\ Cardinality(up[f[n]]) \in Nat
    BY <1>2, <2>1
  <2> HIDE DEF n
  <2> QED
    BY <1>1, <1>7, <1>8, <2>2, <2>3 DEF n
<1> QED
  BY <1>8

\* What is reached in ever more steps along the edges E.
AreSteps(r, E, v) ==
    r = [n \in Nat |-> IF n = 0 THEN {w \in Vertex : <<v, w>> \in E}
                       ELSE r[n - 1] \cup {w \in Vertex : \E u \in r[n - 1] : <<u, w>> \in E}]
LEMMA StepsExist ==
    ASSUME NEW E, NEW v
    PROVE  \E r : AreSteps(r, E, v)
<1> DEFINE next == {w \in Vertex : <<v, w>> \in E}
           Y == SUBSET Vertex
           up == [X \in Y |-> X \cup {w \in Vertex : \E u \in X : <<u, w>> \in E}]
           W(r) == [n \in Nat |-> IF n = 0 THEN next
                                  ELSE r[n - 1] \cup {w \in Vertex : \E u \in r[n - 1] : <<u, w>> \in E}]
<1>0. /\ up \in [Y -> Y] /\ next \in Y
      /\ \A X \in Y : up[X] = X \cup {w \in Vertex : \E u \in X : <<u, w>> \in E}
  OBVIOUS
<1>1. PICK r \in [Nat -> Y] : r[0] = next /\ \A i \in Nat : r[i + 1] = up[r[i]]
  <2>1. up \in [Y -> Y] /\ next \in Y
    BY <1>0
  <2> HIDE DEF Y, up, next
  <2> QED
    BY <2>1, RecursionOnNat
<1>2. ASSUME NEW i \in Nat
      PROVE  r[i] = IF i = 0 THEN next
                    ELSE r[i - 1] \cup {w \in Vertex : \E u \in r[i - 1] : <<u, w>> \in E}
  <2>1. CASE i # 0
    <3>1. i - 1 \in Nat /\ (i - 1) + 1 = i
      BY <2>1
    <3>2. r[i] = up[r[i - 1]] /\ r[i - 1] \in Y
      BY <1>1, <3>1
    <3> QED
      BY <1>0, <2>1, <3>2
  <2> QED
    BY <1>1, <2>1
<1>3. r = [i \in Nat |-> r[i]]
  BY <1>1
<1> HIDE DEF next
<1>4. W(r) = [i \in Nat |-> r[i]]
  BY <1>2
<1>5. r = W(r)
  BY <1>3, <1>4, Zenon
<1> QED
  BY <1>5, Zenon DEF AreSteps, next

\* Edges lead from v into C, and not out of it.
LeadsInto(E, v, C) ==
    /\ \A w \in Vertex : <<v, w>> \in E => w \in C
    /\ \A u \in C, w \in Vertex : <<u, w>> \in E => w \in C

\* What can be reached is the least that edges lead into.
LEMMA ReachIs ==
    ASSUME NEW v \in Vertex
    PROVE  /\ Graphs!Reach(v) \subseteq Vertex
           /\ LeadsInto(Graphs!Edges, v, Graphs!Reach(v))
           /\ \A C : LeadsInto(Graphs!Edges, v, C) => Graphs!Reach(v) \subseteq C
<1> DEFINE E == Graphs!Edges
           next == {w \in Vertex : <<v, w>> \in E}
           Y == SUBSET Vertex
           up == [X \in Y |-> X \cup {w \in Vertex : \E u \in X : <<u, w>> \in E}]
           W(r) == [n \in Nat |-> IF n = 0 THEN next
                                  ELSE r[n - 1] \cup {w \in Vertex : \E u \in r[n - 1] : <<u, w>> \in E}]
           reach == CHOOSE r : r = W(r)
<1>1. Graphs!Reach(v) = reach[Cardinality(Vertex)]
  BY Zenon DEF Graphs!Reach, Graphs!Cardinality, Cardinality
<1> HIDE DEF E
<1>2. /\ up \in [Y -> Y] /\ next \in Y
      /\ \A X \in Y : up[X] = X \cup {w \in Vertex : \E u \in X : <<u, w>> \in E}
  OBVIOUS
<1>3. \E r : r = W(r)
  <2>1. PICK r : AreSteps(r, E, v)
    BY StepsExist
  <2> QED
    BY <2>1, Zenon DEF AreSteps
<1>4. reach = W(reach)
  <2> HIDE DEF W
  <2> QED
    BY <1>3
<1> HIDE DEF reach
<1>5. /\ reach[0] = next /\ DOMAIN reach = Nat
      /\ \A i \in Nat : reach[i + 1] = reach[i] \cup {w \in Vertex : \E u \in reach[i] : <<u, w>> \in E}
  <2> SUFFICES ASSUME NEW i \in Nat
               PROVE  /\ reach[0] = next /\ DOMAIN reach = Nat
                      /\ reach[i + 1] = reach[i] \cup {w \in Vertex : \E u \in reach[i] : <<u, w>> \in E}
    OBVIOUS
  <2>1. i + 1 \in Nat /\ i + 1 # 0 /\ (i + 1) - 1 = i
    OBVIOUS
  <2> HIDE DEF next
  <2> QED
    BY <1>4, <2>1
<1> HIDE DEF next, up
<1>6. \A i \in Nat : reach[i] \in Y
  <2> DEFINE T == {i \in Nat : reach[i] \in Y}
  <2>1. 0 \in T /\ \A i \in Nat : i \in T => i + 1 \in T
    BY <1>2, <1>5
  <2> HIDE DEF T
  <2>2. \A i \in Nat : i \in T
    BY <2>1, Induction
  <2> QED
    BY <2>2 DEF T
<1>7. Iterates(reach, Vertex, up)
  <2>1. reach = [i \in Nat |-> reach[i]]
    BY <1>4
  <2>2. reach \in [Nat -> SUBSET Vertex]
    BY <1>6, <2>1
  <2> QED
    BY <1>2, <1>5, <1>6, <2>2 DEF Iterates
<1>8. Grows(Vertex, up)
  BY <1>2, VerticesAre DEF Grows
<1> DEFINE size == Cardinality(Vertex)
<1>9. size \in Nat
  BY VerticesAre
<1>10. up[reach[size]] = reach[size]
  BY <1>7, <1>8, GrowthStops
<1> HIDE DEF size
<1>11. ASSUME NEW u \in reach[size], NEW w \in Vertex, <<u, w>> \in E PROVE w \in reach[size]
  BY <1>2, <1>6, <1>9, <1>10, <1>11
<1>12. next \subseteq reach[size]
  <2> DEFINE T == {i \in Nat : next \subseteq reach[i]}
  <2>1. 0 \in T /\ \A i \in Nat : i \in T => i + 1 \in T
    BY <1>5
  <2> HIDE DEF T
  <2>2. \A i \in Nat : i \in T
    BY <2>1, Induction
  <2> QED
    BY <1>9, <2>2 DEF T
<1>13. ASSUME NEW C, next \subseteq C, \A u \in C, w \in Vertex : <<u, w>> \in E => w \in C
       PROVE  reach[size] \subseteq C
  <2> DEFINE T == {i \in Nat : reach[i] \subseteq C}
  <2>1. 0 \in T
    BY <1>5, <1>13
  <2>2. ASSUME NEW i \in Nat, i \in T PROVE i + 1 \in T
    <3>1. reach[i] \subseteq C /\ i + 1 \in Nat
      BY <2>2
    <3>2. reach[i + 1] \subseteq C
      <4> SUFFICES ASSUME NEW w \in reach[i + 1] PROVE w \in C
        OBVIOUS
      <4>1. w \in reach[i] \/ (w \in Vertex /\ \E u \in reach[i] : <<u, w>> \in E)
        BY <1>5
      <4> QED
        BY <1>13, <3>1, <4>1
    <3> QED
      BY <3>1, <3>2
  <2> HIDE DEF T
  <2>3. \A i \in Nat : i \in T
    BY <2>1, <2>2, Induction
  <2> QED
    BY <1>9, <2>3 DEF T
<1>14. reach[size] = Graphs!Reach(v) /\ E = Graphs!Edges
  BY <1>1 DEF size, E
<1>15. /\ reach[size] \subseteq Vertex
       /\ \A w \in Vertex : <<v, w>> \in E <=> w \in next
  BY <1>6, <1>9 DEF next
<1> HIDE DEF Y
<1>16. ASSUME NEW C, LeadsInto(E, v, C) PROVE reach[size] \subseteq C
  <2>1. next \subseteq C
    BY <1>16 DEF next, LeadsInto
  <2> QED
    BY <1>13, <1>16, <2>1 DEF LeadsInto
<1>17. LeadsInto(E, v, reach[size])
  BY <1>11, <1>12, <1>15 DEF LeadsInto
<1> QED
  BY <1>14, <1>15, <1>16, <1>17

-----------------------------------------------------------------------------
(* Dependency graphs.                                                      *)

\* A vertex has not more edges to it than were added.
EdgesCounted ==
    /\ Graphs!TypeOK
    /\ \A w \in Vertex : Total(Column(adjacent, w), Vertex) <= edges

\* What _khan62 has popped; the count of a vertex is the edges from the others.
Popped == {result[i] : i \in 1..Len(result)}
KhanHolds ==
    /\ Popped \subseteq Graphs!Vertices
    /\ \A w \in Vertex : count[w] = Total(Column(adjacent, w), Vertex \ Popped)
    /\ \A v \in ready \cup Popped : count[v] = 0
    /\ ready \cap Popped = {}
    /\ \A v \in Graphs!Vertices : count[v] = 0 => v \in ready \cup Popped
    /\ Distinct(result)
    /\ \A i, j \in 1..Len(result) : adjacent[result[i]][result[j]] > 0 => i < j
    /\ \A w \in ready \ Graphs!Vertices : \E v \in Graphs!Vertices : adjacent[v][w] > 0
GraphInv == EdgesCounted /\ (sort = "khan" => KhanHolds) /\ Graphs!KhanRight

\* Whoever can be reached from what can be reached.
LEMMA ReachFurther ==
    ASSUME NEW v \in Vertex, NEW u \in Graphs!Reach(v)
    PROVE  Graphs!Reach(u) \subseteq Graphs!Reach(v)
<1>1. LeadsInto(Graphs!Edges, v, Graphs!Reach(v)) /\ u \in Vertex
  BY ReachIs
<1>2. LeadsInto(Graphs!Edges, u, Graphs!Reach(v))
  BY <1>1 DEF LeadsInto
<1> QED
  BY <1>1, <1>2, ReachIs

\* Where every vertex has a predecessor, all are behind a cycle.
LEMMA NoSourceNoOrder ==
    ASSUME NEW Q \in SUBSET Vertex, \A q \in Q : \E p \in Q : <<p, q>> \in Graphs!Edges
    PROVE  \A q \in Q : Graphs!BehindCycle(q)
<1> SUFFICES ASSUME NEW w \in Q PROVE Graphs!BehindCycle(w)
  OBVIOUS
<1>0. ASSUME NEW y \in Q PROVE /\ Graphs!Reach(y) \subseteq Vertex
                              /\ \A z \in Vertex : <<y, z>> \in Graphs!Edges => z \in Graphs!Reach(y)
                              /\ \A u \in Graphs!Reach(y), w2 \in Vertex :
                                   <<u, w2>> \in Graphs!Edges => w2 \in Graphs!Reach(y)
  BY ReachIs DEF LeadsInto
<1> DEFINE Before(x) == {y \in Q : x \in Graphs!Reach(y)}
           S == {x \in Q : x = w \/ w \in Graphs!Reach(x)}
           Sizes == {Cardinality(Before(x)) : x \in S}
<1>1. ASSUME NEW x \in Q PROVE IsFiniteSet(Before(x)) /\ Cardinality(Before(x)) \in Nat
  <2>1. Before(x) \in SUBSET Vertex
    OBVIOUS
  <2> HIDE DEF Before
  <2> QED
    BY <2>1, VerticesAre
<1>2. PICK n \in Sizes : \A m \in Sizes : n <= m
  <2>1. Sizes \subseteq Nat /\ Sizes # {}
    <3> HIDE DEF Before
    <3> QED
      BY <1>1
  <2> HIDE DEF Sizes
  <2> QED
    BY <2>1, LeastNumber
<1>3. PICK x \in S : Cardinality(Before(x)) = n
  <2> HIDE DEF Before, S
  <2> QED
    BY <1>2
<1>4. PICK p \in Q : <<p, x>> \in Graphs!Edges
  OBVIOUS
<1>5. x \in Graphs!Reach(p)
  BY <1>0, <1>4
<1>6. w \in Graphs!Reach(p) /\ p \in S
  <2>1. Graphs!Reach(x) \subseteq Graphs!Reach(p)
    BY <1>5, ReachFurther
  <2> QED
    BY <1>5, <2>1
<1>7. Before(p) \subseteq Before(x)
  <2> SUFFICES ASSUME NEW y \in Q, p \in Graphs!Reach(y) PROVE x \in Graphs!Reach(y)
    OBVIOUS
  <2>1. x \in Vertex
    OBVIOUS
  <2>2. \A u \in Graphs!Reach(y), z \in Vertex : <<u, z>> \in Graphs!Edges => z \in Graphs!Reach(y)
    <3>1. y \in Vertex
      OBVIOUS
    <3>2. LeadsInto(Graphs!Edges, y, Graphs!Reach(y))
      BY <3>1, ReachIs
    <3> QED
      BY <3>2, Zenon DEF LeadsInto
  <2> QED
    BY <1>4, <2>1, <2>2
<1>8. Cardinality(Before(x)) <= Cardinality(Before(p))
  <2>1. Cardinality(Before(p)) \in Sizes
    <3> HIDE DEF Before, S
    <3> QED
      BY <1>6
  <2> HIDE DEF Before, Sizes
  <2> QED
    BY <1>2, <1>3, <2>1
<1>9. Before(p) = Before(x)
  <2> HIDE DEF Before
  <2>1. IsFiniteSet(Before(x)) /\ Cardinality(Before(x)) \in Nat /\ Cardinality(Before(p)) \in Nat
    BY <1>1
  <2>2. Cardinality(Before(p)) <= Cardinality(Before(x)) /\
        (Cardinality(Before(p)) = Cardinality(Before(x)) => Before(p) = Before(x))
    BY <1>7, <2>1, FS_Subset
  <2> QED
    BY <1>8, <2>1, <2>2
<1>10. p \in Before(p)
  BY <1>5, <1>9
<1> QED
  BY <1>6, <1>10 DEF Graphs!BehindCycle

\* Behind what comes in order there is no cycle.
LEMMA OrderNoCycle ==
    ASSUME NEW r \in Seq(Vertex), Distinct(r), NEW k \in 1..Len(r),
           \A u, w \in Vertex : <<u, w>> \in Graphs!Edges =>
               \A j \in 1..Len(r) : r[j] = w => \E i \in 1..Len(r) : r[i] = u /\ i < j
    PROVE  ~Graphs!BehindCycle(r[k])
<1> SUFFICES ASSUME NEW x \in Vertex, x \in Graphs!Reach(x), r[k] \in Graphs!Reach(x) PROVE FALSE
  BY DEF Graphs!BehindCycle
<1> DEFINE C == {y \in Vertex : \A j \in 1..Len(r) : r[j] = y => \E i \in 1..Len(r) : r[i] = x /\ i < j}
<1>0. Len(r) \in Nat
  BY LenProperties
<1>1. ASSUME NEW w \in Vertex, <<x, w>> \in Graphs!Edges PROVE w \in C
  BY <1>1
<1>2. ASSUME NEW u \in C, NEW w \in Vertex, <<u, w>> \in Graphs!Edges PROVE w \in C
  <2> SUFFICES ASSUME NEW j \in 1..Len(r), r[j] = w PROVE \E i \in 1..Len(r) : r[i] = x /\ i < j
    OBVIOUS
  <2>1. PICK m \in 1..Len(r) : r[m] = u /\ m < j
    BY <1>2
  <2>2. PICK i \in 1..Len(r) : r[i] = x /\ i < m
    BY <2>1
  <2> QED
    BY <1>0, <2>1, <2>2
<1>3. LeadsInto(Graphs!Edges, x, C)
  <2> HIDE DEF C
  <2> QED
    BY <1>1, <1>2 DEF LeadsInto
<1>4. Graphs!Reach(x) \subseteq C
  <2> HIDE DEF C
  <2> QED
    BY <1>3, ReachIs
<1>5. PICK i \in 1..Len(r) : r[i] = x
  BY <1>4
<1>6. PICK m \in 1..Len(r) : r[m] = x /\ m < i
  BY <1>4, <1>5
<1> QED
  BY <1>0, <1>5, <1>6 DEF Distinct

-----------------------------------------------------------------------------
\* One entry of a column is changed.
LEMMA TotalOther ==
    ASSUME NEW f \in [Vertex -> Nat], NEW g \in [Vertex -> Nat], NEW v \in Vertex,
           \A x \in Vertex \ {v} : f[x] = g[x]
    PROVE  /\ \E n \in Nat : Total(f, Vertex) = f[v] + n /\ Total(g, Vertex) = g[v] + n
           /\ \A n \in Nat : Total(f, Vertex) <= n /\ g[v] <= f[v] => Total(g, Vertex) <= n
           /\ \A n \in Nat : Total(f, Vertex) <= n /\ g[v] <= f[v] + 1 => Total(g, Vertex) <= n + 1
<1>1. Total(f, Vertex \ {v}) = Total(g, Vertex \ {v})
  BY TotalSame
<1>2. Total(f, Vertex) = f[v] + Total(f, Vertex \ {v}) /\ Total(f, Vertex \ {v}) \in Nat
  BY TotalIs
<1>3. Total(g, Vertex) = g[v] + Total(g, Vertex \ {v})
  BY TotalIs
<1>4. f[v] \in Nat /\ g[v] \in Nat
  OBVIOUS
<1> DEFINE rest == Total(f, Vertex \ {v})
<1>5. rest \in Nat /\ Total(f, Vertex) = f[v] + rest /\ Total(g, Vertex) = g[v] + rest
  BY <1>1, <1>2, <1>3
<1> HIDE DEF rest
<1>6. ASSUME NEW n \in Nat, Total(f, Vertex) <= n, g[v] <= f[v] PROVE Total(g, Vertex) <= n
  BY <1>4, <1>5, <1>6
<1>7. ASSUME NEW n \in Nat, Total(f, Vertex) <= n, g[v] <= f[v] + 1
      PROVE  Total(g, Vertex) <= n + 1
  BY <1>4, <1>5, <1>7
<1> QED
  BY <1>5, <1>6, <1>7

LEMMA EntryBound ==
    ASSUME EdgesCounted, MaxEdges \in Nat, NEW v \in Graphs!Vertices, NEW w \in Vertex
    PROVE  adjacent[v][w] \in Nat /\ adjacent[v][w] <= edges
<1>1. v \in Vertex /\ adjacent[v] # None
  BY DEF Graphs!Vertices
<1>2. Column(adjacent, w) \in [Vertex -> Nat] /\ Column(adjacent, w)[v] = adjacent[v][w]
      /\ adjacent[v][w] \in Nat
  BY <1>1, ColumnIs DEF EdgesCounted, Graphs!TypeOK
<1>3. Total(Column(adjacent, w), Vertex) = Column(adjacent, w)[v] + Total(Column(adjacent, w), Vertex \ {v})
      /\ Total(Column(adjacent, w), Vertex \ {v}) \in Nat
  BY <1>1, <1>2, TotalIs
<1>4. Total(Column(adjacent, w), Vertex) <= edges /\ edges \in Nat
  BY DEF EdgesCounted, Graphs!TypeOK
<1> QED
  BY <1>2, <1>3, <1>4

\* What is added is counted.
LEMMA BuildCounts ==
    ASSUME EdgesCounted, Graphs!Build, MaxEdges \in Nat
    PROVE  EdgesCounted'
<1> USE DEF EdgesCounted
<1>0. edges \in 0..MaxEdges /\ adjacent \in [Vertex -> {None} \cup Graphs!Adjacency]
  BY DEF Graphs!TypeOK
<1>z. Graphs!NoEdges \in Graphs!Adjacency /\ \A x \in Vertex : Graphs!NoEdges[x] = 0
  BY DEF Graphs!NoEdges, Graphs!Adjacency
<1>s. ASSUME NEW adj \in [Vertex -> {None} \cup Graphs!Adjacency], NEW v \in Vertex, NEW w \in Vertex,
             NEW n \in Nat, Total(Column(adj, w), Vertex) <= n,
             NEW row \in Graphs!Adjacency, NEW d \in {0, 1},
             row[w] <= Column(adj, w)[v] + d
      PROVE  Total(Column([adj EXCEPT ![v] = row], w), Vertex) <= n + d
  <2> DEFINE new == [adj EXCEPT ![v] = row]
             f == Column(adj, w)
             g == Column(new, w)
  <2>1. new \in [Vertex -> {None} \cup Graphs!Adjacency]
    OBVIOUS
  <2>2. f \in [Vertex -> Nat] /\ g \in [Vertex -> Nat]
    BY <2>1, ColumnIs
  <2>3. \A x \in Vertex \ {v} : f[x] = g[x]
    BY DEF Column
  <2>4. g[v] = 0 \/ g[v] = row[w]
    BY DEF Column
  <2>5. f[v] \in Nat /\ g[v] <= f[v] + d
    <3>1. f[v] \in Nat
      BY <2>2
    <3> HIDE DEF f, g
    <3>2. row[w] <= f[v] + d
      BY <1>s DEF f
    <3> QED
      BY <2>4, <3>1, <3>2
  <2> HIDE DEF f, g, new
  <2>6. Total(f, Vertex) <= n
    BY <1>s DEF f
  <2>7. Total(g, Vertex) <= n + d
    <3>1. CASE d = 0
      <4>1. g[v] <= f[v] /\ g[v] \in Nat
        BY <2>2, <2>5, <3>1
      <4>2. Total(g, Vertex) <= n
        BY <2>2, <2>3, <2>6, <4>1, TotalOther
      <4> QED
        BY <3>1, <4>2
    <3>2. CASE d = 1
      BY <2>2, <2>3, <2>5, <2>6, <3>2, TotalOther
    <3> QED
      BY <3>1, <3>2
  <2> QED
    BY <2>7 DEF g, new
<1>1. ASSUME NEW v \in Vertex, Graphs!AddArc(v) PROVE EdgesCounted'
  <2>1. adjacent' = [adjacent EXCEPT ![v] = Graphs!NoEdges] /\ edges' = edges
        /\ UNCHANGED <<sort, count, ready, result>>
    BY <1>1 DEF Graphs!AddArc
  <2>2. adjacent' \in [Vertex -> {None} \cup Graphs!Adjacency]
    BY <1>0, <1>z, <2>1
  <2>3. ASSUME NEW w \in Vertex PROVE Total(Column(adjacent', w), Vertex) <= edges'
    <3>1. Graphs!NoEdges[w] <= Column(adjacent, w)[v] + 0
      <4>1. Column(adjacent, w)[v] \in Nat
        BY <1>0, ColumnIs
      <4> QED
        BY <1>z, <4>1
    <3>2. edges \in Nat /\ Total(Column(adjacent, w), Vertex) <= edges
      BY <1>0
    <3>3. Total(Column([adjacent EXCEPT ![v] = Graphs!NoEdges], w), Vertex) <= edges + 0
      BY <1>0, <1>z, <1>s, <3>1, <3>2
    <3> QED
      BY <2>1, <3>2, <3>3
  <2> QED
    BY <2>1, <2>2, <2>3 DEF Graphs!TypeOK
<1>2. ASSUME NEW v \in Vertex, NEW w \in Vertex, NEW row \in Graphs!Adjacency,
             \A x \in Vertex : row[x] <= Column(adjacent, x)[v] + (IF x = w THEN 1 ELSE 0),
             adjacent' = [adjacent EXCEPT ![v] = row], edges < MaxEdges, edges' = edges + 1,
             UNCHANGED <<sort, count, ready, result>>
      PROVE  EdgesCounted'
  <2>2. adjacent' \in [Vertex -> {None} \cup Graphs!Adjacency]
    BY <1>0, <1>2
  <2>3. ASSUME NEW x \in Vertex PROVE Total(Column(adjacent', x), Vertex) <= edges'
    <3>1. row[x] <= Column(adjacent, x)[v] + 1
      <4>1. Column(adjacent, x)[v] \in Nat /\ row[x] \in Nat
        BY <1>0, ColumnIs DEF Graphs!Adjacency
      <4>2. row[x] <= Column(adjacent, x)[v] + (IF x = w THEN 1 ELSE 0)
        BY <1>2
      <4> QED
        BY <4>1, <4>2
    <3>2. edges \in Nat /\ Total(Column(adjacent, x), Vertex) <= edges
      BY <1>0
    <3>3. Total(Column([adjacent EXCEPT ![v] = row], x), Vertex) <= edges + 1
      BY <1>0, <1>s, <3>1, <3>2
    <3> QED
      BY <1>2, <3>2, <3>3
  <2>4. edges' \in 0..MaxEdges
    BY <1>0, <1>2
  <2>5. Graphs!TypeOK'
    BY <1>2, <2>2, <2>4 DEF Graphs!TypeOK
  <2> QED
    BY <2>3, <2>5
<1>3. ASSUME NEW v \in Vertex, NEW w \in Vertex, Graphs!AddEdge(v, w) PROVE EdgesCounted'
  <2> DEFINE row == [adjacent[v] EXCEPT ![w] = @ + 1]
  <2>1. v \in Graphs!Vertices /\ edges < MaxEdges /\ edges' = edges + 1
        /\ adjacent' = [adjacent EXCEPT ![v] = row] /\ UNCHANGED <<sort, count, ready, result>>
    BY <1>3 DEF Graphs!AddEdge
  <2>2. adjacent[v] # None /\ adjacent[v] \in [Vertex -> 0..MaxEdges]
    BY <1>0, <2>1 DEF Graphs!Vertices, Graphs!Adjacency
  <2>3. adjacent[v][w] \in Nat /\ adjacent[v][w] <= edges
    BY <2>1, EntryBound
  <2>4. row \in Graphs!Adjacency
    BY <1>0, <2>1, <2>2, <2>3 DEF Graphs!Adjacency
  <2>5. ASSUME NEW x \in Vertex
        PROVE  row[x] <= Column(adjacent, x)[v] + (IF x = w THEN 1 ELSE 0)
    <3>1. Column(adjacent, x)[v] = adjacent[v][x] /\ adjacent[v][x] \in Nat
      BY <1>0, <2>2, ColumnIs
    <3>2. row[x] = IF x = w THEN adjacent[v][x] + 1 ELSE adjacent[v][x]
      BY <2>2
    <3> HIDE DEF row
    <3> QED
      BY <3>1, <3>2
  <2> HIDE DEF row
  <2> QED
    BY <1>2, <2>1, <2>4, <2>5
<1>4. ASSUME NEW v \in Vertex, NEW w \in Vertex, Graphs!Connect(v, w) PROVE EdgesCounted'
  <2> DEFINE row == [Graphs!NoEdges EXCEPT ![w] = 1]
  <2>1. edges < MaxEdges /\ edges' = edges + 1
        /\ adjacent' = [adjacent EXCEPT ![v] = row] /\ UNCHANGED <<sort, count, ready, result>>
    BY <1>4 DEF Graphs!Connect
  <2>4. row \in Graphs!Adjacency
    BY <1>0, <1>z, <2>1 DEF Graphs!Adjacency
  <2>5. ASSUME NEW x \in Vertex
        PROVE  row[x] <= Column(adjacent, x)[v] + (IF x = w THEN 1 ELSE 0)
    <3>1. Column(adjacent, x)[v] \in Nat
      BY <1>0, ColumnIs
    <3>2. row[x] = IF x = w THEN 1 ELSE 0
      BY <1>z DEF Graphs!Adjacency
    <3> HIDE DEF row
    <3> QED
      BY <3>1, <3>2
  <2> HIDE DEF row
  <2> QED
    BY <1>2, <2>1, <2>4, <2>5
<1> QED
  BY <1>1, <1>3, <1>4 DEF Graphs!Build

-----------------------------------------------------------------------------
LEMMA PoppedIs ==
    ASSUME result \in Seq(Vertex), NEW v
    PROVE  /\ Popped \subseteq Vertex /\ Graphs!ToSet(result) = Popped
           /\ {Append(result, v)[i] : i \in 1..Len(Append(result, v))} = Popped \cup {v}
           /\ Len(Append(result, v)) = Len(result) + 1 /\ Len(result) \in Nat
           /\ \A i \in 1..Len(result) : Append(result, v)[i] = result[i]
           /\ Append(result, v)[Len(result) + 1] = v
<1>1. Len(result) \in Nat /\ DOMAIN result = 1..Len(result) /\ \A i \in 1..Len(result) : result[i] \in Vertex
  BY LenProperties, ElementOfSeq
<1> DEFINE r == Append(result, v)
<1>2. Len(r) = Len(result) + 1 /\ (\A i \in 1..Len(result) : r[i] = result[i]) /\ r[Len(result) + 1] = v
  OBVIOUS
<1> HIDE DEF r
<1>3. {r[i] : i \in 1..Len(r)} = Popped \cup {v}
  <2>1. ASSUME NEW i \in 1..Len(r) PROVE r[i] \in Popped \cup {v}
    <3>1. i \in 1..Len(result) \/ i = Len(result) + 1
      BY <1>1, <1>2
    <3> QED
      BY <1>2, <3>1 DEF Popped
  <2>2. ASSUME NEW x \in Popped \cup {v} PROVE \E i \in 1..Len(r) : r[i] = x
    <3>1. CASE x = v
      <4>1. Len(result) + 1 \in 1..Len(r)
        BY <1>1, <1>2
      <4> QED
        BY <1>2, <3>1, <4>1
    <3>2. CASE x \in Popped
      <4>1. PICK i \in 1..Len(result) : result[i] = x
        BY <3>2 DEF Popped
      <4>2. i \in 1..Len(r)
        BY <1>1, <1>2
      <4> QED
        BY <1>2, <4>1, <4>2
    <3> QED
      BY <3>1, <3>2
  <2> QED
    BY <2>1, <2>2
<1>4. Graphs!ToSet(result) = Popped
  BY <1>1 DEF Graphs!ToSet, Popped
<1> QED
  BY <1>1, <1>2, <1>3, <1>4 DEF r, Popped

LEMMA GraphInit == Init => GraphInv
<1> SUFFICES ASSUME Graphs!Init PROVE GraphInv
  BY DEF Init
<1> USE DEF Graphs!Init
<1>1. Graphs!TypeOK
  BY DataConstants DEF Graphs!TypeOK, Graphs!NoEdges, Graphs!Adjacency
<1>2. ASSUME NEW w \in Vertex PROVE Total(Column(adjacent, w), Vertex) <= edges
  <2>1. Column(adjacent, w) \in [Vertex -> Nat] /\ \A v \in Vertex : Column(adjacent, w)[v] = 0
    BY DEF Column
  <2>2. Total(Column(adjacent, w), Vertex) = 0
    BY <2>1, TotalZero
  <2> QED
    BY <2>2
<1> QED
  BY <1>1, <1>2 DEF GraphInv, EdgesCounted, Graphs!KhanRight

LEMMA TotalTake ==
    ASSUME NEW f \in [Vertex -> Nat], NEW X \in SUBSET Vertex, NEW x \in X
    PROVE  Total(f, X) = f[x] + Total(f, X \ {x}) /\ Total(f, X \ {x}) \in Nat
  BY TotalIs

LEMMA KhanBeginsHolds ==
    ASSUME EdgesCounted, Graphs!KhanBegins
    PROVE  Graphs!TypeOK' /\ KhanHolds'
<1> USE DEF EdgesCounted
<1>0. MaxEdges \in Nat /\ edges \in 0..MaxEdges
  BY DataConstants DEF Graphs!TypeOK
<1>1. /\ sort' = "khan" /\ result' = <<>> /\ UNCHANGED <<adjacent, edges>>
      /\ count' = [w \in Vertex |-> Graphs!InDegree(w)]
      /\ ready' = {v \in Graphs!Vertices : count'[v] = 0}
  BY DEF Graphs!KhanBegins
<1>2. ASSUME NEW w \in Vertex
      PROVE  count'[w] = Total(Column(adjacent, w), Vertex) /\ count'[w] \in 0..MaxEdges
  <2>1. count'[w] = Total(Column(adjacent, w), Vertex)
    BY <1>0, <1>1, InDegreeIs
  <2>2. Total(Column(adjacent, w), Vertex) \in Nat
    <3>1. Column(adjacent, w) \in [Vertex -> Nat]
      BY <1>0, ColumnIs DEF Graphs!TypeOK
    <3> QED
      BY <3>1, TotalIs
  <2> QED
    BY <1>0, <2>1, <2>2
<1>3. Graphs!Vertices \subseteq Vertex /\ Graphs!Vertices' = Graphs!Vertices
  BY <1>1 DEF Graphs!Vertices
<1>4. Graphs!TypeOK'
  <2>1. count' \in Graphs!Adjacency
    BY <1>1, <1>2 DEF Graphs!Adjacency
  <2>2. ready' \subseteq Vertex /\ result' \in Seq(Vertex)
    BY <1>1, <1>3
  <2> QED
    BY <1>1, <2>1, <2>2 DEF Graphs!TypeOK
<1>5. Popped' = {} /\ Len(result') = 0
  BY <1>1 DEF Popped
<1>6. ASSUME NEW w \in Vertex PROVE count'[w] = Total(Column(adjacent', w), Vertex \ Popped')
  BY <1>1, <1>2, <1>5
<1> QED
  BY <1>1, <1>3, <1>4, <1>5, <1>6 DEF KhanHolds, Distinct

\* A vertex is popped: what it has edges to is counted down.
LEMMA KhanStepHolds ==
    ASSUME EdgesCounted, sort = "khan", KhanHolds, NEW v \in ready, v \in Graphs!Vertices,
           result' = Append(result, v),
           count' = [w \in Vertex |-> count[w] - adjacent[v][w]],
           ready' = (ready \ {v}) \cup {w \in Vertex : count[w] > 0 /\ count'[w] = 0},
           UNCHANGED <<sort, adjacent, edges>>
    PROVE  Graphs!TypeOK' /\ KhanHolds'
<1> USE DEF EdgesCounted, KhanHolds
<1>0. MaxEdges \in Nat /\ edges \in 0..MaxEdges /\ result \in Seq(Vertex) /\ ready \subseteq Vertex
      /\ count \in [Vertex -> 0..MaxEdges]
  BY DataConstants DEF Graphs!TypeOK, Graphs!Adjacency
<1>1. /\ v \in Vertex /\ adjacent[v] # None /\ v \notin Popped /\ count[v] = 0
      /\ Graphs!Vertices \subseteq Vertex /\ Graphs!Vertices' = Graphs!Vertices
  BY DEF Graphs!Vertices
<1>2. ASSUME NEW w \in Vertex
      PROVE  /\ count'[w] = count[w] - adjacent[v][w] /\ adjacent[v][w] \in Nat /\ count[w] \in Nat
             /\ count'[w] \in 0..MaxEdges /\ count'[w] <= count[w]
             /\ count'[w] = Total(Column(adjacent, w), Vertex \ (Popped \cup {v}))
  <2> DEFINE f == Column(adjacent, w)
             X == Vertex \ Popped
  <2>1. f \in [Vertex -> Nat] /\ f[v] = adjacent[v][w] /\ adjacent[v][w] \in Nat
    BY <1>0, <1>1, ColumnIs DEF Graphs!TypeOK
  <2>2. v \in X /\ X \in SUBSET Vertex /\ X \ {v} = Vertex \ (Popped \cup {v})
    BY <1>1
  <2>3. count[w] = Total(f, X) /\ count[w] \in 0..MaxEdges
    BY <1>0
  <2>4. count'[w] = count[w] - adjacent[v][w]
    OBVIOUS
  <2> HIDE DEF f, X
  <2>5. Total(f, X) = f[v] + Total(f, X \ {v}) /\ Total(f, X \ {v}) \in Nat
    <3>1. f \in [Vertex -> Nat] /\ v \in X /\ X \in SUBSET Vertex
      BY <2>1, <2>2
    <3> QED
      BY <3>1, TotalTake, Zenon
  <2>6. count'[w] = Total(f, X \ {v})
    <3> DEFINE t == Total(f, X \ {v})
    <3>1. count[w] = adjacent[v][w] + t /\ t \in Nat
      BY <2>1, <2>3, <2>5, Zenon
    <3> HIDE DEF t
    <3>2. count'[w] = t
      BY <2>1, <2>4, <3>1
    <3> QED
      BY <3>2 DEF t
  <2>7. count'[w] \in 0..MaxEdges /\ count'[w] <= count[w] /\ count[w] \in Nat
    BY <1>0, <2>1, <2>3, <2>4, <2>5, <2>6
  <2>8. count'[w] = Total(f, Vertex \ (Popped \cup {v}))
    BY <2>2, <2>6
  <2> QED
    BY <2>1, <2>4, <2>7, <2>8 DEF f
<1>3. Popped' = Popped \cup {v} /\ Len(result') = Len(result) + 1 /\ Len(result) \in Nat
      /\ (\A i \in 1..Len(result) : result'[i] = result[i]) /\ result'[Len(result) + 1] = v
  BY <1>0, PoppedIs DEF Popped
<1>4. Graphs!TypeOK'
  <2>1. count' \in [Vertex -> 0..MaxEdges]
    BY <1>2
  <2>2. ready' \subseteq Vertex /\ result' \in Seq(Vertex)
    BY <1>0
  <2> QED
    BY <2>1, <2>2 DEF Graphs!TypeOK, Graphs!Adjacency
<1>5. Popped' \subseteq Graphs!Vertices'
  BY <1>1, <1>3
<1>6. ASSUME NEW w \in Vertex PROVE count'[w] = Total(Column(adjacent', w), Vertex \ Popped')
  BY <1>2, <1>3
<1>7. ASSUME NEW w \in ready' \cup Popped' PROVE count'[w] = 0
  <2>1. CASE w \in ready \cup Popped
    <3>1. w \in Vertex /\ count[w] = 0
      BY <1>0, <1>1, <2>1
    <3> QED
      BY <1>2, <3>1
  <2>2. CASE w \notin ready \cup Popped
    BY <1>3, <1>7, <2>2
  <2> QED
    BY <2>1, <2>2
<1>8. ready' \cap Popped' = {}
  <2> SUFFICES ASSUME NEW w \in ready', w \in Popped' PROVE FALSE
    OBVIOUS
  <2>1. count[w] = 0
    BY <1>1, <1>3
  <2> QED
    BY <1>3, <2>1
<1>9. ASSUME NEW w \in Graphs!Vertices', count'[w] = 0 PROVE w \in ready' \cup Popped'
  <2>1. w \in Vertex /\ w \in Graphs!Vertices
    BY <1>1
  <2>2. CASE count[w] = 0
    BY <1>3, <2>1, <2>2
  <2>3. CASE count[w] # 0
    <3>1. count[w] > 0
      BY <1>2, <2>1, <2>3
    <3> QED
      BY <1>9, <2>1, <3>1
  <2> QED
    BY <2>2, <2>3
<1>10. ASSUME NEW i \in 1..Len(result'), NEW j \in 1..Len(result')
       PROVE  /\ result'[i] = result'[j] => i = j
              /\ adjacent'[result'[i]][result'[j]] > 0 => i < j
  <2> DEFINE n == Len(result)
  <2>1. n \in Nat /\ (i \in 1..n \/ i = n + 1) /\ (j \in 1..n \/ j = n + 1)
    BY <1>3
  <2>2. CASE i \in 1..n /\ j \in 1..n
    <3>1. result'[i] = result[i] /\ result'[j] = result[j]
      BY <1>3, <2>2
    <3> QED
      BY <2>2, <3>1 DEF Distinct
  <2>3. CASE i \in 1..n /\ j = n + 1
    <3>1. result'[i] = result[i] /\ result[i] \in Popped /\ result'[j] = v
      BY <1>3, <2>3 DEF Popped
    <3>2. i < j
      BY <2>1, <2>3
    <3> QED
      BY <1>1, <3>1, <3>2
  <2>4. CASE i = n + 1
    <3>1. result'[i] = v
      BY <1>3, <2>4
    <3>2. result'[j] \in Popped \cup {v}
      BY <1>3, <2>1 DEF Popped
    <3>3. result'[j] \in Vertex /\ count[result'[j]] = 0
      BY <1>1, <3>2
    <3>4. adjacent[v][result'[j]] = 0
      BY <1>2, <3>3
    <3>5. ASSUME result'[i] = result'[j] PROVE i = j
      <4>1. CASE j \in 1..n
        BY <1>1, <1>3, <3>1, <3>5, <4>1 DEF Popped
      <4> QED
        BY <2>1, <2>4, <4>1
    <3> QED
      BY <3>1, <3>4, <3>5
  <2> QED
    BY <2>1, <2>2, <2>3, <2>4
<1>11. ASSUME NEW w \in ready' \ Graphs!Vertices' PROVE \E u \in Graphs!Vertices' : adjacent'[u][w] > 0
  <2>1. CASE w \in ready
    BY <1>1, <2>1
  <2>2. CASE w \notin ready
    <3>1. w \in Vertex /\ count[w] > 0 /\ count'[w] = 0
      BY <2>2
    <3>2. adjacent[v][w] > 0
      BY <1>2, <3>1
    <3> QED
      BY <1>1, <3>2
  <2> QED
    BY <2>1, <2>2
<1>12. KhanHolds'
  BY <1>5, <1>6, <1>7, <1>8, <1>9, <1>10, <1>11 DEF Distinct
<1> QED
  BY <1>4, <1>12

\* Whatever was not popped has an edge from what was not either; what was, has
\* edges only from what was popped before.
LEMMA KhanEdges ==
    ASSUME EdgesCounted, KhanHolds
    PROVE  /\ \A w \in Graphs!Vertices \ Popped : count[w] # 0 =>
                \E u \in Graphs!Vertices \ Popped : <<u, w>> \in Graphs!Edges
           /\ \A u, w \in Vertex : <<u, w>> \in Graphs!Edges =>
                \A j \in 1..Len(result) : result[j] = w =>
                    \E i \in 1..Len(result) : result[i] = u /\ i < j
<1> USE DEF EdgesCounted, KhanHolds
<1>0. MaxEdges \in Nat /\ Graphs!Vertices \subseteq Vertex /\ Popped \subseteq Vertex
  BY DataConstants DEF Graphs!Vertices
<1>1. ASSUME NEW w \in Vertex
      PROVE  count[w] = 0 <=> \A u \in Graphs!Vertices \ Popped : ~(<<u, w>> \in Graphs!Edges)
  <2> DEFINE f == Column(adjacent, w)
             X == Vertex \ Popped
  <2>0. /\ f \in [Vertex -> Nat] /\ X \in SUBSET Vertex /\ count[w] = Total(f, X)
        /\ \A u \in Vertex : adjacent[u] # None => f[u] = adjacent[u][w]
        /\ \A u \in Vertex : adjacent[u] = None => f[u] = 0
    <3>1. adjacent \in [Vertex -> {None} \cup Graphs!Adjacency]
      BY DEF Graphs!TypeOK
    <3>2. /\ f \in [Vertex -> Nat]
          /\ \A u \in Vertex : adjacent[u] # None => f[u] = adjacent[u][w]
          /\ \A u \in Vertex : adjacent[u] = None => f[u] = 0
      BY <1>0, <3>1, ColumnIs
    <3>3. count[w] = Total(f, X)
      OBVIOUS
    <3> QED
      BY <3>2, <3>3
  <2> HIDE DEF f
  <2>1. /\ f \in [Vertex -> Nat] /\ X \in SUBSET Vertex /\ count[w] = Total(f, X)
        /\ \A u \in Vertex : u \in Graphs!Vertices => f[u] = adjacent[u][w]
        /\ \A u \in Vertex : u \notin Graphs!Vertices => f[u] = 0
    BY <2>0 DEF Graphs!Vertices
  <2>2. \A u \in Graphs!Vertices : <<u, w>> \in Graphs!Edges <=> f[u] > 0
    BY <1>0, <2>1 DEF Graphs!Edges
  <2>3. count[w] = 0 <=> \A x \in X : f[x] = 0
    <3> HIDE DEF X
    <3> QED
      BY <2>1, TotalZero
  <2>4. \A x \in Vertex : f[x] \in Nat
    BY <2>1
  <2>5. ASSUME NEW x \in X, f[x] # 0 PROVE x \in Graphs!Vertices \ Popped /\ <<x, w>> \in Graphs!Edges
    BY <2>1, <2>2, <2>4, <2>5
  <2>6. ASSUME NEW u \in Graphs!Vertices \ Popped, <<u, w>> \in Graphs!Edges PROVE u \in X /\ f[u] # 0
    BY <1>0, <2>2, <2>4, <2>6
  <2> HIDE DEF X
  <2> QED
    BY <2>3, <2>5, <2>6
<1>2. ASSUME NEW u \in Vertex, NEW w \in Vertex, <<u, w>> \in Graphs!Edges,
             NEW j \in 1..Len(result), result[j] = w
      PROVE  \E i \in 1..Len(result) : result[i] = u /\ i < j
  <2>1. u \in Graphs!Vertices /\ adjacent[u][w] > 0
    BY <1>2 DEF Graphs!Edges
  <2>2. count[w] = 0
    BY <1>2 DEF Popped
  <2>3. u \in Popped
    BY <1>1, <1>2, <2>1, <2>2
  <2>4. PICK i \in 1..Len(result) : result[i] = u
    BY <2>3 DEF Popped
  <2> QED
    BY <1>2, <2>1, <2>4
<1> QED
  BY <1>0, <1>1, <1>2

LEMMA GraphSame ==
    ASSUME UNCHANGED adjacent
    PROVE  /\ Graphs!Edges' = Graphs!Edges /\ Graphs!Vertices' = Graphs!Vertices
           /\ \A v : Graphs!BehindCycle(v)' <=> Graphs!BehindCycle(v)
<1>1. Graphs!Vertices' = Graphs!Vertices
  BY DEF Graphs!Vertices
<1>2. Graphs!Edges' = Graphs!Edges
  BY <1>1 DEF Graphs!Edges
<1>3. ASSUME NEW v PROVE Graphs!Reach(v)' = Graphs!Reach(v)
  BY <1>2, Zenon DEF Graphs!Reach
<1>4. ASSUME NEW v PROVE Graphs!BehindCycle(v)' <=> Graphs!BehindCycle(v)
  BY <1>3, Zenon DEF Graphs!BehindCycle
<1> QED
  BY <1>1, <1>2, <1>4

LEMMA KhanEndsRight ==
    ASSUME EdgesCounted, sort = "khan", KhanHolds, Graphs!KhanEnds
    PROVE  Graphs!TypeOK' /\ Graphs!KhanRight'
<1> USE DEF EdgesCounted
<1>0. /\ ready = {} /\ sort' = "done" /\ result' = Graphs!Reverse(result)
      /\ UNCHANGED <<adjacent, edges, count, ready>>
      /\ result \in Seq(Vertex) /\ Len(result) \in Nat /\ Graphs!Vertices \subseteq Vertex
      /\ \A i \in 1..Len(result) : result[i] \in Vertex
  BY LenProperties, ElementOfSeq DEF Graphs!KhanEnds, Graphs!TypeOK, Graphs!Vertices
<1> DEFINE n == Len(result)
<1>1. /\ Len(result') = n /\ DOMAIN result' = 1..n /\ result' \in Seq(Vertex)
      /\ \A i \in 1..n : (n - i) + 1 \in 1..n /\ result'[i] = result[(n - i) + 1]
  <2>1. result' = [i \in 1..n |-> result[(n - i) + 1]]
    BY <1>0 DEF Graphs!Reverse
  <2>2. \A i \in 1..n : (n - i) + 1 \in 1..n
    BY <1>0
  <2>3. result' \in Seq(Vertex)
    <3>1. result' \in [1..n -> Vertex]
      BY <1>0, <2>1, <2>2
    <3> QED
      BY <1>0, <3>1, IsASeq
  <2> QED
    BY <1>0, <2>1, <2>2, <2>3, LenProperties
<1>2. Graphs!TypeOK'
  BY <1>0, <1>1 DEF Graphs!TypeOK
<1>3. {result'[i] : i \in 1..n} = Popped
  <2>1. ASSUME NEW i \in 1..n PROVE result'[i] \in Popped
    BY <1>1 DEF Popped
  <2>2. ASSUME NEW x \in Popped PROVE \E i \in 1..n : result'[i] = x
    <3>1. PICK i \in 1..n : result[i] = x
      BY DEF Popped
    <3>2. (n - i) + 1 \in 1..n /\ (n - ((n - i) + 1)) + 1 = i
      BY <1>0
    <3> QED
      BY <1>1, <3>1, <3>2
  <2> QED
    BY <2>1, <2>2
<1>4. Graphs!ToSet(result') = Popped
  BY <1>1, <1>3 DEF Graphs!ToSet
<1>5. ASSUME NEW i \in 1..n, NEW j \in 1..n, result'[i] = result'[j] PROVE i = j
  <2>0. (n - i) + 1 \in 1..n /\ (n - j) + 1 \in 1..n /\ result[(n - i) + 1] = result[(n - j) + 1]
    BY <1>1, <1>5
  <2>1. (n - i) + 1 = (n - j) + 1
    BY <2>0 DEF KhanHolds, Distinct
  <2> QED
    BY <1>0, <2>1
<1>6. /\ Graphs!Edges' = Graphs!Edges /\ Graphs!Vertices' = Graphs!Vertices
      /\ \A v \in Vertex : Graphs!BehindCycle(v)' <=> Graphs!BehindCycle(v)
  BY <1>0, GraphSame
<1>7. ASSUME NEW v \in Graphs!Vertices PROVE v \in Popped <=> ~Graphs!BehindCycle(v)
  <2>1. CASE v \notin Popped
    <3> DEFINE Q == Graphs!Vertices \ Popped
    <3>1. \A q \in Q : \E p \in Q : <<p, q>> \in Graphs!Edges
      BY <1>0, KhanEdges DEF KhanHolds
    <3>2. Q \in SUBSET Vertex /\ v \in Q
      BY <1>0, <2>1
    <3> HIDE DEF Q
    <3>3. Graphs!BehindCycle(v)
      BY <3>1, <3>2, NoSourceNoOrder
    <3> QED
      BY <2>1, <3>3
  <2>2. CASE v \in Popped
    <3>1. PICK k \in 1..n : result[k] = v
      BY <2>2 DEF Popped
    <3>2. Distinct(result)
      BY DEF KhanHolds
    <3>3. ~Graphs!BehindCycle(result[k])
      BY <1>0, <3>2, KhanEdges, OrderNoCycle
    <3> QED
      BY <2>2, <3>1, <3>3
  <2> QED
    BY <2>1, <2>2
<1>8. Popped = {v \in Graphs!Vertices : ~Graphs!BehindCycle(v)}
  BY <1>7 DEF KhanHolds
<1>9. Graphs!IsInjective(result')
  BY <1>1, <1>5 DEF Graphs!IsInjective
<1>10. ASSUME NEW e \in Graphs!Edges, {e[1], e[2]} \subseteq Popped
       PROVE  Graphs!Position(e[2])' < Graphs!Position(e[1])'
  <2>1. e = <<e[1], e[2]>> /\ e[1] \in Vertex /\ e[2] \in Vertex
    BY <1>0 DEF Graphs!Edges
  <2> DEFINE Pos(v) == CHOOSE i \in DOMAIN result' : result'[i] = v
  <2>2. Graphs!Position(e[2])' = Pos(e[2]) /\ Graphs!Position(e[1])' = Pos(e[1])
    BY DEF Graphs!Position
  <2>3. ASSUME NEW v \in Popped PROVE Pos(v) \in 1..n /\ result'[Pos(v)] = v
    BY <1>1, <1>3
  <2> DEFINE a == Pos(e[1])
             b == Pos(e[2])
  <2>4. a \in 1..n /\ b \in 1..n /\ result'[a] = e[1] /\ result'[b] = e[2]
    BY <1>10, <2>3
  <2> HIDE DEF Pos, a, b
  <2>5. (n - a) + 1 \in 1..n /\ (n - b) + 1 \in 1..n
        /\ result[(n - a) + 1] = e[1] /\ result[(n - b) + 1] = e[2]
    BY <1>1, <2>4
  <2>6. PICK i \in 1..n : result[i] = e[1] /\ i < (n - b) + 1
    BY <2>1, <2>5, KhanEdges
  <2>7. i = (n - a) + 1
    BY <2>5, <2>6 DEF KhanHolds, Distinct
  <2>8. b < a
    BY <1>0, <2>4, <2>6, <2>7
  <2> QED
    BY <2>2, <2>8 DEF a, b
<1>11. Graphs!KhanRight'
  <2>1. sort' # "key_error"
    BY <1>0
  <2>2. Graphs!ToSet(result)' = Popped
    BY <1>4 DEF Graphs!ToSet
  <2>3. Graphs!IsInjective(result)'
    BY <1>9 DEF Graphs!IsInjective
  <2>4. Graphs!ToSet(result)' = {v \in Graphs!Vertices : ~Graphs!BehindCycle(v)}'
    <3>1. {v \in Graphs!Vertices : ~Graphs!BehindCycle(v)}' = {v \in Graphs!Vertices' : ~Graphs!BehindCycle(v)'}
      OBVIOUS
    <3> QED
      BY <1>0, <1>6, <1>8, <2>2, <3>1
  <2>5. \A e \in Graphs!Edges' : {e[1], e[2]} \subseteq Graphs!ToSet(result)'
            => Graphs!Position(e[2])' < Graphs!Position(e[1])'
    BY <1>6, <1>10, <2>2
  <2> QED
    BY <2>1, <2>3, <2>4, <2>5 DEF Graphs!KhanRight
<1> QED
  BY <1>2, <1>11

LEMMA GraphNext ==
    ASSUME GraphInv, [Graphs!Next]_(Graphs!vars)
    PROVE  GraphInv'
<1> USE DEF GraphInv
<1>0. MaxEdges \in Nat
  BY DataConstants
<1>1. CASE Graphs!Build
  <2>1. EdgesCounted'
    BY <1>0, <1>1, BuildCounts
  <2>2. sort' = "none"
    BY <1>1 DEF Graphs!Build, Graphs!AddArc, Graphs!AddEdge, Graphs!Connect
  <2> QED
    BY <2>1, <2>2 DEF Graphs!KhanRight
<1>c. ASSUME UNCHANGED <<adjacent, edges>>, Graphs!TypeOK' PROVE EdgesCounted'
  BY <1>c DEF EdgesCounted
<1>2. CASE Graphs!KhanBegins
  <2>1. Graphs!TypeOK' /\ KhanHolds'
    BY <1>2, KhanBeginsHolds
  <2>2. sort' = "khan" /\ UNCHANGED <<adjacent, edges>>
    BY <1>2 DEF Graphs!KhanBegins
  <2> QED
    BY <1>c, <2>1, <2>2 DEF Graphs!KhanRight
<1>3. CASE Graphs!KhanStep
  <2>1. PICK v \in ready :
          /\ result' = Append(result, v)
          /\ IF v \in Graphs!Vertices
               THEN /\ count' = [w \in Vertex |-> count[w] - adjacent[v][w]]
                    /\ ready' = (ready \ {v}) \cup {w \in Vertex : count[w] > 0 /\ count'[w] = 0}
                    /\ UNCHANGED sort
               ELSE sort' = "key_error" /\ UNCHANGED <<count, ready>>
    BY <1>3 DEF Graphs!KhanStep
  <2>2. sort = "khan" /\ UNCHANGED <<adjacent, edges>>
    BY <1>3 DEF Graphs!KhanStep
  <2>3. CASE v \in Graphs!Vertices
    <3>1. Graphs!TypeOK' /\ KhanHolds'
      BY <2>1, <2>2, <2>3, KhanStepHolds
    <3> QED
      BY <1>c, <2>1, <2>2, <2>3, <3>1 DEF Graphs!KhanRight
  <2>4. CASE v \notin Graphs!Vertices
    <3>1. sort' = "key_error" /\ v \in Vertex /\ UNCHANGED <<count, ready, adjacent, edges>>
          /\ result' = Append(result, v) /\ result \in Seq(Vertex)
      BY <2>1, <2>2, <2>4 DEF EdgesCounted, Graphs!TypeOK
    <3>2. PICK u \in Graphs!Vertices : adjacent[u][v] > 0
      BY <2>2, <2>4 DEF KhanHolds
    <3>3. <<u, v>> \in Graphs!Edges
      BY <3>1, <3>2 DEF Graphs!Edges
    <3>4. Graphs!Edges' = Graphs!Edges /\ Graphs!Vertices' = Graphs!Vertices
      BY <3>1 DEF Graphs!Edges, Graphs!Vertices
    <3>5. \E e \in Graphs!Edges' : e[2] \notin Graphs!Vertices'
      BY <2>4, <3>3, <3>4
    <3>6. result' \in Seq(Vertex)
      BY <3>1
    <3>7. Graphs!TypeOK'
      BY <3>1, <3>6 DEF EdgesCounted, Graphs!TypeOK
    <3> QED
      BY <1>c, <3>1, <3>5, <3>7 DEF Graphs!KhanRight
  <2> QED
    BY <2>3, <2>4
<1>4. CASE Graphs!KhanEnds
  <2>1. sort = "khan" /\ sort' = "done" /\ UNCHANGED <<adjacent, edges>>
    BY <1>4 DEF Graphs!KhanEnds
  <2>2. Graphs!TypeOK' /\ Graphs!KhanRight'
    BY <1>4, <2>1, KhanEndsRight
  <2> QED
    BY <1>c, <2>1, <2>2
<1>5. CASE Graphs!SortReturns
  <2>1. sort' = "none" /\ UNCHANGED <<adjacent, edges>> /\ Graphs!TypeOK'
    BY <1>0, <1>5 DEF Graphs!SortReturns, EdgesCounted, Graphs!TypeOK, Graphs!NoEdges, Graphs!Adjacency
  <2> QED
    BY <1>c, <2>1 DEF Graphs!KhanRight
<1>6. CASE Graphs!Topsort
  <2>1. sort' \in {"raised", "sorted"} /\ UNCHANGED <<adjacent, edges, count, ready, result>>
    BY <1>6 DEF Graphs!Topsort
  <2>2. Graphs!TypeOK'
    BY <2>1 DEF EdgesCounted, Graphs!TypeOK
  <2> QED
    BY <1>c, <2>1, <2>2 DEF Graphs!KhanRight
<1>7. CASE UNCHANGED Graphs!vars
  <2>1. UNCHANGED <<adjacent, edges, sort, count, ready, result>>
    BY <1>7 DEF Graphs!vars
  <2>2. Graphs!TypeOK' /\ (KhanHolds => KhanHolds') /\ Graphs!KhanRight'
    <3>1. Graphs!TypeOK'
      BY <2>1 DEF EdgesCounted, Graphs!TypeOK
    <3>0. Graphs!Edges' = Graphs!Edges /\ Graphs!Vertices' = Graphs!Vertices /\ Graphs!ToSet(result)' = Graphs!ToSet(result)
          /\ Graphs!IsInjective(result)' = Graphs!IsInjective(result) /\ Popped' = Popped
          /\ Distinct(result)' = Distinct(result)
      BY <2>1, GraphSame DEF Graphs!ToSet, Graphs!IsInjective, Popped, Distinct
    <3>2. KhanHolds => KhanHolds'
      BY <2>1, <3>0 DEF KhanHolds
    <3>3. Graphs!KhanRight'
      <4>1. \A v : Graphs!BehindCycle(v)' <=> Graphs!BehindCycle(v)
        BY <2>1, GraphSame
      <4>2. \A v : Graphs!Position(v)' = Graphs!Position(v)
        BY <2>1 DEF Graphs!Position
      <4> QED
        BY <2>1, <3>0, <4>1, <4>2 DEF Graphs!KhanRight
    <3> QED
      BY <3>1, <3>2, <3>3
  <2> QED
    BY <1>c, <2>1, <2>2
<1> QED
  BY <1>1, <1>2, <1>3, <1>4, <1>5, <1>6, <1>7 DEF Graphs!Next

\* The topological sort gives each vertex that is behind no cycle once and in order.
LEMMA GraphsHold == Spec => [](Graphs!TypeOK /\ Graphs!KhanRight)
<1>1. GraphInv => Graphs!TypeOK /\ Graphs!KhanRight
  BY DEF GraphInv, EdgesCounted
<1> QED
  BY GraphInit, GraphNext, PartSteps, <1>1, PTL DEF Spec

-----------------------------------------------------------------------------
(* Asynchronous iteration.                                                 *)

\* A sequence of sequences is put together from left to right.
Flattens(f, ss) ==
    f = [i \in 1..Len(ss) |-> IF i = 1 THEN ss[i] ELSE f[i - 1] \o ss[i]]

LEMMA FlattenExists ==
    ASSUME NEW D, NEW ss \in Seq(Seq(D)), Len(ss) # 0
    PROVE  /\ \E f : Flattens(f, ss)
           /\ \A f : Flattens(f, ss) => \A i \in 1..Len(ss) : f[i] \in Seq(D)
<1> DEFINE n == Len(ss)
           S == 1..n
           Y == Seq(D)
           size == [i \in S |-> i]
           base == {1}
           first == [i \in S |-> ss[i]]
           prev == [i \in S |-> IF i = 1 THEN 1 ELSE i - 1]
           step == [i \in S |-> [q \in Y |-> q \o ss[i]]]
<1>0. n \in Nat \ {0} /\ \A i \in S : ss[i] \in Y
  BY LenProperties, ElementOfSeq
<1>1. Shrinks(S, Y, size, base, first, prev, step)
  <2>1. size \in [S -> Nat] /\ first \in [S -> Y] /\ prev \in [S -> S]
    BY <1>0
  <2>2. step \in [S -> [Y -> Y]]
    <3>1. \A i \in S, q \in Y : q \o ss[i] \in Y
      BY <1>0, ConcatProperties
    <3> HIDE DEF S, Y
    <3> QED
      BY <3>1
  <2>3. ASSUME NEW i \in S, i \notin base PROVE size[prev[i]] < size[i]
    BY <1>0, <2>3
  <2> QED
    BY <2>1, <2>2, <2>3 DEF Shrinks
<1>2. PICK f \in [S -> Y] : Follows(f, S, base, first, prev, step)
  <2> HIDE DEF S, Y, size, base, first, prev, step
  <2> QED
    BY <1>1, RecursiveFunction
<1>3. Flattens(f, ss)
  <2>1. ASSUME NEW i \in S PROVE f[i] = IF i = 1 THEN ss[i] ELSE f[i - 1] \o ss[i]
    <3>1. CASE i = 1
      BY <1>2, <3>1 DEF Follows
    <3>2. CASE i # 1
      <4>1. i - 1 \in S
        BY <1>0, <3>2
      <4>2. f[i] = step[i][f[i - 1]] /\ f[i - 1] \in Y
        BY <1>2, <3>2, <4>1 DEF Follows
      <4> QED
        BY <3>2, <4>2
    <3> QED
      BY <3>1, <3>2
  <2>2. f = [i \in S |-> f[i]]
    BY <1>2
  <2>3. [i \in S |-> f[i]] = [i \in S |-> IF i = 1 THEN ss[i] ELSE f[i - 1] \o ss[i]]
    BY <2>1
  <2> QED
    BY <2>2, <2>3, Zenon DEF Flattens
<1>4. ASSUME NEW g, Flattens(g, ss), NEW i \in S PROVE g[i] \in Y
  <2> DEFINE U == {k \in Nat : k \in S => g[k] \in Y}
  <2>1. \A k \in S : g[k] = IF k = 1 THEN ss[k] ELSE g[k - 1] \o ss[k]
    BY <1>4 DEF Flattens
  <2>2. ASSUME NEW k \in Nat, k \in U PROVE k + 1 \in U
    <3> SUFFICES ASSUME k + 1 \in S PROVE g[k + 1] \in Y
      OBVIOUS
    <3>1. CASE k = 0
      BY <1>0, <2>1, <3>1
    <3>2. CASE k # 0
      <4>1. k \in S /\ (k + 1) - 1 = k /\ k + 1 # 1
        BY <1>0, <3>2
      <4>2. g[k + 1] = g[k] \o ss[k + 1] /\ g[k] \in Y /\ ss[k + 1] \in Y
        BY <1>0, <2>1, <2>2, <4>1
      <4> QED
        BY <4>2, ConcatProperties
    <3> QED
      BY <3>1, <3>2
  <2>3. 0 \in U
    OBVIOUS
  <2>4. i \in Nat
    BY <1>0
  <2> HIDE DEF U
  <2>5. i \in U
    BY <2>2, <2>3, <2>4, Induction
  <2> QED
    BY <2>5 DEF U
<1> QED
  BY <1>3, <1>4

LEMMA FlattenIs ==
    ASSUME NEW D, NEW ss \in Seq(Seq(D))
    PROVE  /\ Slices!FlattenSeq(ss) \in Seq(D)
           /\ Len(ss) = 0 => Slices!FlattenSeq(ss) = <<>>
           /\ \A f : Len(ss) # 0 /\ Flattens(f, ss) => Slices!FlattenSeq(ss) = f[Len(ss)]
<1>1. CASE Len(ss) = 0
  <2>1. Slices!FlattenSeq(ss) = ss /\ ss = <<>>
    BY <1>1 DEF Slices!FlattenSeq
  <2> QED
    BY <1>1, <2>1
<1>2. CASE Len(ss) # 0
  <2> DEFINE h == CHOOSE f : Flattens(f, ss)
             n == Len(ss)
  <2>0. n \in Nat /\ n \in 1..n
    BY <1>2, LenProperties
  <2>1. Flattens(h, ss) /\ h[n] \in Seq(D)
    BY <1>2, <2>0, FlattenExists
  <2>2. Slices!FlattenSeq(ss) = h[n]
    BY <1>2, Zenon DEF Slices!FlattenSeq, Flattens
  <2> HIDE DEF h
  <2>3. ASSUME NEW f, Flattens(f, ss) PROVE f[n] = h[n]
    <3> DEFINE U == {k \in Nat : k \in 1..n => f[k] = h[k]}
    <3>1. \A k \in 1..n : f[k] = (IF k = 1 THEN ss[k] ELSE f[k - 1] \o ss[k])
                          /\ h[k] = (IF k = 1 THEN ss[k] ELSE h[k - 1] \o ss[k])
      BY <2>1, <2>3 DEF Flattens
    <3>2. ASSUME NEW k \in Nat, k \in U PROVE k + 1 \in U
      <4>1. CASE k = 0
        BY <3>1, <4>1
      <4>2. CASE k # 0
        BY <3>1, <3>2, <4>2
      <4> QED
        BY <4>1, <4>2
    <3>3. 0 \in U
      OBVIOUS
    <3> HIDE DEF U
    <3>4. n \in U
      BY <2>0, <3>2, <3>3, Induction
    <3> QED
      BY <2>0, <3>4 DEF U
  <2> QED
    BY <1>2, <2>1, <2>2, <2>3
<1> QED
  BY <1>1, <1>2

\* One sequence is put at the end.
LEMMA FlattenAppend ==
    ASSUME NEW D, NEW ss \in Seq(Seq(D)), NEW s \in Seq(D)
    PROVE  Slices!FlattenSeq(Append(ss, s)) = Slices!FlattenSeq(ss) \o s
<1> DEFINE tt == Append(ss, s)
           n == Len(ss)
<1>1. tt \in Seq(Seq(D)) /\ n \in Nat /\ Len(tt) = n + 1 /\ Len(tt) # 0
      /\ (\A i \in 1..n : tt[i] = ss[i]) /\ tt[n + 1] = s
  BY LenProperties, AppendProperties
<1> HIDE DEF tt
<1>2. PICK g : Flattens(g, tt)
  BY <1>1, FlattenExists
<1>3. Slices!FlattenSeq(tt) = g[n + 1]
  BY <1>1, <1>2, FlattenIs
<1>4. \A i \in 1..n + 1 : g[i] = IF i = 1 THEN tt[i] ELSE g[i - 1] \o tt[i]
  BY <1>1, <1>2 DEF Flattens
<1>5. CASE n = 0
  <2>1. g[n + 1] = s /\ Slices!FlattenSeq(ss) = <<>>
    <3>1. Slices!FlattenSeq(ss) = <<>>
      BY <1>5, FlattenIs
    <3>2. g[n + 1] = s
      BY <1>1, <1>4, <1>5
    <3> QED
      BY <3>1, <3>2
  <2>2. <<>> \o s = s
    BY ConcatEmptySeq
  <2>3. Slices!FlattenSeq(tt) = Slices!FlattenSeq(ss) \o s
    BY <1>3, <2>1, <2>2, Zenon
  <2> QED
    BY <2>3 DEF tt
<1>6. CASE n # 0
  <2> DEFINE f == [i \in 1..n |-> g[i]]
  <2>1. Flattens(f, ss)
    <3>1. ASSUME NEW i \in 1..n PROVE f[i] = IF i = 1 THEN ss[i] ELSE f[i - 1] \o ss[i]
      <4>1. g[i] = IF i = 1 THEN tt[i] ELSE g[i - 1] \o tt[i]
        BY <1>1, <1>4
      <4>2. i # 1 => i - 1 \in 1..n
        BY <1>1
      <4> QED
        BY <1>1, <4>1, <4>2
    <3>2. f = [i \in 1..n |-> f[i]]
      OBVIOUS
    <3> HIDE DEF f
    <3>3. [i \in 1..n |-> f[i]] = [i \in 1..n |-> IF i = 1 THEN ss[i] ELSE f[i - 1] \o ss[i]]
      BY <3>1
    <3> QED
      BY <3>2, <3>3, Zenon DEF Flattens
  <2>2. f[n] = g[n]
    BY <1>1, <1>6
  <2> HIDE DEF f
  <2>3. Slices!FlattenSeq(ss) = g[n]
    BY <1>6, <2>1, <2>2, FlattenIs
  <2>4. g[n + 1] = g[n] \o s
    <3>1. n + 1 \in 1..n + 1 /\ n + 1 # 1 /\ (n + 1) - 1 = n
      BY <1>1, <1>6
    <3>2. g[n + 1] = g[(n + 1) - 1] \o tt[n + 1]
      BY <1>4, <3>1, Zenon
    <3> QED
      BY <1>1, <3>1, <3>2, Zenon
  <2>5. Slices!FlattenSeq(tt) = Slices!FlattenSeq(ss) \o s
    BY <1>3, <2>3, <2>4, Zenon
  <2> QED
    BY <2>5 DEF tt
<1> QED
  BY <1>5, <1>6

-----------------------------------------------------------------------------
\* The items that were taken are in order, and with those of the other task they
\* are all that were read.
TakenInOrder(taken, other, n) ==
    /\ \A i, j \in 1..Len(taken) : i < j => taken[i] < taken[j]
    /\ Slices!ToSet(taken) \cap other = {}
    /\ Slices!ToSet(taken) \cup other = 0..n - 1

LEMMA TakeNext ==
    ASSUME NEW n \in Nat, NEW D, D \subseteq Nat, NEW taken \in Seq(D), NEW other, TakenInOrder(taken, other, n), n \in D
    PROVE  /\ TakenInOrder(Append(taken, n), other, n + 1)
           /\ TakenInOrder(taken, other \cup {n}, n + 1)
<1> DEFINE t == Append(taken, n)
           k == Len(taken)
<1>1. /\ k \in Nat /\ t \in Seq(D) /\ Len(t) = k + 1 /\ (\A i \in 1..k : t[i] = taken[i]) /\ t[k + 1] = n
      /\ DOMAIN taken = 1..k /\ DOMAIN t = 1..k + 1 /\ \A i \in 1..k : taken[i] \in D
  BY LenProperties, AppendProperties, ElementOfSeq
<1>2. Slices!ToSet(t) = Slices!ToSet(taken) \cup {n}
  <2>1. Slices!ToSet(t) = {t[i] : i \in 1..k + 1} /\ Slices!ToSet(taken) = {taken[i] : i \in 1..k}
    BY <1>1 DEF Slices!ToSet
  <2>2. ASSUME NEW i \in 1..k + 1 PROVE t[i] \in Slices!ToSet(taken) \cup {n}
    <3>1. i \in 1..k \/ i = k + 1
      BY <1>1
    <3> QED
      BY <1>1, <2>1, <3>1
  <2>3. ASSUME NEW x \in Slices!ToSet(taken) \cup {n} PROVE \E i \in 1..k + 1 : t[i] = x
    <3>1. CASE x = n
      BY <1>1, <3>1
    <3>2. CASE x # n
      <4>1. PICK i \in 1..k : taken[i] = x
        BY <2>1, <3>2
      <4>2. i \in 1..k + 1
        BY <1>1
      <4> QED
        BY <1>1, <4>1, <4>2
    <3> QED
      BY <3>1, <3>2
  <2> QED
    BY <2>1, <2>2, <2>3
<1>3. \A i \in 1..k : taken[i] \in 0..n - 1
  BY <1>1 DEF TakenInOrder, Slices!ToSet
<1>4. 0..(n + 1) - 1 = (0..n - 1) \cup {n} /\ n \notin 0..n - 1
  OBVIOUS
<1> HIDE DEF t, k
<1>5. ASSUME NEW i \in 1..k + 1, NEW j \in 1..k + 1, i < j PROVE t[i] < t[j]
  <2>1. i \in 1..k /\ (j \in 1..k \/ j = k + 1)
    BY <1>1, <1>5
  <2>2. CASE j \in 1..k
    BY <1>1, <1>5, <2>1, <2>2 DEF TakenInOrder, k
  <2>3. CASE j = k + 1
    <3>1. t[i] = taken[i] /\ taken[i] \in 0..n - 1 /\ t[j] = n
      BY <1>1, <1>3, <2>1, <2>3
    <3> QED
      BY <3>1
  <2> QED
    BY <2>1, <2>2, <2>3
<1>6. Slices!ToSet(taken) \cap other = {} /\ Slices!ToSet(taken) \cup other = 0..n - 1
  BY DEF TakenInOrder
<1>7. TakenInOrder(t, other, n + 1)
  <2>1. Slices!ToSet(t) \cap other = {} /\ Slices!ToSet(t) \cup other = 0..(n + 1) - 1
    BY <1>2, <1>4, <1>6
  <2> QED
    BY <1>1, <1>5, <2>1 DEF TakenInOrder
<1>8. TakenInOrder(taken, other \cup {n}, n + 1)
  <2>1. Slices!ToSet(taken) \cap (other \cup {n}) = {} /\ Slices!ToSet(taken) \cup (other \cup {n}) = 0..(n + 1) - 1
    BY <1>4, <1>6
  <2> QED
    BY <2>1 DEF TakenInOrder
<1> QED
  BY <1>7, <1>8 DEF t

-----------------------------------------------------------------------------
\* The indices a slice asks for: the k-th from start.
Stride(c) == IF c.step \in {0, None} THEN 1 ELSE c.step
Wanted(c, k) == c.start + k * Stride(c)
End(c) == IF c.stop \in {0, None} THEN Slices!MaxSize ELSE c.stop
SliceCall == [fun : {"aslice"}, start : Argument, stop : Argument \cup {None},
              step : Argument \cup {None}]
\* The length of a chunk: where n = 1 the slice after its first item has no end.
Size(n) == IF n = 1 THEN Items ELSE n

LEMMA IterationConstants ==
    Items \in Nat /\ Argument \subseteq 0..Items /\ Slices!MaxSize = 2 * Items /\ None \notin 0..Items
  BY DataConstants DEF Slices!MaxSize

LEMMA WantedIs ==
    ASSUME NEW c \in SliceCall
    PROVE  /\ c.start \in Nat /\ Stride(c) \in Nat \ {0} /\ End(c) \in 0..Slices!MaxSize
           /\ \A k \in Nat : Wanted(c, k) \in Nat /\ Wanted(c, k + 1) = Wanted(c, k) + Stride(c)
           /\ Wanted(c, 0) = c.start
           /\ \A j, k \in Nat : j < k <=> Wanted(c, j) < Wanted(c, k)
<1>1. c.start \in Nat /\ Stride(c) \in Nat \ {0} /\ End(c) \in 0..Slices!MaxSize
  <2>1. c.start \in Argument /\ c.stop \in Argument \cup {None} /\ c.step \in Argument \cup {None}
    BY DEF SliceCall
  <2>2. c.start \in 0..Items /\ c.stop \in 0..Items \cup {None} /\ c.step \in 0..Items \cup {None}
    BY <2>1, IterationConstants
  <2>3. Stride(c) \in Nat \ {0}
    BY <2>2, IterationConstants DEF Stride
  <2>4. End(c) \in 0..Slices!MaxSize
    BY <2>2, IterationConstants DEF End
  <2> QED
    BY <2>2, <2>3, <2>4
<1> DEFINE s == Stride(c)
<1> HIDE DEF s
<1>2. s \in Nat \ {0} /\ \A k : Wanted(c, k) = c.start + k * s
  BY <1>1 DEF s, Wanted
<1>3. ASSUME NEW k \in Nat PROVE Wanted(c, k) \in Nat /\ Wanted(c, k + 1) = Wanted(c, k) + s
  <2>1. k * s \in Nat /\ (k + 1) * s = k * s + s
    BY <1>2
  <2> QED
    BY <1>1, <1>2, <2>1
<1>4. Wanted(c, 0) = c.start
  BY <1>1, <1>2
<1>5. ASSUME NEW j \in Nat, NEW k \in Nat, j < k PROVE Wanted(c, j) < Wanted(c, k)
  <2>1. PICK d \in Nat : k = j + 1 + d
    <3>1. k - (j + 1) \in Nat /\ k = j + 1 + (k - (j + 1))
      BY <1>5
    <3> QED
      BY <3>1
  <2>2. k * s = j * s + s + d * s /\ d * s \in Nat /\ j * s \in Nat
    BY <1>2, <2>1
  <2> QED
    BY <1>1, <1>2, <2>2
<1>6. ASSUME NEW j \in Nat, NEW k \in Nat, Wanted(c, j) < Wanted(c, k) PROVE j < k
  <2>1. CASE j = k
    BY <1>3, <1>6, <2>1
  <2>2. CASE k < j
    <3>1. Wanted(c, k) < Wanted(c, j) /\ Wanted(c, k) \in Nat /\ Wanted(c, j) \in Nat
      BY <1>3, <1>5, <2>2
    <3> QED
      BY <1>6, <3>1
  <2> QED
    BY <2>1, <2>2
<1> QED
  BY <1>1, <1>3, <1>4, <1>5, <1>6 DEF s

LEMMA Division ==
    ASSUME NEW d \in Nat, NEW s \in Nat, s > 0
    PROVE  /\ d \div s \in Nat /\ s * (d \div s) <= d /\ d < s * (d \div s) + s
           /\ d % s = 0 => d = s * (d \div s)
<1>1. d \div s \in Nat
  OBVIOUS
<1>2. s * (d \div s) <= d /\ d < s * (d \div s) + s
  OBVIOUS
<1>3. d % s = 0 => d = s * (d \div s)
  OBVIOUS
<1> QED
  BY <1>1, <1>2, <1>3

\* An index is one of them if its distance from the start is a multiple of the step.
LEMMA WantedMultiple ==
    ASSUME NEW c \in SliceCall, NEW i \in Nat
    PROVE  i >= c.start /\ (i - c.start) % Stride(c) = 0 <=> \E k \in Nat : i = Wanted(c, k)
<1> DEFINE s == Stride(c)
<1>1. c.start \in Nat /\ s \in Nat \ {0}
  BY WantedIs
<1> HIDE DEF s
<1>2. ASSUME i >= c.start, (i - c.start) % s = 0 PROVE \E k \in Nat : i = c.start + k * s
  <2> DEFINE d == i - c.start
             k == d \div s
  <2>1. d \in Nat
    BY <1>1, <1>2
  <2> HIDE DEF d
  <2>3. d % s = 0
    BY <1>2 DEF d
  <2>2. d = s * (d \div s) /\ d \div s \in Nat
    BY <1>1, <2>1, <2>3, Division
  <2> HIDE DEF k
  <2>4. d = k * s /\ k \in Nat
    BY <1>1, <2>1, <2>2 DEF k
  <2> HIDE DEF k
  <2>5. i = c.start + k * s
    BY <1>1, <2>1, <2>4 DEF d
  <2> QED
    BY <2>4, <2>5
<1>3. ASSUME NEW k \in Nat, i = c.start + k * s PROVE i >= c.start /\ (i - c.start) % s = 0
  <2>1. k * s \in Nat
    BY <1>1
  <2>2. (k * s) % s = 0
    BY <1>1
  <2>3. i - c.start = k * s /\ i >= c.start
    BY <1>1, <1>3, <2>1
  <2> QED
    BY <2>2, <2>3
<1> QED
  BY <1>2, <1>3 DEF s, Wanted

\* What range() gives.
LEMMA SliceIs ==
    ASSUME NEW c \in SliceCall, NEW r, r = Slices!Slice(c.start, c.stop, c.step)
    PROVE  /\ r \in Seq(0..Slices!MaxSize) /\ Len(r) \in Nat
           /\ \A k \in 1..Len(r) : r[k] = Wanted(c, k - 1) /\ r[k] < End(c)
           /\ Wanted(c, Len(r)) >= End(c)
<1> DEFINE a == c.start
           z == End(c)
           s == Stride(c)
           m == IF z > a THEN (z - a + s - 1) \div s ELSE 0
<1>1. a \in Nat /\ s \in Nat \ {0} /\ z \in Nat /\ z \in 0..Slices!MaxSize
  <2>1. a \in Nat /\ s \in Nat \ {0} /\ z \in 0..Slices!MaxSize
    BY WantedIs
  <2>2. Slices!MaxSize \in Nat
    BY IterationConstants
  <2> HIDE DEF z
  <2> QED
    BY <2>1, <2>2
<1>2. r = [i \in 1..m |-> a + (i - 1) * s]
  BY DEF Slices!Slice, Slices!Steps, Slices!Or, Stride, End
<1> HIDE DEF a, z, s
<1>3. m \in Nat /\ a + m * s >= z /\ (m > 0 => a + (m - 1) * s < z)
  <2>1. CASE z > a
    <3> DEFINE d == z - a + s - 1
    <3>1. d \in Nat
      BY <1>1, <2>1
    <3> HIDE DEF d
    <3>2. d \div s \in Nat /\ s * (d \div s) <= d /\ d < s * (d \div s) + s
      BY <1>1, <3>1, Division
    <3>3. m = d \div s
      BY <2>1 DEF d
    <3> HIDE DEF m
    <3>4. d - s < s * m /\ s * m <= d /\ m \in Nat
      BY <1>1, <3>1, <3>2, <3>3
    <3>5. s * m \in Nat /\ m * s = s * m /\ (m - 1) * s = s * m - s
      BY <1>1, <3>4
    <3>6. d = z - a + s - 1
      BY DEF d
    <3> QED
      BY <1>1, <3>1, <3>4, <3>5, <3>6
  <2>2. CASE ~(z > a)
    BY <1>1, <2>2
  <2> QED
    BY <2>1, <2>2
<1> HIDE DEF m
<1>4. ASSUME NEW k \in 1..m PROVE a + (k - 1) * s \in 0..Slices!MaxSize /\ a + (k - 1) * s < z
  <2>1. PICK d \in Nat : m = k + d
    <3>1. m - k \in Nat /\ m = k + (m - k)
      BY <1>3
    <3> QED
      BY <3>1
  <2>2. (m - 1) * s = (k - 1) * s + d * s /\ d * s \in Nat /\ (k - 1) * s \in Nat
    BY <1>1, <1>3, <2>1
  <2>3. a + (m - 1) * s < z
    BY <1>3
  <2>4. a + (k - 1) * s < z /\ a + (k - 1) * s \in Nat
    BY <1>1, <2>2, <2>3
  <2> QED
    BY <1>1, <2>4, IterationConstants
<1>5. Len(r) = m /\ \A k \in 1..m : r[k] = a + (k - 1) * s
  BY <1>2, <1>3
<1>6. r \in Seq(0..Slices!MaxSize)
  <2>1. r \in [1..m -> 0..Slices!MaxSize]
    BY <1>2, <1>4
  <2> QED
    BY <1>2, <1>3, <2>1, IsASeq
<1> QED
  BY <1>3, <1>4, <1>5, <1>6 DEF a, z, s, Wanted

-----------------------------------------------------------------------------
SourceIs(s) ==
    /\ s \in Seq(0..Items - 1) /\ Len(s) <= Items
    /\ \A i \in 1..Len(s) : s[i] = Items - Len(s) + i - 1
Taken == IF call.fun = "aslice" THEN seen ELSE Slices!FlattenSeq(chunked) \o chunk

\* The slice has the indices it asked for, and waits for the next.
SliceHolds ==
    /\ index = Len(seen) /\ at \in {"slice", "ended"} /\ chunked = <<>>
    /\ Len(seen) + Len(source) <= Items
    /\ \A k \in 1..Len(chunk) :
         /\ Wanted(call, k - 1) < Len(seen) /\ Wanted(call, k - 1) < End(call)
         /\ chunk[k] = seen[Wanted(call, k - 1) + 1]
    /\ \A k \in 1..Len(nexts) : nexts[k] = Wanted(call, Len(chunk) + k - 1) /\ nexts[k] < End(call)
    /\ Wanted(call, Len(chunk) + Len(nexts)) >= End(call)
    /\ Len(seen) <= Wanted(call, Len(chunk))
    /\ nexts = <<>> =>
         Len(seen) = IF Len(chunk) = 0 THEN 0 ELSE Wanted(call, Len(chunk) - 1) + 1
    /\ at = "ended" => <<>> \in {nexts, source}

\* A chunk lacks what its slice still gives.
ChunksHold ==
    /\ at # "slice" => chunk = <<>>
    /\ at = "slice" =>
         /\ Len(chunk) = index + 1
         /\ \A k \in 1..Len(nexts) : nexts[k] = index + k - 1
         /\ Len(chunk) + Len(nexts) = IF call.n = 1 THEN Slices!MaxSize + 1 ELSE call.n
    /\ Len(chunk) + Len(source) <= Items
    /\ \A k \in 1..Len(chunked) :
         /\ chunked[k] # <<>> /\ Len(chunked[k]) <= Size(call.n)
         /\ Len(chunked[k]) < Size(call.n) =>
              k = Len(chunked) /\ source = <<>> /\ at # "slice"

IterationInv ==
    /\ Slices!TypeOK /\ SourceIs(source)
    /\ TakenInOrder(Taken, elsewhere, Items - Len(source))
    /\ call.fun = "aslice" => SliceHolds
    /\ call.fun = "chunks" => ChunksHold

LEMMA CallIs ==
    ASSUME call \in Slices!Call
    PROVE  \/ call.fun = "aslice" /\ call \in SliceCall
           \/ call.fun = "chunks" /\ call.n \in 1..Items /\ call.fun # "aslice"
<1>1. CASE call \in SliceCall
  BY <1>1 DEF SliceCall
<1>2. CASE call \in [fun : {"chunks"}, n : Argument \ {0}]
  <2>1. call.fun = "chunks" /\ call.n \in Argument \ {0}
    BY <1>2
  <2>2. call.n \in 0..Items /\ call.n # 0
    BY <2>1, IterationConstants
  <2>3. call.n \in 1..Items
    BY <2>2, IterationConstants
  <2> QED
    BY <2>1, <2>3
<1> QED
  BY <1>1, <1>2 DEF Slices!Call, SliceCall

\* The next item is the number of those that were read.
LEMMA ReadNext ==
    ASSUME NEW s, SourceIs(s), s # <<>>
    PROVE  /\ Head(s) = Items - Len(s) /\ Head(s) \in 0..Items - 1 /\ Len(s) \in Nat \ {0}
           /\ SourceIs(Tail(s)) /\ Len(Tail(s)) = Len(s) - 1
<1> USE DEF SourceIs
<1>1. /\ Head(s) \in 0..Items - 1 /\ Tail(s) \in Seq(0..Items - 1) /\ Len(Tail(s)) = Len(s) - 1
      /\ \A i \in 1..Len(Tail(s)) : Tail(s)[i] = s[i + 1]
  BY HeadTailProperties
<1>2. Len(s) \in Nat \ {0} /\ Head(s) = s[1]
  BY EmptySeq
<1>3. Head(s) = Items - Len(s)
  BY <1>2, IterationConstants
<1> DEFINE t == Tail(s)
<1> HIDE DEF t
<1>4. ASSUME NEW i \in 1..Len(t) PROVE t[i] = Items - Len(t) + i - 1
  <2>1. i + 1 \in 1..Len(s) /\ Len(t) = Len(s) - 1 /\ t[i] = s[i + 1] /\ i \in Nat
    BY <1>1, <1>2 DEF t
  <2>2. s[i + 1] = Items - Len(s) + (i + 1) - 1
    BY <2>1
  <2> QED
    BY <1>2, <2>1, <2>2, IterationConstants
<1>5. Len(t) <= Items
  BY <1>1, <1>2, IterationConstants DEF t
<1> QED
  BY <1>1, <1>2, <1>3, <1>4, <1>5 DEF t

\* range() with one number.
LEMMA StepsOne ==
    ASSUME NEW z \in Nat
    PROVE  /\ Len(Slices!Steps(0, z, 1)) = z
           /\ \A i \in 1..z : Slices!Steps(0, z, 1)[i] = i - 1
           /\ \A m \in Nat : z <= m => Slices!Steps(0, z, 1) \in Seq(0..m - 1)
<1>1. (IF z > 0 THEN (z - 0 + 1 - 1) \div 1 ELSE 0) = z
  OBVIOUS
<1>2. Slices!Steps(0, z, 1) = [i \in 1..z |-> i - 1]
  BY <1>1 DEF Slices!Steps
<1>3. ASSUME NEW m \in Nat, z <= m PROVE [i \in 1..z |-> i - 1] \in Seq(0..m - 1)
  <2>1. [i \in 1..z |-> i - 1] \in [1..z -> 0..m - 1]
    BY <1>3
  <2> QED
    BY <2>1, IsASeq
<1> QED
  BY <1>2, <1>3

LEMMA IterationInit == Init => IterationInv
<1> SUFFICES ASSUME Slices!Init PROVE IterationInv
  BY DEF Init
<1> USE DEF Slices!Init
<1>0. Items \in Nat /\ Slices!MaxSize = 2 * Items
  BY IterationConstants
<1>1. SourceIs(source) /\ Len(source) = Items /\ source \in Seq(0..Items - 1)
  <2>1. source = Slices!Steps(0, Items, 1)
    BY DEF Slices!arange
  <2>2. /\ Len(source) = Items /\ source \in Seq(0..Items - 1)
        /\ \A i \in 1..Items : source[i] = i - 1
    <3>1. Len(source) = Items /\ \A i \in 1..Items : source[i] = i - 1
      BY <1>0, <2>1, StepsOne
    <3>2. Items <= Items
      BY <1>0
    <3>3. Slices!Steps(0, Items, 1) \in Seq(0..Items - 1)
      BY <1>0, <3>2, StepsOne
    <3> QED
      BY <2>1, <3>1, <3>3
  <2>3. \A i \in 1..Items : source[i] = Items - Len(source) + i - 1
    BY <1>0, <2>2
  <2> QED
    BY <1>0, <2>2, <2>3 DEF SourceIs
<1>2. TakenInOrder(Taken, elsewhere, Items - Len(source))
  <2>1. Taken = <<>>
    <3>1. Slices!FlattenSeq(<<>>) = <<>>
      BY DEF Slices!FlattenSeq
    <3> QED
      BY <3>1 DEF Taken
  <2>2. 0..(Items - Len(source)) - 1 = {}
    BY <1>0, <1>1
  <2> QED
    BY <2>1, <2>2 DEF TakenInOrder, Slices!ToSet
<1>3. CASE call.fun = "aslice"
  <2>1. call \in SliceCall
    BY <1>3, CallIs
  <2>2. nexts = Slices!Slice(call.start, call.stop, call.step)
    BY <1>3
  <2>3. /\ nexts \in Seq(0..Slices!MaxSize) /\ Len(nexts) \in Nat
        /\ \A k \in 1..Len(nexts) : nexts[k] = Wanted(call, k - 1) /\ nexts[k] < End(call)
        /\ Wanted(call, Len(nexts)) >= End(call)
    BY <2>1, <2>2, SliceIs
  <2>4. Wanted(call, 0) \in Nat
    BY <2>1, WantedIs
  <2>5. at = "slice" /\ chunk = <<>> /\ seen = <<>> /\ index = 0 /\ chunked = <<>>
    BY <1>3
  <2>6. SliceHolds
    <3>1. Len(chunk) = 0 /\ Len(seen) = 0
      BY <2>5
    <3>2. \A k \in 1..Len(nexts) : Len(chunk) + k - 1 = k - 1
      BY <2>3, <3>1
    <3>3. Len(chunk) + Len(nexts) = Len(nexts)
      BY <2>3, <3>1
    <3> QED
      BY <1>0, <1>1, <2>3, <2>4, <2>5, <3>1, <3>2, <3>3 DEF SliceHolds
  <2>7. Slices!TypeOK
    BY <1>0, <1>1, <2>3, <2>5 DEF Slices!TypeOK
  <2> QED
    BY <1>1, <1>2, <1>3, <2>6, <2>7 DEF IterationInv
<1>4. CASE call.fun # "aslice"
  <2>1. at = "item" /\ nexts = <<>> /\ chunk = <<>> /\ seen = <<>> /\ index = 0 /\ chunked = <<>> /\ elsewhere = {}
    BY <1>4
  <2>2. Slices!TypeOK
    <3>1. 0 \in 0..Items /\ {} \subseteq 0..Items - 1
      BY <1>0
    <3>2. call \in Slices!Call
      OBVIOUS
    <3> QED
      BY <1>1, <2>1, <3>1, <3>2, EmptySeq DEF Slices!TypeOK
  <2>3. ChunksHold
    BY <1>0, <1>1, <2>1 DEF ChunksHold
  <2> QED
    BY <1>1, <1>2, <1>4, <2>2, <2>3 DEF IterationInv
<1> QED
  BY <1>3, <1>4

\* The types of what is put together.
LEMMA TakenType ==
    ASSUME Slices!TypeOK
    PROVE  Taken \in Seq(0..Items - 1)
<1>1. Slices!FlattenSeq(chunked) \in Seq(0..Items - 1)
  BY FlattenIs DEF Slices!TypeOK
<1> QED
  BY <1>1, ConcatProperties DEF Slices!TypeOK, Taken

LEMMA SliceItemHolds ==
    ASSUME IterationInv, Slices!SliceItem, call.fun = "aslice"
    PROVE  IterationInv'
<1> USE DEF IterationInv
<1> DEFINE c == Len(chunk)
           q == Len(seen)
           n == Items - Len(source)
           D == 0..Items - 1
<1>0. /\ call \in SliceCall /\ Items \in Nat /\ seen \in Seq(D) /\ chunk \in Seq(D) /\ source \in Seq(D)
      /\ nexts \in Seq(0..Slices!MaxSize) /\ c \in Nat /\ q \in Nat /\ Len(nexts) \in Nat
  BY CallIs, IterationConstants, LenProperties DEF Slices!TypeOK
<1>1. /\ at = "slice" /\ nexts # <<>> /\ source # <<>> /\ source' = Tail(source)
      /\ seen' = Append(seen, Head(source)) /\ index' = index + 1
      /\ UNCHANGED <<call, at, chunked, elsewhere>>
  BY DEF Slices!SliceItem
<1>2. /\ Head(source) = n /\ n \in D /\ n \in Nat /\ Len(source) \in Nat \ {0}
      /\ SourceIs(source') /\ Len(source') = Len(source) - 1 /\ Items - Len(source') = n + 1
  BY <1>0, <1>1, ReadNext
<1>3. /\ seen' \in Seq(D) /\ Len(seen') = q + 1 /\ (\A i \in 1..q : seen'[i] = seen[i]) /\ seen'[q + 1] = n
  BY <1>0, <1>1, <1>2, AppendProperties
<1>4. TakenInOrder(Taken', elsewhere', Items - Len(source'))
  <2>1. TakenInOrder(seen, elsewhere, n)
    BY DEF Taken
  <2>2. TakenInOrder(Append(seen, n), elsewhere, n + 1)
    <3>1. D \subseteq Nat
      OBVIOUS
    <3> HIDE DEF n, D
    <3> QED
      BY <1>0, <1>2, <2>1, <3>1, TakeNext
  <2>3. Taken' = Append(seen, n)
    BY <1>1, <1>2 DEF Taken
  <2> QED
    BY <1>1, <1>2, <2>2, <2>3
<1>5. SliceHolds
  OBVIOUS
<1>6. index + 1 \in 0..Items /\ index = q
  <2>1. index = q /\ q + Len(source) <= Items
    BY <1>5 DEF SliceHolds
  <2>2. q \in Nat /\ Len(source) \in Nat \ {0} /\ Items \in Nat
    BY <1>0, <1>2
  <2> HIDE DEF q
  <2> QED
    BY <2>1, <2>2
<1>7. /\ Head(nexts) = Wanted(call, c) /\ Head(nexts) < End(call) /\ q <= Wanted(call, c)
      /\ Wanted(call, c) \in Nat /\ Wanted(call, c + 1) = Wanted(call, c) + Stride(call) /\ Stride(call) \in Nat \ {0}
  <2>1. 1 \in 1..Len(nexts) /\ Head(nexts) = nexts[1]
    BY <1>0, <1>1, EmptySeq
  <2>2. nexts[1] = Wanted(call, c + 1 - 1) /\ nexts[1] < End(call) /\ c + 1 - 1 = c
    <3>1. nexts[1] = Wanted(call, Len(chunk) + 1 - 1) /\ nexts[1] < End(call)
      BY <1>5, <2>1 DEF SliceHolds
    <3>2. c + 1 - 1 = c
      BY <1>0
    <3> QED
      BY <3>1, <3>2
  <2>3. q <= Wanted(call, c)
    BY <1>5 DEF SliceHolds
  <2>4. Wanted(call, c) \in Nat /\ Wanted(call, c + 1) = Wanted(call, c) + Stride(call) /\ Stride(call) \in Nat \ {0}
    BY <1>0, WantedIs
  <2> QED
    BY <2>1, <2>2, <2>3, <2>4
<1> HIDE DEF c, q, n, D
<1>8. CASE q = Wanted(call, c)
  <2>1. chunk' = Append(chunk, n) /\ nexts' = Tail(nexts)
    BY <1>1, <1>2, <1>6, <1>7, <1>8 DEF Slices!SliceItem
  <2>2. chunk' \in Seq(D) /\ Len(chunk') = c + 1 /\ (\A k \in 1..c : chunk'[k] = chunk[k]) /\ chunk'[c + 1] = n
    BY <1>0, <1>2, <2>1, AppendProperties DEF c
  <2>3. /\ nexts' \in Seq(0..Slices!MaxSize) /\ Len(nexts') = Len(nexts) - 1 /\ Len(nexts) \in Nat \ {0}
        /\ \A k \in 1..Len(nexts') : nexts'[k] = nexts[k + 1]
    BY <1>0, <1>1, <2>1, HeadTailProperties, EmptySeq
  <2>4. ASSUME NEW k \in 1..c + 1
        PROVE  /\ Wanted(call, k - 1) < q + 1 /\ Wanted(call, k - 1) < End(call)
               /\ chunk'[k] = seen'[Wanted(call, k - 1) + 1]
    <3>1. CASE k \in 1..c
      <4>1. Wanted(call, k - 1) < q /\ Wanted(call, k - 1) < End(call) /\ chunk[k] = seen[Wanted(call, k - 1) + 1]
        BY <1>5, <3>1 DEF SliceHolds, c, q
      <4>2. Wanted(call, k - 1) \in Nat
        <5>1. k - 1 \in Nat
          BY <1>0, <3>1
        <5> QED
          BY <1>0, <5>1, WantedIs
      <4>3. Wanted(call, k - 1) + 1 \in 1..q
        BY <1>0, <4>1, <4>2
      <4> QED
        BY <1>0, <1>3, <2>2, <3>1, <4>1, <4>2, <4>3
    <3>2. CASE k = c + 1
      <4>1. k - 1 = c
        BY <1>0, <3>2
      <4>2. Wanted(call, k - 1) = q /\ q < End(call)
        BY <1>7, <1>8, <4>1
      <4> QED
        BY <1>0, <1>3, <2>2, <3>2, <4>2
    <3> QED
      BY <1>0, <3>1, <3>2
  <2>5. ASSUME NEW k \in 1..Len(nexts')
        PROVE  nexts'[k] = Wanted(call, (c + 1) + k - 1) /\ nexts'[k] < End(call)
    <3>1. k + 1 \in 1..Len(nexts) /\ c + (k + 1) - 1 = (c + 1) + k - 1
      BY <1>0, <2>3
    <3>2. nexts[k + 1] = Wanted(call, c + (k + 1) - 1) /\ nexts[k + 1] < End(call)
      BY <1>5, <3>1 DEF SliceHolds, c
    <3> QED
      BY <2>3, <3>1, <3>2
  <2>6. Wanted(call, (c + 1) + Len(nexts')) >= End(call)
    <3>1. (c + 1) + Len(nexts') = c + Len(nexts)
      BY <1>0, <2>3
    <3> QED
      BY <1>5, <3>1 DEF SliceHolds, c
  <2>7. q + 1 <= Wanted(call, c + 1) /\ q + 1 = Wanted(call, (c + 1) - 1) + 1
    <3>1. (c + 1) - 1 = c
      BY <1>0
    <3> QED
      BY <1>7, <1>8, <3>1
  <2>8. Len(seen') + Len(source') <= Items
    BY <1>0, <1>2, <1>3, <1>5 DEF SliceHolds, q
  <2>9. SliceHolds'
    <3>1. Len(chunk') = c + 1 /\ Len(seen') = q + 1 /\ c + 1 # 0
      BY <1>0, <1>3, <2>2
    <3> QED
      BY <1>1, <1>5, <1>6, <2>4, <2>5, <2>6, <2>7, <2>8, <3>1 DEF SliceHolds
  <2>10. Slices!TypeOK'
    BY <1>1, <1>2, <1>3, <1>6, <2>2, <2>3 DEF Slices!TypeOK, SourceIs, D
  <2> QED
    BY <1>1, <1>2, <1>4, <2>9, <2>10
<1>9. CASE q # Wanted(call, c)
  <2>1. UNCHANGED <<chunk, nexts>>
    BY <1>1, <1>6, <1>7, <1>9 DEF Slices!SliceItem
  <2>2. ASSUME NEW k \in 1..c
        PROVE  /\ Wanted(call, k - 1) < q + 1 /\ Wanted(call, k - 1) < End(call)
               /\ chunk'[k] = seen'[Wanted(call, k - 1) + 1]
    <3>1. Wanted(call, k - 1) < q /\ Wanted(call, k - 1) < End(call) /\ chunk[k] = seen[Wanted(call, k - 1) + 1]
      BY <1>5 DEF SliceHolds, c, q
    <3>2. Wanted(call, k - 1) \in Nat
      <4>1. k - 1 \in Nat
        BY <1>0
      <4> QED
        BY <1>0, <4>1, WantedIs
    <3>3. Wanted(call, k - 1) + 1 \in 1..q
      BY <1>0, <3>1, <3>2
    <3> QED
      BY <1>0, <1>3, <2>1, <3>1, <3>2, <3>3
  <2>3. q + 1 <= Wanted(call, c)
    BY <1>0, <1>7, <1>9
  <2>4. Len(seen') + Len(source') <= Items
    BY <1>0, <1>2, <1>3, <1>5 DEF SliceHolds, q
  <2>5. SliceHolds'
    BY <1>1, <1>3, <1>5, <1>6, <2>1, <2>2, <2>3, <2>4 DEF SliceHolds, c
  <2>6. Slices!TypeOK'
    BY <1>1, <1>2, <1>3, <1>6, <2>1 DEF Slices!TypeOK, SourceIs, D
  <2> QED
    BY <1>1, <1>2, <1>4, <2>5, <2>6
<1> QED
  BY <1>8, <1>9

LEMMA AppendLast ==
    ASSUME NEW D, NEW f \in Seq(D), NEW s \in Seq(D), NEW x \in D
    PROVE  f \o Append(s, x) = Append(f \o s, x)
<1>1. f \o s \in Seq(D) /\ <<x>> \in Seq(D)
  BY ConcatProperties
<1>2. Append(s, x) = s \o <<x>> /\ Append(f \o s, x) = (f \o s) \o <<x>>
  BY <1>1, AppendIsConcat
<1>3. (f \o s) \o <<x>> = f \o (s \o <<x>>)
  BY <1>1, ConcatAssociative
<1> QED
  BY <1>2, <1>3, Zenon

LEMMA TakeIntoChunk ==
    ASSUME NEW n \in Nat, NEW D, D \subseteq Nat, NEW f \in Seq(D), NEW s \in Seq(D), NEW other,
           TakenInOrder(f \o s, other, n), n \in D
    PROVE  TakenInOrder(f \o Append(s, n), other, n + 1)
<1>1. f \o s \in Seq(D)
  BY ConcatProperties
<1>2. TakenInOrder(Append(f \o s, n), other, n + 1)
  BY <1>1, TakeNext
<1>3. f \o Append(s, n) = Append(f \o s, n)
  BY AppendLast
<1> QED
  BY <1>2, <1>3, Zenon

LEMMA ChunkItemHolds ==
    ASSUME IterationInv, call.fun = "chunks", Slices!ChunkBegins \/ Slices!SliceItem
    PROVE  IterationInv'
<1> USE DEF IterationInv
<1> DEFINE c == Len(chunk)
           n == Items - Len(source)
           D == 0..Items - 1
<1>0. /\ call.n \in 1..Items /\ Items \in Nat /\ seen \in Seq(D) /\ chunk \in Seq(D) /\ source \in Seq(D)
      /\ nexts \in Seq(0..Slices!MaxSize) /\ c \in Nat /\ Len(nexts) \in Nat /\ Slices!MaxSize = 2 * Items
      /\ chunked \in Seq(Seq(D)) /\ index \in Nat /\ ChunksHold /\ call.fun # "aslice"
  BY CallIs, IterationConstants, LenProperties DEF Slices!TypeOK
<1>1. source # <<>> /\ source' = Tail(source) /\ UNCHANGED <<call, chunked, elsewhere>>
  BY DEF Slices!ChunkBegins, Slices!SliceItem
<1>2. /\ Head(source) = n /\ n \in D /\ n \in Nat /\ Len(source) \in Nat \ {0}
      /\ SourceIs(source') /\ Len(source') = Len(source) - 1 /\ Items - Len(source') = n + 1
  BY <1>0, <1>1, ReadNext
<1> HIDE DEF n, D, c
<1>3. ASSUME chunk' = Append(chunk, n) PROVE TakenInOrder(Taken', elsewhere', Items - Len(source'))
  <2> DEFINE f == Slices!FlattenSeq(chunked)
  <2>1. f \in Seq(D)
    BY <1>0, FlattenIs
  <2>2. TakenInOrder(f \o chunk, elsewhere, n)
    BY <1>0 DEF Taken, n
  <2>3. Taken' = f \o Append(chunk, n)
    BY <1>0, <1>1, <1>3 DEF Taken
  <2> HIDE DEF f
  <2>4. chunk \in Seq(D) /\ n \in D /\ n \in Nat /\ D \subseteq Nat
    BY <1>0, <1>2 DEF D
  <2>5. TakenInOrder(f \o Append(chunk, n), elsewhere, n + 1)
    BY <2>1, <2>2, <2>4, TakeIntoChunk
  <2> QED
    BY <1>1, <1>2, <2>3, <2>5
\* The items of the chunk, what its slice still gives, and that none is short.
<1>4. ASSUME chunk' \in Seq(D), Len(chunk') = index' + 1, Len(chunk') = c + 1, at' = "slice",
             nexts' \in Seq(0..Slices!MaxSize),
             \A k \in 1..Len(nexts') : nexts'[k] = index' + k - 1,
             Len(chunk') + Len(nexts') = IF call.n = 1 THEN Slices!MaxSize + 1 ELSE call.n,
             seen' \in Seq(D), chunk' = Append(chunk, n), index' \in Nat
      PROVE  IterationInv'
  <2>1. Len(chunk') + Len(source') <= Items
    <3>1. c + Len(source) <= Items
      BY <1>0 DEF ChunksHold, c
    <3> QED
      BY <1>0, <1>2, <1>4, <3>1
  <2>2. ASSUME NEW k \in 1..Len(chunked)
        PROVE  chunked[k] # <<>> /\ Len(chunked[k]) <= Size(call.n) /\ ~(Len(chunked[k]) < Size(call.n))
    BY <1>0, <1>1 DEF ChunksHold
  <2>3. ChunksHold'
    <3>1. Size(call.n)' = Size(call.n)
      BY <1>1 DEF Size
    <3> QED
      BY <1>1, <1>4, <2>1, <2>2, <3>1 DEF ChunksHold
  <2>4. index' \in 0..Items
    <3>1. Len(source') \in Nat /\ Len(chunk') = index' + 1
      BY <1>2, <1>4
    <3>2. index' \in Nat
      BY <1>4
    <3> QED
      BY <1>0, <2>1, <3>1, <3>2
  <2>5. Slices!TypeOK'
    BY <1>1, <1>2, <1>4, <2>4 DEF Slices!TypeOK, SourceIs, D
  <2> QED
    BY <1>0, <1>1, <1>2, <1>3, <1>4, <2>3, <2>5
<1>5. CASE Slices!ChunkBegins
  <2>1. /\ at = "item" /\ chunk' = <<n>> /\ nexts' = Slices!Slice(0, call.n - 1, None) /\ index' = 0
        /\ at' = "slice" /\ UNCHANGED seen
    BY <1>2, <1>5 DEF Slices!ChunkBegins
  <2>2. chunk = <<>> /\ c = 0
    BY <1>0, <2>1 DEF ChunksHold, c
  <2> DEFINE z == IF call.n = 1 THEN Slices!MaxSize ELSE call.n - 1
  <2>3. z \in Nat /\ z <= Slices!MaxSize + 1 /\ nexts' = Slices!Steps(0, z, 1)
    <3>1. nexts' = Slices!Steps(0, IF call.n - 1 = 0 THEN Slices!MaxSize ELSE call.n - 1, 1)
      <4>1. call.n - 1 # None
        <5>1. call.n - 1 \in 0..Items
          BY <1>0
        <5> QED
          BY <5>1, IterationConstants
      <4>2. Slices!Or(None, 1) = 1
        BY DEF Slices!Or
      <4>3. Slices!Or(call.n - 1, Slices!MaxSize) = IF call.n - 1 = 0 THEN Slices!MaxSize ELSE call.n - 1
        BY <4>1 DEF Slices!Or
      <4> QED
        BY <2>1, <4>2, <4>3 DEF Slices!Slice
    <3>2. call.n - 1 = 0 <=> call.n = 1
      BY <1>0
    <3>3. z \in Nat /\ z <= Slices!MaxSize + 1
      BY <1>0
    <3> QED
      BY <3>1, <3>2, <3>3
  <2>4. 1 + z = IF call.n = 1 THEN Slices!MaxSize + 1 ELSE call.n
    BY <1>0
  <2> HIDE DEF z
  <2>5. /\ Len(nexts') = z /\ nexts' \in Seq(0..Slices!MaxSize)
        /\ \A k \in 1..Len(nexts') : nexts'[k] = index' + k - 1
    <3>1. /\ Len(nexts') = z /\ \A i \in 1..z : nexts'[i] = i - 1
      BY <2>3, StepsOne
    <3>2. nexts' \in Seq(0..(Slices!MaxSize + 1) - 1) /\ (Slices!MaxSize + 1) - 1 = Slices!MaxSize
      <4>1. Slices!MaxSize + 1 \in Nat /\ (Slices!MaxSize + 1) - 1 = Slices!MaxSize
        BY <1>0
      <4> QED
        BY <2>3, <4>1, StepsOne
    <3>3. \A k \in 1..Len(nexts') : nexts'[k] = index' + k - 1
      BY <2>1, <2>3, <3>1
    <3> QED
      BY <3>1, <3>2, <3>3
  <2>6. chunk' = Append(chunk, n) /\ chunk' \in Seq(D) /\ Len(chunk') = 1
    BY <1>2, <2>1, <2>2
  <2>7. Len(chunk') + Len(nexts') = IF call.n = 1 THEN Slices!MaxSize + 1 ELSE call.n
    BY <2>4, <2>5, <2>6
  <2> QED
    BY <1>0, <1>4, <2>1, <2>2, <2>5, <2>6, <2>7
<1>6. CASE Slices!SliceItem
  <2>1. at = "slice" /\ nexts # <<>> /\ index' = index + 1 /\ at' = "slice"
        /\ seen' = Append(seen, n)
    BY <1>2, <1>6 DEF Slices!SliceItem
  <2>2. /\ c = index + 1 /\ (\A k \in 1..Len(nexts) : nexts[k] = index + k - 1)
        /\ c + Len(nexts) = IF call.n = 1 THEN Slices!MaxSize + 1 ELSE call.n
    BY <1>0, <2>1 DEF ChunksHold, c
  <2>3. Len(nexts) \in Nat \ {0} /\ Head(nexts) = nexts[1] /\ nexts[1] = index
    <3>1. Len(nexts) \in Nat \ {0} /\ Head(nexts) = nexts[1]
      BY <1>0, <2>1, EmptySeq
    <3>2. nexts[1] = index + 1 - 1
      BY <2>2, <3>1
    <3> QED
      BY <1>0, <3>1, <3>2
  <2>4. chunk' = Append(chunk, n) /\ nexts' = Tail(nexts)
    BY <1>2, <1>6, <2>3 DEF Slices!SliceItem
  <2>5. /\ nexts' \in Seq(0..Slices!MaxSize) /\ Len(nexts') = Len(nexts) - 1
        /\ \A k \in 1..Len(nexts') : nexts'[k] = nexts[k + 1]
    BY <1>0, <2>1, <2>4, HeadTailProperties
  <2>6. ASSUME NEW k \in 1..Len(nexts') PROVE nexts'[k] = index' + k - 1
    <3>1. k + 1 \in 1..Len(nexts) /\ k \in Nat
      BY <2>3, <2>5
    <3>2. nexts'[k] = index + (k + 1) - 1
      BY <2>2, <2>5, <3>1
    <3> QED
      BY <1>0, <2>1, <3>1, <3>2
  <2>7. chunk' \in Seq(D) /\ Len(chunk') = c + 1 /\ seen' \in Seq(D)
    BY <1>0, <1>2, <2>1, <2>4, AppendProperties DEF c
  <2>8. Len(chunk') + Len(nexts') = c + Len(nexts) /\ Len(chunk') = index' + 1 /\ index' \in Nat
    BY <1>0, <2>1, <2>2, <2>3, <2>5, <2>7
  <2> QED
    BY <1>4, <2>1, <2>2, <2>4, <2>5, <2>6, <2>7, <2>8
<1> QED
  BY <1>5, <1>6

LEMMA SliceEndsHolds ==
    ASSUME IterationInv, Slices!SliceEnds
    PROVE  IterationInv'
<1> USE DEF IterationInv
<1> DEFINE D == 0..Items - 1
<1>0. /\ Items \in Nat /\ chunk \in Seq(D) /\ chunked \in Seq(Seq(D)) /\ Slices!MaxSize = 2 * Items
      /\ Len(chunk) \in Nat /\ Len(chunked) \in Nat /\ Len(nexts) \in Nat /\ Len(source) \in Nat
      /\ at = "slice" /\ <<>> \in {nexts, source}
      /\ UNCHANGED <<source, call, index, nexts, seen, elsewhere>>
  BY IterationConstants, LenProperties DEF Slices!TypeOK, Slices!SliceEnds
<1>1. CASE call.fun = "aslice"
  <2>1. at' = "ended" /\ UNCHANGED <<chunked, chunk>>
    BY <1>1 DEF Slices!SliceEnds
  <2>2. SliceHolds'
    BY <1>0, <1>1, <2>1 DEF SliceHolds
  <2>3. Taken' = Taken
    BY <1>0, <2>1, Zenon DEF Taken
  <2>4. Slices!TypeOK'
    BY <1>0, <2>1 DEF Slices!TypeOK
  <2> QED
    BY <1>0, <1>1, <2>2, <2>3, <2>4
<1>2. CASE call.fun = "chunks"
  <2>1. at' = "item" /\ chunked' = Append(chunked, chunk) /\ chunk' = <<>>
    BY <1>2 DEF Slices!SliceEnds
  <2>2. /\ chunked' \in Seq(Seq(D)) /\ Len(chunked') = Len(chunked) + 1
        /\ (\A k \in 1..Len(chunked) : chunked'[k] = chunked[k]) /\ chunked'[Len(chunked) + 1] = chunk
    BY <1>0, <2>1, AppendProperties
  <2>3. Taken' = Taken
    <3> DEFINE f == Slices!FlattenSeq(chunked)
    <3>1. Slices!FlattenSeq(chunked') = f \o chunk
      BY <1>0, <2>1, FlattenAppend
    <3>2. f \o chunk \in Seq(D)
      <4>1. f \in Seq(D)
        BY <1>0, FlattenIs
      <4> QED
        BY <1>0, <4>1, ConcatProperties
    <3>3. (f \o chunk) \o <<>> = f \o chunk
      BY <3>2, ConcatEmptySeq
    <3>4. Taken' = Slices!FlattenSeq(chunked') \o <<>> /\ Taken = f \o chunk
      BY <1>0, <1>2, <2>1 DEF Taken
    <3> QED
      BY <3>1, <3>3, <3>4, Zenon
  <2>4. /\ ChunksHold /\ call.n \in 1..Items /\ Len(chunk) = index + 1 /\ index \in Nat
        /\ Len(chunk) + Len(nexts) = IF call.n = 1 THEN Slices!MaxSize + 1 ELSE call.n
        /\ Len(chunk) + Len(source) <= Items
    BY <1>0, <1>2, CallIs DEF ChunksHold, Slices!TypeOK
  <2>5. /\ chunk # <<>> /\ Len(chunk) <= Size(call.n)
        /\ Len(chunk) < Size(call.n) => source = <<>>
    <3>1. chunk # <<>>
      BY <2>4
    <3>2. CASE call.n = 1
      <4>1. Len(nexts) # 0
        BY <1>0, <2>4, <3>2
      <4>2. source = <<>>
        BY <1>0, <4>1
      <4>3. Size(call.n) = Items
        BY <3>2 DEF Size
      <4> QED
        BY <1>0, <2>4, <3>1, <4>2, <4>3
    <3>3. CASE call.n # 1
      <4>1. Size(call.n) = call.n
        BY <3>3 DEF Size
      <4>2. nexts = <<>> => Len(nexts) = 0
        OBVIOUS
      <4> QED
        BY <1>0, <2>4, <3>1, <3>3, <4>1, <4>2
    <3> QED
      BY <3>2, <3>3
  <2>6. ASSUME NEW k \in 1..Len(chunked')
        PROVE  /\ chunked'[k] # <<>> /\ Len(chunked'[k]) <= Size(call.n)
               /\ Len(chunked'[k]) < Size(call.n) => k = Len(chunked') /\ source = <<>>
    <3>1. CASE k \in 1..Len(chunked)
      BY <1>0, <2>2, <2>4, <3>1 DEF ChunksHold
    <3>2. CASE k = Len(chunked) + 1
      BY <2>2, <2>5, <3>2
    <3> QED
      BY <1>0, <2>2, <3>1, <3>2
  <2>7. ChunksHold'
    <3>1. Size(call.n)' = Size(call.n)
      BY <1>0 DEF Size
    <3>2. Len(chunk') + Len(source') <= Items
      BY <1>0, <2>1, <2>4
    <3> QED
      BY <1>0, <2>1, <2>6, <3>1, <3>2 DEF ChunksHold
  <2>8. Slices!TypeOK'
    BY <1>0, <2>1, <2>2 DEF Slices!TypeOK
  <2> QED
    BY <1>0, <1>2, <2>3, <2>7, <2>8
<1> QED
  BY <1>1, <1>2, CallIs DEF Slices!TypeOK

LEMMA ElsewhereHolds ==
    ASSUME IterationInv, Slices!anext \/ Slices!ChunksEnd
    PROVE  IterationInv'
<1> USE DEF IterationInv
<1>1. CASE Slices!ChunksEnd
  <2>1. at = "item" /\ at' = "ended" /\ UNCHANGED <<source, call, index, nexts, chunk, chunked, seen, elsewhere>>
    BY <1>1 DEF Slices!ChunksEnd
  <2>2. call.fun = "chunks" /\ call.fun # "aslice"
    BY <2>1, CallIs DEF Slices!TypeOK, SliceHolds
  <2>3. Taken' = Taken
    BY <2>1, Zenon DEF Taken
  <2>4. ChunksHold'
    <3>1. Size(call.n)' = Size(call.n)
      BY <2>1 DEF Size
    <3> QED
      BY <2>1, <2>2, <3>1 DEF ChunksHold
  <2>5. Slices!TypeOK'
    BY <2>1 DEF Slices!TypeOK
  <2> QED
    BY <2>1, <2>2, <2>3, <2>4, <2>5
<1>2. CASE Slices!anext
  <2> DEFINE n == Items - Len(source)
             D == 0..Items - 1
  <2>1. /\ source # <<>> /\ elsewhere' = elsewhere \cup {Head(source)} /\ source' = Tail(source)
        /\ UNCHANGED <<call, at, index, nexts, chunk, chunked, seen>>
    BY <1>2 DEF Slices!anext
  <2>2. /\ Head(source) = n /\ n \in D /\ n \in Nat /\ Len(source) \in Nat \ {0} /\ Items \in Nat
        /\ SourceIs(source') /\ Len(source') = Len(source) - 1 /\ Items - Len(source') = n + 1
    BY <2>1, ReadNext, IterationConstants
  <2>3. Taken' = Taken /\ Taken \in Seq(D) /\ D \subseteq Nat
    <3>1. Taken' = Taken
      BY <2>1, Zenon DEF Taken
    <3> QED
      BY <3>1, TakenType
  <2>4. TakenInOrder(Taken, elsewhere, n)
    OBVIOUS
  <2> HIDE DEF n, D
  <2>5. TakenInOrder(Taken, elsewhere \cup {n}, n + 1)
    BY <2>2, <2>3, <2>4, TakeNext
  <2>6. call.fun = "aslice" => SliceHolds'
    <3> SUFFICES ASSUME call.fun = "aslice" PROVE SliceHolds'
      OBVIOUS
    <3>1. SliceHolds /\ Len(seen) \in Nat
      BY LenProperties DEF Slices!TypeOK
    <3>2. Len(seen) + Len(source') <= Items
      BY <2>2, <3>1 DEF SliceHolds
    <3> QED
      BY <2>1, <3>1, <3>2 DEF SliceHolds
  <2>7. call.fun = "chunks" => ChunksHold'
    <3> SUFFICES ASSUME call.fun = "chunks" PROVE ChunksHold'
      OBVIOUS
    <3>1. ChunksHold /\ Len(chunk) \in Nat
      BY LenProperties DEF Slices!TypeOK
    <3>2. Len(chunk) + Len(source') <= Items
      BY <2>2, <3>1 DEF ChunksHold
    <3>3. Size(call.n)' = Size(call.n)
      BY <2>1 DEF Size
    <3> QED
      BY <2>1, <3>1, <3>2, <3>3 DEF ChunksHold
  <2>8. Slices!TypeOK'
    BY <2>1, <2>2 DEF Slices!TypeOK, SourceIs, D
  <2> QED
    BY <2>1, <2>2, <2>3, <2>5, <2>6, <2>7, <2>8
<1> QED
  BY <1>1, <1>2

LEMMA IterationNext ==
    ASSUME IterationInv, [Slices!Next]_(Slices!vars)
    PROVE  IterationInv'
<1>0. call.fun = "aslice" \/ call.fun = "chunks"
  BY CallIs DEF IterationInv, Slices!TypeOK
<1>1. CASE Slices!ChunkBegins
  <2>1. call.fun = "chunks"
    BY <1>0, <1>1 DEF IterationInv, SliceHolds, Slices!ChunkBegins
  <2> QED
    BY <1>1, <2>1, ChunkItemHolds
<1>2. CASE Slices!SliceItem
  BY <1>0, <1>2, ChunkItemHolds, SliceItemHolds
<1>3. CASE Slices!SliceEnds
  BY <1>3, SliceEndsHolds
<1>4. CASE Slices!anext \/ Slices!ChunksEnd
  BY <1>4, ElsewhereHolds
<1>5. CASE UNCHANGED Slices!vars
  <2>1. UNCHANGED <<source, call, at, index, nexts, chunk, chunked, seen, elsewhere>>
    BY <1>5 DEF Slices!vars
  <2>2. Taken' = Taken
    BY <2>1, Zenon DEF Taken
  <2>3. Size(call.n)' = Size(call.n)
    BY <2>1 DEF Size
  <2>4. Slices!TypeOK' /\ SourceIs(source')
    BY <2>1 DEF IterationInv, Slices!TypeOK
  <2>5. SliceHolds => SliceHolds'
    BY <2>1 DEF SliceHolds
  <2>6. ChunksHold => ChunksHold'
    BY <2>1, <2>3 DEF ChunksHold
  <2> QED
    BY <2>1, <2>2, <2>4, <2>5, <2>6 DEF IterationInv
<1> QED
  BY <1>1, <1>2, <1>3, <1>4, <1>5 DEF Slices!Next

-----------------------------------------------------------------------------
\* What a slice asks for, as IterationRight says it.
SliceStep(c) == IF c.step = None THEN 1 ELSE c.step
Asked(c, i) ==
    i >= c.start /\ (c.stop = None \/ i < c.stop) /\ (i - c.start) % SliceStep(c) = 0

LEMMA AskedIs ==
    ASSUME NEW c \in SliceCall, c.stop # 0, c.step # 0, NEW i \in Nat, i < Slices!MaxSize
    PROVE  Asked(c, i) <=> i < End(c) /\ \E k \in Nat : i = Wanted(c, k)
<1>1. (c.stop = None \/ i < c.stop) <=> i < End(c)
  BY DEF End
<1>2. i >= c.start /\ (i - c.start) % Stride(c) = 0 <=> \E k \in Nat : i = Wanted(c, k)
  BY WantedMultiple
<1> QED
  BY <1>1, <1>2 DEF Asked, SliceStep, Stride

LEMMA SliceRight ==
    ASSUME IterationInv, call.fun = "aslice", call.stop # 0, call.step # 0
    PROVE  /\ chunk = [k \in 1..Len(chunk) |-> seen[call.start + (k - 1) * SliceStep(call) + 1]]
           /\ Len(chunk) = Cardinality({i \in 0..Len(seen) - 1 : Asked(call, i)})
           /\ seen # <<>> => Asked(call, Len(seen) - 1)
                            \/ \E i \in Len(seen)..Slices!MaxSize - 1 : Asked(call, i)
           /\ at = "ended" /\ source # <<>> =>
                ~\E i \in Len(seen)..Slices!MaxSize - 1 : Asked(call, i)
<1> DEFINE c == Len(chunk)
           q == Len(seen)
           D == 0..Items - 1
<1>0. /\ call \in SliceCall /\ Items \in Nat /\ Slices!MaxSize = 2 * Items /\ seen \in Seq(D) /\ chunk \in Seq(D)
      /\ source \in Seq(D) /\ c \in Nat /\ q \in Nat /\ Len(nexts) \in Nat /\ Len(source) \in Nat /\ SliceHolds
      /\ nexts \in Seq(0..Slices!MaxSize)
  BY CallIs, IterationConstants, LenProperties DEF Slices!TypeOK, IterationInv
<1>1. /\ End(call) \in 0..Slices!MaxSize
      /\ \A k \in Nat : Wanted(call, k) \in Nat /\ Wanted(call, k + 1) = Wanted(call, k) + Stride(call)
      /\ \A j, k \in Nat : j < k <=> Wanted(call, j) < Wanted(call, k)
  BY <1>0, WantedIs
<1>2. q <= Wanted(call, c) /\ q <= Items
      /\ \A k \in 1..c : Wanted(call, k - 1) < q /\ Wanted(call, k - 1) < End(call)
                         /\ chunk[k] = seen[Wanted(call, k - 1) + 1]
  <2>1. q + Len(source) <= Items
    BY <1>0 DEF SliceHolds
  <2>2. q <= Items
    <3> HIDE DEF q
    <3> QED
      BY <1>0, <2>1
  <2> QED
    BY <1>0, <2>2 DEF SliceHolds
<1>3. chunk = [k \in 1..c |-> seen[call.start + (k - 1) * SliceStep(call) + 1]]
  <2>1. chunk = [k \in 1..c |-> chunk[k]]
    BY <1>0
  <2>2. ASSUME NEW k \in 1..c PROVE chunk[k] = seen[call.start + (k - 1) * SliceStep(call) + 1]
    <3>1. Stride(call) = SliceStep(call)
      BY DEF Stride, SliceStep
    <3> QED
      BY <1>2, <3>1 DEF Wanted
  <2> HIDE DEF c
  <2> QED
    BY <2>1, <2>2
<1> HIDE DEF c, q, D
\* What was wanted up to an index are the first ones.
<1>4. ASSUME NEW i \in Nat, i < Slices!MaxSize, Asked(call, i), i < q
      PROVE  \E k \in 1..c : i = Wanted(call, k - 1)
  <2>1. PICK k \in Nat : i = Wanted(call, k)
    BY <1>0, <1>4, AskedIs
  <2>2. Wanted(call, k) < Wanted(call, c) /\ Wanted(call, c) \in Nat /\ Wanted(call, k) \in Nat
    <3>1. Wanted(call, c) \in Nat /\ Wanted(call, k) \in Nat
      BY <1>0, <1>1
    <3>2. q <= Wanted(call, c) /\ Wanted(call, k) < q
      BY <1>2, <1>4, <2>1
    <3> QED
      BY <1>0, <3>1, <3>2
  <2>3. k < c
    BY <1>0, <1>1, <2>2
  <2>4. k + 1 \in 1..c /\ (k + 1) - 1 = k
    BY <1>0, <2>3
  <2> QED
    BY <2>1, <2>4
<1>5. ASSUME NEW k \in 1..c
      PROVE  Wanted(call, k - 1) \in 0..q - 1 /\ Asked(call, Wanted(call, k - 1)) /\ k - 1 \in Nat
  <2>1. k - 1 \in Nat
    BY <1>0
  <2>2. Wanted(call, k - 1) \in Nat /\ Wanted(call, k - 1) < q /\ Wanted(call, k - 1) < End(call)
    BY <1>1, <1>2, <2>1
  <2>3. Wanted(call, k - 1) < Slices!MaxSize
    BY <1>0, <1>2, <2>2
  <2>4. Asked(call, Wanted(call, k - 1))
    BY <1>0, <2>1, <2>2, <2>3, AskedIs
  <2> QED
    BY <1>0, <2>1, <2>2, <2>4
<1>6. c = Cardinality({i \in 0..q - 1 : Asked(call, i)})
  <2> DEFINE S == {i \in 0..q - 1 : Asked(call, i)}
             f == [k \in 1..c |-> Wanted(call, k - 1)]
  <2>1. f \in [1..c -> S]
    BY <1>5
  <2>2. ASSUME NEW j \in 1..c, NEW k \in 1..c, f[j] = f[k] PROVE j = k
    <3>1. j - 1 \in Nat /\ k - 1 \in Nat /\ Wanted(call, j - 1) = Wanted(call, k - 1)
      BY <1>5, <2>2
    <3>2. ~(j - 1 < k - 1) /\ ~(k - 1 < j - 1)
      BY <1>1, <3>1
    <3> QED
      BY <1>0, <3>1, <3>2
  <2>3. ASSUME NEW i \in S PROVE \E k \in 1..c : f[k] = i
    <3>1. i \in Nat /\ i < Slices!MaxSize /\ i < q /\ Asked(call, i)
      BY <1>0, <1>2
    <3> QED
      BY <1>4, <3>1
  <2> HIDE DEF S, f
  <2>4. f \in Bijection(1..c, S)
    BY <2>1, <2>2, <2>3 DEF Bijection, Injection, Surjection, IsInjective
  <2>5. ExistsBijection(1..c, S)
    BY <2>4 DEF ExistsBijection
  <2>6. Cardinality(S) = c
    BY <1>0, <2>5, FS_CountingElements
  <2> QED
    BY <2>6 DEF S
<1>7. ASSUME seen # <<>>
      PROVE  Asked(call, q - 1) \/ \E i \in q..Slices!MaxSize - 1 : Asked(call, i)
  <2>1. CASE nexts = <<>>
    <3>1. c # 0 /\ q = Wanted(call, c - 1) + 1
      <4>1. q # 0
        BY <1>0, <1>7, EmptySeq DEF q
      <4> QED
        BY <1>0, <2>1, <4>1 DEF SliceHolds, c, q
    <3>2. c \in 1..c
      BY <1>0, <3>1
    <3>3. Asked(call, Wanted(call, c - 1)) /\ Wanted(call, c - 1) = q - 1
      <4>1. Wanted(call, c - 1) \in Nat
        BY <1>0, <1>1, <1>5, <3>2
      <4> QED
        BY <1>0, <1>5, <3>1, <3>2, <4>1
    <3> QED
      BY <3>3
  <2>2. CASE nexts # <<>>
    <3>1. nexts[1] = Wanted(call, c) /\ nexts[1] < End(call)
      <4>1. 1 \in 1..Len(nexts)
        BY <1>0, <2>2, EmptySeq
      <4>2. nexts[1] = Wanted(call, Len(chunk) + 1 - 1) /\ nexts[1] < End(call)
        BY <1>0, <4>1 DEF SliceHolds
      <4>3. Len(chunk) + 1 - 1 = c
        BY <1>0 DEF c
      <4> QED
        BY <4>2, <4>3
    <3> DEFINE i == Wanted(call, c)
    <3>2. i \in Nat /\ i < End(call) /\ i < Slices!MaxSize /\ q <= i
      <4>1. i \in Nat
        BY <1>0, <1>1
      <4>2. i < End(call) /\ q <= i
        BY <1>2, <3>1
      <4>3. End(call) \in Int /\ End(call) <= Slices!MaxSize /\ Slices!MaxSize \in Int
        BY <1>0, <1>1
      <4> HIDE DEF i
      <4> QED
        BY <4>1, <4>2, <4>3
    <3>3. Asked(call, i)
      BY <1>0, <3>2, AskedIs
    <3> HIDE DEF i
    <3>4. i \in q..Slices!MaxSize - 1
      BY <1>0, <3>2
    <3> QED
      BY <3>3, <3>4
  <2> QED
    BY <2>1, <2>2
<1>8. ASSUME at = "ended", source # <<>>, NEW i \in q..Slices!MaxSize - 1, Asked(call, i)
      PROVE  FALSE
  <2>1. nexts = <<>>
    BY <1>0, <1>8 DEF SliceHolds
  <2>2. Wanted(call, c) >= End(call)
    <3>1. Wanted(call, Len(chunk) + Len(nexts)) >= End(call) /\ Len(chunk) + Len(nexts) = c
      BY <1>0, <2>1 DEF SliceHolds, c
    <3> QED
      BY <3>1
  <2>3. i \in Nat /\ i < Slices!MaxSize /\ q <= i
    BY <1>0, <1>8
  <2>4. PICK k \in Nat : i = Wanted(call, k) /\ i < End(call)
    BY <1>0, <1>8, <2>3, AskedIs
  <2>5. k < c
    <3>1. Wanted(call, c) \in Nat /\ Wanted(call, k) \in Nat
      BY <1>0, <1>1
    <3>2. End(call) \in Int
      BY <1>0, <1>1
    <3>3. Wanted(call, k) < Wanted(call, c)
      BY <2>2, <2>4, <3>1, <3>2
    <3> QED
      BY <1>0, <1>1, <3>3
  <2>6. k + 1 \in 1..c /\ (k + 1) - 1 = k
    BY <1>0, <2>5
  <2>7. i < q
    BY <1>2, <2>4, <2>6
  <2> QED
    BY <1>0, <2>3, <2>7
<1> QED
  BY <1>3, <1>6, <1>7, <1>8 DEF c, q

\* Slices and chunks lose nothing.
LEMMA IterationIsRight == IterationInv => Slices!IterationRight
<1> SUFFICES ASSUME IterationInv PROVE Slices!IterationRight
  OBVIOUS
<1> DEFINE mine == Slices!FlattenSeq(chunked) \o chunk
           taken == IF call.fun = "aslice" THEN seen ELSE mine
<1>0. Items \in Nat /\ source \in Seq(0..Items - 1) /\ Len(source) \in Nat /\ chunk \in Seq(0..Items - 1)
      /\ Len(chunk) \in Nat
  BY IterationConstants, LenProperties DEF IterationInv, Slices!TypeOK
<1>1. /\ \A i, j \in 1..Len(taken) : i < j => taken[i] < taken[j]
      /\ Slices!ToSet(taken) \cap elsewhere = {}
      /\ Slices!ToSet(taken) \cup elsewhere = 0..(Items - 1 - Len(source))
  <2>1. taken = Taken
    BY Zenon DEF Taken
  <2> HIDE DEF taken
  <2>2. (Items - Len(source)) - 1 = Items - 1 - Len(source)
    BY <1>0
  <2> QED
    BY <2>1, <2>2 DEF IterationInv, TakenInOrder
<1>2. ASSUME call.fun = "aslice", call.stop # 0, call.step # 0
      PROVE  LET step == IF call.step = None THEN 1 ELSE call.step
                 Ask(i) == i >= call.start /\ (call.stop = None \/ i < call.stop)
                           /\ (i - call.start) % step = 0 IN
             /\ Len(chunk) = Cardinality({i \in 0..Len(seen) - 1 : Ask(i)})
             /\ chunk = [k \in 1..Len(chunk) |-> seen[call.start + (k - 1) * step + 1]]
             /\ seen # <<>> => Ask(Len(seen) - 1) \/ \E i \in Len(seen)..Slices!MaxSize - 1 : Ask(i)
             /\ at = "ended" /\ source # <<>> => ~\E i \in Len(seen)..Slices!MaxSize - 1 : Ask(i)
  BY <1>2, SliceRight, Zenon DEF Asked, SliceStep
<1>3. ASSUME call.fun = "chunks", call.n > 1
      PROVE  /\ \A k \in 1..Len(chunked) :
                  /\ chunked[k] # <<>> /\ Len(chunked[k]) <= call.n
                  /\ Len(chunked[k]) < call.n =>
                       k = Len(chunked) /\ source = <<>> /\ at # "slice"
             /\ Len(chunk) <= call.n
  <2>1. ChunksHold /\ call.n \in 1..Items /\ Len(nexts) \in Nat /\ Slices!MaxSize = 2 * Items
    BY <1>3, CallIs, IterationConstants, LenProperties DEF IterationInv, Slices!TypeOK
  <2>2. Len(chunk) <= Size(call.n)
    <3>1. CASE at # "slice"
      <4>1. chunk = <<>> /\ Len(chunk) = 0
        BY <2>1, <3>1 DEF ChunksHold
      <4> QED
        BY <1>0, <2>1, <4>1 DEF Size
    <3>2. CASE at = "slice"
      <4>1. Len(chunk) + Len(nexts) = (IF call.n = 1 THEN Slices!MaxSize + 1 ELSE call.n)
            /\ Len(chunk) + Len(source) <= Items
        BY <2>1, <3>2 DEF ChunksHold
      <4> QED
        BY <1>0, <2>1, <4>1 DEF Size
    <3> QED
      BY <3>1, <3>2
  <2>3. Size(call.n) = call.n
    BY <1>3, <2>1 DEF Size
  <2> QED
    BY <2>1, <2>2, <2>3 DEF ChunksHold
<1> QED
  BY <1>1, <1>2, <1>3, Zenon DEF Slices!IterationRight, Slices!Cardinality, Cardinality

LEMMA IterationsHold == Spec => [](Slices!TypeOK /\ Slices!IterationRight)
<1>1. IterationInv => Slices!TypeOK
  BY DEF IterationInv
<1> QED
  BY IterationInit, IterationNext, IterationIsRight, PartSteps, <1>1, PTL DEF Spec

-----------------------------------------------------------------------------
(* The parts together.                                                     *)

\* The topological sort gives every vertex that hangs on no cycle once, after what it
\* depends on (DependencyGraph of mode/utils/graphs); and a node of a tree is a child of
\* its parent unless it was discarded, walk() from it ends unless it was misled, and its
\* root is the top unless an ancestor has moved (Node of mode/utils/trees.py).
THEOREM GraphsStayRight == Spec => []GraphsRight
<1>1. Graphs!KhanRight /\ Trees!TreeRight => GraphsRight
  BY DEF GraphsRight
<1> QED
  BY GraphsHold, NodesHold, <1>1, PTL

\* A proxy that caches makes its object once and runs its finalizers first, and a proxy
\* to a service stops the one it started (mode/locals.py, mode/proxy.py).  Slices and
\* chunks lose no item of the iterator they share; a slice whose stop and step are not 0
\* yields what Python's slice of the items it has awaited has, and chunks of more than
\* one item are as long as they were asked to be, but for the last (mode/utils/aiter.py).
THEOREM LazyStaysRight == Spec => []LazyRight
<1>1. Proxies!ProxyRight /\ Services!ServiceProxyRight /\ Slices!IterationRight => LazyRight
  BY DEF LazyRight
<1> QED
  BY ProxiesHold, ServiceProxyHolds, IterationsHold, <1>1, PTL

\* The variables of every part have their types.
THEOREM DataTypes == Spec => []TypeOK
<1>1. Spec => [](part \in Part)
  <2>1. Init => part \in Part
    BY DEF Init
  <2>2. part \in Part /\ [Next]_vars => (part \in Part)'
    BY PartSteps DEF Part
  <2> QED
    BY <2>1, <2>2, PTL DEF Spec
<1>2. ManagedInv => Mirrors!TypeOK
  BY DEF ManagedInv
<1>3. SignalInv => Sends!TypeOK
  BY DEF SignalInv
<1>4. ExitInv => Exits!TypeOK
  BY DEF ExitInv
<1>5. /\ part \in Part /\ Caches!TypeOK /\ Mirrors!TypeOK /\ Sends!TypeOK /\ Exits!TypeOK
      /\ Ticks!TypeOK /\ Alarm!TypeOK /\ Graphs!TypeOK /\ Trees!TypeOK /\ Proxies!TypeOK
      /\ Redirects!TypeOK /\ Loads!TypeOK /\ Slices!TypeOK /\ Heaps!TypeOK /\ Services!TypeOK
      => TypeOK
  BY DEF TypeOK
<1> QED
  BY <1>1, <1>2, <1>3, <1>4, <1>5, ManagedInvariant, SignalInvariant, ExitsHold, CachesHold,
     TimerInvariant, TimerHolds, DetectorInvariant, DetectorHolds, GraphsHold, NodesHold,
     ProxiesHold, StreamsHold, ImportsHold, IterationsHold, HeapsHold, ServiceProxyHolds, PTL
=============================================================================
