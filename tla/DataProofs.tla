------------------------------ MODULE DataProofs ------------------------------
(* The parts that are used one object at a time, for every value of their    *)
(* constants: what all the proofs need, then collections that tell what      *)
(* changes, signals, timers, proxies, what is global, and nodes.             *)
EXTENDS Data, FiniteSetTheorems, SequenceTheorems, WellFoundedInduction, TLAPS

LEMMA LeastNumber ==
    ASSUME NEW T, T \subseteq Nat, T # {}
    PROVE  \E n \in T : \A m \in T : n <= m
<1> DEFINE R == {ss \in Nat \X Nat : ss[1] < ss[2]}
<1>1. IsWellFoundedOn(R, Nat)
  BY NatLessThanWellFounded DEF OpToRel
<1>2. \A m, n \in Nat : m < n => <<m, n>> \in R
  OBVIOUS
<1> HIDE DEF R
<1>3. PICK n \in T : \A m \in T : ~(<<m, n>> \in R)
  BY <1>1, WFMin
<1>4. \A m \in T : ~(m < n)
  BY <1>2, <1>3
<1> QED
  BY <1>4

\* Induction on a measure, without an operator for what is proved.
LEMMA MeasureInduction ==
    ASSUME NEW S, NEW size \in [S -> Nat], NEW T,
           \A s \in S : (\A r \in S : size[r] < size[s] => r \in T) => s \in T
    PROVE  \A s \in S : s \in T
<1> SUFFICES ASSUME NEW bad \in S, bad \notin T PROVE FALSE
  OBVIOUS
<1> DEFINE U == {size[s] : s \in {r \in S : r \notin T}}
<1>1. U \subseteq Nat /\ U # {}
  OBVIOUS
<1>2. PICK n \in U : \A m \in U : n <= m
  <2> HIDE DEF U
  <2> QED
    BY <1>1, LeastNumber
<1>3. PICK s \in S : s \notin T /\ size[s] = n
  BY <1>2
<1>4. ASSUME NEW r \in S, size[r] < size[s] PROVE r \in T
  <2>1. CASE r \notin T
    <3>1. size[r] \in U
      BY <2>1
    <3>2. n <= size[r] /\ n \in Nat /\ size[r] \in Nat
      BY <1>1, <1>2, <3>1
    <3> QED
      BY <1>3, <1>4, <3>2
  <2> QED
    BY <2>1
<1> QED
  BY <1>3, <1>4

LEMMA Induction ==
    ASSUME NEW T, 0 \in T, \A n \in Nat : n \in T => n + 1 \in T
    PROVE  \A n \in Nat : n \in T
<1> DEFINE size == [n \in Nat |-> n]
<1>1. ASSUME NEW n \in Nat, \A m \in Nat : size[m] < size[n] => m \in T
      PROVE  n \in T
  <2>1. CASE n # 0
    <3>1. n - 1 \in Nat /\ n - 1 < n /\ (n - 1) + 1 = n
      BY <2>1
    <3>2. n - 1 \in T
      BY <1>1, <3>1
    <3> QED
      BY <3>1, <3>2
  <2> QED
    BY <2>1
<1>2. size \in [Nat -> Nat]
  OBVIOUS
<1> HIDE DEF size
<1> QED
  BY <1>1, <1>2, MeasureInduction

\* A function that is defined by what it gives for a smaller argument exists.
Shrinks(S, Y, size, base, first, prev, step) ==
    /\ size \in [S -> Nat] /\ first \in [S -> Y]
    /\ prev \in [S -> S] /\ step \in [S -> [Y -> Y]]
    /\ \A s \in S : s \notin base => size[prev[s]] < size[s]
Follows(f, S, base, first, prev, step) ==
    \A s \in S : f[s] = IF s \in base THEN first[s] ELSE step[s][f[prev[s]]]

LEMMA RecursiveFunction ==
    ASSUME NEW S, NEW Y, NEW size, NEW base, NEW first, NEW prev, NEW step,
           Shrinks(S, Y, size, base, first, prev, step)
    PROVE  \E f \in [S -> Y] : Follows(f, S, base, first, prev, step)
<1> USE DEF Shrinks
<1> DEFINE Closed(G) ==
             \A s \in S : /\ s \in base => first[s] \in G[s]
                          /\ s \notin base => \A y \in G[prev[s]] : step[s][y] \in G[s]
           F == [s \in S |-> {y \in Y : \A G \in [S -> SUBSET Y] : Closed(G) => y \in G[s]}]
<1>1. F \in [S -> SUBSET Y] /\ \A s \in S, y \in Y :
        y \in F[s] <=> \A G \in [S -> SUBSET Y] : Closed(G) => y \in G[s]
  <2> HIDE DEF Closed
  <2> QED
    OBVIOUS
<1> HIDE DEF F
<1>2. Closed(F)
  <2>1. ASSUME NEW s \in S, s \in base PROVE first[s] \in F[s]
    <3>1. \A G \in [S -> SUBSET Y] : Closed(G) => first[s] \in G[s]
      BY <2>1
    <3>2. first[s] \in Y
      OBVIOUS
    <3> HIDE DEF Closed
    <3> QED
      BY <1>1, <3>1, <3>2
  <2>2. ASSUME NEW s \in S, s \notin base, NEW y \in F[prev[s]] PROVE step[s][y] \in F[s]
    <3>1. prev[s] \in S /\ y \in Y /\ step[s][y] \in Y
      BY <1>1
    <3>2. ASSUME NEW G \in [S -> SUBSET Y], Closed(G) PROVE step[s][y] \in G[s]
      <4>1. y \in G[prev[s]]
        <5> HIDE DEF Closed
        <5> QED
          BY <1>1, <3>1, <3>2
      <4> QED
        BY <2>2, <3>2, <4>1
    <3> HIDE DEF Closed
    <3> QED
      BY <1>1, <3>1, <3>2
  <2> QED
    BY <2>1, <2>2
<1>3. ASSUME NEW s \in S, NEW y \in Y, Closed([F EXCEPT ![s] = @ \ {y}])
      PROVE  y \notin F[s]
  <2> DEFINE G == [F EXCEPT ![s] = @ \ {y}]
  <2>1. G \in [S -> SUBSET Y] /\ y \notin G[s]
    BY <1>1
  <2>2. Closed(G)
    BY <1>3
  <2> HIDE DEF Closed, G
  <2> QED
    BY <1>1, <2>1, <2>2
<1> DEFINE T == {s \in S : \E y \in F[s] : \A z \in F[s] : z = y}
<1>4. ASSUME NEW s \in S, \A r \in S : size[r] < size[s] => r \in T
      PROVE  s \in T
  <2>1. CASE s \in base
    <3>1. first[s] \in F[s]
      BY <1>2, <2>1
    <3>2. ASSUME NEW z \in F[s], z # first[s] PROVE FALSE
      <4>1. z \in Y
        BY <1>1
      <4>2. Closed([F EXCEPT ![s] = @ \ {z}])
        <5> DEFINE G == [F EXCEPT ![s] = @ \ {z}]
        <5>1. \A r \in S : G[r] = IF r = s THEN F[r] \ {z} ELSE F[r]
          BY <1>1
        <5>2. \A r \in S : G[r] \subseteq F[r]
          BY <5>1
        <5> HIDE DEF G
        <5>3. Closed(G)
          BY <1>2, <2>1, <3>2, <5>1, <5>2
        <5> QED
          BY <5>3 DEF G
      <4> HIDE DEF Closed
      <4> QED
        BY <1>3, <4>1, <4>2
    <3> QED
      BY <3>1, <3>2
  <2>2. CASE s \notin base
    <3>1. PICK y \in F[prev[s]] : \A z \in F[prev[s]] : z = y
      BY <1>4, <2>2
    <3>2. step[s][y] \in F[s]
      BY <1>2, <2>2, <3>1
    <3>3. ASSUME NEW z \in F[s], z # step[s][y] PROVE FALSE
      <4>1. z \in Y
        BY <1>1
      <4>2. Closed([F EXCEPT ![s] = @ \ {z}])
        <5> DEFINE G == [F EXCEPT ![s] = @ \ {z}]
        <5>1. \A r \in S : G[r] = IF r = s THEN F[r] \ {z} ELSE F[r]
          BY <1>1
        <5>2. \A r \in S : G[r] \subseteq F[r]
          BY <5>1
        <5> HIDE DEF G
        <5>3. ASSUME NEW r \in S PROVE /\ r \in base => first[r] \in G[r]
                                       /\ r \notin base => \A x \in G[prev[r]] : step[r][x] \in G[r]
          <6>1. CASE r = s
            <7>1. ASSUME NEW x \in G[prev[s]] PROVE step[s][x] \in G[s]
              <8>1. x = y
                BY <3>1, <5>2
              <8> QED
                BY <3>2, <3>3, <5>1, <8>1
            <7> QED
              BY <2>2, <6>1, <7>1
          <6>2. CASE r # s
            BY <1>2, <5>1, <5>2, <6>2
          <6> QED
            BY <6>1, <6>2
        <5> QED
          BY <5>3 DEF G
      <4> HIDE DEF Closed
      <4> QED
        BY <1>3, <4>1, <4>2
    <3> QED
      BY <3>2, <3>3
  <2> QED
    BY <2>1, <2>2
<1>5. \A s \in S : s \in T
  <2> HIDE DEF T
  <2> QED
    BY <1>4, MeasureInduction
<1> DEFINE f == [s \in S |-> CHOOSE y \in Y : y \in F[s]]
<1>6. \A s \in S : f[s] \in Y /\ f[s] \in F[s] /\ \A z \in F[s] : z = f[s]
  BY <1>1, <1>5
<1>7. f \in [S -> Y]
  BY <1>6
<1> HIDE DEF f, T
<1>8. ASSUME NEW s \in S PROVE f[s] = IF s \in base THEN first[s] ELSE step[s][f[prev[s]]]
  <2>1. prev[s] \in S
    OBVIOUS
  <2> QED
    BY <1>2, <1>6, <2>1
<1> QED
  BY <1>7, <1>8 DEF Follows

LEMMA RecursionOnNat ==
    ASSUME NEW Y, NEW x \in Y, NEW up \in [Y -> Y]
    PROVE  \E f \in [Nat -> Y] : f[0] = x /\ \A i \in Nat : f[i + 1] = up[f[i]]
<1> DEFINE N == Nat
           size == [i \in N |-> i]
           first == [i \in N |-> x]
           prev == [i \in N |-> IF i = 0 THEN 0 ELSE i - 1]
           step == [i \in N |-> up]
           base == {0}
<1>1. Shrinks(N, Y, size, base, first, prev, step)
  BY DEF Shrinks
<1>2. PICK f \in [N -> Y] : Follows(f, N, base, first, prev, step)
  <2> HIDE DEF N, size, first, prev, step, base
  <2> QED
    BY <1>1, RecursiveFunction
<1>3. ASSUME NEW i \in Nat PROVE f[i + 1] = up[f[i]]
  <2>1. i + 1 \in N /\ i + 1 \notin base /\ prev[i + 1] = i /\ step[i + 1] = up
    OBVIOUS
  <2> QED
    BY <1>2, <2>1 DEF Follows
<1>4. f[0] = x
  BY <1>2 DEF Follows
<1> QED
  BY <1>3, <1>4

\* A function that gives what it gives for a smaller argument exists.
Descends(S, Y, size, done, first, next) ==
    /\ size \in [S -> Nat] /\ first \in [S -> Y] /\ next \in [S -> S]
    /\ \A s \in S : s \notin done => size[next[s]] < size[s]
Gives(f, S, done, first, next) ==
    \A s \in S : f[s] = IF s \in done THEN first[s] ELSE f[next[s]]

LEMMA TailRecursion ==
    ASSUME NEW S, NEW Y, NEW size, NEW done, NEW first, NEW next,
           Descends(S, Y, size, done, first, next)
    PROVE  \E f \in [S -> Y] : Gives(f, S, done, first, next)
<1> USE DEF Descends
<1> DEFINE step == [s \in S |-> [y \in Y |-> y]]
<1>1. step \in [S -> [Y -> Y]] /\ \A s \in S, y \in Y : step[s][y] = y
  OBVIOUS
<1> HIDE DEF step
<1>2. Shrinks(S, Y, size, done, first, next, step)
  BY <1>1 DEF Shrinks
<1>3. PICK f \in [S -> Y] : Follows(f, S, done, first, next, step)
  BY <1>2, RecursiveFunction
<1>4. ASSUME NEW s \in S PROVE f[s] = IF s \in done THEN first[s] ELSE f[next[s]]
  <2>1. next[s] \in S /\ f[next[s]] \in Y
    OBVIOUS
  <2> QED
    BY <1>1, <1>3, <2>1 DEF Follows
<1> QED
  BY <1>4 DEF Gives

\* And what it gives is what it gives at the end.
LEMMA TailRecursionGives ==
    ASSUME NEW S, NEW Y, NEW size, NEW done, NEW first, NEW next,
           Descends(S, Y, size, done, first, next), NEW f, Gives(f, S, done, first, next)
    PROVE  \A s \in S : f[s] \in Y
<1> USE DEF Descends, Gives
<1> DEFINE T == {s \in S : f[s] \in Y}
<1>1. ASSUME NEW s \in S, \A r \in S : size[r] < size[s] => r \in T PROVE s \in T
  BY <1>1
<1> HIDE DEF T
<1>2. \A s \in S : s \in T
  BY <1>1, MeasureInduction
<1> QED
  BY <1>2 DEF T

-----------------------------------------------------------------------------
(* Sequences.                                                              *)

Removed(q, k, r) == r = SubSeq(q, 1, k - 1) \o SubSeq(q, k + 1, Len(q))
Distinct(q) == \A i, j \in 1..Len(q) : q[i] = q[j] => i = j

\* One element is taken out of a sequence.
LEMMA Removal ==
    ASSUME NEW D, NEW q \in Seq(D), NEW k \in 1..Len(q),
           NEW r, Removed(q, k, r)
    PROVE  /\ r \in Seq(D) /\ Len(r) = Len(q) - 1 /\ DOMAIN r = 1..(Len(q) - 1)
           /\ \A i \in 1..(k - 1) : r[i] = q[i]
           /\ \A i \in k..(Len(q) - 1) : r[i] = q[i + 1]
           /\ \A i \in 1..(Len(q) - 1) :
                \/ i \in 1..(k - 1) /\ r[i] = q[i]
                \/ i \in k..(Len(q) - 1) /\ r[i] = q[i + 1]
<1>1. Len(q) \in Nat /\ DOMAIN q = 1..Len(q) /\ \A i \in 1..Len(q) : q[i] \in D
  BY LenProperties, ElementOfSeq
<1> DEFINE a == SubSeq(q, 1, k - 1)
           b == SubSeq(q, k + 1, Len(q))
<1>5. a \in Seq(D) /\ Len(a) = k - 1 /\ \A i \in 1..(k - 1) : a[i] = q[i]
  <2>1. /\ a \in Seq(D) /\ Len(a) = IF 1 <= k - 1 THEN k - 1 - 1 + 1 ELSE 0
        /\ \A i \in 1..(k - 1 - 1 + 1) : a[i] = q[1 + i - 1]
    <3>1. \A i \in 1..(k - 1) : q[i] \in D
      BY <1>1
    <3> QED
      BY <3>1, SubSeqProperties
  <2> QED
    BY <1>1, <2>1
<1>6. b \in Seq(D) /\ Len(b) = Len(q) - k /\ \A i \in 1..(Len(q) - k) : b[i] = q[k + i]
  <2>1. /\ b \in Seq(D) /\ Len(b) = IF k + 1 <= Len(q) THEN Len(q) - (k + 1) + 1 ELSE 0
        /\ \A i \in 1..(Len(q) - (k + 1) + 1) : b[i] = q[k + 1 + i - 1]
    <3>1. \A i \in (k + 1)..Len(q) : q[i] \in D
      BY <1>1
    <3> QED
      BY <1>1, <3>1, SubSeqProperties
  <2>2. Len(b) = Len(q) - k
    <3>1. k \in Nat /\ Len(q) \in Nat /\ k <= Len(q)
      BY <1>1
    <3>2. CASE k = Len(q)
      BY <2>1, <3>1, <3>2
    <3>3. CASE k < Len(q)
      BY <2>1, <3>1, <3>3
    <3> QED
      BY <3>1, <3>2, <3>3
  <2>3. ASSUME NEW i \in 1..(Len(q) - k) PROVE b[i] = q[k + i]
    <3>1. i \in 1..(Len(q) - (k + 1) + 1) /\ k + 1 + i - 1 = k + i
      BY <1>1
    <3>2. b[i] = q[k + 1 + i - 1]
      BY <2>1, <3>1
    <3> QED
      BY <3>1, <3>2
  <2> QED
    BY <2>1, <2>2, <2>3
<1>0. r = a \o b
  BY DEF Removed
<1> HIDE DEF a, b
<1>7. /\ r \in Seq(D) /\ Len(r) = Len(q) - 1 /\ DOMAIN r = 1..(Len(q) - 1)
      /\ \A i \in 1..(k - 1) : r[i] = q[i]
      /\ \A i \in k..(Len(q) - 1) : r[i] = q[i + 1]
  <2>1. /\ r \in Seq(D) /\ Len(r) = Len(a) + Len(b)
        /\ \A i \in 1..(Len(a) + Len(b)) : r[i] = IF i <= Len(a) THEN a[i] ELSE b[i - Len(a)]
    <3>1. a \o b \in Seq(D) /\ Len(a \o b) = Len(a) + Len(b)
          /\ \A i \in 1..(Len(a) + Len(b)) :
               (a \o b)[i] = IF i <= Len(a) THEN a[i] ELSE b[i - Len(a)]
      BY <1>5, <1>6, ConcatProperties
    <3> QED
      BY <1>0, <3>1
  <2>2. Len(a) + Len(b) = Len(q) - 1
    BY <1>1, <1>5, <1>6
  <2>3. DOMAIN r = 1..Len(r)
    BY <2>1, LenProperties
  <2>4. ASSUME NEW i \in 1..(k - 1) PROVE r[i] = q[i]
    <3>1. i \in 1..(Len(a) + Len(b)) /\ i <= Len(a)
      BY <1>1, <1>5, <2>2
    <3> QED
      BY <1>5, <2>1, <3>1
  <2>5. ASSUME NEW i \in k..(Len(q) - 1) PROVE r[i] = q[i + 1]
    <3>1. /\ i \in 1..(Len(a) + Len(b)) /\ ~(i <= Len(a))
          /\ i - Len(a) \in 1..(Len(q) - k) /\ k + (i - Len(a)) = i + 1
      BY <1>1, <1>5, <2>2
    <3>2. r[i] = b[i - Len(a)] /\ b[i - Len(a)] = q[k + (i - Len(a))]
      BY <1>6, <2>1, <3>1
    <3> QED
      BY <3>1, <3>2
  <2> QED
    BY <2>1, <2>2, <2>3, <2>4, <2>5
<1>8. \A i \in 1..(Len(q) - 1) :
        \/ i \in 1..(k - 1) /\ r[i] = q[i]
        \/ i \in k..(Len(q) - 1) /\ r[i] = q[i + 1]
  BY <1>1, <1>7
<1> QED
  BY <1>7, <1>8

\* It is gone from a sequence that had it once.
LEMMA DistinctRemoval ==
    ASSUME NEW D, NEW q \in Seq(D), Distinct(q), NEW k \in 1..Len(q),
           NEW r, Removed(q, k, r)
    PROVE  /\ Distinct(r)
           /\ {r[i] : i \in DOMAIN r} = {q[i] : i \in DOMAIN q} \ {q[k]}
<1>1. Len(q) \in Nat /\ DOMAIN q = 1..Len(q)
  BY LenProperties
<1>2. /\ Len(r) = Len(q) - 1 /\ DOMAIN r = 1..(Len(q) - 1)
      /\ \A i \in 1..(k - 1) : r[i] = q[i]
      /\ \A i \in k..(Len(q) - 1) : r[i] = q[i + 1]
      /\ \A i \in 1..(Len(q) - 1) :
           \/ i \in 1..(k - 1) /\ r[i] = q[i]
           \/ i \in k..(Len(q) - 1) /\ r[i] = q[i + 1]
  BY Removal
<1>3. Distinct(r)
  <2>1. ASSUME NEW i \in 1..(Len(q) - 1), NEW j \in 1..(Len(q) - 1), r[i] = r[j]
        PROVE  i = j
    BY <1>1, <1>2, <2>1 DEF Distinct
  <2> QED
    BY <1>2, <2>1 DEF Distinct
<1>4. ASSUME NEW i \in 1..(Len(q) - 1) PROVE r[i] \in {q[j] : j \in 1..Len(q)} /\ r[i] # q[k]
  BY <1>1, <1>2 DEF Distinct
<1>5. ASSUME NEW i \in 1..Len(q), q[i] # q[k] PROVE \E j \in 1..(Len(q) - 1) : r[j] = q[i]
  <2>1. CASE i < k
    BY <1>1, <1>2, <2>1
  <2>2. CASE i > k
    <3>1. i - 1 \in k..(Len(q) - 1) /\ i - 1 \in 1..(Len(q) - 1) /\ (i - 1) + 1 = i
      BY <1>1, <2>2
    <3> QED
      BY <1>2, <3>1
  <2> QED
    BY <1>1, <1>5, <2>1, <2>2
<1>6. {r[i] : i \in 1..(Len(q) - 1)} \subseteq {q[i] : i \in 1..Len(q)} \ {q[k]}
  BY <1>4
<1>7. {q[i] : i \in 1..Len(q)} \ {q[k]} \subseteq {r[i] : i \in 1..(Len(q) - 1)}
  BY <1>5
<1> QED
  BY <1>1, <1>2, <1>3, <1>6, <1>7

\* A new one is put at the end.
LEMMA DistinctAppend ==
    ASSUME NEW D, NEW q \in Seq(D), Distinct(q), NEW x \in D, \A i \in 1..Len(q) : q[i] # x
    PROVE  /\ Append(q, x) \in Seq(D) /\ Len(Append(q, x)) = Len(q) + 1
           /\ Distinct(Append(q, x))
<1>1. Len(q) \in Nat
  BY LenProperties
<1>2. /\ Append(q, x) \in Seq(D) /\ Len(Append(q, x)) = Len(q) + 1
      /\ \A i \in 1..Len(q) : Append(q, x)[i] = q[i]
      /\ Append(q, x)[Len(q) + 1] = x
  BY AppendProperties
<1> QED
  BY <1>1, <1>2 DEF Distinct

\* A finite set bounds them.
LEMMA DistinctBound ==
    ASSUME NEW D, IsFiniteSet(D), NEW q \in Seq(D), Distinct(q)
    PROVE  Len(q) <= Cardinality(D)
<1>1. Len(q) \in Nat /\ DOMAIN q = 1..Len(q) /\ q \in [1..Len(q) -> D]
  BY LenProperties
<1>2. IsFiniteSet(1..Len(q)) /\ Cardinality(1..Len(q)) = Len(q)
  <2>1. /\ IsFiniteSet(1..Len(q))
        /\ Cardinality(1..Len(q)) = IF 1 > Len(q) THEN 0 ELSE Len(q) - 1 + 1
    BY <1>1, FS_Interval
  <2> QED
    BY <1>1, <2>1
<1>3. q \in Injection(1..Len(q), D)
  BY <1>1 DEF Distinct, Injection, IsInjective
<1> QED
  BY <1>2, <1>3, FS_Injection

\* A step of the program is a step of one part, and the others stutter.
LEMMA PartSteps ==
    ASSUME [Next]_vars
    PROVE  /\ [Caches!Next]_(Caches!vars) /\ [Mirrors!Next]_(Mirrors!vars) /\ [Sends!Next]_(Sends!vars)
           /\ [Exits!Next]_(Exits!vars) /\ [Ticks!Next]_(Ticks!vars) /\ [Alarm!Next]_(Alarm!vars)
           /\ [Graphs!Next]_(Graphs!vars) /\ [Trees!Next]_(Trees!vars) /\ [Proxies!Next]_(Proxies!vars)
           /\ [Redirects!Next]_(Redirects!vars) /\ [Loads!Next]_(Loads!vars) /\ [Heaps!Next]_(Heaps!vars)
           /\ [Services!Next]_(Services!vars) /\ [Slices!Next]_(Slices!vars)
           /\ part \in Part => part' \in Part
<1> USE DEF lru, managed, signals, exits, timers, alarm, graphs, trees, proxies, streams,
       imports, heaps, services, iterations, Caches!vars, Mirrors!vars, Sends!vars, Exits!vars, Ticks!vars,
       Ticks!counters, Alarm!vars, Graphs!vars, Trees!vars, Proxies!vars, Redirects!vars, Loads!vars, Heaps!vars, Services!vars, Slices!vars
<1>1. CASE LRUCacheStep
  BY <1>1 DEF LRUCacheStep
<1>2. CASE ManagedStep
  BY <1>2 DEF ManagedStep
<1>3. CASE SignalStep
  BY <1>3 DEF SignalStep
<1>4. CASE ExitStackStep
  BY <1>4 DEF ExitStackStep
<1>5. CASE TimerStep
  BY <1>5 DEF TimerStep
<1>6. CASE DetectorStep
  BY <1>6 DEF DetectorStep
<1>7. CASE GraphStep
  BY <1>7 DEF GraphStep
<1>8. CASE NodeStep
  BY <1>8 DEF NodeStep
<1>9. CASE ProxyStep
  BY <1>9 DEF ProxyStep
<1>10. CASE StreamStep
  BY <1>10 DEF StreamStep
<1>11. CASE ImportStep
  BY <1>11 DEF ImportStep
<1>12. CASE IterationStep
  BY <1>12 DEF IterationStep
<1>13. CASE HeapStep
  BY <1>13 DEF HeapStep
<1>14. CASE ServiceProxyStep
  BY <1>14 DEF ServiceProxyStep
<1>15. CASE UNCHANGED vars
  BY <1>15 DEF vars
<1> QED
  BY <1>1, <1>2, <1>3, <1>4, <1>5, <1>6, <1>7, <1>8, <1>9, <1>10, <1>11, <1>12, <1>13,
     <1>14, <1>15 DEF Next

-----------------------------------------------------------------------------
(* Managed collections.                                                    *)

ManagedInv == Mirrors!TypeOK /\ Mirrors!ObserverKnows

LEMMA ManagedInit == Init => ManagedInv
<1> SUFFICES ASSUME Mirrors!Init PROVE ManagedInv
  BY DEF Init
<1> QED
  BY DEF Mirrors!Init, Mirrors!Empty, Mirrors!Keys, Mirrors!TypeOK, Mirrors!Dict, Mirrors!ObserverKnows, ManagedInv

\* What is told of an operator is what it changes.
LEMMA ToldIsDone ==
    ASSUME NEW o \in Mirrors!SetOp, NEW other
    PROVE  Mirrors!Result(o, other) = (set \cup Mirrors!Added(o, other)) \ Mirrors!Removed(o, other)
<1>1. CASE o = "update"
  <2>1. /\ Mirrors!Result(o, other) = set \cup other /\ Mirrors!Added(o, other) = other \ set
        /\ Mirrors!Removed(o, other) = {}
    BY <1>1, Zenon DEF Mirrors!Result, Mirrors!Added, Mirrors!Removed
  <2> QED
    BY <2>1
<1>2. CASE o = "intersection_update"
  <2>1. /\ Mirrors!Result(o, other) = set \cap other /\ Mirrors!Added(o, other) = {}
        /\ Mirrors!Removed(o, other) = set \ other
    BY <1>2, Zenon DEF Mirrors!Result, Mirrors!Added, Mirrors!Removed
  <2> QED
    BY <2>1
<1>3. CASE o = "difference_update"
  <2>1. /\ Mirrors!Result(o, other) = set \ other /\ Mirrors!Added(o, other) = {}
        /\ Mirrors!Removed(o, other) = set \cap other
    BY <1>3, Zenon DEF Mirrors!Result, Mirrors!Added, Mirrors!Removed
  <2> QED
    BY <2>1
<1>4. CASE o = "symmetric_difference_update"
  <2>1. /\ Mirrors!Result(o, other) = (set \ other) \cup (other \ set)
        /\ Mirrors!Added(o, other) = other \ set
        /\ Mirrors!Removed(o, other) = set \cap other
    BY <1>4, Zenon DEF Mirrors!Result, Mirrors!Added, Mirrors!Removed
  <2> QED
    BY <2>1
<1> QED
  BY <1>1, <1>2, <1>3, <1>4 DEF Mirrors!SetOp

LEMMA MergeIs ==
    ASSUME NEW d \in Mirrors!Dict, NEW new \in Mirrors!Dict, NEW K
    PROVE  /\ Mirrors!Merge(d, new, K) \in Mirrors!Dict
           /\ \A k \in Elem : Mirrors!Merge(d, new, K)[k] =
                IF k \in K /\ new[k] # None THEN new[k] ELSE d[k]
  BY DEF Mirrors!Merge, Mirrors!Dict

LEMMA ManagedNext ==
    ASSUME ManagedInv, [Mirrors!Next]_(Mirrors!vars)
    PROVE  ManagedInv'
<1> USE DEF ManagedInv, Mirrors!TypeOK, Mirrors!ObserverKnows, Mirrors!sets, Mirrors!dicts, Mirrors!Told, Mirrors!Raised, Mirrors!Bypass
<1>1. ASSUME NEW e \in Elem, Mirrors!Add(e) \/ Mirrors!Discard(e) \/ Mirrors!Remove(e) PROVE ManagedInv'
  BY <1>1 DEF Mirrors!Add, Mirrors!Discard, Mirrors!Remove, Mirrors!Lost, Mirrors!Keys
<1>2. ASSUME NEW k \in Elem, Mirrors!DeleteKey(k) PROVE ManagedInv'
  BY <1>2 DEF Mirrors!DeleteKey, Mirrors!Keys, Mirrors!Dict
<1>3. CASE Mirrors!ClearSet \/ Mirrors!Pop
  BY <1>3 DEF Mirrors!ClearSet, Mirrors!Pop, Mirrors!Lost, Mirrors!Keys
<1>11. ASSUME NEW other \in SUBSET Elem, Mirrors!RawUpdateSet(other) PROVE ManagedInv'
  BY <1>11 DEF Mirrors!RawUpdateSet, Mirrors!Keys
<1>4. CASE Mirrors!ClearDict
  BY <1>4 DEF Mirrors!ClearDict, Mirrors!Empty, Mirrors!Keys, Mirrors!Dict
<1>5. ASSUME NEW o \in Mirrors!SetOp, NEW other \in SUBSET Elem, Mirrors!InPlace(o, other)
      PROVE  ManagedInv'
  <2> DEFINE added == Mirrors!Added(o, other)
             removed == Mirrors!Removed(o, other)
  <2>1. CASE Mirrors!Told(added, removed) /\ set' = Mirrors!Result(o, other)
    <3>1. added \subseteq Elem
      BY DEF Mirrors!Added
    <3>2. set' = (set \cup added) \ removed
      BY <2>1, ToldIsDone
    <3> HIDE DEF added, removed
    <3> QED
      BY <3>1, <3>2, <2>1, <1>5 DEF Mirrors!InPlace, Mirrors!Keys
  <2>2. CASE Mirrors!Raised("set") /\ UNCHANGED Mirrors!sets
    BY <2>2, <1>5 DEF Mirrors!InPlace, Mirrors!Keys
  <2> QED
    BY <2>1, <2>2, <1>5 DEF Mirrors!InPlace
<1>6. ASSUME NEW new \in Mirrors!Dict, Mirrors!UpdateDict(new) PROVE ManagedInv'
  <2>1. dict' \in Mirrors!Dict /\ dict_mirror' \in Mirrors!Dict
    BY <1>6, MergeIs DEF Mirrors!UpdateDict
  <2>2. "dict" \notin bypassed => Mirrors!Keys(dict)' \subseteq Mirrors!Keys(dict_mirror)'
    BY <1>6, MergeIs DEF Mirrors!UpdateDict, Mirrors!Keys
  <2>3. "dict" \notin bypassed /\ "dict" \notin failed' => dict_mirror' = dict'
    BY <1>6 DEF Mirrors!UpdateDict
  <2> QED
    BY <1>6, <2>1, <2>2, <2>3 DEF Mirrors!UpdateDict, Mirrors!Keys
<1>7. ASSUME NEW new \in Mirrors!Dict, Mirrors!RawUpdate(new) PROVE ManagedInv'
  BY <1>7, MergeIs DEF Mirrors!RawUpdate, Mirrors!Keys
<1>8. CASE UNCHANGED Mirrors!vars
  BY <1>8 DEF Mirrors!vars, Mirrors!Keys
<1> QED
  BY <1>1, <1>2, <1>3, <1>4, <1>5, <1>6, <1>7, <1>8, <1>11 DEF Mirrors!Next

LEMMA ManagedInvariant == Spec => []ManagedInv
  BY ManagedInit, ManagedNext, PartSteps, PTL DEF Spec

\* Until a raw_update() goes past them, the observer of a ManagedUserSet knows every
\* element, whichever callbacks raised, and what else it takes for one was last taken by
\* remove(), which tells nobody, or by a pop() that raised; the observer of a
\* ManagedUserDict knows every key that is there, and the values until a callback raised
\* in an update() (mode/utils/collections.py).
THEOREM ObserversKnow == Spec => []ObserverKnows
<1>1. ManagedInv => ObserverKnows
  BY DEF ManagedInv, ObserverKnows
<1> QED
  BY ManagedInvariant, <1>1, PTL

-----------------------------------------------------------------------------
(* Signals.                                                                *)

\* Where no other sender has the hash, the tables hold what was connected and
\* not cut, for the functions that live.
TablesRight ==
    alike = {} => \A f \in alive, k \in Sends!Kind :
      /\ <<f, None, k>> \in wanted <=> <<f, k>> \in receivers
      /\ \A s \in Sender \ {None} : <<f, s, k>> \in wanted <=> <<f, k>> \in filters[{s}]

SignalInv == Sends!TypeOK /\ TablesRight /\ Sends!Delivered

LEMMA SignalInit == Init => SignalInv
<1> SUFFICES ASSUME Sends!Init PROVE SignalInv
  BY DEF Init
<1> QED
  BY DEF Sends!Init, Sends!Ids, Sends!Ref, Sends!Kind, Sends!TypeOK, Sends!Delivered, TablesRight, SignalInv

LEMMA LiveIs ==
    ASSUME NEW Refs \in SUBSET Sends!Ref, NEW f
    PROVE  f \in Sends!Live(Refs) <=> f \in alive /\ \E k \in Sends!Kind : <<f, k>> \in Refs
<1>1. \A r \in Refs : \E g \in Fun, k \in Sends!Kind : r = <<g, k>>
  BY DEF Sends!Ref
<1>2. f \in Sends!Live(Refs) => f \in alive /\ \E k \in Sends!Kind : <<f, k>> \in Refs
  BY <1>1 DEF Sends!Live
<1>3. ASSUME f \in alive, NEW k \in Sends!Kind, <<f, k>> \in Refs PROVE f \in Sends!Live(Refs)
  <2>1. <<f, k>>[1] = f
    OBVIOUS
  <2>2. <<f, k>> \in {x \in Refs : x[1] \in alive}
    BY <1>3, <2>1
  <2> QED
    BY <2>1, <2>2, Zenon DEF Sends!Live
<1> QED
  BY <1>2, <1>3

\* While the tables are right a send() finds whom was connected.
LEMMA ReceiversAreConnected ==
    ASSUME SignalInv, alike = {}, NEW s \in Sender \cup {None}
    PROVE  Sends!Receivers(s) = Sends!Connected(s)
<1>0. receivers \subseteq Sends!Ref /\ alive \subseteq Fun
  BY DEF SignalInv, Sends!TypeOK
<1>1. CASE s = None
  <2>1. Sends!Receivers(s) = Sends!Live(receivers)
    BY <1>1 DEF Sends!Receivers
  <2>2. \A f : f \in Sends!Live(receivers) <=> f \in Sends!Connected(s)
    BY <1>0, <1>1, LiveIs DEF Sends!Connected, SignalInv, TablesRight
  <2> QED
    BY <2>1, <2>2
<1>2. CASE s # None
  <2>1. Sends!Id(s) = {s} /\ {s} \in Sends!Ids
    BY <1>2 DEF Sends!Id, Sends!Ids
  <2>2. filters[{s}] \subseteq Sends!Ref
    BY <2>1 DEF SignalInv, Sends!TypeOK
  <2>3. Sends!Receivers(s) = Sends!Live(receivers) \cup Sends!Live(filters[{s}])
    BY <1>2, <2>1 DEF Sends!Receivers
  <2>4. \A f : f \in Sends!Live(receivers) \cup Sends!Live(filters[{s}]) <=> f \in Sends!Connected(s)
    <3> SUFFICES ASSUME NEW f
                 PROVE  f \in Sends!Live(receivers) \cup Sends!Live(filters[{s}])
                          <=> f \in Sends!Connected(s)
      OBVIOUS
    <3>1. f \in Sends!Live(receivers) <=> f \in alive /\ \E k \in Sends!Kind : <<f, k>> \in receivers
      BY <1>0, LiveIs
    <3>2. f \in Sends!Live(filters[{s}])
            <=> f \in alive /\ \E k \in Sends!Kind : <<f, k>> \in filters[{s}]
      BY <2>2, LiveIs
    <3> QED
      BY <1>2, <3>1, <3>2 DEF Sends!Connected, SignalInv, TablesRight
  <2> QED
    BY <2>3, <2>4
<1> QED
  BY <1>1, <1>2

LEMMA SignalNext ==
    ASSUME SignalInv, [Sends!Next]_(Sends!vars)
    PROVE  SignalInv'
<1> USE DEF SignalInv, Sends!TypeOK, Sends!tables, Sends!sends
<1>0. ASSUME NEW s \in Sender \cup {None}
      PROVE  /\ s # None => Sends!Id(s) \in Sends!Ids
             /\ alike = {} => Sends!Id(s) = {s}
  BY <1>0 DEF Sends!Id, Sends!Ids
<1>1. ASSUME NEW f \in Fun, NEW s \in Sender \cup {None}, NEW k \in Sends!Kind, Sends!Connect(f, k, s)
      PROVE  SignalInv'
  <2>1. Sends!TypeOK'
    BY <1>0, <1>1 DEF Sends!Connect, Sends!Ref
  <2>2. TablesRight'
    <3>1. CASE s = None
      <4>1. /\ receivers' = receivers \cup {<<f, k>>} /\ wanted' = wanted \cup {<<f, None, k>>}
            /\ UNCHANGED <<filters, alive, alike>>
        BY <1>1, <3>1 DEF Sends!Connect
      <4> QED
        BY <4>1 DEF TablesRight
    <3>2. CASE s # None
      <4> SUFFICES ASSUME alike = {}, NEW g \in alive, NEW j \in Sends!Kind PROVE
               /\ <<g, None, j>> \in wanted' <=> <<g, j>> \in receivers'
               /\ \A r \in Sender \ {None} : <<g, r, j>> \in wanted' <=> <<g, j>> \in filters'[{r}]
        BY <1>1 DEF Sends!Connect, TablesRight
      <4>1. filters' = [filters EXCEPT ![{s}] = filters[{s}] \cup {<<f, k>>}]
        BY <1>0, <1>1, <3>2 DEF Sends!Connect
      <4>2. ASSUME NEW r \in Sender \ {None}
            PROVE  filters'[{r}] = IF r = s THEN filters[{s}] \cup {<<f, k>>} ELSE filters[{r}]
        BY <4>1, <4>2 DEF Sends!Ids
      <4>3. UNCHANGED <<receivers, alive>> /\ wanted' = wanted \cup {<<f, s, k>>}
        BY <1>1, <3>2 DEF Sends!Connect
      <4>4. <<g, None, j>> \in wanted' <=> <<g, j>> \in receivers'
        BY <3>2, <4>3 DEF TablesRight
      <4>5. ASSUME NEW r \in Sender \ {None}
            PROVE  <<g, r, j>> \in wanted' <=> <<g, j>> \in filters'[{r}]
        <5>1. <<g, r, j>> \in wanted' <=> <<g, r, j>> \in wanted \/ (g = f /\ r = s /\ j = k)
          BY <4>3
        <5>2. <<g, j>> \in filters'[{r}]
                <=> <<g, j>> \in filters[{r}] \/ (g = f /\ r = s /\ j = k)
          <6>1. CASE r = s
            <7>1. filters'[{r}] = filters[{r}] \cup {<<f, k>>}
              BY <4>2, <6>1
            <7> QED
              BY <6>1, <7>1
          <6>2. CASE r # s
            <7>1. filters'[{r}] = filters[{r}]
              BY <4>2, <6>2
            <7> QED
              BY <6>2, <7>1
          <6> QED
            BY <6>1, <6>2
        <5>3. <<g, r, j>> \in wanted <=> <<g, j>> \in filters[{r}]
          BY <4>5 DEF TablesRight
        <5> QED
          BY <5>1, <5>2, <5>3
      <4> QED
        BY <4>4, <4>5
    <3> QED
      BY <3>1, <3>2
  <2> QED
    BY <1>1, <2>1, <2>2 DEF Sends!Connect, Sends!Delivered
<1>2. ASSUME NEW f \in Fun, NEW s \in Sender \cup {None}, Sends!Disconnect(f, s)
      PROVE  SignalInv'
  <2>1. Sends!TypeOK'
    BY <1>0, <1>2 DEF Sends!Disconnect, Sends!Ref
  <2>2. TablesRight'
    <3>1. CASE s = None
      BY <1>2, <3>1 DEF Sends!Disconnect, TablesRight
    <3>2. CASE s # None
      <4> SUFFICES ASSUME alike = {}, NEW g \in alive, NEW j \in Sends!Kind PROVE
               /\ <<g, None, j>> \in wanted' <=> <<g, j>> \in receivers'
               /\ \A r \in Sender \ {None} : <<g, r, j>> \in wanted' <=> <<g, j>> \in filters'[{r}]
        BY <1>2 DEF Sends!Disconnect, TablesRight
      <4>1. filters' = [filters EXCEPT ![{s}] = filters[{s}] \ {<<f, "weak">>}]
        BY <1>0, <1>2, <3>2 DEF Sends!Disconnect
      <4>2. ASSUME NEW r \in Sender \ {None}
            PROVE  filters'[{r}] = IF r = s THEN filters[{s}] \ {<<f, "weak">>} ELSE filters[{r}]
        BY <4>1, <4>2 DEF Sends!Ids
      <4> QED
        BY <1>2, <3>2, <4>2 DEF Sends!Disconnect, TablesRight
    <3> QED
      BY <3>1, <3>2
  <2> QED
    BY <1>2, <2>1, <2>2 DEF Sends!Disconnect, Sends!Delivered
<1>3. ASSUME NEW f \in Fun, Sends!Collect(f) PROVE SignalInv'
  BY <1>3 DEF Sends!Collect, Sends!Delivered, TablesRight
<1>4. ASSUME NEW t \in Task, NEW s \in Sender \cup {None}, Sends!Send(t, s) PROVE SignalInv'
  <2>1. Sends!Receivers(s) \subseteq Fun /\ Sends!Connected(s) \subseteq Fun
    <3>1. receivers \subseteq Sends!Ref /\ (s # None => filters[Sends!Id(s)] \subseteq Sends!Ref)
      BY <1>0
    <3> QED
      BY <3>1 DEF Sends!Receivers, Sends!Live, Sends!Connected, Sends!Ref
  <2>2. Sends!TypeOK'
    <3>1. receivers' \subseteq Sends!Ref /\ filters' \in [Sends!Ids -> SUBSET Sends!Ref]
      BY <1>0, <1>4 DEF Sends!Send, Sends!Pruned
    <3>2. todo' \in [Task -> SUBSET Fun] /\ called' \in [Task -> SUBSET Fun]
          /\ expected' \in [Task -> SUBSET Fun]
      BY <1>4, <2>1 DEF Sends!Send
    <3> QED
      BY <1>4, <3>1, <3>2 DEF Sends!Send
  <2>3. TablesRight'
    <3> SUFFICES ASSUME alike = {}, NEW g \in alive, NEW j \in Sends!Kind PROVE
             /\ <<g, None, j>> \in wanted <=> <<g, j>> \in receivers'
             /\ \A r \in Sender \ {None} : <<g, r, j>> \in wanted <=> <<g, j>> \in filters'[{r}]
      BY <1>4 DEF Sends!Send, TablesRight
    <3>1. <<g, j>> \in receivers' <=> <<g, j>> \in receivers
      BY <1>4 DEF Sends!Send, Sends!Pruned
    <3>2. ASSUME NEW r \in Sender \ {None}
          PROVE  <<g, j>> \in filters'[{r}] <=> <<g, j>> \in filters[{r}]
      <4>1. CASE s = None
        BY <1>4, <4>1 DEF Sends!Send
      <4>2. CASE s # None
        <5>1. filters' = [filters EXCEPT ![{s}] = Sends!Pruned(filters[{s}])] /\ {r} \in Sends!Ids
          BY <1>0, <1>4, <4>2 DEF Sends!Send, Sends!Ids
        <5>2. filters'[{r}] = IF r = s THEN Sends!Pruned(filters[{s}]) ELSE filters[{r}]
          BY <5>1
        <5> QED
          BY <5>2 DEF Sends!Pruned
      <4> QED
        BY <4>1, <4>2
    <3> QED
      BY <3>1, <3>2 DEF TablesRight
  <2>4. Sends!Delivered'
    BY <1>4, ReceiversAreConnected DEF Sends!Send, Sends!Delivered
  <2> QED
    BY <2>2, <2>3, <2>4
<1>5. ASSUME NEW t \in Task, Sends!CallReceiver(t) PROVE SignalInv'
  <2>1. PICK f \in todo[t] : /\ todo' = [todo EXCEPT ![t] = @ \ {f}]
                             /\ called' = [called EXCEPT ![t] = @ \cup {f}]
    BY <1>5 DEF Sends!CallReceiver
  <2>2. Sends!TypeOK'
    BY <1>5, <2>1 DEF Sends!CallReceiver
  <2> QED
    BY <1>5, <2>1, <2>2 DEF Sends!CallReceiver, Sends!Delivered, TablesRight
<1>6. ASSUME NEW t \in Task, Sends!SendEnds(t) PROVE SignalInv'
  BY <1>6 DEF Sends!SendEnds, Sends!Delivered, TablesRight
<1>7. CASE UNCHANGED Sends!vars
  BY <1>7 DEF Sends!vars, Sends!Delivered, TablesRight
<1>8. ASSUME NEW default \in Sender \cup {None}, NEW s \in Sender \cup {None}
      PROVE  Sends!Effective(default, s) \in Sender \cup {None}
  BY DEF Sends!Effective
<1> QED
  BY <1>1, <1>2, <1>3, <1>4, <1>5, <1>6, <1>7, <1>8 DEF Sends!Next

LEMMA SignalInvariant == Spec => []SignalInv
  BY SignalInit, SignalNext, PartSteps, PTL DEF Spec

\* send() of a signal calls what was connected to its sender or to all when it began,
\* once each and nothing else, whatever is connected, cut or collected meanwhile, where no
\* other sender has the hash of this one (Signal.send of mode/signals.py).
THEOREM SignalsDeliver == Spec => []Delivered
<1>1. SignalInv => Delivered
  BY DEF SignalInv, Delivered
<1> QED
  BY SignalInvariant, <1>1, PTL

-----------------------------------------------------------------------------
(* Timers.                                                                 *)

LEMMA TimerConstants ==
    /\ Interval \in Nat /\ Correction \in Nat /\ MaxIterations \in Nat
    /\ Ticks!MinInterval \in Nat /\ Ticks!MinInterval <= Interval
    /\ Ticks!MaxInterval \in Nat /\ Interval <= Ticks!MaxInterval
    /\ Ticks!MaxInterval - Interval = Interval - Ticks!MinInterval
    /\ Late \subseteq Nat /\ Ticks!Max(Late) \in Nat /\ \A l \in Late : l <= Ticks!Max(Late)
    /\ Runtime \subseteq Nat /\ Ticks!Max(Runtime) \in Nat /\ \A r \in Runtime : r <= Ticks!Max(Runtime)
<1>1. Interval \in Nat /\ Correction \in Nat /\ MaxIterations \in Nat
  BY DataConstants
<1>2. ASSUME NEW D \in {Late, Runtime}
      PROVE  D \subseteq Nat /\ Ticks!Max(D) \in Nat /\ \A d \in D : d <= Ticks!Max(D)
  <2>1. D \subseteq Nat /\ \E longest \in D : \A d \in D : d <= longest
    BY DataConstants
  <2>2. PICK longest \in D : \A d \in D : longest >= d
    BY <2>1
  <2> QED
    BY <2>1, <2>2 DEF Ticks!Max
<1> QED
  BY <1>1, <1>2 DEF Ticks!MinInterval, Ticks!MaxInterval

\* The longest delay and the longest callback.
Latest == Ticks!Max(Late)
Slowest == Ticks!Max(Runtime)

\* What a proof needs of them that does not look into a set.
LEMMA TimerNumbers ==
    /\ Interval \in Nat /\ Correction \in Nat /\ MaxIterations \in Nat
    /\ Ticks!MinInterval \in Nat /\ Ticks!MinInterval <= Interval
    /\ Ticks!MaxInterval \in Nat /\ Interval <= Ticks!MaxInterval
    /\ Ticks!MaxInterval - Interval = Interval - Ticks!MinInterval
    /\ Latest \in Nat /\ Slowest \in Nat
    /\ Ticks!Longest = 2 * Ticks!MaxInterval + Latest + Slowest
  BY TimerConstants DEF Ticks!Longest, Latest, Slowest

LEMMA TimerMinMax ==
    ASSUME NEW m \in Int, NEW n \in Int
    PROVE  /\ Ticks!Min({m, n}) = IF m <= n THEN m ELSE n
           /\ Ticks!Max({m, n}) = IF m <= n THEN n ELSE m
<1>1. \E x \in {m, n} : \A y \in {m, n} : x <= y
  OBVIOUS
<1>2. \E x \in {m, n} : \A y \in {m, n} : x >= y
  OBVIOUS
<1>3. Ticks!Min({m, n}) \in {m, n} /\ \A y \in {m, n} : Ticks!Min({m, n}) <= y
  BY <1>1 DEF Ticks!Min
<1>4. Ticks!Max({m, n}) \in {m, n} /\ \A y \in {m, n} : Ticks!Max({m, n}) >= y
  BY <1>2 DEF Ticks!Max
<1> QED
  BY <1>3, <1>4

\* The next sleep makes up for the drift, within its bounds.
LEMMA AdjustIntervalIs ==
    ASSUME NEW drift \in Int
    PROVE  /\ Ticks!AdjustInterval(drift) \in Ticks!MinInterval..Ticks!MaxInterval
           /\ Interval + drift \in Ticks!MinInterval..Ticks!MaxInterval =>
                Ticks!AdjustInterval(drift) = Interval + drift
<1> USE TimerConstants
<1>1. CASE drift > 0
  <2>1. Ticks!AdjustInterval(drift) = Ticks!Min({Interval + drift, Ticks!MaxInterval})
    BY <1>1 DEF Ticks!AdjustInterval
  <2> QED
    BY <1>1, <2>1, TimerMinMax
<1>2. CASE ~(drift > 0)
  <2>1. Ticks!AdjustInterval(drift) = Ticks!Max({Interval + drift, Ticks!MinInterval})
    BY <1>2 DEF Ticks!AdjustInterval
  <2>2. Interval + drift \in Int /\ Ticks!MinInterval \in Int
    OBVIOUS
  <2>3. Ticks!Max({Interval + drift, Ticks!MinInterval})
          = IF Interval + drift <= Ticks!MinInterval THEN Ticks!MinInterval ELSE Interval + drift
    BY <2>2, TimerMinMax
  <2> QED
    BY <1>2, <2>1, <2>3
<1> QED
  BY <1>1, <1>2

\* Where the loop is, and how long its sleeps were.
TimerTypes ==
    /\ repeater \in BOOLEAN /\ timer_flags \subseteq {"stopped", "crashed"}
    /\ timer_pc \in {"first_sleep", "tick", "sleep", "check", "run", "ended"}
    /\ iteration \in 0..MaxIterations
    /\ drifting_early \in 0..iteration /\ drifting_late \in 0..iteration
    /\ overlaps \in 0..iteration
    /\ sleep_time \in 0..Ticks!MaxInterval /\ late \in 0..Latest
    /\ slept \in 0..(Ticks!MaxInterval + Latest) /\ slept0 \in 0..(Ticks!MaxInterval + Latest)
    /\ runtime \in 0..Slowest
    /\ waited \in 0..(Ticks!Longest + Interval + Latest)

\* Before the first callback only the sleep of Service.timer counts.
FirstTick ==
    /\ timer_pc = "first_sleep" => repeater /\ iteration = 0
    /\ timer_pc \in {"sleep", "check", "run"} => iteration > 0
    /\ (timer_pc = "tick" /\ iteration = 0) \/ (timer_pc = "sleep" /\ iteration = 1) =>
         /\ waited <= Interval + Latest
         /\ timer_flags = {} => waited >= IF repeater THEN Interval ELSE 0

\* A sleep lasts as long as it was asked to, unless the service is stopped.
SleptLong ==
    /\ timer_pc = "sleep" =>
         /\ sleep_time >= Ticks!MinInterval
         /\ iteration = 1 => sleep_time = Interval
         /\ iteration > 1 /\ slept \in Ticks!MinInterval..Ticks!MaxInterval =>
              sleep_time = 2 * Interval - slept
    /\ (timer_pc = "check" /\ timer_flags = {}) \/ timer_pc = "run" =>
         /\ waited >= IF iteration = 1 THEN (IF repeater THEN 2 ELSE 1) * Interval
                                       ELSE Ticks!MinInterval
         /\ iteration > 1 /\ slept0 \in Ticks!MinInterval..Ticks!MaxInterval =>
              slept0 + slept = 2 * Interval + late
    /\ \/ timer_pc = "check" /\ timer_flags = {}
       \/ timer_pc = "run"
       \/ timer_pc = "tick" /\ iteration > 0
       => slept >= Ticks!MinInterval
    /\ drifting_early > 0 => Correction >= Ticks!MaxDrift

TimerInv == TimerTypes /\ FirstTick /\ SleptLong

LEMMA TimerInit == Init => TimerInv
<1> SUFFICES ASSUME Ticks!Init PROVE TimerInv
  BY DEF Init
<1> USE TimerNumbers DEF Ticks!Init
<1>1. TimerTypes
  BY DEF TimerTypes
<1>2. FirstTick
  BY DEF FirstTick
<1>3. SleptLong
  BY DEF SleptLong
<1> QED
  BY <1>1, <1>2, <1>3 DEF TimerInv

LEMMA SleepsIs ==
    ASSUME NEW t \in Nat, Ticks!Sleeps(t)
    PROVE  /\ slept' \in Nat /\ late' \in Nat
           /\ slept' <= t + Latest /\ late' <= Latest
           /\ timer_flags = {} => slept' = t + late' /\ slept' >= t
<1>1. ASSUME NEW l \in Late, late' = l, slept' = t + l
      PROVE  /\ slept' \in Nat /\ late' \in Nat
             /\ slept' <= t + Latest /\ late' <= Latest
             /\ slept' = t + late' /\ slept' >= t
  <2>1. l \in Nat /\ l <= Latest /\ Latest \in Nat
    BY TimerConstants DEF Latest
  <2> QED
    BY <1>1, <2>1
<1>2. ASSUME "stopped" \in timer_flags, late' = 0, slept' \in 0..t
      PROVE  /\ slept' \in Nat /\ late' \in Nat
             /\ slept' <= t + Latest /\ late' <= Latest
             /\ timer_flags # {}
  BY <1>2, TimerNumbers
<1> QED
  BY <1>1, <1>2 DEF Ticks!Sleeps

LEMMA WaitedBound ==
    ASSUME NEW interval \in Nat, NEW longest \in Nat, NEW l \in Nat, NEW r \in Nat,
           NEW asked \in Nat, NEW took \in Nat, NEW earlier \in Nat,
           interval <= longest, asked <= longest, took <= asked + l
    PROVE  /\ earlier <= interval + l => took + earlier \in 0..(2 * longest + l + r + interval + l)
           /\ earlier <= r => took + earlier \in 0..(2 * longest + l + r + interval + l)
           /\ took \in 0..(longest + l)
  OBVIOUS

LEMMA TimerNext ==
    ASSUME TimerInv, [Ticks!Next]_(Ticks!vars)
    PROVE  TimerInv'
<1> USE TimerNumbers DEF TimerInv
<1>1. ASSUME NEW f \in {"stopped", "crashed"}, Ticks!StopOrCrash(f) PROVE TimerInv'
  BY <1>1 DEF Ticks!StopOrCrash, Ticks!counters, TimerTypes, FirstTick, SleptLong
<1>2. CASE Ticks!FirstSleep
  <2>1. /\ slept' \in Nat /\ late' \in Nat
        /\ slept' <= Interval + Latest /\ late' <= Latest
        /\ timer_flags = {} => slept' >= Interval
    BY <1>2, SleepsIs DEF Ticks!FirstSleep
  <2>3. /\ timer_pc = "first_sleep" /\ waited' = slept'
        /\ timer_pc' = IF Ticks!ShouldStop THEN "ended" ELSE "tick"
        /\ UNCHANGED <<repeater, timer_flags, iteration, sleep_time, runtime, drifting_early,
                       drifting_late, overlaps, slept0>>
    BY <1>2 DEF Ticks!FirstSleep, Ticks!counters
  <2>4. TimerTypes'
    BY <2>1, <2>3 DEF TimerTypes
  <2>5. FirstTick'
    <3>1. repeater /\ iteration = 0
      BY <2>3 DEF FirstTick
    <3>3. timer_pc' \in {"ended", "tick"}
      BY <2>3
    <3> QED
      BY <3>1, <3>3, <2>1, <2>3 DEF FirstTick
  <2>6. SleptLong'
    BY <2>1, <2>3 DEF TimerTypes, FirstTick, SleptLong
  <2> QED
    BY <2>4, <2>5, <2>6
<1>3. CASE Ticks!Tick
  <2> DEFINE drift == Interval - slept
             reported == Interval >= 10 /\ (drift >= Ticks!MaxDrift \/ -drift >= Ticks!MaxDrift)
  <2>1. /\ timer_pc = "tick" /\ iteration < MaxIterations /\ iteration' = iteration + 1
        /\ timer_pc' = "sleep"
        /\ UNCHANGED <<repeater, timer_flags, slept, runtime, late, slept0, waited>>
    BY <1>3 DEF Ticks!Tick
  <2>2. ASSUME iteration = 0
        PROVE sleep_time' = Interval /\ UNCHANGED <<drifting_early, drifting_late, overlaps>>
    BY <1>3, <2>2 DEF Ticks!Tick, Ticks!counters
  <2>3. ASSUME iteration # 0
        PROVE  /\ sleep_time' = Ticks!AdjustInterval(drift)
               /\ drifting_late' = drifting_late + (IF reported /\ drift < 0 THEN 1 ELSE 0)
               /\ drifting_early' = drifting_early + (IF reported /\ drift >= 0 THEN 1 ELSE 0)
               /\ overlaps' = overlaps + (IF runtime > Interval THEN 1 ELSE 0)
    BY <1>3, <2>3 DEF Ticks!Tick, Ticks!Second
  <2>4. drift \in Int /\ slept \in Nat
    BY DEF TimerTypes
  <2>5. iteration # 0 => /\ sleep_time' \in Ticks!MinInterval..Ticks!MaxInterval
                         /\ Interval + drift \in Ticks!MinInterval..Ticks!MaxInterval =>
                              sleep_time' = Interval + drift
    BY <2>3, <2>4, AdjustIntervalIs
  <2>6. reported /\ drift >= 0 /\ iteration # 0 => Correction >= Ticks!MaxDrift
    <3>1. ASSUME Interval >= 10 PROVE Ticks!MaxDrift \in Nat \ {0}
      BY <3>1, TimerMinMax DEF Ticks!MaxDrift
    <3>2. iteration # 0 => slept >= Ticks!MinInterval
      BY <2>1 DEF SleptLong, TimerTypes
    <3> QED
      BY <2>4, <3>1, <3>2 DEF Ticks!MinInterval
  <2> HIDE DEF reported
  <2>7. TimerTypes'
    BY <2>1, <2>2, <2>3, <2>5 DEF TimerTypes
  <2>8. FirstTick'
    BY <2>1 DEF TimerTypes, FirstTick
  <2>9. SleptLong'
    <3>1. sleep_time' >= Ticks!MinInterval /\ (iteration' = 1 => sleep_time' = Interval)
      BY <2>1, <2>2, <2>5 DEF TimerTypes
    <3>2. iteration' > 1 /\ slept' \in Ticks!MinInterval..Ticks!MaxInterval =>
            sleep_time' = 2 * Interval - slept'
      BY <2>1, <2>5, <2>4 DEF TimerTypes
    <3>3. drifting_early' > 0 => Correction >= Ticks!MaxDrift
      BY <2>1, <2>2, <2>3, <2>6 DEF TimerTypes, SleptLong
    <3> QED
      BY <2>1, <3>1, <3>2, <3>3 DEF SleptLong
  <2> QED
    BY <2>7, <2>8, <2>9
<1>4. CASE Ticks!Wakes
  <2>1. /\ timer_pc = "sleep" /\ timer_pc' = "check" /\ slept0' = slept
        /\ waited' = slept' + (IF iteration = 1 THEN waited ELSE runtime)
        /\ UNCHANGED <<repeater, timer_flags, iteration, sleep_time, runtime, drifting_early,
                       drifting_late, overlaps>>
    BY <1>4 DEF Ticks!Wakes, Ticks!counters
  <2>2. /\ sleep_time \in Nat /\ sleep_time <= Ticks!MaxInterval /\ waited \in Nat
        /\ runtime \in Nat /\ runtime <= Slowest /\ slept \in Nat
    BY DEF TimerTypes
  <2>3. PICK took \in Nat : took = slept'
    BY <1>4, <2>2, SleepsIs DEF Ticks!Wakes
  <2>4. PICK asked \in Nat : asked = sleep_time
    BY <2>2
  <2>5. /\ late' \in Nat /\ took <= asked + Latest /\ late' <= Latest
        /\ timer_flags = {} => took = asked + late' /\ took >= asked
    BY <1>4, <2>2, <2>3, <2>4, SleepsIs DEF Ticks!Wakes
  <2>6. TimerTypes'
    <3>1. /\ waited <= Interval + Latest => took + waited \in 0..(Ticks!Longest + Interval + Latest)
          /\ took + runtime \in 0..(Ticks!Longest + Interval + Latest)
          /\ took \in 0..(Ticks!MaxInterval + Latest)
      BY <2>2, <2>4, <2>5, WaitedBound
    <3>2. iteration = 1 => waited <= Interval + Latest
      BY <2>1 DEF FirstTick
    <3>3. waited' \in 0..(Ticks!Longest + Interval + Latest)
      BY <2>1, <2>3, <3>1, <3>2
    <3>4. slept' \in 0..(Ticks!MaxInterval + Latest) /\ late' \in 0..Latest
      BY <2>3, <2>5, <3>1
    <3> QED
      BY <2>1, <3>3, <3>4 DEF TimerTypes
  <2>7. FirstTick'
    BY <2>1 DEF TimerTypes, FirstTick
  <2>8. SleptLong'
    <3>1. asked >= Ticks!MinInterval /\ (iteration = 1 => asked = Interval)
      BY <2>1, <2>4 DEF SleptLong
    <3>2. ASSUME timer_flags = {} PROVE took >= Ticks!MinInterval
      <4>1. took >= asked
        BY <2>5, <3>2
      <4> QED
        BY <2>4, <3>1, <4>1
    <3>3. ASSUME timer_flags = {}, iteration = 1
          PROVE  waited' >= (IF repeater THEN 2 ELSE 1) * Interval
      <4>1. waited >= IF repeater THEN Interval ELSE 0
        BY <2>1, <3>3 DEF FirstTick
      <4>2. took >= Interval
        BY <2>5, <3>1, <3>3
      <4>3. waited' = took + waited
        BY <2>1, <2>3, <3>3
      <4> QED
        BY <2>2, <4>1, <4>2, <4>3
    <3>4. ASSUME timer_flags = {}, iteration # 1
          PROVE  waited' >= Ticks!MinInterval
      <4>1. waited' = took + runtime /\ took >= Ticks!MinInterval
        BY <2>1, <2>3, <3>2, <3>4
      <4> QED
        BY <2>2, <4>1
    <3>5. ASSUME timer_flags = {}, iteration > 1, slept \in Ticks!MinInterval..Ticks!MaxInterval
          PROVE  slept + slept' = 2 * Interval + late'
      <4>1. asked = 2 * Interval - slept
        BY <2>1, <2>4, <3>5 DEF SleptLong
      <4>2. slept + asked = 2 * Interval
        BY <2>2, <4>1
      <4>3. slept' = asked + late'
        BY <2>3, <2>5, <3>5
      <4> QED
        BY <2>2, <2>5, <4>2, <4>3
    <3> QED
      BY <2>1, <2>3, <3>2, <3>3, <3>4, <3>5 DEF SleptLong
  <2> QED
    BY <2>6, <2>7, <2>8
<1>5. CASE Ticks!Yields
  BY <1>5 DEF Ticks!Yields, Ticks!ShouldStop, Ticks!counters, TimerTypes, FirstTick, SleptLong
<1>6. CASE Ticks!CallbackReturns
  <2>1. runtime' \in Nat /\ runtime' <= Slowest
    BY <1>6, TimerConstants DEF Ticks!CallbackReturns, Slowest
  <2> QED
    BY <1>6, <2>1 DEF Ticks!CallbackReturns, Ticks!ShouldStop, Ticks!counters, TimerTypes, FirstTick, SleptLong
<1>7. CASE UNCHANGED Ticks!vars
  BY <1>7 DEF Ticks!vars, Ticks!counters, TimerTypes, FirstTick, SleptLong
<1> QED
  BY <1>1, <1>2, <1>3, <1>4, <1>5, <1>6, <1>7 DEF Ticks!Next

LEMMA TimerInvariant == Spec => []TimerInv
  BY TimerInit, TimerNext, PartSteps, PTL DEF Spec

LEMMA TimerHolds == TimerInv => Ticks!TypeOK /\ Ticks!TimerRight
<1> SUFFICES ASSUME TimerInv PROVE Ticks!TypeOK /\ Ticks!TimerRight
  OBVIOUS
<1>1. Ticks!TypeOK
  BY TimerNumbers DEF TimerInv, TimerTypes, Ticks!TypeOK, Latest, Slowest
<1>2. Ticks!NeverEarly /\ Ticks!DriftCorrected
  BY DEF TimerInv, SleptLong, Ticks!NeverEarly, Ticks!DriftCorrected
<1> QED
  BY <1>1, <1>2 DEF Ticks!TimerRight

-----------------------------------------------------------------------------
(* The blocking detector.                                                  *)

LEMMA DetectorConstants ==
    Timeout \in Nat \ {0} /\ MaxWait \in Nat /\ Duration \subseteq Nat
  BY DataConstants

LEMMA DetectorMax ==
    ASSUME NEW m \in Int
    PROVE  Alarm!Max({m, 0}) = IF m <= 0 THEN 0 ELSE m
<1>1. \E x \in {m, 0} : \A y \in {m, 0} : x >= y
  OBVIOUS
<1>2. Alarm!Max({m, 0}) \in {m, 0} /\ \A y \in {m, 0} : Alarm!Max({m, 0}) >= y
  BY <1>1 DEF Alarm!Max
<1> QED
  BY <1>2

\* What runs on for d has d less to run until the alarm.
LEMMA TimeLeft ==
    ASSUME NEW s \in Nat, NEW s1 \in Nat, NEW a \in Nat, NEW d \in Nat, NEW n \in Nat,
           s + a <= n, s1 <= s + d
    PROVE  s1 + (a - d) <= n
  OBVIOUS

DetectorTypes ==
    /\ detector \in {"started", "up", "stopping", "ended"}
    /\ armed \in 0..Timeout /\ due \in 0..(Timeout - 1)
    /\ loop \in {"waits", "runs"}
    /\ elapsed \in 0..MaxWait /\ since \in Nat /\ alarms \in Nat

\* From the first turn of the switch to its last the alarm is set, and goes off
\* when the next timeout since the last turn is over; what runs began, or was
\* interrupted, after the alarm was set.  Until it is asked to stop, the switch
\* is due before the alarm goes off.
AlarmsAt == alarms * Timeout
AlarmSet ==
    /\ AlarmsAt \in Nat
    /\ detector \in {"up", "stopping"} =>
         /\ armed + elapsed = AlarmsAt + Timeout
         /\ since + armed <= Timeout
         /\ armed = 0 => loop = "runs"
    /\ detector \in {"started", "ended"} => armed = 0 /\ elapsed = 0 /\ alarms = 0 /\ since = 0
    /\ loop = "waits" => since = 0
    /\ detector = "up" => due < armed \/ due = 0

DetectorInv == DetectorTypes /\ AlarmSet

LEMMA DetectorInit == Init => DetectorInv
<1> SUFFICES ASSUME Alarm!Init PROVE DetectorInv
  BY DEF Init
<1>1. AlarmsAt = 0
  BY DetectorConstants DEF Alarm!Init, AlarmsAt
<1> QED
  BY <1>1, DetectorConstants DEF Alarm!Init, DetectorTypes, AlarmSet, DetectorInv

LEMMA DetectorNext ==
    ASSUME DetectorInv, [Alarm!Next]_(Alarm!vars)
    PROVE  DetectorInv'
<1> USE DetectorConstants DEF DetectorInv, DetectorTypes, AlarmSet
<1>1. CASE Alarm!DeadmanSwitch
  <2>1. /\ loop = "waits" /\ since = 0 /\ elapsed' = 0 /\ alarms' = 0 /\ since' = since /\ loop' = loop
    BY <1>1 DEF Alarm!DeadmanSwitch
  <2>2. AlarmsAt' = 0
    BY <2>1 DEF AlarmsAt
  <2>3. CASE detector' = "up" /\ armed' = Timeout /\ due' = Timeout - 1
    BY <2>1, <2>2, <2>3
  <2>4. CASE detector' = "ended" /\ armed' = 0 /\ due' = 0
    <3>1. DetectorTypes'
      BY <2>1, <2>4
    <3> QED
      BY <2>1, <2>2, <2>4, <3>1
  <2> QED
    BY <1>1, <2>3, <2>4 DEF Alarm!DeadmanSwitch, Alarm!DeadmanSleep
<1>2. CASE Alarm!StopDetector
  <2>1. /\ \/ detector = "up" /\ detector' = "stopping"
           \/ detector = "started" /\ detector' = "ended"
        /\ armed' = armed /\ due' = due /\ loop' = loop
        /\ since' = since /\ elapsed' = elapsed /\ alarms' = alarms
    BY <1>2 DEF Alarm!StopDetector
  <2>2. AlarmsAt' = AlarmsAt
    BY <2>1 DEF AlarmsAt
  <2> QED
    BY <2>1, <2>2
<1>3. ASSUME NEW d \in Duration, Alarm!Pass(d)
      PROVE  /\ d \in Nat /\ (detector \in {"up", "stopping"} => armed > 0 /\ d <= armed)
             /\ due' = IF due - d <= 0 THEN 0 ELSE due - d
             /\ armed' = IF armed - d <= 0 THEN 0 ELSE armed - d
             /\ detector \in {"up", "stopping"} => elapsed' = elapsed + d
             /\ detector \notin {"up", "stopping"} => elapsed' = 0
             /\ elapsed' \in 0..MaxWait
             /\ detector' = detector /\ loop' = loop /\ alarms' = alarms /\ AlarmsAt' = AlarmsAt
  <2>1. due - d \in Int /\ armed - d \in Int
    OBVIOUS
  <2> HIDE DEF DetectorInv
  <2>2. /\ Alarm!Max({due - d, 0}) = IF due - d <= 0 THEN 0 ELSE due - d
        /\ Alarm!Max({armed - d, 0}) = IF armed - d <= 0 THEN 0 ELSE armed - d
    BY <2>1, DetectorMax
  <2> USE DEF DetectorInv
  <2> QED
    BY <1>3, <2>2 DEF Alarm!Pass, Alarm!Watching, Alarm!Ringing, AlarmsAt
\* Time that passes brings the alarm nearer by as much.
<1>4. ASSUME NEW d \in Duration, Alarm!Pass(d), since' \in Nat,
             detector \in {"up", "stopping"} => since' <= since + d,
             detector \notin {"up", "stopping"} => since' = 0,
             loop = "waits" => since' = 0 /\ d <= due /\ detector = "up"
      PROVE  DetectorInv'
  <2>1. CASE detector \in {"up", "stopping"}
    <3>1. armed > 0 /\ d <= armed
      BY <1>3, <1>4, <2>1
    <3>2. armed' = armed - d /\ elapsed' = elapsed + d
      BY <1>3, <1>4, <2>1, <3>1
    <3>3. armed' + elapsed' = AlarmsAt' + Timeout
      BY <1>3, <1>4, <2>1, <3>1, <3>2
    <3>4. since' + armed' <= Timeout
      <4>1. since + armed <= Timeout /\ since' <= since + d /\ since' \in Nat /\ since \in Nat
            /\ armed \in Nat /\ d \in Nat /\ Timeout \in Nat /\ armed' = armed - d
        BY <1>3, <1>4, <2>1, <3>2
      <4> QED
        BY <4>1, TimeLeft
    <3>5. detector = "up" => due' < armed' \/ due' = 0
      BY <1>3, <1>4, <3>1, <3>2
    <3>6. armed' = 0 => loop = "runs"
      BY <1>4, <2>1, <3>1, <3>2
    <3>7. DetectorTypes'
      BY <1>3, <1>4, <3>1, <3>2
    <3> QED
      BY <1>3, <1>4, <2>1, <3>2, <3>3, <3>4, <3>5, <3>6, <3>7
  <2>2. CASE detector \notin {"up", "stopping"}
    BY <1>3, <1>4, <2>2
  <2> QED
    BY <2>1, <2>2
<1>5. ASSUME NEW d \in Duration, Alarm!Idle(d) PROVE DetectorInv'
  <2>1. Alarm!Pass(d) /\ detector = "up" /\ d <= due /\ loop = "waits" /\ since' = since /\ d \in Nat
    BY <1>5 DEF Alarm!Idle
  <2> QED
    BY <1>4, <2>1
<1>6. ASSUME NEW d \in Duration, Alarm!Run(d) PROVE DetectorInv'
  <2>1. /\ Alarm!Pass(d) /\ loop = "runs" /\ d \in Nat
        /\ since' = IF detector \in {"up", "stopping"} THEN since + d ELSE 0
    BY <1>6 DEF Alarm!Run, Alarm!Watching
  <2> QED
    BY <1>4, <2>1
<1>7. CASE Alarm!Begin
  <2>1. /\ loop = "waits" /\ loop' = "runs" /\ detector' = detector /\ armed' = armed
        /\ due' = due /\ since' = since /\ elapsed' = elapsed /\ alarms' = alarms
    BY <1>7 DEF Alarm!Begin
  <2>2. AlarmsAt' = AlarmsAt
    BY <2>1 DEF AlarmsAt
  <2> QED
    BY <2>1, <2>2
<1>8. CASE Alarm!Return
  <2>1. /\ loop = "runs" /\ loop' = "waits" /\ since' = 0
        /\ armed > 0 \/ detector \in {"started", "ended"}
        /\ detector' = detector /\ armed' = armed
        /\ due' = due /\ elapsed' = elapsed /\ alarms' = alarms
    BY <1>8 DEF Alarm!Return, Alarm!Ringing, Alarm!Watching
  <2>2. AlarmsAt' = AlarmsAt
    BY <2>1 DEF AlarmsAt
  <2> QED
    BY <2>1, <2>2
<1>9. CASE Alarm!OnAlarm
  <2>1. /\ detector \in {"up", "stopping"} /\ armed = 0 /\ armed' = Timeout /\ loop' \in {"waits", "runs"}
        /\ since' = 0 /\ alarms' = alarms + 1
        /\ detector' = detector /\ due' = due /\ elapsed' = elapsed
    BY <1>9 DEF Alarm!OnAlarm, Alarm!Ringing, Alarm!Watching
  <2>2. detector \in {"up", "stopping"} /\ armed = 0 /\ elapsed = AlarmsAt + Timeout
    BY <2>1
  <2>3. AlarmsAt' = AlarmsAt + Timeout
    BY <2>1 DEF AlarmsAt
  <2>4. DetectorTypes'
    BY <2>1
  <2> QED
    BY <2>1, <2>2, <2>3, <2>4
<1>10. CASE UNCHANGED Alarm!vars
  BY <1>10 DEF Alarm!vars, AlarmsAt
<1> QED
  BY <1>1, <1>2, <1>5, <1>6, <1>7, <1>8, <1>9, <1>10 DEF Alarm!Next

LEMMA DetectorInvariant == Spec => []DetectorInv
  BY DetectorInit, DetectorNext, PartSteps, PTL DEF Spec

LEMMA DetectorHolds == DetectorInv => Alarm!TypeOK /\ Alarm!DetectorRight
<1> SUFFICES ASSUME DetectorInv PROVE Alarm!TypeOK /\ Alarm!DetectorRight
  OBVIOUS
<1> USE DetectorConstants DEF DetectorInv, DetectorTypes, AlarmSet
<1>1. Alarm!TypeOK
  BY DEF Alarm!TypeOK, Alarm!DeadmanSleep
<1>2. ASSUME Alarm!Watching
      PROVE  /\ since <= Timeout /\ elapsed \in alarms * Timeout..(alarms + 1) * Timeout
             /\ armed = 0 <=> elapsed = (alarms + 1) * Timeout
             /\ armed = 0 => loop = "runs"
  <2>1. (alarms + 1) * Timeout = AlarmsAt + Timeout /\ alarms * Timeout = AlarmsAt
    BY DEF AlarmsAt
  <2>2. elapsed \in AlarmsAt..(AlarmsAt + Timeout) /\ (armed = 0 <=> elapsed = AlarmsAt + Timeout)
        /\ (armed = 0 => loop = "runs") /\ since <= Timeout
    BY <1>2 DEF Alarm!Watching
  <2> QED
    BY <2>1, <2>2
<1> QED
  BY <1>1, <1>2 DEF Alarm!DetectorRight, Alarm!Ringing

\* A timer is never early, and the next sleep takes the drift of one back as far as the
\* correction allows (mode/timers.py); in a callback that runs for the timeout of the
\* blocking detector an exception is raised, and again each timeout if it is caught, but
\* never in a loop that is idle (mode/debug.py).
THEOREM TimersKeepTime == Spec => []TimersRight
  BY TimerInvariant, TimerHolds, DetectorInvariant, DetectorHolds, PTL DEF TimersRight

-----------------------------------------------------------------------------
(* Service proxies.                                                        *)

\* While no two getters run and nobody replaces the service, there is none or
\* one, and the calls in progress are for it.
OneService ==
    /\ \A t \in Thread : ppc[t] = "call" => value[t] # 0
    /\ ~overlapped => \A t, u \in Thread : ppc[t] = "get" /\ ppc[u] = "get" => t = u
    /\ ~replaced /\ stored = 0 => services_created = 0
    /\ ~overlapped /\ ~replaced => \A t \in Thread : ppc[t] = "call" => value[t] = stored

ServiceProxyInv == Services!TypeOK /\ OneService /\ Services!ServiceProxyRight

LEMMA ServiceProxyInit == Init => ServiceProxyInv
<1> SUFFICES ASSUME Services!Init PROVE ServiceProxyInv
  BY DEF Init
<1> USE DataConstants DEF Services!Init, Services!Service, Services!Method, Services!GetterRuns
<1>1. Services!TypeOK
  BY DEF Services!TypeOK
<1>2. OneService
  BY DEF OneService
<1>3. Services!ServiceProxyRight
  BY DEF Services!ServiceProxyRight
<1> QED
  BY <1>1, <1>2, <1>3 DEF ServiceProxyInv

LEMMA ServiceProxyNext ==
    ASSUME ServiceProxyInv, [Services!Next]_(Services!vars)
    PROVE  ServiceProxyInv'
<1> USE DataConstants DEF ServiceProxyInv, Services!TypeOK, Services!Service, Services!Goto, Services!GetterRuns, OneService,
                          Services!ServiceProxyRight
<1>1. ASSUME NEW t \in Thread, NEW m \in Services!Method, Services!Lookup(t, m) PROVE ServiceProxyInv'
  <2>1. CASE stored # 0
    BY <1>1, <2>1 DEF Services!Lookup
  <2>2. CASE stored = 0
    <3>1. overlapped' \in BOOLEAN
          /\ (~overlapped' => ~overlapped /\ \A u \in Thread : ppc[u] # "get")
          /\ (overlapped => overlapped')
      <4>1. overlapped' = (overlapped \/ Services!GetterRuns)
        BY <1>1, <2>2, Zenon DEF Services!Lookup
      <4> QED
        BY <4>1, Zenon
    <3>2. /\ ppc[t] = "idle" /\ ppc' = [ppc EXCEPT ![t] = "get"] /\ value' = [value EXCEPT ![t] = 0]
          /\ method' = [method EXCEPT ![t] = m]
          /\ UNCHANGED <<stored, services_created, running, replaced, astray>>
      BY <1>1, <2>2 DEF Services!Lookup
    <3>3. Services!TypeOK'
      BY <3>1, <3>2
    <3>4. OneService'
      BY <3>1, <3>2
    <3>5. Services!ServiceProxyRight'
      BY <2>2, <3>1, <3>2
    <3> QED
      BY <3>3, <3>4, <3>5
  <2> QED
    BY <2>1, <2>2
<1>2. ASSUME NEW t \in Thread, Services!GetterReturns(t) PROVE ServiceProxyInv'
  BY <1>2 DEF Services!GetterReturns
<1>3. ASSUME NEW t \in Thread, Services!GetterRaises(t) PROVE ServiceProxyInv'
  BY <1>3 DEF Services!GetterRaises
<1>4. ASSUME NEW t \in Thread, Services!Forward(t) PROVE ServiceProxyInv'
  <2>1. running' \subseteq running \cup {value[t]}
    <3>1. CASE method[t] = "start"
      BY <1>4, <3>1, Zenon DEF Services!Forward
    <3>2. CASE method[t] = "stop"
      <4>1. running' = running \ {value[t]}
        BY <1>4, <3>2, Zenon DEF Services!Forward
      <4> QED
        BY <4>1
    <3>3. CASE method[t] \notin {"start", "stop"}
      <4>1. running' = running
        BY <1>4, <3>3, Zenon DEF Services!Forward
      <4> QED
        BY <4>1
    <3> QED
      BY <3>1, <3>2, <3>3
  <2>2. /\ ppc[t] = "call" /\ astray' = (astray \/ value[t] # stored)
        /\ ppc' = [ppc EXCEPT ![t] = "idle"] /\ value' = [value EXCEPT ![t] = 0]
        /\ UNCHANGED <<stored, services_created, method, overlapped, replaced>>
    BY <1>4 DEF Services!Forward
  <2> QED
    BY <2>1, <2>2
<1>5. CASE Services!Assign
  <2>1. overlapped' \in BOOLEAN
        /\ (~overlapped' => ~overlapped /\ \A u \in Thread : ppc[u] # "get")
    <3>1. overlapped' = (overlapped \/ Services!GetterRuns)
      BY <1>5, Zenon DEF Services!Assign
    <3> QED
      BY <3>1, Zenon
  <2>2. /\ services_created < MaxServices /\ services_created' = services_created + 1
        /\ stored' = services_created + 1 /\ replaced' = TRUE
        /\ UNCHANGED <<ppc, method, value, running, astray>>
    BY <1>5 DEF Services!Assign
  <2>3. Services!TypeOK'
    BY <2>1, <2>2
  <2> QED
    BY <2>1, <2>2, <2>3
<1>6. CASE Services!Delete
  BY <1>6 DEF Services!Delete
<1>7. CASE UNCHANGED Services!vars
  BY <1>7 DEF Services!vars
<1> QED
  BY <1>1, <1>2, <1>3, <1>4, <1>5, <1>6, <1>7 DEF Services!Next

\* A service proxy makes one service unless getters overlap or it is replaced.
LEMMA ServiceProxyHolds == Spec => [](Services!TypeOK /\ Services!ServiceProxyRight)
<1>1. ServiceProxyInv => Services!TypeOK /\ Services!ServiceProxyRight
  BY DEF ServiceProxyInv
<1> QED
  BY ServiceProxyInit, ServiceProxyNext, PartSteps, <1>1, PTL DEF Spec

-----------------------------------------------------------------------------
(* Redirected streams.                                                     *)

\* What a stream is redirected to redirects it.
StreamsInv ==
    /\ Redirects!TypeOK /\ Redirects!StreamsRight
    /\ \A s \in Redirects!Stream : sys[s] # None => s \in redirects[sys[s]]

LEMMA StreamsInit == Init => StreamsInv
<1> SUFFICES ASSUME Redirects!Init PROVE StreamsInv
  BY DEF Init
<1> QED
  BY DEF Redirects!Init, Redirects!TypeOK, Redirects!Stream, Redirects!MaxDepth, Redirects!StreamsRight, StreamsInv

LEMMA StreamsNext ==
    ASSUME StreamsInv, [Redirects!Next]_(Redirects!vars)
    PROVE  StreamsInv'
<1> USE DataConstants DEF StreamsInv, Redirects!TypeOK, Redirects!StreamsRight, Redirects!Protected, Redirects!MaxDepth
<1>0. None \notin Block
  OBVIOUS
<1>1. ASSUME NEW b \in Block, NEW S \in SUBSET Redirects!Stream, Redirects!EnterBlock(b, S) PROVE StreamsInv'
  BY <1>0, <1>1 DEF Redirects!EnterBlock, Redirects!Put
<1>2. ASSUME NEW b \in Block, Redirects!LeaveBlock(b) PROVE StreamsInv'
  BY <1>0, <1>2 DEF Redirects!LeaveBlock, Redirects!Put
<1>3. ASSUME NEW b \in Block, Redirects!CloseProxy(b) PROVE StreamsInv'
  BY <1>3 DEF Redirects!CloseProxy
<1>4. ASSUME NEW t \in Printer, NEW s \in Redirects!Stream, Redirects!Write(t, s) PROVE StreamsInv'
  BY <1>4 DEF Redirects!Write
<1>5. ASSUME NEW t \in Printer, Redirects!LogCall(t) PROVE StreamsInv'
  BY <1>5 DEF Redirects!LogCall
<1>6. ASSUME NEW t \in Printer, Redirects!LogReturns(t) PROVE StreamsInv'
  BY <1>6 DEF Redirects!LogReturns
<1>7. CASE UNCHANGED Redirects!vars
  BY <1>7 DEF Redirects!vars
<1> QED
  BY <1>1, <1>2, <1>3, <1>4, <1>5, <1>6, <1>7 DEF Redirects!Next

LEMMA StreamsHold == Spec => [](Redirects!TypeOK /\ Redirects!StreamsRight)
<1>1. StreamsInv => Redirects!TypeOK /\ Redirects!StreamsRight
  BY DEF StreamsInv
<1> QED
  BY StreamsInit, StreamsNext, PartSteps, <1>1, PTL DEF Spec

-----------------------------------------------------------------------------
(* Imports.                                                                *)

\* A directory is taken out of a path that has it once.
LEMMA PathWithout ==
    ASSUME NEW D, NEW q \in Seq(D), Loads!IsInjective(q), NEW x \in Loads!ToSet(q)
    PROVE  /\ Loads!RemoveFirst(q, x) \in Seq(D)
           /\ Loads!IsInjective(Loads!RemoveFirst(q, x))
           /\ Loads!ToSet(Loads!RemoveFirst(q, x)) = Loads!ToSet(q) \ {x}
<1>1. Len(q) \in Nat /\ DOMAIN q = 1..Len(q) /\ \A i \in 1..Len(q) : q[i] \in D
  BY LenProperties, ElementOfSeq
<1>2. \A i, j \in 1..Len(q) : q[i] = q[j] => i = j
  BY <1>1 DEF Loads!IsInjective
<1>3. PICK k \in 1..Len(q) : q[k] = x
  BY <1>1 DEF Loads!ToSet
<1>4. Loads!RemoveFirst(q, x) = SubSeq(q, 1, k - 1) \o SubSeq(q, k + 1, Len(q))
  <2>1. {i \in 1..Len(q) : q[i] = x} = {k}
    BY <1>2, <1>3
  <2>2. Loads!Min({k}) = k
    BY <1>1, <1>3 DEF Loads!Min
  <2>3. Loads!SelectInSeq(q, LAMBDA y : y = x) = k
    BY <2>1, <2>2 DEF Loads!SelectInSeq
  <2> QED
    BY <1>3, <2>3 DEF Loads!RemoveFirst, Loads!RemoveAt
<1> DEFINE a == SubSeq(q, 1, k - 1)
           b == SubSeq(q, k + 1, Len(q))
<1>5. a \in Seq(D) /\ Len(a) = k - 1 /\ \A i \in 1..(k - 1) : a[i] = q[i]
  <2>1. /\ a \in Seq(D) /\ Len(a) = IF 1 <= k - 1 THEN k - 1 - 1 + 1 ELSE 0
        /\ \A i \in 1..(k - 1 - 1 + 1) : a[i] = q[1 + i - 1]
    <3>1. \A i \in 1..(k - 1) : q[i] \in D
      BY <1>1
    <3> QED
      BY <3>1, SubSeqProperties
  <2> QED
    BY <1>1, <2>1
<1>6. b \in Seq(D) /\ Len(b) = Len(q) - k /\ \A i \in 1..(Len(q) - k) : b[i] = q[k + i]
  <2>1. /\ b \in Seq(D) /\ Len(b) = IF k + 1 <= Len(q) THEN Len(q) - (k + 1) + 1 ELSE 0
        /\ \A i \in 1..(Len(q) - (k + 1) + 1) : b[i] = q[k + 1 + i - 1]
    <3>1. \A i \in (k + 1)..Len(q) : q[i] \in D
      BY <1>1
    <3> QED
      BY <1>1, <3>1, SubSeqProperties
  <2>2. Len(b) = Len(q) - k
    <3>1. k \in Nat /\ Len(q) \in Nat /\ k <= Len(q)
      BY <1>1
    <3>2. CASE k = Len(q)
      BY <2>1, <3>1, <3>2
    <3>3. CASE k < Len(q)
      BY <2>1, <3>1, <3>3
    <3> QED
      BY <3>1, <3>2, <3>3
  <2>3. ASSUME NEW i \in 1..(Len(q) - k) PROVE b[i] = q[k + i]
    <3>1. i \in 1..(Len(q) - (k + 1) + 1) /\ k + 1 + i - 1 = k + i
      BY <1>1
    <3>2. b[i] = q[k + 1 + i - 1]
      BY <2>1, <3>1
    <3> QED
      BY <3>1, <3>2
  <2> QED
    BY <2>1, <2>2, <2>3
<1> HIDE DEF a, b
<1> DEFINE r == a \o b
<1>7. /\ r \in Seq(D) /\ Len(r) = Len(q) - 1 /\ DOMAIN r = 1..(Len(q) - 1)
      /\ \A i \in 1..(k - 1) : r[i] = q[i]
      /\ \A i \in k..(Len(q) - 1) : r[i] = q[i + 1]
  <2>1. /\ r \in Seq(D) /\ Len(r) = Len(a) + Len(b)
        /\ \A i \in 1..(Len(a) + Len(b)) : r[i] = IF i <= Len(a) THEN a[i] ELSE b[i - Len(a)]
    BY <1>5, <1>6, ConcatProperties
  <2>2. Len(a) + Len(b) = Len(q) - 1
    BY <1>1, <1>5, <1>6
  <2>3. DOMAIN r = 1..Len(r)
    BY <2>1, LenProperties
  <2> HIDE DEF r
  <2>4. ASSUME NEW i \in 1..(k - 1) PROVE r[i] = q[i]
    <3>1. i \in 1..(Len(a) + Len(b)) /\ i <= Len(a)
      BY <1>1, <1>5, <2>2
    <3> QED
      BY <1>5, <2>1, <3>1
  <2>5. ASSUME NEW i \in k..(Len(q) - 1) PROVE r[i] = q[i + 1]
    <3>1. /\ i \in 1..(Len(a) + Len(b)) /\ ~(i <= Len(a))
          /\ i - Len(a) \in 1..(Len(q) - k) /\ k + (i - Len(a)) = i + 1
      BY <1>1, <1>5, <2>2
    <3>2. r[i] = b[i - Len(a)] /\ b[i - Len(a)] = q[k + (i - Len(a))]
      BY <1>6, <2>1, <3>1
    <3> QED
      BY <3>1, <3>2
  <2> QED
    BY <2>1, <2>2, <2>3, <2>4, <2>5
<1> HIDE DEF r
<1>8. \A i \in 1..(Len(q) - 1) :
        \/ i \in 1..(k - 1) /\ r[i] = q[i]
        \/ i \in k..(Len(q) - 1) /\ r[i] = q[i + 1]
  BY <1>1, <1>7
<1>9. Loads!IsInjective(r)
  <2>1. ASSUME NEW i \in 1..(Len(q) - 1), NEW j \in 1..(Len(q) - 1), r[i] = r[j]
        PROVE  i = j
    BY <1>1, <1>2, <1>8, <2>1
  <2> QED
    BY <1>7, <2>1 DEF Loads!IsInjective
<1>10. Loads!ToSet(r) = Loads!ToSet(q) \ {x}
  <2>1. ASSUME NEW i \in 1..(Len(q) - 1) PROVE r[i] \in Loads!ToSet(q) /\ r[i] # x
    BY <1>1, <1>2, <1>3, <1>8 DEF Loads!ToSet
  <2>2. ASSUME NEW i \in 1..Len(q), q[i] # x PROVE \E j \in 1..(Len(q) - 1) : r[j] = q[i]
    <3>1. CASE i < k
      BY <1>1, <1>7, <3>1
    <3>2. CASE i > k
      <4>1. i - 1 \in k..(Len(q) - 1) /\ i - 1 \in 1..(Len(q) - 1) /\ (i - 1) + 1 = i
        BY <1>1, <3>2
      <4> QED
        BY <1>7, <4>1
    <3> QED
      BY <1>1, <1>3, <2>2, <3>1, <3>2
  <2>3. Loads!ToSet(r) = {r[i] : i \in 1..(Len(q) - 1)}
    BY <1>7 DEF Loads!ToSet
  <2>4. Loads!ToSet(q) = {q[i] : i \in 1..Len(q)}
    BY <1>1 DEF Loads!ToSet
  <2>5. ASSUME NEW y \in Loads!ToSet(r) PROVE y \in Loads!ToSet(q) \ {x}
    BY <2>1, <2>3
  <2>6. ASSUME NEW y \in Loads!ToSet(q) \ {x} PROVE y \in Loads!ToSet(r)
    BY <2>2, <2>3, <2>4
  <2> QED
    BY <2>5, <2>6
<1> QED
  BY <1>4, <1>7, <1>9, <1>10 DEF r, a, b

LEMMA PathWith ==
    ASSUME NEW D, NEW q \in Seq(D), Loads!IsInjective(q), NEW x \in D, x \notin Loads!ToSet(q)
    PROVE  /\ <<x>> \o q \in Seq(D)
           /\ Loads!IsInjective(<<x>> \o q)
           /\ Loads!ToSet(<<x>> \o q) = Loads!ToSet(q) \cup {x}
<1>1. Len(q) \in Nat /\ DOMAIN q = 1..Len(q) /\ \A i \in 1..Len(q) : q[i] \in D
  BY LenProperties, ElementOfSeq
<1>2. \A i, j \in 1..Len(q) : q[i] = q[j] => i = j
  BY <1>1 DEF Loads!IsInjective
<1> DEFINE r == <<x>> \o q
<1>3. /\ r \in Seq(D) /\ Len(r) = Len(q) + 1 /\ r[1] = x
      /\ \A i \in 2..(Len(q) + 1) : r[i] = q[i - 1]
  OBVIOUS
<1>4. DOMAIN r = 1..(Len(q) + 1)
  BY <1>3, LenProperties
<1> HIDE DEF r
<1>5. \A i \in 1..Len(q) : q[i] # x
  BY <1>1 DEF Loads!ToSet
<1>6. \A i \in 1..(Len(q) + 1) :
        i = 1 \/ (i \in 2..(Len(q) + 1) /\ i - 1 \in 1..Len(q) /\ r[i] = q[i - 1])
  BY <1>1, <1>3
<1>7. Loads!IsInjective(r)
  <2>1. ASSUME NEW i \in 1..(Len(q) + 1), NEW j \in 1..(Len(q) + 1), r[i] = r[j]
        PROVE  i = j
    BY <1>1, <1>2, <1>3, <1>5, <1>6, <2>1
  <2> QED
    BY <1>4, <2>1 DEF Loads!IsInjective
<1>8. Loads!ToSet(r) = Loads!ToSet(q) \cup {x}
  <2>1. ASSUME NEW i \in 1..Len(q) PROVE \E j \in 1..(Len(q) + 1) : r[j] = q[i]
    <3>1. i + 1 \in 2..(Len(q) + 1) /\ i + 1 \in 1..(Len(q) + 1) /\ (i + 1) - 1 = i
      BY <1>1
    <3> QED
      BY <1>3, <3>1
  <2>3. Loads!ToSet(r) = {r[i] : i \in 1..(Len(q) + 1)}
    BY <1>4 DEF Loads!ToSet
  <2>4. Loads!ToSet(q) = {q[i] : i \in 1..Len(q)}
    BY <1>1 DEF Loads!ToSet
  <2>5. ASSUME NEW y \in Loads!ToSet(r) PROVE y \in Loads!ToSet(q) \cup {x}
    <3>1. PICK i \in 1..(Len(q) + 1) : y = r[i]
      BY <2>3
    <3>2. CASE i = 1
      BY <1>3, <3>1, <3>2
    <3>3. CASE i # 1
      <4>1. i - 1 \in 1..Len(q) /\ r[i] = q[i - 1]
        BY <1>6, <3>3
      <4> QED
        BY <2>4, <3>1, <4>1
    <3> QED
      BY <3>2, <3>3
  <2>6. ASSUME NEW y \in Loads!ToSet(q) \cup {x} PROVE y \in Loads!ToSet(r)
    <3>1. 1 \in 1..(Len(q) + 1)
      BY <1>1
    <3> QED
      BY <1>3, <2>1, <2>3, <2>4, <3>1
  <2> QED
    BY <2>5, <2>6
<1> QED
  BY <1>3, <1>7, <1>8 DEF r

\* The path is what it was, and what the blocks have inserted, each one its own.
Insertions ==
    /\ \A u \in User : u \in inserted => inside[u] # None
    /\ \A d \in Directory : d \in Loads!ToSet(path) <=>
         d \in at_start \/ \E u \in inserted : inside[u] = d
    /\ \A u \in inserted : inside[u] \notin at_start
    /\ \A u, v \in inserted : inside[u] = inside[v] => u = v

Names ==
    /\ ~finalized => namespaces = declared /\ aliases = {} /\ loading = {}
    /\ finalized /\ ~load_failed => aliases \cup loading = declared
    /\ loading \subseteq declared

ImportsInv == Loads!TypeOK /\ Loads!ImportsRight /\ Insertions /\ Names

LEMMA ImportsInit == Init => ImportsInv
<1> SUFFICES ASSUME Loads!Init PROVE ImportsInv
  BY DEF Init
<1>1. PICK d \in Directory \cup {None} : path = IF d = None THEN <<>> ELSE <<d>>
  BY DEF Loads!Init
<1>2. path \in Seq(Directory) /\ Loads!IsInjective(path)
  BY <1>1 DEF Loads!IsInjective
<1>3. Loads!ToSet(path) \subseteq Directory
  BY <1>2, LenProperties, ElementOfSeq DEF Loads!ToSet
<1> QED
  BY <1>2, <1>3 DEF Loads!Init, Loads!TypeOK, Loads!ImportsRight, Loads!PathRight, Loads!NamesKnown, Insertions, Names,
     ImportsInv

LEMMA ImportsNext ==
    ASSUME ImportsInv, [Loads!Next]_(Loads!vars)
    PROVE  ImportsInv'
<1> USE DataConstants DEF ImportsInv, Loads!ImportsRight
<1>0. None \notin Directory
  OBVIOUS
<1>d. Loads!ToSet(path) \subseteq Directory
  BY LenProperties, ElementOfSeq DEF Loads!TypeOK, Loads!ToSet
<1>1. ASSUME NEW d \in Directory, Loads!Chdir(d) PROVE ImportsInv'
  BY <1>1 DEF Loads!Chdir, Loads!mapping, Loads!TypeOK, Loads!PathRight, Loads!NamesKnown, Insertions, Names
<1>2. ASSUME NEW u \in User, Loads!EnterPath(u) PROVE ImportsInv'
  <2>1. CASE cwd \in Loads!ToSet(path)
    BY <1>0, <1>d, <1>2, <2>1
    DEF Loads!EnterPath, Loads!mapping, Loads!TypeOK, Loads!PathRight, Loads!NamesKnown, Insertions, Names
  <2>2. CASE cwd \notin Loads!ToSet(path)
    <3>1. /\ inside[u] = None /\ inside' = [inside EXCEPT ![u] = cwd]
          /\ path' = <<cwd>> \o path /\ inserted' = inserted \cup {u}
          /\ UNCHANGED <<at_start, cwd, dropped, namespaces, finalized, loading, aliases,
                         load_failed, declared>>
      BY <1>2, <2>2 DEF Loads!EnterPath, Loads!mapping
    <3>2. /\ path' \in Seq(Directory) /\ Loads!IsInjective(path')
          /\ Loads!ToSet(path') = Loads!ToSet(path) \cup {cwd}
      <4>1. path \in Seq(Directory) /\ Loads!IsInjective(path) /\ cwd \in Directory
        BY DEF Loads!TypeOK, Loads!PathRight
      <4> QED
        BY <2>2, <3>1, <4>1, PathWith
    <3>3. Loads!TypeOK'
      BY <3>1, <3>2 DEF Loads!TypeOK
    <3>4. Insertions'
      <4>1. cwd \in Directory /\ u \notin inserted /\ u \in User /\ inserted \subseteq User
        BY <3>1 DEF Insertions, Loads!TypeOK
      <4>2. \A v \in User : inside'[v] = IF v = u THEN cwd ELSE inside[v]
        BY <3>1 DEF Loads!TypeOK
      <4>3. \A v \in inserted : inside[v] # cwd /\ inside[v] \in Directory
        BY <1>0, <2>2, <4>1 DEF Insertions, Loads!TypeOK
      <4>4. cwd \notin at_start
        BY <2>2, <4>1 DEF Insertions
      <4>5. ASSUME NEW d \in Directory
            PROVE  d \in Loads!ToSet(path') <=>
                     d \in at_start' \/ \E v \in inserted' : inside'[v] = d
        BY <3>1, <3>2, <4>1, <4>2, <4>3 DEF Insertions
      <4>6. \A v \in User : v \in inserted' => inside'[v] # None
        BY <1>0, <3>1, <4>1, <4>2 DEF Insertions
      <4>7. \A v \in inserted' : inside'[v] \notin at_start'
        BY <3>1, <4>1, <4>2, <4>4 DEF Insertions
      <4>8. \A v, w \in inserted' : inside'[v] = inside'[w] => v = w
        BY <3>1, <4>1, <4>2, <4>3 DEF Insertions
      <4> QED
        BY <4>5, <4>6, <4>7, <4>8 DEF Insertions
    <3>5. Loads!PathRight'
      BY <1>0, <1>d, <2>2, <3>1, <3>2 DEF Loads!PathRight, Loads!TypeOK
    <3> QED
      BY <3>1, <3>3, <3>4, <3>5 DEF Loads!NamesKnown, Names
  <2> QED
    BY <2>1, <2>2
<1>3. ASSUME NEW u \in User, Loads!LeavePath(u) PROVE ImportsInv'
  <2>1. /\ inside[u] # None /\ inside' = [inside EXCEPT ![u] = None]
        /\ path' = Loads!Leaves(u) /\ inserted' = inserted \ {u}
        /\ dropped' = (dropped \cup {v \in User : u \in inserted /\ inside[v] = inside[u]}) \ {u}
        /\ UNCHANGED <<at_start, cwd, namespaces, finalized, loading, aliases,
                       load_failed, declared>>
    BY <1>3 DEF Loads!LeavePath, Loads!mapping
  <2>2. CASE u \in inserted
    <3>1. inside[u] \in Directory /\ inside[u] \in Loads!ToSet(path)
      BY <2>1, <2>2 DEF Loads!TypeOK, Insertions
    <3>2. path' = Loads!RemoveFirst(path, inside[u])
      BY <2>1, <2>2 DEF Loads!Leaves
    <3>3. /\ path' \in Seq(Directory) /\ Loads!IsInjective(path')
          /\ Loads!ToSet(path') = Loads!ToSet(path) \ {inside[u]}
      BY <3>1, <3>2, PathWithout DEF Loads!TypeOK, Loads!PathRight
    <3>4. Loads!TypeOK'
      BY <2>1, <3>3 DEF Loads!TypeOK
    <3>5. Insertions'
      BY <1>0, <1>d, <2>1, <2>2, <3>1, <3>3 DEF Insertions, Loads!TypeOK
    <3>6. Loads!PathRight'
      <4>1. ASSUME NEW v \in User, inside'[v] # None
            PROVE  inside'[v] \in Loads!ToSet(path') \/ v \in dropped'
        BY <2>1, <2>2, <3>3, <4>1 DEF Loads!PathRight, Loads!TypeOK
      <4>2. ASSUME \A v \in User : inside'[v] = None PROVE Loads!ToSet(path') = at_start'
        <5>1. inserted' = {}
          BY <3>4, <3>5, <4>2 DEF Insertions, Loads!TypeOK
        <5>2. Loads!ToSet(path') \subseteq Directory /\ at_start' \subseteq Directory
          BY <1>d, <3>3, <3>4 DEF Loads!TypeOK
        <5> QED
          BY <3>5, <5>1, <5>2 DEF Insertions
      <4> QED
        BY <3>3, <4>1, <4>2 DEF Loads!PathRight
    <3> QED
      BY <2>1, <3>4, <3>5, <3>6 DEF Loads!NamesKnown, Names
  <2>3. CASE u \notin inserted
    <3>1. path' = path /\ inserted' = inserted /\ dropped' = dropped \ {u}
      BY <2>1, <2>3 DEF Loads!Leaves
    <3>2. Loads!TypeOK'
      BY <2>1, <3>1 DEF Loads!TypeOK
    <3>3. Insertions'
      BY <2>1, <2>3, <3>1 DEF Insertions, Loads!TypeOK
    <3>4. Loads!PathRight'
      <4>1. ASSUME NEW v \in User, inside'[v] # None
            PROVE  inside'[v] \in Loads!ToSet(path') \/ v \in dropped'
        BY <2>1, <2>3, <3>1, <4>1 DEF Loads!PathRight, Loads!TypeOK
      <4>2. ASSUME \A v \in User : inside'[v] = None PROVE Loads!ToSet(path') = at_start'
        <5>1. inserted' = {}
          BY <3>2, <3>3, <4>2 DEF Insertions, Loads!TypeOK
        <5>2. Loads!ToSet(path') \subseteq Directory /\ at_start' \subseteq Directory
          BY <1>d, <3>1, <3>2 DEF Loads!TypeOK
        <5> QED
          BY <3>3, <5>1, <5>2 DEF Insertions
      <4>3. Loads!IsInjective(path')
        BY <3>1 DEF Loads!PathRight
      <4> QED
        BY <4>1, <4>2, <4>3 DEF Loads!PathRight
    <3> QED
      BY <2>1, <3>2, <3>3, <3>4 DEF Loads!NamesKnown, Names
  <2> QED
    BY <2>2, <2>3
<1>4. ASSUME NEW n \in Namespace, Loads!IncludeNamespace(n) PROVE ImportsInv'
  BY <1>4 DEF Loads!IncludeNamespace, Loads!pathvars, Loads!TypeOK, Loads!PathRight, Loads!NamesKnown, Insertions, Names
<1>5. ASSUME NEW n \in Namespace, Loads!LoadNamespace(n) PROVE ImportsInv'
  <2>1. /\ n \in loading
        /\ UNCHANGED <<path, at_start, cwd, inside, inserted, dropped, namespaces, finalized, declared>>
    BY <1>5 DEF Loads!LoadNamespace, Loads!pathvars
  <2>2. \/ loading' = loading \ {n} /\ aliases' = aliases \cup {n} /\ load_failed' = load_failed
        \/ loading' = {} /\ load_failed' = TRUE /\ aliases' = aliases
    BY <1>5 DEF Loads!LoadNamespace
  <2>3. Loads!TypeOK'
    <3>1. CASE loading' = loading \ {n} /\ aliases' = aliases \cup {n} /\ load_failed' = load_failed
      BY <2>1, <3>1 DEF Loads!TypeOK
    <3>2. CASE loading' = {} /\ load_failed' = TRUE /\ aliases' = aliases
      <4>1. /\ path' \in Seq(Directory) /\ at_start' \subseteq Directory /\ cwd' \in Directory
            /\ inside' \in [User -> Directory \cup {None}]
            /\ {inserted', dropped'} \subseteq SUBSET User /\ finalized' \in BOOLEAN
            /\ {namespaces', aliases', declared'} \subseteq SUBSET Namespace
        BY <2>1, <3>2 DEF Loads!TypeOK
      <4> QED
        BY <3>2, <4>1 DEF Loads!TypeOK
    <3> QED
      BY <2>2, <3>1, <3>2
  <2>4. Loads!PathRight' /\ Insertions'
    BY <2>1 DEF Loads!PathRight, Insertions
  <2>5. Names' /\ Loads!NamesKnown'
    BY <2>1, <2>2 DEF Names, Loads!NamesKnown
  <2> QED
    BY <2>3, <2>4, <2>5
<1>6. CASE Loads!Use
  BY <1>6 DEF Loads!Use, Loads!pathvars, Loads!TypeOK, Loads!PathRight, Loads!NamesKnown, Insertions, Names
<1>7. CASE UNCHANGED Loads!vars
  BY <1>7 DEF Loads!vars, Loads!TypeOK, Loads!PathRight, Loads!NamesKnown, Insertions, Names
<1> QED
  BY <1>1, <1>2, <1>3, <1>4, <1>5, <1>6, <1>7 DEF Loads!Next

LEMMA ImportsHold == Spec => [](Loads!TypeOK /\ Loads!ImportsRight)
<1>1. ImportsInv => Loads!TypeOK /\ Loads!ImportsRight
  BY DEF ImportsInv
<1> QED
  BY ImportsInit, ImportsNext, PartSteps, <1>1, PTL DEF Spec

\* What is printed never goes to a block of redirect_stdouts() that was left
\* (mode/utils/logging.py), sys.path has what it had when all blocks of cwd_in_path() are
\* left, and a mapping of factories knows the names of every namespace that was included
\* before its first use (mode/utils/imports.py).
THEOREM GlobalsStayRight == Spec => []GlobalsRight
  BY StreamsHold, ImportsHold, PTL DEF GlobalsRight

-----------------------------------------------------------------------------
(* Nodes.                                                                  *)

\* Walk, for any parents.
Upwards(above, n) ==
    LET walk[i \in Nat] == IF i = 0 THEN {n}
                           ELSE walk[i - 1] \cup ({above[m] : m \in walk[i - 1]} \ {None})
    IN  walk[Cardinality(Beacon)]

LEMMA WalkIsRecursive ==
    ASSUME NEW above \in [Beacon -> Beacon \cup {None}], NEW n \in Beacon
    PROVE  \E walk \in [Nat -> SUBSET Beacon] :
             /\ walk[0] = {n}
             /\ \A i \in Nat : walk[i + 1] = walk[i] \cup ({above[m] : m \in walk[i]} \ {None})
             /\ Upwards(above, n) = walk[Cardinality(Beacon)]
<1> DEFINE up == [X \in SUBSET Beacon |-> X \cup ({above[m] : m \in X} \ {None})]
           W(f) == [i \in Nat |-> IF i = 0 THEN {n}
                                  ELSE f[i - 1] \cup ({above[m] : m \in f[i - 1]} \ {None})]
<1>1. \A X \in SUBSET Beacon : X \cup ({above[m] : m \in X} \ {None}) \in SUBSET Beacon
  OBVIOUS
<1>2. \E f \in [Nat -> SUBSET Beacon] : f = W(f)
  <2> DEFINE Y == SUBSET Beacon
             x == {n}
  <2>1. up \in [Y -> Y] /\ x \in Y
    BY <1>1
  <2>2. PICK f \in [Nat -> Y] : f[0] = x /\ \A i \in Nat : f[i + 1] = up[f[i]]
    <3> HIDE DEF up, Y, x
    <3> QED
      BY <2>1, RecursionOnNat
  <2>3. ASSUME NEW i \in Nat
        PROVE  f[i] = IF i = 0 THEN {n} ELSE f[i - 1] \cup ({above[m] : m \in f[i - 1]} \ {None})
    <3>1. CASE i # 0
      <4>1. i - 1 \in Nat /\ (i - 1) + 1 = i
        BY <3>1
      <4>2. f[i] = up[f[i - 1]] /\ f[i - 1] \in SUBSET Beacon
        BY <2>2, <4>1
      <4> QED
        BY <3>1, <4>2
    <3> QED
      BY <2>2, <3>1
  <2>4. f = W(f)
    BY <2>3
  <2> QED
    BY <2>4
<1> DEFINE walk == CHOOSE f : f = W(f)
<1>3. walk = W(walk)
  <2> HIDE DEF W
  <2> QED
    BY <1>2
<1>4. Upwards(above, n) = walk[Cardinality(Beacon)]
  BY Zenon DEF Upwards
<1> HIDE DEF walk
<1>5. \A i \in Nat : walk[i] = IF i = 0 THEN {n}
                               ELSE walk[i - 1] \cup ({above[m] : m \in walk[i - 1]} \ {None})
  BY <1>3
<1>6. DOMAIN walk = Nat /\ walk[0] = {n}
  BY <1>3
<1>7. \A i \in Nat : walk[i + 1] = walk[i] \cup ({above[m] : m \in walk[i]} \ {None})
  <2> SUFFICES ASSUME NEW i \in Nat
               PROVE  walk[i + 1] = walk[i] \cup ({above[m] : m \in walk[i]} \ {None})
    OBVIOUS
  <2>1. i + 1 \in Nat /\ i + 1 # 0 /\ (i + 1) - 1 = i
    OBVIOUS
  <2> QED
    BY <1>5, <2>1
<1>8. \A i \in Nat : walk[i] \in SUBSET Beacon
  <2> DEFINE T == {i \in Nat : walk[i] \in SUBSET Beacon}
  <2>1. 0 \in T
    BY <1>6
  <2>2. \A i \in Nat : i \in T => i + 1 \in T
    BY <1>1, <1>7
  <2> HIDE DEF T
  <2>3. \A i \in Nat : i \in T
    BY <2>1, <2>2, Induction
  <2> QED
    BY <2>3 DEF T
<1>9. walk \in [Nat -> SUBSET Beacon]
  <2>1. walk = [i \in Nat |-> walk[i]]
    BY <1>3
  <2> QED
    BY <1>8, <2>1
<1> QED
  BY <1>4, <1>6, <1>7, <1>9

\* A walk yields a node and what is above it, and nothing else.
LEMMA WalkIs ==
    ASSUME NEW above \in [Beacon -> Beacon \cup {None}], NEW n \in Beacon
    PROVE  /\ Upwards(above, n) \subseteq Beacon /\ n \in Upwards(above, n)
           /\ \A m \in Upwards(above, n) : above[m] # None => above[m] \in Upwards(above, n)
           /\ \A C : n \in C /\ (\A m \in C \cap Beacon : above[m] # None => above[m] \in C)
                       => Upwards(above, n) \subseteq C
<1>1. PICK walk \in [Nat -> SUBSET Beacon] :
             /\ walk[0] = {n}
             /\ \A i \in Nat : walk[i + 1] = walk[i] \cup ({above[m] : m \in walk[i]} \ {None})
             /\ Upwards(above, n) = walk[Cardinality(Beacon)]
  BY WalkIsRecursive
<1>2. IsFiniteSet(Beacon) /\ Cardinality(Beacon) \in Nat
  BY DataConstants, FS_CardinalityType
<1> DEFINE size == Cardinality(Beacon)
<1>3. \A i \in Nat : i + 1 \in Nat /\ walk[i] \subseteq Beacon /\ IsFiniteSet(walk[i])
                     /\ walk[i] \subseteq walk[i + 1] /\ Cardinality(walk[i]) \in Nat
  <2> SUFFICES ASSUME NEW i \in Nat
               PROVE  /\ i + 1 \in Nat /\ walk[i] \subseteq Beacon /\ IsFiniteSet(walk[i])
                      /\ walk[i] \subseteq walk[i + 1] /\ Cardinality(walk[i]) \in Nat
    OBVIOUS
  <2>1. walk[i] \subseteq Beacon /\ walk[i] \subseteq walk[i + 1]
    BY <1>1
  <2>2. IsFiniteSet(walk[i])
    BY <1>2, <2>1, FS_Subset
  <2> QED
    BY <2>1, <2>2, FS_CardinalityType
\* A walk that has reached everything stays there, and one that has not has grown.
<1>4. ASSUME NEW i \in Nat, walk[i + 1] = walk[i]
      PROVE  walk[i + 2] = walk[i + 1]
  <2>1. (i + 1) + 1 = i + 2 /\ i + 1 \in Nat
    OBVIOUS
  <2>2. walk[i + 2] = walk[i + 1] \cup ({above[m] : m \in walk[i + 1]} \ {None})
    BY <1>1, <2>1
  <2> QED
    BY <1>1, <1>4, <2>2
<1>5. \A i \in Nat : walk[i + 1] = walk[i] \/ Cardinality(walk[i]) >= i + 1
  <2> DEFINE T == {i \in Nat : walk[i + 1] = walk[i] \/ Cardinality(walk[i]) >= i + 1}
  <2>1. 0 \in T
    <3>1. Cardinality(walk[0]) = 1
      BY <1>1, FS_Singleton
    <3> QED
      BY <3>1
  <2>2. ASSUME NEW i \in Nat, i \in T PROVE i + 1 \in T
    <3>0. i + 1 \in Nat /\ (i + 1) + 1 = i + 2
      OBVIOUS
    <3>1. CASE walk[i + 1] = walk[i]
      BY <1>4, <3>0, <3>1
    <3>2. CASE walk[i + 1] # walk[i]
      <4>1. Cardinality(walk[i]) >= i + 1
        BY <2>2, <3>2
      <4>2. Cardinality(walk[i]) < Cardinality(walk[i + 1])
        <5>1. walk[i] \subseteq walk[i + 1] /\ IsFiniteSet(walk[i + 1])
          BY <1>3, <3>0
        <5>2. Cardinality(walk[i]) <= Cardinality(walk[i + 1])
              /\ (Cardinality(walk[i]) = Cardinality(walk[i + 1]) => walk[i] = walk[i + 1])
          BY <5>1, FS_Subset
        <5>3. Cardinality(walk[i]) \in Nat /\ Cardinality(walk[i + 1]) \in Nat
          BY <1>3, <3>0
        <5> QED
          BY <3>2, <5>2, <5>3
      <4>3. Cardinality(walk[i]) \in Nat /\ Cardinality(walk[i + 1]) \in Nat
        BY <1>3, <3>0
      <4>4. Cardinality(walk[i + 1]) >= (i + 1) + 1
        BY <4>1, <4>2, <4>3
      <4> QED
        BY <3>0, <4>4
    <3> QED
      BY <3>1, <3>2
  <2> HIDE DEF T
  <2>3. \A i \in Nat : i \in T
    BY <2>1, <2>2, Induction
  <2> QED
    BY <2>3 DEF T
<1>6. walk[size + 1] = walk[size]
  <2>1. ASSUME Cardinality(walk[size]) >= size + 1 PROVE FALSE
    <3>1. Cardinality(walk[size]) <= size
      BY <1>2, <1>3, FS_Subset
    <3>2. Cardinality(walk[size]) \in Nat /\ size \in Nat
      BY <1>2, <1>3
    <3> HIDE DEF size
    <3> QED
      BY <2>1, <3>1, <3>2
  <2> QED
    BY <1>2, <1>5, <2>1
<1>7. \A i \in Nat : n \in walk[i]
  <2> DEFINE T == {i \in Nat : n \in walk[i]}
  <2>1. 0 \in T /\ \A i \in Nat : i \in T => i + 1 \in T
    BY <1>1, <1>3
  <2> HIDE DEF T
  <2>2. \A i \in Nat : i \in T
    BY <2>1, Induction
  <2> QED
    BY <2>2 DEF T
<1>8. ASSUME NEW C, n \in C, \A m \in C \cap Beacon : above[m] # None => above[m] \in C
      PROVE  \A i \in Nat : walk[i] \subseteq C
  <2> DEFINE T == {i \in Nat : walk[i] \subseteq C}
  <2>1. 0 \in T
    BY <1>1, <1>8
  <2>2. \A i \in Nat : i \in T => i + 1 \in T
    BY <1>1, <1>3, <1>8
  <2> HIDE DEF T
  <2>3. \A i \in Nat : i \in T
    BY <2>1, <2>2, Induction
  <2> QED
    BY <2>3 DEF T
<1>9. ASSUME NEW m \in walk[size], above[m] # None PROVE above[m] \in walk[size]
  <2>1. walk[size + 1] = walk[size] \cup ({above[k] : k \in walk[size]} \ {None})
    BY <1>1, <1>2
  <2> QED
    BY <1>6, <1>9, <2>1
<1> QED
  BY <1>1, <1>2, <1>3, <1>7, <1>8, <1>9

LEMMA WalkBelow ==
    ASSUME NEW above \in [Beacon -> Beacon \cup {None}], NEW n \in Beacon
    PROVE  /\ \A m \in Upwards(above, n) : Upwards(above, m) \subseteq Upwards(above, n)
           /\ above[n] = None => Upwards(above, n) = {n}
           /\ above[n] # None => Upwards(above, n) = {n} \cup Upwards(above, above[n])
<1>1. /\ Upwards(above, n) \subseteq Beacon /\ n \in Upwards(above, n)
      /\ \A m \in Upwards(above, n) : above[m] # None => above[m] \in Upwards(above, n)
  BY WalkIs
<1>2. ASSUME NEW m \in Upwards(above, n) PROVE Upwards(above, m) \subseteq Upwards(above, n)
  <2>1. m \in Beacon
    BY <1>1
  <2>2. \A C : m \in C /\ (\A k \in C \cap Beacon : above[k] # None => above[k] \in C)
                 => Upwards(above, m) \subseteq C
    BY <2>1, WalkIs
  <2> QED
    BY <1>1, <2>2
<1>3. \A C : n \in C /\ (\A m \in C \cap Beacon : above[m] # None => above[m] \in C)
               => Upwards(above, n) \subseteq C
  BY WalkIs
<1>4. ASSUME above[n] = None PROVE Upwards(above, n) = {n}
  <2>1. Upwards(above, n) \subseteq {n}
    BY <1>3, <1>4
  <2> QED
    BY <1>1, <2>1
<1>5. ASSUME above[n] # None PROVE Upwards(above, n) = {n} \cup Upwards(above, above[n])
  <2>1. above[n] \in Beacon /\ above[n] \in Upwards(above, n)
    BY <1>1, <1>5
  <2>2. /\ Upwards(above, above[n]) \subseteq Beacon /\ above[n] \in Upwards(above, above[n])
        /\ \A m \in Upwards(above, above[n]) :
             above[m] # None => above[m] \in Upwards(above, above[n])
    BY <2>1, WalkIs
  <2>3. Upwards(above, n) \subseteq {n} \cup Upwards(above, above[n])
    <3> DEFINE C == {n} \cup Upwards(above, above[n])
    <3>1. n \in C /\ \A m \in C \cap Beacon : above[m] # None => above[m] \in C
      BY <2>2
    <3> HIDE DEF C
    <3>2. Upwards(above, n) \subseteq C
      BY <1>3, <3>1
    <3> QED
      BY <3>2 DEF C
  <2> QED
    BY <1>1, <1>2, <2>1, <2>3
<1> QED
  BY <1>2, <1>4, <1>5

\* A walk that ends has one end.
LEMMA WalkEndsOnce ==
    ASSUME NEW above \in [Beacon -> Beacon \cup {None}], NEW n \in Beacon,
           NEW end \in Upwards(above, n), above[end] = None, NEW m \in Upwards(above, n)
    PROVE  end \in Upwards(above, m)
<1> DEFINE C == {k \in Beacon : end \in Upwards(above, k)}
<1>1. n \in C
  OBVIOUS
<1>2. ASSUME NEW k \in C \cap Beacon, above[k] # None PROVE above[k] \in C
  <2>1. above[k] \in Beacon
    BY <1>2
  <2>2. Upwards(above, k) = {k} \cup Upwards(above, above[k])
    BY <1>2, WalkBelow
  <2>3. end # k
    BY <1>2
  <2> QED
    BY <2>1, <2>2, <2>3
<1> HIDE DEF C
<1>3. Upwards(above, n) \subseteq C
  BY <1>1, <1>2, WalkIs
<1> QED
  BY <1>3 DEF C

\* A change that is not above a node does not change its walk.
LEMMA WalkElsewhere ==
    ASSUME NEW above \in [Beacon -> Beacon \cup {None}],
           NEW new \in [Beacon -> Beacon \cup {None}], NEW n \in Beacon,
           \A m \in Upwards(above, n) : new[m] = above[m]
    PROVE  Upwards(new, n) = Upwards(above, n)
<1>1. /\ Upwards(above, n) \subseteq Beacon /\ n \in Upwards(above, n)
      /\ \A m \in Upwards(above, n) : above[m] # None => above[m] \in Upwards(above, n)
      /\ \A C : n \in C /\ (\A m \in C \cap Beacon : above[m] # None => above[m] \in C)
                  => Upwards(above, n) \subseteq C
  BY WalkIs
<1>2. /\ Upwards(new, n) \subseteq Beacon /\ n \in Upwards(new, n)
      /\ \A m \in Upwards(new, n) : new[m] # None => new[m] \in Upwards(new, n)
      /\ \A C : n \in C /\ (\A m \in C \cap Beacon : new[m] # None => new[m] \in C)
                  => Upwards(new, n) \subseteq C
  BY WalkIs
<1>3. Upwards(new, n) \subseteq Upwards(above, n)
  BY <1>1, <1>2
<1>4. Upwards(above, n) \subseteq Upwards(new, n)
  BY <1>1, <1>2, <1>3
<1> QED
  BY <1>3, <1>4

\* Links are to nodes that exist, and a node with a parent has a root.
Links ==
    /\ \A n \in Beacon : parent[n] = None <=> root[n] = None
    /\ \A n \in Beacon : n \notin exists => parent[n] = None
    /\ \A n \in Beacon : parent[n] \in exists \cup {None} /\ root[n] \in exists \cup {None}

\* The two parts of RootTrue, and WalkEnds.
Listed == \A n \in exists : parent[n] # None /\ n \notin discarded => n \in children[parent[n]]
NoCircle == ~misled => \A n \in exists : parent[n] # None => n \notin Upwards(parent, parent[n])
RootsTrue ==
    ~misled => \A n \in exists \ carried :
      parent[Trees!RootOf(n)] = None /\ Trees!RootOf(n) \in Upwards(parent, n)

NodeInv == Trees!TypeOK /\ Links /\ Listed /\ NoCircle /\ RootsTrue

LEMMA NodeInit == Init => NodeInv
<1> SUFFICES ASSUME Trees!Init PROVE NodeInv
  BY DEF Init
<1> QED
  BY DEF Trees!Init, Trees!Nowhere, Trees!TypeOK, Links, Listed, NoCircle, RootsTrue, NodeInv

LEMMA RightIsListed == NodeInv => Trees!TypeOK /\ Trees!TreeRight
<1> SUFFICES ASSUME NodeInv PROVE Trees!TypeOK /\ Trees!TreeRight
  OBVIOUS
<1>1. \A n : Trees!Walk(n) = Upwards(parent, n)
  <2> SUFFICES ASSUME NEW n PROVE Trees!Walk(n) = Upwards(parent, n)
    OBVIOUS
  <2> QED
    BY Zenon DEF Trees!Walk, Upwards, Trees!Cardinality, Cardinality
<1>2. Trees!WalkEnds
  BY <1>1 DEF NodeInv, NoCircle, Trees!WalkEnds
<1>3. Trees!RootTrue
  BY <1>1 DEF NodeInv, Listed, RootsTrue, Trees!RootTrue
<1> QED
  BY <1>2, <1>3 DEF NodeInv, Trees!TreeRight

\* What is above a node that exists exists.
LEMMA WalkExists ==
    ASSUME Trees!TypeOK, Links, NEW n \in exists
    PROVE  Upwards(parent, n) \subseteq exists
  BY WalkIs DEF Trees!TypeOK, Links

LEMMA NodeNext ==
    ASSUME NodeInv, [Trees!Next]_(Trees!vars)
    PROVE  NodeInv'
<1> USE DEF NodeInv
<1>0. /\ parent \in [Beacon -> Beacon \cup {None}] /\ root \in [Beacon -> Beacon \cup {None}]
      /\ None \notin Beacon /\ exists \subseteq Beacon
      /\ \A n \in Beacon : Trees!RootOf(n) \in Beacon
      /\ \A n \in exists : Trees!RootOf(n) \in exists
  BY DataConstants DEF Trees!TypeOK, Trees!RootOf, Links
<1>b. \A n : Trees!Below(n) = {m \in Beacon \ {n} : n \in Upwards(parent, m)}
  <2> SUFFICES ASSUME NEW n PROVE Trees!Below(n) = {m \in Beacon \ {n} : n \in Upwards(parent, m)}
    OBVIOUS
  <2>1. \A m : Trees!Walk(m) = Upwards(parent, m)
    <3> SUFFICES ASSUME NEW m PROVE Trees!Walk(m) = Upwards(parent, m)
      OBVIOUS
    <3> QED
      BY Zenon DEF Trees!Walk, Upwards, Trees!Cardinality, Cardinality
  <2> QED
    BY <2>1 DEF Trees!Below
<1>u. \A n \in Beacon : Upwards(parent, n) \subseteq Beacon /\ n \in Upwards(parent, n)
  BY <1>0, WalkIs
<1>1. ASSUME NEW n \in Beacon, Trees!MakeNode(n) PROVE NodeInv'
  <2>1. /\ n \notin exists /\ exists' = exists \cup {n}
        /\ UNCHANGED <<parent, root, children, carried, discarded, misled>>
    BY <1>1 DEF Trees!MakeNode, Trees!links
  <2>2. parent[n] = None /\ root[n] = None
    BY <2>1 DEF Links
  <2>3. Trees!TypeOK' /\ Links' /\ Listed' /\ NoCircle'
    BY <2>1, <2>2 DEF Trees!TypeOK, Links, Listed, NoCircle
  <2>4. RootsTrue'
    BY <1>u, <2>1, <2>2 DEF RootsTrue, Trees!RootOf
  <2> QED
    BY <2>3, <2>4
<1>2. ASSUME NEW n \in Beacon, NEW p \in Beacon, Trees!New(p, n) PROVE NodeInv'
  <2>1. /\ p \in exists /\ n \notin exists /\ exists' = exists \cup {n}
        /\ parent' = [parent EXCEPT ![n] = p] /\ root' = [root EXCEPT ![n] = Trees!RootOf(p)]
        /\ children' = [children EXCEPT ![p] = @ \cup {n}]
        /\ carried' = IF p \in carried THEN carried \cup {n} ELSE carried
        /\ discarded' = discarded /\ misled' = misled
    BY <1>2 DEF Trees!New
  <2>2. Trees!TypeOK'
    BY <1>0, <2>1 DEF Trees!TypeOK
  <2>3. Links'
    BY <1>0, <2>1 DEF Links
  <2>4. Listed'
    <3>1. ASSUME NEW m \in exists', parent'[m] # None, m \notin discarded'
          PROVE  m \in children'[parent'[m]]
      <4>1. CASE m = n
        BY <1>0, <2>1, <4>1 DEF Trees!TypeOK
      <4>2. CASE m # n
        <5>1. m \in exists /\ parent'[m] = parent[m] /\ parent[m] \in Beacon
          BY <1>0, <2>1, <3>1, <4>2
        <5>2. m \in children[parent[m]]
          BY <2>1, <3>1, <5>1 DEF Listed
        <5> QED
          BY <2>1, <5>1, <5>2 DEF Trees!TypeOK
      <4> QED
        BY <4>1, <4>2
    <3> QED
      BY <3>1 DEF Listed
  <2>5. ASSUME NEW m \in exists
        PROVE  Upwards(parent', m) = Upwards(parent, m) /\ Upwards(parent, m) \subseteq exists
    <3>1. Upwards(parent, m) \subseteq exists
      BY WalkExists
    <3>2. \A k \in Upwards(parent, m) : parent'[k] = parent[k]
      BY <1>0, <2>1, <3>1
    <3> QED
      BY <1>0, <2>2, <3>1, <3>2, WalkElsewhere DEF Trees!TypeOK
  <2>6. Upwards(parent', n) = {n} \cup Upwards(parent, p)
    <3>1. parent'[n] = p /\ p # None
      BY <1>0, <2>1
    <3>2. Upwards(parent', n) = {n} \cup Upwards(parent', p)
      BY <1>0, <2>2, <3>1, WalkBelow DEF Trees!TypeOK
    <3> QED
      BY <2>1, <2>5, <3>2
  <2>7. NoCircle'
    <3>1. ASSUME ~misled', NEW m \in exists', parent'[m] # None
          PROVE  m \notin Upwards(parent', parent'[m])
      <4>1. CASE m = n
        BY <1>0, <2>1, <2>5, <4>1
      <4>2. CASE m # n
        <5>1. m \in exists /\ parent'[m] = parent[m] /\ parent[m] \in exists
          BY <1>0, <2>1, <3>1, <4>2 DEF Links
        <5> QED
          BY <2>1, <2>5, <3>1, <5>1 DEF NoCircle
      <4> QED
        BY <4>1, <4>2
    <3> QED
      BY <3>1 DEF NoCircle
  <2>8. RootsTrue'
    <3>1. ASSUME ~misled', NEW m \in exists' \ carried'
          PROVE  parent'[Trees!RootOf(m)'] = None /\ Trees!RootOf(m)' \in Upwards(parent', m)
      <4>1. CASE m = n
        <5>1. p \notin carried /\ ~misled
          BY <2>1, <3>1, <4>1
        <5>2. parent[Trees!RootOf(p)] = None /\ Trees!RootOf(p) \in Upwards(parent, p)
          BY <2>1, <5>1 DEF RootsTrue
        <5>3. Trees!RootOf(m)' = Trees!RootOf(p)
          BY <1>0, <2>1, <4>1 DEF Trees!RootOf
        <5>4. Trees!RootOf(p) \in exists /\ Trees!RootOf(p) # n
          BY <1>0, <2>1
        <5> QED
          BY <1>0, <2>1, <2>6, <4>1, <5>2, <5>3, <5>4
      <4>2. CASE m # n
        <5>1. m \in exists \ carried /\ Trees!RootOf(m)' = Trees!RootOf(m)
          BY <1>0, <2>1, <3>1, <4>2 DEF Trees!RootOf
        <5>2. parent[Trees!RootOf(m)] = None /\ Trees!RootOf(m) \in Upwards(parent, m)
          BY <2>1, <3>1, <5>1 DEF RootsTrue
        <5>3. Trees!RootOf(m) # n /\ Trees!RootOf(m) \in Beacon
          BY <1>0, <2>1, <5>1
        <5>4. parent'[Trees!RootOf(m)] = parent[Trees!RootOf(m)]
          BY <1>0, <2>1, <5>3
        <5>5. Upwards(parent', m) = Upwards(parent, m)
          BY <2>5, <5>1
        <5> QED
          BY <5>1, <5>2, <5>4, <5>5
      <4> QED
        BY <4>1, <4>2
    <3> QED
      BY <3>1 DEF RootsTrue
  <2> QED
    BY <2>2, <2>3, <2>4, <2>7, <2>8
<1>3. ASSUME NEW n \in Beacon, NEW p \in Beacon, Trees!Reattach(n, p) PROVE NodeInv'
  <2>1. /\ n \in exists /\ p \in exists /\ Trees!RootOf(p) # n /\ p # n
        /\ root' = [root EXCEPT ![n] = Trees!RootOf(p)] /\ parent' = [parent EXCEPT ![n] = p]
        /\ children' = [children EXCEPT ![p] = @ \cup {n}]
        /\ carried' = (carried \ {n}) \cup Trees!Below(n) \cup (IF p \in carried THEN {n} ELSE {})
        /\ discarded' = discarded \ {n}
        /\ misled' = (misled \/ parent[n] # None \/ p \in carried)
        /\ exists' = exists
    BY <1>3 DEF Trees!Reattach
  <2>2. Trees!TypeOK'
    <3>1. Trees!Below(n) \subseteq Beacon
      BY <1>b
    <3>2. carried' \subseteq Beacon
      BY <2>1, <3>1 DEF Trees!TypeOK
    <3> QED
      BY <1>0, <2>1, <3>2 DEF Trees!TypeOK
  <2>3. Links'
    BY <1>0, <2>1 DEF Links
  <2>4. Listed'
    <3>1. ASSUME NEW m \in exists', parent'[m] # None, m \notin discarded'
          PROVE  m \in children'[parent'[m]]
      <4>1. CASE m = n
        BY <1>0, <2>1, <4>1 DEF Trees!TypeOK
      <4>2. CASE m # n
        <5>1. m \in exists /\ parent'[m] = parent[m] /\ parent[m] \in Beacon
          BY <1>0, <2>1, <3>1, <4>2
        <5>2. m \in children[parent[m]]
          BY <2>1, <3>1, <4>2, <5>1 DEF Listed
        <5> QED
          BY <2>1, <5>1, <5>2 DEF Trees!TypeOK
      <4> QED
        BY <4>1, <4>2
    <3> QED
      BY <3>1 DEF Listed
\* The node has no parent and is not the end of the walk of its new one.
  <2>5. ASSUME ~misled' PROVE /\ ~misled /\ parent[n] = None /\ p \notin carried
                              /\ parent[Trees!RootOf(p)] = None
                              /\ Trees!RootOf(p) \in Upwards(parent, p)
                              /\ n \notin Upwards(parent, p)
    <3>1. ~misled /\ parent[n] = None /\ p \notin carried
      BY <2>1, <2>5
    <3>2. parent[Trees!RootOf(p)] = None /\ Trees!RootOf(p) \in Upwards(parent, p)
      BY <2>1, <3>1 DEF RootsTrue
    <3>3. ASSUME n \in Upwards(parent, p) PROVE FALSE
      <4>1. Trees!RootOf(p) \in Upwards(parent, n)
        BY <1>0, <3>2, <3>3, WalkEndsOnce
      <4>2. Upwards(parent, n) = {n}
        BY <1>0, <3>1, WalkBelow
      <4> QED
        BY <2>1, <4>1, <4>2
    <3> QED
      BY <3>1, <3>2, <3>3
  <2>6. ASSUME NEW m \in Beacon, n \notin Upwards(parent, m)
        PROVE  Upwards(parent', m) = Upwards(parent, m)
    <3>1. \A k \in Upwards(parent, m) : parent'[k] = parent[k]
      BY <1>0, <1>u, <2>1, <2>6
    <3> QED
      BY <1>0, <2>2, <3>1, WalkElsewhere DEF Trees!TypeOK
  <2>7. NoCircle'
    <3>1. ASSUME ~misled', NEW m \in exists', parent'[m] # None
          PROVE  m \notin Upwards(parent', parent'[m])
      <4>1. CASE m = n
        BY <1>0, <2>1, <2>5, <2>6, <3>1, <4>1
      <4>2. CASE m # n
        <5> DEFINE q == parent[m]
        <5>1. m \in exists /\ parent'[m] = q /\ q \in exists /\ q # None
          BY <1>0, <2>1, <3>1, <4>2 DEF Links
        <5>2. m \notin Upwards(parent, q)
          BY <2>5, <3>1, <5>1 DEF NoCircle
        <5>3. CASE n \notin Upwards(parent, q)
          <6>1. Upwards(parent', q) = Upwards(parent, q)
            BY <1>0, <2>6, <5>1, <5>3
          <6> QED
            BY <5>1, <5>2, <6>1
        <5>4. CASE n \in Upwards(parent, q)
          <6> DEFINE C == Upwards(parent, q) \cup Upwards(parent, p)
          <6>1. /\ q \in Upwards(parent, q) /\ p \in Upwards(parent, p)
                /\ \A k \in Upwards(parent, q) : parent[k] # None => parent[k] \in Upwards(parent, q)
                /\ \A k \in Upwards(parent, p) : parent[k] # None => parent[k] \in Upwards(parent, p)
            BY <1>0, <5>1, WalkIs
          <6>2. q \in C /\ \A k \in C \cap Beacon : parent'[k] # None => parent'[k] \in C
            BY <1>0, <2>1, <6>1
          <6> HIDE DEF C
          <6>3. Upwards(parent', q) \subseteq C
            <7>1. parent' \in [Beacon -> Beacon \cup {None}] /\ q \in Beacon
              BY <1>0, <2>2, <5>1 DEF Trees!TypeOK
            <7> HIDE DEF q
            <7> QED
              BY <6>2, <7>1, WalkIs
          <6>4. m \notin Upwards(parent, p)
            <7>1. ASSUME m \in Upwards(parent, p) PROVE FALSE
              <8>1. q \in Upwards(parent, p)
                BY <1>0, <5>1, <7>1, WalkIs
              <8>2. n \in Upwards(parent, p)
                BY <1>0, <5>4, <8>1, WalkBelow
              <8> QED
                BY <2>5, <3>1, <8>2
            <7> QED
              BY <7>1
          <6> QED
            BY <5>1, <5>2, <6>3, <6>4 DEF C
        <5> QED
          BY <5>3, <5>4
      <4> QED
        BY <4>1, <4>2
    <3> QED
      BY <3>1 DEF NoCircle
  <2>8. RootsTrue'
    <3>1. ASSUME ~misled', NEW m \in exists' \ carried'
          PROVE  parent'[Trees!RootOf(m)'] = None /\ Trees!RootOf(m)' \in Upwards(parent', m)
      <4>1. CASE m = n
        <5>1. Trees!RootOf(m)' = Trees!RootOf(p)
          BY <1>0, <2>1, <4>1 DEF Trees!RootOf
        <5>2. Upwards(parent', p) = Upwards(parent, p)
          BY <2>5, <2>6, <3>1
        <5>3. parent'[n] = p /\ p # None
          BY <1>0, <2>1
        <5>4. Upwards(parent', n) = {n} \cup Upwards(parent', p)
          BY <1>0, <2>2, <5>3, WalkBelow DEF Trees!TypeOK
        <5> QED
          BY <1>0, <2>1, <2>5, <3>1, <4>1, <5>1, <5>2, <5>4
      <4>2. CASE m # n
        <5>1. /\ m \in exists \ carried /\ Trees!RootOf(m)' = Trees!RootOf(m)
              /\ n \notin Upwards(parent, m)
          BY <1>0, <1>b, <2>1, <3>1, <4>2 DEF Trees!RootOf
        <5>2. parent[Trees!RootOf(m)] = None /\ Trees!RootOf(m) \in Upwards(parent, m)
          BY <2>5, <3>1, <5>1 DEF RootsTrue
        <5>3. Trees!RootOf(m) # n
          BY <5>1, <5>2
        <5>4. Upwards(parent', m) = Upwards(parent, m)
          BY <1>0, <2>6, <5>1
        <5>5. parent'[Trees!RootOf(m)] = parent[Trees!RootOf(m)]
          BY <1>0, <2>1, <5>1, <5>3
        <5> QED
          BY <5>1, <5>2, <5>4, <5>5
      <4> QED
        BY <4>1, <4>2
    <3> QED
      BY <3>1 DEF RootsTrue
  <2> QED
    BY <2>2, <2>3, <2>4, <2>7, <2>8
<1>4. ASSUME NEW n \in Beacon, Trees!Detach(n) PROVE NodeInv'
  <2>1. /\ n \in exists /\ exists' = exists /\ misled' = misled
        /\ children' = IF parent[n] = None THEN children
                       ELSE [children EXCEPT ![parent[n]] = @ \ {n}]
        /\ parent' = [parent EXCEPT ![n] = None] /\ root' = [root EXCEPT ![n] = None]
        /\ carried' = (carried \ {n}) \cup (IF root[n] = None THEN {} ELSE Trees!Below(n))
        /\ discarded' = discarded \ {n}
    BY <1>4 DEF Trees!Detach
  <2>2. Trees!TypeOK'
    <3>1. Trees!Below(n) \subseteq Beacon
      BY <1>b
    <3>2. carried' \subseteq Beacon
      BY <2>1, <3>1 DEF Trees!TypeOK
    <3>3. children' \in [Beacon -> SUBSET Beacon]
      BY <2>1 DEF Trees!TypeOK
    <3> QED
      BY <1>0, <2>1, <3>2, <3>3 DEF Trees!TypeOK
  <2>3. Links'
    BY <1>0, <2>1 DEF Links
  <2>4. Listed'
    <3>1. ASSUME NEW m \in exists', parent'[m] # None, m \notin discarded'
          PROVE  m \in children'[parent'[m]]
      <4>1. m # n /\ m \in exists /\ parent'[m] = parent[m] /\ parent[m] \in Beacon
        BY <1>0, <2>1, <3>1
      <4>2. m \in children[parent[m]]
        BY <2>1, <3>1, <4>1 DEF Listed
      <4> QED
        BY <2>1, <4>1, <4>2 DEF Trees!TypeOK
    <3> QED
      BY <3>1 DEF Listed
  <2>5. ASSUME NEW m \in Beacon PROVE Upwards(parent', m) \subseteq Upwards(parent, m)
    <3> DEFINE C == Upwards(parent, m)
    <3>1. m \in C /\ \A k \in C \cap Beacon : parent'[k] # None => parent'[k] \in C
      BY <1>0, <2>1, WalkIs
    <3> HIDE DEF C
    <3>2. Upwards(parent', m) \subseteq C
      BY <2>2, <3>1, WalkIs DEF Trees!TypeOK
    <3> QED
      BY <3>2 DEF C
  <2>6. NoCircle'
    <3>1. ASSUME ~misled', NEW m \in exists', parent'[m] # None
          PROVE  m \notin Upwards(parent', parent'[m])
      <4>1. m \in exists /\ parent'[m] = parent[m] /\ parent[m] \in Beacon
        BY <1>0, <2>1, <3>1
      <4>2. m \notin Upwards(parent, parent[m])
        BY <2>1, <3>1, <4>1 DEF NoCircle
      <4> QED
        BY <2>5, <4>1, <4>2
    <3> QED
      BY <3>1 DEF NoCircle
  <2>7. RootsTrue'
    <3>1. ASSUME ~misled', NEW m \in exists' \ carried'
          PROVE  parent'[Trees!RootOf(m)'] = None /\ Trees!RootOf(m)' \in Upwards(parent', m)
      <4>1. CASE m = n
        <5>1. Trees!RootOf(m)' = n
          BY <1>0, <2>1, <4>1 DEF Trees!RootOf
        <5>2. n \in Upwards(parent', n)
          BY <2>2, WalkIs DEF Trees!TypeOK
        <5> QED
          BY <1>0, <2>1, <4>1, <5>1, <5>2
      <4>2. CASE m # n
        <5>1. /\ m \in exists \ carried /\ Trees!RootOf(m)' = Trees!RootOf(m)
              /\ root[n] # None => n \notin Upwards(parent, m)
          BY <1>0, <1>b, <2>1, <3>1, <4>2 DEF Trees!RootOf
        <5>2. parent[Trees!RootOf(m)] = None /\ Trees!RootOf(m) \in Upwards(parent, m)
          BY <2>1, <3>1, <5>1 DEF RootsTrue
        <5>3. \A k \in Upwards(parent, m) : parent'[k] = parent[k]
          <6>1. CASE root[n] = None
            BY <1>0, <1>u, <2>1, <5>1, <6>1 DEF Links
          <6>2. CASE root[n] # None
            BY <1>0, <1>u, <2>1, <5>1, <6>2
          <6> QED
            BY <6>1, <6>2
        <5>4. Upwards(parent', m) = Upwards(parent, m)
          BY <1>0, <2>2, <5>1, <5>3, WalkElsewhere DEF Trees!TypeOK
        <5> QED
          BY <5>1, <5>2, <5>3, <5>4
      <4> QED
        BY <4>1, <4>2
    <3> QED
      BY <3>1 DEF RootsTrue
  <2> QED
    BY <2>2, <2>3, <2>4, <2>6, <2>7
<1>5. ASSUME NEW n \in Beacon, NEW p \in Beacon, Trees!Discard(p, n) PROVE NodeInv'
  <2>1. /\ children' = [children EXCEPT ![p] = @ \ {n}]
        /\ discarded' = IF parent[n] = p THEN discarded \cup {n} ELSE discarded
        /\ UNCHANGED <<parent, root, exists, carried, misled>>
    BY <1>5 DEF Trees!Discard
  <2>2. Trees!TypeOK' /\ Links' /\ NoCircle'
    BY <2>1 DEF Trees!TypeOK, Links, NoCircle
  <2>3. Listed'
    BY <1>0, <2>1 DEF Listed, Trees!TypeOK
  <2>4. RootsTrue'
    BY <2>1 DEF RootsTrue, Trees!RootOf
  <2> QED
    BY <2>2, <2>3, <2>4
<1>6. CASE UNCHANGED Trees!vars
  BY <1>6 DEF Trees!vars, Trees!TypeOK, Links, Listed, NoCircle, RootsTrue, Trees!RootOf
<1> QED
  BY <1>1, <1>2, <1>3, <1>4, <1>5, <1>6 DEF Trees!Next

LEMMA NodesHold == Spec => [](Trees!TypeOK /\ Trees!TreeRight)
  BY NodeInit, NodeNext, RightIsListed, PartSteps, PTL DEF Spec

-----------------------------------------------------------------------------
(* Lazy proxies.                                                           *)

\* Only the innermost evaluation is between its finalizers, and one of a proxy
\* that has run none of them is there before the object.
Evaluations ==
    /\ \A i \in 1..Len(frames) : i < Len(frames) => frames[i][1] # "finalizers"
    /\ \A i \in 1..Len(frames) : frames[i][1] = "finalizer" => settled # {}
    /\ IF cached THEN has_local <=> cache = 0 ELSE has_local /\ cache = 0
    /\ settled = {} /\ Proxies!At("finalizers") => has_local
    /\ {cache, name} \subseteq given \cup {0}
    /\ proxy_broken => cached /\ settled # {}

\* Unless finalizers or factory need the object there is one evaluation at a time.
OneEvaluation ==
    ~reentered =>
      /\ Len(frames) <= 1 /\ ~proxy_broken
      /\ cached => /\ created = cache /\ cache \in {0, 1} /\ (frames # <<>> => cache = 0)
                   /\ given \subseteq {cache} /\ {proxy_entered, name, written} \subseteq {0, cache}
                   /\ ~swapped /\ ~missed
      /\ before \subseteq settled \cup Proxies!ToSet(finalizers)
      /\ Proxies!At("factory") \/ given # {} => before \subseteq settled

ProxyInv == Proxies!TypeOK /\ Evaluations /\ OneEvaluation

LEMMA ProxyInit == Init => ProxyInv
<1> SUFFICES ASSUME Proxies!Init PROVE ProxyInv
  BY DEF Init
<1> USE DataConstants DEF Proxies!Init
<1>1. Proxies!TypeOK
  <2>1. {cached, has_local, reentered, proxy_broken, swapped, missed} \subseteq BOOLEAN
    BY DEF Proxies!Init
  <2>2. 0 \in 0..MaxObjects
    BY DataConstants
  <2>3. {cache, created, proxy_entered, name, written} \subseteq 0..MaxObjects
    BY <2>2
  <2>4. finalizers \in Seq(Finalizer) /\ frames \in Seq(Proxies!PC \X Proxies!Role)
    OBVIOUS
  <2> QED
    BY <2>1, <2>3, <2>4 DEF Proxies!TypeOK
<1>2. Len(frames) = 0 /\ ~Proxies!At("finalizers") /\ ~Proxies!At("factory")
  BY DEF Proxies!At
<1>3. Evaluations
  BY <1>2 DEF Evaluations
<1>4. OneEvaluation
  BY <1>2 DEF OneEvaluation
<1> QED
  BY <1>1, <1>3, <1>4 DEF ProxyInv

LEMMA AtIs ==
    ASSUME NEW pc
    PROVE  frames \in Seq(Proxies!PC \X Proxies!Role) =>
             /\ Proxies!At(pc) <=> Len(frames) # 0 /\ frames[Len(frames)][1] = pc
             /\ Len(frames) \in Nat /\ \A i \in 1..Len(frames) : frames[i] \in Proxies!PC \X Proxies!Role
             /\ frames = <<>> <=> Len(frames) = 0
<1> SUFFICES ASSUME frames \in Seq(Proxies!PC \X Proxies!Role)
             PROVE  /\ Proxies!At(pc) <=> Len(frames) # 0 /\ frames[Len(frames)][1] = pc
                    /\ Len(frames) \in Nat
                    /\ \A i \in 1..Len(frames) : frames[i] \in Proxies!PC \X Proxies!Role
                    /\ frames = <<>> <=> Len(frames) = 0
  OBVIOUS
<1>1. Len(frames) \in Nat /\ (frames = <<>> <=> Len(frames) = 0)
  BY EmptySeq, LenProperties
<1> QED
  BY <1>1, ElementOfSeq DEF Proxies!At, Proxies!Last

\* How the evaluations change.
LEMMA GotoIs ==
    ASSUME frames \in Seq(Proxies!PC \X Proxies!Role), frames # <<>>, NEW pc \in Proxies!PC, Proxies!Goto(pc)
    PROVE  /\ frames' \in Seq(Proxies!PC \X Proxies!Role) /\ Len(frames') = Len(frames)
           /\ \A i \in 1..Len(frames) :
                frames'[i][1] = IF i = Len(frames) THEN pc ELSE frames[i][1]
<1>1. Len(frames) \in Nat /\ Len(frames) # 0 /\ DOMAIN frames = 1..Len(frames)
      /\ \A i \in 1..Len(frames) : frames[i] \in Proxies!PC \X Proxies!Role
  BY AtIs, LenProperties
<1>2. frames' = [frames EXCEPT ![Len(frames)] = <<pc, frames[Len(frames)][2]>>]
  BY DEF Proxies!Goto
<1>3. <<pc, frames[Len(frames)][2]>> \in Proxies!PC \X Proxies!Role
  BY <1>1
<1>4. frames' \in Seq(Proxies!PC \X Proxies!Role) /\ Len(frames') = Len(frames)
  <2>1. Len(frames) \in 1..Len(frames)
    BY <1>1
  <2>2. /\ frames' \in Seq(Proxies!PC \X Proxies!Role)
        /\ DOMAIN frames' = DOMAIN frames
    BY <1>2, <1>3, ExceptSeq
  <2>3. Len(frames') \in Nat /\ DOMAIN frames' = 1..Len(frames')
    BY <2>2, LenProperties
  <2> QED
    BY <1>1, <2>2, <2>3
<1>5. ASSUME NEW i \in 1..Len(frames)
      PROVE  frames'[i][1] = IF i = Len(frames) THEN pc ELSE frames[i][1]
  BY <1>1, <1>2
<1> QED
  BY <1>4, <1>5

LEMMA ReturnIs ==
    ASSUME frames \in Seq(Proxies!PC \X Proxies!Role), frames # <<>>, Proxies!Return
    PROVE  /\ frames' \in Seq(Proxies!PC \X Proxies!Role) /\ Len(frames') = Len(frames) - 1
           /\ \A i \in 1..Len(frames') : frames'[i] = frames[i]
<1>1. Len(frames) \in Nat /\ Len(frames) # 0 /\ DOMAIN frames = 1..Len(frames)
      /\ \A i \in 1..Len(frames) : frames[i] \in Proxies!PC \X Proxies!Role
  BY AtIs, LenProperties
<1>2. frames' = SubSeq(frames, 1, Len(frames) - 1)
  BY DEF Proxies!Return, Proxies!Front
<1>3. \A i \in 1..(Len(frames) - 1) : frames[i] \in Proxies!PC \X Proxies!Role
  BY <1>1
<1>4. /\ frames' \in Seq(Proxies!PC \X Proxies!Role)
      /\ Len(frames') = IF 1 <= Len(frames) - 1 THEN Len(frames) - 1 - 1 + 1 ELSE 0
      /\ \A i \in 1..(Len(frames) - 1 - 1 + 1) : frames'[i] = frames[1 + i - 1]
  BY <1>1, <1>2, <1>3, SubSeqProperties
<1>5. Len(frames') = Len(frames) - 1
  <2>1. PICK n \in Nat : n = Len(frames)
    BY <1>1
  <2>2. n # 0 /\ Len(frames') = IF 1 <= n - 1 THEN n - 1 - 1 + 1 ELSE 0
    BY <1>1, <1>4, <2>1
  <2>3. CASE n = 1
    BY <2>1, <2>2, <2>3
  <2>4. CASE n # 1
    <3>1. 1 <= n - 1 /\ n - 1 - 1 + 1 = n - 1
      BY <2>2, <2>4
    <3> QED
      BY <2>1, <2>2, <3>1
  <2> QED
    BY <2>3, <2>4
<1>6. ASSUME NEW i \in 1..Len(frames') PROVE frames'[i] = frames[i]
  <2>1. i \in 1..(Len(frames) - 1 - 1 + 1) /\ 1 + i - 1 = i
    BY <1>1, <1>5
  <2>2. frames'[i] = frames[1 + i - 1]
    BY <1>4, <2>1
  <2> QED
    BY <2>1, <2>2
<1> QED
  BY <1>4, <1>5, <1>6

LEMMA GiveIs ==
    ASSUME Proxies!TypeOK, NEW obj \in 1..MaxObjects, NEW role \in Proxies!Role, Proxies!Give(obj, role)
    PROVE  /\ given' = given \cup {obj}
           /\ proxy_entered' \in {obj, 0, proxy_entered}
           /\ written' \in {obj, written} /\ name' \in {obj, name}
           /\ swapped' \in BOOLEAN /\ missed' \in BOOLEAN
           /\ ~swapped /\ proxy_entered \in {0, obj} => ~swapped'
           /\ ~missed /\ written \in {0, obj} => ~missed'
<1>1. proxy_entered' \in {obj, 0, proxy_entered}
  <2>1. CASE role = "enter" \/ (role = "send" /\ proxy_entered = 0)
    <3>1. proxy_entered' = obj
      BY <2>1, Zenon DEF Proxies!Give
    <3> QED
      BY <3>1
  <2>2. CASE role = "exit"
    <3>1. role # "enter" /\ role # "send"
      BY <2>2
    <3>2. proxy_entered' = 0
      BY <2>2, <3>1, Zenon DEF Proxies!Give
    <3> QED
      BY <3>2
  <2>3. CASE ~(role = "enter" \/ (role = "send" /\ proxy_entered = 0)) /\ role # "exit"
    <3>1. proxy_entered' = proxy_entered
      BY <2>3, Zenon DEF Proxies!Give
    <3> QED
      BY <3>1
  <2> QED
    BY <2>1, <2>2, <2>3
<1>2. swapped' = (swapped \/ (role \in {"send", "exit"} /\ proxy_entered \notin {0, obj}))
  BY Zenon DEF Proxies!Give
<1>3. missed' = (missed \/ (role \in {"read", "take"} /\ written \notin {0, obj}))
  BY Zenon DEF Proxies!Give
<1>4. swapped' \in BOOLEAN /\ (~swapped /\ proxy_entered \in {0, obj} => ~swapped')
  BY <1>2, Zenon
<1>5. missed' \in BOOLEAN /\ (~missed /\ written \in {0, obj} => ~missed')
  BY <1>3, Zenon
<1> QED
  BY <1>1, <1>4, <1>5 DEF Proxies!Give

LEMMA ProxyNext ==
    ASSUME ProxyInv, [Proxies!Next]_(Proxies!vars)
    PROVE  ProxyInv'
<1> USE DEF ProxyInv
<1>0. /\ frames \in Seq(Proxies!PC \X Proxies!Role) /\ Len(frames) \in Nat
      /\ frames = <<>> <=> Len(frames) = 0
      /\ MaxObjects \in Nat
      /\ \A i \in 1..Len(frames) : frames[i][1] \in Proxies!PC /\ frames[i][2] \in Proxies!Role
  BY AtIs, DataConstants DEF Proxies!TypeOK
<1>a. \A pc : Proxies!At(pc) <=> Len(frames) # 0 /\ frames[Len(frames)][1] = pc
  BY <1>0, AtIs
<1>b. frames' \in Seq(Proxies!PC \X Proxies!Role) =>
        /\ \A pc : Proxies!At(pc)' <=> Len(frames') # 0 /\ frames'[Len(frames')][1] = pc
        /\ frames' = <<>> <=> Len(frames') = 0
        /\ Len(frames') \in Nat
  <2> SUFFICES ASSUME frames' \in Seq(Proxies!PC \X Proxies!Role)
               PROVE  /\ \A pc : Proxies!At(pc)' <=> Len(frames') # 0 /\ frames'[Len(frames')][1] = pc
                      /\ frames' = <<>> <=> Len(frames') = 0
                      /\ Len(frames') \in Nat
    OBVIOUS
  <2>1. Len(frames') \in Nat /\ (frames' = <<>> <=> Len(frames') = 0)
    BY EmptySeq, LenProperties
  <2> QED
    BY <2>1 DEF Proxies!At, Proxies!Last
<1>t. Proxies!PC = {"finalizers", "finalizer", "factory"}
  BY DEF Proxies!PC
<1>1. ASSUME NEW f \in Finalizer, Proxies!AddFinalizer(f) PROVE ProxyInv'
  <2>1. /\ finalizers' = Append(finalizers, f)
        /\ before' = IF frames = <<>> /\ given = {} THEN before \cup {f} ELSE before
        /\ UNCHANGED <<cached, has_local, cache, created, frames, proxy_entered, name, written,
                       given, swapped, missed, settled, reentered, proxy_broken>>
    BY <1>1 DEF Proxies!AddFinalizer, Proxies!uses
  <2>2. finalizers' \in Seq(Finalizer) /\ Proxies!ToSet(finalizers') = Proxies!ToSet(finalizers) \cup {f}
    <3>1. /\ finalizers' \in Seq(Finalizer) /\ Len(finalizers') = Len(finalizers) + 1
          /\ \A i \in 1..Len(finalizers) : finalizers'[i] = finalizers[i]
          /\ finalizers'[Len(finalizers) + 1] = f
      BY <2>1, AppendProperties DEF Proxies!TypeOK
    <3>2. Len(finalizers) \in Nat /\ DOMAIN finalizers = 1..Len(finalizers)
          /\ DOMAIN finalizers' = 1..Len(finalizers')
      BY <3>1, LenProperties DEF Proxies!TypeOK
    <3>3. Proxies!ToSet(finalizers') \subseteq Proxies!ToSet(finalizers) \cup {f}
      BY <3>1, <3>2 DEF Proxies!ToSet
    <3>4. Proxies!ToSet(finalizers) \cup {f} \subseteq Proxies!ToSet(finalizers')
      BY <3>1, <3>2 DEF Proxies!ToSet
    <3> QED
      BY <3>1, <3>3, <3>4
  <2>3. Proxies!TypeOK'
    BY <2>1, <2>2 DEF Proxies!TypeOK
  <2>4. \A pc : Proxies!At(pc)' = Proxies!At(pc)
    BY <2>1 DEF Proxies!At
  <2>5. Evaluations'
    BY <2>1, <2>4 DEF Evaluations
  <2>6. OneEvaluation'
    BY <1>a, <2>1, <2>2, <2>4, <1>0 DEF OneEvaluation
  <2> QED
    BY <2>3, <2>5, <2>6
<1>2. ASSUME NEW role \in Proxies!Role, Proxies!Access(role) PROVE ProxyInv'
  <2>1. CASE cache # 0
    <3>1. /\ Proxies!Give(cache, role)
          /\ UNCHANGED <<cached, has_local, cache, created, finalizers, frames, reentered, before,
                         settled, proxy_broken>>
      BY <1>2, <2>1 DEF Proxies!Access, Proxies!attributes
    <3>2. cache \in 1..MaxObjects
      BY <1>0, <2>1 DEF Proxies!TypeOK
    <3>3. /\ given' = given \cup {cache}
          /\ proxy_entered' \in {cache, 0, proxy_entered}
          /\ written' \in {cache, written} /\ name' \in {cache, name}
          /\ swapped' \in BOOLEAN /\ missed' \in BOOLEAN
          /\ ~swapped /\ proxy_entered \in {0, cache} => ~swapped'
          /\ ~missed /\ written \in {0, cache} => ~missed'
      BY <3>1, <3>2, GiveIs
    <3>4. Proxies!TypeOK'
      BY <1>0, <3>1, <3>2, <3>3 DEF Proxies!TypeOK
    <3>5. \A pc : Proxies!At(pc)' = Proxies!At(pc)
      BY <3>1 DEF Proxies!At
    <3>6. Evaluations'
      <4>1. {cache', name'} \subseteq given' \cup {0}
        BY <3>1, <3>3 DEF Evaluations
      <4> QED
        BY <3>1, <3>5, <4>1 DEF Evaluations
    <3>7. OneEvaluation'
      <4>1. ASSUME ~reentered PROVE cached /\ frames = <<>>
        BY <2>1, <4>1 DEF Evaluations, OneEvaluation
      <4>2. cache \in given /\ cache \in Nat
        BY <2>1, <3>2, <1>0 DEF Evaluations
      <4> QED
        BY <3>1, <3>3, <3>5, <4>1, <4>2 DEF OneEvaluation
    <3> QED
      BY <3>4, <3>6, <3>7
  <2>2. CASE cache = 0
    <3>1. /\ frames' = Append(frames, <<"finalizers", role>>)
          /\ reentered' = (reentered \/ frames # <<>>)
          /\ UNCHANGED <<cached, has_local, cache, created, finalizers, proxy_entered, name,
                         written, given, swapped, missed, before, settled, proxy_broken>>
          /\ frames = <<>> \/ Proxies!At("finalizer") \/ Proxies!At("factory")
      BY <1>2, <2>2 DEF Proxies!Access, Proxies!attributes, Proxies!uses, Proxies!UserRuns
    <3>2. /\ frames' \in Seq(Proxies!PC \X Proxies!Role) /\ Len(frames') = Len(frames) + 1
          /\ \A i \in 1..Len(frames) : frames'[i] = frames[i]
          /\ frames'[Len(frames) + 1] = <<"finalizers", role>>
      <4>1. <<"finalizers", role>> \in Proxies!PC \X Proxies!Role
        BY <1>t
      <4> QED
        BY <1>0, <3>1, <4>1, AppendProperties
    <3>3. /\ \A pc : Proxies!At(pc)' <=> pc = "finalizers"
          /\ frames' # <<>>
      BY <1>0, <1>b, <3>2
    <3>4. Proxies!TypeOK'
      BY <3>1, <3>2 DEF Proxies!TypeOK
    <3>5. Evaluations'
      <4>1. has_local
        BY <2>2 DEF Evaluations
      <4>2. ASSUME NEW i \in 1..Len(frames'), i < Len(frames') PROVE frames'[i][1] # "finalizers"
        <5>1. i \in 1..Len(frames) /\ frames'[i] = frames[i]
          BY <1>0, <3>2, <4>2
        <5> QED
          BY <1>0, <1>a, <3>1, <5>1 DEF Evaluations
      <4>3. ASSUME NEW i \in 1..Len(frames'), frames'[i][1] = "finalizer" PROVE settled # {}
        <5>1. i \in 1..Len(frames) \/ i = Len(frames) + 1
          BY <1>0, <3>2
        <5>2. frames'[Len(frames) + 1][1] = "finalizers"
          BY <3>2
        <5> QED
          BY <3>2, <4>3, <5>1, <5>2 DEF Evaluations
      <4> QED
        BY <3>1, <3>3, <4>1, <4>2, <4>3 DEF Evaluations
    <3>6. OneEvaluation'
      <4>1. ASSUME ~reentered' PROVE ~reentered /\ frames = <<>> /\ Len(frames') = 1
        <5>1. ~(reentered \/ frames # <<>>)
          BY <3>1, <4>1, Zenon
        <5> QED
          BY <1>0, <3>2, <5>1
      <4> QED
        BY <2>2, <3>1, <3>3, <4>1 DEF OneEvaluation
    <3> QED
      BY <3>4, <3>5, <3>6
  <2> QED
    BY <2>1, <2>2
<1>3. ASSUME NEW role \in Proxies!Role, Proxies!Direct(role) PROVE ProxyInv'
  <2>1. /\ Proxies!Give(name, role) /\ name # 0
        /\ UNCHANGED <<cached, has_local, cache, created, finalizers, frames, reentered, before,
                       settled, proxy_broken>>
    BY <1>3 DEF Proxies!Direct, Proxies!attributes
  <2>2. name \in 1..MaxObjects
    BY <1>0, <2>1 DEF Proxies!TypeOK
  <2>3. /\ given' = given \cup {name}
        /\ proxy_entered' \in {name, 0, proxy_entered}
        /\ written' \in {name, written} /\ name' = name
        /\ swapped' \in BOOLEAN /\ missed' \in BOOLEAN
        /\ ~swapped /\ proxy_entered \in {0, name} => ~swapped'
        /\ ~missed /\ written \in {0, name} => ~missed'
    BY <2>1, <2>2, GiveIs
  <2>4. Proxies!TypeOK'
    BY <1>0, <2>1, <2>2, <2>3 DEF Proxies!TypeOK
  <2>5. \A pc : Proxies!At(pc)' = Proxies!At(pc)
    BY <2>1 DEF Proxies!At
  <2>6. name \in given /\ name \in Nat
    BY <2>1, <2>2, <1>0 DEF Evaluations
  <2>7. Evaluations'
    BY <2>1, <2>3, <2>5 DEF Evaluations
  <2>8. OneEvaluation'
    BY <2>1, <2>3, <2>5, <2>6 DEF OneEvaluation
  <2> QED
    BY <2>4, <2>7, <2>8
<1>4. CASE Proxies!RunFinalizer
  <2>1. /\ Proxies!At("finalizers") /\ finalizers # <<>> /\ finalizers' = Tail(finalizers)
        /\ settled' = settled \cup {Head(finalizers)} /\ Proxies!Goto("finalizer")
        /\ UNCHANGED <<cached, has_local, cache, created, proxy_entered, name, written, given,
                       swapped, missed, before, reentered, proxy_broken>>
    BY <1>4 DEF Proxies!RunFinalizer, Proxies!uses
  <2>2. /\ Head(finalizers) \in Finalizer /\ finalizers' \in Seq(Finalizer)
        /\ Proxies!ToSet(finalizers) \subseteq Proxies!ToSet(finalizers') \cup {Head(finalizers)}
    <3>1. /\ Len(finalizers) \in Nat /\ Len(finalizers) > 0 /\ DOMAIN finalizers = 1..Len(finalizers)
          /\ Head(finalizers) = finalizers[1] /\ finalizers[1] \in Finalizer
      BY <2>1, LenProperties, EmptySeq, ElementOfSeq DEF Proxies!TypeOK
    <3>2. /\ finalizers' \in Seq(Finalizer) /\ Len(finalizers') = Len(finalizers) - 1
          /\ \A i \in 1..(Len(finalizers) - 1) : finalizers'[i] = finalizers[i + 1]
      BY <2>1, HeadTailProperties DEF Proxies!TypeOK
    <3>3. DOMAIN finalizers' = 1..(Len(finalizers) - 1)
      BY <3>2, LenProperties
    <3>4. ASSUME NEW i \in 1..Len(finalizers), i # 1 PROVE finalizers[i] \in Proxies!ToSet(finalizers')
      <4>1. i - 1 \in 1..(Len(finalizers) - 1) /\ (i - 1) + 1 = i
        BY <3>1, <3>4
      <4> QED
        BY <3>2, <3>3, <4>1 DEF Proxies!ToSet
    <3> QED
      BY <3>1, <3>2, <3>4 DEF Proxies!ToSet
  <2>3. /\ frames' \in Seq(Proxies!PC \X Proxies!Role) /\ Len(frames') = Len(frames)
        /\ \A i \in 1..Len(frames) :
             frames'[i][1] = IF i = Len(frames) THEN "finalizer" ELSE frames[i][1]
    BY <1>0, <1>a, <1>t, <2>1, GotoIs
  <2>4. (\A pc : Proxies!At(pc)' <=> pc = "finalizer") /\ (frames' = <<>> <=> frames = <<>>)
    BY <1>0, <1>a, <1>b, <2>1, <2>3
  <2>5. Proxies!TypeOK'
    BY <2>1, <2>2, <2>3 DEF Proxies!TypeOK
  <2>6. Evaluations'
    BY <1>0, <2>1, <2>3, <2>4 DEF Evaluations
  <2>7. OneEvaluation'
    BY <1>0, <2>1, <2>2, <2>3, <2>4 DEF OneEvaluation
  <2> QED
    BY <2>5, <2>6, <2>7
<1>5. CASE Proxies!UserReturns
  <2>1. /\ Proxies!At("finalizer") /\ Proxies!Goto("finalizers")
        /\ UNCHANGED <<cached, has_local, cache, created, finalizers, proxy_entered, name, written,
                       given, swapped, missed, before, settled, reentered, proxy_broken>>
    BY <1>5 DEF Proxies!UserReturns, Proxies!uses, Proxies!attributes
  <2>2. settled # {}
    BY <1>0, <1>a, <2>1 DEF Evaluations
  <2>3. /\ frames' \in Seq(Proxies!PC \X Proxies!Role) /\ Len(frames') = Len(frames)
        /\ \A i \in 1..Len(frames) :
             frames'[i][1] = IF i = Len(frames) THEN "finalizers" ELSE frames[i][1]
    BY <1>0, <1>a, <1>t, <2>1, GotoIs
  <2>4. (\A pc : Proxies!At(pc)' <=> pc = "finalizers") /\ (frames' = <<>> <=> frames = <<>>)
    BY <1>0, <1>a, <1>b, <2>1, <2>3
  <2>5. Proxies!TypeOK'
    BY <2>1, <2>3 DEF Proxies!TypeOK
  <2>6. Evaluations'
    BY <1>0, <2>1, <2>2, <2>3, <2>4 DEF Evaluations
  <2>7. OneEvaluation'
    BY <1>0, <2>1, <2>3, <2>4 DEF OneEvaluation
  <2> QED
    BY <2>5, <2>6, <2>7
\* Where an evaluation that ends leaves the one around it.
<1>r. ASSUME frames # <<>>, Proxies!Return
      PROVE  /\ frames' \in Seq(Proxies!PC \X Proxies!Role) /\ Len(frames') = Len(frames) - 1
             /\ ~Proxies!At("finalizers")'
             /\ \A i \in 1..Len(frames') : i < Len(frames') => frames'[i][1] # "finalizers"
             /\ \A i \in 1..Len(frames') : frames'[i][1] = "finalizer" => settled # {}
             /\ Len(frames) <= 1 => frames' = <<>> /\ ~Proxies!At("factory")'
  <2>1. /\ frames' \in Seq(Proxies!PC \X Proxies!Role) /\ Len(frames') = Len(frames) - 1
        /\ \A i \in 1..Len(frames') : frames'[i] = frames[i]
    BY <1>0, <1>r, ReturnIs
  <2>2. \A i \in 1..Len(frames') : i \in 1..Len(frames) /\ i < Len(frames)
    BY <1>0, <2>1
  <2>3. \A i \in 1..Len(frames') : frames'[i][1] # "finalizers"
    BY <2>1, <2>2 DEF Evaluations
  <2>4. \A i \in 1..Len(frames') : frames'[i][1] = "finalizer" => settled # {}
    BY <2>1, <2>2 DEF Evaluations
  <2>5. Len(frames') # 0 => Len(frames') \in 1..Len(frames')
    BY <1>b, <2>1
  <2> QED
    BY <1>0, <1>b, <1>r, <2>1, <2>3, <2>4, <2>5
<1>6. CASE Proxies!UserRaises
  <2>1. /\ Proxies!At("finalizer") \/ Proxies!At("factory")
        /\ Proxies!Return
        /\ UNCHANGED <<cached, has_local, cache, created, finalizers, proxy_entered, name, written,
                       given, swapped, missed, before, settled, reentered, proxy_broken>>
    BY <1>6 DEF Proxies!UserRaises, Proxies!uses, Proxies!attributes
  <2>2. frames # <<>>
    BY <1>0, <1>a, <2>1
  <2>3. Proxies!TypeOK'
    BY <1>r, <2>1, <2>2 DEF Proxies!TypeOK
  <2>4. Evaluations'
    BY <1>r, <2>1, <2>2 DEF Evaluations
  <2>5. OneEvaluation'
    BY <1>0, <1>r, <2>1, <2>2 DEF OneEvaluation
  <2> QED
    BY <2>3, <2>4, <2>5
<1>7. CASE Proxies!CallFactory
  <2>1. /\ Proxies!At("finalizers") /\ finalizers = <<>>
        /\ UNCHANGED <<cached, has_local, cache, created, finalizers, proxy_entered, name, written,
                       given, swapped, missed, before, settled, reentered>>
    BY <1>7 DEF Proxies!CallFactory, Proxies!uses, Proxies!attributes
  <2>2. frames # <<>>
    BY <1>0, <1>a, <2>1
  <2>3. CASE has_local
    <3>1. Proxies!Goto("factory") /\ proxy_broken' = proxy_broken
      BY <1>7, <2>3 DEF Proxies!CallFactory
    <3>2. /\ frames' \in Seq(Proxies!PC \X Proxies!Role) /\ Len(frames') = Len(frames)
          /\ \A i \in 1..Len(frames) :
               frames'[i][1] = IF i = Len(frames) THEN "factory" ELSE frames[i][1]
      BY <1>0, <1>t, <2>2, <3>1, GotoIs
    <3>3. (\A pc : Proxies!At(pc)' <=> pc = "factory") /\ (frames' = <<>> <=> frames = <<>>)
      BY <1>0, <1>b, <2>2, <3>2
    <3>4. Proxies!TypeOK'
      BY <2>1, <3>1, <3>2 DEF Proxies!TypeOK
    <3>5. Evaluations'
      BY <1>0, <2>1, <3>1, <3>2, <3>3 DEF Evaluations
    <3>6. Proxies!ToSet(finalizers) = {}
      BY <2>1 DEF Proxies!ToSet
    <3>7. OneEvaluation'
      BY <1>0, <2>1, <3>1, <3>2, <3>3, <3>6 DEF OneEvaluation
    <3> QED
      BY <3>4, <3>5, <3>7
  <2>4. CASE ~has_local
    <3>1. Proxies!Return /\ proxy_broken' = TRUE
      BY <1>7, <2>4 DEF Proxies!CallFactory
    <3>2. cached /\ cache # 0 /\ settled # {}
      BY <2>1, <2>4 DEF Evaluations
    <3>3. reentered
      BY <2>2, <3>2 DEF OneEvaluation
    <3>4. Proxies!TypeOK'
      BY <1>r, <2>1, <2>2, <3>1 DEF Proxies!TypeOK
    <3>5. Evaluations'
      BY <1>r, <2>1, <2>2, <3>1, <3>2 DEF Evaluations
    <3> QED
      BY <2>1, <3>3, <3>4, <3>5 DEF OneEvaluation
  <2> QED
    BY <2>3, <2>4
<1>8. CASE Proxies!FactoryReturns
  <2> DEFINE obj == created + 1
             role == Proxies!Last(frames)[2]
  <2>1. /\ Proxies!At("factory") /\ created < MaxObjects /\ created' = obj
        /\ cache' = IF cached THEN obj ELSE cache
        /\ has_local' = (has_local /\ ~cached)
        /\ Proxies!Give(obj, role) /\ Proxies!Return
        /\ UNCHANGED <<cached, finalizers, before, settled, reentered, proxy_broken>>
    BY <1>8 DEF Proxies!FactoryReturns
  <2>2. frames # <<>> /\ role \in Proxies!Role
    BY <1>0, <1>a, <2>1 DEF Proxies!Last
  <2>3. obj \in 1..MaxObjects /\ created \in Nat /\ obj # 0
    BY <1>0, <2>1 DEF Proxies!TypeOK
  <2>h. has_local' \in BOOLEAN /\ (cached => ~has_local') /\ (~cached => has_local' = has_local)
    <3>1. has_local \in BOOLEAN /\ cached \in BOOLEAN
      BY DEF Proxies!TypeOK
    <3> QED
      BY <2>1, <3>1
  <2> HIDE DEF role, obj
  <2>4. /\ given' = given \cup {obj}
        /\ proxy_entered' \in {obj, 0, proxy_entered}
        /\ written' \in {obj, written} /\ name' \in {obj, name}
        /\ swapped' \in BOOLEAN /\ missed' \in BOOLEAN
        /\ ~swapped /\ proxy_entered \in {0, obj} => ~swapped'
        /\ ~missed /\ written \in {0, obj} => ~missed'
    BY <2>1, <2>2, <2>3, GiveIs
  <2>5. Proxies!TypeOK'
    <3>1. {cache', created', proxy_entered', name', written'} \subseteq 0..MaxObjects
      BY <1>0, <2>1, <2>3, <2>4 DEF Proxies!TypeOK
    <3>2. given' \subseteq 1..MaxObjects
      BY <1>0, <2>3, <2>4 DEF Proxies!TypeOK
    <3> QED
      BY <1>r, <2>1, <2>2, <2>h, <2>4, <3>1, <3>2 DEF Proxies!TypeOK
  <2>6. Evaluations'
    BY <1>r, <2>1, <2>2, <2>3, <2>h, <2>4 DEF Evaluations
  <2>7. OneEvaluation'
    <3>1. ASSUME ~reentered
          PROVE  /\ frames' = <<>> /\ Len(frames') = 0 /\ ~Proxies!At("factory")'
                 /\ ~proxy_broken /\ before \subseteq settled
      BY <1>0, <1>r, <2>1, <2>2, <3>1 DEF OneEvaluation
    <3>2. ASSUME ~reentered, cached
          PROVE  /\ obj = 1 /\ cache' = 1 /\ created' = 1 /\ given' = {1}
                 /\ {proxy_entered', name', written'} \subseteq {0, 1}
                 /\ ~swapped' /\ ~missed'
      <4>1. created = 0 /\ cache = 0 /\ given \subseteq {0} /\ ~swapped /\ ~missed
            /\ proxy_entered = 0 /\ written = 0 /\ name = 0
        BY <2>2, <3>2 DEF OneEvaluation
      <4>2. obj = 1
        BY <4>1 DEF obj
      <4>3. given = {}
        BY <1>0, <4>1 DEF Proxies!TypeOK
      <4> QED
        BY <2>1, <2>4, <3>2, <4>1, <4>2, <4>3
    <3> QED
      BY <2>1, <3>1, <3>2 DEF OneEvaluation
  <2> QED
    BY <2>5, <2>6, <2>7
<1>9. CASE UNCHANGED Proxies!vars
  <2>1. \A pc : Proxies!At(pc)' = Proxies!At(pc)
    BY <1>9 DEF Proxies!vars, Proxies!At
  <2> QED
    BY <1>9, <2>1 DEF Proxies!vars, Proxies!TypeOK, Evaluations, OneEvaluation
<1> QED
  BY <1>1, <1>2, <1>3, <1>4, <1>5, <1>6, <1>7, <1>8, <1>9 DEF Proxies!Next

LEMMA ProxiesHold == Spec => [](Proxies!TypeOK /\ Proxies!ProxyRight)
<1>1. ProxyInv => Proxies!TypeOK /\ Proxies!ProxyRight
  BY DEF ProxyInv, Evaluations, OneEvaluation, Proxies!ProxyRight
<1> QED
  BY ProxyInit, ProxyNext, PartSteps, <1>1, PTL DEF Spec
=============================================================================
