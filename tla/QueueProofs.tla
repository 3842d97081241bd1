----------------------------- MODULE QueueProofs -----------------------------
(* No wakeup of the flow controlled queue is lost, for any producers,        *)
(* consumers and size; no call into a service thread is lost, and stop()     *)
(* waits for its end, for any tasks that call and stop and any number of     *)
(* method queue workers.                                                     *)
EXTENDS ProgramProofs

Those(at, w) == {x \in DOMAIN at : at[x] = w}

\* The futures in a queue of waiters are those of the tasks that wait, once each.
Lined(q, D, at, w) ==
    /\ q \in Seq(D)
    /\ \A i, j \in DOMAIN q : q[i] = q[j] => i = j
    /\ Q!ToSet(q) = {x \in D : at[x] = w}

\* While consumers wait there is somebody woken for each thing to get.
GettersOwed ==
    getters # <<>> => Len(queue) + errors <= Cardinality(Those(cpc, "woken"))

\* While producers wait there is somebody woken for each free place, but for
\* those clear() has made.
PuttersOwed ==
    putters # <<>> /\ "putters" \notin cleared =>
      Size - Len(queue) <= Cardinality(Those(ppc, "room_woken"))

ConsumersRight ==
    /\ cpc \in [Consumer -> Q!GetPC]
    /\ Lined(getters, Consumer, cpc, "waiting") /\ GettersOwed

ProducersRight ==
    /\ ppc \in [Producer -> Q!PutPC]
    /\ Lined(putters, Producer, ppc, "room") /\ PuttersOwed

QueueInv ==
    /\ Q!TypeOK
    /\ errors <= thrown /\ (~throwable => errors = 0)
    /\ ConsumersRight /\ ProducersRight

-----------------------------------------------------------------------------
(* Queues of waiters.                                                      *)

\* A task that goes from one place to another changes no other count than
\* those of the two.
LEMMA Moved ==
    ASSUME NEW w, NEW at, NEW to, IsFiniteSet(DOMAIN at), DOMAIN to = DOMAIN at,
           NEW x \in DOMAIN at, \A y \in DOMAIN at \ {x} : to[y] = at[y]
    PROVE  /\ Cardinality(Those(at, w)) \in Nat
           /\ (to[x] = w <=> at[x] = w) =>
                Cardinality(Those(to, w)) = Cardinality(Those(at, w))
           /\ to[x] = w /\ at[x] # w =>
                Cardinality(Those(to, w)) = Cardinality(Those(at, w)) + 1
           /\ to[x] # w /\ at[x] = w =>
                Cardinality(Those(to, w)) = Cardinality(Those(at, w)) - 1
<1> DEFINE old == Those(at, w)
           new == Those(to, w)
<1>1. IsFiniteSet(old) /\ Cardinality(old) \in Nat
  BY FS_Subset, FS_CardinalityType DEF Those
<1>2. x \in old <=> at[x] = w
  BY DEF Those
<1>3. CASE to[x] = w
  <2>1. new = old \cup {x}
    BY <1>3 DEF Those
  <2>2. Cardinality(new) = IF x \in old THEN Cardinality(old) ELSE Cardinality(old) + 1
    BY <1>1, <2>1, FS_AddElement
  <2> QED
    BY <1>1, <1>2, <1>3, <2>2
<1>4. CASE to[x] # w
  <2>1. new = old \ {x}
    BY <1>4 DEF Those
  <2>2. Cardinality(new) = IF x \in old THEN Cardinality(old) - 1 ELSE Cardinality(old)
    BY <1>1, <2>1, FS_RemoveElement
  <2> QED
    BY <1>1, <1>2, <1>4, <2>2
<1> QED
  BY <1>3, <1>4

LEMMA LineIs ==
    ASSUME NEW q, NEW D, NEW at, NEW w
    PROVE  Lined(q, D, at, w) <=>
             /\ q \in Seq(D)
             /\ \A i, j \in DOMAIN q : q[i] = q[j] => i = j
             /\ \A i \in DOMAIN q : at[q[i]] = w
             /\ \A x \in D : at[x] = w => \E i \in DOMAIN q : q[i] = x
<1>1. Q!ToSet(q) = {q[i] : i \in DOMAIN q}
  BY Zenon DEF Q!ToSet
<1>2. q \in Seq(D) => \A i \in DOMAIN q : q[i] \in D
  BY ElementOfSeq, LenProperties
<1> QED
  BY <1>1, <1>2 DEF Lined

\* append(): the task waits from now on.
LEMMA LineGrows ==
    ASSUME NEW D, NEW at, DOMAIN at = D, NEW q, NEW w, Lined(q, D, at, w),
           NEW x \in D, at[x] # w
    PROVE  Lined(Append(q, x), D, [at EXCEPT ![x] = w], w)
<1> DEFINE new == [at EXCEPT ![x] = w]
<1>1. /\ q \in Seq(D) /\ \A i, j \in DOMAIN q : q[i] = q[j] => i = j
      /\ \A i \in DOMAIN q : at[q[i]] = w
      /\ \A y \in D : at[y] = w => \E i \in DOMAIN q : q[i] = y
  BY LineIs
<1>2. /\ Append(q, x) \in Seq(D) /\ Len(q) \in Nat
      /\ DOMAIN q = 1..Len(q) /\ DOMAIN Append(q, x) = 1..(Len(q) + 1)
      /\ \A i \in 1..Len(q) : Append(q, x)[i] = q[i]
      /\ Append(q, x)[Len(q) + 1] = x
  BY <1>1, AppendIs
<1>3. \A i \in DOMAIN q : q[i] \in D /\ q[i] # x
  BY <1>1, <1>2, ElementOfSeq
<1>4. /\ new[x] = w /\ \A y \in D \ {x} : new[y] = at[y]
  OBVIOUS
<1> HIDE DEF new
<1>5. \A i, j \in DOMAIN Append(q, x) : Append(q, x)[i] = Append(q, x)[j] => i = j
  <2> SUFFICES ASSUME NEW i \in 1..(Len(q) + 1), NEW j \in 1..(Len(q) + 1),
                      Append(q, x)[i] = Append(q, x)[j]
               PROVE  i = j
    BY <1>2
  <2>1. CASE i \in 1..Len(q) /\ j \in 1..Len(q)
    BY <1>1, <1>2, <2>1
  <2>2. CASE i \in 1..Len(q) /\ j = Len(q) + 1
    BY <1>2, <1>3, <2>2
  <2>3. CASE i = Len(q) + 1 /\ j \in 1..Len(q)
    BY <1>2, <1>3, <2>3
  <2> QED
    BY <1>2, <2>1, <2>2, <2>3
<1>6. \A i \in DOMAIN Append(q, x) : new[Append(q, x)[i]] = w
  <2> SUFFICES ASSUME NEW i \in 1..(Len(q) + 1) PROVE new[Append(q, x)[i]] = w
    BY <1>2
  <2>1. CASE i \in 1..Len(q)
    BY <1>1, <1>2, <1>3, <1>4, <2>1
  <2>2. CASE i = Len(q) + 1
    BY <1>2, <1>4, <2>2
  <2> QED
    BY <1>2, <2>1, <2>2
<1>7. \A y \in D : new[y] = w => \E i \in DOMAIN Append(q, x) : Append(q, x)[i] = y
  <2> SUFFICES ASSUME NEW y \in D, new[y] = w
               PROVE  \E i \in 1..(Len(q) + 1) : Append(q, x)[i] = y
    BY <1>2
  <2>1. CASE y = x
    BY <1>2, <2>1
  <2>2. CASE y # x
    <3>1. PICK i \in DOMAIN q : q[i] = y
      BY <1>1, <1>4, <2>2
    <3>2. i \in 1..(Len(q) + 1) /\ Append(q, x)[i] = y
      BY <1>2, <3>1
    <3> QED
      BY <3>2
  <2> QED
    BY <2>1, <2>2
<1> QED
  BY <1>2, <1>5, <1>6, <1>7, LineIs DEF new

\* A sequence with one position left out.
Skips(q, k, r) ==
    /\ DOMAIN r = 1..(Len(q) - 1)
    /\ \A i \in 1..(Len(q) - 1) : r[i] = IF i < k THEN q[i] ELSE q[i + 1]

\* The task at a position of the line leaves it, and waits no more.
LEMMA LineSkips ==
    ASSUME NEW D, NEW at, DOMAIN at = D, NEW q, NEW w, Lined(q, D, at, w),
           NEW k \in 1..Len(q), NEW r \in Seq(D), Skips(q, k, r), NEW v, v # w
    PROVE  q[k] \in D /\ at[q[k]] = w /\ Lined(r, D, [at EXCEPT ![q[k]] = v], w)
<1> DEFINE new == [at EXCEPT ![q[k]] = v]
           from(i) == IF i < k THEN i ELSE i + 1
<1>1. /\ q \in Seq(D) /\ \A i, j \in DOMAIN q : q[i] = q[j] => i = j
      /\ \A i \in DOMAIN q : at[q[i]] = w
      /\ \A y \in D : at[y] = w => \E i \in DOMAIN q : q[i] = y
  BY LineIs
<1>2. Len(q) \in Nat /\ DOMAIN q = 1..Len(q) /\ \A i \in DOMAIN q : q[i] \in D
  BY <1>1, LenProperties, ElementOfSeq
<1>3. /\ new[q[k]] = v /\ \A y \in D \ {q[k]} : new[y] = at[y]
  BY <1>2
<1>4. /\ DOMAIN r = 1..(Len(q) - 1)
      /\ \A i \in DOMAIN r : /\ from(i) \in 1..Len(q) /\ from(i) # k /\ r[i] = q[from(i)]
                             /\ from(i) = i \/ from(i) = i + 1
  BY <1>2 DEF Skips
<1>5. \A i, j \in DOMAIN r : from(i) = from(j) => i = j
  BY <1>2, <1>4
<1>6. \A i \in 1..Len(q) : i # k => \E j \in DOMAIN r : from(j) = i
  <2> SUFFICES ASSUME NEW i \in 1..Len(q), i # k PROVE \E j \in DOMAIN r : from(j) = i
    OBVIOUS
  <2>1. CASE i < k
    <3>1. i \in DOMAIN r /\ from(i) = i
      BY <1>2, <1>4, <2>1
    <3> QED
      BY <3>1
  <2>2. CASE i > k
    <3>1. i - 1 \in DOMAIN r /\ from(i - 1) = i
      BY <1>2, <1>4, <2>2
    <3> QED
      BY <3>1
  <2> QED
    BY <1>2, <2>1, <2>2
<1> HIDE DEF new, from
<1>7. \A i, j \in DOMAIN r : r[i] = r[j] => i = j
  BY <1>1, <1>2, <1>4, <1>5
<1>8. \A i \in DOMAIN r : new[r[i]] = w
  BY <1>1, <1>2, <1>3, <1>4
<1>9. \A y \in D : new[y] = w => \E i \in DOMAIN r : r[i] = y
  <2> SUFFICES ASSUME NEW y \in D, new[y] = w PROVE \E i \in DOMAIN r : r[i] = y
    OBVIOUS
  <2>1. y # q[k] /\ at[y] = w
    BY <1>3
  <2>2. PICK i \in 1..Len(q) : q[i] = y
    BY <1>1, <1>2, <2>1
  <2>3. PICK j \in DOMAIN r : from(j) = i
    BY <1>6, <2>1, <2>2
  <2> QED
    BY <1>4, <2>2, <2>3
<1>10. Lined(r, D, new, w)
  BY <1>7, <1>8, <1>9, LineIs
<1> QED
  BY <1>1, <1>2, <1>10 DEF new

\* popleft(): the first task is woken.
LEMMA LineWakes ==
    ASSUME NEW D, NEW at, DOMAIN at = D, NEW q, NEW w, Lined(q, D, at, w),
           q # <<>>, NEW v, v # w
    PROVE  Head(q) \in D /\ at[Head(q)] = w /\ Lined(Tail(q), D, [at EXCEPT ![Head(q)] = v], w)
<1>1. q \in Seq(D) /\ Len(q) \in Nat
  BY LenProperties DEF Lined
<1>2. 1 \in 1..Len(q) /\ Head(q) = q[1]
  BY <1>1, EmptySeq, HeadTailProperties
<1>3. /\ Tail(q) \in Seq(D) /\ Len(Tail(q)) = Len(q) - 1
      /\ \A i \in 1..Len(Tail(q)) : Tail(q)[i] = q[i + 1]
  BY <1>1, HeadTailProperties
<1>4. Skips(q, 1, Tail(q))
  BY <1>1, <1>3, LenProperties DEF Skips
<1>5. q[1] \in D /\ at[q[1]] = w /\ Lined(Tail(q), D, [at EXCEPT ![q[1]] = v], w)
  <2>1. PICK k \in 1..Len(q) : k = 1
    BY <1>2
  <2>2. PICK r \in Seq(D) : r = Tail(q)
    BY <1>3
  <2>3. Skips(q, k, r)
    BY <1>4, <2>1, <2>2
  <2>4. Lined(r, D, [at EXCEPT ![q[k]] = v], w)
    BY <2>3, LineSkips
  <2>5. q[k] \in D /\ at[q[k]] = w
    BY <1>1, LenProperties, ElementOfSeq, LineIs
  <2> QED
    BY <2>1, <2>2, <2>4, <2>5
<1> QED
  BY <1>2, <1>5

\* remove(): a task that is cancelled leaves the line, if it is there.
LEMMA LineLeaves ==
    ASSUME NEW D, NEW at, DOMAIN at = D, NEW q, NEW w, Lined(q, D, at, w),
           NEW x \in D, NEW v, v # w
    PROVE  Lined(Q!RemoveFirst(q, x), D, [at EXCEPT ![x] = v], w)
<1>1. /\ q \in Seq(D) /\ \A i, j \in DOMAIN q : q[i] = q[j] => i = j
      /\ \A i \in DOMAIN q : at[q[i]] = w
      /\ \A y \in D : at[y] = w => \E i \in DOMAIN q : q[i] = y
      /\ Len(q) \in Nat /\ DOMAIN q = 1..Len(q)
  BY LineIs, LenProperties
<1>2. CASE \E i \in 1..Len(q) : q[i] = x
  <2>1. PICK k \in 1..Len(q) : q[k] = x
    BY <1>2
  <2>2. {i \in 1..Len(q) : q[i] = x} = {k}
    BY <1>1, <2>1
  <2>3. Q!RemoveFirst(q, x) = SubSeq(q, 1, k - 1) \o SubSeq(q, k + 1, Len(q))
    <3>1. Q!Min({k}) = k
      BY <1>1, <2>1 DEF Q!Min
    <3>2. Q!SelectInSeq(q, LAMBDA y : y = x) = k
      BY <2>2, <3>1 DEF Q!SelectInSeq
    <3> QED
      BY <1>2, <3>2 DEF Q!RemoveFirst, Q!RemoveAt
  <2> DEFINE a == SubSeq(q, 1, k - 1)
             b == SubSeq(q, k + 1, Len(q))
  <2>4. \A i \in 1..Len(q) : q[i] \in D
    BY <1>1, ElementOfSeq
  <2>5. a \in Seq(D) /\ Len(a) = k - 1 /\ \A i \in 1..(k - 1) : a[i] = q[i]
    <3>1. \A i \in 1..(k - 1) : q[i] \in D
      BY <1>1, <2>4
    <3>2. /\ a \in Seq(D) /\ Len(a) = IF 1 <= k - 1 THEN k - 1 - 1 + 1 ELSE 0
          /\ \A i \in 1..(k - 1 - 1 + 1) : a[i] = q[1 + i - 1]
      BY <3>1, SubSeqProperties
    <3> QED
      BY <1>1, <3>2
  <2>6. b \in Seq(D) /\ Len(b) = Len(q) - k /\ \A i \in 1..(Len(q) - k) : b[i] = q[k + i]
    <3>1. \A i \in (k + 1)..Len(q) : q[i] \in D
      BY <1>1, <2>4
    <3>2. /\ b \in Seq(D) /\ Len(b) = IF k + 1 <= Len(q) THEN Len(q) - (k + 1) + 1 ELSE 0
          /\ \A i \in 1..(Len(q) - (k + 1) + 1) : b[i] = q[k + 1 + i - 1]
      BY <1>1, <3>1, SubSeqProperties
    <3>3. Len(b) = Len(q) - k
      <4>1. k \in Nat /\ Len(q) \in Nat /\ k <= Len(q)
        BY <1>1
      <4>2. CASE k = Len(q)
        BY <3>2, <4>1, <4>2
      <4>3. CASE k < Len(q)
        BY <3>2, <4>1, <4>3
      <4> QED
        BY <4>1, <4>2, <4>3
    <3>4. ASSUME NEW i \in 1..(Len(q) - k) PROVE b[i] = q[k + i]
      <4>1. i \in 1..(Len(q) - (k + 1) + 1) /\ k + 1 + i - 1 = k + i
        BY <1>1
      <4>2. b[i] = q[k + 1 + i - 1]
        BY <3>2, <4>1
      <4> QED
        BY <4>1, <4>2
    <3> QED
      BY <3>2, <3>3, <3>4
  <2> HIDE DEF a, b
  <2>7. /\ a \o b \in Seq(D) /\ Len(a \o b) = Len(a) + Len(b)
        /\ \A i \in 1..(Len(a) + Len(b)) :
             (a \o b)[i] = IF i <= Len(a) THEN a[i] ELSE b[i - Len(a)]
    BY <2>5, <2>6, ConcatProperties
  <2>8. Skips(q, k, a \o b)
    <3>1. Len(a) + Len(b) = Len(q) - 1
      BY <1>1, <2>5, <2>6
    <3>2. DOMAIN (a \o b) = 1..Len(a \o b)
      BY <2>7, LenProperties
    <3>3. ASSUME NEW i \in 1..(Len(q) - 1)
          PROVE  (a \o b)[i] = IF i < k THEN q[i] ELSE q[i + 1]
      <4>1. (a \o b)[i] = IF i <= Len(a) THEN a[i] ELSE b[i - Len(a)]
        BY <2>7, <3>1
      <4>2. CASE i < k
        <5>1. i <= Len(a) /\ i \in 1..(k - 1)
          BY <1>1, <2>5, <4>2
        <5> QED
          BY <2>5, <4>1, <4>2, <5>1
      <4>3. CASE ~(i < k)
        <5>1. /\ ~(i <= Len(a)) /\ i - Len(a) \in 1..(Len(q) - k)
              /\ k + (i - Len(a)) = i + 1
          BY <1>1, <2>5, <4>3
        <5>2. b[i - Len(a)] = q[k + (i - Len(a))]
          BY <2>6, <5>1
        <5> QED
          BY <4>1, <4>3, <5>1, <5>2
      <4> QED
        BY <4>2, <4>3
    <3> QED
      BY <2>7, <3>1, <3>2, <3>3 DEF Skips
  <2>9. Lined(a \o b, D, [at EXCEPT ![q[k]] = v], w)
    BY <2>7, <2>8, LineSkips
  <2> QED
    BY <2>1, <2>3, <2>9 DEF a, b
<1>3. CASE ~\E i \in 1..Len(q) : q[i] = x
  <2>1. Q!RemoveFirst(q, x) = q
    BY <1>3 DEF Q!RemoveFirst
  <2>2. at[x] # w
    BY <1>1, <1>3
  <2>3. /\ \A i \in DOMAIN q : [at EXCEPT ![x] = v][q[i]] = w
        /\ \A y \in D : [at EXCEPT ![x] = v][y] = w => \E i \in DOMAIN q : q[i] = y
    BY <1>1, <1>3
  <2> QED
    BY <1>1, <2>1, <2>3, LineIs
<1> QED
  BY <1>2, <1>3

\* A task that goes between other places is not in the line.
LEMMA LineStays ==
    ASSUME NEW D, NEW at, DOMAIN at = D, NEW q, NEW w, Lined(q, D, at, w),
           NEW x \in D, at[x] # w, NEW v, v # w
    PROVE  Lined(q, D, [at EXCEPT ![x] = v], w)
  BY DEF Lined

-----------------------------------------------------------------------------
(* The steps.                                                              *)

LEMMA QueueConstants ==
    /\ Size \in Nat /\ MaxPuts \in Nat /\ MaxErrors \in Nat /\ MaxSwitches \in Nat
    /\ Enhanced \subseteq Producer /\ IsFiniteSet(Producer) /\ IsFiniteSet(Consumer)
  BY ProgramConstants

\* A consumer goes from a place to another, and its future is in the line if it
\* is waiting there.
LEMMA ConsumerMoves ==
    ASSUME cpc \in [Consumer -> Q!GetPC], NEW c \in Consumer, NEW v \in Q!GetPC,
           cpc' = [cpc EXCEPT ![c] = v]
    PROVE  /\ cpc' \in [Consumer -> Q!GetPC]
           /\ Cardinality(Those(cpc, "woken")) \in Nat
           /\ (v = "woken" <=> cpc[c] = "woken") =>
                Cardinality(Those(cpc', "woken")) = Cardinality(Those(cpc, "woken"))
           /\ v = "woken" /\ cpc[c] # "woken" =>
                Cardinality(Those(cpc', "woken")) = Cardinality(Those(cpc, "woken")) + 1
           /\ v # "woken" /\ cpc[c] = "woken" =>
                Cardinality(Those(cpc', "woken")) = Cardinality(Those(cpc, "woken")) - 1
<1>1. DOMAIN cpc = Consumer /\ IsFiniteSet(Consumer)
  BY QueueConstants
<1>2. cpc' \in [Consumer -> Q!GetPC]
  OBVIOUS
<1>3. cpc'[c] = v
  BY <1>1
<1>4. /\ DOMAIN cpc' = DOMAIN cpc /\ IsFiniteSet(DOMAIN cpc) /\ c \in DOMAIN cpc
      /\ \A y \in DOMAIN cpc \ {c} : cpc'[y] = cpc[y]
  BY <1>1
<1>5. /\ Cardinality(Those(cpc, "woken")) \in Nat
      /\ (cpc'[c] = "woken" <=> cpc[c] = "woken") =>
           Cardinality(Those(cpc', "woken")) = Cardinality(Those(cpc, "woken"))
      /\ cpc'[c] = "woken" /\ cpc[c] # "woken" =>
           Cardinality(Those(cpc', "woken")) = Cardinality(Those(cpc, "woken")) + 1
      /\ cpc'[c] # "woken" /\ cpc[c] = "woken" =>
           Cardinality(Those(cpc', "woken")) = Cardinality(Those(cpc, "woken")) - 1
  BY <1>4, Moved
<1> QED
  BY <1>2, <1>3, <1>5

LEMMA ProducerMoves ==
    ASSUME ppc \in [Producer -> Q!PutPC], NEW p \in Producer, NEW v \in Q!PutPC,
           ppc' = [ppc EXCEPT ![p] = v]
    PROVE  /\ ppc' \in [Producer -> Q!PutPC]
           /\ Cardinality(Those(ppc, "room_woken")) \in Nat
           /\ (v = "room_woken" <=> ppc[p] = "room_woken") =>
                Cardinality(Those(ppc', "room_woken")) = Cardinality(Those(ppc, "room_woken"))
           /\ v = "room_woken" /\ ppc[p] # "room_woken" =>
                Cardinality(Those(ppc', "room_woken")) = Cardinality(Those(ppc, "room_woken")) + 1
           /\ v # "room_woken" /\ ppc[p] = "room_woken" =>
                Cardinality(Those(ppc', "room_woken")) = Cardinality(Those(ppc, "room_woken")) - 1
<1>1. DOMAIN ppc = Producer /\ IsFiniteSet(Producer)
  BY QueueConstants
<1>2. ppc' \in [Producer -> Q!PutPC]
  OBVIOUS
<1>3. ppc'[p] = v
  BY <1>1
<1>4. /\ DOMAIN ppc' = DOMAIN ppc /\ IsFiniteSet(DOMAIN ppc) /\ p \in DOMAIN ppc
      /\ \A y \in DOMAIN ppc \ {p} : ppc'[y] = ppc[y]
  BY <1>1
<1>5. /\ Cardinality(Those(ppc, "room_woken")) \in Nat
      /\ (ppc'[p] = "room_woken" <=> ppc[p] = "room_woken") =>
           Cardinality(Those(ppc', "room_woken")) = Cardinality(Those(ppc, "room_woken"))
      /\ ppc'[p] = "room_woken" /\ ppc[p] # "room_woken" =>
           Cardinality(Those(ppc', "room_woken")) = Cardinality(Those(ppc, "room_woken")) + 1
      /\ ppc'[p] # "room_woken" /\ ppc[p] = "room_woken" =>
           Cardinality(Those(ppc', "room_woken")) = Cardinality(Those(ppc, "room_woken")) - 1
  BY <1>4, Moved
<1> QED
  BY <1>2, <1>3, <1>5

\* An item more, and a consumer more that is woken for it.
LEMMA GetterWoken ==
    ASSUME ConsumersRight, queue \in Seq(Producer), errors \in Nat,
           NEW p \in Producer, Q!Enqueue(p), errors' = errors
    PROVE  ConsumersRight' /\ queue' \in Seq(Producer) /\ Len(queue') = Len(queue) + 1
<1>1. queue' \in Seq(Producer) /\ Len(queue') = Len(queue) + 1 /\ Len(queue) \in Nat
  BY AppendProperties, LenProperties DEF Q!Enqueue
<1>2. /\ cpc \in [Consumer -> Q!GetPC] /\ DOMAIN cpc = Consumer
      /\ Lined(getters, Consumer, cpc, "waiting")
      /\ getters # <<>> => Len(queue) + errors <= Cardinality(Those(cpc, "woken"))
  BY DEF ConsumersRight, GettersOwed
<1>3. CASE getters = <<>>
  <2>1. getters' = getters /\ cpc' = cpc
    BY <1>3 DEF Q!Enqueue, Q!WakeGetter, Q!consumers
  <2> QED
    BY <1>1, <1>2, <1>3, <2>1 DEF ConsumersRight, GettersOwed
<1>4. CASE getters # <<>>
  <2>1. getters' = Tail(getters) /\ cpc' = [cpc EXCEPT ![Head(getters)] = "woken"]
    BY <1>4 DEF Q!Enqueue, Q!WakeGetter
  <2>2. /\ Head(getters) \in Consumer /\ cpc[Head(getters)] = "waiting"
        /\ Lined(Tail(getters), Consumer, [cpc EXCEPT ![Head(getters)] = "woken"], "waiting")
    <3>1. "woken" # "waiting"
      OBVIOUS
    <3> QED
      BY <1>2, <1>4, <3>1, LineWakes, Zenon
  <2>3. /\ cpc' \in [Consumer -> Q!GetPC] /\ Cardinality(Those(cpc, "woken")) \in Nat
        /\ Cardinality(Those(cpc', "woken")) = Cardinality(Those(cpc, "woken")) + 1
    BY <1>2, <2>1, <2>2, ConsumerMoves DEF Q!GetPC
  <2> QED
    BY <1>1, <1>2, <1>4, <2>1, <2>2, <2>3 DEF ConsumersRight, GettersOwed
<1> QED
  BY <1>1, <1>3, <1>4

\* An item less, and a producer more that is woken for its place.
LEMMA PutterWoken ==
    ASSUME ProducersRight, queue \in Seq(Producer), queue # <<>>,
           Q!WakePutter, queue' = Tail(queue), cleared' = cleared
    PROVE  ProducersRight' /\ queue' \in Seq(Producer) /\ Len(queue') = Len(queue) - 1
<1>1. queue' \in Seq(Producer) /\ Len(queue') = Len(queue) - 1 /\ Len(queue) \in Nat
  BY HeadTailProperties, LenProperties
<1>2. /\ ppc \in [Producer -> Q!PutPC] /\ DOMAIN ppc = Producer
      /\ Lined(putters, Producer, ppc, "room")
      /\ putters # <<>> /\ "putters" \notin cleared =>
           Size - Len(queue) <= Cardinality(Those(ppc, "room_woken"))
  BY DEF ProducersRight, PuttersOwed
<1>3. CASE putters = <<>>
  <2>1. putters' = putters /\ ppc' = ppc
    BY <1>3 DEF Q!WakePutter
  <2> QED
    BY <1>1, <1>2, <1>3, <2>1 DEF ProducersRight, PuttersOwed
<1>4. CASE putters # <<>>
  <2>1. putters' = Tail(putters) /\ ppc' = [ppc EXCEPT ![Head(putters)] = "room_woken"]
    BY <1>4 DEF Q!WakePutter
  <2>2. /\ Head(putters) \in Producer /\ ppc[Head(putters)] = "room"
        /\ Lined(Tail(putters), Producer, [ppc EXCEPT ![Head(putters)] = "room_woken"], "room")
    <3>1. "room_woken" # "room"
      OBVIOUS
    <3> QED
      BY <1>2, <1>4, <3>1, LineWakes, Zenon
  <2>3. /\ ppc' \in [Producer -> Q!PutPC] /\ Cardinality(Those(ppc, "room_woken")) \in Nat
        /\ Cardinality(Those(ppc', "room_woken")) = Cardinality(Those(ppc, "room_woken")) + 1
    BY <1>2, <2>1, <2>2, ProducerMoves DEF Q!PutPC
  <2> QED
    BY <1>1, <1>2, <2>1, <2>2, <2>3, QueueConstants DEF ProducersRight, PuttersOwed
<1> QED
  BY <1>1, <1>3, <1>4

LEMMA LenIs ==
    ASSUME queue \in Seq(Producer)
    PROVE  /\ Len(queue) \in Nat /\ (queue = <<>> <=> Len(queue) = 0)
           /\ (Q!Full <=> Len(queue) >= Size)
  BY LenProperties, EmptySeq DEF Q!Full

\* put_nowait() at the end of put(), or another turn of its loop.
LEMMA PutOrWaitStep ==
    ASSUME QueueInv, NEW p \in Producer, ppc[p] # "room", Q!PutOrWait(p),
           errors' = errors, cleared' = cleared
    PROVE  ConsumersRight' /\ ProducersRight' /\ queue' \in Seq(Producer)
<1>1. /\ queue \in Seq(Producer) /\ errors \in Nat /\ Len(queue) \in Nat
      /\ ConsumersRight /\ ProducersRight
  BY LenIs, QueueConstants DEF QueueInv, Q!TypeOK
<1>2. /\ ppc \in [Producer -> Q!PutPC] /\ DOMAIN ppc = Producer
      /\ Lined(putters, Producer, ppc, "room") /\ PuttersOwed
  BY <1>1 DEF ProducersRight
<1>3. CASE Q!Full
  <2>1. /\ putters' = Append(putters, p) /\ ppc' = [ppc EXCEPT ![p] = "room"]
        /\ UNCHANGED <<queue, getters, cpc>>
    BY <1>3 DEF Q!PutOrWait, Q!consumers
  <2>2. Lined(putters', Producer, ppc', "room")
    BY <1>2, <2>1, LineGrows, Zenon
  <2>3. ppc' \in [Producer -> Q!PutPC] /\ Cardinality(Those(ppc', "room_woken")) \in Nat
    <3>1. ppc' \in [Producer -> Q!PutPC]
      BY <1>2, <2>1 DEF Q!PutPC
    <3>2. IsFiniteSet(Those(ppc', "room_woken"))
      BY <3>1, QueueConstants, FS_Subset DEF Those
    <3> QED
      BY <3>1, <3>2, FS_CardinalityType
  <2>4. PuttersOwed'
    BY <1>1, <1>3, <2>1, <2>3, QueueConstants DEF PuttersOwed, Q!Full
  <2>5. ConsumersRight'
    BY <1>1, <2>1 DEF ConsumersRight, GettersOwed
  <2> QED
    BY <1>1, <2>1, <2>2, <2>3, <2>4, <2>5 DEF ProducersRight
<1>4. CASE ~Q!Full
  <2>1. /\ Q!Enqueue(p) /\ ppc' = [ppc EXCEPT ![p] = "idle"] /\ putters' = putters
    BY <1>4 DEF Q!PutOrWait
  <2>2. ConsumersRight' /\ queue' \in Seq(Producer) /\ Len(queue') = Len(queue) + 1
    BY <1>1, <2>1, GetterWoken
  <2>3. Lined(putters, Producer, [ppc EXCEPT ![p] = "idle"], "room")
    <3>1. "idle" # "room"
      OBVIOUS
    <3> QED
      BY <1>2, <3>1, LineStays, Zenon
  <2>4. /\ ppc' \in [Producer -> Q!PutPC]
        /\ Cardinality(Those(ppc, "room_woken")) \in Nat
        /\ Cardinality(Those(ppc', "room_woken")) \in
             {Cardinality(Those(ppc, "room_woken")), Cardinality(Those(ppc, "room_woken")) - 1}
    <3>1. "idle" \in Q!PutPC
      BY DEF Q!PutPC
    <3> QED
      BY <1>2, <2>1, <3>1, ProducerMoves
  <2>5. PuttersOwed'
    BY <1>1, <1>2, <2>1, <2>2, <2>4, QueueConstants DEF PuttersOwed
  <2> QED
    BY <2>1, <2>2, <2>3, <2>4, <2>5 DEF ProducersRight
<1> QED
  BY <1>3, <1>4

\* get_nowait() at the end of get(), or another turn of its loop.
LEMMA GetOrWaitStep ==
    ASSUME QueueInv, NEW c \in Consumer, cpc[c] # "waiting", Q!GetOrWait(c),
           cleared' = cleared, throwable' = throwable
    PROVE  /\ ConsumersRight' /\ ProducersRight' /\ queue' \in Seq(Producer)
           /\ errors' \in 0..errors /\ (~throwable' => errors' = 0)
<1>1. /\ queue \in Seq(Producer) /\ errors \in Nat /\ Len(queue) \in Nat
      /\ (~throwable => errors = 0) /\ ConsumersRight /\ ProducersRight
  BY LenIs, QueueConstants DEF QueueInv, Q!TypeOK
<1>2. /\ cpc \in [Consumer -> Q!GetPC] /\ DOMAIN cpc = Consumer
      /\ Lined(getters, Consumer, cpc, "waiting") /\ GettersOwed
  BY <1>1 DEF ConsumersRight
<1>3. CASE Q!Empty
  <2>1. /\ getters' = Append(getters, c) /\ cpc' = [cpc EXCEPT ![c] = "waiting"]
        /\ UNCHANGED <<queue, errors, putters, ppc>>
    BY <1>3 DEF Q!GetOrWait
  <2>2. Lined(getters', Consumer, cpc', "waiting")
    BY <1>2, <2>1, LineGrows, Zenon
  <2>3. cpc' \in [Consumer -> Q!GetPC] /\ Cardinality(Those(cpc', "woken")) \in Nat
    <3>1. cpc' \in [Consumer -> Q!GetPC]
      BY <1>2, <2>1 DEF Q!GetPC
    <3>2. IsFiniteSet(Those(cpc', "woken"))
      BY <3>1, QueueConstants, FS_Subset DEF Those
    <3> QED
      BY <3>1, <3>2, FS_CardinalityType
  <2>4. Len(queue) = 0 /\ errors = 0
    BY <1>1, <1>3, LenIs DEF Q!Empty
  <2>5. GettersOwed'
    BY <2>1, <2>3, <2>4 DEF GettersOwed
  <2>6. ProducersRight'
    BY <1>1, <2>1 DEF ProducersRight, PuttersOwed
  <2> QED
    BY <1>1, <2>1, <2>2, <2>3, <2>5, <2>6 DEF ConsumersRight
<1>4. CASE ~Q!Empty
  <2>1. Q!GetNowait(c) /\ getters' = getters
    BY <1>4 DEF Q!GetOrWait
  <2> DEFINE n == Cardinality(Those(cpc, "woken"))
             m == Cardinality(Those(cpc', "woken"))
  <2>2. ASSUME NEW v \in {"idle", "raised"}, cpc' = [cpc EXCEPT ![c] = v]
        PROVE  /\ cpc' \in [Consumer -> Q!GetPC] /\ n \in Nat /\ m \in {n, n - 1}
               /\ Lined(getters', Consumer, cpc', "waiting")
    <3>1. v \in Q!GetPC /\ v # "waiting" /\ v # "woken"
      BY DEF Q!GetPC
    <3>2. Lined(getters, Consumer, [cpc EXCEPT ![c] = v], "waiting")
      BY <1>2, <3>1, LineStays, Zenon
    <3> QED
      BY <1>2, <2>1, <2>2, <3>1, <3>2, ConsumerMoves
  <2>3. CASE throwable /\ errors > 0
    <3>1. /\ errors' = errors - 1 /\ cpc' = [cpc EXCEPT ![c] = "raised"]
          /\ UNCHANGED <<queue, putters, ppc>>
      BY <2>1, <2>3 DEF Q!GetNowait
    <3>2. /\ cpc' \in [Consumer -> Q!GetPC] /\ n \in Nat /\ m \in {n, n - 1}
          /\ Lined(getters', Consumer, cpc', "waiting")
      BY <2>2, <3>1
    <3>3. GettersOwed'
      BY <1>1, <1>2, <2>1, <3>1, <3>2 DEF GettersOwed
    <3>4. ProducersRight'
      BY <1>1, <3>1 DEF ProducersRight, PuttersOwed
    <3> QED
      BY <1>1, <2>3, <3>1, <3>2, <3>3, <3>4 DEF ConsumersRight
  <2>4. CASE ~(throwable /\ errors > 0)
    <3>1. /\ queue' = Tail(queue) /\ cpc' = [cpc EXCEPT ![c] = "idle"]
          /\ Q!WakePutter /\ errors' = errors
      BY <2>1, <2>4 DEF Q!GetNowait
    <3>2. queue # <<>>
      BY <1>1, <1>4, <2>4 DEF Q!Empty
    <3>3. ProducersRight' /\ queue' \in Seq(Producer) /\ Len(queue') = Len(queue) - 1
      BY <1>1, <3>1, <3>2, PutterWoken
    <3>4. /\ cpc' \in [Consumer -> Q!GetPC] /\ n \in Nat /\ m \in {n, n - 1}
          /\ Lined(getters', Consumer, cpc', "waiting")
      BY <2>2, <3>1
    <3>5. GettersOwed'
      BY <1>1, <1>2, <2>1, <3>1, <3>3, <3>4 DEF GettersOwed
    <3> QED
      BY <1>1, <3>1, <3>3, <3>4, <3>5 DEF ConsumersRight
  <2> QED
    BY <2>3, <2>4
<1> QED
  BY <1>3, <1>4

\* A consumer is cancelled: it leaves the line, or hands its wakeup on.
LEMMA GetCancelledStep ==
    ASSUME QueueInv, NEW c \in Consumer, Q!GetCancelled(c)
    PROVE  ConsumersRight'
<1> DEFINE rest == Q!RemoveFirst(getters, c)
           pass == cpc[c] # "waiting" /\ ~Q!Empty /\ rest # <<>>
           mid == [cpc EXCEPT ![c] = "idle"]
           n == Cardinality(Those(cpc, "woken"))
<1>1. /\ cpc[c] \in {"waiting", "woken", "error"} /\ UNCHANGED <<queue, errors>>
      /\ getters' = (IF pass THEN Tail(rest) ELSE rest)
      /\ cpc' = IF pass THEN [mid EXCEPT ![Head(rest)] = "woken"] ELSE mid
  BY DEF Q!GetCancelled
<1>2. /\ queue \in Seq(Producer) /\ errors \in Nat /\ Len(queue) \in Nat
      /\ (~throwable => errors = 0)
      /\ cpc \in [Consumer -> Q!GetPC] /\ DOMAIN cpc = Consumer /\ IsFiniteSet(Consumer)
      /\ Lined(getters, Consumer, cpc, "waiting") /\ GettersOwed
  BY LenIs, QueueConstants DEF QueueInv, Q!TypeOK, ConsumersRight
<1>3. Lined(rest, Consumer, mid, "waiting")
  <2>1. "idle" # "waiting"
    OBVIOUS
  <2> QED
    BY <1>2, <2>1, LineLeaves, Zenon
<1>4. /\ mid \in [Consumer -> Q!GetPC] /\ DOMAIN mid = Consumer /\ mid[c] = "idle"
      /\ \A d \in Consumer \ {c} : mid[d] = cpc[d]
  BY <1>2 DEF Q!GetPC
<1>5. rest # <<>> => getters # <<>>
  <2> SUFFICES ASSUME getters = <<>> PROVE rest = <<>>
    OBVIOUS
  <2>1. ~\E i \in 1..Len(getters) : getters[i] = c
    BY LenProperties, EmptySeq
  <2> QED
    BY <2>1 DEF Q!RemoveFirst
<1> HIDE DEF mid, rest
<1>6. /\ n \in Nat
      /\ Cardinality(Those(mid, "woken")) = IF cpc[c] = "woken" THEN n - 1 ELSE n
  <2>1. /\ DOMAIN mid = DOMAIN cpc /\ IsFiniteSet(DOMAIN cpc) /\ c \in DOMAIN cpc
        /\ \A y \in DOMAIN cpc \ {c} : mid[y] = cpc[y]
    BY <1>2, <1>4
  <2>2. /\ n \in Nat
        /\ (mid[c] = "woken" <=> cpc[c] = "woken") => Cardinality(Those(mid, "woken")) = n
        /\ mid[c] # "woken" /\ cpc[c] = "woken" => Cardinality(Those(mid, "woken")) = n - 1
    BY <2>1, Moved
  <2> QED
    BY <1>4, <2>2
<1>7. CASE pass
  <2>1. /\ Head(rest) \in Consumer /\ mid[Head(rest)] = "waiting"
        /\ Lined(Tail(rest), Consumer, [mid EXCEPT ![Head(rest)] = "woken"], "waiting")
    <3>1. "woken" # "waiting"
      OBVIOUS
    <3> QED
      BY <1>3, <1>4, <1>7, <3>1, LineWakes, Zenon
  <2>2. /\ getters' = Tail(rest) /\ cpc' = [mid EXCEPT ![Head(rest)] = "woken"]
    BY <1>1, <1>7
  <2>3. cpc' \in [Consumer -> Q!GetPC]
    BY <1>4, <2>1, <2>2 DEF Q!GetPC
  <2>4. Cardinality(Those(cpc', "woken")) = Cardinality(Those(mid, "woken")) + 1
    <3>1. /\ DOMAIN cpc' = DOMAIN mid /\ IsFiniteSet(DOMAIN mid) /\ Head(rest) \in DOMAIN mid
          /\ \A y \in DOMAIN mid \ {Head(rest)} : cpc'[y] = mid[y]
      BY <1>2, <1>4, <2>1, <2>2
    <3>2. cpc'[Head(rest)] = "woken" /\ mid[Head(rest)] # "woken"
      BY <1>4, <2>1, <2>2
    <3> QED
      BY <3>1, <3>2, Moved
  <2>5. GettersOwed'
    BY <1>1, <1>2, <1>5, <1>6, <1>7, <2>4 DEF GettersOwed
  <2> QED
    BY <2>1, <2>2, <2>3, <2>5 DEF ConsumersRight
<1>8. CASE ~pass
  <2>1. getters' = rest /\ cpc' = mid
    BY <1>1, <1>8
  <2>2. GettersOwed'
    <3> SUFFICES ASSUME rest # <<>> PROVE Len(queue) + errors <= Cardinality(Those(mid, "woken"))
      BY <1>1, <2>1 DEF GettersOwed
    <3>1. CASE cpc[c] = "waiting"
      BY <1>2, <1>5, <1>6, <3>1 DEF GettersOwed
    <3>2. CASE Q!Empty
      <4>1. Len(queue) = 0 /\ errors = 0
        BY <1>2, <3>2, LenIs DEF Q!Empty
      <4>2. Cardinality(Those(mid, "woken")) \in Nat
        <5>1. IsFiniteSet(Those(mid, "woken"))
          BY <1>2, <1>4, FS_Subset DEF Those
        <5> QED
          BY <5>1, FS_CardinalityType
      <4> QED
        BY <4>1, <4>2
    <3> QED
      BY <1>8, <3>1, <3>2
  <2> QED
    BY <1>3, <1>4, <2>1, <2>2 DEF ConsumersRight
<1> QED
  BY <1>7, <1>8

\* A producer is cancelled: it leaves the line, or hands its wakeup on.
LEMMA PutAbortedStep ==
    ASSUME QueueInv, NEW p \in Producer, Q!PutAborted(p)
    PROVE  ProducersRight'
<1> DEFINE rest == Q!RemoveFirst(putters, p)
           pass == ppc[p] = "room_woken" /\ ~Q!Full /\ rest # <<>>
           mid == [ppc EXCEPT ![p] = "idle"]
           n == Cardinality(Those(ppc, "room_woken"))
<1>1. /\ ppc[p] \in {"acquire", "resumed", "room", "room_woken"} /\ UNCHANGED <<queue, cleared>>
      /\ putters' = (IF pass THEN Tail(rest) ELSE rest)
      /\ ppc' = IF pass THEN [mid EXCEPT ![Head(rest)] = "room_woken"] ELSE mid
  BY DEF Q!PutAborted
<1>2. /\ queue \in Seq(Producer) /\ Len(queue) \in Nat
      /\ ppc \in [Producer -> Q!PutPC] /\ DOMAIN ppc = Producer /\ IsFiniteSet(Producer)
      /\ Lined(putters, Producer, ppc, "room") /\ PuttersOwed
  BY LenIs, QueueConstants DEF QueueInv, Q!TypeOK, ProducersRight
<1>3. Lined(rest, Producer, mid, "room")
  <2>1. "idle" # "room"
    OBVIOUS
  <2> QED
    BY <1>2, <2>1, LineLeaves, Zenon
<1>4. /\ mid \in [Producer -> Q!PutPC] /\ DOMAIN mid = Producer /\ mid[p] = "idle"
      /\ \A d \in Producer \ {p} : mid[d] = ppc[d]
  BY <1>2 DEF Q!PutPC
<1>5. rest # <<>> => putters # <<>>
  <2> SUFFICES ASSUME putters = <<>> PROVE rest = <<>>
    OBVIOUS
  <2>1. ~\E i \in 1..Len(putters) : putters[i] = p
    BY LenProperties, EmptySeq
  <2> QED
    BY <2>1 DEF Q!RemoveFirst
<1> HIDE DEF mid, rest
<1>6. /\ n \in Nat
      /\ Cardinality(Those(mid, "room_woken")) = IF ppc[p] = "room_woken" THEN n - 1 ELSE n
  <2>1. /\ DOMAIN mid = DOMAIN ppc /\ IsFiniteSet(DOMAIN ppc) /\ p \in DOMAIN ppc
        /\ \A y \in DOMAIN ppc \ {p} : mid[y] = ppc[y]
    BY <1>2, <1>4
  <2>2. /\ n \in Nat
        /\ (mid[p] = "room_woken" <=> ppc[p] = "room_woken") =>
             Cardinality(Those(mid, "room_woken")) = n
        /\ mid[p] # "room_woken" /\ ppc[p] = "room_woken" =>
             Cardinality(Those(mid, "room_woken")) = n - 1
    BY <2>1, Moved
  <2> QED
    BY <1>4, <2>2
<1>7. CASE pass
  <2>1. /\ Head(rest) \in Producer /\ mid[Head(rest)] = "room"
        /\ Lined(Tail(rest), Producer, [mid EXCEPT ![Head(rest)] = "room_woken"], "room")
    <3>1. "room_woken" # "room"
      OBVIOUS
    <3> QED
      BY <1>3, <1>4, <1>7, <3>1, LineWakes, Zenon
  <2>2. putters' = Tail(rest) /\ ppc' = [mid EXCEPT ![Head(rest)] = "room_woken"]
    BY <1>1, <1>7
  <2>3. ppc' \in [Producer -> Q!PutPC]
    BY <1>4, <2>1, <2>2 DEF Q!PutPC
  <2>4. Cardinality(Those(ppc', "room_woken")) = Cardinality(Those(mid, "room_woken")) + 1
    <3>1. /\ DOMAIN ppc' = DOMAIN mid /\ IsFiniteSet(DOMAIN mid) /\ Head(rest) \in DOMAIN mid
          /\ \A y \in DOMAIN mid \ {Head(rest)} : ppc'[y] = mid[y]
      BY <1>2, <1>4, <2>1, <2>2
    <3>2. ppc'[Head(rest)] = "room_woken" /\ mid[Head(rest)] # "room_woken"
      BY <1>4, <2>1, <2>2
    <3> QED
      BY <3>1, <3>2, Moved
  <2>5. PuttersOwed'
    BY <1>1, <1>2, <1>5, <1>6, <1>7, <2>4 DEF PuttersOwed
  <2> QED
    BY <2>1, <2>2, <2>3, <2>5 DEF ProducersRight
<1>8. CASE ~pass
  <2>1. putters' = rest /\ ppc' = mid
    BY <1>1, <1>8
  <2>2. PuttersOwed'
    <3> SUFFICES ASSUME rest # <<>>, "putters" \notin cleared
                 PROVE  Size - Len(queue) <= Cardinality(Those(mid, "room_woken"))
      BY <1>1, <2>1 DEF PuttersOwed
    <3>1. CASE ppc[p] # "room_woken"
      BY <1>2, <1>5, <1>6, <3>1 DEF PuttersOwed
    <3>2. CASE Q!Full
      <4>1. Len(queue) >= Size
        BY <3>2 DEF Q!Full
      <4>2. Cardinality(Those(mid, "room_woken")) \in Nat
        <5>1. IsFiniteSet(Those(mid, "room_woken"))
          BY <1>2, <1>4, FS_Subset DEF Those
        <5> QED
          BY <5>1, FS_CardinalityType
      <4> QED
        BY <1>2, <4>1, <4>2, QueueConstants
    <3> QED
      BY <1>8, <3>1, <3>2
  <2> QED
    BY <1>3, <1>4, <2>1, <2>2 DEF ProducersRight
<1> QED
  BY <1>7, <1>8

\* resume(): nobody waits for room that did not, and if the queue is cleared
\* nobody waits, or it is told.
LEMMA ResumeStep ==
    ASSUME QueueInv, Q!Resume
    PROVE  QueueInv'
<1>1. /\ suspended /\ suspended' = FALSE
      /\ IF clear_on_resume THEN Q!Clear
         ELSE ppc' = Q!Resumed /\ UNCHANGED <<queue, putters, errors, cleared>>
      /\ UNCHANGED <<throwable, clear_on_resume, getters, cpc, pending, puts, thrown, switches>>
  BY DEF Q!Resume, Q!config, Q!consumers, Q!bounds
<1>2. /\ queue \in Seq(Producer) /\ Len(queue) \in Nat /\ errors \in 0..MaxErrors
      /\ thrown \in 0..MaxErrors /\ errors <= thrown /\ (~throwable => errors = 0)
      /\ ppc \in [Producer -> Q!PutPC] /\ cpc \in [Consumer -> Q!GetPC]
      /\ Lined(putters, Producer, ppc, "room") /\ PuttersOwed
      /\ Lined(getters, Consumer, cpc, "waiting") /\ GettersOwed
      /\ cleared \subseteq {"putters", "callbacks"} /\ MaxErrors \in Nat
  BY LenIs, QueueConstants DEF QueueInv, Q!TypeOK, ProducersRight, ConsumersRight
<1>3. /\ Q!Resumed \in [Producer -> Q!PutPC]
      /\ \A p \in Producer, w \in {"room", "room_woken"} : Q!Resumed[p] = w <=> ppc[p] = w
  BY <1>2 DEF Q!Resumed, Q!PutPC
<1>4. Cardinality(Those(cpc, "woken")) \in Nat
  BY <1>2, QueueConstants, FS_Subset, FS_CardinalityType DEF Those
<1>5. Len(<<>>) = 0 /\ <<>> \in Seq(Producer) /\ Q!ToSet(<<>>) = {}
      /\ DOMAIN <<>> = {}
  BY LenProperties, EmptySeq DEF Q!ToSet
<1>6. ASSUME ppc' = Q!Resumed, putters' = putters
      PROVE  /\ ppc' \in [Producer -> Q!PutPC] /\ Lined(putters', Producer, ppc', "room")
             /\ Those(ppc', "room_woken") = Those(ppc, "room_woken")
  <2>1. ppc' \in [Producer -> Q!PutPC] /\ DOMAIN ppc' = Producer /\ DOMAIN ppc = Producer
    BY <1>2, <1>3, <1>6
  <2>2. {x \in Producer : ppc'[x] = "room"} = {x \in Producer : ppc[x] = "room"}
    BY <1>3, <1>6
  <2>3. {x \in Producer : ppc'[x] = "room_woken"} = {x \in Producer : ppc[x] = "room_woken"}
    BY <1>3, <1>6
  <2> QED
    BY <1>2, <1>6, <2>1, <2>2, <2>3 DEF Lined, Those
<1>7. CASE ~clear_on_resume
  <2>1. ppc' = Q!Resumed /\ UNCHANGED <<queue, putters, errors, cleared>>
    BY <1>1, <1>7
  <2>2. PuttersOwed' /\ GettersOwed'
    BY <1>1, <1>2, <1>6, <2>1 DEF PuttersOwed, GettersOwed
  <2> QED
    BY <1>1, <1>2, <1>6, <2>1, <2>2
       DEF QueueInv, Q!TypeOK, ProducersRight, ConsumersRight
<1>8. CASE clear_on_resume
  <2>1. queue' = <<>> /\ IF throwable THEN Q!ClearThrowable ELSE Q!ClearPlain
    BY <1>1, <1>8 DEF Q!Clear
  <2>2. CASE throwable
    <3>1. /\ ppc' = [p \in Producer |-> IF p \in Q!ToSet(putters) THEN "room_cancelled"
                                        ELSE Q!Resumed[p]]
          /\ putters' = <<>> /\ errors' = 0
          /\ cleared' \in {cleared, cleared \cup {"callbacks"}}
      BY <2>1, <2>2 DEF Q!ClearThrowable
    <3>2. ppc' \in [Producer -> Q!PutPC]
      BY <1>3, <3>1 DEF Q!PutPC
    <3>3. \A p \in Producer : ppc'[p] # "room"
      BY <1>2, <1>3, <3>1 DEF Lined
    <3>4. Lined(putters', Producer, ppc', "room") /\ PuttersOwed'
      BY <1>5, <3>1, <3>3 DEF Lined, PuttersOwed
    <3>5. GettersOwed'
      BY <1>1, <1>4, <1>5, <2>1, <3>1 DEF GettersOwed
    <3>6. queue' \in Seq(Producer) /\ putters' \in Seq(Producer)
      BY <1>5, <2>1, <3>1
    <3>7. errors' \in 0..MaxErrors /\ errors' <= thrown'
      BY <1>1, <1>2, <3>1
    <3> QED
      BY <1>1, <1>2, <2>1, <3>1, <3>2, <3>4, <3>5, <3>6, <3>7
         DEF QueueInv, Q!TypeOK, ProducersRight, ConsumersRight
  <2>3. CASE ~throwable
    <3>1. /\ ppc' = Q!Resumed /\ UNCHANGED <<putters, errors>>
          /\ cleared' = cleared \cup (IF putters # <<>> THEN {"putters"} ELSE {})
                                \cup (IF pending # {} THEN {"callbacks"} ELSE {})
      BY <2>1, <2>3 DEF Q!ClearPlain
    <3>2. PuttersOwed' /\ cleared' \subseteq {"putters", "callbacks"}
      BY <1>2, <3>1 DEF PuttersOwed
    <3>3. GettersOwed'
      BY <1>1, <1>2, <1>4, <1>5, <2>1, <2>3, <3>1 DEF GettersOwed
    <3> QED
      BY <1>1, <1>2, <1>5, <1>6, <2>1, <3>1, <3>2, <3>3
         DEF QueueInv, Q!TypeOK, ProducersRight, ConsumersRight
  <2> QED
    BY <2>2, <2>3
<1> QED
  BY <1>7, <1>8

LEMMA QueueInit == Init => QueueInv
<1> SUFFICES ASSUME Q!Init PROVE QueueInv
  BY DEF Init
<1>1. <<>> \in Seq(Consumer) /\ <<>> \in Seq(Producer) /\ DOMAIN <<>> = {}
      /\ Q!ToSet(<<>>) = {}
  BY LenProperties, EmptySeq DEF Q!ToSet
<1>2. queue \in Seq(Producer)
  <2>1. PICK n \in {0, Q!PressureHigh}, p \in Enhanced : queue = [i \in 1..n |-> p]
    BY DEF Q!Init
  <2>2. n \in Nat /\ p \in Producer
    BY QueueConstants DEF Q!PressureHigh
  <2> QED
    BY <2>1, <2>2
<1>3. Q!TypeOK
  BY <1>1, <1>2, QueueConstants DEF Q!Init, Q!TypeOK, Q!GetPC, Q!PutPC
<1>4. errors <= thrown /\ (~throwable => errors = 0)
  BY DEF Q!Init
<1>5. ConsumersRight /\ ProducersRight
  BY <1>1, <1>3 DEF Q!Init, Q!TypeOK, ConsumersRight, ProducersRight, Lined, GettersOwed,
     PuttersOwed
<1> QED
  BY <1>3, <1>4, <1>5 DEF QueueInv

LEMMA QueueNext ==
    ASSUME QueueInv, [Q!Next]_(Q!vars)
    PROVE  QueueInv'
<1> USE DEF Q!config, Q!consumers, Q!bounds
<1>0. /\ queue \in Seq(Producer) /\ errors \in 0..MaxErrors /\ thrown \in 0..MaxErrors
      /\ puts \in 0..MaxPuts /\ switches \in 0..MaxSwitches
      /\ errors <= thrown /\ (~throwable => errors = 0)
      /\ ppc \in [Producer -> Q!PutPC] /\ cpc \in [Consumer -> Q!GetPC]
      /\ putters \in Seq(Producer) /\ getters \in Seq(Consumer)
      /\ ConsumersRight /\ ProducersRight
      /\ cleared \subseteq {"putters", "callbacks"} /\ pending \subseteq Enhanced
      /\ throwable \in BOOLEAN /\ clear_on_resume \in BOOLEAN /\ suspended \in BOOLEAN
  BY DEF QueueInv, Q!TypeOK
\* What the steps of a producer or a consumer leave to show.
<1>a. ASSUME ConsumersRight', ProducersRight', queue' \in Seq(Producer),
             errors' \in 0..errors, ~throwable' => errors' = 0, pending' \subseteq Enhanced,
             puts' \in 0..MaxPuts, UNCHANGED <<throwable, clear_on_resume, suspended, thrown,
                                               switches, cleared>>
      PROVE  QueueInv'
  <2>1. errors' \in 0..MaxErrors /\ errors' <= thrown'
    BY <1>0, <1>a, QueueConstants
  <2>2. /\ ppc' \in [Producer -> Q!PutPC] /\ cpc' \in [Consumer -> Q!GetPC]
        /\ putters' \in Seq(Producer) /\ getters' \in Seq(Consumer)
    BY <1>a DEF ConsumersRight, ProducersRight, Lined
  <2> QED
    BY <1>0, <1>a, <2>1, <2>2 DEF QueueInv, Q!TypeOK
<1>b. /\ (UNCHANGED <<queue, errors, getters, cpc>> => ConsumersRight')
      /\ (UNCHANGED <<queue, putters, ppc, cleared>> => ProducersRight')
      /\ (errors' = errors /\ throwable' = throwable =>
            errors' \in 0..errors /\ (~throwable' => errors' = 0))
  <2>1. ASSUME UNCHANGED <<queue, errors, getters, cpc>> PROVE ConsumersRight'
    BY <1>0, <2>1 DEF ConsumersRight, GettersOwed
  <2>2. ASSUME UNCHANGED <<queue, putters, ppc, cleared>> PROVE ProducersRight'
    BY <1>0, <2>2 DEF ProducersRight, PuttersOwed
  <2>3. errors \in 0..errors
    BY <1>0, QueueConstants
  <2> QED
    BY <1>0, <2>1, <2>2, <2>3
<1>1. ASSUME NEW p \in Producer, Q!Put(p) PROVE QueueInv'
  <2>1. /\ ppc[p] = "idle" /\ puts' \in 0..MaxPuts
        /\ UNCHANGED <<throwable, clear_on_resume, errors, suspended, pending, thrown,
                       switches, cleared>>
    BY <1>0, <1>1, QueueConstants DEF Q!Put
  <2>2. CASE suspended
    <3>1. ppc' = [ppc EXCEPT ![p] = "acquire"] /\ UNCHANGED <<queue, putters, getters, cpc>>
      BY <1>1, <2>2 DEF Q!Put
    <3>2. /\ ppc' \in [Producer -> Q!PutPC]
          /\ Cardinality(Those(ppc', "room_woken")) = Cardinality(Those(ppc, "room_woken"))
      BY <1>0, <2>1, <3>1, ProducerMoves DEF Q!PutPC
    <3>3. Lined(putters, Producer, [ppc EXCEPT ![p] = "acquire"], "room")
      <4>1. "acquire" # "room" /\ ppc[p] # "room" /\ DOMAIN ppc = Producer
            /\ Lined(putters, Producer, ppc, "room")
        BY <1>0, <2>1 DEF ProducersRight
      <4> QED
        BY <4>1, LineStays, Zenon
    <3>4. ProducersRight'
      BY <1>0, <2>1, <3>1, <3>2, <3>3 DEF ProducersRight, PuttersOwed
    <3> QED
      BY <1>0, <1>a, <1>b, <2>1, <3>1, <3>4
  <2>3. CASE ~suspended
    <3>1. Q!PutOrWait(p) /\ ppc[p] # "room"
      BY <1>1, <2>1, <2>3 DEF Q!Put
    <3>2. ConsumersRight' /\ ProducersRight' /\ queue' \in Seq(Producer)
      BY <2>1, <3>1, PutOrWaitStep
    <3> QED
      BY <1>0, <1>a, <1>b, <2>1, <3>2
  <2> QED
    BY <2>2, <2>3
<1>2. ASSUME NEW p \in Producer, Q!PutGoesOn(p) PROVE QueueInv'
  <2>1. /\ ppc[p] # "room" /\ Q!PutOrWait(p)
        /\ UNCHANGED <<throwable, clear_on_resume, errors, suspended, pending, puts, thrown,
                       switches, cleared>>
    BY <1>2 DEF Q!PutGoesOn
  <2>2. ConsumersRight' /\ ProducersRight' /\ queue' \in Seq(Producer)
    BY <2>1, PutOrWaitStep
  <2> QED
    BY <1>0, <1>a, <1>b, <2>1, <2>2
<1>3. ASSUME NEW p \in Producer, Q!PutCancelled(p) PROVE QueueInv'
  <2>1. /\ ppc[p] = "room_cancelled" /\ ppc' = [ppc EXCEPT ![p] = "idle"]
        /\ UNCHANGED <<throwable, clear_on_resume, queue, errors, suspended, putters, getters,
                       cpc, pending, puts, thrown, switches, cleared>>
    BY <1>3 DEF Q!PutCancelled
  <2>2. /\ ppc' \in [Producer -> Q!PutPC]
        /\ Cardinality(Those(ppc', "room_woken")) = Cardinality(Those(ppc, "room_woken"))
    BY <1>0, <2>1, ProducerMoves DEF Q!PutPC
  <2>3. Lined(putters, Producer, [ppc EXCEPT ![p] = "idle"], "room")
    <3>1. "idle" # "room" /\ ppc[p] # "room" /\ DOMAIN ppc = Producer
          /\ Lined(putters, Producer, ppc, "room")
      BY <1>0, <2>1 DEF ProducersRight
    <3> QED
      BY <3>1, LineStays, Zenon
  <2>4. ProducersRight'
    BY <1>0, <2>1, <2>2, <2>3 DEF ProducersRight, PuttersOwed
  <2> QED
    BY <1>0, <1>a, <1>b, <2>1, <2>4
<1>4. ASSUME NEW p \in Producer, Q!PutAborted(p) PROVE QueueInv'
  <2>1. UNCHANGED <<throwable, clear_on_resume, queue, errors, suspended, getters, cpc,
                    pending, puts, thrown, switches, cleared>>
    BY <1>4 DEF Q!PutAborted
  <2>2. ProducersRight'
    BY <1>4, PutAbortedStep
  <2> QED
    BY <1>0, <1>a, <1>b, <2>1, <2>2
<1>5. ASSUME NEW p \in Producer, Q!PutEnhanced(p) PROVE QueueInv'
  <2>1. /\ p \in Enhanced /\ puts' \in 0..MaxPuts /\ pending' \subseteq Enhanced /\ Q!Enqueue(p)
        /\ UNCHANGED <<throwable, clear_on_resume, errors, suspended, putters, ppc, thrown,
                       switches, cleared>>
    BY <1>0, <1>5, QueueConstants DEF Q!PutEnhanced
  <2>2. ConsumersRight' /\ queue' \in Seq(Producer) /\ Len(queue') = Len(queue) + 1
    BY <1>0, <2>1, QueueConstants, GetterWoken
  <2>3. ProducersRight'
    <3>1. Len(queue) \in Nat
      BY <1>0, LenIs
    <3>2. Cardinality(Those(ppc, "room_woken")) \in Nat
      BY <1>0, QueueConstants, FS_Subset, FS_CardinalityType DEF Those
    <3> QED
      BY <1>0, <2>1, <2>2, <3>1, <3>2, QueueConstants DEF ProducersRight, PuttersOwed
  <2> QED
    BY <1>0, <1>a, <1>b, <2>1, <2>2, <2>3
<1>6. ASSUME NEW c \in Consumer, Q!Get(c) \/ Q!GetGoesOn(c) PROVE QueueInv'
  <2>1. /\ cpc[c] # "waiting" /\ Q!GetOrWait(c)
        /\ UNCHANGED <<throwable, clear_on_resume, suspended, puts, thrown, switches, cleared>>
    BY <1>6 DEF Q!Get, Q!GetGoesOn
  <2>2. /\ ConsumersRight' /\ ProducersRight' /\ queue' \in Seq(Producer)
        /\ errors' \in 0..errors /\ (~throwable' => errors' = 0)
    BY <2>1, GetOrWaitStep
  <2>3. ASSUME Q!EndorsePressureDrop PROVE pending' \subseteq Enhanced
    <3>1. CASE queue = <<>>
      BY <2>3, <3>1, Zenon DEF Q!EndorsePressureDrop
    <3>2. CASE queue # <<>> /\ Len(queue) <= Q!PressureDrop /\ pending # {}
      <4>1. \E p \in pending : pending' = pending \ {p}
        BY <2>3, <3>2, Zenon DEF Q!EndorsePressureDrop
      <4> QED
        BY <1>0, <4>1
    <3>3. CASE queue # <<>> /\ ~(Len(queue) <= Q!PressureDrop /\ pending # {})
      <4>1. pending' = pending
        BY <2>3, <3>3, Zenon DEF Q!EndorsePressureDrop
      <4> QED
        BY <1>0, <4>1
    <3> QED
      BY <3>1, <3>2, <3>3
  <2>4. pending' \subseteq Enhanced
    <3>1. CASE Q!Empty
      BY <1>0, <1>6, <2>3, <3>1 DEF Q!Get, Q!GetGoesOn
    <3>2. CASE ~Q!Empty
      BY <1>0, <2>1, <2>3, <3>2 DEF Q!GetOrWait, Q!GetNowait
    <3> QED
      BY <3>1, <3>2
  <2> QED
    BY <1>0, <1>a, <2>1, <2>2, <2>4
<1>7. ASSUME NEW c \in Consumer, Q!ErrorRaised(c) PROVE QueueInv'
  <2>1. /\ cpc[c] \in {"error", "raised"} /\ cpc' = [cpc EXCEPT ![c] = "idle"]
        /\ UNCHANGED <<throwable, clear_on_resume, queue, errors, suspended, putters, getters,
                       ppc, pending, puts, thrown, switches, cleared>>
    BY <1>7 DEF Q!ErrorRaised
  <2>2. /\ cpc' \in [Consumer -> Q!GetPC]
        /\ Cardinality(Those(cpc', "woken")) = Cardinality(Those(cpc, "woken"))
    BY <1>0, <2>1, ConsumerMoves DEF Q!GetPC
  <2>3. Lined(getters, Consumer, [cpc EXCEPT ![c] = "idle"], "waiting")
    <3>1. "idle" # "waiting" /\ cpc[c] # "waiting" /\ DOMAIN cpc = Consumer
          /\ Lined(getters, Consumer, cpc, "waiting")
      BY <1>0, <2>1 DEF ConsumersRight
    <3> QED
      BY <3>1, LineStays, Zenon
  <2>4. ConsumersRight'
    BY <1>0, <2>1, <2>2, <2>3 DEF ConsumersRight, GettersOwed
  <2> QED
    BY <1>0, <1>a, <1>b, <2>1, <2>4
<1>8. ASSUME NEW c \in Consumer, Q!GetCancelled(c) PROVE QueueInv'
  <2>1. UNCHANGED <<throwable, clear_on_resume, queue, errors, suspended, putters, ppc,
                    pending, puts, thrown, switches, cleared>>
    BY <1>8 DEF Q!GetCancelled
  <2>2. ConsumersRight'
    BY <1>8, GetCancelledStep
  <2> QED
    BY <1>0, <1>a, <1>b, <2>1, <2>2
<1>9. CASE Q!Throw
  <2>1. /\ throwable /\ thrown < MaxErrors /\ thrown' = thrown + 1
        /\ UNCHANGED <<throwable, clear_on_resume, queue, suspended, putters, ppc, pending,
                       puts, switches, cleared>>
    BY <1>9 DEF Q!Throw
  <2>2. CASE getters # <<>>
    <3>1. /\ getters' = Tail(getters) /\ errors' = errors
          /\ cpc' = [cpc EXCEPT ![Head(getters)] = "error"]
      BY <1>9, <2>2 DEF Q!Throw
    <3>2. /\ Head(getters) \in Consumer /\ cpc[Head(getters)] = "waiting"
          /\ Lined(Tail(getters), Consumer, [cpc EXCEPT ![Head(getters)] = "error"], "waiting")
      <4>1. "error" # "waiting" /\ DOMAIN cpc = Consumer
            /\ Lined(getters, Consumer, cpc, "waiting")
        BY <1>0 DEF ConsumersRight
      <4> QED
        BY <2>2, <4>1, LineWakes, Zenon
    <3>3. /\ cpc' \in [Consumer -> Q!GetPC]
          /\ Cardinality(Those(cpc', "woken")) = Cardinality(Those(cpc, "woken"))
      BY <1>0, <3>1, <3>2, ConsumerMoves DEF Q!GetPC
    <3>4. ConsumersRight'
      BY <1>0, <2>1, <2>2, <3>1, <3>2, <3>3 DEF ConsumersRight, GettersOwed
    <3>5. errors' \in 0..MaxErrors /\ thrown' \in 0..MaxErrors /\ errors' <= thrown'
      BY <1>0, <2>1, <3>1, QueueConstants
    <3>6. Tail(getters) \in Seq(Consumer)
      BY <3>2 DEF Lined
    <3> QED
      BY <1>0, <1>b, <2>1, <3>1, <3>3, <3>4, <3>5, <3>6 DEF QueueInv, Q!TypeOK
  <2>3. CASE getters = <<>>
    <3>1. errors' = errors + 1 /\ UNCHANGED <<getters, cpc>>
      BY <1>9, <2>3 DEF Q!Throw
    <3>2. ConsumersRight'
      BY <1>0, <2>3, <3>1 DEF ConsumersRight, GettersOwed
    <3>3. errors' \in 0..MaxErrors /\ thrown' \in 0..MaxErrors /\ errors' <= thrown'
      BY <1>0, <2>1, <3>1, QueueConstants
    <3> QED
      BY <1>0, <1>b, <2>1, <3>1, <3>2, <3>3 DEF QueueInv, Q!TypeOK
  <2> QED
    BY <2>2, <2>3
<1>10. CASE Q!Suspend
  <2>1. /\ switches' \in 0..MaxSwitches /\ suspended' = TRUE
        /\ UNCHANGED <<throwable, clear_on_resume, queue, errors, putters, ppc, getters, cpc,
                       pending, puts, thrown, cleared>>
    BY <1>0, <1>10, QueueConstants DEF Q!Suspend
  <2> QED
    BY <1>0, <1>b, <2>1 DEF QueueInv, Q!TypeOK
<1>11. CASE Q!Resume
  BY <1>11, ResumeStep
<1>12. CASE UNCHANGED Q!vars
  BY <1>0, <1>a, <1>b, <1>12 DEF Q!vars
<1> QED
  BY <1>1, <1>2, <1>3, <1>4, <1>5, <1>6, <1>7, <1>8, <1>9, <1>10, <1>11, <1>12
     DEF Q!Next, Q!ConsumerStep, Q!ProducerStep

LEMMA QueueInvariant == Spec => []QueueInv
  BY QueueInit, QueueNext, PartSteps, PTL DEF Spec

\* While there is something to get no consumer waits unless another has been
\* woken for it, and while there is room no producer, unless clear() made it: for
\* any producers, consumers and size, and whoever is cancelled.
THEOREM WakeupsKept == Spec => []NoLostWakeup
<1>1. ASSUME QueueInv PROVE NoLostWakeup
  <2>1. /\ queue \in Seq(Producer) /\ Len(queue) \in Nat /\ errors \in Nat
        /\ (~throwable => errors = 0) /\ GettersOwed /\ PuttersOwed
        /\ ppc \in [Producer -> Q!PutPC] /\ cpc \in [Consumer -> Q!GetPC]
    BY <1>1, LenIs, QueueConstants DEF QueueInv, Q!TypeOK, ConsumersRight, ProducersRight
  <2>2. ASSUME getters # <<>>, ~Q!Empty PROVE Q!Woken(cpc, "woken")
    <3>1. Len(queue) + errors > 0
      BY <2>1, <2>2, LenIs DEF Q!Empty
    <3>2. Cardinality(Those(cpc, "woken")) # 0
      BY <2>1, <2>2, <3>1, FS_EmptySet DEF GettersOwed
    <3>3. Those(cpc, "woken") # {}
      BY <3>2, FS_EmptySet
    <3> QED
      BY <3>3 DEF Those, Q!Woken
  <2>3. ASSUME putters # <<>>, ~Q!Full, "putters" \notin cleared PROVE Q!Woken(ppc, "room_woken")
    <3>1. Size - Len(queue) > 0
      BY <2>1, <2>3, QueueConstants DEF Q!Full
    <3>2. Cardinality(Those(ppc, "room_woken")) # 0
      BY <2>1, <2>3, <3>1, QueueConstants DEF PuttersOwed
    <3>3. Those(ppc, "room_woken") # {}
      BY <3>2, FS_EmptySet
    <3> QED
      BY <3>3 DEF Those, Q!Woken
  <2> QED
    BY <2>2, <2>3 DEF NoLostWakeup, Q!NoLostWakeup
<1> QED
  BY QueueInvariant, <1>1, PTL

-----------------------------------------------------------------------------
(* The service thread and its method queues.                               *)

\* Each task and the thread make at most one method queue.
BeforeQueue == {"none", "boot", "starting", "check", "create"}
MadeBound ==
    made <= Cardinality({c \in Caller : callpc[c] \in {"return", "sent"}})
              + (IF tpc \in BeforeQueue THEN 0 ELSE 1)

\* There is a queue where one is used.
HasQueue ==
    /\ tpc = "return" \/ served # 0 \/ (\E c \in Caller : callpc[c] \in {"return", "sent"}) =>
         method_queue # 0
    /\ tpc = "flush" => flushing # 0
    /\ served = 0 => \A w \in QueueWorker : worker[w] = "off"
    /\ tpc \in BeforeQueue \cup {"return"} => served = 0
    /\ method_queue <= made /\ served <= made

\* Where a call can be: on its way to one of the loops, in its own queue, in a worker
\* of the queue that is served, or in the flush of the queue that is stopped.
Puts == {c \in Caller : T!Put(c) \in T!ToSet(to_parent)}
Placed ==
    /\ \A c \in Caller : callpc[c] = "sent" => qid[c] # 0
    /\ \A c \in Caller : c \in T!ToSet(to_thread) \cup Puts => callpc[c] = "sent"
    /\ \A q \in T!Queue : \A c \in T!ToSet(method_queues[q]) : callpc[c] = "sent" /\ qid[c] = q
    /\ \A w \in QueueWorker :
         worker[w] \in Caller => callpc[worker[w]] = "sent" /\ qid[worker[w]] = served
    /\ flushed # None => tpc = "flush" /\ callpc[flushed] = "sent" /\ qid[flushed] = flushing

\* After the flush the queue that is stopped has only late calls, and after its
\* stop no workers, if they are in the thread.
AfterStop == {"shutdown", "finish", "failed", "ended"}
AfterFlush == AfterStop \cup {"stop_workers"}
WorkersOff == served # 0 /\ T!WorkersHere => \A w \in QueueWorker : worker[w] = "off"
Flushed ==
    /\ tpc \in AfterFlush /\ flushing # 0 => T!ToSet(method_queues[flushing]) \subseteq late
    /\ tpc \in AfterStop => WorkersOff

ThreadInv ==
    /\ T!TypeOK
    /\ tpc # "none" => thread_started
    /\ T!StopMeansEnded
    /\ MadeBound /\ HasQueue /\ Placed /\ Flushed
    /\ T!CallKept

Message == {T!Notify, T!Exception, T!Shutdown} \cup {T!Put(c) : c \in Caller}
             \cup {T!Answer(c, h) : c \in Caller, h \in T!How}
ThreadPC == {"none", "boot", "starting", "check", "create", "return", "notify", "serve",
             "crash", "stop", "flush", "stop_workers", "shutdown", "finish", "failed", "ended"}

\* The types, one variable at a time.
Types ==
    /\ wait_for_thread \in BOOLEAN /\ thread_started \in BOOLEAN /\ started \in BOOLEAN
    /\ stopped \in BOOLEAN /\ crashed \in BOOLEAN /\ shutdown \in BOOLEAN
    /\ running \in {"none", "pending", "result", "exception"}
    /\ to_parent \in Seq(Message) /\ to_thread \in Seq(Caller \cup {None})
    /\ busy \in Caller \cup {"start", None}
    /\ startpc \in {"idle", "check", "wait", "returned", "raised"}
    /\ stoppc \in [Stopper -> {"idle", "shutdown", "join", "done", "skipped", "timeout"}]
    /\ tpc \in ThreadPC
    /\ callpc \in [Caller -> {"idle", "create", "return", "sent"}]
    /\ promise \in [Caller -> {"pending", "cancelled"} \cup T!How]
    /\ qid \in [Caller -> T!Queue \cup {0}]
    /\ method_queue \in T!Queue \cup {0} /\ served \in T!Queue \cup {0}
    /\ flushing \in T!Queue \cup {0} /\ made \in T!Queue \cup {0}
    /\ loop \in [T!Queue -> {"parent", "thread"}]
    /\ method_queues \in [T!Queue -> Seq(Caller)]
    /\ worker \in [QueueWorker -> {"off", "wait", "get"} \cup Caller]
    /\ flushed \in Caller \cup {None} /\ late \subseteq Caller

LEMMA TypesAre == T!TypeOK <=> Types
  BY DEF T!TypeOK, Types, Message, ThreadPC, T!SetStopped

LEMMA ThreadConstants ==
    /\ IsFiniteSet(Caller) /\ None \notin Caller
    /\ Caller \cap {"start", "off", "wait", "get"} = {}
    /\ Cardinality(Caller) \in Nat /\ T!Queue = 1..(Cardinality(Caller) + 1)
<1>1. \A X : T!Cardinality(X) = Cardinality(X)
  BY Zenon DEF T!Cardinality, Cardinality
<1> QED
  BY <1>1, ProgramConstants, FS_CardinalityType DEF T!Queue

LEMMA SetAppend ==
    ASSUME NEW A, NEW q \in Seq(A), NEW x \in A
    PROVE  Append(q, x) \in Seq(A) /\ T!ToSet(Append(q, x)) = T!ToSet(q) \cup {x}
<1>1. \A r : T!ToSet(r) = {r[i] : i \in DOMAIN r}
  BY Zenon DEF T!ToSet
<1>2. /\ Append(q, x) \in Seq(A) /\ Len(q) \in Nat
      /\ DOMAIN q = 1..Len(q) /\ DOMAIN Append(q, x) = 1..(Len(q) + 1)
      /\ \A i \in 1..Len(q) : Append(q, x)[i] = q[i]
      /\ Append(q, x)[Len(q) + 1] = x
  BY AppendIs
<1>3. {Append(q, x)[i] : i \in 1..(Len(q) + 1)} = {q[i] : i \in 1..Len(q)} \cup {x}
  <2>1. ASSUME NEW i \in 1..(Len(q) + 1)
        PROVE  Append(q, x)[i] \in {q[k] : k \in 1..Len(q)} \cup {x}
    BY <1>2
  <2>2. ASSUME NEW i \in 1..Len(q)
        PROVE  q[i] \in {Append(q, x)[k] : k \in 1..(Len(q) + 1)}
    <3>1. i \in 1..(Len(q) + 1) /\ Append(q, x)[i] = q[i]
      BY <1>2
    <3> QED
      BY <3>1
  <2>3. x \in {Append(q, x)[k] : k \in 1..(Len(q) + 1)}
    <3>1. Len(q) + 1 \in 1..(Len(q) + 1)
      BY <1>2
    <3> QED
      BY <1>2, <3>1
  <2> QED
    BY <2>1, <2>2, <2>3
<1> QED
  BY <1>1, <1>2, <1>3

LEMMA SetTail ==
    ASSUME NEW A, NEW q \in Seq(A), q # <<>>
    PROVE  /\ Head(q) \in A /\ Tail(q) \in Seq(A)
           /\ T!ToSet(q) = T!ToSet(Tail(q)) \cup {Head(q)}
<1>1. \A r : T!ToSet(r) = {r[i] : i \in DOMAIN r}
  BY Zenon DEF T!ToSet
<1>2. /\ Head(q) \in A /\ Head(q) = q[1] /\ Tail(q) \in Seq(A)
      /\ Len(q) \in Nat \ {0} /\ DOMAIN q = 1..Len(q)
      /\ DOMAIN Tail(q) = 1..(Len(q) - 1)
      /\ \A i \in 1..(Len(q) - 1) : Tail(q)[i] = q[i + 1]
  BY HeadTailProperties, LenProperties, EmptySeq
<1>3. {q[i] : i \in 1..Len(q)} = {Tail(q)[i] : i \in 1..(Len(q) - 1)} \cup {q[1]}
  <2>1. ASSUME NEW i \in 1..Len(q)
        PROVE  q[i] \in {Tail(q)[k] : k \in 1..(Len(q) - 1)} \cup {q[1]}
    <3>1. CASE i # 1
      <4>1. i - 1 \in 1..(Len(q) - 1) /\ Tail(q)[i - 1] = q[i]
        BY <1>2, <3>1
      <4> QED
        BY <4>1
    <3> QED
      BY <3>1
  <2>2. ASSUME NEW i \in 1..(Len(q) - 1)
        PROVE  Tail(q)[i] \in {q[k] : k \in 1..Len(q)}
    <3>1. i + 1 \in 1..Len(q) /\ Tail(q)[i] = q[i + 1]
      BY <1>2
    <3> QED
      BY <3>1
  <2>3. 1 \in 1..Len(q)
    BY <1>2
  <2> QED
    BY <2>1, <2>2, <2>3
<1> QED
  BY <1>1, <1>2, <1>3

-----------------------------------------------------------------------------
(* Queue numbers.                                                          *)

LEMMA MoreQueues ==
    ASSUME Types, MadeBound, tpc = "create" \/ \E c \in Caller : callpc[c] = "create"
    PROVE  made + 1 \in T!Queue
<1> DEFINE past == {c \in Caller : callpc[c] \in {"return", "sent"}}
           n == Cardinality(Caller)
<1>1. /\ IsFiniteSet(Caller) /\ n \in Nat /\ T!Queue = 1..(n + 1)
      /\ made \in 0..(n + 1) /\ made <= Cardinality(past) + (IF tpc \in BeforeQueue THEN 0 ELSE 1)
  BY ThreadConstants DEF Types, MadeBound
<1>2. Cardinality(past) \in Nat /\ Cardinality(past) <= n
  BY <1>1, FS_Subset, FS_CardinalityType
<1>3. CASE tpc = "create"
  BY <1>1, <1>2, <1>3 DEF BeforeQueue
<1>4. CASE \E c \in Caller : callpc[c] = "create"
  <2>1. PICK c \in Caller : callpc[c] = "create"
    BY <1>4
  <2>2. IsFiniteSet(Caller \ {c}) /\ Cardinality(Caller \ {c}) = n - 1
    BY <1>1, FS_RemoveElement
  <2>3. past \subseteq Caller \ {c}
    BY <2>1
  <2>4. Cardinality(past) <= n - 1
    BY <2>2, <2>3, FS_Subset
  <2> QED
    BY <1>1, <1>2, <2>4
<1> QED
  BY <1>3, <1>4

\* One more task is past the point where it may make a queue.
LEMMA MorePast ==
    ASSUME Types, NEW c \in Caller, callpc[c] \notin {"return", "sent"},
           callpc'[c] \in {"return", "sent"}, \A d \in Caller \ {c} : callpc'[d] = callpc[d]
    PROVE  /\ Cardinality({d \in Caller : callpc[d] \in {"return", "sent"}}) \in Nat
           /\ Cardinality({d \in Caller : callpc'[d] \in {"return", "sent"}}) =
                Cardinality({d \in Caller : callpc[d] \in {"return", "sent"}}) + 1
<1> DEFINE old == {d \in Caller : callpc[d] \in {"return", "sent"}}
           new == {d \in Caller : callpc'[d] \in {"return", "sent"}}
<1>1. IsFiniteSet(old) /\ Cardinality(old) \in Nat
  BY ThreadConstants, FS_Subset, FS_CardinalityType
<1>2. new = old \cup {c} /\ c \notin old
  OBVIOUS
<1> QED
  BY <1>1, <1>2, FS_AddElement

-----------------------------------------------------------------------------
(* Types.                                                                  *)

LEMMA SentTyped ==
    ASSUME Types, NEW x \in Caller \cup {None}
    PROVE  /\ Append(to_thread, x) \in Seq(Caller \cup {None})
           /\ T!ToSet(Append(to_thread, x)) = T!ToSet(to_thread) \cup {x}
<1>1. PICK A : A = Caller \cup {None}
  OBVIOUS
<1>2. to_thread \in Seq(A) /\ x \in A
  BY <1>1 DEF Types
<1>3. Append(to_thread, x) \in Seq(A) /\ T!ToSet(Append(to_thread, x)) = T!ToSet(to_thread) \cup {x}
  BY <1>2, SetAppend
<1> QED
  BY <1>1, <1>3

LEMMA ToldTyped ==
    ASSUME Types, NEW m \in Message
    PROVE  /\ Append(to_parent, m) \in Seq(Message)
           /\ T!ToSet(Append(to_parent, m)) = T!ToSet(to_parent) \cup {m}
  BY SetAppend DEF Types

\* A call is taken from a queue.
LEMMA Taken ==
    ASSUME Types, NEW q \in T!Queue, method_queues[q] # <<>>, T!TakeCall(q)
    PROVE  /\ Head(method_queues[q]) \in Caller
           /\ method_queues' \in [T!Queue -> Seq(Caller)]
           /\ T!ToSet(method_queues[q]) =
                T!ToSet(method_queues'[q]) \cup {Head(method_queues[q])}
           /\ \A p \in T!Queue \ {q} : method_queues'[p] = method_queues[p]
<1>1. method_queues \in [T!Queue -> Seq(Caller)] /\ method_queues[q] \in Seq(Caller)
  BY DEF Types
<1>2. method_queues' = [method_queues EXCEPT ![q] = Tail(method_queues[q])]
  BY DEF T!TakeCall
<1>3. /\ Head(method_queues[q]) \in Caller /\ Tail(method_queues[q]) \in Seq(Caller)
      /\ T!ToSet(method_queues[q]) =
           T!ToSet(Tail(method_queues[q])) \cup {Head(method_queues[q])}
  BY <1>1, SetTail
<1>4. method_queues'[q] = Tail(method_queues[q])
      /\ \A p \in T!Queue \ {q} : method_queues'[p] = method_queues[p]
  BY <1>1, <1>2
<1>5. method_queues' \in [T!Queue -> Seq(Caller)]
  BY <1>1, <1>2, <1>3
<1> QED
  BY <1>3, <1>4, <1>5

LEMMA Told ==
    ASSUME Types, NEW m \in Message, to_parent' = Append(to_parent, m)
    PROVE  T!ToSet(to_parent') = T!ToSet(to_parent) \cup {m}
  BY ToldTyped

\* A message that puts no call.
LEMMA ToldPuts ==
    ASSUME Types, NEW m \in Message, to_parent' = Append(to_parent, m), m[1] # "put"
    PROVE  T!ToSet(to_parent) \subseteq T!ToSet(to_parent') /\ Puts' = Puts
<1>1. T!ToSet(to_parent') = T!ToSet(to_parent) \cup {m}
  BY Told
<1>2. \A c \in Caller : T!Put(c) # m
  BY DEF T!Put
<1>3. Puts' = {c \in Caller : T!Put(c) \in T!ToSet(to_parent')}
  BY Zenon DEF Puts, T!Put
<1> QED
  BY <1>1, <1>2, <1>3 DEF Puts

LEMMA Messages ==
    /\ T!Notify \in Message /\ T!Notify[1] = "notify"
    /\ T!Exception \in Message /\ T!Exception[1] = "exception"
    /\ T!Shutdown \in Message /\ T!Shutdown[1] = "shutdown"
    /\ \A c \in Caller : T!Put(c) \in Message /\ T!Put(c)[1] = "put" /\ T!Put(c)[2] = c
    /\ \A c \in Caller, h \in T!How : /\ T!Answer(c, h) \in Message /\ T!Answer(c, h)[1] = h
                                     /\ T!Answer(c, h)[2] = c /\ h # "put"
    /\ \A m \in Message : m[1] = "put" => m[2] \in Caller /\ m = T!Put(m[2])
<1> USE DEF T!Notify, T!Exception, T!Shutdown, T!Put, T!Answer, T!How
<1>1. \A m \in Message : m[1] = "put" => m[2] \in Caller /\ m = T!Put(m[2])
  BY DEF Message
<1> QED
  BY <1>1 DEF Message

LEMMA FinishTyped ==
    ASSUME Types, NEW c \in Caller, T!Finish(c)
    PROVE  /\ to_parent' \in Seq(Message) /\ T!ToSet(to_parent) \subseteq T!ToSet(to_parent')
           /\ Puts' = Puts
<1>1. CASE to_parent' = to_parent
  BY <1>1 DEF Types, Puts
<1>2. ASSUME NEW h \in T!How, to_parent' = Append(to_parent, T!Answer(c, h))
      PROVE  /\ to_parent' \in Seq(Message) /\ T!ToSet(to_parent) \subseteq T!ToSet(to_parent')
             /\ Puts' = Puts
  <2>1. T!Answer(c, h) \in Message /\ T!Answer(c, h)[1] # "put"
    BY Messages
  <2> QED
    BY <1>2, <2>1, ToldTyped, ToldPuts
<1> QED
  BY <1>1, <1>2 DEF T!Finish, T!ToParent

\* A call is sent to the loop of its queue.
LEMMA Sent ==
    ASSUME Types, NEW c \in Caller, T!Send(c)
    PROVE  /\ to_thread' \in Seq(Caller \cup {None}) /\ to_parent' \in Seq(Message)
           /\ qid' = [qid EXCEPT ![c] = method_queue]
           /\ T!ToSet(to_thread) \subseteq T!ToSet(to_thread')
           /\ T!ToSet(to_thread') \subseteq T!ToSet(to_thread) \cup {c}
           /\ T!ToSet(to_parent) \subseteq T!ToSet(to_parent')
           /\ Puts \subseteq Puts' /\ Puts' \subseteq Puts \cup {c}
           /\ c \in T!ToSet(to_thread') \cup Puts'
<1>0. Puts' = {d \in Caller : T!Put(d) \in T!ToSet(to_parent')}
  BY Zenon DEF Puts, T!Put
<1>1. CASE to_thread' = Append(to_thread, c) /\ UNCHANGED to_parent
  <2>1. Puts' = Puts
    BY <1>0, <1>1 DEF Puts
  <2> QED
    BY <1>1, <2>1, SentTyped DEF Types, T!Send
<1>2. CASE to_parent' = Append(to_parent, T!Put(c)) /\ UNCHANGED to_thread
  <2>1. T!Put(c) \in Message
    BY Messages
  <2>2. /\ to_parent' \in Seq(Message)
        /\ T!ToSet(to_parent') = T!ToSet(to_parent) \cup {T!Put(c)}
    BY <1>2, <2>1, ToldTyped
  <2>3. \A d \in Caller : T!Put(d) = T!Put(c) => d = c
    BY DEF T!Put
  <2>4. Puts' = Puts \cup {c}
    BY <1>0, <2>2, <2>3 DEF Puts
  <2> QED
    BY <1>2, <2>2, <2>4 DEF Types, T!Send
<1> QED
  BY <1>1, <1>2 DEF T!Send, T!ToParent

\* A call is put into its queue.
LEMMA PutIs ==
    ASSUME Types, NEW c \in Caller, qid[c] \in T!Queue, T!QueuePut(c)
    PROVE  /\ method_queues' \in [T!Queue -> Seq(Caller)] /\ late' \subseteq Caller
           /\ \A q \in T!Queue \ {qid[c]} : method_queues'[q] = method_queues[q]
           /\ T!ToSet(method_queues'[qid[c]]) = T!ToSet(method_queues[qid[c]]) \cup {c}
           /\ late' = IF tpc \in AfterFlush THEN late \cup {c} ELSE late
<1>1. /\ method_queues \in [T!Queue -> Seq(Caller)] /\ method_queues[qid[c]] \in Seq(Caller)
      /\ late \subseteq Caller
  BY DEF Types
<1>2. /\ Append(method_queues[qid[c]], c) \in Seq(Caller)
      /\ T!ToSet(Append(method_queues[qid[c]], c)) = T!ToSet(method_queues[qid[c]]) \cup {c}
  BY <1>1, SetAppend
<1>3. method_queues' = [method_queues EXCEPT ![qid[c]] = Append(method_queues[qid[c]], c)]
  BY DEF T!QueuePut
<1>4. /\ method_queues'[qid[c]] = Append(method_queues[qid[c]], c)
      /\ \A q \in T!Queue \ {qid[c]} : method_queues'[q] = method_queues[q]
      /\ method_queues' \in [T!Queue -> Seq(Caller)]
  BY <1>1, <1>2, <1>3
<1>5. late' = IF tpc \in AfterFlush THEN late \cup {c} ELSE late
  BY DEF T!QueuePut, AfterFlush, AfterStop
<1> QED
  BY <1>1, <1>2, <1>4, <1>5

\* What a callback of the parent loop takes, and what it puts.
LEMMA ParentTakes ==
    ASSUME Types, Placed, T!ParentCallback
    PROVE  /\ Head(to_parent) \in Message /\ to_parent' = Tail(to_parent)
           /\ to_parent' \in Seq(Message)
           /\ T!ToSet(to_parent) = T!ToSet(to_parent') \cup {Head(to_parent)}
           /\ \/ /\ UNCHANGED <<method_queues, late>> /\ Puts' = Puts
                 /\ Head(to_parent)[1] # "put"
              \/ \E c \in Caller : /\ Head(to_parent) = T!Put(c) /\ Puts \subseteq Puts' \cup {c}
                                    /\ Puts' \subseteq Puts
                                    /\ c \in Puts /\ qid[c] \in T!Queue /\ T!QueuePut(c)
<1> DEFINE m == Head(to_parent)
<1>1. /\ m \in Message /\ to_parent' = Tail(to_parent) /\ Tail(to_parent) \in Seq(Message)
      /\ T!ToSet(to_parent) = T!ToSet(to_parent') \cup {m}
  BY SetTail DEF Types, T!ParentCallback
<1>2. Puts' = {d \in Caller : T!Put(d) \in T!ToSet(to_parent')}
  BY Zenon DEF Puts, T!Put
<1>3. CASE m[1] # "put"
  <2>1. \A d \in Caller : T!Put(d) # m
    BY <1>3 DEF T!Put
  <2>2. Puts' = Puts
    BY <1>1, <1>2, <2>1 DEF Puts
  <2>3. UNCHANGED <<method_queues, late>>
    BY <1>3 DEF T!ParentCallback
  <2> QED
    BY <1>1, <1>3, <2>2, <2>3
<1>4. CASE m[1] = "put"
  <2>1. PICK c \in Caller : c = m[2] /\ m = T!Put(c)
    BY <1>1, <1>4, Messages
  <2>2. T!QueuePut(c)
    BY <1>4, <2>1 DEF T!ParentCallback
  <2>3. c \in Puts
    BY <1>1, <2>1 DEF Puts
  <2>4. qid[c] \in T!Queue
    BY <2>3 DEF Placed, Types
  <2>5. \A d \in Caller : d # c => T!Put(d) # m
    BY <2>1 DEF T!Put
  <2>6. Puts \subseteq Puts' \cup {c} /\ Puts' \subseteq Puts
    BY <1>1, <1>2, <2>5 DEF Puts
  <2> QED
    BY <1>1, <2>1, <2>2, <2>3, <2>4, <2>6
<1> QED
  BY <1>3, <1>4

\* Both find the last call: one takes it.
LEMMA TwiceIs ==
    ASSUME Types, HasQueue, NEW w \in QueueWorker, T!TakenTwice(w)
    PROVE  /\ served \in T!Queue /\ loop[served] = "parent" /\ flushing = served
           /\ tpc = "flush" /\ flushed = None /\ worker[w] = "get"
           /\ method_queues[served] # <<>> /\ T!TakeCall(served)
           /\ \A x \in QueueWorker \ {w} : worker'[x] = worker[x]
           /\ \/ /\ flushed' = Head(method_queues[served]) /\ worker'[w] = "off"
                 /\ tpc' = "flush"
              \/ /\ flushed' = None /\ worker'[w] = Head(method_queues[served])
                 /\ tpc' = "failed" /\ T!ToSet(method_queues'[served]) = {}
           /\ worker' \in [QueueWorker -> {"off", "wait", "get"} \cup Caller]
           /\ UNCHANGED <<wait_for_thread, thread_started, started, stopped, shutdown, running,
                          to_parent, to_thread, busy, startpc, stoppc, callpc, qid, promise,
                          method_queue, made, loop, served, flushing, late>>
<1>1. /\ tpc = "flush" /\ flushed = None /\ worker[w] = "get" /\ flushing = served
      /\ loop[served] = "parent" /\ Len(method_queues[served]) = 1 /\ T!TakeCall(served)
      /\ UNCHANGED <<wait_for_thread, thread_started, started, stopped, shutdown, running,
                     to_parent, to_thread, busy, startpc, stoppc, callpc, qid, promise,
                     method_queue, made, loop, served, flushing, late>>
  BY DEF T!TakenTwice, T!parent, T!calls, T!mq
<1>2. served \in T!Queue
  BY <1>1 DEF HasQueue, Types
<1> DEFINE q == method_queues[served]
<1>3. q \in Seq(Caller) /\ q # <<>>
  <2>1. q \in Seq(Caller) /\ Len(q) = 1
    BY <1>1, <1>2 DEF Types
  <2>2. q = <<>> => Len(q) = 0
    OBVIOUS
  <2> QED
    BY <2>1, <2>2
<1>4. Head(q) = q[1] /\ q[1] \in Caller /\ Tail(q) = <<>>
  <2>1. Head(q) = q[1] /\ q[1] \in Caller /\ Tail(q) \in Seq(Caller) /\ Len(Tail(q)) = 0
    BY <1>1, <1>3, HeadTailProperties, LenProperties, ElementOfSeq
  <2> QED
    BY <2>1, EmptySeq
<1>5. method_queues'[served] = Tail(q)
  BY <1>1, <1>2 DEF T!TakeCall, Types
<1>6. T!ToSet(method_queues'[served]) = {}
  BY <1>4, <1>5 DEF T!ToSet
<1>7. worker \in [QueueWorker -> {"off", "wait", "get"} \cup Caller]
  BY DEF Types
<1>8. \/ /\ flushed' = q[1] /\ worker' = [worker EXCEPT ![w] = "off"] /\ tpc' = tpc
      \/ /\ flushed' = flushed /\ worker' = [worker EXCEPT ![w] = q[1]] /\ tpc' = "failed"
  BY DEF T!TakenTwice
<1>9. /\ \A x \in QueueWorker \ {w} : worker'[x] = worker[x]
      /\ \/ flushed' = q[1] /\ worker'[w] = "off" /\ tpc' = "flush"
         \/ flushed' = None /\ worker'[w] = q[1] /\ tpc' = "failed"
      /\ worker' \in [QueueWorker -> {"off", "wait", "get"} \cup Caller]
  BY <1>1, <1>4, <1>7, <1>8
<1> QED
  BY <1>1, <1>2, <1>3, <1>4, <1>6, <1>9

LEMMA ThreadTyped ==
    ASSUME ThreadInv, T!Next
    PROVE  Types'
<1>0. Types /\ MadeBound /\ HasQueue /\ Placed
  BY TypesAre DEF ThreadInv
<1> USE DEF T!flags, T!parent, T!calls, T!mq, T!work, ThreadPC
<1>1. CASE T!ThreadBoots
  BY <1>0, <1>1 DEF Types, T!ThreadBoots, T!ThreadGoto
<1>2. CASE T!ThreadStarted
  <2>1. T!NewQueue("thread") /\ tpc = "create" =>
          /\ made' \in T!Queue /\ method_queue' \in T!Queue
          /\ loop' \in [T!Queue -> {"parent", "thread"}]
    BY <1>0, MoreQueues DEF T!NewQueue, Types
  <2> QED
    BY <1>0, <1>2, <2>1 DEF Types, T!ThreadStarted, T!ThreadGoto
<1>3. CASE T!QueueStarts
  BY <1>0, <1>3 DEF Types, T!QueueStarts, T!ThreadGoto
<1>4. CASE T!ThreadNotifies
  <2>1. T!Notify \in Message
    BY Messages
  <2> QED
    BY <1>0, <1>4, <2>1, ToldTyped DEF Types, T!ThreadNotifies, T!ToParent, T!ThreadGoto
<1>5. CASE T!ThreadCrashes
  <2>1. T!Exception \in Message
    BY Messages
  <2> QED
    BY <1>0, <1>5, <2>1, ToldTyped DEF Types, T!ThreadCrashes, T!ToParent, T!ThreadGoto
<1>6. CASE T!ServeEnds
  BY <1>0, <1>6 DEF Types, T!ServeEnds, T!ThreadGoto
<1>7. CASE T!StopQueue
  BY <1>0, <1>7 DEF Types, T!StopQueue, T!ThreadGoto
<1>8. CASE T!Flush
  <2>1. CASE flushed = None /\ method_queues[flushing] # <<>>
    <3>1. /\ flushing \in T!Queue /\ T!TakeCall(flushing)
          /\ flushed' = Head(method_queues[flushing]) /\ UNCHANGED <<tpc, to_parent>>
      BY <1>0, <1>8, <2>1 DEF T!Flush, HasQueue, Types
    <3>2. Head(method_queues[flushing]) \in Caller /\ method_queues' \in [T!Queue -> Seq(Caller)]
      BY <1>0, <2>1, <3>1, Taken
    <3> QED
      BY <1>0, <1>8, <3>1, <3>2 DEF Types, T!Flush
  <2>2. CASE flushed # None
    <3>1. T!Finish(flushed) /\ flushed \in Caller /\ flushed' = None
          /\ UNCHANGED <<tpc, method_queues>>
      BY <1>0, <1>8, <2>2 DEF T!Flush, Types
    <3>2. to_parent' \in Seq(Message)
      BY <1>0, <3>1, FinishTyped
    <3> QED
      BY <1>0, <1>8, <3>1, <3>2 DEF Types, T!Flush
  <2>3. CASE flushed = None /\ method_queues[flushing] = <<>>
    BY <1>0, <1>8, <2>3 DEF Types, T!Flush
  <2> QED
    BY <2>1, <2>2, <2>3
<1>9. CASE T!QueueStopped
  BY <1>0, <1>9 DEF Types, T!QueueStopped, T!ThreadGoto
<1>10. CASE T!ThreadShutsDown
  <2>1. T!Shutdown \in Message
    BY Messages
  <2>2. /\ tpc' \in ThreadPC
        /\ to_parent' \in {to_parent, Append(to_parent, T!Shutdown)}
        /\ UNCHANGED <<wait_for_thread, thread_started, started, stopped, crashed, shutdown,
                       running, to_thread, busy, startpc, stoppc, callpc, qid, promise,
                       method_queue, made, loop, method_queues, served, flushing, worker, flushed,
                       late>>
    BY <1>10 DEF T!ThreadShutsDown, T!ToParent, T!ThreadGoto
  <2>3. to_parent' \in Seq(Message)
    BY <1>0, <2>1, <2>2, ToldTyped DEF Types
  <2> QED
    BY <1>0, <2>2, <2>3 DEF Types
<1>11. ASSUME NEW w \in QueueWorker, T!StopWorker(w) PROVE Types'
  <2>1. worker[w] \in Caller => T!Answer(worker[w], "error") \in Message
    BY Messages DEF T!How
  <2>2. to_parent' \in Seq(Message)
    <3>1. CASE worker[w] \in Caller /\ promise[worker[w]] # "cancelled"
      <4>1. to_parent' = Append(to_parent, T!Answer(worker[w], "error"))
        BY <1>11, <3>1 DEF T!StopWorker, T!ToParent
      <4> QED
        BY <1>0, <2>1, <3>1, <4>1, ToldTyped
    <3>2. CASE ~(worker[w] \in Caller /\ promise[worker[w]] # "cancelled")
      BY <1>0, <1>11, <3>2 DEF Types, T!StopWorker
    <3> QED
      BY <3>1, <3>2
  <2>3. worker' \in [QueueWorker -> {"off", "wait", "get"} \cup Caller]
    BY <1>0, <1>11 DEF Types, T!StopWorker
  <2>4. UNCHANGED <<wait_for_thread, thread_started, started, stopped, crashed, shutdown, running,
                    to_thread, busy, startpc, stoppc, tpc, callpc, qid, promise, method_queue,
                    made, loop, method_queues, served, flushing, flushed, late>>
    BY <1>11 DEF T!StopWorker
  <2> QED
    BY <1>0, <2>2, <2>3, <2>4 DEF Types
<1>12. CASE T!StartCheck
  BY <1>0, <1>12 DEF Types, T!StartCheck, T!ThreadGoto
<1>13. CASE T!StartReturns
  BY <1>0, <1>13 DEF Types, T!StartReturns, T!ThreadGoto
<1>14. ASSUME NEW s \in Stopper, T!StopGoesOn(s) PROVE Types'
  <2>1. stoppc' \in [Stopper -> {"idle", "shutdown", "join", "done", "skipped", "timeout"}]
    BY <1>0, <1>14 DEF Types, T!StopGoesOn
  <2>2. UNCHANGED <<wait_for_thread, thread_started, started, stopped, crashed, shutdown, running,
                    to_parent, to_thread, busy, startpc, tpc, callpc, qid, promise, method_queue,
                    made, loop, method_queues, served, flushing, worker, flushed, late>>
    BY <1>14 DEF T!StopGoesOn
  <2> QED
    BY <1>0, <2>1, <2>2 DEF Types
<1>15. ASSUME NEW c \in Caller, T!CallGoesOn(c) PROVE Types'
  <2>1. T!NewQueue("parent") /\ callpc[c] = "create" =>
          /\ made' \in T!Queue /\ method_queue' \in T!Queue
          /\ loop' \in [T!Queue -> {"parent", "thread"}]
    BY <1>0, MoreQueues DEF T!NewQueue, Types
  <2>2. UNCHANGED <<wait_for_thread, thread_started, started, stopped, crashed, shutdown, running,
                    startpc, stoppc, tpc, promise, method_queues, served, flushing,
                    worker, flushed, late>>
    BY <1>15 DEF T!CallGoesOn
  <2>3. CASE callpc[c] = "create"
    <3>1. /\ callpc' = [callpc EXCEPT ![c] = "return"] /\ T!NewQueue("parent")
          /\ UNCHANGED <<qid, to_parent, to_thread, busy>>
      BY <1>15, <2>3 DEF T!CallGoesOn
    <3> QED
      BY <1>0, <2>1, <2>2, <2>3, <3>1 DEF Types
  <2>4. CASE callpc[c] = "return"
    <3>1. /\ callpc' = [callpc EXCEPT ![c] = "sent"] /\ busy' = None
          /\ T!Send(c) /\ UNCHANGED <<method_queue, made, loop>>
      BY <1>15, <2>4 DEF T!CallGoesOn
    <3>2. /\ to_thread' \in Seq(Caller \cup {None}) /\ to_parent' \in Seq(Message)
          /\ qid' = [qid EXCEPT ![c] = method_queue]
      BY <1>0, <3>1, Sent
    <3> QED
      BY <1>0, <2>2, <3>1, <3>2 DEF Types
  <2> QED
    BY <1>15, <2>3, <2>4 DEF T!CallGoesOn
<1>16. CASE T!ParentCallback
  <2> DEFINE m == Head(to_parent)
  <2>1. m \in Message /\ to_parent' \in Seq(Message)
    BY <1>0, <1>16, ParentTakes
  <2>2. running' \in {"none", "pending", "result", "exception"}
    <3>1. running' = (CASE m = T!Notify /\ running = "pending" -> "result"
                        [] m = T!Exception /\ running = "pending" -> "exception"
                        [] OTHER -> running)
      BY <1>16 DEF T!ParentCallback
    <3>2. running' \in {"result", "exception", running}
      BY <3>1, Zenon
    <3> QED
      BY <1>0, <3>2 DEF Types
  <2>3. promise' \in [Caller -> {"pending", "cancelled"} \cup T!How]
    <3>1. promise' = IF m[1] \in T!How /\ promise[m[2]] = "pending"
                       THEN [promise EXCEPT ![m[2]] = m[1]] ELSE promise
      BY <1>16 DEF T!ParentCallback
    <3> QED
      BY <1>0, <3>1 DEF Types
  <2>4. shutdown' \in BOOLEAN
    BY <1>0, <1>16 DEF Types, T!ParentCallback
  <2>5. UNCHANGED <<wait_for_thread, thread_started, started, stopped, crashed, to_thread, busy,
                    startpc, stoppc, tpc, callpc, qid, method_queue, made, loop, served,
                    flushing, worker, flushed>>
    BY <1>16 DEF T!ParentCallback
  <2>6. method_queues' \in [T!Queue -> Seq(Caller)] /\ late' \subseteq Caller
    <3>1. CASE UNCHANGED <<method_queues, late>>
      BY <1>0, <3>1 DEF Types
    <3>2. ASSUME NEW c \in Caller, qid[c] \in T!Queue, T!QueuePut(c)
          PROVE  method_queues' \in [T!Queue -> Seq(Caller)] /\ late' \subseteq Caller
      BY <1>0, <3>2, PutIs
    <3> QED
      BY <1>0, <1>16, <3>1, <3>2, ParentTakes
  <2> QED
    BY <1>0, <2>1, <2>2, <2>3, <2>4, <2>5, <2>6 DEF Types
<1>17. CASE T!ThreadCallback
  <2> DEFINE m == Head(to_thread)
  <2>1. m \in Caller \cup {None} /\ Tail(to_thread) \in Seq(Caller \cup {None})
        /\ m \in T!ToSet(to_thread)
    BY <1>0, <1>17, SetTail DEF Types, T!ThreadCallback
  <2>2. method_queues' \in [T!Queue -> Seq(Caller)] /\ late' \subseteq Caller
        /\ stopped' \in BOOLEAN /\ to_thread' = Tail(to_thread)
    <3>1. CASE m = None
      BY <1>0, <1>17, <3>1 DEF Types, T!ThreadCallback, T!SetStopped
    <3>2. CASE m # None
      <4>1. m \in Caller /\ qid[m] \in T!Queue
        BY <1>0, <2>1, <3>2 DEF Types, Placed
      <4>2. T!QueuePut(m) /\ stopped' = stopped /\ to_thread' = Tail(to_thread)
        BY <1>17, <3>2 DEF T!ThreadCallback, T!SetStopped
      <4>3. method_queues' \in [T!Queue -> Seq(Caller)] /\ late' \subseteq Caller
        BY <1>0, <4>1, <4>2, PutIs
      <4> QED
        BY <1>0, <4>2, <4>3 DEF Types
    <3> QED
      BY <3>1, <3>2
  <2>3. UNCHANGED <<wait_for_thread, thread_started, started, crashed, shutdown, running,
                    to_parent, busy, startpc, stoppc, tpc, callpc, qid, promise, method_queue,
                    made, loop, served, flushing, worker, flushed>>
    BY <1>17 DEF T!ThreadCallback
  <2> QED
    BY <1>0, <2>1, <2>2, <2>3 DEF Types
<1>18. ASSUME NEW w \in QueueWorker, T!WorkerStep(w) PROVE Types'
  <2>1. CASE worker[w] = "wait"
    <3>1. worker' = [worker EXCEPT ![w] = IF T!QueueStops THEN "off" ELSE "get"]
          /\ UNCHANGED <<method_queues, to_parent>>
      BY <1>18, <2>1, ThreadConstants DEF T!WorkerStep
    <3>2. worker' \in [QueueWorker -> {"off", "wait", "get"} \cup Caller]
      BY <1>0, <3>1 DEF Types
    <3> QED
      BY <1>0, <1>18, <3>1, <3>2 DEF Types, T!WorkerStep
  <2>2. CASE worker[w] = "get"
    <3>1. /\ served \in T!Queue /\ method_queues[served] # <<>> /\ T!TakeCall(served)
          /\ worker' = [worker EXCEPT ![w] = Head(method_queues[served])]
          /\ UNCHANGED to_parent
      BY <1>0, <1>18, <2>2, ThreadConstants DEF T!WorkerStep, HasQueue, Types
    <3>2. Head(method_queues[served]) \in Caller /\ method_queues' \in [T!Queue -> Seq(Caller)]
      BY <1>0, <3>1, Taken
    <3> QED
      BY <1>0, <1>18, <3>1, <3>2 DEF Types, T!WorkerStep
  <2>3. CASE worker[w] \in Caller
    <3>1. /\ T!Finish(worker[w]) /\ UNCHANGED method_queues
          /\ worker' = [worker EXCEPT ![w] = IF T!QueueStops THEN "off" ELSE "get"]
      BY <1>18, <2>3, ThreadConstants DEF T!WorkerStep
    <3>2. to_parent' \in Seq(Message)
      BY <1>0, <2>3, <3>1, FinishTyped
    <3> QED
      BY <1>0, <1>18, <3>1, <3>2 DEF Types, T!WorkerStep
  <2> QED
    BY <1>18, <2>1, <2>2, <2>3 DEF T!WorkerStep
<1>19. CASE T!Start
  BY <1>0, <1>19 DEF Types, T!Start, T!ThreadGoto
<1>20. CASE T!HookRaises
  BY <1>0, <1>20 DEF Types, T!HookRaises, T!ThreadGoto
<1>21. CASE T!CrashedFromOutside
  BY <1>0, <1>21 DEF Types, T!CrashedFromOutside, T!ThreadGoto
<1>22. ASSUME NEW s \in Stopper, T!Stop(s) PROVE Types'
  <2>1. stoppc'[s] \in {"skipped", "join", "shutdown"}
        /\ \A r \in Stopper \ {s} : stoppc'[r] = stoppc[r]
        /\ stoppc' \in [Stopper -> {"idle", "shutdown", "join", "done", "skipped", "timeout"}]
    <3>1. (CASE ~started -> "skipped" [] started /\ stopped -> "join" [] OTHER -> "shutdown")
            \in {"skipped", "join", "shutdown"}
      BY Zenon
    <3> QED
      BY <1>0, <1>22, <3>1 DEF Types, T!Stop
  <2>2. to_thread' \in Seq(Caller \cup {None})
    BY <1>0, <1>22, SentTyped DEF Types, T!Stop, T!SetStopped
  <2> QED
    BY <1>0, <1>22, <2>1, <2>2 DEF Types, T!Stop
<1>23. ASSUME NEW s \in Stopper, T!StopTimesOut(s) PROVE Types'
  BY <1>0, <1>23 DEF Types, T!StopTimesOut, T!ThreadGoto
<1>24. ASSUME NEW c \in Caller, T!CallThread(c) PROVE Types'
  <2>1. UNCHANGED <<wait_for_thread, thread_started, started, stopped, crashed, shutdown, running,
                    startpc, stoppc, tpc, promise, method_queue, made, loop, method_queues,
                    served, flushing, worker, flushed, late>>
    BY <1>24 DEF T!CallThread
  <2>2. CASE method_queue = 0
    <3>1. /\ callpc' = [callpc EXCEPT ![c] = "create"] /\ busy' = c
          /\ UNCHANGED <<qid, to_parent, to_thread>>
      BY <1>24, <2>2 DEF T!CallThread
    <3> QED
      BY <1>0, <2>1, <3>1 DEF Types
  <2>3. CASE method_queue # 0
    <3>1. /\ callpc' = [callpc EXCEPT ![c] = "sent"] /\ UNCHANGED busy
          /\ T!Send(c)
      BY <1>24, <2>3 DEF T!CallThread
    <3>2. /\ to_thread' \in Seq(Caller \cup {None}) /\ to_parent' \in Seq(Message)
          /\ qid' = [qid EXCEPT ![c] = method_queue]
      BY <1>0, <3>1, Sent
    <3> QED
      BY <1>0, <2>1, <3>1, <3>2 DEF Types
  <2> QED
    BY <2>2, <2>3
<1>25. ASSUME NEW c \in Caller, T!CallCancelled(c) PROVE Types'
  BY <1>0, <1>25 DEF Types, T!CallCancelled, T!ThreadGoto
<1>26. ASSUME NEW w \in QueueWorker, T!TakenTwice(w) PROVE Types'
  <2>1. crashed' \in BOOLEAN
    BY <1>0, <1>26 DEF T!TakenTwice, Types
  <2>2. Head(method_queues[served]) \in Caller /\ method_queues' \in [T!Queue -> Seq(Caller)]
    BY <1>0, <1>26, TwiceIs, Taken
  <2>3. tpc' \in ThreadPC /\ flushed' \in Caller \cup {None}
    BY <1>0, <1>26, <2>2, TwiceIs
  <2> QED
    BY <1>0, <1>26, <2>1, <2>2, <2>3, TwiceIs DEF Types
<1> QED
  BY <1>1, <1>2, <1>3, <1>4, <1>5, <1>6, <1>7, <1>8, <1>9, <1>10, <1>11, <1>12, <1>13, <1>14, <1>15, <1>16, <1>17, <1>18, <1>19, <1>20, <1>21, <1>22, <1>23, <1>24, <1>25, <1>26
     DEF T!Next, T!ThreadStep, T!ParentStep

-----------------------------------------------------------------------------
(* The thread and who stops it.                                            *)

LEMMA ThreadEnds ==
    ASSUME ThreadInv, T!Next
    PROVE  (tpc' # "none" => thread_started') /\ T!StopMeansEnded'
<1> USE DEF T!flags, T!parent, T!StopMeansEnded, T!ThreadGoto
<1>0. /\ stoppc \in [Stopper -> {"idle", "shutdown", "join", "done", "skipped", "timeout"}]
      /\ thread_started \in BOOLEAN
      /\ (tpc # "none" => thread_started) /\ T!StopMeansEnded
  BY TypesAre DEF ThreadInv, Types
<1> DEFINE Goal == (tpc' # "none" => thread_started') /\ T!StopMeansEnded'
<1>1. CASE T!ThreadBoots
  BY <1>0, <1>1 DEF T!ThreadBoots
<1>2. CASE T!ThreadStarted
  BY <1>0, <1>2 DEF T!ThreadStarted
<1>3. CASE T!QueueStarts
  BY <1>0, <1>3 DEF T!QueueStarts
<1>4. CASE T!ThreadNotifies
  BY <1>0, <1>4 DEF T!ThreadNotifies
<1>5. CASE T!ThreadCrashes
  BY <1>0, <1>5 DEF T!ThreadCrashes
<1>6. CASE T!ServeEnds
  BY <1>0, <1>6 DEF T!ServeEnds
<1>7. CASE T!StopQueue
  BY <1>0, <1>7 DEF T!StopQueue
<1>8. CASE T!Flush
  BY <1>0, <1>8 DEF T!Flush
<1>9. CASE T!QueueStopped
  BY <1>0, <1>9 DEF T!QueueStopped
<1>10. CASE T!ThreadShutsDown
  BY <1>0, <1>10 DEF T!ThreadShutsDown
<1>11. ASSUME NEW w \in QueueWorker, T!StopWorker(w) PROVE Goal
  BY <1>0, <1>11 DEF T!StopWorker
<1>12. CASE T!StartCheck
  BY <1>0, <1>12 DEF T!StartCheck
<1>13. CASE T!StartReturns
  BY <1>0, <1>13 DEF T!StartReturns
<1>14. ASSUME NEW s \in Stopper, T!StopGoesOn(s) PROVE Goal
  BY <1>0, <1>14 DEF T!StopGoesOn
<1>15. ASSUME NEW c \in Caller, T!CallGoesOn(c) PROVE Goal
  BY <1>0, <1>15 DEF T!CallGoesOn
<1>16. CASE T!ParentCallback
  BY <1>0, <1>16 DEF T!ParentCallback
<1>17. CASE T!ThreadCallback
  BY <1>0, <1>17 DEF T!ThreadCallback
<1>18. ASSUME NEW w \in QueueWorker, T!WorkerStep(w) PROVE Goal
  BY <1>0, <1>18 DEF T!WorkerStep
<1>19. CASE T!Start
  BY <1>0, <1>19 DEF T!Start
<1>20. CASE T!HookRaises
  BY <1>0, <1>20 DEF T!HookRaises
<1>21. CASE T!CrashedFromOutside
  BY <1>0, <1>21 DEF T!CrashedFromOutside
<1>22. ASSUME NEW s \in Stopper, T!Stop(s) PROVE Goal
  <2>1. (CASE ~started -> "skipped" [] started /\ stopped -> "join" [] OTHER -> "shutdown")
          \in {"skipped", "join", "shutdown"}
    BY Zenon
  <2> QED
    BY <1>0, <1>22, <2>1 DEF T!Stop
<1>23. ASSUME NEW s \in Stopper, T!StopTimesOut(s) PROVE Goal
  BY <1>0, <1>23 DEF T!StopTimesOut
<1>24. ASSUME NEW c \in Caller, T!CallThread(c) PROVE Goal
  BY <1>0, <1>24 DEF T!CallThread
<1>25. ASSUME NEW c \in Caller, T!CallCancelled(c) PROVE Goal
  BY <1>0, <1>25 DEF T!CallCancelled
<1>26. ASSUME NEW w \in QueueWorker, T!TakenTwice(w) PROVE Goal
  BY <1>0, <1>26 DEF T!TakenTwice
<1> QED
  BY <1>1, <1>2, <1>3, <1>4, <1>5, <1>6, <1>7, <1>8, <1>9, <1>10, <1>11, <1>12, <1>13, <1>14, <1>15, <1>16, <1>17, <1>18, <1>19, <1>20, <1>21, <1>22, <1>23, <1>24, <1>25, <1>26
     DEF T!Next, T!ThreadStep, T!ParentStep

-----------------------------------------------------------------------------
(* How many queues there are, and that there is one where one is used.     *)

LEMMA ThreadMakes ==
    ASSUME ThreadInv, T!Next
    PROVE  MadeBound'
<1> USE DEF T!flags, T!parent, T!calls, T!mq, T!ThreadGoto, BeforeQueue
<1>0. Types /\ MadeBound /\ (tpc # "none" => thread_started)
  BY TypesAre DEF ThreadInv
<1>a. ASSUME callpc' = callpc, made' = made, tpc' \in BeforeQueue => tpc \in BeforeQueue
      PROVE  MadeBound'
  <2>1. made \in Nat /\ Cardinality({c \in Caller : callpc[c] \in {"return", "sent"}}) \in Nat
    <3>1. IsFiniteSet({c \in Caller : callpc[c] \in {"return", "sent"}})
      BY ThreadConstants, FS_Subset
    <3> QED
      BY <1>0, <3>1, FS_CardinalityType, ThreadConstants DEF Types
  <2> HIDE DEF BeforeQueue
  <2> QED
    BY <1>0, <1>a, <2>1 DEF MadeBound
<1>1. CASE T!ThreadBoots
  BY <1>0, <1>1, <1>a DEF T!ThreadBoots
<1>2. CASE T!ThreadStarted
  <2>1. CASE tpc = "create"
    <3>1. tpc' = "return" /\ made' = made + 1 /\ callpc' = callpc
      BY <1>2, <2>1 DEF T!ThreadStarted, T!NewQueue
    <3>2. made \in Nat
      BY <1>0, ThreadConstants DEF Types
    <3>3. Cardinality({c \in Caller : callpc[c] \in {"return", "sent"}}) \in Nat
      BY ThreadConstants, FS_Subset, FS_CardinalityType
    <3> QED
      BY <1>0, <2>1, <3>1, <3>2, <3>3 DEF MadeBound
  <2>2. CASE tpc # "create"
    BY <1>2, <1>a, <2>2 DEF T!ThreadStarted
  <2> QED
    BY <2>1, <2>2
<1>3. CASE T!QueueStarts
  BY <1>0, <1>3, <1>a DEF T!QueueStarts
<1>4. CASE T!ThreadNotifies
  BY <1>0, <1>4, <1>a DEF T!ThreadNotifies
<1>5. CASE T!ThreadCrashes
  BY <1>0, <1>5, <1>a DEF T!ThreadCrashes
<1>6. CASE T!ServeEnds
  BY <1>0, <1>6, <1>a DEF T!ServeEnds
<1>7. CASE T!StopQueue
  BY <1>0, <1>7, <1>a DEF T!StopQueue
<1>8. CASE T!Flush
  BY <1>0, <1>8, <1>a DEF T!Flush
<1>9. CASE T!QueueStopped
  BY <1>0, <1>9, <1>a DEF T!QueueStopped
<1>10. CASE T!ThreadShutsDown
  BY <1>0, <1>10, <1>a DEF T!ThreadShutsDown
<1>11. ASSUME NEW w \in QueueWorker, T!StopWorker(w) PROVE MadeBound'
  BY <1>0, <1>11, <1>a DEF T!StopWorker
<1>12. CASE T!StartCheck
  BY <1>0, <1>12, <1>a DEF T!StartCheck
<1>13. CASE T!StartReturns
  BY <1>0, <1>13, <1>a DEF T!StartReturns
<1>14. ASSUME NEW s \in Stopper, T!StopGoesOn(s) PROVE MadeBound'
  BY <1>0, <1>14, <1>a DEF T!StopGoesOn
<1>15. ASSUME NEW c \in Caller, T!CallGoesOn(c) PROVE MadeBound'
  <2>1. CASE callpc[c] = "create"
    <3>1. /\ tpc' = tpc /\ made' = made + 1 /\ callpc' = [callpc EXCEPT ![c] = "return"]
      BY <1>15, <2>1 DEF T!CallGoesOn, T!NewQueue
    <3>2. made \in Nat
      BY <1>0, ThreadConstants DEF Types
    <3>3. /\ callpc'[c] = "return" /\ \A d \in Caller \ {c} : callpc'[d] = callpc[d]
      BY <1>0, <3>1 DEF Types
    <3>4. /\ Cardinality({d \in Caller : callpc[d] \in {"return", "sent"}}) \in Nat
          /\ Cardinality({d \in Caller : callpc'[d] \in {"return", "sent"}}) =
               Cardinality({d \in Caller : callpc[d] \in {"return", "sent"}}) + 1
      BY <1>0, <2>1, <3>3, MorePast
    <3> QED
      BY <1>0, <3>1, <3>2, <3>4 DEF MadeBound
  <2>2. CASE callpc[c] = "return"
    <3>1. /\ tpc' = tpc /\ made' = made /\ callpc' = [callpc EXCEPT ![c] = "sent"]
      BY <1>15, <2>2 DEF T!CallGoesOn
    <3>2. {d \in Caller : callpc'[d] \in {"return", "sent"}} =
            {d \in Caller : callpc[d] \in {"return", "sent"}}
      BY <1>0, <2>2, <3>1 DEF Types
    <3> QED
      BY <1>0, <3>1, <3>2 DEF MadeBound
  <2> QED
    BY <1>15, <2>1, <2>2 DEF T!CallGoesOn
<1>16. CASE T!ParentCallback
  BY <1>0, <1>16, <1>a DEF T!ParentCallback
<1>17. CASE T!ThreadCallback
  BY <1>0, <1>17, <1>a DEF T!ThreadCallback
<1>18. ASSUME NEW w \in QueueWorker, T!WorkerStep(w) PROVE MadeBound'
  BY <1>0, <1>18, <1>a DEF T!WorkerStep
<1>19. CASE T!Start
  BY <1>0, <1>19, <1>a DEF T!Start
<1>20. CASE T!HookRaises
  BY <1>0, <1>20, <1>a DEF T!HookRaises
<1>21. CASE T!CrashedFromOutside
  BY <1>0, <1>21, <1>a DEF T!CrashedFromOutside
<1>22. ASSUME NEW s \in Stopper, T!Stop(s) PROVE MadeBound'
  BY <1>0, <1>22, <1>a DEF T!Stop
<1>23. ASSUME NEW s \in Stopper, T!StopTimesOut(s) PROVE MadeBound'
  BY <1>0, <1>23, <1>a DEF T!StopTimesOut
<1>24. ASSUME NEW c \in Caller, T!CallThread(c) PROVE MadeBound'
  <2>1. callpc[c] = "idle" /\ tpc' = tpc /\ made' = made
    BY <1>24 DEF T!CallThread
  <2>2. CASE method_queue = 0
    <3>1. callpc' = [callpc EXCEPT ![c] = "create"]
      BY <1>24, <2>2 DEF T!CallThread
    <3>2. {d \in Caller : callpc'[d] \in {"return", "sent"}} =
            {d \in Caller : callpc[d] \in {"return", "sent"}}
      BY <1>0, <2>1, <3>1 DEF Types
    <3> QED
      BY <1>0, <2>1, <3>2 DEF MadeBound
  <2>3. CASE method_queue # 0
    <3>1. callpc' = [callpc EXCEPT ![c] = "sent"]
      BY <1>24, <2>3 DEF T!CallThread
    <3>2. made \in Nat
      BY <1>0, ThreadConstants DEF Types
    <3>3. /\ callpc'[c] = "sent" /\ \A d \in Caller \ {c} : callpc'[d] = callpc[d]
      BY <1>0, <3>1 DEF Types
    <3>4. /\ Cardinality({d \in Caller : callpc[d] \in {"return", "sent"}}) \in Nat
          /\ Cardinality({d \in Caller : callpc'[d] \in {"return", "sent"}}) =
               Cardinality({d \in Caller : callpc[d] \in {"return", "sent"}}) + 1
      BY <1>0, <2>1, <3>3, MorePast
    <3> QED
      BY <1>0, <2>1, <3>2, <3>4 DEF MadeBound
  <2> QED
    BY <2>2, <2>3
<1>25. ASSUME NEW c \in Caller, T!CallCancelled(c) PROVE MadeBound'
  BY <1>0, <1>25, <1>a DEF T!CallCancelled
<1>26. ASSUME NEW w \in QueueWorker, T!TakenTwice(w) PROVE MadeBound'
  BY <1>0, <1>26, <1>a DEF T!TakenTwice
<1> QED
  BY <1>1, <1>2, <1>3, <1>4, <1>5, <1>6, <1>7, <1>8, <1>9, <1>10, <1>11, <1>12, <1>13, <1>14, <1>15, <1>16, <1>17, <1>18, <1>19, <1>20, <1>21, <1>22, <1>23, <1>24, <1>25, <1>26
     DEF T!Next, T!ThreadStep, T!ParentStep

LEMMA ThreadHasQueue ==
    ASSUME ThreadInv, T!Next
    PROVE  HasQueue'
<1> USE DEF T!flags, T!parent, T!calls, T!mq, T!work, T!ThreadGoto, HasQueue, BeforeQueue
<1>0. Types /\ HasQueue /\ Placed /\ (tpc # "none" => thread_started)
  BY TypesAre DEF ThreadInv
<1>b. ASSUME NEW l, T!NewQueue(l) PROVE method_queue' # 0 /\ made' = made + 1 /\ made \in Int
  BY <1>0, <1>b, ThreadConstants DEF Types, T!NewQueue
<1>1. CASE T!ThreadBoots
  BY <1>0, <1>1, <1>b, ThreadConstants DEF Types, T!ThreadBoots
<1>2. CASE T!ThreadStarted
  <2>1. UNCHANGED <<served, worker, flushing, callpc>> /\ served = 0
        /\ tpc' \in BeforeQueue \cup {"return"}
    BY <1>0, <1>2 DEF T!ThreadStarted
  <2>2. CASE UNCHANGED <<made, method_queue>> /\ (tpc' = "return" => method_queue # 0)
    BY <1>0, <2>1, <2>2
  <2>3. CASE T!NewQueue("thread") /\ made \in Nat
    <3>1. /\ method_queue' = made + 1 /\ made' = made + 1
          /\ method_queue' # 0 /\ served' <= made'
      BY <2>1, <2>3 DEF T!NewQueue
    <3> QED
      BY <1>0, <2>1, <3>1
  <2>4. made \in Nat
    BY <1>0, ThreadConstants DEF Types
  <2> QED
    BY <1>2, <2>2, <2>3, <2>4 DEF T!ThreadStarted
<1>3. CASE T!QueueStarts
  BY <1>0, <1>3, <1>b, ThreadConstants DEF Types, T!QueueStarts
<1>4. CASE T!ThreadNotifies
  BY <1>0, <1>4, <1>b, ThreadConstants DEF Types, T!ThreadNotifies
<1>5. CASE T!ThreadCrashes
  BY <1>0, <1>5, <1>b, ThreadConstants DEF Types, T!ThreadCrashes
<1>6. CASE T!ServeEnds
  BY <1>0, <1>6, <1>b, ThreadConstants DEF Types, T!ServeEnds
<1>7. CASE T!StopQueue
  BY <1>0, <1>7, <1>b, ThreadConstants DEF Types, T!StopQueue
<1>8. CASE T!Flush
  BY <1>0, <1>8, <1>b, ThreadConstants DEF Types, T!Flush
<1>9. CASE T!QueueStopped
  BY <1>0, <1>9, <1>b, ThreadConstants DEF Types, T!QueueStopped
<1>10. CASE T!ThreadShutsDown
  BY <1>0, <1>10, <1>b, ThreadConstants DEF Types, T!ThreadShutsDown
<1>11. ASSUME NEW w \in QueueWorker, T!StopWorker(w) PROVE HasQueue'
  BY <1>0, <1>11, <1>b, ThreadConstants DEF Types, T!StopWorker
<1>12. CASE T!StartCheck
  BY <1>0, <1>12, <1>b, ThreadConstants DEF Types, T!StartCheck
<1>13. CASE T!StartReturns
  BY <1>0, <1>13, <1>b, ThreadConstants DEF Types, T!StartReturns
<1>14. ASSUME NEW s \in Stopper, T!StopGoesOn(s) PROVE HasQueue'
  BY <1>0, <1>14, <1>b, ThreadConstants DEF Types, T!StopGoesOn
<1>15. ASSUME NEW c \in Caller, T!CallGoesOn(c) PROVE HasQueue'
  <2>1. UNCHANGED <<served, worker, flushing, tpc>>
    BY <1>15 DEF T!CallGoesOn
  <2>2. CASE callpc[c] = "create"
    <3>1. made \in Nat /\ served \in Nat
      BY <1>0, ThreadConstants DEF Types
    <3>2. method_queue' = made + 1 /\ made' = made + 1
      BY <1>15, <2>2 DEF T!CallGoesOn, T!NewQueue
    <3>3. method_queue' # 0 /\ method_queue' <= made' /\ served' <= made'
      BY <1>0, <2>1, <3>1, <3>2
    <3> QED
      BY <1>0, <2>1, <3>3
  <2>3. CASE callpc[c] = "return"
    <3>1. UNCHANGED <<made, method_queue>> /\ method_queue # 0
      BY <1>0, <1>15, <2>3 DEF T!CallGoesOn
    <3> QED
      BY <1>0, <2>1, <3>1
  <2> QED
    BY <1>15, <2>2, <2>3 DEF T!CallGoesOn
<1>16. CASE T!ParentCallback
  BY <1>0, <1>16, <1>b, ThreadConstants DEF Types, T!ParentCallback
<1>17. CASE T!ThreadCallback
  BY <1>0, <1>17, <1>b, ThreadConstants DEF Types, T!ThreadCallback
<1>18. ASSUME NEW w \in QueueWorker, T!WorkerStep(w) PROVE HasQueue'
  BY <1>0, <1>18, <1>b, ThreadConstants DEF Types, T!WorkerStep
<1>19. CASE T!Start
  BY <1>0, <1>19, <1>b, ThreadConstants DEF Types, T!Start
<1>20. CASE T!HookRaises
  BY <1>0, <1>20, <1>b, ThreadConstants DEF Types, T!HookRaises
<1>21. CASE T!CrashedFromOutside
  BY <1>0, <1>21, <1>b, ThreadConstants DEF Types, T!CrashedFromOutside
<1>22. ASSUME NEW s \in Stopper, T!Stop(s) PROVE HasQueue'
  BY <1>0, <1>22, <1>b, ThreadConstants DEF Types, T!Stop
<1>23. ASSUME NEW s \in Stopper, T!StopTimesOut(s) PROVE HasQueue'
  BY <1>0, <1>23, <1>b, ThreadConstants DEF Types, T!StopTimesOut
<1>24. ASSUME NEW c \in Caller, T!CallThread(c) PROVE HasQueue'
  BY <1>0, <1>24, <1>b, ThreadConstants DEF Types, T!CallThread
<1>25. ASSUME NEW c \in Caller, T!CallCancelled(c) PROVE HasQueue'
  BY <1>0, <1>25, <1>b, ThreadConstants DEF Types, T!CallCancelled
<1>26. ASSUME NEW w \in QueueWorker, T!TakenTwice(w) PROVE HasQueue'
  BY <1>0, <1>26, ThreadConstants, TwiceIs DEF Types
<1> QED
  BY <1>1, <1>2, <1>3, <1>4, <1>5, <1>6, <1>7, <1>8, <1>9, <1>10, <1>11, <1>12, <1>13, <1>14, <1>15, <1>16, <1>17, <1>18, <1>19, <1>20, <1>21, <1>22, <1>23, <1>24, <1>25, <1>26
     DEF T!Next, T!ThreadStep, T!ParentStep

-----------------------------------------------------------------------------
(* Steps that move no call.                                                *)

SameLoop == served # 0 => loop'[served] = loop[served]
Calm ==
    /\ UNCHANGED <<to_thread, method_queues, flushed, worker, callpc, qid, served, promise,
                   flushing, late>>
    /\ T!ToSet(to_parent) \subseteq T!ToSet(to_parent') /\ Puts' = Puts
    /\ SameLoop
    /\ tpc' = "flush" <=> tpc = "flush"
    /\ tpc' \in AfterFlush => tpc \in AfterFlush
    /\ tpc' \in AfterStop => tpc \in AfterStop \/ WorkersOff

\* The steps that do.
Moving ==
    \/ T!QueueStarts \/ T!StopQueue \/ T!Flush \/ T!ParentCallback \/ T!ThreadCallback
    \/ \E w \in QueueWorker : T!StopWorker(w) \/ T!WorkerStep(w) \/ T!TakenTwice(w)
    \/ \E s \in Stopper : T!Stop(s)
    \/ \E c \in Caller : T!CallGoesOn(c) \/ T!CallThread(c) \/ T!CallCancelled(c)

LEMMA ThreadCalm ==
    ASSUME ThreadInv, T!Next
    PROVE  Calm \/ Moving
<1> USE DEF T!flags, T!parent, T!calls, T!mq, T!work, T!ThreadGoto, AfterStop, AfterFlush,
           SameLoop, Puts
<1>0. Types /\ HasQueue /\ (tpc # "none" => thread_started)
  BY TypesAre DEF ThreadInv
<1>1. CASE T!ThreadBoots
  BY <1>0, <1>1 DEF Calm, T!ThreadBoots
<1>2. CASE T!ThreadStarted
  BY <1>0, <1>2 DEF Calm, T!ThreadStarted, HasQueue, BeforeQueue
<1>4. CASE T!ThreadNotifies
  <2>1. T!Notify \in Message /\ T!Notify[1] # "put"
    BY Messages
  <2>2. to_parent' \in {to_parent, Append(to_parent, T!Notify)}
    BY <1>4 DEF T!ThreadNotifies, T!ToParent
  <2>3. T!ToSet(to_parent) \subseteq T!ToSet(to_parent') /\ Puts' = Puts
    BY <1>0, <2>1, <2>2, ToldPuts
  <2> QED
    BY <1>0, <1>4, <2>3 DEF Calm, T!ThreadNotifies
<1>5. CASE T!ThreadCrashes
  <2>1. T!Exception \in Message /\ T!Exception[1] # "put"
    BY Messages
  <2>2. to_parent' \in {to_parent, Append(to_parent, T!Exception)}
    BY <1>5 DEF T!ThreadCrashes, T!ToParent
  <2>3. T!ToSet(to_parent) \subseteq T!ToSet(to_parent') /\ Puts' = Puts
    BY <1>0, <2>1, <2>2, ToldPuts
  <2> QED
    BY <1>0, <1>5, <2>3 DEF Calm, T!ThreadCrashes
<1>6. CASE T!ServeEnds
  BY <1>0, <1>6 DEF Calm, T!ServeEnds
<1>9. CASE T!QueueStopped
  BY <1>0, <1>9 DEF Calm, T!QueueStopped, WorkersOff
<1>10. CASE T!ThreadShutsDown
  <2>1. T!Shutdown \in Message /\ T!Shutdown[1] # "put"
    BY Messages
  <2>2. to_parent' \in {to_parent, Append(to_parent, T!Shutdown)}
    BY <1>10 DEF T!ThreadShutsDown, T!ToParent
  <2>3. T!ToSet(to_parent) \subseteq T!ToSet(to_parent') /\ Puts' = Puts
    BY <1>0, <2>1, <2>2, ToldPuts
  <2> QED
    BY <1>0, <1>10, <2>3 DEF Calm, T!ThreadShutsDown
<1>12. CASE T!StartCheck
  BY <1>0, <1>12 DEF Calm, T!StartCheck
<1>13. CASE T!StartReturns
  BY <1>0, <1>13 DEF Calm, T!StartReturns
<1>14. ASSUME NEW s \in Stopper, T!StopGoesOn(s) PROVE Calm
  BY <1>0, <1>14 DEF Calm, T!StopGoesOn
<1>19. CASE T!Start
  BY <1>0, <1>19 DEF Calm, T!Start
<1>20. CASE T!HookRaises
  BY <1>0, <1>20 DEF Calm, T!HookRaises
<1>21. CASE T!CrashedFromOutside
  BY <1>0, <1>21 DEF Calm, T!CrashedFromOutside
<1>23. ASSUME NEW s \in Stopper, T!StopTimesOut(s) PROVE Calm
  BY <1>0, <1>23 DEF Calm, T!StopTimesOut
<1> QED
  BY <1>1, <1>2, <1>4, <1>5, <1>6, <1>9, <1>10, <1>12, <1>13, <1>14, <1>19, <1>20, <1>21, <1>23
     DEF Moving, T!Next, T!ThreadStep, T!ParentStep

-----------------------------------------------------------------------------
(* Where calls are.                                                        *)

\* Nothing new is anywhere.
LEMMA PlacedFrame ==
    ASSUME Placed, callpc' = callpc, qid' = qid,
           T!ToSet(to_thread') \subseteq T!ToSet(to_thread) \cup {None}, None \notin Caller,
           Puts' \subseteq Puts,
           \A q \in T!Queue : T!ToSet(method_queues'[q]) \subseteq T!ToSet(method_queues[q]),
           \A w \in QueueWorker : worker'[w] \in Caller => worker'[w] = worker[w],
           (\A w \in QueueWorker : worker'[w] \notin Caller) \/ served' = served,
           flushed' = None \/ (flushed' = flushed /\ tpc' = tpc /\ flushing' = flushing)
    PROVE  Placed'
<1>1. \A c \in Caller : callpc'[c] = "sent" => qid'[c] # 0
  BY DEF Placed
<1>2. \A c \in Caller : c \in T!ToSet(to_thread') \cup Puts' => callpc'[c] = "sent"
  BY DEF Placed
<1>3. \A q \in T!Queue : \A c \in T!ToSet(method_queues'[q]) : callpc'[c] = "sent" /\ qid'[c] = q
  BY DEF Placed
<1>4. \A w \in QueueWorker :
        worker'[w] \in Caller => callpc'[worker'[w]] = "sent" /\ qid'[worker'[w]] = served'
  BY DEF Placed
<1>5. flushed' # None =>
        tpc' = "flush" /\ callpc'[flushed'] = "sent" /\ qid'[flushed'] = flushing'
  BY DEF Placed
<1>6. T!Queue' = T!Queue /\ None' = None
  BY Zenon DEF T!Queue
<1> QED
  BY <1>1, <1>2, <1>3, <1>4, <1>5 DEF Placed

\* A task goes on with its call, which is nowhere before.
LEMMA PlacedCall ==
    ASSUME Types, HasQueue, Placed, NEW c \in Caller, callpc[c] # "sent",
           \A d \in Caller \ {c} : callpc'[d] = callpc[d] /\ qid'[d] = qid[d],
           \/ callpc'[c] # "sent" /\ UNCHANGED <<to_thread, Puts>>
           \/ /\ qid'[c] # 0 /\ callpc'[c] = "sent"
              /\ T!ToSet(to_thread') \subseteq T!ToSet(to_thread) \cup {c}
              /\ Puts' \subseteq Puts \cup {c},
           UNCHANGED <<method_queues, worker, served, flushed, tpc, flushing>>
    PROVE  Placed'
<1>0. /\ T!ToSet(to_thread') \subseteq T!ToSet(to_thread) \cup {c} /\ Puts' \subseteq Puts \cup {c}
      /\ callpc'[c] = "sent" \/ (T!ToSet(to_thread') = T!ToSet(to_thread) /\ Puts' = Puts)
  OBVIOUS
<1>1. \A d \in Caller : callpc'[d] = "sent" => qid'[d] # 0
  BY DEF Placed
<1>2. \A d \in Caller : d \in T!ToSet(to_thread') \cup Puts' => callpc'[d] = "sent"
  BY <1>0 DEF Placed
<1>3. \A q \in T!Queue : \A d \in T!ToSet(method_queues[q]) : d \in Caller
  <2>1. ASSUME NEW q \in T!Queue PROVE T!ToSet(method_queues[q]) \subseteq Caller
    <3>1. method_queues[q] \in Seq(Caller)
      BY DEF Types
    <3> QED
      BY <3>1 DEF T!ToSet
  <2> QED
    BY <2>1
<1>4. \A q \in T!Queue : \A d \in T!ToSet(method_queues'[q]) : callpc'[d] = "sent" /\ qid'[d] = q
  BY <1>3 DEF Placed
<1>5. \A w \in QueueWorker :
        worker'[w] \in Caller => callpc'[worker'[w]] = "sent" /\ qid'[worker'[w]] = served'
  BY DEF Placed
<1>6. flushed' # None =>
        tpc' = "flush" /\ callpc'[flushed'] = "sent" /\ qid'[flushed'] = flushing'
  BY DEF Placed, Types
<1> QED
  BY <1>1, <1>2, <1>4, <1>5, <1>6 DEF Placed

LEMMA ThreadPlaced ==
    ASSUME ThreadInv, T!Next
    PROVE  Placed'
<1> USE DEF T!flags, T!parent, T!calls, T!mq, T!work, T!ThreadGoto
<1>0. Types /\ HasQueue /\ Placed /\ None \notin Caller
  BY TypesAre, ThreadConstants DEF ThreadInv
<1>1. CASE Calm
  BY <1>0, <1>1, PlacedFrame DEF Calm, Placed
<1>2. CASE T!QueueStarts
  <2>1. \A w \in QueueWorker : worker'[w] \notin Caller
    BY <1>2, ThreadConstants DEF T!QueueStarts
  <2>2. UNCHANGED <<callpc, qid, to_thread, Puts, method_queues, flushed, flushing>>
    BY <1>2 DEF T!QueueStarts, Puts
  <2>3. flushed' = None
    BY <1>0, <1>2, <2>2 DEF Placed, T!QueueStarts
  <2>4. T!ToSet(to_thread') \subseteq T!ToSet(to_thread) \cup {None}
        /\ \A q \in T!Queue : T!ToSet(method_queues'[q]) \subseteq T!ToSet(method_queues[q])
    BY <2>2
  <2> QED
    BY <1>0, <2>1, <2>2, <2>3, <2>4, PlacedFrame
<1>3. CASE T!StopQueue
  <2>1. UNCHANGED <<callpc, qid, to_thread, Puts, method_queues, flushed, worker, served>>
    BY <1>3 DEF T!StopQueue, Puts
  <2>2. flushed' = None
    BY <1>0, <1>3, <2>1 DEF Placed, T!StopQueue
  <2>3. T!ToSet(to_thread') \subseteq T!ToSet(to_thread) \cup {None}
        /\ \A q \in T!Queue : T!ToSet(method_queues'[q]) \subseteq T!ToSet(method_queues[q])
    BY <2>1
  <2>4. \A w \in QueueWorker : worker'[w] = worker[w]
    BY <2>1
  <2> QED
    BY <1>0, <2>1, <2>2, <2>3, <2>4, PlacedFrame
<1>4. CASE T!Flush
  <2>1. UNCHANGED <<callpc, qid, to_thread, worker, served, flushing>> /\ tpc = "flush"
    BY <1>4 DEF T!Flush
  <2>a. Puts' = Puts
    BY <1>0, <1>4, FinishTyped DEF T!Flush, Types, Puts
  <2>2. CASE flushed = None /\ method_queues[flushing] # <<>>
    <3>1. /\ flushing \in T!Queue /\ T!TakeCall(flushing)
          /\ flushed' = Head(method_queues[flushing]) /\ tpc' = tpc
      BY <1>0, <1>4, <2>2 DEF T!Flush, HasQueue, Types
    <3>2. /\ flushed' \in Caller
          /\ flushed' \in T!ToSet(method_queues[flushing])
          /\ \A q \in T!Queue : T!ToSet(method_queues'[q]) \subseteq T!ToSet(method_queues[q])
      BY <1>0, <2>2, <3>1, Taken
    <3>3. callpc[flushed'] = "sent" /\ qid[flushed'] = flushing
      BY <1>0, <3>1, <3>2 DEF Placed
    <3>4. \A q \in T!Queue : \A c \in T!ToSet(method_queues'[q]) : callpc'[c] = "sent" /\ qid'[c] = q
      BY <1>0, <2>1, <3>2 DEF Placed
    <3>5. flushed' # None =>
            tpc' = "flush" /\ callpc'[flushed'] = "sent" /\ qid'[flushed'] = flushing'
      BY <2>1, <3>1, <3>3
    <3> QED
      BY <1>0, <2>1, <2>a, <3>4, <3>5 DEF Placed
  <2>3. CASE flushed # None \/ method_queues[flushing] = <<>>
    <3>1. method_queues' = method_queues /\ flushed' = None
      BY <1>4, <2>3 DEF T!Flush
    <3>2. T!ToSet(to_thread') \subseteq T!ToSet(to_thread) \cup {None}
          /\ \A q \in T!Queue : T!ToSet(method_queues'[q]) \subseteq T!ToSet(method_queues[q])
      BY <2>1, <3>1
    <3>3. \A w \in QueueWorker : worker'[w] = worker[w]
      BY <2>1
    <3> QED
      BY <1>0, <2>1, <2>a, <3>1, <3>2, <3>3, PlacedFrame
  <2> QED
    BY <2>2, <2>3
<1>5. CASE T!ParentCallback
  <2>1. UNCHANGED <<callpc, qid, to_thread, worker, served, flushing, flushed, tpc>>
    BY <1>5 DEF T!ParentCallback
  <2>2. CASE UNCHANGED method_queues /\ Puts' = Puts
    BY <1>0, <2>1, <2>2, PlacedFrame
  <2>3. ASSUME NEW c \in Caller, c \in Puts, Puts' \subseteq Puts, qid[c] \in T!Queue, T!QueuePut(c)
        PROVE  Placed'
    <3>1. callpc[c] = "sent"
      BY <1>0, <2>3 DEF Placed
    <3>2. ASSUME NEW q \in T!Queue, NEW d \in T!ToSet(method_queues'[q])
          PROVE  callpc'[d] = "sent" /\ qid'[d] = q
      <4>1. d \in T!ToSet(method_queues[q]) \/ (d = c /\ q = qid[c])
        <5>1. CASE q = qid[c]
          BY <1>0, <2>3, <3>2, <5>1, PutIs
        <5>2. CASE q # qid[c]
          <6>1. method_queues'[q] = method_queues[q]
            BY <1>0, <2>3, <5>2, PutIs
          <6> QED
            BY <3>2, <6>1
        <5> QED
          BY <5>1, <5>2
      <4>2. d \in T!ToSet(method_queues[q]) => callpc[d] = "sent" /\ qid[d] = q
        BY <1>0 DEF Placed
      <4> QED
        BY <2>1, <3>1, <4>1, <4>2
    <3> QED
      BY <1>0, <2>1, <2>3, <3>2 DEF Placed
  <2> QED
    BY <1>0, <1>5, <2>2, <2>3, ParentTakes
<1>6. CASE T!ThreadCallback
  <2> DEFINE m == Head(to_thread)
  <2>1. /\ m \in Caller \cup {None} /\ m \in T!ToSet(to_thread)
        /\ T!ToSet(to_thread') \subseteq T!ToSet(to_thread)
    BY <1>0, <1>6, SetTail DEF Types, T!ThreadCallback
  <2>2. UNCHANGED <<callpc, qid, Puts, worker, served, flushing, flushed, tpc>>
    BY <1>6 DEF T!ThreadCallback, Puts
  <2>3. CASE m = None
    <3>1. method_queues' = method_queues
      BY <1>6, <2>3 DEF T!ThreadCallback, T!SetStopped
    <3> QED
      BY <1>0, <2>1, <2>2, <3>1, PlacedFrame
  <2>4. CASE m # None
    <3>1. m \in Caller /\ callpc[m] = "sent" /\ qid[m] \in T!Queue
      BY <1>0, <2>1, <2>4 DEF Placed, Types
    <3>2. T!QueuePut(m)
      BY <1>6, <2>4 DEF T!ThreadCallback, T!SetStopped
    <3>3. /\ \A q \in T!Queue \ {qid[m]} : method_queues'[q] = method_queues[q]
          /\ T!ToSet(method_queues'[qid[m]]) = T!ToSet(method_queues[qid[m]]) \cup {m}
      BY <1>0, <3>1, <3>2, PutIs
    <3>4. ASSUME NEW q \in T!Queue, NEW c \in T!ToSet(method_queues'[q])
          PROVE  callpc'[c] = "sent" /\ qid'[c] = q
      <4>1. c \in T!ToSet(method_queues[q]) \/ (c = m /\ q = qid[m])
        BY <3>3, <3>4
      <4>2. c \in T!ToSet(method_queues[q]) => callpc[c] = "sent" /\ qid[c] = q
        BY <1>0 DEF Placed
      <4> QED
        BY <2>2, <3>1, <4>1, <4>2
    <3> QED
      BY <1>0, <2>1, <2>2, <3>4 DEF Placed
  <2> QED
    BY <2>3, <2>4
<1>7. ASSUME NEW w \in QueueWorker, T!StopWorker(w) PROVE Placed'
  <2>1. UNCHANGED <<callpc, qid, to_thread, method_queues, served, flushing, flushed, tpc>>
    BY <1>7 DEF T!StopWorker
  <2>2. \A x \in QueueWorker : worker'[x] \in {"off", worker[x]}
    BY <1>0, <1>7 DEF T!StopWorker, Types
  <2>3. \A x \in QueueWorker : worker'[x] \in Caller => worker'[x] = worker[x]
    BY <2>2, ThreadConstants
  <2>4. Puts' = Puts
    <3>1. CASE to_parent' = to_parent
      BY <3>1 DEF Puts
    <3>2. CASE worker[w] \in Caller /\ to_parent' = Append(to_parent, T!Answer(worker[w], "error"))
      BY <1>0, <3>2, Messages, ToldPuts DEF T!How
    <3> QED
      BY <1>7, <3>1, <3>2 DEF T!StopWorker, T!ToParent
  <2> QED
    BY <1>0, <2>1, <2>3, <2>4, PlacedFrame
<1>8. ASSUME NEW w \in QueueWorker, T!WorkerStep(w) PROVE Placed'
  <2>1. UNCHANGED <<callpc, qid, to_thread, served, flushing, flushed, tpc>>
    BY <1>8 DEF T!WorkerStep
  <2>a. Puts' = Puts
    BY <1>0, <1>8, FinishTyped DEF T!WorkerStep, Puts
  <2>2. CASE worker[w] = "get"
    <3>1. /\ served \in T!Queue /\ method_queues[served] # <<>> /\ T!TakeCall(served)
          /\ worker' = [worker EXCEPT ![w] = Head(method_queues[served])]
      BY <1>0, <1>8, <2>2, ThreadConstants DEF T!WorkerStep, HasQueue, Types
    <3>2. /\ Head(method_queues[served]) \in T!ToSet(method_queues[served])
          /\ \A q \in T!Queue : T!ToSet(method_queues'[q]) \subseteq T!ToSet(method_queues[q])
      BY <1>0, <3>1, Taken
    <3>3. /\ worker'[w] \in T!ToSet(method_queues[served])
          /\ \A x \in QueueWorker \ {w} : worker'[x] = worker[x]
      BY <1>0, <3>1, <3>2 DEF Types
    <3>4. \A q \in T!Queue : \A c \in T!ToSet(method_queues'[q]) : callpc'[c] = "sent" /\ qid'[c] = q
      BY <1>0, <2>1, <3>2 DEF Placed
    <3>5. \A x \in QueueWorker :
            worker'[x] \in Caller => callpc'[worker'[x]] = "sent" /\ qid'[worker'[x]] = served'
      BY <1>0, <2>1, <3>1, <3>3 DEF Placed
    <3> QED
      BY <1>0, <2>1, <2>a, <3>4, <3>5 DEF Placed
  <2>3. CASE worker[w] # "get"
    <3>1. /\ worker' = [worker EXCEPT ![w] = IF T!QueueStops THEN "off" ELSE "get"]
          /\ method_queues' = method_queues
      BY <1>8, <2>3 DEF T!WorkerStep
    <3>2. \A x \in QueueWorker : worker'[x] \in {"off", "get", worker[x]}
      BY <1>0, <3>1 DEF Types
    <3>3. \A x \in QueueWorker : worker'[x] \in Caller => worker'[x] = worker[x]
      BY <3>2, ThreadConstants
    <3> QED
      BY <1>0, <2>1, <2>a, <3>1, <3>3, PlacedFrame
  <2> QED
    BY <2>2, <2>3
<1>9. ASSUME NEW s \in Stopper, T!Stop(s) PROVE Placed'
  <2>1. UNCHANGED <<callpc, qid, Puts, method_queues, served, worker, flushing, flushed, tpc>>
        /\ to_thread' \in {to_thread, Append(to_thread, None)}
    BY <1>9 DEF T!Stop, T!SetStopped, Puts
  <2>2. T!ToSet(to_thread') \subseteq T!ToSet(to_thread) \cup {None}
    BY <1>0, <2>1, SentTyped
  <2> QED
    BY <1>0, <2>1, <2>2, PlacedFrame
<1>10. ASSUME NEW c \in Caller, T!CallGoesOn(c) \/ T!CallThread(c) PROVE Placed'
  <2>1. UNCHANGED <<method_queues, worker, served, flushed, tpc, flushing>> /\ callpc[c] # "sent"
    BY <1>10 DEF T!CallGoesOn, T!CallThread
  <2>2. CASE T!Send(c) /\ callpc' = [callpc EXCEPT ![c] = "sent"]
    <3>1. method_queue # 0
      <4>2. CASE T!CallGoesOn(c)
        <5>1. callpc[c] = "return"
          BY <1>0, <2>2, <4>2 DEF T!CallGoesOn, Types
        <5> QED
          BY <1>0, <5>1 DEF HasQueue
      <4>3. CASE T!CallThread(c)
        BY <1>0, <2>2, <4>3 DEF T!CallThread, Types
      <4> QED
        BY <1>10, <4>2, <4>3
    <3>2. /\ callpc'[c] = "sent" /\ qid'[c] # 0
          /\ \A d \in Caller \ {c} : callpc'[d] = callpc[d] /\ qid'[d] = qid[d]
      BY <1>0, <2>2, <3>1, Sent DEF Types
    <3> QED
      BY <1>0, <2>1, <2>2, <3>2, Sent, PlacedCall
  <2>3. CASE UNCHANGED <<qid, to_thread, to_parent>> /\ \E x \in {"create", "return"} :
               callpc' = [callpc EXCEPT ![c] = x]
    <3>1. /\ callpc'[c] # "sent" /\ Puts' = Puts
          /\ \A d \in Caller \ {c} : callpc'[d] = callpc[d] /\ qid'[d] = qid[d]
      BY <1>0, <2>3 DEF Types, Puts
    <3> QED
      BY <1>0, <2>1, <2>3, <3>1, PlacedCall
  <2>4. \/ T!Send(c) /\ callpc' = [callpc EXCEPT ![c] = "sent"]
        \/ UNCHANGED <<qid, to_thread, to_parent>> /\ \E x \in {"create", "return"} :
              callpc' = [callpc EXCEPT ![c] = x]
    BY <1>10 DEF T!CallGoesOn, T!CallThread
  <2> QED
    BY <2>2, <2>3, <2>4
<1>11. ASSUME NEW c \in Caller, T!CallCancelled(c) PROVE Placed'
  BY <1>0, <1>11, PlacedFrame DEF T!CallCancelled, Puts
<1>12. ASSUME NEW w \in QueueWorker, T!TakenTwice(w) PROVE Placed'
  <2> DEFINE h == Head(method_queues[served])
  <2>1. /\ h \in Caller /\ h \in T!ToSet(method_queues[served])
        /\ \A q \in T!Queue : T!ToSet(method_queues'[q]) \subseteq T!ToSet(method_queues[q])
    BY <1>0, <1>12, TwiceIs, Taken
  <2>2. callpc[h] = "sent" /\ qid[h] = served
    BY <1>0, <1>12, <2>1, TwiceIs DEF Placed
  <2>3. UNCHANGED <<callpc, qid, to_thread, Puts, served, flushing>>
    BY <1>0, <1>12, TwiceIs DEF Puts
  <2>4. \A q \in T!Queue : \A c \in T!ToSet(method_queues'[q]) : callpc'[c] = "sent" /\ qid'[c] = q
    BY <1>0, <2>1, <2>3 DEF Placed
  <2>5. \A x \in QueueWorker : worker'[x] \in Caller => worker'[x] = worker[x] \/ worker'[x] = h
    BY <1>0, <1>12, ThreadConstants, TwiceIs
  <2>6. \A x \in QueueWorker :
          worker'[x] \in Caller => callpc'[worker'[x]] = "sent" /\ qid'[worker'[x]] = served'
    BY <1>0, <2>2, <2>3, <2>5 DEF Placed
  <2>7. flushed' # None =>
          tpc' = "flush" /\ callpc'[flushed'] = "sent" /\ qid'[flushed'] = flushing'
    BY <1>0, <1>12, <2>2, <2>3, TwiceIs
  <2> QED
    BY <1>0, <2>3, <2>4, <2>6, <2>7 DEF Placed
<1> QED
  BY ThreadCalm, <1>1, <1>2, <1>3, <1>4, <1>5, <1>6, <1>7, <1>8, <1>9, <1>10, <1>11, <1>12 DEF Moving

-----------------------------------------------------------------------------
(* After the flush.                                                        *)

LEMMA FlushedFrame ==
    ASSUME Flushed, UNCHANGED <<served, flushing, late>>, SameLoop,
           tpc' \in AfterFlush => tpc \in AfterFlush,
           tpc' \in AfterStop => tpc \in AfterStop \/ WorkersOff,
           flushing # 0 =>
             T!ToSet(method_queues'[flushing]) \subseteq T!ToSet(method_queues[flushing]),
           \A w \in QueueWorker : worker[w] = "off" => worker'[w] = "off"
    PROVE  Flushed'
  BY DEF Flushed, AfterFlush, AfterStop, WorkersOff, T!WorkersHere, SameLoop

LEMMA ThreadFlushed ==
    ASSUME ThreadInv, T!Next
    PROVE  Flushed'
<1> USE DEF T!flags, T!parent, T!calls, T!mq, T!work, T!ThreadGoto, SameLoop
<1>0. Types /\ HasQueue /\ Placed /\ Flushed
  BY TypesAre DEF ThreadInv
<1>1. CASE Calm
  BY <1>0, <1>1, FlushedFrame DEF Calm
<1>2. CASE T!QueueStarts
  BY <1>2 DEF T!QueueStarts, Flushed, AfterFlush, AfterStop
<1>3. CASE T!StopQueue
  <2>1. tpc' \in {"shutdown", "flush"} /\ (tpc' = "shutdown" => method_queue = 0)
        /\ UNCHANGED <<served, worker>> /\ flushing' = method_queue
    BY <1>3 DEF T!StopQueue
  <2>2. tpc' = "shutdown" => \A w \in QueueWorker : worker[w] = "off"
    BY <1>0, <1>3 DEF HasQueue, T!StopQueue
  <2> QED
    BY <2>1, <2>2 DEF Flushed, AfterFlush, AfterStop, WorkersOff, T!WorkersHere
<1>4. CASE T!Flush
  <2>1. UNCHANGED <<served, flushing, late, worker>> /\ tpc = "flush"
    BY <1>4 DEF T!Flush
  <2>2. CASE flushed = None /\ method_queues[flushing] = <<>>
    <3>1. tpc' = "stop_workers" /\ method_queues' = method_queues
      BY <1>4, <2>2 DEF T!Flush
    <3>2. T!ToSet(method_queues'[flushing']) = {}
      BY <2>1, <2>2, <3>1 DEF T!ToSet
    <3> QED
      BY <3>1, <3>2 DEF Flushed, AfterFlush, AfterStop
  <2>3. CASE ~(flushed = None /\ method_queues[flushing] = <<>>)
    <3>1. tpc' = tpc
      BY <1>4, <2>3 DEF T!Flush
    <3> QED
      BY <2>1, <3>1 DEF Flushed, AfterFlush, AfterStop
  <2> QED
    BY <2>2, <2>3
<1>a. ASSUME NEW c \in Caller, qid[c] \in T!Queue, T!QueuePut(c),
             UNCHANGED <<worker, served, flushing, loop, tpc>>
      PROVE  Flushed'
  <2>1. ASSUME tpc \in AfterFlush, flushing # 0
        PROVE  T!ToSet(method_queues'[flushing]) \subseteq late'
    <3>1. late' = late \cup {c} /\ flushing \in T!Queue
          /\ T!ToSet(method_queues[flushing]) \subseteq late
      BY <1>0, <1>a, <2>1, PutIs DEF Flushed, Types
    <3> QED
      BY <1>0, <1>a, <3>1, PutIs
  <2>2. tpc \in AfterStop => WorkersOff'
    BY <1>0, <1>a DEF Flushed, WorkersOff, T!WorkersHere
  <2> QED
    BY <1>0, <1>a, <2>1, <2>2 DEF Flushed
<1>5. CASE T!ParentCallback
  <2>1. UNCHANGED <<worker, served, flushing, loop, tpc>>
    BY <1>5 DEF T!ParentCallback
  <2>2. CASE UNCHANGED <<method_queues, late>>
    BY <1>0, <2>1, <2>2, FlushedFrame
  <2> QED
    BY <1>0, <1>5, <1>a, <2>1, <2>2, ParentTakes
<1>6. CASE T!ThreadCallback
  <2> DEFINE m == Head(to_thread)
  <2>1. UNCHANGED <<worker, served, flushing, loop, tpc>> /\ m \in Caller \cup {None}
        /\ m \in T!ToSet(to_thread)
    BY <1>0, <1>6, SetTail DEF Types, T!ThreadCallback
  <2>2. CASE m = None
    <3>1. method_queues' = method_queues /\ late' = late
      BY <1>6, <2>2 DEF T!ThreadCallback, T!SetStopped
    <3> QED
      BY <1>0, <2>1, <3>1, FlushedFrame
  <2>3. CASE m # None
    <3>1. m \in Caller /\ qid[m] \in T!Queue /\ T!QueuePut(m)
      BY <1>0, <1>6, <2>1, <2>3 DEF Placed, Types, T!ThreadCallback, T!SetStopped
    <3> QED
      BY <1>a, <2>1, <3>1
  <2> QED
    BY <2>2, <2>3
<1>7. ASSUME NEW w \in QueueWorker, T!StopWorker(w) PROVE Flushed'
  <2>1. UNCHANGED <<served, flushing, loop, late, tpc, method_queues>>
        /\ \A x \in QueueWorker : worker'[x] \in {"off", worker[x]}
    BY <1>0, <1>7 DEF T!StopWorker, Types
  <2> QED
    BY <1>0, <2>1, FlushedFrame
<1>8. ASSUME NEW w \in QueueWorker, T!WorkerStep(w) PROVE Flushed'
  <2>1. UNCHANGED <<served, flushing, loop, late, tpc>> /\ worker[w] # "off"
        /\ \A x \in QueueWorker : worker[x] = "off" => worker'[x] = "off"
    BY <1>0, <1>8, ThreadConstants DEF T!WorkerStep, Types
  <2>2. flushing # 0 =>
          T!ToSet(method_queues'[flushing]) \subseteq T!ToSet(method_queues[flushing])
    <3>1. CASE worker[w] = "get"
      <4>1. served \in T!Queue /\ method_queues[served] # <<>> /\ T!TakeCall(served)
        BY <1>0, <1>8, <3>1, ThreadConstants DEF T!WorkerStep, HasQueue, Types
      <4>2. \A q \in T!Queue : T!ToSet(method_queues'[q]) \subseteq T!ToSet(method_queues[q])
        BY <1>0, <4>1, Taken
      <4> QED
        BY <1>0, <4>2 DEF Types
    <3>2. CASE worker[w] # "get"
      BY <1>8, <3>2 DEF T!WorkerStep
    <3> QED
      BY <3>1, <3>2
  <2> QED
    BY <1>0, <2>1, <2>2, FlushedFrame
<1>9. ASSUME NEW s \in Stopper, T!Stop(s) PROVE Flushed'
  BY <1>0, <1>9, FlushedFrame DEF T!Stop
<1>10. ASSUME NEW c \in Caller, T!CallGoesOn(c) \/ T!CallThread(c) PROVE Flushed'
  <2>1. UNCHANGED <<served, flushing, late, tpc, method_queues, worker>>
    BY <1>10 DEF T!CallGoesOn, T!CallThread
  <2>2. loop' = loop \/ loop' = [loop EXCEPT ![made + 1] = "parent"]
    BY <1>10 DEF T!CallGoesOn, T!CallThread, T!NewQueue
  <2>3. served # 0 => served \in T!Queue /\ served # made + 1
    BY <1>0, ThreadConstants DEF HasQueue, Types
  <2>4. SameLoop
    BY <1>0, <2>2, <2>3 DEF Types
  <2> QED
    BY <1>0, <2>1, <2>4, FlushedFrame
<1>11. ASSUME NEW c \in Caller, T!CallCancelled(c) PROVE Flushed'
  BY <1>0, <1>11, FlushedFrame DEF T!CallCancelled
<1>12. ASSUME NEW w \in QueueWorker, T!TakenTwice(w) PROVE Flushed'
  <2>1. tpc' = "flush" \/ (tpc' = "failed" /\ T!ToSet(method_queues'[flushing']) = {})
    BY <1>0, <1>12, TwiceIs
  <2>2. flushing' = served' /\ loop'[served'] = "parent"
    BY <1>0, <1>12, TwiceIs
  <2> QED
    BY <2>1, <2>2 DEF Flushed, AfterFlush, AfterStop, WorkersOff, T!WorkersHere
<1> QED
  BY ThreadCalm, <1>1, <1>2, <1>3, <1>4, <1>5, <1>6, <1>7, <1>8, <1>9, <1>10, <1>11, <1>12 DEF Moving

-----------------------------------------------------------------------------
(* No call is lost.                                                        *)

\* An answer stays one.
AnswersStay == \A c \in Caller : T!Answered(c) => T!Answered(c)'
Kept(c) == T!Waiting(c)' \/ T!Answered(c)'

LEMMA AnswerKept ==
    ASSUME promise' = promise, T!ToSet(to_parent) \subseteq T!ToSet(to_parent')
    PROVE  AnswersStay
  BY Zenon DEF AnswersStay, T!Answered, T!Answer, T!How

\* A call that is waiting is so after a step that takes nothing away.
LEMMA WaitingKept ==
    ASSUME Types, T!ToSet(to_thread) \subseteq T!ToSet(to_thread'),
           UNCHANGED <<method_queues, flushed>>, Puts \subseteq Puts',
           \A w \in QueueWorker : worker[w] \in Caller => worker'[w] = worker[w]
    PROVE  \A c \in Caller : T!Waiting(c) => T!Waiting(c)'
<1>1. Puts' = {c \in Caller : T!Put(c) \in T!ToSet(to_parent')}
  BY Zenon DEF Puts, T!Put
<1>2. \A c \in Caller : T!Put(c) \in T!ToSet(to_parent) => T!Put(c) \in T!ToSet(to_parent')
  BY <1>1 DEF Puts
<1> QED
  BY <1>2 DEF T!Waiting, T!Queue, T!Put

LEMMA KeptFrame ==
    ASSUME T!CallKept, AnswersStay, \A c \in Caller : T!Waiting(c) => Kept(c),
           \A c \in Caller : callpc'[c] = "sent" =>
             callpc[c] = "sent" \/ c \in T!ToSet(to_thread') \cup Puts'
    PROVE  T!CallKept'
<1>1. ASSUME NEW c \in Caller, callpc'[c] = "sent" PROVE T!Waiting(c)' \/ T!Answered(c)'
  <2>1. CASE callpc[c] = "sent"
    BY <1>1, <2>1 DEF T!CallKept, AnswersStay, Kept
  <2>2. CASE c \in T!ToSet(to_thread')
    BY <2>2 DEF T!Waiting
  <2>3. CASE c \in Puts'
    BY <2>3, Zenon DEF T!Waiting, Puts, T!Put
  <2> QED
    BY <1>1, <2>1, <2>2, <2>3
<1> QED
  BY <1>1 DEF T!CallKept

\* A function is run: its promise has an answer, or was cancelled.
LEMMA Finished ==
    ASSUME Types, NEW c \in Caller, T!Finish(c), promise' = promise
    PROVE  /\ T!ToSet(to_parent) \subseteq T!ToSet(to_parent') /\ Puts' = Puts
           /\ T!Answered(c)'
<1>1. CASE promise[c] = "cancelled"
  BY <1>1, FinishTyped DEF T!Finish, T!Answered
<1>2. CASE promise[c] # "cancelled"
  <2>1. PICK h \in T!How : to_parent' = Append(to_parent, T!Answer(c, h))
    BY <1>2 DEF T!Finish, T!ToParent
  <2>2. T!Answer(c, h) \in Message
    BY Messages
  <2>3. T!ToSet(to_parent') = T!ToSet(to_parent) \cup {T!Answer(c, h)}
    BY <2>1, <2>2, Told
  <2>4. \E k \in T!How : T!Answer(c, k) \in T!ToSet(to_parent')
    BY <2>3
  <2>5. T!Answered(c)'
    BY <2>4, Zenon DEF T!Answered, T!Answer, T!How
  <2> QED
    BY <2>3, <2>5, FinishTyped
<1> QED
  BY <1>1, <1>2

\* A call leaves queue q: nothing else does.
LEMMA TakenKept ==
    ASSUME Types, NEW q \in T!Queue, method_queues[q] # <<>>, T!TakeCall(q),
           to_thread' = to_thread, Puts \subseteq Puts', flushed' = flushed \/ flushed = None,
           \A w \in QueueWorker : worker[w] \in Caller => worker'[w] = worker[w],
           \/ flushed' = Head(method_queues[q])
           \/ \E w \in QueueWorker : worker'[w] = Head(method_queues[q])
    PROVE  \A c \in Caller : T!Waiting(c) => T!Waiting(c)'
<1> SUFFICES ASSUME NEW c \in Caller, T!Waiting(c)
             PROVE  T!Waiting(c)'
  OBVIOUS
<1>1. \A p \in T!Queue : p # q => method_queues'[p] = method_queues[p]
  BY Taken
<1>2. T!ToSet(method_queues[q]) = T!ToSet(method_queues'[q]) \cup {Head(method_queues[q])}
  BY Taken
<1>3. CASE c = Head(method_queues[q])
  BY <1>3 DEF T!Waiting
<1>4. CASE \E p \in T!Queue : c \in T!ToSet(method_queues[p]) /\ c # Head(method_queues[q])
  <2>1. \E p \in T!Queue : c \in T!ToSet(method_queues'[p])
    BY <1>1, <1>2, <1>4
  <2> QED
    BY <2>1 DEF T!Waiting, T!Queue
<1>5. CASE c \in T!ToSet(to_thread) \/ flushed = c \/ \E w \in QueueWorker : worker[w] = c
  BY <1>5, ThreadConstants DEF T!Waiting
<1>6. CASE T!Put(c) \in T!ToSet(to_parent)
  <2>1. c \in Puts'
    BY <1>6 DEF Puts
  <2> QED
    BY <2>1, Zenon DEF T!Waiting, Puts, T!Put
<1> QED
  BY <1>3, <1>4, <1>5, <1>6 DEF T!Waiting

LEMMA ThreadKept ==
    ASSUME ThreadInv, T!Next
    PROVE  T!CallKept'
<1> USE DEF T!flags, T!parent, T!calls, T!mq, T!work, T!ThreadGoto
<1>0. Types /\ HasQueue /\ Placed /\ T!CallKept
  BY TypesAre DEF ThreadInv
<1>u. to_parent' = to_parent => Puts' = Puts
  BY DEF Puts
<1>1. CASE Calm
  <2>1. AnswersStay
    BY <1>1, AnswerKept DEF Calm
  <2>2. \A c \in Caller : T!Waiting(c) => T!Waiting(c)'
    BY <1>0, <1>1, WaitingKept DEF Calm
  <2> QED
    BY <1>0, <1>1, <2>1, <2>2, KeptFrame DEF Kept, Calm
<1>2. CASE T!QueueStarts
  <2>1. UNCHANGED <<promise, to_parent, to_thread, method_queues, flushed, callpc>>
    BY <1>2 DEF T!QueueStarts
  <2>2. \A w \in QueueWorker : worker[w] = "off"
    BY <1>0, <1>2 DEF T!QueueStarts, HasQueue, BeforeQueue
  <2>3. AnswersStay
    BY <2>1, AnswerKept
  <2>4. \A c \in Caller : T!Waiting(c) => T!Waiting(c)'
    BY <1>0, <2>1, <2>2, ThreadConstants, WaitingKept, <1>u
  <2> QED
    BY <1>0, <2>1, <2>3, <2>4, KeptFrame DEF Kept
<1>3. CASE T!StopQueue
  <2>1. UNCHANGED <<promise, to_parent, to_thread, method_queues, flushed, callpc, worker>>
    BY <1>3 DEF T!StopQueue
  <2>2. AnswersStay
    BY <2>1, AnswerKept
  <2>3. \A c \in Caller : T!Waiting(c) => T!Waiting(c)'
    BY <1>0, <2>1, WaitingKept, <1>u
  <2> QED
    BY <1>0, <2>1, <2>2, <2>3, KeptFrame DEF Kept
<1>4. CASE T!Flush
  <2>1. UNCHANGED <<promise, to_thread, worker, callpc>> /\ tpc = "flush"
    BY <1>4 DEF T!Flush
  <2>2. CASE flushed = None /\ method_queues[flushing] # <<>>
    <3>1. /\ flushing \in T!Queue /\ T!TakeCall(flushing)
          /\ flushed' = Head(method_queues[flushing]) /\ to_parent' = to_parent
      BY <1>0, <1>4, <2>2 DEF T!Flush, HasQueue, Types
    <3>2. AnswersStay
      BY <2>1, <3>1, AnswerKept
    <3>3. \A c \in Caller : T!Waiting(c) => T!Waiting(c)'
      BY <1>0, <2>1, <2>2, <3>1, TakenKept, <1>u
    <3> QED
      BY <1>0, <2>1, <3>2, <3>3, KeptFrame DEF Kept
  <2>3. CASE flushed # None
    <3>1. T!Finish(flushed) /\ flushed \in Caller /\ flushed' = None
          /\ method_queues' = method_queues
      BY <1>0, <1>4, <2>3 DEF T!Flush, Types
    <3>2. T!ToSet(to_parent) \subseteq T!ToSet(to_parent')
          /\ \A c \in Caller : c = flushed => T!Answered(c)'
      BY <1>0, <2>1, <3>1, Finished
    <3>3. AnswersStay
      BY <2>1, <3>2, AnswerKept
    <3>4. \A c \in Caller : T!Waiting(c) => c = flushed \/ T!Waiting(c)'
      BY <2>1, <3>1, <3>2 DEF T!Waiting, T!Queue, T!Put
    <3>5. \A c \in Caller : T!Waiting(c) => Kept(c)
      BY <3>2, <3>4 DEF Kept
    <3> QED
      BY <1>0, <2>1, <3>3, <3>5, KeptFrame
  <2>4. CASE flushed = None /\ method_queues[flushing] = <<>>
    <3>1. UNCHANGED <<method_queues, flushed, to_parent>>
      BY <1>4, <2>4 DEF T!Flush
    <3>2. AnswersStay
      BY <2>1, <3>1, AnswerKept
    <3>3. \A c \in Caller : T!Waiting(c) => T!Waiting(c)'
      BY <1>0, <2>1, <3>1, WaitingKept, <1>u
    <3> QED
      BY <1>0, <2>1, <3>2, <3>3, KeptFrame DEF Kept
  <2> QED
    BY <2>2, <2>3, <2>4
\* A call put into its queue: it and what waits elsewhere go on waiting.
<1>p. ASSUME NEW m \in Caller, qid[m] \in T!Queue, T!QueuePut(m), UNCHANGED <<flushed, worker>>,
             T!ToSet(to_thread) \subseteq T!ToSet(to_thread') \cup {m, None},
             Puts \subseteq Puts' \cup {m}, NEW c \in Caller, T!Waiting(c)
      PROVE  T!Waiting(c)'
  <2>1. /\ \A q \in T!Queue : T!ToSet(method_queues[q]) \subseteq T!ToSet(method_queues'[q])
        /\ m \in T!ToSet(method_queues'[qid[m]])
    BY <1>0, <1>p, PutIs
  <2>2. CASE \/ c = m
             \/ \E q \in T!Queue : c \in T!ToSet(method_queues[q])
    <3>1. \E q \in T!Queue : c \in T!ToSet(method_queues'[q])
      BY <1>p, <2>1, <2>2
    <3> QED
      BY <3>1 DEF T!Waiting, T!Queue
  <2>3. CASE c \in T!ToSet(to_thread) /\ c # m
    BY <1>p, <2>3, ThreadConstants DEF T!Waiting
  <2>4. CASE T!Put(c) \in T!ToSet(to_parent) /\ c # m
    <3>1. c \in Puts'
      BY <1>p, <2>4 DEF Puts
    <3> QED
      BY <3>1, Zenon DEF T!Waiting, Puts, T!Put
  <2>5. CASE flushed = c \/ \E w \in QueueWorker : worker[w] = c
    BY <1>p, <2>5 DEF T!Waiting
  <2> QED
    BY <1>p, <2>2, <2>3, <2>4, <2>5 DEF T!Waiting
<1>5. CASE T!ParentCallback
  <2> DEFINE m == Head(to_parent)
  <2>1. UNCHANGED <<to_thread, flushed, callpc, worker>>
    BY <1>5 DEF T!ParentCallback
  <2>2. /\ m \in Message /\ T!ToSet(to_parent) = T!ToSet(to_parent') \cup {m}
        /\ promise' = IF m[1] \in T!How /\ promise[m[2]] = "pending"
                        THEN [promise EXCEPT ![m[2]] = m[1]] ELSE promise
    BY <1>0, <1>5, ParentTakes DEF T!ParentCallback
  <2>3. \A c \in Caller : promise[c] # "pending" => promise'[c] # "pending"
    BY <1>0, <2>2 DEF Types, T!How
  <2>4. ASSUME NEW c \in Caller, NEW h \in T!How, m = T!Answer(c, h)
        PROVE  promise'[c] # "pending"
    <3>1. m[1] = h /\ m[2] = c /\ h # "pending"
      BY <2>4 DEF T!Answer, T!How
    <3> QED
      BY <1>0, <2>2, <3>1 DEF Types
  <2>5. ASSUME NEW c \in Caller, T!Answered(c)
        PROVE  T!Answered(c)'
    <3>1. promise'[c] # "pending" \/ \E h \in T!How : T!Answer(c, h) \in T!ToSet(to_parent')
      BY <2>2, <2>3, <2>4, <2>5 DEF T!Answered
    <3> QED
      BY <3>1, Zenon DEF T!Answered, T!Answer, T!How
  <2>6. AnswersStay
    BY <2>5 DEF AnswersStay
  <2>7. ASSUME NEW c \in Caller, T!Waiting(c)
        PROVE  T!Waiting(c)'
    <3>1. CASE UNCHANGED method_queues /\ Puts' = Puts
      BY <1>0, <2>1, <2>7, <3>1, WaitingKept
    <3> QED
      BY <1>0, <1>5, <1>p, <2>1, <2>7, <3>1, ParentTakes
  <2> QED
    BY <1>0, <2>1, <2>6, <2>7, KeptFrame DEF Kept
<1>6. CASE T!ThreadCallback
  <2> DEFINE m == Head(to_thread)
  <2>1. UNCHANGED <<promise, to_parent, flushed, callpc, worker>>
        /\ m \in Caller \cup {None} /\ m \in T!ToSet(to_thread)
        /\ T!ToSet(to_thread) = T!ToSet(to_thread') \cup {m}
    BY <1>0, <1>6, SetTail DEF Types, T!ThreadCallback
  <2>2. AnswersStay
    BY <2>1, AnswerKept
  <2>3. ASSUME NEW c \in Caller, T!Waiting(c) PROVE T!Waiting(c)'
    <3>1. CASE m = None
      <4>1. method_queues' = method_queues
        BY <1>6, <3>1 DEF T!ThreadCallback, T!SetStopped
      <4>2. \A d \in Caller : d \in T!ToSet(to_thread) => d \in T!ToSet(to_thread')
        BY <2>1, <3>1, ThreadConstants
      <4>3. UNCHANGED <<flushed, worker, to_parent>>
        BY <2>1
      <4> QED
        BY <2>3, <4>1, <4>2, <4>3 DEF T!Waiting, T!Queue, T!Put
    <3>2. CASE m # None
      <4>1. m \in Caller /\ qid[m] \in T!Queue /\ T!QueuePut(m)
        BY <1>0, <1>6, <2>1, <3>2 DEF Placed, Types, T!ThreadCallback, T!SetStopped
      <4> QED
        BY <1>p, <1>u, <2>1, <2>3, <4>1
    <3> QED
      BY <3>1, <3>2
  <2> QED
    BY <1>0, <2>1, <2>2, <2>3, KeptFrame DEF Kept
<1>7. ASSUME NEW w \in QueueWorker, T!StopWorker(w) PROVE T!CallKept'
  <2>1. UNCHANGED <<promise, to_thread, method_queues, flushed, callpc>>
        /\ \A x \in QueueWorker : x # w => worker'[x] = worker[x]
    BY <1>0, <1>7 DEF T!StopWorker, Types
  <2>2. /\ T!ToSet(to_parent) \subseteq T!ToSet(to_parent')
        /\ worker[w] \in Caller => \A c \in Caller : c = worker[w] => T!Answered(c)'
    <3>1. CASE worker[w] \in Caller /\ promise[worker[w]] # "cancelled"
      <4>1. PICK c \in Caller : c = worker[w] /\ promise[c] # "cancelled"
        BY <3>1
      <4>2. "error" \in T!How /\ to_parent' = Append(to_parent, T!Answer(c, "error"))
        BY <1>7, <4>1 DEF T!How, T!StopWorker, T!ToParent
      <4>3. T!Finish(c)
        BY <4>1, <4>2 DEF T!Finish, T!ToParent
      <4> QED
        BY <1>0, <2>1, <4>1, <4>3, Finished
    <3>2. CASE worker[w] \in Caller /\ promise[worker[w]] = "cancelled"
      <4>1. to_parent' = to_parent
        BY <1>7, <3>2 DEF T!StopWorker
      <4> QED
        BY <2>1, <3>2, <4>1 DEF T!Answered
    <3>3. CASE worker[w] \notin Caller
      BY <1>7, <3>3 DEF T!StopWorker
    <3> QED
      BY <3>1, <3>2, <3>3
  <2>3. AnswersStay
    BY <2>1, <2>2, AnswerKept
  <2>4. \A c \in Caller : T!Waiting(c) => c = worker[w] \/ T!Waiting(c)'
    BY <2>1, <2>2 DEF T!Waiting, T!Queue, T!Put
  <2>5. \A c \in Caller : T!Waiting(c) => Kept(c)
    BY <2>2, <2>4 DEF Kept
  <2> QED
    BY <1>0, <2>1, <2>3, <2>5, KeptFrame
<1>8. ASSUME NEW w \in QueueWorker, T!WorkerStep(w) PROVE T!CallKept'
  <2>1. UNCHANGED <<promise, to_thread, flushed, callpc>>
        /\ \A x \in QueueWorker : x # w => worker'[x] = worker[x]
    BY <1>0, <1>8 DEF T!WorkerStep, Types
  <2>2. CASE worker[w] = "wait"
    <3>1. method_queues' = method_queues /\ to_parent' = to_parent
      BY <1>8, <2>2, ThreadConstants DEF T!WorkerStep
    <3>2. AnswersStay
      BY <2>1, <3>1, AnswerKept
    <3>3. \A x \in QueueWorker : worker[x] \in Caller => worker'[x] = worker[x]
      BY <2>1, <2>2, ThreadConstants
    <3>4. \A c \in Caller : T!Waiting(c) => T!Waiting(c)'
      BY <1>0, <2>1, <3>1, <3>3, WaitingKept, <1>u
    <3> QED
      BY <1>0, <2>1, <3>2, <3>4, KeptFrame DEF Kept
  <2>3. CASE worker[w] = "get"
    <3>1. /\ served \in T!Queue /\ method_queues[served] # <<>> /\ T!TakeCall(served)
          /\ worker' = [worker EXCEPT ![w] = Head(method_queues[served])]
          /\ to_parent' = to_parent
      BY <1>0, <1>8, <2>3, ThreadConstants DEF T!WorkerStep, HasQueue, Types
    <3>2. AnswersStay
      BY <2>1, <3>1, AnswerKept
    <3>3. worker'[w] = Head(method_queues[served])
      BY <1>0, <3>1 DEF Types
    <3>4. \A x \in QueueWorker : worker[x] \in Caller => worker'[x] = worker[x]
      BY <2>1, <2>3, ThreadConstants
    <3>5. \E x \in QueueWorker : worker'[x] = Head(method_queues[served])
      BY <3>3
    <3>6. \A c \in Caller : T!Waiting(c) => T!Waiting(c)'
      BY <1>0, <2>1, <3>1, <3>4, <3>5, TakenKept, <1>u
    <3> QED
      BY <1>0, <2>1, <3>2, <3>6, KeptFrame DEF Kept
  <2>4. CASE worker[w] \in Caller
    <3>1. T!Finish(worker[w]) /\ method_queues' = method_queues
      BY <1>8, <2>4, ThreadConstants DEF T!WorkerStep
    <3>2. T!ToSet(to_parent) \subseteq T!ToSet(to_parent')
          /\ \A c \in Caller : c = worker[w] => T!Answered(c)'
      BY <1>0, <2>1, <2>4, <3>1, Finished
    <3>3. AnswersStay
      BY <2>1, <3>2, AnswerKept
    <3>4. \A c \in Caller : T!Waiting(c) => c = worker[w] \/ T!Waiting(c)'
      BY <2>1, <3>1, <3>2 DEF T!Waiting, T!Queue, T!Put
    <3>5. \A c \in Caller : T!Waiting(c) => Kept(c)
      BY <3>2, <3>4 DEF Kept
    <3> QED
      BY <1>0, <2>1, <3>3, <3>5, KeptFrame
  <2> QED
    BY <1>8, <2>2, <2>3, <2>4 DEF T!WorkerStep
<1>9. ASSUME NEW s \in Stopper, T!Stop(s) PROVE T!CallKept'
  <2>1. UNCHANGED <<promise, to_parent, callpc, method_queues, worker, flushed>>
        /\ to_thread' \in {to_thread, Append(to_thread, None)}
    BY <1>9 DEF T!Stop, T!SetStopped
  <2>2. T!ToSet(to_thread) \subseteq T!ToSet(to_thread')
    BY <1>0, <2>1, SentTyped
  <2>3. AnswersStay
    BY <2>1, AnswerKept
  <2>4. \A c \in Caller : T!Waiting(c) => T!Waiting(c)'
    BY <1>0, <2>1, <2>2, WaitingKept, <1>u
  <2> QED
    BY <1>0, <2>1, <2>3, <2>4, KeptFrame DEF Kept
<1>10. ASSUME NEW c \in Caller, T!CallGoesOn(c) \/ T!CallThread(c) PROVE T!CallKept'
  <2>1. UNCHANGED <<promise, method_queues, worker, flushed>>
        /\ \A d \in Caller \ {c} : callpc'[d] = callpc[d]
    BY <1>0, <1>10 DEF T!CallGoesOn, T!CallThread, Types
  <2>2. \/ T!Send(c)
        \/ callpc'[c] # "sent" /\ UNCHANGED <<to_thread, to_parent>>
    BY <1>0, <1>10 DEF T!CallGoesOn, T!CallThread, Types
  <2>3. /\ T!ToSet(to_thread) \subseteq T!ToSet(to_thread')
        /\ T!ToSet(to_parent) \subseteq T!ToSet(to_parent') /\ Puts \subseteq Puts'
        /\ callpc'[c] = "sent" => c \in T!ToSet(to_thread') \cup Puts'
    BY <1>0, <1>u, <2>2, Sent
  <2>4. AnswersStay
    BY <2>1, <2>3, AnswerKept
  <2>5. \A d \in Caller : T!Waiting(d) => T!Waiting(d)'
    BY <1>0, <2>1, <2>3, WaitingKept
  <2> QED
    BY <1>0, <2>1, <2>3, <2>4, <2>5, KeptFrame DEF Kept
<1>11. ASSUME NEW c \in Caller, T!CallCancelled(c) PROVE T!CallKept'
  <2>1. UNCHANGED <<to_parent, to_thread, method_queues, flushed, worker, callpc>>
        /\ \A d \in Caller : promise[d] # "pending" => promise'[d] # "pending"
    BY <1>0, <1>11 DEF T!CallCancelled, Types
  <2>2. AnswersStay
    BY <2>1, Zenon DEF AnswersStay, T!Answered, T!Answer, T!How
  <2>3. \A d \in Caller : T!Waiting(d) => T!Waiting(d)'
    BY <1>0, <2>1, WaitingKept, <1>u
  <2> QED
    BY <1>0, <2>1, <2>2, <2>3, KeptFrame DEF Kept
<1>12. ASSUME NEW w \in QueueWorker, T!TakenTwice(w) PROVE T!CallKept'
  <2>1. UNCHANGED <<promise, to_parent, to_thread, callpc>>
    BY <1>0, <1>12, TwiceIs
  <2>2. AnswersStay
    BY <2>1, AnswerKept
  <2>3. \A x \in QueueWorker : worker[x] \in Caller => worker'[x] = worker[x]
    BY <1>0, <1>12, TwiceIs, ThreadConstants
  <2>4. \/ flushed' = Head(method_queues[served])
        \/ flushed' = flushed /\ \E x \in QueueWorker : worker'[x] = Head(method_queues[served])
    BY <1>0, <1>12, TwiceIs
  <2>5. \A c \in Caller : T!Waiting(c) => T!Waiting(c)'
    BY <1>0, <1>12, <1>u, <2>1, <2>3, <2>4, TwiceIs, TakenKept
  <2> QED
    BY <1>0, <2>1, <2>2, <2>5, KeptFrame DEF Kept
<1> QED
  BY ThreadCalm, <1>1, <1>2, <1>3, <1>4, <1>5, <1>6, <1>7, <1>8, <1>9, <1>10, <1>11, <1>12 DEF Moving

-----------------------------------------------------------------------------
(* The thread.                                                             *)

LEMMA ThreadInit == Init => ThreadInv
<1> SUFFICES ASSUME Init PROVE ThreadInv
  OBVIOUS
<1>1. T!Init
  BY DEF Init
<1> USE DEF T!Init
<1>2. Types
  <2>1. /\ to_parent \in Seq(Message) /\ to_thread \in Seq(Caller \cup {None})
        /\ method_queues \in [T!Queue -> Seq(Caller)]
        /\ loop \in [T!Queue -> {"parent", "thread"}]
    BY <1>1
  <2>2. /\ stoppc \in [Stopper -> {"idle", "shutdown", "join", "done", "skipped", "timeout"}]
        /\ callpc \in [Caller -> {"idle", "create", "return", "sent"}]
        /\ promise \in [Caller -> {"pending", "cancelled"} \cup T!How]
        /\ qid \in [Caller -> T!Queue \cup {0}]
        /\ worker \in [QueueWorker -> {"off", "wait", "get"} \cup Caller]
    BY <1>1
  <2> QED
    BY <1>1, <2>1, <2>2 DEF Types, ThreadPC
<1>3. MadeBound
  <2>1. {c \in Caller : callpc[c] \in {"return", "sent"}} = {} /\ made = 0 /\ tpc = "none"
    BY <1>1
  <2> QED
    BY <2>1, FS_EmptySet DEF MadeBound, BeforeQueue
<1>4. HasQueue
  BY <1>1 DEF HasQueue, BeforeQueue
<1>5. Placed
  BY <1>1, ThreadConstants DEF Placed, Puts, T!ToSet
<1>6. Flushed /\ T!CallKept /\ T!StopMeansEnded
  BY <1>1 DEF Flushed, AfterFlush, AfterStop, T!CallKept, T!StopMeansEnded
<1> QED
  BY <1>1, <1>2, <1>3, <1>4, <1>5, <1>6, TypesAre DEF ThreadInv

LEMMA ThreadStays ==
    ASSUME ThreadInv, [T!Next]_(T!vars)
    PROVE  ThreadInv'
<1>1. CASE T!Next
  <2>1. T!TypeOK'
    <3>1. Types'
      BY <1>1, ThreadTyped
    <3>2. T!TypeOK' <=> Types'
      BY DEF T!TypeOK, Types, Message, ThreadPC, T!SetStopped
    <3> QED
      BY <3>1, <3>2
  <2> QED
    BY <1>1, <2>1, ThreadEnds, ThreadMakes, ThreadHasQueue, ThreadPlaced, ThreadFlushed,
       ThreadKept DEF ThreadInv
<1>2. CASE UNCHANGED T!vars
  BY <1>2 DEF T!vars, T!flags, T!parent, T!calls, T!mq, T!work, ThreadInv, T!TypeOK,
     T!StopMeansEnded, MadeBound, HasQueue, Placed, Puts, Flushed, WorkersOff, T!WorkersHere,
     T!CallKept, T!Waiting, T!Answered, T!Queue
<1> QED
  BY <1>1, <1>2

LEMMA ThreadInvariant == Spec => []ThreadInv
  BY ThreadInit, ThreadStays, PartSteps, PTL DEF Spec

\* stop() comes back after the end of the thread, a call is always somewhere or
\* answered, and when the thread has ended an unanswered call is one that came
\* after the flush, is for a queue nobody flushes, or is with a worker on the loop
\* of the parent: whatever calls, stops and cancellations are interleaved with the
\* thread, and whichever of the two threads makes the queue, and so has its loop.
THEOREM NoCallLost == Spec => []ThreadRight
<1>1. ASSUME ThreadInv, tpc = "ended", NEW c \in Caller, callpc[c] = "sent", ~T!Answered(c)
      PROVE  \/ c \in T!ToSet(to_thread) \cup late \/ T!Put(c) \in T!ToSet(to_parent)
             \/ qid[c] # flushing
             \/ loop[qid[c]] = "parent" /\ \E w \in QueueWorker : worker[w] = c
  <2>1. Types /\ Placed /\ Flushed /\ T!Waiting(c)
    BY <1>1, TypesAre DEF ThreadInv, T!CallKept
  <2>2. CASE \E q \in T!Queue : c \in T!ToSet(method_queues[q])
    <3>1. PICK q \in T!Queue : c \in T!ToSet(method_queues[q])
      BY <2>2
    <3>2. qid[c] = q /\ q # 0
      BY <2>1, <3>1, ThreadConstants DEF Placed
    <3> QED
      BY <1>1, <2>1, <3>1, <3>2 DEF Flushed, AfterFlush, AfterStop
  <2>3. CASE flushed = c
    BY <1>1, <2>1, <2>3, ThreadConstants DEF Placed
  <2>4. CASE \E w \in QueueWorker : worker[w] = c
    <3>1. PICK w \in QueueWorker : worker[w] = c
      BY <2>4
    <3>2. qid[c] = served /\ qid[c] # 0 /\ worker[w] # "off"
      BY <1>1, <2>1, <3>1, ThreadConstants DEF Placed
    <3>3. loop[served] \in {"parent", "thread"}
      BY <2>1, <3>2 DEF Types
    <3> QED
      BY <1>1, <2>1, <3>1, <3>2, <3>3 DEF Flushed, AfterStop, WorkersOff, T!WorkersHere
  <2> QED
    BY <2>1, <2>2, <2>3, <2>4 DEF T!Waiting
<1>2. ThreadInv => ThreadRight
  BY <1>1 DEF ThreadInv, ThreadRight, T!CallAnswered
<1> QED
  BY ThreadInvariant, <1>2, PTL

-----------------------------------------------------------------------------
(* The whole program.                                                      *)

\* The variables of every part have their types, whatever the constants.
THEOREM ProgramTypes == Spec => []TypeOK
<1>1. WaitInv /\ StampedeInv /\ QueueInv /\ RecorderInv /\ ThreadInv /\ WorkerInv /\ RestartInv
        => TypeOK
  BY DEF WaitInv, StampedeInv, QueueInv, RecorderInv, ThreadInv, WorkerInv, RestartInv, TypeOK
<1> QED
  BY WaitInvariant, StampedeInvariant, QueueInvariant, RecorderInvariant, ThreadInvariant,
     WorkerInvariant, RestartInvariant, <1>1, PTL
=============================================================================
