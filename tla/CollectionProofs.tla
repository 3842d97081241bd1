--------------------------- MODULE CollectionProofs ---------------------------
(* LRU caches, heaps and exit stacks: for any keys, items and callbacks.      *)
EXTENDS DataProofs

-----------------------------------------------------------------------------
(* LRU caches.                                                             *)

\* The keys of q come in the order of their last uses, as o has them.
ByUse(q, o) == Distinct(q) /\ \A i, j \in 1..Len(q) : i <= j => <<q[j], q[i]>> \notin o
Recency == older \subseteq Key \X Key /\ ByUse(data, older)

\* A key leaves the cache,
LEMMA KeyDropped ==
    ASSUME NEW q \in Seq(Key), NEW o, ByUse(q, o), NEW k \in Caches!ToSet(q)
    PROVE  /\ Caches!RemoveFirst(q, k) \in Seq(Key) /\ ByUse(Caches!RemoveFirst(q, k), o)
           /\ Len(Caches!RemoveFirst(q, k)) = Len(q) - 1
           /\ Caches!ToSet(Caches!RemoveFirst(q, k)) = Caches!ToSet(q) \ {k}
<1>0. Distinct(q)
  BY DEF ByUse
<1>1. Len(q) \in Nat /\ DOMAIN q = 1..Len(q)
  BY LenProperties
<1>2. PICK i \in 1..Len(q) : q[i] = k
  BY <1>1 DEF Caches!ToSet
<1>3. Caches!RemoveFirst(q, k) = SubSeq(q, 1, i - 1) \o SubSeq(q, i + 1, Len(q))
  <2>1. {j \in 1..Len(q) : q[j] = k} = {i}
    BY <1>0, <1>2 DEF Distinct
  <2>2. Caches!Min({i}) = i
    BY <1>1, <1>2 DEF Caches!Min
  <2>3. Caches!SelectInSeq(q, LAMBDA y : y = k) = i
    BY <2>1, <2>2 DEF Caches!SelectInSeq
  <2> QED
    BY <1>2, <2>3 DEF Caches!RemoveFirst, Caches!RemoveAt
<1> DEFINE r == Caches!RemoveFirst(q, k)
<1>4. Removed(q, i, r)
  BY <1>3 DEF Removed
<1> HIDE DEF r
<1>5. r \in Seq(Key) /\ Len(r) = Len(q) - 1 /\ Distinct(r)
  BY <1>0, <1>4, Removal, DistinctRemoval
<1>6. {r[j] : j \in DOMAIN r} = {q[j] : j \in DOMAIN q} \ {q[i]}
  BY <1>0, <1>4, DistinctRemoval
<1>7. ASSUME NEW j \in 1..Len(r), NEW l \in 1..Len(r), j <= l PROVE <<r[l], r[j]>> \notin o
  <2>1. \A n \in 1..(Len(q) - 1) :
          \/ n \in 1..(i - 1) /\ r[n] = q[n]
          \/ n \in i..(Len(q) - 1) /\ r[n] = q[n + 1]
    BY <1>4, Removal
  <2>2. PICK j1 \in 1..Len(q), l1 \in 1..Len(q) : j1 <= l1 /\ r[j] = q[j1] /\ r[l] = q[l1]
    <3>1. CASE j \in 1..(i - 1) /\ l \in 1..(i - 1)
      BY <1>1, <1>2, <1>5, <1>7, <2>1, <3>1
    <3>2. CASE j \in 1..(i - 1) /\ l \in i..(Len(q) - 1)
      BY <1>1, <1>2, <1>5, <1>7, <2>1, <3>2
    <3>3. CASE j \in i..(Len(q) - 1) /\ l \in i..(Len(q) - 1)
      BY <1>1, <1>2, <1>5, <1>7, <2>1, <3>3
    <3> QED
      BY <1>1, <1>2, <1>5, <1>7, <3>1, <3>2, <3>3
  <2> QED
    BY <2>2 DEF ByUse
<1>8. ByUse(r, o) /\ Caches!ToSet(r) = Caches!ToSet(q) \ {k}
  BY <1>2, <1>5, <1>6, <1>7 DEF ByUse, Caches!ToSet
<1> QED
  BY <1>5, <1>8 DEF r

\* is used while it is not in it,
LEMMA KeyUsed ==
    ASSUME NEW q \in Seq(Key), NEW o \in SUBSET (Key \X Key), ByUse(q, o), NEW k \in Key,
           k \notin Caches!ToSet(q)
    PROVE  /\ Caches!Use(o, k) \subseteq Key \X Key /\ ByUse(q, Caches!Use(o, k))
           /\ \A l \in Key : <<k, l>> \notin Caches!Use(o, k)
<1>1. DOMAIN q = 1..Len(q) /\ \A i \in 1..Len(q) : q[i] # k
  BY LenProperties DEF Caches!ToSet
<1>2. \A l \in Key : <<k, l>> \notin Caches!Use(o, k)
  BY DEF Caches!Use
<1>3. \A l, m : m # k /\ <<l, m>> \notin o => <<l, m>> \notin Caches!Use(o, k)
  BY DEF Caches!Use
<1>4. Caches!Use(o, k) \subseteq Key \X Key
  BY DEF Caches!Use
<1> QED
  BY <1>1, <1>2, <1>3, <1>4 DEF ByUse

\* and goes into it again as the newest.
LEMMA KeyAppended ==
    ASSUME NEW q \in Seq(Key), NEW o, ByUse(q, o), NEW k \in Key, k \notin Caches!ToSet(q),
           \A l \in Key : <<k, l>> \notin o
    PROVE  /\ Caches!Put(q, k) = Append(q, k) /\ Append(q, k) \in Seq(Key)
           /\ ByUse(Append(q, k), o) /\ Len(Append(q, k)) = Len(q) + 1
<1>1. Len(q) \in Nat /\ DOMAIN q = 1..Len(q) /\ \A i \in 1..Len(q) : q[i] \in Key
  BY LenProperties, ElementOfSeq
<1>2. \A i \in 1..Len(q) : q[i] # k
  BY <1>1 DEF Caches!ToSet
<1> DEFINE r == Append(q, k)
<1>3. r \in Seq(Key) /\ Len(r) = Len(q) + 1 /\ Distinct(r)
  BY <1>2, DistinctAppend DEF ByUse
<1>4. (\A i \in 1..Len(q) : r[i] = q[i]) /\ r[Len(q) + 1] = k
  BY AppendProperties
<1> HIDE DEF r
<1>5. ASSUME NEW i \in 1..Len(r), NEW j \in 1..Len(r), i <= j PROVE <<r[j], r[i]>> \notin o
  <2>1. CASE j \in 1..Len(q)
    <3>1. i \in 1..Len(q)
      BY <1>1, <1>3, <1>5, <2>1
    <3> QED
      BY <1>4, <1>5, <2>1, <3>1 DEF ByUse
  <2>2. CASE j = Len(q) + 1
    <3>1. r[i] \in Key
      BY <1>1, <1>3, <1>4
    <3> QED
      BY <1>4, <2>2, <3>1
  <2> QED
    BY <1>1, <1>3, <2>1, <2>2
<1>6. ByUse(r, o)
  BY <1>3, <1>5 DEF ByUse
<1>7. Caches!Put(q, k) = Append(q, k)
  BY DEF Caches!Put
<1> QED
  BY <1>3, <1>6, <1>7 DEF r

\* An assignment of a key.
LEMMA KeyPut ==
    ASSUME NEW q \in Seq(Key), NEW o \in SUBSET (Key \X Key), ByUse(q, o), NEW k \in Key
    PROVE  /\ Caches!Put(q, k) \in Seq(Key) /\ Len(Caches!Put(q, k)) \in {Len(q), Len(q) + 1}
           /\ Caches!Insertion(o, q, k) \subseteq Key \X Key
           /\ ByUse(Caches!Put(q, k), Caches!Insertion(o, q, k))
<1>1. CASE k \in Caches!ToSet(q)
  BY <1>1 DEF Caches!Put, Caches!Insertion
<1>2. CASE k \notin Caches!ToSet(q)
  <2>1. Caches!Insertion(o, q, k) = Caches!Use(o, k)
    BY <1>2 DEF Caches!Insertion
  <2> DEFINE o2 == Caches!Use(o, k)
  <2>2. o2 \subseteq Key \X Key /\ ByUse(q, o2) /\ \A l \in Key : <<k, l>> \notin o2
    BY <1>2, KeyUsed
  <2> HIDE DEF o2
  <2>3. /\ Caches!Put(q, k) = Append(q, k) /\ Append(q, k) \in Seq(Key)
        /\ ByUse(Append(q, k), o2) /\ Len(Append(q, k)) = Len(q) + 1
    BY <1>2, <2>2, KeyAppended
  <2> QED
    BY <2>1, <2>2, <2>3 DEF o2
<1> QED
  BY <1>1, <1>2

\* What a thread inside a call of a cache may count on.
AtWork(t) ==
    /\ lpc[t] \in {"take", "limit", "first", "evict", "store"} => key[t] \in Key
    /\ lpc[t] = "evict" => victim[t] \in Key
    /\ lpc[t] = "store" => Len(data) < Limit
    /\ lpc[t] = "trim" => Len(data) <= Limit + excess[t]
    /\ lpc[t] = "evict" => Caches!OldestOf(victim[t])
    /\ t \notin disturbed =>
         /\ lpc[t] = "first" => Len(data) >= Limit
         /\ lpc[t] = "evict" => data # <<>> /\ victim[t] = Head(data)
         /\ lpc[t] = "trim" /\ excess[t] > 0 => Len(data) = Limit + excess[t]

\* A key that is read is out of the cache until it is the newest in it.
Reading(t) ==
    lpc[t] \in {"limit", "first", "evict", "store"} /\ op[t] # "set" =>
      key[t] \notin Caches!ToSet(data) /\ \A l \in Key : <<key[t], l>> \notin older

LRUInv ==
    /\ Caches!TypeOK /\ Recency
    /\ \A t \in Thread : lpc[t] # "idle" \/ t \in iterating => mutex = t
    /\ \A t \in Thread : AtWork(t) /\ Reading(t)
    /\ Caches!CacheRight

LEMMA KeyCount == Caches!Cardinality(Key) = Cardinality(Key) /\ Cardinality(Key) \in Nat
<1>1. IsFiniteSet(Key)
  BY DataConstants
<1>2. Cardinality(Key) \in Nat
  BY <1>1, FS_CardinalityType
<1> QED
  BY <1>2, Zenon DEF Caches!Cardinality, Cardinality

LEMMA LRUInit == Init => LRUInv
<1> SUFFICES ASSUME Caches!Init PROVE LRUInv
  BY DEF Init
<1> USE DataConstants DEF Caches!Init, Caches!Nothing
<1>0. 0 \in 0..Caches!Cardinality(Key)
  BY KeyCount
<1>1. Caches!TypeOK
  BY <1>0 DEF Caches!TypeOK
<1>2. Recency
  BY DEF Recency, ByUse, Distinct
<1>3. \A t \in Thread : AtWork(t) /\ Reading(t)
  BY DEF AtWork, Reading
<1>4. Caches!CacheRight
  BY DEF Caches!CacheRight, Caches!WithinLimit, Caches!LeastRecent
<1> QED
  BY <1>1, <1>2, <1>3, <1>4 DEF LRUInv

\* A thread with the lock is the only one at work.
LEMMA Alone ==
    ASSUME LRUInv, NEW t \in Thread, mutex \in {None, t}
    PROVE  \A u \in Thread \ {t} : lpc[u] = "idle" /\ u \notin iterating
BY DataConstants DEF LRUInv

\* The first key is the oldest.
LEMMA OldestFirst ==
    ASSUME NEW q \in Seq(Key), NEW o, ByUse(q, o), q # <<>>
    PROVE  \A l \in Caches!ToSet(q) : <<l, Head(q)>> \notin o
<1>1. Len(q) \in Nat /\ Len(q) >= 1 /\ DOMAIN q = 1..Len(q) /\ Head(q) = q[1]
  BY LenProperties, EmptySeq, HeadTailProperties
<1>2. ASSUME NEW i \in 1..Len(q) PROVE <<q[i], q[1]>> \notin o
  BY <1>1, <1>2 DEF ByUse
<1> QED
  BY <1>1, <1>2 DEF Caches!ToSet

\* A step of the thread with the lock.
LEMMA LockedStep ==
    ASSUME LRUInv, NEW t \in Thread, mutex \in {None, t},
           lpc' \in [Thread -> {"idle", "take", "limit", "first", "evict", "store", "trim"}],
           \A u \in Thread \ {t} : lpc'[u] = lpc[u],
           iterating' \in SUBSET Thread, iterating' \ {t} = iterating \ {t},
           mutex' \in {None, t}, lpc'[t] # "idle" \/ t \in iterating' => mutex' = t,
           Caches!TypeOK', Recency', AtWork(t)', Reading(t)', broken' = {},
           lpc'[t] # "trim" => Len(data') <= Limit
    PROVE  LRUInv'
<1>1. \A u \in Thread \ {t} : lpc[u] = "idle" /\ u \notin iterating
  BY Alone
<1>2. \A u \in Thread \ {t} : lpc'[u] = "idle" /\ u \notin iterating'
  BY <1>1
<1>3. \A u \in Thread : AtWork(u)' /\ Reading(u)'
  BY <1>2 DEF AtWork, Reading
<1>4. Caches!CacheRight'
  <2>1. Caches!WithinLimit'
    BY DEF Caches!WithinLimit
  <2>2. Caches!LeastRecent'
    <3>1. data' # <<>> => \A l \in Caches!ToSet(data') : <<l, Head(data')>> \notin older'
      BY OldestFirst DEF Recency, Caches!TypeOK
    <3> QED
      BY <1>3, <3>1 DEF Caches!LeastRecent, Caches!OldestOf, Caches!Oldest, AtWork
  <2> QED
    BY <2>1, <2>2 DEF Caches!CacheRight
<1> QED
  BY <1>2, <1>3, <1>4 DEF LRUInv

LEMMA LRUNext ==
    ASSUME LRUInv, [Caches!Next]_(Caches!vars)
    PROVE  LRUInv'
<1> DEFINE Pcs == {"idle", "take", "limit", "first", "evict", "store", "trim"}
<1>0. /\ Caches!TypeOK /\ Recency /\ Limit \in Nat \ {0}
      /\ broken = {} /\ Len(data) \in Nat
      /\ \A t \in Thread : (lpc[t] # "idle" \/ t \in iterating => mutex = t) /\ AtWork(t) /\ Reading(t)
  BY DataConstants, LenProperties DEF LRUInv, Caches!TypeOK, Caches!CacheRight
<1>1. ASSUME NEW t \in Thread, mutex \in {None, t}, lpc[t] # "trim" PROVE Len(data) <= Limit
  <2>1. \A u \in Thread : lpc[u] # "trim"
    BY <1>1, Alone
  <2> QED
    BY <2>1 DEF LRUInv, Caches!CacheRight, Caches!WithinLimit
<1>2. ASSUME NEW k \in Caches!ToSet(data), Caches!Drop(k)
      PROVE  /\ data' \in Seq(Key) /\ Len(data') = Len(data) - 1
             /\ Caches!ToSet(data') = Caches!ToSet(data) \ {k}
             /\ ByUse(data', older) /\ (older' = older => Recency')
  BY <1>0, <1>2, KeyDropped DEF Caches!Drop, Caches!TypeOK, Recency
<1>3. ASSUME data # <<>>
      PROVE  Head(data) \in Caches!ToSet(data) /\ Caches!Last(data) \in Caches!ToSet(data) /\ Head(data) \in Key
             /\ Len(data) >= 1
  <2>1. data \in Seq(Key)
    BY <1>0 DEF Caches!TypeOK
  <2>2. Len(data) >= 1 /\ DOMAIN data = 1..Len(data) /\ Head(data) = data[1]
    BY <1>0, <1>3, <2>1, LenProperties, EmptySeq, HeadTailProperties
  <2>3. 1 \in DOMAIN data /\ Len(data) \in DOMAIN data
    BY <1>0, <2>2
  <2> QED
    BY <2>1, <2>2, <2>3, ElementOfSeq DEF Caches!ToSet, Caches!Last
<1>4. ASSUME NEW t \in Thread, NEW o \in {"get", "set", "incr"}, NEW k \in Key, Caches!Call(t, o, k)
      PROVE  LRUInv'
  <2>1. /\ mutex \in {None, t} /\ lpc[t] = "idle" /\ mutex' = t /\ data' = data /\ older' = older
        /\ lpc' \in [Thread -> Pcs] /\ (\A u \in Thread \ {t} : lpc'[u] = lpc[u])
        /\ lpc'[t] \in {"limit", "take"} /\ key'[t] = k /\ Caches!TypeOK'
        /\ (lpc'[t] = "limit" => op'[t] = "set")
        /\ broken' = {} /\ iterating' = iterating
    BY <1>0, <1>4 DEF Caches!Call, Caches!TypeOK, Caches!Free, Caches!cache
  <2>2. AtWork(t)' /\ Reading(t)' /\ Recency'
    BY <1>0, <2>1 DEF AtWork, Reading, Recency
  <2>3. Len(data') <= Limit
    BY <1>1, <2>1
  <2>4. iterating \in SUBSET Thread
    BY <1>0 DEF Caches!TypeOK
  <2> QED
    BY <1>0, <2>1, <2>2, <2>3, <2>4, LockedStep
\* The end of a call.
<1>5. ASSUME NEW t \in Thread, Caches!Leave(t), broken' = {}, mutex = t, iterating' = iterating,
             data' \in Seq(Key), Recency', Len(data') <= Limit,
             excess' \in [Thread -> 0..Caches!Cardinality(Key)]
      PROVE  LRUInv'
  <2>1. /\ lpc' \in [Thread -> Pcs] /\ (\A u \in Thread \ {t} : lpc'[u] = lpc[u])
        /\ lpc'[t] = "idle" /\ iterating \in SUBSET Thread
    BY <1>0, <1>5 DEF Caches!Leave, Caches!TypeOK
  <2>2. mutex' \in {None, t} /\ (t \in iterating => mutex' = t)
    BY <1>5 DEF Caches!Leave
  <2>3. Caches!TypeOK'
    BY <1>0, <1>5 DEF Caches!Leave, Caches!TypeOK, Recency
  <2>4. AtWork(t)' /\ Reading(t)'
    BY <2>1 DEF AtWork, Reading
  <2> QED
    BY <1>5, <2>1, <2>2, <2>3, <2>4, LockedStep
<1>6. ASSUME NEW t \in Thread, NEW l \in Pcs, lpc[t] # "idle", Caches!Goto(t, l), l # "idle",
             iterating' = iterating,
             data' \in Seq(Key), Recency',
             l # "trim" => Len(data') <= Limit,
             excess' \in [Thread -> 0..Caches!Cardinality(Key)], AtWork(t)', Reading(t)'
      PROVE  LRUInv'
  <2>1. mutex = t /\ mutex' = t /\ broken' = {}
    BY <1>0, <1>6 DEF Caches!Goto
  <2>2. /\ lpc' \in [Thread -> Pcs] /\ (\A u \in Thread \ {t} : lpc'[u] = lpc[u])
        /\ lpc'[t] = l /\ iterating \in SUBSET Thread
    BY <1>0, <1>6 DEF Caches!Goto, Caches!TypeOK
  <2>3. Caches!TypeOK'
    BY <1>0, <1>6 DEF Caches!Goto, Caches!TypeOK, Recency
  <2> QED
    BY <1>6, <2>1, <2>2, <2>3, LockedStep
<1>7. ASSUME NEW t \in Thread, Caches!Take(t) PROVE LRUInv'
  <2>1. /\ lpc[t] = "take" /\ mutex = t /\ key[t] \in Key /\ iterating' = iterating
        /\ excess' = excess /\ excess' \in [Thread -> 0..Caches!Cardinality(Key)]
        /\ data \in Seq(Key)
    BY <1>0, <1>7 DEF Caches!Take, AtWork, Caches!TypeOK
  <2>2. Len(data) <= Limit
    BY <1>1, <2>1
  <2>3. CASE key[t] \notin Caches!ToSet(data) /\ Caches!Returns(t) /\ UNCHANGED Caches!cache
    <3>1. data' = data /\ older' = older /\ Recency'
      BY <1>0, <2>3 DEF Caches!cache, Recency
    <3> QED
      BY <1>0, <1>5, <2>1, <2>2, <2>3, <3>1 DEF Caches!Returns
  <2>4. ASSUME key[t] \in Caches!ToSet(data), Caches!Read(key[t])
        PROVE  /\ data' \in Seq(Key) /\ Recency' /\ Len(data') <= Limit
               /\ key[t] \notin Caches!ToSet(data') /\ \A l \in Key : <<key[t], l>> \notin older'
    <3>1. Caches!Drop(key[t]) /\ older' = Caches!Use(older, key[t])
      BY <2>4 DEF Caches!Read
    <3>2. /\ data' \in Seq(Key) /\ Len(data') = Len(data) - 1 /\ ByUse(data', older)
          /\ key[t] \notin Caches!ToSet(data')
      BY <1>2, <2>4, <3>1
    <3>3. older \in SUBSET (Key \X Key)
      BY <1>0 DEF Recency
    <3>4. /\ older' \subseteq Key \X Key /\ ByUse(data', older')
          /\ \A l \in Key : <<key[t], l>> \notin older'
      BY <2>1, <3>1, <3>2, <3>3, KeyUsed
    <3> QED
      BY <1>0, <2>2, <3>2, <3>4 DEF Recency
  <2>5. CASE key[t] \in Caches!ToSet(data) /\ Caches!Read(key[t]) /\ Caches!Goto(t, "limit")
    <3>1. lpc'[t] = "limit" /\ key'[t] = key[t]
      BY <1>0, <2>5 DEF Caches!Goto, Caches!TypeOK
    <3>2. AtWork(t)'
      BY <2>1, <3>1 DEF AtWork
    <3>3. Reading(t)'
      BY <2>4, <2>5, <3>1 DEF Reading
    <3> QED
      BY <1>6, <2>1, <2>4, <2>5, <3>2, <3>3
  <2>6. CASE key[t] \in Caches!ToSet(data) /\ Caches!Read(key[t]) /\ Caches!Returns(t)
    BY <1>0, <1>5, <2>1, <2>4, <2>6 DEF Caches!Returns
  <2> QED
    BY <1>7, <2>3, <2>5, <2>6 DEF Caches!Take
<1>8. ASSUME NEW t \in Thread, Caches!CheckLimit(t) PROVE LRUInv'
  <2>1. /\ lpc[t] = "limit" /\ mutex = t /\ key[t] \in Key /\ iterating' = iterating
        /\ excess' = excess /\ excess' \in [Thread -> 0..Caches!Cardinality(Key)]
        /\ data \in Seq(Key) /\ data' = data /\ older' = older
    BY <1>0, <1>8 DEF Caches!CheckLimit, AtWork, Caches!TypeOK, Caches!cache
  <2>2. Len(data) <= Limit
    BY <1>1, <2>1
  <2>3. PICK l \in {"first", "store"} :
            Caches!Goto(t, l) /\ (l = "first" <=> Len(data) >= Limit)
    BY <1>8 DEF Caches!CheckLimit
  <2>4. lpc'[t] = l /\ key'[t] = key[t] /\ op'[t] = op[t]
    BY <1>0, <2>3 DEF Caches!Goto, Caches!TypeOK
  <2>5. AtWork(t)'
    BY <1>0, <2>1, <2>3, <2>4 DEF AtWork
  <2>6. Reading(t)' /\ Recency'
    BY <1>0, <2>1, <2>4 DEF Reading, Recency
  <2> QED
    BY <1>0, <1>6, <2>1, <2>2, <2>3, <2>5, <2>6
<1>9. ASSUME NEW t \in Thread, Caches!First(t) PROVE LRUInv'
  <2>1. /\ lpc[t] = "first" /\ mutex = t /\ key[t] \in Key /\ iterating' = iterating
        /\ excess' = excess /\ excess' \in [Thread -> 0..Caches!Cardinality(Key)]
        /\ data \in Seq(Key) /\ data' = data /\ older' = older /\ iterating \in SUBSET Thread
    BY <1>0, <1>9 DEF Caches!First, AtWork, Caches!TypeOK, Caches!cache
  <2>2. Len(data) <= Limit
    BY <1>1, <2>1
  <2>3. CASE data = <<>>
    <3>1. t \in disturbed
      BY <1>0, <2>1, <2>3, EmptySeq DEF AtWork
    <3>2. Caches!Leave(t) /\ broken' = {}
      BY <1>0, <1>9, <2>3, <3>1 DEF Caches!First, Caches!Breaks
    <3>3. Recency'
      BY <1>0, <2>1 DEF Recency
    <3> QED
      BY <1>0, <1>5, <2>1, <2>2, <3>2, <3>3
  <2>4. CASE data # <<>>
    <3>1. /\ victim' = [victim EXCEPT ![t] = Head(data)] /\ lpc' = [lpc EXCEPT ![t] = "evict"]
          /\ UNCHANGED <<mutex, op, key, disturbed, broken>>
      BY <1>9, <2>4 DEF Caches!First, Caches!Oldest
    <3>2. Head(data) \in Key
      BY <1>3, <2>4
    <3>3. Caches!TypeOK' /\ lpc' \in [Thread -> Pcs] /\ lpc'[t] = "evict" /\ victim'[t] = Head(data)
          /\ key'[t] = key[t]
      BY <1>0, <2>1, <3>1, <3>2 DEF Caches!TypeOK
    <3>4. \A u \in Thread \ {t} : lpc'[u] = lpc[u]
      BY <1>0, <3>1 DEF Caches!TypeOK
    <3>5. AtWork(t)'
      <4>1. \A l \in Caches!ToSet(data) : <<l, Head(data)>> \notin older
        BY <1>0, <2>1, <2>4, OldestFirst DEF Recency
      <4> QED
        BY <2>1, <2>4, <3>1, <3>2, <3>3, <4>1 DEF AtWork, Caches!OldestOf
    <3>6. Reading(t)' /\ Recency'
      BY <1>0, <2>1, <3>1, <3>3 DEF Reading, Recency
    <3> QED
      BY <1>0, <2>1, <2>2, <3>1, <3>3, <3>4, <3>5, <3>6, LockedStep
  <2> QED
    BY <2>3, <2>4
<1>10. ASSUME NEW t \in Thread, Caches!Evict(t) PROVE LRUInv'
  <2>1. /\ lpc[t] = "evict" /\ mutex = t /\ key[t] \in Key /\ iterating' = iterating
        /\ excess' = excess /\ excess' \in [Thread -> 0..Caches!Cardinality(Key)]
        /\ data \in Seq(Key)
    BY <1>0, <1>10 DEF Caches!Evict, AtWork, Caches!TypeOK
  <2>2. Len(data) <= Limit
    BY <1>1, <2>1
  <2>3. CASE victim[t] \in Caches!ToSet(data)
    <3>1. Caches!Drop(victim[t]) /\ Caches!Goto(t, "store") /\ older' = older
      BY <1>10, <2>3 DEF Caches!Evict
    <3>2. /\ data' \in Seq(Key) /\ Recency' /\ Len(data') = Len(data) - 1
          /\ Caches!ToSet(data') \subseteq Caches!ToSet(data)
      BY <1>2, <2>3, <3>1
    <3>3. lpc'[t] = "store" /\ key'[t] = key[t] /\ op'[t] = op[t]
      BY <1>0, <3>1 DEF Caches!Goto, Caches!TypeOK
    <3>4. Len(data') < Limit
      BY <1>0, <2>2, <3>2
    <3>5. AtWork(t)'
      BY <2>1, <3>3, <3>4 DEF AtWork
    <3>6. Len(data') <= Limit
      BY <1>0, <2>2, <3>2
    <3>7. Reading(t)'
      BY <1>0, <2>1, <3>1, <3>2, <3>3 DEF Reading
    <3> QED
      BY <1>6, <2>1, <3>1, <3>2, <3>5, <3>6, <3>7
  <2>4. CASE victim[t] \notin Caches!ToSet(data)
    <3>1. t \in disturbed
      BY <1>0, <1>3, <2>1, <2>4 DEF AtWork
    <3>2. Caches!Leave(t) /\ broken' = {} /\ data' = data /\ older' = older
      BY <1>0, <1>10, <2>4, <3>1 DEF Caches!Evict, Caches!Breaks, Caches!cache
    <3>3. Recency'
      BY <1>0, <3>2 DEF Recency
    <3> QED
      BY <1>0, <1>5, <2>1, <2>2, <3>2, <3>3
  <2> QED
    BY <2>3, <2>4
<1>11. ASSUME NEW t \in Thread, Caches!Store(t) PROVE LRUInv'
  <2>1. /\ lpc[t] = "store" /\ mutex = t /\ key[t] \in Key /\ iterating' = iterating
        /\ excess' = excess /\ excess' \in [Thread -> 0..Caches!Cardinality(Key)]
        /\ data \in Seq(Key) /\ Len(data) < Limit /\ Caches!Returns(t)
        /\ data' = Caches!Put(data, key[t])
        /\ older' = IF op[t] = "set" THEN Caches!Insertion(older, data, key[t]) ELSE older
    BY <1>0, <1>11 DEF Caches!Store, AtWork, Caches!TypeOK
  <2>2. older \in SUBSET (Key \X Key) /\ ByUse(data, older)
    BY <1>0 DEF Recency
  <2>3. data' \in Seq(Key) /\ Recency' /\ Len(data') \in {Len(data), Len(data) + 1}
    <3>1. CASE op[t] = "set"
      BY <2>1, <2>2, <3>1, KeyPut DEF Recency
    <3>2. CASE op[t] # "set"
      <4>1. key[t] \notin Caches!ToSet(data) /\ \A l \in Key : <<key[t], l>> \notin older
        BY <1>0, <2>1, <3>2 DEF Reading
      <4> QED
        BY <2>1, <2>2, <3>2, <4>1, KeyAppended DEF Recency
    <3> QED
      BY <3>1, <3>2
  <2>4. Len(data') <= Limit
    BY <1>0, <2>1, <2>3
  <2> QED
    BY <1>0, <1>5, <2>1, <2>3, <2>4 DEF Caches!Returns
<1>12. ASSUME NEW t \in Thread, NEW k \in Key, NEW l \in Key, Caches!Update(t, k, l) PROVE LRUInv'
  <2>1. /\ mutex \in {None, t} /\ lpc[t] = "idle" /\ mutex' = t /\ broken' = {}
        /\ lpc' = [lpc EXCEPT ![t] = "trim"]
        /\ data' = Caches!Put(Caches!Put(data, k), l)
        /\ older' = Caches!Insertion(Caches!Insertion(older, data, k), Caches!Put(data, k), l)
        /\ excess' = [excess EXCEPT ![t] = IF Len(data') > Limit THEN Len(data') - Limit ELSE 0]
        /\ UNCHANGED <<op, key, victim, iterating, disturbed>>
    BY <1>0, <1>12 DEF Caches!Update, Caches!Free, Caches!Surplus
  <2> DEFINE q == Caches!Put(data, k)
             o == Caches!Insertion(older, data, k)
  <2>2. q \in Seq(Key) /\ o \in SUBSET (Key \X Key) /\ ByUse(q, o)
    BY <1>0, KeyPut DEF Caches!TypeOK, Recency
  <2>3. data' = Caches!Put(q, l) /\ older' = Caches!Insertion(o, q, l)
    BY <2>1
  <2> HIDE DEF q, o
  <2>5. data' \in Seq(Key) /\ Recency' /\ Distinct(data')
    BY <2>2, <2>3, KeyPut DEF Recency, ByUse
  <2>6. Len(data') \in Nat /\ Len(data') <= Cardinality(Key)
    <3>1. IsFiniteSet(Key)
      BY DataConstants
    <3> QED
      BY <2>5, <3>1, DistinctBound, LenProperties
  <2>7. PICK n \in 0..Caches!Cardinality(Key) :
          /\ excess' = [excess EXCEPT ![t] = n]
          /\ Len(data') <= Limit + n /\ (n > 0 => Len(data') = Limit + n)
    <3>1. CASE Len(data') > Limit
      <4>1. Len(data') - Limit \in 0..Caches!Cardinality(Key)
        BY <1>0, <2>6, <3>1, KeyCount
      <4>2. excess' = [excess EXCEPT ![t] = Len(data') - Limit]
        BY <2>1, <3>1
      <4> DEFINE m == Len(data') - Limit
      <4>3. Len(data') <= Limit + m /\ Len(data') = Limit + m
        BY <1>0, <2>6
      <4>4. m \in 0..Caches!Cardinality(Key) /\ excess' = [excess EXCEPT ![t] = m]
        BY <4>1, <4>2
      <4> HIDE DEF m
      <4> QED
        BY <4>3, <4>4
    <3>2. CASE ~(Len(data') > Limit)
      <4>1. 0 \in 0..Caches!Cardinality(Key)
        BY KeyCount
      <4>2. excess' = [excess EXCEPT ![t] = 0]
        BY <2>1, <3>2
      <4>3. Len(data') <= Limit + 0 /\ ~(0 > 0)
        BY <1>0, <2>6, <3>2
      <4> QED
        BY <4>1, <4>2, <4>3
    <3> QED
      BY <3>1, <3>2
  <2>8. Caches!TypeOK' /\ lpc' \in [Thread -> Pcs] /\ lpc'[t] = "trim" /\ excess'[t] = n
        /\ iterating' \in SUBSET Thread
    <3>1. /\ excess \in [Thread -> 0..Caches!Cardinality(Key)] /\ lpc \in [Thread -> Pcs]
          /\ {iterating, disturbed, broken} \subseteq SUBSET Thread
      BY <1>0 DEF Caches!TypeOK
    <3>2. excess' \in [Thread -> 0..Caches!Cardinality(Key)] /\ excess'[t] = n
      BY <2>7, <3>1
    <3>3. lpc' \in [Thread -> Pcs] /\ lpc'[t] = "trim"
      BY <2>1, <3>1
    <3>4. {iterating', disturbed', broken'} \subseteq SUBSET Thread
      BY <1>0, <2>1, <3>1
    <3> QED
      BY <1>0, <2>1, <2>5, <3>2, <3>3, <3>4 DEF Caches!TypeOK, Recency
  <2>9. \A u \in Thread \ {t} : lpc'[u] = lpc[u]
    BY <1>0, <2>1 DEF Caches!TypeOK
  <2>10. AtWork(t)' /\ Reading(t)'
    BY <2>7, <2>8 DEF AtWork, Reading
  <2> QED
    BY <2>1, <2>5, <2>8, <2>9, <2>10, LockedStep
<1>13. ASSUME NEW t \in Thread, Caches!Trim(t) PROVE LRUInv'
  <2>1. /\ lpc[t] = "trim" /\ mutex = t /\ iterating' = iterating
        /\ excess \in [Thread -> 0..Caches!Cardinality(Key)] /\ excess[t] \in Nat
        /\ data \in Seq(Key) /\ Len(data) <= Limit + excess[t]
        /\ Caches!Cardinality(Key) \in Nat /\ excess[t] <= Caches!Cardinality(Key)
    BY <1>0, <1>13, KeyCount DEF Caches!Trim, AtWork, Caches!TypeOK
  <2>2. CASE excess[t] = 0 /\ Caches!Returns(t) /\ UNCHANGED <<Caches!cache, excess>>
    <3>1. data' = data /\ older' = older /\ Recency' /\ excess' = excess
      BY <1>0, <2>2 DEF Caches!cache, Recency
    <3> QED
      BY <1>0, <1>5, <2>1, <2>2, <3>1 DEF Caches!Returns
  <2>3. CASE /\ excess[t] > 0 /\ data # <<>> /\ Caches!Drop(Head(data)) /\ Caches!Goto(t, "trim")
             /\ older' = older
             /\ excess' = [excess EXCEPT ![t] = @ - 1]
    <3>1. data' \in Seq(Key) /\ Recency' /\ Len(data') = Len(data) - 1
      BY <1>2, <1>3, <2>3
    <3>2. excess' \in [Thread -> 0..Caches!Cardinality(Key)] /\ excess'[t] = excess[t] - 1
      BY <2>1, <2>3
    <3>3. lpc'[t] = "trim" /\ disturbed' = disturbed
      BY <1>0, <2>3 DEF Caches!Goto, Caches!TypeOK
    <3>4. Len(data') <= Limit + excess'[t]
      BY <1>0, <2>1, <3>1, <3>2
    <3>5. t \notin disturbed' /\ excess'[t] > 0 => Len(data') = Limit + excess'[t]
      <4>1. ASSUME t \notin disturbed PROVE Len(data) = Limit + excess[t]
        BY <1>0, <2>1, <2>3, <4>1 DEF AtWork
      <4>2. ASSUME Len(data) = Limit + excess[t] PROVE Len(data') = Limit + excess'[t]
        <5> DEFINE e == excess[t]
                   f == excess'[t]
        <5>1. e \in Nat /\ f = e - 1 /\ Len(data) = Limit + e
          BY <2>1, <3>2, <4>2
        <5> HIDE DEF e, f
        <5>2. Len(data') = Limit + f
          BY <1>0, <3>1, <5>1
        <5> QED
          BY <5>2 DEF f
      <4> QED
        BY <3>3, <4>1, <4>2
    <3>6. AtWork(t)' /\ Reading(t)'
      BY <3>3, <3>4, <3>5 DEF AtWork, Reading
    <3> QED
      BY <1>6, <2>1, <2>3, <3>1, <3>2, <3>6
  <2>4. CASE /\ excess[t] > 0 /\ data = <<>> /\ Caches!Breaks(t) /\ UNCHANGED Caches!cache
             /\ excess' = [excess EXCEPT ![t] = 0]
    <3>1. Len(data) = 0
      BY <2>4, EmptySeq
    <3>2. t \in disturbed
      BY <1>0, <2>1, <2>4, <3>1 DEF AtWork
    <3>3. Caches!Leave(t) /\ broken' = {} /\ data' = data /\ older' = older
      BY <1>0, <2>4, <3>2 DEF Caches!Breaks, Caches!cache
    <3>4. excess' \in [Thread -> 0..Caches!Cardinality(Key)] /\ Len(data') <= Limit /\ Recency'
      BY <1>0, <2>1, <2>4, <3>1, <3>3 DEF Recency
    <3> QED
      BY <1>0, <1>5, <2>1, <3>3, <3>4
  <2> QED
    BY <1>13, <2>2, <2>3, <2>4 DEF Caches!Trim, Caches!Oldest
<1>14. ASSUME NEW t \in Thread, NEW last \in BOOLEAN, Caches!PopItem(t, last) PROVE LRUInv'
  <2>1. /\ mutex \in {None, t} /\ lpc[t] = "idle" /\ data # <<>>
        /\ UNCHANGED <<older, mutex, lpc, op, key, victim, excess, iterating, disturbed, broken>>
    BY <1>14 DEF Caches!PopItem, Caches!Free
  <2>2. PICK k \in Caches!ToSet(data) : Caches!Drop(k)
    <3>1. CASE last
      BY <1>3, <1>14, <2>1, <3>1 DEF Caches!PopItem
    <3>2. CASE ~last
      BY <1>3, <1>14, <2>1, <3>2 DEF Caches!PopItem
    <3> QED
      BY <3>1, <3>2
  <2>3. data' \in Seq(Key) /\ Recency' /\ Len(data') = Len(data) - 1
    BY <1>2, <2>1, <2>2
  <2>4. Caches!TypeOK' /\ lpc' \in [Thread -> Pcs] /\ iterating' \in SUBSET Thread
    BY <1>0, <2>1, <2>3 DEF Caches!TypeOK
  <2>5. AtWork(t)' /\ Reading(t)'
    BY <2>1 DEF AtWork, Reading
  <2>6. Len(data') <= Limit
    BY <1>0, <1>1, <2>1, <2>3
  <2> QED
    BY <1>0, <2>1, <2>3, <2>4, <2>5, <2>6, LockedStep
\* A deletion without the lock.
<1>15. ASSUME NEW t \in Thread, Caches!Disturbs(t), data' \in Seq(Key), Recency',
              Caches!ToSet(data') \subseteq Caches!ToSet(data), Len(data') <= Len(data)
       PROVE  LRUInv'
  <2>1. /\ lpc[t] = "idle" /\ data # <<>>
        /\ disturbed' = disturbed \cup {u \in Thread \ {t} : lpc[u] # "idle" \/ u \in iterating}
        /\ UNCHANGED <<older, mutex, lpc, op, key, victim, excess, iterating, broken>>
    BY <1>15 DEF Caches!Disturbs
  <2>2. Len(data') \in Nat
    BY <1>15, LenProperties
  <2>3. Caches!TypeOK'
    BY <1>0, <1>15, <2>1 DEF Caches!TypeOK
  <2>4. ASSUME NEW u \in Thread PROVE AtWork(u)' /\ Reading(u)'
    <3>1. CASE lpc[u] = "idle"
      BY <2>1, <3>1 DEF AtWork, Reading
    <3>2. CASE lpc[u] # "idle"
      <4>1. u \in disturbed'
        BY <2>1, <3>2
      <4>2. excess[u] \in Nat
        BY <1>0, KeyCount DEF Caches!TypeOK
      <4>3. Reading(u)'
        BY <1>0, <1>15, <2>1 DEF Reading
      <4>4. lpc[u] = "evict" => \A l \in Caches!ToSet(data') : <<l, victim[u]>> \notin older
        BY <1>0, <1>15 DEF AtWork, Caches!OldestOf
      <4> QED
        BY <1>0, <1>15, <2>1, <2>2, <4>1, <4>2, <4>3, <4>4 DEF AtWork, Caches!OldestOf
    <3> QED
      BY <3>1, <3>2
  <2>5. Caches!CacheRight'
    <3>1. Caches!WithinLimit'
      BY <1>0, <1>15, <2>1, <2>2 DEF LRUInv, Caches!CacheRight, Caches!WithinLimit
    <3>2. Caches!LeastRecent'
      <4>1. data' # <<>> => \A l \in Caches!ToSet(data') : <<l, Head(data')>> \notin older'
        BY <1>15, OldestFirst DEF Recency
      <4> QED
        BY <2>4, <4>1 DEF Caches!LeastRecent, Caches!OldestOf, Caches!Oldest, AtWork
    <3> QED
      BY <1>0, <2>1, <3>1, <3>2 DEF Caches!CacheRight
  <2> QED
    BY <1>0, <1>15, <2>1, <2>3, <2>4, <2>5 DEF LRUInv
<1>16. ASSUME NEW t \in Thread, NEW k \in Key, Caches!Delete(t, k) PROVE LRUInv'
  <2>1. /\ data' \in Seq(Key) /\ Recency' /\ Len(data') = Len(data) - 1
        /\ Caches!ToSet(data') \subseteq Caches!ToSet(data)
    BY <1>2, <1>16 DEF Caches!Delete, Caches!Disturbs
  <2>2. Len(data') <= Len(data)
    BY <1>0, <2>1
  <2> QED
    BY <1>15, <1>16, <2>1, <2>2 DEF Caches!Delete
<1>17. ASSUME NEW t \in Thread, Caches!Clear(t) PROVE LRUInv'
  <2>1. data' = <<>> /\ older' = older
    BY <1>17 DEF Caches!Clear, Caches!Disturbs
  <2>2. /\ data' \in Seq(Key) /\ Recency' /\ Len(data') <= Len(data)
        /\ Caches!ToSet(data') \subseteq Caches!ToSet(data)
    BY <1>0, <2>1 DEF Recency, ByUse, Distinct, Caches!ToSet
  <2> QED
    BY <1>15, <1>17, <2>2 DEF Caches!Clear
<1>18. ASSUME NEW t \in Thread, Caches!BeginLoop(t) \/ Caches!EndLoop(t) PROVE LRUInv'
  <2>1. /\ mutex \in {None, t} /\ mutex' \in {None, t} /\ lpc[t] = "idle"
        /\ iterating' \ {t} = iterating \ {t} /\ iterating' \in SUBSET Thread
        /\ (t \in iterating' => mutex' = t) /\ broken' = {}
        /\ UNCHANGED <<data, older, lpc, op, key, victim, excess>>
    BY <1>0, <1>18 DEF Caches!BeginLoop, Caches!EndLoop, Caches!cache, Caches!Free, Caches!TypeOK
  <2>2. Caches!TypeOK' /\ lpc' \in [Thread -> Pcs]
    BY <1>0, <1>18, <2>1 DEF Caches!TypeOK, Caches!BeginLoop, Caches!EndLoop
  <2>3. AtWork(t)' /\ Reading(t)' /\ Recency'
    BY <1>0, <2>1 DEF AtWork, Reading, Recency
  <2>4. Len(data') <= Limit
    BY <1>1, <2>1
  <2> QED
    BY <1>0, <2>1, <2>2, <2>3, <2>4, LockedStep
<1>19. CASE UNCHANGED Caches!vars
  BY <1>19 DEF Caches!vars, LRUInv, Caches!TypeOK, AtWork, Reading, Recency, Caches!CacheRight,
     Caches!WithinLimit, Caches!LeastRecent, Caches!OldestOf, Caches!Oldest
<1>20. CASE Caches!Next
  <2>1. PICK t \in Thread : Caches!ThreadStep(t)
    BY <1>20 DEF Caches!Next
  <2> QED
    BY <2>1, <1>4, <1>7, <1>8, <1>9, <1>10, <1>11, <1>12, <1>13, <1>14, <1>16, <1>17, <1>18
       DEF Caches!ThreadStep
<1> QED
  BY <1>19, <1>20

\* An LRU cache keeps to its limit outside update(), evicts no key before one
\* that was last inserted or read earlier, and a call breaks only by a deletion of another thread
\* (LRUCache of mode/utils/collections.py).
LEMMA CachesHold == Spec => [](Caches!TypeOK /\ Caches!CacheRight)
<1>1. LRUInv => Caches!TypeOK /\ Caches!CacheRight
  BY DEF LRUInv
<1> QED
  BY LRUInit, LRUNext, PartSteps, <1>1, PTL DEF Spec

-----------------------------------------------------------------------------
(* Heaps.                                                                  *)

LEMMA HeapConstants == Item \subseteq Int /\ MaxLength \in Nat
BY DataConstants

\* Parents and children in a heap.
Parent(i) == i \div 2
LEMMA ParentIs ==
    ASSUME NEW i \in Nat
    PROVE  /\ Parent(i) \in Nat /\ 2 * Parent(i) <= i /\ i <= 2 * Parent(i) + 1
           /\ (i > 0 => Parent(i) < i) /\ (i > 1 => Parent(i) > 0)
BY DEF Parent
LEMMA ChildIs ==
    ASSUME NEW i \in Nat, NEW p \in Nat
    PROVE  Parent(i) = p <=> i = 2 * p \/ i = 2 * p + 1
BY DEF Parent

LEMMA ParentInside ==
    ASSUME NEW i \in Nat, NEW n \in Nat, i <= n, i > 1
    PROVE  Parent(i) \in 1..n /\ i \in 1..n /\ Parent(i) < i /\ Parent(i) \in Nat /\ Parent(i) <= n
<1>1. Parent(i) \in Nat /\ Parent(i) < i /\ Parent(i) > 0
  BY ParentIs
<1> HIDE DEF Parent
<1> QED
  BY <1>1

LEMMA ItemsAre == ASSUME NEW h \in Seq(Item) PROVE Len(h) \in Nat /\ \A i \in 1..Len(h) : h[i] \in Int
<1>1. Len(h) \in Nat /\ DOMAIN h = 1..Len(h)
  BY LenProperties
<1>2. \A i \in 1..Len(h) : h[i] \in Item
  BY <1>1, ElementOfSeq
<1> QED
  BY <1>1, <1>2, HeapConstants

LEMMA SwapIs ==
    ASSUME NEW h \in Seq(Item), NEW i \in 1..Len(h), NEW j \in 1..Len(h), i # j
    PROVE  /\ Heaps!Swapped(h, i, j) \in Seq(Item) /\ Len(Heaps!Swapped(h, i, j)) = Len(h)
           /\ Heaps!Swapped(h, i, j)[i] = h[j] /\ Heaps!Swapped(h, i, j)[j] = h[i]
           /\ \A k \in 1..Len(h) : k # i /\ k # j => Heaps!Swapped(h, i, j)[k] = h[k]
<1>1. Len(h) \in Nat /\ DOMAIN h = 1..Len(h) /\ h \in [1..Len(h) -> Item]
  BY LenProperties
<1> DEFINE g == Heaps!Swapped(h, i, j)
<1>2. /\ g \in [1..Len(h) -> Item] /\ g[i] = h[j] /\ g[j] = h[i]
      /\ \A k \in 1..Len(h) : k # i /\ k # j => g[k] = h[k]
  BY <1>1 DEF Heaps!Swapped
<1> HIDE DEF g
<1>3. g \in Seq(Item)
  BY <1>1, <1>2, SeqDef
<1>4. Len(g) = Len(h)
  BY <1>1, <1>2, <1>3, LenProperties
<1> QED
  BY <1>2, <1>3, <1>4 DEF g

\* The positions at and under start.
Under(start) ==
    {p \in Nat : \A X \in SUBSET Nat :
       start \in X /\ (\A x \in X : 2 * x \in X /\ 2 * x + 1 \in X) => p \in X}

LEMMA UnderIs ==
    ASSUME NEW start \in Nat \ {0}
    PROVE  /\ start \in Under(start) /\ Under(start) \subseteq Nat
           /\ \A p \in Under(start) :
                /\ start <= p /\ 2 * p \in Under(start) /\ 2 * p + 1 \in Under(start)
                /\ p # start => Parent(p) \in Under(start)
<1>1. start \in Under(start) /\ Under(start) \subseteq Nat
  BY DEF Under
<1>2. ASSUME NEW p \in Under(start) PROVE 2 * p \in Under(start) /\ 2 * p + 1 \in Under(start)
  BY DEF Under
<1>3. ASSUME NEW p \in Under(start) PROVE start <= p
  <2> DEFINE X == {x \in Nat : start <= x}
  <2>1. X \in SUBSET Nat /\ start \in X /\ \A x \in X : 2 * x \in X /\ 2 * x + 1 \in X
    OBVIOUS
  <2>2. p \in X
    BY <2>1 DEF Under
  <2> QED
    BY <2>2
<1>4. ASSUME NEW p \in Under(start), p # start PROVE Parent(p) \in Under(start)
  <2> DEFINE X == {start} \cup {x \in Nat : Parent(x) \in Under(start)}
  <2>1. X \in SUBSET Nat /\ start \in X
    OBVIOUS
  <2>2. ASSUME NEW x \in X PROVE 2 * x \in X /\ 2 * x + 1 \in X
    <3>1. x \in Under(start)
      <4>1. CASE x # start
        <5>1. x \in Nat /\ Parent(x) \in Nat /\ Parent(x) \in Under(start)
          BY <1>1, <4>1
        <5>2. x = 2 * Parent(x) \/ x = 2 * Parent(x) + 1
          BY <5>1, ChildIs
        <5> QED
          BY <1>2, <5>1, <5>2
      <4> QED
        BY <1>1, <4>1
    <3>2. x \in Nat /\ Parent(2 * x) = x /\ Parent(2 * x + 1) = x
      BY <1>1, <3>1, ChildIs
    <3> QED
      BY <3>1, <3>2
  <2>3. p \in X
    <3> HIDE DEF X
    <3> QED
      BY <2>1, <2>2 DEF Under
  <2> QED
    BY <1>4, <2>3
<1> QED
  BY <1>1, <1>2, <1>3, <1>4

LEMMA AllUnderOne == \A p \in Nat \ {0} : p \in Under(1)
<1> DEFINE N == Nat
           size == [n \in N |-> n]
           T == {n \in N : n # 0 => n \in Under(1)}
<1>1. ASSUME NEW n \in N, \A m \in N : size[m] < size[n] => m \in T PROVE n \in T
  <2>1. CASE n > 1
    <3>1. Parent(n) \in Nat /\ Parent(n) < n /\ Parent(n) > 0
      BY <2>1, ParentIs
    <3>2. Parent(n) \in Under(1)
      BY <1>1, <3>1
    <3>3. n = 2 * Parent(n) \/ n = 2 * Parent(n) + 1
      BY <3>1, ChildIs
    <3> QED
      BY <3>2, <3>3, UnderIs
  <2>2. CASE n = 1
    BY <2>2, UnderIs
  <2> QED
    BY <2>1, <2>2
<1>2. size \in [N -> Nat]
  OBVIOUS
<1>3. \A n \in N : n \in T
  <2> HIDE DEF N, size, T
  <2> QED
    BY <1>1, <1>2, MeasureInduction
<1> QED
  BY <1>3

-----------------------------------------------------------------------------
\* From start on no parent is larger than its children.
Ordered(h, start) ==
    \A i \in 1..Len(h) : Parent(i) >= start => h[Parent(i)] <= h[i]
\* But the item at pos may be smaller than its parent.
OrderedBut(h, start, pos) ==
    /\ \A i \in 1..Len(h) : Parent(i) >= start /\ i # pos => h[Parent(i)] <= h[i]
    /\ \A i \in 1..Len(h) : Parent(i) = pos /\ pos > start => h[Parent(pos)] <= h[i]

LEMMA SiftDownIs ==
    ASSUME NEW start \in Nat \ {0}
    PROVE  \E f \in [Seq(Item) \X Nat -> Seq(Item)] :
             \A h \in Seq(Item), pos \in Nat :
               /\ f[<<h, pos>>] = IF pos \in start + 1..Len(h) /\ h[pos] < h[Parent(pos)]
                                    THEN f[<<Heaps!Swapped(h, pos, Parent(pos)), Parent(pos)>>] ELSE h
               /\ Heaps!SiftDown(h, start, pos) = f[<<h, pos>>]
<1> DEFINE S == Seq(Item) \X Nat
           Y == Seq(Item)
           Up(here) == here[2] \in start + 1..Len(here[1]) /\ here[1][here[2]] < here[1][Parent(here[2])]
           Above(here) == <<Heaps!Swapped(here[1], here[2], Parent(here[2])), Parent(here[2])>>
           W(f) == [here \in S |-> IF Up(here) THEN f[Above(here)] ELSE here[1]]
           size == [here \in S |-> here[2]]
           first == [here \in S |-> here[1]]
           next == [here \in S |-> IF Up(here) THEN Above(here) ELSE here]
           done == {here \in S : ~Up(here)}
<1>1. ASSUME NEW here \in S, Up(here) PROVE Above(here) \in S /\ Parent(here[2]) < here[2]
  <2> DEFINE h == here[1]
             pos == here[2]
  <2>1. h \in Seq(Item) /\ pos \in Nat /\ pos \in start + 1..Len(h) /\ Len(h) \in Nat
    BY <1>1, LenProperties
  <2> HIDE DEF h, pos
  <2>2. /\ Parent(pos) \in Nat /\ Parent(pos) < pos
        /\ pos \in 1..Len(h) /\ Parent(pos) \in 1..Len(h) /\ pos # Parent(pos)
    <3>1. pos > 1 /\ pos <= Len(h)
      BY <2>1
    <3>2. Parent(pos) \in Nat /\ Parent(pos) < pos /\ Parent(pos) > 0
      BY <2>1, <3>1, ParentIs
    <3> QED
      BY <2>1, <3>1, <3>2
  <2>3. Heaps!Swapped(h, pos, Parent(pos)) \in Seq(Item)
    BY <2>1, <2>2, SwapIs
  <2> QED
    BY <2>2, <2>3 DEF h, pos
<1>2. Descends(S, Y, size, done, first, next)
  <2>1. size \in [S -> Nat] /\ first \in [S -> Y]
    OBVIOUS
  <2>2. next \in [S -> S]
    <3> HIDE DEF S, Up, Above
    <3> QED
      BY <1>1
  <2>3. ASSUME NEW here \in S, here \notin done PROVE size[next[here]] < size[here]
    <3>1. Up(here)
      BY <2>3
    <3>2. Above(here) \in S /\ Parent(here[2]) < here[2]
      BY <1>1, <3>1
    <3>3. next[here] = Above(here)
      BY <3>1
    <3>4. size[Above(here)] = Parent(here[2]) /\ size[here] = here[2]
      BY <3>2
    <3> QED
      BY <3>2, <3>3, <3>4
  <2> QED
    BY <2>1, <2>2, <2>3 DEF Descends
<1>3. \E f : f = W(f)
  <2>1. PICK f \in [S -> Y] : Gives(f, S, done, first, next)
    <3> HIDE DEF S, Y, size, first, next, done
    <3> QED
      BY <1>2, TailRecursion
  <2>2. ASSUME NEW here \in S PROVE f[here] = IF Up(here) THEN f[Above(here)] ELSE here[1]
    <3>1. here \in done <=> ~Up(here)
      OBVIOUS
    <3>2. first[here] = here[1] /\ next[here] = IF Up(here) THEN Above(here) ELSE here
      OBVIOUS
    <3> HIDE DEF done, first, next, S, Up, Above
    <3> QED
      BY <2>1, <3>1, <3>2 DEF Gives
  <2>3. f = W(f)
    <3> HIDE DEF S, Y, Up, Above
    <3>1. f = [here \in S |-> f[here]]
      OBVIOUS
    <3>2. [here \in S |-> f[here]] = [here \in S |-> IF Up(here) THEN f[Above(here)] ELSE here[1]]
      BY <2>2
    <3> QED
      BY <3>1, <3>2, Zenon
  <2> QED
    BY <2>3
<1> DEFINE f == CHOOSE g : g = W(g)
<1>4. f = W(f)
  <2> HIDE DEF W
  <2> QED
    BY <1>3
<1>5. ASSUME NEW h \in Seq(Item), NEW pos \in Nat PROVE Heaps!SiftDown(h, start, pos) = f[<<h, pos>>]
  BY Zenon DEF Heaps!SiftDown, Parent
<1> HIDE DEF f
<1>6. \A here \in S : f[here] = IF Up(here) THEN f[Above(here)] ELSE here[1]
  <2> HIDE DEF S, Up, Above
  <2> QED
    BY <1>4
<1>7. f \in [S -> Y]
  <2>1. ASSUME NEW here \in S PROVE f[here] = IF here \in done THEN first[here] ELSE f[next[here]]
    <3>1. here \in done <=> ~Up(here)
      OBVIOUS
    <3>2. first[here] = here[1] /\ next[here] = IF Up(here) THEN Above(here) ELSE here
      OBVIOUS
    <3> HIDE DEF done, first, next, S, Up, Above
    <3> QED
      BY <1>6, <3>1, <3>2
  <2>2. f = [here \in S |-> f[here]]
    BY <1>4
  <2> HIDE DEF S, Y, size, done, first, next
  <2>3. \A here \in S : f[here] \in Y
    <3>1. Gives(f, S, done, first, next)
      BY <2>1 DEF Gives
    <3> QED
      BY <1>2, <3>1, TailRecursionGives
  <2> QED
    BY <2>2, <2>3
<1>8. ASSUME NEW h \in Seq(Item), NEW pos \in Nat
      PROVE  f[<<h, pos>>] = IF pos \in start + 1..Len(h) /\ h[pos] < h[Parent(pos)]
                               THEN f[<<Heaps!Swapped(h, pos, Parent(pos)), Parent(pos)>>] ELSE h
  <2>1. <<h, pos>> \in S
    OBVIOUS
  <2>2. /\ Up(<<h, pos>>) <=> pos \in start + 1..Len(h) /\ h[pos] < h[Parent(pos)]
        /\ Above(<<h, pos>>) = <<Heaps!Swapped(h, pos, Parent(pos)), Parent(pos)>>
        /\ <<h, pos>>[1] = h
    OBVIOUS
  <2> HIDE DEF S, Up, Above
  <2> QED
    BY <1>6, <2>1, <2>2
<1> QED
  BY <1>5, <1>7, <1>8

\* An item that moves up past larger parents leaves the rest in order.
LEMMA MoveUp ==
    ASSUME NEW start \in Nat \ {0}, NEW h \in Seq(Item), NEW pos \in Under(start),
           pos \in start + 1..Len(h), h[pos] < h[Parent(pos)], OrderedBut(h, start, pos)
    PROVE  OrderedBut(Heaps!Swapped(h, pos, Parent(pos)), start, Parent(pos))
<1> DEFINE par == Parent(pos)
           g == Heaps!Swapped(h, pos, par)
<1>1. /\ pos \in Nat /\ Len(h) \in Nat /\ start \in Nat /\ pos > start /\ pos <= Len(h)
      /\ \A i \in 1..Len(h) : h[i] \in Int
  BY ItemsAre
<1>2. par \in Nat /\ par < pos /\ par >= start /\ par \in Under(start)
  BY <1>1, ParentIs, UnderIs
<1>3. /\ Len(g) = Len(h) /\ g[pos] = h[par] /\ g[par] = h[pos]
      /\ \A i \in 1..Len(h) : i # pos /\ i # par => g[i] = h[i]
  <2>1. pos \in 1..Len(h) /\ par \in 1..Len(h) /\ pos # par
    BY <1>1, <1>2
  <2> HIDE DEF par
  <2> QED
    BY <2>1, SwapIs
<1>4. h[pos] < h[par] /\ Parent(pos) = par
  OBVIOUS
<1> HIDE DEF g, par
<1>5. \A i \in 1..Len(h) : Parent(i) \in Nat /\ Parent(i) < i
                         /\ (Parent(i) >= start => Parent(i) \in 1..Len(h))
  <2> SUFFICES ASSUME NEW i \in 1..Len(h)
               PROVE  /\ Parent(i) \in Nat /\ Parent(i) < i
                      /\ (Parent(i) >= start => Parent(i) \in 1..Len(h))
    OBVIOUS
  <2>1. i \in Nat /\ i > 0 /\ i <= Len(h)
    BY <1>1
  <2>2. Parent(i) \in Nat /\ Parent(i) < i
    BY <2>1, ParentIs
  <2> QED
    BY <1>1, <2>1, <2>2
<1>6. /\ \A i \in 1..Len(h) : Parent(i) >= start /\ i # pos => h[Parent(i)] <= h[i]
      /\ \A i \in 1..Len(h) : Parent(i) = pos => h[par] <= h[i]
  BY <1>1, <1>4 DEF OrderedBut
<1>7. ASSUME NEW i \in 1..Len(h), Parent(i) >= start, i # par PROVE g[Parent(i)] <= g[i]
  <2>1. CASE i = pos
    BY <1>1, <1>2, <1>3, <1>4, <2>1
  <2>2. CASE i # pos /\ Parent(i) = pos
    BY <1>3, <1>6, <1>7, <2>2
  <2>3. CASE i # pos /\ Parent(i) = par
    <3>1. h[par] <= h[i] /\ g[i] = h[i] /\ g[Parent(i)] = h[pos]
      BY <1>3, <1>6, <1>7, <2>3
    <3>2. h[pos] \in Int /\ h[par] \in Int /\ h[i] \in Int
      BY <1>1, <1>2
    <3> QED
      BY <1>4, <3>1, <3>2
  <2>4. CASE i # pos /\ Parent(i) # pos /\ Parent(i) # par
    BY <1>3, <1>5, <1>6, <1>7, <2>4
  <2> QED
    BY <2>1, <2>2, <2>3, <2>4
<1>8. ASSUME NEW i \in 1..Len(h), Parent(i) = par, par > start PROVE g[Parent(par)] <= g[i]
  <2>1. /\ Parent(par) \in Nat /\ Parent(par) < par /\ Parent(par) >= start
        /\ Parent(par) \in 1..Len(h) /\ par \in 1..Len(h)
    <3>1. par > 1 /\ par <= Len(h)
      BY <1>1, <1>2, <1>8
    <3>2. Parent(par) \in 1..Len(h) /\ par \in 1..Len(h) /\ Parent(par) < par /\ Parent(par) \in Nat
      BY <1>1, <1>2, <3>1, ParentInside
    <3>3. Parent(par) \in Under(start) /\ Parent(par) >= start
      <4>1. par # start
        BY <1>2, <1>8
      <4> QED
        BY <1>2, <4>1, UnderIs
    <3> QED
      BY <3>2, <3>3
  <2>2. g[Parent(par)] = h[Parent(par)] /\ h[Parent(par)] <= h[par]
    BY <1>1, <1>2, <1>3, <1>6, <2>1
  <2>3. CASE i = pos
    BY <1>3, <2>2, <2>3
  <2>4. CASE i # pos
    <3>1. i # par /\ g[i] = h[i] /\ h[par] <= h[i]
      BY <1>2, <1>3, <1>5, <1>6, <1>8, <2>4
    <3>2. h[Parent(par)] \in Int /\ h[par] \in Int /\ h[i] \in Int
      BY <1>1, <2>1
    <3> QED
      BY <2>2, <3>1, <3>2
  <2> QED
    BY <2>3, <2>4
<1>9. OrderedBut(g, start, par)
  BY <1>3, <1>7, <1>8 DEF OrderedBut
<1> QED
  BY <1>9 DEF g, par

LEMMA SiftDownOrders ==
    ASSUME NEW start \in Nat \ {0}
    PROVE  \A h \in Seq(Item), pos \in Nat :
             /\ Heaps!SiftDown(h, start, pos) \in Seq(Item) /\ Len(Heaps!SiftDown(h, start, pos)) = Len(h)
             /\ pos \in Under(start) /\ pos <= Len(h) /\ OrderedBut(h, start, pos)
                  => Ordered(Heaps!SiftDown(h, start, pos), start)
<1>1. PICK f \in [Seq(Item) \X Nat -> Seq(Item)] :
             \A h \in Seq(Item), pos \in Nat :
               /\ f[<<h, pos>>] = IF pos \in start + 1..Len(h) /\ h[pos] < h[Parent(pos)]
                                    THEN f[<<Heaps!Swapped(h, pos, Parent(pos)), Parent(pos)>>] ELSE h
               /\ Heaps!SiftDown(h, start, pos) = f[<<h, pos>>]
  BY SiftDownIs
<1> DEFINE N == Nat
           size == [n \in N |-> n]
           Done(h, pos) ==
             /\ f[<<h, pos>>] \in Seq(Item) /\ Len(f[<<h, pos>>]) = Len(h)
             /\ pos \in Under(start) /\ pos <= Len(h) /\ OrderedBut(h, start, pos)
                  => Ordered(f[<<h, pos>>], start)
           T == {n \in N : \A h \in Seq(Item) : Done(h, n)}
<1>2. ASSUME NEW pos \in N, \A m \in N : size[m] < size[pos] => m \in T PROVE pos \in T
  <2> SUFFICES ASSUME NEW h \in Seq(Item) PROVE Done(h, pos)
    OBVIOUS
  <2>0. Len(h) \in Nat
    BY LenProperties
  <2>1. CASE pos \in start + 1..Len(h) /\ h[pos] < h[Parent(pos)]
    <3> DEFINE g == Heaps!Swapped(h, pos, Parent(pos))
    <3>1. pos > 1 /\ pos <= Len(h) /\ pos \in 1..Len(h)
      BY <2>0, <2>1
    <3>2. Parent(pos) \in N /\ Parent(pos) < pos /\ Parent(pos) \in 1..Len(h) /\ Parent(pos) <= Len(h)
      BY <2>0, <3>1, ParentInside
    <3>3. g \in Seq(Item) /\ Len(g) = Len(h)
      BY <3>1, <3>2, SwapIs
    <3>4. f[<<h, pos>>] = f[<<g, Parent(pos)>>]
      BY <1>1, <2>1
    <3>5. OrderedBut(h, start, pos) /\ pos \in Under(start)
            => OrderedBut(g, start, Parent(pos)) /\ Parent(pos) \in Under(start)
      BY <2>1, <3>1, MoveUp, UnderIs
    <3> HIDE DEF g
    <3>6. size[Parent(pos)] < size[pos]
      BY <3>2
    <3>7. Done(g, Parent(pos))
      <4>1. Parent(pos) \in T
        BY <1>2, <3>2, <3>6
      <4> HIDE DEF Done
      <4> QED
        BY <3>3, <4>1
    <3> QED
      BY <3>2, <3>3, <3>4, <3>5, <3>7
  <2>2. CASE ~(pos \in start + 1..Len(h) /\ h[pos] < h[Parent(pos)])
    <3>1. f[<<h, pos>>] = h
      BY <1>1, <2>2
    <3>2. ASSUME pos \in Under(start), pos <= Len(h), OrderedBut(h, start, pos)
          PROVE  Ordered(h, start)
      <4>1. ASSUME NEW i \in 1..Len(h), Parent(i) >= start PROVE h[Parent(i)] <= h[i]
        <5>1. CASE i # pos
          BY <3>2, <4>1, <5>1 DEF OrderedBut
        <5>2. CASE i = pos
          <6>1. Parent(pos) \in Nat /\ Parent(pos) < pos /\ Parent(pos) >= start
                /\ i \in 1..Len(h) /\ Parent(pos) \in 1..Len(h)
            <7>1. pos <= Len(h) /\ pos > 0 /\ Parent(pos) >= start
              BY <2>0, <4>1, <5>2
            <7>2. pos > 1
              <8>1. Parent(pos) < pos /\ Parent(pos) \in Nat
                BY <7>1, ParentIs
              <8> QED
                BY <7>1, <8>1
            <7> QED
              BY <2>0, <5>2, <7>1, <7>2, ParentInside
          <6>2. pos \in start + 1..Len(h)
            BY <2>0, <5>2, <6>1
          <6>3. h[pos] \in Int /\ h[Parent(pos)] \in Int
            BY <5>2, <6>1, ElementOfSeq, HeapConstants
          <6> QED
            BY <2>2, <5>2, <6>2, <6>3
        <5> QED
          BY <5>1, <5>2
      <4> QED
        BY <4>1 DEF Ordered
    <3> QED
      BY <3>1, <3>2
  <2> QED
    BY <2>1, <2>2
<1>3. \A n \in N : n \in T
  <2>1. size \in [N -> Nat]
    OBVIOUS
  <2> HIDE DEF N, size, T
  <2> QED
    BY <1>2, <2>1, MeasureInduction
<1>4. ASSUME NEW h \in Seq(Item), NEW pos \in Nat PROVE Done(h, pos)
  BY <1>3
<1>5. \A h \in Seq(Item), pos \in Nat : Heaps!SiftDown(h, start, pos) = f[<<h, pos>>]
  BY <1>1
<1> QED
  BY <1>4, <1>5

-----------------------------------------------------------------------------
LEMMA SmallerChildIs ==
    ASSUME NEW h \in Seq(Item), NEW pos \in Nat \ {0}, 2 * pos <= Len(h)
    PROVE  /\ Heaps!SmallerChild(h, pos) \in 1..Len(h) /\ pos \in 1..Len(h)
           /\ Heaps!SmallerChild(h, pos) > pos /\ Parent(Heaps!SmallerChild(h, pos)) = pos
           /\ \A i \in 1..Len(h) : Parent(i) = pos => h[Heaps!SmallerChild(h, pos)] <= h[i]
<1> DEFINE child == Heaps!SmallerChild(h, pos)
           right == 2 * pos + 1
<1>1. Len(h) \in Nat /\ \A i \in 1..Len(h) : h[i] \in Int
  BY ItemsAre
<1>2. child = IF right <= Len(h) /\ h[right] <= h[2 * pos] THEN right ELSE 2 * pos
  BY DEF Heaps!SmallerChild
<1> HIDE DEF child
<1>3. /\ child \in {2 * pos, right} /\ child \in 1..Len(h) /\ pos \in 1..Len(h) /\ child > pos
      /\ child \in Nat
  BY <1>1, <1>2
<1>4. Parent(child) = pos
  BY <1>3, ChildIs
<1>5. ASSUME NEW i \in 1..Len(h), Parent(i) = pos PROVE h[child] <= h[i]
  <2>1. i = 2 * pos \/ i = right
    BY <1>1, <1>5, ChildIs
  <2>2. h[child] \in Int /\ h[i] \in Int
    BY <1>1, <1>3
  <2>3. CASE i = 2 * pos
    <3>1. CASE right <= Len(h) /\ h[right] <= h[2 * pos]
      BY <1>2, <2>3, <3>1
    <3>2. CASE ~(right <= Len(h) /\ h[right] <= h[2 * pos])
      BY <1>2, <2>2, <2>3, <3>2
    <3> QED
      BY <3>1, <3>2
  <2>4. CASE i = right
    <3>1. right <= Len(h) /\ 2 * pos \in 1..Len(h) /\ right \in 1..Len(h)
      BY <1>1, <2>4
    <3>2. h[right] \in Int /\ h[2 * pos] \in Int
      BY <1>1, <3>1
    <3>3. CASE h[right] <= h[2 * pos]
      BY <1>2, <2>2, <2>4, <3>1, <3>3
    <3>4. CASE ~(h[right] <= h[2 * pos])
      BY <1>2, <2>4, <3>1, <3>2, <3>4
    <3> QED
      BY <3>3, <3>4
  <2> QED
    BY <2>1, <2>3, <2>4
<1> QED
  BY <1>3, <1>4, <1>5 DEF child

LEMMA SiftUpIs ==
    ASSUME NEW start \in Nat \ {0}
    PROVE  \E f \in [Seq(Item) \X (Nat \ {0}) -> Seq(Item)] :
             \A h \in Seq(Item), pos \in Nat \ {0} :
               /\ 2 * pos <= Len(h) => f[<<h, pos>>] =
                    f[<<Heaps!Swapped(h, pos, Heaps!SmallerChild(h, pos)), Heaps!SmallerChild(h, pos)>>]
               /\ ~(2 * pos <= Len(h)) => f[<<h, pos>>] = Heaps!SiftDown(h, start, pos)
               /\ pos = start => Heaps!SiftUp(h, start) = f[<<h, pos>>]
<1> DEFINE S == Seq(Item) \X (Nat \ {0})
           Y == Seq(Item)
           Child(here) == Heaps!SmallerChild(here[1], here[2])
           Ends(here) == ~(2 * here[2] <= Len(here[1]))
           Under1(here) == <<Heaps!Swapped(here[1], here[2], Child(here)), Child(here)>>
           End(here) == Heaps!SiftDown(here[1], start, here[2])
           W(f) == [here \in S |-> IF 2 * here[2] <= Len(here[1]) THEN f[Under1(here)] ELSE End(here)]
           size == [here \in S |-> IF here[2] <= Len(here[1]) THEN Len(here[1]) - here[2] ELSE 0]
           first == [here \in S |-> End(here)]
           next == [here \in S |-> IF Ends(here) THEN here ELSE Under1(here)]
           done == {here \in S : Ends(here)}
<1>1. ASSUME NEW here \in S, ~Ends(here) PROVE Under1(here) \in S /\ size[Under1(here)] < size[here]
  <2> DEFINE h == here[1]
             pos == here[2]
             c == Heaps!SmallerChild(h, pos)
             g == Heaps!Swapped(h, pos, c)
  <2>1. h \in Seq(Item) /\ pos \in Nat \ {0} /\ 2 * pos <= Len(h) /\ here = <<h, pos>>
    BY <1>1
  <2> HIDE DEF h, pos
  <2>2. Len(h) \in Nat /\ c \in 1..Len(h) /\ pos \in 1..Len(h) /\ c > pos
    BY <2>1, SmallerChildIs, ItemsAre
  <2> HIDE DEF c
  <2>3. g \in Seq(Item) /\ Len(g) = Len(h)
    BY <2>1, <2>2, SwapIs
  <2> HIDE DEF g
  <2>4. <<g, c>> \in S /\ <<h, pos>> \in S
    BY <2>1, <2>2, <2>3
  <2>5. size[<<g, c>>] = Len(h) - c /\ size[<<h, pos>>] = Len(h) - pos
    <3>1. ASSUME NEW a, NEW b, <<a, b>> \in S
          PROVE  size[<<a, b>>] = IF b <= Len(a) THEN Len(a) - b ELSE 0
      <4>1. <<a, b>>[1] = a /\ <<a, b>>[2] = b
        OBVIOUS
      <4> HIDE DEF S
      <4> QED
        BY <3>1, <4>1
    <3> HIDE DEF size, S
    <3>2. /\ size[<<g, c>>] = IF c <= Len(g) THEN Len(g) - c ELSE 0
          /\ size[<<h, pos>>] = IF pos <= Len(h) THEN Len(h) - pos ELSE 0
      BY <2>4, <3>1
    <3>3. c <= Len(g) /\ pos <= Len(h)
      BY <2>2, <2>3
    <3> QED
      BY <2>3, <3>2, <3>3
  <2>6. Under1(here) = <<g, c>>
    BY DEF h, pos, c, g
  <2>7. Len(h) - c < Len(h) - pos
    BY <2>2
  <2> HIDE DEF Under1, size, S
  <2> QED
    BY <2>1, <2>4, <2>5, <2>6, <2>7
<1>2. Descends(S, Y, size, done, first, next)
  <2>1. size \in [S -> Nat]
    <3>1. \A here \in S : Len(here[1]) \in Nat /\ here[2] \in Nat
      BY ItemsAre
    <3>2. \A here \in S : (IF here[2] <= Len(here[1]) THEN Len(here[1]) - here[2] ELSE 0) \in Nat
      BY <3>1
    <3> HIDE DEF S
    <3> QED
      BY <3>2
  <2>2. first \in [S -> Y]
    <3>1. \A here \in S : End(here) \in Y
      BY SiftDownOrders
    <3> HIDE DEF End, Y, S
    <3> QED
      BY <3>1
  <2>3. next \in [S -> S]
    <3> HIDE DEF S, Ends, Under1
    <3> QED
      BY <1>1
  <2>4. ASSUME NEW here \in S, here \notin done PROVE size[next[here]] < size[here]
    <3>1. ~Ends(here)
      BY <2>4
    <3>2. next[here] = Under1(here)
      BY <3>1
    <3> HIDE DEF next, Under1, Ends, size, S
    <3> QED
      BY <1>1, <3>1, <3>2
  <2> HIDE DEF S, Y, size, done, first, next
  <2> QED
    BY <2>1, <2>2, <2>3, <2>4 DEF Descends
<1>3. ASSUME NEW f PROVE Gives(f, S, done, first, next) <=>
        \A here \in S : f[here] = IF 2 * here[2] <= Len(here[1]) THEN f[Under1(here)] ELSE End(here)
  <2>1. ASSUME NEW here \in S
        PROVE  /\ here \in done <=> ~(2 * here[2] <= Len(here[1]))
               /\ here \notin done => next[here] = Under1(here)
               /\ first[here] = End(here)
    OBVIOUS
  <2> HIDE DEF S, done, first, next, Under1, End
  <2> QED
    BY <2>1 DEF Gives
<1>4. \E f : f = W(f)
  <2>1. PICK f \in [S -> Y] : Gives(f, S, done, first, next)
    <3> HIDE DEF S, Y, size, first, next, done
    <3> QED
      BY <1>2, TailRecursion
  <2>2. f = W(f)
    <3>1. f = [here \in S |-> f[here]]
      <4> HIDE DEF S, Y
      <4> QED
        BY <2>1
    <3>2. \A here \in S : f[here] = IF 2 * here[2] <= Len(here[1]) THEN f[Under1(here)] ELSE End(here)
      BY <1>3, <2>1
    <3> HIDE DEF S, Under1, End
    <3>3. [here \in S |-> f[here]] = W(f)
      BY <3>2
    <3> QED
      BY <3>1, <3>3, Zenon
  <2> QED
    BY <2>2
<1> DEFINE f == CHOOSE g : g = W(g)
<1>5. f = W(f)
  <2> HIDE DEF W
  <2> QED
    BY <1>4
<1>6. ASSUME NEW h \in Seq(Item) PROVE Heaps!SiftUp(h, start) = f[<<h, start>>]
  BY Zenon DEF Heaps!SiftUp
<1> HIDE DEF f
<1>7. \A here \in S : f[here] = IF 2 * here[2] <= Len(here[1]) THEN f[Under1(here)] ELSE End(here)
  <2> HIDE DEF S, Under1, End
  <2> QED
    BY <1>5
<1>8. f \in [S -> Y]
  <2>1. Gives(f, S, done, first, next)
    BY <1>3, <1>7
  <2>2. f = [here \in S |-> f[here]]
    BY <1>5
  <2> HIDE DEF S, Y, size, done, first, next
  <2>3. \A here \in S : f[here] \in Y
    BY <1>2, <2>1, TailRecursionGives
  <2> QED
    BY <2>2, <2>3
<1>9. ASSUME NEW h \in Seq(Item), NEW pos \in Nat \ {0}
      PROVE  /\ 2 * pos <= Len(h) => f[<<h, pos>>] =
                  f[<<Heaps!Swapped(h, pos, Heaps!SmallerChild(h, pos)), Heaps!SmallerChild(h, pos)>>]
             /\ ~(2 * pos <= Len(h)) => f[<<h, pos>>] = Heaps!SiftDown(h, start, pos)
  <2>1. <<h, pos>> \in S
    OBVIOUS
  <2>2. /\ <<h, pos>>[1] = h /\ <<h, pos>>[2] = pos
        /\ Under1(<<h, pos>>) = <<Heaps!Swapped(h, pos, Heaps!SmallerChild(h, pos)), Heaps!SmallerChild(h, pos)>>
        /\ End(<<h, pos>>) = Heaps!SiftDown(h, start, pos)
    OBVIOUS
  <2> HIDE DEF S, Under1, End
  <2> QED
    BY <1>7, <2>1, <2>2
<1> QED
  BY <1>6, <1>8, <1>9

\* An item that moves down to a leaf leaves the rest in order.
OrderedAround(h, start, pos) ==
    /\ \A i \in 1..Len(h) : Parent(i) >= start /\ i # pos /\ Parent(i) # pos => h[Parent(i)] <= h[i]
    /\ \A i \in 1..Len(h) : Parent(i) = pos /\ pos > start => h[Parent(pos)] <= h[i]

LEMMA MoveDown ==
    ASSUME NEW start \in Nat \ {0}, NEW h \in Seq(Item), NEW pos \in Under(start),
           2 * pos <= Len(h), OrderedAround(h, start, pos), NEW child, NEW g,
           child = Heaps!SmallerChild(h, pos), g = Heaps!Swapped(h, pos, child)
    PROVE  OrderedAround(g, start, child) /\ child \in Under(start)
<1>1. pos \in Nat \ {0} /\ pos >= start /\ Len(h) \in Nat /\ \A i \in 1..Len(h) : h[i] \in Int
  BY UnderIs, ItemsAre
<1>2. /\ child \in 1..Len(h) /\ pos \in 1..Len(h) /\ child > pos /\ Parent(child) = pos
      /\ \A i \in 1..Len(h) : Parent(i) = pos => h[child] <= h[i]
  BY <1>1, SmallerChildIs
<1>3. /\ Len(g) = Len(h) /\ g[pos] = h[child] /\ g[child] = h[pos]
      /\ \A i \in 1..Len(h) : i # pos /\ i # child => g[i] = h[i]
  <2>1. pos # child
    BY <1>1, <1>2
  <2> DEFINE x == Heaps!Swapped(h, pos, child)
  <2>2. /\ Len(x) = Len(h) /\ x[pos] = h[child] /\ x[child] = h[pos]
        /\ \A i \in 1..Len(h) : i # pos /\ i # child => x[i] = h[i]
    BY <1>2, <2>1, SwapIs
  <2>3. g = x
    OBVIOUS
  <2> HIDE DEF x
  <2> QED
    BY <2>2, <2>3
<1>4. child \in Under(start)
  <2>1. child \in Nat /\ pos \in Nat
    BY <1>1, <1>2
  <2>2. child = 2 * pos \/ child = 2 * pos + 1
    BY <1>2, <2>1, ChildIs
  <2> QED
    BY <2>2, UnderIs
<1>5. \A i \in 1..Len(h) : Parent(i) \in Nat /\ Parent(i) < i
                         /\ (Parent(i) >= start => Parent(i) \in 1..Len(h))
  <2> SUFFICES ASSUME NEW i \in 1..Len(h)
               PROVE  /\ Parent(i) \in Nat /\ Parent(i) < i
                      /\ (Parent(i) >= start => Parent(i) \in 1..Len(h))
    OBVIOUS
  <2>1. i \in Nat /\ i > 0 /\ i <= Len(h)
    BY <1>1
  <2>2. Parent(i) \in Nat /\ Parent(i) < i
    BY <2>1, ParentIs
  <2> QED
    BY <1>1, <2>1, <2>2
<1>6. /\ \A i \in 1..Len(h) :
            Parent(i) >= start /\ i # pos /\ Parent(i) # pos => h[Parent(i)] <= h[i]
      /\ \A i \in 1..Len(h) : Parent(i) = pos /\ pos > start => h[Parent(pos)] <= h[i]
  BY DEF OrderedAround
<1>7. ASSUME NEW i \in 1..Len(h), Parent(i) >= start, i # child, Parent(i) # child
      PROVE  g[Parent(i)] <= g[i]
  <2>1. CASE i = pos
    <3>1. Parent(pos) < pos /\ Parent(pos) \in 1..Len(h) /\ pos > start /\ Parent(pos) # child
      BY <1>1, <1>5, <1>7, <2>1
    <3>2. h[Parent(pos)] <= h[child]
      BY <1>2, <1>6, <3>1
    <3>3. g[Parent(pos)] = h[Parent(pos)]
      BY <1>3, <1>5, <3>1
    <3> QED
      BY <1>3, <2>1, <3>2, <3>3
  <2>2. CASE i # pos /\ Parent(i) = pos
    BY <1>2, <1>3, <1>7, <2>2
  <2>3. CASE i # pos /\ Parent(i) # pos
    BY <1>3, <1>5, <1>6, <1>7, <2>3
  <2> QED
    BY <2>1, <2>2, <2>3
<1>8. ASSUME NEW i \in 1..Len(h), Parent(i) = child PROVE g[Parent(child)] <= g[i]
  <2>1. i # pos /\ i # child /\ Parent(i) >= start /\ Parent(i) # pos
    BY <1>1, <1>2, <1>5, <1>8
  <2>2. g[i] = h[i] /\ h[child] <= h[i]
    BY <1>3, <1>6, <1>8, <2>1
  <2> QED
    BY <1>2, <1>3, <2>2
<1> QED
  BY <1>3, <1>4, <1>7, <1>8 DEF OrderedAround

LEMMA SiftUpOrders ==
    ASSUME NEW start \in Nat \ {0}, NEW h0 \in Seq(Item), start <= Len(h0)
    PROVE  /\ Heaps!SiftUp(h0, start) \in Seq(Item) /\ Len(Heaps!SiftUp(h0, start)) = Len(h0)
           /\ Ordered(h0, start + 1) => Ordered(Heaps!SiftUp(h0, start), start)
<1>1. PICK f \in [Seq(Item) \X (Nat \ {0}) -> Seq(Item)] :
             \A h \in Seq(Item), pos \in Nat \ {0} :
               /\ 2 * pos <= Len(h) => f[<<h, pos>>] =
                    f[<<Heaps!Swapped(h, pos, Heaps!SmallerChild(h, pos)), Heaps!SmallerChild(h, pos)>>]
               /\ ~(2 * pos <= Len(h)) => f[<<h, pos>>] = Heaps!SiftDown(h, start, pos)
               /\ pos = start => Heaps!SiftUp(h, start) = f[<<h, pos>>]
  BY SiftUpIs
<1> DEFINE N == Nat
           len == Len(h0)
           size == [n \in N |-> n]
           Done(h, pos) ==
             /\ f[<<h, pos>>] \in Seq(Item) /\ Len(f[<<h, pos>>]) = Len(h)
             /\ pos \in Under(start) /\ OrderedAround(h, start, pos) => Ordered(f[<<h, pos>>], start)
           T == {n \in N : \A h \in Seq(Item), pos \in 1..len : n = len - pos /\ Len(h) = len => Done(h, pos)}
<1>0. len \in Nat
  BY ItemsAre
<1>2. ASSUME NEW n \in N, \A m \in N : size[m] < size[n] => m \in T PROVE n \in T
  <2> SUFFICES ASSUME NEW h \in Seq(Item), NEW pos \in 1..len, n = len - pos, Len(h) = len
               PROVE  Done(h, pos)
    OBVIOUS
  <2> HIDE DEF len
  <2>0. pos \in Nat \ {0} /\ pos <= len
    BY <1>0
  <2>1. CASE 2 * pos <= Len(h)
    <3> DEFINE c == Heaps!SmallerChild(h, pos)
               g == Heaps!Swapped(h, pos, c)
    <3>1. c \in 1..Len(h) /\ pos \in 1..Len(h) /\ c > pos
      BY <2>0, <2>1, SmallerChildIs
    <3>2. f[<<h, pos>>] = f[<<g, c>>]
      BY <1>1, <2>0, <2>1
    <3>3. pos \in Under(start) /\ OrderedAround(h, start, pos)
            => OrderedAround(g, start, c) /\ c \in Under(start)
      BY <2>1, MoveDown
    <3> HIDE DEF c
    <3>4. g \in Seq(Item) /\ Len(g) = len
      <4>1. c # pos
        BY <2>0, <3>1
      <4> QED
        BY <3>1, <4>1, SwapIs
    <3> HIDE DEF g
    <3>5. len - c \in N /\ len - c < n /\ c \in 1..len
      BY <1>0, <2>0, <3>1
    <3>6. Done(g, c)
      <4>1. size[len - c] < size[n]
        BY <3>5
      <4>2. len - c \in T
        BY <1>2, <3>5, <4>1
      <4> HIDE DEF Done
      <4> QED
        BY <3>4, <3>5, <4>2
    <3> QED
      BY <3>2, <3>3, <3>4, <3>6
  <2>2. CASE ~(2 * pos <= Len(h))
    <3>1. f[<<h, pos>>] = Heaps!SiftDown(h, start, pos)
      BY <1>1, <2>0, <2>2
    <3>2. ASSUME pos \in Under(start), OrderedAround(h, start, pos) PROVE OrderedBut(h, start, pos)
      <4>1. ASSUME NEW i \in 1..Len(h), Parent(i) = pos PROVE FALSE
        <5>1. i \in Nat /\ i <= Len(h)
          BY <1>0
        <5>2. i = 2 * pos \/ i = 2 * pos + 1
          BY <2>0, <4>1, <5>1, ChildIs
        <5> QED
          BY <1>0, <2>0, <2>2, <5>1, <5>2
      <4> QED
        BY <3>2, <4>1 DEF OrderedAround, OrderedBut
    <3> QED
      BY <2>0, <3>1, <3>2, SiftDownOrders
  <2> QED
    BY <2>1, <2>2
<1>3. \A n \in N : n \in T
  <2>1. size \in [N -> Nat]
    OBVIOUS
  <2> HIDE DEF N, size, T
  <2> QED
    BY <1>2, <2>1, MeasureInduction
<1>4. Done(h0, start)
  <2>1. len - start \in N /\ start \in 1..len
    BY <1>0
  <2> HIDE DEF Done
  <2> QED
    BY <1>3, <2>1
<1>5. Heaps!SiftUp(h0, start) = f[<<h0, start>>]
  BY <1>1
<1>6. Ordered(h0, start + 1) => OrderedAround(h0, start, start)
  <2>1. ASSUME NEW i \in 1..Len(h0), Parent(i) >= start, Parent(i) # start PROVE Parent(i) >= start + 1
    <3>1. Parent(i) \in Nat
      BY <1>0, ParentIs
    <3> QED
      BY <2>1, <3>1
  <2> QED
    BY <2>1 DEF Ordered, OrderedAround
<1> QED
  BY <1>4, <1>5, <1>6, UnderIs

LEMMA SiftUpType ==
    ASSUME NEW start \in Nat \ {0}, NEW h \in Seq(Item) PROVE Heaps!SiftUp(h, start) \in Seq(Item)
<1>1. PICK f \in [Seq(Item) \X (Nat \ {0}) -> Seq(Item)] : Heaps!SiftUp(h, start) = f[<<h, start>>]
  BY SiftUpIs
<1> QED
  BY <1>1

-----------------------------------------------------------------------------
LEMMA HeapifyIs ==
    \E f \in [Seq(Item) \X Nat -> Seq(Item)] :
       /\ \A h \in Seq(Item), pos \in Nat :
            f[<<h, pos>>] = IF pos = 0 THEN h ELSE f[<<Heaps!SiftUp(h, pos), pos - 1>>]
       /\ \A list \in Seq(Item) : Heaps!heapify(list) = f[<<list, Parent(Len(list))>>]
<1> DEFINE S == Seq(Item) \X Nat
           Y == Seq(Item)
           Step(here) == <<Heaps!SiftUp(here[1], here[2]), here[2] - 1>>
           W(f) == [here \in S |-> IF here[2] = 0 THEN here[1] ELSE f[Step(here)]]
           size == [here \in S |-> here[2]]
           first == [here \in S |-> here[1]]
           next == [here \in S |-> IF here[2] = 0 THEN here ELSE Step(here)]
           done == {here \in S : here[2] = 0}
<1>1. ASSUME NEW here \in S, here[2] # 0 PROVE Step(here) \in S /\ size[Step(here)] < size[here]
  <2> DEFINE h == here[1]
             pos == here[2]
  <2>1. h \in Seq(Item) /\ pos \in Nat \ {0} /\ here = <<h, pos>>
    BY <1>1
  <2> HIDE DEF h, pos
  <2>2. Heaps!SiftUp(h, pos) \in Seq(Item) /\ pos - 1 \in Nat /\ pos - 1 < pos
    BY <2>1, SiftUpType
  <2>3. Step(here) = <<Heaps!SiftUp(h, pos), pos - 1>>
    BY <2>1
  <2>4. Step(here) \in S
    BY <2>2, <2>3
  <2>5. size[<<Heaps!SiftUp(h, pos), pos - 1>>] = pos - 1 /\ size[here] = pos
    BY <2>1, <2>2
  <2> HIDE DEF size, S, Step
  <2> QED
    BY <2>2, <2>3, <2>4, <2>5
<1>2. Descends(S, Y, size, done, first, next)
  <2>1. size \in [S -> Nat] /\ first \in [S -> Y]
    OBVIOUS
  <2>2. next \in [S -> S]
    <3> HIDE DEF S, Step
    <3> QED
      BY <1>1
  <2>3. ASSUME NEW here \in S, here \notin done PROVE size[next[here]] < size[here]
    <3>1. here[2] # 0
      BY <2>3
    <3>2. next[here] = Step(here)
      BY <3>1
    <3> HIDE DEF next, Step, size, S
    <3> QED
      BY <1>1, <3>1, <3>2
  <2> HIDE DEF S, Y, size, done, first, next
  <2> QED
    BY <2>1, <2>2, <2>3 DEF Descends
<1>3. ASSUME NEW f PROVE Gives(f, S, done, first, next) <=>
        \A here \in S : f[here] = IF here[2] = 0 THEN here[1] ELSE f[Step(here)]
  <2>1. ASSUME NEW here \in S
        PROVE  /\ here \in done <=> here[2] = 0
               /\ here \notin done => next[here] = Step(here)
               /\ first[here] = here[1]
    OBVIOUS
  <2> HIDE DEF S, done, first, next, Step
  <2> QED
    BY <2>1 DEF Gives
<1>4. \E f : f = W(f)
  <2>1. PICK f \in [S -> Y] : Gives(f, S, done, first, next)
    <3> HIDE DEF S, Y, size, first, next, done
    <3> QED
      BY <1>2, TailRecursion
  <2>2. f = W(f)
    <3>1. f = [here \in S |-> f[here]]
      <4> HIDE DEF S, Y
      <4> QED
        BY <2>1
    <3>2. \A here \in S : f[here] = IF here[2] = 0 THEN here[1] ELSE f[Step(here)]
      BY <1>3, <2>1
    <3> HIDE DEF S, Step
    <3>3. [here \in S |-> f[here]] = W(f)
      BY <3>2
    <3> QED
      BY <3>1, <3>3, Zenon
  <2> QED
    BY <2>2
<1> DEFINE f == CHOOSE g : g = W(g)
<1>5. f = W(f)
  <2> HIDE DEF W
  <2> QED
    BY <1>4
<1>6. ASSUME NEW h \in Seq(Item) PROVE Heaps!heapify(h) = f[<<h, Parent(Len(h))>>]
  BY Zenon DEF Heaps!heapify, Parent
<1> HIDE DEF f
<1>7. \A here \in S : f[here] = IF here[2] = 0 THEN here[1] ELSE f[Step(here)]
  <2> HIDE DEF S, Step
  <2> QED
    BY <1>5
<1>8. f \in [S -> Y]
  <2>1. Gives(f, S, done, first, next)
    BY <1>3, <1>7
  <2>2. f = [here \in S |-> f[here]]
    BY <1>5
  <2> HIDE DEF S, Y, size, done, first, next
  <2>3. \A here \in S : f[here] \in Y
    BY <1>2, <2>1, TailRecursionGives
  <2> QED
    BY <2>2, <2>3
<1>9. ASSUME NEW h \in Seq(Item), NEW pos \in Nat
      PROVE  f[<<h, pos>>] = IF pos = 0 THEN h ELSE f[<<Heaps!SiftUp(h, pos), pos - 1>>]
  <2>1. <<h, pos>> \in S
    OBVIOUS
  <2>2. /\ <<h, pos>>[1] = h /\ <<h, pos>>[2] = pos
        /\ Step(<<h, pos>>) = <<Heaps!SiftUp(h, pos), pos - 1>>
    OBVIOUS
  <2> HIDE DEF S, Step
  <2> QED
    BY <1>7, <2>1, <2>2
<1> QED
  BY <1>6, <1>8, <1>9

LEMMA HeapifyOrders ==
    ASSUME NEW list \in Seq(Item)
    PROVE  /\ Heaps!heapify(list) \in Seq(Item) /\ Len(Heaps!heapify(list)) = Len(list)
           /\ Ordered(Heaps!heapify(list), 1)
<1>1. PICK f \in [Seq(Item) \X Nat -> Seq(Item)] :
       /\ \A h \in Seq(Item), pos \in Nat :
            f[<<h, pos>>] = IF pos = 0 THEN h ELSE f[<<Heaps!SiftUp(h, pos), pos - 1>>]
       /\ \A q \in Seq(Item) : Heaps!heapify(q) = f[<<q, Parent(Len(q))>>]
  BY HeapifyIs
<1> DEFINE Done(h, pos) ==
             /\ f[<<h, pos>>] \in Seq(Item) /\ Len(f[<<h, pos>>]) = Len(h)
             /\ Ordered(h, pos + 1) => Ordered(f[<<h, pos>>], 1)
           T == {n \in Nat : \A h \in Seq(Item) : n <= Len(h) => Done(h, n)}
<1>2. 0 \in T
  <2>1. ASSUME NEW h \in Seq(Item) PROVE Done(h, 0)
    <3> DEFINE none == 0
    <3>1. none \in Nat /\ none = 0 /\ none + 1 = 1
      OBVIOUS
    <3> HIDE DEF none
    <3>2. f[<<h, none>>] = h
      BY <1>1, <3>1
    <3>3. Done(h, none)
      BY <3>1, <3>2
    <3> QED
      BY <3>3 DEF none
  <2> QED
    BY <2>1
<1>3. ASSUME NEW n \in Nat, n \in T PROVE n + 1 \in T
  <2> SUFFICES ASSUME NEW h \in Seq(Item), n + 1 <= Len(h) PROVE Done(h, n + 1)
    OBVIOUS
  <2>0. Len(h) \in Nat /\ n + 1 \in Nat \ {0} /\ (n + 1) - 1 = n /\ n <= Len(h)
    BY ItemsAre
  <2> DEFINE m == n + 1
             g == Heaps!SiftUp(h, m)
  <2>1. f[<<h, m>>] = f[<<g, n>>]
    BY <1>1, <2>0
  <2>2. g \in Seq(Item) /\ Len(g) = Len(h) /\ (Ordered(h, m + 1) => Ordered(g, m))
    <3> HIDE DEF m
    <3> QED
      BY <2>0, SiftUpOrders DEF m
  <2> HIDE DEF g
  <2>3. Done(g, n)
    <3> HIDE DEF Done
    <3> QED
      BY <1>3, <2>0, <2>2
  <2> QED
    BY <2>1, <2>2, <2>3
<1>4. \A n \in Nat : n \in T
  <2> HIDE DEF T
  <2> QED
    BY <1>2, <1>3, Induction
<1> DEFINE half == Parent(Len(list))
<1>5. half \in Nat /\ half <= Len(list) /\ Len(list) \in Nat /\ Len(list) <= 2 * half + 1
  <2>1. Len(list) \in Nat
    BY ItemsAre
  <2> DEFINE n == Len(list)
  <2> HIDE DEF n
  <2>2. n \in Nat
    BY <2>1 DEF n
  <2>3. Parent(n) \in Nat /\ 2 * Parent(n) <= n /\ n <= 2 * Parent(n) + 1
    BY <2>2, ParentIs
  <2>4. Parent(n) <= n
    BY <2>2, <2>3
  <2> QED
    BY <2>2, <2>3, <2>4 DEF n
<1> HIDE DEF half
<1>6. Ordered(list, half + 1)
  <2>1. ASSUME NEW i \in 1..Len(list), Parent(i) >= half + 1 PROVE FALSE
    <3>1. i \in Nat /\ i <= Len(list)
      BY <1>5
    <3>2. Parent(i) \in Nat /\ 2 * Parent(i) <= i
      BY <3>1, ParentIs
    <3> QED
      BY <1>5, <2>1, <3>1, <3>2
  <2> QED
    BY <2>1 DEF Ordered
<1>7. Done(list, half)
  <2> HIDE DEF Done
  <2> QED
    BY <1>4, <1>5
<1>8. Heaps!heapify(list) = f[<<list, half>>]
  BY <1>1 DEF half
<1> QED
  BY <1>6, <1>7, <1>8

\* In a heap the smallest is first.
LEMMA FirstIsLeast ==
    ASSUME NEW h \in Seq(Item), Ordered(h, 1)
    PROVE  \A i \in 1..Len(h) : h[1] <= h[i]
<1> DEFINE N == Nat
           size == [n \in N |-> n]
           T == {n \in N : n \in 1..Len(h) => h[1] <= h[n]}
<1>1. ASSUME NEW n \in N, \A m \in N : size[m] < size[n] => m \in T PROVE n \in T
  <2> SUFFICES ASSUME n \in 1..Len(h) PROVE h[1] <= h[n]
    OBVIOUS
  <2>0. Len(h) \in Nat /\ \A i \in 1..Len(h) : h[i] \in Int
    BY ItemsAre
  <2>1. CASE n > 1
    <3>1. Parent(n) \in 1..Len(h) /\ Parent(n) < n /\ Parent(n) \in N
      BY <2>0, <2>1, ParentInside
    <3>2. h[1] <= h[Parent(n)]
      <4>1. size[Parent(n)] < size[n]
        BY <3>1
      <4>2. Parent(n) \in T
        BY <1>1, <3>1, <4>1
      <4> QED
        BY <3>1, <4>2
    <3>3. h[Parent(n)] <= h[n]
      BY <2>0, <3>1 DEF Ordered
    <3>4. 1 \in 1..Len(h) /\ n \in 1..Len(h)
      BY <2>0, <3>1
    <3>5. h[1] \in Int /\ h[n] \in Int /\ h[Parent(n)] \in Int
      BY <2>0, <3>1, <3>4
    <3> QED
      BY <3>2, <3>3, <3>5
  <2>2. CASE n = 1
    BY <2>0, <2>2
  <2> QED
    BY <2>0, <2>1, <2>2
<1>2. \A n \in N : n \in T
  <2>1. size \in [N -> Nat]
    OBVIOUS
  <2> HIDE DEF N, size, T
  <2> QED
    BY <1>1, <2>1, MeasureInduction
<1>3. Len(h) \in Nat
  BY ItemsAre
<1> QED
  BY <1>2, <1>3

-----------------------------------------------------------------------------
HeapInv == Heaps!TypeOK /\ (~raw => ~wrong /\ Ordered(heap, 1))

LEMMA HeapInit == Init => HeapInv
<1> SUFFICES ASSUME Heaps!Init PROVE HeapInv
  BY DEF Init
<1>1. PICK n \in 0..MaxLength : \E list \in [1..n -> Item] : heap = Heaps!heapify(list)
  BY DEF Heaps!Init
<1>2. PICK list \in [1..n -> Item] : heap = Heaps!heapify(list)
  BY <1>1
<1>3. n \in Nat /\ n <= MaxLength
  BY HeapConstants
<1>4. list \in Seq(Item) /\ Len(list) = n
  BY <1>3, SeqDef, LenProperties
<1>5. heap \in Seq(Item) /\ Len(heap) = n /\ Ordered(heap, 1)
  BY <1>2, <1>4, HeapifyOrders
<1> QED
  BY <1>3, <1>5 DEF HeapInv, Heaps!TypeOK, Heaps!Init

LEMMA ReplaceIs ==
    ASSUME NEW h \in Seq(Item), NEW x \in Item, Len(h) >= 1
    PROVE  /\ Heaps!heapreplace(h, x) \in Seq(Item) /\ Len(Heaps!heapreplace(h, x)) = Len(h)
           /\ Ordered(h, 1) => Ordered(Heaps!heapreplace(h, x), 1)
<1> DEFINE g == [h EXCEPT ![1] = x]
<1>1. Len(h) \in Nat /\ DOMAIN h = 1..Len(h) /\ h \in [1..Len(h) -> Item]
  BY LenProperties
<1>2. g \in [1..Len(h) -> Item] /\ \A i \in 1..Len(h) : i # 1 => g[i] = h[i]
  BY <1>1
<1> HIDE DEF g
<1>3. g \in Seq(Item)
  BY <1>1, <1>2, SeqDef
<1>4. Len(g) = Len(h)
  BY <1>1, <1>2, <1>3, LenProperties
<1>5. ASSUME Ordered(h, 1) PROVE Ordered(g, 2)
  <2>1. ASSUME NEW i \in 1..Len(h), Parent(i) >= 2 PROVE g[Parent(i)] <= g[i]
    <3>1. i \in Nat /\ i > 0 /\ i <= Len(h)
      BY <1>1
    <3>2. Parent(i) < i /\ Parent(i) \in Nat
      BY <3>1, ParentIs
    <3>3. i # 1 /\ Parent(i) # 1 /\ Parent(i) \in 1..Len(h) /\ Parent(i) >= 1
      BY <1>1, <2>1, <3>1, <3>2
    <3> QED
      BY <1>2, <1>5, <3>3 DEF Ordered
  <2> QED
    BY <1>4, <2>1 DEF Ordered
<1>6. Heaps!heapreplace(h, x) = Heaps!SiftUp(g, 1)
  BY DEF Heaps!heapreplace, g
<1> DEFINE one == 1
<1>7. one \in Nat \ {0} /\ one <= Len(g) /\ one + 1 = 2 /\ one = 1
  BY <1>1, <1>4
<1> HIDE DEF one
<1>8. /\ Heaps!SiftUp(g, one) \in Seq(Item) /\ Len(Heaps!SiftUp(g, one)) = Len(g)
      /\ Ordered(g, one + 1) => Ordered(Heaps!SiftUp(g, one), one)
  BY <1>3, <1>7, SiftUpOrders
<1> QED
  BY <1>4, <1>5, <1>6, <1>7, <1>8

LEMMA FrontIs ==
    ASSUME NEW h \in Seq(Item), Len(h) >= 1
    PROVE  /\ Heaps!Front(h) \in Seq(Item) /\ Len(Heaps!Front(h)) = Len(h) - 1
           /\ \A i \in 1..(Len(h) - 1) : Heaps!Front(h)[i] = h[i]
           /\ Heaps!Last(h) = h[Len(h)] /\ Heaps!Last(h) \in Item /\ h[1] \in Item
<1>1. Len(h) \in Nat /\ DOMAIN h = 1..Len(h) /\ \A i \in 1..Len(h) : h[i] \in Item
  BY LenProperties, ElementOfSeq
<1>2. Heaps!Front(h) = SubSeq(h, 1, Len(h) - 1)
  BY DEF Heaps!Front
<1> DEFINE n == Len(h) - 1
           q == SubSeq(h, 1, n)
<1>3. n \in Nat /\ \A i \in 1..n : h[i] \in Item
  BY <1>1
<1>4. /\ q \in Seq(Item) /\ Len(q) = IF 1 <= n THEN n - 1 + 1 ELSE 0
      /\ \A i \in 1..(n - 1 + 1) : q[i] = h[1 + i - 1]
  <2> HIDE DEF n
  <2> QED
    BY <1>3, SubSeqProperties
<1> HIDE DEF q
<1>5. Len(q) = n /\ \A i \in 1..n : q[i] = h[i]
  <2> HIDE DEF n
  <2>1. Len(q) = n
    <3>1. CASE n = 0
      BY <1>4, <3>1
    <3>2. CASE n # 0
      BY <1>3, <1>4, <3>2
    <3> QED
      BY <3>1, <3>2
  <2>2. ASSUME NEW i \in 1..n PROVE q[i] = h[i]
    <3>1. i \in 1..(n - 1 + 1) /\ 1 + i - 1 = i
      BY <1>3
    <3> QED
      BY <1>4, <3>1
  <2> QED
    BY <2>1, <2>2
<1>6. Heaps!Last(h) = h[Len(h)] /\ Len(h) \in 1..Len(h) /\ 1 \in 1..Len(h)
  BY <1>1 DEF Heaps!Last
<1> QED
  BY <1>1, <1>2, <1>4, <1>5, <1>6 DEF q

LEMMA PopIs ==
    ASSUME NEW h \in Seq(Item), Len(h) >= 1
    PROVE  /\ Heaps!heappop(h) \in Seq(Item) /\ Len(Heaps!heappop(h)) <= Len(h)
           /\ Ordered(h, 1) => Ordered(Heaps!heappop(h), 1)
<1>1. Len(h) \in Nat
  BY ItemsAre
<1>2. CASE Len(h) = 1
  <2>1. Heaps!heappop(h) = <<>>
    BY <1>2 DEF Heaps!heappop
  <2>2. <<>> \in Seq(Item) /\ Len(<<>>) = 0 /\ Ordered(<<>>, 1)
    BY DEF Ordered
  <2> QED
    BY <1>2, <2>1, <2>2
<1>3. CASE Len(h) # 1
  <2>1. Heaps!heappop(h) = Heaps!heapreplace(Heaps!Front(h), Heaps!Last(h))
    BY <1>3 DEF Heaps!heappop
  <2> DEFINE q == Heaps!Front(h)
  <2>2. /\ q \in Seq(Item) /\ Len(q) = Len(h) - 1 /\ Heaps!Last(h) \in Item
        /\ \A i \in 1..(Len(h) - 1) : q[i] = h[i]
    BY FrontIs
  <2> HIDE DEF q
  <2>3. Len(q) >= 1
    BY <1>1, <1>3, <2>2
  <2>4. Ordered(h, 1) => Ordered(q, 1)
    <3>1. ASSUME Ordered(h, 1), NEW i \in 1..Len(q), Parent(i) >= 1 PROVE q[Parent(i)] <= q[i]
      <4>1. i \in Nat /\ i > 0 /\ i <= Len(h) - 1 /\ i \in 1..Len(h)
        BY <1>1, <2>2
      <4>2. Parent(i) < i /\ Parent(i) \in Nat
        BY <4>1, ParentIs
      <4>3. Parent(i) \in 1..(Len(h) - 1)
        BY <1>1, <3>1, <4>1, <4>2
      <4>4. h[Parent(i)] <= h[i]
        BY <3>1, <4>1 DEF Ordered
      <4>5. q[i] = h[i]
        BY <2>2
      <4> QED
        BY <2>2, <4>3, <4>4, <4>5
    <3> QED
      BY <3>1 DEF Ordered
  <2>5. /\ Heaps!heapreplace(q, Heaps!Last(h)) \in Seq(Item) /\ Len(Heaps!heapreplace(q, Heaps!Last(h))) = Len(q)
        /\ Ordered(q, 1) => Ordered(Heaps!heapreplace(q, Heaps!Last(h)), 1)
    BY <2>2, <2>3, ReplaceIs
  <2> QED
    BY <1>1, <2>1, <2>2, <2>4, <2>5 DEF q
<1> QED
  BY <1>2, <1>3

LEMMA PushIs ==
    ASSUME NEW h \in Seq(Item), NEW x \in Item
    PROVE  /\ Heaps!heappush(h, x) \in Seq(Item) /\ Len(Heaps!heappush(h, x)) = Len(h) + 1
           /\ Ordered(h, 1) => Ordered(Heaps!heappush(h, x), 1)
<1> DEFINE g == Append(h, x)
           n == Len(h)
           last == n + 1
<1>1. n \in Nat /\ last \in Nat /\ last > 0 /\ last <= n + 1
  BY ItemsAre
<1>2. g \in Seq(Item) /\ Len(g) = last /\ \A i \in 1..n : g[i] = h[i]
  BY AppendProperties
<1>3. Heaps!heappush(h, x) = Heaps!SiftDown(g, 1, last)
  BY DEF Heaps!heappush
<1> HIDE DEF g
<1>4. ASSUME Ordered(h, 1) PROVE OrderedBut(g, 1, last)
  <2> DEFINE par == Parent(last)
  <2>1. ASSUME NEW i \in 1..Len(g), Parent(i) >= 1, i # last PROVE g[Parent(i)] <= g[i]
    <3>1. i \in Nat /\ i > 0 /\ i <= n /\ i \in 1..n
      BY <1>1, <1>2, <2>1
    <3>2. Parent(i) < i /\ Parent(i) \in Nat
      BY <3>1, ParentIs
    <3>3. Parent(i) \in 1..n
      BY <1>1, <2>1, <3>1, <3>2
    <3> QED
      BY <1>2, <1>4, <2>1, <3>1, <3>3 DEF Ordered
  <2>2. ASSUME NEW i \in 1..Len(g), Parent(i) = last PROVE FALSE
    <3>1. i \in Nat /\ i > 0 /\ i <= last
      BY <1>1, <1>2
    <3>2. Parent(i) < i /\ Parent(i) \in Nat
      BY <3>1, ParentIs
    <3> QED
      BY <1>1, <2>2, <3>1, <3>2
  <2> HIDE DEF last
  <2> QED
    BY <2>1, <2>2 DEF OrderedBut
<1>5. last \in Under(1)
  BY <1>1, AllUnderOne
<1> DEFINE one == 1
<1>6. one \in Nat \ {0} /\ one = 1
  OBVIOUS
<1> HIDE DEF one, last
<1>7. /\ Heaps!SiftDown(g, one, last) \in Seq(Item) /\ Len(Heaps!SiftDown(g, one, last)) = Len(g)
      /\ last \in Under(one) /\ last <= Len(g) /\ OrderedBut(g, one, last)
            => Ordered(Heaps!SiftDown(g, one, last), one)
  BY <1>1, <1>2, <1>6, SiftDownOrders
<1>8. last <= Len(g) /\ last = Len(h) + 1
  BY <1>1, <1>2 DEF last
<1> QED
  BY <1>2, <1>3, <1>4, <1>5, <1>6, <1>7, <1>8

LEMMA SequenceMethods ==
    ASSUME NEW h \in Seq(Item), NEW i \in 1..Len(h) + 1, NEW x \in Item
    PROVE  /\ Heaps!InsertAt(h, i, x) \in Seq(Item) /\ Len(Heaps!InsertAt(h, i, x)) = Len(h) + 1
           /\ i \in DOMAIN h => /\ [h EXCEPT ![i] = x] \in Seq(Item) /\ Len([h EXCEPT ![i] = x]) = Len(h)
                                /\ Heaps!RemoveAt(h, i) \in Seq(Item) /\ Len(Heaps!RemoveAt(h, i)) = Len(h) - 1
<1>1. /\ Len(h) \in Nat /\ DOMAIN h = 1..Len(h) /\ (\A j \in 1..Len(h) : h[j] \in Item)
      /\ h \in [1..Len(h) -> Item]
  BY LenProperties, ElementOfSeq
<1>2. Heaps!InsertAt(h, i, x) \in Seq(Item) /\ Len(Heaps!InsertAt(h, i, x)) = Len(h) + 1
  <2> DEFINE a == SubSeq(h, 1, i - 1)
             b == SubSeq(h, i, Len(h))
             n == Len(h)
             m == i - 1
  <2>1. a \in Seq(Item) /\ Len(a) = i - 1
    <3>1. m \in Nat /\ \A j \in 1..m : h[j] \in Item
      BY <1>1
    <3>2. SubSeq(h, 1, m) \in Seq(Item) /\ Len(SubSeq(h, 1, m)) = IF 1 <= m THEN m - 1 + 1 ELSE 0
      <4> HIDE DEF m
      <4> QED
        BY <3>1, SubSeqProperties
    <3> QED
      BY <1>1, <3>1, <3>2
  <2>2. b \in Seq(Item) /\ Len(b) = Len(h) + 1 - i
    <3>1. i \in Nat /\ n \in Nat /\ \A j \in i..n : h[j] \in Item
      BY <1>1
    <3>2. SubSeq(h, i, n) \in Seq(Item) /\ Len(SubSeq(h, i, n)) = IF i <= n THEN n - i + 1 ELSE 0
      <4> HIDE DEF n
      <4> QED
        BY <3>1, SubSeqProperties
    <3>3. i <= n \/ i = n + 1
      BY <1>1
    <3>4. CASE i <= n
      BY <1>1, <3>1, <3>2, <3>4
    <3>5. CASE i = n + 1
      BY <1>1, <3>1, <3>2, <3>5
    <3> QED
      BY <3>3, <3>4, <3>5
  <2>3. Heaps!InsertAt(h, i, x) = a \o <<x>> \o b
    BY DEF Heaps!InsertAt
  <2> HIDE DEF a, b
  <2>4. <<x>> \in Seq(Item) /\ Len(<<x>>) = 1
    OBVIOUS
  <2>5. a \o <<x>> \in Seq(Item) /\ Len(a \o <<x>>) = i - 1 + 1
    BY <2>1, <2>4, ConcatProperties
  <2> DEFINE c == a \o <<x>>
  <2> HIDE DEF c
  <2>6. c \o b \in Seq(Item) /\ Len(c \o b) = Len(c) + Len(b)
    <3>1. c \in Seq(Item)
      BY <2>5 DEF c
    <3> QED
      BY <2>2, <3>1, ConcatProperties
  <2>7. (i - 1 + 1) + (Len(h) + 1 - i) = Len(h) + 1
    BY <1>1
  <2>8. Len(c \o b) = (i - 1 + 1) + (Len(h) + 1 - i)
    BY <2>2, <2>5, <2>6 DEF c
  <2>9. Heaps!InsertAt(h, i, x) = c \o b
    BY <2>3 DEF c
  <2> HIDE DEF c
  <2> QED
    BY <2>6, <2>7, <2>8, <2>9
<1>3. ASSUME i \in DOMAIN h
      PROVE  [h EXCEPT ![i] = x] \in Seq(Item) /\ Len([h EXCEPT ![i] = x]) = Len(h)
  <2> DEFINE g == [h EXCEPT ![i] = x]
  <2>1. g \in [1..Len(h) -> Item]
    BY <1>1
  <2> HIDE DEF g
  <2>2. g \in Seq(Item)
    BY <1>1, <2>1, SeqDef
  <2> QED
    BY <1>1, <2>1, <2>2, LenProperties DEF g
<1>4. ASSUME i \in DOMAIN h
      PROVE  Heaps!RemoveAt(h, i) \in Seq(Item) /\ Len(Heaps!RemoveAt(h, i)) = Len(h) - 1
  <2> DEFINE r == Heaps!RemoveAt(h, i)
  <2>1. Removed(h, i, r)
    BY DEF Heaps!RemoveAt, Removed
  <2> HIDE DEF r
  <2>2. i \in 1..Len(h)
    BY <1>1, <1>4
  <2> QED
    BY <2>1, <2>2, Removal DEF r
<1> QED
  BY <1>2, <1>3, <1>4

LEMMA HeapNext ==
    ASSUME HeapInv, [Heaps!Next]_(Heaps!vars)
    PROVE  HeapInv'
<1>0. /\ heap \in Seq(Item) /\ Len(heap) \in Nat /\ Len(heap) <= MaxLength /\ MaxLength \in Nat
      /\ raw \in BOOLEAN /\ wrong \in BOOLEAN /\ DOMAIN heap = 1..Len(heap)
      /\ (~raw => ~wrong /\ Ordered(heap, 1))
      /\ \A i \in 1..Len(heap) : heap[i] \in Int
  BY HeapConstants, ItemsAre, LenProperties DEF HeapInv, Heaps!TypeOK
<1>1. ASSUME heap # <<>> PROVE Len(heap) >= 1 /\ 1 \in 1..Len(heap) /\ heap[1] \in Int
  <2>1. Len(heap) # 0
    BY <1>0, <1>1, EmptySeq
  <2> QED
    BY <1>0, <2>1
\* What is given is the smallest.
<1>2. ASSUME NEW x \in Int, Heaps!Gives(x, heap), Ordered(heap, 1) => \A i \in 1..Len(heap) : x <= heap[i]
      PROVE  wrong' \in BOOLEAN /\ (~raw => ~wrong')
  <2>1. wrong' = (wrong \/ \E i \in DOMAIN heap : heap[i] < x)
    BY <1>2 DEF Heaps!Gives
  <2>2. ASSUME Ordered(heap, 1), NEW i \in DOMAIN heap PROVE ~(heap[i] < x)
    BY <1>0, <1>2, <2>2
  <2>3. wrong' <=> wrong \/ \E i \in DOMAIN heap : heap[i] < x
    BY <2>1, Zenon
  <2>4. wrong' \in BOOLEAN
    BY <2>1, Zenon
  <2> QED
    BY <1>0, <2>2, <2>3, <2>4
<1>3. ASSUME Ordered(heap, 1) PROVE \A i \in 1..Len(heap) : heap[1] <= heap[i]
  BY <1>0, <1>3, FirstIsLeast
<1>4. CASE Heaps!Pop
  <2>1. /\ heap # <<>> /\ heap' = Heaps!heappop(heap) /\ Heaps!Gives(heap[1], heap) /\ raw' = raw
    BY <1>4 DEF Heaps!Pop
  <2>2. heap' \in Seq(Item) /\ Len(heap') <= Len(heap) /\ (Ordered(heap, 1) => Ordered(heap', 1))
    BY <1>0, <1>1, <2>1, PopIs
  <2>3. wrong' \in BOOLEAN /\ (~raw => ~wrong')
    BY <1>1, <1>2, <1>3, <2>1
  <2>4. Len(heap') <= MaxLength
    BY <1>0, <2>2, ItemsAre
  <2> QED
    BY <1>0, <2>1, <2>2, <2>3, <2>4 DEF HeapInv, Heaps!TypeOK
<1>5. ASSUME NEW x \in Item, Heaps!Push(x) PROVE HeapInv'
  <2>1. Len(heap) < MaxLength /\ heap' = Heaps!heappush(heap, x) /\ raw' = raw /\ wrong' = wrong
    BY <1>5 DEF Heaps!Push
  <2>2. /\ heap' \in Seq(Item) /\ Len(heap') = Len(heap) + 1
        /\ (Ordered(heap, 1) => Ordered(heap', 1))
    BY <1>0, <2>1, PushIs
  <2>3. Len(heap') <= MaxLength
    BY <1>0, <2>1, <2>2
  <2> QED
    BY <1>0, <2>1, <2>2, <2>3 DEF HeapInv, Heaps!TypeOK
<1>6. ASSUME NEW x \in Item, heap # <<>>, heap' = Heaps!heapreplace(heap, x), Heaps!Gives(heap[1], heap),
             raw' = raw
      PROVE  HeapInv'
  <2>1. heap' \in Seq(Item) /\ Len(heap') = Len(heap) /\ (Ordered(heap, 1) => Ordered(heap', 1))
    BY <1>0, <1>1, <1>6, ReplaceIs
  <2>2. wrong' \in BOOLEAN /\ (~raw => ~wrong')
    BY <1>1, <1>2, <1>3, <1>6
  <2>3. Len(heap') <= MaxLength
    BY <1>0, <2>1
  <2> QED
    BY <1>0, <1>6, <2>1, <2>2, <2>3 DEF HeapInv, Heaps!TypeOK
<1>7. ASSUME NEW x \in Item, Heaps!Replace(x) PROVE HeapInv'
  BY <1>6, <1>7 DEF Heaps!Replace
<1>8. ASSUME NEW x \in Item, Heaps!PushPop(x) PROVE HeapInv'
  <2>1. CASE heap # <<>> /\ heap[1] < x
    BY <1>6, <1>8, <2>1 DEF Heaps!PushPop
  <2>2. CASE ~(heap # <<>> /\ heap[1] < x)
    <3>1. heap' = heap /\ Heaps!Gives(x, heap) /\ raw' = raw
      BY <1>8, <2>2 DEF Heaps!PushPop
    <3>2. x \in Int
      BY HeapConstants
    <3>3. ASSUME Ordered(heap, 1), NEW i \in 1..Len(heap) PROVE x <= heap[i]
      <4>1. heap[1] <= heap[i]
        BY <1>3, <3>3
      <4>2. heap # <<>>
        BY <1>0, <3>3, EmptySeq
      <4>3. heap[1] \in Int /\ heap[i] \in Int
        BY <1>0, <1>1, <4>2
      <4> QED
        BY <2>2, <3>2, <4>1, <4>2, <4>3
    <3>4. wrong' \in BOOLEAN /\ (~raw => ~wrong')
      BY <1>2, <3>1, <3>2, <3>3
    <3> QED
      BY <1>0, <3>1, <3>4 DEF HeapInv, Heaps!TypeOK
  <2> QED
    BY <2>1, <2>2
<1>9. ASSUME NEW x \in Item, NEW i \in 1..Len(heap) + 1, Heaps!Insert(i, x) PROVE HeapInv'
  <2>1. Len(heap) < MaxLength /\ heap' = Heaps!InsertAt(heap, i, x) /\ raw' = TRUE /\ wrong' = wrong
    BY <1>9 DEF Heaps!Insert
  <2>2. heap' \in Seq(Item) /\ Len(heap') = Len(heap) + 1
    BY <1>0, <2>1, SequenceMethods
  <2>3. Len(heap') <= MaxLength
    BY <1>0, <2>1, <2>2
  <2> QED
    BY <1>0, <2>1, <2>2, <2>3 DEF HeapInv, Heaps!TypeOK
<1>10. ASSUME NEW x \in Item, NEW i \in DOMAIN heap, Heaps!SetItem(i, x) PROVE HeapInv'
  <2>1. i \in 1..Len(heap) + 1
    BY <1>0
  <2>2. heap' = [heap EXCEPT ![i] = x] /\ raw' = TRUE /\ wrong' = wrong
    BY <1>10 DEF Heaps!SetItem
  <2>3. heap' \in Seq(Item) /\ Len(heap') = Len(heap)
    BY <1>0, <2>1, <2>2, SequenceMethods
  <2> QED
    BY <1>0, <2>2, <2>3 DEF HeapInv, Heaps!TypeOK
<1>11. ASSUME NEW i \in DOMAIN heap, Heaps!DeleteItem(i) PROVE HeapInv'
  <2>1. i \in 1..Len(heap) + 1 /\ heap[i] \in Item
    BY <1>0, ElementOfSeq
  <2>2. heap' = Heaps!RemoveAt(heap, i) /\ raw' = TRUE /\ wrong' = wrong
    BY <1>11 DEF Heaps!DeleteItem
  <2>3. heap' \in Seq(Item) /\ Len(heap') = Len(heap) - 1
    BY <1>0, <2>1, <2>2, SequenceMethods
  <2>4. Len(heap') <= MaxLength
    BY <1>0, <2>3
  <2> QED
    BY <1>0, <2>2, <2>3, <2>4 DEF HeapInv, Heaps!TypeOK
<1>12. CASE UNCHANGED Heaps!vars
  BY <1>12 DEF Heaps!vars, HeapInv, Heaps!TypeOK
<1> QED
  BY <1>4, <1>5, <1>7, <1>8, <1>9, <1>10, <1>11, <1>12 DEF Heaps!Next

\* While only its own methods are used, a heap has the smallest first and gives it, and
\* no item is smaller than its parent (Heap of mode/utils/collections.py).
LEMMA HeapsHold == Spec => [](Heaps!TypeOK /\ Heaps!HeapRight)
<1>1. HeapInv => Heaps!TypeOK /\ Heaps!HeapRight
  <2> SUFFICES ASSUME HeapInv, ~raw, NEW i \in DOMAIN heap
               PROVE  heap[1] <= heap[i] /\ (i > 1 => heap[i \div 2] <= heap[i])
    BY DEF HeapInv, Heaps!HeapRight
  <2>1. /\ heap \in Seq(Item) /\ Ordered(heap, 1) /\ i \in 1..Len(heap) /\ Len(heap) \in Nat
    BY LenProperties DEF HeapInv, Heaps!TypeOK
  <2>2. heap[1] <= heap[i]
    BY <2>1, FirstIsLeast
  <2>3. ASSUME i > 1 PROVE heap[Parent(i)] <= heap[i]
    <3>1. Parent(i) \in 1..Len(heap)
      BY <2>1, <2>3, ParentInside
    <3>2. Parent(i) >= 1
      BY <2>1, <3>1
    <3> QED
      BY <2>1, <3>2 DEF Ordered
  <2> QED
    BY <2>2, <2>3 DEF Parent
<1> QED
  BY HeapInit, HeapNext, PartSteps, <1>1, PTL DEF Spec

\* LRUCache keeps to its limit, evicts no key before one that was last inserted or read
\* earlier and breaks only by a deletion of another thread; a heap has the smallest first and gives it while
\* only its own methods are used (mode/utils/collections.py).
THEOREM CollectionsStayRight == Spec => []CollectionsRight
<1>1. Caches!CacheRight /\ Heaps!HeapRight => CollectionsRight
  BY DEF CollectionsRight
<1> QED
  BY CachesHold, HeapsHold, <1>1, PTL

-----------------------------------------------------------------------------
(* Exit stacks.                                                            *)

LEMMA ExitConstants ==
    /\ MaxEntries \in Nat /\ Exits!Entry = 1..MaxEntries /\ Exits!Body = MaxEntries + 1
    /\ Exits!NoExc = 0 /\ Exits!Exc = 1..(MaxEntries + 1) /\ Exits!Loop = MaxEntries + 2 /\ Exits!Found = -1
BY DataConstants DEF Exits!Entry, Exits!Body, Exits!NoExc, Exits!Exc, Exits!Loop, Exits!Found

LEMMA ExitSets ==
    /\ Exits!Entry \subseteq Exits!Exc /\ Exits!Body \in Exits!Exc /\ Exits!NoExc \notin Exits!Exc
    /\ Exits!Body \notin Exits!Entry /\ Exits!Loop \notin Exits!Exc /\ Exits!Found \notin Exits!Exc
    /\ Exits!Found # Exits!Loop
BY ExitConstants

\* The exceptions that nested blocks leave, after each callback.
Outermost(received) == IF received THEN <<Exits!Body>> ELSE <<>>
Lefts(f, r, first) ==
    f = [i \in 0..Len(r) |-> IF i = 0 THEN first ELSE Exits!With(f[i - 1], r[i])]
Left(r, first) == (CHOOSE f : Lefts(f, r, first))[Len(r)]
Step == Exits!Entry \X Exits!Did \X Exits!Entry

LEMMA NestedIs == Exits!Nested = Left(ran, Outermost(received_exc))
BY Zenon DEF Exits!Nested, Left, Lefts, Outermost

LEMMA WithIs ==
    ASSUME NEW inner \in Seq(Exits!Exc), NEW x \in Step
    PROVE  /\ Exits!With(inner, x) \in Seq(Exits!Exc)
           /\ x[2] = "raise" => Exits!With(inner, x) = <<x[1]>> \o inner
           /\ x[2] = "suppress" => Exits!With(inner, x) = <<>>
           /\ x[2] \in {"pass", "reraise"} => Exits!With(inner, x) = inner
<1>1. x[1] \in Exits!Exc /\ x[2] \in {"pass", "suppress", "raise", "reraise"}
  BY ExitSets DEF Step, Exits!Did
<1>2. CASE x[2] = "raise"
  <2>1. Exits!With(inner, x) = <<x[1]>> \o inner
    BY <1>2, Zenon DEF Exits!With
  <2>2. <<x[1]>> \in Seq(Exits!Exc)
    BY <1>1
  <2>3. <<x[1]>> \o inner \in Seq(Exits!Exc)
    BY <2>2, ConcatProperties
  <2> QED
    BY <1>2, <2>1, <2>3
<1>3. CASE x[2] = "suppress"
  <2>1. Exits!With(inner, x) = <<>> \o <<>>
    <3>1. Exits!With(inner, x) = <<>>
      BY <1>3, Zenon DEF Exits!With
    <3> QED
      BY <3>1
  <2> QED
    BY <1>3, <2>1
<1>4. CASE x[2] \notin {"raise", "suppress"}
  <2>1. x[2] # "raise" /\ x[2] # "suppress"
    BY <1>4
  <2>2. Exits!With(inner, x) = inner
    BY <2>1, Zenon DEF Exits!With
  <2> QED
    BY <2>1, <2>2
<1> QED
  BY <1>1, <1>2, <1>3, <1>4

LEMMA LeftExists ==
    ASSUME NEW r \in Seq(Step), NEW x \in Seq(Exits!Exc)
    PROVE  /\ \E f : Lefts(f, r, x)
           /\ \A f : Lefts(f, r, x) => \A i \in 0..Len(r) : f[i] \in Seq(Exits!Exc)
<1> DEFINE n == Len(r)
           S == 0..n
           Y == Seq(Exits!Exc)
           size == [i \in S |-> i]
           base == {0}
           first == [i \in S |-> x]
           prev == [i \in S |-> IF i = 0 THEN 0 ELSE i - 1]
           step == [i \in S |-> [q \in Y |-> IF i = 0 THEN q ELSE Exits!With(q, r[i])]]
<1>0. n \in Nat /\ \A i \in S : i # 0 => r[i] \in Step /\ i - 1 \in S
  BY LenProperties, ElementOfSeq
<1>1. Shrinks(S, Y, size, base, first, prev, step)
  <2>1. size \in [S -> Nat] /\ first \in [S -> Y] /\ prev \in [S -> S]
    BY <1>0
  <2>2. step \in [S -> [Y -> Y]]
    <3>1. \A i \in S, q \in Y : i # 0 => Exits!With(q, r[i]) \in Y
      BY <1>0, WithIs
    <3> HIDE DEF S, Y
    <3> QED
      BY <3>1
  <2>3. ASSUME NEW i \in S, i \notin base PROVE size[prev[i]] < size[i]
    BY <1>0, <2>3
  <2> QED
    BY <2>1, <2>2, <2>3 DEF Shrinks
<1>2. PICK f \in [S -> Y] : Follows(f, S, base, first, prev, step)
  <2> HIDE DEF S, Y, size, base, first, prev, step
  <2> QED
    BY <1>1, RecursiveFunction
<1>3. Lefts(f, r, x)
  <2>1. ASSUME NEW i \in S PROVE f[i] = IF i = 0 THEN x ELSE Exits!With(f[i - 1], r[i])
    <3>1. CASE i = 0
      BY <1>2, <3>1 DEF Follows
    <3>2. CASE i # 0
      <4>1. i - 1 \in S
        BY <1>0, <3>2
      <4>2. f[i] = step[i][f[i - 1]] /\ f[i - 1] \in Y
        BY <1>2, <3>2, <4>1 DEF Follows
      <4> QED
        BY <3>2, <4>2
    <3> QED
      BY <3>1, <3>2
  <2>2. f = [i \in S |-> f[i]]
    BY <1>2
  <2>3. [i \in S |-> f[i]] = [i \in S |-> IF i = 0 THEN x ELSE Exits!With(f[i - 1], r[i])]
    BY <2>1
  <2> QED
    BY <2>2, <2>3, Zenon DEF Lefts
<1>4. ASSUME NEW g, Lefts(g, r, x), NEW i \in S PROVE g[i] \in Y
  <2> DEFINE U == {k \in Nat : k \in S => g[k] \in Y}
  <2>1. \A k \in S : g[k] = IF k = 0 THEN x ELSE Exits!With(g[k - 1], r[k])
    BY <1>4 DEF Lefts
  <2>2. ASSUME NEW k \in Nat, k \in U PROVE k + 1 \in U
    <3> SUFFICES ASSUME k + 1 \in S PROVE g[k + 1] \in Y
      OBVIOUS
    <3>1. k \in S /\ (k + 1) - 1 = k /\ k + 1 # 0
      BY <1>0
    <3>2. g[k + 1] = Exits!With(g[k], r[k + 1]) /\ g[k] \in Y /\ r[k + 1] \in Step
      BY <1>0, <2>1, <2>2, <3>1
    <3> QED
      BY <3>2, WithIs
  <2>3. 0 \in U
    BY <1>0, <2>1
  <2>4. i \in Nat
    BY <1>0
  <2> HIDE DEF U
  <2>5. i \in U
    BY <2>2, <2>3, <2>4, Induction
  <2> QED
    BY <2>5 DEF U
<1> QED
  BY <1>3, <1>4

\* One more block around them.
LEMMA LeftIs ==
    ASSUME NEW r \in Seq(Step), NEW x \in Seq(Exits!Exc)
    PROVE  /\ Left(r, x) \in Seq(Exits!Exc)
           /\ Len(r) = 0 => Left(r, x) = x
           /\ \A s \in Step : Left(Append(r, s), x) = Exits!With(Left(r, x), s)
<1> DEFINE f == CHOOSE g : Lefts(g, r, x)
           n == Len(r)
<1>0. n \in Nat /\ n \in 0..n
  BY LenProperties
<1>1. Lefts(f, r, x) /\ f[n] \in Seq(Exits!Exc) /\ Left(r, x) = f[n]
  BY <1>0, LeftExists DEF Left
<1> HIDE DEF f
<1>2. \A i \in 0..n : f[i] = IF i = 0 THEN x ELSE Exits!With(f[i - 1], r[i])
  BY <1>1 DEF Lefts
<1>3. ASSUME NEW s \in Step PROVE Left(Append(r, s), x) = Exits!With(Left(r, x), s)
  <2> DEFINE t == Append(r, s)
             h == CHOOSE g : Lefts(g, t, x)
  <2>1. /\ t \in Seq(Step) /\ Len(t) = n + 1 /\ t[n + 1] = s
        /\ \A i \in 1..n : t[i] = r[i]
    BY AppendProperties
  <2> HIDE DEF t
  <2>2. Lefts(h, t, x) /\ Left(t, x) = h[n + 1]
    BY <2>1, LeftExists DEF Left
  <2> HIDE DEF h
  <2>3. \A i \in 0..n + 1 : h[i] = IF i = 0 THEN x ELSE Exits!With(h[i - 1], t[i])
    BY <2>1, <2>2 DEF Lefts
  <2> DEFINE U == {k \in Nat : k \in 0..n => h[k] = f[k]}
  <2>4. ASSUME NEW k \in Nat, k \in U PROVE k + 1 \in U
    <3> SUFFICES ASSUME k + 1 \in 0..n PROVE h[k + 1] = f[k + 1]
      OBVIOUS
    <3>1. /\ k \in 0..n /\ (k + 1) - 1 = k /\ k + 1 # 0 /\ k + 1 \in 1..n
          /\ k + 1 \in 0..n + 1 /\ h[k] = f[k]
      BY <1>0, <2>4
    <3>2. h[k + 1] = Exits!With(h[k], t[k + 1]) /\ f[k + 1] = Exits!With(f[k], r[k + 1])
      BY <1>2, <2>3, <3>1
    <3> QED
      BY <2>1, <3>1, <3>2
  <2>5. 0 \in U
    <3>1. 0 \in 0..n /\ 0 \in 0..n + 1
      BY <1>0
    <3>2. f[0] = x /\ h[0] = x
      BY <1>2, <2>3, <3>1
    <3> QED
      BY <3>2
  <2> HIDE DEF U
  <2>6. n \in U
    BY <1>0, <2>4, <2>5, Induction
  <2>7. h[n] = f[n]
    BY <1>0, <2>6 DEF U
  <2>8. h[n + 1] = Exits!With(h[n], t[n + 1])
    BY <1>0, <2>3
  <2>9. Left(t, x) = Exits!With(f[n], s)
    BY <2>1, <2>2, <2>7, <2>8
  <2> QED
    BY <1>1, <2>9 DEF t
<1> QED
  BY <1>0, <1>1, <1>2, <1>3

\* Of what is pushed the last is called first.
Rising(q) == \A i, j \in 1..Len(q) : i < j => q[i] < q[j]
StackOrder ==
    /\ Rising(stack) /\ Rising(kept)
    /\ \A i \in 1..Len(stack) : stack[i] <= entered
    /\ \A i \in 1..Len(kept) : kept[i] <= entered
    /\ \A i \in 1..Len(ran) :
         /\ ran[i][1] <= ran[i][3] /\ ran[i][3] <= entered
         /\ \A j \in 1..Len(stack) : stack[j] < ran[i][1] \/ stack[j] > ran[i][3]
    /\ \A i, j \in 1..Len(ran) :
         i < j => ran[j][1] < ran[i][1] \/ ran[j][1] > ran[i][3]

\* The exception that is handed on is that of the blocks so far, with its
\* contexts, and what no callback has raised yet has none.
OfBlocks(x, q) == x = IF q = <<>> THEN Exits!NoExc ELSE q[1]
Contexts(c, q) ==
    \A i \in 1..Len(q) : c[q[i]] = IF i = Len(q) THEN Exits!NoExc ELSE q[i + 1]
Called(e, r) == \E i \in 1..Len(r) : r[i][1] = e
Raisers(q, r) == \A i \in 1..Len(q) : q[i] = Exits!Body \/ Called(q[i], r)
Chain ==
    /\ OfBlocks(exc, Exits!Nested)
    /\ ~pending_raise => exc = IF received_exc /\ ~suppressed_exc THEN Exits!Body ELSE Exits!NoExc
    /\ ~Exits!Reraised =>
         /\ Contexts(context, Exits!Nested) /\ Raisers(Exits!Nested, ran)
         /\ context[Exits!Body] = Exits!NoExc
         /\ \A e \in Exits!Entry : ~Called(e, ran) => context[e] = Exits!NoExc
Phases ==
    /\ phase = "left" => outcome = exc
    /\ phase = "hung" => Exits!Reraised
    /\ phase = "body" =>
         /\ ran = <<>> /\ exc = Exits!NoExc /\ ~received_exc /\ ~suppressed_exc /\ ~pending_raise
         /\ context = [e \in Exits!Exc |-> Exits!NoExc]

ExitInv == Exits!TypeOK /\ StackOrder /\ Chain /\ Phases

LEMMA RanIs ==
    ASSUME Exits!TypeOK
    PROVE  /\ ran \in Seq(Step) /\ DOMAIN ran = 1..Len(ran) /\ Len(ran) \in Nat
           /\ \A i \in 1..Len(ran) : ran[i] \in Step
           /\ \A q \in {stack, kept} : /\ q \in Seq(Exits!Entry) /\ Len(q) \in Nat
                                       /\ \A i \in 1..Len(q) : q[i] \in Exits!Entry
<1>1. ran \in Seq(Step) /\ stack \in Seq(Exits!Entry) /\ kept \in Seq(Exits!Entry)
  BY DEF Exits!TypeOK, Step
<1>2. DOMAIN ran = 1..Len(ran) /\ Len(ran) \in Nat /\ \A i \in 1..Len(ran) : ran[i] \in Step
  BY <1>1, LenProperties, ElementOfSeq
<1>3. ASSUME NEW q \in Seq(Exits!Entry) PROVE Len(q) \in Nat /\ \A i \in 1..Len(q) : q[i] \in Exits!Entry
  BY LenProperties, ElementOfSeq
<1> QED
  BY <1>1, <1>2, <1>3

LEMMA StepIs ==
    ASSUME NEW s \in Step
    PROVE  /\ s[1] \in Exits!Entry /\ s[2] \in Exits!Did /\ s[3] \in Exits!Entry
           /\ s[1] \in 1..MaxEntries /\ s[3] \in 1..MaxEntries
BY ExitConstants DEF Step

LEMMA OutermostIs ==
    ASSUME NEW received \in BOOLEAN
    PROVE  /\ Outermost(received) \in Seq(Exits!Exc)
           /\ received => Outermost(received) = <<Exits!Body>>
           /\ ~received => Outermost(received) = <<>>
<1>1. CASE received
  <2>1. Outermost(received) = <<Exits!Body>>
    BY <1>1, Zenon DEF Outermost
  <2>2. Exits!Body \in Exits!Exc
    BY ExitSets
  <2>3. <<Exits!Body>> \in Seq(Exits!Exc)
    BY <2>2
  <2> QED
    BY <1>1, <2>1, <2>3, Zenon
<1>2. CASE ~received
  <2>1. Outermost(received) = <<>>
    BY <1>2, Zenon DEF Outermost
  <2>2. <<>> \in Seq(Exits!Exc)
    OBVIOUS
  <2> QED
    BY <1>2, <2>1, <2>2
<1> QED
  BY <1>1, <1>2

LEMMA ExitInit == Exits!Init => ExitInv
<1> SUFFICES ASSUME Exits!Init PROVE ExitInv
  OBVIOUS
<1>1. Exits!TypeOK
  <2>1. /\ entered \in 0..MaxEntries /\ kind \in [Exits!Entry -> Exits!Kind] /\ phase = "body"
        /\ exc \in Exits!Exc \cup {Exits!NoExc} /\ outcome \in Exits!Exc \cup {Exits!NoExc}
        /\ context \in [Exits!Exc -> Exits!Exc \cup {Exits!NoExc}]
    BY ExitConstants DEF Exits!Init, Exits!Kind
  <2>2. received_exc \in BOOLEAN /\ suppressed_exc \in BOOLEAN /\ pending_raise \in BOOLEAN
    BY Zenon DEF Exits!Init
  <2>3. \A D : <<>> \in Seq(D)
    OBVIOUS
  <2>4. /\ stack \in Seq(Exits!Entry) /\ kept \in Seq(Exits!Entry)
        /\ ran \in Seq(Exits!Entry \X Exits!Did \X Exits!Entry)
    BY <2>3, Zenon DEF Exits!Init
  <2> QED
    BY <2>1, <2>2, <2>4 DEF Exits!TypeOK
<1>2. Len(ran) = 0 /\ Len(stack) = 0 /\ Len(kept) = 0 /\ ran \in Seq(Step) /\ DOMAIN ran = {}
  BY DEF Exits!Init
<1>3. StackOrder
  BY <1>2 DEF StackOrder, Rising
<1>4. Exits!Nested = <<>>
  <2>1. Exits!Nested = Outermost(received_exc) /\ received_exc \in BOOLEAN
    BY <1>1, <1>2, NestedIs, OutermostIs, LeftIs DEF Exits!TypeOK
  <2> QED
    BY <2>1, OutermostIs DEF Exits!Init
<1>5. Chain
  <2>1. OfBlocks(exc, Exits!Nested)
    BY <1>4 DEF OfBlocks, Exits!Init
  <2>2. Contexts(context, Exits!Nested) /\ Raisers(Exits!Nested, ran)
    BY <1>4 DEF Contexts, Raisers
  <2> QED
    BY <2>1, <2>2, ExitSets DEF Chain, Exits!Init
<1> QED
  BY <1>1, <1>3, <1>5 DEF ExitInv, Phases, Exits!Init

\* Actions that leave what was called alone.
LEMMA ChainSame ==
    ASSUME ExitInv, UNCHANGED <<exc, context, received_exc, suppressed_exc, pending_raise, ran>>
    PROVE  Chain'
<1>1. Exits!Nested' = Exits!Nested /\ Exits!Reraised' = Exits!Reraised
  BY DEF Exits!Nested, Exits!Reraised, Exits!With
<1> QED
  BY <1>1, Zenon DEF ExitInv, Chain, OfBlocks, Contexts, Raisers, Called

LEMMA PushHolds ==
    ASSUME ExitInv, NEW k \in Exits!Kind, Exits!Push(k)
    PROVE  ExitInv'
<1> USE DEF ExitInv
<1> DEFINE x == entered + 1
<1>1. /\ UNCHANGED <<exc, context, received_exc, suppressed_exc, pending_raise, ran, kept, phase, outcome>>
      /\ entered' = x /\ stack' = Append(stack, x) /\ entered \in 0..MaxEntries /\ x \in Exits!Entry
      /\ kind' = [kind EXCEPT ![x] = k] /\ phase \in {"body", "exit"} /\ entered \in Nat
  BY ExitConstants DEF Exits!Push, Exits!flags, Exits!TypeOK
<1>2. /\ Len(stack') = Len(stack) + 1 /\ stack' \in Seq(Exits!Entry) /\ stack'[Len(stack) + 1] = x
      /\ \A i \in 1..Len(stack) : stack'[i] = stack[i]
  BY <1>1, RanIs, AppendProperties
<1>3. Exits!TypeOK'
  BY <1>1, <1>2, ExitConstants DEF Exits!TypeOK
<1>4. StackOrder'
  <2>1. /\ Len(stack) \in Nat /\ Len(kept) \in Nat /\ Len(ran) \in Nat
        /\ \A i \in 1..Len(stack) : stack[i] \in Int
        /\ \A i \in 1..Len(kept) : kept[i] \in Int
        /\ \A i \in 1..Len(ran) : ran[i][1] \in Int /\ ran[i][3] \in Int
    BY RanIs, StepIs, ExitConstants
  <2>2. \A i \in 1..Len(stack') : \/ i \in 1..Len(stack) /\ stack'[i] = stack[i]
                                  \/ i = Len(stack) + 1 /\ stack'[i] = x
    BY <1>2, <2>1
  <2> HIDE DEF ExitInv
  <2>3. StackOrder
    BY DEF ExitInv
  <2>4. Rising(stack') /\ \A i \in 1..Len(stack') : stack'[i] <= x
    BY <1>1, <1>2, <2>1, <2>2, <2>3 DEF StackOrder, Rising
  <2>5. Rising(kept') /\ \A i \in 1..Len(kept') : kept'[i] <= x
    BY <1>1, <2>1, <2>3 DEF StackOrder, Rising
  <2>6. ASSUME NEW i \in 1..Len(ran)
        PROVE  /\ ran[i][1] <= ran[i][3] /\ ran[i][3] <= x
               /\ \A j \in 1..Len(stack') : stack'[j] < ran[i][1] \/ stack'[j] > ran[i][3]
    BY <1>1, <2>1, <2>2, <2>3 DEF StackOrder
  <2> QED
    BY <1>1, <2>3, <2>4, <2>5, <2>6 DEF StackOrder
<1>5. Chain'
  BY <1>1, ChainSame
<1>6. Phases'
  BY <1>1 DEF Phases
<1> QED
  BY <1>3, <1>4, <1>5, <1>6

LEMMA PopAllHolds ==
    ASSUME ExitInv, Exits!PopAll
    PROVE  ExitInv'
<1> USE DEF ExitInv
<1>1. /\ UNCHANGED <<exc, context, received_exc, suppressed_exc, pending_raise, ran, phase, outcome, entered, kind>>
      /\ kept' = stack /\ stack' = <<>> /\ phase = "body"
  BY DEF Exits!PopAll, Exits!flags
<1>2. Exits!TypeOK'
  BY <1>1 DEF Exits!TypeOK
<1>3. StackOrder'
  BY <1>1 DEF StackOrder, Rising, Phases
<1>4. Chain'
  BY <1>1, ChainSame
<1>5. Phases'
  BY <1>1 DEF Phases
<1> QED
  BY <1>2, <1>3, <1>4, <1>5

LEMMA LeaveHolds ==
    ASSUME ExitInv, Exits!Leave
    PROVE  ExitInv'
<1> USE DEF ExitInv
<1>1. /\ UNCHANGED <<exc, context, received_exc, suppressed_exc, pending_raise, ran, entered, kind, stack, kept>>
      /\ phase' = "left"
  BY DEF Exits!Leave, Exits!flags
<1>2. outcome' = exc
  <2>1. CASE pending_raise
    BY <2>1, Zenon DEF Exits!Leave
  <2>2. CASE ~pending_raise /\ received_exc /\ ~suppressed_exc
    <3>1. outcome' = Exits!Body
      BY <2>2, Zenon DEF Exits!Leave
    <3> QED
      BY <2>2, <3>1 DEF Chain
  <2>3. CASE ~pending_raise /\ ~(received_exc /\ ~suppressed_exc)
    <3>1. outcome' = Exits!NoExc
      BY <2>3, Zenon DEF Exits!Leave
    <3> QED
      BY <2>3, <3>1 DEF Chain
  <2> QED
    BY <2>1, <2>2, <2>3
<1>3. Exits!TypeOK'
  BY <1>1, <1>2 DEF Exits!TypeOK
<1>4. StackOrder'
  BY <1>1 DEF StackOrder, Rising
<1>5. Chain'
  BY <1>1, ChainSame
<1>6. Phases'
  BY <1>1, <1>2 DEF Phases
<1> QED
  BY <1>3, <1>4, <1>5, <1>6

\* Nothing has been called in a block that begins or ends.
LEMMA NothingCalled ==
    ASSUME Exits!TypeOK', ran' = <<>>, ~suppressed_exc', ~pending_raise',
           context' = [e \in Exits!Exc |-> Exits!NoExc],
           exc' = IF received_exc' THEN Exits!Body ELSE Exits!NoExc
    PROVE  Chain'
<1>1. Len(ran') = 0 /\ ran' \in Seq(Step) /\ DOMAIN ran' = {} /\ received_exc' \in BOOLEAN
  BY DEF Exits!TypeOK
<1>2. Exits!Nested' = Outermost(received_exc')
  <2>1. Exits!Nested' = Left(ran', Outermost(received_exc'))
    BY Zenon DEF Exits!Nested, Left, Lefts, Outermost, Exits!With
  <2> QED
    BY <1>1, <2>1, OutermostIs, LeftIs
<1>3. OfBlocks(exc', Exits!Nested') /\ Contexts(context', Exits!Nested') /\ Raisers(Exits!Nested', ran')
  <2>1. CASE received_exc'
    <3>1. Exits!Nested' = <<Exits!Body>>
      BY <1>1, <1>2, <2>1, OutermostIs
    <3> QED
      BY <2>1, <3>1, ExitSets DEF OfBlocks, Contexts, Raisers
  <2>2. CASE ~received_exc'
    <3>1. Exits!Nested' = <<>>
      BY <1>1, <1>2, <2>2, OutermostIs
    <3> QED
      BY <2>2, <3>1 DEF OfBlocks, Contexts, Raisers
  <2> QED
    BY <2>1, <2>2
<1> QED
  BY <1>3, ExitSets DEF Chain, OfBlocks, Contexts, Raisers, Called

LEMMA LeaveBodyHolds ==
    ASSUME ExitInv, NEW e \in {Exits!NoExc, Exits!Body}, Exits!LeaveBody(e)
    PROVE  ExitInv'
<1> USE DEF ExitInv
<1>1. /\ UNCHANGED <<context, suppressed_exc, pending_raise, ran, entered, kind, stack, kept, outcome>>
      /\ phase = "body" /\ phase' = "exit" /\ exc' = e
  BY DEF Exits!LeaveBody
<1>2. received_exc' \in BOOLEAN /\ (received_exc' <=> e # Exits!NoExc)
  BY Zenon DEF Exits!LeaveBody
<1>3. Exits!TypeOK'
  BY <1>1, <1>2, ExitSets DEF Exits!TypeOK
<1>4. StackOrder'
  BY <1>1 DEF StackOrder, Rising
<1>5. Chain'
  <2>1. ran = <<>> /\ ~suppressed_exc /\ ~pending_raise /\ context = [x \in Exits!Exc |-> Exits!NoExc]
    BY <1>1 DEF Phases
  <2>2. exc' = IF received_exc' THEN Exits!Body ELSE Exits!NoExc
    BY <1>1, <1>2
  <2> QED
    BY <1>1, <1>3, <2>1, <2>2, NothingCalled
<1>6. Phases'
  BY <1>1 DEF Phases
<1> QED
  BY <1>3, <1>4, <1>5, <1>6

LEMMA CloseKeptHolds ==
    ASSUME ExitInv, Exits!CloseKept
    PROVE  ExitInv'
<1> USE DEF ExitInv
<1>1. /\ UNCHANGED <<entered, kind>> /\ phase' = "exit" /\ stack' = kept /\ kept' = <<>>
      /\ exc' = Exits!NoExc /\ outcome' = Exits!NoExc /\ ran' = <<>>
      /\ context' = [e \in Exits!Exc |-> Exits!NoExc]
  BY DEF Exits!CloseKept
<1>2. /\ received_exc' \in BOOLEAN /\ suppressed_exc' \in BOOLEAN /\ pending_raise' \in BOOLEAN
      /\ ~received_exc' /\ ~suppressed_exc' /\ ~pending_raise'
  BY Zenon DEF Exits!CloseKept
<1>3. Exits!TypeOK'
  BY <1>1, <1>2 DEF Exits!TypeOK
<1>4. StackOrder'
  BY <1>1 DEF StackOrder, Rising
<1>5. Chain'
  BY <1>1, <1>2, <1>3, NothingCalled
<1>6. Phases'
  BY <1>1 DEF Phases
<1> QED
  BY <1>3, <1>4, <1>5, <1>6

-----------------------------------------------------------------------------
\* A callback is called.

\* What it may do.
LEMMA OutcomesAre == \A k \in Exits!Kind : Exits!Outcomes(k) \subseteq Exits!Did
<1>1. ASSUME NEW g \in Exits!GeneratorDid PROVE Exits!Aexit(g) \in Exits!Did
  <2>1. CASE g = "ends"
    <3>1. Exits!Aexit(g) = IF exc = Exits!NoExc THEN "pass" ELSE "suppress"
      BY <2>1, Zenon DEF Exits!Aexit
    <3> QED
      BY <3>1 DEF Exits!Did
  <2>2. CASE g = "reraises"
    <3>1. Exits!Aexit(g) = "pass"
      BY <2>2, Zenon DEF Exits!Aexit
    <3> QED
      BY <3>1 DEF Exits!Did
  <2>3. CASE g \in {"raises", "yields"}
    <3>1. g # "ends" /\ g # "reraises"
      BY <2>3
    <3>2. Exits!Aexit(g) = "raise"
      BY <2>3, <3>1, Zenon DEF Exits!Aexit
    <3> QED
      BY <3>2 DEF Exits!Did
  <2> QED
    BY <2>1, <2>2, <2>3 DEF Exits!GeneratorDid
<1>2. ASSUME NEW k \in Exits!Kind PROVE Exits!Outcomes(k) \subseteq Exits!Did
  <2>1. CASE k = "exit_method"
    BY <2>1, Zenon DEF Exits!Outcomes
  <2>2. CASE k = "callback"
    <3>1. Exits!Outcomes(k) = {"pass", "raise"}
      BY <2>2, Zenon DEF Exits!Outcomes
    <3> QED
      BY <3>1 DEF Exits!Did
  <2>3. CASE k = "generator"
    <3>1. Exits!Outcomes(k) = {Exits!Aexit(g) : g \in Exits!GeneratorDid}
      BY <2>3, Zenon DEF Exits!Outcomes
    <3> QED
      BY <1>1, <3>1
  <2> QED
    BY <2>1, <2>2, <2>3 DEF Exits!Kind
<1> QED
  BY <1>2

\* The contexts an exception that is raised gets.
LEMMA ImplicitIs ==
    ASSUME Exits!TypeOK, NEW new \in Exits!Exc
    PROVE  /\ Exits!FrameExc \in Exits!Exc \cup {Exits!NoExc} /\ Exits!FrameExc \in {Exits!NoExc, Exits!Body}
           /\ Exits!Implicit(new) \in [Exits!Exc -> Exits!Exc \cup {Exits!NoExc}]
           /\ \A x \in Exits!Exc : x # new => Exits!Implicit(new)[x] = context[x]
           /\ Exits!FrameExc # new /\ context[new] = Exits!NoExc => Exits!Implicit(new)[new] = Exits!FrameExc
<1>1. Exits!FrameExc \in Exits!Exc \cup {Exits!NoExc} /\ Exits!FrameExc \in {Exits!NoExc, Exits!Body}
  BY ExitSets DEF Exits!FrameExc
<1>2. context \in [Exits!Exc -> Exits!Exc \cup {Exits!NoExc}]
  BY DEF Exits!TypeOK
<1> QED
  BY <1>1, <1>2 DEF Exits!Implicit

Walk(end, new, old) ==
    end = [here \in Exits!Exc \X (0..Exits!Body) |->
             IF Exits!Implicit(new)[here[1]] = old THEN Exits!Found
             ELSE IF Exits!Implicit(new)[here[1]] \in {Exits!NoExc, Exits!FrameExc} THEN here[1]
             ELSE IF here[2] = 0 THEN Exits!Loop ELSE end[<<Exits!Implicit(new)[here[1]], here[2] - 1>>]]

LEMMA WalkEnds ==
    ASSUME Exits!TypeOK, NEW new \in Exits!Exc, NEW old
    PROVE  \E end : Walk(end, new, old)
<1> DEFINE N == 0..Exits!Body
           S == Exits!Exc \X N
           Y == Exits!Exc \cup {Exits!Loop, Exits!Found}
           c == Exits!Implicit(new)
           Stop(x) == c[x] = old \/ c[x] \in {Exits!NoExc, Exits!FrameExc}
           size == [here \in S |-> here[2]]
           first == [here \in S |-> IF c[here[1]] = old THEN Exits!Found
                                  ELSE IF c[here[1]] \in {Exits!NoExc, Exits!FrameExc} THEN here[1] ELSE Exits!Loop]
           done == {here \in S : Stop(here[1]) \/ here[2] = 0}
           next == [here \in S |-> IF here \in done THEN here ELSE <<c[here[1]], here[2] - 1>>]
<1>0. Exits!Body \in Nat /\ c \in [Exits!Exc -> Exits!Exc \cup {Exits!NoExc}]
  BY ImplicitIs, ExitConstants
<1> HIDE DEF c
<1>1. ASSUME NEW here \in S, here \notin done
      PROVE  <<c[here[1]], here[2] - 1>> \in S /\ here[2] - 1 < here[2]
  <2>1. c[here[1]] \in Exits!Exc /\ here[2] \in 0..Exits!Body /\ here[2] # 0
    BY <1>0, <1>1
  <2>2. here[2] - 1 \in 0..Exits!Body /\ here[2] - 1 < here[2]
    BY <1>0, <2>1
  <2> QED
    BY <2>1, <2>2
<1>2. Descends(S, Y, size, done, first, next)
  <2>1. size \in [S -> Nat] /\ first \in [S -> Y]
    BY <1>0
  <2>2. next \in [S -> S]
    <3> HIDE DEF S, done
    <3> QED
      BY <1>1
  <2>3. ASSUME NEW here \in S, here \notin done PROVE size[next[here]] < size[here]
    <3>1. next[here] = <<c[here[1]], here[2] - 1>> /\ next[here] \in S
      BY <1>1, <2>3
    <3>2. size[next[here]] = here[2] - 1 /\ size[here] = here[2]
      BY <3>1
    <3> QED
      BY <1>1, <2>3, <3>2
  <2> QED
    BY <2>1, <2>2, <2>3 DEF Descends
<1>3. PICK end \in [S -> Y] : Gives(end, S, done, first, next)
  <2> HIDE DEF S, Y, size, done, first, next
  <2> QED
    BY <1>2, TailRecursion
<1>4. ASSUME NEW here \in S
      PROVE  end[here] = IF c[here[1]] = old THEN Exits!Found
                       ELSE IF c[here[1]] \in {Exits!NoExc, Exits!FrameExc} THEN here[1]
                       ELSE IF here[2] = 0 THEN Exits!Loop ELSE end[<<c[here[1]], here[2] - 1>>]
  <2>1. end[here] = IF here \in done THEN first[here] ELSE end[next[here]]
    BY <1>3 DEF Gives
  <2> HIDE DEF S
  <2> QED
    BY <2>1
<1>5. end = [here \in S |-> end[here]]
  BY <1>3
<1>6. [here \in S |-> end[here]] =
        [here \in S |-> IF c[here[1]] = old THEN Exits!Found
                      ELSE IF c[here[1]] \in {Exits!NoExc, Exits!FrameExc} THEN here[1]
                      ELSE IF here[2] = 0 THEN Exits!Loop ELSE end[<<c[here[1]], here[2] - 1>>]]
  <2> HIDE DEF S
  <2> QED
    BY <1>4
<1> QED
  BY <1>5, <1>6, Zenon DEF Walk, c

\* An exception that is new gets the one that is handed on as its context.
LEMMA ChainedIs ==
    ASSUME Exits!TypeOK, NEW new \in Exits!Exc, NEW old \in Exits!Exc \cup {Exits!NoExc}
    PROVE  /\ Exits!Chained(new, old) \in [Exits!Exc -> Exits!Exc \cup {Exits!NoExc}]
           /\ Exits!FrameExc # new /\ context[new] = Exits!NoExc =>
                /\ Exits!EndOfChain(new, old) # Exits!Loop
                /\ Exits!Chained(new, old)[new] = old
                /\ \A x \in Exits!Exc : x # new => Exits!Chained(new, old)[x] = context[x]
<1> DEFINE c == Exits!Implicit(new)
           e == Exits!EndOfChain(new, old)
<1>1. /\ c \in [Exits!Exc -> Exits!Exc \cup {Exits!NoExc}] /\ \A x \in Exits!Exc : x # new => c[x] = context[x]
      /\ Exits!FrameExc # new /\ context[new] = Exits!NoExc => c[new] = Exits!FrameExc
  BY ImplicitIs
<1>2. Exits!Chained(new, old) = IF e \in Exits!Exc THEN [c EXCEPT ![e] = old] ELSE c
  BY Zenon DEF Exits!Chained
<1>3. ASSUME c[new] = Exits!FrameExc
      PROVE  e = IF Exits!FrameExc = old THEN Exits!Found ELSE new
  <2> DEFINE w == CHOOSE end : Walk(end, new, old)
             here == <<new, Exits!Body>>
  <2>1. e = w[here]
    BY Zenon DEF Exits!EndOfChain, Walk
  <2>2. Walk(w, new, old)
    BY WalkEnds
  <2> HIDE DEF w
  <2>3. here \in Exits!Exc \X (0..Exits!Body) /\ here[1] = new
    BY ExitConstants
  <2> HIDE DEF here, e
  <2>4. w[here] = IF c[here[1]] = old THEN Exits!Found
                ELSE IF c[here[1]] \in {Exits!NoExc, Exits!FrameExc} THEN here[1]
                ELSE IF here[2] = 0 THEN Exits!Loop ELSE w[<<c[here[1]], here[2] - 1>>]
    BY <2>2, <2>3 DEF Walk
  <2> HIDE DEF c
  <2> QED
    BY <1>3, <2>1, <2>3, <2>4
<1> HIDE DEF c, e
<1>4. Exits!Chained(new, old) \in [Exits!Exc -> Exits!Exc \cup {Exits!NoExc}]
  BY <1>1, <1>2
<1>5. ASSUME c[new] = Exits!FrameExc
      PROVE  /\ e # Exits!Loop /\ Exits!Chained(new, old)[new] = old
             /\ \A x \in Exits!Exc : x # new => Exits!Chained(new, old)[x] = context[x]
  <2>1. CASE Exits!FrameExc = old
    BY <1>1, <1>2, <1>3, <1>5, <2>1, ExitSets
  <2>2. CASE Exits!FrameExc # old
    BY <1>1, <1>2, <1>3, <1>5, <2>2, ExitSets
  <2> QED
    BY <2>1, <2>2
<1> QED
  BY <1>1, <1>4, <1>5 DEF e

LEMMA LastIs ==
    ASSUME NEW D, NEW q \in Seq(D), q # <<>>
    PROVE  /\ Len(q) \in Nat \ {0} /\ Exits!Last(q) = q[Len(q)] /\ Exits!Last(q) \in D
           /\ Exits!Front(q) \in Seq(D) /\ Len(Exits!Front(q)) = Len(q) - 1
           /\ \A i \in 1..Len(q) - 1 : Exits!Front(q)[i] = q[i]
<1> DEFINE n == Len(q)
           b == SubSeq(q, 1, n - 1)
<1>1. n \in Nat
  BY LenProperties
<1>2. n # 0
  BY EmptySeq
<1>3. Exits!Last(q) = q[n]
  BY Zenon DEF Exits!Last
<1>4. Exits!Front(q) = b
  BY Zenon DEF Exits!Front
<1>5. \A i \in 1..n : q[i] \in D
  BY ElementOfSeq
<1>6. /\ b \in Seq(D) /\ Len(b) = IF 1 <= n - 1 THEN n - 1 - 1 + 1 ELSE 0
      /\ \A i \in 1..(n - 1 - 1 + 1) : b[i] = q[1 + i - 1]
  <2>1. \A i \in 1..n - 1 : q[i] \in D
    BY <1>1, <1>5
  <2> QED
    BY <1>1, <2>1, SubSeqProperties
<1> HIDE DEF b, n
<1>7. Len(b) = n - 1
  <2>1. CASE n = 1
    BY <1>6, <2>1
  <2>2. CASE n # 1
    <3>1. 1 <= n - 1 /\ n - 1 - 1 + 1 = n - 1
      BY <1>1, <1>2, <2>2
    <3> QED
      BY <1>6, <3>1
  <2> QED
    BY <2>1, <2>2
<1>8. ASSUME NEW i \in 1..n - 1 PROVE b[i] = q[i]
  <2>1. i \in 1..(n - 1 - 1 + 1) /\ 1 + i - 1 = i
    BY <1>1, <1>2
  <2>2. b[i] = q[1 + i - 1]
    BY <1>6, <2>1
  <2> QED
    BY <2>1, <2>2
<1>9. n \in 1..n
  BY <1>1, <1>2
<1>10. q[n] \in D
  BY <1>5, <1>9
<1>11. n \in Nat \ {0}
  BY <1>1, <1>2
<1> QED
  BY <1>3, <1>4, <1>6, <1>7, <1>8, <1>10, <1>11 DEF n

\* What is recorded of it.
LEMMA CallExitIs ==
    ASSUME ExitInv, Exits!CallExit
    PROVE  LET e == Exits!Last(stack) IN
           /\ e \in Exits!Entry /\ e = stack[Len(stack)] /\ Len(stack) \in Nat \ {0}
           /\ Len(stack') = Len(stack) - 1 /\ stack' \in Seq(Exits!Entry)
           /\ \A i \in 1..Len(stack') : stack'[i] = stack[i]
           /\ entered \in Exits!Entry /\ e <= entered /\ ~Called(e, ran) /\ phase = "exit"
           /\ UNCHANGED <<entered, kind, kept, received_exc, outcome>>
           /\ \E did \in Exits!Did : LET new == IF did = "raise" THEN e ELSE exc IN
                /\ did = "reraise" => exc # Exits!NoExc
                /\ ran' = Append(ran, <<e, did, entered>>)
                /\ CASE did = "pass" -> UNCHANGED <<phase, exc, context, suppressed_exc, pending_raise>>
                     [] did = "suppress" ->
                          /\ suppressed_exc' = TRUE /\ pending_raise' = FALSE
                          /\ exc' = Exits!NoExc
                          /\ UNCHANGED <<phase, context>>
                     [] OTHER ->
                          /\ phase' = IF Exits!Circular(new) \/ Exits!EndOfChain(new, exc) = Exits!Loop THEN "hung" ELSE "exit"
                          /\ context' = Exits!Chained(new, exc)
                          /\ pending_raise' = TRUE /\ exc' = new
                          /\ UNCHANGED suppressed_exc
<1> USE DEF ExitInv
<1> DEFINE e == Exits!Last(stack)
<1>1. stack # <<>> /\ stack' = Exits!Front(stack) /\ phase = "exit"
      /\ UNCHANGED <<entered, kind, kept, received_exc, outcome>>
  BY Zenon DEF Exits!CallExit
<1>2. /\ e \in Exits!Entry /\ e = stack[Len(stack)] /\ Len(stack) \in Nat \ {0}
      /\ Len(stack') = Len(stack) - 1 /\ stack' \in Seq(Exits!Entry)
      /\ \A i \in 1..Len(stack') : stack'[i] = stack[i]
  BY <1>1, RanIs, LastIs
<1>3. e <= entered
  BY <1>2 DEF StackOrder
<1>4. entered \in Exits!Entry
  BY <1>2, <1>3, ExitConstants DEF Exits!TypeOK
<1>5. ~Called(e, ran)
  <2>1. SUFFICES ASSUME NEW i \in 1..Len(ran), ran[i][1] = e PROVE FALSE
    BY DEF Called
  <2>2. ran[i][1] \in Int /\ ran[i][3] \in Int /\ ran[i][1] <= ran[i][3]
    BY RanIs, StepIs DEF StackOrder
  <2>3. e < ran[i][1] \/ e > ran[i][3]
    BY <1>2 DEF StackOrder
  <2> QED
    BY <2>1, <2>2, <2>3
<1>6. kind[e] \in Exits!Kind
  BY <1>2 DEF Exits!TypeOK
<1>7. Exits!Outcomes(kind[e]) \subseteq Exits!Did
  BY <1>6, OutcomesAre
<1>8. \E did \in Exits!Outcomes(kind[e]) : LET new == IF did = "raise" THEN e ELSE exc IN
           /\ did = "reraise" => exc # Exits!NoExc
           /\ ran' = Append(ran, <<e, did, entered>>)
           /\ CASE did = "pass" -> UNCHANGED <<phase, exc, context, suppressed_exc, pending_raise>>
                [] did = "suppress" ->
                     /\ suppressed_exc' = TRUE /\ pending_raise' = FALSE
                     /\ exc' = Exits!NoExc
                     /\ UNCHANGED <<phase, context>>
                [] OTHER ->
                     /\ phase' = IF Exits!Circular(new) \/ Exits!EndOfChain(new, exc) = Exits!Loop THEN "hung" ELSE "exit"
                     /\ context' = Exits!Chained(new, exc)
                     /\ pending_raise' = TRUE /\ exc' = new
                     /\ UNCHANGED suppressed_exc
  BY Zenon DEF Exits!CallExit
<1> QED
  BY <1>1, <1>2, <1>3, <1>4, <1>5, <1>7, <1>8, Zenon

\* The last is the one that is called, and those before it follow.
LEMMA CallOrder ==
    ASSUME ExitInv, NEW e \in Exits!Entry, e = stack[Len(stack)], Len(stack) \in Nat \ {0},
           Len(stack') = Len(stack) - 1, \A i \in 1..Len(stack') : stack'[i] = stack[i],
           e <= entered, UNCHANGED <<entered, kept>>, entered \in Exits!Entry,
           NEW did \in Exits!Did, ran' = Append(ran, <<e, did, entered>>)
    PROVE  /\ StackOrder' /\ ran' \in Seq(Step) /\ Len(ran') = Len(ran) + 1
           /\ \A i \in 1..Len(ran) : ran'[i] = ran[i]
           /\ ran'[Len(ran) + 1] = <<e, did, entered>>
<1> USE DEF ExitInv
<1> DEFINE s == <<e, did, entered>>
           m == Len(ran)
           n == Len(stack)
<1>1. /\ m \in Nat /\ ran \in Seq(Step) /\ s \in Step /\ Len(kept) \in Nat
      /\ s[1] = e /\ s[3] = entered /\ e \in Int /\ entered \in Int
      /\ \A i \in 1..m : ran[i][1] \in Int /\ ran[i][3] \in Int
      /\ \A i \in 1..n : stack[i] \in Int
      /\ \A i \in 1..Len(kept) : kept[i] \in Int
  <2>1. s \in Step /\ s[1] = e /\ s[3] = entered
    BY DEF Step
  <2>2. e \in Int /\ entered \in Int /\ \A x \in Exits!Entry : x \in Int
    BY ExitConstants
  <2>3. \A i \in 1..m : ran[i][1] \in Exits!Entry /\ ran[i][3] \in Exits!Entry
    BY RanIs, StepIs
  <2> HIDE DEF s
  <2> QED
    BY <2>1, <2>2, <2>3, RanIs
<1>2. /\ ran' \in Seq(Step) /\ Len(ran') = m + 1 /\ ran'[m + 1] = s
      /\ \A i \in 1..m : ran'[i] = ran[i]
  BY <1>1, AppendProperties
<1>3. \A i \in 1..Len(ran') : \/ i \in 1..m /\ ran'[i] = ran[i]
                              \/ i = m + 1 /\ ran'[i][1] = e /\ ran'[i][3] = entered
  BY <1>1, <1>2
<1> HIDE DEF s, m, ExitInv
<1>4. StackOrder
  BY DEF ExitInv
<1>5. Rising(stack') /\ Rising(kept') /\ (\A i \in 1..Len(stack') : stack'[i] <= entered')
      /\ \A i \in 1..Len(kept') : kept'[i] <= entered'
  <2>1. \A i \in 1..Len(stack') : i \in 1..n /\ stack'[i] = stack[i]
    OBVIOUS
  <2>2. Rising(stack') /\ \A i \in 1..Len(stack') : stack'[i] <= entered'
    BY <1>4, <2>1 DEF StackOrder, Rising
  <2> QED
    BY <1>4, <2>2 DEF StackOrder, Rising
<1>6. ASSUME NEW i \in 1..Len(ran')
      PROVE  /\ ran'[i][1] <= ran'[i][3] /\ ran'[i][3] <= entered'
             /\ \A j \in 1..Len(stack') : stack'[j] < ran'[i][1] \/ stack'[j] > ran'[i][3]
  <2>1. CASE i \in 1..m /\ ran'[i] = ran[i]
    BY <1>1, <1>4, <2>1 DEF StackOrder, m
  <2>2. CASE i = m + 1 /\ ran'[i][1] = e /\ ran'[i][3] = entered
    <3>1. ASSUME NEW j \in 1..Len(stack') PROVE stack'[j] < e
      <4>1. j \in 1..n /\ n \in 1..n /\ j < n /\ stack'[j] = stack[j]
        OBVIOUS
      <4> QED
        BY <1>4, <4>1 DEF StackOrder, Rising
    <3> QED
      BY <1>1, <2>2, <3>1
  <2> QED
    BY <1>3, <2>1, <2>2
<1>7. ASSUME NEW i \in 1..Len(ran'), NEW j \in 1..Len(ran'), i < j
      PROVE  ran'[j][1] < ran'[i][1] \/ ran'[j][1] > ran'[i][3]
  <2>1. i \in 1..m /\ ran'[i] = ran[i]
    BY <1>1, <1>2, <1>3, <1>7
  <2>2. CASE j \in 1..m /\ ran'[j] = ran[j]
    BY <1>4, <1>7, <2>1, <2>2 DEF StackOrder, m
  <2>3. CASE j = m + 1 /\ ran'[j][1] = e
    <3>1. n \in 1..n
      OBVIOUS
    <3> QED
      BY <1>4, <2>1, <2>3, <3>1 DEF StackOrder, m
  <2> QED
    BY <1>3, <2>2, <2>3
<1>8. StackOrder'
  BY <1>5, <1>6, <1>7 DEF StackOrder
<1> QED
  BY <1>2, <1>8 DEF s, m

LEMMA NestedType ==
    ASSUME Exits!TypeOK
    PROVE  Exits!Nested \in Seq(Exits!Exc)
<1>1. ran \in Seq(Step) /\ received_exc \in BOOLEAN
  BY RanIs DEF Exits!TypeOK
<1> QED
  BY <1>1, NestedIs, OutermostIs, LeftIs

LEMMA NestedNext ==
    ASSUME Exits!TypeOK, NEW s \in Step, ran' = Append(ran, s), UNCHANGED received_exc
    PROVE  Exits!Nested' = Exits!With(Exits!Nested, s)
<1>1. ran \in Seq(Step) /\ received_exc \in BOOLEAN
  BY RanIs DEF Exits!TypeOK
<1>2. Outermost(received_exc) \in Seq(Exits!Exc)
  BY <1>1, OutermostIs
<1>3. Exits!Nested' = Left(Append(ran, s), Outermost(received_exc))
  BY Zenon DEF Exits!Nested, Left, Lefts, Outermost, Exits!With
<1>4. Left(Append(ran, s), Outermost(received_exc)) = Exits!With(Left(ran, Outermost(received_exc)), s)
  BY <1>1, <1>2, LeftIs
<1> QED
  BY <1>3, <1>4, NestedIs, Zenon

\* One exception more goes in front of those it has in its context.
LEMMA InFront ==
    ASSUME NEW e \in Exits!Exc, NEW q \in Seq(Exits!Exc), NEW t, t = <<e>> \o q
    PROVE  /\ Len(q) \in Nat /\ Len(t) = Len(q) + 1 /\ t[1] = e /\ t # <<>>
           /\ \A i \in 1..Len(q) : t[i + 1] = q[i]
           /\ \A i \in 1..Len(t) : i = 1 \/ (i - 1 \in 1..Len(q) /\ t[i] = q[i - 1])
<1>1. <<e>> \in Seq(Exits!Exc) /\ Len(<<e>>) = 1 /\ <<e>>[1] = e
  OBVIOUS
<1>2. Len(q) \in Nat
  BY LenProperties
<1>3. /\ t \in Seq(Exits!Exc) /\ Len(t) = Len(<<e>>) + Len(q)
      /\ \A i \in 1..(Len(<<e>>) + Len(q)) :
           t[i] = IF i <= Len(<<e>>) THEN <<e>>[i] ELSE q[i - Len(<<e>>)]
  BY <1>1, ConcatProperties
<1> DEFINE one == <<e>>
<1> HIDE DEF one
<1>4. /\ Len(t) = 1 + Len(q)
      /\ \A i \in 1..(1 + Len(q)) : t[i] = IF i <= 1 THEN one[i] ELSE q[i - 1]
  BY <1>1, <1>3 DEF one
<1>5. t[1] = e
  BY <1>1, <1>2, <1>4 DEF one
<1>6. t # <<>>
  BY <1>2, <1>4
<1>7. ASSUME NEW i \in 1..Len(q) PROVE t[i + 1] = q[i]
  <2>1. i + 1 \in 1..(1 + Len(q)) /\ ~(i + 1 <= 1) /\ (i + 1) - 1 = i
    BY <1>2
  <2> QED
    BY <1>4, <2>1
<1>8. ASSUME NEW i \in 1..Len(t) PROVE i = 1 \/ (i - 1 \in 1..Len(q) /\ t[i] = q[i - 1])
  <2>1. CASE i # 1
    <3>1. i \in 1..(1 + Len(q)) /\ ~(i <= 1) /\ i - 1 \in 1..Len(q)
      BY <1>2, <1>4, <2>1
    <3> QED
      BY <1>4, <3>1
  <2> QED
    BY <2>1, Zenon
<1>9. Len(t) = Len(q) + 1
  BY <1>2, <1>4
<1> QED
  BY <1>2, <1>5, <1>6, <1>7, <1>8, <1>9, Zenon

\* Its context is the one that was handed on.
LEMMA RaiseContexts ==
    ASSUME NEW e \in Exits!Entry, NEW q \in Seq(Exits!Exc), NEW t, t = <<e>> \o q,
           NEW x, OfBlocks(x, q), NEW c, NEW d, NEW r, Contexts(c, q), Raisers(q, r), ~Called(e, r),
           d[e] = x, \A y \in Exits!Exc : y # e => d[y] = c[y]
    PROVE  Contexts(d, t) /\ OfBlocks(e, t)
<1>1. /\ Len(q) \in Nat /\ Len(t) = Len(q) + 1 /\ t[1] = e /\ t # <<>>
      /\ \A i \in 1..Len(q) : t[i + 1] = q[i]
      /\ \A i \in 1..Len(t) : i = 1 \/ (i - 1 \in 1..Len(q) /\ t[i] = q[i - 1])
  <2>1. e \in Exits!Exc
    BY ExitSets
  <2> QED
    BY <2>1, InFront
<1>2. OfBlocks(e, t)
  BY <1>1 DEF OfBlocks
<1>3. d[t[1]] = IF 1 = Len(t) THEN Exits!NoExc ELSE t[2]
  <2>1. CASE q = <<>>
    BY <1>1, <2>1 DEF OfBlocks
  <2>2. CASE q # <<>>
    <3>1. Len(q) # 0
      BY <2>2, EmptySeq
    <3>2. 1 \in 1..Len(q)
      BY <1>1, <3>1
    <3>3. t[2] = q[1]
      BY <1>1, <3>2
    <3> QED
      BY <1>1, <2>2, <3>1, <3>3 DEF OfBlocks
  <2> QED
    BY <2>1, <2>2
<1>4. ASSUME NEW i \in 1..Len(t), i # 1
      PROVE  d[t[i]] = IF i = Len(t) THEN Exits!NoExc ELSE t[i + 1]
  <2>1. i - 1 \in 1..Len(q) /\ t[i] = q[i - 1]
    BY <1>1, <1>4
  <2>2. q[i - 1] \in Exits!Exc /\ q[i - 1] # e
    <3>1. q[i - 1] \in Exits!Exc
      BY <2>1, ElementOfSeq
    <3>2. q[i - 1] = Exits!Body \/ Called(q[i - 1], r)
      BY <2>1 DEF Raisers
    <3> QED
      BY <3>1, <3>2, ExitSets
  <2>3. d[q[i - 1]] = IF i - 1 = Len(q) THEN Exits!NoExc ELSE q[(i - 1) + 1]
    BY <2>1, <2>2 DEF Contexts
  <2>4. CASE i = Len(t)
    BY <1>1, <2>1, <2>3, <2>4
  <2>5. CASE i # Len(t)
    <3>1. i \in 1..Len(q) /\ (i - 1) + 1 = i /\ i - 1 # Len(q)
      BY <1>1, <2>5
    <3> QED
      BY <1>1, <2>1, <2>3, <2>5, <3>1
  <2> QED
    BY <2>4, <2>5
<1> QED
  BY <1>2, <1>3, <1>4 DEF Contexts

LEMMA CalledGrows ==
    ASSUME NEW r, NEW s, NEW e, Len(r) \in Nat, Len(s) = Len(r) + 1,
           \A i \in 1..Len(r) : s[i] = r[i], s[Len(r) + 1][1] = e
    PROVE  Called(e, s) /\ \A x : Called(x, r) => Called(x, s)
<1>1. ASSUME NEW x, Called(x, r) PROVE Called(x, s)
  <2>1. PICK i \in 1..Len(r) : r[i][1] = x
    BY <1>1 DEF Called
  <2>2. i \in 1..Len(s) /\ s[i] = r[i]
    OBVIOUS
  <2> QED
    BY <2>1, <2>2 DEF Called
<1>2. Called(e, s)
  <2>1. Len(r) + 1 \in 1..Len(s)
    OBVIOUS
  <2> QED
    BY <2>1 DEF Called
<1> QED
  BY <1>1, <1>2

LEMMA CallExitHolds ==
    ASSUME ExitInv, Exits!CallExit
    PROVE  ExitInv'
<1> DEFINE e == Exits!Last(stack)
           m == Len(ran)
<1>1. /\ e \in Exits!Entry /\ e = stack[Len(stack)] /\ Len(stack) \in Nat \ {0}
      /\ Len(stack') = Len(stack) - 1 /\ stack' \in Seq(Exits!Entry)
      /\ \A i \in 1..Len(stack') : stack'[i] = stack[i]
      /\ entered \in Exits!Entry /\ e <= entered /\ ~Called(e, ran) /\ phase = "exit"
      /\ UNCHANGED <<entered, kind, kept, received_exc, outcome>>
  BY CallExitIs
<1>2. PICK did \in Exits!Did : LET new == IF did = "raise" THEN e ELSE exc IN
        /\ did = "reraise" => exc # Exits!NoExc
        /\ ran' = Append(ran, <<e, did, entered>>)
        /\ CASE did = "pass" -> UNCHANGED <<phase, exc, context, suppressed_exc, pending_raise>>
             [] did = "suppress" ->
                  /\ suppressed_exc' = TRUE /\ pending_raise' = FALSE
                  /\ exc' = Exits!NoExc
                  /\ UNCHANGED <<phase, context>>
             [] OTHER ->
                  /\ phase' = IF Exits!Circular(new) \/ Exits!EndOfChain(new, exc) = Exits!Loop THEN "hung" ELSE "exit"
                  /\ context' = Exits!Chained(new, exc)
                  /\ pending_raise' = TRUE /\ exc' = new
                  /\ UNCHANGED suppressed_exc
  BY CallExitIs, Zenon
<1> DEFINE s == <<e, did, entered>>
           new == IF did = "raise" THEN e ELSE exc
<1>3. /\ did = "reraise" => exc # Exits!NoExc
      /\ ran' = Append(ran, s)
      /\ did = "pass" => UNCHANGED <<phase, exc, context, suppressed_exc, pending_raise>>
      /\ did = "suppress" =>
           /\ suppressed_exc' = TRUE /\ pending_raise' = FALSE
           /\ exc' = Exits!NoExc
           /\ UNCHANGED <<phase, context>>
      /\ did # "pass" /\ did # "suppress" =>
           /\ phase' = IF Exits!Circular(new) \/ Exits!EndOfChain(new, exc) = Exits!Loop THEN "hung" ELSE "exit"
           /\ context' = Exits!Chained(new, exc)
           /\ pending_raise' = TRUE /\ exc' = new
           /\ UNCHANGED suppressed_exc
  <2>1. "pass" # "suppress"
    OBVIOUS
  <2> QED
    BY <1>2, <2>1, Zenon
<1> HIDE DEF e
<1>4. StackOrder' /\ ran' \in Seq(Step) /\ Len(ran') = m + 1 /\ (\A i \in 1..m : ran'[i] = ran[i])
      /\ ran'[m + 1] = s
  BY <1>1, <1>3, CallOrder
<1>5. /\ s \in Step /\ s[1] = e /\ s[2] = did /\ m \in Nat /\ Exits!TypeOK /\ StackOrder /\ Chain /\ Phases
      /\ DOMAIN ran = 1..m /\ DOMAIN ran' = 1..m + 1 /\ e \in Exits!Exc
      /\ exc \in Exits!Exc \cup {Exits!NoExc} /\ context \in [Exits!Exc -> Exits!Exc \cup {Exits!NoExc}]
  <2>1. Exits!TypeOK /\ StackOrder /\ Chain /\ Phases
    BY DEF ExitInv
  <2>2. DOMAIN ran = 1..m /\ m \in Nat
    BY <2>1, RanIs
  <2>3. DOMAIN ran' = 1..m + 1
    BY <1>4, LenProperties
  <2>4. s \in Step /\ s[1] = e /\ s[2] = did
    BY <1>1 DEF Step
  <2>5. e \in Exits!Exc
    BY <1>1, ExitSets
  <2>6. exc \in Exits!Exc \cup {Exits!NoExc} /\ context \in [Exits!Exc -> Exits!Exc \cup {Exits!NoExc}]
    BY <2>1 DEF Exits!TypeOK
  <2> QED
    BY <2>1, <2>2, <2>3, <2>4, <2>5, <2>6
<1> HIDE DEF s, m
<1>6. /\ Exits!Nested \in Seq(Exits!Exc) /\ Exits!Nested' = Exits!With(Exits!Nested, s)
      /\ did = "raise" => Exits!Nested' = <<e>> \o Exits!Nested
      /\ did = "suppress" => Exits!Nested' = <<>>
      /\ did \in {"pass", "reraise"} => Exits!Nested' = Exits!Nested
  <2>1. Exits!Nested \in Seq(Exits!Exc)
    BY <1>5, NestedType
  <2>2. Exits!Nested' = Exits!With(Exits!Nested, s)
    BY <1>1, <1>3, <1>5, NestedNext
  <2> QED
    BY <1>5, <2>1, <2>2, WithIs
<1>7. Exits!Reraised' <=> Exits!Reraised \/ did = "reraise"
  <2>1. Exits!Reraised <=> \E i \in 1..m : ran[i][2] = "reraise"
    BY <1>5 DEF Exits!Reraised
  <2>2. Exits!Reraised' <=> \E i \in 1..m + 1 : ran'[i][2] = "reraise"
    BY <1>5 DEF Exits!Reraised
  <2>3. \A i \in 1..m : i \in 1..m + 1 /\ ran'[i] = ran[i]
    BY <1>4, <1>5
  <2>4. m + 1 \in 1..m + 1 /\ ran'[m + 1][2] = did
    BY <1>4, <1>5
  <2>5. \A i \in 1..m + 1 : (i \in 1..m /\ ran'[i] = ran[i]) \/ (i = m + 1 /\ ran'[i][2] = did)
    <3>1. ASSUME NEW i \in 1..m + 1 PROVE (i \in 1..m /\ ran'[i] = ran[i]) \/ (i = m + 1 /\ ran'[i][2] = did)
      <4>1. CASE i = m + 1
        BY <2>4, <4>1
      <4>2. CASE i # m + 1
        <5>1. m \in Nat
          BY <1>5
        <5>2. i \in 1..m
          BY <4>2, <5>1
        <5> QED
          BY <2>3, <5>2
      <4> QED
        BY <4>1, <4>2
    <3> QED
      BY <3>1
  <2> QED
    BY <2>1, <2>2, <2>3, <2>4, <2>5
<1>8. /\ \A q : Raisers(q, ran) => Raisers(q, ran')
      /\ Called(e, ran') /\ \A x : Called(x, ran) => Called(x, ran')
  <2>1. Len(ran) \in Nat /\ Len(ran') = Len(ran) + 1 /\ \A i \in 1..Len(ran) : ran'[i] = ran[i]
    BY <1>4, <1>5 DEF m
  <2>2. ran'[Len(ran) + 1][1] = e
    <3>1. ran'[m + 1][1] = e
      BY <1>4, <1>5
    <3> QED
      BY <3>1 DEF m
  <2>3. Called(e, ran') /\ \A x : Called(x, ran) => Called(x, ran')
    BY <2>1, <2>2, CalledGrows
  <2>4. ASSUME NEW q, Raisers(q, ran) PROVE Raisers(q, ran')
    BY <2>3, <2>4 DEF Raisers
  <2> QED
    BY <2>3, <2>4
<1>9. did \notin {"pass", "suppress"} => new \in Exits!Exc
  BY <1>3, <1>5 DEF Exits!Did
\* An exception that is raised for the first time is not in the contexts.
<1>10. ASSUME did = "raise", ~Exits!Reraised
       PROVE  /\ phase' = "exit" /\ context'[e] = exc
              /\ \A x \in Exits!Exc : x # e => context'[x] = context[x]
  <2>1. new = e /\ context' = Exits!Chained(e, exc)
    BY <1>3, <1>10
  <2>2. context[e] = Exits!NoExc /\ context[Exits!Body] = Exits!NoExc
    BY <1>1, <1>5, <1>10 DEF Chain
  <2>3. Exits!FrameExc # e /\ Exits!FrameExc \in {Exits!NoExc, Exits!Body}
    BY <1>1, <1>5, ImplicitIs, ExitSets
  <2>4. /\ Exits!EndOfChain(e, exc) # Exits!Loop /\ Exits!Chained(e, exc)[e] = exc
        /\ \A x \in Exits!Exc : x # e => Exits!Chained(e, exc)[x] = context[x]
    BY <1>5, <2>2, <2>3, ChainedIs
  <2>5. ~Exits!Circular(e)
    BY <2>2, <2>3, ExitSets DEF Exits!Circular
  <2> QED
    BY <1>3, <1>10, <2>1, <2>4, <2>5
<1> HIDE DEF new
<1>11. Exits!TypeOK'
  <2>1. phase' \in {"body", "exit", "left", "hung"}
    BY <1>1, <1>3
  <2>2. exc' \in Exits!Exc \cup {Exits!NoExc}
    BY <1>3, <1>5, <1>9
  <2>3. context' \in [Exits!Exc -> Exits!Exc \cup {Exits!NoExc}]
    <3>1. new \in Exits!Exc => Exits!Chained(new, exc) \in [Exits!Exc -> Exits!Exc \cup {Exits!NoExc}]
      BY <1>5, ChainedIs
    <3> QED
      BY <1>3, <1>5, <1>9, <3>1
  <2>4. received_exc' \in BOOLEAN /\ suppressed_exc' \in BOOLEAN /\ pending_raise' \in BOOLEAN
    <3>1. received_exc \in BOOLEAN /\ suppressed_exc \in BOOLEAN /\ pending_raise \in BOOLEAN
      BY <1>5 DEF Exits!TypeOK
    <3> QED
      BY <1>1, <1>3, <3>1, Zenon
  <2>5. ran' \in Seq(Exits!Entry \X Exits!Did \X Exits!Entry)
    BY <1>4 DEF Step
  <2> QED
    BY <1>1, <1>5, <2>1, <2>2, <2>3, <2>4, <2>5 DEF Exits!TypeOK
<1>12. Chain'
  <2>1. CASE did = "pass"
    <3>1. Exits!Nested' = Exits!Nested /\ (Exits!Reraised' <=> Exits!Reraised)
      BY <1>6, <1>7, <2>1
    <3>2. UNCHANGED <<exc, context, suppressed_exc, pending_raise, received_exc>>
      BY <1>1, <1>3, <2>1
    <3>3. Chain
      BY <1>5
    <3> QED
      BY <1>8, <3>1, <3>2, <3>3 DEF Chain, OfBlocks, Contexts, Raisers, Called
  <2>2. CASE did = "suppress"
    <3>1. Exits!Nested' = <<>> /\ (Exits!Reraised' <=> Exits!Reraised)
      BY <1>6, <1>7, <2>2
    <3>2. /\ UNCHANGED <<context, received_exc>> /\ exc' = Exits!NoExc /\ suppressed_exc'
      BY <1>1, <1>3, <2>2, Zenon
    <3>3. ~Exits!Reraised =>
            /\ context[Exits!Body] = Exits!NoExc
            /\ \A x \in Exits!Entry : ~Called(x, ran) => context[x] = Exits!NoExc
      BY <1>5 DEF Chain
    <3>4. OfBlocks(exc', <<>>) /\ Contexts(context', <<>>) /\ Raisers(<<>>, ran')
      BY <3>2 DEF OfBlocks, Contexts, Raisers
    <3>5. OfBlocks(exc', Exits!Nested') /\ Contexts(context', Exits!Nested') /\ Raisers(Exits!Nested', ran')
      BY <3>1, <3>4, Zenon
    <3>6. exc' = IF received_exc' /\ ~suppressed_exc' THEN Exits!Body ELSE Exits!NoExc
      BY <3>2
    <3> QED
      BY <1>8, <3>1, <3>2, <3>3, <3>5, <3>6 DEF Chain, OfBlocks, Contexts, Raisers, Called
  <2>3. CASE did = "raise"
    <3>1. Exits!Nested' = <<e>> \o Exits!Nested /\ exc' = e /\ pending_raise'
      <4>1. did # "pass" /\ did # "suppress" /\ new = e
        BY <2>3 DEF new
      <4> QED
        BY <1>3, <1>6, <2>3, <4>1, Zenon
    <3>2. OfBlocks(exc', Exits!Nested')
      <4>1. Exits!Nested' # <<>> /\ Exits!Nested'[1] = e
        BY <1>5, <1>6, <3>1, InFront
      <4> QED
        BY <3>1, <4>1 DEF OfBlocks
    <3>3. ASSUME ~Exits!Reraised
          PROVE  /\ Contexts(context', Exits!Nested') /\ Raisers(Exits!Nested', ran')
                 /\ context'[Exits!Body] = Exits!NoExc
                 /\ \A x \in Exits!Entry : ~Called(x, ran') => context'[x] = Exits!NoExc
      <4>1. /\ OfBlocks(exc, Exits!Nested) /\ Contexts(context, Exits!Nested) /\ Raisers(Exits!Nested, ran)
            /\ context[Exits!Body] = Exits!NoExc
            /\ \A x \in Exits!Entry : ~Called(x, ran) => context[x] = Exits!NoExc
        BY <1>5, <3>3 DEF Chain
      <4>2. context'[e] = exc /\ \A x \in Exits!Exc : x # e => context'[x] = context[x]
        BY <1>10, <2>3, <3>3
      <4>3. Contexts(context', Exits!Nested')
        BY <1>1, <1>6, <3>1, <4>1, <4>2, RaiseContexts
      <4>4. Raisers(Exits!Nested', ran')
        <5>1. ASSUME NEW i \in 1..Len(Exits!Nested')
              PROVE  (i = 1 /\ Exits!Nested'[i] = e)
                       \/ (i - 1 \in 1..Len(Exits!Nested) /\ Exits!Nested'[i] = Exits!Nested[i - 1])
          <6>1. /\ Exits!Nested'[1] = e
                /\ \A k \in 1..Len(Exits!Nested') :
                     k = 1 \/ (k - 1 \in 1..Len(Exits!Nested) /\ Exits!Nested'[k] = Exits!Nested[k - 1])
            BY <1>5, <1>6, <3>1, InFront
          <6> QED
            BY <6>1
        <5>2. Raisers(Exits!Nested, ran')
          BY <1>8, <4>1
        <5> QED
          BY <1>8, <5>1, <5>2 DEF Raisers
      <4>5. context'[Exits!Body] = Exits!NoExc
        BY <1>1, <4>1, <4>2, ExitSets
      <4>6. ASSUME NEW x \in Exits!Entry, ~Called(x, ran') PROVE context'[x] = Exits!NoExc
        BY <1>8, <4>1, <4>2, <4>6, ExitSets
      <4> QED
        BY <4>3, <4>4, <4>5, <4>6
    <3> QED
      BY <1>7, <2>3, <3>1, <3>2, <3>3 DEF Chain, OfBlocks, Contexts, Raisers, Called
  <2>4. CASE did = "reraise"
    <3>1. Exits!Nested' = Exits!Nested /\ Exits!Reraised' /\ exc' = exc /\ pending_raise'
      <4>1. did # "pass" /\ did # "suppress" /\ new = exc
        BY <2>4 DEF new
      <4> QED
        BY <1>3, <1>6, <1>7, <2>4, <4>1
    <3>2. OfBlocks(exc, Exits!Nested)
      BY <1>5 DEF Chain
    <3> QED
      BY <3>1, <3>2 DEF Chain, OfBlocks
  <2> QED
    BY <2>1, <2>2, <2>3, <2>4 DEF Exits!Did
<1>13. Phases'
  <2>1. phase' \in {"exit", "hung"}
    BY <1>1, <1>3
  <2>2. ASSUME phase' = "hung" PROVE Exits!Reraised'
    <3>1. did # "pass" /\ did # "suppress"
      BY <1>1, <1>3, <2>2
    <3>2. CASE did = "raise"
      BY <1>7, <1>10, <2>2, <3>2
    <3> QED
      BY <1>7, <3>1, <3>2 DEF Exits!Did
  <2> QED
    BY <2>1, <2>2 DEF Phases
<1> QED
  BY <1>4, <1>11, <1>12, <1>13 DEF ExitInv

-----------------------------------------------------------------------------
LEMMA ExitNext ==
    ASSUME ExitInv, [Exits!Next]_(Exits!vars)
    PROVE  ExitInv'
<1>1. CASE UNCHANGED Exits!vars
  <2>1. UNCHANGED <<exc, context, received_exc, suppressed_exc, pending_raise, ran, entered, kind,
                    stack, kept, outcome, phase>>
    BY <1>1 DEF Exits!vars
  <2>2. Chain'
    BY <2>1, ChainSame
  <2>3. Exits!Reraised' = Exits!Reraised
    BY <2>1 DEF Exits!Reraised
  <2> QED
    BY <2>1, <2>2, <2>3 DEF ExitInv, Exits!TypeOK, StackOrder, Rising, Phases
<1> QED
  BY <1>1, PushHolds, PopAllHolds, CallExitHolds, LeaveHolds, CloseKeptHolds, LeaveBodyHolds
  DEF Exits!Next

LEMMA ExitsHold == Spec => []ExitInv
<1>1. Init => ExitInv
  BY ExitInit DEF Init
<1> QED
  BY <1>1, ExitNext, PartSteps, PTL DEF Spec

\* Exit stacks are left like nested `with` statements.
LEMMA ExitIsRight == ExitInv => Exits!LikeNested
<1> SUFFICES ASSUME ExitInv PROVE Exits!LikeNested
  OBVIOUS
<1> USE DEF ExitInv
<1>1. Exits!Nested \in Seq(Exits!Exc) /\ DOMAIN ran = 1..Len(ran)
  BY RanIs, NestedType
<1>2. DOMAIN Exits!Nested = 1..Len(Exits!Nested) /\ (Exits!Nested # <<>> => Head(Exits!Nested) = Exits!Nested[1])
  BY <1>1, LenProperties, HeadTailProperties
<1>3. ASSUME phase = "left"
      PROVE  /\ outcome = IF Exits!Nested = <<>> THEN Exits!NoExc ELSE Head(Exits!Nested)
             /\ ~Exits!Reraised => \A i \in DOMAIN Exits!Nested :
                  context[Exits!Nested[i]] = IF i = Len(Exits!Nested) THEN Exits!NoExc ELSE Exits!Nested[i + 1]
  BY <1>2, <1>3 DEF Phases, Chain, OfBlocks, Contexts
<1> QED
  BY <1>1, <1>3 DEF Exits!LikeNested, StackOrder, Phases

\* What leaves the block of an exit stack, and its contexts, is what would leave nested
\* `with` statements, and what was pushed is called in reverse (ExitStack and
\* AsyncExitStack of mode/utils/_py37_contextlib.py).
THEOREM ExitsLikeNested == Spec => []LikeNested
<1>1. ExitInv => LikeNested
  BY ExitIsRight DEF LikeNested
<1> QED
  BY ExitsHold, <1>1, PTL
=============================================================================
