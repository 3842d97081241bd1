------------------------------ MODULE LRUCache ------------------------------
(***************************************************************************)
(* LRUCache (mode/utils/collections.py) with thread_safety: an OrderedDict *)
(* of at most Limit keys.  Its own methods hold a reentrant lock; what it  *)
(* inherits from FastUserDict (del, clear, len, in) does not, and a        *)
(* generator over it holds the lock for as long as it is suspended.  The   *)
(* values are left out.                                                    *)
(***************************************************************************)
EXTENDS Integers, Sequences, FiniteSets, SequencesExt

CONSTANTS Thread, Key, Limit, None

VARIABLES
    data,       \* the keys, the oldest first
    mutex,      \* the thread that holds the lock
    lpc, op, key, victim,  \* where each thread is, its call and operands
    excess,     \* [Thread -> how many keys update() has still to drop]
    iterating,  \* threads with a suspended generator
    older,      \* history: <<k, l>> if k was not inserted or read since l was
    disturbed,  \* history: threads in whose call another has deleted keys
    broken      \* history: threads that were not, and whose call broke

vars == <<data, mutex, lpc, op, key, victim, excess, iterating, older, disturbed,
          broken>>
cache == <<data, older>>

TypeOK ==
    /\ data \in Seq(Key) /\ older \subseteq Key \X Key
    /\ mutex \in Thread \cup {None}
    /\ lpc \in [Thread -> {"idle", "take", "limit", "first", "evict", "store", "trim"}]
    /\ op \in [Thread -> {None, "get", "set", "incr"}]
    /\ key \in [Thread -> Key \cup {None}] /\ victim \in [Thread -> Key \cup {None}]
    /\ excess \in [Thread -> 0..Cardinality(Key)]
    /\ {iterating, disturbed, broken} \subseteq SUBSET Thread

Nothing == [t \in Thread |-> None]
Init ==
    /\ data = <<>> /\ older = {} /\ mutex = None
    /\ lpc = [t \in Thread |-> "idle"]
    /\ op = Nothing /\ key = Nothing /\ victim = Nothing
    /\ excess = [t \in Thread |-> 0]
    /\ iterating = {} /\ disturbed = {} /\ broken = {}

Goto(t, l) == lpc' = [lpc EXCEPT ![t] = l] /\ UNCHANGED <<mutex, op, key, victim, disturbed, broken>>
Free(t) == lpc[t] = "idle" /\ mutex \in {None, t}

\* The end of a call, which may have been broken by an exception inside it.
Leave(t) ==
    /\ lpc' = [lpc EXCEPT ![t] = "idle"]
    /\ op' = [op EXCEPT ![t] = None] /\ key' = [key EXCEPT ![t] = None]
    /\ victim' = [victim EXCEPT ![t] = None]
    /\ mutex' = IF t \in iterating THEN mutex ELSE None
    /\ disturbed' = IF t \in iterating THEN disturbed ELSE disturbed \ {t}
Returns(t) == Leave(t) /\ UNCHANGED broken
Breaks(t) == Leave(t) /\ broken' = broken \cup ({t} \ disturbed)

\* Whatever becomes of the keys in the cache, one that is used is the newest of
\* all; an assignment to a key that is there is no use of it, and leaves it in
\* its place.
Use(o, k) == {p \in o : p[1] # k} \cup ((Key \ {k}) \X {k})
Insertion(o, keys, k) == IF k \in ToSet(keys) THEN o ELSE Use(o, k)

Drop(k) == data' = RemoveFirst(data, k)
Put(keys, k) == IF k \in ToSet(keys) THEN keys ELSE Append(keys, k)

Call(t, o, k) ==
    /\ Free(t)
    /\ mutex' = t
    /\ op' = [op EXCEPT ![t] = o] /\ key' = [key EXCEPT ![t] = k]
    /\ lpc' = [lpc EXCEPT ![t] = IF o = "set" THEN "limit" ELSE "take"]
    /\ UNCHANGED <<cache, victim, excess, iterating, disturbed, broken>>

\* Mutant: a key that is read stays where it is.
ReadInPlace(k) == UNCHANGED data /\ older' = Use(older, k)

Read(k) == Drop(k) /\ older' = Use(older, k)
\* __getitem__ and incr() take the key out and set it again; in between int()
\* may raise, and then the key is gone.
Take(t) ==
    /\ lpc[t] = "take"
    /\ \/ key[t] \notin ToSet(data) /\ Returns(t) /\ UNCHANGED cache
       \/ /\ key[t] \in ToSet(data) /\ Read(key[t])
          /\ Goto(t, "limit") \/ (op[t] = "incr" /\ Returns(t))
    /\ UNCHANGED <<excess, iterating>>

\* __setitem__: the length, the oldest key, its removal and the assignment
\* are steps, and a deletion gets in between.
CheckLimit(t) ==
    /\ lpc[t] = "limit"
    /\ Goto(t, IF Len(data) >= Limit THEN "first" ELSE "store")
    /\ UNCHANGED <<cache, excess, iterating>>

\* next(iter(data))
Oldest == Head(data)
First(t) ==
    /\ lpc[t] = "first"
    /\ IF data = <<>> THEN Breaks(t)  \* StopIteration
       ELSE /\ victim' = [victim EXCEPT ![t] = Oldest]
            /\ lpc' = [lpc EXCEPT ![t] = "evict"]
            /\ UNCHANGED <<mutex, op, key, disturbed, broken>>
    /\ UNCHANGED <<cache, excess, iterating>>

Evict(t) ==
    /\ lpc[t] = "evict"
    /\ IF victim[t] \in ToSet(data) THEN Drop(victim[t]) /\ Goto(t, "store") /\ UNCHANGED older
                                    ELSE Breaks(t) /\ UNCHANGED cache  \* KeyError
    /\ UNCHANGED <<excess, iterating>>

Store(t) ==
    /\ lpc[t] = "store"
    /\ data' = Put(data, key[t])
    /\ older' = IF op[t] = "set" THEN Insertion(older, data, key[t]) ELSE older
    /\ Returns(t)
    /\ UNCHANGED <<excess, iterating>>

\* Mutant: the excess is counted while there is room.
SurplusUnchecked(n) == n - Limit

Surplus(n) == IF n > Limit THEN n - Limit ELSE 0
\* update() with one or two keys: how many to drop is counted once, then they go
\* one by one.
Update(t, k, l) ==
    /\ Free(t)
    /\ data' = Put(Put(data, k), l)
    /\ older' = Insertion(Insertion(older, data, k), Put(data, k), l)
    /\ excess' = [excess EXCEPT ![t] = Surplus(Len(data'))]
    /\ mutex' = t
    /\ lpc' = [lpc EXCEPT ![t] = "trim"]
    /\ UNCHANGED <<op, key, victim, iterating, disturbed, broken>>

Trim(t) ==
    /\ lpc[t] = "trim"
    /\ \/ excess[t] = 0 /\ Returns(t) /\ UNCHANGED <<cache, excess>>
       \/ excess[t] > 0 /\ data # <<>> /\ Drop(Oldest) /\ Goto(t, "trim") /\ UNCHANGED older
          /\ excess' = [excess EXCEPT ![t] = @ - 1]
       \/ excess[t] > 0 /\ data = <<>> /\ Breaks(t) /\ UNCHANGED cache
          /\ excess' = [excess EXCEPT ![t] = 0]
    /\ UNCHANGED iterating

PopItem(t, last) ==
    /\ Free(t) /\ data # <<>>
    /\ Drop(IF last THEN Last(data) ELSE Head(data))
    /\ UNCHANGED <<older, mutex, lpc, op, key, victim, excess, iterating, disturbed, broken>>

\* del and clear() ask nobody.
Disturbs(t) ==
    /\ lpc[t] = "idle" /\ data # <<>>
    /\ disturbed' = disturbed \cup {u \in Thread \ {t} : lpc[u] # "idle" \/ u \in iterating}
    /\ UNCHANGED <<older, mutex, lpc, op, key, victim, excess, iterating, broken>>
Delete(t, k) == Disturbs(t) /\ k \in ToSet(data) /\ Drop(k)
Clear(t) == Disturbs(t) /\ data' = <<>>

\* keys(), values() and items(): what the loop does comes in between.
BeginLoop(t) ==
    /\ Free(t) /\ t \notin iterating
    /\ mutex' = t /\ iterating' = iterating \cup {t}
    /\ UNCHANGED <<cache, lpc, op, key, victim, excess, disturbed, broken>>
EndLoop(t) ==
    /\ lpc[t] = "idle" /\ t \in iterating
    /\ iterating' = iterating \ {t}
    /\ mutex' = None /\ disturbed' = disturbed \ {t}
    /\ UNCHANGED <<cache, lpc, op, key, victim, excess, broken>>

ThreadStep(t) ==
    \/ \E o \in {"get", "set", "incr"}, k \in Key : Call(t, o, k)
    \/ Take(t) \/ CheckLimit(t) \/ First(t) \/ Evict(t) \/ Store(t)
    \/ \E k, l \in Key : Update(t, k, l)
    \/ Trim(t) \/ BeginLoop(t) \/ EndLoop(t)
    \/ \E last \in BOOLEAN : PopItem(t, last)
    \/ (\E k \in Key : Delete(t, k)) \/ Clear(t)
Next == \E t \in Thread : ThreadStep(t)

Spec == Init /\ [][Next]_vars

-----------------------------------------------------------------------------
\* The cache holds more keys than its limit only inside update(); none of the
\* keys in it was last inserted or read before the one that it evicts, or that
\* update() drops; and a call breaks only because another thread has deleted
\* keys meanwhile, which takes no lock.
OldestOf(k) == \A l \in ToSet(data) : <<l, k>> \notin older
WithinLimit == (\A t \in Thread : lpc[t] # "trim") => Len(data) <= Limit
LeastRecent ==
    \A t \in Thread :
      /\ lpc[t] = "evict" => OldestOf(victim[t])
      /\ lpc[t] = "trim" /\ data # <<>> => OldestOf(Oldest)
CacheRight == WithinLimit /\ LeastRecent /\ broken = {}
=============================================================================
