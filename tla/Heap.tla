-------------------------------- MODULE Heap --------------------------------
(***************************************************************************)
(* Heap (mode/utils/collections.py): heapq behind the interface of a       *)
(* mutable sequence, whose own methods know nothing of the heap.           *)
(***************************************************************************)
EXTENDS Integers, Sequences, SequencesExt

CONSTANTS Item, MaxLength  \* bounds: the numbers in the heap, and how many

VARIABLES
    data,
    raw,     \* history: a method of the sequence has changed data
    wrong    \* history: a pop that did not give the smallest

vars == <<data, raw, wrong>>

TypeOK ==
    /\ data \in Seq(Item) /\ Len(data) <= MaxLength
    /\ {raw, wrong} \subseteq BOOLEAN

\* heapq: the item at pos moves up past larger parents, not beyond start; or
\* down to a leaf in place of the smaller children, and up again from there.
Swapped(h, i, j) == [h EXCEPT ![i] = h[j], ![j] = h[i]]
SiftDown(heap, start, from) ==
    LET sift[at \in Seq(Item) \X Nat] ==
          LET h == at[1]  pos == at[2] IN
          IF pos \in start + 1..Len(h) /\ h[pos] < h[pos \div 2]
            THEN sift[<<Swapped(h, pos, pos \div 2), pos \div 2>>] ELSE h
    IN  sift[<<heap, from>>]
SmallerChild(h, pos) ==
    LET right == 2 * pos + 1
    IN  IF right <= Len(h) /\ h[right] <= h[2 * pos] THEN right ELSE 2 * pos
SiftUp(heap, start) ==
    LET sift[at \in Seq(Item) \X (Nat \ {0})] ==
          LET h == at[1]  pos == at[2]  child == SmallerChild(h, pos) IN
          IF 2 * pos <= Len(h) THEN sift[<<Swapped(h, pos, child), child>>]
                               ELSE SiftDown(h, start, pos)
    IN  sift[<<heap, start>>]
heapify(list) ==
    LET up[at \in Seq(Item) \X Nat] ==
          LET h == at[1]  pos == at[2] IN
          IF pos = 0 THEN h ELSE up[<<SiftUp(h, pos), pos - 1>>]
    IN  up[<<list, Len(list) \div 2>>]
heappush(h, x) == SiftDown(Append(h, x), 1, Len(h) + 1)
heapreplace(h, x) == SiftUp([h EXCEPT ![1] = x], 1)
heappop(h) == IF Len(h) = 1 THEN <<>> ELSE heapreplace(Front(h), Last(h))

Init ==
    /\ \E list \in UNION {[1..n -> Item] : n \in 0..MaxLength} : data = heapify(list)
    /\ raw = FALSE /\ wrong = FALSE

\* What a method gives, and what is smaller than that.
Gives(x, among) == wrong' = (wrong \/ \E i \in DOMAIN among : among[i] < x)

\* pop(): of another index it raises, and changes nothing.
Pop ==
    /\ data # <<>>
    /\ data' = heappop(data) /\ Gives(data[1], data)
    /\ UNCHANGED raw
\* Mutant: the item is only appended.
PushAppended(x) ==
    /\ Len(data) < MaxLength
    /\ data' = Append(data, x)
    /\ UNCHANGED <<raw, wrong>>
Push(x) ==
    /\ Len(data) < MaxLength
    /\ data' = heappush(data, x)
    /\ UNCHANGED <<raw, wrong>>
PushPop(x) ==
    /\ IF data # <<>> /\ data[1] < x
         THEN data' = heapreplace(data, x) /\ Gives(data[1], data)
         ELSE UNCHANGED data /\ Gives(x, data)
    /\ UNCHANGED raw
Replace(x) ==
    /\ data # <<>>
    /\ data' = heapreplace(data, x) /\ Gives(data[1], data)
    /\ UNCHANGED raw

\* insert(), and append() by it.
Insert(i, x) ==
    /\ Len(data) < MaxLength
    /\ data' = InsertAt(data, i, x) /\ raw' = TRUE
    /\ UNCHANGED wrong
SetItem(i, x) ==
    /\ data' = [data EXCEPT ![i] = x] /\ raw' = TRUE
    /\ UNCHANGED wrong
\* del, and remove() by it.
DeleteItem(i) ==
    /\ data' = RemoveAt(data, i) /\ raw' = TRUE
    /\ UNCHANGED wrong

Next ==
    \/ Pop
    \/ \E x \in Item : Push(x) \/ PushPop(x) \/ Replace(x)
    \/ \E x \in Item, i \in 1..Len(data) + 1 : Insert(i, x)
    \/ \E x \in Item, i \in DOMAIN data : SetItem(i, x)
    \/ \E i \in DOMAIN data : DeleteItem(i)

Spec == Init /\ [][Next]_vars

-----------------------------------------------------------------------------
\* While the methods of the heap alone are used, the smallest is first and is
\* what they give; as soon as it is not first, a sequence method was used.
HeapRight ==
    ~raw => /\ ~wrong
            /\ \A i \in DOMAIN data : data[1] <= data[i] /\ (i > 1 => data[i \div 2] <= data[i])
=============================================================================
