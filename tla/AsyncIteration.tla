--------------------------- MODULE AsyncIteration ---------------------------
(***************************************************************************)
(* aslice, chunks, anext and arange (mode/utils/aiter.py): a generator     *)
(* that reads from an iterator it shares with another task, which may take *)
(* the item after each item the generator has awaited.                     *)
(***************************************************************************)
EXTENDS Integers, Sequences, FiniteSets, SequencesExt

CONSTANTS
    Items,    \* bound: items of the source
    Argument, \* bound: the numbers start, stop, step and n are chosen from
    None      \* an argument of slice() that is not given

VARIABLES
    source,   \* the items that are left
    call,     \* the call: [fun, start, stop, step], or [fun, n]
    at,       \* "item" (chunks awaits the first of a chunk), "slice", or "ended"
    index,    \* i of aenumerate in the slice
    nexts,    \* what `it` of the slice still gives, nexti first
    chunk,    \* what the slice has yielded
    chunked,  \* history: the chunks that were yielded
    seen,     \* history: items the slice has awaited
    elsewhere \* history: items the other task has taken

vars == <<source, call, at, index, nexts, chunk, chunked, seen, elsewhere>>

\* range(): the counts from start below stop.
Steps(start, stop, step) ==
    [i \in 1..(IF stop > start THEN (stop - start + step - 1) \div step ELSE 0) |->
        start + (i - 1) * step]
\* The source, an arange() or an iterator that was wrapped by aiter().
arange(stop) == Steps(0, stop, 1)

\* `s.stop or sys.maxsize` and `s.step or 1`: 0 is no argument either; with step
\* in 0..Items an index past the last item is still wanted below MaxSize.
MaxSize == 2 * Items
Or(argument, default) == IF argument \in {0, None} THEN default ELSE argument
\* Mutant: the step is not looked at.
SliceStepless(start, stop, step) == Steps(start, Or(stop, MaxSize), 1)

Slice(start, stop, step) == Steps(start, Or(stop, MaxSize), Or(step, 1))

Call == [fun : {"aslice"}, start : Argument, stop : Argument \cup {None},
         step : Argument \cup {None}]
        \cup [fun : {"chunks"}, n : Argument \ {0}]

TypeOK ==
    /\ source \in Seq(0..Items - 1) /\ call \in Call
    /\ at \in {"item", "slice", "ended"} /\ index \in 0..Items
    /\ nexts \in Seq(0..MaxSize) /\ chunk \in Seq(0..Items - 1)
    /\ chunked \in Seq(Seq(0..Items - 1)) /\ seen \in Seq(0..Items - 1)
    /\ elsewhere \subseteq 0..Items - 1

Init ==
    /\ source = arange(Items) /\ call \in Call
    /\ at = IF call.fun = "aslice" THEN "slice" ELSE "item"
    /\ nexts = IF call.fun = "aslice" THEN Slice(call.start, call.stop, call.step) ELSE <<>>
    /\ index = 0 /\ chunk = <<>> /\ chunked = <<>> /\ seen = <<>> /\ elsewhere = {}

\* chunks() awaits an item, and reads the rest of the chunk by a slice.
ChunkBegins ==
    /\ at = "item" /\ source # <<>>
    /\ chunk' = <<Head(source)>> /\ source' = Tail(source)
    /\ nexts' = Slice(0, call.n - 1, None) /\ index' = 0
    /\ at' = "slice"
    /\ UNCHANGED <<call, chunked, seen, elsewhere>>
ChunksEnd ==
    /\ at = "item" /\ source = <<>>
    /\ at' = "ended"
    /\ UNCHANGED <<source, call, index, nexts, chunk, chunked, seen, elsewhere>>

\* aslice(): an item is awaited while an index is still wanted.
SliceItem ==
    /\ at = "slice" /\ nexts # <<>> /\ source # <<>>
    /\ source' = Tail(source) /\ seen' = Append(seen, Head(source))
    /\ index' = index + 1
    /\ IF index = Head(nexts)
         THEN chunk' = Append(chunk, Head(source)) /\ nexts' = Tail(nexts)
         ELSE UNCHANGED <<chunk, nexts>>
    /\ UNCHANGED <<call, at, chunked, elsewhere>>
SliceEnds ==
    /\ at = "slice" /\ <<>> \in {nexts, source}
    /\ IF call.fun = "chunks"
         THEN at' = "item" /\ chunked' = Append(chunked, chunk) /\ chunk' = <<>>
         ELSE at' = "ended" /\ UNCHANGED <<chunked, chunk>>
    /\ UNCHANGED <<source, call, index, nexts, seen, elsewhere>>

\* anext() of the other task; at the end it gives the default or raises.
anext ==
    /\ source # <<>>
    /\ elsewhere' = elsewhere \cup {Head(source)} /\ source' = Tail(source)
    /\ UNCHANGED <<call, at, index, nexts, chunk, chunked, seen>>

Next == ChunkBegins \/ ChunksEnd \/ SliceItem \/ SliceEnds \/ anext

Spec == Init /\ [][Next]_vars

-----------------------------------------------------------------------------
\* Whoever shares the iterator, every item that was taken is in one place, in
\* order.  A slice whose stop and step are not 0 yields what Python's slice of
\* the items it has awaited has, and awaits none after its last.  Chunks of more
\* than one are of n items each, but for the last.  (A stop of 0 is taken for
\* none, and so for n = 1 all the rest of the items make one chunk.)
IterationRight ==
    LET mine == FlattenSeq(chunked) \o chunk
        taken == IF call.fun = "aslice" THEN seen ELSE mine IN
    /\ \A i, j \in 1..Len(taken) : i < j => taken[i] < taken[j]
    /\ ToSet(taken) \cap elsewhere = {}
    /\ ToSet(taken) \cup elsewhere = 0..(Items - 1 - Len(source))
    /\ call.fun = "aslice" /\ call.stop # 0 /\ call.step # 0 =>
         LET step == IF call.step = None THEN 1 ELSE call.step
             Asked(i) == i >= call.start /\ (call.stop = None \/ i < call.stop)
                         /\ (i - call.start) % step = 0 IN
         /\ Len(chunk) = Cardinality({i \in 0..Len(seen) - 1 : Asked(i)})
         /\ chunk = [k \in 1..Len(chunk) |-> seen[call.start + (k - 1) * step + 1]]
         /\ seen # <<>> => Asked(Len(seen) - 1) \/ \E i \in Len(seen)..MaxSize - 1 : Asked(i)
         /\ at = "ended" /\ source # <<>> => ~\E i \in Len(seen)..MaxSize - 1 : Asked(i)
    /\ call.fun = "chunks" /\ call.n > 1 =>
         /\ \A k \in 1..Len(chunked) :
              /\ chunked[k] # <<>> /\ Len(chunked[k]) <= call.n
              /\ Len(chunked[k]) < call.n =>
                   k = Len(chunked) /\ source = <<>> /\ at # "slice"
         /\ Len(chunk) <= call.n
=============================================================================
