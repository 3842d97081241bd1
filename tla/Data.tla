-------------------------------- MODULE Data --------------------------------
(***************************************************************************)
(* The parts of the library that are used one object at a time, checked in *)
(* one run: an initial state picks a part, and only its actions happen.    *)
(***************************************************************************)
EXTENDS Integers, FiniteSets

\* The operands and bounds of each part, under the names of its module where
\* two parts do not share one.
CONSTANTS
    Thread, Key, Limit,               \* LRU caches; service proxies
    Elem, Value,                      \* managed collections
    Fun, Sender, Task,                \* signals
    MaxEntries,                       \* exit stacks
    Interval, Correction, Late, Runtime, MaxIterations,  \* timers
    Timeout, Duration, MaxWait,       \* blocking detector
    Vertex, MaxEdges,                 \* dependency graphs
    Beacon,                           \* nodes
    Finalizer, MaxObjects, MaxEvaluations,  \* lazy proxies
    Printer, Block,                   \* redirected streams
    User, Directory, Namespace,       \* imports
    Item, MaxLength,                  \* heaps
    MaxServices,                      \* service proxies
    Items, Argument,                  \* asynchronous iteration
    None

\* Bounds are numbers, delays have a longest, a limit leaves room for a key, a
\* slice asks for no more than there is, and None is nothing else.
ASSUME DataConstants ==
    /\ {MaxEntries, Interval, Correction, MaxIterations, MaxEdges, MaxObjects, MaxEvaluations,
        MaxLength, MaxServices, Items, MaxWait} \subseteq Nat
    /\ {Limit, Timeout} \subseteq Nat \ {0} /\ Item \subseteq Int /\ Argument \subseteq 0..Items
    /\ None \notin 0..Items
    /\ \A Delays \in {Late, Runtime, Duration} :
         /\ Delays \subseteq Nat
         /\ \E longest \in Delays : \A d \in Delays : d <= longest
    /\ IsFiniteSet(Key) /\ IsFiniteSet(Vertex) /\ IsFiniteSet(Beacon)
    /\ \A Operands \in {Thread, Key, Beacon, Block, Directory} : None \notin Operands

VARIABLES
    part,
    data, mutex, lpc, op, key, victim, excess, iterating, older, disturbed, broken,
    set, set_mirror, dict, dict_mirror, unheard, bypassed, failed,
    alike, alive, receivers, filters, sender, todo, called, expected, wanted,
    entered, kind, stack, kept, phase, exc, context, received_exc, suppressed_exc,
    pending_raise, outcome, ran,
    repeater, timer_pc, timer_flags, iteration, sleep_time, slept, runtime,
    drifting_early, drifting_late, overlaps, late, slept0, waited,
    detector, armed, due, loop, since, elapsed, alarms,
    adjacent, edges, sort, count, ready, result,
    parent, root, children, exists, carried, discarded, misled,
    cached, has_local, cache, created, finalizers, frames, proxy_entered, name, written,
    given, before, settled, reentered, proxy_broken, swapped, missed,
    sys, redirects, open, shut, logging, recurse_protection, moved,
    path, at_start, cwd, inside, inserted, dropped, namespaces, finalized, loading,
    aliases, load_failed, declared,
    heap, raw, wrong,
    stored, services_created, ppc, method, value, running, overlapped, replaced, astray,
    source, call, at, index, nexts, chunk, chunked, seen, elsewhere

Caches == INSTANCE LRUCache
Mirrors == INSTANCE ManagedCollections
Sends == INSTANCE Signals
Exits == INSTANCE ExitStack
Ticks == INSTANCE Timer
Alarm == INSTANCE BlockingDetector
Graphs == INSTANCE DependencyGraph
Trees == INSTANCE Node
Proxies == INSTANCE LazyProxy WITH MaxDepth <- MaxEvaluations,
       entered <- proxy_entered, broken <- proxy_broken
Redirects == INSTANCE Streams WITH Thread <- Printer, Terminal <- None
Loads == INSTANCE Imports WITH failed <- load_failed
Heaps == INSTANCE Heap WITH data <- heap
Services == INSTANCE ServiceProxy WITH created <- services_created, pc <- ppc
Slices == INSTANCE AsyncIteration

lru == <<data, mutex, lpc, op, key, victim, excess, iterating, older, disturbed, broken>>
managed == <<set, set_mirror, dict, dict_mirror, unheard, bypassed, failed>>
signals == <<alike, alive, receivers, filters, sender, todo, called, expected, wanted>>
exits == <<entered, kind, stack, kept, phase, exc, context, received_exc, suppressed_exc,
           pending_raise, outcome, ran>>
timers == <<repeater, timer_pc, timer_flags, iteration, sleep_time, slept, runtime,
            drifting_early, drifting_late, overlaps, late, slept0, waited>>
alarm == <<detector, armed, due, loop, since, elapsed, alarms>>
graphs == <<adjacent, edges, sort, count, ready, result>>
trees == <<parent, root, children, exists, carried, discarded, misled>>
proxies == <<cached, has_local, cache, created, finalizers, frames, proxy_entered, name,
             written, given, before, settled, reentered, proxy_broken, swapped, missed>>
streams == <<sys, redirects, open, shut, logging, recurse_protection, moved>>
imports == <<path, at_start, cwd, inside, inserted, dropped, namespaces, finalized,
             loading, aliases, load_failed, declared>>
heaps == <<heap, raw, wrong>>
services == <<stored, services_created, ppc, method, value, running, overlapped, replaced, astray>>
iterations == <<source, call, at, index, nexts, chunk, chunked, seen, elsewhere>>
vars == <<part, lru, managed, signals, exits, timers, alarm, graphs, trees, proxies,
          streams, imports, iterations, heaps, services>>

Part == {"lru", "managed", "signals", "exits", "timers", "alarm", "graphs", "trees",
         "proxies", "streams", "imports", "iterations",
         "heaps", "services"}

\* The parts that are not picked start in one of their initial states.
Init ==
    /\ part \in Part
    /\ Caches!Init /\ Exits!Init /\ Alarm!Init /\ Graphs!Init /\ Trees!Init /\ Redirects!Init /\ Services!Init
    /\ Mirrors!Init /\ (part # "managed" => set = {})
    /\ Sends!Init /\ (part # "signals" => alike = {})
    /\ Ticks!Init /\ (part # "timers" => repeater)
    /\ Proxies!Init /\ (part # "proxies" => cached)
    /\ Loads!Init /\ (part # "imports" => path = <<>> /\ cwd = CHOOSE d \in Directory : TRUE)
    /\ Slices!Init /\ (part # "iterations" => call = CHOOSE x \in Slices!Call : TRUE)
    /\ Heaps!Init /\ (part # "heaps" => heap = <<>>)

LRUCacheStep ==
    /\ part = "lru" /\ Caches!Next
    /\ UNCHANGED <<part, managed, signals, exits, timers, alarm, graphs, trees,
                   proxies, streams, imports, iterations, heaps, services>>
ManagedStep ==
    /\ part = "managed" /\ Mirrors!Next
    /\ UNCHANGED <<part, lru, signals, exits, timers, alarm, graphs, trees,
                   proxies, streams, imports, iterations, heaps, services>>
SignalStep ==
    /\ part = "signals" /\ Sends!Next
    /\ UNCHANGED <<part, lru, managed, exits, timers, alarm, graphs, trees,
                   proxies, streams, imports, iterations, heaps, services>>
ExitStackStep ==
    /\ part = "exits" /\ Exits!Next
    /\ UNCHANGED <<part, lru, managed, signals, timers, alarm, graphs, trees,
                   proxies, streams, imports, iterations, heaps, services>>
TimerStep ==
    /\ part = "timers" /\ Ticks!Next
    /\ UNCHANGED <<part, lru, managed, signals, exits, alarm, graphs, trees,
                   proxies, streams, imports, iterations, heaps, services>>
DetectorStep ==
    /\ part = "alarm" /\ Alarm!Next
    /\ UNCHANGED <<part, lru, managed, signals, exits, timers, graphs, trees,
                   proxies, streams, imports, iterations, heaps, services>>
GraphStep ==
    /\ part = "graphs" /\ Graphs!Next
    /\ UNCHANGED <<part, lru, managed, signals, exits, timers, alarm, trees,
                   proxies, streams, imports, iterations, heaps, services>>
NodeStep ==
    /\ part = "trees" /\ Trees!Next
    /\ UNCHANGED <<part, lru, managed, signals, exits, timers, alarm, graphs,
                   proxies, streams, imports, iterations, heaps, services>>
ProxyStep ==
    /\ part = "proxies" /\ Proxies!Next
    /\ UNCHANGED <<part, lru, managed, signals, exits, timers, alarm, graphs,
                   trees, streams, imports, iterations, heaps, services>>
StreamStep ==
    /\ part = "streams" /\ Redirects!Next
    /\ UNCHANGED <<part, lru, managed, signals, exits, timers, alarm, graphs,
                   trees, proxies, imports, iterations, heaps, services>>
ImportStep ==
    /\ part = "imports" /\ Loads!Next
    /\ UNCHANGED <<part, lru, managed, signals, exits, timers, alarm, graphs,
                   trees, proxies, streams, iterations, heaps, services>>
IterationStep ==
    /\ part = "iterations" /\ Slices!Next
    /\ UNCHANGED <<part, lru, managed, signals, exits, timers, alarm, graphs,
                   trees, proxies, streams, imports, heaps, services>>
HeapStep ==
    /\ part = "heaps" /\ Heaps!Next
    /\ UNCHANGED <<part, lru, managed, signals, exits, timers, alarm, graphs,
                   trees, proxies, streams, imports, iterations, services>>
ServiceProxyStep ==
    /\ part = "services" /\ Services!Next
    /\ UNCHANGED <<part, lru, managed, signals, exits, timers, alarm, graphs,
                   trees, proxies, streams, imports, iterations, heaps>>

Next ==
    \/ LRUCacheStep \/ ManagedStep \/ SignalStep \/ ExitStackStep
    \/ TimerStep \/ DetectorStep \/ GraphStep \/ NodeStep
    \/ ProxyStep \/ StreamStep \/ ImportStep \/ IterationStep
    \/ HeapStep \/ ServiceProxyStep

Spec == Init /\ [][Next]_vars

-----------------------------------------------------------------------------
\* The variables of every part have their types.
TypeOK ==
    /\ part \in Part
    /\ Caches!TypeOK /\ Mirrors!TypeOK /\ Sends!TypeOK /\ Exits!TypeOK /\ Ticks!TypeOK /\ Alarm!TypeOK
    /\ Graphs!TypeOK /\ Trees!TypeOK /\ Proxies!TypeOK /\ Redirects!TypeOK /\ Loads!TypeOK /\ Slices!TypeOK
    /\ Heaps!TypeOK /\ Services!TypeOK

\* An LRU cache keeps to its limit, evicts no key before one that was last
\* inserted or read earlier, and breaks only by a deletion of another thread; a
\* heap gives the smallest until it is used as a sequence.
CollectionsRight == Caches!CacheRight /\ Heaps!HeapRight

\* The callbacks of the managed collections tell all that changes, but for what
\* raw_update(), remove() of a set or a raising callback leaves out.
ObserverKnows == Mirrors!ObserverKnows

\* A signal calls whom it was connected to when it was sent, once each.
Delivered == Sends!Delivered

\* An exit stack is left like nested `with` statements.
LikeNested == Exits!LikeNested

\* Timers are not early and take the drift back; the blocking detector raises in
\* what has run for its timeout, each timeout again, and never in an idle loop.
TimersRight == Ticks!TimerRight /\ Alarm!DetectorRight

\* The topological sort gives the vertices that hang on no cycle in order, and
\* the links of a tree of nodes hold together.
GraphsRight == Graphs!KhanRight /\ Trees!TreeRight

\* A proxy that caches makes its object once, after its finalizers, and a proxy to
\* a service stops the one it has started; slices and
\* chunks of an iterator lose nothing and read no further than they must.
LazyRight == Proxies!ProxyRight /\ Services!ServiceProxyRight /\ Slices!IterationRight

\* The blocks that change sys.stdout, sys.stderr and sys.path for the whole
\* process leave nothing of theirs behind, and a mapping of names loads once.
GlobalsRight == Redirects!StreamsRight /\ Loads!ImportsRight
=============================================================================
