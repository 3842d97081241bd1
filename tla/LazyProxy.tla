----------------------------- MODULE LazyProxy -----------------------------
(***************************************************************************)
(* Proxy and its roles (mode/locals.py): an object that is made when it is *)
(* first needed.  Finalizers run before it is made; they and the factory   *)
(* are code of the user, may raise, and may need the object themselves.    *)
(* A role passes the methods of an interface to the object, and asks for   *)
(* it each time.                                                           *)
(***************************************************************************)
EXTENDS Integers, Sequences, FiniteSets, SequencesExt

CONSTANTS
    Finalizer,
    MaxObjects, MaxDepth  \* bounds: objects made, evaluations in one another

VARIABLES
    cached,
    has_local,   \* __local, __args and __kwargs are there
    cache,       \* the object in __cache, 0 for none
    created,     \* objects made so far
    finalizers,  \* those that wait
    frames,      \* evaluations in progress, the innermost last
    entered,     \* the object whose context, generator or coroutine is under way, or 0
    name,        \* the object an in-place operator has left under the proxy's name, or 0
    written,     \* history: the object changed last, 0 for none
    given,       \* history: objects handed out
    before,      \* history: finalizers added before the first evaluation
    settled,     \* history: finalizers that have begun
    reentered,   \* history: finalizer or factory have needed the object
    broken,      \* history: AttributeError
    swapped,     \* history: one object was begun, another one gone on with
    missed       \* history: a read of another object than the one that was changed

vars == <<cached, has_local, cache, created, finalizers, frames, entered, name, written,
          given, before, settled, reentered, broken, swapped, missed>>
attributes == <<cached, has_local, cache, created, finalizers>>
uses == <<entered, name, written, given, swapped, missed>>

\* What the methods of a role do with the object.  "take": hand out its awaitable,
\* iterator or view; "send": take a step in it; "exit": end what was begun;
\* "update": an in-place operator, which gives the object to the caller.
AwaitableRole == {"take"}
CoroutineRole == {"take", "send", "exit"}
AsyncIterableRole == {"take"}
AsyncIteratorRole == {"take", "send"}
AsyncGeneratorRole == {"take", "send", "exit"}
SequenceRole == {"read", "take"}
MutableSequenceRole == SequenceRole \cup {"write", "update"}
SetRole == {"read", "take"}
MutableSetRole == SetRole \cup {"write", "update"}
ContextManagerRole == {"enter", "exit"}
AsyncContextManagerRole == {"enter", "exit"}
MappingRole == {"read", "take"}
MutableMappingRole == MappingRole \cup {"write"}
CallableRole == {"read"}
\* A proxy may have several roles.
Role == UNION {AwaitableRole, CoroutineRole, AsyncIterableRole, AsyncIteratorRole,
               AsyncGeneratorRole, MutableSequenceRole, MutableSetRole,
               ContextManagerRole, AsyncContextManagerRole, MutableMappingRole, CallableRole}
PC == {"finalizers", "finalizer", "factory"}

TypeOK ==
    /\ {cached, has_local, reentered, broken, swapped, missed} \subseteq BOOLEAN
    /\ {cache, created, entered, name, written} \subseteq 0..MaxObjects
    /\ finalizers \in Seq(Finalizer) /\ frames \in Seq(PC \X Role)
    /\ given \subseteq 1..MaxObjects
    /\ before \subseteq Finalizer /\ settled \subseteq Finalizer

Init ==
    /\ cached \in BOOLEAN /\ has_local = TRUE
    /\ cache = 0 /\ created = 0 /\ finalizers = <<>> /\ frames = <<>>
    /\ entered = 0 /\ name = 0 /\ written = 0
    /\ given = {} /\ before = {} /\ settled = {}
    /\ reentered = FALSE /\ broken = FALSE /\ swapped = FALSE /\ missed = FALSE

At(pc) == frames # <<>> /\ Last(frames)[1] = pc
UserRuns == frames = <<>> \/ At("finalizer") \/ At("factory")
Goto(pc) == frames' = [frames EXCEPT ![Len(frames)] = <<pc, @[2]>>]
Return == frames' = Front(frames)

Begun(role) ==
    /\ role = "enter" => entered = 0
    /\ role = "exit" => entered # 0

\* What the method does with the object it was given.
Give(obj, role) ==
    /\ given' = given \cup {obj}
    /\ entered' = CASE role = "enter" \/ (role = "send" /\ entered = 0) -> obj
                    [] role = "exit" -> 0
                    [] OTHER -> entered
    /\ swapped' = (swapped \/ (role \in {"send", "exit"} /\ entered \notin {0, obj}))
    /\ written' = IF role \in {"write", "update"} THEN obj ELSE written
    /\ name' = IF role = "update" THEN obj ELSE name
    /\ missed' = (missed \/ (role \in {"read", "take"} /\ written \notin {0, obj}))

AddFinalizer(f) ==
    /\ UserRuns /\ f \notin settled \cup ToSet(finalizers)
    /\ finalizers' = Append(finalizers, f)
    /\ before' = IF frames = <<>> /\ given = {} THEN before \cup {f} ELSE before
    /\ UNCHANGED <<cached, has_local, cache, created, frames, uses, settled, reentered,
                   broken>>

\* _get_current_object: from the cache, or by an evaluation.
Access(role) ==
    /\ UserRuns /\ Begun(role)
    /\ IF cache # 0
         THEN Give(cache, role) /\ UNCHANGED <<frames, reentered>>
         ELSE /\ Len(frames) < MaxDepth
              /\ frames' = Append(frames, <<"finalizers", role>>)
              /\ reentered' = (reentered \/ frames # <<>>)
              /\ UNCHANGED uses
    /\ UNCHANGED <<attributes, before, settled, broken>>

\* After an in-place operator the name is that of the object.
Direct(role) ==
    /\ UserRuns /\ Begun(role) /\ name # 0
    /\ Give(name, role)
    /\ UNCHANGED <<attributes, frames, before, settled, reentered, broken>>

\* A finalizer is taken from the queue before it runs: if it raises the rest
\* waits for the next evaluation, and it is gone.
RunFinalizer ==
    /\ At("finalizers") /\ finalizers # <<>>
    /\ finalizers' = Tail(finalizers)
    /\ settled' = settled \cup {Head(finalizers)}
    /\ Goto("finalizer")
    /\ UNCHANGED <<cached, has_local, cache, created, uses, before, reentered, broken>>
UserReturns ==
    /\ At("finalizer")
    /\ Goto("finalizers")
    /\ UNCHANGED <<attributes, uses, before, settled, reentered, broken>>
UserRaises ==
    /\ At("finalizer") \/ At("factory")
    /\ Return
    /\ UNCHANGED <<attributes, uses, before, settled, reentered, broken>>

\* _evaluate_proxy reads __local only now.
CallFactory ==
    /\ At("finalizers") /\ finalizers = <<>>
    /\ IF has_local THEN Goto("factory") /\ UNCHANGED broken
                    ELSE Return /\ broken' = TRUE
    /\ UNCHANGED <<attributes, uses, before, settled, reentered>>

\* Mutant: the object is handed out but not kept.
FactoryReturnsUnkept ==
    /\ At("factory") /\ created < MaxObjects
    /\ created' = created + 1
    /\ Give(created + 1, Last(frames)[2])
    /\ Return
    /\ UNCHANGED <<cached, has_local, cache, finalizers, before, settled, reentered, broken>>

\* A proxy that caches stores the object, whatever is in the cache by now.
FactoryReturns ==
    /\ At("factory") /\ created < MaxObjects
    /\ created' = created + 1
    /\ cache' = IF cached THEN created + 1 ELSE cache
    /\ has_local' = (has_local /\ ~cached)
    /\ Give(created + 1, Last(frames)[2])
    /\ Return
    /\ UNCHANGED <<cached, finalizers, before, settled, reentered, broken>>

Next ==
    \/ \E f \in Finalizer : AddFinalizer(f)
    \/ \E r \in Role : Access(r) \/ Direct(r)
    \/ RunFinalizer \/ UserReturns \/ UserRaises \/ CallFactory \/ FactoryReturns

Spec == Init /\ [][Next]_vars

-----------------------------------------------------------------------------
\* Unless the finalizers or the factory need the object themselves: a proxy
\* that caches hands out one object, goes on with the one it began with, reads what
\* was written, also under a name that an in-place operator has taken from the
\* proxy, and never misses its factory; and nobody is given an object before the
\* finalizers that were added first have run, or raised.  If they do, only a
\* proxy that caches can miss its factory, and only once a finalizer has run.
ProxyRight ==
    /\ ~reentered =>
         /\ ~broken
         /\ cached => created <= 1 /\ given \subseteq {cache} /\ ~swapped /\ ~missed
         /\ given # {} => before \subseteq settled
    /\ broken => cached /\ settled # {}
=============================================================================
