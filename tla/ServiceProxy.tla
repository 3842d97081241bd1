---------------------------- MODULE ServiceProxy ----------------------------
(***************************************************************************)
(* ServiceProxy (mode/proxy.py) over a cached_property (mode/utils/        *)
(* objects.py): the service is made when it is first needed, and every     *)
(* method looks it up again.  Several threads may hold the proxy.          *)
(***************************************************************************)
EXTENDS Integers, FiniteSets

CONSTANTS
    Thread,
    MaxServices  \* bound: services made or assigned

VARIABLES
    stored,      \* the service in obj.__dict__, 0 for none
    created,     \* services made or assigned so far
    pc,          \* [Thread -> "idle", "get" or "call"]
    method,      \* [Thread -> Method]
    value,       \* [Thread -> the service the method was looked up on, or 0]
    running,     \* services that were started and not stopped
    overlapped,  \* history: the property was missed or assigned while a getter ran
    replaced,    \* history: the service was assigned or deleted
    astray       \* history: a method went to a service that is not the stored one

vars == <<stored, created, pc, method, value, running, overlapped, replaced, astray>>

Service == 1..MaxServices
Method == {"start", "stop", "other"}

TypeOK ==
    /\ stored \in Service \cup {0} /\ created \in Service \cup {0}
    /\ pc \in [Thread -> {"idle", "get", "call"}]
    /\ method \in [Thread -> Method] /\ value \in [Thread -> Service \cup {0}]
    /\ running \subseteq Service
    /\ {overlapped, replaced, astray} \subseteq BOOLEAN

Init ==
    /\ stored = 0 /\ created = 0
    /\ pc = [t \in Thread |-> "idle"] /\ method = [t \in Thread |-> "other"]
    /\ value = [t \in Thread |-> 0] /\ running = {}
    /\ overlapped = FALSE /\ replaced = FALSE /\ astray = FALSE

GetterRuns == \E t \in Thread : pc[t] = "get"
Goto(t, l, obj) == pc' = [pc EXCEPT ![t] = l] /\ value' = [value EXCEPT ![t] = obj]

\* self._service: from __dict__, or from the getter.
Lookup(t, m) ==
    /\ pc[t] = "idle"
    /\ method' = [method EXCEPT ![t] = m]
    /\ IF stored # 0 THEN Goto(t, "call", stored) /\ UNCHANGED overlapped
                     ELSE Goto(t, "get", 0) /\ overlapped' = (overlapped \/ GetterRuns)
    /\ UNCHANGED <<stored, created, running, replaced, astray>>
\* Mutant: the value is not kept.
GetterReturnsUnkept(t) ==
    /\ pc[t] = "get" /\ created < MaxServices
    /\ created' = created + 1
    /\ Goto(t, "call", created + 1)
    /\ UNCHANGED <<stored, method, running, overlapped, replaced, astray>>
\* The value replaces whatever was stored meanwhile.
GetterReturns(t) ==
    /\ pc[t] = "get" /\ created < MaxServices
    /\ created' = created + 1 /\ stored' = created + 1
    /\ Goto(t, "call", created + 1)
    /\ UNCHANGED <<method, running, overlapped, replaced, astray>>
GetterRaises(t) ==
    /\ pc[t] = "get"
    /\ Goto(t, "idle", 0)
    /\ UNCHANGED <<stored, created, method, running, overlapped, replaced, astray>>

\* The method of the service itself.
Forward(t) ==
    /\ pc[t] = "call"
    /\ running' = CASE method[t] = "start" -> running \cup {value[t]}
                    [] method[t] = "stop" -> running \ {value[t]}
                    [] OTHER -> running
    /\ astray' = (astray \/ value[t] # stored)
    /\ Goto(t, "idle", 0)
    /\ UNCHANGED <<stored, created, method, overlapped, replaced>>

Assign ==
    /\ created < MaxServices
    /\ created' = created + 1 /\ stored' = created + 1
    /\ replaced' = TRUE /\ overlapped' = (overlapped \/ GetterRuns)
    /\ UNCHANGED <<pc, method, value, running, astray>>
\* __delete__ takes the value out before the deleter of the user sees it.
Delete ==
    /\ stored # 0
    /\ stored' = 0 /\ replaced' = TRUE
    /\ UNCHANGED <<created, pc, method, value, running, overlapped, astray>>

Next ==
    \/ \E t \in Thread : \/ \E m \in Method : Lookup(t, m)
                         \/ GetterReturns(t) \/ GetterRaises(t) \/ Forward(t)
    \/ Assign \/ Delete

Spec == Init /\ [][Next]_vars

-----------------------------------------------------------------------------
\* Unless two getters overlap, or somebody replaces the service, there is one
\* service, and what was started through the proxy is what it stops.  A getter
\* that ends later replaces the service of another, which runs on unreachable.
ServiceProxyRight ==
    /\ ~overlapped /\ ~replaced => created <= 1 /\ running \subseteq {stored} /\ ~astray
    /\ ~overlapped /\ GetterRuns => stored = 0
    /\ ~replaced /\ stored # 0 => stored = created
=============================================================================
