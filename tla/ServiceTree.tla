---------------------------- MODULE ServiceTree ----------------------------
(***************************************************************************)
(* The life cycle of a tree of services (mode/services.py): start, stop    *)
(* and crash, with child services, background futures and exit stacks.     *)
(*                                                                         *)
(* All services run in one asyncio event loop.  The code between two real  *)
(* suspension points is one atomic step here; every user hook (on_start,   *)
(* on_stop, ...) may suspend, so it begins in one step and returns, or     *)
(* raises, in a later one.  A service that is never reset runs at most one *)
(* start() body (guard _started) and at most one stop() body (guard        *)
(* _stopped), so a program counter per service and body is enough.         *)
(* Restarts are the subject of another module.                             *)
(***************************************************************************)
EXTENDS Integers, Sequences, FiniteSets

CONSTANTS
    Service,      \* the services of the program
    PostInit,     \* [Service -> Seq(Service)]: added by __post_init__
    OnInit,       \* [Service -> Seq(Service)]: returned by on_init_dependencies
    Dynamic,      \* [Service -> SUBSET Service]: added while the program runs
    Future,       \* names of background futures
    Owner,        \* [Future -> Service]: the service whose _futures may hold it
    TaskFuture,   \* SUBSET Future: made from @Service.task methods by start()
    WaitForShutdown, \* services with wait_for_shutdown = True
    Supervised,   \* services with a supervisor
    Cancellable,  \* services whose stop() may be awaited by a task that is cancelled
    Exposed,      \* services whose stop() and crash() are called from outside
    Raising,      \* services whose hooks may raise
    Entering,     \* services whose on_start enters contexts
    Orderly,      \* TRUE: the calls that add or remove children, futures and
                  \* contexts are made only on a service that is not stopping,
                  \* and children removed only when start() is over
    User,         \* any caller that is not a service of the tree
    None

Distinct(q) == \A i, j \in DOMAIN q : q[i] = q[j] => i = j
Elems(q) == {q[i] : i \in DOMAIN q}

\* The children a service may ever get.
Declared(s) == Elems(PostInit[s]) \cup Elems(OnInit[s]) \cup Dynamic[s]

ASSUME ConstantTypes ==
    /\ PostInit \in [Service -> Seq(Service)]
    /\ OnInit \in [Service -> Seq(Service)]
    /\ Dynamic \in [Service -> SUBSET Service]
    /\ Owner \in [Future -> Service]
    /\ TaskFuture \subseteq Future
    /\ WaitForShutdown \subseteq Service
    /\ Supervised \subseteq Service
    /\ Cancellable \subseteq Service
    /\ Exposed \subseteq Service
    /\ Raising \subseteq Service
    /\ Entering \subseteq Service
    /\ Orderly \in BOOLEAN
    /\ User \notin Service
    /\ None \notin Service
    /\ User # None

\* A service is given to one parent, once, in one of the three ways.
ASSUME OneParent ==
    /\ \A s \in Service :
         /\ Distinct(PostInit[s]) /\ Distinct(OnInit[s])
         /\ Elems(PostInit[s]) \cap Elems(OnInit[s]) = {}
         /\ Elems(PostInit[s]) \cap Dynamic[s] = {}
         /\ Elems(OnInit[s]) \cap Dynamic[s] = {}
    /\ \A s, t \in Service : s # t => Declared(s) \cap Declared(t) = {}

VARIABLES
    started, stopped, shutdown, crashed,  \* services whose event is set
    children,   \* _children of each service
    startpc,    \* where the body of start() is
    startidx,   \* position of `for child in self._children` in start()
    startkid,   \* the child whose start() that loop awaits
    stoppc,     \* where the body of stop() is
    stopidx,    \* position of `for child in reversed(self._children)`
    stopkid,    \* the child that loop is stopping
    stopper,    \* who called the stop() that runs the body
    stoptask,   \* children whose shielded stop() task was made, not yet run
    futures,    \* futures in their owner's _futures set
    running,    \* futures whose task has not ended
    cancelled,  \* futures that were cancelled
    awaited,    \* futures asyncio.wait waits for in _gather_futures
    context,    \* services with a context entered in an exit stack
    removing,   \* children that a remove_dependency is stopping
    interrupted,\* services whose stop() swallowed a cancellation
    shortened,  \* history: how many children were taken from each service during
                \* the child loop of its stop()
    overtaken   \* history: services whose exit stacks were closed while a context
                \* was being entered

flags == <<started, stopped, shutdown, crashed>>
startvars == <<startpc, startidx, startkid>>
loopvars == <<stopidx, stopkid, stopper, stoptask, interrupted>>
stopvars == <<stoppc, loopvars>>
futurevars == <<futures, running, cancelled, awaited>>
callvars == <<context, overtaken, removing, shortened>>
vars == <<flags, children, startvars, stopvars, futurevars, callvars>>

StartPC == {"idle", "on_first_start", "on_start", "enter_context", "child", "on_started",
            "unwind", "returned", "raised"}
StopPC == {"idle", "on_stop", "stop_child", "wait_shutdown", "drain",
           "gather_start", "gather", "exit_stacks", "on_shutdown",
           "returned", "raised"}

TypeOK ==
    /\ started \subseteq Service
    /\ stopped \subseteq Service
    /\ shutdown \subseteq Service
    /\ crashed \subseteq Service
    /\ children \in [Service -> Seq(Service)]
    /\ startpc \in [Service -> StartPC]
    /\ startidx \in [Service -> Nat]
    /\ startkid \in [Service -> Service \cup {None}]
    /\ stoppc \in [Service -> StopPC]
    /\ stopidx \in [Service -> Nat]
    /\ stopkid \in [Service -> Service \cup {None}]
    /\ stopper \in [Service -> Service \cup {User, None}]
    /\ stoptask \subseteq Service
    /\ futures \subseteq Future
    /\ running \subseteq Future
    /\ cancelled \subseteq Future
    /\ awaited \subseteq Future
    /\ context \subseteq Service
    /\ removing \subseteq Service
    /\ interrupted \subseteq Service
    /\ shortened \in [Service -> Nat]
    /\ overtaken \subseteq Service

Init ==
    /\ started = {} /\ stopped = {} /\ shutdown = {} /\ crashed = {}
    /\ children = PostInit
    /\ startpc = [s \in Service |-> "idle"]
    /\ startidx = [s \in Service |-> 0]
    /\ startkid = [s \in Service |-> None]
    /\ stoppc = [s \in Service |-> "idle"]
    /\ stopidx = [s \in Service |-> 0]
    /\ stopkid = [s \in Service |-> None]
    /\ stopper = [s \in Service |-> None]
    /\ stoptask = {}
    /\ futures = {} /\ running = {} /\ cancelled = {} /\ awaited = {}
    /\ context = {} /\ overtaken = {}
    /\ removing = {} /\ shortened = [s \in Service |-> 0]
    /\ interrupted = {}

-----------------------------------------------------------------------------
(* The tree.                                                               *)

Kids(s) == Elems(children[s])
Owned(s) == {f \in Future : Owner[f] = s}
\* Mutant: should_stop looks at _crashed only.
ShouldStopIfCrashed(s) == s \in crashed
ShouldStop(s) == s \in stopped \cup crashed

\* S and everything reached from S through _children.
Below(S) ==
    {x \in Service : \A T \in SUBSET Service :
        (S \subseteq T /\ \A t \in T : Kids(t) \subseteq T) => x \in T}

\* s and the nodes beacon.walk() yields up to the root.
Above(s) == {x \in Service : s \in Below({x})}

\* Mutants: only the service and its own children are marked; a crash stays below
\* the service whether or not it has a supervisor.
CrashScopeNear(s) == IF s \in Supervised THEN {s} \cup Kids(s) ELSE {s} \cup Kids(s) \cup Above(s)
CrashScopeDown(s) == Below({s})

\* The services crash() marks: _crash() goes down; without a supervisor the
\* walk up the beacon first adds every ancestor.
CrashScope(s) == IF s \in Supervised THEN Below({s}) ELSE Below(Above(s))

Crash(s) ==
    crashed' = IF s \in crashed THEN crashed ELSE crashed \cup CrashScope(s)

-----------------------------------------------------------------------------
(* start()                                                                 *)

\* _default_start of s up to the first hook; `pc` is the start program counter
\* with what the caller's own step changes in it.
BeginStart(s, pc) ==
    /\ started' = started \cup {s}
    /\ children' = [children EXCEPT ![s] = @ \o OnInit[s]]
    /\ startpc' = [pc EXCEPT ![s] = "on_first_start"]

\* The child loop of _actually_start from position i on: children that were
\* already started are passed over in the same step.
StartChildren(s, i) ==
    LET todo == {j \in i .. Len(children[s]) : children[s][j] \notin started}
    IN  \/ /\ todo = {}
           /\ startpc' = [startpc EXCEPT ![s] = "on_started"]
           /\ startkid' = [startkid EXCEPT ![s] = None]
           /\ UNCHANGED <<started, children, startidx>>
        \/ \E j \in todo :
             /\ \A m \in todo : j <= m
             /\ startidx' = [startidx EXCEPT ![s] = j]
             /\ startkid' = [startkid EXCEPT ![s] = children[s][j]]
             /\ BeginStart(children[s][j], [startpc EXCEPT ![s] = "child"])

\* start() of a service that no other service starts.
StartCaller(s) ==
    /\ s \notin started
    /\ \A t \in Service : s \notin Declared(t)
    /\ BeginStart(s, startpc)
    /\ UNCHANGED <<stopped, shutdown, crashed, startidx, startkid, stopvars,
                   futurevars, callvars>>

FirstStartDone(s) ==
    /\ startpc[s] = "on_first_start"
    /\ startpc' = [startpc EXCEPT
         ![s] = IF ShouldStop(s) THEN "returned" ELSE "on_start"]
    /\ UNCHANGED <<flags, children, startidx, startkid, stopvars, futurevars,
                   callvars>>

\* on_start returned: leave if told to stop, else make the tasks and start the
\* first child.  The break leaves the exit stacks open.
StartDone(s) ==
    /\ startpc[s] = "on_start"
    /\ \/ /\ ShouldStop(s)
          /\ startpc' = [startpc EXCEPT ![s] = "returned"]
          /\ UNCHANGED <<started, children, startidx, startkid, futures, running>>
       \/ /\ ~ShouldStop(s)
          /\ futures' = futures \cup (TaskFuture \cap Owned(s))
          /\ running' = running \cup (TaskFuture \cap Owned(s))
          /\ StartChildren(s, 1)
    /\ UNCHANGED <<stopped, shutdown, crashed, stopvars, cancelled, awaited,
                   callvars>>

\* Mutant: the child loop has no break.
ChildStartedNoBreak(s) ==
    /\ startpc[s] = "child"
    /\ startpc[startkid[s]] = "returned"
    /\ StartChildren(s, startidx[s] + 1)
    /\ UNCHANGED <<stopped, shutdown, crashed, stopvars, futurevars, callvars>>

\* The child's start() returned.  The break leaves the child loop only: told to
\* stop, the service still calls on_started.
ChildStarted(s) ==
    /\ startpc[s] = "child"
    /\ startpc[startkid[s]] = "returned"
    /\ \/ /\ ShouldStop(s)
          /\ startpc' = [startpc EXCEPT ![s] = "on_started"]
          /\ startkid' = [startkid EXCEPT ![s] = None]
          /\ UNCHANGED <<started, children, startidx>>
       \/ /\ ~ShouldStop(s)
          /\ StartChildren(s, startidx[s] + 1)
    /\ UNCHANGED <<stopped, shutdown, crashed, stopvars, futurevars, callvars>>

StartedDone(s) ==
    /\ startpc[s] = "on_started"
    /\ startpc' = [startpc EXCEPT ![s] = "returned"]
    /\ UNCHANGED <<flags, children, startidx, startkid, stopvars, futurevars,
                   callvars>>

\* A hook, or a child's start(), raises (or is cancelled).  on_first_start is
\* outside the try block that closes the exit stacks.
StartRaises(s) ==
    /\ \/ s \in Raising
          /\ startpc[s] \in {"on_first_start", "on_start", "enter_context", "on_started"}
       \/ startpc[s] = "child" /\ startpc[startkid[s]] = "raised"
    /\ startpc' = [startpc EXCEPT
         ![s] = IF startpc[s] = "on_first_start" THEN "raised" ELSE "unwind"]
    /\ startkid' = [startkid EXCEPT ![s] = None]
    /\ UNCHANGED <<flags, children, startidx, stopvars, futurevars, callvars>>

\* The exit stacks are closed and the exception goes on to the caller; an exit
\* callback of the first stack that raises keeps the second one open.
StartUnwound(s) ==
    /\ startpc[s] = "unwind"
    /\ startpc' = [startpc EXCEPT ![s] = "raised"]
    /\ context' \in {context, context \ {s}}
    /\ UNCHANGED <<flags, children, startidx, startkid, stopvars, futurevars,
                   overtaken, removing, shortened>>

-----------------------------------------------------------------------------
(* stop()                                                                  *)

Ended(pc) == pc \in {"returned", "raised"}

\* Mutant: a state stop() does not have.
StopFuturesLost(s) ==
    stoppc' = [stoppc EXCEPT
        ![s] = IF futures \cap Owned(s) = {} THEN "exit_stacks" ELSE "cancel"]

\* _default_stop_futures: nothing is awaited when there are no futures.
StopFutures(s) ==
    stoppc' = [stoppc EXCEPT
        ![s] = IF futures \cap Owned(s) = {} THEN "exit_stacks" ELSE "drain"]

\* The reversed child loop at position i: make the shielded stop() task of that
\* child.  A position outside the list, which may have shrunk, ends the loop.
StopChildren(s, i) ==
    \/ /\ i \in 1 .. Len(children[s])
       /\ stoppc' = [stoppc EXCEPT ![s] = "stop_child"]
       /\ stopidx' = [stopidx EXCEPT ![s] = i]
       /\ stopkid' = [stopkid EXCEPT ![s] = children[s][i]]
       /\ stoptask' = stoptask \cup {children[s][i]}
    \/ /\ i \notin 1 .. Len(children[s])
       /\ stopkid' = [stopkid EXCEPT ![s] = None]
       /\ IF s \in WaitForShutdown
          THEN stoppc' = [stoppc EXCEPT ![s] = "wait_shutdown"]
          ELSE StopFutures(s)
       /\ UNCHANGED <<stopidx, stoptask>>

BeginStop(s, by) ==
    /\ s \notin stopped
    /\ stopped' = stopped \cup {s}
    /\ stoppc' = [stoppc EXCEPT ![s] = "on_stop"]
    /\ stopper' = [stopper EXCEPT ![s] = by]

\* stop() called from outside; once _stopped is set it returns at once.
StopCaller(s) ==
    /\ s \in Exposed
    /\ BeginStop(s, User)
    /\ UNCHANGED <<started, shutdown, crashed, children, startvars, stopidx,
                   stopkid, stoptask, interrupted, futurevars, callvars>>

\* Mutant: the loop leaves out the last child.
OnStopDoneButLast(s) ==
    /\ stoppc[s] = "on_stop"
    /\ StopChildren(s, Len(children[s]) - 1)
    /\ UNCHANGED <<flags, children, startvars, stopper, interrupted, futurevars,
                   callvars>>
OnStopDone(s) ==
    /\ stoppc[s] = "on_stop"
    /\ StopChildren(s, Len(children[s]))
    /\ UNCHANGED <<flags, children, startvars, stopper, interrupted, futurevars,
                   callvars>>

\* The task made by asyncio.shield(child.stop()) runs.
RunStopTask(k) ==
    /\ k \in stoptask
    /\ stoptask' = stoptask \ {k}
    /\ \/ /\ k \in stopped
          /\ UNCHANGED <<stopped, stoppc, stopper>>
       \/ \E s \in Service : k \in Declared(s) /\ BeginStop(k, s)
    /\ UNCHANGED <<started, shutdown, crashed, children, startvars, stopidx,
                   stopkid, interrupted, futurevars, callvars>>

\* Mutant: the stop() task is made but not awaited.
ChildStoppedNotAwaited(s) ==
    /\ stoppc[s] = "stop_child"
    /\ StopChildren(s, stopidx[s] - 1)
    /\ UNCHANGED <<flags, children, startvars, stopper, interrupted, futurevars,
                   callvars>>

\* The child's stop() is over: returned, raised (logged), or another caller's.
ChildStopped(s) ==
    LET k == stopkid[s] IN
    /\ stoppc[s] = "stop_child"
    /\ k \notin stoptask
    /\ stopper[k] = s => Ended(stoppc[k])
    /\ StopChildren(s, stopidx[s] - 1)
    /\ UNCHANGED <<flags, children, startvars, stopper, interrupted, futurevars,
                   callvars>>

ShutdownReceived(s) ==
    /\ stoppc[s] = "wait_shutdown"
    /\ s \in shutdown
    /\ StopFutures(s)
    /\ UNCHANGED <<flags, children, startvars, loopvars, futurevars, callvars>>

\* Mutant: the futures are gathered but not cancelled.
CancelFuturesNot(s) ==
    /\ stoppc[s] = "drain"
    /\ stoppc' = [stoppc EXCEPT ![s] = "gather_start"]
    /\ UNCHANGED <<flags, children, startvars, loopvars, futurevars, callvars>>

\* asyncio.wait(timeout=0) is over: cancel what is left and gather it.
CancelFutures(s) ==
    LET left == futures \cap Owned(s) IN
    /\ stoppc[s] = "drain"
    /\ cancelled' = cancelled \cup left
    /\ stoppc' = [stoppc EXCEPT
         ![s] = IF left = {} THEN "exit_stacks" ELSE "gather_start"]
    /\ UNCHANGED <<flags, children, startvars, loopvars, futures, running, awaited, callvars>>

\* The shielded _wait_for_futures runs: it waits for the futures it finds now.
GatherFutures(s) ==
    /\ stoppc[s] = "gather_start"
    /\ awaited' = awaited \cup (futures \cap Owned(s))
    /\ stoppc' = [stoppc EXCEPT ![s] = "gather"]
    /\ UNCHANGED <<flags, children, startvars, loopvars, futures, running, cancelled, callvars>>

\* Everything awaited has ended; the set is cleared whatever it holds.
FuturesGathered(s) ==
    /\ stoppc[s] = "gather"
    /\ awaited \cap Owned(s) \cap running = {}
    /\ futures' = futures \ Owned(s)
    /\ stoppc' = [stoppc EXCEPT ![s] = "exit_stacks"]
    /\ UNCHANGED <<flags, children, startvars, loopvars, running, cancelled, awaited, callvars>>

\* What is pushed later stays: a context that is being entered now.
CloseStacks(s) ==
    /\ context' = context \ {s}
    /\ overtaken' = IF startpc[s] = "enter_context" THEN overtaken \cup {s} ELSE overtaken

ExitStacksClosed(s) ==
    /\ stoppc[s] = "exit_stacks"
    /\ CloseStacks(s)
    /\ stoppc' = [stoppc EXCEPT ![s] = "on_shutdown"]
    /\ UNCHANGED <<flags, children, startvars, loopvars, futurevars, removing, shortened>>

OnShutdownDone(s) ==
    /\ stoppc[s] = "on_shutdown"
    /\ stoppc' = [stoppc EXCEPT ![s] = "returned"]
    /\ UNCHANGED <<flags, children, startvars, loopvars, futurevars, callvars>>

\* A hook or an exit callback raises, or shutdown_timeout expires: nothing
\* catches it in stop().
StopRaises(s) ==
    /\ \/ s \in Raising /\ stoppc[s] \in {"on_stop", "exit_stacks", "on_shutdown"}
       \/ stoppc[s] = "wait_shutdown" /\ s \notin shutdown
    /\ stoppc' = [stoppc EXCEPT ![s] = "raised"]
    /\ \/ UNCHANGED <<context, overtaken>>
       \/ stoppc[s] = "exit_stacks" /\ CloseStacks(s)
    /\ UNCHANGED <<flags, children, startvars, loopvars, futurevars, removing, shortened>>

\* The task awaiting stop() is cancelled.  The child loop and the gathering
\* swallow the cancellation and go on without what they waited for.
StopCancelled(s) ==
    /\ s \in Cancellable
    /\ stopper[s] = User
    /\ \/ /\ stoppc[s] = "stop_child"
          /\ StopChildren(s, stopidx[s] - 1)
          /\ interrupted' = interrupted \cup {s}
          /\ UNCHANGED futures
       \/ /\ stoppc[s] \in {"gather_start", "gather"}
          /\ futures' = futures \ Owned(s)
          /\ stoppc' = [stoppc EXCEPT ![s] = "exit_stacks"]
          /\ interrupted' = interrupted \cup {s}
          /\ UNCHANGED <<stopidx, stopkid, stoptask>>
       \/ /\ stoppc[s] \in {"wait_shutdown", "drain"}
          /\ stoppc' = [stoppc EXCEPT ![s] = "raised"]
          /\ UNCHANGED <<stopidx, stopkid, stoptask, interrupted, futures>>
    /\ UNCHANGED <<flags, children, startvars, stopper, running, cancelled,
                   awaited, callvars>>
-----------------------------------------------------------------------------
(* Futures, crashes and the other calls a program makes.                   *)

\* The call is made on a service that is not told to stop, or callers do not
\* care.
InOrder(s) == Orderly => ~ShouldStop(s)

\* add_future on a service that has begun to start.
AddFuture(f) ==
    /\ Owner[f] \in started
    /\ f \notin TaskFuture \cup running \cup cancelled
    /\ InOrder(Owner[f])
    /\ futures' = futures \cup {f}
    /\ running' = running \cup {f}
    /\ UNCHANGED <<flags, children, startvars, stopvars, cancelled, awaited,
                   callvars>>

\* The task ends, by itself or because it was cancelled; _on_future_done.
FutureEnds(f) ==
    /\ f \in running
    /\ running' = running \ {f}
    /\ futures' = futures \ {f}
    /\ UNCHANGED <<flags, children, startvars, stopvars, cancelled, awaited,
                   callvars>>

\* The task raises: _execute_task crashes the service.
FutureRaises(f) ==
    /\ f \in running
    /\ Crash(Owner[f])
    /\ running' = running \ {f}
    /\ futures' = futures \ {f}
    /\ UNCHANGED <<started, stopped, shutdown, children, startvars, stopvars,
                   cancelled, awaited, callvars>>

CrashCaller(s) ==
    /\ s \in (Exposed \cap started) \ crashed
    /\ Crash(s)
    /\ UNCHANGED <<started, stopped, shutdown, children, startvars, stopvars,
                   futurevars, callvars>>

SetShutdown(s) ==
    /\ s \in WaitForShutdown \ shutdown
    /\ shutdown' = shutdown \cup {s}
    /\ UNCHANGED <<started, stopped, crashed, children, startvars, stopvars,
                   futurevars, callvars>>

\* add_context in on_start.
AddContext(s) ==
    /\ s \in Entering
    /\ startpc[s] = "on_start"
    /\ InOrder(s)
    /\ context' = context \cup {s}
    /\ UNCHANGED <<flags, children, startvars, stopvars, futurevars, overtaken, removing,
                   shortened>>

\* add_async_context in on_start: __aenter__ is awaited, and only then is the
\* context pushed, whatever has become of the service.
AddAsyncContext(s) ==
    /\ s \in Entering
    /\ startpc[s] = "on_start"
    /\ InOrder(s)
    /\ startpc' = [startpc EXCEPT ![s] = "enter_context"]
    /\ UNCHANGED <<flags, children, startidx, startkid, stopvars, futurevars, callvars>>
ContextEntered(s) ==
    /\ startpc[s] = "enter_context"
    /\ startpc' = [startpc EXCEPT ![s] = "on_start"]
    /\ context' = context \cup {s}
    /\ UNCHANGED <<flags, children, startidx, startkid, stopvars, futurevars, overtaken,
                   removing, shortened>>

New(k) == /\ k \notin started \cup stopped \cup crashed
          /\ \A t \in Service : k \notin Kids(t)

\* add_dependency, called by the parent's on_start.
AddDependency(s, k) ==
    /\ startpc[s] = "on_start"
    /\ InOrder(s)
    /\ k \in Dynamic[s] /\ New(k)
    /\ children' = [children EXCEPT ![s] = Append(@, k)]
    /\ UNCHANGED <<flags, startvars, stopvars, futurevars, callvars>>

\* Mutant: a parent that has been started does not start the child.
AddRuntimeDependencyOnly(s, k) ==
    /\ InOrder(s)
    /\ k \in Dynamic[s] /\ New(k)
    /\ children' = [children EXCEPT ![s] = Append(@, k)]
    /\ UNCHANGED <<flags, startvars, stopvars, futurevars, callvars>>

\* add_runtime_dependency: also starts the child of a started parent.
AddRuntimeDependency(s, k) ==
    /\ InOrder(s)
    /\ k \in Dynamic[s] /\ New(k)
    /\ IF s \in started
       THEN /\ started' = started \cup {k}
            /\ children' = [[children EXCEPT ![s] = Append(@, k)]
                                     EXCEPT ![k] = @ \o OnInit[k]]
            /\ startpc' = [startpc EXCEPT ![k] = "on_first_start"]
       ELSE /\ children' = [children EXCEPT ![s] = Append(@, k)]
            /\ UNCHANGED <<started, startpc>>
    /\ UNCHANGED <<stopped, shutdown, crashed, startidx, startkid, stopvars,
                   futurevars, callvars>>

\* list.remove: q without its first k.
Without(q, k) ==
    LET i == CHOOSE j \in DOMAIN q : q[j] = k /\ \A m \in 1 .. j-1 : q[m] # k
    IN  [j \in 1 .. Len(q) - 1 |-> IF j < i THEN q[j] ELSE q[j + 1]]

\* _children.remove(), which raises if another call has been quicker.
TakeOut(s, k) ==
    /\ children' = [children EXCEPT ![s] = IF k \in Kids(s) THEN Without(@, k) ELSE @]
    /\ shortened' = [shortened EXCEPT
         ![s] = IF k \in Kids(s) /\ stoppc[s] = "stop_child" THEN @ + 1 ELSE @]

\* remove_dependency: stop the child and wait; a child that was stopped before
\* is taken out of _children at once.
RemoveDependency(s, k) ==
    /\ k \in Dynamic[s] \cap Kids(s)
    /\ Orderly => startpc[s] = "returned" /\ ~ShouldStop(s)
    /\ \/ /\ BeginStop(k, User)
          /\ removing' = removing \cup {k}
          /\ UNCHANGED <<children, shortened>>
       \/ /\ k \in stopped
          /\ TakeOut(s, k)
          /\ UNCHANGED <<stopped, stoppc, stopper, removing>>
    /\ UNCHANGED <<started, shutdown, crashed, startvars, stopidx, stopkid,
                   stoptask, interrupted, futurevars, context, overtaken>>

\* The stop() of a remove_dependency is over; if it raised the child stays.
DependencyRemoved(s, k) ==
    /\ k \in removing \cap Dynamic[s]
    /\ Ended(stoppc[k])
    /\ IF stoppc[k] = "raised" THEN UNCHANGED <<children, shortened>> ELSE TakeOut(s, k)
    /\ removing' = removing \ {k}
    /\ UNCHANGED <<flags, startvars, stopvars, futurevars, context, overtaken>>

-----------------------------------------------------------------------------

StartStep(s) ==
    \/ FirstStartDone(s) \/ StartDone(s) \/ ChildStarted(s) \/ StartedDone(s)
    \/ StartRaises(s) \/ StartUnwound(s) \/ ContextEntered(s)

StopStep(s) ==
    \/ OnStopDone(s) \/ RunStopTask(s) \/ ChildStopped(s)
    \/ ShutdownReceived(s) \/ CancelFutures(s) \/ GatherFutures(s)
    \/ FuturesGathered(s) \/ ExitStacksClosed(s) \/ OnShutdownDone(s)
    \/ StopRaises(s)

FutureStep(f) == AddFuture(f) \/ FutureEnds(f) \/ FutureRaises(f)

CallerStep(s) ==
    \/ StartCaller(s) \/ StopCaller(s) \/ StopCancelled(s) \/ CrashCaller(s)
    \/ SetShutdown(s) \/ AddContext(s) \/ AddAsyncContext(s)
    \/ \E k \in Service : \/ AddDependency(s, k) \/ AddRuntimeDependency(s, k)
                          \/ RemoveDependency(s, k) \/ DependencyRemoved(s, k)

Next ==
    \/ \E s \in Service : StartStep(s) \/ StopStep(s) \/ CallerStep(s)
    \/ \E f \in Future : FutureStep(f)

Spec == Init /\ [][Next]_vars

\* The event loop runs what is ready; the hooks of stop() return or raise; a task
\* that was cancelled ends.  Nothing obliges on_start to return or a caller to
\* call.
FairSpec ==
    /\ Spec
    /\ \A s \in Service : WF_vars(StopStep(s))
    /\ \A f \in Future :
         WF_vars(f \in cancelled /\ (FutureEnds(f) \/ FutureRaises(f)))

-----------------------------------------------------------------------------
(* Properties.                                                             *)

PastChildren(s) == stoppc[s] \in {"wait_shutdown", "drain", "gather_start",
                      "gather", "exit_stacks", "on_shutdown", "returned"}
PastFutures(s) == stoppc[s] \in {"exit_stacks", "on_shutdown", "returned"}

\* A stop() that no cancellation interrupted has seen every background task of
\* the service end before it closes the exit stacks and calls on_shutdown,
\* although tasks were started by a start() that may run at the same time.
JoinedBeforeShutdown ==
    \A s \in Service : PastFutures(s) /\ s \notin interrupted
                         => running \cap Owned(s) = {}

\* Once stop() is past its child loop no child is left running: every child that
\* was started has been told to stop, also when start() was still going through
\* the same list and while any number of remove_dependency() calls were on their
\* way, unless two of them took their child out of the list during the loop: then
\* the position of the loop may be past the end of the list, which ends it.
NoOrphan ==
    \A s \in Service :
      PastChildren(s) /\ s \notin interrupted /\ shortened[s] <= 1
        => Kids(s) \cap started \subseteq stopped

\* stop() goes on to the futures and to on_shutdown only when the stop() of each
\* child it stopped itself is over.
ParentLast ==
    \A s, k \in Service : PastChildren(s) /\ s \notin interrupted /\ stopper[k] = s
                            => Ended(stoppc[k])

\* Children are stopped in reverse order, one after the other: when stop() has
\* begun to stop a child, the later ones that it stopped are done.
ReverseOrder ==
    \A s \in Service : \A i, j \in DOMAIN children[s] :
        /\ i < j /\ s \notin interrupted
        /\ stopper[children[s][i]] = s /\ stopper[children[s][j]] = s
        => Ended(stoppc[children[s][j]])

\* A crash reaches every started child of a crashed service.
CrashDown ==
    \A s \in crashed : Kids(s) \cap started \subseteq crashed

\* A crash never stops half way up: the parent of a crashed service has crashed
\* too, unless the service has a supervisor.
CrashUp ==
    \A s \in Service : \A k \in Kids(s) \cap crashed :
        k \in Supervised \/ s \in crashed

\* When stop() has closed the exit stacks nothing is left open in them, whatever
\* start() was doing and goes on to do, unless the __aenter__ of a context was
\* suspended at that moment: that context is pushed later and nobody leaves it.
ContextsReleased ==
    \A s \in Service : stoppc[s] \in {"on_shutdown", "returned"} /\ s \in context
                         => s \in overtaken

\* A start() that ran to its end on a service that is not told to stop has
\* started every child, and awaited the start() of those only it starts.
AllStarted ==
    \A s \in Service :
        startpc[s] \in {"on_started", "returned"} /\ ~ShouldStop(s)
        => \A k \in Kids(s) : /\ k \in started
                              /\ k \in Dynamic[s] \/ startpc[k] = "returned"

\* No child begins to start once its parent is told to stop.
NoLateStart ==
    [][\A s \in Service : ShouldStop(s) => Kids(s) \cap started' \subseteq started]_vars

\* Every stop() ends: it returns or raises.
StopCompletes == \A s \in Service : s \in stopped ~> Ended(stoppc[s])

\* What the comment of add_dependency says: the service is started with its parent.
DocStartedWithParent ==
    \A s \in Service : startpc[s] = "on_started" /\ ~ShouldStop(s)
                         => Kids(s) \subseteq started

=============================================================================
