--------------------------- MODULE ServiceRestart ---------------------------
(***************************************************************************)
(* restart() of a service with one child (mode/services.py), by callers    *)
(* that also start and stop it: stop(), a reset of the events of both, and *)
(* start() again.  The reset clears the events whoever else is in start()  *)
(* or stop() and will look at them when it goes on.  Hooks return, at any  *)
(* time; ServiceTree has the hooks that raise, and more children.          *)
(***************************************************************************)
EXTENDS Integers, FiniteSets

CONSTANTS
    Caller,
    MaxRestarts,  \* bound: restarts
    MaxStarts     \* bound: a caller calls start() outside restart() before it has started so often

Service == {"root", "kid"}

VARIABLES
    started, stopped, crashed,  \* SUBSET Service: the events
    restarting,  \* callers in the stop() of restart()
    pc,          \* where the body of each is suspended
    tasks,       \* tasks that run, <<service, caller of the start, its number>>
    futures,     \* those in _futures
    cancelled,   \* those that were cancelled and have not ended
    awaited,     \* [Caller -> what asyncio.wait was given]
    restart_count,
    starts,      \* [Caller -> its bodies of start() so far]
    overtaken    \* history: a reset has found the body of another in progress

vars == <<started, stopped, crashed, restarting, pc, tasks, futures, cancelled,
          awaited, restart_count, starts, overtaken>>
events == <<started, stopped, crashed>>
work == <<tasks, futures, cancelled>>

Starting == {"on_start", "kid_on_start"}
Stopping == {"on_stop", "kid_stop", "kid_on_stop", "kid_wait", "kid_gather", "wait",
             "gather", "on_shutdown"}
Task == Service \X Caller \X (1..(MaxStarts + MaxRestarts))

TypeOK ==
    /\ {started, stopped, crashed} \subseteq SUBSET Service
    /\ restarting \subseteq Caller
    /\ pc \in [Caller -> {"idle", "on_restart"} \cup Starting \cup Stopping]
    /\ {tasks, futures, cancelled} \subseteq SUBSET Task
    /\ awaited \in [Caller -> SUBSET Task]
    /\ restart_count \in 0..MaxRestarts
    /\ starts \in [Caller -> 0..(MaxStarts + MaxRestarts)]
    /\ overtaken \in BOOLEAN

Init ==
    /\ started = {} /\ stopped = {} /\ crashed = {}
    /\ restarting = {} /\ pc = [c \in Caller |-> "idle"]
    /\ tasks = {} /\ futures = {} /\ cancelled = {} /\ awaited = [c \in Caller |-> {}]
    /\ restart_count = 0 /\ starts = [c \in Caller |-> 0] /\ overtaken = FALSE

ShouldStop(s) == s \in stopped \cup crashed
Of(s, T) == {t \in T : t[1] = s}
Goto(c, l) == pc' = [pc EXCEPT ![c] = l]

-----------------------------------------------------------------------------
(* start(): sets the event and runs on_start, unless the service should    *)
(* stop already.                                                           *)

BeginStart(c) ==
    /\ starts' = [starts EXCEPT ![c] = @ + 1]
    /\ started' = started \cup {"root"}
    /\ Goto(c, IF ShouldStop("root") THEN "idle" ELSE "on_start")

Start(c) ==
    /\ pc[c] = "idle" /\ "root" \notin started /\ starts[c] < MaxStarts
    /\ BeginStart(c)
    /\ UNCHANGED <<stopped, crashed, restarting, work, awaited, restart_count, overtaken>>

AddTask(c, s) ==
    LET t == <<s, c, starts[c]>> IN tasks' = tasks \cup {t} /\ futures' = futures \cup {t}

\* The tasks of the root are added, and the child is started if it was not.
OnStartReturns(c) ==
    /\ pc[c] = "on_start"
    /\ IF ShouldStop("root")
         THEN Goto(c, "idle") /\ UNCHANGED <<started, tasks, futures>>
         ELSE /\ AddTask(c, "root")
              /\ started' = started \cup {"kid"}
              /\ Goto(c, IF "kid" \in started \/ ShouldStop("kid") THEN "idle"
                                                                 ELSE "kid_on_start")
    /\ UNCHANGED <<stopped, crashed, restarting, cancelled, awaited, restart_count, starts, overtaken>>

KidOnStartReturns(c) ==
    /\ pc[c] = "kid_on_start"
    /\ IF ShouldStop("kid") THEN UNCHANGED <<tasks, futures>> ELSE AddTask(c, "kid")
    /\ Goto(c, "idle")
    /\ UNCHANGED <<events, restarting, cancelled, awaited, restart_count, starts, overtaken>>

-----------------------------------------------------------------------------
(* stop(): the event, on_stop, the child, the futures.                     *)

\* Mutant: the child is not reset.
ResetButChild(c) ==
    /\ restart_count' = restart_count + 1
    /\ started' = started \ {"root"} /\ stopped' = stopped \ {"root"} /\ crashed' = {}
    /\ overtaken' = (overtaken \/ \E d \in Caller \ {c} : pc[d] \in Starting \cup Stopping)
    /\ Goto(c, "on_restart")

\* service_reset(), then on_restart.
Reset(c) ==
    /\ restart_count' = restart_count + 1
    /\ started' = {} /\ stopped' = {} /\ crashed' = {}
    /\ overtaken' = (overtaken \/ \E d \in Caller \ {c} : pc[d] \in Starting \cup Stopping)
    /\ Goto(c, "on_restart")

MayRestart == restart_count + Cardinality(restarting) < MaxRestarts

\* What follows stop().
AfterStop(c, restart) ==
    /\ restarting' = restarting \ {c}
    /\ IF restart THEN Reset(c)
       ELSE Goto(c, "idle") /\ UNCHANGED <<events, restart_count, overtaken>>

\* Mutant: restart() resets the events without a stop() before it.
StopNotCalled(c, restart) ==
    /\ pc[c] = "idle"
    /\ restart => MayRestart
    /\ IF "root" \in stopped \/ restart
         THEN AfterStop(c, restart)
         ELSE /\ stopped' = stopped \cup {"root"} /\ Goto(c, "on_stop")
              /\ restarting' = IF restart THEN restarting \cup {c} ELSE restarting
              /\ UNCHANGED <<started, crashed, restart_count, overtaken>>
    /\ UNCHANGED <<work, awaited, starts>>

\* stop() or restart(): a second stop() returns at once.
Stop(c, restart) ==
    /\ pc[c] = "idle"
    /\ restart => MayRestart
    /\ IF "root" \in stopped
         THEN AfterStop(c, restart)
         ELSE /\ stopped' = stopped \cup {"root"} /\ Goto(c, "on_stop")
              /\ restarting' = IF restart THEN restarting \cup {c} ELSE restarting
              /\ UNCHANGED <<started, crashed, restart_count, overtaken>>
    /\ UNCHANGED <<work, awaited, starts>>

\* The child is stopped from a task of its own (shield).
OnStopReturns(c) ==
    /\ pc[c] = "on_stop"
    /\ Goto(c, "kid_stop")
    /\ UNCHANGED <<events, restarting, work, awaited, restart_count, starts, overtaken>>
KidStop(c) ==
    /\ pc[c] = "kid_stop"
    /\ stopped' = stopped \cup {"kid"}
    /\ Goto(c, IF "kid" \in stopped THEN "wait" ELSE "kid_on_stop")
    /\ UNCHANGED <<started, crashed, restarting, work, awaited, restart_count, starts, overtaken>>
KidOnStopReturns(c) ==
    /\ pc[c] = "kid_on_stop"
    /\ Goto(c, "kid_wait")
    /\ UNCHANGED <<events, restarting, work, awaited, restart_count, starts, overtaken>>

\* _stop_futures: a look with no timeout, then the members are cancelled, and
\* those are awaited, if there are any.
CancelFutures(c, s) ==
    /\ pc[c] = IF s = "kid" THEN "kid_wait" ELSE "wait"
    /\ cancelled' = cancelled \cup Of(s, futures)
    /\ awaited' = [awaited EXCEPT ![c] = Of(s, futures)]
    /\ Goto(c, IF Of(s, futures) = {} THEN (IF s = "kid" THEN "wait" ELSE "on_shutdown")
               ELSE (IF s = "kid" THEN "kid_gather" ELSE "gather"))
    /\ UNCHANGED <<events, restarting, tasks, futures, restart_count, starts, overtaken>>

\* _futures is cleared whatever has been added to it since.
Gathered(c, s) ==
    /\ pc[c] = IF s = "kid" THEN "kid_gather" ELSE "gather"
    /\ awaited[c] \cap tasks = {}
    /\ futures' = futures \ Of(s, futures)
    /\ awaited' = [awaited EXCEPT ![c] = {}]
    /\ Goto(c, IF s = "kid" THEN "wait" ELSE "on_shutdown")
    /\ UNCHANGED <<events, restarting, tasks, cancelled, restart_count, starts, overtaken>>

OnShutdownReturns(c) ==
    /\ pc[c] = "on_shutdown"
    /\ AfterStop(c, c \in restarting)
    /\ UNCHANGED <<work, awaited, starts>>

\* start() asserts that nobody else has started the service in the meantime.
OnRestartReturns(c) ==
    /\ pc[c] = "on_restart"
    /\ IF "root" \in started THEN Goto(c, "idle") /\ UNCHANGED <<started, starts>>
                             ELSE BeginStart(c)
    /\ UNCHANGED <<stopped, crashed, restarting, work, awaited, restart_count, overtaken>>

-----------------------------------------------------------------------------
Ended(t) ==
    /\ t \in tasks
    /\ tasks' = tasks \ {t} /\ futures' = futures \ {t} /\ cancelled' = cancelled \ {t}
    /\ UNCHANGED <<started, stopped, restarting, pc, awaited, restart_count, starts, overtaken>>

\* A task ends when it is cancelled, or sees that its service should stop.
TaskEnds(t) ==
    /\ t \in cancelled \/ ShouldStop(t[1])
    /\ Ended(t) /\ UNCHANGED crashed
\* A task raises: without a supervisor parent and child are marked.
TaskCrashes(t) ==
    /\ crashed' = IF t[1] \in crashed THEN crashed ELSE Service
    /\ Ended(t)

Next ==
    \/ \E c \in Caller :
         \/ Start(c) \/ OnStartReturns(c) \/ KidOnStartReturns(c)
         \/ Stop(c, FALSE) \/ Stop(c, TRUE)
         \/ OnStopReturns(c) \/ KidStop(c) \/ KidOnStopReturns(c) \/ OnShutdownReturns(c)
         \/ \E s \in Service : CancelFutures(c, s) \/ Gathered(c, s)
         \/ OnRestartReturns(c)
    \/ \E t \in Task : TaskEnds(t) \/ TaskCrashes(t)

Spec == Init /\ [][Next]_vars

-----------------------------------------------------------------------------
Idle == \A c \in Caller : pc[c] = "idle"
Alive(s) == Of(s, tasks \ cancelled)

\* As long as no reset has overtaken the start() or stop() of another caller,
\* no service runs its tasks twice (services.py:942).
RunsOnce ==
    ~overtaken => \A s \in Service : Cardinality(Alive(s)) <= 1

\* As long as no reset has overtaken another caller: when all are done, every
\* task is in _futures, what was stopped has none left, and what is up has its
\* child up and all tasks running (services.py:942).
UpOrDown ==
    Idle /\ ~overtaken =>
      /\ tasks \subseteq futures
      /\ "root" \in stopped => tasks = {}
      /\ "root" \in started /\ ~ShouldStop("root") =>
           \A s \in Service : s \in started /\ Alive(s) # {}
=============================================================================
