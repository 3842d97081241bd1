----------------------------- MODULE Supervisor -----------------------------
(***************************************************************************)
(* mode/supervisors.py: a supervisor, its task that restarts crashed       *)
(* services, and its start() and stop().                                   *)
(*                                                                         *)
(* The supervised services are kept to what the supervisor sees of them:   *)
(* the events of ServiceTree, whether a start() or stop() body is running, *)
(* and whether their tasks and resources are `up`.  A body begins in the   *)
(* step that calls it and ends in a later one; the supervisor's code       *)
(* between two suspension points is one step.                              *)
(***************************************************************************)
EXTENDS Integers, Sequences, FiniteSets

CONSTANTS
    Service,     \* every service, spares included
    First,       \* sequence of services added before the supervisor starts
    Late,        \* services that may be added while it runs
    Spare,       \* services that `replacement` may return
    Config,      \* the supervisors and programs around them, records of
                 \*   strategy: one of Strategies
                 \*   replaces: it has a `replacement` callback
                 \*   limited:  the rate limit may refuse a restart
                 \*   discards: discard() is called
                 \*   again:    services add() is called with when they have a supervisor
                 \*   exposed:  services whose stop() is called from outside
    Raising,     \* services whose hooks may raise
    MaxCrashes,  \* bound on the number of crashes
    None

Strategies == {"one_for_one", "one_for_all", "forfeit_one", "forfeit_all"}
Elems(q) == {q[i] : i \in DOMAIN q}

ASSUME SupervisorConstants ==
    /\ First \in Seq(Service)
    /\ \A i, j \in DOMAIN First : First[i] = First[j] => i = j
    /\ Late \subseteq Service \ Elems(First)
    /\ Spare \subseteq Service \ (Elems(First) \cup Late)
    /\ Config \subseteq [strategy : Strategies, replaces : BOOLEAN, limited : BOOLEAN,
                         discards : BOOLEAN, again : SUBSET Service,
                         exposed : SUBSET Service]
    /\ Raising \subseteq Service
    /\ MaxCrashes \in Nat
    /\ None \notin Service

VARIABLES
    config,    \* which supervisor this is
    started, stopped, crashed,  \* services whose event is set
    up,        \* services whose tasks and resources are there
    starting,  \* services with a start() body that has not ended
    stopping,  \* services with a stop() body that has not ended
    services,  \* _services
    index,     \* _index, a function from services to positions (from 0)
    supervised,  \* services whose supervisor attribute is set
    misplaced, \* history: services that an add() which failed has put in _index
    pc,        \* where start() or the task of the supervisor is
    jobs,      \* what is left of the lists the task goes through
    place,     \* the index that was read before `replacement` was awaited
    wakeup,    \* _please_wakeup: no future, one that waits, one that is done
    mine,      \* services whose stop() body the task has begun and awaits
    failed,    \* services whose last stop() body raised
    stoppc,    \* where the stop() of the supervisor is
    stopat,    \* the position of its loop in _services
    stopwho,   \* the service that loop awaits
    broken,    \* the supervisor has crashed
    quiet,     \* history: stop() was called when the task was not at work
    crashes    \* number of crashes so far

servicevars == <<started, stopped, crashed, up, starting, stopping, failed>>
listvars == <<services, index, supervised, misplaced, config>>
taskvars == <<pc, jobs, place, wakeup, mine>>
stopvars == <<stoppc, stopat, stopwho, quiet>>
vars == <<servicevars, listvars, taskvars, stopvars, broken, crashes>>

PC == {"idle", "on_start", "task", "start", "waiting", "stop", "restart_stop", "on_restart",
       "restart_start", "replace", "ended"}
Job == [op : {"start", "restart", "stop"}, who : Service]
       \cup [op : {"restart_all", "stop_all"}]

TypeOK ==
    /\ config \in Config
    /\ started \subseteq Service /\ stopped \subseteq Service
    /\ crashed \subseteq Service /\ up \subseteq Service
    /\ starting \subseteq Service /\ stopping \subseteq Service
    /\ services \in Seq(Service)
    /\ DOMAIN index \subseteq supervised /\ \A s \in DOMAIN index : index[s] \in Nat
    /\ supervised \subseteq Service /\ misplaced \subseteq Service
    /\ pc \in PC /\ jobs \in Seq(Job) /\ place \in Nat
    /\ wakeup \in {"none", "pending", "done"}
    /\ wakeup # "none" <=> pc = "waiting"
    /\ mine \subseteq Service /\ failed \subseteq Service
    /\ stoppc \in {"idle", "on_stop", "futures", "join", "returned"}
    /\ stopat \in Nat /\ stopwho \in Service \cup {None}
    /\ broken \in BOOLEAN /\ quiet \in BOOLEAN
    /\ crashes \in 0 .. MaxCrashes

Init ==
    /\ config \in Config
    /\ started = {} /\ stopped = {} /\ crashed = {} /\ up = {}
    /\ starting = {} /\ stopping = {} /\ failed = {}
    /\ services = First
    /\ index = [s \in Elems(First) |-> (CHOOSE i \in DOMAIN First : First[i] = s) - 1]
    /\ supervised = Elems(First) /\ misplaced = {}
    /\ pc = "idle" /\ jobs = <<>> /\ place = 0 /\ wakeup = "none" /\ mine = {}
    /\ stoppc = "idle" /\ stopat = 0 /\ stopwho = None
    /\ broken = FALSE /\ quiet = FALSE
    /\ crashes = 0

ShouldStop == stoppc # "idle" \/ broken

-----------------------------------------------------------------------------
(* The supervised services.                                                *)

\* start() returns; told to stop meanwhile, it has made no tasks.
ServiceStarted(s) ==
    /\ s \in starting
    /\ starting' = starting \ {s}
    /\ up' = IF s \in stopped \cup crashed THEN up ELSE up \cup {s}
    /\ UNCHANGED <<started, stopped, crashed, stopping, failed, listvars,
                   taskvars, stopvars, broken, crashes>>

\* stop() returns: the tasks the service has by then are joined.
ServiceStopped(s) ==
    /\ s \in stopping
    /\ stopping' = stopping \ {s}
    /\ up' = up \ {s}
    /\ UNCHANGED <<started, stopped, crashed, starting, failed, listvars,
                   taskvars, stopvars, broken, crashes>>

\* A hook of stop() raises before the tasks are joined.
ServiceStopRaises(s) ==
    /\ s \in stopping \cap Raising
    /\ stopping' = stopping \ {s}
    /\ failed' = failed \cup {s}
    /\ UNCHANGED <<started, stopped, crashed, up, starting, listvars, taskvars,
                   stopvars, broken, crashes>>

\* notify(self._please_wakeup): lost when there is no future.
Wakeup == wakeup' = IF wakeup = "pending" THEN "done" ELSE wakeup

\* A task of the service raises: crash() marks it and wakes the supervisor.
ServiceCrashes(s) ==
    /\ s \in (up \cup starting) \ crashed
    /\ crashes < MaxCrashes
    /\ crashes' = crashes + 1
    /\ crashed' = crashed \cup {s}
    /\ Wakeup
    /\ UNCHANGED <<started, stopped, up, starting, stopping, failed, listvars,
                   pc, jobs, place, mine, stopvars, broken>>

BeginStops(S) ==
    /\ stopped' = stopped \cup S
    /\ stopping' = stopping \cup (S \ stopped)
    /\ failed' = failed \ (S \ stopped)

\* stop() called by some other part of the program.
ServiceStopCaller(s) ==
    /\ s \in (config.exposed \cap started) \ stopped
    /\ BeginStops({s})
    /\ UNCHANGED <<started, crashed, up, starting, listvars, taskvars, stopvars,
                   broken, crashes>>

-----------------------------------------------------------------------------
(* start() and the task.  The first of the jobs is the one at hand.        *)

JobsFor(op, q) == [i \in DOMAIN q |-> [op |-> op, who |-> q[i]]]
InStart == pc \in {"idle", "on_start"}

\* Mutant: the future is not forgotten.
AwakeNot == UNCHANGED wakeup
\* The wait for _please_wakeup is over: None again.
Awake == wakeup' = "none"

\* An exception leaves start(), or the task and crashes the supervisor.
TaskFails ==
    /\ broken' = ~InStart
    /\ pc' = "ended" /\ jobs' = <<>> /\ mine' = {}
    /\ Awake

\* Nothing left to do: start() makes the task unless told to stop; the task looks
\* at should_stop and waits again.
Idle ==
    /\ pc' = IF ShouldStop THEN "ended" ELSE IF InStart THEN "task" ELSE "waiting"
    /\ wakeup' = IF ShouldStop \/ InStart THEN "none" ELSE "pending"
    /\ jobs' = <<>> /\ mine' = {}

\* maybe_start
StartJob(s) ==
    /\ started' = started \cup {s}
    /\ starting' = starting \cup ({s} \ started)
    /\ pc' = IF InStart THEN "on_start" ELSE "start"
    /\ mine' = {}
    /\ UNCHANGED <<stopped, crashed, up, stopping, failed, place>>

\* service_reset of s.
Reset(s) ==
    /\ started' = started \ {s}
    /\ stopped' = stopped \ {s}
    /\ crashed' = crashed \ {s}

\* restart() up to its first suspension: the stop() of a service that was told to
\* stop returns at once.
RestartJob(s) ==
    \/ /\ s \notin stopped
       /\ BeginStops({s})
       /\ pc' = "restart_stop"
       /\ mine' = {s}
       /\ UNCHANGED <<started, crashed, up, starting, place>>
    \/ /\ s \in stopped
       /\ Reset(s)
       /\ pc' = "on_restart"
       /\ mine' = {}
       /\ UNCHANGED <<up, starting, stopping, failed, place>>

\* restart_service with a `replacement`: the index is read, then it is awaited.
ReplaceJob(s) ==
    /\ s \in DOMAIN index'
    /\ place' = index'[s]
    /\ pc' = "replace"
    /\ mine' = {}
    /\ UNCHANGED servicevars

\* Mutant: the crashed services only.
StopGroupDead(S) == S \cap crashed
\* stop_services: all of them at the same time.
StopGroup(S) == S

StopJob(S) ==
    /\ BeginStops(StopGroup(S))
    /\ mine' = StopGroup(S) \ stopped
    /\ pc' = "stop"
    /\ UNCHANGED <<started, crashed, up, starting, place>>

\* The next of the jobs in q; the list of services is read when its turn comes.
Begin(q) ==
    LET job == Head(q)
        all == Elems(services)
    IN  /\ Awake
        /\ \/ job.op = "start" /\ StartJob(job.who) /\ jobs' = q
           \/ job.op = "restart" /\ ~config.replaces /\ RestartJob(job.who) /\ jobs' = q
           \/ job.op = "restart" /\ config.replaces /\ ReplaceJob(job.who) /\ jobs' = q
           \/ job.op = "stop" /\ StopJob({q[i].who : i \in DOMAIN q}) /\ jobs' = <<>>
           \/ job.op = "stop_all" /\ StopJob(all) /\ jobs' = <<>>
           \/ /\ job.op = "restart_all"
              /\ StopJob(all)
              /\ jobs' = JobsFor("restart", services)

\* The rate limit refuses, or the service to replace is not in _index.
Refuses(q) ==
    /\ Head(q).op = "restart"
    /\ config.limited \/ (config.replaces /\ Head(q).who \notin DOMAIN index')
    /\ TaskFails
    /\ UNCHANGED <<servicevars, place>>

Proceed(q) ==
    /\ \/ q = <<>> /\ Idle /\ UNCHANGED <<servicevars, place, broken>>
       \/ q # <<>> /\ Begin(q) /\ UNCHANGED broken
       \/ q # <<>> /\ Refuses(q)
    /\ UNCHANGED <<stopvars, crashes>>

\* start(): on_start starts the services one by one.
SupervisorStart ==
    /\ pc = "idle" /\ stoppc = "idle"
    /\ UNCHANGED listvars
    /\ Proceed(JobsFor("start", services))

TaskBegins == pc = "task" /\ UNCHANGED listvars /\ Proceed(<<>>)

\* service_operational
Operational(s) == s \notin crashed

\* Mutant: every strategy restarts.
RemedyRestart(q) == JobsFor("restart", q)
\* restart_services of the strategy for the crashed services in q.
Remedy(q) ==
    CASE q = <<>> -> <<>>
      [] q # <<>> /\ config.strategy = "one_for_one" -> JobsFor("restart", q)
      [] q # <<>> /\ config.strategy = "one_for_all" -> <<[op |-> "restart_all"]>>
      [] q # <<>> /\ config.strategy = "forfeit_one" -> JobsFor("stop", q)
      [] q # <<>> /\ config.strategy = "forfeit_all" -> <<[op |-> "stop_all"]>>

ToStart == {s \in Elems(services) : s \notin started}
ToRestart == {s \in Elems(services) \cap started : ~Operational(s)}

\* The services of S in the order they have in _services.
InOrder(S) ==
    {q \in [1 .. Cardinality(S) -> S] :
        \A k, l \in DOMAIN q : k < l =>
            \E i, j \in DOMAIN services : i < j /\ services[i] = q[k] /\ services[j] = q[l]}

\* Mutant: no timeout.
TimesOutNever == FALSE
\* Five seconds without a wakeup.
TimesOut == TRUE

\* The task wakes up and looks at every service.
WakeUp ==
    /\ pc = "waiting"
    /\ wakeup = "done" \/ TimesOut
    /\ UNCHANGED listvars
    /\ \E q \in InOrder(ToStart), r \in InOrder(ToRestart) :
          Proceed(IF ShouldStop THEN <<>> ELSE JobsFor("start", q) \o Remedy(r))

\* The start() at hand is over.
StartDone ==
    /\ pc \in {"on_start", "start", "restart_start"}
    /\ Head(jobs).who \notin starting
    /\ UNCHANGED listvars
    /\ Proceed(Tail(jobs))

\* The start() at hand raises.
StartRaises ==
    /\ pc \in {"on_start", "start", "restart_start"}
    /\ Head(jobs).who \in starting \cap Raising
    /\ starting' = starting \ {Head(jobs).who}
    /\ TaskFails
    /\ UNCHANGED <<started, stopped, crashed, up, stopping, failed, listvars,
                   place, stopvars, crashes>>

\* Mutant: the stop() of the service is not waited for.
MineDoneSoon == TRUE
MineDone == mine \cap stopping = {}

\* restart(): the stop() at hand is over, service_reset.
RestartStopped ==
    /\ pc = "restart_stop"
    /\ MineDone /\ mine \cap failed = {}
    /\ Reset(Head(jobs).who)
    /\ pc' = "on_restart" /\ mine' = {}
    /\ UNCHANGED <<up, starting, stopping, failed, listvars, jobs, place, wakeup,
                   stopvars, broken, crashes>>

\* on_restart returned, start().
OnRestartDone ==
    /\ pc = "on_restart"
    /\ started' = started \cup {Head(jobs).who}
    /\ starting' = starting \cup {Head(jobs).who}
    /\ pc' = "restart_start"
    /\ UNCHANGED <<stopped, crashed, up, stopping, failed, listvars, jobs, place,
                   wakeup, mine, stopvars, broken, crashes>>

\* gather: all are stopped.
GroupStopped ==
    /\ pc = "stop"
    /\ MineDone /\ mine \cap failed = {}
    /\ UNCHANGED listvars
    /\ Proceed(jobs)

\* A stop() at hand raised; gather does not wait for the others.
StopRaised ==
    /\ pc \in {"restart_stop", "stop"}
    /\ mine \cap failed # {}
    /\ TaskFails
    /\ UNCHANGED <<servicevars, listvars, place, stopvars, crashes>>

\* Mutant: insert() leaves the old service in the index.
ReplacedKept(new) ==
    /\ pc = "replace"
    /\ new \in Spare \ (supervised \cup started)
    /\ place < Len(services)
    /\ services' = [services EXCEPT ![place + 1] = new]
    /\ index' = [s \in DOMAIN index \cup {new} |-> IF s = new THEN place ELSE index[s]]
    /\ supervised' = supervised \cup {new}
    /\ UNCHANGED <<misplaced, config>>
    /\ Proceed(Tail(jobs))
\* `replacement` returned: insert() puts the new service where the index pointed.
Replaced(new) ==
    /\ pc = "replace"
    /\ new \in Spare \ (supervised \cup started)
    /\ place < Len(services)
    /\ services' = [services EXCEPT ![place + 1] = new]
    /\ index' = [s \in (DOMAIN index \ {services[place + 1]}) \cup {new} |->
                    IF s = new THEN place ELSE index[s]]
    /\ supervised' = supervised \cup {new}
    /\ UNCHANGED <<misplaced, config>>
    /\ Proceed(Tail(jobs))

\* The index is beyond the list: IndexError.
ReplaceFails ==
    /\ pc = "replace"
    /\ place >= Len(services)
    /\ TaskFails
    /\ UNCHANGED <<servicevars, listvars, place, stopvars, crashes>>

-----------------------------------------------------------------------------
(* stop(), add() and discard().                                            *)

\* Mutant: the last service is left out.
StopFromButLast(i) == {j \in i + 1 .. Len(services) - 1 : services[j] \in started \ stopped}
\* The positions after i of the services whose stop() on_stop has to await.
StopFrom(i) == {j \in i + 1 .. Len(services) : services[j] \in started \ stopped}

\* on_stop goes on from position i.
OnStop(i) ==
    IF StopFrom(i) = {}
    THEN /\ stoppc' = "futures" /\ stopwho' = None
         /\ UNCHANGED <<stopped, stopping, failed, stopat>>
    ELSE \E j \in StopFrom(i) :
         /\ \A k \in StopFrom(i) : j <= k
         /\ stoppc' = "on_stop" /\ stopat' = j /\ stopwho' = services[j]
         /\ BeginStops({services[j]})

\* stop() of a supervisor that was started.
SupervisorStop ==
    /\ stoppc = "idle" /\ pc # "idle"
    /\ quiet' = (pc \in {"task", "waiting"})
    /\ OnStop(0)
    /\ UNCHANGED <<started, crashed, up, starting, listvars, taskvars, broken,
                   crashes>>

\* The stop() of a service is over; one that raised is logged.
OnStopNext ==
    /\ stoppc = "on_stop"
    /\ stopwho \notin stopping
    /\ OnStop(stopat)
    /\ UNCHANGED <<started, crashed, up, starting, listvars, taskvars, quiet,
                   broken, crashes>>

\* _stop_futures cancels the task.  What it awaits is cancelled with it: a start(),
\* or a stop() somewhere half way, which may also swallow the cancellation.
TaskCancelled ==
    /\ stoppc = "futures"
    /\ stoppc' = "join"
    /\ \/ /\ ~InStart /\ pc # "ended"
          /\ pc' = "ended" /\ jobs' = <<>> /\ mine' = {}
          /\ Awake
          /\ starting' = IF pc \in {"start", "restart_start"}
                         THEN starting \ {Head(jobs).who} ELSE starting
          /\ stopping' = stopping \ mine
          /\ up' \in {up, up \ (mine \cap stopping)}
       \/ /\ InStart \/ pc \in {"ended", "restart_stop"}
          /\ UNCHANGED <<pc, jobs, mine, wakeup, starting, stopping, up>>
    /\ UNCHANGED <<started, stopped, crashed, failed, listvars, place, stopat,
                   stopwho, quiet, broken, crashes>>

\* The task has ended.
TaskJoined ==
    /\ stoppc = "join"
    /\ InStart \/ pc = "ended"
    /\ stoppc' = "returned"
    /\ UNCHANGED <<servicevars, listvars, taskvars, stopat, stopwho, quiet,
                   broken, crashes>>

\* add() and discard() are not called while start(), stop() or one_for_all goes
\* through _services itself.
Settled ==
    /\ pc # "on_start" /\ stoppc = "idle"
    /\ config.strategy = "one_for_all" => pc \in {"idle", "task", "waiting", "ended"}

Add(s) ==
    /\ Settled
    /\ s \in Late \ (supervised \cup started)
    /\ supervised' = supervised \cup {s}
    /\ UNCHANGED <<misplaced, config>>
    /\ services' = Append(services, s)
    /\ index' = [t \in DOMAIN index \cup {s} |->
                    IF t = s THEN Len(services) ELSE index[t]]
    /\ UNCHANGED <<servicevars, taskvars, stopvars, broken, crashes>>

\* add() of a service that has a supervisor, behind those of `new`, at most one:
\* its position is written, then the assertion fails and _services stays as it is.
AddAgain(s, new) ==
    /\ s \in config.again \cap supervised
    /\ new \subseteq Late \ (supervised \cup started)
    /\ \A x, y \in new : x = y
    /\ supervised' = supervised \cup new
    /\ index' = [t \in DOMAIN index \cup new \cup {s} |->
                    IF t \in new THEN Len(services)
                    ELSE IF t = s THEN Len(services) + (IF new = {} THEN 0 ELSE 1)
                    ELSE index[t]]
    /\ misplaced' = misplaced \cup new \cup {s}
    /\ UNCHANGED <<services, config, servicevars, taskvars, stopvars, broken, crashes>>

\* list.remove: the first s goes.
Without(q, s) ==
    LET i == CHOOSE j \in DOMAIN q : q[j] = s /\ \A m \in 1 .. j-1 : q[m] # s
    IN  [j \in 1 .. Len(q) - 1 |-> IF j < i THEN q[j] ELSE q[j + 1]]

Discard(s) ==
    /\ Settled /\ config.discards
    /\ s \in Elems(services)
    /\ services' = Without(services, s)
    /\ index' = [t \in DOMAIN index \ {s} |-> index[t]]
    /\ UNCHANGED <<supervised, misplaced, config, servicevars, taskvars, stopvars, broken, crashes>>

-----------------------------------------------------------------------------

ServiceStep(s) ==
    \/ ServiceStarted(s) \/ ServiceStopped(s) \/ ServiceStopRaises(s)
    \/ ServiceCrashes(s) \/ ServiceStopCaller(s)

TaskStep ==
    \/ TaskBegins \/ WakeUp \/ StartDone \/ StartRaises
    \/ RestartStopped \/ OnRestartDone \/ GroupStopped \/ StopRaised
    \/ (\E s \in Service : Replaced(s)) \/ ReplaceFails

StopStep == OnStopNext \/ TaskCancelled \/ TaskJoined

Next ==
    \/ \E s \in Service : ServiceStep(s) \/ Add(s) \/ Discard(s)
    \/ \E s \in Service, new \in SUBSET Late : AddAgain(s, new)
    \/ SupervisorStart \/ TaskStep \/ SupervisorStop \/ StopStep

Spec == Init /\ [][Next]_vars

\* The event loop runs the task, whose five seconds pass, and the hooks of the
\* services return.
FairSpec ==
    /\ Spec
    /\ WF_vars(TaskStep)
    /\ \A s \in Service : WF_vars(ServiceStarted(s)) /\ WF_vars(ServiceStopped(s))

-----------------------------------------------------------------------------
(* Properties.                                                             *)

\* A stop() that did not catch the supervisor in the middle of starting or
\* restarting leaves no service of the group up, but for one that some other
\* caller is still stopping, or whose stop() raised.
StopStopsAll ==
    stoppc = "returned" /\ quiet
    => Elems(services) \cap up \subseteq stopping \cup failed

\* A service that is started and told neither to stop nor crashed is up: a restart
\* never leaves one behind that nobody will look at again, as long as nobody else
\* stops the services.
NoZombie ==
    config.exposed = {} /\ stoppc = "idle" /\ pc # "ended"
    => started \ (stopped \cup crashed \cup starting) \subseteq up

\* supervisors.py, one for all: all services of the group are down before one is
\* started again, but for one that some other caller is still stopping, or whose
\* stop() raised for that caller.
AllDown ==
    config.strategy = "one_for_all" /\ stoppc = "idle" /\ pc \in {"on_restart", "restart_start"}
    => \A i \in 2 .. Len(jobs) :
           jobs[i].who \in up => config.exposed # {} /\ jobs[i].who \in stopping \cup failed

InPlace(s) == index[s] + 1 \in DOMAIN services /\ services[index[s] + 1] = s

\* _index gives the position of every service, whatever is added, refused and
\* replaced, as long as nothing is discarded, but for the services an add() that
\* failed was called with: their positions are written before it fails.
Positions == \A s \in DOMAIN index \ misplaced : InPlace(s)
IndexRight == ~config.discards => Positions

\* Changelog: a crashed service that is given up is not started again.
GivenUp ==
    [][config.strategy \in {"forfeit_one", "forfeit_all"}
       => crashed \subseteq crashed' /\ crashed \cap up' \subseteq up]_vars

\* A crashed service is restarted, also when the wakeup was lost, unless the
\* supervisor is told to stop or fails.
Restarted ==
    \A s \in Service :
        /\ config.strategy \in {"one_for_one", "one_for_all"} /\ ~config.replaces
        /\ s \in crashed \cap Elems(services)
        ~> s \notin crashed \cap Elems(services) \/ ShouldStop \/ pc = "ended"

\* What the comment on _index says, also of a group that services are discarded from.
DocIndexRight == \A s \in DOMAIN index : InPlace(s)
=============================================================================
