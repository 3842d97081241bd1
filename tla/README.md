# Specifications of mode

mode is a library of asyncio services: parts of a program that start, run
background tasks, stop and crash together as a tree. These TLA+ modules model
its core, the TLC configurations check them on small instances, and the proof
modules prove the safety properties for every instance.

## The system

| Component | State | Operations | What is hard |
|---|---|---|---|
| Service (`mode/services.py`) | events started, stopped, shutdown, crashed; `_children`; `_futures`; exit stacks; restart count | start, maybe_start, stop, crash, restart, service_reset, add_dependency, add_runtime_dependency, remove_dependency, add_future, add_context, set_shutdown, wait, wait_first, sleep, itertimer | start and stop of one service overlap at every `await`; hooks raise; callers are cancelled; lists change while they are walked |
| Tree node (`utils/trees.py`) | parent, children, root, data | new, attach, reattach, detach, walk, traverse | a stored root goes stale |
| Supervisor (`supervisors.py`) | `_services`, `_index`, `_please_wakeup`, bucket | add, discard, insert, wakeup, start, stop, four strategies of restart | services crash while it is restarting others; its own stop; positions |
| Token bucket (`utils/times.py`) | tokens, time of the last pour | pour, expected_time, `async with` | lazy refill, several clients |
| Event, futures (`utils/locks.py`, `utils/futures.py`) | waiters, a shared future | wait, stampede, notify | cancellation, exceptions, waiters of a passed event |
| Service thread, method queue (`threads.py`) | a thread, its loop, queue, promises | start, stop, crash, call_thread, flush | two threads, two loops |
| Worker (`worker.py`) | the loop, signal handlers | execute, signals, shutdown | a signal at any moment |
| Queues (`utils/queues.py`) | flow control event, queue | suspend, resume, clear, put, get, throw | blocked putters and getters |
| Signals (`signals.py`) | receivers by sender, weak references | connect, disconnect, send | collected receivers, reused identities |
| Timer (`timers.py`) | epoch, drift, overlap counters | tick, adjust_interval | corrections at the bounds |
| Proxy (`locals.py`), service proxy (`proxy.py`, `utils/objects.py`) | the object, or how to make it | every operation of the object | user code that runs inside the evaluation; several threads |
| Collections (`utils/collections.py`) | a builtin, a lock, an observer | those of a mapping, a set, a list | unlocked deletion, callbacks that raise |
| Exit stack (`utils/_py37_contextlib.py`) | callbacks pushed | push, pop_all, exit | one exception replaces another; pushes while it is left |
| Flight recorder, redirected streams (`utils/logging.py`) | a stack in the context of each task; `sys.stdout` | enter, log, timeout, exit | tasks that share a list; blocks that overlap |
| Graph, imports, aiter, blocking detector | | | see `components` in PROJECT.json |

How they interact: a service starts and stops its children, which are nodes of
its beacon (tree node); a crash walks the beacon to the root or wakes the
supervisor; a supervisor is a service whose only task restarts services, within
the limits of a token bucket; a service thread is a service whose start and stop
run in another loop, called through a method queue; the worker is the root
service, which starts and stops the loop and the whole tree.

## Conventions

All of asyncio is one thread: the code from one real suspension to the next is
one atomic step. A coroutine that is awaited runs in the caller's step until
it suspends, and a user hook (`on_start`, `on_stop`, `on_restart` ...) may suspend, so a hook
begins in one step and returns or raises in a later one. What another task runs
(`asyncio.shield(child.stop())`, `gather`) begins in a step of its own or, where
nothing can tell the difference, in that of its creator. Each `await` has a value of a program counter.

Operators whose comment begins with *Mutant* are slips of the code that the
properties are tested with; no action uses them.

## Modules

| Module | Models | Notes |
|---|---|---|
| `ServiceTree` | start, stop, crash, children, futures, exit stacks | tree given by constants |
| `MCServiceTree` | instances of it | a parent with two children, a chain of three |
| `ServiceTreeProofs` | proofs | types, futures, orphans; crashes; the order of start and stop |
| `Supervisor` | the supervisor's task, start, stop, add, discard, replacement, four strategies | services reduced to what a supervisor sees |
| `MCSupervisor` | instances of it | |
| `SupervisorProofs` | proofs | |
| `RateLimit` | what a rate limiter promises: what was given and what was earned | abstract |
| `TokenBucket` | `Bucket`, `TokenBucket` | implements `RateLimit` |
| `MCTokenBucket`, `TokenBucketProofs` | instances, proofs | |
| `ServiceWait` | wait, wait_first, sleep, the event, `_AwaitableService` | the service stops, crashes, restarts |
| `Stampede` | `stampede` | callers are cancelled, the function raises |
| `FlowControlQueue` | flow control, pressure, `ThrowableQueue` | with the waiters of asyncio's queue |
| `FlightRecorder` | `flight_recorder`, `LocalStack` | tasks copy the context of their parent |
| `ServiceThread` | `ServiceThread`, `MethodQueue`, `QueueServiceThread` | two loops and the callbacks between them |
| `Worker` | the worker, its child, signals, the end of the program | |
| `ServiceRestart` | `restart`, `service_reset` of a service with a child | among callers that start and stop it |
| `Program` | one of these seven per initial state | its constants are those of the parts |
| `ProgramProofs`, `QueueProofs` | proofs | five of the parts; the queue and the thread |
| `LRUCache`, `ManagedCollections`, `Heap` | the collections | two threads; callbacks that raise; sequence methods |
| `Signals` | receivers, senders, references | collected and reused |
| `ExitStack` | both exit stacks, `asynccontextmanager` | with `__context__` of exceptions |
| `Timer`, `BlockingDetector` | the timer and its loop; the alarm | time in ticks |
| `DependencyGraph`, `Node` | Kahn's sort, `topsort`; nodes of a tree | |
| `LazyProxy`, `ServiceProxy` | `Proxy` and its roles; `ServiceProxy` on a `cached_property` | |
| `AsyncIteration` | `aslice`, `chunks`, `arange`, `anext` | the iterator is shared |
| `Streams`, `Imports` | `redirect_stdouts`, `FileLogProxy`; `cwd_in_path`, `FactoryMapping` | |
| `Data` | one of these fourteen per initial state | its constants are those of the parts, but where two modules use one name |
| `DataProofs`, `CollectionProofs`, `GraphProofs` | proofs | each extends the one before: what all need, with nine of the parts; caches, heaps, exit stacks; graphs, iteration, all types |

### ServiceTree

The four events are the sets `started`, `stopped`, `shutdown` and `crashed`.
`children[s]` is `_children`; `startpc[s]` and `stoppc[s]` say where the bodies of
`_actually_start` and `stop` are; `startidx`/`startkid` and `stopidx`/`stopkid` are the
positions of their loops over the live list. A service is never reset in this module, so each
body runs at most once (guards `_started`, `_stopped`). `futures` are the members of
`_futures`, `running` those whose task has not ended, `awaited` the snapshot that
`asyncio.wait` took in `_gather_futures`. `context` are the services with something in an exit stack:
`AddContext` pushes at once, `AddAsyncContext` awaits `__aenter__` in on_start (`startpc` is
`enter_context`) and pushes when it is back (`ContextEntered`), whatever has become of the service;
`overtaken` remembers that the stacks were closed in between. `removing` are the children whose
`remove_dependency` awaits their `stop()`, any number at a time; `shortened` counts those that were taken from the list
during the child loop of the parent's `stop()`. `interrupted` records that a `stop()` swallowed a cancellation of its
caller (`StopCancelled`), which the code does in the child loop and in the gathering.

`StartCaller`, `StopCaller`, `CrashCaller`, `AddFuture`, `AddDependency` and the like are the
calls the rest of the program makes, at any time. What it does is bounded by
constants: `Exposed` services are stopped and crashed from outside, hooks of `Raising` services
raise, the stop of `Cancellable` services is cancelled. `Orderly = TRUE` restricts
callers to adding and removing on a service that was not told to stop; with `FALSE`
the runs show what happens to the others.

### Supervisor

`services` and `index` are `_services` and `_index`; `supervised` the services whose
`supervisor` attribute is set (`add` asserts that it is not). `pc` is where `start()` or the
task is, `jobs` what is left of the lists `to_start` and `to_restart` it goes
through (`InOrder`: in the order of `_services`), `place` the index read before `replacement` is awaited, `wakeup` the future
`_please_wakeup`. A supervised service is started, stopped, crashed, in the middle of
a start or stop body, and `up` while its tasks and resources are there. Its bodies
begin in the step that calls them and end in a later one, they may raise, and any service
that runs may crash up to `MaxCrashes` times in all. `stoppc` is the supervisor's own `stop()`: `on_stop`
goes through the live list, then the task is cancelled wherever it is and joined. A
cancelled `stop()` of a service ends half way or swallows the cancellation, so both
outcomes are allowed. `config.limited` lets the bucket refuse any restart.

An `add` of a service that has a supervisor (`AddAgain`, allowed for `config.again`) writes its position
and raises; such positions, and those of the services before it in the call, are in `misplaced`.
Callers call `add` and `discard` when the supervisor is not itself going through
`_services` (`Settled`). `config` is chosen when the supervisor is made: its strategy, whether
it has a `replacement` callback and a limit that may refuse, and what the program around it
does (`discard`, stops from outside).

`AllDown` says that a group is down before it is restarted, with one exception: `stop()` of a service whose
`stop()` was begun by somebody else returns at once, and the `gather` of the supervisor with it, although the
comment at `supervisors.py:202` says "Stop them all, and wait for all of them to stop". So `config.exposed`, the services that
others stop, is in the property.

### TokenBucket and RateLimit

Time is a counter of ticks; the constants make rate and capacity whole numbers of tokens per
tick. `now`, the tokens of the last pour and its time are the state; a client pours, waits its `expected_time`
and pours again, or enters `async with`. `RateLimit` knows only what was given and
the most that can have been earned by now; the refinement maps the history of pours to it.

### The parts of a program

Each of the next modules has a state of its own, so `Program` and `Data` put them
side by side: `part` is chosen in the initial state and only the actions of that part
happen. Their states add up and do not multiply, and no behaviour of a part is lost.

`ServiceWait`: `fut[w][s]` is the future that caller `w` has made for each source it waits
for: the coroutine, the stopped and the crashed event. It is created, then waits in the event,
is woken, and done. `EventSet` wakes only the tasks that wait, as the event of
`utils/locks.py` does. A caller looks at the flags again when it runs, so `Reset` between may
change what it returns. The futures of `asyncio.wait` are left behind when a `wait()` is cancelled.

`Stampede`: `self_fut` is `Stampede.fut`; `runs` counts the runs of the function, `ending` says how each ended.
The second `await` in the `finally` block may be cancelled too, which leaves the old future
(`stuck`).

`FlowControlQueue`: `putters` and `getters` are those of asyncio's queue, of which the module models
what the subclass relies on (external). Whether it is a `ThrowableQueue` and clears on resume is chosen
at first. `pending` are the pressure callbacks of `put_nowait_enhanced`.

`FlightRecorder`: `context[t]` is the value of the context variable in a task, the number of a list in `list`.
`Spawn` copies the number and not the list.

`ServiceThread`: `to_parent` and `to_thread` are the callbacks of `call_soon_threadsafe`, in
order. `tpc` goes through `_serve`, `_shutdown_thread` and what follows; `startpc` and `stoppc` are the coroutines of the parent.
Each reads the flags of the other at any time. `method_queue` is read and made by both. `loop` of a queue is that of
whoever made it, because `MethodQueue` is given the loop of the thread and drops it (`threads.py:326`):
a queue made by a call in the parent, before the thread asks for one, takes its calls (`Put`, a message to
the parent) and runs its workers there. The thread flushes such a queue all the same, next to
the workers of another loop: they may take the last call from one another (`TakenTwice`), and
`stop()` cannot join them (`WorkersHere`). `failed` is a thread whose `_shutdown_thread` has raised.

`Worker`: `main` follows `execute_from_commandline`, `startpc` the task of `start()`, `stopper` who runs
the body of `stop()`: the task of a signal or the main program.

`ServiceRestart`: `pc` is where the body of each caller is suspended, `tasks` and `futures` what runs and what is in
`_futures`. The reset clears the events of both services whoever else looks at them; `overtaken` remembers that it did so
while the `start()` or `stop()` of another caller was in progress, because nothing is promised after that.

`LRUCache`: each thread is in a call; those that take the lock hold it over several steps, `__delitem__` and `clear` do not.
`older` is the order in which keys were last inserted or read, by the calls alone: an eviction, a deletion and the place in the
`OrderedDict` do not touch it, so the property compares that place with the use that was made of the keys.
`ManagedCollections`: what the observer knows is `set_mirror` and `dict_mirror`; `unheard` are the elements that were
last taken from the set without a word to it. `Heap`: the sifts of `heapq` (external) are
written out, because their result on a list that is no heap matters.

`ExitStack`: `context` is `__context__` of each exception. `Chained` is `_fix_exception_context`; its loop
may have no end, when a callback raises again what was raised before (`hung`).

`Timer`: a tick of the model is a tenth of a second; the sleep is late by what `Late`
allows and the callback takes what `Runtime` allows. `BlockingDetector`: `armed` and `due` count down to
the alarm and to the next turn of the switch. Callbacks begin, run on and return (`Begin`, `Run`, `Return`); the
alarm raises in the one that runs, which ends or catches the exception and runs on (`OnAlarm`). `elapsed` and `alarms` are the
time since the switch had its turn and the alarms in it, `since` the time the callback has run or has run on; `MaxWait` bounds how
long the switch is kept waiting.

`LazyProxy`: `frames` are the evaluations in progress, the innermost last, since finalizers
and factory may use the proxy. A role is the set of things its methods do with
the object (`Give`). An in-place operator gives the caller the object, which takes the place of the proxy under that name (`name`).
`ServiceProxy`: a thread looks the service up (`Lookup`, and the getter), then calls it (`Forward`).

`AsyncIteration`: one task runs a slice or chunks, another takes items between the items it awaits. An
argument that is not given is `None`; `Or` is Python's `or`, which takes 0 for it too.

## Runs

| Run | Shows | Bounds and why |
|---|---|---|
| `tree_flat` | stop racing start: futures joined, a parent that waits for its children, contexts closed, nobody started late | one parent, a child of each kind, a task and an added future, contexts of both kinds, one service that raises, one stop that is cancelled: every await of start, `__aenter__` among them, meets every await of stop |
| `tree_chain` | a crash marks what it must above and below; every stop ends | three levels with the supervised service in the middle: the walk stops, passes, or begins there; fairness below |
| `tree_dynamic` | every child is started, no orphan is left and children stop in reverse order while children come and go | a child of the class and two that are added and removed at any moment, by two calls at a time: the list changes before, at and after the position of either loop |
| `bucket` | what a bucket gives, in all and in any window; `expected_time` is enough; a bucket with `raises` limits who enters | two clients, four ticks, amounts of a token and of the whole bucket: enough to empty it and fill it twice |
| `supervisor` | its stop leaves nothing up; no service is left started and dead unless others stop services; a group is down before it is restarted; the index is right; what is given up stays down; every crashed service is restarted | the eight supervisors of `Configs`; two services, one added later, one spare; two crashes: one during the restart of the other |
| `program` | waits are justified and leave no task; one run at a time behind a stampede; no wakeup lost in a queue; recorders keep their own messages; a stopped thread has ended and keeps no call; the loop of a worker is closed when all is down; a service that restarts runs its tasks once, and they are up or down with it; and all of them go on | one waiter and one restart; three callers and three runs; three producers, two consumers, room for three; two tasks and two recorders; a caller, a stopper and a worker of the method queue; two signals; two callers, a restart and a start of each. Each is the least at which two of a kind meet the event that disturbs them |
| `data` | the data structures, see the properties of `Data` | two threads and three keys on a cache of two; sets and dicts of two; one receiver, two senders and a task; three callbacks; three ticks of a timer; a detector kept waiting for more than two timeouts (`MaxWait`), by callbacks that are short, as long as the switch sleeps, or as long as the timeout; three vertices and edges; three nodes; two objects and two evaluations in one another; two threads and services; five items, arguments up to three; four items in a heap |

`supervisor` has about 215,000 distinct states, `program` about 184,000, `data` about 209,000.

These runs end in a violation, because the code does something else than its
documents or comments say:

| Run | Disagreement |
|---|---|
| `tree_doc_child` | a removal during start makes start pass over the next child |
| `bucket_doc_enter` | a client that slept in `async with` enters without pouring |
| `sup_doc_index` | `discard` leaves stale positions |
| `locals_doc_coroutine` | a task shares the stack of its parent, and logs to the wrong recorder |
| `graph_doc_topsort` | `topsort` raises for every graph that has a vertex |

Other disagreements met while reading, which no run states: the user guide has the futures
cancelled before the wait for the shutdown signal, and the code waits first
(`services.py:865`); `on_started` is called on a service stopped while its children
start (`services.py:792`); two removals that end during the child loop of a `stop()` move its
reversed iterator past a child, which is left running, although a dependency "will be started/stopped with this
service" (`services.py:551`); an asynchronous context whose `__aenter__` is suspended while `stop()`
closes the stacks is pushed afterwards and never released (`services.py:574`); `add` of a service that
has a supervisor raises, but only after it has overwritten the position in `_index`
(`supervisors.py:76`, against the comment at line 42); a future added during `stop()` is not joined
(`services.py:918`); an amount above the capacity of a bucket is refused for ever, although
the documentation of `Bucket` uses one (`times.py:114`), and `over` sets the capacity and not
the rate (`times.py:140`); one for all does not wait for a service that somebody else is stopping
(`supervisors.py:208`). `WaitResult.stopped` is true after a timeout too, although nothing was
stopped (`services.py:76`), and `wait(timeout=...)` without a coroutine trips over the assertion
that the service is stopped (`services.py:756`). The calls of a service thread
whose method queue was made in the parent run on the loop of the parent, although the docstring says "Uses a
queue to run functions inside the thread" (`threads.py:397`), and the workers of that queue can
not be joined by the thread. An assignment to a key an `LRUCache` has leaves it in its place, so that a key
that was just set may be the next to go, and in a full cache it evicts another although nothing new comes in,
against "When a new key is inserted and the limit has
been exceeded, the *Least Recently Used* key will be discarded" (`utils/collections.py:429`). `ManagedUserSet` does not override `remove()`, which
deletes without a word to its callbacks, although the class "adds callbacks for when keys are get/set/deleted" (`utils/collections.py:531`), and a
`pop()` whose callback raises has taken the element already. `aslice` reads a stop of 0 as none, so
`chunks(it, 1)` gives one chunk with everything, against "chunks with `n` elements each" (`utils/aiter.py:147` and
`utils/aiter.py:161`); the property `IterationRight` leaves these arguments out. A
strong connection of a signal cannot be cut, and a disconnect of what was never connected
raises if a sender is given (`signals.py:127`). `_khan62` leaves out what hangs on a cycle without a
word. The blocking detector ends a callback that is short itself when the switch is due behind it. `reattach` leaves the node in the list of its old parent and the roots of its descendants
as they were (`utils/trees.py:69`).

Deadlock is not checked: a program may stop, be told to do nothing more, or reach the bounds.

## Fairness

`ServiceTree!FairSpec`: the steps of a stop body are weakly fair per service (the
event loop runs what is ready and hooks of `stop` return or raise), and a cancelled task ends. Nothing
obliges `on_start` to return, a caller to call, or a task to end that was not cancelled.

`Supervisor!FairSpec`: the supervisor's task is weakly fair (its wait times out after
five seconds), and the bodies of `start()` and `stop()` of the services end. The restart of a crashed service
is claimed only while the supervisor is neither stopped nor failed. Crashes are never obliged.

`Program!Fairness`: each loop goes on: the steps of the loop of a waiter, of the consumers of a queue, of the
two loops of a service thread (their tasks and their callbacks), and of the main
program and the signal's task of a worker are weakly fair. Where such a step is the end of a hook or of a
function of the user this says that it returns or raises: the hooks of a service thread, the functions called into a
thread, as the flush runs them (`T!ThreadStep`), `on_stop` of the worker and the stop of its child
(`K!OnStopDone`, `K!StopGoesOn`). With one that blocks for ever
`NobodyWaitsForever` does not hold, nor could it. The function behind a stampede, and the calls in the
workers of a method queue, need not return. `Data` states safety only: its parts are used one call at a time.

## Proofs

All safety properties of the runs that pass are proved, for every value of the constants their
assumptions allow. Few of them are inductive alone; what was added to each is below.

### The tree

From `ConstantTypes` and `OneParent` (a service has one parent). Except for `TypeCorrect` the
theorems have the hypothesis `Orderly`: the program around the tree adds to and removes from
services that were not told to stop. It is a constant of the model, true in the three runs that pass
and false in `tree_doc_child`.

- `TypeCorrect`: `TypeOK` is an invariant. It is inductive.
- `FuturesJoined`: `JoinedBeforeShutdown`. The invariant is strengthened by what holds of futures at
  each point of the stop body: a future is in `_futures` as long as it runs, a body of start that
  has passed its last look at `should_stop` adds no more, and the awaited snapshot covers what still
  runs.
- `NoChildLeftRunning`: `NoOrphan`. It needs that start and stop walk the same list: a child behind
  the position of the stop loop is stopped or not started, and a start body that awaits a child is
  the only one that can start the next, after looking at `should_stop`. Any number of removals
  may be on their way; the claim ends where two of them have ended in one stop loop (`shortened`).
- `NoChildStartsLate`: the action property `NoLateStart`, from the same invariant.
- `CrashReachesDown`, `CrashReachesUp`: `CrashDown` and `CrashUp`. What a crash marks is closed
  under started children and ends above at a supervisor. The strengthening (`CrashInv`) keeps new
  arrivals out of the crashed part: a service starts before its children, what
  `on_init_dependencies` returns is outside the tree until the start, and only started services have
  futures that may raise.
- `ContextsClosed`: `ContextsReleased`, for the services whose stacks were not closed while a context
  was being entered; with the fact that `_stopped` is set before a stop body
  begins (`ContextInv`): so nobody begins to enter a context behind its back.
- `ParentStopsLast`: `ParentLast`. `WaitInv` says whose stop body each task runs that a child loop
  made, and that a stop begun by the parent is over or the parent stands at that child.
- `ChildrenStopInReverse`: `ReverseOrder`. `OrderInv` relates the position of the stop loop to the
  list: of two children the parent stops itself, the earlier is stopped only once the later is
  done (`StopOrder`), and the child it stands at is at that position or lower, by as many as
  `remove_dependency` calls may shorten the list under it (`LoopOrder`).
- `StartIsComplete`: `AllStarted`. `StartInv` says the same of the start loop: everything up to its
  position is started, a child is removed only after it, and each child has returned from its start
  or is the one that is awaited.

### The bucket

From `BucketConstants`, on rate and capacity:

- `BucketTypeCorrect`: tokens stay between zero and the capacity.
- `RaisesLimitsEntry`: a bucket with `raises` lets clients in at its rate (nobody sleeps in it, so
  who enters has poured).
- `WindowBounded`: in no window is more given than two buckets and what the rate fills.
- `BucketLimits`: the bucket implements `RateLimit`, for any number of clients.
- `ExpectedTimeRight`: `ExpectedTimeEnough`. `SleepInv` follows a client that was refused while
  nobody else was served: what it wants is in the bucket, or will be when its sleep is over, at each
  tick and each lazy refill.

### The supervisor

From `SupervisorConstants`, for every group, strategy and number of crashes:

- `SupervisorTypeCorrect`: `TypeOK`. It needs which jobs a strategy makes and that the job at hand
  is the one the task awaits (`TypeInv`): otherwise the head of its list might not be there.
- `PositionsRight`: `IndexRight`. With it goes that `_services` is a sequence, that only services
  with a supervisor are indexed (so that `add` and `insert` bring in a new one), but for those of an
  `add` that failed (`misplaced`), of which nothing is claimed, and that the
  position read before `replacement` is awaited is a number. Without `discard` no position moves in
  between.
- `NoZombies`: `NoZombie`. The strengthening says who runs `stop()` bodies while nobody outside
  does: the task, which awaits all of them before it resets a service or goes on (`Attended`). So no
  service is started again, and no event forgotten, while an old `stop()` could still take its tasks
  down.
- `ForfeitedStaysDown`: the action property `GivenUp`, from `TypeInv`: the two forfeit strategies
  make no restarts.
- `GroupStops`: `StopStopsAll`. `StopsInv` says that there is one `start()` body, the one the task
  awaits, that a service told to stop is down or its `stop()` still runs or raised, and that what is
  up was told to stop or is ahead of the loop of `on_stop`.
- `DownBeforeRestart`: `AllDown`. Beyond `StopsInv`, no service is twice in the list (`GroupInv`)
  and, while a group is restarted, all but the one at hand were told to stop (`DownInv`).

### The parts of a program

From `ProgramConstants`: counts are numbers, a queue has room for something, sets of tasks that are
counted are finite, and no task is called like a place in a program. `PartSteps` says that a step of
`Program` is a step of each part or leaves it alone, so each part is proved on its own.

- `StampedeProtected`: `StampedeRight`. There is one run at a time, the last, and `self.fut` belongs
  to it or was left behind (`OneInRun`); how a run ended agrees with its future (`Endings`); who
  waits does so for a run that was not over when it called (`NotStale`).
- `WaitsJustified`: `WaitsRight`. `FuturesRight` says why each future of a wait is done: its event
  is set, or was and a restart has cleared it since.
- `RecordersOwn`: `RecorderRight`. A task that shares with nobody owns its list, which holds the
  recorders of its blocks (`ListsOwned`), and a recorder is in the block of one task once
  (`EnteredOnce`).
- `WakeupsKept`: `NoLostWakeup`. `QueueInv`: the waiters in line are the tasks that wait, once each
  (`Lined`); while consumers wait there is one woken for each thing to get, and while producers wait
  one woken for each free place, but for what `clear()` freed (`GettersOwed`, `PuttersOwed`). That
  these are counts and not just "somebody" is what makes them survive a cancellation between the
  wakeup and the turn of the task.
- `WorkerEndsClean`: `CleanExit` and `CrashReported`. Who runs the body of `stop()` and what is
  known once it is over (`StopperRight`, `KidDown`, `ClosedLast`).
- `RestartsClean`: `RunsOnce` and `UpOrDown`. As long as no reset overtakes anybody: one body of
  `start()` at a time, which finds no old tasks (`StartsOnce`); one body of `stop()`, which awaits
  everything there is, because nothing is added to a service told to stop (`StopsOnce`); and a
  service is up with its child (`UpTogether`). `LifeIsRight` joins the two to `LifeRight`.
- `NoCallLost`: `ThreadRight`. `ThreadInv`: where a call can be agrees with the queue it was sent to
  (`Placed`), whichever loop that queue is on; a queue exists where one is used (`HasQueue`), and each
  thread makes at most one (`MadeBound`, which bounds their number); after the flush the flushed
  queue has late calls only, and after its stop no workers if they are in the thread (`Flushed`).
  So a call without an answer when the thread has ended came late, was in a queue that nobody flushed, or is in
  the hands of a worker in the parent.
- `ProgramTypes`: `TypeOK` of all parts, which each of these invariants begins with.

### The parts that are used one at a time

From `DataConstants`: bounds are numbers, a set of delays has a longest, a limit leaves room for
one key, items of a heap are numbers, a slice asks for no more than there is, the keys, vertices and
nodes are finitely many, and `None` is none of the operands. `PartSteps` reduces each part to its own
steps, as in the program.

Functions that call themselves (walks, sifts, slices, sums) are recursive functions, never
`RECURSIVE` operators. That such a function exists and satisfies its equation is proved from a
number that shrinks at each call (`RecursiveFunction`, `TailRecursion`). What it computes is
proved by the least counterexample (`LeastNumber`, `MeasureInduction`), because the induction theorems of the
library take an operator.

- `ObserversKnow`: `ObserverKnows`. It is inductive with the types: each method tells what it is about to
  change, and a callback that raises leaves the collection as it was, but for those of `update()`. What
  `remove()` and a `pop()` whose callback raises take away is all the observer of a set has too much (`unheard`).
- `SignalsDeliver`: `Delivered`. `TablesRight` says that the tables hold what was connected and not
  cut, for the functions that live, as long as no two senders share a hash.
- `TimersKeepTime`: `TimersRight`. For the timer, what each point of the loop knows of the sleep and
  of the one before it (`FirstTick`, `SleptLong`). For the detector, that the time since the last turn
  of the switch and the time to the next alarm make up one timeout more than the alarms there were, and
  that the time a callback has run (or has run on) and the time to the alarm make up no more than
  one (`AlarmSet`): so the alarms come each timeout, and in a callback.
- `GlobalsStayRight`: `GlobalsRight`. A stream is redirected to a block that redirects it
  (`StreamsInv`). `sys.path` is what it was and what the blocks have inserted, each one its own
  (`Insertions`); without the last part a block could take away the entry of another.
- `CollectionsStayRight`: `CollectionsRight`. `LRUInv`: who is in a call holds the lock, and what the
  call has looked at still holds unless a deletion disturbed it (`AtWork`): after its look at the limit
  there is room, and `update()` exceeds the limit by no more than it has still to drop. The keys come in the
  order of their last uses (`Recency`), where a key that is read is out of the cache until it is put back (`Reading`). For the heap, that no
  parent is larger than its children (`Ordered`), through the sifts: `OrderedBut` and
  `OrderedAround` say where the order may be broken while an item moves up or down. Nothing is claimed
  once the heap was used as a list (`raw`).
- `ExitsLikeNested`: `LikeNested`. Callbacks run last first, also those pushed by callbacks
  (`StackOrder`). The exception that is handed on is the one `with` statements would, and its
  `__context__` chain is the exceptions raised so far, the last first (`Chain`). The step is that the loop of
  `_fix_exception_context` ends at the last of the chain, which is where the new one must be
  linked, as long as no callback raises again what was raised before.
- `GraphsStayRight`: `GraphsRight`. `KhanHolds`: the count of a vertex is the number of edges from
  vertices that were not popped, so it is zero only for those that are ready or popped; at the end
  a vertex that was not popped hangs on another one, and so, the vertices being finitely many, on a
  cycle. For nodes, `NoCircle` and `RootsTrue`: while `reattach` is used on nodes without a
  parent only, its test against the root is enough, because that root is reached by the walk.
- `LazyStaysRight`: `LazyRight`. For proxies, one evaluation at a time unless the evaluated code needs the
  object itself (`OneEvaluation`), and which can be there at once if it does (`Evaluations`); for service
  proxies, the calls in progress are for the one service (`OneService`). For slices, the k-th item
  yielded is the one at `start + k * step` of those awaited, and the indices still wanted are the
  rest of the range (`SliceHolds`), which is Python's where neither stop nor step is 0 (`AskedIs`); a chunk lacks what its slice still gives (`ChunksHold`); and what was
  taken by both tasks is the iterator so far, in order (`TakenInOrder`).
- `DataTypes`: `TypeOK` of all parts.

### Only model-checked

Liveness (`StopCompletes`, `Restarted`, `NobodyWaitsForever`), because fairness and `ENABLED` are out
of reach of the prover here, and the properties of the runs that end in a violation.

## Not modelled

- A restart of a tree with more than a parent and a child, or whose hooks raise; in `Supervisor` a service is a leaf.
- A supervised service's own children: in `Supervisor` its `up` stands for all of them.
- Services given to the constructor of a supervisor, which are not indexed, and `CrashingSupervisor`.
- The keepalive of a service thread, `cast_thread`, its restart; the signals of a worker
  that dump and debug; its monitor.
- `symbol_by_name`, `parse_symbol` and entry points; the `FastUser...` collections and `DictAttribute`, which
  pass every call on; `update` and `to_dot` of a graph; what draws a tree.
- Wording, logging, formatting, conversions of time; `on_stop` raising `MemoryError` in a supervisor.
- Introspection of classes, mocks, the choice and the patching of an event loop.

## Plan

The modules above are done, and so are the proofs of their safety properties. What is left, the
most important first:

1. Abstract promises: a queue that loses and reorders nothing over `FlowControlQueue`, a remote call over `ServiceThread`.
2. `Supervisor` over `ServiceRestart`: a restart by the supervisor of a service that has children.
