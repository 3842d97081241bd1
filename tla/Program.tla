------------------------------ MODULE Program ------------------------------
(***************************************************************************)
(* The concurrent parts of a program that do not share state with one      *)
(* another, checked in one run: an initial state picks a part, and only    *)
(* the actions of that part happen.                                        *)
(***************************************************************************)
EXTENDS Integers, FiniteSets

\* The tasks, services and bounds of each part, under the names of its module
\* where two parts do not share one.
CONSTANTS
    Waiter, MaxWaitRestarts,
    Protected, MaxRuns,  \* callers of a function protected from stampedes
    Producer, Consumer, Enhanced, Size, MaxPuts, MaxErrors, MaxSwitches,
    LogTask, Recorder, MaxLists, MaxMessages,
    Caller, Stopper, QueueWorker,
    MaxSignals,
    Restarter, MaxRestarts, MaxStarts,
    None

\* Counts are numbers, tasks are not words of a program counter, and a queue
\* has room for something.
ASSUME ProgramConstants ==
    /\ {MaxWaitRestarts, MaxRuns, MaxPuts, MaxErrors, MaxSwitches, MaxLists, MaxMessages,
        MaxSignals, MaxRestarts, MaxStarts} \subseteq Nat
    /\ Size \in Nat \ {0} /\ Enhanced \subseteq Producer
    /\ IsFiniteSet(Producer) /\ IsFiniteSet(Consumer) /\ IsFiniteSet(Caller)
    /\ IsFiniteSet(Restarter)
    /\ None \notin Recorder \cup Caller
    /\ Caller \cap {"start", "off", "wait", "get"} = {}

VARIABLES
    part,
    is_set, restart_count, pc, call, timed, fut, count0, seen, on_start, awaited,
    self_fut, runs, futstate, ending, spc, on, runs0, stuck,
    throwable, clear_on_resume, queue, errors, suspended, putters, getters, ppc, cpc,
    pending, puts, thrown, switches, cleared,
    alive, context, list, lists, entered, timer, logs, extra, messages, sharing, replayed,
    wait_for_thread, thread_started, started, stopped, crashed, shutdown, running,
    to_parent, to_thread, busy, startpc, stoppc, tpc, callpc, promise, qid,
    method_queue, made, loop, method_queues, served, flushing, worker, flushed, late,
    daemon, installed, signals, signalfut, worker_startpc, worker_stoppc, stopper,
    worker_stopped, worker_crashed, kid_started, kid_stopped, kid_up, main, closed, exit_code,
    tree_started, tree_stopped, tree_crashed, restarting, tree_pc, tasks, futures, cancelled,
    gathered, restarts, starts, overtaken

W == INSTANCE ServiceWait WITH MaxRestarts <- MaxWaitRestarts
S == INSTANCE Stampede WITH Caller <- Protected
Q == INSTANCE FlowControlQueue
F == INSTANCE FlightRecorder WITH Task <- LogTask
T == INSTANCE ServiceThread WITH Worker <- QueueWorker, queue <- method_queues
K == INSTANCE Worker WITH startpc <- worker_startpc, stoppc <- worker_stoppc,
       stopped <- worker_stopped, crashed <- worker_crashed
R == INSTANCE ServiceRestart WITH Caller <- Restarter,
       started <- tree_started, stopped <- tree_stopped, crashed <- tree_crashed,
       pc <- tree_pc, awaited <- gathered, restart_count <- restarts

wait == <<is_set, restart_count, pc, call, timed, fut, count0, seen, on_start, awaited>>
stampede == <<self_fut, runs, futstate, ending, spc, on, runs0, stuck>>
flow == <<throwable, clear_on_resume, queue, errors, suspended, putters, getters,
          ppc, cpc, pending, puts, thrown, switches, cleared>>
recorders == <<alive, context, list, lists, entered, timer, logs, extra, messages,
               sharing, replayed>>
threads == <<wait_for_thread, thread_started, started, stopped, crashed, shutdown, running,
             to_parent, to_thread, busy, startpc, stoppc, tpc, callpc, promise, qid,
             method_queue, made, loop, method_queues, served, flushing, worker, flushed, late>>
process == <<daemon, installed, signals, signalfut, worker_startpc, worker_stoppc, stopper,
             worker_stopped, worker_crashed, kid_started, kid_stopped, kid_up, main,
             closed, exit_code>>
tree == <<tree_started, tree_stopped, tree_crashed, restarting, tree_pc, tasks, futures, cancelled,
          gathered, restarts, starts, overtaken>>
vars == <<part, wait, stampede, flow, recorders, threads, process, tree>>

\* The parts that are not picked start in one of their initial states.
Init ==
    /\ part \in {"wait", "stampede", "queue", "recorder", "thread", "worker", "restart"}
    /\ W!Init /\ S!Init /\ Q!Init /\ F!Init /\ T!Init /\ K!Init /\ R!Init
    /\ part # "queue" => queue = <<>> /\ ~throwable /\ ~clear_on_resume /\ ~suspended
    /\ part # "recorder" => alive = {CHOOSE t \in LogTask : TRUE}
    /\ part # "thread" => wait_for_thread
    /\ part # "worker" => daemon

WaitStep ==
    /\ part = "wait" /\ W!Next
    /\ UNCHANGED <<part, stampede, flow, recorders, threads, process, tree>>
StampedeStep ==
    /\ part = "stampede" /\ S!Next
    /\ UNCHANGED <<part, wait, flow, recorders, threads, process, tree>>
QueueStep ==
    /\ part = "queue" /\ Q!Next
    /\ UNCHANGED <<part, wait, stampede, recorders, threads, process, tree>>
RecorderStep ==
    /\ part = "recorder" /\ F!Next
    /\ UNCHANGED <<part, wait, stampede, flow, threads, process, tree>>
ThreadStep ==
    /\ part = "thread" /\ T!Next
    /\ UNCHANGED <<part, wait, stampede, flow, recorders, process, tree>>
WorkerStep ==
    /\ part = "worker" /\ K!Next
    /\ UNCHANGED <<part, wait, stampede, flow, recorders, threads, tree>>
RestartStep ==
    /\ part = "restart" /\ R!Next
    /\ UNCHANGED <<part, wait, stampede, flow, recorders, threads, process>>

Next == WaitStep \/ StampedeStep \/ QueueStep \/ RecorderStep \/ ThreadStep \/ WorkerStep
        \/ RestartStep

\* The event loops go on with the tasks that can.  The hooks of a service thread and of
\* a worker, and the functions called into a thread, return; other code of the user need
\* not, and nobody has to call, cancel, stop or signal anything.
Fairness ==
    /\ \A w \in Waiter : WF_(wait)(part = "wait" /\ W!LoopStep(w))
    /\ \A x \in Consumer : WF_(flow)(part = "queue" /\ Q!ConsumerStep(x))
    /\ WF_(threads)(part = "thread" /\ (T!ThreadStep \/ T!ThreadCallback))
    /\ WF_(threads)(part = "thread" /\ (T!ParentStep \/ T!ParentCallback))
    /\ WF_(process)(part = "worker" /\ (K!OnStopDone \/ K!StopGoesOn))
    /\ WF_(process)(part = "worker" /\ K!SignalTask)
    /\ WF_(process)(part = "worker" /\ (K!MainGoesOn \/ K!ShutdownLoop))

Spec == Init /\ [][Next]_vars /\ Fairness

-----------------------------------------------------------------------------
\* The variables of every part have their types.
TypeOK == W!TypeOK /\ S!TypeOK /\ Q!TypeOK /\ F!TypeOK /\ T!TypeOK /\ K!TypeOK /\ R!TypeOK

\* What a wait on a service returns has a reason in what happened during the
\* call, and no task of it is left behind.
WaitsRight == W!ResultJustified /\ W!NoTaskLeft

\* A protected function runs once at a time, its callers get the result of a
\* run that was not over when they called, and only an exception leaves one
\* without an answer.
StampedeRight == S!OneRun /\ S!HungByException

\* No consumer waits while there is something to get, and no producer while
\* there is room.
NoLostWakeup == Q!NoLostWakeup

\* A task logs to the recorder of the innermost block it is in, and a recorder
\* keeps, and replays, only what was logged in a block that is not over.
RecorderRight == F!OwnRecorder /\ F!ArmedInside /\ F!OwnMessages

\* When stop() of a service thread returns the thread has ended, and a call
\* into a thread is never lost: it waits somewhere until it is answered.
ThreadRight == T!StopMeansEnded /\ T!CallKept /\ T!CallAnswered

\* The loop of a worker is closed after stop() is done and the child is down,
\* and the exit code tells of a crash or of an exception of start().  A service
\* that restarts, while others start and stop it, runs its tasks once, and they
\* are down or up with it, unless its reset overtakes one of the others.
LifeRight == K!CleanExit /\ K!CrashReported /\ R!RunsOnce /\ R!UpOrDown

\* Who is woken goes on, consumers release the pressure in the end, start() and
\* stop() of a thread end, and so does a program that gets a signal.
NobodyWaitsForever ==
    W!WaiterWakes /\ Q!PressureReleased /\ T!StartEnds /\ T!StopEnds /\ K!SignalEnds
=============================================================================
