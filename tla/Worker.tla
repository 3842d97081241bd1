------------------------------- MODULE Worker -------------------------------
(***************************************************************************)
(* The worker (mode/worker.py): a service started from the command line,   *)
(* with one child.  The main program runs the loop until start() is done,  *)
(* then until stop() is done, then closes it; a signal stops the worker    *)
(* from a task of its own, at any time once the handlers are installed.    *)
(* Hooks, and the start of the child, may raise and may never return;      *)
(* cleaning up the child ends.                                             *)
(***************************************************************************)
EXTENDS Integers

CONSTANT MaxSignals  \* bound: signals received

VARIABLES
    daemon,
    installed,   \* the signal handlers are installed
    signals,     \* signals so far
    signalfut,   \* _signal_stop_future
    startpc,     \* start(): _starting_fut
    stoppc,      \* the body of stop()
    stopper,     \* who runs it
    stopped, crashed,         \* flags of the worker
    kid_started, kid_stopped, \* flags of the child
    kid_up,      \* the child has tasks running
    main,        \* execute_from_commandline
    closed,      \* the loop is closed
    exit_code    \* -1 while the program runs

vars == <<daemon, installed, signals, signalfut, startpc, stoppc, stopper, stopped,
          crashed, kid_started, kid_stopped, kid_up, main, closed, exit_code>>
signalvars == <<signals, signalfut>>
kid == <<kid_started, kid_stopped, kid_up>>
mainvars == <<main, closed, exit_code>>

Over == {"returned", "raised", "cancelled"}
StartOver == startpc \in Over

TypeOK ==
    /\ {daemon, installed, stopped, crashed, kid_started, kid_stopped, kid_up, closed} \subseteq BOOLEAN
    /\ signals \in 0..MaxSignals
    /\ signalfut \in {"none", "new", "stopping", "done", "raised"}
    /\ startpc \in {"on_first_start", "on_start", "child", "on_started"} \cup Over
    /\ stoppc \in {"none", "on_stop", "child", "finish", "done", "raised"}
    /\ stopper \in {"none", "signal", "main"}
    /\ main \in {"start", "shutdown", "run_signal", "run_stop", "shutdown_loop", "exit"}
    /\ exit_code \in {-1, 0, 1}

Init ==
    /\ daemon \in BOOLEAN
    /\ installed = FALSE /\ signals = 0 /\ signalfut = "none"
    /\ startpc = "on_first_start"
    /\ stoppc = "none" /\ stopper = "none"
    /\ stopped = FALSE /\ crashed = FALSE
    /\ kid_started = FALSE /\ kid_stopped = FALSE /\ kid_up = FALSE
    /\ main = "start" /\ closed = FALSE /\ exit_code = -1

LoopRuns == main # "exit" /\ ~closed
ShouldStop == stopped \/ crashed

-----------------------------------------------------------------------------
(* start(), in _starting_fut.                                              *)

StartGoto(from, to) == LoopRuns /\ startpc = from /\ startpc' = to

\* default_on_first_start installs the handlers last; should_stop after it
\* breaks off, and start() is over.
FirstStarted ==
    /\ StartGoto("on_first_start", IF ShouldStop THEN "returned" ELSE "on_start")
    /\ installed' = TRUE
    /\ UNCHANGED <<daemon, signalvars, stoppc, stopper, stopped, crashed, kid, mainvars>>

OnStartDone ==
    /\ StartGoto("on_start", IF ShouldStop THEN "returned" ELSE "child")
    /\ kid_started' = (kid_started \/ ~ShouldStop)
    /\ UNCHANGED <<daemon, installed, signalvars, stoppc, stopper, stopped, crashed,
                   kid_stopped, kid_up, mainvars>>

\* maybe_start() of the child: its tasks are made unless it should stop.
ChildStarted ==
    /\ StartGoto("child", "on_started")
    /\ kid_up' = ~(kid_stopped \/ crashed)
    /\ UNCHANGED <<daemon, installed, signalvars, stoppc, stopper, stopped, crashed,
                   kid_started, kid_stopped, mainvars>>

\* A daemon waits until it is stopped, or crashes.
OnStarted ==
    /\ StartGoto("on_started", "returned")
    /\ daemon => ShouldStop
    /\ UNCHANGED <<daemon, installed, signalvars, stoppc, stopper, stopped, crashed, kid, mainvars>>

StartRaises ==
    /\ startpc \in {"on_first_start", "on_start", "child"}
    /\ StartGoto(startpc, "raised")
    /\ UNCHANGED <<daemon, installed, signalvars, stoppc, stopper, stopped, crashed, kid, mainvars>>

\* A task of the child crashes it, and the worker with it.
ChildCrashes ==
    /\ LoopRuns /\ kid_up /\ ~crashed
    /\ crashed' = TRUE
    /\ UNCHANGED <<daemon, installed, signalvars, startpc, stoppc, stopper, stopped, kid, mainvars>>

-----------------------------------------------------------------------------
(* stop().                                                                 *)

BeginStop(by) ==
    /\ stopped' = TRUE
    /\ stoppc' = "on_stop"
    /\ stopper' = by

\* Mutant: a child that has not started is not told to stop.
OnStopDoneButChild ==
    /\ LoopRuns /\ stoppc = "on_stop"
    /\ stoppc' = "child"
    /\ kid_stopped' = kid_up
    /\ UNCHANGED <<daemon, installed, signalvars, startpc, stopper, stopped, crashed,
                   kid_started, kid_up, mainvars>>

OnStopDone ==
    /\ LoopRuns /\ stoppc = "on_stop"
    /\ stoppc' = "child"
    /\ kid_stopped' = TRUE
    /\ UNCHANGED <<daemon, installed, signalvars, startpc, stopper, stopped, crashed,
                   kid_started, kid_up, mainvars>>

OnStopRaises ==
    /\ LoopRuns /\ stoppc = "on_stop"
    /\ stoppc' = "raised"
    /\ UNCHANGED <<daemon, installed, signalvars, startpc, stopper, stopped, crashed, kid, mainvars>>

\* The child gathers its tasks, the worker its own, then the exit stacks.
StopGoesOn ==
    /\ LoopRuns
    /\ \/ stoppc = "child" /\ stoppc' = "finish" /\ kid_up' = FALSE
       \/ stoppc = "finish" /\ stoppc' = "done" /\ UNCHANGED kid_up
    /\ UNCHANGED <<daemon, installed, signalvars, startpc, stopper, stopped, crashed,
                   kid_started, kid_stopped, mainvars>>

-----------------------------------------------------------------------------
(* Signals.                                                                *)

\* _schedule_shutdown: the first signal makes the task, the others do nothing.
Signal ==
    /\ LoopRuns /\ installed /\ signals < MaxSignals
    /\ signals' = signals + 1
    /\ signalfut' = IF signals = 0 THEN "new" ELSE signalfut
    /\ UNCHANGED <<daemon, installed, startpc, stoppc, stopper, stopped, crashed, kid, mainvars>>

\* _stop_on_signal: stop() returns at once if somebody stops the worker already.
CancelStart == startpc' = IF StartOver THEN startpc ELSE "cancelled"

SignalTask ==
    /\ LoopRuns
    /\ \/ /\ signalfut = "new" /\ ~stopped
          /\ signalfut' = "stopping" /\ BeginStop("signal") /\ UNCHANGED startpc
       \/ /\ signalfut = "new" /\ stopped
          /\ signalfut' = "done" /\ CancelStart /\ UNCHANGED <<stoppc, stopper, stopped>>
       \/ /\ signalfut = "stopping" /\ stoppc = "done"
          /\ signalfut' = "done" /\ CancelStart /\ UNCHANGED <<stoppc, stopper, stopped>>
       \/ /\ signalfut = "stopping" /\ stoppc = "raised"
          /\ signalfut' = "raised" /\ UNCHANGED <<startpc, stoppc, stopper, stopped>>
    /\ UNCHANGED <<daemon, installed, signals, crashed, kid, mainvars>>

-----------------------------------------------------------------------------
(* execute_from_commandline.                                               *)

\* exiting() turns an exception into the exit code.
Awaited(how) == \/ main = "run_signal" /\ signalfut = how
                \/ main = "run_stop" /\ stoppc = how
Exit(code) == main' = "exit" /\ exit_code' = code

MainGoesOn ==
    /\ \/ /\ main = "start" /\ StartOver
          /\ main' = "shutdown" /\ UNCHANGED <<stoppc, stopper, stopped, exit_code>>
       \/ /\ main = "shutdown" /\ signalfut \in {"new", "stopping"}
          /\ main' = "run_signal" /\ UNCHANGED <<stoppc, stopper, stopped, exit_code>>
       \/ /\ main = "shutdown" /\ signalfut \notin {"new", "stopping"} /\ ~stopped
          /\ main' = "run_stop" /\ BeginStop("main") /\ UNCHANGED exit_code
       \/ /\ main = "shutdown" /\ signalfut \notin {"new", "stopping"} /\ stopped
          /\ main' = "shutdown_loop" /\ UNCHANGED <<stoppc, stopper, stopped, exit_code>>
       \/ /\ Awaited("done")
          /\ main' = "shutdown_loop" /\ UNCHANGED <<stoppc, stopper, stopped, exit_code>>
       \/ /\ Awaited("raised")
          /\ Exit(1) /\ UNCHANGED <<stoppc, stopper, stopped>>
    /\ UNCHANGED <<daemon, installed, signalvars, startpc, crashed, kid, closed>>

\* _shutdown_loop: what still runs is cancelled, the loop is closed, and the
\* reason of a crash is raised; an exception of start() goes on after it.
ShutdownLoop ==
    /\ main = "shutdown_loop"
    /\ closed' = TRUE
    /\ Exit(IF crashed \/ startpc = "raised" THEN 1 ELSE 0)
    /\ UNCHANGED <<daemon, installed, signalvars, startpc, stoppc, stopper, stopped, crashed, kid>>

StartStep == FirstStarted \/ OnStartDone \/ ChildStarted \/ OnStarted \/ StartRaises
Next ==
    \/ StartStep \/ ChildCrashes \/ OnStopDone \/ OnStopRaises \/ StopGoesOn
    \/ Signal \/ SignalTask \/ MainGoesOn \/ ShutdownLoop

Spec == Init /\ [][Next]_vars

-----------------------------------------------------------------------------
\* When the loop is closed stop() has run to its end, once, and the child is
\* down however its start was interleaved with it, unless on_stop raised.
CleanExit ==
    closed => stoppc \in {"done", "raised"} /\ (stoppc = "done" => ~kid_up)

\* A program that exits with 0 had no crash, and start() did not raise.
CrashReported == exit_code = 0 => ~crashed /\ startpc # "raised"

\* A signal ends the program even if a hook of start() never returns, unless
\* on_stop raised.
SignalEnds == signalfut = "new" ~> main = "exit" \/ stoppc = "raised"
=============================================================================
