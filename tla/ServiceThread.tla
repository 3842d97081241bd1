--------------------------- MODULE ServiceThread ---------------------------
(***************************************************************************)
(* A service in a thread of its own (ServiceThread, MethodQueue and        *)
(* QueueServiceThread in mode/threads.py).                                 *)
(*                                                                         *)
(* There are two event loops.  Tasks of the parent loop start and stop the *)
(* service and call functions in the thread; the thread runs _serve().     *)
(* The loops talk through call_soon_threadsafe, a FIFO of callbacks each   *)
(* way, and through flags and attributes that both read at any time.       *)
(* A method queue and its workers are on the loop of whoever made it:      *)
(* MethodQueue is given the loop of the thread and does not pass it on.    *)
(***************************************************************************)
EXTENDS Integers, Sequences, FiniteSets, SequencesExt

CONSTANTS
    Caller,   \* tasks of the parent that call call_thread
    Stopper,  \* tasks of the parent that call stop
    Worker,   \* method queue workers (num_workers)
    None

VARIABLES
    wait_for_thread,
    thread_started, started, stopped, crashed, shutdown,  \* flags
    running,    \* _thread_running: the future start() awaits
    to_parent, to_thread,  \* callbacks scheduled on the two loops
    busy,       \* the parent task that must go on before any other
    startpc, stoppc, tpc,  \* start(), stop() of each stopper, the thread
    callpc, promise, qid,  \* call_thread() of each caller, and the queue it uses
    method_queue, made,    \* _method_queue: a queue number; queues made
    loop,       \* the loop each of the queues made is bound to
    queue,      \* calls in each method queue
    served,     \* the method queue the thread has started
    flushing,   \* the method queue the thread is stopping
    worker,     \* "off", "wait", "get" or the call it processes
    flushed,    \* the call flush() processes
    late        \* history: calls that reached a queue after flush()

flags == <<thread_started, started, stopped, crashed, shutdown>>
parent == <<busy, startpc, stoppc>>
calls == <<callpc, qid>>
mq == <<method_queue, made, loop>>
work == <<queue, served, flushing, worker, flushed, late>>
vars == <<wait_for_thread, flags, running, to_parent, to_thread, parent, tpc,
          calls, promise, mq, work>>

Queue == 1..(Cardinality(Caller) + 1)
Notify == <<"notify", None>>
Exception == <<"exception", None>>
Shutdown == <<"shutdown", None>>
Answer(c, how) == <<how, c>>
Put(c) == <<"put", c>>
How == {"result", "error"}
SetStopped == None

TypeOK ==
    /\ {wait_for_thread, thread_started, started, stopped, crashed, shutdown} \subseteq BOOLEAN
    /\ running \in {"none", "pending", "result", "exception"}
    /\ to_parent \in Seq({Notify, Exception, Shutdown} \cup {Put(c) : c \in Caller}
                          \cup {Answer(c, h) : c \in Caller, h \in How})
    /\ to_thread \in Seq(Caller \cup {SetStopped})
    /\ busy \in Caller \cup {"start", None}
    /\ startpc \in {"idle", "check", "wait", "returned", "raised"}
    /\ stoppc \in [Stopper -> {"idle", "shutdown", "join", "done", "skipped", "timeout"}]
    /\ tpc \in {"none", "boot", "starting", "check", "create", "return", "notify", "serve",
                "crash", "stop", "flush", "stop_workers", "shutdown", "finish", "failed", "ended"}
    /\ callpc \in [Caller -> {"idle", "create", "return", "sent"}]
    /\ promise \in [Caller -> {"pending", "cancelled"} \cup How]
    /\ qid \in [Caller -> Queue \cup {0}]
    /\ {method_queue, served, flushing, made} \subseteq Queue \cup {0}
    /\ loop \in [Queue -> {"parent", "thread"}]
    /\ queue \in [Queue -> Seq(Caller)]
    /\ worker \in [Worker -> {"off", "wait", "get"} \cup Caller]
    /\ flushed \in Caller \cup {None} /\ late \subseteq Caller

Init ==
    /\ wait_for_thread \in BOOLEAN
    /\ thread_started = FALSE /\ started = FALSE /\ stopped = FALSE
    /\ crashed = FALSE /\ shutdown = FALSE
    /\ running = "none" /\ to_parent = <<>> /\ to_thread = <<>> /\ busy = None
    /\ startpc = "idle" /\ tpc = "none"
    /\ stoppc = [s \in Stopper |-> "idle"]
    /\ callpc = [c \in Caller |-> "idle"]
    /\ promise = [c \in Caller |-> "pending"]
    /\ qid = [c \in Caller |-> 0]
    /\ loop = [q \in Queue |-> "thread"]
    /\ method_queue = 0 /\ made = 0 /\ served = 0 /\ flushing = 0
    /\ queue = [q \in Queue |-> <<>>]
    /\ worker = [w \in Worker |-> "off"]
    /\ flushed = None /\ late = {}

ShouldStop == stopped \/ crashed
\* WorkerThread.stop() blocks the parent loop in Event.wait() and join().
ParentFree == busy = None /\ \A s \in Stopper : stoppc[s] # "join"
ToParent(m) == to_parent' = Append(to_parent, m)

-----------------------------------------------------------------------------
(* The parent: start() and stop().                                         *)

Start ==
    /\ ParentFree /\ ~thread_started
    /\ thread_started' = TRUE
    /\ running' = "pending"
    /\ tpc' = "boot"
    /\ startpc' = "check" /\ busy' = "start"
    /\ UNCHANGED <<wait_for_thread, started, stopped, crashed, shutdown, to_parent,
                   to_thread, stoppc, calls, promise, mq, work>>

\* The flags are looked at while the thread runs already.
StartCheck ==
    /\ startpc = "check"
    /\ busy' = None
    /\ IF wait_for_thread /\ ~ShouldStop
         THEN startpc' = "wait" /\ UNCHANGED running
         ELSE startpc' = "returned" /\ running' = "none"
    /\ UNCHANGED <<wait_for_thread, flags, to_parent, to_thread, stoppc, tpc, calls,
                   promise, mq, work>>

StartReturns ==
    /\ ParentFree /\ startpc = "wait" /\ running \in {"result", "exception"}
    /\ startpc' = IF running = "result" THEN "returned" ELSE "raised"
    /\ running' = "none"
    /\ UNCHANGED <<wait_for_thread, flags, to_parent, to_thread, busy, stoppc, tpc,
                   calls, promise, mq, work>>

\* stop() does nothing before the thread has set _started.  _stopped is set
\* by a callback in the thread: until then a second stop() takes this way too.
Stop(s) ==
    /\ ParentFree /\ thread_started /\ stoppc[s] = "idle"
    /\ stoppc' = [stoppc EXCEPT ![s] = CASE ~started -> "skipped"
                                         [] started /\ stopped -> "join"
                                         [] OTHER -> "shutdown"]
    /\ to_thread' = IF started /\ ~stopped THEN Append(to_thread, SetStopped) ELSE to_thread
    /\ UNCHANGED <<wait_for_thread, flags, running, to_parent, busy, startpc, tpc,
                   calls, promise, mq, work>>

\* Mutant: the shutdown signal is taken for the end of the thread.
StopGoesOnNoJoin(s) ==
    /\ ParentFree /\ stoppc[s] = "shutdown" /\ shutdown
    /\ stoppc' = [stoppc EXCEPT ![s] = "done"]
    /\ UNCHANGED <<wait_for_thread, flags, running, to_parent, to_thread, busy, startpc,
                   tpc, calls, promise, mq, work>>

StopGoesOn(s) ==
    /\ \/ ParentFree /\ stoppc[s] = "shutdown" /\ shutdown
          /\ stoppc' = [stoppc EXCEPT ![s] = "join"]
       \/ stoppc[s] = "join" /\ tpc = "ended"
          /\ stoppc' = [stoppc EXCEPT ![s] = "done"]
    /\ UNCHANGED <<wait_for_thread, flags, running, to_parent, to_thread, busy, startpc,
                   tpc, calls, promise, mq, work>>

StopTimesOut(s) ==
    /\ ParentFree /\ stoppc[s] = "shutdown"
    /\ stoppc' = [stoppc EXCEPT ![s] = "timeout"]
    /\ UNCHANGED <<wait_for_thread, flags, running, to_parent, to_thread, busy, startpc,
                   tpc, calls, promise, mq, work>>

-----------------------------------------------------------------------------
(* The parent: call_thread().                                              *)

\* The method_queue property makes the queue on first use, from either thread:
\* the test, the assignment and the return are separate steps.  The call goes to
\* the loop of the queue, which is that of the thread that made it.
NewQueue(l) ==
    /\ made' = made + 1 /\ method_queue' = made + 1
    /\ loop' = [loop EXCEPT ![made + 1] = l]

Send(c) ==
    /\ qid' = [qid EXCEPT ![c] = method_queue]
    /\ \/ loop[method_queue] = "thread" /\ to_thread' = Append(to_thread, c) /\ UNCHANGED to_parent
       \/ loop[method_queue] = "parent" /\ ToParent(Put(c)) /\ UNCHANGED to_thread

CallThread(c) ==
    /\ ParentFree /\ callpc[c] = "idle"
    /\ IF method_queue = 0
         THEN /\ callpc' = [callpc EXCEPT ![c] = "create"]
              /\ busy' = c
              /\ UNCHANGED <<qid, to_parent, to_thread>>
         ELSE /\ callpc' = [callpc EXCEPT ![c] = "sent"]
              /\ Send(c)
              /\ UNCHANGED busy
    /\ UNCHANGED <<wait_for_thread, flags, running, startpc, stoppc, tpc, promise, mq, work>>

CallGoesOn(c) ==
    /\ \/ /\ callpc[c] = "create"
          /\ callpc' = [callpc EXCEPT ![c] = "return"]
          /\ NewQueue("parent")
          /\ UNCHANGED <<qid, to_parent, to_thread, busy>>
       \/ /\ callpc[c] = "return"
          /\ callpc' = [callpc EXCEPT ![c] = "sent"]
          /\ Send(c) /\ busy' = None
          /\ UNCHANGED mq
    /\ UNCHANGED <<wait_for_thread, flags, running, startpc, stoppc, tpc, promise, work>>

CallCancelled(c) ==
    /\ ParentFree /\ callpc[c] = "sent" /\ promise[c] = "pending"
    /\ promise' = [promise EXCEPT ![c] = "cancelled"]
    /\ UNCHANGED <<wait_for_thread, flags, running, to_parent, to_thread, parent, tpc,
                   calls, mq, work>>

\* _queue_put of call c, on the loop of its queue.
QueuePut(c) ==
    /\ queue' = [queue EXCEPT ![qid[c]] = Append(@, c)]
    /\ late' = IF tpc \in {"stop_workers", "shutdown", "finish", "failed", "ended"}
                 THEN late \cup {c} ELSE late

\* A callback on the parent loop: notify, maybe_set_exception, _shutdown.set and
\* maybe_set_result leave a future that is done as it is.
ParentCallback ==
    /\ ParentFree /\ to_parent # <<>>
    /\ to_parent' = Tail(to_parent)
    /\ LET m == Head(to_parent) IN
       /\ running' = CASE m = Notify /\ running = "pending" -> "result"
                       [] m = Exception /\ running = "pending" -> "exception"
                       [] OTHER -> running
       /\ shutdown' = (shutdown \/ m = Shutdown)
       /\ promise' = IF m[1] \in How /\ promise[m[2]] = "pending"
                       THEN [promise EXCEPT ![m[2]] = m[1]] ELSE promise
       /\ IF m[1] = "put" THEN QueuePut(m[2]) ELSE UNCHANGED <<queue, late>>
    /\ UNCHANGED <<wait_for_thread, thread_started, started, stopped, crashed, to_thread,
                   parent, tpc, calls, mq, served, flushing, worker, flushed>>

-----------------------------------------------------------------------------
(* The thread: _serve().                                                   *)

ThreadGoto(from, to) == tpc = from /\ tpc' = to

\* _default_start sets the flag before the hooks run.
ThreadBoots ==
    /\ ThreadGoto("boot", "starting")
    /\ started' = TRUE
    /\ UNCHANGED <<wait_for_thread, thread_started, stopped, crashed, shutdown, running,
                   to_parent, to_thread, parent, calls, promise, mq, work>>

\* _default_start is done, and on_thread_started() asks for the method queue.
ThreadStarted ==
    /\ \/ ThreadGoto("starting", "check") /\ UNCHANGED mq
       \/ ThreadGoto("check", IF method_queue = 0 THEN "create" ELSE "return") /\ UNCHANGED mq
       \/ ThreadGoto("create", "return") /\ NewQueue("thread")
    /\ UNCHANGED <<wait_for_thread, flags, running, to_parent, to_thread, parent, calls,
                   promise, work>>

\* MethodQueue.on_start() adds and starts the workers, on the loop of the queue.
QueueStarts ==
    /\ ThreadGoto("return", "notify")
    /\ served' = method_queue
    /\ worker' = [w \in Worker |-> "wait"]
    /\ UNCHANGED <<wait_for_thread, flags, running, to_parent, to_thread, parent, calls,
                   promise, mq, queue, flushing, flushed, late>>

ThreadNotifies ==
    /\ ThreadGoto("notify", "serve")
    /\ ToParent(Notify)
    /\ UNCHANGED <<wait_for_thread, flags, running, to_thread, parent, calls, promise, mq, work>>

\* A hook raises; crash() schedules the exception, then sets the flag.
HookRaises ==
    /\ tpc \in {"starting", "notify"} /\ tpc' = "crash"
    /\ UNCHANGED <<wait_for_thread, flags, running, to_parent, to_thread, parent, calls,
                   promise, mq, work>>
ThreadCrashes ==
    /\ ThreadGoto("crash", "stop")
    /\ ToParent(Exception)
    /\ crashed' = TRUE
    /\ UNCHANGED <<wait_for_thread, thread_started, started, stopped, shutdown, running,
                   to_thread, parent, calls, promise, mq, work>>

\* A task of the thread, or the tree above it, crashes the service.
CrashedFromOutside ==
    /\ tpc \notin {"none", "ended"} /\ ~crashed
    /\ crashed' = TRUE
    /\ UNCHANGED <<wait_for_thread, thread_started, started, stopped, shutdown, running,
                   to_parent, to_thread, parent, tpc, calls, promise, mq, work>>

ServeEnds ==
    /\ ThreadGoto("serve", "stop") /\ ShouldStop
    /\ UNCHANGED <<wait_for_thread, flags, running, to_parent, to_thread, parent, calls,
                   promise, mq, work>>

\* on_thread_stop() stops the queue that is there now, started or not.
StopQueue ==
    /\ ThreadGoto("stop", IF method_queue = 0 THEN "shutdown" ELSE "flush")
    /\ flushing' = method_queue
    /\ UNCHANGED <<wait_for_thread, flags, running, to_parent, to_thread, parent, calls,
                   promise, mq, queue, served, worker, flushed, late>>

\* Nothing of a cancelled promise is run; an exception is an answer.
TakeCall(q) == queue' = [queue EXCEPT ![q] = Tail(@)]
Finish(c) == IF promise[c] = "cancelled" THEN UNCHANGED to_parent
             ELSE \E h \in How : ToParent(Answer(c, h))

Flush ==
    /\ tpc = "flush"
    /\ \/ /\ flushed = None /\ queue[flushing] # <<>>
          /\ flushed' = Head(queue[flushing]) /\ TakeCall(flushing)
          /\ UNCHANGED <<tpc, to_parent>>
       \/ /\ flushed # None /\ Finish(flushed)
          /\ flushed' = None
          /\ UNCHANGED <<tpc, queue>>
       \/ /\ flushed = None /\ queue[flushing] = <<>>
          /\ tpc' = "stop_workers"
          /\ UNCHANGED <<queue, flushed, to_parent>>
    /\ UNCHANGED <<wait_for_thread, flags, running, to_thread, parent, calls, promise, mq,
                   served, flushing, worker, late>>

\* Thread and parent take from one queue without a lock: both find the last call,
\* one takes it and the other raises, a worker and with it the service, or flush()
\* and with it _shutdown_thread().
TakenTwice(w) ==
    /\ tpc = "flush" /\ flushed = None
    /\ ParentFree /\ worker[w] = "get" /\ flushing = served /\ loop[served] = "parent"
    /\ Len(queue[served]) = 1 /\ TakeCall(served)
    /\ \/ /\ flushed' = queue[served][1]
          /\ worker' = [worker EXCEPT ![w] = "off"]
          /\ crashed' = TRUE
          /\ UNCHANGED tpc
       \/ /\ worker' = [worker EXCEPT ![w] = queue[served][1]]
          /\ tpc' = "failed"
          /\ UNCHANGED <<flushed, crashed>>
    /\ UNCHANGED <<wait_for_thread, thread_started, started, stopped, shutdown, running,
                   to_parent, to_thread, parent, calls, promise, mq, served, flushing, late>>

\* The workers are children of the queue; a call that is interrupted gets the
\* CancelledError as its answer.  On another loop they are not interrupted: waiting
\* for their tasks raises, which is logged.
WorkersHere == flushing = served /\ loop[served] = "thread"
StopWorker(w) ==
    /\ tpc = "stop_workers" /\ WorkersHere /\ worker[w] # "off"
    /\ worker' = [worker EXCEPT ![w] = "off"]
    /\ IF worker[w] \in Caller /\ promise[worker[w]] # "cancelled"
         THEN ToParent(Answer(worker[w], "error")) ELSE UNCHANGED to_parent
    /\ UNCHANGED <<wait_for_thread, flags, running, to_thread, parent, tpc, calls, promise,
                   mq, queue, served, flushing, flushed, late>>

QueueStopped ==
    /\ ThreadGoto("stop_workers", "shutdown")
    /\ WorkersHere => \A w \in Worker : worker[w] = "off"
    /\ UNCHANGED <<wait_for_thread, flags, running, to_parent, to_thread, parent, calls,
                   promise, mq, work>>

\* Children, set_shutdown(), then futures and exit stacks, and the thread ends; or
\* an exception has left _serve(), and set_shutdown() is called for it.
ThreadShutsDown ==
    /\ \/ ThreadGoto("shutdown", "finish") /\ ToParent(Shutdown)
       \/ ThreadGoto("failed", "ended") /\ ToParent(Shutdown)
       \/ ThreadGoto("finish", "ended") /\ UNCHANGED to_parent
    /\ UNCHANGED <<wait_for_thread, flags, running, to_thread, parent, calls, promise, mq, work>>

LoopRuns == tpc \notin {"none", "create", "return", "ended"}

ThreadCallback ==
    /\ LoopRuns /\ to_thread # <<>>
    /\ to_thread' = Tail(to_thread)
    /\ LET m == Head(to_thread) IN
       IF m = SetStopped
         THEN stopped' = TRUE /\ UNCHANGED <<queue, late>>
         ELSE QueuePut(m) /\ UNCHANGED stopped
    /\ UNCHANGED <<wait_for_thread, thread_started, started, crashed, shutdown, running,
                   to_parent, parent, tpc, calls, promise, mq, served, flushing, worker, flushed>>

\* _method_queue_do_work: waits for _queue_ready, which is never cleared, or
\* for the queue to stop; then for a call, which stop() does not interrupt.
QueueStops == flushing # 0 /\ flushing = served
QueueReady == \E c \in Caller : qid[c] = served /\ c \notin ToSet(to_thread)
                               /\ Put(c) \notin ToSet(to_parent)
WorkersRun == served # 0 /\ (IF loop[served] = "thread" THEN LoopRuns ELSE ParentFree)
WorkerStep(w) ==
    /\ WorkersRun
    /\ \/ /\ worker[w] = "wait" /\ (QueueReady \/ QueueStops)
          /\ worker' = [worker EXCEPT ![w] = IF QueueStops THEN "off" ELSE "get"]
          /\ UNCHANGED <<queue, to_parent>>
       \/ /\ worker[w] = "get" /\ queue[served] # <<>>
          /\ worker' = [worker EXCEPT ![w] = Head(queue[served])]
          /\ TakeCall(served)
          /\ UNCHANGED to_parent
       \/ /\ worker[w] \in Caller /\ Finish(worker[w])
          /\ worker' = [worker EXCEPT ![w] = IF QueueStops THEN "off" ELSE "get"]
          /\ UNCHANGED queue
    /\ UNCHANGED <<wait_for_thread, flags, running, to_thread, parent, tpc, calls, promise,
                   mq, served, flushing, flushed, late>>

ThreadStep ==
    \/ ThreadBoots \/ ThreadStarted \/ QueueStarts \/ ThreadNotifies \/ ThreadCrashes
    \/ ServeEnds \/ StopQueue \/ Flush \/ QueueStopped \/ ThreadShutsDown
    \/ \E w \in Worker : StopWorker(w)
ParentStep ==
    \/ StartCheck \/ StartReturns
    \/ \E s \in Stopper : StopGoesOn(s)
    \/ \E c \in Caller : CallGoesOn(c)
Next ==
    \/ ThreadStep \/ ParentStep \/ ParentCallback \/ ThreadCallback
    \/ \E w \in Worker : WorkerStep(w) \/ TakenTwice(w)
    \/ Start \/ HookRaises \/ CrashedFromOutside
    \/ \E s \in Stopper : Stop(s) \/ StopTimesOut(s)
    \/ \E c \in Caller : CallThread(c) \/ CallCancelled(c)

Spec == Init /\ [][Next]_vars

-----------------------------------------------------------------------------
\* Once stop() has returned the thread has ended.  A stop() that is skipped is
\* one made before the thread had started: then the thread may still be there.
StopMeansEnded ==
    \A s \in Stopper : stoppc[s] = "done" => tpc = "ended"

\* Where the promise of a call is on its way.
Answered(c) == promise[c] # "pending" \/ \E h \in How : Answer(c, h) \in ToSet(to_parent)
Waiting(c) == \/ c \in ToSet(to_thread)
              \/ Put(c) \in ToSet(to_parent)
              \/ \E q \in Queue : c \in ToSet(queue[q])
              \/ flushed = c
              \/ \E w \in Worker : worker[w] = c
\* A call is never lost between the loops, the queues and the workers: it is
\* waiting somewhere or answered.
CallKept == \A c \in Caller : callpc[c] = "sent" => Waiting(c) \/ Answered(c)

\* When the thread has ended a call without an answer is one that reached its queue
\* after the flush, or whose queue is not the one that was flushed: both threads had
\* made one; or, of a queue on the parent loop, one that a worker there goes on with.
CallAnswered ==
    tpc = "ended" => \A c \in Caller :
      \/ callpc[c] # "sent" \/ Answered(c)
      \/ c \in ToSet(to_thread) \cup late \/ Put(c) \in ToSet(to_parent)
      \/ qid[c] # flushing
      \/ loop[qid[c]] = "parent" /\ \E w \in Worker : worker[w] = c

\* start() returns or raises, and stop() returns, whatever the thread does.
StartEnds == startpc = "wait" ~> startpc \in {"returned", "raised"}
StopEnds == \A s \in Stopper :
              stoppc[s] \in {"shutdown", "join"} ~> stoppc[s] \in {"done", "timeout"}
=============================================================================
