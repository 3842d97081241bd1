---------------------------- MODULE ServiceWait ----------------------------
(***************************************************************************)
(* Tasks that wait on a service (Service.wait_first, wait, sleep and       *)
(* _AwaitableService in mode/services.py, over the Event of                *)
(* mode/utils/locks.py), while the service stops, crashes and restarts.    *)
(*                                                                         *)
(* asyncio.wait runs on futures: one task per event or coroutine.  A task  *)
(* is made, runs up to its first suspension, is woken and ends in separate *)
(* turns of the loop, and the caller runs in a later turn still: what it   *)
(* finds then need not be what woke it.                                    *)
(***************************************************************************)
EXTENDS Integers, FiniteSets

CONSTANTS
    Waiter,      \* tasks that wait on the service
    MaxRestarts  \* bound: restarts of the service

Source == {"coro", "stopped", "crashed"}
Event == {"stopped", "crashed"}
Call == {"wait_first", "wait", "sleep"}

\* What each call of the API waits for; wait_many, wait(coro) and
\* wait_for_stopped(coro) come down to wait_first.
Sources(call) == CASE call = "wait_first" -> Source
                   [] call = "wait" -> Event
                   [] call = "sleep" -> {"stopped"}

VARIABLES
    is_set,         \* events of the service that are set
    restart_count,
    pc,             \* [Waiter -> {"idle", "waiting"} \cup Outcome]
    call,           \* the call each waiter is in
    timed,          \* waiters that gave a timeout
    fut,            \* [Waiter -> [Source -> FutureState]]
    count0,         \* history: restart_count when the call was made
    seen,           \* history: waiters in whose call an event was set
    on_start, awaited  \* _AwaitableService: its start() and the future it awaits

vars == <<is_set, restart_count, pc, call, timed, fut, count0, seen, on_start, awaited>>

Outcome == {"value", "event", "stopped", "woken", "slept", "raised",
            "assertion", "cancelled"}
FutureState == {"none", "created", "waiting", "woken", "done", "raised", "cancelled"}
Done == {"done", "raised"}

TypeOK ==
    /\ is_set \subseteq Event
    /\ restart_count \in 0..MaxRestarts
    /\ pc \in [Waiter -> {"idle", "waiting"} \cup Outcome]
    /\ call \in [Waiter -> Call]
    /\ timed \subseteq Waiter
    /\ fut \in [Waiter -> [Source -> FutureState]]
    /\ count0 \in [Waiter -> 0..MaxRestarts]
    /\ seen \subseteq Waiter
    /\ on_start \in {"idle", "awaiting", "returned", "raised"}
    /\ awaited \in {"none", "pending", "done", "cancelling", "cancelled"}

Init ==
    /\ is_set = {}
    /\ restart_count = 0
    /\ pc = [w \in Waiter |-> "idle"]
    /\ call = [w \in Waiter |-> "wait"]
    /\ timed = {} /\ seen = {}
    /\ fut = [w \in Waiter |-> [s \in Source |-> "none"]]
    /\ count0 = [w \in Waiter |-> 0]
    /\ on_start = "idle" /\ awaited = "none"

-----------------------------------------------------------------------------
(* The event of mode/utils/locks.py and the life of the service.           *)

\* set() resolves the futures of the tasks that are suspended in wait(); a
\* task that has been made and has not run yet is not among them.
Woken(w, E) == [s \in Source |-> IF s \in E /\ fut[w][s] = "waiting"
                                   THEN "woken" ELSE fut[w][s]]
EventSet(E) ==
    /\ fut' = [w \in Waiter |-> Woken(w, E)]
    /\ seen' = seen \cup {w \in Waiter : pc[w] = "waiting"}

\* on_stop of _AwaitableService: the future is cancelled, or was done.
StopAwaitable == awaited' = IF awaited = "pending" THEN "cancelling" ELSE awaited

Stop ==
    /\ "stopped" \notin is_set
    /\ is_set' = is_set \cup {"stopped"}
    /\ EventSet({"stopped"})
    /\ StopAwaitable
    /\ UNCHANGED <<restart_count, pc, call, timed, count0, on_start>>

Crash ==
    /\ "crashed" \notin is_set
    /\ is_set' = is_set \cup {"crashed"}
    /\ EventSet({"crashed"})
    /\ UNCHANGED <<restart_count, pc, call, timed, count0, on_start, awaited>>

\* service_reset() clears the events whoever still waits.
Reset ==
    /\ "stopped" \in is_set
    /\ restart_count < MaxRestarts
    /\ restart_count' = restart_count + 1
    /\ is_set' = {}
    /\ UNCHANGED <<pc, call, timed, fut, count0, seen, on_start, awaited>>

\* restart() of a service whose hooks do not suspend: one turn of the loop.
Restart ==
    /\ restart_count < MaxRestarts
    /\ restart_count' = restart_count + 1
    /\ is_set' = {}
    /\ IF "stopped" \in is_set THEN UNCHANGED <<fut, seen, awaited>>
                               ELSE EventSet({"stopped"}) /\ StopAwaitable
    /\ UNCHANGED <<pc, call, timed, count0, on_start>>

-----------------------------------------------------------------------------
(* The waiting calls.                                                      *)

BeginWait(w, c, t) ==
    /\ pc[w] = "idle"
    /\ c = "sleep" => t
    /\ pc' = [pc EXCEPT ![w] = "waiting"]
    /\ call' = [call EXCEPT ![w] = c]
    /\ timed' = IF t THEN timed \cup {w} ELSE timed
    /\ fut' = [fut EXCEPT ![w] = [s \in Source |-> IF s \in Sources(c) THEN "created" ELSE "none"]]
    /\ count0' = [count0 EXCEPT ![w] = restart_count]
    /\ seen' = IF is_set # {} THEN seen \cup {w} ELSE seen
    /\ UNCHANGED <<is_set, restart_count, on_start, awaited>>

\* Mutant: whoever is woken looks at the flag, and waits again.
RunTaskAgain(w, s) ==
    /\ fut[w][s] \in {"created", "woken"}
    /\ fut' = [fut EXCEPT ![w][s] = IF s \in is_set THEN "done" ELSE "waiting"]
    /\ UNCHANGED <<is_set, restart_count, pc, call, timed, count0, seen, on_start, awaited>>

\* A turn of the task of one source: wait() returns at once if the event is
\* set, and returns once woken without a second look at the flag.
RunTask(w, s) ==
    /\ \/ /\ fut[w][s] = "created"
          /\ fut' = [fut EXCEPT ![w][s] = IF s \in is_set THEN "done" ELSE "waiting"]
       \/ /\ fut[w][s] = "woken"
          /\ fut' = [fut EXCEPT ![w][s] = "done"]
    /\ UNCHANGED <<is_set, restart_count, pc, call, timed, count0, seen, on_start, awaited>>

CoroEnds(w) ==
    /\ fut[w]["coro"] = "waiting"
    /\ \E r \in Done : fut' = [fut EXCEPT ![w]["coro"] = r]
    /\ UNCHANGED <<is_set, restart_count, pc, call, timed, count0, seen, on_start, awaited>>

In(w, S) == {s \in Sources(call[w]) : fut[w][s] \in S}
CancelAll(w) == [fut EXCEPT ![w] = [s \in Source |->
                    IF @[s] \in {"created", "waiting", "woken"} THEN "cancelled" ELSE @[s]]]

\* Mutant: what is done counts, whatever the events say now.
WaitFirstResultUnchecked(w) ==
    IF In(w, {"raised"}) # {} THEN "raised"
    ELSE IF In(w, Done) = {} THEN "stopped"
    ELSE IF fut[w]["coro"] = "done" THEN "value" ELSE "event"

\* wait_first: an exception goes up, results go to the caller only if the
\* service is up when the caller runs, and whatever is not done is cancelled.
WaitFirstResult(w) ==
    IF In(w, {"raised"}) # {} THEN "raised"
    ELSE IF In(w, Done) = {} \/ is_set # {} THEN "stopped"
    ELSE IF fut[w]["coro"] = "done" THEN "value"  \* the first of the winners
    ELSE "event"
\* wait(): asserts that the service is stopped or crashed.
WaitStoppedResult(w) == IF is_set # {} THEN "woken" ELSE "assertion"
Result(w) == CASE call[w] = "wait_first" -> WaitFirstResult(w)
               [] call[w] = "wait" -> WaitStoppedResult(w)
               [] call[w] = "sleep" -> "slept"

\* The caller runs after a future of it is done, or after its timeout.
WaitReturns(w) ==
    /\ pc[w] = "waiting"
    /\ In(w, Done) # {} \/ w \in timed
    /\ pc' = [pc EXCEPT ![w] = Result(w)]
    /\ fut' = CancelAll(w)
    /\ UNCHANGED <<is_set, restart_count, call, timed, count0, seen, on_start, awaited>>

\* The caller is cancelled: asyncio.wait leaves its futures alone, and only
\* wait_first and wait_for clean up after it.
CallerCancelled(w) ==
    /\ pc[w] = "waiting"
    /\ pc' = [pc EXCEPT ![w] = "cancelled"]
    /\ fut' = IF call[w] = "wait" THEN fut ELSE CancelAll(w)
    /\ UNCHANGED <<is_set, restart_count, call, timed, count0, seen, on_start, awaited>>

-----------------------------------------------------------------------------
(* _AwaitableService: a coroutine as a service.                            *)

AwaitableStart ==
    /\ on_start = "idle" /\ is_set = {}
    /\ on_start' = "awaiting" /\ awaited' = "pending"
    /\ UNCHANGED <<is_set, restart_count, pc, call, timed, fut, count0, seen>>

AwaitableEnds ==
    /\ \/ awaited = "pending" /\ awaited' \in {"done", "cancelled"}
       \/ awaited = "cancelling" /\ awaited' = "cancelled"
    /\ UNCHANGED <<is_set, restart_count, pc, call, timed, fut, count0, seen, on_start>>

\* The cancellation is the expected end of a service that should stop.
AwaitableStarted ==
    /\ on_start = "awaiting" /\ awaited \in {"done", "cancelled"}
    /\ on_start' = IF awaited = "cancelled" /\ is_set = {} THEN "raised" ELSE "returned"
    /\ UNCHANGED <<is_set, restart_count, pc, call, timed, fut, count0, seen, awaited>>

LoopStep(w) == WaitReturns(w) \/ \E s \in Source : RunTask(w, s)
AwaitableStep == AwaitableStart \/ AwaitableEnds \/ AwaitableStarted
Next ==
    \/ Stop \/ Crash \/ Reset \/ Restart
    \/ \E w \in Waiter : \/ \E c \in Call, t \in BOOLEAN : BeginWait(w, c, t)
                         \/ LoopStep(w) \/ CoroEnds(w) \/ CallerCancelled(w)
    \/ AwaitableStep

Spec == Init /\ [][Next]_vars

-----------------------------------------------------------------------------
(* Properties.                                                             *)

\* What a wait returns is justified: the value comes from the coroutine; an
\* event stands in for it, and wait() trips over its assertion, only if the
\* service was restarted meanwhile; stopped means that an event was set during
\* the call, or that the timeout was over.
ResultJustified ==
    \A w \in Waiter :
      /\ pc[w] = "value" => fut[w]["coro"] = "done"
      /\ pc[w] = "event" => restart_count > count0[w]
      /\ pc[w] = "assertion" => restart_count > count0[w] \/ w \in timed
      /\ pc[w] \in {"stopped", "woken"} => w \in seen \cup timed

\* No task is left behind by a wait that has ended, except by a wait() whose
\* caller was cancelled.
NoTaskLeft ==
    \A w \in Waiter :
      pc[w] \in Outcome =>
        \/ \A s \in Source : fut[w][s] \notin {"created", "waiting", "woken"}
        \/ pc[w] = "cancelled" /\ call[w] = "wait"

\* Whoever is suspended in wait() when an event is set returns, even if the
\* service is restarted at once.
WaiterWakes ==
    \A w \in Waiter : In(w, {"woken"}) # {} ~> pc[w] \in Outcome
=============================================================================
