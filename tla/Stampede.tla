------------------------------ MODULE Stampede ------------------------------
(***************************************************************************)
(* Stampede protection (StampedeWrapper in mode/utils/futures.py): of the  *)
(* tasks that call a coroutine function at the same time one runs it, and  *)
(* the others await the future the first has left in self.fut.  One step   *)
(* per turn of a task, any of which may be a cancellation.                 *)
(***************************************************************************)
EXTENDS Integers, FiniteSets

CONSTANTS
    Caller,   \* tasks that call the wrapped function, once each
    MaxRuns   \* bound: futures made, one per run of the function

VARIABLES
    self_fut,  \* self.fut: the number of the run it belongs to, 0 for None
    runs,      \* runs so far
    futstate,  \* [1..MaxRuns -> state of the future of a run]
    ending,    \* history: [1..MaxRuns -> how the run ended]
    spc,       \* where each caller is
    on,        \* the run each caller performs or awaits
    runs0,     \* history: the number of runs that were over when it called
    stuck      \* history: self.fut was left behind

vars == <<self_fut, runs, futstate, ending, spc, on, runs0, stuck>>

Run == 1..MaxRuns
Outcome == {"returned", "raised", "cancelled"}
\* Suspended in the function, in the sleep after it, in the sleep of the
\* finally block with what the call will end with.
Unwinding == {"unwind_returned", "unwind_raised", "unwind_cancelled"}
PC == {"idle", "yield", "running", "set", "waiting"} \cup Unwinding \cup Outcome

TypeOK ==
    /\ self_fut \in 0..MaxRuns /\ runs \in 0..MaxRuns
    /\ futstate \in [Run -> {"pending", "result", "cancelled"}]
    /\ ending \in [Run -> {"none"} \cup Outcome]
    /\ spc \in [Caller -> PC]
    /\ on \in [Caller -> 0..MaxRuns] /\ runs0 \in [Caller -> 0..MaxRuns]
    /\ stuck \in BOOLEAN

Init ==
    /\ self_fut = 0 /\ runs = 0
    /\ futstate = [r \in Run |-> "pending"] /\ ending = [r \in Run |-> "none"]
    /\ spc = [c \in Caller |-> "idle"]
    /\ on = [c \in Caller |-> 0] /\ runs0 = [c \in Caller |-> 0]
    /\ stuck = FALSE

\* Runs whose call has ended.
Over == Cardinality({r \in 1..runs : \A c \in Caller :
                       on[c] = r => spc[c] \notin {"running", "set"} \cup Unwinding})
Goto(c, l) == spc' = [spc EXCEPT ![c] = l]

\* __call__ yields to the loop before it looks at self.fut.
CallWrapper(c) ==
    /\ spc[c] = "idle"
    /\ Goto(c, "yield")
    /\ runs0' = [runs0 EXCEPT ![c] = Over]
    /\ UNCHANGED <<self_fut, runs, futstate, ending, on, stuck>>

BecomeRunner(c) ==
    /\ spc[c] = "yield" /\ self_fut = 0 /\ runs < MaxRuns
    /\ runs' = runs + 1
    /\ self_fut' = runs + 1
    /\ on' = [on EXCEPT ![c] = runs + 1]
    /\ Goto(c, "running")
    /\ UNCHANGED <<futstate, ending, runs0, stuck>>

\* What fut.result() or `await fut` does with a future that is done.
Answer(r) == IF futstate[r] = "result" THEN "returned" ELSE "cancelled"

JoinRun(c) ==
    /\ spc[c] = "yield" /\ self_fut # 0
    /\ on' = [on EXCEPT ![c] = self_fut]
    /\ Goto(c, IF futstate[self_fut] = "pending" THEN "waiting" ELSE Answer(self_fut))
    /\ UNCHANGED <<self_fut, runs, futstate, ending, runs0, stuck>>

EndRun(c, how) == ending' = [ending EXCEPT ![on[c]] = how]

\* set_result() raises InvalidStateError if a waiter has cancelled the future.
FunReturns(c) ==
    /\ spc[c] = "running"
    /\ EndRun(c, "returned")
    /\ IF futstate[on[c]] = "pending"
         THEN futstate' = [futstate EXCEPT ![on[c]] = "result"] /\ Goto(c, "set")
         ELSE UNCHANGED futstate /\ Goto(c, "unwind_raised")
    /\ UNCHANGED <<self_fut, runs, on, runs0, stuck>>

\* Only CancelledError is handled: the future stays as it is.
FunRaises(c) ==
    /\ spc[c] = "running"
    /\ EndRun(c, "raised")
    /\ Goto(c, "unwind_raised")
    /\ UNCHANGED <<self_fut, runs, futstate, on, runs0, stuck>>

Yielded(c) ==
    /\ spc[c] = "set"
    /\ Goto(c, "unwind_returned")
    /\ UNCHANGED <<self_fut, runs, futstate, ending, on, runs0, stuck>>

Ended(c) == CASE spc[c] = "unwind_returned" -> "returned"
              [] spc[c] = "unwind_raised" -> "raised"
              [] spc[c] = "unwind_cancelled" -> "cancelled"

\* Mutant: the future of a run that is over is kept.
UnwoundKept(c) ==
    /\ spc[c] \in Unwinding
    /\ Goto(c, Ended(c))
    /\ UNCHANGED <<self_fut, runs, futstate, ending, on, runs0, stuck>>

Unwound(c) ==
    /\ spc[c] \in Unwinding
    /\ self_fut' = 0
    /\ Goto(c, Ended(c))
    /\ UNCHANGED <<runs, futstate, ending, on, runs0, stuck>>

WaiterWakes(c) ==
    /\ spc[c] = "waiting" /\ futstate[on[c]] # "pending"
    /\ Goto(c, Answer(on[c]))
    /\ UNCHANGED <<self_fut, runs, futstate, ending, on, runs0, stuck>>

CancelFuture(r) == [futstate EXCEPT ![r] = IF @ = "pending" THEN "cancelled" ELSE @]

\* The cancellation of a task goes to the future it awaits: that of a waiter
\* is shared.  In the finally block it comes before self.fut is cleared.
CancelCaller(c) ==
    \/ /\ spc[c] = "yield"
       /\ Goto(c, "cancelled")
       /\ UNCHANGED <<self_fut, runs, futstate, ending, on, runs0, stuck>>
    \/ /\ spc[c] \in {"running", "set"}
       /\ futstate' = CancelFuture(on[c])
       /\ ending' = [ending EXCEPT ![on[c]] = IF @ = "none" THEN "cancelled" ELSE @]
       /\ Goto(c, "unwind_cancelled")
       /\ UNCHANGED <<self_fut, runs, on, runs0, stuck>>
    \/ /\ spc[c] = "waiting"
       /\ futstate' = CancelFuture(on[c])
       /\ Goto(c, "cancelled")
       /\ UNCHANGED <<self_fut, runs, ending, on, runs0, stuck>>
    \/ /\ spc[c] \in Unwinding
       /\ stuck' = TRUE
       /\ Goto(c, "cancelled")
       /\ UNCHANGED <<self_fut, runs, futstate, ending, on, runs0>>

TaskStep(c) ==
    CallWrapper(c) \/ BecomeRunner(c) \/ JoinRun(c) \/ Yielded(c) \/ Unwound(c) \/ WaiterWakes(c)
Next == \E c \in Caller : TaskStep(c) \/ FunReturns(c) \/ FunRaises(c) \/ CancelCaller(c)

Spec == Init /\ [][Next]_vars

-----------------------------------------------------------------------------
\* The function never runs twice at a time, and the result a caller gets is
\* that of a run that was not over when it called (unless a cancellation in
\* the finally block has left an old future behind).
OneRun ==
    /\ Cardinality({c \in Caller : spc[c] \in {"running", "set"}}) <= 1
    /\ \A c \in Caller : spc[c] = "returned" =>
         ending[on[c]] = "returned" /\ (stuck \/ on[c] > runs0[c])

\* A waiter is left without an answer only by a run that raised.
Unanswered(c) == spc[c] = "waiting" /\ futstate[on[c]] = "pending" /\ ending[on[c]] # "none"
HungByException == \A c \in Caller : Unanswered(c) => ending[on[c]] = "raised"
=============================================================================
