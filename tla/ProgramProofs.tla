--------------------------- MODULE ProgramProofs ---------------------------
(* Stampedes, for every number of callers and runs.                          *)
EXTENDS Program, FiniteSetTheorems, SequenceTheorems, TLAPS

\* A step of the program is a step of one part, and the others stutter.
LEMMA PartSteps ==
    ASSUME [Next]_vars
    PROVE  /\ [W!Next]_(W!vars) /\ [S!Next]_(S!vars) /\ [Q!Next]_(Q!vars)
           /\ [F!Next]_(F!vars) /\ [T!Next]_(T!vars) /\ [K!Next]_(K!vars)
           /\ [R!Next]_(R!vars)
<1> USE DEF wait, stampede, flow, recorders, threads, process, tree, W!vars, S!vars,
       Q!vars, Q!config, F!vars, T!vars, T!flags, T!parent, T!calls, T!mq, T!work,
       K!vars, R!vars
<1>1. CASE WaitStep
  BY <1>1 DEF WaitStep
<1>2. CASE StampedeStep
  BY <1>2 DEF StampedeStep
<1>3. CASE QueueStep
  BY <1>3 DEF QueueStep
<1>4. CASE RecorderStep
  BY <1>4 DEF RecorderStep
<1>5. CASE ThreadStep
  BY <1>5 DEF ThreadStep
<1>6. CASE WorkerStep
  BY <1>6 DEF WorkerStep
<1>7. CASE RestartStep
  BY <1>7 DEF RestartStep
<1>8. CASE UNCHANGED vars
  BY <1>8 DEF vars
<1> QED
  BY <1>1, <1>2, <1>3, <1>4, <1>5, <1>6, <1>7, <1>8 DEF Next

\* A part counts as the program does.
LEMMA SameCardinality ==
    \A X : S!Cardinality(X) = Cardinality(X)
  BY Zenon DEF S!Cardinality, Cardinality

-----------------------------------------------------------------------------
(* Stampede.                                                               *)

\* In the body of the wrapper, which ends when self.fut is cleared.
InRun(c) == spc[c] \in {"running", "set"} \cup S!Unwinding

\* There is one run at a time, the last, and self.fut belongs to it; a future
\* that is left behind is the only one that has nobody in its run.
OneInRun ==
    /\ \A c, d \in Protected : InRun(c) /\ InRun(d) => c = d
    /\ \A c \in Protected : InRun(c) => on[c] = runs /\ self_fut = runs /\ runs # 0
    /\ self_fut \in {0, runs}
    /\ self_fut # 0 /\ ~stuck => \E c \in Protected : InRun(c)
    /\ \A c \in Protected : on[c] <= runs

\* A future has a result only if its run returned, and stays pending after a
\* run only if that raised.
Endings ==
    /\ \A r \in S!Run :
         /\ r > runs => futstate[r] = "pending" /\ ending[r] = "none"
         /\ futstate[r] = "result" => ending[r] = "returned"
         /\ ending[r] \in {"returned", "cancelled"} => futstate[r] # "pending"
    /\ \A c \in Protected :
         /\ spc[c] = "running" => ending[on[c]] = "none"
         /\ spc[c] \in {"set", "unwind_returned", "returned"} =>
              on[c] # 0 /\ ending[on[c]] = "returned"
         /\ spc[c] = "waiting" => on[c] # 0

\* Unless a future was left behind, a caller joins a run that was not over
\* when it called.
NotStale ==
    /\ \A c \in Protected : runs0[c] <= runs
    /\ ~stuck => \A c \in Protected :
         /\ spc[c] = "yield" /\ self_fut # 0 => runs0[c] < runs
         /\ InRun(c) \/ spc[c] \in {"waiting", "returned"} => on[c] > runs0[c]

StampedeInv == S!TypeOK /\ OneInRun /\ Endings /\ NotStale

LEMMA EndedIs ==
    ASSUME NEW c \in Protected
    PROVE  /\ spc[c] = "unwind_returned" => S!Ended(c) = "returned"
           /\ spc[c] = "unwind_raised" => S!Ended(c) = "raised"
           /\ spc[c] = "unwind_cancelled" => S!Ended(c) = "cancelled"
<1>1. ASSUME spc[c] = "unwind_returned" PROVE S!Ended(c) = "returned"
  BY <1>1, Zenon DEF S!Ended
<1>2. ASSUME spc[c] = "unwind_raised" PROVE S!Ended(c) = "raised"
  BY <1>2, Zenon DEF S!Ended
<1>3. ASSUME spc[c] = "unwind_cancelled" PROVE S!Ended(c) = "cancelled"
  BY <1>3, Zenon DEF S!Ended
<1> QED
  BY <1>1, <1>2, <1>3

LEMMA CancelFutureIs ==
    ASSUME S!TypeOK, NEW r
    PROVE  /\ S!CancelFuture(r) \in [S!Run -> {"pending", "result", "cancelled"}]
           /\ \A q \in S!Run : S!CancelFuture(r)[q] =
                IF q = r /\ futstate[q] = "pending" THEN "cancelled" ELSE futstate[q]
  BY DEF S!TypeOK, S!CancelFuture

\* Not more runs are over than were begun, and the one that runs is not over.
LEMMA OverBound ==
    ASSUME S!TypeOK, OneInRun
    PROVE  /\ S!Over \in 0..runs
           /\ self_fut # 0 /\ ~stuck => S!Over < runs
<1> DEFINE over == {r \in 1..runs : \A c \in Protected :
                      on[c] = r => spc[c] \notin {"running", "set"} \cup S!Unwinding}
<1>1. runs \in Nat
  BY ProgramConstants DEF S!TypeOK
<1>2. IsFiniteSet(1..runs) /\ Cardinality(1..runs) = runs
  BY <1>1, FS_Interval
<1>3. Cardinality(over) \in Nat /\ Cardinality(over) <= runs
  BY <1>2, FS_Subset, FS_CardinalityType
<1>4. ASSUME self_fut # 0, ~stuck PROVE Cardinality(over) < runs
  <2>1. runs \in Nat \ {0} /\ runs \notin over
    BY <1>1, <1>4 DEF OneInRun, InRun
  <2>2. over \subseteq 1..(runs - 1)
    BY <2>1
  <2>3. IsFiniteSet(1..(runs - 1)) /\ Cardinality(1..(runs - 1)) = runs - 1
    BY <2>1, FS_Interval
  <2>4. Cardinality(over) <= runs - 1
    BY <2>2, <2>3, FS_Subset
  <2> QED
    BY <2>1, <2>4, <1>3
<1>5. S!Over = Cardinality(over)
  BY SameCardinality, Zenon DEF S!Over
<1> HIDE DEF over
<1> QED
  BY <1>1, <1>3, <1>4, <1>5

LEMMA StampedeInit == Init => StampedeInv
<1> SUFFICES ASSUME S!Init PROVE StampedeInv
  BY DEF Init
<1> USE DEF S!Init, S!Run
<1>1. S!TypeOK
  <2>1. MaxRuns \in Nat
    BY ProgramConstants
  <2>2. self_fut \in 0..MaxRuns /\ runs \in 0..MaxRuns
    BY <2>1
  <2>3. on \in [Protected -> 0..MaxRuns] /\ runs0 \in [Protected -> 0..MaxRuns]
    BY <2>1
  <2>4. /\ futstate \in [S!Run -> {"pending", "result", "cancelled"}]
        /\ ending \in [S!Run -> {"none"} \cup S!Outcome]
        /\ spc \in [Protected -> S!PC] /\ stuck \in BOOLEAN
    BY DEF S!PC
  <2> QED
    BY <2>2, <2>3, <2>4 DEF S!TypeOK
<1>2. OneInRun /\ Endings /\ NotStale
  BY DEF OneInRun, InRun, S!Unwinding, Endings, NotStale
<1> QED
  BY <1>1, <1>2 DEF StampedeInv

LEMMA StampedeTypeStep ==
    ASSUME StampedeInv, [S!Next]_(S!vars)
    PROVE  S!TypeOK'
<1>0. MaxRuns \in Nat
  BY ProgramConstants
<1> USE <1>0 DEF StampedeInv, S!TypeOK, S!Run, S!PC, S!Outcome, S!Unwinding, S!Goto
<1>1. ASSUME NEW c \in Protected, S!CallWrapper(c) PROVE S!TypeOK'
  BY <1>1, OverBound DEF S!CallWrapper
<1>2. ASSUME NEW c \in Protected, S!BecomeRunner(c) PROVE S!TypeOK'
  BY <1>2 DEF S!BecomeRunner
<1>3. ASSUME NEW c \in Protected, S!JoinRun(c) PROVE S!TypeOK'
  BY <1>3 DEF S!JoinRun, S!Answer
<1>4. ASSUME NEW c \in Protected, S!Yielded(c) PROVE S!TypeOK'
  BY <1>4 DEF S!Yielded
<1>5. ASSUME NEW c \in Protected, S!Unwound(c) PROVE S!TypeOK'
  BY <1>5, EndedIs DEF S!Unwound
<1>6. ASSUME NEW c \in Protected, S!WaiterWakes(c) PROVE S!TypeOK'
  BY <1>6 DEF S!WaiterWakes, S!Answer
<1>7. ASSUME NEW c \in Protected, S!FunReturns(c) PROVE S!TypeOK'
  BY <1>7 DEF S!FunReturns, S!EndRun
<1>8. ASSUME NEW c \in Protected, S!FunRaises(c) PROVE S!TypeOK'
  BY <1>8 DEF S!FunRaises, S!EndRun
<1>9. ASSUME NEW c \in Protected, S!CancelCaller(c) PROVE S!TypeOK'
  <2>1. CASE spc[c] = "yield"
    BY <1>9, <2>1 DEF S!CancelCaller
  <2>2. CASE spc[c] \in {"running", "set"}
    <3>1. /\ futstate' = S!CancelFuture(on[c])
          /\ ending' = [ending EXCEPT ![on[c]] = IF @ = "none" THEN "cancelled" ELSE @]
          /\ spc' = [spc EXCEPT ![c] = "unwind_cancelled"]
          /\ UNCHANGED <<self_fut, runs, on, runs0, stuck>>
      BY <1>9, <2>2 DEF S!CancelCaller
    <3>2. futstate' \in [S!Run -> {"pending", "result", "cancelled"}]
      BY <3>1, CancelFutureIs
    <3> QED
      BY <3>1, <3>2
  <2>3. CASE spc[c] = "waiting"
    <3>1. /\ futstate' = S!CancelFuture(on[c])
          /\ spc' = [spc EXCEPT ![c] = "cancelled"]
          /\ UNCHANGED <<self_fut, runs, ending, on, runs0, stuck>>
      BY <1>9, <2>3 DEF S!CancelCaller
    <3>2. futstate' \in [S!Run -> {"pending", "result", "cancelled"}]
      BY <3>1, CancelFutureIs
    <3> QED
      BY <3>1, <3>2
  <2>4. CASE spc[c] \in S!Unwinding
    BY <1>9, <2>4 DEF S!CancelCaller
  <2> QED
    BY <1>9, <2>1, <2>2, <2>3, <2>4 DEF S!CancelCaller
<1>10. CASE UNCHANGED S!vars
  BY <1>10 DEF S!vars
<1> QED
  BY <1>1, <1>2, <1>3, <1>4, <1>5, <1>6, <1>7, <1>8, <1>9, <1>10 DEF S!Next, S!TaskStep

LEMMA OneInRunStep ==
    ASSUME StampedeInv, [S!Next]_(S!vars)
    PROVE  OneInRun'
<1>0. MaxRuns \in Nat
  BY ProgramConstants
<1> USE <1>0 DEF StampedeInv, S!TypeOK, S!Run, S!PC, S!Outcome, S!Unwinding, S!Goto,
       OneInRun, InRun
<1>1. ASSUME NEW c \in Protected, S!CallWrapper(c) PROVE OneInRun'
  BY <1>1 DEF S!CallWrapper
<1>2. ASSUME NEW c \in Protected, S!BecomeRunner(c) PROVE OneInRun'
  BY <1>2 DEF S!BecomeRunner
<1>3. ASSUME NEW c \in Protected, S!JoinRun(c) PROVE OneInRun'
  BY <1>3 DEF S!JoinRun, S!Answer
<1>4. ASSUME NEW c \in Protected, S!Yielded(c) PROVE OneInRun'
  BY <1>4 DEF S!Yielded
<1>5. ASSUME NEW c \in Protected, S!Unwound(c) PROVE OneInRun'
  BY <1>5, EndedIs DEF S!Unwound
<1>6. ASSUME NEW c \in Protected, S!WaiterWakes(c) PROVE OneInRun'
  BY <1>6 DEF S!WaiterWakes, S!Answer
<1>7. ASSUME NEW c \in Protected, S!FunReturns(c) PROVE OneInRun'
  BY <1>7 DEF S!FunReturns, S!EndRun
<1>8. ASSUME NEW c \in Protected, S!FunRaises(c) PROVE OneInRun'
  BY <1>8 DEF S!FunRaises, S!EndRun
<1>9. ASSUME NEW c \in Protected, S!CancelCaller(c) PROVE OneInRun'
  <2>1. CASE spc[c] = "yield"
    BY <1>9, <2>1 DEF S!CancelCaller
  <2>2. CASE spc[c] \in {"running", "set"}
    <3>1. /\ spc' = [spc EXCEPT ![c] = "unwind_cancelled"]
          /\ UNCHANGED <<self_fut, runs, on, runs0, stuck>>
      BY <1>9, <2>2 DEF S!CancelCaller
    <3>2. \A d \in Protected : InRun(d)' <=> InRun(d)
      BY <3>1, <2>2
    <3> QED
      BY <3>1, <3>2
  <2>3. CASE spc[c] = "waiting"
    BY <1>9, <2>3 DEF S!CancelCaller
  <2>4. CASE spc[c] \in S!Unwinding
    BY <1>9, <2>4 DEF S!CancelCaller
  <2> QED
    BY <1>9, <2>1, <2>2, <2>3, <2>4 DEF S!CancelCaller
<1>10. CASE UNCHANGED S!vars
  BY <1>10 DEF S!vars
<1> QED
  BY <1>1, <1>2, <1>3, <1>4, <1>5, <1>6, <1>7, <1>8, <1>9, <1>10 DEF S!Next, S!TaskStep

LEMMA EndingsStep ==
    ASSUME StampedeInv, [S!Next]_(S!vars)
    PROVE  Endings'
<1>0. MaxRuns \in Nat
  BY ProgramConstants
<1> USE <1>0 DEF StampedeInv, S!TypeOK, S!Run, S!PC, S!Outcome, S!Unwinding, S!Goto,
       OneInRun, InRun, Endings
<1>1. ASSUME NEW c \in Protected, S!CallWrapper(c) PROVE Endings'
  BY <1>1 DEF S!CallWrapper
<1>2. ASSUME NEW c \in Protected, S!BecomeRunner(c) PROVE Endings'
  BY <1>2 DEF S!BecomeRunner
<1>3. ASSUME NEW c \in Protected, S!JoinRun(c) PROVE Endings'
  BY <1>3 DEF S!JoinRun, S!Answer
<1>4. ASSUME NEW c \in Protected, S!Yielded(c) PROVE Endings'
  BY <1>4 DEF S!Yielded
<1>5. ASSUME NEW c \in Protected, S!Unwound(c) PROVE Endings'
  BY <1>5, EndedIs DEF S!Unwound
<1>6. ASSUME NEW c \in Protected, S!WaiterWakes(c) PROVE Endings'
  BY <1>6 DEF S!WaiterWakes, S!Answer
<1>7. ASSUME NEW c \in Protected, S!FunReturns(c) PROVE Endings'
  BY <1>7 DEF S!FunReturns, S!EndRun
<1>8. ASSUME NEW c \in Protected, S!FunRaises(c) PROVE Endings'
  BY <1>8 DEF S!FunRaises, S!EndRun
<1>9. ASSUME NEW c \in Protected, S!CancelCaller(c) PROVE Endings'
  <2>1. CASE spc[c] = "yield"
    BY <1>9, <2>1 DEF S!CancelCaller
  <2>2. CASE spc[c] \in {"running", "set"}
    BY <1>9, <2>2, CancelFutureIs DEF S!CancelCaller
  <2>3. CASE spc[c] = "waiting"
    BY <1>9, <2>3, CancelFutureIs DEF S!CancelCaller
  <2>4. CASE spc[c] \in S!Unwinding
    BY <1>9, <2>4 DEF S!CancelCaller
  <2> QED
    BY <1>9, <2>1, <2>2, <2>3, <2>4 DEF S!CancelCaller
<1>10. CASE UNCHANGED S!vars
  BY <1>10 DEF S!vars
<1> QED
  BY <1>1, <1>2, <1>3, <1>4, <1>5, <1>6, <1>7, <1>8, <1>9, <1>10 DEF S!Next, S!TaskStep

LEMMA NotStaleStep ==
    ASSUME StampedeInv, [S!Next]_(S!vars)
    PROVE  NotStale'
<1>0. MaxRuns \in Nat
  BY ProgramConstants
<1> USE <1>0 DEF StampedeInv, S!TypeOK, S!Run, S!PC, S!Outcome, S!Unwinding, S!Goto,
       OneInRun, InRun, NotStale
<1>1. ASSUME NEW c \in Protected, S!CallWrapper(c) PROVE NotStale'
  BY <1>1, OverBound DEF S!CallWrapper
<1>2. ASSUME NEW c \in Protected, S!BecomeRunner(c) PROVE NotStale'
  BY <1>2 DEF S!BecomeRunner
<1>3. ASSUME NEW c \in Protected, S!JoinRun(c) PROVE NotStale'
  BY <1>3 DEF S!JoinRun, S!Answer
<1>4. ASSUME NEW c \in Protected, S!Yielded(c) PROVE NotStale'
  BY <1>4 DEF S!Yielded
<1>5. ASSUME NEW c \in Protected, S!Unwound(c) PROVE NotStale'
  BY <1>5, EndedIs DEF S!Unwound
<1>6. ASSUME NEW c \in Protected, S!WaiterWakes(c) PROVE NotStale'
  BY <1>6 DEF S!WaiterWakes, S!Answer
<1>7. ASSUME NEW c \in Protected, S!FunReturns(c) PROVE NotStale'
  BY <1>7 DEF S!FunReturns, S!EndRun
<1>8. ASSUME NEW c \in Protected, S!FunRaises(c) PROVE NotStale'
  BY <1>8 DEF S!FunRaises, S!EndRun
<1>9. ASSUME NEW c \in Protected, S!CancelCaller(c) PROVE NotStale'
  BY <1>9 DEF S!CancelCaller, S!CancelFuture
<1>10. CASE UNCHANGED S!vars
  BY <1>10 DEF S!vars
<1> QED
  BY <1>1, <1>2, <1>3, <1>4, <1>5, <1>6, <1>7, <1>8, <1>9, <1>10 DEF S!Next, S!TaskStep

LEMMA StampedeInvariant == Spec => []StampedeInv
<1>1. StampedeInv /\ [Next]_vars => StampedeInv'
  BY PartSteps, StampedeTypeStep, OneInRunStep, EndingsStep, NotStaleStep DEF StampedeInv
<1> QED
  BY StampedeInit, <1>1, PTL DEF Spec

\* A protected function never runs twice at a time; who gets a result gets that of
\* a run that was not over when it called, unless a cancellation has left an old
\* future behind; and only a run that raises leaves its waiters without an answer.
THEOREM StampedeProtected == Spec => []StampedeRight
<1>1. ASSUME StampedeInv PROVE S!OneRun
  <2> DEFINE running1 == {c \in Protected : spc[c] \in {"running", "set"}}
  <2>1. \A c, d \in running1 : c = d
    BY <1>1 DEF StampedeInv, OneInRun, InRun
  <2>2. Cardinality(running1) <= 1
    <3>1. CASE running1 = {}
      BY <3>1, FS_EmptySet
    <3>2. ASSUME NEW c \in running1 PROVE Cardinality(running1) <= 1
      <4>1. running1 = {c}
        BY <2>1, <3>2
      <4>2. Cardinality({c}) = 1
        BY FS_Singleton, Zenon
      <4> HIDE DEF running1
      <4> QED
        BY <4>1, <4>2
    <3> HIDE DEF running1
    <3> QED
      BY <3>1, <3>2
  <2>3. \A c \in Protected : spc[c] = "returned" =>
          ending[on[c]] = "returned" /\ (stuck \/ on[c] > runs0[c])
    BY <1>1 DEF StampedeInv, Endings, NotStale
  <2> QED
    BY <2>2, <2>3, SameCardinality, Zenon DEF S!OneRun
<1>2. ASSUME StampedeInv PROVE S!HungByException
  BY <1>2 DEF StampedeInv, S!TypeOK, S!Run, S!Outcome, Endings, S!HungByException, S!Unanswered
<1> QED
  BY StampedeInvariant, <1>1, <1>2, PTL DEF StampedeRight

-----------------------------------------------------------------------------
(* The worker.                                                             *)

\* Who runs the body of stop(), and what is known once it is over.
StopperRight ==
    /\ worker_stopped <=> stopper # "none"
    /\ worker_stoppc = "none" <=> stopper = "none"
    /\ signals = 0 => signalfut = "none"
    /\ signalfut = "stopping" => stopper = "signal"
    /\ signalfut = "done" => worker_stoppc = "done" \/ stopper = "main"
    /\ signalfut = "raised" => worker_stoppc = "raised"
    /\ stopper = "signal" => signalfut \in {"stopping", "done", "raised"}
    /\ stopper = "main" => main \in {"run_stop", "shutdown_loop", "exit"}
    /\ main = "run_stop" => stopper = "main"
    /\ main = "shutdown_loop" => worker_stoppc \in {"done", "raised"}

\* The child is told to stop before it is awaited, and then is down for good.
KidDown ==
    /\ worker_stoppc \in {"child", "finish", "done"} => kid_stopped
    /\ worker_stoppc \in {"finish", "done"} => ~kid_up

\* The loop is closed by the last step of the program.
ClosedLast ==
    /\ closed => main = "exit" /\ worker_stoppc \in {"done", "raised"}
    /\ exit_code = 0 => main = "exit" /\ ~worker_crashed /\ worker_startpc # "raised"

WorkerInv == K!TypeOK /\ StopperRight /\ KidDown /\ ClosedLast

LEMMA WorkerInit == Init => WorkerInv
<1> SUFFICES ASSUME K!Init PROVE WorkerInv
  BY DEF Init
<1>1. K!TypeOK
  <2>1. MaxSignals \in Nat
    BY ProgramConstants
  <2>2. signals \in 0..MaxSignals
    BY <2>1 DEF K!Init
  <2> QED
    BY <2>2 DEF K!TypeOK, K!Init
<1> QED
  BY <1>1 DEF K!Init, WorkerInv, StopperRight, KidDown, ClosedLast

LEMMA WorkerNext ==
    ASSUME WorkerInv, [K!Next]_(K!vars)
    PROVE  WorkerInv'
<1>0. MaxSignals \in Nat
  BY ProgramConstants
<1> USE <1>0 DEF WorkerInv, K!TypeOK, K!Over, K!StartOver, K!LoopRuns, K!ShouldStop,
       K!StartGoto, K!signalvars, K!kid, K!mainvars, StopperRight, KidDown, ClosedLast
<1>1. CASE K!FirstStarted
  BY <1>1 DEF K!FirstStarted
<1>2. CASE K!OnStartDone
  BY <1>2 DEF K!OnStartDone
<1>3. CASE K!ChildStarted
  BY <1>3 DEF K!ChildStarted
<1>4. CASE K!OnStarted
  BY <1>4 DEF K!OnStarted
<1>5. CASE K!StartRaises
  BY <1>5 DEF K!StartRaises
<1>6. CASE K!ChildCrashes
  BY <1>6 DEF K!ChildCrashes
<1>7. CASE K!OnStopDone
  BY <1>7 DEF K!OnStopDone
<1>8. CASE K!OnStopRaises
  BY <1>8 DEF K!OnStopRaises
<1>9. CASE K!StopGoesOn
  <2>1. K!TypeOK'
    BY <1>9 DEF K!StopGoesOn
  <2>2. StopperRight'
    BY <1>9 DEF K!StopGoesOn
  <2>3. KidDown' /\ ClosedLast'
    BY <1>9 DEF K!StopGoesOn
  <2> QED
    BY <2>1, <2>2, <2>3
<1>10. CASE K!Signal
  <2>1. K!TypeOK'
    BY <1>10 DEF K!Signal
  <2>2. StopperRight'
    BY <1>10 DEF K!Signal
  <2>3. KidDown'
    BY <1>10 DEF K!Signal
  <2>4. ClosedLast'
    BY <1>10 DEF K!Signal
  <2> QED
    BY <2>1, <2>2, <2>3, <2>4
<1>11. CASE K!SignalTask
  <2>1. K!TypeOK'
    BY <1>11 DEF K!SignalTask, K!BeginStop, K!CancelStart
  <2>2. StopperRight'
    BY <1>11 DEF K!SignalTask, K!BeginStop, K!CancelStart
  <2>3. KidDown'
    BY <1>11 DEF K!SignalTask, K!BeginStop, K!CancelStart
  <2>4. ClosedLast'
    BY <1>11 DEF K!SignalTask, K!BeginStop, K!CancelStart
  <2> QED
    BY <2>1, <2>2, <2>3, <2>4
<1>12. CASE K!MainGoesOn
  <2>1. K!TypeOK'
    BY <1>12 DEF K!MainGoesOn, K!BeginStop, K!Awaited, K!Exit
  <2>2. StopperRight'
    BY <1>12 DEF K!MainGoesOn, K!BeginStop, K!Awaited, K!Exit
  <2>3. KidDown'
    BY <1>12 DEF K!MainGoesOn, K!BeginStop, K!Awaited, K!Exit
  <2>4. ClosedLast'
    BY <1>12 DEF K!MainGoesOn, K!BeginStop, K!Awaited, K!Exit
  <2> QED
    BY <2>1, <2>2, <2>3, <2>4
<1>13. CASE K!ShutdownLoop
  <2>1. K!TypeOK'
    BY <1>13 DEF K!ShutdownLoop, K!Exit
  <2>2. StopperRight'
    BY <1>13 DEF K!ShutdownLoop, K!Exit
  <2>3. KidDown'
    BY <1>13 DEF K!ShutdownLoop, K!Exit
  <2>4. ClosedLast'
    BY <1>13 DEF K!ShutdownLoop, K!Exit
  <2> QED
    BY <2>1, <2>2, <2>3, <2>4
<1>14. CASE UNCHANGED K!vars
  BY <1>14 DEF K!vars
<1> QED
  BY <1>1, <1>2, <1>3, <1>4, <1>5, <1>6, <1>7, <1>8, <1>9, <1>10, <1>11, <1>12, <1>13,
     <1>14 DEF K!Next, K!StartStep

LEMMA WorkerInvariant == Spec => []WorkerInv
  BY WorkerInit, WorkerNext, PartSteps, PTL DEF Spec

\* The loop is closed when stop() is over and the child down, and a program that
\* exits with 0 had no crash and no exception of start(), however signals, hooks
\* that raise, and the crash of the child are interleaved.
THEOREM WorkerEndsClean == Spec => [](K!CleanExit /\ K!CrashReported)
<1>1. WorkerInv => K!CleanExit /\ K!CrashReported
  BY DEF WorkerInv, ClosedLast, KidDown, K!CleanExit, K!CrashReported
<1> QED
  BY WorkerInvariant, <1>1, PTL

-----------------------------------------------------------------------------
(* Waiting on a service.                                                   *)

\* Why a future of a wait is there, and what it says of the events.
FuturesRight ==
    \A w \in Waiter :
      /\ count0[w] <= restart_count
      /\ pc[w] = "idle" => \A s \in W!Source : fut[w][s] = "none"
      /\ pc[w] = "waiting" /\ is_set # {} => w \in seen
      /\ \A s \in W!Event :
           /\ fut[w][s] # "raised"
           /\ pc[w] = "waiting" /\ fut[w][s] \in {"woken", "done"} =>
                s \in is_set \/ restart_count > count0[w]

WaitInv == W!TypeOK /\ FuturesRight /\ W!ResultJustified /\ W!NoTaskLeft

LEMMA SourcesIs ==
    /\ W!Sources("wait_first") = W!Source
    /\ W!Sources("wait") = W!Event
    /\ W!Sources("sleep") = {"stopped"}
  BY Zenon DEF W!Sources

LEMMA ResultIs ==
    ASSUME NEW w \in Waiter
    PROVE  /\ call[w] = "wait_first" => W!Result(w) = W!WaitFirstResult(w)
           /\ call[w] = "wait" => W!Result(w) = IF is_set # {} THEN "woken" ELSE "assertion"
           /\ call[w] = "sleep" => W!Result(w) = "slept"
<1>1. ASSUME call[w] = "wait_first" PROVE W!Result(w) = W!WaitFirstResult(w)
  BY <1>1, Zenon DEF W!Result
<1>2. ASSUME call[w] = "wait"
      PROVE  W!Result(w) = IF is_set # {} THEN "woken" ELSE "assertion"
  BY <1>2, Zenon DEF W!Result, W!WaitStoppedResult
<1>3. ASSUME call[w] = "sleep" PROVE W!Result(w) = "slept"
  BY <1>3, Zenon DEF W!Result
<1> QED
  BY <1>1, <1>2, <1>3

\* A wait that returns has its reason, from its futures and the events as they
\* are then.
LEMMA ResultReason ==
    ASSUME WaitInv, NEW w \in Waiter, pc[w] = "waiting",
           W!In(w, W!Done) # {} \/ w \in timed
    PROVE  /\ W!Result(w) \in W!Outcome \ {"cancelled"}
           /\ W!Result(w) = "value" => fut[w]["coro"] = "done"
           /\ W!Result(w) = "event" => restart_count > count0[w]
           /\ W!Result(w) = "assertion" => restart_count > count0[w] \/ w \in timed
           /\ W!Result(w) \in {"stopped", "woken"} => w \in seen \cup timed
<1> USE DEF W!Outcome
<1>1. CASE call[w] = "wait_first"
  <2>1. W!Result(w) = W!WaitFirstResult(w)
    BY <1>1, ResultIs
  <2>2. ASSUME W!Result(w) = "event" PROVE restart_count > count0[w]
    <3>1. /\ W!In(w, {"raised"}) = {} /\ W!In(w, W!Done) # {} /\ is_set = {}
          /\ fut[w]["coro"] # "done"
      BY <2>1, <2>2 DEF W!WaitFirstResult
    <3>2. PICK s \in W!Source : fut[w][s] \in {"done", "raised"} /\ fut[w][s] # "raised"
      BY <1>1, <3>1, SourcesIs DEF W!In, W!Done
    <3>3. s \in W!Event
      BY <3>1, <3>2 DEF W!Source, W!Event
    <3> QED
      BY <3>1, <3>2, <3>3 DEF WaitInv, FuturesRight
  <2>3. ASSUME W!Result(w) = "stopped" PROVE w \in seen \cup timed
    <3>1. W!In(w, W!Done) = {} \/ is_set # {}
      BY <2>1, <2>3 DEF W!WaitFirstResult
    <3> QED
      BY <3>1 DEF WaitInv, FuturesRight
  <2>4. W!Result(w) \in {"raised", "stopped", "value", "event"}
    BY <2>1 DEF W!WaitFirstResult
  <2>5. W!Result(w) = "value" => fut[w]["coro"] = "done"
    BY <2>1 DEF W!WaitFirstResult
  <2> QED
    BY <2>2, <2>3, <2>4, <2>5
<1>2. CASE call[w] = "wait"
  <2>1. W!Result(w) = IF is_set # {} THEN "woken" ELSE "assertion"
    BY <1>2, ResultIs
  <2>2. ASSUME is_set = {}, w \notin timed PROVE restart_count > count0[w]
    <3>1. PICK s \in W!Event : fut[w][s] \in {"done", "raised"}
      BY <1>2, <2>2, SourcesIs DEF W!In, W!Done
    <3> QED
      BY <2>2, <3>1 DEF WaitInv, FuturesRight
  <2>3. is_set # {} => w \in seen
    BY DEF WaitInv, FuturesRight
  <2> QED
    BY <2>1, <2>2, <2>3
<1>3. CASE call[w] = "sleep"
  BY <1>3, ResultIs
<1> QED
  BY <1>1, <1>2, <1>3 DEF WaitInv, W!TypeOK, W!Call

LEMMA WaitInit == Init => WaitInv
<1> SUFFICES ASSUME W!Init PROVE WaitInv
  BY DEF Init
<1>1. W!TypeOK
  <2>1. MaxWaitRestarts \in Nat
    BY ProgramConstants
  <2>2. restart_count \in 0..MaxWaitRestarts /\ count0 \in [Waiter -> 0..MaxWaitRestarts]
    BY <2>1 DEF W!Init
  <2> QED
    BY <2>2 DEF W!TypeOK, W!Init, W!Outcome, W!FutureState, W!Call
<1> QED
  BY <1>1 DEF W!Init, WaitInv, FuturesRight, W!Source, W!Event, W!ResultJustified,
     W!NoTaskLeft, W!Outcome

\* What an event does to the futures.
LEMMA EventSetIs ==
    ASSUME W!TypeOK, NEW E \in SUBSET W!Event, W!EventSet(E)
    PROVE  /\ fut' \in [Waiter -> [W!Source -> W!FutureState]]
           /\ \A w \in Waiter, s \in W!Source :
                fut'[w][s] = IF s \in E /\ fut[w][s] = "waiting" THEN "woken" ELSE fut[w][s]
           /\ seen' = seen \cup {w \in Waiter : pc[w] = "waiting"}
  BY DEF W!EventSet, W!Woken, W!TypeOK, W!FutureState

LEMMA CancelAllIs ==
    ASSUME W!TypeOK, NEW w \in Waiter
    PROVE  /\ W!CancelAll(w) \in [Waiter -> [W!Source -> W!FutureState]]
           /\ \A v \in Waiter, s \in W!Source :
                W!CancelAll(w)[v][s] =
                  IF v = w /\ fut[v][s] \in {"created", "waiting", "woken"}
                    THEN "cancelled" ELSE fut[v][s]
  BY DEF W!CancelAll, W!TypeOK, W!FutureState

LEMMA WaitNext ==
    ASSUME WaitInv, [W!Next]_(W!vars)
    PROVE  WaitInv'
<1>0. MaxWaitRestarts \in Nat
  BY ProgramConstants
<1> USE <1>0 DEF WaitInv, W!TypeOK, W!Outcome, W!FutureState, W!Source, W!Event, W!Call,
       FuturesRight, W!ResultJustified, W!NoTaskLeft
<1>1. CASE W!Stop
  BY <1>1, EventSetIs DEF W!Stop, W!StopAwaitable
<1>2. CASE W!Crash
  BY <1>2, EventSetIs DEF W!Crash
<1>3. CASE W!Reset
  BY <1>3 DEF W!Reset
<1>4. CASE W!Restart
  BY <1>4, EventSetIs DEF W!Restart, W!StopAwaitable
<1>5. ASSUME NEW w \in Waiter, NEW c \in W!Call, NEW t \in BOOLEAN, W!BeginWait(w, c, t)
      PROVE  WaitInv'
  BY <1>5 DEF W!BeginWait
<1>6. ASSUME NEW w \in Waiter, W!WaitReturns(w) PROVE WaitInv'
  BY <1>6, CancelAllIs, ResultReason DEF W!WaitReturns
<1>7. ASSUME NEW w \in Waiter, NEW s \in W!Source, W!RunTask(w, s) PROVE WaitInv'
  <2>1. /\ fut[w][s] \in {"created", "woken"}
        /\ \E r \in {"done", "waiting"} :
             /\ fut' = [fut EXCEPT ![w][s] = r]
             /\ r = "done" => s \in is_set \/ fut[w][s] = "woken"
        /\ UNCHANGED <<is_set, restart_count, pc, call, timed, count0, seen, on_start, awaited>>
    BY <1>7 DEF W!RunTask
  <2>2. W!TypeOK'
    BY <2>1
  <2>3. FuturesRight'
    BY <2>1
  <2>4. W!ResultJustified' /\ W!NoTaskLeft'
    BY <2>1
  <2> QED
    BY <2>2, <2>3, <2>4
<1>8. ASSUME NEW w \in Waiter, W!CoroEnds(w) PROVE WaitInv'
  BY <1>8 DEF W!CoroEnds, W!Done
<1>9. ASSUME NEW w \in Waiter, W!CallerCancelled(w) PROVE WaitInv'
  BY <1>9, CancelAllIs DEF W!CallerCancelled
<1>10. CASE W!AwaitableStep
  <2>1. UNCHANGED <<is_set, restart_count, pc, call, timed, fut, count0, seen>>
    BY <1>10 DEF W!AwaitableStep, W!AwaitableStart, W!AwaitableEnds, W!AwaitableStarted
  <2>2. /\ on_start' \in {"idle", "awaiting", "returned", "raised"}
        /\ awaited' \in {"none", "pending", "done", "cancelling", "cancelled"}
    BY <1>10 DEF W!AwaitableStep, W!AwaitableStart, W!AwaitableEnds, W!AwaitableStarted
  <2> QED
    BY <2>1, <2>2
<1>11. CASE UNCHANGED W!vars
  BY <1>11 DEF W!vars
<1> QED
  BY <1>1, <1>2, <1>3, <1>4, <1>5, <1>6, <1>7, <1>8, <1>9, <1>10, <1>11 DEF W!Next, W!LoopStep

LEMMA WaitInvariant == Spec => []WaitInv
  BY WaitInit, WaitNext, PartSteps, PTL DEF Spec

\* What a wait returns has a reason in what happened during the call, and no task
\* of it is left behind, for any number of waiters and restarts.
THEOREM WaitsJustified == Spec => []WaitsRight
  BY WaitInvariant, PTL DEF WaitInv, WaitsRight

-----------------------------------------------------------------------------
(* Flight recorders.                                                       *)

\* Whose lists these are: a list that was never there when a context was copied
\* has one task, and holds the recorders of the blocks it is in.
ListsOwned ==
    /\ \A t \in LogTask : context[t] <= lists
    /\ \A t \in LogTask \ alive : context[t] = 0 /\ entered[t] = <<>>
    /\ \A t \in alive \ sharing :
         /\ F!Stack(t) = entered[t]
         /\ \A u \in LogTask \ {t} : context[t] # 0 => context[u] # context[t]

\* A recorder is in one block at a time.
EnteredOnce ==
    \A t, u \in LogTask : \A i \in DOMAIN entered[t], j \in DOMAIN entered[u] :
      entered[t][i] = entered[u][j] => t = u /\ i = j

RecorderInv == F!TypeOK /\ ListsOwned /\ EnteredOnce /\ F!ArmedInside /\ F!OwnMessages

LEMMA FrontLast ==
    ASSUME NEW A, NEW q \in Seq(A), q # <<>>
    PROVE  /\ Len(q) \in Nat \ {0} /\ DOMAIN q = 1..Len(q)
           /\ F!Front(q) \in Seq(A) /\ Len(F!Front(q)) = Len(q) - 1
           /\ DOMAIN F!Front(q) = 1..(Len(q) - 1)
           /\ \A i \in 1..(Len(q) - 1) : F!Front(q)[i] = q[i]
           /\ F!Last(q) = q[Len(q)] /\ F!Last(q) \in A
<1>1. Len(q) \in Nat \ {0} /\ DOMAIN q = 1..Len(q) /\ \A i \in 1..Len(q) : q[i] \in A
  BY EmptySeq, LenProperties
<1>2. \A i \in 1..(Len(q) - 1) : q[i] \in A
  BY <1>1
<1>3. /\ SubSeq(q, 1, Len(q) - 1) \in Seq(A)
      /\ Len(SubSeq(q, 1, Len(q) - 1)) = IF 1 <= Len(q) - 1 THEN Len(q) - 1 - 1 + 1 ELSE 0
      /\ \A i \in 1..(Len(q) - 1 - 1 + 1) : SubSeq(q, 1, Len(q) - 1)[i] = q[1 + i - 1]
  BY <1>1, <1>2, SubSeqProperties
<1>4. Len(SubSeq(q, 1, Len(q) - 1)) = Len(q) - 1
  BY <1>1, <1>3
<1>5. DOMAIN SubSeq(q, 1, Len(q) - 1) = 1..(Len(q) - 1)
  BY <1>3, <1>4, LenProperties
<1>6. \A i \in 1..(Len(q) - 1) : SubSeq(q, 1, Len(q) - 1)[i] = q[i]
  BY <1>1, <1>3
<1> QED
  BY <1>1, <1>3, <1>4, <1>5, <1>6 DEF F!Front, F!Last

LEMMA AppendIs ==
    ASSUME NEW A, NEW q \in Seq(A), NEW x \in A
    PROVE  /\ Append(q, x) \in Seq(A) /\ Len(q) \in Nat
           /\ DOMAIN q = 1..Len(q) /\ DOMAIN Append(q, x) = 1..(Len(q) + 1)
           /\ \A i \in 1..Len(q) : Append(q, x)[i] = q[i]
           /\ Append(q, x)[Len(q) + 1] = x
<1>1. /\ Append(q, x) \in Seq(A) /\ Len(Append(q, x)) = Len(q) + 1
      /\ \A i \in 1..Len(q) : Append(q, x)[i] = q[i]
      /\ Append(q, x)[Len(q) + 1] = x
  BY AppendProperties
<1> QED
  BY <1>1, LenProperties

LEMMA ToSetIs == \A q : F!ToSet(q) = {q[i] : i \in DOMAIN q}
  BY Zenon DEF F!ToSet

LEMMA RecorderInit == Init => RecorderInv
<1> SUFFICES ASSUME F!Init PROVE RecorderInv
  BY DEF Init
<1>1. F!TypeOK
  <2>1. MaxLists \in Nat /\ MaxMessages \in Nat
    BY ProgramConstants
  <2>2. /\ context \in [LogTask -> 0..MaxLists] /\ lists \in 0..MaxLists
        /\ messages \in 0..MaxMessages
    BY <2>1 DEF F!Init
  <2> QED
    BY <2>2 DEF F!TypeOK, F!Init
<1>2. ListsOwned /\ EnteredOnce
  BY DEF F!Init, ListsOwned, EnteredOnce, F!Stack
<1>3. F!ArmedInside /\ F!OwnMessages
  BY ToSetIs DEF F!Init, F!ArmedInside, F!OwnMessages
<1> QED
  BY <1>1, <1>2, <1>3 DEF RecorderInv

\* What entering a block does to the list of the task, and to no other that is
\* not shared.
LEMMA EnterStep ==
    ASSUME RecorderInv, NEW t \in LogTask, NEW r \in Recorder, F!EnterRecorder(t, r)
    PROVE  RecorderInv'
<1>1. /\ t \in alive /\ timer[r] = "none" /\ timer' = [timer EXCEPT ![r] = "waiting"]
      /\ \A u \in LogTask : r \notin F!ToSet(entered[u])
      /\ entered' = [entered EXCEPT ![t] = Append(@, r)]
      /\ UNCHANGED <<alive, sharing, logs, messages, replayed>>
  BY DEF F!EnterRecorder
<1>2. /\ MaxLists \in Nat /\ context \in [LogTask -> 0..MaxLists] /\ lists \in 0..MaxLists
      /\ list \in [1..MaxLists -> Seq(Recorder)] /\ entered \in [LogTask -> Seq(Recorder)]
      /\ extra \in [Recorder -> SUBSET Recorder]
      /\ timer \in [Recorder -> {"none", "waiting", "fired"}]
  BY ProgramConstants DEF RecorderInv, F!TypeOK
<1>3. /\ entered[t] \in Seq(Recorder) /\ Append(entered[t], r) \in Seq(Recorder)
      /\ Len(entered[t]) \in Nat /\ DOMAIN entered[t] = 1..Len(entered[t])
      /\ DOMAIN Append(entered[t], r) = 1..(Len(entered[t]) + 1)
      /\ \A i \in 1..Len(entered[t]) : Append(entered[t], r)[i] = entered[t][i]
      /\ Append(entered[t], r)[Len(entered[t]) + 1] = r
  BY <1>2, AppendIs
<1>4. /\ entered' \in [LogTask -> Seq(Recorder)] /\ entered'[t] = Append(entered[t], r)
      /\ \A u \in LogTask \ {t} : entered'[u] = entered[u]
  BY <1>1, <1>2, <1>3
<1>5. \/ /\ context[t] = 0 /\ lists' = lists + 1 /\ lists + 1 \in 1..MaxLists
         /\ context' = [context EXCEPT ![t] = lists + 1]
         /\ list' = [list EXCEPT ![lists + 1] = <<r>>]
      \/ /\ context[t] \in 1..MaxLists /\ UNCHANGED <<lists, context>>
         /\ list' = [list EXCEPT ![context[t]] = Append(@, r)]
  <2>1. \/ /\ context[t] = 0 /\ lists < MaxLists /\ lists' = lists + 1
           /\ context' = [context EXCEPT ![t] = lists + 1]
           /\ list' = [list EXCEPT ![lists + 1] = <<r>>]
        \/ /\ context[t] # 0 /\ UNCHANGED <<lists, context>>
           /\ list' = [list EXCEPT ![context[t]] = Append(@, r)]
    BY DEF F!EnterRecorder, F!Push
  <2>2. context[t] \in 0..MaxLists
    BY <1>2
  <2>3. CASE context[t] = 0
    <3>1. lists + 1 \in 1..MaxLists
      BY <1>2, <2>1, <2>3
    <3> QED
      BY <2>1, <2>3, <3>1
  <2>4. CASE context[t] # 0
    <3>1. context[t] \in 1..MaxLists
      BY <1>2, <2>2, <2>4
    <3> QED
      BY <2>1, <2>4, <3>1
  <2> QED
    BY <2>3, <2>4
<1>6. F!TypeOK'
  <2>1. extra' \in [Recorder -> SUBSET Recorder]
    <3>1. F!Top(t) # None => F!Top(t) \in Recorder
      <4> SUFFICES ASSUME F!Stack(t) # <<>> PROVE F!Last(F!Stack(t)) \in Recorder
        BY DEF F!Top
      <4>1. F!Stack(t) \in Seq(Recorder)
        BY <1>2 DEF F!Stack
      <4> QED
        BY <4>1, FrontLast
    <3>2. extra' = [extra EXCEPT ![r] = @ \cup (IF F!Top(t) = None THEN {}
                                                ELSE extra[F!Top(t)])]
      BY DEF F!EnterRecorder
    <3> QED
      BY <1>2, <3>1, <3>2
  <2>2. CASE context[t] = 0
    <3>0. /\ lists' = lists + 1 /\ lists + 1 \in 1..MaxLists /\ lists + 1 \in 0..MaxLists
          /\ context' = [context EXCEPT ![t] = lists + 1]
          /\ list' = [list EXCEPT ![lists + 1] = <<r>>]
      BY <1>2, <1>5, <2>2
    <3>1. lists' \in 0..MaxLists /\ context' \in [LogTask -> 0..MaxLists]
      BY <1>2, <3>0
    <3>2. <<r>> \in Seq(Recorder)
      OBVIOUS
    <3>3. list' \in [1..MaxLists -> Seq(Recorder)]
      BY <1>2, <3>0, <3>2
    <3> QED
      BY <1>1, <1>2, <1>4, <2>1, <3>1, <3>3 DEF RecorderInv, F!TypeOK
  <2>3. CASE context[t] # 0
    <3>1. Append(list[context[t]], r) \in Seq(Recorder)
      BY <1>2, <1>5, <2>3, AppendIs
    <3>2. list' \in [1..MaxLists -> Seq(Recorder)]
      BY <1>2, <1>5, <2>3, <3>1
    <3> QED
      BY <1>1, <1>2, <1>4, <1>5, <2>1, <2>3, <3>2 DEF RecorderInv, F!TypeOK
  <2> QED
    BY <2>2, <2>3
<1>7. ListsOwned'
  <2>0. /\ \A u \in LogTask : context[u] <= lists
        /\ \A u \in LogTask \ alive : context[u] = 0 /\ entered[u] = <<>>
        /\ \A u \in alive \ sharing :
             /\ F!Stack(u) = entered[u]
             /\ \A v \in LogTask \ {u} : context[u] # 0 => context[v] # context[u]
        /\ alive \subseteq LogTask
    BY DEF RecorderInv, ListsOwned, F!TypeOK
  <2>1. \A u \in LogTask : context'[u] <= lists'
    <3>1. CASE context[t] = 0
      BY <1>2, <1>5, <2>0, <3>1
    <3>2. CASE context[t] # 0
      BY <1>5, <2>0, <3>2
    <3> QED
      BY <3>1, <3>2
  <2>2. \A u \in LogTask \ alive' : context'[u] = 0 /\ entered'[u] = <<>>
    BY <1>1, <1>2, <1>4, <1>5, <2>0
  <2>3. ASSUME NEW u \in alive' \ sharing'
        PROVE  /\ F!Stack(u)' = entered'[u]
               /\ \A v \in LogTask \ {u} : context'[u] # 0 => context'[v] # context'[u]
    <3>1. u \in alive \ sharing /\ u \in LogTask
      BY <1>1, <2>0
    <3>2. /\ entered[u] = IF context[u] = 0 THEN <<>> ELSE list[context[u]]
          /\ \A v \in LogTask \ {u} : context[u] # 0 => context[v] # context[u]
      BY <2>0, <3>1 DEF F!Stack
    <3>3. CASE context[t] = 0
      <4>1. /\ context'[t] = lists + 1 /\ list'[lists + 1] = <<r>>
            /\ \A v \in LogTask \ {t} : context'[v] = context[v] /\ context'[v] # lists + 1
            /\ \A i \in 1..MaxLists : i # lists + 1 => list'[i] = list[i]
        BY <1>2, <1>5, <2>0, <3>3
      <4>2. CASE u = t
        <5>1. entered[t] = <<>>
          BY <3>2, <3>3, <4>2
        <5>2. Append(entered[t], r) = <<r>>
          BY <5>1
        <5>3. lists + 1 # 0
          BY <1>2
        <5> QED
          BY <1>2, <1>4, <4>1, <4>2, <5>2, <5>3 DEF F!Stack
      <4>3. CASE u # t
        <5>1. context'[u] = context[u] /\ entered'[u] = entered[u]
          BY <1>4, <3>1, <4>1, <4>3
        <5>2. context[u] # 0 => list'[context[u]] = list[context[u]]
          BY <1>2, <3>1, <4>1, <4>3, <5>1
        <5>3. ASSUME NEW v \in LogTask \ {u}, context'[u] # 0 PROVE context'[v] # context'[u]
          BY <3>1, <3>2, <4>1, <4>3, <5>1, <5>3
        <5> QED
          BY <3>2, <5>1, <5>2, <5>3 DEF F!Stack
      <4> QED
        BY <4>2, <4>3
    <3>4. CASE context[t] # 0
      <4>1. /\ context' = context /\ list'[context[t]] = Append(list[context[t]], r)
            /\ \A i \in 1..MaxLists : i # context[t] => list'[i] = list[i]
        BY <1>2, <1>5, <3>4
      <4>2. CASE u = t
        BY <1>4, <3>2, <3>4, <4>1, <4>2 DEF F!Stack
      <4>3. CASE u # t
        <5>1. context[u] # 0 => list'[context[u]] = list[context[u]]
          BY <1>2, <3>1, <3>2, <4>1, <4>3
        <5> QED
          BY <1>4, <3>1, <3>2, <4>1, <4>3, <5>1 DEF F!Stack
      <4> QED
        BY <4>2, <4>3
    <3> QED
      BY <3>3, <3>4
  <2> QED
    BY <2>1, <2>2, <2>3 DEF ListsOwned
<1>8. \A u \in LogTask : r \notin {entered[u][i] : i \in DOMAIN entered[u]}
  BY <1>1, ToSetIs
<1>9. ASSUME NEW u \in LogTask, NEW i \in DOMAIN entered'[u]
      PROVE  \/ i \in DOMAIN entered[u] /\ entered'[u][i] = entered[u][i]
             \/ u = t /\ i = Len(entered[t]) + 1 /\ entered'[u][i] = r
  <2>1. CASE u = t
    BY <1>3, <1>4, <1>9, <2>1
  <2>2. CASE u # t
    BY <1>4, <1>9, <2>2
  <2> QED
    BY <2>1, <2>2
<1>10. EnteredOnce'
  <2> SUFFICES ASSUME NEW u \in LogTask, NEW v \in LogTask, NEW i \in DOMAIN entered'[u],
                      NEW k \in DOMAIN entered'[v], entered'[u][i] = entered'[v][k]
               PROVE  u = v /\ i = k
    BY DEF EnteredOnce
  <2>1. \A x \in LogTask : \A n \in DOMAIN entered[x] : entered[x][n] # r
    BY <1>8
  <2> QED
    BY <1>9, <2>1 DEF RecorderInv, EnteredOnce
<1>11. /\ r \in {entered'[t][i] : i \in DOMAIN entered'[t]}
       /\ \A u \in LogTask : {entered[u][i] : i \in DOMAIN entered[u]}
                            \subseteq {entered'[u][i] : i \in DOMAIN entered'[u]}
  <2>1. Len(entered[t]) + 1 \in DOMAIN entered'[t] /\ entered'[t][Len(entered[t]) + 1] = r
    BY <1>3, <1>4
  <2>2. \A u \in LogTask : \A i \in DOMAIN entered[u] :
          i \in DOMAIN entered'[u] /\ entered'[u][i] = entered[u][i]
    <3>1. \A i \in DOMAIN entered[t] :
            i \in DOMAIN entered'[t] /\ entered'[t][i] = entered[t][i]
      BY <1>3, <1>4
    <3> QED
      BY <1>4, <3>1
  <2> QED
    BY <2>1, <2>2
<1>12. /\ \A x \in Recorder \ {r} : timer'[x] = timer[x]
       /\ logs' = logs /\ sharing' = sharing
  BY <1>1, <1>2
<1>13. F!ArmedInside'
  <2> SUFFICES ASSUME NEW x \in Recorder, timer'[x] # "none" \/ logs'[x] # <<>>
               PROVE  \E u \in LogTask : x \in {entered'[u][i] : i \in DOMAIN entered'[u]}
    BY ToSetIs DEF F!ArmedInside
  <2>1. CASE x = r
    BY <1>11, <2>1
  <2>2. CASE x # r
    <3>1. PICK u \in LogTask : x \in {entered[u][i] : i \in DOMAIN entered[u]}
      BY <1>12, <2>2, ToSetIs DEF RecorderInv, F!ArmedInside
    <3> QED
      BY <1>11, <3>1
  <2> QED
    BY <2>1, <2>2
<1>14. F!OwnMessages'
  <2> SUFFICES ASSUME NEW x \in Recorder, NEW u \in {logs'[x][i] : i \in DOMAIN logs'[x]}
               PROVE  u \in sharing' \/ x \in {entered'[u][i] : i \in DOMAIN entered'[u]}
    BY ToSetIs DEF F!OwnMessages
  <2>1. u \in sharing \/ x \in {entered[u][i] : i \in DOMAIN entered[u]}
    BY <1>12, ToSetIs DEF RecorderInv, F!OwnMessages
  <2>2. logs'[x] \in Seq(LogTask) /\ DOMAIN logs'[x] = 1..Len(logs'[x])
    BY <1>12, LenProperties DEF RecorderInv, F!TypeOK
  <2>3. u \in LogTask
    BY <2>2, ElementOfSeq
  <2> QED
    BY <1>11, <1>12, <2>1, <2>3
<1> QED
  BY <1>6, <1>7, <1>10, <1>13, <1>14 DEF RecorderInv

LEMMA ExitStep ==
    ASSUME RecorderInv, NEW t \in LogTask, F!ExitRecorder(t)
    PROVE  RecorderInv'
<1> DEFINE r == F!Last(entered[t])
<1>1. /\ entered[t] # <<>> /\ entered' = [entered EXCEPT ![t] = F!Front(@)]
      /\ timer' = [timer EXCEPT ![r] = "none"] /\ logs' = [logs EXCEPT ![r] = <<>>]
      /\ UNCHANGED <<alive, lists, sharing, extra, messages, replayed>>
  BY DEF F!ExitRecorder, F!CancelRecorder
<1>2. /\ MaxLists \in Nat /\ context \in [LogTask -> 0..MaxLists] /\ lists \in 0..MaxLists
      /\ list \in [1..MaxLists -> Seq(Recorder)] /\ entered \in [LogTask -> Seq(Recorder)]
      /\ timer \in [Recorder -> {"none", "waiting", "fired"}]
      /\ logs \in [Recorder -> Seq(LogTask)]
  BY ProgramConstants DEF RecorderInv, F!TypeOK
<1>3. /\ Len(entered[t]) \in Nat \ {0} /\ DOMAIN entered[t] = 1..Len(entered[t])
      /\ F!Front(entered[t]) \in Seq(Recorder)
      /\ Len(F!Front(entered[t])) = Len(entered[t]) - 1
      /\ DOMAIN F!Front(entered[t]) = 1..(Len(entered[t]) - 1)
      /\ \A i \in 1..(Len(entered[t]) - 1) : F!Front(entered[t])[i] = entered[t][i]
      /\ r = entered[t][Len(entered[t])] /\ r \in Recorder
  BY <1>1, <1>2, FrontLast
<1>4. /\ entered' \in [LogTask -> Seq(Recorder)] /\ entered'[t] = F!Front(entered[t])
      /\ \A u \in LogTask \ {t} : entered'[u] = entered[u]
  BY <1>1, <1>2, <1>3
<1>5. /\ timer'[r] = "none" /\ logs'[r] = <<>>
      /\ \A x \in Recorder \ {r} : timer'[x] = timer[x] /\ logs'[x] = logs[x]
      /\ timer' \in [Recorder -> {"none", "waiting", "fired"}]
  BY <1>1, <1>2, <1>3
<1>6. logs' \in [Recorder -> Seq(LogTask)]
  <2>1. <<>> \in Seq(LogTask)
    OBVIOUS
  <2> QED
    BY <1>1, <1>2, <2>1
<1> HIDE DEF r
\* What the pop does to the lists.
<1>7. /\ context' \in [LogTask -> 0..MaxLists] /\ list' \in [1..MaxLists -> Seq(Recorder)]
      /\ \A u \in LogTask \ {t} : context'[u] = context[u]
      /\ context'[t] \in {0, context[t]}
      /\ \A i \in 1..MaxLists : i # context[t] => list'[i] = list[i]
      /\ F!Stack(t)' = IF Len(F!Stack(t)) <= 1 THEN <<>> ELSE F!Front(F!Stack(t))
  <2>1. CASE Len(F!Stack(t)) <= 1
    <3>1. list' = list /\ context' = [context EXCEPT ![t] = 0]
      BY <2>1 DEF F!ExitRecorder, F!Pop
    <3> QED
      BY <1>2, <2>1, <3>1 DEF F!Stack
  <2>2. CASE ~(Len(F!Stack(t)) <= 1)
    <3>1. context' = context /\ list' = [list EXCEPT ![context[t]] = F!Front(@)]
      BY <2>2 DEF F!ExitRecorder, F!Pop
    <3>2. context[t] \in 1..MaxLists /\ F!Stack(t) = list[context[t]] /\ F!Stack(t) # <<>>
      BY <1>2, <2>2 DEF F!Stack
    <3>3. F!Stack(t) \in Seq(Recorder) /\ F!Front(list[context[t]]) \in Seq(Recorder)
      <4>1. list[context[t]] \in Seq(Recorder) /\ list[context[t]] # <<>>
        BY <1>2, <3>2
      <4>2. F!Front(list[context[t]]) \in Seq(Recorder)
        BY <4>1, FrontLast
      <4> QED
        BY <3>2, <4>1, <4>2
    <3>4. list' \in [1..MaxLists -> Seq(Recorder)]
          /\ list'[context[t]] = F!Front(list[context[t]])
      BY <1>2, <3>1, <3>2, <3>3
    <3>5. \A i \in 1..MaxLists : i # context[t] => list'[i] = list[i]
      BY <1>2, <3>1, <3>2
    <3>6. F!Stack(t)' = F!Front(F!Stack(t))
      BY <3>1, <3>2, <3>4 DEF F!Stack
    <3> QED
      BY <1>2, <2>2, <3>1, <3>4, <3>5, <3>6
  <2> QED
    BY <2>1, <2>2
<1>8. F!TypeOK'
  BY <1>1, <1>2, <1>4, <1>5, <1>6, <1>7 DEF RecorderInv, F!TypeOK
<1>9. ListsOwned'
  <2>0. /\ \A u \in LogTask : context[u] <= lists
        /\ \A u \in LogTask \ alive : context[u] = 0 /\ entered[u] = <<>>
        /\ \A u \in alive \ sharing :
             /\ F!Stack(u) = entered[u]
             /\ \A v \in LogTask \ {u} : context[u] # 0 => context[v] # context[u]
        /\ alive \subseteq LogTask
    BY DEF RecorderInv, ListsOwned, F!TypeOK
  <2>1. \A u \in LogTask : context'[u] <= lists'
    <3>1. context'[t] <= lists'
      BY <1>1, <1>2, <1>7, <2>0
    <3> QED
      BY <1>1, <1>7, <2>0, <3>1
  <2>2. \A u \in LogTask \ alive' : context'[u] = 0 /\ entered'[u] = <<>>
    BY <1>1, <1>4, <1>7, <2>0
  <2>3. ASSUME NEW u \in alive' \ sharing'
        PROVE  /\ F!Stack(u)' = entered'[u]
               /\ \A v \in LogTask \ {u} : context'[u] # 0 => context'[v] # context'[u]
    <3>1. /\ u \in alive \ sharing /\ u \in LogTask /\ F!Stack(u) = entered[u]
          /\ \A v \in LogTask \ {u} : context[u] # 0 => context[v] # context[u]
      BY <1>1, <2>0
    <3>2. CASE u = t
      <4>1. CASE Len(entered[t]) <= 1
        <5>1. entered'[t] \in Seq(Recorder) /\ Len(entered'[t]) = 0
          BY <1>3, <1>4, <4>1
        <5>2. entered'[t] = <<>>
          BY <5>1, EmptySeq
        <5> QED
          BY <1>2, <1>7, <3>1, <3>2, <4>1, <5>2
      <4>2. CASE ~(Len(entered[t]) <= 1)
        BY <1>2, <1>4, <1>7, <3>1, <3>2, <4>2
      <4> QED
        BY <4>1, <4>2
    <3>3. CASE u # t
      <4>1. context'[u] = context[u] /\ entered'[u] = entered[u]
        BY <1>4, <1>7, <3>1, <3>3
      <4>2. context[u] # 0 => context[u] \in 1..MaxLists /\ context[u] # context[t]
        BY <1>2, <3>1, <3>3
      <4>3. F!Stack(u)' = F!Stack(u)
        BY <1>7, <4>1, <4>2 DEF F!Stack
      <4>4. ASSUME NEW v \in LogTask \ {u}, context'[u] # 0 PROVE context'[v] # context'[u]
        BY <1>7, <3>1, <4>1, <4>2, <4>4
      <4> QED
        BY <3>1, <4>1, <4>3, <4>4
    <3> QED
      BY <3>2, <3>3
  <2> QED
    BY <2>1, <2>2, <2>3 DEF ListsOwned
<1>10. \A u \in LogTask : \A i \in DOMAIN entered'[u] :
         i \in DOMAIN entered[u] /\ entered'[u][i] = entered[u][i]
  <2>1. \A i \in DOMAIN entered'[t] :
          i \in DOMAIN entered[t] /\ entered'[t][i] = entered[t][i]
    BY <1>3, <1>4
  <2> QED
    BY <1>4, <2>1
<1>11. EnteredOnce'
  <2> SUFFICES ASSUME NEW u \in LogTask, NEW v \in LogTask, NEW i \in DOMAIN entered'[u],
                      NEW k \in DOMAIN entered'[v], entered'[u][i] = entered'[v][k]
               PROVE  u = v /\ i = k
    BY DEF EnteredOnce
  <2> QED
    BY <1>10 DEF RecorderInv, EnteredOnce
<1>12. ASSUME NEW u \in LogTask, NEW x \in {entered[u][i] : i \in DOMAIN entered[u]}, x # r
       PROVE  x \in {entered'[u][i] : i \in DOMAIN entered'[u]}
  <2>1. CASE u # t
    BY <1>4, <1>12, <2>1
  <2>2. CASE u = t
    <3>1. PICK i \in DOMAIN entered[t] : x = entered[t][i]
      BY <1>12, <2>2
    <3>2. i # Len(entered[t]) /\ i \in 1..Len(entered[t])
      BY <1>3, <1>12, <3>1
    <3>3. i \in DOMAIN entered'[t] /\ entered'[t][i] = x
      BY <1>3, <1>4, <3>1, <3>2
    <3> QED
      BY <2>2, <3>3
  <2> QED
    BY <2>1, <2>2
<1>13. F!ArmedInside'
  <2> SUFFICES ASSUME NEW x \in Recorder, timer'[x] # "none" \/ logs'[x] # <<>>
               PROVE  \E u \in LogTask : x \in {entered'[u][i] : i \in DOMAIN entered'[u]}
    BY ToSetIs DEF F!ArmedInside
  <2>1. x # r /\ timer'[x] = timer[x] /\ logs'[x] = logs[x]
    BY <1>5
  <2>2. PICK u \in LogTask : x \in {entered[u][i] : i \in DOMAIN entered[u]}
    BY <2>1, ToSetIs DEF RecorderInv, F!ArmedInside
  <2> QED
    BY <1>12, <2>1, <2>2
<1>14. F!OwnMessages'
  <2> SUFFICES ASSUME NEW x \in Recorder, NEW u \in {logs'[x][i] : i \in DOMAIN logs'[x]}
               PROVE  u \in sharing' \/ x \in {entered'[u][i] : i \in DOMAIN entered'[u]}
    BY ToSetIs DEF F!OwnMessages
  <2>1. x # r /\ logs'[x] = logs[x]
    <3>1. DOMAIN logs'[x] # {}
      OBVIOUS
    <3>2. DOMAIN <<>> = {}
      BY EmptySeq, LenProperties
    <3> QED
      BY <1>5, <3>1, <3>2
  <2>2. u \in sharing \/ x \in {entered[u][i] : i \in DOMAIN entered[u]}
    BY <2>1, ToSetIs DEF RecorderInv, F!OwnMessages
  <2>3. u \in LogTask
    <3>1. logs'[x] \in Seq(LogTask) /\ DOMAIN logs'[x] = 1..Len(logs'[x])
      BY <1>6, LenProperties
    <3> QED
      BY <3>1, ElementOfSeq
  <2> QED
    BY <1>1, <1>12, <2>1, <2>2, <2>3
<1> QED
  BY <1>8, <1>9, <1>11, <1>13, <1>14 DEF RecorderInv

LEMMA LogStep ==
    ASSUME RecorderInv, NEW t \in LogTask, F!LogOnTimeout(t)
    PROVE  RecorderInv'
<1> DEFINE r == F!Top(t)
<1>0. MaxMessages \in Nat
  BY ProgramConstants
<1>1. /\ t \in alive /\ messages < MaxMessages /\ messages' = messages + 1 /\ r # None
      /\ logs' = IF timer[r] = "none" THEN logs ELSE [logs EXCEPT ![r] = Append(@, t)]
      /\ UNCHANGED <<alive, context, list, lists, entered, sharing, timer, extra, replayed>>
  BY DEF F!LogOnTimeout, F!Log, F!stacks
<1>2. F!Stack(t) # <<>> /\ r = F!Last(F!Stack(t)) /\ F!Stack(t) \in Seq(Recorder)
  BY <1>1 DEF F!Top, F!Stack, RecorderInv, F!TypeOK
<1>3. r \in Recorder
  BY <1>2, FrontLast
<1>4. t \notin sharing => r \in F!ToSet(entered[t])
  <2> SUFFICES ASSUME t \notin sharing PROVE r \in F!ToSet(entered[t])
    OBVIOUS
  <2>1. entered[t] = F!Stack(t) /\ entered[t] \in Seq(Recorder)
    BY <1>1 DEF RecorderInv, ListsOwned, F!TypeOK
  <2>2. Len(entered[t]) \in DOMAIN entered[t] /\ r = entered[t][Len(entered[t])]
    <3>1. entered[t] # <<>> /\ r = F!Last(entered[t])
      BY <1>2, <2>1
    <3>2. F!Last(entered[t]) = entered[t][Len(entered[t])] /\ Len(entered[t]) \in Nat \ {0}
          /\ DOMAIN entered[t] = 1..Len(entered[t])
      BY <2>1, <3>1, FrontLast
    <3> QED
      BY <3>1, <3>2
  <2> QED
    BY <2>2, ToSetIs
<1> HIDE DEF r
<1>5. F!TypeOK'
  <2>1. logs \in [Recorder -> Seq(LogTask)] /\ messages \in 0..MaxMessages /\ t \in LogTask
    BY DEF RecorderInv, F!TypeOK
  <2>2. messages' \in 0..MaxMessages
    BY <1>0, <1>1, <2>1
  <2>3. Append(logs[r], t) \in Seq(LogTask)
    BY <1>3, <2>1, AppendIs
  <2>4. logs' \in [Recorder -> Seq(LogTask)]
    BY <1>1, <2>1, <2>3
  <2> QED
    BY <1>1, <2>2, <2>4 DEF RecorderInv, F!TypeOK
<1>6. ListsOwned' /\ EnteredOnce'
  BY <1>1 DEF RecorderInv, ListsOwned, EnteredOnce, F!Stack
<1>7. F!ArmedInside'
  BY <1>1, <1>3 DEF RecorderInv, F!TypeOK, F!ArmedInside
<1>8. F!OwnMessages'
  <2> SUFFICES ASSUME NEW x \in Recorder, NEW i \in DOMAIN logs'[x]
               PROVE  logs'[x][i] \in sharing \/ x \in F!ToSet(entered[logs'[x][i]])
    <3>1. \A x \in Recorder : F!ToSet(logs'[x]) = {logs'[x][i] : i \in DOMAIN logs'[x]}
      BY ToSetIs
    <3>2. entered' = entered /\ sharing' = sharing
      BY <1>1
    <3> QED
      BY <3>1, <3>2 DEF F!OwnMessages
  <2>1. CASE i \in DOMAIN logs[x] /\ logs'[x][i] = logs[x][i]
    BY <1>1, <2>1, ToSetIs DEF RecorderInv, F!OwnMessages
  <2>2. CASE x = r /\ logs'[x][i] = t
    BY <1>1, <1>4, <2>2
  <2>3. logs \in [Recorder -> Seq(LogTask)] /\ t \in LogTask
    BY DEF RecorderInv, F!TypeOK
  <2>4. CASE logs'[x] = logs[x]
    BY <2>1, <2>4
  <2>5. CASE x = r /\ logs'[r] = Append(logs[r], t)
    <3>1. \/ i \in DOMAIN logs[r] /\ Append(logs[r], t)[i] = logs[r][i]
          \/ Append(logs[r], t)[i] = t
      BY <1>3, <2>3, <2>5, AppendIs
    <3> QED
      BY <2>1, <2>2, <2>5, <3>1
  <2> QED
    BY <1>1, <1>3, <2>3, <2>4, <2>5
<1> QED
  BY <1>5, <1>6, <1>7, <1>8 DEF RecorderInv

LEMMA RecorderNext ==
    ASSUME RecorderInv, [F!Next]_(F!vars)
    PROVE  RecorderInv'
<1>1. ASSUME NEW t \in LogTask, NEW u \in LogTask, F!Spawn(t, u) PROVE RecorderInv'
  <2>1. /\ t \in alive /\ u \notin alive /\ alive' = alive \cup {u}
        /\ context' = [context EXCEPT ![u] = context[t]]
        /\ sharing' = IF context[t] = 0 THEN sharing ELSE sharing \cup {t, u}
        /\ UNCHANGED <<list, lists, entered, timer, logs, extra, messages, replayed>>
    BY <1>1 DEF F!Spawn, F!recorders
  <2>2. F!TypeOK'
    BY <2>1 DEF RecorderInv, F!TypeOK
  <2>3. ListsOwned'
    BY <2>1 DEF RecorderInv, F!TypeOK, ListsOwned, F!Stack
  <2>4. EnteredOnce' /\ F!ArmedInside'
    BY <2>1 DEF RecorderInv, EnteredOnce, F!ArmedInside
  <2>5. F!OwnMessages'
    BY <2>1 DEF RecorderInv, F!OwnMessages
  <2> QED
    BY <2>2, <2>3, <2>4, <2>5 DEF RecorderInv
<1>2. ASSUME NEW r \in Recorder, F!TimesOut(r) PROVE RecorderInv'
  <2>1. /\ timer[r] = "waiting" /\ timer' = [timer EXCEPT ![r] = "fired"]
        /\ logs' = [logs EXCEPT ![r] = <<>>]
        /\ replayed' \in {replayed, replayed \cup {r}}
        /\ UNCHANGED <<alive, context, list, lists, entered, sharing, extra, messages>>
    BY <1>2 DEF F!TimesOut, F!stacks
  <2>2. F!TypeOK'
    BY <2>1 DEF RecorderInv, F!TypeOK
  <2>3. ListsOwned' /\ EnteredOnce'
    BY <2>1 DEF RecorderInv, ListsOwned, EnteredOnce, F!Stack
  <2>4. F!ArmedInside'
    BY <2>1 DEF RecorderInv, F!TypeOK, F!ArmedInside
  <2>5. F!OwnMessages'
    BY <2>1, ToSetIs DEF RecorderInv, F!TypeOK, F!OwnMessages
  <2> QED
    BY <2>2, <2>3, <2>4, <2>5 DEF RecorderInv
<1>3. CASE UNCHANGED F!vars
  BY <1>3 DEF F!vars, RecorderInv, F!TypeOK, ListsOwned, EnteredOnce, F!ArmedInside,
     F!OwnMessages, F!Stack
<1> QED
  BY <1>1, <1>2, <1>3, EnterStep, ExitStep, LogStep DEF F!Next

LEMMA RecorderInvariant == Spec => []RecorderInv
  BY RecorderInit, RecorderNext, PartSteps, PTL DEF Spec

\* A task that shares its list with nobody logs to the recorder of its innermost
\* block, a recorder is armed only while a task is in its block, and keeps only
\* what such a task has logged: for any tasks, recorders and nesting.
THEOREM RecordersOwn == Spec => []RecorderRight
<1>1. RecorderInv => F!OwnRecorder
  BY DEF RecorderInv, F!TypeOK, ListsOwned, F!OwnRecorder, F!Top
<1>2. RecorderInv => RecorderRight
  BY <1>1 DEF RecorderInv, RecorderRight
<1> QED
  BY RecorderInvariant, <1>2, PTL

-----------------------------------------------------------------------------
(* The restart of a service with a child.                                  *)

RestartsCounted ==
    /\ restarts + Cardinality(restarting) <= MaxRestarts
    /\ \A c \in Restarter :
         /\ starts[c] + (IF tree_pc[c] = "on_restart" THEN 1 ELSE 0) <= MaxStarts + restarts
         /\ tree_pc[c] \in R!Starting => starts[c] # 0
    /\ futures \subseteq tasks /\ cancelled \subseteq tasks
    /\ tree_crashed \in {{}, R!Service}

\* One body of start() at a time, which finds no tasks of an earlier one.
StartsOnce ==
    /\ \A c, d \in Restarter :
         tree_pc[c] \in R!Starting /\ tree_pc[d] \in R!Starting => c = d
    /\ \A c \in Restarter :
         /\ tree_pc[c] \in R!Starting => "root" \in tree_started
         /\ tree_pc[c] = "on_start" => tasks = {} /\ "kid" \notin tree_started
         /\ tree_pc[c] = "kid_on_start" => \A t \in tasks : t[1] # "kid"
    /\ "root" \notin tree_started => tasks = {} /\ "kid" \notin tree_started
    /\ \A t, u \in tasks : t[1] = u[1] => t = u

\* One body of stop() at a time, which awaits what it stops, and leaves no
\* tasks: what it awaits is all there is, because nothing is added to a service
\* that was told to stop.
StopsOnce ==
    /\ \A c, d \in Restarter :
         tree_pc[c] \in R!Stopping /\ tree_pc[d] \in R!Stopping => c = d
    /\ \A c \in Restarter :
         /\ tree_pc[c] \in R!Stopping =>
              /\ "root" \in tree_stopped
              /\ "kid" \in tree_stopped <=> tree_pc[c] \notin {"on_stop", "kid_stop"}
         /\ tree_pc[c] = "kid_gather" => \A t \in tasks : t[1] = "kid" => t \in gathered[c]
         /\ tree_pc[c] = "gather" => tasks \subseteq gathered[c]
         /\ tree_pc[c] \in {"wait", "gather", "on_shutdown"} => \A t \in tasks : t[1] # "kid"
         /\ tree_pc[c] = "on_shutdown" => tasks = {}
    /\ "kid" \in tree_stopped => "root" \in tree_stopped
    /\ "root" \notin tree_stopped => cancelled = {}
    /\ "root" \in tree_stopped =>
         (\E c \in Restarter : tree_pc[c] \in R!Stopping) \/ (tasks = {} /\ "kid" \in tree_stopped)
    /\ tasks \subseteq futures

\* A service that is up has its tasks, and its child, or is still starting them.
UpTogether ==
    "root" \in tree_started /\ ~R!ShouldStop("root") =>
      \/ \E c \in Restarter : tree_pc[c] = "on_start"
      \/ /\ "kid" \in tree_started /\ \E t \in tasks : t[1] = "root"
         /\ \/ \E c \in Restarter : tree_pc[c] = "kid_on_start"
            \/ \E t \in tasks : t[1] = "kid"

RestartInv ==
    /\ R!TypeOK /\ RestartsCounted
    /\ ~overtaken => StartsOnce /\ StopsOnce /\ UpTogether

LEMMA RestartInit == Init => RestartInv
<1> SUFFICES ASSUME R!Init PROVE RestartInv
  BY DEF Init
<1>1. /\ {MaxStarts, MaxRestarts} \subseteq Nat /\ MaxStarts + MaxRestarts \in Nat
      /\ Cardinality({}) = 0
  BY ProgramConstants, FS_EmptySet
<1>2. R!TypeOK
  <2>1. /\ tree_pc \in [Restarter -> {"idle", "on_restart"} \cup R!Starting \cup R!Stopping]
        /\ gathered \in [Restarter -> SUBSET R!Task]
        /\ starts \in [Restarter -> 0..(MaxStarts + MaxRestarts)] /\ restarts \in 0..MaxRestarts
    BY <1>1 DEF R!Init
  <2> QED
    BY <2>1 DEF R!Init, R!TypeOK
<1>3. RestartsCounted
  BY <1>1 DEF R!Init, RestartsCounted, R!Starting
<1>4. StartsOnce /\ StopsOnce /\ UpTogether
  BY DEF R!Init, StartsOnce, StopsOnce, UpTogether, R!Starting, R!Stopping
<1> QED
  BY <1>2, <1>3, <1>4 DEF RestartInv

LEMMA RestartBounds ==
    /\ MaxStarts \in Nat /\ MaxRestarts \in Nat /\ IsFiniteSet(Restarter)
    /\ \A X : R!Cardinality(X) = Cardinality(X)
<1>1. \A X : R!Cardinality(X) = Cardinality(X)
  BY Zenon DEF R!Cardinality, Cardinality
<1> QED
  BY <1>1, ProgramConstants

LEMMA RestartingCounted ==
    ASSUME R!TypeOK, RestartsCounted, NEW c \in Restarter
    PROVE  /\ Cardinality(restarting) \in Nat
           /\ Cardinality(restarting \cup {c}) \in Nat
           /\ Cardinality(restarting \cup {c}) <= Cardinality(restarting) + 1
           /\ Cardinality(restarting \ {c}) \in Nat
           /\ Cardinality(restarting \ {c}) <= Cardinality(restarting)
           /\ c \in restarting => Cardinality(restarting \ {c}) = Cardinality(restarting) - 1
<1>1. IsFiniteSet(restarting)
  BY RestartBounds, FS_Subset DEF R!TypeOK
<1>2. IsFiniteSet(restarting \cup {c}) /\ IsFiniteSet(restarting \ {c})
  BY <1>1, FS_AddElement, FS_RemoveElement
<1>3. CASE c \in restarting
  <2>1. restarting \cup {c} = restarting
    BY <1>3
  <2> QED
    BY <1>1, <1>2, <1>3, <2>1, FS_RemoveElement, FS_CardinalityType
<1>4. CASE c \notin restarting
  <2>1. restarting \ {c} = restarting
    BY <1>4
  <2>2. Cardinality(restarting \cup {c}) = Cardinality(restarting) + 1
    BY <1>1, <1>4, FS_AddElement
  <2>3. Cardinality(restarting) \in Nat
    BY <1>1, FS_CardinalityType
  <2>4. Cardinality(restarting \ {c}) = Cardinality(restarting)
    BY <2>1, Zenon
  <2> QED
    BY <1>4, <2>2, <2>3, <2>4
<1> QED
  BY <1>3, <1>4

LEMMA RestartNext ==
    ASSUME RestartInv, [R!Next]_(R!vars)
    PROVE  RestartInv'
<1> USE RestartBounds DEF R!events, R!work
<1>0. R!TypeOK /\ RestartsCounted /\ (~overtaken => StartsOnce /\ StopsOnce /\ UpTogether)
  BY DEF RestartInv
<1>1. ASSUME NEW c \in Restarter, R!Start(c)
      PROVE  RestartInv'
  <2>1. /\ tree_pc[c] = "idle" /\ "root" \notin tree_started /\ starts[c] < MaxStarts
        /\ starts' = [starts EXCEPT ![c] = starts[c] + 1]
        /\ tree_started' = tree_started \cup {"root"}
        /\ UNCHANGED <<tree_stopped, tree_crashed, restarting, tasks, futures, cancelled,
                       gathered, restarts, overtaken>>
    BY <1>0, <1>1 DEF R!Start, R!BeginStart, R!Goto
  <2>2. tree_pc' = [tree_pc EXCEPT ![c] = IF R!ShouldStop("root") THEN "idle" ELSE "on_start"]
    BY <1>1 DEF R!Start, R!BeginStart, R!Goto
  <2>3. /\ tree_pc'[c] = IF R!ShouldStop("root") THEN "idle" ELSE "on_start"
        /\ \A d \in Restarter \ {c} : tree_pc'[d] = tree_pc[d]
    BY <1>0, <2>2 DEF R!TypeOK
  <2>4. R!TypeOK'
    BY <1>0, <2>1, <2>2 DEF R!TypeOK, RestartsCounted, R!Starting, R!Stopping, R!Service, R!Task
  <2>5. RestartsCounted'
    BY <1>0, <2>1, <2>3 DEF R!TypeOK, RestartsCounted, R!Starting, R!Service
  <2>6. ~overtaken' => StartsOnce'
    BY <1>0, <2>1, <2>3 DEF R!TypeOK, RestartsCounted, StartsOnce, StopsOnce, R!Starting, R!Stopping, R!ShouldStop
  <2>7. ~overtaken' => StopsOnce'
    BY <1>0, <2>1, <2>3 DEF R!TypeOK, RestartsCounted, StartsOnce, StopsOnce, R!Starting, R!Stopping, R!ShouldStop
  <2>8. ~overtaken' => UpTogether'
    BY <1>0, <2>1, <2>3 DEF R!TypeOK, RestartsCounted, StartsOnce, StopsOnce, UpTogether, R!Starting, R!Stopping, R!ShouldStop, R!Service
  <2> QED
    BY <2>4, <2>5, <2>6, <2>7, <2>8 DEF RestartInv
<1>2. ASSUME NEW c \in Restarter, R!OnRestartReturns(c)
      PROVE  RestartInv'
  <2>1. /\ tree_pc[c] = "on_restart"
        /\ \/ starts' = starts /\ tree_started' = tree_started /\ "root" \in tree_started
           \/ /\ starts' = [starts EXCEPT ![c] = starts[c] + 1] /\ "root" \notin tree_started
              /\ tree_started' = tree_started \cup {"root"}
        /\ UNCHANGED <<tree_stopped, tree_crashed, restarting, tasks, futures, cancelled,
                       gathered, restarts, overtaken>>
    BY <1>0, <1>2 DEF R!OnRestartReturns, R!BeginStart, R!Goto
  <2>2. tree_pc' = [tree_pc EXCEPT ![c] = IF "root" \in tree_started \/ R!ShouldStop("root") THEN "idle" ELSE "on_start"]
    BY <1>2 DEF R!OnRestartReturns, R!BeginStart, R!Goto
  <2>3. /\ tree_pc'[c] = IF "root" \in tree_started \/ R!ShouldStop("root") THEN "idle" ELSE "on_start"
        /\ \A d \in Restarter \ {c} : tree_pc'[d] = tree_pc[d]
    BY <1>0, <2>2 DEF R!TypeOK
  <2>4. R!TypeOK'
    BY <1>0, <2>1, <2>2 DEF R!TypeOK, RestartsCounted, R!Starting, R!Stopping, R!Service, R!Task
  <2>5. RestartsCounted'
    BY <1>0, <2>1, <2>3 DEF R!TypeOK, RestartsCounted, R!Starting, R!Service
  <2>6. ~overtaken' => StartsOnce'
    BY <1>0, <2>1, <2>3 DEF R!TypeOK, RestartsCounted, StartsOnce, StopsOnce, R!Starting, R!Stopping, R!ShouldStop
  <2>7. ~overtaken' => StopsOnce'
    BY <1>0, <2>1, <2>3 DEF R!TypeOK, RestartsCounted, StartsOnce, StopsOnce, R!Starting, R!Stopping, R!ShouldStop
  <2>8. ~overtaken' => UpTogether'
    BY <1>0, <2>1, <2>3 DEF R!TypeOK, RestartsCounted, StartsOnce, StopsOnce, UpTogether, R!Starting, R!Stopping, R!ShouldStop, R!Service
  <2> QED
    BY <2>4, <2>5, <2>6, <2>7, <2>8 DEF RestartInv
<1>3. ASSUME NEW c \in Restarter, R!ShouldStop("root"), R!OnStartReturns(c)
      PROVE  RestartInv'
  <2>1. /\ tree_pc[c] = "on_start" /\ R!ShouldStop("root")
        /\ UNCHANGED <<tree_started, tree_stopped, tree_crashed, restarting, tasks,
                       futures, cancelled, gathered, restarts, starts, overtaken>>
    BY <1>0, <1>3 DEF R!OnStartReturns, R!Goto
  <2>2. tree_pc' = [tree_pc EXCEPT ![c] = "idle"]
    BY <1>3 DEF R!OnStartReturns, R!Goto
  <2>3. /\ tree_pc'[c] = "idle"
        /\ \A d \in Restarter \ {c} : tree_pc'[d] = tree_pc[d]
    BY <1>0, <2>2 DEF R!TypeOK
  <2>4. R!TypeOK'
    BY <1>0, <2>1, <2>2 DEF R!TypeOK, RestartsCounted, R!Starting, R!Stopping, R!Service, R!Task
  <2>5. RestartsCounted'
    BY <1>0, <2>1, <2>3 DEF R!TypeOK, RestartsCounted, R!Starting, R!Service
  <2>6. ~overtaken' => StartsOnce'
    BY <1>0, <2>1, <2>3 DEF R!TypeOK, RestartsCounted, StartsOnce, StopsOnce, R!Starting, R!Stopping, R!ShouldStop
  <2>7. ~overtaken' => StopsOnce'
    BY <1>0, <2>1, <2>3 DEF R!TypeOK, RestartsCounted, StartsOnce, StopsOnce, R!Starting, R!Stopping, R!ShouldStop
  <2>8. ~overtaken' => UpTogether'
    BY <1>0, <2>1, <2>3 DEF R!TypeOK, RestartsCounted, StartsOnce, StopsOnce, UpTogether, R!Starting, R!Stopping, R!ShouldStop, R!Service
  <2> QED
    BY <2>4, <2>5, <2>6, <2>7, <2>8 DEF RestartInv
<1>4. ASSUME NEW c \in Restarter, ~R!ShouldStop("root"), R!OnStartReturns(c)
      PROVE  RestartInv'
  <2>1. /\ tree_pc[c] = "on_start" /\ ~R!ShouldStop("root")
        /\ tasks' = tasks \cup {<<"root", c, starts[c]>>} /\ futures' = futures \cup {<<"root", c, starts[c]>>}
        /\ tree_started' = tree_started \cup {"kid"}
        /\ UNCHANGED <<tree_stopped, tree_crashed, restarting, cancelled, gathered,
                       restarts, starts, overtaken>>
    BY <1>0, <1>4 DEF R!OnStartReturns, R!AddTask, R!Goto
  <2>2. tree_pc' = [tree_pc EXCEPT ![c] = IF "kid" \in tree_started \/ R!ShouldStop("kid") THEN "idle" ELSE "kid_on_start"]
    BY <1>4 DEF R!OnStartReturns, R!AddTask, R!Goto
  <2>3. /\ tree_pc'[c] = IF "kid" \in tree_started \/ R!ShouldStop("kid") THEN "idle" ELSE "kid_on_start"
        /\ \A d \in Restarter \ {c} : tree_pc'[d] = tree_pc[d]
    BY <1>0, <2>2 DEF R!TypeOK
  <2>4. R!TypeOK'
    BY <1>0, <2>1, <2>2 DEF R!TypeOK, RestartsCounted, R!Starting, R!Stopping, R!Service, R!Task
  <2>5. RestartsCounted'
    BY <1>0, <2>1, <2>3 DEF R!TypeOK, RestartsCounted, R!Starting, R!Service
  <2>6. ~overtaken' => StartsOnce'
    BY <1>0, <2>1, <2>3 DEF R!TypeOK, RestartsCounted, StartsOnce, StopsOnce, R!Starting, R!Stopping, R!ShouldStop
  <2>7. ~overtaken' => StopsOnce'
    BY <1>0, <2>1, <2>3 DEF R!TypeOK, RestartsCounted, StartsOnce, StopsOnce, R!Starting, R!Stopping, R!ShouldStop
  <2>8. ~overtaken' => UpTogether'
    <3>1. <<"root", c, starts[c]>>[1] = "root"
      OBVIOUS
    <3>2. \E t \in tasks' : t[1] = "root"
      BY <2>1, <3>1
    <3> QED
      BY <1>0, <2>1, <2>3, <3>2 DEF R!TypeOK, RestartsCounted, StartsOnce, StopsOnce, UpTogether, R!Starting, R!Stopping, R!ShouldStop, R!Service
  <2> QED
    BY <2>4, <2>5, <2>6, <2>7, <2>8 DEF RestartInv
<1>5. ASSUME NEW c \in Restarter, R!ShouldStop("kid"), R!KidOnStartReturns(c)
      PROVE  RestartInv'
  <2>1. /\ tree_pc[c] = "kid_on_start" /\ R!ShouldStop("kid")
        /\ UNCHANGED <<tree_started, tree_stopped, tree_crashed, restarting, tasks,
                       futures, cancelled, gathered, restarts, starts, overtaken>>
    BY <1>0, <1>5 DEF R!KidOnStartReturns, R!Goto
  <2>2. tree_pc' = [tree_pc EXCEPT ![c] = "idle"]
    BY <1>5 DEF R!KidOnStartReturns, R!Goto
  <2>3. /\ tree_pc'[c] = "idle"
        /\ \A d \in Restarter \ {c} : tree_pc'[d] = tree_pc[d]
    BY <1>0, <2>2 DEF R!TypeOK
  <2>4. R!TypeOK'
    BY <1>0, <2>1, <2>2 DEF R!TypeOK, RestartsCounted, R!Starting, R!Stopping, R!Service, R!Task
  <2>5. RestartsCounted'
    BY <1>0, <2>1, <2>3 DEF R!TypeOK, RestartsCounted, R!Starting, R!Service
  <2>6. ~overtaken' => StartsOnce'
    BY <1>0, <2>1, <2>3 DEF R!TypeOK, RestartsCounted, StartsOnce, StopsOnce, R!Starting, R!Stopping, R!ShouldStop
  <2>7. ~overtaken' => StopsOnce'
    BY <1>0, <2>1, <2>3 DEF R!TypeOK, RestartsCounted, StartsOnce, StopsOnce, R!Starting, R!Stopping, R!ShouldStop
  <2>8. ~overtaken' => UpTogether'
    BY <1>0, <2>1, <2>3 DEF R!TypeOK, RestartsCounted, StartsOnce, StopsOnce, UpTogether, R!Starting, R!Stopping, R!ShouldStop, R!Service
  <2> QED
    BY <2>4, <2>5, <2>6, <2>7, <2>8 DEF RestartInv
<1>6. ASSUME NEW c \in Restarter, ~R!ShouldStop("kid"), R!KidOnStartReturns(c)
      PROVE  RestartInv'
  <2>1. /\ tree_pc[c] = "kid_on_start" /\ ~R!ShouldStop("kid")
        /\ tasks' = tasks \cup {<<"kid", c, starts[c]>>} /\ futures' = futures \cup {<<"kid", c, starts[c]>>}
        /\ UNCHANGED <<tree_started, tree_stopped, tree_crashed, restarting, cancelled,
                       gathered, restarts, starts, overtaken>>
    BY <1>0, <1>6 DEF R!KidOnStartReturns, R!AddTask, R!Goto
  <2>2. tree_pc' = [tree_pc EXCEPT ![c] = "idle"]
    BY <1>6 DEF R!KidOnStartReturns, R!AddTask, R!Goto
  <2>3. /\ tree_pc'[c] = "idle"
        /\ \A d \in Restarter \ {c} : tree_pc'[d] = tree_pc[d]
    BY <1>0, <2>2 DEF R!TypeOK
  <2>4. R!TypeOK'
    BY <1>0, <2>1, <2>2 DEF R!TypeOK, RestartsCounted, R!Starting, R!Stopping, R!Service, R!Task
  <2>5. RestartsCounted'
    BY <1>0, <2>1, <2>3 DEF R!TypeOK, RestartsCounted, R!Starting, R!Service
  <2>6. ~overtaken' => StartsOnce'
    BY <1>0, <2>1, <2>3 DEF R!TypeOK, RestartsCounted, StartsOnce, StopsOnce, R!Starting, R!Stopping, R!ShouldStop
  <2>7. ~overtaken' => StopsOnce'
    BY <1>0, <2>1, <2>3 DEF R!TypeOK, RestartsCounted, StartsOnce, StopsOnce, R!Starting, R!Stopping, R!ShouldStop
  <2>8. ~overtaken' => UpTogether'
    <3>1. <<"kid", c, starts[c]>>[1] = "kid"
      OBVIOUS
    <3>2. \E t \in tasks' : t[1] = "kid"
      BY <2>1, <3>1
    <3> QED
      BY <1>0, <2>1, <2>3, <3>2 DEF R!TypeOK, RestartsCounted, StartsOnce, StopsOnce, UpTogether, R!Starting, R!Stopping, R!ShouldStop, R!Service
  <2> QED
    BY <2>4, <2>5, <2>6, <2>7, <2>8 DEF RestartInv
<1>7. ASSUME NEW c \in Restarter, R!OnStopReturns(c)
      PROVE  RestartInv'
  <2>1. /\ tree_pc[c] = "on_stop"
        /\ UNCHANGED <<tree_started, tree_stopped, tree_crashed, restarting, tasks,
                       futures, cancelled, gathered, restarts, starts, overtaken>>
    BY <1>0, <1>7 DEF R!OnStopReturns, R!Goto
  <2>2. tree_pc' = [tree_pc EXCEPT ![c] = "kid_stop"]
    BY <1>7 DEF R!OnStopReturns, R!Goto
  <2>3. /\ tree_pc'[c] = "kid_stop"
        /\ \A d \in Restarter \ {c} : tree_pc'[d] = tree_pc[d]
    BY <1>0, <2>2 DEF R!TypeOK
  <2>4. R!TypeOK'
    BY <1>0, <2>1, <2>2 DEF R!TypeOK, RestartsCounted, R!Starting, R!Stopping, R!Service, R!Task
  <2>5. RestartsCounted'
    BY <1>0, <2>1, <2>3 DEF R!TypeOK, RestartsCounted, R!Starting, R!Service
  <2>6. ~overtaken' => StartsOnce'
    BY <1>0, <2>1, <2>3 DEF R!TypeOK, RestartsCounted, StartsOnce, StopsOnce, R!Starting, R!Stopping, R!ShouldStop
  <2>7. ~overtaken' => StopsOnce'
    BY <1>0, <2>1, <2>3 DEF R!TypeOK, RestartsCounted, StartsOnce, StopsOnce, R!Starting, R!Stopping, R!ShouldStop
  <2>8. ~overtaken' => UpTogether'
    BY <1>0, <2>1, <2>3 DEF R!TypeOK, RestartsCounted, StartsOnce, StopsOnce, UpTogether, R!Starting, R!Stopping, R!ShouldStop, R!Service
  <2> QED
    BY <2>4, <2>5, <2>6, <2>7, <2>8 DEF RestartInv
<1>8. ASSUME NEW c \in Restarter, R!KidStop(c)
      PROVE  RestartInv'
  <2>1. /\ tree_pc[c] = "kid_stop"
        /\ tree_stopped' = tree_stopped \cup {"kid"}
        /\ UNCHANGED <<tree_started, tree_crashed, restarting, tasks, futures, cancelled,
                       gathered, restarts, starts, overtaken>>
    BY <1>0, <1>8 DEF R!KidStop, R!Goto
  <2>2. tree_pc' = [tree_pc EXCEPT ![c] = IF "kid" \in tree_stopped THEN "wait" ELSE "kid_on_stop"]
    BY <1>8 DEF R!KidStop, R!Goto
  <2>3. /\ tree_pc'[c] = IF "kid" \in tree_stopped THEN "wait" ELSE "kid_on_stop"
        /\ \A d \in Restarter \ {c} : tree_pc'[d] = tree_pc[d]
    BY <1>0, <2>2 DEF R!TypeOK
  <2>4. R!TypeOK'
    BY <1>0, <2>1, <2>2 DEF R!TypeOK, RestartsCounted, R!Starting, R!Stopping, R!Service, R!Task
  <2>5. RestartsCounted'
    BY <1>0, <2>1, <2>3 DEF R!TypeOK, RestartsCounted, R!Starting, R!Service
  <2>6. ~overtaken' => StartsOnce'
    BY <1>0, <2>1, <2>3 DEF R!TypeOK, RestartsCounted, StartsOnce, StopsOnce, R!Starting, R!Stopping, R!ShouldStop
  <2>7. ~overtaken' => StopsOnce'
    BY <1>0, <2>1, <2>3 DEF R!TypeOK, RestartsCounted, StartsOnce, StopsOnce, R!Starting, R!Stopping, R!ShouldStop
  <2>8. ~overtaken' => UpTogether'
    BY <1>0, <2>1, <2>3 DEF R!TypeOK, RestartsCounted, StartsOnce, StopsOnce, UpTogether, R!Starting, R!Stopping, R!ShouldStop, R!Service
  <2> QED
    BY <2>4, <2>5, <2>6, <2>7, <2>8 DEF RestartInv
<1>9. ASSUME NEW c \in Restarter, R!KidOnStopReturns(c)
      PROVE  RestartInv'
  <2>1. /\ tree_pc[c] = "kid_on_stop"
        /\ UNCHANGED <<tree_started, tree_stopped, tree_crashed, restarting, tasks,
                       futures, cancelled, gathered, restarts, starts, overtaken>>
    BY <1>0, <1>9 DEF R!KidOnStopReturns, R!Goto
  <2>2. tree_pc' = [tree_pc EXCEPT ![c] = "kid_wait"]
    BY <1>9 DEF R!KidOnStopReturns, R!Goto
  <2>3. /\ tree_pc'[c] = "kid_wait"
        /\ \A d \in Restarter \ {c} : tree_pc'[d] = tree_pc[d]
    BY <1>0, <2>2 DEF R!TypeOK
  <2>4. R!TypeOK'
    BY <1>0, <2>1, <2>2 DEF R!TypeOK, RestartsCounted, R!Starting, R!Stopping, R!Service, R!Task
  <2>5. RestartsCounted'
    BY <1>0, <2>1, <2>3 DEF R!TypeOK, RestartsCounted, R!Starting, R!Service
  <2>6. ~overtaken' => StartsOnce'
    BY <1>0, <2>1, <2>3 DEF R!TypeOK, RestartsCounted, StartsOnce, StopsOnce, R!Starting, R!Stopping, R!ShouldStop
  <2>7. ~overtaken' => StopsOnce'
    BY <1>0, <2>1, <2>3 DEF R!TypeOK, RestartsCounted, StartsOnce, StopsOnce, R!Starting, R!Stopping, R!ShouldStop
  <2>8. ~overtaken' => UpTogether'
    BY <1>0, <2>1, <2>3 DEF R!TypeOK, RestartsCounted, StartsOnce, StopsOnce, UpTogether, R!Starting, R!Stopping, R!ShouldStop, R!Service
  <2> QED
    BY <2>4, <2>5, <2>6, <2>7, <2>8 DEF RestartInv
<1>10. ASSUME NEW c \in Restarter, R!CancelFutures(c, "kid")
      PROVE  RestartInv'
  <2>1. /\ tree_pc[c] = "kid_wait"
        /\ cancelled' = cancelled \cup {t \in futures : t[1] = "kid"}
        /\ gathered' = [gathered EXCEPT ![c] = {t \in futures : t[1] = "kid"}]
        /\ UNCHANGED <<tree_started, tree_stopped, tree_crashed, restarting, tasks,
                       futures, restarts, starts, overtaken>>
    BY <1>0, <1>10 DEF R!CancelFutures, R!Of, R!Goto
  <2>2. tree_pc' = [tree_pc EXCEPT ![c] = IF {t \in futures : t[1] = "kid"} = {} THEN "wait" ELSE "kid_gather"]
    BY <1>10 DEF R!CancelFutures, R!Of, R!Goto
  <2>3. /\ tree_pc'[c] = IF {t \in futures : t[1] = "kid"} = {} THEN "wait" ELSE "kid_gather"
        /\ \A d \in Restarter \ {c} : tree_pc'[d] = tree_pc[d]
    BY <1>0, <2>2 DEF R!TypeOK
  <2>4. R!TypeOK'
    BY <1>0, <2>1, <2>2 DEF R!TypeOK, RestartsCounted, R!Starting, R!Stopping, R!Service, R!Task
  <2>5. RestartsCounted'
    BY <1>0, <2>1, <2>3 DEF R!TypeOK, RestartsCounted, R!Starting, R!Service
  <2>6. ~overtaken' => StartsOnce'
    BY <1>0, <2>1, <2>3 DEF R!TypeOK, RestartsCounted, StartsOnce, StopsOnce, R!Starting, R!Stopping, R!ShouldStop
  <2>7. ~overtaken' => StopsOnce'
    BY <1>0, <2>1, <2>3 DEF R!TypeOK, RestartsCounted, StartsOnce, StopsOnce, R!Starting, R!Stopping, R!ShouldStop
  <2>8. ~overtaken' => UpTogether'
    BY <1>0, <2>1, <2>3 DEF R!TypeOK, RestartsCounted, StartsOnce, StopsOnce, UpTogether, R!Starting, R!Stopping, R!ShouldStop, R!Service
  <2> QED
    BY <2>4, <2>5, <2>6, <2>7, <2>8 DEF RestartInv
<1>11. ASSUME NEW c \in Restarter, R!CancelFutures(c, "root")
      PROVE  RestartInv'
  <2>1. /\ tree_pc[c] = "wait"
        /\ cancelled' = cancelled \cup {t \in futures : t[1] = "root"}
        /\ gathered' = [gathered EXCEPT ![c] = {t \in futures : t[1] = "root"}]
        /\ UNCHANGED <<tree_started, tree_stopped, tree_crashed, restarting, tasks,
                       futures, restarts, starts, overtaken>>
    BY <1>0, <1>11 DEF R!CancelFutures, R!Of, R!Goto
  <2>2. tree_pc' = [tree_pc EXCEPT ![c] = IF {t \in futures : t[1] = "root"} = {} THEN "on_shutdown" ELSE "gather"]
    BY <1>11 DEF R!CancelFutures, R!Of, R!Goto
  <2>3. /\ tree_pc'[c] = IF {t \in futures : t[1] = "root"} = {} THEN "on_shutdown" ELSE "gather"
        /\ \A d \in Restarter \ {c} : tree_pc'[d] = tree_pc[d]
    BY <1>0, <2>2 DEF R!TypeOK
  <2>4. R!TypeOK'
    BY <1>0, <2>1, <2>2 DEF R!TypeOK, RestartsCounted, R!Starting, R!Stopping, R!Service, R!Task
  <2>5. RestartsCounted'
    BY <1>0, <2>1, <2>3 DEF R!TypeOK, RestartsCounted, R!Starting, R!Service
  <2>6. ~overtaken' => StartsOnce'
    BY <1>0, <2>1, <2>3 DEF R!TypeOK, RestartsCounted, StartsOnce, StopsOnce, R!Starting, R!Stopping, R!ShouldStop
  <2>7. ~overtaken' => StopsOnce'
    <3>1. \A t \in tasks : t[1] \in {"root", "kid"}
      BY <1>0 DEF R!TypeOK, R!Task, R!Service
    <3>2. gathered'[c] = {t \in futures : t[1] = "root"}
          /\ \A d \in Restarter \ {c} : gathered'[d] = gathered[d]
      BY <1>0, <2>1 DEF R!TypeOK
    <3>3. ~overtaken => tasks \subseteq futures /\ \A t \in tasks : t[1] # "kid"
      BY <1>0, <2>1 DEF StopsOnce
    <3>4. ~overtaken => tasks \subseteq gathered'[c]
      BY <3>1, <3>2, <3>3
    <3>5. {t \in futures : t[1] = "root"} = {} => (~overtaken => tasks = {})
      BY <3>1, <3>3
    <3> QED
      BY <1>0, <2>1, <2>3, <3>2, <3>3, <3>4, <3>5 DEF R!TypeOK, StopsOnce, R!Starting, R!Stopping
  <2>8. ~overtaken' => UpTogether'
    BY <1>0, <2>1, <2>3 DEF R!TypeOK, RestartsCounted, StartsOnce, StopsOnce, UpTogether, R!Starting, R!Stopping, R!ShouldStop, R!Service
  <2> QED
    BY <2>4, <2>5, <2>6, <2>7, <2>8 DEF RestartInv
<1>12. ASSUME NEW c \in Restarter, R!Gathered(c, "kid")
      PROVE  RestartInv'
  <2>1. /\ tree_pc[c] = "kid_gather" /\ gathered[c] \cap tasks = {}
        /\ futures' = futures \ {t \in futures : t[1] = "kid"}
        /\ gathered' = [gathered EXCEPT ![c] = {}]
        /\ UNCHANGED <<tree_started, tree_stopped, tree_crashed, restarting, tasks,
                       cancelled, restarts, starts, overtaken>>
    BY <1>0, <1>12 DEF R!Gathered, R!Of, R!Goto
  <2>2. tree_pc' = [tree_pc EXCEPT ![c] = "wait"]
    BY <1>12 DEF R!Gathered, R!Of, R!Goto
  <2>3. /\ tree_pc'[c] = "wait"
        /\ \A d \in Restarter \ {c} : tree_pc'[d] = tree_pc[d]
    BY <1>0, <2>2 DEF R!TypeOK
  <2>4. R!TypeOK'
    BY <1>0, <2>1, <2>2 DEF R!TypeOK, RestartsCounted, R!Starting, R!Stopping, R!Service, R!Task
  <2>5. RestartsCounted'
    BY <1>0, <2>1, <2>3 DEF R!TypeOK, RestartsCounted, R!Starting, R!Service
  <2>6. ~overtaken' => StartsOnce'
    BY <1>0, <2>1, <2>3 DEF R!TypeOK, RestartsCounted, StartsOnce, StopsOnce, R!Starting, R!Stopping, R!ShouldStop
  <2>7. ~overtaken' => StopsOnce'
    BY <1>0, <2>1, <2>3 DEF R!TypeOK, RestartsCounted, StartsOnce, StopsOnce, R!Starting, R!Stopping, R!ShouldStop
  <2>8. ~overtaken' => UpTogether'
    BY <1>0, <2>1, <2>3 DEF R!TypeOK, RestartsCounted, StartsOnce, StopsOnce, UpTogether, R!Starting, R!Stopping, R!ShouldStop, R!Service
  <2> QED
    BY <2>4, <2>5, <2>6, <2>7, <2>8 DEF RestartInv
<1>13. ASSUME NEW c \in Restarter, R!Gathered(c, "root")
      PROVE  RestartInv'
  <2>1. /\ tree_pc[c] = "gather" /\ gathered[c] \cap tasks = {}
        /\ futures' = futures \ {t \in futures : t[1] = "root"}
        /\ gathered' = [gathered EXCEPT ![c] = {}]
        /\ UNCHANGED <<tree_started, tree_stopped, tree_crashed, restarting, tasks,
                       cancelled, restarts, starts, overtaken>>
    BY <1>0, <1>13 DEF R!Gathered, R!Of, R!Goto
  <2>2. tree_pc' = [tree_pc EXCEPT ![c] = "on_shutdown"]
    BY <1>13 DEF R!Gathered, R!Of, R!Goto
  <2>3. /\ tree_pc'[c] = "on_shutdown"
        /\ \A d \in Restarter \ {c} : tree_pc'[d] = tree_pc[d]
    BY <1>0, <2>2 DEF R!TypeOK
  <2>4. R!TypeOK'
    BY <1>0, <2>1, <2>2 DEF R!TypeOK, RestartsCounted, R!Starting, R!Stopping, R!Service, R!Task
  <2>5. RestartsCounted'
    BY <1>0, <2>1, <2>3 DEF R!TypeOK, RestartsCounted, R!Starting, R!Service
  <2>6. ~overtaken' => StartsOnce'
    BY <1>0, <2>1, <2>3 DEF R!TypeOK, RestartsCounted, StartsOnce, StopsOnce, R!Starting, R!Stopping, R!ShouldStop
  <2>7. ~overtaken' => StopsOnce'
    BY <1>0, <2>1, <2>3 DEF R!TypeOK, RestartsCounted, StartsOnce, StopsOnce, R!Starting, R!Stopping, R!ShouldStop
  <2>8. ~overtaken' => UpTogether'
    BY <1>0, <2>1, <2>3 DEF R!TypeOK, RestartsCounted, StartsOnce, StopsOnce, UpTogether, R!Starting, R!Stopping, R!ShouldStop, R!Service
  <2> QED
    BY <2>4, <2>5, <2>6, <2>7, <2>8 DEF RestartInv
<1>14. ASSUME NEW c \in Restarter, "root" \notin tree_stopped, R!Stop(c, TRUE)
      PROVE  RestartInv'
  <2>1. /\ tree_pc[c] = "idle" /\ "root" \notin tree_stopped
        /\ restarts + Cardinality(restarting) < MaxRestarts
        /\ tree_stopped' = tree_stopped \cup {"root"}
        /\ restarting' = restarting \cup {c}
        /\ UNCHANGED <<tree_started, tree_crashed, tasks, futures, cancelled, gathered,
                       restarts, starts, overtaken>>
    BY <1>0, <1>14 DEF R!Stop, R!MayRestart, R!Goto
  <2>2. tree_pc' = [tree_pc EXCEPT ![c] = "on_stop"]
    BY <1>14 DEF R!Stop, R!MayRestart, R!Goto
  <2>3. /\ tree_pc'[c] = "on_stop"
        /\ \A d \in Restarter \ {c} : tree_pc'[d] = tree_pc[d]
    BY <1>0, <2>2 DEF R!TypeOK
  <2>4. R!TypeOK'
    BY <1>0, <2>1, <2>2 DEF R!TypeOK, RestartsCounted, R!Starting, R!Stopping, R!Service, R!Task
  <2>5. RestartsCounted'
    <3>1. restarts \in Nat /\ restarts + Cardinality(restarting) <= MaxRestarts
      BY <1>0 DEF R!TypeOK, RestartsCounted
    <3>2. R!Cardinality(restarting) = Cardinality(restarting)
      BY RestartBounds, Zenon
    <3>3. restarting' = restarting \cup {c} /\ restarts' = restarts
          /\ restarts + Cardinality(restarting) < MaxRestarts
      BY <2>1, <3>2
    <3>4. restarts' + Cardinality(restarting') <= MaxRestarts
      <4>1. Cardinality(restarting') = Cardinality(restarting \cup {c})
        BY <3>3, Zenon
      <4>2. /\ Cardinality(restarting) \in Nat
            /\ Cardinality(restarting \cup {c}) \in Nat
            /\ Cardinality(restarting \cup {c}) <= Cardinality(restarting) + 1
            /\ Cardinality(restarting \ {c}) \in Nat
            /\ Cardinality(restarting \ {c}) <= Cardinality(restarting)
            /\ c \in restarting => Cardinality(restarting \ {c}) = Cardinality(restarting) - 1
        BY <1>0, RestartingCounted
      <4> QED
        BY <3>1, <3>3, <4>1, <4>2
    <3> QED
      BY <1>0, <2>1, <2>3, <3>4 DEF R!TypeOK, RestartsCounted, R!Starting, R!Service
  <2>6. ~overtaken' => StartsOnce'
    BY <1>0, <2>1, <2>3 DEF R!TypeOK, RestartsCounted, StartsOnce, StopsOnce, R!Starting, R!Stopping, R!ShouldStop
  <2>7. ~overtaken' => StopsOnce'
    BY <1>0, <2>1, <2>3 DEF R!TypeOK, RestartsCounted, StartsOnce, StopsOnce, R!Starting, R!Stopping, R!ShouldStop
  <2>8. ~overtaken' => UpTogether'
    BY <1>0, <2>1, <2>3 DEF R!TypeOK, RestartsCounted, StartsOnce, StopsOnce, UpTogether, R!Starting, R!Stopping, R!ShouldStop, R!Service
  <2> QED
    BY <2>4, <2>5, <2>6, <2>7, <2>8 DEF RestartInv
<1>15. ASSUME NEW c \in Restarter, "root" \notin tree_stopped, R!Stop(c, FALSE)
      PROVE  RestartInv'
  <2>1. /\ tree_pc[c] = "idle" /\ "root" \notin tree_stopped
        /\ tree_stopped' = tree_stopped \cup {"root"}
        /\ restarting' = restarting
        /\ UNCHANGED <<tree_started, tree_crashed, tasks, futures, cancelled, gathered,
                       restarts, starts, overtaken>>
    BY <1>0, <1>15 DEF R!Stop, R!MayRestart, R!Goto
  <2>2. tree_pc' = [tree_pc EXCEPT ![c] = "on_stop"]
    BY <1>15 DEF R!Stop, R!MayRestart, R!Goto
  <2>3. /\ tree_pc'[c] = "on_stop"
        /\ \A d \in Restarter \ {c} : tree_pc'[d] = tree_pc[d]
    BY <1>0, <2>2 DEF R!TypeOK
  <2>4. R!TypeOK'
    BY <1>0, <2>1, <2>2 DEF R!TypeOK, RestartsCounted, R!Starting, R!Stopping, R!Service, R!Task
  <2>5. RestartsCounted'
    <3>1. restarts \in Nat /\ restarts + Cardinality(restarting) <= MaxRestarts
      BY <1>0 DEF R!TypeOK, RestartsCounted
    <3>2. R!Cardinality(restarting) = Cardinality(restarting)
      BY RestartBounds, Zenon
    <3>3. restarting' = restarting /\ restarts' = restarts
      BY <2>1, <3>2
    <3>4. restarts' + Cardinality(restarting') <= MaxRestarts
      <4>1. Cardinality(restarting') = Cardinality(restarting)
        BY <3>3, Zenon
      <4>2. /\ Cardinality(restarting) \in Nat
            /\ Cardinality(restarting \cup {c}) \in Nat
            /\ Cardinality(restarting \cup {c}) <= Cardinality(restarting) + 1
            /\ Cardinality(restarting \ {c}) \in Nat
            /\ Cardinality(restarting \ {c}) <= Cardinality(restarting)
            /\ c \in restarting => Cardinality(restarting \ {c}) = Cardinality(restarting) - 1
        BY <1>0, RestartingCounted
      <4> QED
        BY <3>1, <3>3, <4>1, <4>2
    <3> QED
      BY <1>0, <2>1, <2>3, <3>4 DEF R!TypeOK, RestartsCounted, R!Starting, R!Service
  <2>6. ~overtaken' => StartsOnce'
    BY <1>0, <2>1, <2>3 DEF R!TypeOK, RestartsCounted, StartsOnce, StopsOnce, R!Starting, R!Stopping, R!ShouldStop
  <2>7. ~overtaken' => StopsOnce'
    BY <1>0, <2>1, <2>3 DEF R!TypeOK, RestartsCounted, StartsOnce, StopsOnce, R!Starting, R!Stopping, R!ShouldStop
  <2>8. ~overtaken' => UpTogether'
    BY <1>0, <2>1, <2>3 DEF R!TypeOK, RestartsCounted, StartsOnce, StopsOnce, UpTogether, R!Starting, R!Stopping, R!ShouldStop, R!Service
  <2> QED
    BY <2>4, <2>5, <2>6, <2>7, <2>8 DEF RestartInv
<1>16. ASSUME NEW c \in Restarter, "root" \in tree_stopped, R!Stop(c, FALSE)
      PROVE  RestartInv'
  <2>1. /\ tree_pc[c] = "idle"
        /\ restarting' = restarting \ {c}
        /\ UNCHANGED <<tree_started, tree_stopped, tree_crashed, tasks, futures, cancelled,
                       gathered, restarts, starts, overtaken>>
    BY <1>0, <1>16 DEF R!Stop, R!AfterStop, R!Goto
  <2>2. tree_pc' = [tree_pc EXCEPT ![c] = "idle"]
    BY <1>16 DEF R!Stop, R!AfterStop, R!Goto
  <2>3. /\ tree_pc'[c] = "idle"
        /\ \A d \in Restarter \ {c} : tree_pc'[d] = tree_pc[d]
    BY <1>0, <2>2 DEF R!TypeOK
  <2>4. R!TypeOK'
    BY <1>0, <2>1, <2>2 DEF R!TypeOK, RestartsCounted, R!Starting, R!Stopping, R!Service, R!Task
  <2>5. RestartsCounted'
    <3>1. restarts \in Nat /\ restarts + Cardinality(restarting) <= MaxRestarts
      BY <1>0 DEF R!TypeOK, RestartsCounted
    <3>2. R!Cardinality(restarting) = Cardinality(restarting)
      BY RestartBounds, Zenon
    <3>3. restarting' = restarting \ {c} /\ restarts' = restarts
      BY <2>1, <3>2
    <3>4. restarts' + Cardinality(restarting') <= MaxRestarts
      <4>1. Cardinality(restarting') = Cardinality(restarting \ {c})
        BY <3>3, Zenon
      <4>2. /\ Cardinality(restarting) \in Nat
            /\ Cardinality(restarting \cup {c}) \in Nat
            /\ Cardinality(restarting \cup {c}) <= Cardinality(restarting) + 1
            /\ Cardinality(restarting \ {c}) \in Nat
            /\ Cardinality(restarting \ {c}) <= Cardinality(restarting)
            /\ c \in restarting => Cardinality(restarting \ {c}) = Cardinality(restarting) - 1
        BY <1>0, RestartingCounted
      <4> QED
        BY <3>1, <3>3, <4>1, <4>2
    <3> QED
      BY <1>0, <2>1, <2>3, <3>4 DEF R!TypeOK, RestartsCounted, R!Starting, R!Service
  <2>6. ~overtaken' => StartsOnce'
    BY <1>0, <2>1, <2>3 DEF R!TypeOK, RestartsCounted, StartsOnce, StopsOnce, R!Starting, R!Stopping, R!ShouldStop
  <2>7. ~overtaken' => StopsOnce'
    BY <1>0, <2>1, <2>3 DEF R!TypeOK, RestartsCounted, StartsOnce, StopsOnce, R!Starting, R!Stopping, R!ShouldStop
  <2>8. ~overtaken' => UpTogether'
    BY <1>0, <2>1, <2>3 DEF R!TypeOK, RestartsCounted, StartsOnce, StopsOnce, UpTogether, R!Starting, R!Stopping, R!ShouldStop, R!Service
  <2> QED
    BY <2>4, <2>5, <2>6, <2>7, <2>8 DEF RestartInv
<1>17. ASSUME NEW c \in Restarter, c \notin restarting, R!OnShutdownReturns(c)
      PROVE  RestartInv'
  <2>1. /\ tree_pc[c] = "on_shutdown"
        /\ restarting' = restarting \ {c}
        /\ UNCHANGED <<tree_started, tree_stopped, tree_crashed, tasks, futures, cancelled,
                       gathered, restarts, starts, overtaken>>
    BY <1>0, <1>17 DEF R!OnShutdownReturns, R!AfterStop, R!Goto
  <2>2. tree_pc' = [tree_pc EXCEPT ![c] = "idle"]
    BY <1>17 DEF R!OnShutdownReturns, R!AfterStop, R!Goto
  <2>3. /\ tree_pc'[c] = "idle"
        /\ \A d \in Restarter \ {c} : tree_pc'[d] = tree_pc[d]
    BY <1>0, <2>2 DEF R!TypeOK
  <2>4. R!TypeOK'
    BY <1>0, <2>1, <2>2 DEF R!TypeOK, RestartsCounted, R!Starting, R!Stopping, R!Service, R!Task
  <2>5. RestartsCounted'
    <3>1. restarts \in Nat /\ restarts + Cardinality(restarting) <= MaxRestarts
      BY <1>0 DEF R!TypeOK, RestartsCounted
    <3>2. R!Cardinality(restarting) = Cardinality(restarting)
      BY RestartBounds, Zenon
    <3>3. restarting' = restarting \ {c} /\ restarts' = restarts
      BY <2>1, <3>2
    <3>4. restarts' + Cardinality(restarting') <= MaxRestarts
      <4>1. Cardinality(restarting') = Cardinality(restarting \ {c})
        BY <3>3, Zenon
      <4>2. /\ Cardinality(restarting) \in Nat
            /\ Cardinality(restarting \cup {c}) \in Nat
            /\ Cardinality(restarting \cup {c}) <= Cardinality(restarting) + 1
            /\ Cardinality(restarting \ {c}) \in Nat
            /\ Cardinality(restarting \ {c}) <= Cardinality(restarting)
            /\ c \in restarting => Cardinality(restarting \ {c}) = Cardinality(restarting) - 1
        BY <1>0, RestartingCounted
      <4> QED
        BY <3>1, <3>3, <4>1, <4>2
    <3> QED
      BY <1>0, <2>1, <2>3, <3>4 DEF R!TypeOK, RestartsCounted, R!Starting, R!Service
  <2>6. ~overtaken' => StartsOnce'
    BY <1>0, <2>1, <2>3 DEF R!TypeOK, RestartsCounted, StartsOnce, StopsOnce, R!Starting, R!Stopping, R!ShouldStop
  <2>7. ~overtaken' => StopsOnce'
    BY <1>0, <2>1, <2>3 DEF R!TypeOK, RestartsCounted, StartsOnce, StopsOnce, R!Starting, R!Stopping, R!ShouldStop
  <2>8. ~overtaken' => UpTogether'
    BY <1>0, <2>1, <2>3 DEF R!TypeOK, RestartsCounted, StartsOnce, StopsOnce, UpTogether, R!Starting, R!Stopping, R!ShouldStop, R!Service
  <2> QED
    BY <2>4, <2>5, <2>6, <2>7, <2>8 DEF RestartInv
<1>18. ASSUME NEW c \in Restarter, "root" \in tree_stopped, R!Stop(c, TRUE)
      PROVE  RestartInv'
  <2>1. /\ tree_pc[c] = "idle" /\ "root" \in tree_stopped /\ restarts + Cardinality(restarting) < MaxRestarts
        /\ restarting' = restarting \ {c} /\ restarts' = restarts + 1
        /\ tree_started' = {} /\ tree_stopped' = {} /\ tree_crashed' = {}
        /\ ~overtaken' => ~overtaken /\ \A d \in Restarter \ {c} : tree_pc[d] \notin R!Starting \cup R!Stopping
        /\ overtaken' \in BOOLEAN
        /\ UNCHANGED <<tasks, futures, cancelled, gathered, starts>>
    BY <1>0, <1>18 DEF R!Stop, R!AfterStop, R!Reset, R!MayRestart, R!Goto
  <2>2. tree_pc' = [tree_pc EXCEPT ![c] = "on_restart"]
    BY <1>18 DEF R!Stop, R!AfterStop, R!Reset, R!MayRestart, R!Goto
  <2>3. /\ tree_pc'[c] = "on_restart"
        /\ \A d \in Restarter \ {c} : tree_pc'[d] = tree_pc[d]
    BY <1>0, <2>2 DEF R!TypeOK
  <2>4. R!TypeOK'
    <3>1. restarts' \in 0..MaxRestarts
      <4>1. restarts \in Nat /\ restarts + Cardinality(restarting) <= MaxRestarts
        BY <1>0 DEF R!TypeOK, RestartsCounted
      <4>2. R!Cardinality(restarting) = Cardinality(restarting)
        BY RestartBounds, Zenon
      <4>3. Cardinality(restarting) \in Nat /\ Cardinality(restarting \ {c}) \in Nat
            /\ (c \in restarting => Cardinality(restarting \ {c}) = Cardinality(restarting) - 1)
        BY <1>0, RestartingCounted
      <4>4. restarts' = restarts + 1
            /\ (restarts + Cardinality(restarting) < MaxRestarts \/ c \in restarting)
        BY <2>1, <4>2
      <4> QED
        BY <4>1, <4>3, <4>4, RestartBounds
    <3>2. tree_pc' \in [Restarter -> {"idle", "on_restart"} \cup R!Starting \cup R!Stopping]
      BY <1>0, <2>2 DEF R!TypeOK
    <3> QED
      BY <1>0, <2>1, <3>1, <3>2 DEF R!TypeOK
  <2>5. RestartsCounted'
    <3>1. restarts \in Nat /\ restarts + Cardinality(restarting) <= MaxRestarts
      BY <1>0 DEF R!TypeOK, RestartsCounted
    <3>2. R!Cardinality(restarting) = Cardinality(restarting)
      BY RestartBounds, Zenon
    <3>3. restarting' = restarting \ {c} /\ restarts' = restarts + 1
          /\ restarts + Cardinality(restarting) < MaxRestarts
      BY <2>1, <3>2
    <3>4. restarts' + Cardinality(restarting') <= MaxRestarts
      <4>1. Cardinality(restarting') = Cardinality(restarting \ {c})
        BY <3>3, Zenon
      <4>2. /\ Cardinality(restarting) \in Nat
            /\ Cardinality(restarting \cup {c}) \in Nat
            /\ Cardinality(restarting \cup {c}) <= Cardinality(restarting) + 1
            /\ Cardinality(restarting \ {c}) \in Nat
            /\ Cardinality(restarting \ {c}) <= Cardinality(restarting)
            /\ c \in restarting => Cardinality(restarting \ {c}) = Cardinality(restarting) - 1
        BY <1>0, RestartingCounted
      <4> QED
        BY <3>1, <3>3, <4>1, <4>2
    <3> QED
      BY <1>0, <2>1, <2>3, <3>4 DEF R!TypeOK, RestartsCounted, R!Starting, R!Service
  <2>6. ~overtaken' => StartsOnce'
    BY <1>0, <2>1, <2>3 DEF R!TypeOK, RestartsCounted, StartsOnce, StopsOnce, R!Starting, R!Stopping, R!ShouldStop
  <2>7. ~overtaken' => StopsOnce'
    BY <1>0, <2>1, <2>3 DEF R!TypeOK, RestartsCounted, StartsOnce, StopsOnce, R!Starting, R!Stopping, R!ShouldStop
  <2>8. ~overtaken' => UpTogether'
    BY <1>0, <2>1, <2>3 DEF R!TypeOK, RestartsCounted, StartsOnce, StopsOnce, UpTogether, R!Starting, R!Stopping, R!ShouldStop, R!Service
  <2> QED
    BY <2>4, <2>5, <2>6, <2>7, <2>8 DEF RestartInv
<1>19. ASSUME NEW c \in Restarter, c \in restarting, R!OnShutdownReturns(c)
      PROVE  RestartInv'
  <2>1. /\ tree_pc[c] = "on_shutdown" /\ c \in restarting
        /\ restarting' = restarting \ {c} /\ restarts' = restarts + 1
        /\ tree_started' = {} /\ tree_stopped' = {} /\ tree_crashed' = {}
        /\ ~overtaken' => ~overtaken /\ \A d \in Restarter \ {c} : tree_pc[d] \notin R!Starting \cup R!Stopping
        /\ overtaken' \in BOOLEAN
        /\ UNCHANGED <<tasks, futures, cancelled, gathered, starts>>
    BY <1>0, <1>19 DEF R!OnShutdownReturns, R!AfterStop, R!Reset, R!Goto
  <2>2. tree_pc' = [tree_pc EXCEPT ![c] = "on_restart"]
    BY <1>19 DEF R!OnShutdownReturns, R!AfterStop, R!Reset, R!Goto
  <2>3. /\ tree_pc'[c] = "on_restart"
        /\ \A d \in Restarter \ {c} : tree_pc'[d] = tree_pc[d]
    BY <1>0, <2>2 DEF R!TypeOK
  <2>4. R!TypeOK'
    <3>1. restarts' \in 0..MaxRestarts
      <4>1. restarts \in Nat /\ restarts + Cardinality(restarting) <= MaxRestarts
        BY <1>0 DEF R!TypeOK, RestartsCounted
      <4>2. R!Cardinality(restarting) = Cardinality(restarting)
        BY RestartBounds, Zenon
      <4>3. Cardinality(restarting) \in Nat /\ Cardinality(restarting \ {c}) \in Nat
            /\ (c \in restarting => Cardinality(restarting \ {c}) = Cardinality(restarting) - 1)
        BY <1>0, RestartingCounted
      <4>4. restarts' = restarts + 1
            /\ (restarts + Cardinality(restarting) < MaxRestarts \/ c \in restarting)
        BY <2>1, <4>2
      <4> QED
        BY <4>1, <4>3, <4>4, RestartBounds
    <3>2. tree_pc' \in [Restarter -> {"idle", "on_restart"} \cup R!Starting \cup R!Stopping]
      BY <1>0, <2>2 DEF R!TypeOK
    <3> QED
      BY <1>0, <2>1, <3>1, <3>2 DEF R!TypeOK
  <2>5. RestartsCounted'
    <3>1. restarts \in Nat /\ restarts + Cardinality(restarting) <= MaxRestarts
      BY <1>0 DEF R!TypeOK, RestartsCounted
    <3>2. R!Cardinality(restarting) = Cardinality(restarting)
      BY RestartBounds, Zenon
    <3>3. restarting' = restarting \ {c} /\ restarts' = restarts + 1
          /\ c \in restarting
      BY <2>1, <3>2
    <3>4. restarts' + Cardinality(restarting') <= MaxRestarts
      <4>1. Cardinality(restarting') = Cardinality(restarting \ {c})
        BY <3>3, Zenon
      <4>2. /\ Cardinality(restarting) \in Nat
            /\ Cardinality(restarting \cup {c}) \in Nat
            /\ Cardinality(restarting \cup {c}) <= Cardinality(restarting) + 1
            /\ Cardinality(restarting \ {c}) \in Nat
            /\ Cardinality(restarting \ {c}) <= Cardinality(restarting)
            /\ c \in restarting => Cardinality(restarting \ {c}) = Cardinality(restarting) - 1
        BY <1>0, RestartingCounted
      <4> QED
        BY <3>1, <3>3, <4>1, <4>2
    <3> QED
      BY <1>0, <2>1, <2>3, <3>4 DEF R!TypeOK, RestartsCounted, R!Starting, R!Service
  <2>6. ~overtaken' => StartsOnce'
    BY <1>0, <2>1, <2>3 DEF R!TypeOK, RestartsCounted, StartsOnce, StopsOnce, R!Starting, R!Stopping, R!ShouldStop
  <2>7. ~overtaken' => StopsOnce'
    BY <1>0, <2>1, <2>3 DEF R!TypeOK, RestartsCounted, StartsOnce, StopsOnce, R!Starting, R!Stopping, R!ShouldStop
  <2>8. ~overtaken' => UpTogether'
    BY <1>0, <2>1, <2>3 DEF R!TypeOK, RestartsCounted, StartsOnce, StopsOnce, UpTogether, R!Starting, R!Stopping, R!ShouldStop, R!Service
  <2> QED
    BY <2>4, <2>5, <2>6, <2>7, <2>8 DEF RestartInv
<1>20. ASSUME NEW t \in R!Task, R!TaskEnds(t)
      PROVE  RestartInv'
  <2>1. /\ t \in tasks /\ tasks' = tasks \ {t} /\ futures' = futures \ {t} /\ cancelled' = cancelled \ {t}
        /\ t \in cancelled \/ R!ShouldStop(t[1])
        /\ UNCHANGED <<tree_started, tree_stopped, tree_crashed, restarting, tree_pc,
                       gathered, restarts, starts, overtaken>>
    BY <1>0, <1>20 DEF R!TaskEnds, R!Ended
  <2>4. R!TypeOK'
    BY <1>0, <2>1 DEF R!TypeOK, RestartsCounted, R!Starting, R!Stopping, R!Service, R!Task
  <2>5. RestartsCounted'
    BY <1>0, <2>1 DEF R!TypeOK, RestartsCounted, R!Starting, R!Service
  <2>6. ~overtaken' => StartsOnce'
    BY <1>0, <2>1 DEF R!TypeOK, RestartsCounted, StartsOnce, StopsOnce, R!Starting, R!Stopping, R!ShouldStop
  <2>7. ~overtaken' => StopsOnce'
    BY <1>0, <2>1 DEF R!TypeOK, RestartsCounted, StartsOnce, StopsOnce, R!Starting, R!Stopping, R!ShouldStop
  <2>8. ~overtaken' => UpTogether'
    BY <1>0, <2>1 DEF R!TypeOK, RestartsCounted, StartsOnce, StopsOnce, UpTogether, R!Starting, R!Stopping, R!ShouldStop, R!Service
  <2> QED
    BY <2>4, <2>5, <2>6, <2>7, <2>8 DEF RestartInv
<1>21. ASSUME NEW t \in R!Task, R!TaskCrashes(t)
      PROVE  RestartInv'
  <2>1. /\ t \in tasks /\ tasks' = tasks \ {t} /\ futures' = futures \ {t} /\ cancelled' = cancelled \ {t}
        /\ tree_crashed' = IF t[1] \in tree_crashed THEN tree_crashed ELSE R!Service
        /\ UNCHANGED <<tree_started, tree_stopped, restarting, tree_pc, gathered, restarts,
                       starts, overtaken>>
    BY <1>0, <1>21 DEF R!TaskCrashes, R!Ended
  <2>4. R!TypeOK'
    BY <1>0, <2>1 DEF R!TypeOK, RestartsCounted, R!Starting, R!Stopping, R!Service, R!Task
  <2>5. RestartsCounted'
    BY <1>0, <2>1 DEF R!TypeOK, RestartsCounted, R!Starting, R!Service
  <2>6. ~overtaken' => StartsOnce'
    BY <1>0, <2>1 DEF R!TypeOK, RestartsCounted, StartsOnce, StopsOnce, R!Starting, R!Stopping, R!ShouldStop
  <2>7. ~overtaken' => StopsOnce'
    BY <1>0, <2>1 DEF R!TypeOK, RestartsCounted, StartsOnce, StopsOnce, R!Starting, R!Stopping, R!ShouldStop
  <2>8. ~overtaken' => UpTogether'
    BY <1>0, <2>1 DEF R!TypeOK, RestartsCounted, StartsOnce, StopsOnce, UpTogether, R!Starting, R!Stopping, R!ShouldStop, R!Service
  <2> QED
    BY <2>4, <2>5, <2>6, <2>7, <2>8 DEF RestartInv
<1>22. CASE UNCHANGED R!vars
  BY <1>0, <1>22 DEF R!vars, RestartInv, R!TypeOK, RestartsCounted, StartsOnce, StopsOnce, UpTogether, R!ShouldStop
<1> QED
  BY <1>1, <1>2, <1>3, <1>4, <1>5, <1>6, <1>7, <1>8, <1>9, <1>10, <1>11, <1>12, <1>13, <1>14, <1>15, <1>16, <1>17, <1>18, <1>19, <1>20, <1>21, <1>22 DEF R!Next, R!Service

LEMMA RestartInvariant == Spec => []RestartInv
  BY RestartInit, RestartNext, PartSteps, PTL DEF Spec

\* A service with a child that is restarted while others start, stop and restart it
\* runs the tasks of each once, and when nobody is in a start() or stop() of it is up
\* with its child or down with it, for any callers and any number of restarts, unless
\* a reset has overtaken one of them.
THEOREM RestartsClean == Spec => [](R!RunsOnce /\ R!UpOrDown)
<1>1. ASSUME RestartInv, ~overtaken, NEW s \in R!Service
      PROVE  R!Cardinality(R!Alive(s)) <= 1
  <2>1. \A t, u \in R!Alive(s) : t = u
    BY <1>1 DEF RestartInv, StartsOnce, R!Alive, R!Of
  <2>2. R!Cardinality(R!Alive(s)) = Cardinality(R!Alive(s))
    BY RestartBounds
  <2>3. CASE R!Alive(s) = {}
    BY <2>2, <2>3, FS_EmptySet
  <2>4. ASSUME NEW t \in R!Alive(s) PROVE Cardinality(R!Alive(s)) = 1
    <3>1. R!Alive(s) = {t}
      BY <2>1, <2>4
    <3> QED
      BY <3>1, FS_Singleton, Zenon
  <2> QED
    BY <2>2, <2>3, <2>4
<1>2. ASSUME RestartInv, R!Idle, ~overtaken
      PROVE  /\ tasks \subseteq futures
             /\ "root" \in tree_stopped => tasks = {}
             /\ "root" \in tree_started /\ ~R!ShouldStop("root") =>
                  \A s \in R!Service : s \in tree_started /\ R!Alive(s) # {}
  <2>1. \A c \in Restarter : tree_pc[c] \notin {"on_start", "kid_on_start"} \cup R!Stopping
    BY <1>2 DEF R!Idle, R!Stopping
  <2>2. StopsOnce /\ UpTogether
    BY <1>2 DEF RestartInv
  <2>3. ~R!ShouldStop("root") => cancelled = {}
    BY <2>2 DEF StopsOnce, R!ShouldStop
  <2>4. "root" \in tree_started /\ ~R!ShouldStop("root") =>
          \A s \in {"root", "kid"} : s \in tree_started /\ \E t \in tasks : t[1] = s
    BY <2>1, <2>2 DEF UpTogether
  <2>5. "root" \in tree_stopped => tasks = {}
    BY <2>1, <2>2 DEF StopsOnce
  <2> QED
    BY <2>2, <2>3, <2>4, <2>5 DEF StopsOnce, R!Alive, R!Of, R!Service
<1>3. RestartInv => R!RunsOnce /\ R!UpOrDown
  BY <1>1, <1>2 DEF R!RunsOnce, R!UpOrDown
<1> QED
  BY RestartInvariant, <1>3, PTL

\* Of a worker and of a service that restarts, together.
THEOREM LifeIsRight == Spec => []LifeRight
  BY WorkerEndsClean, RestartsClean, PTL DEF LifeRight
=============================================================================
