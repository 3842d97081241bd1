-------------------------- MODULE ServiceTreeProofs --------------------------
(* Theorems about ServiceTree, for every tree of services: what is typed and *)
(* joined, how a crash spreads, and in which order a tree starts and stops.  *)
EXTENDS ServiceTree, TLAPS

USE DEF loopvars, callvars

-----------------------------------------------------------------------------
(* Type correctness.                                                       *)

LEMMA WithoutType ==
    ASSUME NEW q \in Seq(Service), NEW k, \E i \in DOMAIN q : q[i] = k
    PROVE  Without(q, k) \in Seq(Service)
<1>1. Len(q) \in Nat \ {0} /\ q \in [1 .. Len(q) -> Service]
  OBVIOUS
<1>2. Len(q) - 1 \in Nat
  BY <1>1
<1>3. \A j \in 1 .. Len(q) - 1 : j \in 1 .. Len(q) /\ j + 1 \in 1 .. Len(q)
  BY <1>1
<1> DEFINE i == CHOOSE j \in DOMAIN q : q[j] = k /\ \A m \in 1 .. j-1 : q[m] # k
<1>4. Without(q, k) \in [1 .. Len(q) - 1 -> Service]
  <2>1. \A j \in 1 .. Len(q) - 1 : (IF j < i THEN q[j] ELSE q[j + 1]) \in Service
    BY <1>1, <1>3
  <2> QED
    BY <2>1 DEF Without
<1>5. QED
  BY <1>2, <1>4, SMT

\* The variables always have the types TypeOK gives them.
LEMMA TypeInit == Init => TypeOK
BY ConstantTypes DEF ConstantTypes, Init, TypeOK, StartPC, StopPC

LEMMA BeginStartType ==
    ASSUME TypeOK, NEW s \in Service, NEW pc \in [Service -> StartPC],
           BeginStart(s, pc)
    PROVE  /\ started' \subseteq Service
           /\ children' \in [Service -> Seq(Service)]
           /\ startpc' \in [Service -> StartPC]
<1>1. children[s] \o OnInit[s] \in Seq(Service)
  BY ConstantTypes DEF ConstantTypes, TypeOK
<1>2. [pc EXCEPT ![s] = "on_first_start"] \in [Service -> StartPC]
  BY DEF StartPC
<1> QED
  BY <1>1, <1>2 DEF TypeOK, BeginStart

LEMMA StartChildrenType ==
    ASSUME TypeOK, NEW s \in Service, NEW i \in Nat \ {0}, StartChildren(s, i)
    PROVE  /\ started' \subseteq Service
           /\ children' \in [Service -> Seq(Service)]
           /\ startpc' \in [Service -> StartPC]
           /\ startidx' \in [Service -> Nat]
           /\ startkid' \in [Service -> Service \cup {None}]
<1> DEFINE todo == {j \in i .. Len(children[s]) : children[s][j] \notin started}
<1>1. CASE /\ startpc' = [startpc EXCEPT ![s] = "on_started"]
           /\ startkid' = [startkid EXCEPT ![s] = None]
           /\ UNCHANGED <<started, children, startidx>>
  BY <1>1 DEF TypeOK, StartPC
<1>2. ASSUME NEW j \in todo,
             startidx' = [startidx EXCEPT ![s] = j],
             startkid' = [startkid EXCEPT ![s] = children[s][j]],
             BeginStart(children[s][j], [startpc EXCEPT ![s] = "child"])
      PROVE  /\ started' \subseteq Service
             /\ children' \in [Service -> Seq(Service)]
             /\ startpc' \in [Service -> StartPC]
             /\ startidx' \in [Service -> Nat]
             /\ startkid' \in [Service -> Service \cup {None}]
  <2>1. j \in Nat
    BY <1>2 DEF TypeOK
  <2>2. children[s][j] \in Service
    <3>1. children[s] \in Seq(Service)
      BY DEF TypeOK
    <3>2. j \in 1 .. Len(children[s])
      BY <1>2, <3>1
    <3> QED
      BY <3>1, <3>2
  <2>3. [startpc EXCEPT ![s] = "child"] \in [Service -> StartPC]
    BY DEF TypeOK, StartPC
  <2> QED
    BY <1>2, <2>1, <2>2, <2>3, BeginStartType DEF TypeOK
<1> QED
  BY <1>1, <1>2 DEF StartChildren

LEMMA StopChildrenType ==
    ASSUME TypeOK, NEW s \in Service, NEW i \in Int, StopChildren(s, i)
    PROVE  /\ stoppc' \in [Service -> StopPC]
           /\ stopidx' \in [Service -> Nat]
           /\ stopkid' \in [Service -> Service \cup {None}]
           /\ stoptask' \subseteq Service
<1>1. children[s] \in Seq(Service)
  BY DEF TypeOK
<1>2. CASE i \in 1 .. Len(children[s])
  <2>1. children[s][i] \in Service /\ i \in Nat
    BY <1>1, <1>2
  <2>2. /\ stoppc' = [stoppc EXCEPT ![s] = "stop_child"]
        /\ stopidx' = [stopidx EXCEPT ![s] = i]
        /\ stopkid' = [stopkid EXCEPT ![s] = children[s][i]]
        /\ stoptask' = stoptask \cup {children[s][i]}
    BY <1>2 DEF StopChildren
  <2> QED
    BY <2>1, <2>2 DEF TypeOK, StopPC
<1>3. CASE i \notin 1 .. Len(children[s])
  BY <1>3 DEF StopChildren, StopFutures, TypeOK, StopPC
<1> QED
  BY <1>2, <1>3

LEMMA TypeStart ==
    ASSUME TypeOK, NEW s \in Service, StartStep(s)
    PROVE  TypeOK'
<1>1. CASE FirstStartDone(s)
  BY <1>1 DEF FirstStartDone, TypeOK, StartPC, flags, stopvars, futurevars
<1>2. CASE StartDone(s)
  <2>1. CASE ShouldStop(s)
    BY <1>2, <2>1 DEF StartDone, TypeOK, StartPC, stopvars
  <2>2. CASE ~ShouldStop(s)
    <3>1. StartChildren(s, 1)
      BY <1>2, <2>2 DEF StartDone
    <3>2. /\ futures' \subseteq Future /\ running' \subseteq Future
          /\ UNCHANGED <<stopped, shutdown, crashed, stopvars, cancelled, awaited,
                         context, overtaken, removing, shortened>>
      BY <1>2, <2>2, ConstantTypes DEF ConstantTypes, StartDone, TypeOK
    <3>3. /\ started' \subseteq Service
          /\ children' \in [Service -> Seq(Service)]
          /\ startpc' \in [Service -> StartPC]
          /\ startidx' \in [Service -> Nat]
          /\ startkid' \in [Service -> Service \cup {None}]
      BY <3>1, StartChildrenType
    <3> QED
      BY <3>2, <3>3 DEF TypeOK, stopvars
  <2> QED
    BY <2>1, <2>2
<1>3. CASE ChildStarted(s)
  <2>1. CASE ShouldStop(s)
    BY <1>3, <2>1 DEF ChildStarted, TypeOK, StartPC, stopvars, futurevars
  <2>2. CASE ~ShouldStop(s)
    <3>1. StartChildren(s, startidx[s] + 1)
      BY <1>3, <2>2 DEF ChildStarted
    <3>2. startidx[s] + 1 \in Nat \ {0}
      BY DEF TypeOK
    <3> QED
      BY <1>3, <2>2, <3>1, <3>2, StartChildrenType
         DEF ChildStarted, TypeOK, stopvars, futurevars
  <2> QED
    BY <2>1, <2>2
<1>4. CASE StartedDone(s)
  BY <1>4 DEF StartedDone, TypeOK, StartPC, flags, stopvars, futurevars
<1>5. CASE StartRaises(s)
  BY <1>5 DEF StartRaises, TypeOK, StartPC, flags, stopvars, futurevars
<1>6. CASE StartUnwound(s)
  BY <1>6 DEF StartUnwound, TypeOK, StartPC, flags, stopvars, futurevars
<1>7. CASE ContextEntered(s)
  BY <1>7 DEF ContextEntered, TypeOK, StartPC, flags, stopvars, futurevars
<1> QED
  BY <1>1, <1>2, <1>3, <1>4, <1>5, <1>6, <1>7 DEF StartStep

\* What the first step of a stop() does to the variables it sets.
LEMMA BeginStopType ==
    ASSUME TypeOK, NEW s \in Service, NEW by \in Service \cup {User, None},
           BeginStop(s, by)
    PROVE  /\ stopped' \subseteq Service
           /\ stoppc' \in [Service -> StopPC]
           /\ stopper' \in [Service -> Service \cup {User, None}]
<1>1. stopped' \subseteq Service
  BY DEF BeginStop, TypeOK
<1>2. stoppc' \in [Service -> StopPC]
  BY DEF BeginStop, TypeOK, StopPC
<1>3. stopper' \in [Service -> Service \cup {User, None}]
  BY DEF BeginStop, TypeOK
<1> QED
  BY <1>1, <1>2, <1>3

LEMMA TypeStop ==
    ASSUME TypeOK, NEW s \in Service, StopStep(s) \/ StopCancelled(s)
    PROVE  TypeOK'
<1> USE DEF flags, startvars, futurevars
<1>1. CASE OnStopDone(s)
  <2>1. Len(children[s]) \in Int
    BY DEF TypeOK
  <2> QED
    BY <1>1, <2>1, StopChildrenType DEF OnStopDone, TypeOK
<1>2. CASE RunStopTask(s)
  <2>1. \/ UNCHANGED <<stopped, stoppc, stopper>>
        \/ \E t \in Service : BeginStop(s, t)
    BY <1>2 DEF RunStopTask
  <2>2. /\ stopped' \subseteq Service
        /\ stoppc' \in [Service -> StopPC]
        /\ stopper' \in [Service -> Service \cup {User, None}]
    <3>1. CASE UNCHANGED <<stopped, stoppc, stopper>>
      BY <3>1 DEF TypeOK
    <3>2. CASE \E t \in Service : BeginStop(s, t)
      BY <3>2, BeginStopType
    <3> QED
      BY <2>1, <3>1, <3>2
  <2> QED
    BY <1>2, <2>2 DEF RunStopTask, TypeOK
<1>3. ASSUME StopChildren(s, stopidx[s] - 1),
             UNCHANGED <<flags, children, startvars, stopper, running, cancelled,
                         awaited, callvars>>,
             futures' = futures, interrupted' \in {interrupted, interrupted \cup {s}}
      PROVE  TypeOK'
  <2>1. stopidx[s] - 1 \in Int
    BY DEF TypeOK
  <2> QED
    BY <1>3, <2>1, StopChildrenType DEF TypeOK
<1>4. CASE ChildStopped(s)
  BY <1>3, <1>4 DEF ChildStopped
<1>5. CASE ShutdownReceived(s)
  BY <1>5 DEF ShutdownReceived, StopFutures, TypeOK, StopPC
<1>6. CASE CancelFutures(s)
  BY <1>6 DEF CancelFutures, TypeOK, StopPC
<1>7. CASE GatherFutures(s)
  BY <1>7 DEF GatherFutures, TypeOK, StopPC
<1>8. CASE FuturesGathered(s)
  BY <1>8 DEF FuturesGathered, TypeOK, StopPC
<1>9. CASE ExitStacksClosed(s)
  BY <1>9 DEF ExitStacksClosed, CloseStacks, TypeOK, StopPC
<1>10. CASE OnShutdownDone(s)
  BY <1>10 DEF OnShutdownDone, TypeOK, StopPC
<1>11. CASE StopRaises(s)
  BY <1>11 DEF StopRaises, CloseStacks, TypeOK, StopPC
<1>12. CASE StopCancelled(s)
  <2>1. CASE stoppc[s] = "stop_child"
    BY <1>3, <1>12, <2>1 DEF StopCancelled
  <2>2. CASE stoppc[s] # "stop_child"
    BY <1>12, <2>2 DEF StopCancelled, TypeOK, StopPC
  <2> QED
    BY <2>1, <2>2
<1> QED
  BY <1>1, <1>2, <1>4, <1>5, <1>6, <1>7, <1>8, <1>9, <1>10, <1>11, <1>12
     DEF StopStep

LEMMA CrashType ==
    ASSUME TypeOK, NEW s \in Service, Crash(s)
    PROVE  crashed' \subseteq Service
BY DEF Crash, CrashScope, Below, TypeOK

LEMMA TypeFuture ==
    ASSUME TypeOK, NEW f \in Future, FutureStep(f)
    PROVE  TypeOK'
<1>1. CASE AddFuture(f)
  BY <1>1 DEF AddFuture, TypeOK, flags, startvars, stopvars
<1>2. CASE FutureEnds(f)
  BY <1>2 DEF FutureEnds, TypeOK, flags, startvars, stopvars
<1>3. CASE FutureRaises(f)
  <2>1. Owner[f] \in Service
    BY ConstantTypes DEF ConstantTypes
  <2> QED
    BY <1>3, <2>1, CrashType DEF FutureRaises, TypeOK, startvars, stopvars
<1> QED
  BY <1>1, <1>2, <1>3 DEF FutureStep

\* Taking a child out of the list.
LEMMA TakeOutType ==
    ASSUME TypeOK, NEW s \in Service, NEW k \in Service, TakeOut(s, k)
    PROVE  /\ children' \in [Service -> Seq(Service)]
           /\ shortened' \in [Service -> Nat]
<1>1. CASE k \in Kids(s)
  <2>1. Without(children[s], k) \in Seq(Service)
    BY <1>1, WithoutType DEF Kids, Elems, TypeOK
  <2>2. /\ children' = [children EXCEPT ![s] = Without(children[s], k)]
        /\ \/ shortened' = shortened
           \/ shortened' = [shortened EXCEPT ![s] = shortened[s] + 1]
    BY <1>1 DEF TakeOut, TypeOK
  <2>3. children' \in [Service -> Seq(Service)]
    BY <2>1, <2>2 DEF TypeOK
  <2>4. shortened' \in [Service -> Nat]
    <3>1. shortened \in [Service -> Nat] /\ shortened[s] + 1 \in Nat
      BY DEF TypeOK
    <3> QED
      BY <2>2, <3>1
  <2> QED
    BY <2>3, <2>4
<1>2. CASE k \notin Kids(s)
  BY <1>2 DEF TakeOut, TypeOK
<1> QED
  BY <1>1, <1>2

LEMMA TypeCaller ==
    ASSUME TypeOK, NEW s \in Service, CallerStep(s)
    PROVE  TypeOK'
<1> USE DEF stopvars, futurevars
<1>1. CASE StartCaller(s)
  <2>1. BeginStart(s, startpc) /\ startpc \in [Service -> StartPC]
    BY <1>1 DEF StartCaller, TypeOK
  <2>2. /\ started' \subseteq Service
        /\ children' \in [Service -> Seq(Service)]
        /\ startpc' \in [Service -> StartPC]
    BY <2>1, BeginStartType
  <2> QED
    BY <1>1, <2>2 DEF StartCaller, TypeOK
<1>2. CASE StopCaller(s)
  BY <1>2 DEF StopCaller, BeginStop, TypeOK, StopPC, startvars
<1>3. CASE StopCancelled(s)
  BY <1>3, TypeStop
<1>4. CASE CrashCaller(s)
  BY <1>4, CrashType DEF CrashCaller, TypeOK, startvars
<1>5. CASE SetShutdown(s)
  BY <1>5, ConstantTypes DEF ConstantTypes, SetShutdown, TypeOK, startvars
<1>6. CASE AddContext(s)
  BY <1>6 DEF AddContext, TypeOK, flags, startvars
<1>7. ASSUME NEW k \in Service, DependencyRemoved(s, k)
      PROVE  TypeOK'
  <2>1. /\ children' \in [Service -> Seq(Service)]
        /\ shortened' \in [Service -> Nat]
    BY <1>7, TakeOutType DEF DependencyRemoved, TypeOK
  <2> QED
    BY <1>7, <2>1 DEF DependencyRemoved, TypeOK, flags, startvars
<1>8. ASSUME NEW k \in Service, AddDependency(s, k)
      PROVE  TypeOK'
  <2>1. Append(children[s], k) \in Seq(Service)
    BY DEF TypeOK
  <2> QED
    BY <1>8, <2>1 DEF AddDependency, TypeOK, flags, startvars
<1>9. ASSUME NEW k \in Service, AddRuntimeDependency(s, k)
      PROVE  TypeOK'
  <2>1. Append(children[s], k) \in Seq(Service)
    BY DEF TypeOK
  <2>2. \A q \in Seq(Service) : q \o OnInit[k] \in Seq(Service)
    BY ConstantTypes DEF ConstantTypes
  <2>3. /\ children' \in [Service -> Seq(Service)]
        /\ started' \subseteq Service
        /\ startpc' \in [Service -> StartPC]
    <3> DEFINE added == [children EXCEPT ![s] = Append(children[s], k)]
    <3>1. added \in [Service -> Seq(Service)]
      BY <2>1 DEF TypeOK
    <3>2. children' \in {added, [added EXCEPT ![k] = added[k] \o OnInit[k]]}
      BY <1>9 DEF AddRuntimeDependency, TypeOK
    <3>3. added[k] \o OnInit[k] \in Seq(Service)
      BY <2>2, <3>1
    <3>4. children' \in [Service -> Seq(Service)]
      <4> HIDE DEF added
      <4> QED
        BY <3>1, <3>2, <3>3
    <3>5. started' \subseteq Service /\ startpc' \in [Service -> StartPC]
      <4>1. CASE s \in started
        <5>1. /\ started' = started \cup {k}
              /\ startpc' = [startpc EXCEPT ![k] = "on_first_start"]
          BY <1>9, <4>1 DEF AddRuntimeDependency
        <5> QED
          BY <5>1 DEF TypeOK, StartPC
      <4>2. CASE s \notin started
        BY <1>9, <4>2 DEF AddRuntimeDependency, TypeOK
      <4> QED
        BY <4>1, <4>2
    <3> QED
      BY <3>4, <3>5
  <2> QED
    BY <1>9, <2>3 DEF AddRuntimeDependency, TypeOK
<1>10. ASSUME NEW k \in Service, RemoveDependency(s, k)
       PROVE  TypeOK'
  <2>2. /\ children' \in [Service -> Seq(Service)]
        /\ shortened' \in [Service -> Nat]
        /\ stopped' \subseteq Service
        /\ stoppc' \in [Service -> StopPC]
        /\ stopper' \in [Service -> Service \cup {User, None}]
        /\ removing' \subseteq Service
    <3>1. CASE /\ BeginStop(k, User) /\ removing' = removing \cup {k}
               /\ UNCHANGED <<children, shortened>>
      <4>1. /\ stopped' \subseteq Service
            /\ stoppc' \in [Service -> StopPC]
            /\ stopper' \in [Service -> Service \cup {User, None}]
        BY <1>10, <3>1, BeginStopType
      <4> QED
        BY <1>10, <3>1, <4>1 DEF TypeOK
    <3>2. CASE TakeOut(s, k) /\ UNCHANGED <<stopped, stoppc, stopper, removing>>
      <4>1. /\ children' \in [Service -> Seq(Service)]
            /\ shortened' \in [Service -> Nat]
        BY <1>10, <3>2, TakeOutType
      <4> QED
        BY <3>2, <4>1 DEF TypeOK
    <3> QED
      BY <1>10, <3>1, <3>2 DEF RemoveDependency
  <2> QED
    BY <1>10, <2>2 DEF RemoveDependency, TypeOK, startvars
<1>11. CASE AddAsyncContext(s)
  BY <1>11 DEF AddAsyncContext, TypeOK, StartPC, flags
<1> QED
  BY <1>1, <1>2, <1>3, <1>4, <1>5, <1>6, <1>7, <1>8, <1>9, <1>10, <1>11 DEF CallerStep

LEMMA TypeStep == TypeOK /\ [Next]_vars => TypeOK'
<1> SUFFICES ASSUME TypeOK, [Next]_vars PROVE TypeOK'
  OBVIOUS
<1>1. CASE UNCHANGED vars
  BY <1>1 DEF TypeOK, vars, flags, startvars, stopvars, futurevars
<1>2. CASE Next
  BY <1>2, TypeStart, TypeStop, TypeFuture, TypeCaller DEF Next
<1> QED
  BY <1>1, <1>2

\* The variables have their types in every state, for every tree.
THEOREM TypeCorrect == Spec => []TypeOK
BY TypeInit, TypeStep, PTL DEF Spec

-----------------------------------------------------------------------------
(* Background futures.                                                     *)

\* _stopped is set before the body of stop() begins.
StopFlag == \A s \in Service : stoppc[s] # "idle" => s \in stopped

Closing == {"exit_stacks", "on_shutdown", "returned", "raised"}

\* A running future is in _futures until stop() has dealt with the futures.
Tracked == \A f \in running : f \in futures \/ stoppc[Owner[f]] \in Closing

\* The gathering waits for everything that runs.
Gathering == \A s \in Service :
    stoppc[s] = "gather" => running \cap Owned(s) \subseteq awaited

FutureInv == StopFlag /\ Tracked /\ Gathering /\ JoinedBeforeShutdown

futureinvvars == <<stopped, stoppc, futures, running, awaited, interrupted>>

LEMMA FutureInvStutter ==
    ASSUME FutureInv, UNCHANGED futureinvvars
    PROVE  FutureInv'
BY DEF FutureInv, StopFlag, Tracked, Gathering, JoinedBeforeShutdown, PastFutures,
       Closing, futureinvvars, Owned

LEMMA FutureInvInit == Init => FutureInv
BY DEF Init, FutureInv, StopFlag, Tracked, Gathering, JoinedBeforeShutdown,
       PastFutures, Closing

\* stop() of a service changes nothing but where it is.
LEMMA FutureInvBeginStop ==
    ASSUME TypeOK, FutureInv, NEW s \in Service, NEW by, BeginStop(s, by),
           UNCHANGED <<futures, running, awaited, interrupted>>
    PROVE  FutureInv'
<1>1. /\ stoppc[s] = "idle"
      /\ stopped' = stopped \cup {s}
      /\ stoppc' = [stoppc EXCEPT ![s] = "on_stop"]
  BY DEF BeginStop, FutureInv, StopFlag, TypeOK
<1>2. stoppc' \in [Service -> StopPC] /\ \A t \in Service : t # s => stoppc'[t] = stoppc[t]
  BY <1>1 DEF TypeOK, StopPC
<1>3. stoppc'[s] = "on_stop"
  BY <1>1 DEF TypeOK
<1>4. \A f \in running : Owner[f] \in Service
  BY ConstantTypes DEF ConstantTypes, TypeOK
<1>5. StopFlag'
  BY <1>1, <1>2 DEF FutureInv, StopFlag
<1>6. Tracked'
  BY <1>1, <1>2, <1>4 DEF FutureInv, Tracked, Closing
<1>7. Gathering' /\ JoinedBeforeShutdown'
  BY <1>2, <1>3 DEF FutureInv, Gathering, JoinedBeforeShutdown, PastFutures, Owned
<1> QED
  BY <1>5, <1>6, <1>7 DEF FutureInv

\* Every other step of stop() moves one service on; what is asked of that service
\* is asked here of the step.
LEMMA FutureInvStopMoves ==
    ASSUME TypeOK, FutureInv, NEW s \in Service, NEW pc \in StopPC \ {"idle"},
           s \in stopped, stopped' = stopped, running' = running,
           stoppc' = [stoppc EXCEPT ![s] = pc],
           futures \ Owned(s) \subseteq futures',
           awaited \ Owned(s) \subseteq awaited',
           interrupted \subseteq interrupted',
           pc \in Closing \/ (stoppc[s] \notin Closing /\ futures' = futures),
           pc = "gather" => running \cap Owned(s) \subseteq awaited',
           pc \in {"exit_stacks", "on_shutdown", "returned"} /\ s \notin interrupted'
               => running \cap Owned(s) = {}
    PROVE  FutureInv'
<1>1. \A t \in Service : stoppc'[t] = IF t = s THEN pc ELSE stoppc[t]
  BY DEF TypeOK
<1>2. \A f \in running : Owner[f] \in Service /\ f \in Future
  BY ConstantTypes DEF ConstantTypes, TypeOK
<1>3. StopFlag'
  BY <1>1 DEF FutureInv, StopFlag
<1>4. Tracked'
  <2> SUFFICES ASSUME NEW f \in running, stoppc'[Owner[f]] \notin Closing
               PROVE  f \in futures'
    BY DEF Tracked, Closing
  <2>1. CASE Owner[f] = s
    BY <1>1, <1>2, <2>1 DEF FutureInv, Tracked
  <2>2. CASE Owner[f] # s
    BY <1>1, <1>2, <2>2 DEF FutureInv, Tracked, Owned
  <2> QED
    BY <2>1, <2>2
<1>5. Gathering'
  BY <1>1, <1>2 DEF FutureInv, Gathering, Owned
<1>6. JoinedBeforeShutdown'
  BY <1>1 DEF FutureInv, JoinedBeforeShutdown, PastFutures, Owned
<1> QED
  BY <1>3, <1>4, <1>5, <1>6 DEF FutureInv

LEMMA FutureInvStart ==
    ASSUME TypeOK, FutureInv, NEW s \in Service, StartStep(s)
    PROVE  FutureInv'
<1>1. CASE StartDone(s) /\ ~ShouldStop(s)
  <2>1. stoppc[s] = "idle"
    BY <1>1 DEF ShouldStop, FutureInv, StopFlag
  <2>2. /\ futures' = futures \cup (TaskFuture \cap Owned(s))
        /\ running' = running \cup (TaskFuture \cap Owned(s))
        /\ UNCHANGED <<stopped, stoppc, awaited, interrupted>>
    BY <1>1 DEF StartDone, stopvars
  <2>3. \A t \in Service : t # s => Owned(t) \cap running' = Owned(t) \cap running
    BY <2>2 DEF Owned
  <2> QED
    BY <2>1, <2>2, <2>3 DEF FutureInv, StopFlag, Tracked, Gathering,
       JoinedBeforeShutdown, PastFutures, Owned, Closing
<1>2. CASE ~(StartDone(s) /\ ~ShouldStop(s))
  <2>1. UNCHANGED futureinvvars
    BY <1>2 DEF StartStep, FirstStartDone, StartDone, ChildStarted, StartedDone,
       StartRaises, StartUnwound, ContextEntered, futureinvvars, stopvars, futurevars, flags
  <2> QED
    BY <2>1, FutureInvStutter
<1> QED
  BY <1>1, <1>2

LEMMA FutureInvStopFutures ==
    ASSUME TypeOK, FutureInv, NEW s \in Service, stoppc[s] # "idle",
           stoppc[s] \notin Closing, StopFutures(s),
           UNCHANGED <<stopped, futures, running, awaited>>,
           interrupted \subseteq interrupted'
    PROVE  FutureInv'
<1> DEFINE pc == IF futures \cap Owned(s) = {} THEN "exit_stacks" ELSE "drain"
<1>1. pc \in StopPC \ {"idle"} /\ stoppc' = [stoppc EXCEPT ![s] = pc]
  BY DEF StopFutures, StopPC
<1>2. s \in stopped
  BY DEF FutureInv, StopFlag
<1>3. pc = "exit_stacks" => running \cap Owned(s) = {}
  BY DEF FutureInv, Tracked, Owned
<1>4. pc # "gather" /\ pc \notin {"on_shutdown", "returned"}
  OBVIOUS
<1> HIDE DEF pc
<1> QED
  BY <1>1, <1>2, <1>3, <1>4, FutureInvStopMoves

LEMMA FutureInvStopChildren ==
    ASSUME TypeOK, FutureInv, NEW s \in Service, NEW i, stoppc[s] # "idle",
           stoppc[s] \notin Closing, StopChildren(s, i),
           UNCHANGED <<stopped, futures, running, awaited>>,
           interrupted \subseteq interrupted'
    PROVE  FutureInv'
<1>1. \/ StopFutures(s)
      \/ stoppc' = [stoppc EXCEPT ![s] = "stop_child"]
      \/ stoppc' = [stoppc EXCEPT ![s] = "wait_shutdown"]
  BY DEF StopChildren
<1>2. s \in stopped
  BY DEF FutureInv, StopFlag
<1>3. CASE StopFutures(s)
  BY <1>3, FutureInvStopFutures
<1>4. ASSUME NEW pc \in {"stop_child", "wait_shutdown"},
             stoppc' = [stoppc EXCEPT ![s] = pc]
      PROVE  FutureInv'
  <2>1. pc \in StopPC \ {"idle"}
    BY DEF StopPC
  <2> QED
    BY <1>2, <1>4, <2>1, FutureInvStopMoves
<1> QED
  BY <1>1, <1>3, <1>4

LEMMA FutureInvStop ==
    ASSUME TypeOK, FutureInv, NEW s \in Service, StopStep(s) \/ StopCancelled(s)
    PROVE  FutureInv'
<1> USE DEF flags
<1>1. \A pc : stoppc[s] = pc /\ pc # "idle" => s \in stopped
  BY DEF FutureInv, StopFlag
<1>2. CASE OnStopDone(s)
  BY <1>2, FutureInvStopChildren DEF OnStopDone, futurevars, Closing
<1>3. CASE RunStopTask(s)
  <2>1. UNCHANGED <<futures, running, awaited, interrupted>>
    BY <1>3 DEF RunStopTask, futurevars
  <2>2. CASE UNCHANGED <<stopped, stoppc, stopper>>
    BY <2>1, <2>2, FutureInvStutter DEF futureinvvars
  <2>3. CASE \E t \in Service : BeginStop(s, t)
    BY <2>1, <2>3, FutureInvBeginStop
  <2> QED
    BY <1>3, <2>2, <2>3 DEF RunStopTask
<1>4. CASE ChildStopped(s)
  BY <1>4, FutureInvStopChildren DEF ChildStopped, futurevars, Closing
<1>5. CASE ShutdownReceived(s)
  BY <1>5, FutureInvStopFutures DEF ShutdownReceived, futurevars, Closing
<1>6. CASE CancelFutures(s)
  <2> DEFINE pc == IF futures \cap Owned(s) = {} THEN "exit_stacks" ELSE "gather_start"
  <2>1. /\ pc \in StopPC \ {"idle"}
        /\ stoppc' = [stoppc EXCEPT ![s] = pc]
        /\ UNCHANGED <<stopped, futures, running, awaited, interrupted>>
        /\ s \in stopped /\ stoppc[s] \notin Closing
    BY <1>1, <1>6 DEF CancelFutures, StopPC, Closing
  <2>2. pc = "exit_stacks" => running \cap Owned(s) = {}
    BY <2>1 DEF FutureInv, Tracked, Owned
  <2>3. pc # "gather" /\ pc \notin {"on_shutdown", "returned"}
    OBVIOUS
  <2> HIDE DEF pc
  <2> QED
    BY <2>1, <2>2, <2>3, FutureInvStopMoves
<1>7. CASE GatherFutures(s)
  <2>1. running \cap Owned(s) \subseteq futures
    BY <1>7 DEF GatherFutures, FutureInv, Tracked, Closing, Owned
  <2>2. /\ stoppc' = [stoppc EXCEPT ![s] = "gather"] /\ "gather" \in StopPC \ {"idle"}
        /\ UNCHANGED <<stopped, futures, running, interrupted>>
        /\ awaited' = awaited \cup (futures \cap Owned(s))
        /\ s \in stopped /\ stoppc[s] \notin Closing
    BY <1>1, <1>7 DEF GatherFutures, StopPC, Closing
  <2> QED
    BY <2>1, <2>2, FutureInvStopMoves
<1>8. CASE FuturesGathered(s)
  <2>1. running \cap Owned(s) = {}
    BY <1>8 DEF FuturesGathered, FutureInv, Gathering
  <2>2. /\ stoppc' = [stoppc EXCEPT ![s] = "exit_stacks"]
        /\ "exit_stacks" \in StopPC \ {"idle"} /\ "exit_stacks" \in Closing
        /\ UNCHANGED <<stopped, running, awaited, interrupted>>
        /\ futures' = futures \ Owned(s) /\ s \in stopped
    BY <1>1, <1>8 DEF FuturesGathered, StopPC, Closing
  <2> QED
    BY <2>1, <2>2, FutureInvStopMoves
<1>9. ASSUME NEW pc \in {"on_shutdown", "returned"},
             stoppc[s] \in {"exit_stacks", "on_shutdown"},
             stoppc' = [stoppc EXCEPT ![s] = pc],
             UNCHANGED <<stopped, futures, running, awaited, interrupted>>
      PROVE  FutureInv'
  <2>1. pc \in StopPC \ {"idle"} /\ pc \in Closing /\ s \in stopped
    BY <1>1, <1>9 DEF StopPC, Closing
  <2>2. s \notin interrupted => running \cap Owned(s) = {}
    BY <1>9 DEF FutureInv, JoinedBeforeShutdown, PastFutures
  <2> QED
    BY <1>9, <2>1, <2>2, FutureInvStopMoves
<1>10. CASE ExitStacksClosed(s)
  BY <1>9, <1>10 DEF ExitStacksClosed, futurevars
<1>11. CASE OnShutdownDone(s)
  BY <1>9, <1>11 DEF OnShutdownDone, futurevars
<1>12. ASSUME stoppc[s] # "idle", stoppc' = [stoppc EXCEPT ![s] = "raised"],
              UNCHANGED <<stopped, futures, running, awaited, interrupted>>
       PROVE  FutureInv'
  <2>1. "raised" \in StopPC \ {"idle"} /\ "raised" \in Closing /\ s \in stopped
    BY <1>1, <1>12 DEF StopPC, Closing
  <2> QED
    BY <1>12, <2>1, FutureInvStopMoves
<1>13. CASE StopRaises(s)
  BY <1>12, <1>13 DEF StopRaises, futurevars
<1>14. CASE StopCancelled(s)
  <2>1. CASE stoppc[s] = "stop_child"
    BY <1>14, <2>1, FutureInvStopChildren DEF StopCancelled, Closing
  <2>2. CASE stoppc[s] \in {"gather_start", "gather"}
    <3>1. /\ stoppc' = [stoppc EXCEPT ![s] = "exit_stacks"]
          /\ "exit_stacks" \in StopPC \ {"idle"} /\ "exit_stacks" \in Closing
          /\ UNCHANGED <<stopped, running, awaited>>
          /\ interrupted' = interrupted \cup {s}
          /\ futures' = futures \ Owned(s) /\ s \in stopped
      BY <1>1, <1>14, <2>2 DEF StopCancelled, StopPC, Closing
    <3> QED
      BY <3>1, FutureInvStopMoves
  <2>3. CASE stoppc[s] \in {"wait_shutdown", "drain"}
    BY <1>12, <1>14, <2>3 DEF StopCancelled
  <2> QED
    BY <1>14, <2>1, <2>2, <2>3 DEF StopCancelled
<1> QED
  BY <1>2, <1>3, <1>4, <1>5, <1>6, <1>7, <1>8, <1>10, <1>11, <1>13, <1>14
     DEF StopStep

LEMMA FutureInvFuture ==
    ASSUME Orderly, TypeOK, FutureInv, NEW f \in Future, FutureStep(f)
    PROVE  FutureInv'
<1>1. UNCHANGED <<stopped, stoppc, awaited, interrupted>>
  BY DEF FutureStep, AddFuture, FutureEnds, FutureRaises, flags, stopvars
<1>2. CASE AddFuture(f)
  <2>1. stoppc[Owner[f]] = "idle"
    BY <1>2, ConstantTypes DEF ConstantTypes, AddFuture, InOrder, ShouldStop,
       FutureInv, StopFlag
  <2>2. futures' = futures \cup {f} /\ running' = running \cup {f}
    BY <1>2 DEF AddFuture
  <2> QED
    BY <1>1, <2>1, <2>2 DEF FutureInv, StopFlag, Tracked, Gathering,
       JoinedBeforeShutdown, PastFutures, Owned
<1>3. CASE FutureEnds(f) \/ FutureRaises(f)
  <2>1. futures' = futures \ {f} /\ running' = running \ {f}
    BY <1>3 DEF FutureEnds, FutureRaises
  <2> QED
    BY <1>1, <2>1 DEF FutureInv, StopFlag, Tracked, Gathering,
       JoinedBeforeShutdown, PastFutures, Owned
<1> QED
  BY <1>2, <1>3 DEF FutureStep

LEMMA FutureInvCaller ==
    ASSUME TypeOK, FutureInv, NEW s \in Service, CallerStep(s)
    PROVE  FutureInv'
<1> USE DEF flags, stopvars, futurevars
<1>1. CASE StopCancelled(s)
  BY <1>1, FutureInvStop
<1>2. CASE StopCaller(s)
  BY <1>2, FutureInvBeginStop DEF StopCaller
<1>3. ASSUME NEW k \in Service, RemoveDependency(s, k)
      PROVE  FutureInv'
  <2>1. UNCHANGED <<futures, running, awaited, interrupted>>
    BY <1>3 DEF RemoveDependency
  <2>2. CASE BeginStop(k, User)
    BY <2>1, <2>2, FutureInvBeginStop
  <2>3. CASE UNCHANGED <<stopped, stoppc, stopper, removing>>
    BY <2>1, <2>3, FutureInvStutter DEF futureinvvars
  <2> QED
    BY <1>3, <2>2, <2>3 DEF RemoveDependency
<1>4. CASE \/ StartCaller(s) \/ CrashCaller(s) \/ SetShutdown(s)
           \/ AddContext(s) \/ AddAsyncContext(s)
           \/ \E k \in Service : \/ AddDependency(s, k) \/ AddRuntimeDependency(s, k)
                                 \/ DependencyRemoved(s, k)
  <2>1. UNCHANGED futureinvvars
    BY <1>4 DEF StartCaller, CrashCaller, SetShutdown, AddContext, AddAsyncContext,
       DependencyRemoved, AddDependency, AddRuntimeDependency, futureinvvars
  <2> QED
    BY <2>1, FutureInvStutter
<1> QED
  BY <1>1, <1>2, <1>3, <1>4 DEF CallerStep

LEMMA FutureInvStep ==
    ASSUME Orderly
    PROVE  TypeOK /\ FutureInv /\ [Next]_vars => FutureInv'
<1> SUFFICES ASSUME TypeOK, FutureInv, [Next]_vars PROVE FutureInv'
  OBVIOUS
<1>1. CASE UNCHANGED vars
  BY <1>1, FutureInvStutter DEF vars, flags, stopvars, futurevars, futureinvvars
<1>2. CASE Next
  BY <1>2, FutureInvStart, FutureInvStop, FutureInvFuture, FutureInvCaller DEF Next
<1> QED
  BY <1>1, <1>2

\* A stop() that no cancellation interrupted joins every task of the service
\* before it closes the exit stacks and calls on_shutdown, in every tree whose
\* callers add futures to running services only.
THEOREM FuturesJoined == Orderly => (Spec => []JoinedBeforeShutdown)
<1> SUFFICES ASSUME Orderly PROVE Spec => []JoinedBeforeShutdown
  OBVIOUS
<1>1. FutureInv => JoinedBeforeShutdown
  BY DEF FutureInv
<1> QED
  BY FutureInvInit, FutureInvStep, TypeCorrect, <1>1, PTL DEF Spec

-----------------------------------------------------------------------------
(* Children.                                                               *)

KidsDeclared == \A s \in Service : Kids(s) \subseteq Declared(s)

\* The children on_init_dependencies returns start after their parent.
OnInitUnstarted ==
    \A s \in Service \ started : Elems(OnInit[s]) \cap started = {}

StartFlag == \A s \in Service : startpc[s] # "idle" => s \in started

\* The child needs nothing more of its parent's child loop.
Handled(k) == k \in stopped \/ k \notin started

\* The child loop of stop() at position stopidx: the children after it are
\* handled and the one at it is being stopped.  Each remove_dependency may take a
\* child out of the list meanwhile, which moves others down by one.
StopLoop == \A s \in Service :
    stoppc[s] = "stop_child" /\ s \notin interrupted =>
        /\ stopidx[s] \in 1 .. Len(children[s]) + shortened[s]
        /\ stopkid[s] \in stoptask \cup stopped
        /\ \A j \in DOMAIN children[s] :
             \/ j < stopidx[s]
             \/ j = stopidx[s] /\ children[s][j] = stopkid[s]
             \/ Handled(children[s][j])

TreeInv == /\ KidsDeclared /\ OnInitUnstarted /\ StartFlag /\ StopFlag
           /\ StopLoop /\ NoOrphan

LEMMA ElemsConcat ==
    ASSUME NEW q \in Seq(Service), NEW r \in Seq(Service)
    PROVE  /\ q \o r \in Seq(Service)
           /\ Len(q \o r) = Len(q) + Len(r)
           /\ \A j \in DOMAIN q : j \in DOMAIN (q \o r) /\ (q \o r)[j] = q[j]
           /\ \A j \in DOMAIN (q \o r) : j \notin DOMAIN q => (q \o r)[j] \in Elems(r)
           /\ Elems(q \o r) \subseteq Elems(q) \cup Elems(r)
<1>1. /\ q \o r \in Seq(Service)
      /\ Len(q \o r) = Len(q) + Len(r)
      /\ \A j \in DOMAIN q : j \in DOMAIN (q \o r) /\ (q \o r)[j] = q[j]
  OBVIOUS
<1>2. ASSUME NEW j \in DOMAIN (q \o r), j \notin DOMAIN q
      PROVE  (q \o r)[j] \in Elems(r)
  <2>1. j - Len(q) \in DOMAIN r /\ (q \o r)[j] = r[j - Len(q)]
    BY <1>2
  <2> QED
    BY <2>1 DEF Elems
<1>3. Elems(q \o r) \subseteq Elems(q) \cup Elems(r)
  BY <1>1, <1>2 DEF Elems
<1> QED
  BY <1>1, <1>2, <1>3

LEMMA ElemsAppend ==
    ASSUME NEW q \in Seq(Service), NEW k \in Service
    PROVE  Elems(Append(q, k)) \subseteq Elems(q) \cup {k}
<1>1. /\ DOMAIN Append(q, k) = 1 .. Len(q) + 1
      /\ \A j \in 1 .. Len(q) + 1 : j \in DOMAIN q \/ j = Len(q) + 1
      /\ \A j \in DOMAIN q : Append(q, k)[j] = q[j]
      /\ Append(q, k)[Len(q) + 1] = k
  OBVIOUS
<1> QED
  BY <1>1 DEF Elems

LEMMA IntervalsEqual ==
    ASSUME NEW a \in Nat, NEW b \in Nat, 1 .. a = 1 .. b
    PROVE  a = b
<1>1. CASE a < b
  <2>1. b \in 1 .. b /\ b \notin 1 .. a
    BY <1>1
  <2> QED
    BY <2>1
<1>2. CASE b < a
  <2>1. a \in 1 .. a /\ a \notin 1 .. b
    BY <1>2
  <2> QED
    BY <2>1
<1> QED
  BY <1>1, <1>2

\* list.remove takes one element out; what comes after it moves down by one.
LEMMA WithoutShifts ==
    ASSUME NEW q \in Seq(Service), NEW k, \E i \in DOMAIN q : q[i] = k
    PROVE  /\ Without(q, k) \in Seq(Service)
           /\ Len(Without(q, k)) = Len(q) - 1
           /\ \A j \in DOMAIN Without(q, k) :
                /\ j \in DOMAIN q /\ j + 1 \in DOMAIN q
                /\ Without(q, k)[j] \in {q[j], q[j + 1]}
           /\ Elems(Without(q, k)) \subseteq Elems(q)
<1>1. Len(q) \in Nat \ {0} /\ DOMAIN q = 1 .. Len(q)
  OBVIOUS
<1>2. Without(q, k) \in Seq(Service)
  BY WithoutType
<1>3. DOMAIN Without(q, k) = 1 .. Len(q) - 1
  BY DEF Without
<1>4. Len(Without(q, k)) = Len(q) - 1
  <2>1. Len(Without(q, k)) \in Nat /\ 1 .. Len(Without(q, k)) = 1 .. Len(q) - 1
    BY <1>2, <1>3
  <2>2. Len(q) - 1 \in Nat
    BY <1>1
  <2> QED
    BY <2>1, <2>2, IntervalsEqual
<1>5. ASSUME NEW j \in 1 .. Len(q) - 1
      PROVE  /\ j \in DOMAIN q /\ j + 1 \in DOMAIN q
             /\ Without(q, k)[j] \in {q[j], q[j + 1]}
  BY <1>1 DEF Without
<1>6. Elems(Without(q, k)) \subseteq Elems(q)
  BY <1>3, <1>5 DEF Elems
<1> QED
  BY <1>2, <1>3, <1>4, <1>5, <1>6

LEMMA TreeInvInit == Init => TreeInv
<1> SUFFICES ASSUME Init PROVE TreeInv
  OBVIOUS
<1>1. KidsDeclared
  BY DEF Init, KidsDeclared, Kids, Declared
<1>2. OnInitUnstarted /\ StartFlag /\ StopFlag /\ StopLoop
  BY DEF Init, OnInitUnstarted, StartFlag, StopFlag, StopLoop
<1>3. NoOrphan
  BY DEF Init, NoOrphan, PastChildren
<1> QED
  BY <1>1, <1>2, <1>3 DEF TreeInv

treevars == <<children, stopped, stoppc, stopidx, stopkid, stoptask, interrupted,
              shortened>>

LEMMA TreeInvStutter ==
    ASSUME TypeOK, TreeInv, UNCHANGED <<started, treevars>>,
           \A s \in Service : startpc'[s] # "idle" => startpc[s] # "idle"
    PROVE  TreeInv'
BY DEF TreeInv, KidsDeclared, OnInitUnstarted, StartFlag, StopFlag,
       StopLoop, NoOrphan, Handled, Kids, PastChildren, treevars

\* A child may begin to start when no parent of it is stopping.
LEMMA TreeInvBeginStart ==
    ASSUME TypeOK, TreeInv, NEW k \in Service, NEW pc \in [Service -> StartPC],
           BeginStart(k, pc), k \notin started,
           \A s \in Service : k \in Kids(s) => s \notin stopped,
           \A s \in Service : k \in Elems(OnInit[s]) => s \in started,
           \A s \in Service : pc[s] # "idle" => s \in started,
           UNCHANGED <<stopped, stoppc, stopidx, stopkid, stoptask, interrupted,
                       shortened>>
    PROVE  TreeInv'
<1>1. /\ started' = started \cup {k}
      /\ children' = [children EXCEPT ![k] = children[k] \o OnInit[k]]
      /\ startpc' = [pc EXCEPT ![k] = "on_first_start"]
  BY DEF BeginStart
<1>2. /\ children[k] \in Seq(Service) /\ OnInit[k] \in Seq(Service)
      /\ children'[k] = children[k] \o OnInit[k]
      /\ \A s \in Service : s # k => children'[s] = children[s]
  BY <1>1, ConstantTypes DEF ConstantTypes, TypeOK
<1>3. \A x \in Elems(OnInit[k]) : x \notin started'
  BY <1>1 DEF TreeInv, OnInitUnstarted
<1>4. \A s \in Service : s # k => Kids(s)' = Kids(s)
  BY <1>2 DEF Kids
<1>5. Kids(k)' \subseteq Kids(k) \cup Elems(OnInit[k])
  BY <1>2, ElemsConcat DEF Kids
<1>6. KidsDeclared'
  BY <1>4, <1>5 DEF TreeInv, KidsDeclared, Declared
<1>7. OnInitUnstarted' /\ StopFlag'
  BY <1>1 DEF TreeInv, OnInitUnstarted, StopFlag
<1>8. StartFlag'
  BY <1>1 DEF TreeInv, StartFlag
<1> DEFINE Handled2(x) == x \in stopped \/ x \notin started'
<1>9. ASSUME NEW s \in Service, s \in stopped, NEW x \in Kids(s), Handled(x)
      PROVE  Handled2(x)
  BY <1>1, <1>9 DEF Handled
<1>10. ASSUME NEW s \in Service, stoppc[s] = "stop_child", s \notin interrupted
       PROVE  /\ stopidx[s] \in 1 .. Len(children'[s]) + shortened[s]
              /\ stopkid[s] \in stoptask \cup stopped
              /\ \A j \in DOMAIN children'[s] :
                   \/ j < stopidx[s]
                   \/ j = stopidx[s] /\ children'[s][j] = stopkid[s]
                   \/ Handled2(children'[s][j])
  <2> DEFINE q == children[s]
  <2>1. s \in stopped
    BY <1>10 DEF TreeInv, StopFlag
  <2>2. /\ stopidx[s] \in 1 .. Len(q) + shortened[s]
        /\ stopkid[s] \in stoptask \cup stopped
        /\ \A j \in DOMAIN q : \/ j < stopidx[s]
                               \/ j = stopidx[s] /\ q[j] = stopkid[s]
                               \/ Handled(q[j])
    BY <1>10 DEF TreeInv, StopLoop
  <2>3. \A j \in DOMAIN q : Handled(q[j]) => Handled2(q[j])
    BY <1>9, <2>1 DEF Kids, Elems
  <2>4. CASE s # k
    <3>1. children'[s] = q
      BY <1>2, <2>4
    <3> HIDE DEF q, Handled2
    <3> QED
      BY <2>2, <2>3, <3>1
  <2>5. CASE s = k
    <3> DEFINE r == OnInit[k]
    <3>0. q \in Seq(Service) /\ r \in Seq(Service) /\ children'[s] = q \o r
      BY <1>2, <2>5
    <3>1. \A x \in Elems(r) : Handled2(x)
      BY <1>3
    <3> HIDE DEF q, r, Handled2
    <3>2. /\ Len(q \o r) = Len(q) + Len(r)
          /\ \A j \in DOMAIN q : (q \o r)[j] = q[j]
          /\ \A j \in DOMAIN (q \o r) : j \notin DOMAIN q => (q \o r)[j] \in Elems(r)
      BY <3>0, ElemsConcat
    <3>3. Len(q) \in Nat /\ Len(r) \in Nat /\ stopidx[s] \in Nat /\ shortened[s] \in Nat
      BY <3>0 DEF TypeOK
    <3>4. ASSUME NEW j \in DOMAIN (q \o r)
          PROVE  \/ j < stopidx[s]
                 \/ j = stopidx[s] /\ (q \o r)[j] = stopkid[s]
                 \/ Handled2((q \o r)[j])
      <4>1. CASE j \in DOMAIN q
        BY <2>2, <2>3, <3>2, <4>1
      <4>2. CASE j \notin DOMAIN q
        BY <3>1, <3>2, <4>2
      <4> QED
        BY <4>1, <4>2
    <3>5. stopidx[s] \in 1 .. Len(q \o r) + shortened[s]
      BY <2>2, <3>2, <3>3
    <3> QED
      BY <2>2, <3>0, <3>4, <3>5
  <2> QED
    BY <2>4, <2>5
<1>11. StopLoop'
  BY <1>10 DEF StopLoop, Handled
<1>12. NoOrphan'
  <2> SUFFICES ASSUME NEW s \in Service, PastChildren(s), s \notin interrupted,
                      shortened[s] <= 1, NEW x \in Kids(s)', x \in started'
               PROVE  x \in stopped
    BY DEF NoOrphan, PastChildren
  <2>1. s \in stopped
    BY DEF TreeInv, StopFlag, PastChildren
  <2>2. x \in Kids(s)
    BY <1>3, <1>4, <1>5
  <2>3. x \in started
    BY <1>1, <2>1, <2>2
  <2> QED
    BY <2>2, <2>3 DEF TreeInv, NoOrphan
<1> QED
  BY <1>6, <1>7, <1>8, <1>11, <1>12 DEF TreeInv

LEMMA OneParentOf ==
    ASSUME NEW s \in Service, NEW t \in Service, NEW k,
           k \in Declared(s), k \in Declared(t)
    PROVE  s = t
BY OneParent DEF OneParent

LEMMA TreeInvStartChildren ==
    ASSUME TypeOK, TreeInv, NEW s \in Service, NEW i \in Nat \ {0},
           StartChildren(s, i), s \notin stopped, startpc[s] # "idle",
           UNCHANGED <<stopped, stoppc, stopidx, stopkid, stoptask, interrupted,
                       shortened>>
    PROVE  TreeInv'
<1> DEFINE todo == {j \in i .. Len(children[s]) : children[s][j] \notin started}
<1>1. CASE /\ startpc' = [startpc EXCEPT ![s] = "on_started"]
           /\ UNCHANGED <<started, children>>
  <2>1. \A t \in Service : startpc'[t] # "idle" => startpc[t] # "idle"
    BY <1>1 DEF TypeOK
  <2> QED
    BY <1>1, <2>1, TreeInvStutter DEF treevars
<1>2. ASSUME NEW j \in todo,
             BeginStart(children[s][j], [startpc EXCEPT ![s] = "child"])
      PROVE  TreeInv'
  <2> DEFINE k == children[s][j]
             pc == [startpc EXCEPT ![s] = "child"]
  <2>1. children[s] \in Seq(Service) /\ pc \in [Service -> StartPC]
    BY DEF TypeOK, StartPC
  <2>2. j \in DOMAIN children[s]
    BY <1>2, <2>1
  <2>3. k \in Service /\ k \in Kids(s) /\ k \notin started
    BY <1>2, <2>1, <2>2 DEF Kids, Elems
  <2>4. k \in Declared(s)
    BY <2>3 DEF TreeInv, KidsDeclared
  <2>5. s \in started
    BY DEF TreeInv, StartFlag
  <2>6. \A t \in Service : k \in Kids(t) => t \notin stopped
    BY <2>4, OneParentOf DEF TreeInv, KidsDeclared
  <2>7. \A t \in Service : k \in Elems(OnInit[t]) => t \in started
    BY <2>4, <2>5, OneParentOf DEF Declared
  <2>8. \A t \in Service : pc[t] # "idle" => t \in started
    BY <2>5 DEF TypeOK, TreeInv, StartFlag
  <2>9. BeginStart(k, pc)
    BY <1>2
  <2> HIDE DEF k, pc
  <2> QED
    BY <2>1, <2>3, <2>6, <2>7, <2>8, <2>9, TreeInvBeginStart
<1> QED
  BY <1>1, <1>2 DEF StartChildren

LEMMA TreeInvStart ==
    ASSUME TypeOK, TreeInv, NEW s \in Service, StartStep(s)
    PROVE  TreeInv'
<1>0. UNCHANGED <<stopped, stoppc, stopidx, stopkid, stoptask, interrupted, shortened>>
  BY DEF StartStep, FirstStartDone, StartDone, ChildStarted, StartedDone,
     StartRaises, StartUnwound, ContextEntered, stopvars, flags
<1>1. CASE StartDone(s) /\ ~ShouldStop(s)
  BY <1>0, <1>1, TreeInvStartChildren DEF StartDone, ShouldStop
<1>2. CASE ChildStarted(s) /\ ~ShouldStop(s)
  <2>1. startidx[s] + 1 \in Nat \ {0}
    BY DEF TypeOK
  <2> QED
    BY <1>0, <1>2, <2>1, TreeInvStartChildren DEF ChildStarted, ShouldStop
<1>3. CASE ~(StartDone(s) /\ ~ShouldStop(s)) /\ ~(ChildStarted(s) /\ ~ShouldStop(s))
  <2>1. UNCHANGED <<started, children>>
    BY <1>3 DEF StartStep, FirstStartDone, StartDone, ChildStarted, StartedDone,
       StartRaises, StartUnwound, ContextEntered, flags
  <2>2. startpc[s] # "idle" /\ \E pc : startpc' = [startpc EXCEPT ![s] = pc]
    BY <1>3 DEF StartStep, FirstStartDone, StartDone, ChildStarted, StartedDone,
       StartRaises, StartUnwound, ContextEntered
  <2>3. \A t \in Service : startpc'[t] # "idle" => startpc[t] # "idle"
    BY <2>2 DEF TypeOK
  <2> QED
    BY <1>0, <2>1, <2>3, TreeInvStutter DEF treevars
<1> QED
  BY <1>1, <1>2, <1>3

\* The body of a stop() begins.
LEMMA TreeInvBeginStop ==
    ASSUME TypeOK, TreeInv, NEW k \in Service, NEW by, BeginStop(k, by),
           UNCHANGED <<started, children, startpc, stopidx, stopkid, interrupted,
                       shortened>>,
           stoptask \subseteq stoptask' \cup {k}
    PROVE  TreeInv'
<1>1. /\ stopped' = stopped \cup {k} /\ k \notin stopped
      /\ \A s \in Service : stoppc'[s] = IF s = k THEN "on_stop" ELSE stoppc[s]
  BY DEF BeginStop, TypeOK
<1>2. KidsDeclared' /\ OnInitUnstarted' /\ StartFlag'
  BY DEF TreeInv, KidsDeclared, OnInitUnstarted, StartFlag, Kids
<1>3. StopFlag'
  BY <1>1 DEF TreeInv, StopFlag
<1>5. StopLoop'
  <2> SUFFICES ASSUME NEW s \in Service, stoppc'[s] = "stop_child", s \notin interrupted
               PROVE  /\ stopidx[s] \in 1 .. Len(children[s]) + shortened[s]
                      /\ stopkid[s] \in stoptask' \cup stopped'
                      /\ \A j \in DOMAIN children[s] :
                           \/ j < stopidx[s]
                           \/ j = stopidx[s] /\ children[s][j] = stopkid[s]
                           \/ children[s][j] \in stopped'
                           \/ children[s][j] \notin started
    BY DEF StopLoop, Handled
  <2>1. stoppc[s] = "stop_child" /\ s \in stopped
    BY <1>1 DEF TreeInv, StopFlag
  <2> QED
    BY <1>1, <2>1 DEF TreeInv, StopLoop, Handled
<1>6. NoOrphan'
  BY <1>1 DEF TreeInv, NoOrphan, PastChildren, Kids
<1> QED
  BY <1>2, <1>3, <1>5, <1>6 DEF TreeInv

\* stop() moves on outside the child loop.
LEMMA TreeInvStopMoves ==
    ASSUME TypeOK, TreeInv, NEW s \in Service, NEW pc \in StopPC, s \in stopped,
           stoppc' = [stoppc EXCEPT ![s] = pc], pc # "stop_child",
           UNCHANGED <<started, stopped, children, startpc, stopidx, shortened>>,
           \A t \in Service : t # s => stopkid'[t] = stopkid[t],
           stoptask \subseteq stoptask', interrupted \subseteq interrupted',
           \/ PastChildren(s)
           \/ s \in interrupted'
           \/ pc = "raised"
           \/ shortened[s] > 1
           \/ \A k \in Kids(s) : Handled(k)
    PROVE  TreeInv'
<1>1. \A t \in Service : stoppc'[t] = IF t = s THEN pc ELSE stoppc[t]
  BY DEF TypeOK
<1>2. KidsDeclared' /\ OnInitUnstarted' /\ StartFlag'
  BY DEF TreeInv, KidsDeclared, OnInitUnstarted, StartFlag, Kids
<1>3. StopFlag'
  BY <1>1 DEF TreeInv, StopFlag
<1>4. StopLoop'
  BY <1>1 DEF TreeInv, StopLoop, Handled
<1>5. NoOrphan'
  <2> SUFFICES ASSUME NEW t \in Service, PastChildren(t)', t \notin interrupted',
                      shortened[t] <= 1
               PROVE  Kids(t) \cap started \subseteq stopped
    BY DEF NoOrphan, PastChildren, Kids
  <2>1. CASE t # s \/ PastChildren(s)
    BY <1>1, <2>1 DEF TreeInv, NoOrphan, PastChildren
  <2>2. CASE t = s /\ ~PastChildren(s)
    <3>1. pc # "raised" /\ ~(shortened[s] > 1)
      BY <1>1, <2>2 DEF PastChildren, TypeOK
    <3> QED
      BY <2>2, <3>1 DEF Handled
  <2> QED
    BY <2>1, <2>2
<1> QED
  BY <1>2, <1>3, <1>4, <1>5 DEF TreeInv

\* The child loop of stop() goes on at position i.
LEMMA TreeInvStopChildren ==
    ASSUME TypeOK, TreeInv, NEW s \in Service, NEW i \in Int, s \in stopped,
           StopChildren(s, i), interrupted \subseteq interrupted',
           UNCHANGED <<started, stopped, children, startpc, shortened>>,
           s \notin interrupted' =>
             /\ i >= 0 /\ (shortened[s] <= 1 => i <= Len(children[s]))
             /\ \A j \in DOMAIN children[s] : j > i => Handled(children[s][j])
    PROVE  TreeInv'
<1>0. /\ children[s] \in Seq(Service) /\ Len(children[s]) \in Nat
      /\ shortened[s] \in Nat
  BY DEF TypeOK
<1>1. CASE i \in 1 .. Len(children[s])
  <2>1. /\ stoppc' = [stoppc EXCEPT ![s] = "stop_child"]
        /\ stopidx' = [stopidx EXCEPT ![s] = i]
        /\ stopkid' = [stopkid EXCEPT ![s] = children[s][i]]
        /\ stoptask' = stoptask \cup {children[s][i]}
    BY <1>1 DEF StopChildren
  <2>2. \A t \in Service :
           /\ stoppc'[t] = IF t = s THEN "stop_child" ELSE stoppc[t]
           /\ stopidx'[t] = IF t = s THEN i ELSE stopidx[t]
           /\ stopkid'[t] = IF t = s THEN children[s][i] ELSE stopkid[t]
    BY <2>1 DEF TypeOK
  <2>3. KidsDeclared' /\ OnInitUnstarted' /\ StartFlag'
    BY DEF TreeInv, KidsDeclared, OnInitUnstarted, StartFlag, Kids
  <2>4. StopFlag'
    BY <2>2 DEF TreeInv, StopFlag
  <2>5. StopLoop'
    <3> SUFFICES ASSUME NEW t \in Service, stoppc'[t] = "stop_child",
                        t \notin interrupted'
                 PROVE  /\ stopidx'[t] \in 1 .. Len(children[t]) + shortened[t]
                        /\ stopkid'[t] \in stoptask' \cup stopped
                        /\ \A j \in DOMAIN children[t] :
                             \/ j < stopidx'[t]
                             \/ j = stopidx'[t] /\ children[t][j] = stopkid'[t]
                             \/ Handled(children[t][j])
      BY DEF StopLoop, Handled
    <3>1. CASE t # s
      BY <2>1, <2>2, <3>1 DEF TreeInv, StopLoop
    <3>2. CASE t = s
      <4>1. /\ stopidx'[t] = i /\ stopkid'[t] = children[s][i]
            /\ children[s][i] \in stoptask'
        BY <2>1, <2>2, <3>2
      <4>2. ASSUME NEW j \in DOMAIN children[s]
            PROVE  j < i \/ j = i \/ Handled(children[s][j])
        <5>1. j \in Nat
          BY <1>0
        <5> QED
          BY <3>2, <5>1
      <4> QED
        BY <1>0, <1>1, <3>2, <4>1, <4>2
    <3> QED
      BY <3>1, <3>2
  <2>6. NoOrphan'
    BY <2>2 DEF TreeInv, NoOrphan, PastChildren, Kids
  <2> QED
    BY <2>3, <2>4, <2>5, <2>6 DEF TreeInv
<1>2. CASE i \notin 1 .. Len(children[s])
  <2>1. s \notin interrupted' => i = 0 \/ shortened[s] > 1
    BY <1>0, <1>2
  <2>2. s \in interrupted' \/ shortened[s] > 1 \/ \A k \in Kids(s) : Handled(k)
    BY <1>0, <2>1 DEF Kids, Elems
  <2>3. /\ stopkid' = [stopkid EXCEPT ![s] = None]
        /\ UNCHANGED <<stopidx, stoptask>>
        /\ \E pc \in {"wait_shutdown", "exit_stacks", "drain"} :
             stoppc' = [stoppc EXCEPT ![s] = pc]
    BY <1>2 DEF StopChildren, StopFutures
  <2>4. \A pc \in {"wait_shutdown", "exit_stacks", "drain"} :
           pc \in StopPC /\ pc # "stop_child"
    BY DEF StopPC
  <2>5. \A t \in Service : t # s => stopkid'[t] = stopkid[t]
    BY <2>3 DEF TypeOK
  <2> QED
    BY <2>2, <2>3, <2>4, <2>5, TreeInvStopMoves
<1> QED
  BY <1>1, <1>2

LEMMA TreeInvStop ==
    ASSUME TypeOK, TreeInv, NEW s \in Service, StopStep(s) \/ StopCancelled(s)
    PROVE  TreeInv'
<1>0. /\ children[s] \in Seq(Service) /\ Len(children[s]) \in Nat
      /\ DOMAIN children[s] = 1 .. Len(children[s]) /\ stopidx[s] \in Nat
      /\ shortened[s] \in Nat
  BY DEF TypeOK
<1>1. stoppc[s] # "idle" => s \in stopped
  BY DEF TreeInv, StopFlag
<1>2. CASE OnStopDone(s)
  <2>1. /\ StopChildren(s, Len(children[s])) /\ s \in stopped
        /\ UNCHANGED <<started, stopped, children, startpc, shortened, interrupted>>
    BY <1>1, <1>2 DEF OnStopDone, flags, startvars
  <2>2. \A j \in DOMAIN children[s] : ~(j > Len(children[s]))
    BY <1>0
  <2>3. Len(children[s]) \in Int /\ Len(children[s]) >= 0 /\ Len(children[s]) <= Len(children[s])
    BY <1>0
  <2> QED
    BY <2>1, <2>2, <2>3, TreeInvStopChildren
<1>3. CASE RunStopTask(s)
  <2>1. /\ UNCHANGED <<started, children, startpc, stopidx, stopkid, interrupted,
                       shortened>>
        /\ stoptask' = stoptask \ {s}
    BY <1>3 DEF RunStopTask, startvars
  <2>2. CASE \E t \in Service : BeginStop(s, t)
    BY <2>1, <2>2, TreeInvBeginStop
  <2>3. CASE s \in stopped /\ UNCHANGED <<stopped, stoppc, stopper>>
    BY <2>1, <2>3 DEF TreeInv, KidsDeclared, OnInitUnstarted, StartFlag, StopFlag, StopLoop, NoOrphan, Handled, Kids, PastChildren
  <2> QED
    BY <1>3, <2>2, <2>3 DEF RunStopTask
<1>4. CASE ChildStopped(s)
  <2>1. /\ StopChildren(s, stopidx[s] - 1) /\ s \in stopped
        /\ UNCHANGED <<started, stopped, children, startpc, shortened, interrupted>>
    BY <1>1, <1>4 DEF ChildStopped, flags, startvars
  <2>2. ASSUME s \notin interrupted
        PROVE  /\ stopidx[s] - 1 >= 0
               /\ shortened[s] <= 1 => stopidx[s] - 1 <= Len(children[s])
               /\ \A j \in DOMAIN children[s] :
                    j > stopidx[s] - 1 => Handled(children[s][j])
    <3>1. /\ stopidx[s] \in 1 .. Len(children[s]) + shortened[s]
          /\ stopkid[s] \in stopped
          /\ \A j \in DOMAIN children[s] :
               \/ j < stopidx[s]
               \/ j = stopidx[s] /\ children[s][j] = stopkid[s]
               \/ Handled(children[s][j])
      BY <1>4, <2>2 DEF ChildStopped, TreeInv, StopLoop
    <3>2. \A j \in DOMAIN children[s] : j < stopidx[s] \/ Handled(children[s][j])
      BY <3>1 DEF Handled
    <3>3. \A j \in DOMAIN children[s] : j > stopidx[s] - 1 => ~(j < stopidx[s])
      BY <1>0
    <3> QED
      BY <1>0, <3>1, <3>2, <3>3
  <2>3. stopidx[s] - 1 \in Int
    BY <1>0
  <2> QED
    BY <2>1, <2>2, <2>3, TreeInvStopChildren
<1>5. ASSUME NEW pc \in StopPC, pc # "stop_child", stoppc[s] # "idle",
             pc = "raised" \/ PastChildren(s),
             stoppc' = [stoppc EXCEPT ![s] = pc],
             UNCHANGED <<started, stopped, children, startpc, stopidx, stopkid,
                         stoptask, shortened>>,
             interrupted \subseteq interrupted'
      PROVE  TreeInv'
  BY <1>1, <1>5, TreeInvStopMoves
<1> USE DEF flags, startvars
<1>6. CASE ShutdownReceived(s)
  <2>1. \E pc \in {"exit_stacks", "drain"} : stoppc' = [stoppc EXCEPT ![s] = pc]
    BY <1>6 DEF ShutdownReceived, StopFutures
  <2>2. stoppc[s] # "idle" /\ PastChildren(s)
    BY <1>6 DEF ShutdownReceived, PastChildren
  <2> QED
    BY <1>5, <1>6, <2>1, <2>2 DEF ShutdownReceived, StopPC
<1>7. CASE CancelFutures(s)
  <2>1. \E pc \in {"exit_stacks", "gather_start"} : stoppc' = [stoppc EXCEPT ![s] = pc]
    BY <1>7 DEF CancelFutures
  <2>2. stoppc[s] # "idle" /\ PastChildren(s)
    BY <1>7 DEF CancelFutures, PastChildren
  <2> QED
    BY <1>5, <1>7, <2>1, <2>2 DEF CancelFutures, StopPC
<1>8. CASE GatherFutures(s)
  BY <1>5, <1>8 DEF GatherFutures, StopPC, PastChildren
<1>9. CASE FuturesGathered(s)
  BY <1>5, <1>9 DEF FuturesGathered, StopPC, PastChildren
<1>10. CASE ExitStacksClosed(s)
  BY <1>5, <1>10 DEF ExitStacksClosed, StopPC, PastChildren
<1>11. CASE OnShutdownDone(s)
  BY <1>5, <1>11 DEF OnShutdownDone, StopPC, PastChildren
<1>12. CASE StopRaises(s)
  BY <1>5, <1>12 DEF StopRaises, StopPC
<1>13. CASE StopCancelled(s)
  <2>1. CASE stoppc[s] = "stop_child"
    <3>1. /\ StopChildren(s, stopidx[s] - 1) /\ s \in stopped /\ s \in interrupted'
          /\ UNCHANGED <<started, stopped, children, startpc, shortened>>
          /\ interrupted \subseteq interrupted'
      BY <1>1, <1>13, <2>1 DEF StopCancelled
    <3>2. stopidx[s] - 1 \in Int
      BY <1>0
    <3> QED
      BY <3>1, <3>2, TreeInvStopChildren
  <2>2. CASE stoppc[s] \in {"gather_start", "gather"}
    BY <1>5, <1>13, <2>2 DEF StopCancelled, StopPC, PastChildren
  <2>3. CASE stoppc[s] \in {"wait_shutdown", "drain"}
    BY <1>5, <1>13, <2>3 DEF StopCancelled, StopPC
  <2> QED
    BY <1>13, <2>1, <2>2, <2>3 DEF StopCancelled
<1> QED
  BY <1>2, <1>3, <1>4, <1>6, <1>7, <1>8, <1>9, <1>10, <1>11, <1>12, <1>13
     DEF StopStep

\* A child that is taken out of the list of a service; the others keep what they
\* need, a position lower.
LEMMA TreeInvRemove ==
    ASSUME TypeOK, TreeInv, NEW s \in Service, NEW k, k \in Kids(s),
           TakeOut(s, k),
           UNCHANGED <<started, stopped, startpc, stoppc, stopidx, stopkid, stoptask,
                       interrupted>>
    PROVE  TreeInv'
<1> DEFINE q == children[s]
           r == Without(q, k)
<1>1. q \in Seq(Service) /\ \E i \in DOMAIN q : q[i] = k
  BY DEF TypeOK, Kids, Elems
<1>2. /\ r \in Seq(Service) /\ Len(r) = Len(q) - 1
      /\ \A j \in DOMAIN r : /\ j \in DOMAIN q /\ j + 1 \in DOMAIN q
                             /\ r[j] \in {q[j], q[j + 1]}
      /\ Elems(r) \subseteq Elems(q)
  BY <1>1, WithoutShifts
<1>3. \A t \in Service : children'[t] = IF t = s THEN r ELSE children[t]
  BY DEF TypeOK, TakeOut
<1>10. \A t \in Service :
         shortened'[t] = IF t = s /\ stoppc[t] = "stop_child" THEN shortened[t] + 1
                                                           ELSE shortened[t]
  BY DEF TypeOK, TakeOut
<1>4. \A t \in Service : Kids(t)' \subseteq Kids(t)
  <2>1. Kids(s)' \subseteq Kids(s)
    BY <1>2, <1>3 DEF Kids
  <2>2. \A t \in Service : t # s => Kids(t)' = Kids(t)
    BY <1>3 DEF Kids
  <2> QED
    BY <2>1, <2>2
<1>5. KidsDeclared'
  BY <1>4 DEF TreeInv, KidsDeclared, Declared
<1>6. OnInitUnstarted' /\ StartFlag' /\ StopFlag'
  BY DEF TreeInv, OnInitUnstarted, StartFlag, StopFlag
<1>8. StopLoop'
  <2> SUFFICES ASSUME NEW t \in Service, stoppc[t] = "stop_child", t \notin interrupted
               PROVE  /\ stopidx[t] \in 1 .. Len(children'[t]) + shortened'[t]
                      /\ stopkid[t] \in stoptask \cup stopped
                      /\ \A j \in DOMAIN children'[t] :
                           \/ j < stopidx[t]
                           \/ j = stopidx[t] /\ children'[t][j] = stopkid[t]
                           \/ children'[t][j] \in stopped
                           \/ children'[t][j] \notin started
    BY DEF StopLoop, Handled
  <2>1. /\ stopidx[t] \in 1 .. Len(children[t]) + shortened[t]
        /\ stopkid[t] \in stoptask \cup stopped
        /\ \A j \in DOMAIN children[t] :
             \/ j < stopidx[t]
             \/ j = stopidx[t] /\ children[t][j] = stopkid[t]
             \/ Handled(children[t][j])
    BY DEF TreeInv, StopLoop
  <2>4. CASE t # s
    BY <1>3, <1>10, <2>1, <2>4 DEF Handled
  <2>5. CASE t = s
    <3>2. Len(q) \in Nat /\ stopidx[s] \in Nat /\ shortened[s] \in Nat
      BY <1>1 DEF TypeOK
    <3>3. stopidx[s] \in 1 .. Len(r) + shortened'[s]
      <4>1. shortened'[s] = shortened[s] + 1 /\ Len(r) = Len(q) - 1
        BY <1>2, <1>10, <2>5
      <4>2. stopidx[s] \in 1 .. Len(q) + shortened[s]
        BY <2>1, <2>5
      <4> HIDE DEF q, r
      <4> QED
        BY <3>2, <4>1, <4>2
    <3>4. ASSUME NEW j \in DOMAIN r
          PROVE  \/ j < stopidx[s]
                 \/ j = stopidx[s] /\ r[j] = stopkid[s]
                 \/ Handled(r[j])
      <4>1. j \in DOMAIN q /\ j + 1 \in DOMAIN q /\ r[j] \in {q[j], q[j + 1]} /\ j \in Nat
        BY <1>1, <1>2
      <4>2. /\ \/ j < stopidx[s]
               \/ j = stopidx[s] /\ q[j] = stopkid[s]
               \/ Handled(q[j])
            /\ \/ j + 1 < stopidx[s]
               \/ j + 1 = stopidx[s] /\ q[j + 1] = stopkid[s]
               \/ Handled(q[j + 1])
        BY <2>1, <2>5, <4>1
      <4> HIDE DEF q, r
      <4>3. CASE j < stopidx[s]
        BY <4>3
      <4>4. CASE ~(j < stopidx[s])
        <5>1. ~(j + 1 < stopidx[s]) /\ j + 1 # stopidx[s]
          BY <3>2, <4>1, <4>4
        <5> QED
          BY <4>1, <4>2, <4>4, <5>1
      <4> QED
        BY <4>3, <4>4
    <3> QED
      BY <1>3, <2>1, <2>5, <3>3, <3>4 DEF Handled
  <2> QED
    BY <2>4, <2>5
<1>9. NoOrphan'
  BY <1>4, <1>10 DEF TreeInv, NoOrphan, PastChildren
<1> QED
  BY <1>5, <1>6, <1>8, <1>9 DEF TreeInv

\* A child that is added to a service that is not stopping.
LEMMA TreeInvAppend ==
    ASSUME TypeOK, TreeInv, NEW s \in Service, NEW k \in Dynamic[s], s \notin stopped,
           children' = [children EXCEPT ![s] = Append(children[s], k)],
           UNCHANGED <<started, stopped, startpc, stoppc, stopidx, stopkid, stoptask,
                       interrupted, shortened>>
    PROVE  TreeInv'
<1>1. stoppc[s] = "idle"
  BY DEF TreeInv, StopFlag
<1>2. children[s] \in Seq(Service) /\ k \in Service
  BY ConstantTypes DEF ConstantTypes, TypeOK
<1>3. \A t \in Service : t # s => children'[t] = children[t]
  BY DEF TypeOK
<1>4. Kids(s)' \subseteq Kids(s) \cup {k}
  <2>1. children'[s] = Append(children[s], k)
    BY DEF TypeOK
  <2> QED
    BY <1>2, <2>1, ElemsAppend DEF Kids
<1>5. \A t \in Service : t # s => Kids(t)' = Kids(t)
  BY <1>3 DEF Kids
<1>6. KidsDeclared'
  BY <1>4, <1>5 DEF TreeInv, KidsDeclared, Declared
<1>7. OnInitUnstarted' /\ StartFlag' /\ StopFlag'
  BY DEF TreeInv, OnInitUnstarted, StartFlag, StopFlag
<1>8. StopLoop'
  BY <1>1, <1>3 DEF TreeInv, StopLoop, Handled
<1>9. NoOrphan'
  BY <1>1, <1>5 DEF TreeInv, NoOrphan, PastChildren
<1> QED
  BY <1>6, <1>7, <1>8, <1>9 DEF TreeInv

\* A child that is added to a service that is started and not stopping, and
\* begins to start.
LEMMA TreeInvAppendStart ==
    ASSUME TypeOK, TreeInv, NEW s \in Service, NEW k \in Dynamic[s], New(k),
           s \in started, s \notin stopped,
           started' = started \cup {k},
           children' = [[children EXCEPT ![s] = Append(children[s], k)]
                                  EXCEPT ![k] = @ \o OnInit[k]],
           startpc' = [startpc EXCEPT ![k] = "on_first_start"],
           UNCHANGED <<stopped, stoppc, stopidx, stopkid, stoptask, interrupted,
                       shortened>>
    PROVE  TreeInv'
<1>0. s # k /\ k \in Service /\ k \notin stopped /\ \A t \in Service : k \notin Kids(t)
  BY ConstantTypes DEF ConstantTypes, New
<1>1. stoppc[s] = "idle" /\ stoppc[k] = "idle"
  BY <1>0 DEF TreeInv, StopFlag
<1>2. /\ children[s] \in Seq(Service) /\ children[k] \in Seq(Service)
      /\ OnInit[k] \in Seq(Service)
  BY <1>0, ConstantTypes DEF ConstantTypes, TypeOK
<1>3. /\ children'[s] = Append(children[s], k)
      /\ children'[k] = children[k] \o OnInit[k]
      /\ \A t \in Service : t # s /\ t # k => children'[t] = children[t]
  BY <1>0 DEF TypeOK
<1>4. Kids(s)' \subseteq Kids(s) \cup {k}
  BY <1>0, <1>2, <1>3, ElemsAppend DEF Kids
<1>5. Kids(k)' \subseteq Kids(k) \cup Elems(OnInit[k])
  BY <1>2, <1>3, ElemsConcat DEF Kids
<1>6. \A t \in Service : t # s /\ t # k => Kids(t)' = Kids(t)
  BY <1>3 DEF Kids
<1>7. KidsDeclared'
  BY <1>4, <1>5, <1>6 DEF TreeInv, KidsDeclared, Declared
<1>8. OnInitUnstarted'
  <2> SUFFICES ASSUME NEW t \in Service, t \notin started', k \in Elems(OnInit[t])
               PROVE  FALSE
    BY DEF TreeInv, OnInitUnstarted
  <2>1. t = s
    BY <1>0, OneParentOf DEF Declared
  <2> QED
    BY <2>1
<1>9. StartFlag' /\ StopFlag'
  BY <1>0 DEF TypeOK, TreeInv, StartFlag, StopFlag
<1>10. StopLoop'
  <2> SUFFICES ASSUME NEW t \in Service, stoppc[t] = "stop_child", t \notin interrupted
               PROVE  /\ stopidx[t] \in 1 .. Len(children'[t]) + shortened[t]
                      /\ stopkid[t] \in stoptask \cup stopped
                      /\ \A j \in DOMAIN children'[t] :
                           \/ j < stopidx[t]
                           \/ j = stopidx[t] /\ children'[t][j] = stopkid[t]
                           \/ children'[t][j] \in stopped
                           \/ children'[t][j] \notin started'
    BY DEF StopLoop, Handled
  <2>1. children'[t] = children[t]
    BY <1>1, <1>3
  <2>2. \A j \in DOMAIN children[t] : children[t][j] # k
    BY <1>0 DEF Kids, Elems
  <2>3. /\ stopidx[t] \in 1 .. Len(children[t]) + shortened[t]
        /\ stopkid[t] \in stoptask \cup stopped
    BY DEF TreeInv, StopLoop
  <2>4. \A j \in DOMAIN children[t] :
           \/ j < stopidx[t]
           \/ j = stopidx[t] /\ children[t][j] = stopkid[t]
           \/ Handled(children[t][j])
    BY DEF TreeInv, StopLoop
  <2>5. \A j \in DOMAIN children[t] :
           Handled(children[t][j]) => \/ children[t][j] \in stopped
                                     \/ children[t][j] \notin started'
    BY <2>2 DEF Handled
  <2> QED
    BY <2>1, <2>3, <2>4, <2>5
<1>11. NoOrphan'
  <2> SUFFICES ASSUME NEW t \in Service, PastChildren(t), t \notin interrupted,
                      shortened[t] <= 1, NEW x \in Kids(t)', x \in started'
               PROVE  x \in stopped
    BY DEF NoOrphan, PastChildren
  <2>1. t # s /\ t # k
    BY <1>1 DEF PastChildren
  <2>2. x \in Kids(t) /\ x # k
    BY <1>0, <1>6, <2>1
  <2> QED
    BY <2>2 DEF TreeInv, NoOrphan
<1> QED
  BY <1>7, <1>8, <1>9, <1>10, <1>11 DEF TreeInv

LEMMA TreeInvCaller ==
    ASSUME Orderly, TypeOK, TreeInv, NEW s \in Service, CallerStep(s)
    PROVE  TreeInv'
<1> USE DEF flags, stopvars, futurevars, startvars
<1>1. CASE StartCaller(s)
  <2>1. /\ BeginStart(s, startpc) /\ s \notin started
        /\ startpc \in [Service -> StartPC]
        /\ \A t \in Service : s \notin Declared(t)
        /\ UNCHANGED <<stopped, stoppc, stopidx, stopkid, stoptask, interrupted,
                       shortened>>
    BY <1>1 DEF StartCaller, TypeOK
  <2>2. \A t \in Service : s \notin Kids(t) /\ s \notin Elems(OnInit[t])
    BY <2>1 DEF TreeInv, KidsDeclared, Declared
  <2>3. \A t \in Service : startpc[t] # "idle" => t \in started
    BY DEF TreeInv, StartFlag
  <2> QED
    BY <2>1, <2>2, <2>3, TreeInvBeginStart
<1>2. CASE StopCaller(s)
  BY <1>2, TreeInvBeginStop DEF StopCaller
<1>3. CASE StopCancelled(s)
  BY <1>3, TreeInvStop
<1>4. CASE CrashCaller(s) \/ SetShutdown(s) \/ AddContext(s) \/ AddAsyncContext(s)
  <2>1. UNCHANGED <<started, treevars>>
    BY <1>4 DEF CrashCaller, SetShutdown, AddContext, AddAsyncContext, treevars
  <2>2. \A t \in Service : startpc'[t] # "idle" => startpc[t] # "idle"
    BY <1>4 DEF TypeOK, CrashCaller, SetShutdown, AddContext, AddAsyncContext
  <2> QED
    BY <2>1, <2>2, TreeInvStutter
<1>9. ASSUME NEW k \in Service, TakeOut(s, k),
             UNCHANGED <<started, stopped, startpc, stoppc, stopidx, stopkid, stoptask,
                         interrupted>>
      PROVE  TreeInv'
  <2>1. CASE k \in Kids(s)
    BY <1>9, <2>1, TreeInvRemove
  <2>2. CASE k \notin Kids(s)
    <3>1. UNCHANGED <<children, shortened>>
      BY <1>9, <2>2 DEF TakeOut, TypeOK
    <3> QED
      BY <1>9, <3>1, TreeInvStutter DEF treevars
  <2> QED
    BY <2>1, <2>2
<1>5. ASSUME NEW k \in Service, DependencyRemoved(s, k)
      PROVE  TreeInv'
  <2>1. UNCHANGED <<started, stopped, startpc, stoppc, stopidx, stopkid, stoptask,
                    interrupted>>
    BY <1>5 DEF DependencyRemoved
  <2>2. CASE UNCHANGED <<children, shortened>>
    BY <2>1, <2>2, TreeInvStutter DEF treevars
  <2>3. CASE TakeOut(s, k)
    BY <1>9, <2>1, <2>3
  <2> QED
    BY <1>5, <2>2, <2>3 DEF DependencyRemoved
<1>6. ASSUME NEW k \in Service, AddDependency(s, k)
      PROVE  TreeInv'
  <2>1. s \notin stopped
    BY <1>6 DEF AddDependency, InOrder, ShouldStop
  <2> QED
    BY <1>6, <2>1, TreeInvAppend DEF AddDependency
<1>7. ASSUME NEW k \in Service, AddRuntimeDependency(s, k)
      PROVE  TreeInv'
  <2>1. s \notin stopped /\ k \in Dynamic[s] /\ New(k)
    BY <1>7 DEF AddRuntimeDependency, InOrder, ShouldStop
  <2>2. UNCHANGED <<stopped, stoppc, stopidx, stopkid, stoptask, interrupted, shortened>>
    BY <1>7 DEF AddRuntimeDependency
  <2>3. CASE s \in started
    BY <1>7, <2>1, <2>2, <2>3, TreeInvAppendStart DEF AddRuntimeDependency
  <2>4. CASE s \notin started
    BY <1>7, <2>1, <2>2, <2>4, TreeInvAppend DEF AddRuntimeDependency
  <2> QED
    BY <2>3, <2>4
<1>8. ASSUME NEW k \in Service, RemoveDependency(s, k)
      PROVE  TreeInv'
  <2>1. /\ s \notin stopped /\ k \in Dynamic[s] /\ k \in Kids(s)
        /\ UNCHANGED <<started, startpc, stopidx, stopkid, stoptask, interrupted>>
    BY <1>8 DEF RemoveDependency, ShouldStop
  <2>2. CASE BeginStop(k, User) /\ UNCHANGED <<children, shortened>>
    BY <2>1, <2>2, TreeInvBeginStop
  <2>3. CASE TakeOut(s, k) /\ UNCHANGED <<stopped, stoppc, stopper, removing>>
    BY <1>9, <2>1, <2>3
  <2> QED
    BY <1>8, <2>2, <2>3 DEF RemoveDependency
<1> QED
  BY <1>1, <1>2, <1>3, <1>4, <1>5, <1>6, <1>7, <1>8 DEF CallerStep

LEMMA TreeInvStep ==
    ASSUME Orderly
    PROVE  TypeOK /\ TreeInv /\ [Next]_vars => TreeInv'
<1> SUFFICES ASSUME TypeOK, TreeInv, [Next]_vars PROVE TreeInv'
  OBVIOUS
<1>1. CASE UNCHANGED vars
  BY <1>1, TreeInvStutter DEF vars, flags, startvars, stopvars, treevars
<1>2. ASSUME NEW f \in Future, FutureStep(f)
      PROVE  TreeInv'
  <2>1. UNCHANGED <<started, startpc, treevars>>
    BY <1>2 DEF FutureStep, AddFuture, FutureEnds, FutureRaises, flags, startvars,
       stopvars, treevars
  <2> QED
    BY <2>1, TreeInvStutter
<1>3. CASE Next
  BY <1>2, <1>3, TreeInvStart, TreeInvStop, TreeInvCaller DEF Next
<1> QED
  BY <1>1, <1>3

LEMMA TreeInvariant == Orderly => (Spec => []TreeInv)
<1> SUFFICES ASSUME Orderly PROVE Spec => []TreeInv
  OBVIOUS
<1> QED
  BY TreeInvInit, TreeInvStep, TypeCorrect, PTL DEF Spec

\* When stop() is past its child loop, and no cancellation cut the loop short, no
\* started child was left out, in every tree, although start() may be going
\* through the same list and any number of remove_dependency() calls are on their
\* way, provided that at most one of them took its child out during the loop.
THEOREM NoChildLeftRunning == Orderly => (Spec => []NoOrphan)
<1> SUFFICES ASSUME Orderly PROVE Spec => []NoOrphan
  OBVIOUS
<1>1. TreeInv => NoOrphan
  BY DEF TreeInv
<1> QED
  BY TreeInvariant, <1>1, PTL

-----------------------------------------------------------------------------
(* Children do not start under a parent that is told to stop.              *)

StartsLate == \E s \in Service : /\ ShouldStop(s)
                                 /\ ~(Kids(s) \cap started' \subseteq started)

LEMMA StartChildrenInTime ==
    ASSUME TypeOK, TreeInv, NEW s \in Service, NEW i \in Nat \ {0},
           StartChildren(s, i), ~ShouldStop(s)
    PROVE  ~StartsLate
<1>1. CASE started' = started
  BY <1>1 DEF StartsLate
<1>2. ASSUME NEW j \in {m \in i .. Len(children[s]) : children[s][m] \notin started},
             started' = started \cup {children[s][j]}
      PROVE  ~StartsLate
  <2>1. j \in DOMAIN children[s]
    BY DEF TypeOK
  <2>2. children[s][j] \in Declared(s)
    BY <2>1 DEF TreeInv, KidsDeclared, Kids, Elems
  <2>3. \A t \in Service : children[s][j] \in Kids(t) => t = s
    BY <2>2, OneParentOf DEF TreeInv, KidsDeclared
  <2> QED
    BY <1>2, <2>3 DEF StartsLate
<1> QED
  BY <1>1, <1>2 DEF StartChildren, BeginStart

LEMMA StepStartsInTime ==
    ASSUME Orderly, TypeOK, TreeInv, [Next]_vars
    PROVE  ~StartsLate
<1>1. CASE started' = started
  BY <1>1 DEF StartsLate
<1>2. ASSUME NEW s \in Service, StartStep(s)
      PROVE  ~StartsLate
  <2>1. CASE StartDone(s) /\ ~ShouldStop(s)
    BY <2>1, StartChildrenInTime DEF StartDone
  <2>2. CASE ChildStarted(s) /\ ~ShouldStop(s)
    <3>1. startidx[s] + 1 \in Nat \ {0}
      BY DEF TypeOK
    <3> QED
      BY <2>2, <3>1, StartChildrenInTime DEF ChildStarted
  <2>3. CASE ~(StartDone(s) /\ ~ShouldStop(s)) /\ ~(ChildStarted(s) /\ ~ShouldStop(s))
    BY <1>1, <1>2, <2>3 DEF StartStep, FirstStartDone, StartDone, ChildStarted,
       StartedDone, StartRaises, StartUnwound, ContextEntered, flags
  <2> QED
    BY <2>1, <2>2, <2>3
<1>3. ASSUME NEW s \in Service, StartCaller(s)
      PROVE  ~StartsLate
  BY <1>3 DEF StartCaller, BeginStart, StartsLate, TreeInv, KidsDeclared
<1>4. ASSUME NEW s \in Service, NEW k \in Service, AddRuntimeDependency(s, k)
      PROVE  ~StartsLate
  <2>1. /\ \A t \in Service : k \notin Kids(t)
        /\ started' = started \/ started' = started \cup {k}
    BY <1>4 DEF AddRuntimeDependency, New
  <2> QED
    BY <2>1 DEF StartsLate
<1>5. ASSUME NEW s \in Service, StopStep(s) \/ StopCancelled(s)
      PROVE  started' = started
  BY <1>5 DEF StopStep, OnStopDone, RunStopTask, ChildStopped, ShutdownReceived,
     CancelFutures, GatherFutures, FuturesGathered, ExitStacksClosed, OnShutdownDone,
     StopRaises, StopCancelled, flags
<1>6. ASSUME NEW s \in Service,
             \/ StopCaller(s) \/ CrashCaller(s) \/ SetShutdown(s)
             \/ AddContext(s) \/ AddAsyncContext(s)
             \/ \E k \in Service : \/ AddDependency(s, k) \/ RemoveDependency(s, k)
                                   \/ DependencyRemoved(s, k)
      PROVE  started' = started
  BY <1>6 DEF StopCaller, CrashCaller, SetShutdown, AddContext, AddAsyncContext,
     DependencyRemoved, AddDependency, RemoveDependency, flags
<1>7. ASSUME NEW f \in Future, FutureStep(f)
      PROVE  started' = started
  BY <1>7 DEF FutureStep, AddFuture, FutureEnds, FutureRaises, flags
<1>8. CASE UNCHANGED vars
  BY <1>1, <1>8 DEF vars, flags
<1> QED
  BY <1>1, <1>2, <1>3, <1>4, <1>5, <1>6, <1>7, <1>8 DEF Next, CallerStep

\* No step starts a child of a service that was told to stop or has crashed.
THEOREM NoChildStartsLate == Orderly => (Spec => NoLateStart)
<1> SUFFICES ASSUME Orderly PROVE Spec => NoLateStart
  OBVIOUS
<1>1. TypeOK /\ TreeInv /\ [Next]_vars
        => [\A s \in Service : ShouldStop(s)
              => Kids(s) \cap started' \subseteq started]_vars
  BY StepStartsInTime DEF StartsLate
<1> QED
  BY <1>1, TypeCorrect, TreeInvariant, PTL DEF Spec, NoLateStart

-----------------------------------------------------------------------------
(* A crash spreads over the tree.                                          *)

-----------------------------------------------------------------------------
(* What is reached through _children.                                      *)

LEMMA KidsServices == ASSUME TypeOK, NEW s \in Service PROVE Kids(s) \subseteq Service
<1>1. children[s] \in Seq(Service)
  BY DEF TypeOK
<1> QED
  BY <1>1 DEF Kids, Elems

LEMMA BelowClosed ==
    ASSUME TypeOK, NEW S \in SUBSET Service
    PROVE  /\ S \subseteq Below(S)
           /\ \A t \in Below(S) : Kids(t) \subseteq Below(S)
<1>1. S \subseteq Below(S)
  BY DEF Below
<1>2. ASSUME NEW t \in Below(S), NEW k \in Kids(t)
      PROVE  k \in Below(S)
  <2>1. k \in Service
    BY <1>2, KidsServices DEF Below
  <2> QED
    BY <1>2, <2>1 DEF Below
<1> QED
  BY <1>1, <1>2

\* What is below S and not in S has a parent below S.
LEMMA BelowParent ==
    ASSUME TypeOK, NEW S \in SUBSET Service, NEW k \in Below(S), k \notin S
    PROVE  \E p \in Below(S) : k \in Kids(p)
<1> SUFFICES ASSUME \A p \in Below(S) : k \notin Kids(p) PROVE FALSE
  OBVIOUS
<1> DEFINE T == Below(S) \ {k}
<1>1. T \in SUBSET Service
  BY DEF Below
<1>2. S \subseteq T /\ \A t \in T : Kids(t) \subseteq T
  BY BelowClosed
<1>3. k \in T
  <2> HIDE DEF T
  <2> QED
    BY <1>1, <1>2 DEF Below
<1> QED
  BY <1>3

\* The way up from x goes from a child to its parent.
LEMMA AboveClosed ==
    ASSUME TypeOK, NEW x \in Service
    PROVE  /\ Above(x) \subseteq Service /\ x \in Above(x)
           /\ \A s \in Service : \A k \in Kids(s) : k \in Above(x) => s \in Above(x)
<1>1. Above(x) \subseteq Service /\ x \in Above(x)
  BY DEF Above, Below
<1>2. ASSUME NEW s \in Service, NEW k \in Kids(s), k \in Above(x)
      PROVE  s \in Above(x)
  <2>1. x \in Below({k}) /\ k \in Service
    BY <1>2 DEF Above
  <2>2. x \in Below({s})
    BY <2>1 DEF Below
  <2> QED
    BY <2>2 DEF Above
<1> QED
  BY <1>1, <1>2

-----------------------------------------------------------------------------
(* The invariant.                                                          *)

\* A service starts before its children do.
StartedFromAbove == \A s \in Service : Kids(s) \cap started # {} => s \in started

\* What on_init_dependencies returns joins the tree with the start of the parent
\* and cannot have crashed before.
OnInitOutside ==
    \A s \in Service \ started :
        Elems(OnInit[s]) \cap Kids(s) = {} /\ Elems(OnInit[s]) \cap crashed = {}

\* Background futures are those of started services.
RunsInStarted == \A f \in running : Owner[f] \in started

CrashInv == /\ StartedFromAbove /\ OnInitOutside /\ RunsInStarted
            /\ CrashDown /\ CrashUp

LEMMA CrashInvInit == Init => CrashInv
<1> SUFFICES ASSUME Init PROVE CrashInv
  OBVIOUS
<1>1. StartedFromAbove /\ RunsInStarted /\ CrashDown /\ CrashUp
  BY DEF Init, StartedFromAbove, RunsInStarted, CrashDown, CrashUp
<1>2. OnInitOutside
  BY OneParent DEF OneParent, Init, OnInitOutside, Kids
<1> QED
  BY <1>1, <1>2 DEF CrashInv

\* Services start, children come and go, and nothing crashes.  A service starts
\* under a parent that is started and has not crashed; a new child is not started
\* or its parent is like that, and it has not crashed.
LEMMA CrashInvGrows ==
    ASSUME TypeOK, CrashInv, crashed' = crashed, started \subseteq started',
           \A f \in running' : f \in running \/ Owner[f] \in started',
           \A t \in Service : \A k \in Kids(t)' :
             /\ k \in started' \ started => t \in started' \ crashed
             /\ k \in Kids(t) \/ /\ k \notin crashed
                                 /\ k \in started' => t \in started' \ crashed
                                 /\ k \in Elems(OnInit[t]) => t \in started'
    PROVE  CrashInv'
<1>1. StartedFromAbove'
  BY DEF CrashInv, StartedFromAbove
<1>2. OnInitOutside'
  BY DEF CrashInv, OnInitOutside
<1>3. RunsInStarted'
  BY DEF CrashInv, RunsInStarted
<1>4. CrashDown'
  <2> SUFFICES ASSUME NEW t \in crashed, NEW k \in Kids(t)', k \in started'
               PROVE  k \in crashed
    BY DEF CrashDown
  <2>1. k \in Kids(t) /\ k \in started
    BY DEF TypeOK
  <2> QED
    BY <2>1 DEF CrashInv, CrashDown
<1>5. CrashUp'
  BY DEF CrashInv, CrashUp
<1> QED
  BY <1>1, <1>2, <1>3, <1>4, <1>5 DEF CrashInv

\* The services crash() marks: those below a started service or below the whole
\* way up from it.
LEMMA CrashScopeSpreads ==
    ASSUME TypeOK, TreeInv, CrashInv, NEW x \in started
    PROVE  /\ CrashScope(x) \subseteq Service
           /\ \A s \in CrashScope(x) : Kids(s) \subseteq CrashScope(x)
           /\ \A s \in Service : \A k \in Kids(s) \cap CrashScope(x) :
                k \in Supervised \/ s \in CrashScope(x)
           /\ \A s \in Service \ started : Elems(OnInit[s]) \cap CrashScope(x) = {}
<1> DEFINE S == IF x \in Supervised THEN {x} ELSE Above(x)
<1>0. x \in Service
  BY DEF TypeOK
<1>1. S \in SUBSET Service /\ CrashScope(x) = Below(S) /\ x \in S
  BY <1>0, AboveClosed DEF CrashScope
<1>2. ASSUME NEW k \in S PROVE k \in started
  <2>1. CASE k = x
    BY <2>1
  <2>2. CASE k \in Above(x)
    <3> SUFFICES ASSUME k \notin started PROVE FALSE
      OBVIOUS
    <3> DEFINE T == Service \ started
    <3>1. \A t \in T : Kids(t) \subseteq T
      BY KidsServices DEF CrashInv, StartedFromAbove
    <3>2. x \in Below({k}) /\ k \in T
      BY <2>2 DEF Above
    <3>3. T \in SUBSET Service
      OBVIOUS
    <3>4. x \in T
      <4> HIDE DEF T
      <4> QED
        BY <3>1, <3>2, <3>3 DEF Below
    <3> QED
      BY <3>4
  <2> QED
    BY <2>1, <2>2
<1>3. ASSUME NEW s \in Service, NEW k \in Kids(s), k \in S
      PROVE  k \in Supervised \/ s \in S
  BY <1>0, <1>3, AboveClosed
<1> HIDE DEF S
<1>4. S \subseteq Below(S) /\ \A t \in Below(S) : Kids(t) \subseteq Below(S)
  BY <1>1, BelowClosed
<1>5. Below(S) \subseteq Service
  BY DEF Below
<1>6. ASSUME NEW s \in Service, NEW k \in Kids(s), k \in Below(S), k \notin Supervised
      PROVE  s \in Below(S)
  <2>1. CASE k \in S
    BY <1>3, <1>4, <1>6, <2>1
  <2>2. CASE k \notin S
    <3>1. PICK p \in Below(S) : k \in Kids(p)
      BY <1>1, <1>6, <2>2, BelowParent
    <3>2. k \in Declared(p) /\ k \in Declared(s)
      BY <1>5, <3>1 DEF TreeInv, KidsDeclared
    <3> QED
      BY <1>5, <3>1, <3>2, OneParentOf
  <2> QED
    BY <2>1, <2>2
<1>7. ASSUME NEW s \in Service, s \notin started, NEW k \in Elems(OnInit[s]), k \in Below(S)
      PROVE  FALSE
  <2>1. k \notin started
    BY <1>7 DEF TreeInv, OnInitUnstarted
  <2>2. PICK p \in Below(S) : k \in Kids(p)
    BY <1>1, <1>2, <1>7, <2>1, BelowParent
  <2>3. p = s
    BY <1>5, <2>2, OneParentOf DEF TreeInv, KidsDeclared, Declared
  <2> QED
    BY <1>7, <2>2, <2>3 DEF CrashInv, OnInitOutside
<1> QED
  BY <1>1, <1>4, <1>5, <1>6, <1>7

LEMMA CrashInvCrash ==
    ASSUME TypeOK, TreeInv, CrashInv, NEW x \in started, Crash(x),
           UNCHANGED <<started, children>>, running' \subseteq running
    PROVE  CrashInv'
<1>1. crashed' = crashed \/ crashed' = crashed \cup CrashScope(x)
  BY DEF Crash
<1>2. StartedFromAbove' /\ RunsInStarted'
  BY DEF CrashInv, StartedFromAbove, RunsInStarted, Kids
<1>3. CASE crashed' = crashed
  BY <1>3, CrashInvGrows DEF Kids
<1>4. CASE crashed' = crashed \cup CrashScope(x)
  <2>1. OnInitOutside'
    BY <1>4, CrashScopeSpreads DEF CrashInv, OnInitOutside, Kids
  <2>2. CrashDown'
    BY <1>4, CrashScopeSpreads DEF CrashInv, CrashDown, Kids
  <2>3. CrashUp'
    BY <1>4, CrashScopeSpreads DEF CrashInv, CrashUp, Kids
  <2> QED
    BY <1>2, <2>1, <2>2, <2>3 DEF CrashInv
<1> QED
  BY <1>1, <1>3, <1>4

\* A service begins to start, under no parent that is not started or has crashed.
LEMMA CrashInvBeginStart ==
    ASSUME TypeOK, TreeInv, CrashInv, NEW k \in Service, NEW pc, BeginStart(k, pc),
           k \notin started,
           \A t \in Service : k \in Declared(t) => t \in started \ crashed,
           crashed' = crashed,
           \A f \in running' : f \in running \/ Owner[f] \in started
    PROVE  CrashInv'
<1>1. /\ started' = started \cup {k}
      /\ \A t \in Service : t # k => children'[t] = children[t]
      /\ children'[k] = children[k] \o OnInit[k]
      /\ children[k] \in Seq(Service) /\ OnInit[k] \in Seq(Service)
  BY ConstantTypes DEF ConstantTypes, BeginStart, TypeOK
<1>2. Kids(k)' \subseteq Kids(k) \cup Elems(OnInit[k])
  BY <1>1, ElemsConcat DEF Kids
<1>3. \A t \in Service : t # k => Kids(t)' = Kids(t)
  BY <1>1 DEF Kids
<1>4. ASSUME NEW x \in Elems(OnInit[k])
      PROVE  x \notin started' /\ x \notin crashed
  BY <1>1 DEF Declared, TreeInv, OnInitUnstarted, CrashInv, OnInitOutside
<1>5. \A t \in Service : k \in Kids(t) => t \in started \ crashed
  BY DEF TreeInv, KidsDeclared
<1>6. \A f \in running' : f \in running \/ Owner[f] \in started'
  BY <1>1
<1>7. ASSUME NEW t \in Service, NEW x \in Kids(t)'
      PROVE  /\ x \in started' \ started => t \in started' \ crashed
             /\ x \in Kids(t) \/ /\ x \notin crashed
                                 /\ x \in started' => t \in started' \ crashed
                                 /\ x \in Elems(OnInit[t]) => t \in started'
  <2>1. CASE x \in Kids(t)
    BY <1>1, <1>5, <2>1
  <2>2. CASE x \notin Kids(t)
    BY <1>1, <1>2, <1>3, <1>4, <1>7, <2>2
  <2> QED
    BY <2>1, <2>2
<1>8. started \subseteq started'
  BY <1>1
<1> QED
  BY <1>6, <1>7, <1>8, CrashInvGrows

\* A child that is new to the program is added.
LEMMA CrashInvAppend ==
    ASSUME TypeOK, CrashInv, NEW s \in Service, NEW k \in Dynamic[s],
           k \notin started \cup crashed,
           children' = [children EXCEPT ![s] = Append(children[s], k)],
           UNCHANGED <<started, crashed, running>>
    PROVE  CrashInv'
<1>1. children[s] \in Seq(Service) /\ k \in Service
  BY ConstantTypes DEF ConstantTypes, TypeOK
<1>2. Kids(s)' \subseteq Kids(s) \cup {k}
  <2>1. children'[s] = Append(children[s], k)
    BY DEF TypeOK
  <2> QED
    BY <1>1, <2>1, ElemsAppend DEF Kids
<1>3. \A t \in Service : t # s => Kids(t)' = Kids(t)
  BY DEF Kids, TypeOK
<1>4. k \notin Elems(OnInit[s])
  BY OneParent DEF OneParent
<1> QED
  BY <1>2, <1>3, <1>4, CrashInvGrows

\* A child that is new to the program is added and begins to start.
LEMMA CrashInvAppendStart ==
    ASSUME TypeOK, TreeInv, CrashInv, NEW s \in Service, NEW k \in Dynamic[s],
           New(k), s \in started \ crashed,
           started' = started \cup {k},
           children' = [[children EXCEPT ![s] = Append(children[s], k)]
                                  EXCEPT ![k] = @ \o OnInit[k]],
           UNCHANGED <<crashed, running>>
    PROVE  CrashInv'
<1>0. /\ s # k /\ k \in Service /\ k \notin started \cup crashed
      /\ \A t \in Service : k \notin Kids(t)
  BY ConstantTypes DEF ConstantTypes, New
<1>1. /\ children[s] \in Seq(Service) /\ children[k] \in Seq(Service)
      /\ OnInit[k] \in Seq(Service)
  BY <1>0, ConstantTypes DEF ConstantTypes, TypeOK
<1>2. /\ children'[s] = Append(children[s], k)
      /\ children'[k] = children[k] \o OnInit[k]
      /\ \A t \in Service : t # s /\ t # k => children'[t] = children[t]
  BY <1>0 DEF TypeOK
<1>3. /\ Kids(s)' \subseteq Kids(s) \cup {k}
      /\ Kids(k)' \subseteq Kids(k) \cup Elems(OnInit[k])
      /\ \A t \in Service : t # s /\ t # k => Kids(t)' = Kids(t)
  BY <1>0, <1>1, <1>2, ElemsAppend, ElemsConcat DEF Kids
<1>4. k \notin Elems(OnInit[s]) /\ k \notin Elems(OnInit[k])
  <2>1. k \in Declared(s) /\ ~(k \in Declared(k))
    BY <1>0, OneParentOf DEF Declared
  <2> QED
    BY <2>1, OneParent DEF OneParent, Declared
<1>5. \A x \in Elems(OnInit[k]) : x \notin started' /\ x \notin crashed
  BY <1>0, <1>4 DEF TreeInv, OnInitUnstarted, CrashInv, OnInitOutside
<1>6. ASSUME NEW t \in Service, NEW x \in Kids(t)'
      PROVE  /\ x \in started' \ started => t \in started' \ crashed
             /\ x \in Kids(t) \/ /\ x \notin crashed
                                 /\ x \in started' => t \in started' \ crashed
                                 /\ x \in Elems(OnInit[t]) => t \in started'
  <2>1. CASE t = s
    BY <1>0, <1>3, <1>6, <2>1
  <2>2. CASE t = k
    BY <1>0, <1>3, <1>5, <1>6, <2>2
  <2>3. CASE t # s /\ t # k
    BY <1>0, <1>3, <1>6, <2>3
  <2> QED
    BY <2>1, <2>2, <2>3
<1>7. started \subseteq started' /\ \A f \in running' : f \in running
  OBVIOUS
<1> QED
  BY <1>6, <1>7, CrashInvGrows

\* A child is taken out of the list of a service, or nothing moves.
LEMMA CrashInvShrinks ==
    ASSUME TypeOK, CrashInv, UNCHANGED <<started, crashed>>,
           \A t \in Service : Kids(t)' \subseteq Kids(t),
           \A f \in running' : f \in running \/ Owner[f] \in started
    PROVE  CrashInv'
<1>1. \A t \in Service : \A k \in Kids(t)' : k \in Kids(t)
  OBVIOUS
<1> QED
  BY <1>1, CrashInvGrows

LEMMA RemoveShrinks ==
    ASSUME TypeOK, NEW s \in Service, NEW k \in Kids(s),
           children' = [children EXCEPT ![s] = Without(children[s], k)]
    PROVE  \A t \in Service : Kids(t)' \subseteq Kids(t)
<1>1. children[s] \in Seq(Service) /\ \E i \in DOMAIN children[s] : children[s][i] = k
  BY DEF TypeOK, Kids, Elems
<1>2. Elems(Without(children[s], k)) \subseteq Elems(children[s])
  BY <1>1, WithoutShifts
<1>3. \A t \in Service : children'[t] = IF t = s THEN Without(children[s], k)
                                               ELSE children[t]
  BY DEF TypeOK
<1> QED
  BY <1>2, <1>3 DEF Kids

-----------------------------------------------------------------------------
(* The steps.                                                              *)

LEMMA TakeOutShrinks ==
    ASSUME TypeOK, NEW s \in Service, NEW k, TakeOut(s, k)
    PROVE  \A t \in Service : Kids(t)' \subseteq Kids(t)
<1>1. CASE k \in Kids(s)
  BY <1>1, RemoveShrinks DEF TakeOut
<1>2. CASE k \notin Kids(s)
  BY <1>2 DEF TakeOut, TypeOK, Kids
<1> QED
  BY <1>1, <1>2

LEMMA CrashInvStartChildren ==
    ASSUME TypeOK, TreeInv, CrashInv, NEW s \in Service, NEW i \in Nat \ {0},
           StartChildren(s, i), ~ShouldStop(s), startpc[s] # "idle",
           crashed' = crashed,
           \A f \in running' : f \in running \/ Owner[f] \in started
    PROVE  CrashInv'
<1>1. CASE UNCHANGED <<started, children>>
  BY <1>1, CrashInvShrinks DEF Kids
<1>2. ASSUME NEW j \in {m \in i .. Len(children[s]) : children[s][m] \notin started},
             BeginStart(children[s][j], [startpc EXCEPT ![s] = "child"])
      PROVE  CrashInv'
  <2>1. children[s] \in Seq(Service) /\ j \in DOMAIN children[s]
    BY DEF TypeOK
  <2>2. /\ children[s][j] \in Service /\ children[s][j] \notin started
        /\ children[s][j] \in Declared(s)
    BY <2>1 DEF TreeInv, KidsDeclared, Kids, Elems
  <2>3. s \in started \ crashed
    BY DEF ShouldStop, TreeInv, StartFlag
  <2>4. \A t \in Service : children[s][j] \in Declared(t) => t \in started \ crashed
    BY <2>2, <2>3, OneParentOf
  <2> QED
    BY <1>2, <2>2, <2>4, CrashInvBeginStart
<1> QED
  BY <1>1, <1>2 DEF StartChildren

LEMMA CrashInvStart ==
    ASSUME TypeOK, TreeInv, CrashInv, NEW s \in Service, StartStep(s)
    PROVE  CrashInv'
<1>1. crashed' = crashed
  BY DEF StartStep, FirstStartDone, StartDone, ChildStarted, StartedDone,
     StartRaises, StartUnwound, ContextEntered, flags
<1>2. CASE StartDone(s) /\ ~ShouldStop(s)
  <2>1. s \in started
    BY <1>2 DEF StartDone, TreeInv, StartFlag
  <2>2. \A f \in running' : f \in running \/ Owner[f] \in started
    BY <1>2, <2>1 DEF StartDone, Owned
  <2> QED
    BY <1>1, <1>2, <2>2, CrashInvStartChildren DEF StartDone
<1>3. CASE ChildStarted(s) /\ ~ShouldStop(s)
  <2>1. startidx[s] + 1 \in Nat \ {0}
    BY DEF TypeOK
  <2> QED
    BY <1>1, <1>3, <2>1, CrashInvStartChildren DEF ChildStarted, futurevars
<1>4. CASE ~(StartDone(s) /\ ~ShouldStop(s)) /\ ~(ChildStarted(s) /\ ~ShouldStop(s))
  <2>1. UNCHANGED <<started, children, running>>
    BY <1>4 DEF StartStep, FirstStartDone, StartDone, ChildStarted, StartedDone,
       StartRaises, StartUnwound, ContextEntered, flags, futurevars
  <2> QED
    BY <1>1, <2>1, CrashInvShrinks DEF Kids
<1> QED
  BY <1>2, <1>3, <1>4

LEMMA CrashInvStop ==
    ASSUME TypeOK, CrashInv, NEW s \in Service, StopStep(s) \/ StopCancelled(s)
    PROVE  CrashInv'
<1>1. UNCHANGED <<started, crashed, children, running>>
  BY DEF StopStep, OnStopDone, RunStopTask, ChildStopped, ShutdownReceived,
     CancelFutures, GatherFutures, FuturesGathered, ExitStacksClosed, OnShutdownDone,
     StopRaises, StopCancelled, flags, futurevars
<1> QED
  BY <1>1, CrashInvShrinks DEF Kids

LEMMA CrashInvFuture ==
    ASSUME TypeOK, TreeInv, CrashInv, NEW f \in Future, FutureStep(f)
    PROVE  CrashInv'
<1>1. UNCHANGED <<started, children>>
  BY DEF FutureStep, AddFuture, FutureEnds, FutureRaises, flags
<1>2. CASE AddFuture(f) \/ FutureEnds(f)
  <2>1. crashed' = crashed /\ \A g \in running' : g \in running \/ Owner[g] \in started
    BY <1>2 DEF AddFuture, FutureEnds, flags
  <2> QED
    BY <1>1, <2>1, CrashInvShrinks DEF Kids
<1>3. CASE FutureRaises(f)
  <2>1. Owner[f] \in started /\ Crash(Owner[f]) /\ running' \subseteq running
    BY <1>3 DEF FutureRaises, CrashInv, RunsInStarted
  <2> QED
    BY <1>1, <2>1, CrashInvCrash
<1> QED
  BY <1>2, <1>3 DEF FutureStep

LEMMA CrashInvCaller ==
    ASSUME Orderly, TypeOK, TreeInv, CrashInv, NEW s \in Service, CallerStep(s)
    PROVE  CrashInv'
<1> USE DEF flags, stopvars, futurevars, startvars
<1>1. CASE StartCaller(s)
  BY <1>1, CrashInvBeginStart DEF StartCaller
<1>2. CASE StopCaller(s) \/ SetShutdown(s) \/ AddContext(s) \/ AddAsyncContext(s)
  <2>1. UNCHANGED <<started, crashed, children, running>>
    BY <1>2 DEF StopCaller, SetShutdown, AddContext, AddAsyncContext
  <2> QED
    BY <2>1, CrashInvShrinks DEF Kids
<1>3. CASE StopCancelled(s)
  BY <1>3, CrashInvStop
<1>4. CASE CrashCaller(s)
  BY <1>4, CrashInvCrash DEF CrashCaller
<1>5. ASSUME NEW k \in Service, DependencyRemoved(s, k)
      PROVE  CrashInv'
  <2>1. UNCHANGED <<started, crashed, running>>
    BY <1>5 DEF DependencyRemoved
  <2>2. CASE UNCHANGED children
    BY <2>1, <2>2, CrashInvShrinks DEF Kids
  <2>3. CASE TakeOut(s, k)
    BY <2>1, <2>3, TakeOutShrinks, CrashInvShrinks
  <2> QED
    BY <1>5, <2>2, <2>3 DEF DependencyRemoved
<1>6. ASSUME NEW k \in Service, AddDependency(s, k)
      PROVE  CrashInv'
  BY <1>6, CrashInvAppend DEF AddDependency, New
<1>7. ASSUME NEW k \in Service, AddRuntimeDependency(s, k)
      PROVE  CrashInv'
  <2>1. /\ s \notin crashed /\ k \in Dynamic[s] /\ New(k)
        /\ UNCHANGED <<crashed, running>>
    BY <1>7 DEF AddRuntimeDependency, InOrder, ShouldStop
  <2>2. CASE s \in started
    BY <1>7, <2>1, <2>2, CrashInvAppendStart DEF AddRuntimeDependency
  <2>3. CASE s \notin started
    BY <1>7, <2>1, <2>3, CrashInvAppend DEF AddRuntimeDependency, New
  <2> QED
    BY <2>2, <2>3
<1>8. ASSUME NEW k \in Service, RemoveDependency(s, k)
      PROVE  CrashInv'
  <2>1. UNCHANGED <<started, crashed, running>> /\ k \in Kids(s)
    BY <1>8 DEF RemoveDependency
  <2>2. CASE children' = children
    BY <2>1, <2>2, CrashInvShrinks DEF Kids
  <2>3. CASE TakeOut(s, k)
    BY <2>1, <2>3, TakeOutShrinks, CrashInvShrinks
  <2> QED
    BY <1>8, <2>2, <2>3 DEF RemoveDependency
<1> QED
  BY <1>1, <1>2, <1>3, <1>4, <1>5, <1>6, <1>7, <1>8 DEF CallerStep

LEMMA CrashInvStep ==
    ASSUME Orderly
    PROVE  TypeOK /\ TreeInv /\ CrashInv /\ [Next]_vars => CrashInv'
<1> SUFFICES ASSUME TypeOK, TreeInv, CrashInv, [Next]_vars PROVE CrashInv'
  OBVIOUS
<1>1. CASE UNCHANGED vars
  <2>1. UNCHANGED <<started, crashed, children, running>>
    BY <1>1 DEF vars, flags, futurevars
  <2> QED
    BY <2>1, CrashInvShrinks DEF Kids
<1>2. CASE Next
  BY <1>2, CrashInvStart, CrashInvStop, CrashInvFuture, CrashInvCaller DEF Next
<1> QED
  BY <1>1, <1>2

LEMMA CrashInvariant == Orderly => (Spec => []CrashInv)
<1> SUFFICES ASSUME Orderly PROVE Spec => []CrashInv
  OBVIOUS
<1> QED
  BY CrashInvInit, CrashInvStep, TypeCorrect, TreeInvariant, PTL DEF Spec

\* A crash reaches every started service below: no started child of a crashed
\* service is left uncrashed, in every tree, however its services start, are added
\* and are removed meanwhile.
THEOREM CrashReachesDown == Orderly => (Spec => []CrashDown)
<1> SUFFICES ASSUME Orderly PROVE Spec => []CrashDown
  OBVIOUS
<1>1. CrashInv => CrashDown
  BY DEF CrashInv
<1> QED
  BY CrashInvariant, <1>1, PTL

\* A crash goes up until a supervisor stops it: the parent of a crashed service
\* without a supervisor has crashed too.
THEOREM CrashReachesUp == Orderly => (Spec => []CrashUp)
<1> SUFFICES ASSUME Orderly PROVE Spec => []CrashUp
  OBVIOUS
<1>1. CrashInv => CrashUp
  BY DEF CrashInv
<1> QED
  BY CrashInvariant, <1>1, PTL

-----------------------------------------------------------------------------
(* The order in which a tree of services starts and stops.                 *)

-----------------------------------------------------------------------------
(* Exit stacks.                                                            *)

\* A context is open or about to be pushed.
Open(s) == s \in context \/ startpc[s] = "enter_context"

ContextsKnown == \A s \in Service :
    stoppc[s] \in {"on_shutdown", "returned"} /\ Open(s) => s \in overtaken

ContextInv == StopFlag /\ ContextsKnown

LEMMA ContextInvMoves ==
    ASSUME TypeOK, ContextInv, stopped \subseteq stopped',
           overtaken \subseteq overtaken',
           \A s \in Service : Open(s)' => Open(s),
           \A s \in Service :
             \/ stoppc'[s] = stoppc[s]
             \/ s \in stopped' /\ (stoppc'[s] \in {"on_shutdown", "returned"} /\ Open(s)'
                                     => s \in overtaken')
    PROVE  ContextInv'
<1>1. StopFlag'
  BY DEF ContextInv, StopFlag
<1>2. ContextsKnown'
  BY DEF ContextInv, ContextsKnown
<1> QED
  BY <1>1, <1>2 DEF ContextInv

LEMMA ContextInvPC ==
    ASSUME TypeOK, ContextInv, NEW s \in Service, NEW pc, s \in stopped,
           stoppc' = [stoppc EXCEPT ![s] = pc], stopped' = stopped,
           context' \subseteq context, overtaken \subseteq overtaken',
           startpc' = startpc,
           pc \in {"on_shutdown", "returned"} /\ Open(s)' => s \in overtaken'
    PROVE  ContextInv'
<1>1. \A t \in Service : stoppc'[t] = IF t = s THEN pc ELSE stoppc[t]
  BY DEF TypeOK
<1>2. \A t \in Service : Open(t)' => Open(t)
  BY DEF Open
<1> QED
  BY <1>1, <1>2, ContextInvMoves

LEMMA ContextInvStop ==
    ASSUME TypeOK, ContextInv, NEW s \in Service, StopStep(s) \/ StopCancelled(s)
    PROVE  ContextInv'
<1> USE DEF flags, startvars
<1>1. stoppc[s] # "idle" => s \in stopped
  BY DEF ContextInv, StopFlag
<1>2. ASSUME stoppc[s] # "idle",
             \E pc \in {"stop_child", "wait_shutdown", "exit_stacks", "drain",
                        "gather_start", "gather", "raised"} :
               stoppc' = [stoppc EXCEPT ![s] = pc],
             stopped' = stopped, context' \subseteq context, startpc' = startpc,
             overtaken \subseteq overtaken'
      PROVE  ContextInv'
  BY <1>1, <1>2, ContextInvPC
<1>3. ASSUME NEW i, StopChildren(s, i)
      PROVE  \E pc \in {"stop_child", "wait_shutdown", "exit_stacks", "drain"} :
               stoppc' = [stoppc EXCEPT ![s] = pc]
  BY <1>3 DEF StopChildren, StopFutures
<1>4. CASE OnStopDone(s) \/ ChildStopped(s)
  BY <1>2, <1>3, <1>4 DEF OnStopDone, ChildStopped
<1>5. CASE RunStopTask(s)
  <2>1. UNCHANGED <<context, overtaken, startpc>>
    BY <1>5 DEF RunStopTask
  <2>2. CASE UNCHANGED <<stopped, stoppc>>
    BY <2>1, <2>2, ContextInvMoves DEF Open
  <2>3. CASE \E t \in Service : BeginStop(s, t)
    BY <2>1, <2>3, ContextInvMoves DEF BeginStop, TypeOK, Open
  <2> QED
    BY <1>5, <2>2, <2>3 DEF RunStopTask
<1>6. CASE ShutdownReceived(s) \/ CancelFutures(s) \/ GatherFutures(s) \/ FuturesGathered(s)
  BY <1>2, <1>6 DEF ShutdownReceived, CancelFutures, GatherFutures, FuturesGathered,
     StopFutures
<1>7. CASE ExitStacksClosed(s)
  BY <1>1, <1>7, ContextInvPC DEF ExitStacksClosed, CloseStacks, Open
<1>8. CASE OnShutdownDone(s)
  BY <1>1, <1>8, ContextInvPC DEF OnShutdownDone, ContextInv, ContextsKnown, Open
<1>9. CASE StopRaises(s)
  BY <1>2, <1>9 DEF StopRaises, CloseStacks
<1>10. CASE StopCancelled(s)
  BY <1>2, <1>3, <1>10 DEF StopCancelled
<1> QED
  BY <1>4, <1>5, <1>6, <1>7, <1>8, <1>9, <1>10 DEF StopStep

LEMMA ContextInvStep ==
    ASSUME Orderly
    PROVE  TypeOK /\ ContextInv /\ [Next]_vars => ContextInv'
<1> SUFFICES ASSUME TypeOK, ContextInv, [Next]_vars PROVE ContextInv'
  OBVIOUS
<1> USE DEF flags, stopvars, startvars
<1>1. ASSUME UNCHANGED <<stopped, stoppc, overtaken>>,
             \A s \in Service : Open(s)' => Open(s)
      PROVE  ContextInv'
  BY <1>1, ContextInvMoves
<1>2. CASE UNCHANGED vars
  BY <1>1, <1>2 DEF vars, Open
<1>3. ASSUME NEW s \in Service, StartStep(s)
      PROVE  ContextInv'
  <2>1. UNCHANGED <<stopped, stoppc, overtaken>>
    BY <1>3 DEF StartStep, FirstStartDone, StartDone, ChildStarted, StartedDone,
       StartRaises, StartUnwound, ContextEntered
  <2>2. CASE ContextEntered(s)
    BY <1>1, <2>1, <2>2 DEF ContextEntered, Open, TypeOK
  <2>3. CASE ~ContextEntered(s)
    <3>1. context' \subseteq context
      BY <1>3, <2>3 DEF StartStep, FirstStartDone, StartDone, ChildStarted, StartedDone,
         StartRaises, StartUnwound
    <3>2. \A t \in Service : startpc'[t] = "enter_context" => startpc[t] = "enter_context"
      <4>1. ASSUME NEW i, StartChildren(s, i)
            PROVE  \A t \in Service :
                     startpc'[t] = "enter_context" => startpc[t] = "enter_context"
        BY <4>1 DEF StartChildren, BeginStart, TypeOK
      <4>2. CASE StartDone(s) \/ ChildStarted(s)
        BY <4>1, <4>2 DEF StartDone, ChildStarted, TypeOK
      <4>3. CASE FirstStartDone(s) \/ StartedDone(s) \/ StartRaises(s) \/ StartUnwound(s)
        BY <4>3 DEF FirstStartDone, StartedDone, StartRaises, StartUnwound, TypeOK
      <4> QED
        BY <1>3, <2>3, <4>2, <4>3 DEF StartStep
    <3> QED
      BY <1>1, <2>1, <3>1, <3>2 DEF Open
  <2> QED
    BY <2>2, <2>3
<1>4. ASSUME NEW f \in Future, FutureStep(f)
      PROVE  ContextInv'
  BY <1>1, <1>4 DEF FutureStep, AddFuture, FutureEnds, FutureRaises, Open
<1>5. ASSUME NEW s \in Service, AddContext(s) \/ AddAsyncContext(s)
      PROVE  ContextInv'
  <2>1. stoppc[s] = "idle"
    BY <1>5 DEF AddContext, AddAsyncContext, InOrder, ShouldStop, ContextInv, StopFlag
  <2>2. UNCHANGED <<stopped, stoppc, overtaken>>
    BY <1>5 DEF AddContext, AddAsyncContext
  <2>3. \A t \in Service : t # s /\ Open(t)' => Open(t)
    BY <1>5 DEF AddContext, AddAsyncContext, Open, TypeOK
  <2> QED
    BY <2>1, <2>2, <2>3 DEF ContextInv, StopFlag, ContextsKnown
<1>6. ASSUME NEW s \in Service, NEW by, BeginStop(s, by),
             UNCHANGED <<context, overtaken, startpc>>
      PROVE  ContextInv'
  BY <1>6, ContextInvMoves DEF BeginStop, TypeOK, Open
<1>7. ASSUME NEW s \in Service, StopCaller(s)
      PROVE  ContextInv'
  BY <1>6, <1>7 DEF StopCaller
<1>8. ASSUME NEW s \in Service, NEW k \in Service, RemoveDependency(s, k)
      PROVE  ContextInv'
  BY <1>1, <1>6, <1>8 DEF RemoveDependency, Open
<1>9. ASSUME NEW s \in Service,
             \/ StartCaller(s) \/ CrashCaller(s) \/ SetShutdown(s)
             \/ \E k \in Service : \/ AddDependency(s, k) \/ AddRuntimeDependency(s, k)
                                   \/ DependencyRemoved(s, k)
      PROVE  ContextInv'
  <2>1. UNCHANGED <<stopped, stoppc, overtaken, context>>
    BY <1>9 DEF StartCaller, CrashCaller, SetShutdown, DependencyRemoved,
       AddDependency, AddRuntimeDependency
  <2>2. \A t \in Service : startpc'[t] = "enter_context" => startpc[t] = "enter_context"
    BY <1>9 DEF StartCaller, BeginStart, CrashCaller, SetShutdown, DependencyRemoved,
       AddDependency, AddRuntimeDependency, TypeOK
  <2> QED
    BY <1>1, <2>1, <2>2 DEF Open
<1> QED
  BY <1>2, <1>3, <1>4, <1>5, <1>7, <1>8, <1>9, ContextInvStop DEF Next, CallerStep

\* When stop() has closed the exit stacks nothing stays open in them and nothing is
\* pushed later, in every tree, unless the __aenter__ of a context of start() was
\* suspended at that moment.
THEOREM ContextsClosed == Orderly => (Spec => []ContextsReleased)
<1> SUFFICES ASSUME Orderly PROVE Spec => []ContextsReleased
  OBVIOUS
<1>1. Init => ContextInv
  BY DEF Init, ContextInv, StopFlag, ContextsKnown
<1>2. ContextInv => ContextsReleased
  BY DEF ContextInv, ContextsKnown, ContextsReleased, Open
<1> QED
  BY <1>1, <1>2, ContextInvStep, TypeCorrect, PTL DEF Spec

-----------------------------------------------------------------------------
(* A parent waits for the children it stops.                               *)

\* The stop() task that a child loop made is that of the child it stands at.
StopTasks == \A s, k \in Service :
    k \in stoptask /\ k \in Declared(s) /\ s \notin interrupted
      => stoppc[s] = "stop_child" /\ stopkid[s] = k

\* The stop() of a child that its parent called is over, or the parent waits for
\* it in the child loop.
StopsOf == \A s, k \in Service :
    stopper[k] = s /\ s \notin interrupted
      => /\ stoppc[s] \notin {"idle", "on_stop"}
         /\ Ended(stoppc[k]) \/ (stoppc[s] = "stop_child" /\ stopkid[s] = k)

WaitInv == StopTasks /\ StopsOf

LEMMA WaitInvInit == Init => WaitInv
<1> SUFFICES ASSUME Init PROVE WaitInv
  OBVIOUS
<1>1. \A k \in Service : stopper[k] \notin Service
  BY ConstantTypes DEF ConstantTypes, Init
<1> QED
  BY <1>1 DEF Init, WaitInv, StopTasks, StopsOf

LEMMA WaitInvStutter ==
    ASSUME WaitInv, UNCHANGED <<stoppc, stopkid, stopper, stoptask, interrupted>>
    PROVE  WaitInv'
BY DEF WaitInv, StopTasks, StopsOf

\* A stop() begins: it was called from outside, or the task that the parent's
\* loop made runs.
LEMMA WaitInvBeginStop ==
    ASSUME TypeOK, StopFlag, WaitInv, NEW k \in Service, NEW by, BeginStop(k, by),
           UNCHANGED <<stopkid, interrupted>>, stoptask' \subseteq stoptask,
           by \in Service => k \in Declared(by) /\ k \in stoptask
    PROVE  WaitInv'
<1>1. /\ stoppc[k] = "idle"
      /\ \A s \in Service : /\ stoppc'[s] = IF s = k THEN "on_stop" ELSE stoppc[s]
                            /\ stopper'[s] = IF s = k THEN by ELSE stopper[s]
  BY DEF BeginStop, StopFlag, TypeOK
<1>2. StopTasks'
  BY <1>1 DEF WaitInv, StopTasks
<1>3. ASSUME NEW s \in Service, NEW x \in Service, stopper'[x] = s, s \notin interrupted
      PROVE  /\ stoppc'[s] \notin {"idle", "on_stop"}
             /\ Ended(stoppc'[x]) \/ (stoppc'[s] = "stop_child" /\ stopkid[s] = x)
  <2>1. CASE x = k
    <3>1. stoppc[s] = "stop_child" /\ stopkid[s] = k
      BY <1>1, <1>3, <2>1 DEF WaitInv, StopTasks
    <3> QED
      BY <1>1, <2>1, <3>1
  <2>2. CASE x # k
    <3>1. /\ stoppc[s] \notin {"idle", "on_stop"}
          /\ Ended(stoppc[x]) \/ (stoppc[s] = "stop_child" /\ stopkid[s] = x)
      BY <1>1, <1>3, <2>2 DEF WaitInv, StopsOf
    <3>2. s # k
      BY <1>1, <3>1
    <3> QED
      BY <1>1, <2>2, <3>1, <3>2
  <2> QED
    BY <2>1, <2>2
<1> QED
  BY <1>2, <1>3 DEF WaitInv, StopsOf

\* stop() moves on, outside the child loop.
LEMMA WaitInvMoves ==
    ASSUME TypeOK, WaitInv, NEW s \in Service, NEW pc,
           stoppc' = [stoppc EXCEPT ![s] = pc], pc \notin {"idle", "on_stop"},
           stoppc[s] \notin {"idle", "stop_child", "returned", "raised"},
           UNCHANGED <<stopkid, stopper, stoptask>>, interrupted \subseteq interrupted'
    PROVE  WaitInv'
<1>1. \A t \in Service : stoppc'[t] = IF t = s THEN pc ELSE stoppc[t]
  BY DEF TypeOK
<1>2. StopTasks'
  BY <1>1 DEF WaitInv, StopTasks
<1>3. StopsOf'
  BY <1>1 DEF WaitInv, StopsOf, Ended
<1> QED
  BY <1>2, <1>3 DEF WaitInv

\* The child loop goes on: it is cut short, or done with the child it stood at.
LEMMA WaitInvStopChildren ==
    ASSUME TypeOK, TreeInv, WaitInv, NEW s \in Service, NEW i \in Int,
           StopChildren(s, i), stoppc[s] \in {"on_stop", "stop_child"},
           stopper' = stopper, interrupted \subseteq interrupted',
           s \notin interrupted' /\ stoppc[s] = "stop_child"
             => /\ stopkid[s] \notin stoptask
                /\ stopper[stopkid[s]] = s => Ended(stoppc[stopkid[s]])
    PROVE  WaitInv'
<1>1. \E pc \in {"stop_child", "wait_shutdown", "exit_stacks", "drain"} :
        stoppc' = [stoppc EXCEPT ![s] = pc]
  BY DEF StopChildren, StopFutures
<1>2. \A t \in Service : t # s => stoppc'[t] = stoppc[t] /\ stopkid'[t] = stopkid[t]
  BY <1>1 DEF StopChildren, TypeOK
<1>3. stoppc'[s] \notin {"idle", "on_stop"}
  BY <1>1 DEF TypeOK
<1>4. ASSUME NEW k \in Service, stopper[k] = s, s \notin interrupted'
      PROVE  Ended(stoppc[k]) /\ k # s
  <2>1. stoppc[s] = "stop_child" /\ (Ended(stoppc[k]) \/ stopkid[s] = k)
    BY <1>4 DEF WaitInv, StopsOf, Ended
  <2> QED
    BY <1>4, <2>1 DEF Ended
<1>5. StopsOf'
  <2> SUFFICES ASSUME NEW t \in Service, NEW k \in Service, stopper[k] = t,
                      t \notin interrupted'
               PROVE  /\ stoppc'[t] \notin {"idle", "on_stop"}
                      /\ \/ Ended(stoppc'[k])
                         \/ stoppc'[t] = "stop_child" /\ stopkid'[t] = k
    BY DEF StopsOf
  <2>1. CASE t = s
    BY <1>2, <1>3, <1>4, <2>1
  <2>2. CASE t # s
    <3>1. /\ stoppc[t] \notin {"idle", "on_stop"}
          /\ Ended(stoppc[k]) \/ (stoppc[t] = "stop_child" /\ stopkid[t] = k)
      BY DEF WaitInv, StopsOf
    <3>2. ~Ended(stoppc[s])
      BY DEF Ended
    <3> QED
      BY <1>2, <2>2, <3>1, <3>2
  <2> QED
    BY <2>1, <2>2
<1>6. StopTasks'
  <2> SUFFICES ASSUME NEW t \in Service, NEW k \in Service, k \in stoptask',
                      k \in Declared(t), t \notin interrupted'
               PROVE  stoppc'[t] = "stop_child" /\ stopkid'[t] = k
    BY DEF StopTasks
  <2>1. CASE k \in stoptask
    <3>1. stoppc[t] = "stop_child" /\ stopkid[t] = k
      BY <2>1 DEF WaitInv, StopTasks
    <3>2. t # s
      BY <2>1, <3>1
    <3> QED
      BY <1>2, <3>1, <3>2
  <2>2. CASE k \notin stoptask
    <3>1. /\ i \in 1 .. Len(children[s]) /\ k = children[s][i]
          /\ stoppc'[s] = "stop_child" /\ stopkid'[s] = k
      BY <2>2 DEF StopChildren, TypeOK
    <3>2. k \in Declared(s)
      <4>1. children[s] \in Seq(Service)
        BY DEF TypeOK
      <4>2. i \in DOMAIN children[s]
        BY <3>1, <4>1
      <4>3. k \in Kids(s)
        BY <3>1, <4>2 DEF Kids, Elems
      <4> QED
        BY <4>3 DEF TreeInv, KidsDeclared
    <3>3. t = s
      BY <3>2, OneParentOf
    <3> QED
      BY <3>1, <3>3
  <2> QED
    BY <2>1, <2>2
<1> QED
  BY <1>5, <1>6 DEF WaitInv

LEMMA WaitInvStop ==
    ASSUME TypeOK, TreeInv, WaitInv, NEW s \in Service, StopStep(s) \/ StopCancelled(s)
    PROVE  WaitInv'
<1>1. StopFlag
  BY DEF TreeInv
<1>2. Len(children[s]) \in Int /\ stopidx[s] - 1 \in Int
  BY DEF TypeOK
<1>3. CASE OnStopDone(s)
  BY <1>2, <1>3, WaitInvStopChildren DEF OnStopDone
<1>4. CASE RunStopTask(s)
  <2>1. UNCHANGED <<stopkid, interrupted>> /\ stoptask' \subseteq stoptask /\ s \in stoptask
    BY <1>4 DEF RunStopTask
  <2>2. CASE \E t \in Service : s \in Declared(t) /\ BeginStop(s, t)
    BY <1>1, <2>1, <2>2, WaitInvBeginStop
  <2>3. CASE UNCHANGED <<stopped, stoppc, stopper>>
    BY <2>1, <2>3 DEF WaitInv, StopTasks, StopsOf
  <2> QED
    BY <1>4, <2>2, <2>3 DEF RunStopTask
<1>5. CASE ChildStopped(s)
  BY <1>2, <1>5, WaitInvStopChildren DEF ChildStopped
<1>6. ASSUME UNCHANGED <<stopkid, stopper, stoptask>>, interrupted \subseteq interrupted',
             stoppc[s] \notin {"idle", "stop_child", "returned", "raised"},
             \E pc \in {"exit_stacks", "drain", "gather_start", "gather", "on_shutdown",
                        "returned", "raised"} : stoppc' = [stoppc EXCEPT ![s] = pc]
      PROVE  WaitInv'
  BY <1>6, WaitInvMoves
<1>7. CASE ShutdownReceived(s)
  BY <1>6, <1>7 DEF ShutdownReceived, StopFutures
<1>8. CASE CancelFutures(s)
  BY <1>6, <1>8 DEF CancelFutures
<1>9. CASE GatherFutures(s) \/ FuturesGathered(s) \/ ExitStacksClosed(s) \/ OnShutdownDone(s)
  BY <1>6, <1>9 DEF GatherFutures, FuturesGathered, ExitStacksClosed, OnShutdownDone
<1>10. CASE StopRaises(s)
  BY <1>6, <1>10 DEF StopRaises
<1>11. CASE StopCancelled(s)
  <2>1. CASE stoppc[s] = "stop_child"
    BY <1>2, <1>11, <2>1, WaitInvStopChildren DEF StopCancelled
  <2>2. CASE stoppc[s] # "stop_child"
    BY <1>6, <1>11, <2>2 DEF StopCancelled
  <2> QED
    BY <2>1, <2>2
<1> QED
  BY <1>3, <1>4, <1>5, <1>7, <1>8, <1>9, <1>10, <1>11 DEF StopStep

LEMMA WaitInvStep == TypeOK /\ TreeInv /\ WaitInv /\ [Next]_vars => WaitInv'
<1> SUFFICES ASSUME TypeOK, TreeInv, WaitInv, [Next]_vars PROVE WaitInv'
  OBVIOUS
<1> USE DEF flags, stopvars
<1>1. CASE UNCHANGED vars
  BY <1>1, WaitInvStutter DEF vars
<1>2. ASSUME NEW s \in Service, StartStep(s)
      PROVE  WaitInv'
  BY <1>2, WaitInvStutter DEF StartStep, FirstStartDone, StartDone, ChildStarted,
     StartedDone, StartRaises, StartUnwound, ContextEntered
<1>3. ASSUME NEW f \in Future, FutureStep(f)
      PROVE  WaitInv'
  BY <1>3, WaitInvStutter DEF FutureStep, AddFuture, FutureEnds, FutureRaises
<1>4. ASSUME NEW s \in Service, BeginStop(s, User),
             UNCHANGED <<stopkid, interrupted, stoptask>>
      PROVE  WaitInv'
  BY <1>4, WaitInvBeginStop, ConstantTypes DEF ConstantTypes, TreeInv
<1>5. ASSUME NEW s \in Service, StopCaller(s)
      PROVE  WaitInv'
  BY <1>4, <1>5 DEF StopCaller
<1>6. ASSUME NEW s \in Service, NEW k \in Service, RemoveDependency(s, k)
      PROVE  WaitInv'
  BY <1>4, <1>6, WaitInvStutter DEF RemoveDependency
<1>7. ASSUME NEW s \in Service,
             \/ StartCaller(s) \/ CrashCaller(s) \/ SetShutdown(s)
             \/ AddContext(s) \/ AddAsyncContext(s)
             \/ \E k \in Service : \/ AddDependency(s, k) \/ AddRuntimeDependency(s, k)
                                   \/ DependencyRemoved(s, k)
      PROVE  WaitInv'
  BY <1>7, WaitInvStutter DEF StartCaller, CrashCaller, SetShutdown, DependencyRemoved,
     AddContext, AddAsyncContext, AddDependency, AddRuntimeDependency
<1> QED
  BY <1>1, <1>2, <1>3, <1>5, <1>6, <1>7, WaitInvStop DEF Next, CallerStep

LEMMA WaitInvariant == Orderly => (Spec => []WaitInv)
<1> SUFFICES ASSUME Orderly PROVE Spec => []WaitInv
  OBVIOUS
<1> QED
  BY WaitInvInit, WaitInvStep, TypeCorrect, TreeInvariant, PTL DEF Spec

\* stop() goes on to the futures and to on_shutdown only when every child it
\* stopped has finished its own stop(), in every tree.
THEOREM ParentStopsLast == Orderly => (Spec => []ParentLast)
<1> SUFFICES ASSUME Orderly PROVE Spec => []ParentLast
  OBVIOUS
<1>1. WaitInv => ParentLast
  BY DEF WaitInv, StopsOf, ParentLast, PastChildren
<1> QED
  BY WaitInvariant, <1>1, PTL

-----------------------------------------------------------------------------
(* Children stop in reverse order.                                         *)

KidsDistinct == \A s \in Service : Distinct(children[s])

StopKidInside == \A s \in Service \ started : stopkid[s] \notin Elems(OnInit[s])

\* Children are removed when start() is over.
Removals == \A s \in Service \ started : removing \cap Dynamic[s] = {} /\ shortened[s] = 0

\* Position j is not above the loop, or may come below it when a removal is over.
Reached(s, j) == j <= stopidx[s] \/ removing \cap Dynamic[s] # {}

\* The child loop of stop(): the child it stands at is not above its position;
\* those that are not yet told to stop are below both; nothing below such a child
\* was stopped by the loop, and nothing below the child it is stopping.
LoopOrder(s, i, j) ==
    LET q == children[s]
        k == stopkid[s]
    IN  /\ q[i] = k => i <= stopidx[s]
        /\ Reached(s, j) /\ q[j] \notin stopped /\ q[j] # k
             => j < stopidx[s] /\ (q[i] = k => j < i)
        /\ i < j /\ Reached(s, j) /\ q[j] \notin stopped => stopper[q[i]] # s
        /\ i < j /\ q[j] = k /\ stopper[k] = s /\ ~Ended(stoppc[k]) => stopper[q[i]] # s

StopOrder == \A s \in Service :
    stoppc[s] = "stop_child" /\ s \notin interrupted =>
        \A i, j \in DOMAIN children[s] : LoopOrder(s, i, j)

OrderInv == KidsDistinct /\ StopKidInside /\ Removals /\ StopOrder

LEMMA DistinctConcat ==
    ASSUME NEW q \in Seq(Service), NEW r \in Seq(Service),
           Distinct(q), Distinct(r), Elems(q) \cap Elems(r) = {}
    PROVE  Distinct(q \o r)
<1> SUFFICES ASSUME NEW i \in DOMAIN (q \o r), NEW j \in DOMAIN (q \o r),
                    (q \o r)[i] = (q \o r)[j]
             PROVE  i = j
  BY DEF Distinct
<1>1. /\ i \in Nat /\ j \in Nat /\ Len(q) \in Nat /\ Len(r) \in Nat
      /\ \A m \in DOMAIN (q \o r) :
           IF m <= Len(q) THEN m \in DOMAIN q /\ (q \o r)[m] = q[m]
           ELSE m - Len(q) \in DOMAIN r /\ (q \o r)[m] = r[m - Len(q)]
  OBVIOUS
<1>2. CASE i <= Len(q) /\ j <= Len(q)
  BY <1>1, <1>2 DEF Distinct
<1>3. CASE ~(i <= Len(q)) /\ ~(j <= Len(q))
  <2>1. i - Len(q) = j - Len(q)
    BY <1>1, <1>3 DEF Distinct
  <2> QED
    BY <1>1, <2>1
<1>4. ASSUME NEW a \in DOMAIN (q \o r), NEW b \in DOMAIN (q \o r),
             a <= Len(q), ~(b <= Len(q))
      PROVE  (q \o r)[a] # (q \o r)[b]
  <2>1. (q \o r)[a] \in Elems(q) /\ (q \o r)[b] \in Elems(r)
    BY <1>1, <1>4 DEF Elems
  <2> QED
    BY <2>1
<1> QED
  BY <1>2, <1>3, <1>4

LEMMA DistinctAppend ==
    ASSUME NEW q \in Seq(Service), NEW k \in Service, Distinct(q), k \notin Elems(q)
    PROVE  Distinct(Append(q, k))
<1>1. /\ DOMAIN Append(q, k) = 1 .. Len(q) + 1
      /\ \A j \in DOMAIN Append(q, k) : j \in DOMAIN q \/ j = Len(q) + 1
      /\ \A j \in DOMAIN q : Append(q, k)[j] = q[j]
      /\ Append(q, k)[Len(q) + 1] = k
  OBVIOUS
<1> QED
  BY <1>1 DEF Distinct, Elems

LEMMA DistinctWithout ==
    ASSUME NEW q \in Seq(Service), NEW k, Distinct(q), \E i \in DOMAIN q : q[i] = k
    PROVE  Distinct(Without(q, k))
<1> DEFINE n == CHOOSE j \in DOMAIN q : q[j] = k /\ \A m \in 1 .. j-1 : q[m] # k
<1>1. /\ DOMAIN Without(q, k) = 1 .. Len(q) - 1
      /\ \A j \in 1 .. Len(q) - 1 : Without(q, k)[j] = IF j < n THEN q[j] ELSE q[j + 1]
  BY DEF Without
<1> SUFFICES ASSUME NEW a \in 1 .. Len(q) - 1, NEW b \in 1 .. Len(q) - 1,
                    (IF a < n THEN q[a] ELSE q[a + 1]) = (IF b < n THEN q[b] ELSE q[b + 1])
             PROVE  a = b
  BY <1>1 DEF Distinct
<1>2. a \in DOMAIN q /\ a + 1 \in DOMAIN q /\ b \in DOMAIN q /\ b + 1 \in DOMAIN q
  OBVIOUS
<1>0. n \in Nat
  <2>1. PICK p \in DOMAIN q : q[p] = k
    OBVIOUS
  <2>2. \A m \in 1 .. p-1 : q[m] # k
    <3>1. \A m \in 1 .. p-1 : m \in DOMAIN q /\ m # p
      BY <2>1
    <3> QED
      BY <2>1, <3>1 DEF Distinct
  <2>3. n \in DOMAIN q
    BY <2>1, <2>2
  <2> QED
    BY <2>3
<1> HIDE DEF n
<1>3. (IF a < n THEN a ELSE a + 1) = (IF b < n THEN b ELSE b + 1)
  BY <1>2 DEF Distinct
<1> QED
  BY <1>0, <1>3

\* What is left when a child is taken out keeps its order and moves down.
LEMMA WithoutOrder ==
    ASSUME NEW q \in Seq(Service), NEW k, Distinct(q), \E i \in DOMAIN q : q[i] = k
    PROVE  \E f \in [DOMAIN Without(q, k) -> DOMAIN q] :
             /\ \A j \in DOMAIN Without(q, k) : Without(q, k)[j] = q[f[j]] /\ j <= f[j]
             /\ \A i, j \in DOMAIN Without(q, k) : i < j <=> f[i] < f[j]
<1> DEFINE n == CHOOSE j \in DOMAIN q : q[j] = k /\ \A m \in 1 .. j-1 : q[m] # k
           f == [j \in 1 .. Len(q) - 1 |-> IF j < n THEN j ELSE j + 1]
<1>1. /\ DOMAIN Without(q, k) = 1 .. Len(q) - 1
      /\ \A j \in 1 .. Len(q) - 1 : Without(q, k)[j] = IF j < n THEN q[j] ELSE q[j + 1]
  BY DEF Without
<1>2. n \in Nat
  <2>1. PICK p \in DOMAIN q : q[p] = k
    OBVIOUS
  <2>2. \A m \in 1 .. p-1 : q[m] # k
    <3>1. \A m \in 1 .. p-1 : m \in DOMAIN q /\ m # p
      BY <2>1
    <3> QED
      BY <2>1, <3>1 DEF Distinct
  <2>3. n \in DOMAIN q
    BY <2>1, <2>2
  <2> QED
    BY <2>3
<1> HIDE DEF n
<1>3. \A j \in 1 .. Len(q) - 1 : j \in Nat /\ j \in DOMAIN q /\ j + 1 \in DOMAIN q
  OBVIOUS
<1>4. f \in [1 .. Len(q) - 1 -> DOMAIN q]
  BY <1>3
<1>5. \A j \in 1 .. Len(q) - 1 : Without(q, k)[j] = q[f[j]] /\ j <= f[j]
  BY <1>1, <1>2, <1>3
<1>6. \A i, j \in 1 .. Len(q) - 1 : i < j <=> f[i] < f[j]
  BY <1>2, <1>3
<1> HIDE DEF f
<1> QED
  BY <1>1, <1>4, <1>5, <1>6

LEMMA OrderInvInit == Init => OrderInv
<1> SUFFICES ASSUME Init PROVE OrderInv
  OBVIOUS
<1>1. KidsDistinct
  BY OneParent DEF OneParent, Init, KidsDistinct
<1>2. StopKidInside
  <2>1. \A s \in Service : Elems(OnInit[s]) \subseteq Service
    BY ConstantTypes DEF ConstantTypes, Elems
  <2> QED
    BY <2>1, ConstantTypes DEF ConstantTypes, Init, StopKidInside
<1>3. StopOrder /\ Removals
  BY DEF Init, StopOrder, Removals
<1> QED
  BY <1>1, <1>2, <1>3 DEF OrderInv

ordervars == <<stopped, stoppc, stopidx, stopkid, stopper, interrupted>>

\* Services start and children are added: what on_init_dependencies returns when
\* the parent starts, a new one under a parent that is not stopping.
LEMMA OrderInvGrows ==
    ASSUME TypeOK, TreeInv, CrashInv, OrderInv, started \subseteq started',
           UNCHANGED <<ordervars, removing, shortened>>,
           \A t \in Service :
             \/ children'[t] = children[t]
             \/ t \notin started /\ children'[t] = children[t] \o OnInit[t]
             \/ /\ t \notin stopped
                /\ \E k \in Service \ Kids(t) : children'[t] = Append(children[t], k)
    PROVE  OrderInv'
<1>0. \A t \in Service : children[t] \in Seq(Service) /\ OnInit[t] \in Seq(Service)
  BY ConstantTypes DEF ConstantTypes, TypeOK
<1>1. KidsDistinct'
  <2> SUFFICES ASSUME NEW t \in Service PROVE Distinct(children'[t])
    BY DEF KidsDistinct
  <2>1. Distinct(children[t]) /\ Distinct(OnInit[t])
    BY OneParent DEF OneParent, OrderInv, KidsDistinct
  <2>2. CASE t \notin started /\ children'[t] = children[t] \o OnInit[t]
    BY <1>0, <2>1, <2>2, DistinctConcat DEF CrashInv, OnInitOutside, Kids
  <2>3. ASSUME NEW k \in Service \ Kids(t), children'[t] = Append(children[t], k)
        PROVE  Distinct(children'[t])
    BY <1>0, <2>1, <2>3, DistinctAppend DEF Kids
  <2> QED
    BY <2>1, <2>2, <2>3
<1>2. StopKidInside' /\ Removals'
  BY DEF OrderInv, StopKidInside, Removals, ordervars
<1>3. StopOrder'
  <2> SUFFICES ASSUME NEW t \in Service, stoppc[t] = "stop_child", t \notin interrupted,
                      NEW i \in DOMAIN children'[t], NEW j \in DOMAIN children'[t]
               PROVE  LoopOrder(t, i, j)'
    BY DEF StopOrder, ordervars
  <2>1. \A x, y \in DOMAIN children[t] : LoopOrder(t, x, y)
    BY DEF OrderInv, StopOrder
  <2>2. t \in stopped /\ stopidx[t] \in 1 .. Len(children[t]) + shortened[t]
    BY DEF TreeInv, StopFlag, StopLoop
  <2>3. CASE children'[t] = children[t]
    BY <2>1, <2>3 DEF LoopOrder, Reached, Ended, ordervars
  <2>4. CASE t \notin started /\ children'[t] = children[t] \o OnInit[t]
    <3> DEFINE q == children[t]
               r == OnInit[t]
    <3>0. q \in Seq(Service) /\ r \in Seq(Service)
      BY <1>0
    <3>1. /\ stopkid[t] \notin Elems(r)
          /\ shortened[t] = 0 /\ removing \cap Dynamic[t] = {}
      BY <2>4 DEF OrderInv, StopKidInside, Removals
    <3>2. /\ Len(q) \in Nat /\ DOMAIN q = 1 .. Len(q)
          /\ \A m \in DOMAIN q : m \in DOMAIN (q \o r) /\ (q \o r)[m] = q[m]
          /\ \A m \in DOMAIN (q \o r) : m \notin DOMAIN q => (q \o r)[m] \in Elems(r)
      <4> HIDE DEF q, r
      <4> QED
        BY <3>0, ElemsConcat
    <3>3. \A m \in DOMAIN (q \o r) : m \in Nat \ {0}
      BY <1>0
    <3>6. children'[t] = q \o r
      BY <2>4 DEF q, r
    <3>7. stopidx[t] \in 1 .. Len(q)
      BY <2>2, <3>1, <3>2
    <3>8. \A x, y \in DOMAIN q : LoopOrder(t, x, y)
      BY <2>1
    <3>9. \A m \in DOMAIN (q \o r) : m \notin DOMAIN q =>
             /\ (q \o r)[m] # stopkid[t] /\ ~(m <= stopidx[t])
             /\ \A x \in DOMAIN q : x < m
      <4> SUFFICES ASSUME NEW m \in DOMAIN (q \o r), m \notin DOMAIN q
                   PROVE  /\ (q \o r)[m] # stopkid[t] /\ ~(m <= stopidx[t])
                          /\ \A x \in DOMAIN q : x < m
        OBVIOUS
      <4>1. (q \o r)[m] # stopkid[t]
        BY <3>1, <3>2
      <4> HIDE DEF q, r
      <4>2. m \in Nat \ {0} /\ m \notin 1 .. Len(q)
        BY <3>2, <3>3
      <4> QED
        BY <3>2, <3>7, <4>1, <4>2
    <3>10. i \in DOMAIN (q \o r) /\ j \in DOMAIN (q \o r) /\ i \in Nat /\ j \in Nat
      BY <3>3, <3>6
    <3>11. CASE i \in DOMAIN q /\ j \in DOMAIN q
      <4>1. LoopOrder(t, i, j) /\ (q \o r)[i] = q[i] /\ (q \o r)[j] = q[j]
        BY <3>2, <3>8, <3>11
      <4> QED
        BY <3>6, <4>1 DEF LoopOrder, Reached, Ended, ordervars
    <3>12. CASE j \notin DOMAIN q
      <4>1. (q \o r)[j] # stopkid[t] /\ ~(j <= stopidx[t])
        BY <3>9, <3>10, <3>12
      <4>2. (q \o r)[i] = stopkid[t] => i <= stopidx[t]
        <5>1. CASE i \in DOMAIN q
          <6>1. q[i] = stopkid[t] => i <= stopidx[t]
            BY <3>8, <5>1 DEF LoopOrder
          <6> QED
            BY <3>2, <5>1, <6>1
        <5>2. CASE i \notin DOMAIN q
          BY <3>9, <3>10, <5>2
        <5> QED
          BY <5>1, <5>2
      <4> HIDE DEF q, r
      <4> QED
        BY <3>1, <3>6, <4>1, <4>2 DEF LoopOrder, Reached, ordervars
    <3>13. CASE i \notin DOMAIN q /\ j \in DOMAIN q
      <4>1. /\ (q \o r)[i] # stopkid[t] /\ j < i
            /\ (q \o r)[j] = q[j]
        BY <3>2, <3>9, <3>10, <3>13
      <4>2. ~(i < j)
        BY <3>10, <4>1
      <4>3. LoopOrder(t, j, j)
        BY <3>8, <3>13
      <4>4. Reached(t, j) /\ q[j] \notin stopped /\ q[j] # stopkid[t] => j < stopidx[t]
        BY <4>3 DEF LoopOrder, q
      <4> HIDE DEF q, r
      <4> QED
        BY <3>6, <4>1, <4>2, <4>4 DEF LoopOrder, Reached, ordervars
    <3> QED
      BY <3>11, <3>12, <3>13
  <2> QED
    BY <2>2, <2>3, <2>4
<1> QED
  BY <1>1, <1>2, <1>3 DEF OrderInv

\* A child is taken out of the list of a service that is not stopping, or at the
\* end of a removal.
LEMMA OrderInvRemove ==
    ASSUME TypeOK, TreeInv, OrderInv, NEW s \in started, s \in Service, NEW k,
           TakeOut(s, k), removing' \subseteq removing,
           s \notin stopped \/ removing \cap Dynamic[s] # {},
           UNCHANGED <<started, ordervars>>
    PROVE  OrderInv'
<1> DEFINE q == children[s]
           r == Without(q, k)
<1>1. \A t \in Service : /\ t # s => children'[t] = children[t]
                         /\ t # s => shortened'[t] = shortened[t]
                         /\ t # s => children[t]' = children[t]
  BY DEF TakeOut, TypeOK
<1>2. StopKidInside' /\ Removals'
  BY <1>1 DEF OrderInv, StopKidInside, Removals, ordervars
<1>3. \A t \in Service, j \in Nat : Reached(t, j)' => Reached(t, j)
  BY DEF Reached, ordervars
<1>4. \A t \in Service : \A i, j : (t # s \/ k \notin Kids(s)) /\ j \in DOMAIN children[t]
                        /\ LoopOrder(t, i, j) => LoopOrder(t, i, j)'
  <2> SUFFICES ASSUME NEW t \in Service, NEW i, NEW j, t # s \/ k \notin Kids(s),
                      j \in DOMAIN children[t], LoopOrder(t, i, j)
               PROVE  LoopOrder(t, i, j)'
    OBVIOUS
  <2>1. children'[t] = children[t]
    BY <1>1 DEF TakeOut, TypeOK
  <2>2. j \in Nat
    <3>1. children[t] \in Seq(Service)
      BY DEF TypeOK
    <3> QED
      BY <3>1
  <2>3. Reached(t, j)' => Reached(t, j)
    BY <1>3, <2>2
  <2> QED
    BY <2>1, <2>3 DEF LoopOrder, Ended, ordervars
<1>5. CASE k \notin Kids(s)
  <2>1. children' = children
    BY <1>5 DEF TakeOut, TypeOK
  <2>2. StopOrder'
    BY <1>4, <1>5, <2>1 DEF OrderInv, StopOrder, ordervars
  <2> QED
    BY <1>2, <2>1, <2>2 DEF OrderInv, KidsDistinct
<1>6. CASE k \in Kids(s)
  <2>0. q \in Seq(Service) /\ (\E i \in DOMAIN q : q[i] = k) /\ Distinct(q)
    BY <1>6 DEF TypeOK, Kids, Elems, OrderInv, KidsDistinct
  <2>1. children'[s] = r
    BY <1>6 DEF TakeOut, TypeOK
  <2>2. Distinct(r)
    BY <2>0, DistinctWithout
  <2>3. KidsDistinct'
    BY <1>1, <2>1, <2>2 DEF OrderInv, KidsDistinct
  <2>4. StopOrder'
    <3> SUFFICES ASSUME NEW t \in Service, stoppc[t] = "stop_child", t \notin interrupted,
                        NEW i \in DOMAIN children'[t], NEW j \in DOMAIN children'[t]
                 PROVE  LoopOrder(t, i, j)'
      BY DEF StopOrder, ordervars
    <3>1. \A x, y \in DOMAIN children[t] : LoopOrder(t, x, y)
      BY DEF OrderInv, StopOrder
    <3>2. CASE t # s
      BY <1>1, <1>4, <3>1, <3>2
    <3>3. CASE t = s
      <4>1. removing \cap Dynamic[s] # {}
        BY <3>3 DEF TreeInv, StopFlag
      <4>2. PICK f \in [DOMAIN r -> DOMAIN q] :
               /\ \A m \in DOMAIN r : r[m] = q[f[m]] /\ m <= f[m]
               /\ \A x, y \in DOMAIN r : x < y <=> f[x] < f[y]
        BY <2>0, WithoutOrder
      <4>3. /\ i \in DOMAIN r /\ j \in DOMAIN r /\ f[i] \in DOMAIN q /\ f[j] \in DOMAIN q
            /\ r[i] = q[f[i]] /\ r[j] = q[f[j]] /\ i <= f[i] /\ j <= f[j]
            /\ i < j <=> f[i] < f[j]
            /\ j < i <=> f[j] < f[i]
        BY <2>1, <3>3, <4>2
      <4>4. /\ f[i] \in Nat /\ f[j] \in Nat /\ i \in Nat /\ j \in Nat /\ stopidx[s] \in Nat
        <5>1. r \in Seq(Service)
          BY <2>0, WithoutShifts
        <5>2. \A m \in DOMAIN r : m \in Nat
          BY <5>1
        <5>3. \A m \in DOMAIN q : m \in Nat
          BY <2>0
        <5> QED
          BY <4>3, <5>2, <5>3 DEF TypeOK
      <4>5. LoopOrder(s, f[i], f[j])
        BY <3>1, <3>3, <4>3
      <4>6. Reached(s, f[j])
        BY <4>1 DEF Reached
      <4> HIDE DEF r
      <4>7. /\ r[i] = stopkid[s] => i <= stopidx[s]
            /\ r[j] \notin stopped /\ r[j] # stopkid[s]
                 => j < stopidx[s] /\ (r[i] = stopkid[s] => j < i)
            /\ i < j /\ r[j] \notin stopped => stopper[r[i]] # s
            /\ i < j /\ r[j] = stopkid[s] /\ stopper[stopkid[s]] = s
                 /\ ~Ended(stoppc[stopkid[s]]) => stopper[r[i]] # s
        BY <4>3, <4>4, <4>5, <4>6 DEF LoopOrder
      <4> QED
        BY <2>1, <3>3, <4>7 DEF LoopOrder, Ended, ordervars
    <3> QED
      BY <3>2, <3>3
  <2> QED
    BY <1>2, <2>3, <2>4 DEF OrderInv
<1> QED
  BY <1>5, <1>6

\* A stop() begins: it was called from outside, or the task that the parent's
\* loop made runs.
LEMMA OrderInvBeginStop ==
    ASSUME TypeOK, TreeInv, WaitInv, OrderInv, NEW k \in Service, NEW by,
           BeginStop(k, by),
           UNCHANGED <<started, children, stopidx, stopkid, interrupted, shortened>>,
           by \in Service => k \in Declared(by) /\ k \in stoptask,
           \/ removing' = removing
           \/ \E t \in Service : /\ t \in started /\ t \notin stopped /\ k \in Dynamic[t]
                                 /\ removing' = removing \cup {k}
    PROVE  OrderInv'
<1>1. \A s \in Service : /\ stoppc'[s] = IF s = k THEN "on_stop" ELSE stoppc[s]
                         /\ stopper'[s] = IF s = k THEN by ELSE stopper[s]
  BY DEF BeginStop, TypeOK
<1>2. \A s \in Service : s \notin started \/ s \in stopped
        => removing' \cap Dynamic[s] = removing \cap Dynamic[s]
  BY OneParentOf DEF Declared
<1>3. KidsDistinct' /\ StopKidInside' /\ Removals'
  BY <1>2 DEF OrderInv, KidsDistinct, StopKidInside, Removals
<1>4. StopOrder'
  <2> SUFFICES ASSUME NEW s \in Service, stoppc'[s] = "stop_child", s \notin interrupted,
                      NEW i \in DOMAIN children[s], NEW j \in DOMAIN children[s]
               PROVE  LoopOrder(s, i, j)'
    BY DEF StopOrder
  <2> DEFINE q == children[s]
  <2>1. stoppc[s] = "stop_child" /\ s \in stopped
    BY <1>1 DEF TreeInv, StopFlag
  <2>2. LoopOrder(s, i, j) /\ LoopOrder(s, j, i)
    BY <2>1 DEF OrderInv, StopOrder
  <2>3. by = s => stopkid[s] = k
    BY DEF WaitInv, StopTasks
  <2>4. /\ q[i] \in Service /\ q[j] \in Service /\ i \in Nat /\ j \in Nat
        /\ stopidx[s] \in Nat
    <3>1. q \in Seq(Service) /\ stopidx[s] \in Nat
      BY DEF TypeOK
    <3> QED
      BY <3>1
  <2>5. q[i] = q[j] => i = j
    BY DEF OrderInv, KidsDistinct, Distinct
  <2>6. Reached(s, j)' <=> Reached(s, j)
    BY <1>2, <2>1 DEF Reached
  <2>7. stopped' = stopped \cup {k} /\ k \notin stopped
    BY DEF BeginStop
  <2> HIDE DEF q
  <2>8. i < j /\ Reached(s, j) /\ q[j] \notin stopped' => stopper'[q[i]] # s
    <3> SUFFICES ASSUME i < j, Reached(s, j), q[j] \notin stopped', stopper'[q[i]] = s
                 PROVE  FALSE
      OBVIOUS
    <3>1. stopper[q[i]] # s
      BY <2>2, <2>7 DEF LoopOrder, q
    <3>2. q[i] = k /\ by = s /\ stopkid[s] = k
      BY <1>1, <2>3, <2>4, <3>1
    <3>3. q[j] # stopkid[s]
      BY <2>4, <2>5, <3>2
    <3>4. j < i
      BY <2>2, <2>7, <3>2, <3>3 DEF LoopOrder, q
    <3> QED
      BY <2>4, <3>4
  <2>9. i < j /\ q[j] = stopkid[s] /\ stopper'[stopkid[s]] = s /\ ~Ended(stoppc'[stopkid[s]])
          => stopper'[q[i]] # s
    <3> SUFFICES ASSUME i < j, q[j] = stopkid[s], stopper'[stopkid[s]] = s,
                        ~Ended(stoppc'[stopkid[s]])
                 PROVE  stopper'[q[i]] # s
      OBVIOUS
    <3>1. q[i] # stopkid[s]
      BY <2>4, <2>5
    <3>2. CASE stopkid[s] = k
      <4>1. j <= stopidx[s] /\ q[j] \notin stopped
        BY <2>2, <2>7, <3>2 DEF LoopOrder, q
      <4>2. stopper[q[i]] # s
        BY <2>2, <4>1 DEF LoopOrder, Reached, q
      <4> QED
        BY <1>1, <2>4, <3>1, <3>2, <4>2
    <3>3. CASE stopkid[s] # k
      <4>1. stopper[stopkid[s]] = s /\ stoppc'[stopkid[s]] = stoppc[stopkid[s]]
        BY <1>1, <2>4, <3>3
      <4>2. stopper[q[i]] # s
        BY <2>2, <4>1 DEF LoopOrder, q
      <4> QED
        BY <1>1, <2>3, <2>4, <3>3, <4>2
    <3> QED
      BY <3>2, <3>3
  <2>10. /\ q[i] = stopkid[s] => i <= stopidx[s]
         /\ Reached(s, j) /\ q[j] \notin stopped' /\ q[j] # stopkid[s]
              => j < stopidx[s] /\ (q[i] = stopkid[s] => j < i)
    BY <2>2, <2>7 DEF LoopOrder, q
  <2> QED
    BY <2>6, <2>8, <2>9, <2>10 DEF LoopOrder, Ended, q
<1> QED
  BY <1>3, <1>4 DEF OrderInv

\* A step of s leaves the loops of the others alone.
LEMMA OrderInvOthers ==
    ASSUME TypeOK, OrderInv, NEW s \in Service, NEW pc,
           stoppc' = [stoppc EXCEPT ![s] = pc], ~Ended(stoppc[s]),
           interrupted \subseteq interrupted',
           \A t \in Service : t # s => /\ stopidx'[t] = stopidx[t]
                                       /\ stopkid'[t] = stopkid[t],
           UNCHANGED <<stopped, children, stopper, removing>>,
           NEW t \in Service, t # s, stoppc'[t] = "stop_child", t \notin interrupted'
    PROVE  \A i, j \in DOMAIN children'[t] : LoopOrder(t, i, j)'
<1>1. \A x \in Service : stoppc'[x] = IF x = s THEN pc ELSE stoppc[x]
  BY DEF TypeOK
<1>2. \A i, j \in DOMAIN children[t] : LoopOrder(t, i, j)
  BY <1>1 DEF OrderInv, StopOrder
<1> SUFFICES ASSUME NEW i \in DOMAIN children[t], NEW j \in DOMAIN children[t]
             PROVE  LoopOrder(t, i, j)'
  OBVIOUS
<1>3. children[t][j] \in Service
  BY DEF TypeOK
<1>4. LoopOrder(t, i, j)
  BY <1>2
<1>5. Reached(t, j)' <=> Reached(t, j)
  BY DEF Reached
<1>6. children[t][j] = stopkid[t] /\ ~Ended(stoppc'[stopkid[t]]) => ~Ended(stoppc[stopkid[t]])
  BY <1>1, <1>3
<1> QED
  BY <1>4, <1>5, <1>6 DEF LoopOrder, Ended

\* stop() moves on, outside the child loop.
LEMMA OrderInvMoves ==
    ASSUME TypeOK, OrderInv, NEW s \in Service, NEW pc, pc # "stop_child",
           stoppc' = [stoppc EXCEPT ![s] = pc], ~Ended(stoppc[s]),
           interrupted \subseteq interrupted',
           UNCHANGED <<started, stopped, children, stopidx, stopkid, stopper, removing,
                       shortened>>
    PROVE  OrderInv'
<1>1. \A t \in Service : stoppc'[t] = IF t = s THEN pc ELSE stoppc[t]
  BY DEF TypeOK
<1>2. KidsDistinct' /\ StopKidInside' /\ Removals'
  BY DEF OrderInv, KidsDistinct, StopKidInside, Removals
<1>3. StopOrder'
  <2> SUFFICES ASSUME NEW t \in Service, stoppc'[t] = "stop_child", t \notin interrupted'
               PROVE  \A i, j \in DOMAIN children'[t] : LoopOrder(t, i, j)'
    BY DEF StopOrder
  <2> QED
    BY <1>1, OrderInvOthers
<1> QED
  BY <1>2, <1>3 DEF OrderInv

\* The child loop goes on: what is not told to stop is not above the new position.
LEMMA OrderInvStopChildren ==
    ASSUME TypeOK, CrashInv, OrderInv, NEW s \in Service, NEW i \in Int,
           StopChildren(s, i), ~Ended(stoppc[s]), interrupted \subseteq interrupted',
           UNCHANGED <<started, stopped, children, stopper, removing, shortened>>,
           s \notin interrupted' =>
             /\ \A y \in DOMAIN children[s] :
                  (y <= i \/ removing \cap Dynamic[s] # {}) /\ children[s][y] \notin stopped
                    => /\ y <= i
                       /\ \A x \in DOMAIN children[s] : x < y => stopper[children[s][x]] # s
             /\ i \in DOMAIN children[s] /\ stopper[children[s][i]] = s
                  => Ended(stoppc[children[s][i]])
    PROVE  OrderInv'
<1>0. /\ children[s] \in Seq(Service) /\ Len(children[s]) \in Nat
      /\ DOMAIN children[s] = 1 .. Len(children[s])
  BY DEF TypeOK
<1>1. KidsDistinct' /\ Removals'
  BY DEF OrderInv, KidsDistinct, Removals
<1>2. CASE i \in 1 .. Len(children[s])
  <2>1. /\ stoppc' = [stoppc EXCEPT ![s] = "stop_child"]
        /\ \A t \in Service :
           /\ stopidx'[t] = IF t = s THEN i ELSE stopidx[t]
           /\ stopkid'[t] = IF t = s THEN children[s][i] ELSE stopkid[t]
    BY <1>2 DEF StopChildren, TypeOK
  <2>2. children[s][i] \in Kids(s)
    BY <1>0, <1>2 DEF Kids, Elems
  <2>3. StopKidInside'
    BY <2>1, <2>2 DEF OrderInv, StopKidInside, CrashInv, OnInitOutside
  <2>4. StopOrder'
    <3> SUFFICES ASSUME NEW t \in Service, stoppc'[t] = "stop_child",
                        t \notin interrupted'
                 PROVE  \A x, y \in DOMAIN children'[t] : LoopOrder(t, x, y)'
      BY DEF StopOrder
    <3>1. CASE t # s
      BY <2>1, <3>1, OrderInvOthers
    <3>2. CASE t = s
      <4> SUFFICES ASSUME NEW x \in DOMAIN children[s], NEW y \in DOMAIN children[s]
                   PROVE  LoopOrder(s, x, y)'
        BY <3>2
      <4> DEFINE q == children[s]
      <4>1. Distinct(q)
        BY DEF OrderInv, KidsDistinct
      <4>2. /\ q[x] = q[i] => x = i
            /\ q[y] = q[i] => y = i
        BY <1>0, <1>2, <4>1 DEF Distinct
      <4>3. /\ (y <= i \/ removing \cap Dynamic[s] # {}) /\ q[y] \notin stopped
                 => y <= i /\ (x < y => stopper[q[x]] # s)
            /\ stopper[q[i]] = s => Ended(stoppc[q[i]])
        BY <1>0, <1>2, <3>2
      <4>4. x \in Nat /\ y \in Nat
        BY <1>0
      <4>5. q[i] \in Service /\ stoppc'[q[i]] = IF q[i] = s THEN "stop_child" ELSE stoppc[q[i]]
        BY <1>0, <1>2, <2>1 DEF TypeOK
      <4>6. stopper[q[i]] = s /\ ~Ended(stoppc'[q[i]]) => FALSE
        <5>1. Ended(stoppc[s]) => FALSE
          OBVIOUS
        <5> QED
          BY <4>3, <4>5, <5>1
      <4>7. Reached(s, y)' <=> (y <= i \/ removing \cap Dynamic[s] # {})
        BY <2>1 DEF Reached
      <4>8. stopkid'[s] = q[i] /\ stopidx'[s] = i
        BY <2>1
      <4> HIDE DEF q
      <4>9. /\ q[x] = q[i] => x <= i
            /\ Reached(s, y)' /\ q[y] \notin stopped /\ q[y] # q[i]
                 => y < i /\ (q[x] = q[i] => y < x)
            /\ x < y /\ Reached(s, y)' /\ q[y] \notin stopped => stopper[q[x]] # s
        BY <4>2, <4>3, <4>4, <4>7
      <4> QED
        BY <4>6, <4>8, <4>9 DEF LoopOrder, Ended, q
    <3> QED
      BY <3>1, <3>2
  <2> QED
    BY <1>1, <2>3, <2>4 DEF OrderInv
<1>3. CASE i \notin 1 .. Len(children[s])
  <2>1. /\ stopkid' = [stopkid EXCEPT ![s] = None] /\ stopidx' = stopidx
        /\ \E pc \in {"wait_shutdown", "exit_stacks", "drain"} :
             stoppc' = [stoppc EXCEPT ![s] = pc]
    BY <1>3 DEF StopChildren, StopFutures
  <2>2. /\ stoppc'[s] # "stop_child" /\ stopkid'[s] = None
        /\ \A t \in Service : t # s => stoppc'[t] = stoppc[t] /\ stopkid'[t] = stopkid[t]
    BY <2>1 DEF TypeOK
  <2>3. None \notin Elems(OnInit[s])
    BY ConstantTypes DEF ConstantTypes, Elems
  <2>4. StopKidInside'
    BY <2>2, <2>3 DEF OrderInv, StopKidInside
  <2>5. StopOrder'
    <3> SUFFICES ASSUME NEW t \in Service, stoppc'[t] = "stop_child",
                        t \notin interrupted'
                 PROVE  \A x, y \in DOMAIN children'[t] : LoopOrder(t, x, y)'
      BY DEF StopOrder
    <3>1. t # s
      BY <2>2
    <3>2. PICK pc \in {"wait_shutdown", "exit_stacks", "drain"} :
             stoppc' = [stoppc EXCEPT ![s] = pc]
      BY <2>1
    <3>3. /\ \A x \in Service : x # s => stopidx'[x] = stopidx[x] /\ stopkid'[x] = stopkid[x]
      BY <2>1, <2>2
    <3> QED
      BY <3>1, <3>2, <3>3, OrderInvOthers
  <2> QED
    BY <1>1, <2>4, <2>5 DEF OrderInv
<1> QED
  BY <1>2, <1>3

LEMMA OrderInvStop ==
    ASSUME TypeOK, TreeInv, CrashInv, WaitInv, OrderInv, NEW s \in Service,
           StopStep(s) \/ StopCancelled(s)
    PROVE  OrderInv'
<1> USE DEF flags, startvars
<1>1. /\ Len(children[s]) \in Int /\ stopidx[s] \in Nat /\ stopidx[s] - 1 \in Int
      /\ \A j \in DOMAIN children[s] : /\ j \in Nat /\ j <= Len(children[s])
                                       /\ children[s][j] \in Service
  BY DEF TypeOK
<1>2. CASE OnStopDone(s)
  <2>1. s \notin interrupted => \A j \in DOMAIN children[s] : stopper[children[s][j]] # s
    BY <1>1, <1>2 DEF OnStopDone, WaitInv, StopsOf
  <2>2. /\ StopChildren(s, Len(children[s])) /\ ~Ended(stoppc[s])
        /\ UNCHANGED <<started, stopped, children, stopper, interrupted, removing, shortened>>
    BY <1>2 DEF OnStopDone, Ended
  <2> QED
    BY <1>1, <2>1, <2>2, OrderInvStopChildren
<1>3. CASE RunStopTask(s)
  <2>1. /\ UNCHANGED <<started, children, stopidx, stopkid, interrupted, removing, shortened>>
        /\ s \in stoptask
    BY <1>3 DEF RunStopTask
  <2>2. CASE \E t \in Service : s \in Declared(t) /\ BeginStop(s, t)
    BY <2>1, <2>2, OrderInvBeginStop
  <2>3. CASE UNCHANGED <<stopped, stoppc, stopper>>
    BY <2>1, <2>3, OrderInvGrows DEF ordervars
  <2> QED
    BY <1>3, <2>2, <2>3 DEF RunStopTask
<1>4. CASE ChildStopped(s)
  <2>1. /\ StopChildren(s, stopidx[s] - 1) /\ ~Ended(stoppc[s]) /\ stoppc[s] = "stop_child"
        /\ stopkid[s] \notin stoptask
        /\ stopper[stopkid[s]] = s => Ended(stoppc[stopkid[s]])
        /\ UNCHANGED <<started, stopped, children, stopper, interrupted, removing, shortened>>
    BY <1>4 DEF ChildStopped, Ended
  <2>2. ASSUME s \notin interrupted, NEW y \in DOMAIN children[s],
               y <= stopidx[s] - 1 \/ removing \cap Dynamic[s] # {},
               children[s][y] \notin stopped
        PROVE  /\ y <= stopidx[s] - 1
               /\ \A x \in DOMAIN children[s] : x < y => stopper[children[s][x]] # s
    <3>1. stopkid[s] \in stopped
      BY <2>1, <2>2 DEF TreeInv, StopLoop
    <3>2. Reached(s, y)
      BY <1>1, <2>2 DEF Reached
    <3>3. \A x \in DOMAIN children[s] : LoopOrder(s, x, y)
      BY <2>1, <2>2 DEF OrderInv, StopOrder
    <3>4. y < stopidx[s]
      BY <2>2, <3>1, <3>2, <3>3 DEF LoopOrder
    <3>5. \A x \in DOMAIN children[s] : x < y => stopper[children[s][x]] # s
      BY <2>2, <3>2, <3>3 DEF LoopOrder
    <3> QED
      BY <1>1, <3>4, <3>5
  <2>3. ASSUME s \notin interrupted, stopidx[s] - 1 \in DOMAIN children[s],
               stopper[children[s][stopidx[s] - 1]] = s
        PROVE  Ended(stoppc[children[s][stopidx[s] - 1]])
    BY <1>1, <2>1, <2>3 DEF WaitInv, StopsOf
  <2> QED
    BY <1>1, <2>1, <2>2, <2>3, OrderInvStopChildren
<1>5. ASSUME UNCHANGED <<started, stopped, children, stopidx, stopkid, stopper, removing,
                         shortened>>,
             interrupted \subseteq interrupted', ~Ended(stoppc[s]),
             \E pc \in {"exit_stacks", "drain", "gather_start", "gather", "on_shutdown",
                        "returned", "raised"} : stoppc' = [stoppc EXCEPT ![s] = pc]
      PROVE  OrderInv'
  BY <1>5, OrderInvMoves
<1>6. CASE ShutdownReceived(s)
  BY <1>5, <1>6 DEF ShutdownReceived, StopFutures, Ended
<1>7. CASE CancelFutures(s)
  BY <1>5, <1>7 DEF CancelFutures, Ended
<1>8. CASE GatherFutures(s) \/ FuturesGathered(s) \/ ExitStacksClosed(s) \/ OnShutdownDone(s)
  BY <1>5, <1>8 DEF GatherFutures, FuturesGathered, ExitStacksClosed, OnShutdownDone, Ended
<1>9. CASE StopRaises(s)
  BY <1>5, <1>9 DEF StopRaises, Ended
<1>10. CASE StopCancelled(s)
  <2>1. CASE stoppc[s] = "stop_child"
    <3>1. /\ StopChildren(s, stopidx[s] - 1) /\ ~Ended(stoppc[s])
          /\ interrupted' = interrupted \cup {s}
          /\ UNCHANGED <<started, stopped, children, stopper, removing, shortened>>
      BY <1>10, <2>1 DEF StopCancelled, Ended
    <3> QED
      BY <1>1, <3>1, OrderInvStopChildren
  <2>2. CASE stoppc[s] # "stop_child"
    BY <1>5, <1>10, <2>2 DEF StopCancelled, Ended
  <2> QED
    BY <2>1, <2>2
<1> QED
  BY <1>2, <1>3, <1>4, <1>6, <1>7, <1>8, <1>9, <1>10 DEF StopStep

\* What a start() that begins, or goes on in its child loop, does to the lists.
LEMMA StartGrows ==
    ASSUME TypeOK, NEW s \in Service,
           StartStep(s) \/ StartCaller(s)
    PROVE  /\ started \subseteq started'
           /\ UNCHANGED <<ordervars, stoptask, removing, shortened>>
           /\ \A t \in Service :
                \/ children'[t] = children[t]
                \/ t \notin started /\ children'[t] = children[t] \o OnInit[t]
<1> USE DEF flags, stopvars, ordervars
<1>1. ASSUME NEW k, k \notin started, NEW pc, BeginStart(k, pc)
      PROVE  /\ started \subseteq started'
             /\ \A t \in Service :
                  \/ children'[t] = children[t]
                  \/ t \notin started /\ children'[t] = children[t] \o OnInit[t]
  BY <1>1 DEF BeginStart, TypeOK
<1>2. ASSUME NEW i, StartChildren(s, i)
      PROVE  /\ started \subseteq started'
             /\ \A t \in Service :
                  \/ children'[t] = children[t]
                  \/ t \notin started /\ children'[t] = children[t] \o OnInit[t]
  BY <1>1, <1>2 DEF StartChildren
<1>3. CASE StartCaller(s)
  BY <1>1, <1>3 DEF StartCaller
<1>4. CASE StartDone(s)
  BY <1>2, <1>4 DEF StartDone
<1>5. CASE ChildStarted(s)
  BY <1>2, <1>5 DEF ChildStarted
<1>6. CASE \/ FirstStartDone(s) \/ StartedDone(s) \/ StartRaises(s) \/ StartUnwound(s)
           \/ ContextEntered(s)
  BY <1>6 DEF FirstStartDone, StartedDone, StartRaises, StartUnwound, ContextEntered
<1> QED
  BY <1>3, <1>4, <1>5, <1>6 DEF StartStep

LEMMA OrderInvCaller ==
    ASSUME Orderly, TypeOK, TreeInv, CrashInv, WaitInv, OrderInv, NEW s \in Service,
           CallerStep(s)
    PROVE  OrderInv'
<1> USE DEF flags, stopvars, futurevars, startvars
<1>1. CASE StartCaller(s)
  BY <1>1, StartGrows, OrderInvGrows
<1>2. CASE StopCaller(s)
  BY <1>2, OrderInvBeginStop, ConstantTypes DEF ConstantTypes, StopCaller
<1>3. CASE StopCancelled(s)
  BY <1>3, OrderInvStop
<1>4. CASE CrashCaller(s) \/ SetShutdown(s) \/ AddContext(s) \/ AddAsyncContext(s)
  <2>1. UNCHANGED <<started, children, ordervars, removing, shortened>>
    BY <1>4 DEF CrashCaller, SetShutdown, AddContext, AddAsyncContext, ordervars
  <2> QED
    BY <2>1, OrderInvGrows
<1>5. ASSUME NEW k \in Service, DependencyRemoved(s, k)
      PROVE  OrderInv'
  <2>1. /\ UNCHANGED <<started, ordervars>>
        /\ k \in removing /\ k \in Dynamic[s] /\ removing' \subseteq removing
    BY <1>5 DEF DependencyRemoved, ordervars
  <2>2. s \in started
    BY <2>1 DEF OrderInv, Removals
  <2>3. CASE stoppc[k] = "raised"
    <3>1. children' = children /\ shortened' = shortened
      BY <1>5, <2>3 DEF DependencyRemoved
    <3>2. \A t, j : Reached(t, j)' => Reached(t, j)
      BY <2>1 DEF Reached, ordervars
    <3>3. \A t, i, j : LoopOrder(t, i, j) => LoopOrder(t, i, j)'
      BY <2>1, <3>1, <3>2 DEF LoopOrder, Ended, ordervars
    <3>4. StopOrder'
      BY <2>1, <3>1, <3>3 DEF OrderInv, StopOrder, ordervars
    <3>5. Removals'
      BY <2>1, <3>1 DEF OrderInv, Removals
    <3> QED
      BY <2>1, <3>1, <3>4, <3>5 DEF OrderInv, KidsDistinct, StopKidInside, ordervars
  <2>4. CASE stoppc[k] # "raised"
    <3>1. TakeOut(s, k)
      BY <1>5, <2>4 DEF DependencyRemoved
    <3> QED
      BY <2>1, <2>2, <3>1, OrderInvRemove
  <2> QED
    BY <2>3, <2>4
<1>6. ASSUME NEW k \in Service, AddDependency(s, k)
      PROVE  OrderInv'
  <2>1. /\ s \notin stopped /\ k \in Service \ Kids(s)
        /\ UNCHANGED <<started, ordervars, removing, shortened>>
        /\ \A t \in Service : children'[t] = IF t = s THEN Append(children[s], k)
                                                      ELSE children[t]
    BY <1>6 DEF AddDependency, New, InOrder, ShouldStop, ordervars, TypeOK
  <2> QED
    BY <2>1, OrderInvGrows
<1>7. ASSUME NEW k \in Service, AddRuntimeDependency(s, k)
      PROVE  OrderInv'
  <2>1. /\ s \notin stopped /\ k \in Service \ Kids(s) /\ k \notin started
        /\ started \subseteq started'
        /\ UNCHANGED <<ordervars, removing, shortened>>
    BY <1>7 DEF AddRuntimeDependency, New, InOrder, ShouldStop, ordervars
  <2>2. CASE s \in started
    <3>1. s # k
      BY <2>1, <2>2
    <3>2. \A t \in Service : children'[t] = CASE t = s -> Append(children[s], k)
                                              [] t = k -> children[k] \o OnInit[k]
                                              [] OTHER -> children[t]
      <4>1. /\ children'[s] = Append(children[s], k)
            /\ children'[k] = children[k] \o OnInit[k]
            /\ \A t \in Service : t # s /\ t # k => children'[t] = children[t]
        BY <1>7, <2>2, <3>1 DEF AddRuntimeDependency, TypeOK
      <4> QED
        BY <3>1, <4>1, Zenon
    <3>3. ASSUME NEW t \in Service
          PROVE  \/ children'[t] = children[t]
                 \/ t \notin started /\ children'[t] = children[t] \o OnInit[t]
                 \/ /\ t \notin stopped
                    /\ \E x \in Service \ Kids(t) : children'[t] = Append(children[t], x)
      BY <2>1, <3>1, <3>2, Zenon
    <3> QED
      BY <2>1, <3>3, OrderInvGrows
  <2>3. CASE s \notin started
    <3>1. \A t \in Service : children'[t] = IF t = s THEN Append(children[s], k)
                                                     ELSE children[t]
      BY <1>7, <2>3 DEF AddRuntimeDependency, TypeOK
    <3> QED
      BY <2>1, <3>1, OrderInvGrows
  <2> QED
    BY <2>2, <2>3
<1>8. ASSUME NEW k \in Service, RemoveDependency(s, k)
      PROVE  OrderInv'
  <2>1. /\ s \notin stopped /\ s \in started /\ k \in Dynamic[s] /\ k \in Kids(s)
        /\ UNCHANGED <<started, stopidx, stopkid, interrupted>>
    BY <1>8 DEF RemoveDependency, ShouldStop, TreeInv, StartFlag
  <2>2. CASE BeginStop(k, User) /\ removing' = removing \cup {k} /\ UNCHANGED <<children, shortened>>
    BY <2>1, <2>2, OrderInvBeginStop, ConstantTypes DEF ConstantTypes
  <2>3. CASE TakeOut(s, k) /\ UNCHANGED <<stopped, stoppc, stopper, removing>>
    BY <2>1, <2>3, OrderInvRemove DEF ordervars
  <2> QED
    BY <1>8, <2>2, <2>3 DEF RemoveDependency
<1> QED
  BY <1>1, <1>2, <1>3, <1>4, <1>5, <1>6, <1>7, <1>8 DEF CallerStep

LEMMA OrderInvStep ==
    ASSUME Orderly
    PROVE  TypeOK /\ TreeInv /\ CrashInv /\ WaitInv /\ OrderInv /\ [Next]_vars
             => OrderInv'
<1> SUFFICES ASSUME TypeOK, TreeInv, CrashInv, WaitInv, OrderInv, [Next]_vars
             PROVE  OrderInv'
  OBVIOUS
<1>1. ASSUME UNCHANGED <<started, children, ordervars, removing, shortened>>
      PROVE  OrderInv'
  BY <1>1, OrderInvGrows
<1>2. CASE UNCHANGED vars
  BY <1>1, <1>2 DEF vars, flags, stopvars, ordervars
<1>3. ASSUME NEW f \in Future, FutureStep(f)
      PROVE  OrderInv'
  BY <1>1, <1>3 DEF FutureStep, AddFuture, FutureEnds, FutureRaises, flags, stopvars,
     ordervars
<1>4. ASSUME NEW s \in Service, StartStep(s)
      PROVE  OrderInv'
  BY <1>4, StartGrows, OrderInvGrows
<1> QED
  BY <1>2, <1>3, <1>4, OrderInvStop, OrderInvCaller DEF Next

\* Children are stopped one after the other, the last one first: when stop() has
\* begun to stop a child, the later ones it stopped are done, in every tree and
\* although any number of remove_dependency() calls shorten the list meanwhile,
\* in any order and at any point of the loop.
THEOREM ChildrenStopInReverse == Orderly => (Spec => []ReverseOrder)
<1> SUFFICES ASSUME Orderly PROVE Spec => []ReverseOrder
  OBVIOUS
<1>1. TypeOK /\ WaitInv /\ OrderInv => ReverseOrder
  <2> SUFFICES ASSUME TypeOK, WaitInv, OrderInv, NEW s \in Service,
                      NEW i \in DOMAIN children[s], NEW j \in DOMAIN children[s],
                      i < j, s \notin interrupted,
                      stopper[children[s][i]] = s, stopper[children[s][j]] = s,
                      ~Ended(stoppc[children[s][j]])
               PROVE  FALSE
    BY DEF ReverseOrder
  <2>1. /\ children[s][i] \in Service /\ children[s][j] \in Service
        /\ i \in Nat /\ j \in Nat /\ stopidx[s] \in Nat
    <3>1. children[s] \in Seq(Service) /\ stopidx[s] \in Nat
      BY DEF TypeOK
    <3> QED
      BY <3>1
  <2>2. stoppc[s] = "stop_child" /\ children[s][j] = stopkid[s]
    BY <2>1 DEF WaitInv, StopsOf
  <2>3. LoopOrder(s, i, j)
    BY <2>2 DEF OrderInv, StopOrder
  <2> QED
    BY <2>2, <2>3 DEF LoopOrder
<1> QED
  BY <1>1, OrderInvInit, OrderInvStep, TypeCorrect, TreeInvariant, CrashInvariant,
     WaitInvariant, PTL DEF Spec

-----------------------------------------------------------------------------
(* A start() that is over has started everything.                          *)

\* A child that only its parent starts has returned from start(), or its parent's
\* loop awaits it, or the start() of the parent failed.
StartAwaited == \A s, k \in Service :
    k \in Declared(s) \ Dynamic[s] /\ k \in started
      => \/ startpc[k] = "returned"
         \/ startpc[s] = "child" /\ startkid[s] = k
         \/ startpc[s] \in {"unwind", "raised"}

\* The child loop of start() has started everything up to its position, and past
\* the loop everything is started.
StartLoop == \A s \in Service : ~ShouldStop(s) =>
    /\ startpc[s] = "child" =>
         \A j \in DOMAIN children[s] : j <= startidx[s] => children[s][j] \in started
    /\ startpc[s] \in {"on_started", "returned"} => Kids(s) \subseteq started

RemovingStarted == \A s \in Service :
    removing \cap Dynamic[s] # {} => startpc[s] = "returned"

StartInv == StartAwaited /\ StartLoop /\ RemovingStarted

LEMMA StartInvInit == Init => StartInv
<1> SUFFICES ASSUME Init PROVE StartInv
  OBVIOUS
<1>1. StartAwaited /\ StartLoop
  BY DEF Init, StartAwaited, StartLoop
<1>2. RemovingStarted
  BY DEF Init, RemovingStarted
<1> QED
  BY <1>1, <1>2 DEF StartInv

\* Nothing starts: services stop and crash, and the list of a service that is not
\* between on_start and on_started may change, if its start() is over only by
\* losing a child.
LEMMA StartInvRest ==
    ASSUME TypeOK, StartInv, UNCHANGED <<started, startpc, startidx, startkid>>,
           stopped \subseteq stopped', crashed \subseteq crashed',
           \A t \in Service :
             \/ children'[t] = children[t]
             \/ /\ startpc[t] \notin {"child", "on_started"}
                /\ startpc[t] = "returned" => Kids(t)' \subseteq Kids(t),
           \A t \in Service : removing' \cap Dynamic[t] # {}
             => removing \cap Dynamic[t] # {} \/ startpc[t] = "returned"
    PROVE  StartInv'
<1>1. StartAwaited' /\ RemovingStarted'
  BY DEF StartInv, StartAwaited, RemovingStarted
<1>2. StartLoop'
  <2> SUFFICES ASSUME NEW t \in Service, ~ShouldStop(t)'
               PROVE  /\ startpc[t] = "child" =>
                           \A j \in DOMAIN children'[t] :
                             j <= startidx[t] => children'[t][j] \in started
                      /\ startpc[t] \in {"on_started", "returned"} =>
                           Kids(t)' \subseteq started
    BY DEF StartLoop
  <2>1. /\ startpc[t] = "child" =>
             \A j \in DOMAIN children[t] :
               j <= startidx[t] => children[t][j] \in started
        /\ startpc[t] \in {"on_started", "returned"} => Kids(t) \subseteq started
    BY DEF ShouldStop, StartInv, StartLoop
  <2> QED
    BY <2>1 DEF Kids
<1> QED
  BY <1>1, <1>2 DEF StartInv

\* start() moves on, outside the child loop or out of it.
LEMMA StartInvMoves ==
    ASSUME TypeOK, StartInv, NEW s \in Service, NEW pc \in StartPC \ {"child"},
           startpc' = [startpc EXCEPT ![s] = pc],
           startkid' \in {startkid, [startkid EXCEPT ![s] = None]},
           UNCHANGED <<started, stopped, crashed, children, startidx, removing>>,
           startpc[s] # "returned",
           startpc[s] = "child" => \/ pc = "unwind"
                                   \/ startpc[startkid[s]] = "returned",
           startpc[s] \in {"unwind", "raised"} => pc \in {"unwind", "raised"},
           pc \in {"on_started", "returned"} /\ ~ShouldStop(s)
             => Kids(s) \subseteq started
    PROVE  StartInv'
<1>1. \A t \in Service : /\ startpc'[t] = IF t = s THEN pc ELSE startpc[t]
                         /\ t # s => startkid'[t] = startkid[t]
  BY DEF TypeOK
<1>2. StartAwaited'
  <2> SUFFICES ASSUME NEW t \in Service, NEW k \in Service,
                      k \in Declared(t) \ Dynamic[t], k \in started
               PROVE  \/ startpc'[k] = "returned"
                      \/ startpc'[t] = "child" /\ startkid'[t] = k
                      \/ startpc'[t] \in {"unwind", "raised"}
    BY DEF StartAwaited
  <2>1. \/ startpc[k] = "returned"
        \/ startpc[t] = "child" /\ startkid[t] = k
        \/ startpc[t] \in {"unwind", "raised"}
    BY DEF StartInv, StartAwaited
  <2> QED
    BY <1>1, <2>1
<1>3. StartLoop'
  BY <1>1 DEF StartInv, StartLoop, ShouldStop, Kids
<1>4. RemovingStarted'
  BY <1>1 DEF StartInv, RemovingStarted
<1> QED
  BY <1>2, <1>3, <1>4 DEF StartInv

\* A service begins to start that no child loop has to start.
LEMMA StartInvBegins ==
    ASSUME TypeOK, TreeInv, StartInv, NEW k \in Service, k \notin started,
           \A t \in Service : k \notin Declared(t) \ Dynamic[t],
           started' = started \cup {k},
           startpc' = [startpc EXCEPT ![k] = "on_first_start"],
           UNCHANGED <<stopped, crashed, startidx, startkid, removing>>,
           \A t \in Service \ {k} : \/ children'[t] = children[t]
                                    \/ children'[t] = Append(children[t], k)
    PROVE  StartInv'
<1>1. /\ startpc[k] = "idle"
      /\ \A t \in Service : startpc'[t] = IF t = k THEN "on_first_start" ELSE startpc[t]
  BY DEF TreeInv, StartFlag, TypeOK
<1>2. StartAwaited'
  BY <1>1 DEF StartInv, StartAwaited
<1>3. RemovingStarted'
  BY <1>1 DEF StartInv, RemovingStarted
<1>4. StartLoop'
  <2> SUFFICES ASSUME NEW t \in Service, ~ShouldStop(t), t # k
               PROVE  /\ startpc[t] = "child" =>
                           \A j \in DOMAIN children'[t] :
                             j <= startidx[t] => children'[t][j] \in started'
                      /\ startpc[t] \in {"on_started", "returned"} =>
                           Kids(t)' \subseteq started'
    BY <1>1 DEF StartLoop, ShouldStop
  <2>1. /\ startpc[t] = "child" =>
             \A j \in DOMAIN children[t] :
               j <= startidx[t] => children[t][j] \in started
        /\ startpc[t] \in {"on_started", "returned"} => Kids(t) \subseteq started
    BY DEF StartInv, StartLoop
  <2>2. CASE children'[t] = children[t]
    BY <2>1, <2>2 DEF Kids
  <2>3. CASE children'[t] = Append(children[t], k)
    <3>1. children[t] \in Seq(Service)
      BY DEF TypeOK
    <3>2. \A j \in DOMAIN Append(children[t], k) :
             IF j \in DOMAIN children[t]
             THEN Append(children[t], k)[j] = children[t][j]
             ELSE Append(children[t], k)[j] = k
      BY <3>1
    <3>3. Kids(t)' \subseteq Kids(t) \cup {k}
      BY <2>3, <3>1, ElemsAppend DEF Kids
    <3> QED
      BY <2>1, <2>3, <3>2, <3>3
  <2> QED
    BY <2>2, <2>3
<1> QED
  BY <1>2, <1>3, <1>4 DEF StartInv

\* The child loop of start() goes on: everything before position i is started and
\* the child it stood at has returned.
LEMMA StartInvStartChildren ==
    ASSUME TypeOK, TreeInv, StartInv, NEW s \in Service, NEW i \in Nat \ {0},
           StartChildren(s, i), ~ShouldStop(s),
           UNCHANGED <<stopped, crashed, removing>>,
           startpc[s] \in {"on_start", "child"},
           startpc[s] = "child" => startpc[startkid[s]] = "returned",
           \A j \in DOMAIN children[s] : j < i => children[s][j] \in started
    PROVE  StartInv'
<1> DEFINE todo == {j \in i .. Len(children[s]) : children[s][j] \notin started}
<1>0. /\ children[s] \in Seq(Service)
      /\ \A j \in DOMAIN children[s] : j \in Nat /\ (j < i \/ j \in i .. Len(children[s]))
      /\ \A j \in i .. Len(children[s]) : j \in DOMAIN children[s] /\ j \in Nat
  <2>1. children[s] \in Seq(Service)
    BY DEF TypeOK
  <2> QED
    BY <2>1
<1>1. CASE /\ todo = {}
           /\ startpc' = [startpc EXCEPT ![s] = "on_started"]
           /\ startkid' = [startkid EXCEPT ![s] = None]
           /\ UNCHANGED <<started, children, startidx>>
  <2>1. \A j \in DOMAIN children[s] : children[s][j] \in started
    BY <1>0, <1>1
  <2>2. Kids(s) \subseteq started
    BY <2>1 DEF Kids, Elems
  <2>3. "on_started" \in StartPC \ {"child"}
    BY DEF StartPC
  <2> QED
    BY <1>1, <2>2, <2>3, StartInvMoves
<1>2. ASSUME NEW j \in todo, \A m \in todo : j <= m,
             startidx' = [startidx EXCEPT ![s] = j],
             startkid' = [startkid EXCEPT ![s] = children[s][j]],
             BeginStart(children[s][j], [startpc EXCEPT ![s] = "child"])
      PROVE  StartInv'
  <2> DEFINE k == children[s][j]
  <2>1. k \in Service /\ k \notin started /\ k \in Declared(s) /\ j \in DOMAIN children[s]
    BY <1>0 DEF TreeInv, KidsDeclared, Kids, Elems
  <2>2. s \in started /\ s # k
    BY <2>1 DEF TreeInv, StartFlag
  <2>3. startpc[k] = "idle"
    BY <2>1 DEF TreeInv, StartFlag
  <2>4. \A m \in DOMAIN children[s] : m <= j => children[s][m] \in started \cup {k}
    <3> SUFFICES ASSUME NEW m \in DOMAIN children[s], m <= j, m # j
                 PROVE  children[s][m] \in started
      OBVIOUS
    <3>1. ~(j <= m)
      BY <1>0, <2>1
    <3>2. m \notin todo
      BY <1>2, <3>1
    <3> QED
      BY <1>0, <3>2
  <2>5. \A t \in Service : k \in Declared(t) => t = s
    BY <2>1, OneParentOf
  <2>6. /\ started' = started \cup {k}
        /\ \A t \in Service :
             /\ startpc'[t] = IF t = k THEN "on_first_start"
                              ELSE IF t = s THEN "child" ELSE startpc[t]
             /\ startidx'[t] = IF t = s THEN j ELSE startidx[t]
             /\ startkid'[t] = IF t = s THEN k ELSE startkid[t]
             /\ t # k => children'[t] = children[t]
    BY <1>2, <2>1 DEF BeginStart, TypeOK
  <2> HIDE DEF k
  <2>7. StartAwaited'
    <3> SUFFICES ASSUME NEW t \in Service, NEW x \in Service,
                        x \in Declared(t) \ Dynamic[t], x \in started'
                 PROVE  \/ startpc'[x] = "returned"
                        \/ startpc'[t] = "child" /\ startkid'[t] = x
                        \/ startpc'[t] \in {"unwind", "raised"}
      BY DEF StartAwaited
    <3>1. CASE x = k
      BY <2>2, <2>5, <2>6, <3>1
    <3>2. CASE x # k
      <4>1. \/ startpc[x] = "returned"
            \/ startpc[t] = "child" /\ startkid[t] = x
            \/ startpc[t] \in {"unwind", "raised"}
        BY <2>6, <3>2 DEF StartInv, StartAwaited
      <4>2. startpc[x] = "returned" => startpc'[x] = "returned"
        BY <2>3, <2>6
      <4> QED
        BY <2>3, <2>6, <4>1, <4>2
    <3> QED
      BY <3>1, <3>2
  <2>8. StartLoop'
    <3> SUFFICES ASSUME NEW t \in Service, ~ShouldStop(t), t # k
                 PROVE  /\ startpc'[t] = "child" =>
                             \A m \in DOMAIN children[t] :
                               m <= startidx'[t] => children[t][m] \in started'
                        /\ startpc'[t] \in {"on_started", "returned"} =>
                             Kids(t) \subseteq started'
      BY <2>6 DEF StartLoop, ShouldStop, Kids
    <3>1. CASE t = s
      BY <2>4, <2>6, <3>1
    <3>2. CASE t # s
      BY <2>6, <3>2 DEF StartInv, StartLoop
    <3> QED
      BY <3>1, <3>2
  <2>9. RemovingStarted'
    BY <2>3, <2>6 DEF StartInv, RemovingStarted
  <2> QED
    BY <2>7, <2>8, <2>9 DEF StartInv
<1> QED
  BY <1>1, <1>2 DEF StartChildren

LEMMA StartInvStart ==
    ASSUME TypeOK, TreeInv, StartInv, NEW s \in Service, StartStep(s)
    PROVE  StartInv'
<1>0. UNCHANGED <<stopped, crashed, removing>>
  BY DEF StartStep, FirstStartDone, StartDone, ChildStarted, StartedDone,
     StartRaises, StartUnwound, ContextEntered, flags
<1>1. CASE StartDone(s) /\ ~ShouldStop(s)
  <2>1. \A j \in DOMAIN children[s] : ~(j < 1)
    BY DEF TypeOK
  <2> QED
    BY <1>0, <1>1, <2>1, StartInvStartChildren DEF StartDone
<1>2. CASE ChildStarted(s) /\ ~ShouldStop(s)
  <2>1. startidx[s] + 1 \in Nat \ {0}
    BY DEF TypeOK
  <2>2. \A j \in DOMAIN children[s] : j < startidx[s] + 1 => children[s][j] \in started
    <3>1. \A j \in DOMAIN children[s] : j < startidx[s] + 1 => j <= startidx[s]
      BY DEF TypeOK
    <3> QED
      BY <1>2, <3>1 DEF ChildStarted, StartInv, StartLoop
  <2> QED
    BY <1>0, <1>2, <2>1, <2>2, StartInvStartChildren DEF ChildStarted
<1> USE DEF flags, StartPC
<1>3. CASE FirstStartDone(s)
  BY <1>3, StartInvMoves DEF FirstStartDone
<1>4. CASE StartDone(s) /\ ShouldStop(s)
  BY <1>4, StartInvMoves DEF StartDone
<1>5. CASE ChildStarted(s) /\ ShouldStop(s)
  BY <1>5, StartInvMoves DEF ChildStarted
<1>6. CASE StartedDone(s)
  <2>1. ~ShouldStop(s) => Kids(s) \subseteq started
    BY <1>6 DEF StartedDone, StartInv, StartLoop
  <2> QED
    BY <1>6, <2>1, StartInvMoves DEF StartedDone
<1>7. CASE StartRaises(s)
  <2>1. startpc[s] \in {"on_first_start", "on_start", "enter_context", "on_started", "child"}
    BY <1>7 DEF StartRaises
  <2>2. \E pc \in {"raised", "unwind"} : /\ startpc' = [startpc EXCEPT ![s] = pc]
                                         /\ startpc[s] = "child" => pc = "unwind"
    BY <1>7 DEF StartRaises
  <2> QED
    BY <1>7, <2>1, <2>2, StartInvMoves DEF StartRaises
<1>8. CASE StartUnwound(s)
  BY <1>8, StartInvMoves DEF StartUnwound
<1>9. CASE ContextEntered(s)
  BY <1>9, StartInvMoves DEF ContextEntered
<1> QED
  BY <1>1, <1>2, <1>3, <1>4, <1>5, <1>6, <1>7, <1>8, <1>9 DEF StartStep

LEMMA StartInvCaller ==
    ASSUME Orderly, TypeOK, TreeInv, StartInv, NEW s \in Service, CallerStep(s)
    PROVE  StartInv'
<1> USE DEF flags, stopvars, futurevars, startvars
<1>1. CASE StartCaller(s)
  <2>1. /\ s \notin started /\ started' = started \cup {s}
        /\ startpc' = [startpc EXCEPT ![s] = "on_first_start"]
        /\ UNCHANGED <<stopped, crashed, startidx, startkid, removing>>
        /\ \A t \in Service \ {s} : children'[t] = children[t]
        /\ \A t \in Service : s \notin Declared(t)
    BY <1>1 DEF StartCaller, BeginStart, TypeOK
  <2> QED
    BY <2>1, StartInvBegins
<1>2. CASE StopCaller(s) \/ CrashCaller(s) \/ SetShutdown(s) \/ AddContext(s)
           \/ StopCancelled(s)
  <2>1. /\ UNCHANGED <<started, startpc, startidx, startkid, children, removing>>
        /\ stopped \subseteq stopped' /\ crashed \subseteq crashed'
    BY <1>2 DEF StopCaller, CrashCaller, SetShutdown, AddContext, StopCancelled,
       BeginStop, Crash
  <2> QED
    BY <2>1, StartInvRest
<1>3. ASSUME NEW k \in Service, DependencyRemoved(s, k)
      PROVE  StartInv'
  <2>1. /\ UNCHANGED <<started, startpc, startidx, startkid, stopped, crashed>>
        /\ removing' \subseteq removing /\ startpc[s] = "returned"
    BY <1>3 DEF DependencyRemoved, StartInv, RemovingStarted
  <2>2. CASE children' = children
    BY <2>1, <2>2, StartInvRest
  <2>3. CASE TakeOut(s, k)
    <3>1. \A t \in Service : Kids(t)' \subseteq Kids(t)
      BY <2>3, TakeOutShrinks
    <3>2. \A t \in Service : t # s => children'[t] = children[t]
      BY <2>3 DEF TakeOut, TypeOK
    <3> QED
      BY <2>1, <3>1, <3>2, StartInvRest
  <2> QED
    BY <1>3, <2>2, <2>3 DEF DependencyRemoved
<1>4. ASSUME NEW k \in Service, AddDependency(s, k)
      PROVE  StartInv'
  <2>1. /\ UNCHANGED <<started, startpc, startidx, startkid, stopped, crashed, removing>>
        /\ \A t \in Service : t # s => children'[t] = children[t]
        /\ startpc[s] = "on_start"
    BY <1>4 DEF AddDependency, TypeOK
  <2> QED
    BY <2>1, StartInvRest
<1>5. ASSUME NEW k \in Service, AddRuntimeDependency(s, k)
      PROVE  StartInv'
  <2>1. /\ k \in Dynamic[s] /\ k \notin started
        /\ UNCHANGED <<startidx, startkid, stopped, crashed, removing>>
    BY <1>5 DEF AddRuntimeDependency, New
  <2>2. CASE s \in started
    <3>1. \A t \in Service : k \notin Declared(t) \ Dynamic[t]
      BY <2>1, OneParentOf DEF Declared
    <3>2. s # k
      BY <2>1, <2>2
    <3>3. /\ started' = started \cup {k}
          /\ startpc' = [startpc EXCEPT ![k] = "on_first_start"]
          /\ \A t \in Service \ {k} : \/ children'[t] = children[t]
                                      \/ children'[t] = Append(children[t], k)
      <4>1. /\ started' = started \cup {k}
            /\ startpc' = [startpc EXCEPT ![k] = "on_first_start"]
            /\ children'[s] = Append(children[s], k)
            /\ \A t \in Service : t # s /\ t # k => children'[t] = children[t]
        BY <1>5, <2>2, <3>2 DEF AddRuntimeDependency, TypeOK
      <4> QED
        BY <4>1, Zenon
    <3> QED
      BY <2>1, <3>1, <3>3, StartInvBegins
  <2>3. CASE s \notin started
    <3>1. /\ UNCHANGED <<started, startpc>>
          /\ \A t \in Service : t # s => children'[t] = children[t]
      BY <1>5, <2>3 DEF AddRuntimeDependency, TypeOK
    <3>2. startpc[s] = "idle"
      BY <2>3 DEF TreeInv, StartFlag
    <3> QED
      BY <2>1, <3>1, <3>2, StartInvRest
  <2> QED
    BY <2>2, <2>3
<1>6. ASSUME NEW k \in Service, RemoveDependency(s, k)
      PROVE  StartInv'
  <2>1. /\ UNCHANGED <<started, startpc, startidx, startkid, crashed>>
        /\ stopped \subseteq stopped'
        /\ k \in Dynamic[s] /\ k \in Kids(s) /\ startpc[s] = "returned"
        /\ removing' \in {removing \cup {k}, removing}
    BY <1>6 DEF RemoveDependency, BeginStop
  <2>2. \A t \in Service : removing' \cap Dynamic[t] # {}
          => removing \cap Dynamic[t] # {} \/ startpc[t] = "returned"
    BY <2>1, OneParentOf DEF Declared
  <2>3. CASE children' = children
    BY <2>1, <2>2, <2>3, StartInvRest
  <2>4. CASE TakeOut(s, k)
    <3>1. \A t \in Service : Kids(t)' \subseteq Kids(t)
      BY <2>4, TakeOutShrinks
    <3>2. \A t \in Service : t # s => children'[t] = children[t]
      BY <2>4 DEF TakeOut, TypeOK
    <3> QED
      BY <2>1, <2>2, <3>1, <3>2, StartInvRest
  <2> QED
    BY <1>6, <2>3, <2>4 DEF RemoveDependency
<1>7. CASE AddAsyncContext(s)
  <2>1. "enter_context" \in StartPC \ {"child"}
    BY DEF StartPC
  <2> QED
    BY <1>7, <2>1, StartInvMoves DEF AddAsyncContext
<1> QED
  BY <1>1, <1>2, <1>3, <1>4, <1>5, <1>6, <1>7 DEF CallerStep

LEMMA StartInvStep ==
    ASSUME Orderly
    PROVE  TypeOK /\ TreeInv /\ StartInv /\ [Next]_vars => StartInv'
<1> SUFFICES ASSUME TypeOK, TreeInv, StartInv, [Next]_vars PROVE StartInv'
  OBVIOUS
<1>1. ASSUME UNCHANGED <<started, startpc, startidx, startkid, children, removing>>,
             stopped \subseteq stopped', crashed \subseteq crashed'
      PROVE  StartInv'
  BY <1>1, StartInvRest
<1>2. CASE UNCHANGED vars
  BY <1>1, <1>2 DEF vars, flags, startvars
<1>3. ASSUME NEW f \in Future, FutureStep(f)
      PROVE  StartInv'
  BY <1>1, <1>3 DEF FutureStep, AddFuture, FutureEnds, FutureRaises, Crash, flags,
     startvars
<1>4. ASSUME NEW s \in Service, StopStep(s)
      PROVE  StartInv'
  BY <1>1, <1>4 DEF StopStep, OnStopDone, RunStopTask, ChildStopped, ShutdownReceived,
     CancelFutures, GatherFutures, FuturesGathered, ExitStacksClosed, OnShutdownDone,
     StopRaises, BeginStop, flags, startvars
<1> QED
  BY <1>2, <1>3, <1>4, StartInvStart, StartInvCaller DEF Next

\* A start() that ran to its end on a service that is not told to stop has started
\* every child, and the children that only it starts have returned from their own
\* start(), in every tree, although children are added while it runs and removed
\* after it.
THEOREM StartIsComplete == Orderly => (Spec => []AllStarted)
<1> SUFFICES ASSUME Orderly PROVE Spec => []AllStarted
  OBVIOUS
<1>1. TypeOK /\ TreeInv /\ StartInv => AllStarted
  <2> SUFFICES ASSUME TypeOK, TreeInv, StartInv, NEW s \in Service,
                      startpc[s] \in {"on_started", "returned"}, ~ShouldStop(s),
                      NEW k \in Kids(s)
               PROVE  /\ k \in started
                      /\ k \in Dynamic[s] \/ startpc[k] = "returned"
    BY DEF AllStarted
  <2>1. k \in started
    BY DEF StartInv, StartLoop
  <2>2. k \in Service /\ k \in Declared(s)
    BY KidsServices DEF TreeInv, KidsDeclared
  <2> QED
    BY <2>1, <2>2 DEF StartInv, StartAwaited
<1> QED
  BY <1>1, StartInvInit, StartInvStep, TypeCorrect, TreeInvariant,
     PTL DEF Spec
=============================================================================
