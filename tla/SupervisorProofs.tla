-------------------------- MODULE SupervisorProofs --------------------------
(* The positions of the services and the restarts of a supervisor, for every *)
(* group of services, strategy and number of crashes.                        *)
EXTENDS Supervisor, FiniteSetTheorems, TLAPS

\* Only add(), discard() and insert() change the lists.
LEMMA ListsKept ==
    ASSUME [Next]_vars
    PROVE  \/ UNCHANGED listvars
           \/ \E s \in Service : Add(s) \/ Discard(s) \/ Replaced(s)
           \/ \E s \in Service, new \in SUBSET Late : AddAgain(s, new)
<1>1. ASSUME NEW s \in Service, ServiceStep(s) PROVE UNCHANGED listvars
  BY <1>1 DEF ServiceStep, ServiceStarted, ServiceStopped, ServiceStopRaises,
     ServiceCrashes, ServiceStopCaller
<1>2. ASSUME TaskStep
      PROVE  UNCHANGED listvars \/ \E s \in Service : Replaced(s)
  BY <1>2 DEF TaskStep, TaskBegins, WakeUp, StartDone, StartRaises, RestartStopped,
     OnRestartDone, GroupStopped, StopRaised, ReplaceFails
<1>3. CASE SupervisorStart \/ SupervisorStop \/ StopStep
  BY <1>3 DEF SupervisorStart, SupervisorStop, StopStep, OnStopNext, TaskCancelled,
     TaskJoined
<1>4. CASE UNCHANGED vars
  BY <1>4 DEF vars
<1> QED
  BY <1>1, <1>2, <1>3, <1>4, Zenon DEF Next

\* An add() that fails changes only what _index and the services' supervisor say.
LEMMA AddAgainKeeps ==
    ASSUME \E s \in Service, new \in SUBSET Late : AddAgain(s, new)
    PROVE  /\ services' = services /\ config' = config /\ servicevars' = servicevars
           /\ taskvars' = taskvars /\ stopvars' = stopvars
           /\ broken' = broken /\ crashes' = crashes
           /\ supervised \subseteq supervised'
BY DEF AddAgain

-----------------------------------------------------------------------------
(* The index.                                                              *)

\* What the index and the list are as long as nothing is discarded.
ListsRight ==
    /\ services \in Seq(Service)
    /\ DOMAIN index \subseteq supervised
    /\ \A s \in DOMAIN index : index[s] \in Nat
    /\ Positions

\* The position read before `replacement` is awaited is a number.
PlaceInv == place \in Nat

IndexInv == ~config.discards => ListsRight /\ PlaceInv

LEMMA ListsInit == Init => ListsRight /\ PlaceInv
<1> SUFFICES ASSUME Init PROVE ListsRight /\ PlaceInv
  OBVIOUS
<1> USE SupervisorConstants DEF SupervisorConstants
<1>1. services = First /\ supervised = Elems(First) /\ place = 0
  BY DEF Init
<1>2. index = [s \in Elems(First) |-> (CHOOSE i \in DOMAIN First : First[i] = s) - 1]
  BY DEF Init
<1>3. ASSUME NEW s \in Elems(First)
      PROVE  /\ index[s] \in Nat
             /\ index[s] + 1 \in DOMAIN First /\ First[index[s] + 1] = s
  <2> DEFINE i == CHOOSE j \in DOMAIN First : First[j] = s
  <2>1. \E j \in DOMAIN First : First[j] = s
    BY <1>3 DEF Elems
  <2>2. i \in DOMAIN First /\ First[i] = s
    BY <2>1
  <2>3. DOMAIN First = 1 .. Len(First) /\ Len(First) \in Nat
    OBVIOUS
  <2>4. index[s] = i - 1
    BY <1>2
  <2> HIDE DEF i
  <2> QED
    BY <2>2, <2>3, <2>4
<1> QED
  BY <1>1, <1>2, <1>3 DEF ListsRight, Positions, InPlace, PlaceInv

LEMMA IndexInit == Init => IndexInv
BY ListsInit DEF IndexInv

\* Whatever comes next, the position that is kept is one of the index.
LEMMA PlaceProceed ==
    ASSUME NEW q, Proceed(q), PlaceInv,
           \A s \in DOMAIN index' : index'[s] \in Nat
    PROVE  PlaceInv'
<1>1. CASE Idle /\ UNCHANGED <<servicevars, place, broken>>
  BY <1>1 DEF PlaceInv
<1>2. CASE Begin(q)
  <2>1. ASSUME NEW s, ReplaceJob(s) PROVE PlaceInv'
    BY <2>1 DEF ReplaceJob, PlaceInv
  <2>2. ASSUME NEW s, StartJob(s) \/ RestartJob(s) \/ StopJob(s) PROVE PlaceInv'
    BY <2>2 DEF StartJob, RestartJob, StopJob, PlaceInv
  <2> QED
    BY <1>2, <2>1, <2>2 DEF Begin
<1>3. CASE Refuses(q)
  BY <1>3 DEF Refuses, PlaceInv
<1> QED
  BY <1>1, <1>2, <1>3 DEF Proceed

LEMMA PlaceStep ==
    ASSUME [Next]_vars, ListsRight, PlaceInv, ListsRight'
    PROVE  PlaceInv'
<1>1. \A s \in DOMAIN index' : index'[s] \in Nat
  BY DEF ListsRight
<1>2. ASSUME NEW q, Proceed(q) PROVE PlaceInv'
  BY <1>1, <1>2, PlaceProceed
<1>3. ASSUME NEW s \in Service, ServiceStep(s) \/ Add(s) \/ Discard(s) PROVE PlaceInv'
  BY <1>3 DEF ServiceStep, ServiceStarted, ServiceStopped, ServiceStopRaises,
     ServiceCrashes, ServiceStopCaller, Add, Discard, taskvars, PlaceInv
<1>7. ASSUME NEW s \in Service, NEW new, AddAgain(s, new) PROVE PlaceInv'
  BY <1>7 DEF AddAgain, taskvars, PlaceInv
<1>4. CASE TaskStep
  BY <1>2, <1>4 DEF TaskStep, TaskBegins, WakeUp, StartDone, StartRaises,
     RestartStopped, OnRestartDone, GroupStopped, StopRaised, Replaced, ReplaceFails,
     PlaceInv
<1>5. CASE SupervisorStart \/ SupervisorStop \/ StopStep
  BY <1>2, <1>5 DEF SupervisorStart, SupervisorStop, StopStep, OnStopNext,
     TaskCancelled, TaskJoined, taskvars, PlaceInv
<1>6. CASE UNCHANGED vars
  BY <1>6 DEF vars, taskvars, PlaceInv
<1> QED
  BY <1>3, <1>4, <1>5, <1>6, <1>7, Zenon DEF Next

LEMMA IndexStep == IndexInv /\ [Next]_vars => IndexInv'
<1> SUFFICES ASSUME IndexInv, [Next]_vars, ~config'.discards
             PROVE  ListsRight' /\ PlaceInv'
  BY DEF IndexInv
<1> USE SupervisorConstants DEF SupervisorConstants
<1>1. config' = config
  BY ListsKept DEF listvars, Add, Discard, Replaced, AddAgain
<1>2. ListsRight /\ PlaceInv
  BY <1>1 DEF IndexInv
<1>3. ASSUME UNCHANGED listvars PROVE ListsRight'
  <2>1. services' = services /\ index' = index /\ supervised' = supervised
    BY <1>3 DEF listvars
  <2>2. /\ services' \in Seq(Service) /\ DOMAIN index' \subseteq supervised'
        /\ \A s \in DOMAIN index' : index'[s] \in Nat
    BY <1>2, <2>1 DEF ListsRight
  <2>3. Positions'
    BY <1>2, <1>3, <2>1 DEF ListsRight, Positions, InPlace, listvars
  <2> QED
    BY <2>2, <2>3 DEF ListsRight
<1>4. ASSUME NEW s \in Service, Add(s) PROVE ListsRight'
  <2>1. /\ services' = Append(services, s) /\ s \notin supervised
        /\ supervised' = supervised \cup {s} /\ misplaced' = misplaced
        /\ index' = [t \in DOMAIN index \cup {s} |-> IF t = s THEN Len(services)
                                                             ELSE index[t]]
    BY <1>4 DEF Add
  <2>2. Len(services) \in Nat /\ DOMAIN services = 1 .. Len(services)
    BY <1>2 DEF ListsRight
  <2>3. /\ services' \in Seq(Service) /\ DOMAIN services' = 1 .. Len(services) + 1
        /\ services'[Len(services) + 1] = s
        /\ \A i \in DOMAIN services : services'[i] = services[i]
    BY <1>2, <2>1 DEF ListsRight
  <2>4. ASSUME NEW t \in DOMAIN index'
        PROVE  /\ index'[t] \in Nat
               /\ t \notin misplaced =>
                    index'[t] + 1 \in DOMAIN services' /\ services'[index'[t] + 1] = t
    <3>1. CASE t = s
      BY <2>1, <2>2, <2>3, <3>1
    <3>2. CASE t # s
      <4>1. t \in DOMAIN index /\ index'[t] = index[t]
        BY <2>1, <2>4, <3>2
      <4>2. /\ index[t] \in Nat
            /\ t \notin misplaced => /\ index[t] + 1 \in DOMAIN services
                                    /\ services[index[t] + 1] = t
        BY <1>2, <4>1 DEF ListsRight, Positions, InPlace
      <4> QED
        BY <2>2, <2>3, <4>1, <4>2
    <3> QED
      BY <3>1, <3>2
  <2>5. DOMAIN index' \subseteq supervised'
    BY <1>2, <2>1 DEF ListsRight
  <2> QED
    BY <2>1, <2>3, <2>4, <2>5 DEF ListsRight, Positions, InPlace
<1>5. ASSUME NEW s \in Service, Replaced(s) PROVE ListsRight'
  <2> DEFINE old == services[place + 1]
  <2>1. /\ place < Len(services) /\ s \notin supervised
        /\ services' = [services EXCEPT ![place + 1] = s]
        /\ supervised' = supervised \cup {s} /\ misplaced' = misplaced
        /\ index' = [t \in (DOMAIN index \ {old}) \cup {s} |->
                        IF t = s THEN place ELSE index[t]]
    BY <1>5 DEF Replaced
  <2>2. /\ Len(services) \in Nat /\ DOMAIN services = 1 .. Len(services)
        /\ place \in Nat /\ place + 1 \in DOMAIN services
    BY <1>2, <2>1 DEF ListsRight, PlaceInv
  <2>3. /\ services' \in Seq(Service) /\ DOMAIN services' = DOMAIN services
        /\ services'[place + 1] = s
        /\ \A i \in DOMAIN services : i # place + 1 => services'[i] = services[i]
    BY <1>2, <2>1, <2>2 DEF ListsRight
  <2>4. ASSUME NEW t \in DOMAIN index'
        PROVE  /\ index'[t] \in Nat
               /\ t \notin misplaced =>
                    index'[t] + 1 \in DOMAIN services' /\ services'[index'[t] + 1] = t
    <3>1. CASE t = s
      BY <2>1, <2>2, <2>3, <3>1
    <3>2. CASE t # s
      <4>1. t \in DOMAIN index /\ t # old /\ index'[t] = index[t]
        BY <2>1, <2>4, <3>2
      <4>2. /\ index[t] \in Nat
            /\ t \notin misplaced => /\ index[t] + 1 \in DOMAIN services
                                    /\ services[index[t] + 1] = t
        BY <1>2, <4>1 DEF ListsRight, Positions, InPlace
      <4>3. t \notin misplaced => index[t] + 1 # place + 1
        BY <4>1, <4>2
      <4> QED
        BY <2>3, <4>1, <4>2, <4>3
    <3> QED
      BY <3>1, <3>2
  <2>5. DOMAIN index' \subseteq supervised'
    BY <1>2, <2>1 DEF ListsRight
  <2> QED
    BY <2>1, <2>3, <2>4, <2>5 DEF ListsRight, Positions, InPlace
<1>6. ASSUME NEW s \in Service, Discard(s) PROVE FALSE
  BY <1>1, <1>6 DEF Discard
<1>8. ASSUME NEW s \in Service, NEW new, AddAgain(s, new) PROVE ListsRight'
  <2>1. /\ services' = services /\ s \in supervised
        /\ supervised' = supervised \cup new /\ misplaced' = misplaced \cup new \cup {s}
        /\ DOMAIN index' = DOMAIN index \cup new \cup {s}
        /\ \A t \in DOMAIN index' :
             index'[t] = IF t \in new THEN Len(services)
                         ELSE IF t = s THEN Len(services) + (IF new = {} THEN 0 ELSE 1)
                         ELSE index[t]
    BY <1>8 DEF AddAgain
  <2>2. Len(services) \in Nat
    BY <1>2 DEF ListsRight
  <2>3. ASSUME NEW t \in DOMAIN index'
        PROVE  /\ index'[t] \in Nat
               /\ t \notin misplaced' => t \in DOMAIN index \ misplaced /\ index'[t] = index[t]
    BY <1>2, <2>1, <2>2 DEF ListsRight
  <2>4. Positions'
    BY <1>2, <2>1, <2>3 DEF ListsRight, Positions, InPlace
  <2> QED
    BY <1>2, <2>1, <2>3, <2>4 DEF ListsRight
<1>7. ListsRight'
  BY <1>3, <1>4, <1>5, <1>6, <1>8, ListsKept
<1> QED
  BY <1>2, <1>7, PlaceStep

\* supervisors.py, add and insert: as long as nothing is discarded, _index gives the
\* position of every service, whatever is added, refused and replaced, but for the
\* services of an add() that failed.
THEOREM PositionsRight == Spec => []IndexRight
<1>1. IndexInv => IndexRight
  BY DEF IndexInv, IndexRight, ListsRight
<1> QED
  BY <1>1, IndexInit, IndexStep, PTL DEF Spec

-----------------------------------------------------------------------------
(* No zombies.                                                             *)

Watching == config.exposed = {} /\ stoppc = "idle" /\ pc # "ended"
AwaitsStops == pc \in {"restart_stop", "stop"}

\* The stop() bodies that run, or raised, are those the task awaits, and what is
\* started is up.
Attended ==
    /\ stopping \subseteq stopped
    /\ IF AwaitsStops THEN stopping \subseteq mine ELSE stopping = {}
    /\ IF AwaitsStops THEN failed \subseteq mine ELSE failed = {}
    /\ started \ (stopped \cup crashed \cup starting) \subseteq up

ZombieInv == Watching => Attended

\* What the next of the jobs does, when no stop() body is running.
LEMMA ZombieProceed ==
    ASSUME NEW q, Proceed(q), stopping = {}, failed = {},
           started \ (stopped \cup crashed \cup starting) \subseteq up
    PROVE  /\ stopping' \subseteq stopped'
           /\ pc' # "ended" =>
                /\ IF AwaitsStops' THEN stopping' \subseteq mine' ELSE stopping' = {}
                /\ IF AwaitsStops' THEN failed' \subseteq mine' ELSE failed' = {}
                /\ started' \ (stopped' \cup crashed' \cup starting') \subseteq up'
<1>1. CASE UNCHANGED servicevars
  <2>1. /\ stopping' = {} /\ failed' = {} /\ started' = started /\ stopped' = stopped
        /\ crashed' = crashed /\ starting' = starting /\ up' = up
    BY <1>1 DEF servicevars
  <2> QED
    BY <2>1
<1>2. ASSUME NEW s, StartJob(s)
      PROVE  /\ stopping' = {} /\ failed' = {} /\ pc' \in {"on_start", "start"}
             /\ started' \ (stopped' \cup crashed' \cup starting') \subseteq up'
  BY <1>2 DEF StartJob
<1>3. ASSUME NEW s, RestartJob(s)
      PROVE  /\ stopping' \subseteq stopped'
             /\ IF AwaitsStops' THEN stopping' \subseteq mine' ELSE stopping' = {}
             /\ failed' = {}
             /\ started' \ (stopped' \cup crashed' \cup starting') \subseteq up'
  BY <1>3 DEF RestartJob, BeginStops, Reset, AwaitsStops
<1>4. ASSUME NEW S, StopJob(S)
      PROVE  /\ stopping' \subseteq stopped'
             /\ AwaitsStops' /\ stopping' \subseteq mine' /\ failed' = {}
             /\ started' \ (stopped' \cup crashed' \cup starting') \subseteq up'
  BY <1>4 DEF StopJob, StopGroup, BeginStops, AwaitsStops
<1>5. CASE Begin(q)
  <2>1. \/ StartJob(Head(q).who) \/ RestartJob(Head(q).who)
        \/ StopJob({q[i].who : i \in DOMAIN q}) \/ StopJob(Elems(services))
        \/ UNCHANGED servicevars
    BY <1>5, Zenon DEF Begin, ReplaceJob
  <2>2. CASE StartJob(Head(q).who)
    BY <1>2, <2>2 DEF AwaitsStops
  <2> QED
    BY <1>1, <1>3, <1>4, <2>1, <2>2
<1>6. CASE UNCHANGED servicevars \/ Refuses(q)
  BY <1>1, <1>6 DEF Refuses
<1> QED
  BY <1>5, <1>6 DEF Proceed

\* Nothing takes the supervisor back to before its stop(), or out of its end.
LEMMA StaysWatching ==
    ASSUME [Next]_vars, stoppc' = "idle", pc' # "ended"
    PROVE  stoppc = "idle" /\ pc # "ended"
<1>1. ASSUME NEW q, Proceed(q) PROVE stoppc' = stoppc
  BY <1>1 DEF Proceed, stopvars
<1>2. ASSUME NEW s \in Service, ServiceStep(s) \/ Add(s) \/ Discard(s)
      PROVE  stoppc' = stoppc /\ pc' = pc
  BY <1>2 DEF ServiceStep, ServiceStarted, ServiceStopped, ServiceStopRaises,
     ServiceCrashes, ServiceStopCaller, Add, Discard, taskvars, stopvars
<1>7. ASSUME \E s \in Service, new \in SUBSET Late : AddAgain(s, new)
      PROVE  stoppc' = stoppc /\ pc' = pc
  BY <1>7, AddAgainKeeps DEF taskvars, stopvars
<1>3. ASSUME TaskStep PROVE stoppc' = stoppc /\ pc # "ended"
  BY <1>1, <1>3 DEF TaskStep, TaskBegins, WakeUp, StartDone, StartRaises,
     RestartStopped, OnRestartDone, GroupStopped, StopRaised, Replaced, ReplaceFails,
     stopvars
<1>4. CASE SupervisorStart
  BY <1>4 DEF SupervisorStart
<1>5. ~ (SupervisorStop \/ StopStep)
  BY DEF SupervisorStop, StopStep, OnStop, OnStopNext, TaskCancelled, TaskJoined
<1>6. CASE UNCHANGED vars
  BY <1>6 DEF vars, taskvars, stopvars
<1> QED
  BY <1>2, <1>3, <1>4, <1>5, <1>6, <1>7, Zenon DEF Next

LEMMA ZombieStep == ZombieInv /\ [Next]_vars => ZombieInv'
<1> SUFFICES ASSUME ZombieInv, [Next]_vars, Watching' PROVE Attended'
  BY DEF ZombieInv
<1>1. config' = config
  BY ListsKept DEF listvars, Add, Discard, Replaced, AddAgain
<1>2. config.exposed = {} /\ stoppc' = "idle" /\ pc' # "ended"
  BY <1>1 DEF Watching
<1>3. pc # "ended" /\ stoppc = "idle" => Attended
  BY <1>2 DEF ZombieInv, Watching
<1>4. ASSUME NEW q, Proceed(q), stopping = {}, failed = {}, Attended PROVE Attended'
  BY <1>2, <1>4, ZombieProceed DEF Attended
<1>5. ASSUME NEW s \in Service, ServiceStep(s), Attended PROVE Attended'
  <2>1. CASE ServiceStarted(s)
    BY <1>5, <2>1 DEF ServiceStarted, taskvars, AwaitsStops, Attended
  <2>2. CASE ServiceStopped(s)
    BY <1>5, <2>2 DEF ServiceStopped, taskvars, AwaitsStops, Attended
  <2>3. CASE ServiceStopRaises(s)
    BY <1>5, <2>3 DEF ServiceStopRaises, taskvars, AwaitsStops, Attended
  <2>4. CASE ServiceCrashes(s)
    BY <1>5, <2>4 DEF ServiceCrashes, AwaitsStops, Attended
  <2>5. CASE ServiceStopCaller(s)
    BY <1>2, <2>5 DEF ServiceStopCaller
  <2> QED
    BY <1>5, <2>1, <2>2, <2>3, <2>4, <2>5 DEF ServiceStep
<1>6. ASSUME NEW s \in Service, Add(s) \/ Discard(s), Attended PROVE Attended'
  BY <1>6 DEF Add, Discard, servicevars, taskvars, AwaitsStops, Attended
<1>12. ASSUME \E s \in Service, new \in SUBSET Late : AddAgain(s, new), Attended
       PROVE  Attended'
  BY <1>12, AddAgainKeeps DEF servicevars, taskvars, AwaitsStops, Attended
<1>7. ASSUME TaskStep, Attended PROVE Attended'
  <2>1. CASE TaskBegins \/ WakeUp \/ StartDone \/ \E s \in Service : Replaced(s)
    <3>1. stopping = {} /\ failed = {}
      BY <1>7, <2>1 DEF TaskBegins, WakeUp, StartDone, Replaced, AwaitsStops, Attended
    <3>2. \E q : Proceed(q)
      BY <2>1 DEF TaskBegins, WakeUp, StartDone, Replaced
    <3> QED
      BY <1>4, <1>7, <3>1, <3>2
  <2>2. CASE GroupStopped
    <3>1. stopping = {} /\ failed = {}
      BY <1>7, <2>2 DEF GroupStopped, MineDone, AwaitsStops, Attended
    <3> QED
      BY <1>4, <1>7, <2>2, <3>1 DEF GroupStopped
  <2>3. CASE StartRaises \/ StopRaised \/ ReplaceFails
    BY <1>2, <2>3 DEF StartRaises, StopRaised, ReplaceFails, TaskFails
  <2>4. CASE RestartStopped
    <3>1. stopping = {} /\ failed = {}
      BY <1>7, <2>4 DEF RestartStopped, MineDone, AwaitsStops, Attended
    <3> QED
      BY <1>7, <2>4, <3>1 DEF RestartStopped, Reset, AwaitsStops, Attended
  <2>5. CASE OnRestartDone
    BY <1>7, <2>5 DEF OnRestartDone, AwaitsStops, Attended
  <2> QED
    BY <1>7, <2>1, <2>2, <2>3, <2>4, <2>5 DEF TaskStep
<1>8. Attended
  BY <1>2, <1>3, StaysWatching
<1>9. CASE SupervisorStart
  <2>1. stopping = {} /\ failed = {}
    BY <1>8, <1>9 DEF SupervisorStart, AwaitsStops, Attended
  <2> QED
    BY <1>4, <1>8, <1>9, <2>1 DEF SupervisorStart
<1>10. ~ (SupervisorStop \/ StopStep)
  BY <1>2 DEF SupervisorStop, StopStep, OnStop, OnStopNext, TaskCancelled, TaskJoined
<1>11. ASSUME UNCHANGED vars, Attended PROVE Attended'
  BY <1>11 DEF vars, servicevars, taskvars, AwaitsStops, Attended
<1> QED
  BY <1>5, <1>6, <1>7, <1>8, <1>9, <1>10, <1>11, <1>12, Zenon DEF Next

LEMMA ZombieInit == Init => ZombieInv
  BY DEF Init, ZombieInv, Attended, AwaitsStops

\* supervisors.py, start_services and restart_services, and restart of services.py:
\* as long as nobody else stops services, one that is started, and was told neither
\* to stop nor crashed, is up or on its way up, whatever the strategy.
THEOREM NoZombies == Spec => []NoZombie
<1>1. ZombieInv => NoZombie
  BY DEF ZombieInv, Attended, Watching, NoZombie
<1> QED
  BY <1>1, ZombieInit, ZombieStep, PTL DEF Spec

-----------------------------------------------------------------------------
(* Types, and the shape of the lists the task goes through.                *)

StartsOne == pc \in {"on_start", "start", "restart_start"}
Restarts == pc \in {"restart_stop", "on_restart", "restart_start", "replace"}

\* What the task may have to do, by strategy.
MayDo(op) ==
    \/ op = "start"
    \/ op = "restart" /\ config.strategy \in {"one_for_one", "one_for_all"}
    \/ op = "restart_all" /\ config.strategy = "one_for_all"
    \/ op = "stop" /\ config.strategy = "forfeit_one"
    \/ op = "stop_all" /\ config.strategy = "forfeit_all"

\* A list of jobs: first the starts, and restarts or stops up to the end.
Fits(q) ==
    /\ q \in Seq(Job)
    /\ \A i \in DOMAIN q : MayDo(q[i].op)
    /\ \A i, j \in DOMAIN q :
          i <= j /\ q[i].op \in {"stop", "restart"} => q[j].op = q[i].op

\* The job at hand is the one the task awaits.
AtHand ==
    /\ pc \in {"on_start", "start"} => jobs # <<>> /\ jobs[1].op = "start"
    /\ Restarts => jobs # <<>> /\ jobs[1].op = "restart"

TypeInv == TypeOK /\ Fits(jobs) /\ AtHand

ServicesTyped ==
    /\ started \subseteq Service /\ stopped \subseteq Service
    /\ crashed \subseteq Service /\ up \subseteq Service
    /\ starting \subseteq Service /\ stopping \subseteq Service
    /\ failed \subseteq Service
ListsTyped ==
    /\ config \in Config
    /\ services \in Seq(Service)
    /\ DOMAIN index \subseteq supervised /\ \A s \in DOMAIN index : index[s] \in Nat
    /\ supervised \subseteq Service /\ misplaced \subseteq Service
TaskTyped ==
    /\ pc \in PC /\ place \in Nat
    /\ wakeup \in {"none", "pending", "done"}
    /\ wakeup # "none" <=> pc = "waiting"
    /\ mine \subseteq Service
StopTyped ==
    /\ stoppc \in {"idle", "on_stop", "futures", "join", "returned"}
    /\ stopat \in Nat /\ stopwho \in Service \cup {None}
    /\ quiet \in BOOLEAN
RestTyped == broken \in BOOLEAN /\ crashes \in 0 .. MaxCrashes

LEMMA TypeParts ==
    TypeInv <=> /\ ServicesTyped /\ ListsTyped /\ TaskTyped /\ StopTyped /\ RestTyped
                /\ Fits(jobs) /\ AtHand
BY DEF TypeInv, TypeOK, ServicesTyped, ListsTyped, TaskTyped, StopTyped, RestTyped, Fits

LEMMA JobParts ==
    ASSUME NEW job \in Job
    PROVE  /\ job.op \in {"start", "restart", "stop", "restart_all", "stop_all"}
           /\ job.op \in {"start", "restart", "stop"} => job.who \in Service
BY DEF Job

LEMMA StrategyOf == ListsTyped => config.strategy \in Strategies
BY SupervisorConstants DEF SupervisorConstants, ListsTyped

LEMMA RemedyOf ==
    ASSUME NEW q, q # <<>>
    PROVE  /\ config.strategy = "one_for_one" => Remedy(q) = JobsFor("restart", q)
           /\ config.strategy = "one_for_all" => Remedy(q) = <<[op |-> "restart_all"]>>
           /\ config.strategy = "forfeit_one" => Remedy(q) = JobsFor("stop", q)
           /\ config.strategy = "forfeit_all" => Remedy(q) = <<[op |-> "stop_all"]>>
BY Zenon DEF Remedy

LEMMA FitsEmpty == Fits(<<>>)
BY DEF Fits

LEMMA FitsTail ==
    ASSUME NEW q, Fits(q), q # <<>>
    PROVE  /\ Fits(Tail(q)) /\ Tail(q) \in Seq(Job) /\ Len(q) \in Nat \ {0}
           /\ Len(Tail(q)) = Len(q) - 1
           /\ \A i \in 1 .. Len(q) - 1 : Tail(q)[i] = q[i + 1]
<1>1. /\ q \in Seq(Job) /\ Len(q) \in Nat /\ Len(q) # 0 /\ DOMAIN q = 1 .. Len(q)
      /\ Tail(q) \in Seq(Job) /\ Len(Tail(q)) = Len(q) - 1
      /\ DOMAIN Tail(q) = 1 .. Len(q) - 1
      /\ \A i \in 1 .. Len(q) - 1 : Tail(q)[i] = q[i + 1]
  BY DEF Fits
<1>2. \A i \in DOMAIN Tail(q) : i + 1 \in DOMAIN q /\ Tail(q)[i] = q[i + 1]
  BY <1>1
<1>3. \A i \in DOMAIN Tail(q) : MayDo(Tail(q)[i].op)
  BY <1>2 DEF Fits
<1>4. ASSUME NEW i \in DOMAIN Tail(q), NEW j \in DOMAIN Tail(q), i <= j,
             Tail(q)[i].op \in {"stop", "restart"}
      PROVE  Tail(q)[j].op = Tail(q)[i].op
  <2>1. i + 1 \in DOMAIN q /\ j + 1 \in DOMAIN q /\ i + 1 <= j + 1
    BY <1>1, <1>4
  <2> QED
    BY <1>2, <1>4, <2>1 DEF Fits
<1> QED
  BY <1>1, <1>3, <1>4 DEF Fits

LEMMA FitsJobsFor ==
    ASSUME NEW op \in {"start", "restart", "stop"}, MayDo(op), NEW q \in Seq(Service)
    PROVE  /\ Fits(JobsFor(op, q)) /\ Len(JobsFor(op, q)) = Len(q)
           /\ \A i \in DOMAIN q : /\ JobsFor(op, q)[i] = [op |-> op, who |-> q[i]]
                                 /\ JobsFor(op, q)[i].op = op
           /\ DOMAIN JobsFor(op, q) = DOMAIN q
<1>1. DOMAIN q = 1 .. Len(q) /\ Len(q) \in Nat /\ \A i \in DOMAIN q : q[i] \in Service
  OBVIOUS
<1>2. \A i \in DOMAIN q : [op |-> op, who |-> q[i]] \in Job
  BY <1>1 DEF Job
<1>3. /\ DOMAIN JobsFor(op, q) = 1 .. Len(q)
      /\ \A i \in 1 .. Len(q) : JobsFor(op, q)[i] = [op |-> op, who |-> q[i]]
  BY <1>1 DEF JobsFor
<1>4. JobsFor(op, q) \in Seq(Job) /\ Len(JobsFor(op, q)) = Len(q)
  BY <1>1, <1>2, <1>3 DEF JobsFor
<1> QED
  BY <1>1, <1>3, <1>4 DEF Fits

\* A list made of some of the services is a sequence of them.
LEMMA InOrderType ==
    ASSUME services \in Seq(Service), NEW S, S \subseteq Elems(services),
           NEW q \in InOrder(S)
    PROVE  q \in Seq(Service) /\ \A i \in DOMAIN q : q[i] \in S
<1>2. IsFiniteSet(Elems(services))
  <2>1. /\ Len(services) \in Nat /\ DOMAIN services = 1 .. Len(services)
        /\ services \in [1 .. Len(services) -> Elems(services)]
        /\ \A s \in Elems(services) : \E i \in 1 .. Len(services) : services[i] = s
    BY DEF Elems
  <2>2. services \in Surjection(1 .. Len(services), Elems(services))
    BY <2>1 DEF Surjection
  <2> QED
    BY <2>1, <2>2, FS_NatSurjection DEF ExistsSurjection
<1>3. Cardinality(S) \in Nat
  BY <1>2, FS_Subset, FS_CardinalityType
<1>4. q \in [1 .. Cardinality(S) -> S]
  BY DEF InOrder
<1>5. S \subseteq Service
  BY DEF Elems
<1> QED
  BY <1>3, <1>4, <1>5

\* The lists the task makes when it wakes up.
LEMMA FitsWakeUp ==
    ASSUME ListsTyped, NEW q \in InOrder(ToStart), NEW r \in InOrder(ToRestart)
    PROVE  /\ Fits(JobsFor("start", q) \o Remedy(r))
           /\ config.strategy = "one_for_all" =>
                \A i \in DOMAIN (JobsFor("start", q) \o Remedy(r)) :
                    (JobsFor("start", q) \o Remedy(r))[i].op # "restart"
<1>1. q \in Seq(Service) /\ r \in Seq(Service)
  BY InOrderType DEF ListsTyped, ToStart, ToRestart
<1>2. MayDo("start") /\ config.strategy \in Strategies
  BY StrategyOf DEF MayDo
<1> DEFINE s == JobsFor("start", q)
           m == Remedy(r)
<1>3. /\ Fits(s) /\ s \in Seq(Job) /\ Len(s) \in Nat /\ DOMAIN s = 1 .. Len(s)
      /\ \A i \in DOMAIN s : s[i].op = "start"
  <2>1. Fits(s) /\ \A i \in DOMAIN q : s[i].op = "start"
    BY <1>1, <1>2, FitsJobsFor, Zenon
  <2>2. DOMAIN s = DOMAIN q
    BY <1>1, <1>2, FitsJobsFor, Zenon
  <2>3. s \in Seq(Job)
    BY <2>1 DEF Fits
  <2> HIDE DEF s
  <2> QED
    BY <2>1, <2>2, <2>3
<1>4. /\ Fits(m)
      /\ config.strategy = "one_for_all" => \A i \in DOMAIN m : m[i].op # "restart"
  <2>1. CASE r = <<>>
    <3>1. m = <<>>
      BY <2>1, Zenon DEF Remedy
    <3> HIDE DEF m
    <3> QED
      BY <3>1, FitsEmpty
  <2>2. CASE r # <<>> /\ config.strategy = "one_for_one"
    <3>1. m = JobsFor("restart", r) /\ MayDo("restart")
      BY <2>2, RemedyOf, Zenon DEF MayDo
    <3>2. Fits(JobsFor("restart", r))
      BY <1>1, <3>1, FitsJobsFor, Zenon
    <3> QED
      BY <2>2, <3>1, <3>2, Zenon
  <2>3. CASE r # <<>> /\ config.strategy = "one_for_all"
    BY <2>3, RemedyOf DEF MayDo, Fits, Job
  <2>4. CASE r # <<>> /\ config.strategy = "forfeit_one"
    <3>1. m = JobsFor("stop", r) /\ MayDo("stop")
      BY <2>4, RemedyOf, Zenon DEF MayDo
    <3>2. Fits(JobsFor("stop", r))
      BY <1>1, <3>1, FitsJobsFor, Zenon
    <3> QED
      BY <2>4, <3>1, <3>2, Zenon
  <2>5. CASE r # <<>> /\ config.strategy = "forfeit_all"
    <3>1. m = <<[op |-> "stop_all"]>> /\ MayDo("stop_all")
      BY <2>5, RemedyOf, Zenon DEF MayDo
    <3> HIDE DEF m
    <3>2. [op |-> "stop_all"] \in Job /\ [op |-> "stop_all"].op = "stop_all"
      BY DEF Job
    <3>3. m \in Seq(Job) /\ DOMAIN m = {1} /\ m[1].op = "stop_all"
      BY <3>1, <3>2
    <3> QED
      BY <2>5, <3>1, <3>3 DEF Fits
  <2> HIDE DEF m
  <2>6. \/ config.strategy = "one_for_one" \/ config.strategy = "one_for_all"
        \/ config.strategy = "forfeit_one" \/ config.strategy = "forfeit_all"
    BY <1>2 DEF Strategies
  <2> QED
    BY <2>1, <2>2, <2>3, <2>4, <2>5, <2>6, Zenon
<1> HIDE DEF s, m
<1>5. m \in Seq(Job) /\ Len(m) \in Nat /\ DOMAIN m = 1 .. Len(m)
  BY <1>4 DEF Fits
<1>6. /\ s \o m \in Seq(Job) /\ DOMAIN (s \o m) = 1 .. Len(s) + Len(m)
      /\ \A i \in 1 .. Len(s) : (s \o m)[i] = s[i]
      /\ \A i \in Len(s) + 1 .. Len(s) + Len(m) : (s \o m)[i] = m[i - Len(s)]
  BY <1>3, <1>5
<1>7. \A i \in DOMAIN (s \o m) :
         \/ i \in DOMAIN s /\ (s \o m)[i].op = "start"
         \/ i - Len(s) \in DOMAIN m /\ (s \o m)[i] = m[i - Len(s)]
  BY <1>3, <1>5, <1>6
<1>8. \A i \in DOMAIN (s \o m) : MayDo((s \o m)[i].op)
  BY <1>2, <1>4, <1>7 DEF Fits
<1>9. ASSUME NEW i \in DOMAIN (s \o m), NEW j \in DOMAIN (s \o m), i <= j,
             (s \o m)[i].op \in {"stop", "restart"}
      PROVE  (s \o m)[j].op = (s \o m)[i].op
  <2>1. i - Len(s) \in DOMAIN m /\ (s \o m)[i] = m[i - Len(s)]
    BY <1>7, <1>9
  <2>2. /\ j - Len(s) \in DOMAIN m /\ (s \o m)[j] = m[j - Len(s)]
        /\ i - Len(s) <= j - Len(s)
    BY <1>3, <1>5, <1>6, <1>9, <2>1
  <2> QED
    BY <1>4, <1>9, <2>1, <2>2 DEF Fits
<1>10. Fits(s \o m)
  BY <1>6, <1>8, <1>9 DEF Fits
<1>11. config.strategy = "one_for_all" => \A i \in DOMAIN (s \o m) : (s \o m)[i].op # "restart"
  BY <1>4, <1>7
<1> QED
  BY <1>10, <1>11 DEF s, m

LEMMA FitsPrimed == ASSUME config' = config, Fits(jobs') PROVE Fits(jobs)'
BY DEF Fits, MayDo

LEMMA FitsHead ==
    ASSUME NEW q, Fits(q), q # <<>>
    PROVE  /\ Head(q) = q[1] /\ q[1] \in Job /\ MayDo(q[1].op) /\ 1 \in DOMAIN q
           /\ q[1].op \in {"start", "restart", "stop"} => q[1].who \in Service
<1>1. q \in Seq(Job) /\ Len(q) \in Nat /\ Len(q) # 0 /\ DOMAIN q = 1 .. Len(q)
  BY DEF Fits
<1>2. Head(q) = q[1] /\ 1 \in DOMAIN q /\ q[1] \in Job
  BY <1>1
<1> QED
  BY <1>2, JobParts DEF Fits

LEMMA StopGroupTyped ==
    ASSUME NEW q, Fits(q), q # <<>>, q[1].op = "stop"
    PROVE  {q[i].who : i \in DOMAIN q} \subseteq Service
<1>1. q \in Seq(Job) /\ Len(q) \in Nat /\ Len(q) # 0 /\ DOMAIN q = 1 .. Len(q)
  BY DEF Fits
<1>2. ASSUME NEW i \in DOMAIN q PROVE q[i].who \in Service
  <2>1. q[i].op = "stop"
    BY <1>1 DEF Fits
  <2>2. q[i] \in Job
    BY <1>1
  <2> QED
    BY <2>1, <2>2, JobParts
<1> QED
  BY <1>2

\* Whatever the task does next is well typed, and so is what it leaves to do.
LEMMA TypeProceed ==
    ASSUME ServicesTyped, ListsTyped, config' = config, place \in Nat,
           \A s \in DOMAIN index' : index'[s] \in Nat,
           StopTyped, RestTyped, NEW q, Fits(q), Proceed(q)
    PROVE  /\ ServicesTyped' /\ TaskTyped' /\ StopTyped' /\ RestTyped'
           /\ Fits(jobs)' /\ AtHand'
<1>1. StopTyped'
  BY DEF Proceed, stopvars, StopTyped
<1>2. RestTyped'
  <2>1. crashes' = crashes /\ (broken' = broken \/ broken' = ~InStart)
    BY DEF Proceed, Refuses, TaskFails
  <2> QED
    BY <2>1 DEF RestTyped, InStart
<1>3. CASE q = <<>> /\ Idle /\ UNCHANGED <<servicevars, place, broken>>
  <2>1. ServicesTyped' /\ AtHand' /\ TaskTyped'
    BY <1>3 DEF Idle, servicevars, ServicesTyped, TaskTyped, AtHand, Restarts, PC
  <2>2. Fits(jobs)'
    BY <1>3, FitsEmpty, FitsPrimed DEF Idle
  <2> QED
    BY <1>1, <1>2, <2>1, <2>2
<1>4. CASE q # <<>> /\ Refuses(q)
  <2>1. ServicesTyped' /\ AtHand' /\ TaskTyped'
    BY <1>4 DEF Refuses, TaskFails, Awake, servicevars, ServicesTyped, TaskTyped, AtHand,
       Restarts, PC
  <2>2. Fits(jobs)'
    BY <1>4, FitsEmpty, FitsPrimed DEF Refuses, TaskFails
  <2> QED
    BY <1>1, <1>2, <2>1, <2>2
<1>5. CASE q # <<>> /\ Begin(q)
  <2>1. /\ Head(q) = q[1] /\ MayDo(q[1].op)
        /\ q[1].op \in {"start", "restart", "stop"} => q[1].who \in Service
    BY <1>5, FitsHead
  <2>2. Elems(services) \subseteq Service /\ services \in Seq(Service)
    BY DEF Elems, ListsTyped
  <2>3. wakeup' = "none"
    BY <1>5 DEF Begin, Awake
  <2>4. CASE q[1].op = "start" /\ StartJob(q[1].who) /\ jobs' = q
    <3>1. ServicesTyped' /\ TaskTyped' /\ AtHand'
      BY <1>5, <2>1, <2>3, <2>4 DEF StartJob, ServicesTyped, TaskTyped, AtHand, Restarts,
         PC
    <3>2. Fits(jobs)'
      BY <2>4, FitsPrimed
    <3> QED
      BY <1>1, <1>2, <3>1, <3>2
  <2>5. CASE q[1].op = "restart" /\ RestartJob(q[1].who) /\ jobs' = q
    <3>1. ServicesTyped' /\ TaskTyped' /\ AtHand'
      BY <1>5, <2>1, <2>3, <2>5 DEF RestartJob, BeginStops, Reset, ServicesTyped, TaskTyped,
         AtHand, Restarts, PC
    <3>2. Fits(jobs)'
      BY <2>5, FitsPrimed
    <3> QED
      BY <1>1, <1>2, <3>1, <3>2
  <2>6. CASE q[1].op = "restart" /\ ReplaceJob(q[1].who) /\ jobs' = q
    <3>1. ServicesTyped' /\ TaskTyped' /\ AtHand'
      BY <1>5, <2>1, <2>3, <2>6 DEF ReplaceJob, servicevars, ServicesTyped, TaskTyped,
         AtHand, Restarts, PC
    <3>2. Fits(jobs)'
      BY <2>6, FitsPrimed
    <3> QED
      BY <1>1, <1>2, <3>1, <3>2
  <2>7. ASSUME NEW S, S \subseteq Service, StopJob(S), Fits(jobs')
        PROVE  /\ ServicesTyped' /\ TaskTyped' /\ StopTyped' /\ RestTyped'
               /\ Fits(jobs)' /\ AtHand'
    <3>1. ServicesTyped' /\ TaskTyped' /\ AtHand'
      BY <2>3, <2>7 DEF StopJob, StopGroup, BeginStops, ServicesTyped, TaskTyped, AtHand,
         Restarts, PC
    <3> QED
      BY <1>1, <1>2, <2>7, <3>1, FitsPrimed
  <2>8. CASE q[1].op = "stop" /\ StopJob({q[i].who : i \in DOMAIN q}) /\ jobs' = <<>>
    BY <1>5, <2>7, <2>8, StopGroupTyped, FitsEmpty
  <2>9. CASE StopJob(Elems(services)) /\ jobs' = <<>>
    BY <2>2, <2>7, <2>9, FitsEmpty
  <2>10. CASE q[1].op = "restart_all" /\ StopJob(Elems(services))
              /\ jobs' = JobsFor("restart", services)
    <3>1. MayDo("restart")
      BY <2>1, <2>10 DEF MayDo
    <3>2. Fits(JobsFor("restart", services))
      BY <2>2, <3>1, FitsJobsFor, Zenon
    <3> QED
      BY <2>2, <2>7, <2>10, <3>2
  <2> QED
    BY <1>5, <2>1, <2>4, <2>5, <2>6, <2>8, <2>9, <2>10, Zenon DEF Begin
<1> QED
  BY <1>3, <1>4, <1>5, Zenon DEF Proceed

LEMMA TypeInit == Init => TypeInv
<1> SUFFICES ASSUME Init PROVE TypeInv
  OBVIOUS
<1> USE SupervisorConstants DEF SupervisorConstants
<1>1. ListsTyped
  <2>1. services = First /\ supervised = Elems(First) /\ misplaced = {} /\ config \in Config
    BY DEF Init
  <2>2. Elems(First) \subseteq Service
    BY DEF Elems
  <2> QED
    BY <2>1, <2>2, ListsInit DEF ListsRight, ListsTyped
<1>2. ServicesTyped /\ StopTyped /\ RestTyped
  <2>1. crashes \in 0 .. MaxCrashes /\ ServicesTyped
    BY DEF Init, ServicesTyped
  <2>2. StopTyped /\ broken \in BOOLEAN
    BY Zenon DEF Init, StopTyped
  <2> QED
    BY <2>1, <2>2 DEF RestTyped
<1>3. TaskTyped /\ AtHand /\ Fits(jobs)
  BY FitsEmpty DEF Init, TaskTyped, AtHand, Restarts, PC
<1> QED
  BY <1>1, <1>2, <1>3, TypeParts

LEMMA WithoutType ==
    ASSUME NEW q \in Seq(Service), NEW s \in Elems(q)
    PROVE  Without(q, s) \in Seq(Service)
<1>1. Len(q) \in Nat \ {0} /\ q \in [1 .. Len(q) -> Service]
  BY DEF Elems
<1>2. Len(q) - 1 \in Nat
  BY <1>1
<1>3. \A j \in 1 .. Len(q) - 1 : q[j] \in Service /\ q[j + 1] \in Service
  BY <1>1
<1>4. Without(q, s) \in [1 .. Len(q) - 1 -> Service]
  BY <1>3 DEF Without
<1> QED
  BY <1>2, <1>4, SMT

LEMMA ListsTypedStep ==
    ASSUME ListsTyped, place \in Nat, [Next]_vars
    PROVE  ListsTyped' /\ config' = config
<1>1. CASE UNCHANGED listvars
  BY <1>1 DEF listvars, ListsTyped
<1>2. ASSUME NEW s \in Service, Add(s) PROVE ListsTyped' /\ config' = config
  <2>1. /\ services' = Append(services, s)
        /\ supervised' = supervised \cup {s} /\ config' = config
        /\ misplaced' = misplaced
        /\ index' = [t \in DOMAIN index \cup {s} |-> IF t = s THEN Len(services)
                                                             ELSE index[t]]
    BY <1>2 DEF Add
  <2>2. services' \in Seq(Service) /\ Len(services) \in Nat
    BY <2>1 DEF ListsTyped
  <2> QED
    BY <2>1, <2>2 DEF ListsTyped
<1>3. ASSUME NEW s \in Service, Discard(s) PROVE ListsTyped' /\ config' = config
  <2>1. /\ services' = Without(services, s) /\ s \in Elems(services)
        /\ supervised' = supervised /\ config' = config /\ misplaced' = misplaced
        /\ index' = [t \in DOMAIN index \ {s} |-> index[t]]
    BY <1>3 DEF Discard
  <2>2. services' \in Seq(Service)
    BY <2>1, WithoutType DEF ListsTyped
  <2> QED
    BY <2>1, <2>2 DEF ListsTyped
<1>4. ASSUME NEW s \in Service, Replaced(s) PROVE ListsTyped' /\ config' = config
  <2>1. /\ place < Len(services) /\ config' = config /\ misplaced' = misplaced
        /\ services' = [services EXCEPT ![place + 1] = s]
        /\ supervised' = supervised \cup {s}
        /\ index' = [t \in (DOMAIN index \ {services[place + 1]}) \cup {s} |->
                        IF t = s THEN place ELSE index[t]]
    BY <1>4 DEF Replaced
  <2>2. services' \in Seq(Service)
    BY <2>1 DEF ListsTyped
  <2> QED
    BY <2>1, <2>2 DEF ListsTyped
<1>5. ASSUME NEW s \in Service, NEW new \in SUBSET Late, AddAgain(s, new)
      PROVE  ListsTyped' /\ config' = config
  <2>1. /\ services' = services /\ config' = config /\ s \in supervised
        /\ supervised' = supervised \cup new /\ misplaced' = misplaced \cup new \cup {s}
        /\ DOMAIN index' = DOMAIN index \cup new \cup {s}
        /\ \A t \in DOMAIN index' :
             index'[t] = IF t \in new THEN Len(services)
                         ELSE IF t = s THEN Len(services) + (IF new = {} THEN 0 ELSE 1)
                         ELSE index[t]
    BY <1>5 DEF AddAgain
  <2>2. Len(services) \in Nat /\ new \subseteq Service
    BY SupervisorConstants DEF SupervisorConstants, ListsTyped
  <2>3. \A t \in DOMAIN index' : index'[t] \in Nat
    BY <2>1, <2>2 DEF ListsTyped
  <2> QED
    BY <2>1, <2>2, <2>3 DEF ListsTyped
<1> QED
  BY <1>1, <1>2, <1>3, <1>4, <1>5, ListsKept

LEMMA TypeStep == TypeInv /\ [Next]_vars => TypeInv'
<1> SUFFICES ASSUME TypeInv, [Next]_vars PROVE TypeInv'
  OBVIOUS
<1>1. /\ ServicesTyped /\ ListsTyped /\ TaskTyped /\ StopTyped /\ RestTyped
      /\ Fits(jobs) /\ AtHand
  BY TypeParts
<1>2. ListsTyped' /\ config' = config
  BY <1>1, ListsTypedStep DEF TaskTyped
<1>3. SUFFICES /\ ServicesTyped' /\ TaskTyped' /\ StopTyped' /\ RestTyped'
               /\ Fits(jobs)' /\ AtHand'
  BY <1>2, TypeParts, PTL
<1>4. ASSUME NEW q, Fits(q), Proceed(q)
      PROVE  /\ ServicesTyped' /\ TaskTyped' /\ StopTyped' /\ RestTyped'
             /\ Fits(jobs)' /\ AtHand'
  <2>1. place \in Nat /\ \A s \in DOMAIN index' : index'[s] \in Nat
    BY <1>1, <1>2 DEF TaskTyped, ListsTyped
  <2> QED
    BY <1>1, <1>2, <1>4, <2>1, TypeProceed
<1>5. ASSUME taskvars' = taskvars
      PROVE  TaskTyped' /\ Fits(jobs)' /\ AtHand'
  BY <1>1, <1>2, <1>5, FitsPrimed DEF taskvars, TaskTyped, AtHand, Restarts
<1>6. ASSUME stopvars' = stopvars PROVE StopTyped'
  BY <1>1, <1>6 DEF stopvars, StopTyped
<1>7. ASSUME NEW s \in Service, ServiceStep(s)
      PROVE  /\ ServicesTyped' /\ TaskTyped' /\ StopTyped' /\ RestTyped'
             /\ Fits(jobs)' /\ AtHand'
  <2>1. CASE ServiceStarted(s) \/ ServiceStopped(s) \/ ServiceStopRaises(s)
             \/ ServiceStopCaller(s)
    <3>1. ServicesTyped' /\ RestTyped'
      BY <1>1, <2>1 DEF ServiceStarted, ServiceStopped, ServiceStopRaises,
         ServiceStopCaller, BeginStops, ServicesTyped, RestTyped
    <3>2. taskvars' = taskvars /\ stopvars' = stopvars
      BY <2>1 DEF ServiceStarted, ServiceStopped, ServiceStopRaises, ServiceStopCaller
    <3> QED
      BY <1>5, <1>6, <3>1, <3>2
  <2>2. CASE ServiceCrashes(s)
    <3>1. ServicesTyped' /\ RestTyped' /\ TaskTyped' /\ AtHand'
      BY <1>1, <2>2, SupervisorConstants DEF SupervisorConstants, ServiceCrashes, Wakeup,
         ServicesTyped, RestTyped, TaskTyped, AtHand, Restarts
    <3>2. Fits(jobs)'
      BY <1>1, <1>2, <2>2, FitsPrimed DEF ServiceCrashes
    <3> QED
      BY <1>6, <2>2, <3>1, <3>2 DEF ServiceCrashes
  <2> QED
    BY <1>7, <2>1, <2>2 DEF ServiceStep
<1>8. ASSUME NEW s \in Service, Add(s) \/ Discard(s)
      PROVE  /\ ServicesTyped' /\ TaskTyped' /\ StopTyped' /\ RestTyped'
             /\ Fits(jobs)' /\ AtHand'
  <2>1. /\ servicevars' = servicevars /\ taskvars' = taskvars /\ stopvars' = stopvars
        /\ broken' = broken /\ crashes' = crashes
    BY <1>8 DEF Add, Discard
  <2> QED
    BY <1>1, <1>5, <1>6, <2>1 DEF servicevars, ServicesTyped, RestTyped
<1>15. ASSUME \E s \in Service, new \in SUBSET Late : AddAgain(s, new)
       PROVE  /\ ServicesTyped' /\ TaskTyped' /\ StopTyped' /\ RestTyped'
              /\ Fits(jobs)' /\ AtHand'
  BY <1>1, <1>5, <1>6, <1>15, AddAgainKeeps DEF servicevars, ServicesTyped, RestTyped
<1>9. CASE SupervisorStart
  <2>1. MayDo("start") /\ services \in Seq(Service)
    BY <1>1 DEF MayDo, ListsTyped
  <2>2. Fits(JobsFor("start", services))
    BY <2>1, FitsJobsFor, Zenon
  <2> QED
    BY <1>4, <1>9, <2>2, Zenon DEF SupervisorStart
<1>10. CASE TaskStep
  <2>1. CASE TaskBegins
    BY <1>4, <2>1, FitsEmpty, Zenon DEF TaskBegins
  <2>2. CASE WakeUp
    <3>1. PICK q \in InOrder(ToStart), r \in InOrder(ToRestart) :
             Proceed(IF ShouldStop THEN <<>> ELSE JobsFor("start", q) \o Remedy(r))
      BY <2>2, Zenon DEF WakeUp
    <3>2. Fits(JobsFor("start", q) \o Remedy(r))
      BY <1>1, FitsWakeUp
    <3>3. Fits(IF ShouldStop THEN <<>> ELSE JobsFor("start", q) \o Remedy(r))
      BY <3>2, FitsEmpty, Zenon
    <3> QED
      BY <1>4, <3>1, <3>3, Zenon
  <2>3. CASE StartDone
    <3>1. jobs # <<>>
      BY <1>1, <2>3 DEF StartDone, AtHand, Restarts
    <3> QED
      BY <1>1, <1>4, <2>3, <3>1, FitsTail, Zenon DEF StartDone
  <2>4. CASE StartRaises
    <3>1. ServicesTyped' /\ RestTyped' /\ TaskTyped' /\ AtHand'
      BY <1>1, <2>4 DEF StartRaises, TaskFails, Awake, InStart, ServicesTyped, RestTyped,
         TaskTyped, AtHand, Restarts, PC
    <3>2. Fits(jobs)'
      BY <1>2, <2>4, FitsEmpty, FitsPrimed DEF StartRaises, TaskFails
    <3> QED
      BY <1>6, <2>4, <3>1, <3>2 DEF StartRaises
  <2>5. CASE RestartStopped \/ OnRestartDone
    <3>1. Head(jobs) = jobs[1] /\ jobs[1].who \in Service /\ jobs # <<>>
          /\ jobs[1].op = "restart"
      BY <1>1, <2>5, FitsHead DEF RestartStopped, OnRestartDone, AtHand, Restarts
    <3>2. ServicesTyped' /\ RestTyped' /\ TaskTyped' /\ AtHand'
      BY <1>1, <2>5, <3>1 DEF RestartStopped, OnRestartDone, Reset, ServicesTyped,
         RestTyped, TaskTyped, AtHand, Restarts, PC
    <3>3. Fits(jobs)'
      BY <1>1, <1>2, <2>5, FitsPrimed DEF RestartStopped, OnRestartDone
    <3> QED
      BY <1>6, <2>5, <3>2, <3>3 DEF RestartStopped, OnRestartDone
  <2>6. CASE GroupStopped
    BY <1>1, <1>4, <2>6, Zenon DEF GroupStopped
  <2>7. CASE StopRaised \/ ReplaceFails
    <3>1. ServicesTyped' /\ RestTyped' /\ TaskTyped' /\ AtHand'
      BY <1>1, <2>7 DEF StopRaised, ReplaceFails, TaskFails, Awake, InStart, servicevars,
         ServicesTyped, RestTyped, TaskTyped, AtHand, Restarts, PC
    <3>2. Fits(jobs)'
      BY <1>2, <2>7, FitsEmpty, FitsPrimed DEF StopRaised, ReplaceFails, TaskFails
    <3> QED
      BY <1>6, <2>7, <3>1, <3>2 DEF StopRaised, ReplaceFails
  <2>8. ASSUME NEW s \in Service, Replaced(s)
        PROVE  /\ ServicesTyped' /\ TaskTyped' /\ StopTyped' /\ RestTyped'
               /\ Fits(jobs)' /\ AtHand'
    <3>1. jobs # <<>> /\ Proceed(Tail(jobs))
      BY <1>1, <2>8 DEF Replaced, AtHand, Restarts
    <3> QED
      BY <1>1, <1>4, <3>1, FitsTail, Zenon
  <2> QED
    BY <1>10, <2>1, <2>2, <2>3, <2>4, <2>5, <2>6, <2>7, <2>8, Zenon DEF TaskStep
<1>11. CASE SupervisorStop \/ OnStopNext
  <2>1. PICK i \in Nat : OnStop(i)
    BY <1>1, <1>11 DEF SupervisorStop, OnStopNext, StopTyped
  <2>2. /\ stopped' \subseteq Service /\ stopping' \subseteq Service
        /\ failed' \subseteq Service /\ stopat' \in Nat /\ stopwho' \in Service \cup {None}
        /\ stoppc' \in {"on_stop", "futures"}
    <3>1. CASE StopFrom(i) = {}
      BY <1>1, <2>1, <3>1 DEF OnStop, ServicesTyped, StopTyped
    <3>2. CASE StopFrom(i) # {}
      <4>1. PICK j \in StopFrom(i) : /\ stoppc' = "on_stop" /\ stopat' = j
                                     /\ stopwho' = services[j]
                                     /\ BeginStops({services[j]})
        BY <2>1, <3>2 DEF OnStop
      <4>2. j \in Nat /\ services[j] \in Service
        BY <1>1 DEF StopFrom, ListsTyped
      <4> QED
        BY <1>1, <4>1, <4>2 DEF BeginStops, ServicesTyped
    <3> QED
      BY <3>1, <3>2
  <2>3. /\ started' = started /\ crashed' = crashed /\ up' = up /\ starting' = starting
        /\ taskvars' = taskvars /\ broken' = broken /\ crashes' = crashes
    BY <1>11 DEF SupervisorStop, OnStopNext
  <2>4. quiet' \in BOOLEAN
    <3>1. CASE SupervisorStop
      <4>1. (pc \in {"task", "waiting"}) \in BOOLEAN
        OBVIOUS
      <4>2. quiet' = (pc \in {"task", "waiting"})
        BY <3>1, Zenon DEF SupervisorStop
      <4> QED
        BY <4>1, <4>2, Zenon
    <3>2. CASE OnStopNext
      <4>1. quiet' = quiet /\ quiet \in BOOLEAN
        BY <1>1, <3>2, Zenon DEF OnStopNext, StopTyped
      <4> QED
        BY <4>1, Zenon
    <3> QED
      BY <1>11, <3>1, <3>2
  <2> QED
    BY <1>1, <1>5, <2>2, <2>3, <2>4 DEF ServicesTyped, StopTyped, RestTyped
<1>12. CASE TaskCancelled
  <2>1. ServicesTyped' /\ RestTyped' /\ TaskTyped' /\ AtHand' /\ StopTyped'
    BY <1>1, <1>12 DEF TaskCancelled, Awake, ServicesTyped, RestTyped, TaskTyped, AtHand,
       StopTyped, Restarts, PC
  <2>2. jobs' = jobs \/ jobs' = <<>>
    BY <1>12 DEF TaskCancelled
  <2> QED
    BY <1>1, <1>2, <2>1, <2>2, FitsEmpty, FitsPrimed
<1>13. CASE TaskJoined
  BY <1>1, <1>5, <1>13 DEF TaskJoined, servicevars, ServicesTyped, StopTyped, RestTyped
<1>14. CASE UNCHANGED vars
  BY <1>1, <1>5, <1>6, <1>14 DEF vars, servicevars, ServicesTyped, RestTyped
<1> QED
  BY <1>7, <1>8, <1>9, <1>10, <1>11, <1>12, <1>13, <1>14, <1>15, Zenon DEF Next, StopStep

LEMMA TypeInvariant == Spec => []TypeInv
BY TypeInit, TypeStep, PTL DEF Spec

\* The variables of the supervisor and of its services have the types TypeOK gives
\* them, and the task's lists hold only what its strategy asks for.
THEOREM SupervisorTypeCorrect == Spec => []TypeOK
<1>1. TypeInv => TypeOK
  BY DEF TypeInv
<1> QED
  BY <1>1, TypeInvariant, PTL

-----------------------------------------------------------------------------
(* What is given up stays down.                                            *)

LEMMA GivenUpStep ==
    ASSUME TypeInv, [Next]_vars, config.strategy \in {"forfeit_one", "forfeit_all"}
    PROVE  crashed \subseteq crashed' /\ crashed \cap up' \subseteq up
<1>1. Fits(jobs) /\ AtHand /\ ListsTyped
  BY TypeParts
<1>2. ~ MayDo("restart") /\ ~ MayDo("restart_all")
  BY DEF MayDo
<1>3. ~ Restarts
  BY <1>1, <1>2, FitsHead DEF AtHand
<1>4. ASSUME NEW q, Fits(q), Proceed(q) PROVE crashed' = crashed /\ up' = up
  <2>1. CASE UNCHANGED servicevars
    BY <2>1 DEF servicevars
  <2>2. CASE q # <<>> /\ Begin(q)
    <3>1. Head(q).op # "restart"
      BY <1>2, <1>4, <2>2, FitsHead
    <3>2. ASSUME NEW s, StartJob(s) \/ ReplaceJob(s) \/ StopJob(s)
          PROVE  crashed' = crashed /\ up' = up
      BY <3>2 DEF StartJob, ReplaceJob, StopJob, servicevars
    <3> QED
      BY <2>2, <3>1, <3>2, Zenon DEF Begin
  <2> QED
    BY <1>4, <2>1, <2>2, Zenon DEF Proceed, Refuses
<1>5. ASSUME NEW s \in Service, ServiceStep(s)
      PROVE  crashed \subseteq crashed' /\ crashed \cap up' \subseteq up
  BY <1>5 DEF ServiceStep, ServiceStarted, ServiceStopped, ServiceStopRaises,
     ServiceCrashes, ServiceStopCaller
<1>6. CASE \/ SupervisorStop \/ StopStep \/ UNCHANGED vars
           \/ \E s \in Service : Add(s) \/ Discard(s)
  BY <1>6 DEF SupervisorStop, StopStep, OnStopNext, TaskCancelled, TaskJoined, Add, Discard,
     servicevars, vars
<1>9. CASE \E s \in Service, new \in SUBSET Late : AddAgain(s, new)
  BY <1>9, AddAgainKeeps DEF servicevars
<1>7. CASE SupervisorStart
  <2>1. MayDo("start") /\ services \in Seq(Service)
    BY <1>1 DEF MayDo, ListsTyped
  <2>2. Fits(JobsFor("start", services))
    BY <2>1, FitsJobsFor, Zenon
  <2> QED
    BY <1>4, <1>7, <2>2 DEF SupervisorStart
<1>8. CASE TaskStep
  <2>1. CASE TaskBegins
    BY <1>4, <2>1, FitsEmpty, Zenon DEF TaskBegins
  <2>2. CASE WakeUp
    <3>1. PICK q \in InOrder(ToStart), r \in InOrder(ToRestart) :
             Proceed(IF ShouldStop THEN <<>> ELSE JobsFor("start", q) \o Remedy(r))
      BY <2>2, Zenon DEF WakeUp
    <3>2. Fits(IF ShouldStop THEN <<>> ELSE JobsFor("start", q) \o Remedy(r))
      BY <1>1, FitsWakeUp, FitsEmpty, Zenon
    <3> QED
      BY <1>4, <3>1, <3>2
  <2>3. CASE StartDone \/ GroupStopped
    <3>1. StartDone => jobs # <<>> /\ Proceed(Tail(jobs))
      BY <1>1 DEF StartDone, AtHand, Restarts
    <3>2. GroupStopped => Proceed(jobs)
      BY DEF GroupStopped
    <3> QED
      BY <1>1, <1>4, <2>3, <3>1, <3>2, FitsTail
  <2>4. CASE StartRaises \/ StopRaised
    BY <2>4 DEF StartRaises, StopRaised, servicevars
  <2>5. ~ (RestartStopped \/ OnRestartDone \/ ReplaceFails \/ \E s \in Service : Replaced(s))
    BY <1>3 DEF RestartStopped, OnRestartDone, ReplaceFails, Replaced, Restarts
  <2> QED
    BY <1>8, <2>1, <2>2, <2>3, <2>4, <2>5 DEF TaskStep
<1> QED
  BY <1>5, <1>6, <1>7, <1>8, <1>9, Zenon DEF Next

\* supervisors.py, the two forfeit strategies: a service that crashed is never reset
\* or started again, whatever the group, the crashes and the order of the stops.
THEOREM ForfeitedStaysDown == Spec => GivenUp
<1>1. TypeInv /\ [Next]_vars
      => [config.strategy \in {"forfeit_one", "forfeit_all"}
          => crashed \subseteq crashed' /\ crashed \cap up' \subseteq up]_vars
  BY GivenUpStep
<1> QED
  BY <1>1, TypeInvariant, PTL DEF Spec, GivenUp

-----------------------------------------------------------------------------
(* stop() stops the group.                                                 *)

\* The only start() body is the one the task awaits.
StartInv == starting \subseteq IF StartsOne THEN {jobs[1].who} ELSE {}

MineInv == mine # {} => AwaitsStops

\* A service that was told to stop is down, or its stop() is running, or raised.
LeftInv ==
    stoppc \in {"idle", "on_stop", "futures"} \/ quiet
    => up \cap stopped \subseteq stopping \cup failed

\* What is up has its started event set, but for the service being restarted.
UpInv ==
    stoppc = "idle" /\ pc # "ended"
    => up \cup starting \subseteq
           started \cup (IF pc = "on_restart" THEN {jobs[1].who} ELSE {})

\* After a quiet stop() nothing is started, and every service that is up was told to
\* stop or is still ahead of the loop of on_stop.
QuietInv ==
    quiet =>
    /\ stoppc # "idle" /\ pc \in {"task", "waiting", "ended"}
    /\ mine = {} /\ starting = {}
    /\ \A i \in DOMAIN services : services[i] \in up =>
          \/ services[i] \in stopped
          \/ stoppc = "on_stop" /\ i > stopat /\ services[i] \in started

StopsInv == StartInv /\ MineInv /\ LeftInv /\ UpInv /\ QuietInv

LEMMA StopsProceed ==
    ASSUME StopsInv, NEW q, Fits(q), Proceed(q), starting = {}, pc \notin {"on_restart", "ended"},
           quiet => q = <<>> /\ services' = services
    PROVE  StopsInv'
<1>1. /\ stoppc' = stoppc /\ stopat' = stopat /\ quiet' = quiet
      /\ StartInv /\ MineInv /\ LeftInv /\ UpInv /\ QuietInv
  BY DEF Proceed, stopvars, StopsInv
<1>2. CASE q = <<>> /\ Idle /\ UNCHANGED <<servicevars, place, broken>>
  <2>1. /\ servicevars' = servicevars /\ mine' = {}
        /\ pc' \in {"ended", "task", "waiting"}
        /\ stoppc # "idle" => pc' = "ended"
    BY <1>2 DEF Idle, ShouldStop
  <2>2. StartInv' /\ MineInv'
    BY <2>1 DEF servicevars, StartInv, MineInv, StartsOne
  <2>3. LeftInv'
    BY <1>1, <2>1 DEF servicevars, LeftInv
  <2>4. UpInv'
    BY <1>1, <2>1 DEF servicevars, UpInv
  <2>5. QuietInv'
    BY <1>1, <1>2, <2>1 DEF servicevars, QuietInv
  <2> QED
    BY <2>2, <2>3, <2>4, <2>5 DEF StopsInv
<1>3. ASSUME q # <<>> PROVE QuietInv'
  BY <1>1, <1>3 DEF QuietInv
<1>4. CASE q # <<>> /\ Refuses(q)
  <2>1. servicevars' = servicevars /\ mine' = {} /\ pc' = "ended"
    BY <1>4 DEF Refuses, TaskFails
  <2>2. StartInv' /\ MineInv' /\ UpInv'
    BY <2>1 DEF servicevars, StartInv, MineInv, UpInv, StartsOne
  <2>3. LeftInv'
    BY <1>1, <2>1 DEF servicevars, LeftInv
  <2> QED
    BY <1>3, <1>4, <2>2, <2>3 DEF StopsInv
<1>5. CASE q # <<>> /\ Begin(q)
  <2>1. Head(q) = q[1]
    BY <1>5, FitsHead
  <2>2. CASE StartJob(q[1].who) /\ jobs' = q
    <3>1. /\ pc' \in {"on_start", "start"} /\ mine' = {} /\ jobs'[1].who = q[1].who
          /\ started' = started \cup {q[1].who} /\ starting' \subseteq {q[1].who}
          /\ stopped' = stopped /\ up' = up /\ stopping' = stopping /\ failed' = failed
      BY <2>2 DEF StartJob
    <3>2. StartInv' /\ MineInv'
      BY <3>1 DEF StartInv, MineInv, StartsOne
    <3>3. LeftInv'
      BY <1>1, <3>1 DEF LeftInv
    <3>4. UpInv'
      BY <1>1, <3>1 DEF UpInv
    <3> QED
      BY <1>3, <1>5, <3>2, <3>3, <3>4 DEF StopsInv
  <2>3. CASE RestartJob(q[1].who) /\ jobs' = q
    <3>1. pc' \in {"restart_stop", "on_restart"} /\ starting' = {} /\ jobs'[1].who = q[1].who
      BY <2>3 DEF RestartJob
    <3>2. StartInv' /\ MineInv'
      BY <2>3, <3>1 DEF StartInv, MineInv, RestartJob, AwaitsStops
    <3>3. LeftInv'
      BY <1>1, <2>3 DEF LeftInv, RestartJob, BeginStops, Reset
    <3>4. UpInv'
      BY <1>1, <2>3, <3>1 DEF UpInv, RestartJob, BeginStops, Reset
    <3> QED
      BY <1>3, <1>5, <3>2, <3>3, <3>4 DEF StopsInv
  <2>4. CASE ReplaceJob(q[1].who)
    <3>1. pc' = "replace" /\ servicevars' = servicevars /\ mine' = {}
      BY <2>4 DEF ReplaceJob
    <3>2. StartInv' /\ MineInv' /\ UpInv'
      BY <1>1, <3>1 DEF servicevars, StartInv, MineInv, UpInv, StartsOne
    <3>3. LeftInv'
      BY <1>1, <3>1 DEF servicevars, LeftInv
    <3> QED
      BY <1>3, <1>5, <3>2, <3>3 DEF StopsInv
  <2>5. ASSUME NEW S, StopJob(S) PROVE StopsInv'
    <3>1. pc' = "stop" /\ starting' = {} /\ started' = started /\ up' = up
      BY <2>5 DEF StopJob
    <3>2. StartInv' /\ MineInv' /\ UpInv'
      BY <1>1, <3>1 DEF StartInv, MineInv, UpInv, AwaitsStops
    <3>3. LeftInv'
      BY <1>1, <2>5 DEF LeftInv, StopJob, StopGroup, BeginStops
    <3> QED
      BY <1>3, <1>5, <3>2, <3>3 DEF StopsInv
  <2> QED
    BY <1>5, <2>1, <2>2, <2>3, <2>4, <2>5, Zenon DEF Begin
<1> QED
  BY <1>2, <1>4, <1>5, Zenon DEF Proceed

LEMMA StopsService ==
    ASSUME StopsInv, NEW s \in Service, ServiceStep(s)
    PROVE  StopsInv'
<1>1. /\ StartInv /\ MineInv /\ LeftInv /\ UpInv /\ QuietInv
      /\ pc' = pc /\ jobs' = jobs /\ mine' = mine /\ stopvars' = stopvars
      /\ services' = services /\ started' = started /\ stopped \subseteq stopped'
      /\ starting' \subseteq starting /\ up' \subseteq up \cup starting
  BY DEF StopsInv, ServiceStep, ServiceStarted, ServiceStopped, ServiceStopRaises,
     ServiceCrashes, ServiceStopCaller, BeginStops, taskvars, listvars
<1>2. StartInv' /\ MineInv'
  BY <1>1 DEF StartInv, MineInv, StartsOne, AwaitsStops
<1>3. UpInv'
  BY <1>1 DEF UpInv, stopvars
<1>4. QuietInv'
  BY <1>1 DEF QuietInv, stopvars
<1>5. LeftInv'
  <2>1. CASE ServiceStarted(s)
    BY <1>1, <2>1 DEF LeftInv, ServiceStarted, stopvars
  <2>2. CASE ServiceStopped(s)
    BY <1>1, <2>2 DEF LeftInv, ServiceStopped, stopvars
  <2>3. CASE ServiceStopRaises(s)
    BY <1>1, <2>3 DEF LeftInv, ServiceStopRaises, stopvars
  <2>4. CASE ServiceCrashes(s)
    BY <1>1, <2>4 DEF LeftInv, ServiceCrashes, stopvars
  <2>5. CASE ServiceStopCaller(s)
    BY <1>1, <2>5 DEF LeftInv, ServiceStopCaller, BeginStops, stopvars
  <2> QED
    BY <2>1, <2>2, <2>3, <2>4, <2>5 DEF ServiceStep
<1> QED
  BY <1>2, <1>3, <1>4, <1>5 DEF StopsInv

\* The loop of on_stop goes on: it has passed whatever it need not stop.
LEMMA StopsOnStop ==
    ASSUME TypeInv, StopsInv, SupervisorStop \/ OnStopNext
    PROVE  StopsInv'
<1>1. /\ StartInv /\ MineInv /\ LeftInv /\ UpInv /\ QuietInv
      /\ pc' = pc /\ jobs' = jobs /\ mine' = mine /\ services' = services
      /\ started' = started /\ starting' = starting /\ up' = up
      /\ stoppc \in {"idle", "on_stop"}
  BY DEF StopsInv, SupervisorStop, OnStopNext, taskvars, listvars
<1>2. PICK i \in Nat : /\ OnStop(i)
                       /\ stoppc = "idle" => i = 0
                       /\ stoppc = "on_stop" => i = stopat /\ quiet' = quiet
                       /\ stoppc = "idle" => quiet' = (pc \in {"task", "waiting"})
  BY DEF SupervisorStop, OnStopNext, TypeInv, TypeOK
<1>3. stoppc' \in {"on_stop", "futures"} /\ stopped \subseteq stopped'
  BY <1>2 DEF OnStop, BeginStops
<1>4. StartInv' /\ MineInv' /\ UpInv'
  BY <1>1, <1>3 DEF StartInv, MineInv, UpInv, StartsOne, AwaitsStops
<1>5. LeftInv'
  BY <1>1, <1>2 DEF LeftInv, OnStop, BeginStops
<1>6. DOMAIN services = 1 .. Len(services) /\ Len(services) \in Nat
  BY DEF TypeInv, TypeOK
<1>7. ASSUME quiet'
      PROVE  /\ pc \in {"task", "waiting", "ended"} /\ mine = {} /\ starting = {}
             /\ \A k \in DOMAIN services : services[k] \in up =>
                   services[k] \in stopped \/ (k > i /\ services[k] \in started)
  <2>1. CASE stoppc = "idle"
    <3>1. pc \in {"task", "waiting"} /\ i = 0
      BY <1>2, <1>7, <2>1
    <3>2. mine = {} /\ starting = {} /\ up \subseteq started
      BY <1>1, <2>1, <3>1 DEF StartInv, MineInv, UpInv, StartsOne, AwaitsStops
    <3> QED
      BY <1>6, <3>1, <3>2
  <2>2. CASE stoppc = "on_stop"
    BY <1>1, <1>2, <1>7, <2>2 DEF QuietInv
  <2> QED
    BY <1>1, <2>1, <2>2
<1>8. QuietInv'
  <2> SUFFICES ASSUME quiet', NEW k \in DOMAIN services, services[k] \in up
               PROVE  \/ services[k] \in stopped'
                      \/ stoppc' = "on_stop" /\ k > stopat' /\ services[k] \in started
    BY <1>1, <1>3, <1>7 DEF QuietInv
  <2>1. services[k] \in stopped \/ k \in StopFrom(i)
    BY <1>6, <1>7 DEF StopFrom
  <2>2. CASE StopFrom(i) = {}
    BY <1>3, <2>1, <2>2
  <2>3. CASE StopFrom(i) # {}
    <3>1. PICK j \in StopFrom(i) : /\ \A m \in StopFrom(i) : j <= m
                                   /\ stoppc' = "on_stop" /\ stopat' = j
                                   /\ BeginStops({services[j]})
      BY <1>2, <2>3 DEF OnStop
    <3>2. CASE k = j
      BY <3>1, <3>2 DEF BeginStops
    <3>3. CASE k # j /\ k \in StopFrom(i)
      <4>1. j <= k /\ j \in Nat /\ k \in Nat /\ services[k] \in started
        BY <1>6, <3>1, <3>3 DEF StopFrom
      <4> QED
        BY <3>1, <3>3, <4>1
    <3> QED
      BY <1>3, <2>1, <3>2, <3>3
  <2> QED
    BY <2>2, <2>3
<1> QED
  BY <1>4, <1>5, <1>8 DEF StopsInv

LEMMA StopsTask ==
    ASSUME TypeInv, StopsInv, TaskStep
    PROVE  StopsInv'
<1>1. /\ StartInv /\ MineInv /\ LeftInv /\ UpInv /\ QuietInv
      /\ Fits(jobs) /\ AtHand /\ ListsTyped
  BY TypeParts DEF StopsInv
<1>2. ~ StartsOne => starting = {}
  BY <1>1 DEF StartInv
<1>3. StartsOne \/ Restarts => jobs # <<>> /\ Head(jobs) = jobs[1]
  BY <1>1, FitsHead DEF StartsOne, AtHand, Restarts
<1>4. CASE TaskBegins
  <2>1. /\ Proceed(<<>>) /\ services' = services /\ starting = {}
        /\ pc \notin {"on_restart", "ended"}
    BY <1>2, <1>4 DEF TaskBegins, listvars, StartsOne
  <2> QED
    BY <2>1, FitsEmpty, StopsProceed
<1>5. CASE WakeUp
  <2>1. PICK q \in InOrder(ToStart), r \in InOrder(ToRestart) :
           Proceed(IF ShouldStop THEN <<>> ELSE JobsFor("start", q) \o Remedy(r))
    BY <1>5, Zenon DEF WakeUp
  <2>2. Fits(IF ShouldStop THEN <<>> ELSE JobsFor("start", q) \o Remedy(r))
    BY <1>1, FitsWakeUp, FitsEmpty, Zenon
  <2>3. services' = services /\ starting = {} /\ pc \notin {"on_restart", "ended"}
    BY <1>2, <1>5 DEF WakeUp, listvars, StartsOne
  <2>4. quiet => ShouldStop
    BY <1>1 DEF QuietInv, ShouldStop
  <2> QED
    BY <2>1, <2>2, <2>3, <2>4, StopsProceed
<1>6. CASE StartDone \/ GroupStopped \/ \E s \in Service : Replaced(s)
  <2>1. ~ quiet /\ pc \notin {"on_restart", "ended"}
    BY <1>1, <1>6 DEF QuietInv, StartDone, GroupStopped, Replaced
  <2>2. starting = {}
    BY <1>1, <1>3, <1>6 DEF StartInv, StartDone, GroupStopped, Replaced, StartsOne
  <2>3. \E q : Fits(q) /\ Proceed(q)
    <3>1. CASE StartDone \/ \E s \in Service : Replaced(s)
      <4>1. jobs # <<>> /\ Proceed(Tail(jobs))
        BY <1>3, <3>1 DEF StartDone, Replaced, StartsOne, Restarts
      <4> QED
        BY <1>1, <4>1, FitsTail
    <3>2. CASE GroupStopped
      BY <1>1, <3>2 DEF GroupStopped
    <3> QED
      BY <1>6, <3>1, <3>2
  <2> QED
    BY <2>1, <2>2, <2>3, StopsProceed
<1>7. CASE StartRaises \/ StopRaised \/ ReplaceFails
  <2>1. /\ ~ quiet /\ pc' = "ended" /\ mine' = {} /\ starting' = {}
        /\ up' = up /\ stopped' = stopped /\ stopping' = stopping /\ failed' = failed
        /\ stopvars' = stopvars
    <3>1. CASE StartRaises
      BY <1>1, <1>3, <3>1 DEF QuietInv, StartRaises, TaskFails, StartInv, StartsOne
    <3>2. CASE StopRaised \/ ReplaceFails
      BY <1>1, <1>2, <3>2 DEF QuietInv, StopRaised, ReplaceFails, TaskFails, servicevars,
         StartsOne
    <3> QED
      BY <1>7, <3>1, <3>2
  <2>2. StartInv' /\ MineInv' /\ UpInv' /\ QuietInv'
    BY <2>1 DEF StartInv, MineInv, UpInv, QuietInv, stopvars
  <2>3. LeftInv'
    BY <1>1, <2>1 DEF LeftInv, stopvars
  <2> QED
    BY <2>2, <2>3 DEF StopsInv
<1>8. CASE RestartStopped \/ OnRestartDone
  <2>1. ~ quiet /\ quiet' = quiet /\ stoppc' = stoppc
    BY <1>1, <1>8 DEF QuietInv, RestartStopped, OnRestartDone, stopvars
  <2>2. Head(jobs) = jobs[1] /\ starting = {}
    BY <1>2, <1>3, <1>8 DEF RestartStopped, OnRestartDone, StartsOne, Restarts
  <2>3. StartInv' /\ MineInv'
    BY <1>1, <1>8, <2>2 DEF RestartStopped, OnRestartDone, StartInv, MineInv, StartsOne,
       AwaitsStops
  <2>4. LeftInv'
    BY <1>1, <1>8, <2>1 DEF LeftInv, RestartStopped, OnRestartDone, Reset
  <2>5. UpInv'
    <3>1. CASE RestartStopped
      BY <1>1, <2>1, <2>2, <3>1 DEF UpInv, RestartStopped, Reset
    <3>2. CASE OnRestartDone
      BY <1>1, <2>1, <2>2, <3>2 DEF UpInv, OnRestartDone
    <3> QED
      BY <1>8, <3>1, <3>2
  <2>6. QuietInv'
    BY <2>1 DEF QuietInv
  <2> QED
    BY <2>3, <2>4, <2>5, <2>6 DEF StopsInv
<1> QED
  BY <1>4, <1>5, <1>6, <1>7, <1>8, Zenon DEF TaskStep

LEMMA StopsStep == TypeInv /\ StopsInv /\ [Next]_vars => StopsInv'
<1> SUFFICES ASSUME TypeInv, StopsInv, [Next]_vars PROVE StopsInv'
  OBVIOUS
<1>1. /\ StartInv /\ MineInv /\ LeftInv /\ UpInv /\ QuietInv
      /\ Fits(jobs) /\ AtHand /\ ListsTyped
  BY TypeParts DEF StopsInv
<1>2. ASSUME NEW s \in Service, ServiceStep(s) PROVE StopsInv'
  BY <1>2, StopsService
<1>3. CASE SupervisorStop \/ OnStopNext
  BY <1>3, StopsOnStop
<1>4. CASE TaskStep
  BY <1>4, StopsTask
<1>5. CASE SupervisorStart
  <2>1. /\ starting = {} /\ ~ quiet /\ pc \notin {"on_restart", "ended"}
        /\ Proceed(JobsFor("start", services))
    BY <1>1, <1>5 DEF SupervisorStart, StartInv, QuietInv, StartsOne
  <2>2. MayDo("start") /\ services \in Seq(Service)
    BY <1>1 DEF MayDo, ListsTyped
  <2>3. Fits(JobsFor("start", services))
    BY <2>2, FitsJobsFor, Zenon
  <2> QED
    BY <2>1, <2>3, StopsProceed
<1>6. ASSUME /\ servicevars' = servicevars /\ taskvars' = taskvars /\ quiet' = quiet
             /\ stoppc' = stoppc \/ (stoppc # "idle" /\ stoppc' \in {"join", "returned"})
             /\ quiet => /\ services' = services /\ stopat' = stopat
                         /\ stoppc = "on_stop" => stoppc' = "on_stop"
      PROVE  StopsInv'
  <2>1. StartInv' /\ MineInv'
    BY <1>1, <1>6 DEF servicevars, taskvars, StartInv, MineInv, StartsOne, AwaitsStops
  <2>2. LeftInv'
    BY <1>1, <1>6 DEF servicevars, LeftInv
  <2>3. UpInv'
    BY <1>1, <1>6 DEF servicevars, taskvars, UpInv
  <2>4. QuietInv'
    BY <1>1, <1>6 DEF servicevars, taskvars, QuietInv
  <2> QED
    BY <2>1, <2>2, <2>3, <2>4 DEF StopsInv
<1>7. ASSUME NEW s \in Service, Add(s) \/ Discard(s) PROVE StopsInv'
  <2>1. stoppc = "idle" /\ ~ quiet
    BY <1>1, <1>7 DEF Add, Discard, Settled, QuietInv
  <2> QED
    BY <1>6, <1>7, <2>1 DEF Add, Discard, stopvars
<1>10. CASE \E s \in Service, new \in SUBSET Late : AddAgain(s, new)
  BY <1>6, <1>10, AddAgainKeeps DEF stopvars
<1>8. CASE TaskJoined \/ UNCHANGED vars
  BY <1>6, <1>8 DEF TaskJoined, listvars, stopvars, vars
<1>9. CASE TaskCancelled
  <2>1. /\ stoppc = "futures" /\ stoppc' = "join" /\ quiet' = quiet /\ stopat' = stopat
        /\ services' = services /\ started' = started /\ stopped' = stopped
        /\ failed' = failed
    BY <1>9 DEF TaskCancelled, listvars
  <2>2. StartInv'
    <3>1. StartsOne => Head(jobs) = jobs[1]
      BY <1>1, FitsHead DEF StartsOne, AtHand, Restarts
    <3> QED
      BY <1>1, <1>9, <3>1 DEF TaskCancelled, InStart, StartInv, StartsOne
  <2>3. MineInv'
    BY <1>1, <1>9 DEF TaskCancelled, MineInv, AwaitsStops
  <2>4. UpInv'
    BY <2>1 DEF UpInv
  <2>5. quiet => /\ up' = up /\ stopping' = stopping /\ starting' = {} /\ mine' = {}
                 /\ pc' \in {"task", "waiting", "ended"}
    BY <1>1, <1>9 DEF TaskCancelled, QuietInv
  <2>6. LeftInv'
    BY <1>1, <2>1, <2>5 DEF LeftInv
  <2>7. QuietInv'
    BY <1>1, <2>1, <2>5 DEF QuietInv
  <2> QED
    BY <2>2, <2>3, <2>4, <2>6, <2>7 DEF StopsInv
<1> QED
  BY <1>2, <1>3, <1>4, <1>5, <1>7, <1>8, <1>9, <1>10, Zenon DEF Next, StopStep

LEMMA StopsInit == Init => StopsInv
BY DEF Init, StopsInv, StartInv, MineInv, LeftInv, UpInv, QuietInv

LEMMA StopsInvariant == Spec => []StopsInv
BY TypeInvariant, StopsInit, StopsStep, PTL DEF Spec

\* supervisors.py, on_stop: a stop() that did not catch the supervisor in the middle
\* of starting or restarting leaves no service of the group up, but for one that some
\* other caller is still stopping, or whose stop() raised.
THEOREM GroupStops == Spec => []StopStopsAll
<1>1. StopsInv => StopStopsAll
  <2> SUFFICES ASSUME StopsInv, stoppc = "returned", quiet, NEW s \in Elems(services) \cap up
               PROVE  s \in stopping \cup failed
    BY DEF StopStopsAll
  <2>1. s \in stopped
    BY DEF StopsInv, QuietInv, Elems
  <2> QED
    BY <2>1 DEF StopsInv, LeftInv
<1> QED
  BY <1>1, StopsInvariant, PTL

-----------------------------------------------------------------------------
(* One for all: the group is down before one of it is started again.       *)

Distinct(q) == \A i, j \in DOMAIN q : q[i] = q[j] => i = j

\* No service is twice in _services.
GroupInv == Distinct(services) /\ Elems(services) \subseteq supervised

LEMMA WithoutDistinct ==
    ASSUME NEW q \in Seq(Service), Distinct(q), NEW s \in Elems(q)
    PROVE  Distinct(Without(q, s)) /\ Elems(Without(q, s)) \subseteq Elems(q)
<1> DEFINE i == CHOOSE j \in DOMAIN q : q[j] = s /\ \A m \in 1 .. j-1 : q[m] # s
<1>1. Len(q) \in Nat /\ DOMAIN q = 1 .. Len(q)
  OBVIOUS
<1>2. PICK k \in DOMAIN q : q[k] = s
  BY DEF Elems
<1>3. \A m \in 1 .. k-1 : q[m] # s
  BY <1>1, <1>2 DEF Distinct
<1>4. i \in DOMAIN q
  BY <1>2, <1>3
<1>5. /\ DOMAIN Without(q, s) = 1 .. Len(q) - 1
      /\ \A j \in 1 .. Len(q) - 1 : Without(q, s)[j] = IF j < i THEN q[j] ELSE q[j + 1]
  BY DEF Without
<1> HIDE DEF i
<1>6. \A j \in 1 .. Len(q) - 1 : j \in DOMAIN q /\ j + 1 \in DOMAIN q
  BY <1>1
<1>7. Distinct(Without(q, s))
  <2> SUFFICES ASSUME NEW a \in 1 .. Len(q) - 1, NEW b \in 1 .. Len(q) - 1,
                      Without(q, s)[a] = Without(q, s)[b]
               PROVE  a = b
    BY <1>5 DEF Distinct
  <2>1. a \in Int /\ b \in Int /\ i \in Int
    BY <1>1, <1>4
  <2> QED
    BY <1>5, <1>6, <2>1 DEF Distinct
<1>8. \A j \in 1 .. Len(q) - 1 : Without(q, s)[j] \in Elems(q)
  BY <1>5, <1>6 DEF Elems
<1> QED
  BY <1>5, <1>7, <1>8 DEF Elems

LEMMA GroupStep == TypeInv /\ GroupInv /\ [Next]_vars => GroupInv'
<1> SUFFICES ASSUME TypeInv, GroupInv, [Next]_vars PROVE GroupInv'
  OBVIOUS
<1>1. /\ services \in Seq(Service) /\ Len(services) \in Nat /\ place \in Nat
      /\ DOMAIN services = 1 .. Len(services)
  BY DEF TypeInv, TypeOK
<1>2. CASE UNCHANGED listvars
  BY <1>2 DEF listvars, GroupInv, Distinct, Elems
<1>3. ASSUME NEW s \in Service, Add(s) PROVE GroupInv'
  <2>1. /\ services' = Append(services, s) /\ s \notin supervised
        /\ supervised' = supervised \cup {s}
    BY <1>3 DEF Add
  <2>2. /\ DOMAIN services' = 1 .. Len(services) + 1 /\ services'[Len(services) + 1] = s
        /\ \A i \in DOMAIN services : services'[i] = services[i]
    BY <1>1, <2>1
  <2>3. \A i \in DOMAIN services : services[i] # s /\ services[i] \in supervised
    BY <2>1 DEF GroupInv, Elems
  <2>4. \A i \in DOMAIN services' : i = Len(services) + 1 \/ i \in DOMAIN services
    BY <1>1, <2>2
  <2>5. Distinct(services)'
    BY <2>2, <2>3, <2>4 DEF GroupInv, Distinct
  <2>6. Elems(services)' \subseteq supervised'
    BY <2>1, <2>2, <2>3, <2>4 DEF Elems
  <2> QED
    BY <2>5, <2>6 DEF GroupInv
<1>4. ASSUME NEW s \in Service, Discard(s) PROVE GroupInv'
  <2>1. /\ services' = Without(services, s) /\ s \in Elems(services)
        /\ supervised' = supervised
    BY <1>4 DEF Discard
  <2>2. Distinct(Without(services, s)) /\ Elems(Without(services, s)) \subseteq Elems(services)
    BY <1>1, <2>1, WithoutDistinct DEF GroupInv
  <2> QED
    BY <2>1, <2>2 DEF GroupInv, Distinct, Elems
<1>5. ASSUME NEW s \in Service, Replaced(s) PROVE GroupInv'
  <2>1. /\ services' = [services EXCEPT ![place + 1] = s] /\ s \notin supervised
        /\ supervised' = supervised \cup {s}
    BY <1>5 DEF Replaced
  <2>2. /\ DOMAIN services' = DOMAIN services
        /\ \A i \in DOMAIN services : services'[i] = IF i = place + 1 THEN s ELSE services[i]
    BY <1>1, <2>1
  <2>3. \A i \in DOMAIN services : services[i] # s /\ services[i] \in supervised
    BY <2>1 DEF GroupInv, Elems
  <2>4. Distinct(services)'
    BY <2>2, <2>3 DEF GroupInv, Distinct
  <2>5. Elems(services)' \subseteq supervised'
    BY <2>1, <2>2, <2>3 DEF Elems
  <2> QED
    BY <2>4, <2>5 DEF GroupInv
<1>6. CASE \E s \in Service, new \in SUBSET Late : AddAgain(s, new)
  BY <1>6, AddAgainKeeps DEF GroupInv, Distinct, Elems
<1> QED
  BY <1>2, <1>3, <1>4, <1>5, <1>6, ListsKept

LEMMA GroupInit == Init => GroupInv
BY SupervisorConstants DEF SupervisorConstants, Init, GroupInv, Distinct, Elems

\* A list of restarts, of different services.
AllRestarts(q) ==
    /\ \A i \in DOMAIN q : q[i].op = "restart"
    /\ \A i, j \in DOMAIN q : q[i].who = q[j].who => i = j
NoRestarts(q) == \A i \in DOMAIN q : q[i].op # "restart"

\* One for all: while the group is restarted, all but the one at hand were told to stop.
DownInv ==
    config.strategy = "one_for_all" /\ stoppc = "idle" /\ pc # "ended" =>
    IF pc = "stop" \/ Restarts
    THEN /\ AllRestarts(jobs)
         /\ \A i \in DOMAIN jobs : pc = "stop" \/ i > 1 => jobs[i].who \in stopped
    ELSE NoRestarts(jobs)

LEMMA DownProceed ==
    ASSUME TypeInv, GroupInv, config' = config, config.strategy = "one_for_all",
           NEW q, Fits(q), Proceed(q),
           \/ NoRestarts(q)
           \/ AllRestarts(q) /\ \A i \in DOMAIN q : q[i].who \in stopped
    PROVE  DownInv'
<1>1. CASE q = <<>> /\ Idle
  BY <1>1 DEF Idle, DownInv, NoRestarts, Restarts
<1>2. CASE q # <<>> /\ Refuses(q)
  BY <1>2 DEF Refuses, TaskFails, DownInv
<1>3. CASE q # <<>> /\ Begin(q)
  <2>1. /\ Head(q) = q[1] /\ 1 \in DOMAIN q /\ MayDo(q[1].op)
        /\ \A i \in DOMAIN q : i \in Nat /\ (i # 1 => i > 1)
    <3>1. Len(q) \in Nat /\ DOMAIN q = 1 .. Len(q)
      BY DEF Fits
    <3> QED
      BY <1>3, <3>1, FitsHead
  <2>2. CASE q[1].op = "start" /\ StartJob(q[1].who) /\ jobs' = q
    <3>1. NoRestarts(q) /\ pc' \in {"on_start", "start"}
      BY <2>1, <2>2 DEF AllRestarts, StartJob
    <3> QED
      BY <2>2, <3>1 DEF DownInv, NoRestarts, Restarts
  <2>3. CASE q[1].op = "restart" /\ (RestartJob(q[1].who) \/ ReplaceJob(q[1].who)) /\ jobs' = q
    <3>1. AllRestarts(q) /\ \A i \in DOMAIN q : q[i].who \in stopped
      BY <2>1, <2>3 DEF NoRestarts
    <3>2. pc' \in {"restart_stop", "on_restart", "replace"}
      BY <2>3 DEF RestartJob, ReplaceJob
    <3>3. stopped \ {q[1].who} \subseteq stopped'
      BY <2>3 DEF RestartJob, ReplaceJob, BeginStops, Reset, servicevars
    <3>4. \A i \in DOMAIN q : i > 1 => q[i].who \in stopped'
      BY <2>1, <3>1, <3>3 DEF AllRestarts
    <3> QED
      BY <2>3, <3>1, <3>2, <3>4 DEF DownInv, AllRestarts, Restarts
  <2>4. CASE q[1].op = "restart_all" /\ StopJob(Elems(services))
             /\ jobs' = JobsFor("restart", services)
    <3>1. /\ DOMAIN jobs' = DOMAIN services
          /\ \A i \in DOMAIN services : /\ jobs'[i].op = "restart"
                                        /\ jobs'[i].who = services[i]
      BY <2>4 DEF JobsFor
    <3>2. pc' = "stop" /\ Elems(services) \subseteq stopped'
      BY <2>4 DEF StopJob, StopGroup, BeginStops
    <3>3. AllRestarts(jobs')
      BY <3>1 DEF AllRestarts, GroupInv, Distinct
    <3>4. \A i \in DOMAIN jobs' : jobs'[i].who \in stopped'
      BY <3>1, <3>2 DEF Elems
    <3> QED
      BY <3>2, <3>3, <3>4 DEF DownInv, AllRestarts
  <2>5. q[1].op \notin {"stop", "stop_all"}
    BY <2>1 DEF MayDo
  <2> QED
    BY <1>3, <2>1, <2>2, <2>3, <2>4, <2>5, Zenon DEF Begin
<1> QED
  BY <1>1, <1>2, <1>3, Zenon DEF Proceed

LEMMA DownStep == TypeInv /\ GroupInv /\ DownInv /\ [Next]_vars => DownInv'
<1> SUFFICES ASSUME TypeInv, GroupInv, DownInv, [Next]_vars,
                    config'.strategy = "one_for_all", stoppc' = "idle", pc' # "ended"
             PROVE  DownInv'
  BY DEF DownInv
<1>1. /\ config' = config /\ stoppc = "idle" /\ pc # "ended"
      /\ Fits(jobs) /\ AtHand /\ ListsTyped
  BY TypeParts, ListsTypedStep, StaysWatching DEF TaskTyped
<1>2. ASSUME NEW q, Fits(q), Proceed(q),
             \/ NoRestarts(q)
             \/ AllRestarts(q) /\ \A i \in DOMAIN q : q[i].who \in stopped
      PROVE  DownInv'
  BY <1>1, <1>2, DownProceed
<1>3. ASSUME pc' = pc, jobs' = jobs, stopped \subseteq stopped' PROVE DownInv'
  BY <1>1, <1>3 DEF DownInv, Restarts, AllRestarts, NoRestarts
<1>4. ASSUME NEW s \in Service, ServiceStep(s) \/ Add(s) \/ Discard(s) PROVE DownInv'
  <2>1. pc' = pc /\ jobs' = jobs /\ stopped \subseteq stopped'
    BY <1>4 DEF ServiceStep, ServiceStarted, ServiceStopped, ServiceStopRaises,
       ServiceCrashes, ServiceStopCaller, BeginStops, Add, Discard, servicevars, taskvars
  <2> QED
    BY <1>3, <2>1
<1>9. CASE \E s \in Service, new \in SUBSET Late : AddAgain(s, new)
  BY <1>3, <1>9, AddAgainKeeps DEF servicevars, taskvars
<1>5. CASE SupervisorStart
  <2>1. MayDo("start") /\ services \in Seq(Service)
    BY <1>1 DEF MayDo, ListsTyped
  <2>2. Fits(JobsFor("start", services)) /\ NoRestarts(JobsFor("start", services))
    <3>1. Fits(JobsFor("start", services))
      BY <2>1, FitsJobsFor, Zenon
    <3> QED
      BY <3>1 DEF NoRestarts, JobsFor
  <2> QED
    BY <1>2, <1>5, <2>2, Zenon DEF SupervisorStart
<1>6. CASE TaskStep
  <2>1. CASE TaskBegins
    <3>1. Proceed(<<>>) /\ NoRestarts(<<>>)
      BY <2>1 DEF TaskBegins, NoRestarts
    <3> QED
      BY <1>2, <3>1, FitsEmpty, Zenon
  <2>2. CASE WakeUp
    <3>1. PICK q \in InOrder(ToStart), r \in InOrder(ToRestart) :
             Proceed(IF ShouldStop THEN <<>> ELSE JobsFor("start", q) \o Remedy(r))
      BY <2>2, Zenon DEF WakeUp
    <3>2. Fits(<<>>) /\ NoRestarts(<<>>)
      BY FitsEmpty DEF NoRestarts
    <3>3. /\ Fits(JobsFor("start", q) \o Remedy(r))
          /\ NoRestarts(JobsFor("start", q) \o Remedy(r))
      BY <1>1, FitsWakeUp, Zenon DEF NoRestarts
    <3> QED
      BY <1>2, <3>1, <3>2, <3>3, Zenon
  <2>3. CASE StartDone \/ \E s \in Service : Replaced(s)
    <3>1. /\ jobs # <<>> /\ Proceed(Tail(jobs)) /\ pc # "stop"
          /\ pc \in {"on_start", "start"} \/ Restarts
      BY <1>1, <2>3 DEF StartDone, Replaced, AtHand, Restarts
    <3>2. /\ Fits(Tail(jobs)) /\ Len(jobs) \in Nat /\ DOMAIN jobs = 1 .. Len(jobs)
          /\ DOMAIN Tail(jobs) = 1 .. Len(jobs) - 1
          /\ \A i \in 1 .. Len(jobs) - 1 : Tail(jobs)[i] = jobs[i + 1]
      <4>1. /\ Fits(Tail(jobs)) /\ Tail(jobs) \in Seq(Job) /\ Len(jobs) \in Nat
            /\ Len(Tail(jobs)) = Len(jobs) - 1
            /\ \A i \in 1 .. Len(jobs) - 1 : Tail(jobs)[i] = jobs[i + 1]
        BY <1>1, <3>1, FitsTail
      <4>2. jobs \in Seq(Job)
        BY <1>1 DEF Fits
      <4> QED
        BY <4>1, <4>2
    <3>3. \A i \in DOMAIN Tail(jobs) : /\ i + 1 \in DOMAIN jobs /\ i + 1 > 1
                                       /\ Tail(jobs)[i] = jobs[i + 1]
      BY <3>2
    <3>4. CASE Restarts
      <4>1. AllRestarts(jobs) /\ \A i \in DOMAIN jobs : i > 1 => jobs[i].who \in stopped
        BY <1>1, <3>4 DEF DownInv
      <4>2. \A i \in DOMAIN Tail(jobs) : Tail(jobs)[i].who \in stopped
        BY <3>3, <4>1
      <4>3. AllRestarts(Tail(jobs))
        <5>1. \A i \in DOMAIN Tail(jobs) : Tail(jobs)[i].op = "restart"
          BY <3>3, <4>1 DEF AllRestarts
        <5>2. ASSUME NEW i \in DOMAIN Tail(jobs), NEW j \in DOMAIN Tail(jobs),
                     Tail(jobs)[i].who = Tail(jobs)[j].who
              PROVE  i = j
          <6>1. i + 1 = j + 1
            BY <3>3, <4>1, <5>2 DEF AllRestarts
          <6> QED
            BY <3>2, <6>1
        <5> QED
          BY <5>1, <5>2 DEF AllRestarts
      <4> QED
        BY <1>2, <3>1, <3>2, <4>2, <4>3
    <3>5. CASE ~ Restarts
      <4>1. NoRestarts(jobs)
        BY <1>1, <3>1, <3>5 DEF DownInv
      <4>2. NoRestarts(Tail(jobs))
        BY <3>3, <4>1 DEF NoRestarts
      <4> QED
        BY <1>2, <3>1, <3>2, <4>2
    <3> QED
      BY <3>4, <3>5
  <2>4. CASE GroupStopped
    <3>1. pc = "stop" /\ Proceed(jobs)
      BY <2>4 DEF GroupStopped
    <3>2. AllRestarts(jobs) /\ \A i \in DOMAIN jobs : jobs[i].who \in stopped
      BY <1>1, <3>1 DEF DownInv
    <3> QED
      BY <1>1, <1>2, <3>1, <3>2
  <2>5. ~ (StartRaises \/ StopRaised \/ ReplaceFails)
    BY DEF StartRaises, StopRaised, ReplaceFails, TaskFails
  <2>6. CASE RestartStopped \/ OnRestartDone
    <3>1. /\ Restarts /\ Restarts' /\ pc # "stop" /\ pc' # "stop" /\ jobs' = jobs
          /\ stopped \ {Head(jobs).who} \subseteq stopped'
      BY <2>6 DEF RestartStopped, OnRestartDone, Reset, Restarts
    <3>2. /\ Head(jobs) = jobs[1] /\ 1 \in DOMAIN jobs
      BY <1>1, <3>1, FitsHead DEF AtHand
    <3>3. AllRestarts(jobs) /\ \A i \in DOMAIN jobs : i > 1 => jobs[i].who \in stopped
      BY <1>1, <3>1 DEF DownInv
    <3>4. \A i \in DOMAIN jobs : i > 1 => jobs[i].who \in stopped'
      BY <3>1, <3>2, <3>3 DEF AllRestarts
    <3> QED
      BY <3>1, <3>3, <3>4 DEF DownInv, AllRestarts
  <2> QED
    BY <1>6, <2>1, <2>2, <2>3, <2>4, <2>5, <2>6, Zenon DEF TaskStep
<1>7. ~ (SupervisorStop \/ StopStep)
  BY DEF SupervisorStop, StopStep, OnStop, OnStopNext, TaskCancelled, TaskJoined
<1>8. CASE UNCHANGED vars
  BY <1>3, <1>8 DEF vars, servicevars, taskvars
<1> QED
  BY <1>4, <1>5, <1>6, <1>7, <1>8, <1>9, Zenon DEF Next

LEMMA DownInit == Init => DownInv
BY DEF Init, DownInv, NoRestarts, Restarts

\* supervisors.py, OneForAllSupervisor.restart_services: all services of the group are
\* down before one is started again, but for one that some other caller is still
\* stopping, or whose stop() raised for that caller.
THEOREM DownBeforeRestart == Spec => []AllDown
<1>1. StopsInv /\ ZombieInv /\ DownInv /\ TypeInv => AllDown
  <2> SUFFICES ASSUME StopsInv, ZombieInv, DownInv, TypeInv,
                      config.strategy = "one_for_all", stoppc = "idle",
                      pc \in {"on_restart", "restart_start"},
                      NEW i \in 2 .. Len(jobs), jobs[i].who \in up
               PROVE  config.exposed # {} /\ jobs[i].who \in stopping \cup failed
    BY DEF AllDown
  <2>1. i \in DOMAIN jobs /\ i > 1
    BY DEF TypeInv, Fits
  <2>2. jobs[i].who \in stopped
    BY <2>1 DEF DownInv, Restarts
  <2>3. jobs[i].who \in stopping \cup failed
    BY <2>2 DEF StopsInv, LeftInv
  <2>4. config.exposed = {} => stopping = {} /\ failed = {}
    BY DEF ZombieInv, Watching, Attended, AwaitsStops
  <2> QED
    BY <2>3, <2>4
<1>2. Spec => [](GroupInv /\ DownInv)
  BY TypeInvariant, GroupInit, GroupStep, DownInit, DownStep, PTL DEF Spec
<1>3. Spec => []ZombieInv
  BY ZombieInit, ZombieStep, PTL DEF Spec
<1> QED
  BY <1>1, <1>2, <1>3, StopsInvariant, TypeInvariant, PTL

=============================================================================
