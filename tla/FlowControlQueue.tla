-------------------------- MODULE FlowControlQueue --------------------------
(***************************************************************************)
(* FlowControlEvent, FlowControlQueue and ThrowableQueue of                *)
(* mode/utils/queues.py, on top of asyncio.Queue: producers wait for the   *)
(* flow to be resumed and then for room, consumers for an item or an       *)
(* error.  A task that is woken runs in a later turn of the loop, and      *)
(* looks again at what it waited for.                                      *)
(***************************************************************************)
EXTENDS Integers, Sequences, FiniteSets, SequencesExt

CONSTANTS
    Producer, Consumer,
    Enhanced,    \* SUBSET Producer: those that use put_nowait_enhanced
    Size,        \* maxsize
    MaxPuts, MaxErrors, MaxSwitches  \* bounds: puts, errors, changes of the flow

VARIABLES
    throwable, clear_on_resume,  \* which queue it is
    queue,      \* sequence of the producers of the items in it
    errors,     \* number of errors in _errors
    suspended,  \* the flow control event
    putters, getters,  \* _putters and _getters of asyncio.Queue
    ppc, cpc,   \* where each producer and consumer is
    pending,    \* _pending_pressure_drop_callbacks, by producer
    puts, thrown, switches,
    cleared     \* history: whom clear() has left waiting

vars == <<throwable, clear_on_resume, queue, errors, suspended, putters, getters,
          ppc, cpc, pending, puts, thrown, switches, cleared>>
config == <<throwable, clear_on_resume>>
consumers == <<getters, cpc>>
bounds == <<puts, thrown, switches>>

PutPC == {"idle", "acquire", "resumed", "room", "room_woken", "room_cancelled"}
GetPC == {"idle", "waiting", "woken", "error", "raised"}

TypeOK ==
    /\ throwable \in BOOLEAN /\ clear_on_resume \in BOOLEAN /\ suspended \in BOOLEAN
    /\ queue \in Seq(Producer) /\ errors \in 0..MaxErrors
    /\ putters \in Seq(Producer) /\ getters \in Seq(Consumer)
    /\ ppc \in [Producer -> PutPC] /\ cpc \in [Consumer -> GetPC]
    /\ pending \subseteq Enhanced
    /\ puts \in 0..MaxPuts /\ thrown \in 0..MaxErrors /\ switches \in 0..MaxSwitches
    /\ cleared \subseteq {"putters", "callbacks"}

Full == Len(queue) >= Size
Empty == queue = <<>> /\ (throwable => errors = 0)  \* empty() of ThrowableQueue
PressureHigh == (Size * 4) \div 5   \* floor(maxsize / 1.25)
PressureDrop == (Size * 2) \div 5   \* floor(maxsize * 0.40)

Init ==
    /\ throwable \in BOOLEAN /\ clear_on_resume \in BOOLEAN
    \* nothing, or items put before anybody waits
    /\ \E n \in {0, PressureHigh}, p \in Enhanced : queue = [i \in 1..n |-> p]
    /\ errors = 0
    /\ suspended \in BOOLEAN  \* initially_suspended
    /\ putters = <<>> /\ getters = <<>>
    /\ ppc = [p \in Producer |-> "idle"] /\ cpc = [c \in Consumer |-> "idle"]
    /\ pending = {} /\ puts = 0 /\ thrown = 0 /\ switches = 0
    /\ cleared = {}

\* _wakeup_next: the first of the waiters that has not been woken yet.
WakeGetter ==
    IF getters = <<>> THEN UNCHANGED consumers
    ELSE getters' = Tail(getters) /\ cpc' = [cpc EXCEPT ![Head(getters)] = "woken"]

Enqueue(p) ==
    /\ queue' = Append(queue, p)
    /\ WakeGetter

-----------------------------------------------------------------------------
(* Producers.                                                              *)

\* put_nowait(item) at the end of put(), or another turn of its loop.
PutOrWait(p) ==
    IF Full
      THEN /\ putters' = Append(putters, p)
           /\ ppc' = [ppc EXCEPT ![p] = "room"]
           /\ UNCHANGED <<queue, consumers>>
      ELSE /\ Enqueue(p)
           /\ ppc' = [ppc EXCEPT ![p] = "idle"]
           /\ UNCHANGED putters

\* put(): acquire() looks at _suspend, and waits for _resume.
Put(p) ==
    /\ p \notin Enhanced
    /\ ppc[p] = "idle" /\ puts < MaxPuts
    /\ puts' = puts + 1
    /\ IF suspended
         THEN /\ ppc' = [ppc EXCEPT ![p] = "acquire"]
              /\ UNCHANGED <<queue, putters, consumers>>
         ELSE PutOrWait(p)
    /\ UNCHANGED <<config, errors, suspended, pending, thrown, switches, cleared>>

PutGoesOn(p) ==
    /\ ppc[p] \in {"resumed", "room_woken"}
    /\ PutOrWait(p)
    /\ UNCHANGED <<config, errors, suspended, pending, bounds, cleared>>

\* ThrowableQueue.clear() has cancelled the future of the producer.
PutCancelled(p) ==
    /\ ppc[p] = "room_cancelled"
    /\ ppc' = [ppc EXCEPT ![p] = "idle"]
    /\ UNCHANGED <<config, queue, errors, suspended, putters, consumers, pending, bounds, cleared>>

\* A producer is cancelled in put(): one that had been woken wakes the next.
PutAborted(p) ==
    /\ ppc[p] \in {"acquire", "resumed", "room", "room_woken"}
    /\ LET rest == RemoveFirst(putters, p)
           pass == ppc[p] = "room_woken" /\ ~Full /\ rest # <<>>
       IN  /\ putters' = IF pass THEN Tail(rest) ELSE rest
           /\ ppc' = IF pass THEN [ppc EXCEPT ![p] = "idle", ![Head(rest)] = "room_woken"]
                      ELSE [ppc EXCEPT ![p] = "idle"]
    /\ UNCHANGED <<config, queue, errors, suspended, consumers, pending, bounds, cleared>>

\* put_nowait_enhanced: past the flow control and the size.
PutEnhanced(p) ==
    /\ p \in Enhanced /\ puts < MaxPuts
    /\ puts' = puts + 1
    /\ pending' = IF Len(queue) >= PressureHigh THEN pending \cup {p} ELSE pending
    /\ Enqueue(p)
    /\ UNCHANGED <<config, errors, suspended, putters, ppc, thrown, switches, cleared>>

-----------------------------------------------------------------------------
(* Consumers.                                                              *)

\* maybe_endorse_pressure_drop: one callback if few items are left, all if none.
EndorsePressureDrop ==
    CASE queue = <<>> -> pending' = {}
      [] queue # <<>> /\ Len(queue) <= PressureDrop /\ pending # {} ->
            \E p \in pending : pending' = pending \ {p}
      [] OTHER -> UNCHANGED pending

WakePutter ==
    IF putters = <<>> THEN UNCHANGED <<putters, ppc>>
    ELSE putters' = Tail(putters) /\ ppc' = [ppc EXCEPT ![Head(putters)] = "room_woken"]

\* Mutant: an error is taken whether there is one or not.
GetNowaitUnchecked(c) ==
    IF throwable
      THEN /\ errors' = errors - 1
           /\ cpc' = [cpc EXCEPT ![c] = "raised"]
           /\ UNCHANGED <<queue, putters, ppc, pending>>
      ELSE /\ EndorsePressureDrop
           /\ queue' = Tail(queue)
           /\ cpc' = [cpc EXCEPT ![c] = "idle"]
           /\ WakePutter
           /\ UNCHANGED errors

\* get_nowait(): an error goes before the items.
GetNowait(c) ==
    IF throwable /\ errors > 0
      THEN /\ errors' = errors - 1
           /\ cpc' = [cpc EXCEPT ![c] = "raised"]
           /\ UNCHANGED <<queue, putters, ppc, pending>>
      ELSE /\ EndorsePressureDrop
           /\ queue' = Tail(queue)
           /\ cpc' = [cpc EXCEPT ![c] = "idle"]
           /\ WakePutter
           /\ UNCHANGED errors

GetOrWait(c) ==
    IF Empty
      THEN /\ getters' = Append(getters, c)
           /\ cpc' = [cpc EXCEPT ![c] = "waiting"]
           /\ UNCHANGED <<queue, errors, putters, ppc>>
      ELSE GetNowait(c) /\ UNCHANGED getters

Get(c) ==
    /\ cpc[c] = "idle"
    /\ GetOrWait(c)
    /\ Empty => EndorsePressureDrop
    /\ UNCHANGED <<config, suspended, bounds, cleared>>

GetGoesOn(c) ==
    /\ cpc[c] = "woken"
    /\ GetOrWait(c)
    /\ Empty => UNCHANGED pending
    /\ UNCHANGED <<config, suspended, bounds, cleared>>

\* The exception set on the future of a waiting consumer, or one from
\* get_nowait(), has reached its caller, who tries again.
ErrorRaised(c) ==
    /\ cpc[c] \in {"error", "raised"}
    /\ cpc' = [cpc EXCEPT ![c] = "idle"]
    /\ UNCHANGED <<config, queue, errors, suspended, putters, getters, ppc, pending, bounds, cleared>>

\* Mutant: a consumer that was woken takes the wakeup with it.
GetCancelledSilent(c) ==
    /\ cpc[c] \in {"waiting", "woken", "error"}
    /\ getters' = RemoveFirst(getters, c)
    /\ cpc' = [cpc EXCEPT ![c] = "idle"]
    /\ UNCHANGED <<config, queue, errors, suspended, putters, ppc, pending, bounds, cleared>>

\* A consumer is cancelled in get(): if it had been woken and there is
\* something to get, the next one is woken in its place.  An error that was
\* on its way to the consumer is lost.
GetCancelled(c) ==
    /\ cpc[c] \in {"waiting", "woken", "error"}
    /\ LET rest == RemoveFirst(getters, c)
           pass == cpc[c] # "waiting" /\ ~Empty /\ rest # <<>>
       IN  /\ getters' = IF pass THEN Tail(rest) ELSE rest
           /\ cpc' = IF pass THEN [cpc EXCEPT ![c] = "idle", ![Head(rest)] = "woken"]
                      ELSE [cpc EXCEPT ![c] = "idle"]
    /\ UNCHANGED <<config, queue, errors, suspended, putters, ppc, pending, bounds, cleared>>

-----------------------------------------------------------------------------
(* Errors and flow control.                                                *)

\* _throw: to the first consumer that waits, otherwise kept for the next get.
Throw ==
    /\ throwable /\ thrown < MaxErrors
    /\ thrown' = thrown + 1
    /\ IF getters # <<>>
         THEN /\ getters' = Tail(getters)
              /\ cpc' = [cpc EXCEPT ![Head(getters)] = "error"]
              /\ UNCHANGED errors
         ELSE errors' = errors + 1 /\ UNCHANGED consumers
    /\ UNCHANGED <<config, queue, suspended, putters, ppc, pending, puts, switches, cleared>>

Suspend ==
    /\ ~suspended /\ switches < MaxSwitches
    /\ switches' = switches + 1
    /\ suspended' = TRUE
    /\ UNCHANGED <<config, queue, errors, putters, ppc, consumers, pending, puts, thrown, cleared>>

\* resume() wakes the producers and clears the queues it manages.
Resumed == [p \in Producer |-> IF ppc[p] = "acquire" THEN "resumed" ELSE ppc[p]]
ClearPlain ==
    /\ ppc' = Resumed
    /\ cleared' = cleared \cup (IF putters # <<>> THEN {"putters"} ELSE {})
                         \cup (IF pending # {} THEN {"callbacks"} ELSE {})
    /\ UNCHANGED <<putters, errors>>
ClearThrowable ==
    /\ ppc' = [p \in Producer |-> IF p \in ToSet(putters) THEN "room_cancelled" ELSE Resumed[p]]
    /\ putters' = <<>> /\ errors' = 0
    /\ cleared' = cleared \cup (IF pending # {} THEN {"callbacks"} ELSE {})
Clear == queue' = <<>> /\ IF throwable THEN ClearThrowable ELSE ClearPlain

Resume ==
    /\ suspended
    /\ suspended' = FALSE
    /\ IF clear_on_resume THEN Clear
       ELSE ppc' = Resumed /\ UNCHANGED <<queue, putters, errors, cleared>>
    /\ UNCHANGED <<config, consumers, pending, bounds>>

ConsumerStep(c) == Get(c) \/ GetGoesOn(c) \/ ErrorRaised(c)
ProducerStep(p) == PutGoesOn(p) \/ PutCancelled(p)
Next ==
    \/ \E p \in Producer : Put(p) \/ ProducerStep(p) \/ PutEnhanced(p) \/ PutAborted(p)
    \/ \E c \in Consumer : ConsumerStep(c) \/ GetCancelled(c)
    \/ Throw \/ Suspend \/ Resume

Spec == Init /\ [][Next]_vars

-----------------------------------------------------------------------------
\* No wakeup is lost: while there is something to get no consumer waits
\* unless another has been woken, and while there is room no producer waits
\* unless another has been woken, or clear() has made the room (it wakes nobody).
Woken(pc, w) == \E x \in DOMAIN pc : pc[x] = w
NoLostWakeup ==
    /\ getters # <<>> /\ ~Empty => Woken(cpc, "woken")
    /\ putters # <<>> /\ ~Full /\ "putters" \notin cleared => Woken(ppc, "room_woken")

\* A pressure drop is endorsed in the end: while the consumers take items no
\* producer waits for ever for the callback, unless clear() has emptied the
\* queue behind the consumers that were woken.
PressureReleased == pending # {} ~> pending = {} \/ "callbacks" \in cleared
=============================================================================
