--------------------------- MODULE FlightRecorder ---------------------------
(***************************************************************************)
(* Flight recorders (mode/utils/logging.py) on their LocalStack            *)
(* (mode/utils/locals.py).                                                 *)
(*                                                                         *)
(* A recorder buffers what is logged inside its `with` block and replays   *)
(* it when its timer is over.  The stack says which recorder on_timeout    *)
(* logs to.  It is a context variable that holds a mutable list: a task    *)
(* starts with a copy of the context of its parent, and so with the same   *)
(* list.                                                                   *)
(***************************************************************************)
EXTENDS Integers, Sequences, FiniteSets, SequencesExt

CONSTANTS
    Task,
    Recorder,
    MaxLists,    \* bound: lists made by push
    MaxMessages, \* bound: messages logged
    None

VARIABLES
    alive,       \* tasks that run
    context,     \* [Task -> 0..MaxLists]: _stack of each task, 0 for None
    list,        \* [1..MaxLists -> Seq(Recorder)]
    lists,       \* lists made
    entered,     \* [Task -> Seq(Recorder)]: the `with` blocks it is in
    timer,       \* [Recorder -> {"none", "waiting", "fired"}]: _fut
    logs,        \* [Recorder -> Seq(Task)]: buffered messages, by author
    extra,       \* [Recorder -> SUBSET Recorder]: whose extra_context it has
    messages,
    sharing,     \* history: tasks whose context was copied with a list in it
    replayed     \* history: recorders that have replayed messages

vars == <<alive, context, list, lists, entered, timer, logs, extra, messages,
          sharing, replayed>>
recorders == <<timer, logs, extra, messages, replayed>>
stacks == <<alive, context, list, lists, entered, sharing>>

TypeOK ==
    /\ alive \subseteq Task /\ sharing \subseteq Task
    /\ context \in [Task -> 0..MaxLists]
    /\ list \in [1..MaxLists -> Seq(Recorder)]
    /\ lists \in 0..MaxLists /\ messages \in 0..MaxMessages
    /\ entered \in [Task -> Seq(Recorder)]
    /\ timer \in [Recorder -> {"none", "waiting", "fired"}]
    /\ logs \in [Recorder -> Seq(Task)]
    /\ extra \in [Recorder -> SUBSET Recorder]
    /\ replayed \subseteq Recorder

Init ==
    /\ \E t \in Task : alive = {t}
    /\ context = [t \in Task |-> 0]
    /\ list = [i \in 1..MaxLists |-> <<>>] /\ lists = 0
    /\ entered = [t \in Task |-> <<>>]
    /\ timer = [r \in Recorder |-> "none"]
    /\ logs = [r \in Recorder |-> <<>>]
    /\ extra = [r \in Recorder |-> {r}]
    /\ messages = 0 /\ sharing = {} /\ replayed = {}

Stack(t) == IF context[t] = 0 THEN <<>> ELSE list[context[t]]
Top(t) == IF Stack(t) = <<>> THEN None ELSE Last(Stack(t))

-----------------------------------------------------------------------------
(* LocalStack.                                                             *)

Push(t, r) ==
    IF context[t] = 0
      THEN /\ lists < MaxLists
           /\ lists' = lists + 1
           /\ context' = [context EXCEPT ![t] = lists + 1]
           /\ list' = [list EXCEPT ![lists + 1] = <<r>>]
      ELSE list' = [list EXCEPT ![context[t]] = Append(@, r)] /\ UNCHANGED <<lists, context>>

\* pop(): the last item of a list is not removed, the variable is.
Pop(t) ==
    IF Len(Stack(t)) <= 1
      THEN context' = [context EXCEPT ![t] = 0] /\ UNCHANGED list
      ELSE list' = [list EXCEPT ![context[t]] = Front(@)] /\ UNCHANGED context

\* asyncio copies the context, and with it the reference to the list.
Spawn(t, u) ==
    /\ t \in alive /\ u \notin alive
    /\ alive' = alive \cup {u}
    /\ context' = [context EXCEPT ![u] = context[t]]
    /\ sharing' = IF context[t] = 0 THEN sharing ELSE sharing \cup {t, u}
    /\ UNCHANGED <<list, lists, entered, recorders>>

-----------------------------------------------------------------------------
(* The recorder.                                                           *)

\* activate() takes what the current recorder has in its extra_context.
EnterRecorder(t, r) ==
    /\ t \in alive
    /\ timer[r] = "none"   \* otherwise RuntimeError
    /\ \A u \in Task : r \notin ToSet(entered[u])
    /\ extra' = [extra EXCEPT ![r] = @ \cup (IF Top(t) = None THEN {} ELSE extra[Top(t)])]
    /\ timer' = [timer EXCEPT ![r] = "waiting"]
    /\ Push(t, r)
    /\ entered' = [entered EXCEPT ![t] = Append(@, r)]
    /\ UNCHANGED <<alive, sharing, logs, messages, replayed>>

\* Mutant: the messages are kept.
CancelRecorderKeeps(r) == timer' = [timer EXCEPT ![r] = "none"] /\ UNCHANGED logs

\* cancel(): no timer, and the messages are forgotten.
CancelRecorder(r) ==
    /\ timer' = [timer EXCEPT ![r] = "none"]
    /\ logs' = [logs EXCEPT ![r] = <<>>]

ExitRecorder(t) ==
    /\ entered[t] # <<>>
    /\ Pop(t)
    /\ CancelRecorder(Last(entered[t]))
    /\ entered' = [entered EXCEPT ![t] = Front(@)]
    /\ UNCHANGED <<alive, lists, sharing, extra, messages, replayed>>

\* log(): kept while there is a _fut, which a timer that has fired still is.
Log(t, r) ==
    /\ messages' = messages + 1
    /\ logs' = IF timer[r] = "none" THEN logs ELSE [logs EXCEPT ![r] = Append(@, t)]

LogOnTimeout(t) ==
    /\ t \in alive /\ messages < MaxMessages
    /\ Top(t) # None /\ Log(t, Top(t))
    /\ UNCHANGED <<stacks, timer, extra, replayed>>

\* _waiting: blush() replays what there is.
TimesOut(r) ==
    /\ timer[r] = "waiting"
    /\ timer' = [timer EXCEPT ![r] = "fired"]
    /\ logs' = [logs EXCEPT ![r] = <<>>]
    /\ replayed' = IF logs[r] = <<>> THEN replayed ELSE replayed \cup {r}
    /\ UNCHANGED <<stacks, extra, messages>>

Next ==
    \/ \E t \in Task : \/ ExitRecorder(t) \/ LogOnTimeout(t)
                       \/ \E r \in Recorder : EnterRecorder(t, r)
                       \/ \E u \in Task : Spawn(t, u)
    \/ \E r \in Recorder : TimesOut(r)

Spec == Init /\ [][Next]_vars

-----------------------------------------------------------------------------
\* A task that shares its list with no other logs to the recorder of the
\* innermost block it is in, and once out of all of them to none.
OwnRecorder ==
    \A t \in alive \ sharing :
      Top(t) = IF entered[t] = <<>> THEN None ELSE Last(entered[t])

\* A recorder has a timer, and messages, only while some task is in its block:
\* what was logged in a block that ended in time is never replayed.
ArmedInside ==
    \A r \in Recorder :
      timer[r] # "none" \/ logs[r] # <<>> => \E t \in Task : r \in ToSet(entered[t])

\* The messages a recorder keeps are those of tasks that are in its block, or
\* share a list with a task that is.
OwnMessages ==
    \A r \in Recorder : \A t \in ToSet(logs[r]) :
      t \in sharing \/ r \in ToSet(entered[t])

\* "Manage state per coroutine": a task logs to the recorder of its own block.
DocPerCoroutine ==
    \A t \in alive : entered[t] # <<>> => Top(t) = Last(entered[t])
=============================================================================
