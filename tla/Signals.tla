------------------------------ MODULE Signals ------------------------------
(***************************************************************************)
(* Signals (mode/signals.py): functions connected to a signal, strongly or *)
(* weakly, for one sender or for all, and senders that call and await them *)
(* one after another while others connect, disconnect and are collected.   *)
(* A signal and what with_default_sender() makes of it share their sets.   *)
(***************************************************************************)
EXTENDS Integers, FiniteSets

CONSTANTS Fun, Sender, Task, None

VARIABLES
    alike,     \* senders with the same hash; a reused identity is one case
    alive,     \* functions that have not been collected
    receivers, \* SUBSET Ref: _receivers
    filters,   \* [ids -> SUBSET Ref]: _filter_receivers
    sender,    \* [Task -> the sender of the send() it is in]
    todo,      \* [Task -> receivers it has still to call]
    called,    \* history: [Task -> those it has called]
    expected,  \* history: [Task -> those connected when it began]
    wanted     \* history: the connections that were made and not cut

vars == <<alike, alive, receivers, filters, sender, todo, called, expected, wanted>>
tables == <<receivers, filters>>
sends == <<sender, todo, called, expected>>

\* connect(weak=False) wraps the function in a lambda that equals no other, so
\* how many there are of one function makes no difference.
Kind == {"weak", "strong"}
Ref == Fun \X Kind
\* _create_id: the hash of the sender.
Id(s) == IF s \in alike THEN alike ELSE {s}
Ids == SUBSET Sender

TypeOK ==
    /\ alike \subseteq Sender /\ alive \subseteq Fun
    /\ receivers \subseteq Ref /\ filters \in [Ids -> SUBSET Ref]
    /\ sender \in [Task -> Sender \cup {None, "idle"}]
    /\ {todo, called, expected} \subseteq [Task -> SUBSET Fun]
    /\ wanted \subseteq Fun \X (Sender \cup {None}) \X Kind

Init ==
    /\ alike \in SUBSET Sender
    /\ alive = Fun
    /\ receivers = {} /\ filters = [i \in Ids |-> {}]
    /\ sender = [t \in Task |-> "idle"]
    /\ todo = [t \in Task |-> {}] /\ called = todo /\ expected = todo
    /\ wanted = {}

\* A default sender stands in for the one that is given, or missing.
Effective(default, s) == IF default = None THEN s ELSE default

Connect(f, kind, s) ==
    /\ f \in alive
    /\ IF s = None
         THEN receivers' = receivers \cup {<<f, kind>>} /\ UNCHANGED filters
         ELSE filters' = [filters EXCEPT ![Id(s)] = @ \cup {<<f, kind>>}] /\ UNCHANGED receivers
    /\ wanted' = wanted \cup {<<f, s, kind>>}
    /\ UNCHANGED <<alike, alive, sends>>

\* Only a weak reference finds its equal: a strong connection stays, and with
\* a sender whatever is not found is a KeyError.
Disconnect(f, s) ==
    /\ f \in alive
    /\ IF s = None
         THEN receivers' = receivers \ {<<f, "weak">>} /\ UNCHANGED filters
         ELSE filters' = [filters EXCEPT ![Id(s)] = @ \ {<<f, "weak">>}] /\ UNCHANGED receivers
    /\ wanted' = wanted \ {<<f, s, "weak">>}
    /\ UNCHANGED <<alike, alive, sends>>

\* Nothing refers to the function but weak references.
Strong(R) == {r[1] : r \in {x \in R : x[2] = "strong"}}
Collect(f) ==
    /\ f \in alive
    /\ f \notin Strong(receivers) /\ \A i \in Ids : f \notin Strong(filters[i])
    /\ \A t \in Task : f \notin todo[t]
    /\ alive' = alive \ {f}
    /\ UNCHANGED <<alike, tables, sends, wanted>>

\* _update_receivers: the functions that live, as strong references, and the
\* references without those that died.
Live(R) == {r[1] : r \in {x \in R : x[1] \in alive}}
Pruned(R) == {r \in R : r[1] \in alive}
\* Mutant: connections to one sender are left out.
ReceiversUnfiltered(s) == Live(receivers)

Receivers(s) == Live(receivers) \cup (IF s = None THEN {} ELSE Live(filters[Id(s)]))

Connected(s) == {f \in alive : \E k \in Kind : <<f, None, k>> \in wanted \/ <<f, s, k>> \in wanted}
Send(t, s) ==
    /\ sender[t] = "idle"
    /\ sender' = [sender EXCEPT ![t] = s]
    /\ todo' = [todo EXCEPT ![t] = Receivers(s)]
    /\ receivers' = Pruned(receivers)
    /\ filters' = IF s = None THEN filters ELSE [filters EXCEPT ![Id(s)] = Pruned(@)]
    /\ called' = [called EXCEPT ![t] = {}]
    /\ expected' = [expected EXCEPT ![t] = Connected(s)]
    /\ UNCHANGED <<alike, alive, wanted>>

\* Each receiver is called, in any order, and awaited.
CallReceiver(t) ==
    /\ sender[t] # "idle"
    /\ \E f \in todo[t] :
         /\ todo' = [todo EXCEPT ![t] = @ \ {f}]
         /\ called' = [called EXCEPT ![t] = @ \cup {f}]
    /\ UNCHANGED <<alike, alive, tables, sender, expected, wanted>>

\* send() returns, or a receiver has raised and the rest is not called.
SendEnds(t) ==
    /\ sender[t] # "idle"
    /\ todo[t] = {} \/ called[t] # {}
    /\ sender' = [sender EXCEPT ![t] = "idle"]
    /\ todo' = [todo EXCEPT ![t] = {}]
    /\ called' = [called EXCEPT ![t] = {}] /\ expected' = [expected EXCEPT ![t] = {}]
    /\ UNCHANGED <<alike, alive, tables, wanted>>

Next ==
    \/ \E f \in Fun, default, s \in Sender \cup {None} :
         \/ \E k \in Kind : Connect(f, k, Effective(default, s))
         \/ Disconnect(f, Effective(default, s))
    \/ \E f \in Fun : Collect(f)
    \/ \E t \in Task, s \in Sender \cup {None} : Send(t, s)
    \/ \E t \in Task : CallReceiver(t) \/ SendEnds(t)

Spec == Init /\ [][Next]_vars

-----------------------------------------------------------------------------
\* Between them the calls of a send() reach every function that was connected,
\* to its sender or to all, when it began, once each and no other, whatever is
\* connected, cut or collected meanwhile: where no other sender has the hash.
Delivered ==
    alike = {} => \A t \in Task : sender[t] # "idle" => expected[t] = called[t] \cup todo[t]
=============================================================================
