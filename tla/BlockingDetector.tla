-------------------------- MODULE BlockingDetector --------------------------
(***************************************************************************)
(* BlockingDetector (mode/debug.py): a task of the event loop puts off an  *)
(* alarm every 0.96 * timeout; the alarm goes off in whatever code runs    *)
(* when the task was kept from it, and raises there.                       *)
(***************************************************************************)
EXTENDS Integers, FiniteSetsExt

CONSTANTS
    Timeout,   \* in units of which the switch leaves one: 0.96 * 25 = 24
    Duration,  \* set: how much time passes in a step
    MaxWait    \* bound: how long the switch is kept from its turn

VARIABLES
    detector,  \* "started", "up", "stopping" or "ended"
    armed,     \* time to the alarm; 0 if none is set, or it has gone off
    due,       \* time to the next turn of the switch; 0 when it is overdue
    loop,      \* "waits", or "runs" a callback
    since,     \* history: for how long, from its beginning or the last alarm
    elapsed,   \* history: time since the last turn of the switch,
    alarms     \* and the alarms in it

vars == <<detector, armed, due, loop, since, elapsed, alarms>>
DeadmanSleep == Timeout - 1
Watching == detector \in {"up", "stopping"}
Ringing == Watching /\ armed = 0  \* and the handler has not run yet

TypeOK ==
    /\ detector \in {"started", "up", "stopping", "ended"}
    /\ armed \in 0..Timeout /\ due \in 0..DeadmanSleep
    /\ loop \in {"waits", "runs"}
    /\ elapsed \in 0..MaxWait /\ {since, alarms} \subseteq Nat

Init ==
    /\ detector = "started" /\ due = 0 /\ armed = 0 /\ loop = "waits"
    /\ since = 0 /\ elapsed = 0 /\ alarms = 0

\* _deadman_switch: a turn of the loop of its own; at its end it takes the
\* alarm away.
DeadmanSwitch ==
    /\ loop = "waits"
    /\ \/ /\ detector \in {"started", "up"} /\ due = 0
          /\ detector' = "up"
          /\ armed' = Timeout /\ due' = DeadmanSleep
       \/ /\ detector = "stopping"
          /\ detector' = "ended"
          /\ armed' = 0 /\ due' = 0
    /\ elapsed' = 0 /\ alarms' = 0
    /\ UNCHANGED <<loop, since>>

\* stop() wakes the switch from its sleep; before its first turn it never sets
\* the alarm.
StopDetector ==
    /\ ~Ringing
    /\ \/ detector = "up" /\ detector' = "stopping"
       \/ detector = "started" /\ detector' = "ended"
    /\ UNCHANGED <<armed, due, loop, since, elapsed, alarms>>

\* Time passes, at most until the alarm goes off.
Pass(d) ==
    /\ ~Ringing /\ (Watching => d <= armed)
    /\ elapsed + d <= MaxWait
    /\ due' = Max({due - d, 0}) /\ armed' = Max({armed - d, 0})
    /\ elapsed' = IF Watching THEN elapsed + d ELSE 0
    /\ UNCHANGED <<detector, loop, alarms>>

\* With nothing to do the loop sleeps until the switch is due.
Idle(d) ==
    /\ detector = "up" /\ loop = "waits" /\ d <= due
    /\ Pass(d)
    /\ UNCHANGED since

\* A callback of the loop begins, runs on and returns; several may run before
\* the switch has its turn.
Begin ==
    /\ loop = "waits" /\ loop' = "runs"
    /\ UNCHANGED <<detector, armed, due, since, elapsed, alarms>>
Run(d) ==
    /\ loop = "runs" /\ Pass(d)
    /\ since' = IF Watching THEN since + d ELSE 0
Return ==
    /\ loop = "runs" /\ ~Ringing
    /\ loop' = "waits" /\ since' = 0
    /\ UNCHANGED <<detector, armed, due, elapsed, alarms>>

\* _on_alarm: sets the alarm again and raises in the code that runs, which ends
\* or catches the exception and runs on.
OnAlarm ==
    /\ Ringing
    /\ armed' = Timeout
    /\ loop' \in {"waits", loop}
    /\ since' = 0 /\ alarms' = alarms + 1
    /\ UNCHANGED <<detector, due, elapsed>>

Next ==
    \/ DeadmanSwitch \/ StopDetector
    \/ Begin \/ Return \/ OnAlarm
    \/ \E d \in Duration : Run(d) \/ Idle(d)

Spec == Init /\ [][Next]_vars

-----------------------------------------------------------------------------
\* While the detector is up, an exception is raised in every callback that has
\* run for the timeout, and again each timeout if it is caught: as many times as
\* the timeout fits in the time for which the switch was kept from its turn. It
\* is raised in a callback only, never in a loop that sleeps.
DetectorRight ==
    /\ Watching =>
         /\ since <= Timeout
         /\ elapsed \in alarms * Timeout..(alarms + 1) * Timeout
         /\ Ringing <=> elapsed = (alarms + 1) * Timeout
    /\ Ringing => loop = "runs"
=============================================================================
