------------------------------- MODULE Timer -------------------------------
(***************************************************************************)
(* Timer (mode/timers.py) under Service.itertimer and Service.timer        *)
(* (mode/services.py): a callback every Interval, each sleep corrected by  *)
(* what the one before it was off, while the service may stop or crash.    *)
(* Time is counted in tenths of a second.                                  *)
(***************************************************************************)
EXTENDS Integers, FiniteSetsExt

CONSTANTS
    Interval, Correction,  \* interval_s and max_drift_correction
    Late, Runtime,         \* sets: how late a sleep wakes, what a callback takes
    MaxIterations          \* bound

VARIABLES
    repeater,    \* Service.timer, which sleeps once more at first
    timer_pc,
    timer_flags, \* SUBSET {"stopped", "crashed"}
    iteration,   \* calls of tick()
    sleep_time, slept,  \* what tick() has returned, and what it took
    runtime,     \* time_spent_yielding
    drifting_early, drifting_late, overlaps,
    late,        \* history: how late the last sleep was
    slept0,      \* history: the sleep before it
    waited       \* history: time since the callback before, or the start

vars == <<repeater, timer_pc, timer_flags, iteration, sleep_time, slept, runtime,
          drifting_early, drifting_late, overlaps, late, slept0, waited>>
counters == <<drifting_early, drifting_late, overlaps>>

MinInterval == IF Interval > Correction THEN Interval - Correction ELSE Interval
MaxInterval == IF Interval > Correction THEN Interval + Correction ELSE Interval
MaxDrift == Min({(Interval * 3) \div 10, 12})
Second == 10

Longest == 2 * MaxInterval + Max(Late) + Max(Runtime)
TypeOK ==
    /\ repeater \in BOOLEAN /\ timer_flags \subseteq {"stopped", "crashed"}
    /\ timer_pc \in {"first_sleep", "tick", "sleep", "check", "run", "ended"}
    /\ {iteration, drifting_early, drifting_late, overlaps} \subseteq 0..MaxIterations
    /\ {sleep_time, slept, slept0, runtime, late} \subseteq 0..Longest
    /\ waited \in 0..(Longest + Interval + Max(Late))

Init ==
    /\ repeater \in BOOLEAN
    /\ timer_pc = IF repeater THEN "first_sleep" ELSE "tick"
    /\ timer_flags = {} /\ iteration = 0
    /\ sleep_time = 0 /\ slept = 0 /\ runtime = 0
    /\ drifting_early = 0 /\ drifting_late = 0 /\ overlaps = 0
    /\ late = 0 /\ slept0 = 0 /\ waited = 0

ShouldStop == timer_flags # {}
StopOrCrash(f) ==
    /\ f \notin timer_flags /\ timer_pc # "ended"
    /\ timer_flags' = timer_flags \cup {f}
    /\ UNCHANGED <<repeater, timer_pc, iteration, sleep_time, slept, runtime, counters,
                   late, slept0, waited>>

\* Service.sleep: a stop ends it, at any time; a crash does not.
Sleeps(t) ==
    \/ \E l \in Late : late' = l /\ slept' = t + l
    \/ "stopped" \in timer_flags /\ late' = 0 /\ slept' \in 0..t

\* itertimer() looks at the service before the first tick.
FirstSleep ==
    /\ timer_pc = "first_sleep"
    /\ Sleeps(Interval)
    /\ waited' = slept'
    /\ timer_pc' = IF ShouldStop THEN "ended" ELSE "tick"
    /\ UNCHANGED <<repeater, timer_flags, iteration, sleep_time, runtime, counters, slept0>>

\* Mutant: no lower bound.
AdjustIntervalUnbounded(drift) == Min({Interval + drift, MaxInterval})

\* adjust_interval(): towards the bounds only.
AdjustInterval(drift) ==
    IF drift > 0 THEN Min({Interval + drift, MaxInterval})
                 ELSE Max({Interval + drift, MinInterval})

\* The first call knows of no sleep; the sleep of Service.timer is not its own.
Tick ==
    /\ timer_pc = "tick" /\ iteration < MaxIterations
    /\ iteration' = iteration + 1
    /\ IF iteration = 0
         THEN sleep_time' = Interval /\ UNCHANGED counters
         ELSE LET drift == Interval - slept
                  reported == Interval >= Second /\ (drift >= MaxDrift \/ -drift >= MaxDrift)
              IN  /\ sleep_time' = AdjustInterval(drift)
                  /\ drifting_late' = drifting_late + (IF reported /\ drift < 0 THEN 1 ELSE 0)
                  /\ drifting_early' = drifting_early + (IF reported /\ drift >= 0 THEN 1 ELSE 0)
                  /\ overlaps' = overlaps + (IF runtime > Interval THEN 1 ELSE 0)
    /\ timer_pc' = "sleep"
    /\ UNCHANGED <<repeater, timer_flags, slept, runtime, late, slept0, waited>>

Wakes ==
    /\ timer_pc = "sleep"
    /\ Sleeps(sleep_time)
    /\ slept0' = slept
    /\ waited' = slept' + (IF iteration = 1 THEN waited ELSE runtime)
    /\ timer_pc' = "check"
    /\ UNCHANGED <<repeater, timer_flags, iteration, sleep_time, runtime, counters>>

\* itertimer() looks at the service before it yields, and after.
Yields ==
    /\ timer_pc = "check"
    /\ timer_pc' = IF ShouldStop THEN "ended" ELSE "run"
    /\ UNCHANGED <<repeater, timer_flags, iteration, sleep_time, slept, runtime, counters,
                   late, slept0, waited>>

CallbackReturns ==
    /\ timer_pc = "run"
    /\ runtime' \in Runtime
    /\ timer_pc' = IF ShouldStop THEN "ended" ELSE "tick"
    /\ UNCHANGED <<repeater, timer_flags, iteration, sleep_time, slept, counters, late,
                   slept0, waited>>

Next ==
    \/ \E f \in {"stopped", "crashed"} : StopOrCrash(f)
    \/ FirstSleep \/ Tick \/ Wakes \/ Yields \/ CallbackReturns

Spec == Init /\ [][Next]_vars

-----------------------------------------------------------------------------
\* A callback never begins early: not before Interval at first (twice that for
\* Service.timer), and later not before MinInterval after the one before.
NeverEarly ==
    timer_pc = "run" =>
      waited >= IF iteration = 1 THEN (IF repeater THEN 2 ELSE 1) * Interval ELSE MinInterval

\* The drift of one sleep is taken off the next if the correction allows it:
\* two sleeps in a row are together late by what the second was late alone.
\* A wakeup is reported as early only if the timer itself makes it so.
DriftCorrected ==
    /\ timer_pc = "run" /\ iteration > 1 /\ slept0 \in MinInterval..MaxInterval =>
         slept0 + slept = 2 * Interval + late
    /\ drifting_early > 0 => Correction >= MaxDrift
TimerRight == NeverEarly /\ DriftCorrected
=============================================================================
