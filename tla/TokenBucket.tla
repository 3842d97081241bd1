---------------------------- MODULE TokenBucket ----------------------------
(***************************************************************************)
(* mode/utils/times.py: the token bucket that limits how often a           *)
(* supervisor restarts services, and the two ways clients use it: pour(),  *)
(* waiting expected_time() when it refuses, and `async with bucket`.       *)
(*                                                                         *)
(* Tokens are counted in integer units and time in ticks of the monotonic  *)
(* clock.  pour() does not suspend, so it is one step.                     *)
(***************************************************************************)
EXTENDS Integers

CONSTANTS
    Client,   \* the tasks that use the bucket
    Rate,     \* units the bucket fills with in one tick (fill_rate)
    Over,     \* the `over` argument
    One,      \* units of one token
    Amount,   \* the amounts clients pour, in units
    MaxTime   \* bound on the clock

ASSUME BucketConstants ==
    /\ Rate \in Nat \ {0} /\ Over \in Nat /\ One \in Nat \ {0}
    /\ Amount \subseteq Nat \ {0}
    /\ MaxTime \in Nat

VARIABLES
    now,
    raises,    \* made with `raises`: async with raises when refused
    tokens,    \* _tokens
    lastPour,  \* _last_pour
    pc,        \* what each client does
    want,      \* the amount it was refused
    wake,      \* when its sleep ends
    given,     \* history: units poured since the bucket was made
    entered,   \* history: units of the clients that entered `async with`
    asked,     \* history: `given` when the client was refused
    mark,      \* history: start of a window of time, any
    since      \* history: units poured in that window

bucketvars == <<tokens, lastPour, raises>>
clientvars == <<pc, want, wake, asked>>
history == <<given, mark, since>>
vars == <<now, bucketvars, clientvars, history, entered>>

\* `capacity` is set from `over`.
Capacity == Over * One

PC == {"out", "wait_pour", "wait_enter", "in"}

TypeOK ==
    /\ now \in Nat /\ raises \in BOOLEAN
    /\ tokens \in 0 .. Capacity
    /\ lastPour \in 0 .. now
    /\ pc \in [Client -> PC]
    /\ want \in [Client -> Nat]
    /\ wake \in [Client -> Nat]
    /\ asked \in [Client -> Nat]
    /\ given \in Nat /\ entered \in Nat /\ since \in Nat
    /\ mark \in Nat

Init ==
    /\ raises \in BOOLEAN
    /\ now = 0 /\ tokens = Capacity /\ lastPour = 0
    /\ pc = [c \in Client |-> "out"]
    /\ want = [c \in Client |-> 0]
    /\ wake = [c \in Client |-> 0]
    /\ asked = [c \in Client |-> 0]
    /\ given = 0 /\ entered = 0 /\ since = 0
    /\ mark \in 0 .. MaxTime

-----------------------------------------------------------------------------

Least(a, b) == IF a <= b THEN a ELSE b

\* Mutant: filled up without regard to the capacity.
TokensUncapped ==
    IF now < lastPour \/ tokens >= Capacity THEN tokens
    ELSE tokens + Rate * (now - lastPour)

\* What the `tokens` property returns and stores in _tokens.
Tokens ==
    IF now < lastPour \/ tokens >= Capacity THEN tokens
    ELSE Least(Capacity, tokens + Rate * (now - lastPour))

\* Mutant: _last_pour is not moved, the same time is counted again.
LastPourKept == lastPour

\* What the `tokens` property stores in _last_pour: a full bucket keeps it.
LastPour == IF now < lastPour \/ tokens >= Capacity THEN lastPour ELSE now

\* Mutant: rounded down.
ExpectedTimeShort(n, have) == IF n <= have THEN 0 ELSE (n - have) \div Rate

\* expected_time(n), in ticks, rounded up.
ExpectedTime(n, have) == IF n <= have THEN 0 ELSE (n - have + Rate - 1) \div Rate

\* pour(n) gives the tokens.
Poured(n) ==
    /\ n <= Tokens
    /\ tokens' = Tokens - n
    /\ lastPour' = LastPour
    /\ UNCHANGED raises
    /\ given' = given + n
    /\ since' = IF mark <= now THEN since + n ELSE since
    /\ UNCHANGED mark

\* pour(n) returns False, and the client sleeps for the expected time.
Refused(n) ==
    /\ Tokens < n
    /\ tokens' = Tokens
    /\ lastPour' = LastPour
    /\ UNCHANGED raises
    /\ UNCHANGED history

SleepFor(c, n, state) ==
    /\ pc' = [pc EXCEPT ![c] = state]
    /\ want' = [want EXCEPT ![c] = n]
    /\ wake' = [wake EXCEPT ![c] = now + ExpectedTime(n, Tokens)]
    /\ asked' = [asked EXCEPT ![c] = given]

Pour(c, n) ==
    /\ pc[c] = "out" \/ (pc[c] = "wait_pour" /\ wake[c] <= now /\ want[c] = n)
    /\ \/ /\ Poured(n)
          /\ pc' = [pc EXCEPT ![c] = "out"]
          /\ UNCHANGED <<want, wake, asked>>
       \/ Refused(n) /\ SleepFor(c, n, "wait_pour")
    /\ UNCHANGED <<now, entered>>

\* __aenter__: refused, it raises or sleeps.
Enter(c) ==
    /\ pc[c] = "out"
    /\ \/ /\ Poured(One)
          /\ pc' = [pc EXCEPT ![c] = "in"]
          /\ entered' = entered + One
          /\ UNCHANGED <<want, wake, asked>>
       \/ /\ Refused(One)
          /\ ~raises
          /\ SleepFor(c, One, "wait_enter")
          /\ UNCHANGED entered
       \/ /\ Refused(One)
          /\ raises
          /\ UNCHANGED <<clientvars, entered>>
    /\ UNCHANGED now

\* The sleep in __aenter__ is over: the client enters, nothing is poured.
EnterAfterSleep(c) ==
    /\ pc[c] = "wait_enter"
    /\ wake[c] <= now
    /\ pc' = [pc EXCEPT ![c] = "in"]
    /\ entered' = entered + One
    /\ UNCHANGED <<now, bucketvars, want, wake, asked, history>>

Exit(c) ==
    /\ pc[c] = "in"
    /\ pc' = [pc EXCEPT ![c] = "out"]
    /\ UNCHANGED <<now, bucketvars, want, wake, asked, history, entered>>

Tick ==
    /\ now < MaxTime
    /\ now' = now + 1
    /\ UNCHANGED <<bucketvars, clientvars, history, entered>>

ClientStep(c) ==
    \/ \E n \in Amount : Pour(c, n)
    \/ Enter(c) \/ EnterAfterSleep(c) \/ Exit(c)

Next == Tick \/ \E c \in Client : ClientStep(c)

Spec == Init /\ [][Next]_vars

-----------------------------------------------------------------------------
(* Properties.                                                             *)

\* The bucket is a rate limiter: all it ever gives is bounded by one full bucket
\* and the rate.
Limiter == INSTANCE RateLimit WITH Burst <- Capacity
Limited == Limiter!Spec

\* In any window of time clients get at most two full buckets and what the rate
\* fills: a bucket that was full keeps an old _last_pour, and fills up again at
\* the next look.
WindowBound ==
    mark <= now => since <= 2 * Capacity + Rate * (now - mark)

\* expected_time() is long enough: when it is over and nobody else was served,
\* the amount that was refused can be poured.
ExpectedTimeEnough ==
    \A c \in Client :
        /\ pc[c] = "wait_pour" /\ wake[c] <= now /\ asked[c] = given
        /\ want[c] <= Capacity
        => want[c] <= Tokens

\* A bucket made with `raises`, as the supervisors make it, lets clients in at its
\* rate only.
EntryRate == raises => entered <= Capacity + Rate * now

\* What the documentation of Bucket says: `async with` sleeps until the token can be
\* consumed, and lets clients in at the rate of the bucket.
DocEntryRate == entered <= Capacity + Rate * now
=============================================================================
