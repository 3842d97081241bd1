-------------------------- MODULE TokenBucketProofs --------------------------
(* The limits the token bucket keeps, for every rate, capacity and number of *)
(* clients.                                                                   *)
EXTENDS TokenBucket, TLAPS

LEMMA CapacityNat == Capacity \in Nat
  BY BucketConstants, SMT DEF BucketConstants, Capacity

LEMMA RateProduct ==
  ASSUME NEW a \in Int, NEW b \in Int
  PROVE  Rate * a \in Int /\ Rate * (a - b) = Rate * a - Rate * b
  BY BucketConstants, SMT DEF BucketConstants

LEMMA RateMonotone ==
  ASSUME NEW a \in Nat, NEW b \in Nat, a <= b
  PROVE  Rate * a <= Rate * b
  BY BucketConstants, SMT DEF BucketConstants

\* What a look at the bucket does: the tokens stay within the capacity and grow by
\* no more than the rate fills in the time that _last_pour moves.
LEMMA Look ==
  ASSUME TypeOK
  PROVE  /\ Tokens \in 0 .. Capacity
         /\ LastPour \in lastPour .. now
         /\ LastPour # lastPour => LastPour = now
         /\ LastPour = lastPour => Tokens = tokens
         /\ Tokens <= tokens + (Rate * LastPour - Rate * lastPour)
<1>. DEFINE Fill == Rate * (now - lastPour)
<1>1. Fill \in Nat /\ Fill = Rate * now - Rate * lastPour
  <2>1. now \in Int /\ lastPour \in Int
    BY DEF TypeOK
  <2>2. Rate * lastPour <= Rate * now
    BY RateMonotone DEF TypeOK
  <2>. QED BY <2>1, <2>2, RateProduct
<1>2. /\ now \in Nat /\ lastPour \in 0 .. now /\ tokens \in 0 .. Capacity
      /\ Rate * lastPour \in Int
  BY RateProduct DEF TypeOK
<1>3. CASE tokens >= Capacity
  <2>1. Tokens = tokens /\ LastPour = lastPour
    BY <1>3 DEF Tokens, LastPour
  <2>. QED BY <1>2, <2>1, CapacityNat
<1>4. CASE tokens < Capacity
  <2>1. LastPour = now
    BY <1>2, <1>4, CapacityNat DEF LastPour
  <2>2. Tokens = Least(Capacity, tokens + Fill)
    BY <1>2, <1>4, CapacityNat DEF Tokens
  <2>. HIDE DEF Fill
  <2>3. Tokens \in 0 .. Capacity /\ Tokens <= tokens + Fill
    BY <1>1, <1>2, <2>2, CapacityNat DEF Least
  <2>4. CASE now = lastPour
    <3>1. Fill = 0
      BY <1>1, <1>2, <2>4
    <3>. QED BY <1>1, <1>2, <1>4, <2>1, <2>2, <2>3, <2>4, <3>1, CapacityNat DEF Least
  <2>5. CASE now # lastPour
    BY <1>1, <1>2, <2>1, <2>3, <2>5
  <2>. QED BY <2>4, <2>5
<1>. QED BY <1>2, <1>3, <1>4, CapacityNat

-----------------------------------------------------------------------------
(* The inductive invariant: what was given and what is left is what a full    *)
(* bucket and the rate account for, up to the last look at the bucket.        *)

GivenInv == given + tokens <= Capacity + Rate * lastPour

WindowInv ==
    /\ now < mark => since = 0
    /\ lastPour < mark => since + tokens <= Capacity
    /\ mark <= lastPour => since + tokens <= 2 * Capacity + Rate * (lastPour - mark)

BucketInv == TypeOK /\ GivenInv /\ WindowInv

LEMMA BucketInit == Init => BucketInv
<1>. SUFFICES ASSUME Init PROVE BucketInv
  OBVIOUS
<1>1. TypeOK
  BY CapacityNat, BucketConstants, SMT DEF Init, TypeOK, PC, BucketConstants
<1>2. Rate * lastPour = 0
  BY BucketConstants, SMT DEF Init, BucketConstants
<1>3. GivenInv
  BY <1>2, CapacityNat, SMT DEF Init, GivenInv
<1>4. ASSUME mark <= lastPour
      PROVE  since + tokens <= 2 * Capacity + Rate * (lastPour - mark)
  <2>1. mark = 0 /\ lastPour - mark = 0
    BY <1>4 DEF Init
  <2>2. Rate * (lastPour - mark) = 0
    BY <2>1, BucketConstants, SMT DEF BucketConstants
  <2>. QED BY <2>2, CapacityNat, SMT DEF Init
<1>. QED BY <1>1, <1>3, <1>4, CapacityNat DEF Init, BucketInv, WindowInv

\* The bucket's own variables after a look at it.
Looked(n) ==
    /\ tokens' = Tokens - n /\ lastPour' = LastPour
    /\ given' = given + n
    /\ since' = IF mark <= now THEN since + n ELSE since
    /\ mark' = mark /\ now' = now /\ raises' = raises

\* A step that looks at the bucket and takes n units keeps the limits.
LEMMA LookKeepsLimits ==
  ASSUME BucketInv, NEW n \in Nat, n <= Tokens, Looked(n)
  PROVE  /\ tokens' \in 0 .. Capacity
         /\ lastPour' \in 0 .. now'
         /\ given' \in Nat /\ since' \in Nat /\ raises' \in BOOLEAN
         /\ GivenInv' /\ WindowInv'
<1>0. raises' \in BOOLEAN
  BY DEF BucketInv, TypeOK, Looked
<1>. DEFINE R(a) == Rate * a
<1>1. /\ now \in Nat /\ lastPour \in 0 .. now /\ tokens \in 0 .. Capacity
      /\ given \in Nat /\ since \in Nat /\ mark \in Nat
  BY DEF BucketInv, TypeOK
<1>2. /\ Tokens \in 0 .. Capacity /\ LastPour \in lastPour .. now
      /\ LastPour # lastPour => LastPour = now
      /\ LastPour = lastPour => Tokens = tokens
      /\ Tokens <= tokens + (R(LastPour) - R(lastPour))
  BY Look DEF BucketInv
<1>3. /\ R(lastPour) \in Int /\ R(LastPour) \in Int /\ R(mark) \in Int
      /\ Rate * (lastPour - mark) = R(lastPour) - R(mark)
      /\ Rate * (LastPour - mark) = R(LastPour) - R(mark)
  <2>1. lastPour \in Int /\ LastPour \in Int /\ mark \in Int
    BY <1>1, <1>2
  <2>2. Rate * lastPour \in Int /\ Rate * LastPour \in Int /\ Rate * mark \in Int
    BY <2>1, RateProduct
  <2>3. Rate * (lastPour - mark) = Rate * lastPour - Rate * mark
    BY <2>1, RateProduct
  <2>4. Rate * (LastPour - mark) = Rate * LastPour - Rate * mark
    BY <2>1, RateProduct
  <2>. QED BY <2>2, <2>3, <2>4
<1>4. mark <= LastPour => R(mark) <= R(LastPour)
  BY <1>1, <1>2, RateMonotone
<1>5. /\ given + tokens <= Capacity + R(lastPour)
      /\ now < mark => since = 0
      /\ lastPour < mark => since + tokens <= Capacity
      /\ mark <= lastPour => since + tokens <= 2 * Capacity + (R(lastPour) - R(mark))
  BY <1>3 DEF BucketInv, GivenInv, WindowInv
<1>6. /\ tokens' = Tokens - n /\ lastPour' = LastPour /\ given' = given + n
      /\ since' = IF mark <= now THEN since + n ELSE since
      /\ mark' = mark /\ now' = now
  BY DEF Looked
<1>. HIDE DEF R
<1>7. /\ tokens' \in 0 .. Capacity /\ lastPour' \in 0 .. now'
      /\ given' \in Nat /\ since' \in Nat
  BY <1>1, <1>2, <1>6, CapacityNat
<1>8. given' + tokens' <= Capacity + R(LastPour)
  BY <1>1, <1>2, <1>3, <1>5, <1>6, CapacityNat
<1>9. now' < mark' => since' = 0
  BY <1>1, <1>5, <1>6
<1>10. ASSUME LastPour < mark PROVE since' + tokens' <= Capacity
  <2>1. CASE mark <= now
    <3>1. LastPour = lastPour
      BY <1>1, <1>2, <1>10, <2>1
    <3>. QED BY <1>1, <1>2, <1>5, <1>6, <1>10, <2>1, <3>1, CapacityNat
  <2>2. CASE now < mark
    BY <1>1, <1>2, <1>5, <1>6, <2>2, CapacityNat
  <2>. QED BY <1>1, <2>1, <2>2
<1>11. ASSUME mark <= LastPour
       PROVE  since' + tokens' <= 2 * Capacity + (R(LastPour) - R(mark))
  <2>1. CASE mark <= lastPour
    BY <1>1, <1>2, <1>3, <1>5, <1>6, <1>11, <2>1, CapacityNat
  <2>2. CASE lastPour < mark
    BY <1>1, <1>2, <1>3, <1>4, <1>5, <1>6, <1>11, <2>2, CapacityNat
  <2>. QED BY <1>1, <2>1, <2>2
<1>12. GivenInv'
  BY <1>6, <1>8 DEF R, GivenInv
<1>13. WindowInv'
  BY <1>3, <1>6, <1>9, <1>10, <1>11 DEF WindowInv
<1>. QED BY <1>0, <1>7, <1>12, <1>13

\* How long a client sleeps is a number of ticks.
LEMMA ExpectedTimeNat ==
  ASSUME NEW n \in Nat, NEW have \in Nat
  PROVE  ExpectedTime(n, have) \in Nat
  BY BucketConstants, SMT DEF BucketConstants, ExpectedTime

LEMMA BucketStep == BucketInv /\ [Next]_vars => BucketInv'
<1>. SUFFICES ASSUME BucketInv, [Next]_vars PROVE BucketInv'
  OBVIOUS
<1>. USE BucketConstants DEF BucketConstants
<1>0. /\ TypeOK /\ Tokens \in 0 .. Capacity /\ 0 <= Tokens
      /\ Tokens \in Nat
  BY Look, CapacityNat DEF BucketInv
<1>1. ASSUME NEW c \in Client, NEW n \in Nat, NEW s \in PC,
             SleepFor(c, n, s), now' = now
      PROVE  /\ pc' \in [Client -> PC] /\ want' \in [Client -> Nat]
             /\ wake' \in [Client -> Nat] /\ asked' \in [Client -> Nat]
  <2>1. now + ExpectedTime(n, Tokens) \in Nat
    <3>1. now \in Nat
      BY <1>0 DEF TypeOK
    <3>2. ExpectedTime(n, Tokens) \in Nat
      BY <1>0, ExpectedTimeNat
    <3>. QED BY <3>1, <3>2
  <2>. QED BY <1>0, <1>1, <2>1 DEF TypeOK, SleepFor
<1>2. ASSUME NEW n \in Nat, Poured(n), now' = now
      PROVE  /\ tokens' \in 0 .. Capacity /\ lastPour' \in 0 .. now'
             /\ given' \in Nat /\ since' \in Nat /\ mark' \in Nat /\ raises' \in BOOLEAN
             /\ GivenInv' /\ WindowInv'
  <2>1. Looked(n) /\ n <= Tokens /\ mark' \in Nat
    BY <1>0, <1>2 DEF Poured, Looked, TypeOK
  <2>. QED BY <2>1, LookKeepsLimits
<1>3. ASSUME NEW n \in Nat, Refused(n), now' = now
      PROVE  /\ tokens' \in 0 .. Capacity /\ lastPour' \in 0 .. now'
             /\ given' \in Nat /\ since' \in Nat /\ mark' \in Nat /\ raises' \in BOOLEAN
             /\ GivenInv' /\ WindowInv'
  <2>1. Looked(0) /\ 0 <= Tokens /\ mark' \in Nat
    BY <1>0, <1>3, CapacityNat DEF Refused, Looked, TypeOK, history
  <2>. QED BY <2>1, LookKeepsLimits
<1>4. ASSUME NEW c \in Client, NEW n \in Amount, Pour(c, n)
      PROVE  BucketInv'
  <2>0. n \in Nat /\ now' = now /\ entered' = entered
    BY <1>4 DEF Pour
  <2>1. CASE /\ Poured(n) /\ pc' = [pc EXCEPT ![c] = "out"]
             /\ UNCHANGED <<want, wake, asked>>
    <3>1. /\ pc' \in [Client -> PC] /\ want' = want /\ wake' = wake /\ asked' = asked
      BY <1>0, <2>1 DEF TypeOK, PC
    <3>. QED BY <1>0, <1>2, <2>0, <2>1, <3>1 DEF TypeOK, BucketInv
  <2>2. CASE Refused(n) /\ SleepFor(c, n, "wait_pour")
    BY <1>0, <1>1, <1>3, <2>0, <2>2 DEF TypeOK, BucketInv, PC
  <2>. QED BY <1>4, <2>1, <2>2 DEF Pour
<1>5. ASSUME NEW c \in Client, Enter(c) PROVE BucketInv'
  <2>0. One \in Nat /\ now' = now
    BY <1>5 DEF Enter
  <2>1. CASE /\ Poured(One) /\ pc' = [pc EXCEPT ![c] = "in"]
             /\ entered' = entered + One /\ UNCHANGED <<want, wake, asked>>
    <3>1. /\ pc' \in [Client -> PC] /\ want' = want /\ wake' = wake /\ asked' = asked
          /\ entered' \in Nat
      BY <1>0, <2>0, <2>1 DEF TypeOK, PC
    <3>. QED BY <1>0, <1>2, <2>0, <2>1, <3>1 DEF TypeOK, BucketInv
  <2>2. CASE /\ Refused(One) /\ ~raises /\ SleepFor(c, One, "wait_enter")
             /\ UNCHANGED entered
    BY <1>0, <1>1, <1>3, <2>0, <2>2 DEF TypeOK, BucketInv, PC
  <2>3. CASE Refused(One) /\ raises /\ UNCHANGED <<clientvars, entered>>
    BY <1>0, <1>3, <2>0, <2>3 DEF TypeOK, BucketInv, clientvars
  <2>. QED BY <1>5, <2>1, <2>2, <2>3 DEF Enter
<1>6. ASSUME NEW c \in Client, EnterAfterSleep(c) \/ Exit(c) PROVE BucketInv'
  <2>1. UNCHANGED <<now, bucketvars, want, wake, asked, history>>
    BY <1>6 DEF EnterAfterSleep, Exit
  <2>2. pc' \in [Client -> PC] /\ entered' \in Nat
    BY <1>0, <1>6 DEF EnterAfterSleep, Exit, TypeOK, PC
  <2>. QED BY <1>0, <2>1, <2>2 DEF BucketInv, TypeOK, GivenInv, WindowInv,
           bucketvars, history
<1>7. CASE Tick
  <2>1. now' = now + 1 /\ UNCHANGED <<bucketvars, clientvars, history, entered>>
    BY <1>7 DEF Tick
  <2>2. TypeOK'
    BY <1>0, <2>1 DEF TypeOK, bucketvars, clientvars, history
  <2>3. GivenInv' /\ WindowInv'
    BY <1>0, <2>1 DEF BucketInv, TypeOK, GivenInv, WindowInv, bucketvars, history
  <2>. QED BY <2>2, <2>3 DEF BucketInv
<1>8. CASE UNCHANGED vars
  BY <1>0, <1>8 DEF BucketInv, TypeOK, GivenInv, WindowInv, vars, bucketvars,
     clientvars, history
<1>. QED BY <1>4, <1>5, <1>6, <1>7, <1>8 DEF Next, ClientStep

LEMMA BucketInvariant == Spec => []BucketInv
<1>1. Init => BucketInv
  BY BucketInit
<1>2. BucketInv /\ [Next]_vars => BucketInv'
  BY BucketStep
<1>. QED BY <1>1, <1>2, PTL DEF Spec

\* times.py, TokenBucket: the fields keep their types and the tokens stay between
\* zero and the capacity.
THEOREM BucketTypeCorrect == Spec => []TypeOK
<1>1. BucketInv => TypeOK
  BY DEF BucketInv
<1>. QED BY <1>1, BucketInvariant, PTL

\* A bucket made with `raises` has no sleeping client: who enters has poured.
RaisesInv ==
    raises => entered <= given /\ \A c \in Client : pc[c] # "wait_enter"

LEMMA RaisesInvariant == Spec => []RaisesInv
<1>1. Init => RaisesInv
  BY DEF Init, RaisesInv
<1>2. BucketInv /\ RaisesInv /\ [Next]_vars => RaisesInv'
  <2>. SUFFICES ASSUME BucketInv, RaisesInv, [Next]_vars, raises'
                PROVE  entered' <= given' /\ \A c \in Client : pc'[c] # "wait_enter"
    BY DEF RaisesInv
  <2>. USE BucketConstants DEF BucketConstants
  <2>1. raises' = raises
    BY Zenon DEF Next, ClientStep, Pour, Enter, EnterAfterSleep, Exit, Tick, Poured,
       Refused, bucketvars, vars
  <2>2. /\ given \in Nat /\ entered \in Nat /\ pc \in [Client -> PC]
        /\ entered <= given /\ \A c \in Client : pc[c] # "wait_enter"
    <3>1. raises
      BY <2>1, Zenon
    <3>. QED BY <3>1 DEF BucketInv, TypeOK, RaisesInv
  <2>3. ASSUME NEW c \in Client, NEW n \in Amount, Pour(c, n)
        PROVE  entered' <= given' /\ \A d \in Client : pc'[d] # "wait_enter"
    <3>1. entered' = entered /\ given' \in {given, given + n} /\ n \in Nat
      BY <2>3 DEF Pour, Poured, Refused, history
    <3>2. \E s \in {"out", "wait_pour"} : pc' = [pc EXCEPT ![c] = s]
      BY <2>3 DEF Pour, SleepFor
    <3>. QED BY <2>2, <3>1, <3>2
  <2>4. ASSUME NEW c \in Client, Enter(c)
        PROVE  entered' <= given' /\ \A d \in Client : pc'[d] # "wait_enter"
    <3>1. CASE Poured(One) /\ pc' = [pc EXCEPT ![c] = "in"] /\ entered' = entered + One
      BY <2>2, <3>1 DEF Poured
    <3>2. CASE Refused(One) /\ UNCHANGED <<clientvars, entered>>
      BY <2>2, <3>2 DEF Refused, clientvars, history
    <3>3. CASE ~raises
      BY <2>1, <3>3, Zenon
    <3>. QED BY <2>4, <3>1, <3>2, <3>3 DEF Enter
  <2>5. ASSUME NEW c \in Client, Exit(c)
        PROVE  entered' <= given' /\ \A d \in Client : pc'[d] # "wait_enter"
    BY <2>2, <2>5 DEF Exit, history
  <2>6. ASSUME NEW c \in Client, EnterAfterSleep(c) PROVE FALSE
    BY <2>2, <2>6 DEF EnterAfterSleep
  <2>7. CASE Tick \/ UNCHANGED vars
    BY <2>2, <2>7 DEF Tick, vars, clientvars, history
  <2>. QED BY <2>3, <2>4, <2>5, <2>6, <2>7, Zenon DEF Next, ClientStep
<1>. QED BY <1>1, <1>2, BucketInvariant, PTL DEF Spec

\* times.py, Bucket.__aenter__: a bucket made with `raises` lets clients in at the
\* rate that pour() gives tokens.
THEOREM RaisesLimitsEntry == Spec => []EntryRate
<1>1. BucketInv /\ RaisesInv => EntryRate
  <2>. SUFFICES ASSUME BucketInv, RaisesInv, raises
                PROVE  entered <= Capacity + Rate * now
    BY DEF EntryRate
  <2>1. /\ now \in Int /\ lastPour \in Int /\ lastPour <= now
        /\ given \in Nat /\ entered \in Nat /\ tokens \in Nat
    BY CapacityNat DEF BucketInv, TypeOK
  <2>2. Rate * now \in Int /\ Rate * lastPour \in Int
    <3>1. now \in Int /\ lastPour \in Int
      BY <2>1
    <3>2. Rate * now \in Int
      BY <3>1, RateProduct
    <3>3. Rate * lastPour \in Int
      BY <3>1, RateProduct
    <3>. QED BY <3>2, <3>3
  <2>3. Rate * lastPour <= Rate * now
    BY RateMonotone DEF BucketInv, TypeOK
  <2>4. given + tokens <= Capacity + Rate * lastPour /\ entered <= given
    BY DEF BucketInv, GivenInv, RaisesInv
  <2>. QED BY <2>1, <2>2, <2>3, <2>4, CapacityNat
<1>. QED BY <1>1, BucketInvariant, RaisesInvariant, PTL

\* times.py, TokenBucket.pour: in every window of time no more is given than two
\* full buckets and what the rate fills in the window.
THEOREM WindowBounded == Spec => []WindowBound
<1>1. BucketInv => WindowBound
  <2>. SUFFICES ASSUME BucketInv, mark <= now
                PROVE  since <= 2 * Capacity + Rate * (now - mark)
    BY DEF WindowBound
  <2>1. /\ now \in Nat /\ lastPour \in 0 .. now /\ tokens \in 0 .. Capacity
        /\ since \in Nat /\ mark \in Nat
    BY DEF BucketInv, TypeOK
  <2>2. /\ Rate * now \in Int /\ Rate * mark \in Int /\ Rate * lastPour \in Int
        /\ Rate * (now - mark) = Rate * now - Rate * mark
        /\ Rate * (lastPour - mark) = Rate * lastPour - Rate * mark
    <3>1. now \in Int /\ mark \in Int /\ lastPour \in Int
      BY <2>1
    <3>2. /\ Rate * now \in Int /\ Rate * mark \in Int /\ Rate * lastPour \in Int
      BY <3>1, RateProduct
    <3>3. Rate * (now - mark) = Rate * now - Rate * mark
      BY <3>1, RateProduct
    <3>4. Rate * (lastPour - mark) = Rate * lastPour - Rate * mark
      BY <3>1, RateProduct
    <3>. QED BY <3>2, <3>3, <3>4
  <2>3. Rate * mark <= Rate * now /\ Rate * lastPour <= Rate * now
    BY <2>1, RateMonotone
  <2>4. \/ since + tokens <= Capacity
        \/ since + tokens <= 2 * Capacity + Rate * (lastPour - mark)
    BY <2>1 DEF BucketInv, WindowInv
  <2>. QED BY <2>1, <2>2, <2>3, <2>4, CapacityNat
<1>. QED BY <1>1, BucketInvariant, PTL

\* times.py, TokenBucket: the bucket implements the rate limiter; every pour is a
\* Give of the limiter or leaves it alone.
THEOREM BucketLimits == Spec => Limited
<1>1. Init => Limiter!Init
  BY DEF Init, Limiter!Init
<1>2. ASSUME BucketInv, BucketInv', [Next]_vars
      PROVE  [Limiter!Next]_<<now, given>>
  <2>1. ASSUME NEW n \in Nat \ {0}, Poured(n), now' = now PROVE Limiter!Give
    <3>1. given' = given + n /\ given \in Nat
      BY <1>2, <2>1 DEF Poured, BucketInv, TypeOK
    <3>2. /\ given' + tokens' <= Capacity + Rate * lastPour'
          /\ tokens' \in 0 .. Capacity
          /\ lastPour' \in 0 .. now' /\ now' \in Nat
      BY <1>2 DEF BucketInv, GivenInv, TypeOK
    <3>3. /\ Rate * lastPour' <= Rate * now'
          /\ Rate * lastPour' \in Int /\ Rate * now' \in Int
      BY <3>2, RateMonotone, RateProduct
    <3>4. given' <= Capacity + Rate * now
      BY <2>1, <3>1, <3>2, <3>3, CapacityNat
    <3>. QED BY <2>1, <3>1, <3>4 DEF Limiter!Give
  <2>2. ASSUME NEW c \in Client, ClientStep(c) PROVE Limiter!Give \/ UNCHANGED <<now, given>>
    <3>1. ASSUME NEW n \in Amount, Pour(c, n)
          PROVE  Limiter!Give \/ UNCHANGED <<now, given>>
      BY <2>1, <3>1, BucketConstants DEF Pour, Refused, history, BucketConstants
    <3>2. CASE Enter(c)
      BY <2>1, <3>2, BucketConstants DEF Enter, Refused, history, BucketConstants
    <3>3. CASE EnterAfterSleep(c) \/ Exit(c)
      BY <3>3 DEF EnterAfterSleep, Exit, history
    <3>. QED BY <2>2, <3>1, <3>2, <3>3 DEF ClientStep
  <2>3. CASE Tick
    BY <2>3 DEF Tick, history, Limiter!Next, Limiter!Tick
  <2>4. CASE UNCHANGED vars
    BY <2>4 DEF vars, history
  <2>. QED BY <1>2, <2>2, <2>3, <2>4 DEF Next, Limiter!Next
<1>. QED BY <1>1, <1>2, BucketInvariant, PTL DEF Spec, Limited, Limiter!Spec

-----------------------------------------------------------------------------
(* expected_time().                                                          *)

\* Rounded up, the expected time fills what is missing.
LEMMA ExpectedTimeFills ==
  ASSUME NEW n \in Nat, NEW have \in Nat, have < n
  PROVE  n <= have + Rate * ExpectedTime(n, have)
<1>. DEFINE m == n - have + Rate - 1
            q == m \div Rate
<1>1. m \in Nat /\ Rate \in Nat \ {0}
  BY BucketConstants DEF BucketConstants
<1>2. ExpectedTime(n, have) = q
  BY DEF ExpectedTime
<1>3. m < Rate * q + Rate /\ q \in Nat /\ Rate * q \in Nat
  <2>. HIDE DEF m
  <2>1. q \in Nat
    BY <1>1, SMT
  <2>2. m = Rate * q + (m % Rate) /\ m % Rate \in 0 .. Rate - 1
    BY <1>1, SMT
  <2>3. Rate * q \in Nat
    BY <1>1, <2>1, SMT
  <2>. HIDE DEF q
  <2>. QED BY <1>1, <2>1, <2>2, <2>3
<1>4. m = n - have + Rate - 1
  OBVIOUS
<1>. HIDE DEF m, q
<1>. QED BY <1>1, <1>2, <1>3, <1>4

LEMMA RateInt == \A a \in Int : Rate * a \in Int
<1>. TAKE a \in Int
<1>. QED BY RateProduct

\* A client that was refused, while nobody was served since: what it wants is
\* there, or will be when its sleep is over.
Awaits(c) == /\ pc[c] = "wait_pour" /\ asked[c] = given /\ want[c] <= Capacity

Filling(c) == \/ want[c] <= tokens
              \/ want[c] <= tokens + (Rate * wake[c] - Rate * lastPour)

SleepInv == \A c \in Client : asked[c] <= given /\ (Awaits(c) => Filling(c))

\* The tokens a look finds.
LEMMA TokensFound ==
  ASSUME TypeOK
  PROVE  \/ Tokens = tokens /\ LastPour = lastPour /\ tokens >= Capacity
         \/ /\ LastPour = now /\ Tokens >= tokens
            /\ \/ Tokens = Capacity
               \/ Tokens = tokens + (Rate * now - Rate * lastPour)
<1>1. /\ now \in Nat /\ lastPour \in 0 .. now /\ tokens \in 0 .. Capacity
  BY DEF TypeOK
<1>. DEFINE Fill == Rate * (now - lastPour)
<1>2. Fill \in Nat /\ Fill = Rate * now - Rate * lastPour
  <2>1. Rate * lastPour <= Rate * now
    BY <1>1, RateMonotone
  <2>2. Rate * lastPour \in Int /\ Rate * now \in Int
    BY <1>1, RateInt
  <2>3. Fill = Rate * now - Rate * lastPour
    BY <1>1, RateProduct
  <2>. QED BY <2>1, <2>2, <2>3
<1>3. CASE tokens >= Capacity
  BY <1>3 DEF Tokens, LastPour
<1>4. CASE tokens < Capacity
  <2>1. LastPour = now
    BY <1>1, <1>4, CapacityNat DEF LastPour
  <2>2. Tokens = Least(Capacity, tokens + Fill)
    BY <1>1, <1>4, CapacityNat DEF Tokens
  <2>. HIDE DEF Fill
  <2>. QED BY <1>1, <1>2, <1>4, <2>1, <2>2, CapacityNat DEF Least
<1>. QED BY <1>1, <1>3, <1>4, CapacityNat

\* A look that takes nothing keeps what a client waits for.
LEMMA FillingKept ==
  ASSUME TypeOK, NEW c \in Client, Filling(c), want[c] <= Capacity,
         tokens' = Tokens, lastPour' = LastPour, want'[c] = want[c], wake'[c] = wake[c]
  PROVE  Filling(c)'
<1>. DEFINE W == Rate * wake[c]
            L == Rate * lastPour
            N == Rate * now
<1>1. want[c] \in Nat /\ wake[c] \in Nat /\ now \in Nat /\ lastPour \in Nat
      /\ tokens \in Nat
  BY CapacityNat DEF TypeOK
<1>2. W \in Int /\ L \in Int /\ N \in Int
  BY <1>1, RateInt
<1>3. want[c] <= tokens \/ want[c] <= tokens + (W - L)
  BY DEF Filling
<1>4. \/ Tokens = tokens /\ LastPour = lastPour
      \/ /\ LastPour = now /\ Tokens >= tokens
         /\ Tokens = Capacity \/ Tokens = tokens + (N - L)
  BY TokensFound
<1>5. Tokens \in Nat
  BY Look, CapacityNat
<1>6. CASE Tokens = tokens /\ LastPour = lastPour
  BY <1>3, <1>6 DEF Filling
<1>7. CASE /\ LastPour = now /\ Tokens >= tokens
           /\ Tokens = Capacity \/ Tokens = tokens + (N - L)
  <2>. HIDE DEF W, L, N
  <2>1. want[c] <= Tokens \/ want[c] <= Tokens + (W - N)
    BY <1>1, <1>2, <1>3, <1>5, <1>7, CapacityNat
  <2>. QED BY <1>7, <2>1 DEF Filling, W, N
<1>. QED BY <1>4, <1>6, <1>7

\* A client that is refused n units sleeps long enough for them.
LEMMA SleepsEnough ==
  ASSUME TypeOK, NEW c \in Client, NEW n \in Nat, NEW s, Tokens < n,
         tokens' = Tokens, lastPour' = LastPour, SleepFor(c, n, s)
  PROVE  Filling(c)'
<1>. DEFINE e == ExpectedTime(n, Tokens)
<1>1. /\ now \in Nat /\ Tokens \in Nat /\ LastPour \in lastPour .. now
      /\ lastPour \in 0 .. now
  BY Look, CapacityNat DEF TypeOK
<1>2. e \in Nat /\ n <= Tokens + Rate * e
  BY <1>1, ExpectedTimeNat, ExpectedTimeFills
<1>3. want'[c] = n /\ wake'[c] = now + e
  BY DEF SleepFor, TypeOK
<1>. HIDE DEF e
<1>4. Rate * (now + e) \in Int /\ Rate * LastPour \in Int
  <2>1. now + e \in Int /\ LastPour \in Int
    BY <1>1, <1>2
  <2>. QED BY <2>1, RateInt
<1>5. Rate * e = Rate * (now + e) - Rate * now
  <2>1. now + e \in Int /\ now \in Int /\ (now + e) - now = e
    BY <1>1, <1>2
  <2>. QED BY <2>1, RateProduct
<1>6. Rate * LastPour <= Rate * now /\ Rate * now \in Int
  <2>1. LastPour \in Nat /\ LastPour <= now /\ now \in Int
    BY <1>1
  <2>. QED BY <1>1, <2>1, RateMonotone, RateInt
<1>7. n <= Tokens + (Rate * (now + e) - Rate * LastPour)
  BY <1>1, <1>2, <1>4, <1>5, <1>6
<1>. QED BY <1>3, <1>7 DEF Filling

LEMMA SleepStep == BucketInv /\ SleepInv /\ [Next]_vars => SleepInv'
<1>. SUFFICES ASSUME BucketInv, SleepInv, [Next]_vars, NEW c \in Client
              PROVE  asked'[c] <= given' /\ (Awaits(c)' => Filling(c)')
  BY DEF SleepInv
<1>1. /\ TypeOK /\ given \in Nat /\ asked[c] \in Nat /\ want[c] \in Nat
      /\ asked[c] <= given /\ (Awaits(c) => Filling(c))
  BY DEF BucketInv, TypeOK, SleepInv
\* Somebody is served: nobody waits since before.
<1>2. ASSUME NEW n \in Nat \ {0}, Poured(n), asked' = asked
      PROVE  asked'[c] <= given' /\ (Awaits(c)' => Filling(c)')
  <2>1. given' = given + n
    BY <1>2 DEF Poured
  <2>. QED BY <1>1, <1>2, <2>1 DEF Awaits
\* Somebody is refused: nothing is taken.
<1>3. ASSUME NEW n \in Nat, Refused(n), NEW d \in Client, NEW s \in PC,
             SleepFor(d, n, s)
      PROVE  asked'[c] <= given' /\ (Awaits(c)' => Filling(c)')
  <2>1. given' = given /\ tokens' = Tokens /\ lastPour' = LastPour /\ Tokens < n
    BY <1>3 DEF Refused, history
  <2>2. CASE c = d
    <3>1. asked'[c] = given
      BY <1>1, <1>3, <2>2 DEF SleepFor, TypeOK
    <3>2. Filling(c)'
      BY <1>1, <1>3, <2>1, <2>2, SleepsEnough
    <3>. QED BY <1>1, <2>1, <3>1, <3>2
  <2>3. CASE c # d
    <3>1. /\ pc'[c] = pc[c] /\ want'[c] = want[c] /\ wake'[c] = wake[c]
          /\ asked'[c] = asked[c]
      BY <1>1, <1>3, <2>3 DEF SleepFor, TypeOK
    <3>. QED BY <1>1, <2>1, <3>1, FillingKept DEF Awaits
  <2>. QED BY <2>2, <2>3
<1>4. ASSUME Refused(One), UNCHANGED clientvars
      PROVE  asked'[c] <= given' /\ (Awaits(c)' => Filling(c)')
  <2>1. given' = given /\ tokens' = Tokens /\ lastPour' = LastPour
    BY <1>4 DEF Refused, history
  <2>. QED BY <1>1, <1>4, <2>1, FillingKept DEF Awaits, clientvars
<1>5. ASSUME NEW d \in Client, NEW n \in Amount, Pour(d, n)
      PROVE  asked'[c] <= given' /\ (Awaits(c)' => Filling(c)')
  <2>1. n \in Nat \ {0} /\ "wait_pour" \in PC
    BY BucketConstants DEF BucketConstants, PC
  <2>. QED BY <1>2, <1>3, <1>5, <2>1 DEF Pour
<1>6. ASSUME NEW d \in Client, Enter(d)
      PROVE  asked'[c] <= given' /\ (Awaits(c)' => Filling(c)')
  <2>1. One \in Nat \ {0} /\ "wait_enter" \in PC
    BY BucketConstants DEF BucketConstants, PC
  <2>. QED BY <1>2, <1>3, <1>4, <1>6, <2>1 DEF Enter
<1>7. ASSUME UNCHANGED <<tokens, lastPour, want, wake, asked, given>>,
             pc'[c] = "wait_pour" => pc[c] = "wait_pour"
      PROVE  asked'[c] <= given' /\ (Awaits(c)' => Filling(c)')
  BY <1>1, <1>7 DEF Awaits, Filling
<1>8. ASSUME NEW d \in Client, EnterAfterSleep(d) \/ Exit(d)
      PROVE  asked'[c] <= given' /\ (Awaits(c)' => Filling(c)')
  <2>1. /\ UNCHANGED <<tokens, lastPour, want, wake, asked, given>>
        /\ \E p \in {"in", "out"} : pc' = [pc EXCEPT ![d] = p]
    BY <1>8 DEF EnterAfterSleep, Exit, bucketvars, history
  <2>2. pc'[c] = "wait_pour" => pc[c] = "wait_pour"
    BY <1>1, <2>1 DEF TypeOK
  <2>. QED BY <1>7, <2>1, <2>2
<1>9. CASE Tick \/ UNCHANGED vars
  BY <1>7, <1>9 DEF Tick, vars, bucketvars, clientvars, history
<1>. QED BY <1>5, <1>6, <1>8, <1>9 DEF Next, ClientStep

\* times.py, TokenBucket.expected_time: it is long enough.  When the sleep of a
\* client that was refused is over and nobody was served meanwhile, the tokens it
\* was refused are there.
THEOREM ExpectedTimeRight == Spec => []ExpectedTimeEnough
<1>1. Init => SleepInv
  <2>. SUFFICES ASSUME Init, NEW c \in Client
                PROVE  asked[c] <= given /\ ~Awaits(c)
    BY DEF SleepInv
  <2>1. asked[c] = 0 /\ given = 0 /\ pc[c] = "out"
    BY DEF Init
  <2>. QED BY <2>1 DEF Awaits
<1>2. BucketInv /\ SleepInv => ExpectedTimeEnough
  <2>. SUFFICES ASSUME BucketInv, SleepInv, NEW c \in Client,
                       pc[c] = "wait_pour", wake[c] <= now, asked[c] = given,
                       want[c] <= Capacity
                PROVE  want[c] <= Tokens
    BY DEF ExpectedTimeEnough
  <2>1. /\ TypeOK /\ want[c] \in Nat /\ wake[c] \in Nat /\ now \in Nat
        /\ lastPour \in Nat /\ tokens \in Nat
    BY CapacityNat DEF BucketInv, TypeOK
  <2>2. Filling(c)
    BY DEF SleepInv, Awaits
  <2>3. /\ Rate * wake[c] \in Int /\ Rate * now \in Int /\ Rate * lastPour \in Int
        /\ Rate * wake[c] <= Rate * now
    BY <2>1, RateInt, RateMonotone
  <2>4. Tokens \in Nat
    BY <2>1, Look, CapacityNat
  <2>. QED BY <2>1, <2>2, <2>3, <2>4, TokensFound, CapacityNat DEF Filling
<1>. QED BY <1>1, <1>2, SleepStep, BucketInvariant, PTL DEF Spec
==============================================================================
