------------------------------ MODULE RateLimit ------------------------------
(* What a rate limiter promises: the units it has given since it was made   *)
(* never exceed the burst it may hold plus what its rate has produced.      *)
EXTENDS Naturals

CONSTANTS Burst,  \* the most it may hold
          Rate    \* units it produces in one tick of the clock

VARIABLES now, given

Init == now = 0 /\ given = 0

Tick == now' = now + 1 /\ UNCHANGED given

Give ==
    /\ given' \in Nat
    /\ given < given'
    /\ given' <= Burst + Rate * now
    /\ UNCHANGED now

Next == Tick \/ Give

Spec == Init /\ [][Next]_<<now, given>>
=============================================================================
