---------------------------- MODULE MCSupervisor ----------------------------
(* Small groups of supervised services for TLC. *)
EXTENDS Supervisor

CONSTANTS a, b, c, d

FirstTwo == <<a, b>>
FirstThree == <<a, b, c>>

Plain(strategy) ==
    [strategy |-> strategy, replaces |-> FALSE, limited |-> FALSE, discards |-> FALSE,
     again |-> {}, exposed |-> {}]

\* Every strategy and every operation; outside stops where the properties allow them.
Configs ==
    {Plain("one_for_one"), Plain("one_for_all"), Plain("forfeit_all"),
     [Plain("one_for_all") EXCEPT !.limited = TRUE, !.exposed = {b}],
     [Plain("forfeit_one") EXCEPT !.exposed = {a}],
     [Plain("one_for_one") EXCEPT !.replaces = TRUE, !.again = {a}],
     [Plain("one_for_one") EXCEPT !.replaces = TRUE, !.exposed = {a}],
     [Plain("one_for_one") EXCEPT !.replaces = TRUE, !.discards = TRUE]}

Discarding == {[Plain("one_for_one") EXCEPT !.discards = TRUE]}
=============================================================================
