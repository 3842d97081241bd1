----------------------------- MODULE ExitStack -----------------------------
(***************************************************************************)
(* ExitStack, AsyncExitStack and asynccontextmanager                       *)
(* (mode/utils/_py37_contextlib.py): what was pushed is called in reverse  *)
(* order when the block is left, with the exception of the block or of a   *)
(* callback before.  An asynchronous stack suspends at each callback, and  *)
(* more may be pushed meanwhile.                                           *)
(***************************************************************************)
EXTENDS Integers, Sequences, FiniteSets, SequencesExt

CONSTANT MaxEntries  \* bound: callbacks pushed

\* An exception is the number of the callback that raised it, or Body.
Entry == 1..MaxEntries
Body == MaxEntries + 1
NoExc == 0
Exc == 1..Body
Kind == {"exit_method", "callback", "generator"}

VARIABLES
    entered,   \* callbacks pushed so far
    kind,      \* [Entry -> Kind]
    stack,     \* _exit_callbacks
    kept,      \* what pop_all() has moved to another stack
    phase,     \* "body", "exit", "left", or "hung"
    exc,       \* exc_details[1]
    context,   \* [Exc -> __context__]
    received_exc, suppressed_exc, pending_raise,
    outcome,   \* the exception that leaves the block
    ran        \* history: <<callback, what it did, callbacks pushed by then>>

vars == <<entered, kind, stack, kept, phase, exc, context, received_exc,
          suppressed_exc, pending_raise, outcome, ran>>

Did == {"pass", "suppress", "raise", "reraise"}
TypeOK ==
    /\ entered \in 0..MaxEntries /\ kind \in [Entry -> Kind]
    /\ stack \in Seq(Entry) /\ kept \in Seq(Entry)
    /\ phase \in {"body", "exit", "left", "hung"}
    /\ exc \in Exc \cup {NoExc} /\ outcome \in Exc \cup {NoExc}
    /\ context \in [Exc -> Exc \cup {NoExc}]
    /\ {received_exc, suppressed_exc, pending_raise} \subseteq BOOLEAN
    /\ ran \in Seq(Entry \X Did \X Entry)

Init ==
    /\ entered = 0 /\ kind = [e \in Entry |-> "callback"]
    /\ stack = <<>> /\ kept = <<>> /\ phase = "body"
    /\ exc = NoExc /\ context = [e \in Exc |-> NoExc] /\ outcome = NoExc
    /\ received_exc = FALSE /\ suppressed_exc = FALSE /\ pending_raise = FALSE
    /\ ran = <<>>

flags == <<received_exc, suppressed_exc, pending_raise>>

\* enter_context, push, callback and the asynchronous ones; a context manager
\* whose __enter__ raises is not pushed.
Push(k) ==
    /\ phase \in {"body", "exit"} /\ entered < MaxEntries
    /\ entered' = entered + 1
    /\ kind' = [kind EXCEPT ![entered + 1] = k]
    /\ stack' = Append(stack, entered + 1)
    /\ UNCHANGED <<kept, phase, exc, context, flags, outcome, ran>>

PopAll ==
    /\ phase = "body" /\ kept = <<>> /\ stack # <<>>
    /\ kept' = stack /\ stack' = <<>>
    /\ UNCHANGED <<entered, kind, phase, exc, context, flags, outcome, ran>>

\* The block ends or raises.
LeaveBody(e) ==
    /\ phase = "body"
    /\ phase' = "exit" /\ exc' = e
    /\ received_exc' = (e # NoExc)
    /\ UNCHANGED <<entered, kind, stack, kept, context, suppressed_exc, pending_raise, outcome, ran>>

\* What a generator with one yield does about an exception thrown into it, or
\* when it goes on: it ends, raises that exception or another, or yields again.
GeneratorDid == {"ends", "reraises", "raises", "yields"}
Aexit(g) == CASE g = "ends" -> IF exc = NoExc THEN "pass" ELSE "suppress"
              [] g = "reraises" -> "pass"
              [] g \in {"raises", "yields"} -> "raise"
\* What a callback may do: the wrapper of callback() drops its result, and
\* only what is given the exception can raise it again.
Outcomes(k) == CASE k = "exit_method" -> Did
                 [] k = "callback" -> {"pass", "raise"}
                 [] k = "generator" -> {Aexit(g) : g \in GeneratorDid}

\* The interpreter gives an exception that is raised the one that is being
\* handled, that of the block, as its context.  _fix_exception_context looks
\* for that one, or for the end of the chain, and hangs the old exception
\* there; the chain may not have an end.
FrameExc == IF received_exc THEN Body ELSE NoExc
Implicit(new) == IF FrameExc \in {NoExc, new} THEN context
                 ELSE [context EXCEPT ![new] = FrameExc]
Loop == Body + 1
Found == -1
EndOfChain(new, old) ==
    LET end[at \in Exc \X (0..Body)] ==
          LET next == Implicit(new)[at[1]] IN
          IF next = old THEN Found
          ELSE IF next \in {NoExc, FrameExc} THEN at[1]
          ELSE IF at[2] = 0 THEN Loop ELSE end[<<next, at[2] - 1>>]
    IN  end[<<new, Body>>]
Chained(new, old) ==
    LET e == EndOfChain(new, old)
    IN  IF e \in Exc THEN [Implicit(new) EXCEPT ![e] = old] ELSE Implicit(new)

\* Up to Python 3.8 `raise` walks along the contexts of the one that is handled.
Circular(new) == FrameExc \notin {NoExc, new} /\ context[FrameExc] = FrameExc

CallExit ==
    /\ phase = "exit" /\ stack # <<>>
    /\ LET e == Last(stack) IN \E did \in Outcomes(kind[e]) :
       LET new == IF did = "raise" THEN e ELSE exc IN
       /\ did = "reraise" => exc # NoExc
       /\ stack' = Front(stack)
       /\ ran' = Append(ran, <<e, did, entered>>)
       /\ CASE did = "pass" -> UNCHANGED <<phase, exc, context, suppressed_exc, pending_raise>>
            [] did = "suppress" ->
                 /\ suppressed_exc' = TRUE /\ pending_raise' = FALSE
                 /\ exc' = NoExc
                 /\ UNCHANGED <<phase, context>>
            [] OTHER ->
                 /\ phase' = IF Circular(new) \/ EndOfChain(new, exc) = Loop THEN "hung" ELSE "exit"
                 /\ context' = Chained(new, exc)
                 /\ pending_raise' = TRUE /\ exc' = new
                 /\ UNCHANGED suppressed_exc
    /\ UNCHANGED <<entered, kind, kept, received_exc, outcome>>

\* Mutant: an exception of a callback is lost.
LeaveLost ==
    /\ phase = "exit" /\ stack = <<>>
    /\ phase' = "left"
    /\ outcome' = IF received_exc /\ ~suppressed_exc THEN Body ELSE NoExc
    /\ UNCHANGED <<entered, kind, stack, kept, exc, context, flags, ran>>

Leave ==
    /\ phase = "exit" /\ stack = <<>>
    /\ phase' = "left"
    /\ outcome' = CASE pending_raise -> exc
                    [] ~pending_raise /\ received_exc /\ ~suppressed_exc -> Body
                    [] OTHER -> NoExc
    /\ UNCHANGED <<entered, kind, stack, kept, exc, context, flags, ran>>

\* close() of the stack that pop_all() has made.
CloseKept ==
    /\ phase = "left" /\ kept # <<>>
    /\ phase' = "exit" /\ stack' = kept /\ kept' = <<>>
    /\ exc' = NoExc /\ outcome' = NoExc /\ ran' = <<>>
    /\ context' = [e \in Exc |-> NoExc]
    /\ received_exc' = FALSE /\ suppressed_exc' = FALSE /\ pending_raise' = FALSE
    /\ UNCHANGED <<entered, kind>>

Next ==
    \/ \E k \in Kind : Push(k)
    \/ PopAll \/ CallExit \/ Leave \/ CloseKept
    \/ \E e \in {NoExc, Body} : LeaveBody(e)

Spec == Init /\ [][Next]_vars

-----------------------------------------------------------------------------
\* Reference: nested `with` statements, each given what left the one inside.
\* An exception is the sequence of it and its contexts.
With(inner, step) ==
    CASE step[2] = "raise" -> <<step[1]>> \o inner
      [] step[2] = "suppress" -> <<>>
      [] OTHER -> inner
Nested ==
    LET left[i \in 0..Len(ran)] ==
          IF i = 0 THEN (IF received_exc THEN <<Body>> ELSE <<>>)
                   ELSE With(left[i - 1], ran[i])
    IN  left[Len(ran)]
Reraised == \E i \in DOMAIN ran : ran[i][2] = "reraise"

\* What leaves the block is what would leave nested `with` statements, with
\* the same context, and of what was pushed the last is called first, once; the
\* walk along the contexts ends.  Only a callback that raises the exception it
\* was given breaks the contexts.
LikeNested ==
    /\ phase = "left" =>
         /\ outcome = IF Nested = <<>> THEN NoExc ELSE Head(Nested)
         /\ ~Reraised => \A i \in DOMAIN Nested :
              context[Nested[i]] = IF i = Len(Nested) THEN NoExc ELSE Nested[i + 1]
    /\ \A i, j \in DOMAIN ran :
         i < j => ran[j][1] < ran[i][1] \/ ran[j][1] > ran[i][3]
    /\ phase = "hung" => Reraised
=============================================================================
