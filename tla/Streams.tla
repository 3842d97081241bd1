------------------------------ MODULE Streams ------------------------------
(***************************************************************************)
(* redirect_stdouts() and FileLogProxy (mode/utils/logging.py): what is    *)
(* printed inside a block is logged, and a handler of the logger prints    *)
(* too.  Blocks of several tasks or threads need not nest.                 *)
(***************************************************************************)
EXTENDS Integers, FiniteSets

CONSTANTS
    Thread,
    Block,      \* `with` blocks, and the proxy of each
    Terminal    \* sys.__stdout__ or sys.__stderr__

VARIABLES
    sys,        \* [Stream -> Terminal or the proxy that is there]
    redirects,  \* [Block -> SUBSET Stream]: the arguments stdout and stderr
    open,       \* blocks that were entered and not left
    shut,       \* proxies on which close() was called
    logging,    \* [Thread -> calls of logger.log() in one another]
    recurse_protection,  \* threads in a write
    moved       \* history: blocks that are open while another came or went

vars == <<sys, redirects, open, shut, logging, recurse_protection, moved>>
Stream == {"stdout", "stderr"}
MaxDepth == 3  \* bound: calls in one another

TypeOK ==
    /\ sys \in [Stream -> Block \cup {Terminal}]
    /\ redirects \in [Block -> SUBSET Stream]
    /\ {open, shut, moved} \subseteq SUBSET Block
    /\ logging \in [Thread -> 0..MaxDepth] /\ recurse_protection \subseteq Thread

Init ==
    /\ sys = [s \in Stream |-> Terminal]
    /\ redirects = [b \in Block |-> {}]
    /\ open = {} /\ shut = {} /\ moved = {}
    /\ logging = [t \in Thread |-> 0] /\ recurse_protection = {}

Put(S, where) == [s \in Stream |-> IF s \in S THEN where ELSE sys[s]]

EnterBlock(b, S) ==
    /\ b \notin open
    /\ open' = open \cup {b} /\ shut' = shut \ {b}  \* a new proxy
    /\ redirects' = [redirects EXCEPT ![b] = S]
    /\ sys' = Put(S, b)
    /\ moved' = (moved \cup open) \ {b}
    /\ UNCHANGED <<logging, recurse_protection>>

\* What was there before the block is not put back: the terminal is.
LeaveBlock(b) ==
    /\ b \in open
    /\ open' = open \ {b}
    /\ sys' = Put(redirects[b], Terminal)
    /\ moved' = (moved \cup open) \ {b}
    /\ UNCHANGED <<redirects, shut, logging, recurse_protection>>

CloseProxy(b) ==
    /\ b \in open \ shut
    /\ shut' = shut \cup {b}
    /\ UNCHANGED <<sys, redirects, open, logging, recurse_protection, moved>>

\* write(), by the thread itself or by a handler that logs for it: dropped if
\* the thread is in a write already, or the proxy is closed.
Protected(t) == t \in recurse_protection
Write(t, s) ==
    /\ sys[s] # Terminal /\ logging[t] < MaxDepth
    /\ ~Protected(t) /\ sys[s] \notin shut
    /\ recurse_protection' = recurse_protection \cup {t}
    /\ logging' = [logging EXCEPT ![t] = @ + 1]
    /\ UNCHANGED <<sys, redirects, open, shut, moved>>

\* logger.log() called by the code, in no write: its handlers may print.
LogCall(t) ==
    /\ logging[t] = 0
    /\ logging' = [logging EXCEPT ![t] = 1]
    /\ UNCHANGED <<sys, redirects, open, shut, recurse_protection, moved>>

\* A call of logger.log() returns or raises; the finally block of a write is
\* that of the innermost call.
LogReturns(t) ==
    /\ logging[t] > 0
    /\ logging' = [logging EXCEPT ![t] = @ - 1]
    /\ recurse_protection' = recurse_protection \ {t}
    /\ UNCHANGED <<sys, redirects, open, shut, moved>>

Next ==
    \/ \E b \in Block : \/ \E S \in SUBSET Stream : EnterBlock(b, S)
                        \/ LeaveBlock(b) \/ CloseProxy(b)
    \/ \E t \in Thread : \/ \E s \in Stream : Write(t, s)
                         \/ LogCall(t) \/ LogReturns(t)

Spec == Init /\ [][Next]_vars

-----------------------------------------------------------------------------
\* A stream never goes to a block that was left, and goes to an open block
\* that redirects it unless another block was entered or left meanwhile; what
\* a handler prints while it logs is logged once more at most, and only if the
\* code had called the logger itself.
StreamsRight ==
    /\ \A s \in Stream : sys[s] \in open \cup {Terminal}
    /\ \A b \in open \ moved : \A s \in redirects[b] : sys[s] = b
    /\ \A t \in Thread : logging[t] <= 2 /\ (logging[t] = 2 => Protected(t))
=============================================================================
