--------------------------- MODULE MCServiceTree ---------------------------
(* Small trees of services for TLC.                                        *)
EXTENDS ServiceTree

CONSTANTS app, db, web, log, t1, t2, t3  \* services and futures

NoSet == [s \in Service |-> {}]
NoList == [s \in Service |-> <<>>]

\* app with two children, one from __post_init__, one from on_init_dependencies.
FlatPostInit == [NoList EXCEPT ![app] = <<db>>]
FlatOnInit == [NoList EXCEPT ![app] = <<web>>]

\* app above db above web.
ChainPostInit == [NoList EXCEPT ![app] = <<db>>]
ChainOnInit == [NoList EXCEPT ![db] = <<web>>]

\* app with two children added while the program runs, beside those of
\* __post_init__.
DynDynamic == [NoSet EXCEPT ![app] = {web, log}]

\* One task of app, one future of db.
FlatOwner == [f \in Future |-> CASE f = t1 -> app [] f = t2 -> db [] OTHER -> web]
=============================================================================
