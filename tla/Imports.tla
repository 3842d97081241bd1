------------------------------ MODULE Imports ------------------------------
(***************************************************************************)
(* mode/utils/imports.py: cwd_in_path(), which several tasks or threads    *)
(* may be in while the working directory changes, and FactoryMapping,      *)
(* which loads the names of its namespaces when it is first used.          *)
(***************************************************************************)
EXTENDS Integers, Sequences, FiniteSets, SequencesExt

CONSTANTS
    User,       \* tasks or threads
    Directory,
    Namespace,  \* setuptools namespaces, each with a name of its own
    None

VARIABLES
    path,       \* sys.path: the directories of Directory in it
    at_start,   \* those that were in it
    cwd,
    inside,     \* [User -> the directory its block is for, or None]
    inserted,   \* users whose block has inserted it
    dropped,    \* history: blocks whose directory another block removed
    namespaces, finalized,
    loading,    \* namespaces that _finalize() has still to load
    aliases,    \* namespaces whose names are known
    failed,     \* history: loading has raised
    declared    \* history: namespaces included before the first use

vars == <<path, at_start, cwd, inside, inserted, dropped, namespaces, finalized,
          loading, aliases, failed, declared>>
pathvars == <<path, at_start, cwd, inside, inserted, dropped>>
mapping == <<namespaces, finalized, loading, aliases, failed, declared>>

TypeOK ==
    /\ path \in Seq(Directory) /\ at_start \subseteq Directory /\ cwd \in Directory
    /\ inside \in [User -> Directory \cup {None}]
    /\ {inserted, dropped} \subseteq SUBSET User
    /\ {namespaces, loading, aliases, declared} \subseteq SUBSET Namespace
    /\ {finalized, failed} \subseteq BOOLEAN

Init ==
    /\ \E d \in Directory \cup {None} : path = IF d = None THEN <<>> ELSE <<d>>
    /\ at_start = ToSet(path)
    /\ cwd \in Directory
    /\ inside = [u \in User |-> None] /\ inserted = {} /\ dropped = {}
    /\ namespaces = {} /\ finalized = FALSE /\ loading = {} /\ aliases = {}
    /\ failed = FALSE /\ declared = {}

-----------------------------------------------------------------------------
(* cwd_in_path.                                                            *)

Chdir(d) ==
    /\ cwd' = d
    /\ UNCHANGED <<path, at_start, inside, inserted, dropped, mapping>>

\* Inserted first, unless it is there: then the block has nothing to undo.
EnterPath(u) ==
    /\ inside[u] = None
    /\ inside' = [inside EXCEPT ![u] = cwd]
    /\ IF cwd \in ToSet(path) THEN UNCHANGED <<path, inserted>>
       ELSE path' = <<cwd>> \o path /\ inserted' = inserted \cup {u}
    /\ UNCHANGED <<at_start, cwd, dropped, mapping>>

\* Mutant: a directory that was in the path before is removed too.
LeavesAlways(u) == RemoveFirst(path, inside[u])

Leaves(u) == IF u \in inserted THEN RemoveFirst(path, inside[u]) ELSE path
LeavePath(u) ==
    /\ inside[u] # None
    /\ path' = Leaves(u)
    /\ dropped' = (dropped \cup {v \in User : u \in inserted /\ inside[v] = inside[u]}) \ {u}
    /\ inside' = [inside EXCEPT ![u] = None]
    /\ inserted' = inserted \ {u}
    /\ UNCHANGED <<at_start, cwd, mapping>>

-----------------------------------------------------------------------------
(* FactoryMapping.                                                         *)

IncludeNamespace(n) ==
    /\ loading = {}
    /\ namespaces' = namespaces \cup {n}
    /\ declared' = IF finalized THEN declared ELSE declared \cup {n}
    /\ UNCHANGED <<pathvars, finalized, loading, aliases, failed>>

\* _maybe_finalize: whatever happens it is done once only, and a use while the
\* names are loaded finds those that are there.
Use ==
    /\ ~finalized
    /\ finalized' = TRUE
    /\ loading' = namespaces
    /\ UNCHANGED <<pathvars, namespaces, aliases, failed, declared>>

LoadNamespace(n) ==
    /\ n \in loading
    /\ \/ /\ loading' = loading \ {n}
          /\ aliases' = aliases \cup {n}
          /\ UNCHANGED failed
       \/ /\ loading' = {} /\ failed' = TRUE
          /\ UNCHANGED aliases
    /\ UNCHANGED <<pathvars, namespaces, finalized, declared>>

Next ==
    \/ \E d \in Directory : Chdir(d)
    \/ \E u \in User : EnterPath(u) \/ LeavePath(u)
    \/ \E n \in Namespace : IncludeNamespace(n) \/ LoadNamespace(n)
    \/ Use

Spec == Init /\ [][Next]_vars

-----------------------------------------------------------------------------
\* Inside its block a user has the directory in the path unless the block that
\* had inserted it was left first; when all blocks are left the path is what it
\* was, and no directory is ever in it twice.
PathRight ==
    /\ \A u \in User : inside[u] # None => inside[u] \in ToSet(path) \/ u \in dropped
    /\ (\A u \in User : inside[u] = None) => ToSet(path) = at_start
    /\ IsInjective(path)

\* A mapping in use knows the names of every namespace that was included before
\* its first use, once they are loaded, unless loading has raised; it never
\* learns of one that is included later.
NamesKnown ==
    /\ finalized /\ loading = {} /\ ~failed => aliases = declared
    /\ aliases \subseteq declared
ImportsRight == PathRight /\ NamesKnown
=============================================================================
