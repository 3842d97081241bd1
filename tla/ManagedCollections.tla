------------------------ MODULE ManagedCollections ------------------------
(***************************************************************************)
(* ManagedUserSet and ManagedUserDict (mode/utils/collections.py): a set   *)
(* and a dict that tell their callbacks what is going to change.  What is  *)
(* kept here beside each is what an observer knows from the callbacks      *)
(* alone.  A callback may raise, and then the call ends there.             *)
(***************************************************************************)
EXTENDS Integers, FiniteSets

CONSTANTS Elem, Value, None

VARIABLES
    set, set_mirror,    \* SUBSET Elem
    dict, dict_mirror,  \* [Elem -> Value \cup {None}]
    unheard,   \* history: elements last taken from the set without a word
    bypassed,  \* history: collections changed by raw_update()
    failed     \* history: collections with a callback that raised

vars == <<set, set_mirror, dict, dict_mirror, unheard, bypassed, failed>>
sets == <<set, set_mirror, unheard>>
dicts == <<dict, dict_mirror>>

Dict == [Elem -> Value \cup {None}]
TypeOK ==
    /\ {set, set_mirror, unheard} \subseteq SUBSET Elem
    /\ dict \in Dict /\ dict_mirror \in Dict
    /\ {bypassed, failed} \subseteq SUBSET {"set", "dict"}

Empty == [k \in Elem |-> None]
Init ==
    /\ set \in SUBSET Elem /\ set_mirror = set  \* data is put in place unobserved
    /\ dict = Empty /\ dict_mirror = Empty
    /\ unheard = {} /\ bypassed = {} /\ failed = {}

\* The callback of a set returns, or raises and the call with it.
Told(added, removed) ==
    /\ set_mirror' = (set_mirror \cup added) \ removed
    /\ unheard' = unheard \ (added \cup removed)
    /\ UNCHANGED failed
Raised(c) == failed' = failed \cup {c}
Bypass(c) == bypassed' = bypassed \cup {c}

-----------------------------------------------------------------------------
(* ManagedUserSet.                                                         *)

\* The callback is called only if there is something to do.
Add(e) ==
    /\ e \notin set
    /\ \/ Told({e}, {}) /\ set' = set \cup {e}
       \/ Raised("set") /\ UNCHANGED sets
    /\ UNCHANGED <<dicts, bypassed>>
Discard(e) ==
    /\ e \in set
    /\ \/ Told({}, {e}) /\ set' = set \ {e}
       \/ Raised("set") /\ UNCHANGED sets
    /\ UNCHANGED <<dicts, bypassed>>
ClearSet ==
    /\ \/ Told({}, Elem) /\ set' = {}
       \/ Raised("set") /\ UNCHANGED sets
    /\ UNCHANGED <<dicts, bypassed>>

\* pop() alone changes the set first: an element is lost to the observer if
\* the callback raises.  remove() is that of FastUserSet, and calls nothing.
Lost(e) == unheard' = unheard \cup {e} /\ UNCHANGED set_mirror
Pop ==
    /\ \E e \in set :
         /\ set' = set \ {e}
         /\ Told({}, {e}) \/ (Raised("set") /\ Lost(e))
    /\ UNCHANGED <<dicts, bypassed>>
Remove(e) ==
    /\ e \in set
    /\ set' = set \ {e} /\ Lost(e)
    /\ UNCHANGED <<dicts, bypassed, failed>>

\* The operators and the methods that change the set in place, and what they
\* tell on_change.
SetOp == {"update", "intersection_update", "difference_update", "symmetric_difference_update"}
Result(o, other) ==
    CASE o = "update" -> set \cup other
      [] o = "intersection_update" -> set \cap other
      [] o = "difference_update" -> set \ other
      [] o = "symmetric_difference_update" -> (set \ other) \cup (other \ set)
\* Mutant: what a symmetric difference adds is not told.
AddedByUpdate(o, other) == IF o = "update" THEN other \ set ELSE {}

Added(o, other) ==
    IF o \in {"update", "symmetric_difference_update"} THEN other \ set ELSE {}
Removed(o, other) ==
    CASE o = "intersection_update" -> set \ other
      [] o \in {"difference_update", "symmetric_difference_update"} -> set \cap other
      [] OTHER -> {}
InPlace(o, other) ==
    /\ \/ Told(Added(o, other), Removed(o, other)) /\ set' = Result(o, other)
       \/ Raised("set") /\ UNCHANGED sets
    /\ UNCHANGED <<dicts, bypassed>>

\* raw_update() is there to call nothing.
RawUpdateSet(other) ==
    /\ set' = set \cup other
    /\ Bypass("set")
    /\ UNCHANGED <<set_mirror, unheard, dicts, failed>>

-----------------------------------------------------------------------------
(* ManagedUserDict.                                                        *)

\* The keys of a mapping that is given are announced one after another; only
\* then is the dictionary changed, all at once.
Merge(d, new, K) == [k \in Elem |-> IF k \in K /\ new[k] # None THEN new[k] ELSE d[k]]
Keys(d) == {k \in Elem : d[k] # None}
UpdateDict(new) ==
    /\ \/ /\ dict_mirror' = Merge(dict_mirror, new, Keys(new))
          /\ dict' = Merge(dict, new, Keys(new))
          /\ UNCHANGED failed
       \/ /\ \E told \in (SUBSET Keys(new)) \ {Keys(new)} :
               dict_mirror' = Merge(dict_mirror, new, told)
          /\ Raised("dict") /\ UNCHANGED dict
    /\ UNCHANGED <<sets, bypassed>>

\* on_key_del comes before the KeyError of a key that is not there; pop() and
\* popitem() read the key first, and on_key_get may raise.
DeleteKey(k) ==
    /\ \/ /\ dict' = [dict EXCEPT ![k] = None]
          /\ dict_mirror' = [dict_mirror EXCEPT ![k] = None]
          /\ UNCHANGED failed
       \/ Raised("dict") /\ UNCHANGED dicts
    /\ UNCHANGED <<sets, bypassed>>
ClearDict ==
    /\ \/ dict' = Empty /\ dict_mirror' = Empty /\ UNCHANGED failed
       \/ Raised("dict") /\ UNCHANGED dicts
    /\ UNCHANGED <<sets, bypassed>>
RawUpdate(new) ==
    /\ dict' = Merge(dict, new, Keys(new))
    /\ Bypass("dict")
    /\ UNCHANGED <<sets, dict_mirror, failed>>

Next ==
    \/ \E e \in Elem : Add(e) \/ Discard(e) \/ Remove(e) \/ DeleteKey(e)
    \/ ClearSet \/ Pop \/ ClearDict
    \/ \E other \in SUBSET Elem : RawUpdateSet(other) \/ \E o \in SetOp : InPlace(o, other)
    \/ \E new \in Dict : UpdateDict(new) \/ RawUpdate(new)

Spec == Init /\ [][Next]_vars

-----------------------------------------------------------------------------
\* Until a raw_update(), the observer of a set knows every element of it, and
\* takes for elements, beside them, only those that remove(), or a pop() whose
\* callback raised, was the last to take; the observer of a dict knows every key
\* of it, and the dict itself until a callback has raised in the middle of an
\* update().
ObserverKnows ==
    /\ "set" \notin bypassed => set \subseteq set_mirror /\ set_mirror \ set \subseteq unheard
    /\ "dict" \notin bypassed =>
         /\ Keys(dict) \subseteq Keys(dict_mirror)
         /\ "dict" \notin failed => dict_mirror = dict
=============================================================================
