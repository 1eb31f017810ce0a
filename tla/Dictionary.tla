------------------------------- MODULE Dictionary -------------------------------
(***************************************************************************)
(* What a catalog promises, without how: a dictionary from the names of    *)
(* objects to their specs, in which an entry stays what it is until its    *)
(* object is dropped.                                                      *)
(***************************************************************************)
CONSTANTS
    Specs,      \* the specs objects may be created with
    NameOf(_)   \* the name of a spec

VARIABLE dict    \* the function from the names that exist to their specs

Create(spec) ==
    /\ NameOf(spec) \notin DOMAIN dict
    /\ dict' = [n \in DOMAIN dict \cup {NameOf(spec)} |->
                    IF n = NameOf(spec) THEN spec ELSE dict[n]]

Drop(name) ==
    /\ name \in DOMAIN dict
    /\ dict' = [n \in DOMAIN dict \ {name} |-> dict[n]]

Init == DOMAIN dict = {}

Next ==
    \/ \E spec \in Specs : Create(spec)
    \/ \E name \in DOMAIN dict : Drop(name)

Spec == Init /\ [][Next]_dict
=============================================================================
