------------------------------ MODULE VarStore ------------------------------
(***************************************************************************)
(* What the variables of the boot script promise it, without heap, pointers*)
(* or lists: a map from names to values.  An assignment changes the value  *)
(* of one name, whoever shares a term with it, and nothing else changes a  *)
(* value; a collection is not seen.                                        *)
(***************************************************************************)
CONSTANTS Names, Values,
    NoValue,    \* what a function that returns nothing gives a variable
    Unset       \* the value of a name never assigned

VARIABLES
    store,      \* the value of each name
    status      \* "running", "collecting" or "ended"

Init ==
    /\ store = [n \in Names |-> Unset]
    /\ status = "running"

\* The assignment may be the last step: there may be no room for the variable.
Assign(n) ==
    /\ status = "running"
    /\ status' \in {"running", "ended"}
    /\ store'[n] \in Values \cup {NoValue}
    /\ store' = [store EXCEPT ![n] = store'[n]]

CollectionBegins ==
    /\ status = "running"
    /\ status' = "collecting"
    /\ UNCHANGED store

CollectionEnds ==
    /\ status = "collecting"
    /\ status' = "running"
    /\ UNCHANGED store

End ==
    /\ status # "ended"
    /\ status' = "ended"
    /\ UNCHANGED store

Next ==
    \/ \E n \in Names : Assign(n)
    \/ CollectionBegins
    \/ CollectionEnds
    \/ End

Spec == Init /\ [][Next]_<<store, status>>
=============================================================================
