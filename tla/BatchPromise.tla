---------------------------- MODULE BatchPromise ----------------------------
(***************************************************************************)
(* What component batching promises to the components that use it, with no *)
(* word about batches, passes, placeholders or rows: a variable is given,  *)
(* its value becomes known once and never changes, and when everything is  *)
(* placed every variable given has a cell with its value.                  *)
(***************************************************************************)
CONSTANTS
    Variable,  \* the variables that can be given out
    Value      \* field elements

VARIABLES
    given,   \* variables given out
    known,   \* values of those whose value is known
    placed   \* values of the cells of those that have one

vars == <<given, known, placed>>

Init ==
    /\ given = {}
    /\ known = [k \in {} |-> 0]
    /\ placed = [k \in {} |-> 0]

With(f, k, v) == [j \in DOMAIN f \cup {k} |-> IF j = k THEN v ELSE f[j]]

Give(k) ==
    /\ k \notin given
    /\ given' = given \cup {k}
    /\ \/ UNCHANGED known
       \/ \E v \in Value : known' = With(known, k, v)
    /\ UNCHANGED placed

Learn(k) ==
    /\ k \in given \ DOMAIN known
    /\ \E v \in Value : known' = With(known, k, v)
    /\ UNCHANGED <<given, placed>>

Place ==
    /\ DOMAIN known = given
    /\ placed' = known
    /\ UNCHANGED <<given, known>>

Next == (\E k \in Variable : Give(k)) \/ (\E k \in given : Learn(k)) \/ Place

Spec == Init /\ [][Next]_vars
=============================================================================
