------------------------------- MODULE Wiring -------------------------------
(***************************************************************************)
(* A component made of calls of other components: each call takes variables*)
(* and gives one, and starts on the row after the one before it.  A call is*)
(* held here to what its component promises; that the component keeps its  *)
(* promise is checked on the component itself.                             *)
(***************************************************************************)
EXTENDS FieldValues, SequencesExt, TLC

CONSTANTS
    Promised(_, _), \* what a component makes of its inputs
    Height(_)       \* the rows a call takes

(* Variables have names: tuples of a string and numbers.                   *)
Looked(env, name) == IF name[1] = "number" THEN name[2] ELSE env[name]
Arguments(env, call) == [i \in DOMAIN call.in |-> Looked(env, call.in[i])]

(* The calls from first to last, made one after the other; the values some *)
(* are given are taken for theirs, and must be what they promise: the first*)
(* that is not ends it.  Cells are filled and no more: what holds them are *)
(* ties.                                                                   *)
Free == {"cell", "beside", "skipped"}
Made(call, k, done, given) ==
    LET promised == Promised(call.op, Arguments(done.env, call))
        value == IF k \in DOMAIN given THEN given[k] ELSE promised
    IN [env |-> (call.to :> value) @@ done.env, cells |-> Append(done.cells, value),
        ok |-> done.ok /\ (call.op \in Free \/ value = promised)]
RECURSIVE Performed(_, _, _, _, _)
Performed(calls, first, last, done, given) ==
    IF first > last THEN done
    ELSE IF first = last THEN Made(calls[first], first, done, given)
    ELSE LET half == (first + last) \div 2
             left == Performed(calls, first, half, done, given)
         IN IF left.ok THEN Performed(calls, half + 1, last, left, given) ELSE left
Run(calls, in, given) == Performed(calls, 1, Len(calls), [env |-> in, cells |-> <<>>, ok |-> TRUE], given)

(* generate_assignments: what every call gives, from the component's inputs.*)
Filled(calls, in) == Run(calls, in, <<>>).cells

(* generate_circuit: every call's gates and the copy constraints to its    *)
(* inputs.                                                                 *)
CallsHold(calls, ties, in, t) ==
    LET end == Run(calls, in, t) IN
    end.ok /\ \A tie \in ties : Looked(end.env, tie[1]) = Looked(end.env, tie[2])

(* The rows of the calls, the row of each, and the value of the call on a  *)
(* row, or that a variable has in the end.                                 *)
RECURSIVE RowsBetween(_, _, _)
RowsBetween(calls, first, last) ==
    IF first > last THEN 0
    ELSE IF first = last THEN Height(calls[first])
    ELSE LET half == (first + last) \div 2 IN
         RowsBetween(calls, first, half) + RowsBetween(calls, half + 1, last)
Rows(calls) == RowsBetween(calls, 1, Len(calls))
RowOf(calls, k) == RowsBetween(calls, 1, k - 1)
Result(ref, calls, in, t) ==
    IF ref[1] = "row"
    THEN t[CHOOSE k \in 1..Len(calls) : RowOf(calls, k) = ref[2] /\ Height(calls[k]) > 0]
    ELSE Looked(Run(calls, in, t).env, ref)
=============================================================================
