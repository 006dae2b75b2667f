---------------------------- MODULE MCStretcher ----------------------------
(* Small instances of Stretcher: components of four rows and two gates     *)
(* that read their own row, the next one or both neighbours.               *)
EXTENDS Stretcher

Reaches == {{0}, {0, 1}, {-1, 0, 1}}

ShapesWith(constantReaches, copied) ==
    {s \in [enabled : [Gates -> SUBSET Rows \ {{}}],
            witness : [Gates -> Reaches],
            constant : [Gates -> constantReaches],
            copied : copied] : s \in AllShapes}

(* Constants as they may be used so that a gate finds them: the one of     *)
(* another row together with the constant of its own row or a witness of   *)
(* that other row, and none that a copy constraint names.                  *)
PlainShapes ==
    {s \in ShapesWith({{}, {0}, {1}, {0, 1}, {-1, 0}}, {c \in SUBSET Rows : Cardinality(c) <= 2}) :
        \A g \in Gates : \A d \in s.constant[g] :
            /\ 0 \in s.constant[g] \/ d \in s.witness[g]
            /\ \A i \in s.enabled[g] : i + d \notin s.copied}

NoConstants == ShapesWith({{}}, {{}})

Public(k) == [type |-> "public_input", bin |-> 0, row |-> k]
OwnPublicInputs == <<Public(0), Public(1)>>
SwappedPublicInputs == <<Public(1), Public(0)>>
=============================================================================
