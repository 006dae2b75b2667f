----------------------------- MODULE EdwardsGadgets -----------------------------
(***************************************************************************)
(* Points of Ed25519 (components/algebra/curves/edwards/plonk/non_native): *)
(* components made of calls of the arithmetic of ForeignGadgets, of their  *)
(* own rows and of each other.  Prime is the modulus of the field the      *)
(* curve is over, -x^2 + y^2 = 1 + D x^2 y^2; an element has four limbs.   *)
(* Both passes of every component make the same calls.                     *)
(***************************************************************************)
EXTENDS FieldValues, SequencesExt, TLC

CONSTANTS
    D,         \* of the curve
    Widths,    \* the bits of an element's limbs, lowest first
    ScalarBits \* of the scalars points are multiplied by

(* The curve: external, the points of the field's library.  Its zero is    *)
(* (0, 1); the components take care of a representation that is not.       *)
Zero == <<0, 1>>
OnCurve(p) == E(p[2] * p[2] - p[1] * p[1]) = E(1 + D * E(E(p[1] * p[1]) * E(p[2] * p[2])))
Points == {p \in (0..(Prime - 1)) \X (0..(Prime - 1)) : OnCurve(p)}
Sum(p, q) ==
    LET k == E(D * E(E(p[1] * q[1]) * E(p[2] * q[2]))) IN
    <<E((p[1] * q[2] + p[2] * q[1]) * Inverted(1 + k)), E((p[2] * q[2] + p[1] * q[1]) * Inverted(1 - k))>>
Times(n, p) ==
    LET m[i \in 0..n] == IF i = 0 THEN Zero ELSE Sum(m[i - 1], p) IN m[n]

(* Limbs 1 and 4 of an element.                                            *)
OuterLimbs(x) == x - ((x \div 2^Widths[1]) % 2^(Widths[2] + Widths[3])) * 2^Widths[1]

(* What the components called promise: a point's second coordinate is a    *)
(* call beside the first one's.                                            *)
Bit(k, i) == (k \div 2^(ScalarBits - 1 - i)) % 2
Selected(bit, p) == IF bit = 1 THEN p ELSE Zero
Point(a, i) == <<a[i], a[i + 1]>>
Promised(op, a) ==
    CASE op = "add" -> E(a[1] + a[2])
      [] op = "sub" -> E(a[1] - a[2])
      [] op = "mul" -> E(a[1] * a[2])
      [] op \in {"cell", "is"} -> a[1]
      [] op = "outer" -> OuterLimbs(a[1])
      [] op = "bit" -> Bit(a[1], a[2])
      [] op = "decomposed" -> Bit(a[1], 0)
      [] op = "selected" -> Selected(a[3], Point(a, 1))[1]
      [] op = "selected y" -> Selected(a[3], Point(a, 1))[2]
      [] op = "doubled" -> Sum(Point(a, 1), Point(a, 1))[1]
      [] op = "doubled y" -> Sum(Point(a, 1), Point(a, 1))[2]
      [] op = "added" -> Sum(Point(a, 1), Point(a, 3))[1]
      [] op = "added y" -> Sum(Point(a, 1), Point(a, 3))[2]
      [] op = "per_bit" -> Sum(Sum(Point(a, 3), Point(a, 3)), Selected(a[5], Point(a, 1)))[1]
      [] op = "per_bit y" -> Sum(Sum(Point(a, 3), Point(a, 3)), Selected(a[5], Point(a, 1)))[2]

RangeRows == 2
SumRows == 2 + RangeRows
MulRows == 3 + 2 * RangeRows
DecompositionRows == 4
BoolRows == 2
AdditionRows == 2 * RangeRows + 8 * MulRows + 3 * SumRows + SumRows
DoublingRows == 2 * RangeRows + 5 * MulRows + 4 * SumRows + 2 * SumRows
PerBitRows == BoolRows + DoublingRows + AdditionRows
VariableBaseRows == DecompositionRows + BoolRows + (ScalarBits - 1) * PerBitRows
Height(call) ==
    CASE call.op = "cell" -> RangeRows
      [] call.op \in {"add", "sub"} -> SumRows
      [] call.op = "mul" -> MulRows
      [] call.op = "decomposed" -> DecompositionRows
      [] call.op = "selected" -> BoolRows
      [] call.op = "doubled" -> DoublingRows
      [] call.op = "added" -> AdditionRows
      [] call.op = "per_bit" -> PerBitRows
      [] OTHER -> 0

W == INSTANCE Wiring

Call(to, op, in) == [to |-> to, op |-> op, in |-> in]
X(s) == <<s>>
Coordinates(p) == <<<<p, "x">>, <<p, "y">>>>
PointCall(p, op, in) == <<Call(<<p, "x">>, op, in), Call(<<p, "y">>, op \o " y", in)>>

(* The sum's coordinates are cells in the range of an element, whatever the *)
(* component fills them with.                                               *)
Hints == <<Call(<<"P", "x">>, "cell", <<<<"hint", "x">>>>), Call(<<"P", "y">>, "cell", <<<<"hint", "y">>>>)>>

-----------------------------------------------------------------------------
(* complete_addition: P is T + R.                                          *)

Products ==
    <<Call(X("t0"), "mul", <<<<"T", "x">>, <<"R", "y">>>>),
      Call(X("t1"), "mul", <<<<"T", "y">>, <<"R", "x">>>>),
      Call(X("t2"), "mul", <<<<"T", "x">>, <<"R", "x">>>>),
      Call(X("t3"), "mul", <<<<"T", "y">>, <<"R", "y">>>>),
      Call(X("z0"), "add", <<X("t0"), X("t1")>>),
      Call(X("z1"), "add", <<X("t2"), X("t3")>>),
      Call(X("z2"), "mul", <<X("t0"), X("t1")>>)>>
Denominators ==
    <<Call(X("k0"), "mul", <<<<"number", D>>, X("z2")>>),
      Call(X("k1"), "mul", <<<<"P", "x">>, X("k0")>>),
      Call(X("k2"), "mul", <<<<"P", "y">>, X("k0")>>),
      Call(X("k3"), "add", <<<<"P", "x">>, X("k1")>>),
      Call(X("k4"), "sub", <<<<"P", "y">>, X("k2")>>)>>
AdditionTies == {<<X("z0"), X("k3")>>, <<X("z1"), X("k4")>>}
Addition ==
    [calls |-> Hints \o Products \o Denominators, ties |-> AdditionTies, rows |-> AdditionRows,
     results |-> <<<<"row", 0>>, <<"row", RangeRows>>>>]

(* doubling: P is T + T.  The copy constraints on the y coordinate are on  *)
(* columns of limb 4 and of the chunks of limb 1.                          *)
DoublingTerms ==
    <<Call(X("t0"), "mul", <<<<"T", "y">>, <<"T", "y">>>>),
      Call(X("t1"), "mul", <<<<"T", "x">>, <<"T", "x">>>>),
      Call(X("t2"), "mul", <<<<"T", "x">>, <<"T", "y">>>>),
      Call(X("t3"), "sub", <<X("t0"), X("t1")>>),
      Call(X("t4"), "add", <<X("t2"), X("t2")>>),
      Call(X("t5"), "add", <<X("t1"), X("t0")>>),
      Call(X("t6"), "sub", <<X("t1"), X("t0")>>)>>
DoublingCoordinates ==
    <<Call(X("t7"), "mul", <<<<"P", "x">>, X("t3")>>),
      Call(X("t8"), "add", <<<<"P", "y">>, <<"P", "y">>>>),
      Call(X("t9"), "mul", <<<<"P", "y">>, X("t6")>>),
      Call(X("t10"), "add", <<X("t8"), X("t9")>>),
      Call(X("t5 outer"), "outer", <<X("t5")>>), Call(X("t10 outer"), "outer", <<X("t10")>>)>>
DoublingTies == {<<X("t7"), X("t4")>>, <<X("t5 outer"), X("t10 outer")>>}
Doubling ==
    [calls |-> Hints \o DoublingTerms \o DoublingCoordinates, ties |-> DoublingTies, rows |-> DoublingRows,
     results |-> <<<<"row", 0>>, <<"row", RangeRows>>>>]

-----------------------------------------------------------------------------
(* One bit of a multiplication, R + R and T if the bit is set; and the     *)
(* multiplication, from the highest bit to the lowest.                     *)

PerBit ==
    [calls |-> PointCall("B", "selected", Coordinates("T") \o <<X("k")>>)
               \o PointCall("A", "doubled", Coordinates("R"))
               \o PointCall("P", "added", Coordinates("A") \o Coordinates("B")),
     ties |-> {}, rows |-> PerBitRows, results |-> Coordinates("P")]

VariableBase ==
    LET bit(i) == Call(<<"bit", i>>, IF i = 0 THEN "decomposed" ELSE "bit", <<X("k"), <<"number", i>>>>)
        acc(i) == <<<<"P", i, "x">>, <<"P", i, "y">>>>
        perBit(i) ==
            LET in == Coordinates("T") \o acc(i - 1) \o <<<<"bit", i>>>> IN
            <<Call(acc(i)[1], "per_bit", in), Call(acc(i)[2], "per_bit y", in)>>
        first == Coordinates("T") \o <<<<"bit", 0>>>>
    IN [calls |-> [i \in 1..ScalarBits |-> bit(i - 1)]
                  \o <<Call(acc(0)[1], "selected", first), Call(acc(0)[2], "selected y", first)>>
                  \o FlattenSeq([i \in 1..(ScalarBits - 1) |-> perBit(i)]),
        ties |-> {}, rows |-> VariableBaseRows, results |-> acc(ScalarBits - 1)]

-----------------------------------------------------------------------------

EdwardsKinds == {"edwards_add", "edwards_double", "edwards_bit", "edwards_mul"}
ProgramOf(g) ==
    CASE g.kind = "edwards_add" -> Addition
      [] g.kind = "edwards_double" -> Doubling
      [] g.kind = "edwards_bit" -> PerBit
      [] g.kind = "edwards_mul" -> VariableBase
Meant(g, v) ==
    LET point(p) == <<v[<<p, "x">>], v[<<p, "y">>]>> IN
    CASE g.kind = "edwards_add" -> Sum(point("T"), point("R"))
      [] g.kind = "edwards_double" -> Sum(point("T"), point("T"))
      [] g.kind = "edwards_bit" -> Sum(Sum(point("R"), point("R")), Selected(v[X("k")], point("T")))
      [] g.kind = "edwards_mul" -> Times(v[X("k")], point("T"))

Given(p, q, k) ==
    (<<"T", "x">> :> p[1]) @@ (<<"T", "y">> :> p[2]) @@ (<<"R", "x">> :> q[1]) @@ (<<"R", "y">> :> q[2])
    @@ (X("k") :> k)
Hinted(g, in) ==
    LET hint == Meant(g, in) IN (<<"hint", "x">> :> hint[1]) @@ (<<"hint", "y">> :> hint[2]) @@ in
EdwardsHonest(g) ==
    LET some == g.points
        scalars == IF g.kind = "edwards_bit" THEN {0, 1}
                   ELSE IF g.kind = "edwards_mul" THEN 0..(2^ScalarBits - 1) ELSE {0}
        others == IF g.kind \in {"edwards_add", "edwards_bit"} THEN Points ELSE {Zero}
    IN {[in |-> Hinted(g, Given(p, q, k)), given |-> <<>>] : p \in some, q \in others, k \in scalars}

(* A prover fills in other coordinates, or another last call.              *)
EdwardsTried(g) ==
    LET calls == ProgramOf(g).calls
        open == {k \in DOMAIN calls : calls[k].op = "cell"} \cup {Len(calls)}
    IN {[f EXCEPT !.given = (k :> value)] : f \in EdwardsHonest(g), k \in open, value \in 0..(Prime - 1)}
EdwardsTable(g, f) == W!Run(ProgramOf(g).calls, f.in, f.given).cells
EdwardsHolds(g, f, t) == W!CallsHold(ProgramOf(g).calls, ProgramOf(g).ties, f.in, t)

(* Of a doubled point's y coordinate only what is compared is certain: with *)
(* other middle limbs of t10 another y is accepted.                         *)
EdwardsMeans(g, f, t) ==
    LET program == ProgramOf(g)
        meant == Meant(g, f.in)
        results == [k \in 1..2 |-> W!Result(program.results[k], program.calls, f.in, t)]
        outer(y) == OuterLimbs(E(y * (2 + f.in[<<"T", "x">>]^2 - f.in[<<"T", "y">>]^2)))
    IN /\ results[1] = meant[1]
       /\ IF g.kind = "edwards_double" THEN outer(results[2]) = outer(meant[2]) ELSE results[2] = meant[2]
       /\ W!Rows(program.calls) = program.rows
=============================================================================
