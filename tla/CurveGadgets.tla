------------------------------ MODULE CurveGadgets ------------------------------
(***************************************************************************)
(* Addition and scalar multiplication on a short Weierstrass curve         *)
(* y^2 = x^3 + b without points of small order, over the circuit's field:  *)
(* unified_addition and variable_base_scalar_mul                           *)
(* (include/nil/blueprint/components/algebra/curves/pasta/plonk).  A table *)
(* is a function from the names of the cells, a column's and a number.     *)
(***************************************************************************)
EXTENDS FieldValues

CONSTANTS
    CurveB,    \* the curve's b
    Order,     \* how many points there are, the scalar field's modulus
    Generator, \* one of them
    Steps,     \* double-and-add steps in two rows: 5 in the source
    ChunkBits  \* bits of a chunk of the range check: 3 in the source

Vanishes(x) == E(x) = 0
IsBit(x) == x \in {0, 1}

-----------------------------------------------------------------------------
(* The curve's group, which crypto3 computes in; <<0, 0>> is its zero.     *)

Zero == <<0, 0>>
Points == {p \in (0..(Prime - 1)) \X (0..(Prime - 1)) : E(p[2] * p[2] - E(p[1] * p[1]) * p[1] - CurveB) = 0}
Minus(p) == <<p[1], E(-p[2])>>

Slope(p, q) ==
    IF p = q THEN E(E(3 * p[1] * p[1]) * Inverted(2 * p[2]))
    ELSE E((q[2] - p[2]) * Inverted(q[1] - p[1]))
Plus(p, q) ==
    IF p = Zero THEN q ELSE IF q = Zero THEN p ELSE IF q = Minus(p) THEN Zero
    ELSE LET s == Slope(p, q)
             x == E(s * s - p[1] - q[1])
         IN <<x, E(s * (p[1] - x) - p[2])>>
Times(k, p) ==
    LET bits == DigitsOf(k, 2, CHOOSE n \in 0..k : 2^n > k)
        m[i \in 0..Len(bits)] ==
            IF i = 0 THEN Zero
            ELSE LET half == m[i - 1] IN Plus(Plus(half, half), IF bits[i] = 1 THEN p ELSE Zero)
    IN m[Len(bits)]

-----------------------------------------------------------------------------
(* unified_addition: P, Q and R, the inverses that show whether P and Q    *)
(* are zero, whether their x are the same and whether their y are opposite, *)
(* and the slope.                                                          *)

UnifiedRow(p, q) ==
    LET same == p[1] = q[1] IN
    p \o q \o Plus(p, q) \o
    <<Inverted(p[1]), Inverted(q[1]), Inverted(q[1] - p[1]),
      IF same THEN Inverted(q[2] + p[2]) ELSE 0,
      IF same /\ p[2] = 0 THEN 0 ELSE IF same THEN Slope(p, p) ELSE Slope(p, q)>>

UnifiedHolds(w) ==
    LET x1 == w[1]  y1 == w[2]  x2 == w[3]  y2 == w[4]  x3 == w[5]  y3 == w[6]
        slope == w[11]
        onLine == E(slope * slope - x1 - x2 - x3)
        reflected == E(slope * (x1 - x3) - y1 - y3)
        apart == E(E(x1 * x2) * (x2 - x1))
        upright == E(E(x1 * x2) * (y2 + y1))
        cancel == E(1 - (x2 - x1) * w[9] - (y2 + y1) * w[10])
    IN /\ Vanishes((x2 - x1) * E((x2 - x1) * slope - (y2 - y1)))
       /\ Vanishes(E(1 - (x2 - x1) * w[9]) * E(2 * y1 * slope - 3 * x1 * x1))
       /\ Vanishes(apart * onLine) /\ Vanishes(apart * reflected)
       /\ Vanishes(upright * onLine) /\ Vanishes(upright * reflected)
       /\ Vanishes(E(1 - x1 * w[7]) * (x3 - x2)) /\ Vanishes(E(1 - x1 * w[7]) * (y3 - y2))
       /\ Vanishes(E(1 - x2 * w[8]) * (x3 - x1)) /\ Vanishes(E(1 - x2 * w[8]) * (y3 - y1))
       /\ Vanishes(cancel * x3) /\ Vanishes(cancel * y3)
UnifiedCircuit(in, w) == UnifiedHolds(w) /\ \A i \in 1..4 : w[i] = in[i]

UnifiedMeans(w) == <<w[5], w[6]>> = Plus(<<w[1], w[2]>>, <<w[3], w[4]>>)

(* The rows a prover gains by, for points of the curve: an inverse that is *)
(* no inverse only adds constraints.                                       *)
UnifiedTried(p, q) ==
    LET F == 0..(Prime - 1) IN
    {row \in {p \o q \o r \o <<u, v>> \o help :
                r \in Points \cup {Zero}, u \in {0, Inverted(p[1])}, v \in {0, Inverted(q[1])},
                help \in {h \in [1..3 -> F] :
                            /\ Vanishes((q[1] - p[1]) * E((q[1] - p[1]) * h[3] - (q[2] - p[2])))
                            /\ Vanishes(E(1 - (q[1] - p[1]) * h[1])
                                        * E(2 * p[2] * h[3] - 3 * p[1] * p[1]))}} :
        UnifiedHolds(row)}

-----------------------------------------------------------------------------
(* variable_base_scalar_mul: g.bits bits, Steps of them in a block of two  *)
(* rows; the last g.low of them are compared with the excess of the order. *)
(* f is the point T, the scalar's bits, highest first, the inputs b and    *)
(* high that stand for them, the point the blocks take for T, and whether  *)
(* the last row is given its inverses.                                     *)

Blocks(g) == g.bits \div Steps
LowBlocks(g) == (g.low - ChunkBits - 1) \div (2 * ChunkBits) + 1
Split == Order > Prime           \* pallas: the highest bit is an input
Excess(g) == Order - 2^(g.bits - 1) \* t_q of pallas, t_p of vesta

(* The inputs for one, zero and minus one, k, in the scalar field          *)
ShiftedConst(g, k) ==
    IF Split THEN CHOOSE x \in 0..(Order - 1) : (2 * x + 1 + 2^g.bits - k) % Order = 0
    ELSE (k - 2^g.bits) % Order
(* and the scalar an input stands for.                                     *)
ScalarOf(g, x) ==
    IF \E k \in -1..1 : x = ShiftedConst(g, k)
    THEN (CHOOSE k \in -1..1 : x = ShiftedConst(g, k)) % Order
    ELSE (2 * x + 1 + 2^g.bits) % Order

(* The inputs whose number, in the field, has these bits.                  *)
Given(g, T, bits, base, inverses) ==
    [T |-> T, bits |-> bits, base |-> base, inverses |-> inverses,
     b |-> Horner(2, IF Split THEN Tail(bits) ELSE bits), high |-> IF Split THEN bits[1] ELSE 0]
Whole(g, f) == f.b + (IF Split THEN f.high * 2^(g.bits - 1) ELSE 0)

(* Below 2^g.low exactly if the low bits are below the excess.             *)
Aux(g, f) ==
    E(f.b - (IF Split THEN 0 ELSE f.bits[1] * 2^(g.bits - 1)) - Excess(g) + 2^g.low)
AuxBits(g, f) == DigitsOf(Aux(g, f), 2, g.bits)

SignedPoint(t, bit) == IF bit = 1 THEN t ELSE Minus(t)

VbsmCells(g) ==
    ({"add"} \X (0..10)) \cup ({"Tx", "Ty", "n", "next"} \X (0..(Blocks(g) - 1)))
    \cup ({"Px", "Py"} \X (0..(Blocks(g) * (Steps + 1) - 1))) \cup ({"bit", "s"} \X (0..(g.bits - 1)))
    \cup ({"u", "u0", "u1", "unext"} \X (0..(LowBlocks(g) - 1)))
    \cup ({"x", "y", "t0", "t1", "t2", "scalar", "Tx2", "Ty2", "m", "e1", "e2", "b", "aux"} \X {0})

(* A point, and the ones it is doubled and added to along the bits.        *)
RECURSIVE Multiples(_, _, _)
Multiples(p, t, bits) ==
    <<p>> \o IF bits = <<>> THEN <<>>
              ELSE Multiples(Plus(Plus(p, SignedPoint(t, bits[1])), p), t, Tail(bits))

VbsmTable(g, f) ==
    LET p == Multiples(Plus(f.T, f.T), f.base, f.bits)
        q(k) == SignedPoint(f.base, f.bits[k])
        pointAt(i) == p[(i \div (Steps + 1)) * Steps + (i % (Steps + 1)) + 1]
        number(k) == Horner(2, SubSeq(f.bits, 1, k))
        auxBits == AuxBits(g, f)
        first(a) == g.bits - g.low + a * 2 * ChunkBits
        low(a) == Horner(2, SubSeq(auxBits, g.bits - g.low + 1,
                            IF first(a) < g.bits THEN first(a) ELSE g.bits))
        chunk(from, amount) == Horner(2, SubSeq(auxBits, from + 1, from + amount))
        n == number(g.bits)
        apart(k) == E(n - ShiftedConst(g, k))
        m == E(E(apart(-1) * apart(0)) * apart(1))
        result == CASE apart(-1) = 0 -> Minus(f.base) [] apart(0) = 0 -> Zero
                    [] apart(1) = 0 -> f.base [] OTHER -> p[g.bits + 1]
    IN [c \in VbsmCells(g) |->
          LET i == c[2] IN
          CASE c[1] = "add" -> UnifiedRow(f.T, f.T)[i + 1]
            [] c[1] \in {"Tx", "Tx2"} -> f.base[1] [] c[1] \in {"Ty", "Ty2"} -> f.base[2]
            [] c[1] = "Px" -> pointAt(i)[1] [] c[1] = "Py" -> pointAt(i)[2]
            [] c[1] = "n" -> number(i * Steps) [] c[1] = "next" -> number((i + 1) * Steps)
            [] c[1] = "bit" -> f.bits[i + 1]
            [] c[1] = "s" -> E((p[i + 1][2] - q(i + 1)[2]) * Inverted(p[i + 1][1] - f.base[1]))
            [] c[1] = "u" -> low(i) [] c[1] = "unext" -> low(i + 1)
            [] c[1] = "u0" -> chunk(first(i), ChunkBits)
            [] c[1] = "u1" -> chunk(first(i) + ChunkBits, IF i = LowBlocks(g) - 1 THEN 1 ELSE ChunkBits)
            [] c[1] = "x" -> result[1] [] c[1] = "y" -> result[2]
            [] c[1] = "m" -> m [] c[1] = "scalar" -> n
            [] c[1] = "t0" -> f.inverses[1] * Inverted(m)
            [] c[1] = "t1" -> f.inverses[2] * Inverted(apart(-1)) [] c[1] = "t2" -> f.inverses[3] * Inverted(apart(1))
            [] c[1] = "e1" -> f.bits[1] [] c[1] = "e2" -> number(g.bits - g.low)
            [] c[1] = "b" -> f.b [] c[1] = "aux" -> Aux(g, f)]

(* One double-and-add step: P + (2 * bit - 1) * T + P is N.                *)
SlopeHolds(p, t, bit, s) == Vanishes((p[1] - t[1]) * s - (p[2] - (2 * bit - 1) * t[2]))
StepHolds(p, t, s, n, relaxed) ==
    LET u == E(2 * p[1] - s * s + t[1])
        v == E(2 * p[2] - s * u)
    IN /\ Vanishes(relaxed * E(v * v - E(u * u) * E(n[1] - t[1] + s * s)))
       /\ Vanishes(relaxed * E((n[2] + p[2]) * u - (p[1] - n[1]) * v))

(* The two gates of a block; the last block's looks at the last row too.   *)
BlockHolds(g, t, b) ==
    LET cell(name, i) == t[<<name, i>>]
        p(k) == <<cell("Px", b * (Steps + 1) + k), cell("Py", b * (Steps + 1) + k)>>
        T == <<cell("Tx", b), cell("Ty", b)>>
        bit(k) == cell("bit", b * Steps + k - 1)
        s(k) == cell("s", b * Steps + k - 1)
        isLast == b = Blocks(g) - 1
        relaxed(k) == IF isLast /\ k >= Steps - 1 THEN E(cell("m", 0) * cell("t0", 0)) ELSE 1
    IN /\ \A k \in 1..Steps :
             /\ IsBit(bit(k))
             /\ SlopeHolds(p(k - 1), T, bit(k), s(k))
             /\ StepHolds(p(k - 1), T, s(k), p(k), relaxed(k))
       /\ cell("next", b) = Horner(2, <<cell("n", b)>> \o [k \in 1..Steps |-> bit(k)])

LowHolds(g, t, a) ==
    LET isLast == a = LowBlocks(g) - 1
        lastBits == IF isLast THEN 1 ELSE ChunkBits
    IN /\ t[<<"u0", a>>] < 2^ChunkBits /\ t[<<"u1", a>>] < 2^lastBits
       /\ t[<<"unext", a>>] = E(E(2^(ChunkBits + lastBits) * t[<<"u", a>>])
                                + 2^lastBits * t[<<"u0", a>>] + t[<<"u1", a>>])

LastHolds(g, t) ==
    LET cell(name) == t[<<name, 0>>]
        flag(k, inverse) == E((cell("scalar") - ShiftedConst(g, k)) * cell(inverse))
        sign == E(flag(-1, "t1") - flag(1, "t2"))
        regular == E(cell("m") * cell("t0"))
        end == Blocks(g) * (Steps + 1) - 1
    IN /\ Vanishes((regular - 1) * cell("m"))
       /\ Vanishes((flag(-1, "t1") - 1) * (cell("scalar") - ShiftedConst(g, -1)))
       /\ Vanishes((flag(1, "t2") - 1) * (cell("scalar") - ShiftedConst(g, 1)))
       /\ cell("x") = E(regular * t[<<"Px", end>>] + E(sign * sign) * cell("Tx2"))
       /\ cell("y") = E(regular * t[<<"Py", end>>] + sign * cell("Ty2"))
       /\ cell("m") = E(E((cell("scalar") - ShiftedConst(g, -1)) * (cell("scalar") - ShiftedConst(g, 0)))
                        * (cell("scalar") - ShiftedConst(g, 1)))
       /\ Vanishes(cell("e1") * (t[<<"unext", LowBlocks(g) - 1>>] - cell("aux")))
       /\ Vanishes(cell("e1") * (cell("e2") - 2^(g.bits - g.low - 1)))
       /\ cell("aux") = E(cell("b") - (IF Split THEN 0 ELSE cell("e1") * 2^(g.bits - 1))
                          - Excess(g) + 2^g.low)
       /\ Split => t[<<"next", Blocks(g) - 1>>] = E(cell("b") + cell("e1") * 2^(g.bits - 1))

VbsmCopies(g, f, t) ==
    LET last == Blocks(g) - 1 IN
    /\ <<t[<<"add", 0>>], t[<<"add", 1>>]>> = f.T /\ <<t[<<"add", 2>>], t[<<"add", 3>>]>> = f.T
    /\ t[<<"Px", 0>>] = t[<<"add", 4>>] /\ t[<<"Py", 0>>] = t[<<"add", 5>>]
    /\ \A b \in 1..last, name \in {"x", "y"} :
          LET P == IF name = "x" THEN "Px" ELSE "Py"
              T == IF name = "x" THEN "Tx" ELSE "Ty"
          IN t[<<T, b>>] = t[<<T, b - 1>>] /\ t[<<P, b * (Steps + 1)>>] = t[<<P, b * (Steps + 1) - 1>>]
    /\ t[<<"n", 0>>] = 0 /\ \A b \in 1..last : t[<<"n", b>>] = t[<<"next", b - 1>>]
    /\ t[<<"scalar", 0>>] = t[<<"next", last>>]
    /\ t[<<"Tx2", 0>>] = t[<<"Tx", last>>] /\ t[<<"Ty2", 0>>] = t[<<"Ty", last>>]
    /\ IF Split THEN t[<<"bit", 0>>] = f.high ELSE t[<<"next", last>>] = f.b
    /\ t[<<"u", 0>>] = 0 /\ \A a \in 1..(LowBlocks(g) - 1) : t[<<"u", a>>] = t[<<"unext", a - 1>>]
    /\ t[<<"e1", 0>>] = t[<<"bit", 0>>]
    /\ t[<<"e2", 0>>] = t[<<"next", (g.bits - g.low) \div Steps - 1>>]
    /\ t[<<"b", 0>>] = f.b

(* A scalar has one input; on vesta that is not the one for which the last *)
(* steps would meet zero, T or its negative.                               *)
VbsmHonest(g) ==
    LET meets(x) == (2 * x + 1 + 2^g.bits) % Order \in {0, 1, Order - 1}
                    /\ \A k \in -1..1 : x # ShiftedConst(g, k)
    IN {Given(g, T, DigitsOf(x, 2, g.bits), T, <<1, 1, 1>>) :
          T \in {Zero, Generator}, x \in {x \in 0..(Order - 1) : ~meets(x)}}

VbsmTried(g) ==
    LET all == [1..g.bits -> {0, 1}]
        few == {DigitsOf(ShiftedConst(g, k), 2, g.bits) : k \in -1..1} \cup {DigitsOf(2^k, 2, g.bits) : k \in 1..4}
    IN {Given(g, Generator, bits, Generator, <<1, 1, 1>>) : bits \in all}
       \cup {Given(g, Generator, bits, base, inverses) :
               bits \in few, base \in {Generator, Times(3, Generator)},
               inverses \in {<<1, 1, 1>>, <<0, 1, 1>>, <<1, 0, 1>>, <<1, 1, 0>>}}

VbsmHolds(g, f, t) ==
    /\ UnifiedHolds([i \in 1..11 |-> t[<<"add", i - 1>>]])
    /\ \A b \in 0..(Blocks(g) - 1) : BlockHolds(g, t, b)
    /\ \A a \in 0..(LowBlocks(g) - 1) : LowHolds(g, t, a)
    /\ LastHolds(g, t)
    /\ VbsmCopies(g, f, t)

(* No constraint says that the blocks' T is the input.                     *)
VbsmMeans(g, f, t) ==
    <<t[<<"Tx", 0>>], t[<<"Ty", 0>>]>> = f.T =>
        /\ Whole(g, f) < Order
        /\ <<t[<<"x", 0>>], t[<<"y", 0>>]>> = Times(ScalarOf(g, Whole(g, f)), f.T)
=============================================================================
