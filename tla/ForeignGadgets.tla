----------------------------- MODULE ForeignGadgets -----------------------------
(***************************************************************************)
(* Arithmetic of another field than the circuit's: range, addition,        *)
(* subtraction and multiplication of elements of Ed25519's base field, and *)
(* reduction modulo the order of its group                                 *)
(* (include/nil/blueprint/components/algebra/fields/plonk/non_native).     *)
(* An element is four limbs of a cell each, lowest first.  Here limbs have *)
(* 4 bits, the highest 2, and the field has 2^14 - 3 elements instead of   *)
(* 66, 57 and 2^255 - 19; the chunks a limb is written in have 2, 1 and 1  *)
(* bits instead of 22 each, those of the highest 1, 1 and 0 instead of 21, *)
(* 21 and 15.  The tables have nine columns.                               *)
(***************************************************************************)
EXTENDS FieldValues, SequencesExt, TLC

ForeignKinds == {"foreign_range", "foreign_add", "foreign_sub", "foreign_mul", "reduction", "scalar_range", "bool_scalar"}

LimbBits == 4
Limb == 2^LimbBits
ForeignBits == 3 * LimbBits + 2
Gap == 3
Foreign == 2^ForeignBits - Gap
Complement == 2^(ForeignBits + 2) - Foreign
Widths == <<2, 1, 1, 2, 1, 1, 2, 1, 1, 1, 1, 0>>

Chunks(x, widths) ==
    [i \in 1..Len(widths) |-> (x \div 2^SumOf(SubSeq(widths, 1, i - 1))) % 2^widths[i]]
Joined(c, widths) ==
    E(SumOf([i \in 1..Len(c) |-> c[i] * 2^SumOf(SubSeq(widths, 1, i - 1))]))
InChunks(c, widths) == \A i \in 1..Len(c) : c[i] < 2^widths[i]

(* chop_non_native; glue_non_native                                        *)
Limbs(x) == [i \in 1..4 |-> (x \div Limb^(i - 1)) % Limb]
Glued(l) == l[1] + l[2] * Limb + l[3] * Limb^2 + l[4] * Limb^3

-----------------------------------------------------------------------------
(* range: the chunks of all limbs, the inverse of what the chunks but the  *)
(* first lack, and whether the first is small enough.                      *)

WidthsOf(i) == SubSeq(Widths, 3 * i - 2, 3 * i)
LimbChunks(l) == Chunks(l[1], WidthsOf(1)) \o Chunks(l[2], WidthsOf(2))
                 \o Chunks(l[3], WidthsOf(3)) \o Chunks(l[4], WidthsOf(4))
Lack(c) == E(SumOf([i \in 1..11 |-> c[i + 1] - (2^Widths[i + 1] - 1)]))

RangeLines(l) ==
    LET c == LimbChunks(l) IN
    <<l \o SubSeq(c, 1, 4) \o <<Inverted(Lack(c))>>,
      SubSeq(c, 5, 12) \o <<IF c[1] > 2^Widths[1] - Gap - 1 THEN 0 ELSE 1>> >>

ChunkCells(t, r) == Cells(t, r, 4, 7) \o Cells(t, r + 1, 0, 7)

RangeGate(t, r, l) ==
    LET c == ChunkCells(t, r)
        lack == Lack(c)
        one == E(t[<<r, 8>>] * lack)
    IN /\ \A i \in 1..4 : t[<<r, i - 1>>] = Joined(SubSeq(c, 3 * i - 2, 3 * i), WidthsOf(i))
       /\ E(lack * (one - 1)) = 0
       /\ E(one + (1 - one) * t[<<r + 1, 8>>]) = 1
       /\ Cells(t, r, 0, 3) = l

(* Nothing in the component holds a chunk to its bits, and nothing the     *)
(* last cell to the first chunk: the limbs stand for less than a power of  *)
(* two if the chunks do, not for less than the modulus.                    *)
RangeAssumed(t, r) == InChunks(ChunkCells(t, r), Widths)

-----------------------------------------------------------------------------
(* addition and subtraction: f is a, b and r, whose limbs are cells, the   *)
(* quotient q and the carry of the lowest limbs.                           *)

CarryWidths(g) == <<2, 1, 1, IF g.kind = "foreign_add" THEN 1 ELSE 2>>

(* t of generate_assignments and of the gates.                             *)
SumLow(a, b, q) == a[1] + b[1] + (Complement % Limb) * q
DifferenceLow(a, b, q) == a[1] + (Foreign % Limb) - b[1] + (Complement % Limb) * q
Shifted(x, bits) == E(x) \div 2^bits

Computed(total, low(_, _, _), a, b) ==
    LET r == total % Foreign
        q == (total - r) \div Foreign
    IN [a |-> Limbs(a), b |-> Limbs(b), r |-> Limbs(r), q |-> q,
        carry |-> Shifted(low(Limbs(a), Limbs(b), q) - Limbs(r)[1], LimbBits)]
SumHonest(a, b) == Computed(a + b, SumLow, a, b)
DifferenceHonest(a, b) == Computed(a + Foreign - b, DifferenceLow, a, b)

SumTable(g, f) ==
    Grid(<< <<0, 0, 0>> \o Chunks(f.carry, CarryWidths(g)) \o <<f.carry>>,
            <<f.a[1], f.b[1], f.q>> \o Tail(f.a) \o Tail(f.b)>> \o RangeLines(f.r), 9)

(* The first and the fourth constraint, on what is in the cells.           *)
SumGate(v) ==
    /\ E(v.carry * Limb) = E(SumLow(v.a, v.b, v.q) - v.r[1])
    /\ E(Glued(v.a) + Glued(v.b)) = E(E(v.q * Foreign) + Glued(v.r))
DifferenceGate(v) ==
    /\ E(v.carry * Limb) = E(DifferenceLow(v.a, v.b, v.q) - v.r[1])
    /\ E(Glued(v.a) + Foreign - Glued(v.b)) = E(E(v.q * Foreign) + Glued(v.r))

SumHolds(g, f, t) ==
    LET v == [a |-> <<t[<<1, 0>>]>> \o Cells(t, 1, 3, 5), b |-> <<t[<<1, 1>>]>> \o Cells(t, 1, 6, 8),
              q |-> t[<<1, 2>>], r |-> Cells(t, 2, 0, 3), carry |-> t[<<0, 7>>]]
    IN /\ IF g.kind = "foreign_add" THEN SumGate(v) ELSE DifferenceGate(v)
       /\ E(v.q * (v.q - 1)) = 0
       /\ v.carry = Joined(Cells(t, 0, 3, 6), CarryWidths(g))
       /\ v.a = f.a /\ v.b = f.b
       /\ RangeGate(t, 2, v.r)

SumOrDifference(g, a, b) == IF g.kind = "foreign_add" THEN a + b ELSE a + Foreign - b
SumMeans(g, f, t) ==
    RangeAssumed(t, 2) /\ InChunks(Cells(t, 0, 3, 6), CarryWidths(g)) =>
        Glued(Cells(t, 2, 0, 3)) % Foreign = SumOrDifference(g, Glued(f.a), Glued(f.b)) % Foreign

(* A subtraction that borrows from a lowest limb of a few values only      *)
(* makes the carry negative, and the component fails its own gate.         *)
Subtracts(f) == f.q = 1 \/ f.a[1] + (Foreign % Limb) >= f.b[1]

-----------------------------------------------------------------------------
(* multiplication: a * b = q * p + r in the circuit's field, and modulo a  *)
(* power of two limb by limb, with two carries.                            *)

HighShift == ForeignBits + 2 - 2 * LimbBits
LowWidths == <<2, 1, 1, 2>>   \* 22, 22, 22 and 4 bits of the first carry
HighWidths == <<2, 1, 1, 2>>  \* 22, 22, 22 and 9 of the second one

Product(a, b, q, k) ==
    SumOf([i \in 1..k |-> a[i] * b[k + 1 - i] + Limbs(Complement)[i] * q[k + 1 - i]])
LowPart(f) ==
    Product(f.a, f.b, f.q, 1) - f.r[1] + (Product(f.a, f.b, f.q, 2) - f.r[2]) * Limb
HighPart(f, low) ==
    Product(f.a, f.b, f.q, 3) - f.r[3] + (Product(f.a, f.b, f.q, 4) - f.r[4]) * Limb + low

MulOf(a, b, q, r, quotient(_, _)) ==
    LET f == [a |-> Limbs(a), b |-> Limbs(b), q |-> Limbs(q), r |-> Limbs(r)]
        low == quotient(LowPart(f), 2 * LimbBits)
    IN f @@ [low |-> low, high |-> quotient(HighPart(f, low), HighShift)]
MulHonest(a, b) == MulOf(a, b, (a * b) \div Foreign, (a * b) % Foreign, Shifted)

MulTable(f) ==
    Grid(RangeLines(f.q) \o RangeLines(f.r) \o
         << f.a \o f.b \o <<f.q[1]>>, Tail(f.q) \o f.r \o <<f.low, f.high>>,
            Chunks(f.low, LowWidths) \o Chunks(f.high, HighWidths) >>, 9)

MulHolds(f, t) ==
    LET v == [a |-> Cells(t, 4, 0, 3), b |-> Cells(t, 4, 4, 7),
              q |-> <<t[<<4, 8>>]>> \o Cells(t, 5, 0, 2), r |-> Cells(t, 5, 3, 6)]
        low == t[<<5, 7>>]
        high == t[<<5, 8>>]
    IN /\ E(low * 2^(2 * LimbBits)) = E(LowPart(v))
       /\ E(high * 2^HighShift) = E(HighPart(v, low))
       /\ low = Joined(Cells(t, 6, 0, 3), LowWidths)
       /\ high = Joined(Cells(t, 6, 4, 7), HighWidths)
       /\ E(E(Glued(v.a)) * E(Glued(v.b))) = E(E(E(Glued(v.q)) * Foreign) + Glued(v.r))
       /\ v.a = f.a /\ v.b = f.b
       /\ RangeGate(t, 0, v.q) /\ RangeGate(t, 2, v.r)

MulMeans(f, t) ==
    /\ RangeAssumed(t, 0) /\ RangeAssumed(t, 2)
    /\ InChunks(Cells(t, 6, 0, 3), LowWidths) /\ InChunks(Cells(t, 6, 4, 7), HighWidths)
    => Glued(Cells(t, 5, 3, 6)) % Foreign = (Glued(f.a) * Glued(f.b)) % Foreign

-----------------------------------------------------------------------------
(* reduction: eight words modulo L.  Here words have 3 bits, not 64, and L *)
(* is 2^12 + 3 for 2^252 + 277423...; f is the words k, r, q and v.        *)

WordBits == 3
L == 4099
RWidths == [i \in 1..13 |-> 1]  \* 13 bits, then twelve times 20
QWidths == <<2, 1, 1, 1>>       \* 7, 20, 20 and 20 bits
VWidths == <<2, 2, 2, 2>>       \* 12, 22, 22 and the rest
LowBits == 4                    \* 73: the first four chunks of r
VShift == 3                     \* 69

Whole(k, power(_)) == SumOf([i \in 1..8 |-> k[i] * power(WordBits * (i - 1))])
Congruent(k) == Whole(k, LAMBDA n : 2^n % L)
(* c of generate_assignments, which leaves out the third word: its power   *)
(* has no low bits.                                                        *)
LowSum(k, q) ==
    Whole(k, LAMBDA n : (2^n % L) % 2^LowBits) + q * (2^LowBits - (L % 2^LowBits))

ReductionOf(k, q, r, v) == [k |-> k, q |-> q, r |-> r, v |-> v]
ReductionHonest(k) ==
    LET q == Congruent(k) \div L
        r == Congruent(k) % L
    IN ReductionOf(k, q, r, (LowSum(k, q) - (r % 2^LowBits)) \div 2^VShift)

ReductionTable(f) ==
    LET r == Reverse(Chunks(f.r, RWidths))
        lack == SumOf([i \in 1..12 |-> r[i] - (2^RWidths[14 - i] - 1)])
    IN Grid(<< SubSeq(r, 1, 9),
               SubSeq(r, 10, 13) \o <<f.r, Inverted(lack), 1>>,
               Reverse(Chunks(f.q, QWidths)) \o Reverse(Chunks(f.v, VWidths)),
               f.k \o <<f.v>> >>, 9)

RChunks(t) == Reverse(Cells(t, 0, 0, 8) \o Cells(t, 1, 0, 3))
ReductionHolds(f, t) ==
    LET c == RChunks(t)
        lack == E(SumOf([i \in 1..12 |-> c[i + 1] - (2^RWidths[i + 1] - 1)]))
        one == E(lack * t[<<1, 5>>])
        k == Cells(t, 3, 0, 7)
        q == Joined(Reverse(Cells(t, 2, 0, 3)), QWidths)
    IN /\ t[<<1, 4>>] = Joined(c, RWidths)
       /\ E(lack * (one - 1)) = 0
       /\ E(one + (1 - one) * t[<<1, 6>>]) = 1
       /\ E(Congruent(k) - t[<<1, 4>>] - E(q * L)) = 0
       /\ E(LowSum(k, q) - Joined(SubSeq(c, 1, 4), RWidths) - t[<<3, 8>>] * 2^VShift) = 0
       /\ t[<<3, 8>>] = Joined(Reverse(Cells(t, 2, 4, 7)), VWidths)
       /\ k = f.k

(* The output is congruent to the words, and fits r's chunks, if those and *)
(* the others do: it may be L or more.                                     *)
ReductionMeans(f, t) ==
    /\ InChunks(RChunks(t), RWidths) /\ InChunks(Reverse(Cells(t, 2, 0, 3)), QWidths)
    /\ InChunks(Reverse(Cells(t, 2, 4, 7)), VWidths)
    => t[<<1, 4>>] % L = Whole(f.k, LAMBDA n : 2^n) % L

-----------------------------------------------------------------------------
(* scalar_non_native_range: a scalar k and k + d, whose twelve chunks have *)
(* a bit each, not 22; the order of the group is 1031.  Nothing holds a    *)
(* chunk to its bits, and nothing k + d to one bit less than the chunks.   *)

ScalarOrder == 1031
ScalarGap == 2^11 - ScalarOrder
ScalarWidths == [i \in 1..12 |-> 1]
ScalarTable(k) ==
    LET c == Chunks(k, ScalarWidths)
        e == Chunks(k + ScalarGap, ScalarWidths)
    IN Grid(<< <<k>> \o SubSeq(c, 1, 8), SubSeq(c, 9, 12) \o <<k + ScalarGap>> \o SubSeq(e, 1, 4),
               SubSeq(e, 5, 12) >>, 9)
KChunks(t) == Cells(t, 0, 1, 8) \o Cells(t, 1, 0, 3)
DKChunks(t) == Cells(t, 1, 5, 8) \o Cells(t, 2, 0, 7)
ScalarHolds(f, t) ==
    /\ t[<<0, 0>>] = Joined(KChunks(t), ScalarWidths)
    /\ t[<<1, 4>>] = E(t[<<0, 0>>] + ScalarGap)
    /\ t[<<1, 4>>] = Joined(DKChunks(t), ScalarWidths)
    /\ t[<<0, 0>>] = f.k
ScalarMeans(f, t) ==
    InChunks(KChunks(t), ScalarWidths) /\ InChunks(DKChunks(t), ScalarWidths) =>
        KChunks(t) = Chunks(f.k, ScalarWidths) /\ f.k + ScalarGap < 2^12

(* bool_scalar_multiplication: a point, or (0, 1), limb by limb.           *)
BoolTable(f) ==
    Grid(<< f.y \o <<f.b, E(f.b * f.y[1] + 1 - f.b)>> \o [i \in 1..3 |-> E(f.b * f.y[i + 1])],
            f.x \o <<f.b>> \o [i \in 1..4 |-> E(f.b * f.x[i])] >>, 9)
BoolGate(t) ==
    LET b == t[<<0, 4>>] IN
    /\ E(b * (b - 1)) = 0 /\ b = t[<<1, 4>>]
    /\ t[<<0, 5>>] = E(t[<<0, 0>>] * b + 1 - b)
    /\ \A i \in 1..3 : t[<<0, 5 + i>>] = E(t[<<0, i>>] * b)
    /\ \A i \in 0..3 : t[<<1, 5 + i>>] = E(t[<<1, i>>] * t[<<1, 4>>])
BoolHolds(f, t) ==
    /\ BoolGate(t)
    /\ Cells(t, 0, 0, 3) = f.y /\ Cells(t, 1, 0, 3) = f.x /\ t[<<0, 4>>] = f.b /\ t[<<1, 4>>] = f.b
BoolMeans(f, t) ==
    /\ f.b \in {0, 1}
    /\ Cells(t, 1, 5, 8) = IF f.b = 1 THEN f.x ELSE Limbs(0)
    /\ Cells(t, 0, 5, 8) = IF f.b = 1 THEN f.y ELSE Limbs(1)

-----------------------------------------------------------------------------

Elements == {0, 1, 2, 15, 16, 255, 4095, 4096, 12301, Foreign - 2, Foreign - 1}
Divided(x, bits) == E(E(x) * Inverted(2^bits))

ForeignHonest(g) ==
    CASE g.kind = "foreign_range" -> [l : {Limbs(x) : x \in Elements}]
      [] g.kind = "foreign_add" -> {SumHonest(a, b) : a \in Elements, b \in Elements}
      [] g.kind = "foreign_sub" ->
            {f \in {DifferenceHonest(a, b) : a \in Elements, b \in Elements} : Subtracts(f)}
      [] g.kind = "foreign_mul" -> {MulHonest(a, b) : a \in Elements, b \in Elements}
      [] g.kind = "reduction" -> {ReductionHonest([i \in 1..8 |-> IF i \in S THEN 7 ELSE 0]) : S \in SUBSET {1, 2, 4, 6, 8}}
      [] g.kind = "scalar_range" -> [k : {0, 1, 13, 514, 1024, ScalarOrder - 1}]
      [] g.kind = "bool_scalar" -> [x : {Limbs(a) : a \in Elements}, y : {Limbs(1), Limbs(12301)}, b : {0, 1}]

(* Elements that are not reduced, other quotients and other results, with  *)
(* the carries that make up for them, or none.                             *)
SumTried(g) ==
    LET values == Elements \cup {Foreign, 2^ForeignBits - 1}
        fits(x) == x < 2^ForeignBits
        results(a, b, q) ==
            {E(SumOrDifference(g, a, b) - q * Foreign), SumOrDifference(g, a, b) % Foreign}
        of(a, b, q, r) ==
            {[a |-> Limbs(a), b |-> Limbs(b), q |-> q, r |-> Limbs(r), carry |-> carry] : carry \in
                {0, Divided((IF g.kind = "foreign_add" THEN SumLow(Limbs(a), Limbs(b), q)
                             ELSE DifferenceLow(Limbs(a), Limbs(b), q)) - Limbs(r)[1], LimbBits)}}
    IN UNION {UNION {of(a, b, q, r) : r \in {x \in results(a, b, q) : fits(x)}} :
                 a \in values, b \in values, q \in {0, 1, 2}}
NoCarry(x, bits) == 0
(* Four moduli and four times the gap are the power of two of the limbs,   *)
(* two moduli are more than the circuit's by a little.                     *)
MulTried ==
    LET near(a, b) ==
            LET q == (a * b) \div Foreign
                r == (a * b) % Foreign
            IN {<<q, r>>, <<q + 4, r + 4 * Gap>>, <<q + 2, r - (2 * Foreign - Prime)>>, <<q - 1, r + Foreign>>}
        native(a, b) ==
            {<<E((E(a * b) - r) * Inverted(Foreign)), r>> :
                r \in {(a * b + 1) % Foreign, Foreign, Foreign + 1}}
        fits(qr) == qr[1] >= 0 /\ qr[2] \in 0..(2^ForeignBits - 1)
    IN UNION {UNION {{MulOf(a, b, qr[1], qr[2], Divided), MulOf(a, b, qr[1], qr[2], NoCarry)} :
                        qr \in {x \in near(a, b) \cup native(a, b) : fits(x)}} :
                 a \in Elements \cup {Foreign + 2}, b \in Elements}
ReductionTried ==
    LET of(k, q, r) ==
            {ReductionOf(k, q, r, v) : v \in
                {0, Divided(LowSum(k, q) - (r % 2^LowBits), VShift)}}
        results(k) == LET r == Congruent(k) % L IN {r, r + L, 0, 8, 8191}
    IN UNION {UNION {of(k, E((Congruent(k) - r) * Inverted(L)), r)
                        \cup of(k, Congruent(k) \div L, r) : r \in results(k)} :
                 k \in {[i \in 1..8 |-> IF i \in S THEN 6 ELSE 0] : S \in SUBSET {1, 2, 4, 6, 8}}}

ForeignTried(g) ==
    CASE g.kind = "foreign_range" ->
            [l : {Limbs(x) : x \in Elements \cup {Foreign, 2^ForeignBits - 1}} \cup {<<16, 0, 0, 0>>}]
      [] g.kind \in {"foreign_add", "foreign_sub"} -> SumTried(g)
      [] g.kind = "foreign_mul" -> MulTried
      [] g.kind = "reduction" -> ReductionTried
      [] g.kind = "scalar_range" -> [k : {ScalarOrder, 2047, 3078, 3079, Prime - 1}]
      [] g.kind = "bool_scalar" -> [x : {Limbs(255)}, y : {Limbs(12301)}, b : {0, 1, 2, Prime - 1}]

ForeignTable(g, f) ==
    CASE g.kind = "foreign_range" -> Grid(RangeLines(f.l), 9)
      [] g.kind \in {"foreign_add", "foreign_sub"} -> SumTable(g, f)
      [] g.kind = "foreign_mul" -> MulTable(f)
      [] g.kind = "reduction" -> ReductionTable(f)
      [] g.kind = "scalar_range" -> ScalarTable(f.k)
      [] g.kind = "bool_scalar" -> BoolTable(f)
ForeignHolds(g, f, t) ==
    CASE g.kind = "foreign_range" -> RangeGate(t, 0, f.l)
      [] g.kind \in {"foreign_add", "foreign_sub"} -> SumHolds(g, f, t)
      [] g.kind = "foreign_mul" -> MulHolds(f, t)
      [] g.kind = "reduction" -> ReductionHolds(f, t)
      [] g.kind = "scalar_range" -> ScalarHolds(f, t)
      [] g.kind = "bool_scalar" -> BoolHolds(f, t)
ForeignMeans(g, f, t) ==
    CASE g.kind = "foreign_range" -> RangeAssumed(t, 0) => Glued(f.l) < 2^ForeignBits
      [] g.kind \in {"foreign_add", "foreign_sub"} -> SumMeans(g, f, t)
      [] g.kind = "foreign_mul" -> MulMeans(f, t)
      [] g.kind = "reduction" -> ReductionMeans(f, t)
      [] g.kind = "scalar_range" -> ScalarMeans(f, t)
      [] g.kind = "bool_scalar" -> BoolMeans(f, t)
=============================================================================
