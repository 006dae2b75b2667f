------------------------------ MODULE FieldGadgets ------------------------------
(***************************************************************************)
(* Components that lay a few field elements out next to each other and     *)
(* relate them by one gate: flags, division and interpolation              *)
(* (include/nil/blueprint/components/algebra/fields/plonk), the swap of    *)
(* two elements and FRI's interpolation (systems/snark/plonk).  A row is   *)
(* the cells in the order of the columns, over all the rows for the flags  *)
(* that are given fewer columns than they have values.                     *)
(***************************************************************************)
EXTENDS FieldValues

(* The cells of a row; w[1] is W(0).                                       *)
Vanishes(x) == E(x) = 0
IsBit(x) == Vanishes(x * (x - 1))

(* The inputs are copied to the first cells.                               *)
Copied(in, w) == \A i \in DOMAIN in : w[i] = in[i]

-----------------------------------------------------------------------------
(* equality_flag: x, y, the inverse of their difference or zero, and the   *)
(* flag, which an inequality flag negates.                                 *)

FlagRow(inequality, x, y) ==
    LET equal == IF inequality THEN 0 ELSE 1 IN
    <<x, y, Inverted(x - y), IF x = y THEN equal ELSE 1 - equal>>

FlagHolds(inequality, w) ==
    /\ IsBit(w[4])
    /\ Vanishes((w[1] - w[2]) * w[3] + (IF inequality THEN -w[4] ELSE w[4] - 1))
    /\ Vanishes((w[3] - (w[1] - w[2])) * (IF inequality THEN w[4] - 1 ELSE w[4]))
FlagCircuit(inequality, in, w) == FlagHolds(inequality, w) /\ Copied(in, w)

FlagMeans(inequality, w) == (w[4] = 1) <=> ((w[1] = w[2]) # inequality)

-----------------------------------------------------------------------------
(* division: x, y, the quotient and y's inverse; y is not zero.            *)

DivisionRow(x, y) == <<x, y, E(x * Inverted(y)), Inverted(y)>>
DivisionHolds(w) == Vanishes(w[2] * w[3] - w[1]) /\ Vanishes(w[2] * w[4] - 1)
DivisionCircuit(in, w) == DivisionHolds(w) /\ Copied(in, w)

(* division_or_zero: also y times its inverse.                             *)
DivisionOrZeroRow(x, y) ==
    <<x, y, E(x * Inverted(y)), Inverted(y), E(y * Inverted(y))>>

DivisionOrZeroHolds(w) ==
    /\ Vanishes(w[2] * w[4] - w[5])
    /\ IsBit(w[5])
    /\ Vanishes((w[4] - w[2]) * (w[5] - 1))
    /\ Vanishes(w[1] * w[4] - w[3])
DivisionOrZeroCircuit(in, w) == DivisionOrZeroHolds(w) /\ Copied(in, w)

QuotientMeans(orZero, w) ==
    IF w[2] = 0 THEN orZero /\ w[3] = 0 ELSE E(w[3] * w[2]) = w[1]

-----------------------------------------------------------------------------
(* logic_and_flag and logic_or_flag: the values fill the rows one after    *)
(* the other, and the flag is in the last cell whatever the width.         *)

FlagRows(kind, width) ==
    IF kind = "and" THEN IF width = 2 THEN 3 ELSE IF width < 5 THEN 2 ELSE 1
    ELSE IF width <= 4 THEN 6 - width ELSE IF width < 7 THEN 2 ELSE 1

AndValues(x, y) ==
    LET p == E(x * y) IN <<x, y, p, Inverted(p), E(p * Inverted(p))>>

OrValues(x, y) ==
    LET fx == E(x * Inverted(x))
        fy == E(y * Inverted(y))
    IN <<x, y, Inverted(x), Inverted(y), fx, fy, E(fx + fy - fx * fy)>>

(* generate_assignments: the flag is written again at the end; cells the   *)
(* values do not reach are left alone by "and", while "or" starts over.    *)
LaidOutInOrder(kind, width, values) ==
    [i \in 1..(width * FlagRows(kind, width)) |-> values[((i - 1) % Len(values)) + 1]]
LaidOut(kind, width, values) ==
    LET cells == width * FlagRows(kind, width) IN
    [i \in 1..cells |->
        IF i = cells THEN values[Len(values)]
        ELSE IF kind = "and" THEN IF i <= Len(values) THEN values[i] ELSE 0
        ELSE values[((i - 1) % 7) + 1]]

AndHolds(w) ==
    LET flag == w[Len(w)] IN
    /\ Vanishes(w[3] - w[1] * w[2])
    /\ IsBit(flag)
    /\ Vanishes(flag - w[3] * w[4])
    /\ Vanishes((w[4] - w[3]) * (flag - 1))
AndCircuit(in, w) == AndHolds(w) /\ Copied(in, w)

OrHolds(w) ==
    /\ Vanishes(w[5] - w[1] * w[3]) /\ Vanishes(w[6] - w[2] * w[4])
    /\ IsBit(w[5]) /\ IsBit(w[6])
    /\ Vanishes((w[3] - w[1]) * (w[5] - 1)) /\ Vanishes((w[4] - w[2]) * (w[6] - 1))
    /\ Vanishes(w[Len(w)] - w[5] - w[6] + w[5] * w[6])
OrCircuit(in, w) == OrHolds(w) /\ Copied(in, w)

LogicMeans(kind, w) ==
    LET set(x) == x # 0 IN
    w[Len(w)] = IF (IF kind = "and" THEN set(w[1]) /\ set(w[2]) ELSE set(w[1]) \/ set(w[2]))
                THEN 1 ELSE 0

-----------------------------------------------------------------------------
(* linear_interpolation: x0, z0, x1, z1, the coefficients, lowest first,   *)
(* and the inverse of x1 - x0.                                             *)

LinearRow(x0, z0, x1, z1) ==
    LET i == Inverted(x1 - x0) IN
    <<x0, z0, x1, z1, E((x1 * z0 - x0 * z1) * i), E((z1 - z0) * i), i>>

LinearHolds(w) ==
    /\ Vanishes(w[6] * w[1] + w[5] - w[2]) /\ Vanishes(w[6] * w[3] + w[5] - w[4])
    /\ Vanishes((w[3] - w[1]) * w[7] - 1)
LinearCircuit(in, w) == LinearHolds(w) /\ Copied(in, w)

(* quadratic_interpolation: three points, three coefficients by Cramer's   *)
(* rule and the inverse of the determinant.                                *)
Det(a, b, c) ==
    a[1] * (b[2] * c[3] - b[3] * c[2]) - a[2] * (b[1] * c[3] - b[3] * c[1])
    + a[3] * (b[1] * c[2] - b[2] * c[1])

QuadraticRow(x, z) ==
    LET i == Inverted((x[2] - x[1]) * (x[3] - x[1]) * (x[3] - x[2]))
        s(k) == x[k] * x[k]
    IN <<x[1], z[1], x[2], z[2], x[3], z[3],
         E(Det(<<z[1], x[1], s(1)>>, <<z[2], x[2], s(2)>>, <<z[3], x[3], s(3)>>) * i),
         E(Det(<<1, z[1], s(1)>>, <<1, z[2], s(2)>>, <<1, z[3], s(3)>>) * i),
         E(Det(<<1, x[1], z[1]>>, <<1, x[2], z[2]>>, <<1, x[3], z[3]>>) * i), i>>

QuadraticHolds(w) ==
    /\ Vanishes((w[3] - w[1]) * (w[5] - w[1]) * (w[5] - w[3]) * w[10] - 1)
    /\ \A k \in {1, 3, 5} :
          Vanishes(w[9] * w[k] * w[k] + w[8] * w[k] + w[7] - w[k + 1])
QuadraticCircuit(in, w) == QuadraticHolds(w) /\ Copied(in, w)

(* The points are distinct, and the polynomial goes through each of them   *)
(* and is the only one of its degree that does.                            *)
InterpolationMeans(points, w) ==
    LET xs == {w[2 * i - 1] : i \in 1..points}
        through(a) == \A i \in 1..points :
                          E(Horner(w[2 * i - 1], a)) = w[2 * i]
        degrees == [1..points -> 0..(Prime - 1)]
    IN /\ Cardinality(xs) = points
       /\ {a \in degrees : through(a)} = {[i \in 1..points |-> w[3 * points + 1 - i]]}

-----------------------------------------------------------------------------
(* flexible_swap: b, c, d and the two outputs, which are c and d unless b. *)

SwapRow(b, c, d) ==
    <<b, c, d, IF b = 0 THEN c ELSE d, IF b = 0 THEN d ELSE c>>

SwapHolds(w) ==
    /\ IsBit(w[1])
    /\ Vanishes(w[4] - ((1 - w[1]) * w[2] + w[1] * w[3]))
    /\ Vanishes(w[5] - ((1 - w[1]) * w[3] + w[1] * w[2]))
SwapCircuit(in, w) == SwapHolds(w) /\ Copied(in, w)

SwapMeans(w) ==
    (w[1] = 0 /\ w[4] = w[2] /\ w[5] = w[3]) \/ (w[1] = 1 /\ w[4] = w[3] /\ w[5] = w[2])

-----------------------------------------------------------------------------
(* fri_lin_inter: y0 and y1 at s and -s, alpha, and the value at alpha of  *)
(* the line through them.                                                  *)

LineRow(y0, y1, s, alpha) ==
    <<y0, y1, s, alpha, E(y0 + (y1 - y0) * (s - alpha) * Inverted(2 * s))>>

LineHolds(w) == Vanishes(2 * w[3] * (w[5] - w[1]) - (w[2] - w[1]) * (w[3] - w[4]))
LineCircuit(in, w) == LineHolds(w) /\ Copied(in, w)

LineMeans(w) ==
    w[3] # 0 => \E a, b \in 0..(Prime - 1) :
        /\ E(a * w[3] + b) = w[1] /\ E(b - a * w[3]) = w[2]
        /\ E(a * w[4] + b) = w[5]
=============================================================================
