---------------------------- MODULE PlaceholderGadgets ----------------------------
(***************************************************************************)
(* The parts of Placeholder's verifier that fill rows of their own         *)
(* (include/nil/blueprint/components/systems/snark/plonk/placeholder):     *)
(* gate_component and f3_loop, which lay out a sum over the columns and    *)
(* make a gate for every place its steps can be in, as f1_loop does, and   *)
(* the permutation argument.  In a claim the step f.at is off by f.off, and*)
(* the ones after it go on from there.                                     *)
(***************************************************************************)
EXTENDS FieldValues

Off(f, i) == IF i = f.at THEN f.off ELSE 0

(* The cell that is some cells before a column, where a row's cells begin  *)
(* at column first.                                                        *)
CellBefore(first, width, r, column, cells) ==
    IF column - first >= cells THEN <<r, column - cells>>
    ELSE <<r - 1, width - first + column - cells>>

-----------------------------------------------------------------------------
(* gate_component: f is theta, the coefficients, lowest first, and q; a    *)
(* coefficient and the sum so far alternate over the columns but the first.*)

LastGate(g) == ((2 * g.d - 1) % (g.width - 1)) + 1
ExtraRow(g) == LastGate(g) >= g.width - 3
SumRows(g) == Ceil(2 * g.d, g.width - 1)
GateRows(g) == SumRows(g) + (IF ExtraRow(g) THEN 1 ELSE 0)
ConstantColumn(g) == IF ExtraRow(g) THEN 0 ELSE LastGate(g) + 1
GateOutput(g) == <<GateRows(g) - 1, g.width - 1>>

GateTable(g, f) ==
    LET sum[i \in 0..g.d] ==
            IF i = 0 THEN 0 ELSE E(f.theta * (sum[i - 1] + f.c[g.d + 2 - i]) + Off(f, i))
    IN [p \in Positions(GateRows(g), g.width) |->
          LET i == p[1] * (g.width - 1) + p[2] - 1 IN
          IF p = GateOutput(g) THEN E(f.q * (sum[g.d] + f.c[1]) + Off(f, g.d + 1))
          ELSE IF p = <<GateRows(g) - 1, ConstantColumn(g)>> THEN f.c[1]
          ELSE IF p = <<GateRows(g) - 1, ConstantColumn(g) + 1>> THEN f.q
          ELSE IF p[2] = 0 THEN f.theta
          ELSE IF i >= 2 * g.d THEN 0
          ELSE IF i % 2 = 0 THEN f.c[g.d + 1 - i \div 2] ELSE sum[(i + 1) \div 2]]

(* generate_gates, numbered from zero.                                     *)
GateComponentGate(g, t, gate, r) ==
    LET before(column, cells) == t[CellBefore(1, g.width, r, column, cells)]
        last == t[<<r, g.width - 1>>]
        k == gate - g.width - 1
    IN IF gate = 0 THEN t[<<r, 2>>] = E(t[<<r, 1>>] * t[<<r, 0>>])
       ELSE IF gate < g.width
       THEN t[<<r, gate>>] = E(t[<<r, 0>>] * (before(gate, 1) + before(gate, 2)))
       ELSE IF gate < g.width + 3
       THEN last = E(t[<<r, 1>>] * (t[<<r, 0>>] + t[<<r - 1, gate - 3>>]))
       ELSE last = E(t[<<r, k>>] * (t[<<r, k - 1>>] + t[<<r, k - 2>>]))

GateSelectors(g) ==
    LET first(r) == IF r = 0 THEN 4 ELSE 2 - ((g.width - 1) % 2) * (r % 2)
        last(r) == IF r = SumRows(g) - 1 THEN LastGate(g) ELSE g.width - 1
        steps(r) == {i \in first(r)..last(r) : (i - first(r)) % 2 = 0}
    IN {<<0, 0>>, <<LastGate(g) + 3 + (IF ExtraRow(g) THEN 0 ELSE g.width), GateRows(g) - 1>>}
       \cup UNION {{<<i, r>> : i \in steps(r)} : r \in 0..(SumRows(g) - 1)}

GateComponentHolds(g, f, t) ==
    /\ \A s \in GateSelectors(g) : GateComponentGate(g, t, s[1], s[2])
    /\ \A r \in 0..(SumRows(g) - 1) : t[<<r, 0>>] = f.theta
    /\ \A i \in 0..(g.d - 1) :
          t[<<(2 * i) \div (g.width - 1), ((2 * i) % (g.width - 1)) + 1>>] = f.c[g.d + 1 - i]
    /\ t[<<GateRows(g) - 1, ConstantColumn(g)>>] = f.c[1]
    /\ t[<<GateRows(g) - 1, ConstantColumn(g) + 1>>] = f.q

GateComponentMeans(g, f, t) ==
    t[GateOutput(g)] = E(f.q * Horner(f.theta, [i \in 1..(g.d + 1) |-> f.c[g.d + 2 - i]]))

-----------------------------------------------------------------------------
(* f3_loop: the sum of (s - t) * alpha; alpha, s, t and the sum so far over *)
(* all columns.  f.above is the last cell of the row before the component. *)

F3Rows(g) == Ceil(4 * g.m, g.width)
F3LastColumn(g) == LET j == (4 * g.m) % g.width IN IF j = 0 THEN g.width ELSE j

F3Table(g, f) ==
    LET sum[i \in 0..g.m] ==
            IF i = 0 THEN 0 ELSE E(sum[i - 1] + (f.s[i] - f.t[i]) * f.alphas[i] + Off(f, i))
    IN [p \in Positions(F3Rows(g), g.width) |->
          LET n == p[1] * g.width + p[2]
              i == n \div 4 + 1
          IN IF i > g.m THEN 0
             ELSE CASE n % 4 = 0 -> f.alphas[i] [] n % 4 = 1 -> f.s[i]
                    [] n % 4 = 2 -> f.t[i] [] n % 4 = 3 -> sum[i]]

(* The column of a gate's sum.  For a width that is a multiple of four the *)
(* gate for the row's first sum is added again in place of the others.     *)
F3Column(g, gate) ==
    CASE g.width % 4 = 0 -> 3
      [] g.width % 4 = 2 -> 2 * gate - 1
      [] OTHER -> gate - 1

F3Gate(g, f, t, gate, r) ==
    LET cell(p) == IF p[1] < 0 THEN f.above ELSE t[p]
        c == F3Column(g, gate)
        before(cells) == cell(CellBefore(0, g.width, r, c, cells))
    IN IF gate = 0 THEN t[<<r, 3>>] = E((t[<<r, 1>>] - t[<<r, 2>>]) * t[<<r, 0>>])
       ELSE t[<<r, c>>] = E(before(4) + (before(2) - before(1)) * before(3))

(* On a last row that is also the first one the gate that reads the row    *)
(* before is not left out.                                                 *)
F3Selectors(g) ==
    LET x == g.width % 4
        first(r) == CASE x = 0 -> 3 [] x = 2 -> 3 - 2 * (r % 2)
                      [] OTHER -> IF r % 4 = 0 THEN 3 ELSE (3 - x) + (x - 2) * ((r % 4) - 1)
        end(r) == IF r = F3Rows(g) - 1 THEN F3LastColumn(g) ELSE g.width
        columns(r) == {j \in first(r)..(end(r) - 1) :
                         (j - first(r)) % 4 = 0 /\ ~(r = 0 /\ j = 3 /\ F3Rows(g) > 1)}
        gate(j) == CASE x = 0 -> j \div 4 + 1 [] x = 2 -> j \div 2 + 1 [] OTHER -> j + 1
    IN {<<0, 0>>} \cup UNION {{<<gate(j), r>> : j \in columns(r)} : r \in 0..(F3Rows(g) - 1)}

F3Holds(g, f, t) ==
    /\ \A s \in F3Selectors(g) : F3Gate(g, f, t, s[1], s[2])
    /\ \A n \in 0..(4 * g.m - 1) :
          LET cell == t[<<n \div g.width, n % g.width>>]
              i == n \div 4 + 1
          IN /\ n % 4 = 0 => cell = f.alphas[i]
             /\ n % 4 = 1 => cell = f.s[i]
             /\ n % 4 = 2 => cell = f.t[i]

(* With eight or twelve columns only the sum in column 3 is checked.       *)
F3Means(g, f, t) ==
    LET sum[i \in 0..g.m] == IF i = 0 THEN 0 ELSE E(sum[i - 1] + (f.s[i] - f.t[i]) * f.alphas[i])
    IN g.width \notin {8, 12} \/ g.m = 1 => t[<<F3Rows(g) - 1, F3LastColumn(g) - 1>>] = sum[g.m]

-----------------------------------------------------------------------------
(* permutation_verifier, over six columns: one row for each f, with the    *)
(* product for the identity in the first column and the permutation's in   *)
(* the last; the thetas alternate.  It takes two of them at least: the     *)
(* first gate reads two.                                                   *)

ProductTo(f, i, s) ==
    LET p[n \in 0..i] == IF n = 0 THEN 1
                         ELSE E(p[n - 1] * E(f.f[n] + f.thetas[1] * s[n] + f.thetas[2]) + Off(f, n))
    IN p[i]

PermutationTable(g, f) ==
    LET usable == 1 - (f.qLast + f.qPad)
        row(i) == <<ProductTo(f, i, f.se), f.f[i], f.se[i], f.thetas[2 - (i % 2)], f.ssigma[i],
                    ProductTo(f, i, f.ssigma)>>
        square == E(f.V * f.V)
    IN Grid([i \in 1..g.m |-> row(i)]
            \o << <<E(f.L0 * (1 - f.V)), f.qLast, f.qPad, f.L0,
                    E(E(usable) * E(f.VZeta * ProductTo(f, g.m, f.ssigma) - f.V * ProductTo(f, g.m, f.se)))>>,
                  <<E(f.qLast * (square - f.V)), f.V, square, f.VZeta>> >>, 6)

(* Both products go on to row r, with the thetas of rows a and b.          *)
GoesOn(t, r, a, b) ==
    \A side \in {<<0, 2>>, <<5, 4>>} :
        t[<<r, side[1]>>] = E((IF r = 0 THEN 1 ELSE t[<<r - 1, side[1]>>])
                              * E(t[<<r, 1>>] + t[<<r, side[2]>>] * t[<<a, 3>>] + t[<<b, 3>>]))

ArgumentHolds(t, r) ==
    /\ t[<<r, 0>>] = E(t[<<r, 3>>] * (1 - t[<<r + 1, 1>>]))
    /\ t[<<r, 4>>] = E(E(1 - t[<<r, 1>>] - t[<<r, 2>>])
                       * E(t[<<r + 1, 3>>] * t[<<r - 1, 5>>] - t[<<r + 1, 1>>] * t[<<r - 1, 0>>]))
    /\ t[<<r + 1, 2>>] = E(t[<<r + 1, 1>>] * t[<<r + 1, 1>>])
    /\ t[<<r + 1, 0>>] = E(t[<<r, 1>>] * (t[<<r + 1, 2>>] - t[<<r + 1, 1>>]))

PermutationHolds(g, f, t) ==
    /\ GoesOn(t, 0, 0, 1) /\ GoesOn(t, 1, 0, 1)
    /\ \A r \in 2..(g.m - 1 - (g.m % 2)) :
          r % 2 = 0 => GoesOn(t, r, r, r + 1) /\ GoesOn(t, r + 1, r, r + 1)
    /\ g.m % 2 = 1 => GoesOn(t, g.m - 1, g.m - 1, g.m - 2)
    /\ ArgumentHolds(t, g.m)
    /\ \A i \in 1..g.m :
          Cells(t, i - 1, 1, 4) = <<f.f[i], f.se[i], f.thetas[2 - (i % 2)], f.ssigma[i]>>
    /\ Cells(t, g.m, 1, 3) = <<f.qLast, f.qPad, f.L0>>
    /\ t[<<g.m + 1, 1>>] = f.V /\ t[<<g.m + 1, 3>>] = f.VZeta

PermutationMeans(g, f, t) ==
    LET product(s) == ProductTo([f EXCEPT !.off = 0], g.m, s) IN
    /\ t[<<g.m, 0>>] = E(f.L0 * (1 - f.V))
    /\ t[<<g.m, 4>>] = E(E(1 - f.qLast - f.qPad) * E(f.VZeta * product(f.ssigma) - f.V * product(f.se)))
    /\ t[<<g.m + 1, 0>>] = E(E(f.qLast * f.V) * (f.V - 1))

-----------------------------------------------------------------------------
(* fri_cosets: the cosets a challenge x stands for, from its bits, which    *)
(* are compared to those of Prime - 1: nine cells for each of the n lowest, *)
(* then three for each of the others after what is left.  A prover takes    *)
(* apart f.d and f.last, which are x and Prime - 1 if it is honest, and may  *)
(* forge the signs of the first part.                                       *)

FieldBits == CHOOSE n \in 1..31 : 2^(n - 1) <= Prime /\ Prime < 2^n
NineBlocks(g) == g.width \div 9
RowBits(g) == g.width \div 3 - 1
TurnRow(g) == (9 * g.n) \div g.width
TurnColumn(g) == (9 * g.n) % g.width
TurnBits(g) == IF TurnColumn(g) = 0 THEN 0 ELSE (g.width - TurnColumn(g)) \div 3 - 1
RemainingBits(g) == FieldBits - g.n - TurnBits(g)
CosetRows(g) == Ceil(9 * g.n, g.width) + Ceil(RemainingBits(g), RowBits(g)) + 1

(* Where the row of bits begins, and the bits before it.                   *)
FirstTriple(g, r) == IF r = TurnRow(g) THEN TurnColumn(g) ELSE 0
BitsBefore(g, r) ==
    g.n + (IF r = TurnRow(g) THEN 0
           ELSE (g.width - TurnColumn(g)) \div 3 - 1 + (r - TurnRow(g) - 1) * RowBits(g))

SignOf(a, b) == CASE a < b -> 1 [] a = b -> 0 [] a > b -> Prime - 1
Bit(n, i) == (n \div 2^i) % 2

(* Cell k of a block for bit b, and of a bit that is not among the lowest.  *)
NineCell(g, f, b, k) ==
    LET omega(n) == Raise(g.omega, n)
        s == omega((f.d % 2^g.n) * 2^(g.n - 1 - b))
    IN <<E(f.d \div 2^b), E(f.last \div 2^b),
         IF f.forged THEN 1 ELSE SignOf(f.d \div 2^b, f.last \div 2^b),
         omega(2^b), omega(f.d % 2^(b + 1)), s, E(-s), Bit(f.d, b), Bit(f.last, b)>>[k + 1]
TripleCell(f, b, k) ==
    <<Bit(f.d, b), Bit(f.last, b), SignOf(f.d \div 2^b, f.last \div 2^b)>>[k + 1]
HeadCell(f, b, k, forged) ==
    <<E(f.d \div 2^b), E(f.last \div 2^b), IF forged THEN 1 ELSE SignOf(f.d \div 2^b, f.last \div 2^b)>>[k + 1]

CosetTable(g, f) ==
    [p \in Positions(CosetRows(g), g.width) |->
        LET r == p[1]
            q == (p[2] - FirstTriple(g, r)) \div 3
            k == p[2] % 3
        IN IF r < TurnRow(g) \/ (r = TurnRow(g) /\ p[2] < TurnColumn(g))
           THEN NineCell(g, f, r * NineBlocks(g) + p[2] \div 9, p[2] % 9)
           ELSE IF q = 0 THEN HeadCell(f, BitsBefore(g, r), k, f.forged /\ r = TurnRow(g))
           ELSE IF r = CosetRows(g) - 1 THEN 0
           ELSE TripleCell(f, BitsBefore(g, r) + q - 1, k)]

NinePlace(g, b, k) == <<b \div NineBlocks(g), 9 * (b % NineBlocks(g)) + k>>
SignGoesOn(before, bit, lastBit, after) == before = E((lastBit - bit) * (1 - after) * (1 + after) + after)
NineHolds(g, t, b) ==
    LET c(k) == t[NinePlace(g, b, k)]
        next(k) == t[NinePlace(g, b + 1, k)]
        previous(k) == t[NinePlace(g, b - 1, k)]
        turned == E(c(3) * c(7) + 1 - c(7))
    IN /\ c(0) = E(2 * next(0) + c(7)) /\ c(1) = E(2 * next(1) + c(8))
       /\ SignGoesOn(c(2), c(7), c(8), next(2))
       /\ IF b = 0 THEN c(1) = Prime - 1 /\ c(2) \in {0, 1} /\ c(4) = turned
          ELSE c(3) = E(previous(3) * previous(3)) /\ c(4) = E(previous(4) * turned)
       /\ c(5) = IF b = g.n - 1 THEN c(4) ELSE E(next(5) * next(5))
       /\ c(6) = E(-c(5)) /\ c(7) \in {0, 1} /\ c(8) \in {0, 1}
BitRowHolds(g, t, r) ==
    LET first == FirstTriple(g, r)
        triples == {j \in (first + 3)..(g.width - 3) : j % 3 = 0}
        joined(k) ==
            LET h[j \in 0..g.width] ==
                    IF j >= g.width THEN t[<<r + 1, k>>]
                    ELSE IF j % 3 = 0 THEN E(2 * h[j + 3] + t[<<r, j + k>>]) ELSE 0
            IN h[first + 3]
    IN /\ t[<<r, first>>] = joined(0) /\ t[<<r, first + 1>>] = joined(1)
       /\ t[<<r, first + 2>>] = t[<<r, first + 5>>]
       /\ \A j \in triples :
             /\ t[<<r, j>>] \in {0, 1} /\ t[<<r, j + 1>>] \in {0, 1}
             /\ SignGoesOn(t[<<r, j + 2>>], t[<<r, j>>], t[<<r, j + 1>>],
                           IF j + 3 = g.width THEN t[<<r + 1, 2>>] ELSE t[<<r, j + 5>>])

CosetHolds(g, f, t) ==
    LET end == CosetRows(g) - 1
        over == RemainingBits(g) % RowBits(g)
    IN /\ \A b \in 0..(g.n - 1) : NineHolds(g, t, b)
       /\ \A r \in TurnRow(g)..(end - 1) : BitRowHolds(g, t, r)
       /\ t[<<0, 0>>] = f.x /\ t[<<0, 3>>] = g.omega
       /\ over > 0 => \A j \in (3 * (over + 1))..(g.width - 1) : t[<<end - 1, j>>] = 0
       /\ \A j \in 0..2 : t[<<end, j>>] = 0

(* s, -s and whether they change places, for s and its squares.            *)
CosetMeans(g, f, t) ==
    \A i \in 0..(g.n - 1) :
        LET s == Raise(Raise(g.omega, f.x % 2^g.n), 2^i)
            b == g.n - 1 - i
        IN [k \in 5..7 |-> t[NinePlace(g, b, k)]] = [k \in 5..7 |-> <<s, E(-s), Bit(f.x, b)>>[k - 4]]

-----------------------------------------------------------------------------

PlaceholderKinds == {"gate", "f3_loop", "permutation_argument", "cosets"}
PlaceholderHonest(g) ==
    CASE g.kind = "gate" ->
            [theta : {2}, c : {[i \in 1..(g.d + 1) |-> i * i + k] : k \in {1, 2}}, q : {0, 3}, at : {0}, off : {0}]
      [] g.kind = "f3_loop" ->
            [alphas : {[i \in 1..g.m |-> i + 1]}, s : {[i \in 1..g.m |-> i * i + 2]},
             t : {[i \in 1..g.m |-> i + k] : k \in {0, 5}}, above : {0}, at : {0}, off : {0}]
      [] g.kind = "permutation_argument" ->
            [f : {[i \in 1..g.m |-> i + 3]}, se : {[i \in 1..g.m |-> i * i]},
             ssigma : {[i \in 1..g.m |-> (g.m - i)^2 + 1]}, thetas : {<<2, 7>>}, L0 : {5}, V : {1, 3},
             VZeta : {11}, qLast : {0, 1}, qPad : {0, 1}, at : {0}, off : {0}]
      [] g.kind = "cosets" -> {[x |-> x, d |-> x, last |-> Prime - 1, forged |-> FALSE] : x \in {0, 5, 300, 446, Prime - 1}}
PlaceholderTried(g) ==
    LET steps == IF g.kind = "gate" THEN g.d + 1 ELSE g.m IN
    IF g.kind = "cosets" THEN 
        {[f EXCEPT !.d = @ + d, !.last = @ + last, !.forged = forged] :
            f \in PlaceholderHonest(g), d \in {1, Prime, 2 * Prime}, last \in {0, Prime}, forged \in BOOLEAN}
    ELSE {[f EXCEPT !.at = at, !.off = off] : f \in PlaceholderHonest(g), at \in 1..steps, off \in {1, Prime - 1}}

PlaceholderTable(g, f) ==
    CASE g.kind = "gate" -> GateTable(g, f)
      [] g.kind = "f3_loop" -> F3Table(g, f)
      [] g.kind = "permutation_argument" -> PermutationTable(g, f)
      [] g.kind = "cosets" -> CosetTable(g, f)
PlaceholderHolds(g, f, t) ==
    CASE g.kind = "gate" -> GateComponentHolds(g, f, t)
      [] g.kind = "f3_loop" -> F3Holds(g, f, t)
      [] g.kind = "permutation_argument" -> PermutationHolds(g, f, t)
      [] g.kind = "cosets" -> CosetHolds(g, f, t)
PlaceholderMeans(g, f, t) ==
    CASE g.kind = "gate" -> GateComponentMeans(g, f, t)
      [] g.kind = "f3_loop" -> F3Means(g, f, t)
      [] g.kind = "permutation_argument" -> PermutationMeans(g, f, t)
      [] g.kind = "cosets" -> CosetMeans(g, f, t)
=============================================================================
