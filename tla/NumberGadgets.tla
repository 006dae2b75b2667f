------------------------------ MODULE NumberGadgets ------------------------------
(***************************************************************************)
(* Components that take field elements for numbers of some bits:           *)
(* comparison_checked, comparison_unchecked and division_remainder, and    *)
(* those that take them for bits: logic_ops and lookup_logic_ops           *)
(* (include/nil/blueprint/components/algebra/fields/plonk/non_native).     *)
(* Their tables are like those of RowGadgets, whose range check they use.  *)
(***************************************************************************)
EXTENDS RowGadgets, TLC

NumberKinds == {"checked", "unchecked", "remainder", "logic"}

ModulusBits == CHOOSE n \in 1..31 : 2^(n - 1) <= Prime /\ Prime < 2^n

Ranged(x) == [x |-> x]
RangeOfValue(g, x) == RangeTable(g, [x |-> x, chunks |-> RangeChunks(g, x)])

-----------------------------------------------------------------------------
(* The comparisons: f is x and y; they hold or the component cannot.       *)

Strict(g) == g.mode \in {"LESS_THAN", "GREATER_THAN"}
Swapped(g) == g.mode \in {"GREATER_THAN", "GREATER_EQUAL"}
Lower(g, f) == IF Swapped(g) THEN f.y ELSE f.x
Upper(g, f) == IF Swapped(g) THEN f.x ELSE f.y
NeedsBonusRow(g) == g.width <= 3 /\ Strict(g)
Compares(g, f) == IF Strict(g) THEN Lower(g, f) < Upper(g, f) ELSE Lower(g, f) <= Upper(g, f)

(* comparison_checked: f.c and f.d are the chunks of the lower number and  *)
(* of the difference.  Blocks of two rows: the second one's W(0) is the    *)
(* last of the difference's chunks, the others are in the first row.       *)
CheckedChunks(g) == Ceil(Ceil(g.bits, ChunkSize), g.width - 1) * (g.width - 1)
CheckedPadding(g) == CheckedChunks(g) - Ceil(g.bits, ChunkSize)
CheckedBlocks(g) == CheckedChunks(g) \div (g.width - 1)
LastChecked(g) == 2 * CheckedBlocks(g)
CheckedRows(g) == 1 + LastChecked(g) + (IF NeedsBonusRow(g) THEN 1 ELSE 0)
InverseCell(g, r) == IF NeedsBonusRow(g) THEN <<r + 1, 0>> ELSE <<r, 3>>
NeedsFirstChunk(g) == g.bits % ChunkSize # 0 /\ g.bits + 1 >= ModulusBits - 1

CheckedTable(g, f) ==
    LET before(r) == (r \div 2) * (g.width - 1)
        difference == Upper(g, f) - Lower(g, f)
    IN [p \in Positions(CheckedRows(g), g.width) |->
          LET r == p[1]  c == p[2] IN
          IF r = LastChecked(g) /\ c = 2 THEN Upper(g, f)
          ELSE IF Strict(g) /\ p = InverseCell(g, LastChecked(g)) THEN Inverted(difference)
          ELSE IF r % 2 = 0 /\ c < 2
               THEN Horner(2^ChunkSize, SubSeq(IF c = 0 THEN f.c ELSE f.d, 1, before(r)))
          ELSE IF r >= LastChecked(g) THEN 0
          ELSE IF r % 2 = 0 THEN f.d[before(r) + c - 1]
          ELSE IF c = 0 THEN f.d[before(r) + g.width - 1]
          ELSE f.c[before(r) + c]]

CheckedHolds(g, f, t) ==
    LET last == LastChecked(g)
        w == g.width
    IN /\ \A b \in 0..(CheckedBlocks(g) - 1) :
             LET r == 2 * b + 1 IN
             /\ \A c \in 2..(w - 1) : t[<<r - 1, c>>] < 2^ChunkSize
             /\ \A c \in 0..(w - 1) : t[<<r, c>>] < 2^ChunkSize
             /\ t[<<r + 1, 0>>] = Horner(2^ChunkSize, <<t[<<r - 1, 0>>]>> \o Cells(t, r, 1, w - 1))
             /\ t[<<r + 1, 1>>] = Horner(2^ChunkSize,
                    <<t[<<r - 1, 1>>]>> \o Cells(t, r - 1, 2, w - 1) \o <<t[<<r, 0>>]>>)
       /\ t[<<last, 2>>] = E(t[<<last, 0>>] + t[<<last, 1>>])
       /\ Strict(g) => E(t[<<last, 1>>] * t[InverseCell(g, last)]) = 1
       /\ NeedsFirstChunk(g) =>
             /\ t[IF CheckedPadding(g) # w - 2 THEN <<0, 2 + CheckedPadding(g)>> ELSE <<1, 0>>] < 2
             /\ t[<<1, 1 + CheckedPadding(g)>>] < 2
       /\ t[<<0, 0>>] = 0 /\ t[<<0, 1>>] = 0
       /\ \A i \in 0..(CheckedPadding(g) - 1) : t[<<1, i + 1>>] = 0 /\ t[<<0, i + 2>>] = 0
       /\ t[<<last, 0>>] = Lower(g, f) /\ t[<<last, 2>>] = Upper(g, f)

(* The lower number fits into the chunks; the higher one is not checked,   *)
(* nor is the first chunk unless the difference could overflow.            *)
CheckedMeans(g, f) ==
    /\ Lower(g, f) < 2^(IF NeedsFirstChunk(g) THEN g.bits ELSE ChunkSize * Ceil(g.bits, ChunkSize))
    /\ f.x < 2^g.bits /\ f.y < 2^g.bits => Compares(g, f)

CheckedOf(g, x, d) ==
    LET digits(n) == DigitsOf(n % 2^g.bits, 2^ChunkSize, CheckedChunks(g)) IN
    [x |-> IF Swapped(g) THEN E(x + d) ELSE x, y |-> IF Swapped(g) THEN x ELSE E(x + d),
     c |-> digits(x), d |-> digits(d)]

(* comparison_unchecked: the difference is range checked in the rows above. *)
UncheckedRows(g) == RangeRows(g) + 1 + (IF NeedsBonusRow(g) THEN 1 ELSE 0)
UncheckedTable(g, f) ==
    LET difference == E(Upper(g, f) - Lower(g, f))
        last == RangeRows(g)
    IN RangeOfValue(g, difference) @@
       [p \in {<<last, c>> : c \in 0..2} |-> <<Lower(g, f), Upper(g, f), difference>>[p[2] + 1]] @@
       (InverseCell(g, last) :> IF Strict(g) THEN Inverted(difference) ELSE 0)
UncheckedHolds(g, f, t) ==
    LET last == UncheckedRows(g) - 1 - (IF NeedsBonusRow(g) THEN 1 ELSE 0) IN
    /\ RangeHolds(g, Ranged(t[<<RangeRows(g), 2>>]), t)
    /\ t[<<last, 2>>] = E(t[<<last, 1>>] - t[<<last, 0>>])
    /\ Strict(g) => E(t[<<last, 2>>] * t[InverseCell(g, last)]) = 1
    /\ t[<<last, 0>>] = Lower(g, f) /\ t[<<last, 1>>] = Upper(g, f)
UncheckedMeans(g, f) == f.x < 2^g.bits /\ f.y < 2^g.bits => Compares(g, f)

-----------------------------------------------------------------------------
(* division_remainder: x, y, q, r and y - r, then the range checks of      *)
(* y - r, q and, if the inputs are checked, x and y.                       *)

DivisionCell(g, k) == <<k \div g.width, k % g.width>>
DivisionRows(g) == IF g.width < 5 THEN 2 ELSE 1
Checks(g) == <<4, 2>> \o IF g.check THEN <<0, 1>> ELSE <<>>

RemainderTable(g, f) ==
    LET values == <<f.x, f.y, f.q, f.r, f.difference>>
        check(i) == Below(DivisionRows(g) + (i - 1) * RangeRows(g), RangeOfValue(g, values[Checks(g)[i] + 1]))
    IN [p \in {DivisionCell(g, k) : k \in 0..4} |-> values[p[1] * g.width + p[2] + 1]]
       @@ check(1) @@ check(2) @@ (IF g.check THEN check(3) @@ check(4) ELSE <<>>)

RemainderHolds(g, f, t) ==
    LET v(k) == t[DivisionCell(g, k)] IN
    /\ v(0) = E(v(1) * v(2) + v(3)) /\ v(4) = E(v(1) - v(3))
    /\ \A i \in 1..Len(Checks(g)) :
          RangeHolds(g, Ranged(v(Checks(g)[i])),
              From(DivisionRows(g) + (i - 1) * RangeRows(g), RangeRows(g), g.width, t))
    /\ v(0) = f.x /\ v(1) = f.y

(* The remainder is held to y at most only, and not to zero at least.      *)
RemainderMeans(g, f, t) ==
    LET q == t[DivisionCell(g, 2)]
        r == t[DivisionCell(g, 3)]
    IN /\ E(f.y - r) < 2^g.bits
       /\ g.check => f.x < 2^g.bits /\ f.y < 2^g.bits
       /\ f.x < 2^g.bits /\ f.y < 2^g.bits /\ r < f.y => q = f.x \div f.y /\ r = f.x % f.y

-----------------------------------------------------------------------------
(* The operations on bits, one row: the inputs and the output.             *)

Arity(op) == CASE op = "not" -> 1 [] op = "select" -> 3 [] OTHER -> 2

ResultAssignment(op, a) ==
    CASE op = "not" -> E(1 - a[1])
      [] op = "and" -> E(a[1] * a[2])
      [] op = "or" -> E(a[1] + a[2] - a[1] * a[2])
      [] op = "xor" -> E(a[1] + a[2] - 2 * a[1] * a[2])
      [] op = "nand" -> E(1 - a[1] * a[2])
      [] op = "nor" -> E(1 - (a[1] + a[2] - a[1] * a[2]))
      [] op = "select" -> IF a[1] = 0 THEN a[3] ELSE a[2]

OpConstraint(op, w) ==
    CASE op = "not" -> E(1 - w[1] - w[2])
      [] op = "and" -> E(w[3] - w[1] * w[2])
      [] op = "or" -> E(w[3] - (w[1] + w[2] - w[1] * w[2]))
      [] op = "xor" -> E(w[3] - (w[1] + w[2] - 2 * w[1] * w[2]))
      [] op = "nand" -> E(w[3] - (1 - w[1] * w[2]))
      [] op = "nor" -> E(w[3] - (1 - (w[1] + w[2] - w[1] * w[2])))
      [] op = "select" -> E(w[4] - (w[1] * w[2] + (1 - w[1]) * w[3]))

(* binary_and_table and binary_xor_table, which hold every pair of bits.   *)
LookupTable(op) ==
    {<<a, b, IF op = "and" THEN a * b ELSE (a + b) % 2>> : a \in {0, 1}, b \in {0, 1}}

LogicTable(g, f) == [p \in {0} \X (0..Arity(g.op)) |-> Append(f.in, f.out)[p[2] + 1]]
LogicHolds(g, f, t) ==
    LET w == Cells(t, 0, 0, Arity(g.op)) IN
    OpConstraint(g.op, w) = 0 /\ \A i \in 1..Arity(g.op) : w[i] = f.in[i]

(* boolean_lookup_op_component: always two inputs.                         *)
LookupTableRow(f) == [p \in {0} \X (0..2) |-> <<f.in[1], f.in[2], f.out>>[p[2] + 1]]
LookupHolds(g, f, t) ==
    LET w == Cells(t, 0, 0, 2) IN
    w \in LookupTable(g.op) /\ w[1] = f.in[1] /\ w[2] = f.in[2]

TruthOf(op, b) ==
    CASE op = "not" -> ~b[1]
      [] op = "and" -> b[1] /\ b[2]
      [] op = "or" -> b[1] \/ b[2]
      [] op = "xor" -> b[1] # b[2]
      [] op = "nand" -> ~(b[1] /\ b[2])
      [] op = "nor" -> ~(b[1] \/ b[2])
(* Only the operations by a lookup check that they are given bits.         *)
LogicMeans(g, f, t) ==
    LET out == t[<<0, Arity(g.op)>>]
        bits == \A i \in 1..Arity(g.op) : f.in[i] \in {0, 1}
    IN /\ g.lookup => bits
       /\ IF g.op = "select"
          THEN f.in[1] \in {0, 1} => out = IF f.in[1] = 1 THEN f.in[2] ELSE f.in[3]
          ELSE bits => out = IF TruthOf(g.op, [i \in 1..Arity(g.op) |-> f.in[i] = 1]) THEN 1 ELSE 0

-----------------------------------------------------------------------------

Fitting(n) == 0..(2^n - 1)
Mixed == {0, 1, 2, Prime - 1}

NumberHonest(g) ==
    CASE g.kind = "checked" ->
            {CheckedOf(g, x, d) : x \in Fitting(g.bits), d \in Fitting(g.bits)}
      [] g.kind = "unchecked" ->
            [x : Fitting(g.bits), y : Fitting(g.bits)]
      [] g.kind = "remainder" ->
            {[x |-> x, y |-> y, q |-> x \div y, r |-> x % y, difference |-> y - (x % y)] :
                x \in Fitting(g.bits), y \in Fitting(g.bits) \ {0}}
      [] g.kind = "logic" ->
            {[in |-> a, out |-> ResultAssignment(g.op, a)] : a \in [1..Arity(g.op) -> {0, 1}]}

(* Those of them that compare as the component says.                       *)
NumberMeant(g) ==
    IF g.kind \in {"checked", "unchecked"} THEN
        {f \in NumberHonest(g) : f.x < 2^g.bits /\ f.y < 2^g.bits /\ Compares(g, f)}
    ELSE NumberHonest(g)

CheckedTried(g) ==
    LET chunks == [1..CheckedChunks(g) -> IF g.bits <= 4 THEN 0..3 ELSE {0, 1, 3}]
        of(c, d) == [CheckedOf(g, Horner(4, c), Horner(4, d)) EXCEPT !.c = c, !.d = d]
    IN {of(c, d) : c \in chunks, d \in chunks}

NumberTried(g) ==
    CASE g.kind = "checked" -> CheckedTried(g)
      [] g.kind = "unchecked" ->
            LET all == Fitting(g.bits + 1) \cup {Prime - 1} IN [x : all, y : all]
      [] g.kind = "remainder" ->
            LET of(x, y, q, r) == {[x |-> x, y |-> y, q |-> q, r |-> r, difference |-> d] : d \in {E(y - r), y}} IN
            UNION {of(x, y, q, E(x - y * q)) :
                x \in Fitting(g.bits) \cup {2^g.bits, Prime - 1},
                y \in Fitting(g.bits) \cup {2^g.bits, Prime - 2}, q \in Fitting(g.bits)}
      [] g.kind = "logic" -> [in : [1..Arity(g.op) -> Mixed], out : Mixed]

NumberTable(g, f) ==
    CASE g.kind = "checked" -> CheckedTable(g, f)
      [] g.kind = "unchecked" -> UncheckedTable(g, f)
      [] g.kind = "remainder" -> RemainderTable(g, f)
      [] g.kind = "logic" -> IF g.lookup THEN LookupTableRow(f) ELSE LogicTable(g, f)
NumberHolds(g, f, t) ==
    CASE g.kind = "checked" -> CheckedHolds(g, f, t)
      [] g.kind = "unchecked" -> UncheckedHolds(g, f, t)
      [] g.kind = "remainder" -> RemainderHolds(g, f, t)
      [] g.kind = "logic" -> IF g.lookup THEN LookupHolds(g, f, t) ELSE LogicHolds(g, f, t)
NumberMeans(g, f, t) ==
    CASE g.kind = "checked" -> CheckedMeans(g, f)
      [] g.kind = "unchecked" -> UncheckedMeans(g, f)
      [] g.kind = "remainder" -> RemainderMeans(g, f, t)
      [] g.kind = "logic" -> LogicMeans(g, f, t)
=============================================================================
