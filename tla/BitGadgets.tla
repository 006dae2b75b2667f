------------------------------- MODULE BitGadgets -------------------------------
(***************************************************************************)
(* Components that take field elements apart                               *)
(* (include/nil/blueprint/components/algebra/fields/plonk):                *)
(* bit_decomposition and bit_composition, which share the rows of          *)
(* non_native/detail/bit_builder_component, bit_shift_constant, which puts *)
(* one on the other, and non_native/comparison_flag.  The conventions are  *)
(* those of RowGadgets.                                                    *)
(***************************************************************************)
EXTENDS FieldValues

(* W: a column's number is taken round the columns there are.              *)
Column(g, index) == index % g.width

-----------------------------------------------------------------------------
(* bit_builder_component: f.bits is the padding and then the bits, highest *)
(* first.  They fill gates of three rows, whose first cell is the sum the  *)
(* gate before has in its last cell; the first gate's is a bit too.  Only  *)
(* with g.check does a gate look at whether its cells are bits.            *)

BitsPerGate(g) == 3 * g.width - 2
LastBitPos(g) == 3 * g.width - 1

PaddingBits(g) ==
    LET per == BitsPerGate(g)
        first == IF g.check THEN per ELSE per + 1
    IN IF g.bits <= first THEN per + 1 - g.bits
       ELSE (IF g.check THEN 1 ELSE 0) + ((per - ((g.bits - first) % per)) % per)

SumBits(g) ==
    LET b == g.bits + (IF g.check THEN 1 ELSE 0) IN
    1 + 2 * ((IF b >= 2 THEN b - 2 ELSE 0) \div BitsPerGate(g))

BuilderRows(g) == (g.bits + SumBits(g) + PaddingBits(g)) \div g.width

(* straight_bit_position, bit_position and sum_bit_position; from zero     *)
Straight(g, n) == <<n \div g.width, n % g.width>>
BitPosition(g, n) ==
    Straight(g, IF n < LastBitPos(g) THEN n
                ELSE n + 2 + 2 * ((n - LastBitPos(g)) \div BitsPerGate(g)))
SumPosition(g, k) == Straight(g, LastBitPos(g) + (k \div 2) * 3 * g.width + (k % 2))

BuilderTable(g, f) ==
    [p \in Positions(BuilderRows(g), g.width) |->
        LET bit == {n \in DOMAIN f.bits : BitPosition(g, n - 1) = p}
            sum == {k \in 0..(SumBits(g) - 1) : SumPosition(g, k) = p}
        IN IF bit # {} THEN f.bits[CHOOSE n \in bit : TRUE]
           ELSE LET gate == (CHOOSE k \in sum : TRUE) \div 2
                IN Horner(2, SubSeq(f.bits, 1, LastBitPos(g) + gate * BitsPerGate(g)))]

(* The gate, and the copy constraints of the padding and of the sums.      *)
BuilderHolds(g, t) ==
    LET cell(row, n) == t[<<row - 1 + (n \div g.width), n % g.width>>] IN
    /\ \A row \in {r \in 1..(BuilderRows(g) - 2) : r % 3 = 1} :
          /\ cell(row, LastBitPos(g)) = Horner(2, [i \in 1..LastBitPos(g) |-> cell(row, i - 1)])
          /\ g.check => \A n \in 1..(LastBitPos(g) - 1) : cell(row, n) \in {0, 1}
    /\ \A n \in 0..(PaddingBits(g) - 1) : t[BitPosition(g, n)] = 0
    /\ \A k \in 0..(SumBits(g) - 2) :
          k % 2 = 0 => t[SumPosition(g, k)] = t[SumPosition(g, k + 1)]

LastSum(g, t) == t[SumPosition(g, SumBits(g) - 1)]

(* The cell of an input or an output bit, counted from one in the order    *)
(* the component is used with, and the integer such bits are.              *)
BitAt(g, t, i) ==
    t[BitPosition(g, PaddingBits(g) + (IF g.msb THEN i - 1 ELSE g.bits - i))]
BitsOf(g, t) == [i \in 1..g.bits |-> BitAt(g, t, i)]

IntegerOf(msb, bits) ==
    LET n == Len(bits)
        sum[i \in 0..n] ==
            IF i = 0 THEN 0 ELSE sum[i - 1] * 2 + bits[IF msb THEN i ELSE n + 1 - i]
    IN sum[n]

PaddedBits(g, x) == [i \in 1..PaddingBits(g) |-> 0] \o DigitsOf(x, 2, g.bits)

(* bit_decomposition of f.x, and bit_composition of the bits f.in.         *)
DecompositionHolds(g, f, t) == BuilderHolds(g, t) /\ LastSum(g, t) = f.x
CompositionHolds(g, in, t) == BuilderHolds(g, t) /\ BitsOf(g, t) = in

DecompositionMeans(g, f, t) ==
    LET out == BitsOf(g, t) IN
    (\A i \in 1..g.bits : out[i] \in {0, 1}) /\ IntegerOf(g.msb, out) = f.x

CompositionMeans(g, f, t) ==
    /\ g.check => \A i \in 1..g.bits : f.in[i] \in {0, 1}
    /\ LastSum(g, t) = E(IntegerOf(g.msb, f.in))

-----------------------------------------------------------------------------
(* bit_shift_constant: by g.shift, to the left or to the right.            *)

Taken(g) == [g EXCEPT !.check = TRUE]
Put(g) == [g EXCEPT !.check = FALSE, !.bits = IF g.left THEN g.bits ELSE g.bits - g.shift]

(* The composition's inputs: the bits from the highest, some moved, or     *)
(* fewer of them.                                                          *)
Moved(g, bits) ==
    IF g.left THEN SubSeq(bits, g.shift + 1, g.bits) \o [i \in 1..g.shift |-> 0]
    ELSE SubSeq(bits, 1, g.bits - g.shift)

Above(g, t) == From(0, BuilderRows(Taken(g)), g.width, t)
PutPart(g, t) == From(BuilderRows(Taken(g)), BuilderRows(Put(g)), g.width, t)

ShiftTable(g, f) ==
    LET above == BuilderTable(Taken(g), f)
        bits == [i \in 1..PaddingBits(Put(g)) |-> 0] \o Moved(g, BitsOf(Taken(g), above))
        below == BuilderTable(Put(g), [bits |-> bits])
        split == BuilderRows(Taken(g))
    IN [p \in Positions(split + BuilderRows(Put(g)), g.width) |->
          IF p[1] < split THEN above[p] ELSE below[<<p[1] - split, p[2]>>]]

ShiftHolds(g, f, t) ==
    LET above == Above(g, t) IN
    /\ DecompositionHolds(Taken(g), f, above)
    /\ CompositionHolds(Put(g), Moved(g, BitsOf(Taken(g), above)), PutPart(g, t))

ShiftMeans(g, f, t) ==
    LastSum(Put(g), PutPart(g, t)) =
        IF g.left THEN (f.x * 2^g.shift) % 2^g.bits ELSE f.x \div 2^g.shift

-----------------------------------------------------------------------------
(* comparison_flag: f is x and y, their chunks of two bits, c and d, from  *)
(* the highest, and the flags between them, which say how the chunks so    *)
(* far compare: Lesser, 0 or 1.                                            *)

Lesser == -4
FlagPerGate(g) == 1 + (g.width - 3) \div 2 \* comparisons_per_gate_instance
NeedsBonusRow(g) == g.width <= 3
GateInstances(g) == Ceil(g.bits, 2 * FlagPerGate(g))
ComparisonRows(g) == 2 * GateInstances(g) + (IF NeedsBonusRow(g) THEN 2 ELSE 1)
ChunkPairs(g) == GateInstances(g) * FlagPerGate(g)
PaddingPairs(g) == (2 * ChunkPairs(g) - g.bits) \div 2

(* Where the k-th pair has its chunks, its temporary value and its flag:   *)
(* the last one of a gate differs.                                         *)
PairCells(g, k) ==
    LET row == 2 * ((k - 1) \div FlagPerGate(g))
        j == (k - 1) % FlagPerGate(g)
    IN IF j = FlagPerGate(g) - 1
       THEN [c |-> <<row + 1, 0>>, d |-> <<row + 1, 1>>, t |-> <<row + 1, 2>>, f |-> <<row + 2, 2>>]
       ELSE [c |-> <<row + 1, 3 + 2 * j>>, d |-> <<row + 1, 4 + 2 * j>>,
             t |-> <<row, 3 + 2 * j>>, f |-> <<row, 4 + 2 * j>>]

FlagCell(g) == <<2 * GateInstances(g), 2>>
OutputCell(g) == IF NeedsBonusRow(g) THEN <<ComparisonRows(g) - 1, 0>> ELSE <<ComparisonRows(g) - 1, 3>>

(* calculate_flag and calculate_temp                                       *)
CalculatedFlag(flag, c, d) ==
    IF flag # 0 THEN flag ELSE IF c > d THEN 1 ELSE IF c = d THEN 0 ELSE E(Lesser)
CalculatedFlags(c, d) ==
    LET flag[k \in 0..Len(c)] == IF k = 0 THEN 0 ELSE CalculatedFlag(flag[k - 1], c[k], d[k])
    IN [k \in 1..Len(c) |-> flag[k]]
FlagBefore(f, k) == IF k = 1 THEN 0 ELSE f.flags[k - 1]
CalculatedTemp(f, k) == IF FlagBefore(f, k) # 0 THEN FlagBefore(f, k) ELSE E(f.c[k] - f.d[k])

ModeOutput(mode, flag) ==
    IF mode = "FLAG" THEN IF flag = E(Lesser) THEN E(-1) ELSE flag
    ELSE IF flag \in (CASE mode = "LESS_THAN" -> {E(Lesser)} [] mode = "LESS_EQUAL" -> {E(Lesser), 0}
                        [] mode = "GREATER_THAN" -> {1} [] mode = "GREATER_EQUAL" -> {0, 1})
         THEN 1 ELSE 0

ComparisonTable(g, f) ==
    [p \in Positions(ComparisonRows(g), g.width) |->
        LET here(name) == {k \in 1..ChunkPairs(g) : PairCells(g, k)[name] = p}
            the(name) == CHOOSE k \in here(name) : TRUE
            upto == (p[1] \div 2) * FlagPerGate(g)
        IN IF here("c") # {} THEN f.c[the("c")]
           ELSE IF here("d") # {} THEN f.d[the("d")]
           ELSE IF here("t") # {} THEN CalculatedTemp(f, the("t"))
           ELSE IF here("f") # {} THEN f.flags[the("f")]
           ELSE IF p = OutputCell(g) THEN ModeOutput(g.mode, f.flags[ChunkPairs(g)])
           ELSE IF p[1] % 2 = 0 /\ p[2] = 0 THEN Horner(4, SubSeq(f.c, 1, upto))
           ELSE IF p[1] % 2 = 0 /\ p[2] = 1 THEN Horner(4, SubSeq(f.d, 1, upto))
           ELSE 0]

(* The polynomial of the flag the output is constrained to be.             *)
OutputOf(mode, flag) ==
    LET g1 == Inverted(Lesser - 1)
        gg1 == Inverted(Lesser * (Lesser - 1))
        twice == 2 * gg1 + Inverted(Lesser)
    IN CASE mode = "FLAG" -> E((twice + 1) * flag - E(twice * flag) * flag)
         [] mode = "GREATER_THAN" -> E(-E(flag * (flag - Lesser)) * g1)
         [] mode = "GREATER_EQUAL" -> E(-E((flag - Lesser) * (flag - (1 - Lesser))) * gg1)
         [] mode = "LESS_THAN" -> E(E(flag * (flag - 1)) * gg1)
         [] mode = "LESS_EQUAL" -> E(1 + E(flag * (flag - Lesser)) * g1)

(* The first chunks that are not padding are narrower if the bits are odd; *)
(* the constraint that says so takes them to be before the last of a gate. *)
FirstChunks(g) ==
    <<<<1, Column(g, 3 + 2 * PaddingPairs(g))>>, <<1, Column(g, 4 + 2 * PaddingPairs(g))>>>>

FlagUpdated(flag, c, d) == E(E((c - d) * (1 - flag)) * E((flag - Lesser) * Inverted(-Lesser)) + flag)

ComparisonHolds(g, f, t) ==
    /\ \A k \in 1..ChunkPairs(g) :
          LET at == PairCells(g, k)
              last == IF k = 1 THEN t[<<0, 2>>] ELSE t[PairCells(g, k - 1).f]
          IN /\ t[at.c] < 4 /\ t[at.d] < 4
             /\ t[at.f] \in {0, 1, E(Lesser)}
             /\ t[at.t] = FlagUpdated(last, t[at.c], t[at.d])
             /\ t[at.t] = 0 \/ t[at.f] \in {1, E(Lesser)}
             /\ E(t[at.t] - t[at.f]) < 4
    /\ \A i \in 1..GateInstances(g), s \in {0, 1} :
          LET chunks == [j \in 1..FlagPerGate(g) |->
                            t[PairCells(g, (i - 1) * FlagPerGate(g) + j)[IF s = 0 THEN "c" ELSE "d"]]]
          IN t[<<2 * i, s>>] = Horner(4, <<t[<<2 * i - 2, s>>]>> \o chunks)
    /\ t[OutputCell(g)] = OutputOf(g.mode, t[FlagCell(g)])
    /\ g.bits % 2 # 0 => \A n \in {1, 2} : t[FirstChunks(g)[n]] < 2
    /\ \A c \in 0..2 : t[<<0, c>>] = 0
    /\ \A i \in 0..(PaddingPairs(g) - 1) : t[<<1, 3 + 2 * i>>] = 0 /\ t[<<1, 4 + 2 * i>>] = 0
    /\ t[<<2 * GateInstances(g), 0>>] = f.x /\ t[<<2 * GateInstances(g), 1>>] = f.y

(* Both are in the range that is promised; where the narrower chunks are   *)
(* the last of a gate, they are found only if no column is left over.      *)
InRange(g, f) == f.x < 2^g.bits /\ f.y < 2^g.bits
ChunksFound(g) ==
    g.bits % 2 # 0 /\ g.width % 2 = 0 => PaddingPairs(g) < FlagPerGate(g) - 1

ComparisonMeans(g, f, t) ==
    ChunksFound(g) =>
        /\ InRange(g, f)
        /\ t[OutputCell(g)] =
              CASE g.mode = "FLAG" -> E(IF f.x > f.y THEN 1 ELSE IF f.x = f.y THEN 0 ELSE -1)
                [] g.mode = "LESS_THAN" -> IF f.x < f.y THEN 1 ELSE 0
                [] g.mode = "LESS_EQUAL" -> IF f.x <= f.y THEN 1 ELSE 0
                [] g.mode = "GREATER_THAN" -> IF f.x > f.y THEN 1 ELSE 0
                [] g.mode = "GREATER_EQUAL" -> IF f.x >= f.y THEN 1 ELSE 0
=============================================================================
