------------------------------- MODULE RowGadgets -------------------------------
(***************************************************************************)
(* Components that go on from row to row: range_check and exponentiation   *)
(* (include/nil/blueprint/components/algebra/fields/plonk); pow_factor,    *)
(* constant_pow, x_index, additions and multiplications                    *)
(* (systems/snark/plonk/flexible) and fri_array_swap (.../placeholder).    *)
(* A component g is a record of its parameters, one of them its width, the *)
(* columns it is given.  What it is put into a table for, and what is free *)
(* for a prover to choose, is a record f; XTable is generate_assignments,  *)
(* its first column and row are 0, and XHolds the gates on the rows their  *)
(* selectors are enabled on, with the copy constraints.                    *)
(***************************************************************************)
EXTENDS FieldValues

CONSTANT Block \* the cells of pow_factor's block: 8 in the source

-----------------------------------------------------------------------------
(* range_check: f is x and the chunks of two bits it is written in.        *)

ChunkSize == 2
RangeRows(g) == 1 + Ceil(g.bits, (g.width - 1) * ChunkSize)
PaddedChunks(g) == (RangeRows(g) - 1) * (g.width - 1)
PaddingSize(g) == PaddedChunks(g) - Ceil(g.bits, ChunkSize)
RangeChunks(g, x) == DigitsOf(x % Exp(2, g.bits), Exp(2, ChunkSize), PaddedChunks(g))

RangeTable(g, f) ==
    [p \in Positions(RangeRows(g), g.width) |->
        LET before == (p[1] - 1) * (g.width - 1) IN
        IF p[1] = 0 THEN 0
        ELSE IF p[2] = 0 THEN Horner(Exp(2, ChunkSize), SubSeq(f.chunks, 1, before + g.width - 1))
        ELSE f.chunks[before + p[2]]]

(* The product over the values of a chunk vanishes on them only.           *)
RangeHolds(g, f, t) ==
    LET last == RangeRows(g) - 1
        sum(r) == Horner(Exp(2, ChunkSize), <<t[<<r - 1, 0>>]>> \o Cells(t, r, 1, g.width - 1))
        first == t[<<1, 1 + PaddingSize(g)>>]
    IN /\ \A r \in 1..last :
             /\ \A c \in 1..(g.width - 1) : t[<<r, c>>] < Exp(2, ChunkSize)
             /\ t[<<r, 0>>] = sum(r)
       /\ g.bits % ChunkSize # 0 => first < Exp(2, g.bits % ChunkSize)
       /\ t[<<0, 0>>] = 0
       /\ \A c \in 1..PaddingSize(g) : t[<<1, c>>] = 0
       /\ t[<<last, 0>>] = f.x

RangeMeans(g, f) == f.x < Exp(2, g.bits)

-----------------------------------------------------------------------------
(* exponentiation: f is the base, the exponent and its bits, highest first. *)
(* Two bits go into an intermediate result; they stand at the end of a row, *)
(* from the last column backwards.                                          *)

PerRow(g) == (g.width - 2) \div 3
MainRows(g) == Ceil(g.size, 2 * PerRow(g))
PaddedSize(g) == 2 * PerRow(g) * MainRows(g)
LastResult(g) == <<MainRows(g), 1 + PerRow(g)>>

Stepped(base, power, bit) == E(E(power * power) * (base * bit + 1 - bit))

ExponentiationTable(g, f) ==
    LET power[i \in 0..PaddedSize(g)] ==
            IF i = 0 THEN 1 ELSE Stepped(f.base, power[i - 1], f.bits[i])
        before(r) == (r - 1) * 2 * PerRow(g)
    IN [p \in Positions(MainRows(g) + 1, g.width) |->
          LET r == p[1]  c == p[2] IN
          IF r = 0 THEN IF c = 1 + PerRow(g) THEN 1 ELSE 0
          ELSE IF c = 0 THEN f.base
          ELSE IF c = 1 THEN Horner(2, SubSeq(f.bits, 1, before(r + 1)))
          ELSE IF c <= 1 + PerRow(g) THEN power[before(r) + 2 * (c - 1)]
          ELSE IF c >= g.width - 2 * PerRow(g) THEN f.bits[before(r) + g.width - c]
          ELSE 0]

ExponentiationHolds(g, f, t) ==
    /\ \A r \in 1..MainRows(g) :
          LET bit(i) == t[<<r, g.width - i>>]
              before(j) == IF j = 1 THEN t[<<r - 1, 1 + PerRow(g)>>] ELSE t[<<r, j>>]
          IN /\ \A i \in 1..(2 * PerRow(g)) : bit(i) \in {0, 1}
             /\ \A j \in 1..PerRow(g) :
                   t[<<r, 1 + j>>] = Stepped(t[<<r, 0>>],
                       Stepped(t[<<r, 0>>], before(j), bit(2 * j - 1)), bit(2 * j))
             /\ t[<<r, 1>>] = Horner(2, <<t[<<r - 1, 1>>]>> \o [i \in 1..(2 * PerRow(g)) |-> bit(i)])
             /\ t[<<r, 0>>] = f.base
    /\ t[<<0, 1>>] = 0 /\ t[<<0, 1 + PerRow(g)>>] = 1
    /\ t[<<MainRows(g), 1>>] = f.exponent

(* The output is a power of the base to a number of padded_exponent_size   *)
(* bits that is the exponent in the field.                                 *)
ExponentiationMeans(g, f, t) ==
    \E n \in 0..(2^PaddedSize(g) - 1) :
        E(n) = f.exponent /\ t[LastResult(g)] = Raise(f.base, n)

-----------------------------------------------------------------------------
(* pow_factor: f is theta and the coefficients, highest first.  They fill  *)
(* blocks that end with the value so far; a row begins with the value the  *)
(* one before it ends with.                                                *)

RowCapacity(g) ==
    IF g.width = 2 + Block THEN Block
    ELSE Block + ((g.width - 2 - Block) \div Block) * (Block - 1)

(* total_rows_amount                                                       *)
FactorRows(g) ==
    LET rows[n \in 0..(g.power + 1)] ==
            IF n <= RowCapacity(g) THEN 1
            ELSE (n \div RowCapacity(g))
                 + rows[(n % RowCapacity(g)) + (n \div RowCapacity(g))]
    IN rows[g.power + 1]

FactorPadding(g) == FactorRows(g) * RowCapacity(g) - (FactorRows(g) - 1) - (g.power + 1)
Padded(g, f) == [i \in 1..FactorPadding(g) |-> 0] \o f.coefficients

(* How many of the padded coefficients come before the first cell of a     *)
(* row, and up to a cell.                                                  *)
Upto(g, r, c) == r * (RowCapacity(g) - 1) + ((c - 1) \div Block) * (Block - 1)
                 + 1 + ((c - 1) % Block)

FactorTable(g, f) ==
    [p \in Positions(FactorRows(g), g.width) |->
        IF p[2] = 0 THEN f.theta
        ELSE IF (p[2] - 1) % Block = 0
        THEN Horner(f.theta, SubSeq(Padded(g, f), 1, Upto(g, p[1], p[2])))
        ELSE Padded(g, f)[Upto(g, p[1], p[2])]]

FactorHolds(g, f, t) ==
    \A r \in 0..(FactorRows(g) - 1) :
        /\ \A b \in 0..((g.width - 2) \div Block - 1) :
              Horner(t[<<r, 0>>], Cells(t, r, 1 + b * Block, (b + 1) * Block))
                  = t[<<r, 1 + (b + 1) * Block>>]
        /\ t[<<r, 0>>] = f.theta
        /\ t[<<r, 1>>] = IF r = 0 THEN Padded(g, f)[1] ELSE t[<<r - 1, g.width - 1>>]
        /\ \A c \in {c \in 1..(g.width - 2) : (c - 1) % Block # 0} :
              t[<<r, c>>] = Padded(g, f)[Upto(g, r, c)]

FactorMeans(g, f, t) ==
    t[<<FactorRows(g) - 1, g.width - 1>>] = Horner(f.theta, f.coefficients)

-----------------------------------------------------------------------------
(* constant_pow: f is x, and start, the value before the first chunk of    *)
(* two bits of the power, which is one, but no constraint says so.         *)

Log2(n) == CHOOSE k \in 0..n : 2^k >= n /\ \A j \in 0..(k - 1) : 2^j < n

(* integral_type_four_chunks; the constructor asserts how many there are.  *)
FourAmount(g) == CHOOSE k \in 1..g.power : 4^(k - 1) <= g.power /\ g.power < 4^k
FourChunks(g) == DigitsOf(g.power, 4, FourAmount(g))
IsConstructed(g) == FourAmount(g) = (Log2(g.power) + 1) \div 2

ConstantPowRows(g) == Ceil((Log2(g.power) + 1) \div 2, g.width - 2)
ChunkAt(g, r, c) == r * (g.width - 2) + c - 1

ConstantPowTable(g, f) ==
    LET value[i \in 0..FourAmount(g)] ==
            IF i = 0 THEN f.start
            ELSE E(Raise(value[i - 1], 4) * Raise(f.x, FourChunks(g)[i]))
    IN [p \in Positions(ConstantPowRows(g), g.width) |->
          IF p[2] = 0 THEN f.x
          ELSE IF ChunkAt(g, p[1], p[2]) > FourAmount(g) THEN 0
          ELSE value[ChunkAt(g, p[1], p[2])]]

(* Each row has a gate of its own.                                         *)
ConstantPowHolds(g, f, t) ==
    \A r \in 0..(ConstantPowRows(g) - 1) :
        /\ \A c \in 2..(g.width - 1) :
              ChunkAt(g, r, c) <= FourAmount(g) =>
                  t[<<r, c>>] = E(Raise(t[<<r, c - 1>>], 4)
                                  * Raise(t[<<r, 0>>], FourChunks(g)[ChunkAt(g, r, c)]))
        /\ t[<<r, 0>>] = f.x
        /\ r # 0 => t[<<r, 1>>] = t[<<r - 1, g.width - 1>>]

(* The cell result_type names; it is the last chunk's unless the chunks    *)
(* fill the last row.                                                      *)
PowCell(g) == <<ConstantPowRows(g) - 1, (FourAmount(g) % (g.width - 2)) + 1>>

ConstantPowMeans(g, f, t) ==
    FourAmount(g) % (g.width - 2) # 0 =>
        t[PowCell(g)] = E(Raise(t[<<0, 1>>], 4^FourAmount(g)) * Raise(f.x, g.power))

-----------------------------------------------------------------------------
(* x_index: f is x, the bits b of its index, lowest first, the bit b0 that *)
(* is looked for, and start, which is one, but no constraint says so.      *)
(* The table has a place for n bits; b0 needs one more.                    *)

IndexBlocks(g) == (g.width - 1) \div 2
IndexRows(g) == Ceil(g.n, IndexBlocks(g))
IndexFits(g) == g.n < IndexRows(g) * IndexBlocks(g)
OrderedBits(g, f) == <<f.b0>> \o [i \in 1..g.n |-> f.b[g.n + 1 - i]]
Filled(g, f) == [i \in 1..(IndexRows(g) * IndexBlocks(g)) |->
                    IF i <= g.n + 1 THEN OrderedBits(g, f)[i] ELSE 1]

Turned(g, value, bit) == E(E(value * value) * (bit + g.omega - g.omega * bit))
TurnedBy(g, start, bits) ==
    LET value[i \in 0..Len(bits)] ==
            IF i = 0 THEN start ELSE Turned(g, value[i - 1], bits[i])
    IN value[Len(bits)]

IndexTable(g, f) ==
    [p \in Positions(IndexRows(g), g.width) |->
        LET before == p[1] * IndexBlocks(g) IN
        IF p[2] > 2 * IndexBlocks(g) THEN 0
        ELSE IF p[2] % 2 = 0 THEN TurnedBy(g, f.start, SubSeq(Filled(g, f), 1, before + p[2] \div 2))
        ELSE Filled(g, f)[before + (p[2] + 1) \div 2]]

(* What b0 is, from x: generate_assignments begins with the bits alone.    *)
IndexHonest(g, b, sign) ==
    LET f == [start |-> 1, b |-> b, b0 |-> IF sign = 1 THEN 1 ELSE 0]
    IN [start |-> 1, b |-> b, b0 |-> f.b0,
        x |-> E(sign * TurnedBy(g, 1, OrderedBits(g, [f EXCEPT !.b0 = 1])))]

IndexHolds(g, f, t) ==
    /\ \A r \in 0..(IndexRows(g) - 1) :
          /\ \A k \in 0..(IndexBlocks(g) - 1) :
                t[<<r, 2 * k + 2>>] = Turned(g, t[<<r, 2 * k>>], t[<<r, 2 * k + 1>>])
          /\ r # 0 => t[<<r, 0>>] = t[<<r - 1, 2 * IndexBlocks(g)>>]
    /\ \A cur \in 0..(IndexRows(g) * IndexBlocks(g) - 1) :
          LET r == cur \div IndexBlocks(g)
              k == cur % IndexBlocks(g)
          IN /\ cur \in 1..g.n => t[<<r, 2 * k + 1>>] = f.b[g.n + 1 - cur]
             /\ cur = g.n => t[<<r, 2 * k + 2>>] = f.x

(* With bits, and the first value one, b0 tells x from its negative.       *)
IndexMeans(g, f, t) ==
    LET index == [i \in 1..g.n |-> 1 - f.b[g.n + 1 - i]]
        x == Raise(g.omega, (CHOOSE k \in 0..(2^g.n - 1) : DigitsOf(k, 2, g.n) = index))
    IN IndexFits(g) /\ t[<<0, 0>>] = 1 /\ t[<<0, 1>>] \in {0, 1} =>
           f.x = IF t[<<0, 1>>] = 1 THEN x ELSE E(-x)

-----------------------------------------------------------------------------
(* additions and multiplications: f is the pairs; three cells for each.  A *)
(* forger is off by the same amount in the first of every pair.            *)

PairRows(g) == Ceil(3 * g.n, (g.width \div 3) * 3)
PairAt(g, r, c) == r * (g.width \div 3) + c \div 3 + 1
Triples(g) == (0..(PairRows(g) - 1)) \X (0..(g.width \div 3 - 1))

(* The pairs with their results, zeros after them.                         *)
PairsTable(g, f, results) ==
    [p \in Positions(PairRows(g), g.width) |->
        LET i == PairAt(g, p[1], p[2]) IN
        IF i > g.n \/ p[2] >= (g.width \div 3) * 3 THEN 0
        ELSE <<E(f.a[i] + f.off), f.b[i], results[i]>>[(p[2] % 3) + 1]]
PairsCopied(g, f, t) ==
    \A p \in Triples(g) :
        LET i == PairAt(g, p[1], 3 * p[2]) IN
        i <= g.n => t[<<p[1], 3 * p[2]>>] = f.a[i] /\ t[<<p[1], 3 * p[2] + 1>>] = f.b[i]

AdditionsTable(g, f) == PairsTable(g, f, [i \in 1..g.n |-> E(f.a[i] + f.off + f.b[i])])
AdditionsHold(g, f, t) ==
    /\ \A p \in Triples(g) :
          t[<<p[1], 3 * p[2] + 2>>] = E(t[<<p[1], 3 * p[2]>>] + t[<<p[1], 3 * p[2] + 1>>])
    /\ PairsCopied(g, f, t)

MultiplicationsTable(g, f) == PairsTable(g, f, [i \in 1..g.n |-> E((f.a[i] + f.off) * f.b[i])])
MultiplicationsHold(g, f, t) ==
    /\ \A p \in Triples(g) :
          t[<<p[1], 3 * p[2] + 2>>] = E(t[<<p[1], 3 * p[2]>>] * t[<<p[1], 3 * p[2] + 1>>])
    /\ PairsCopied(g, f, t)

(* The cells result_type names, one after the other.                       *)
PairResults(g, t) ==
    [i \in 1..g.n |-> t[<<(i - 1) \div (g.width \div 3), 3 * ((i - 1) % (g.width \div 3)) + 2>>]]
PairsMean(g, f, t) ==
    \A i \in 1..g.n :
        PairResults(g, t)[i] = IF g.kind = "additions" THEN E(f.a[i] + f.b[i]) ELSE E(f.a[i] * f.b[i])

-----------------------------------------------------------------------------
(* fri_array_swap: f is t and the pairs; four cells for each pair, whose   *)
(* last two are the pair, swapped unless t is zero.                        *)

SwapBlocks(g) == (g.width - 1) \div 4
SwapRows(g) == Ceil(2 * g.n, SwapBlocks(g))

ArraySwapTable(g, f) ==
    [p \in Positions(SwapRows(g), g.width) |->
        LET i == p[1] * SwapBlocks(g) + (p[2] - 1) \div 4 + 1
            k == (p[2] - 1) % 4
        IN IF p[2] = 0 THEN f.t
           ELSE IF i > g.n THEN 0
           ELSE IF k = 0 \/ k = (IF f.t = 0 THEN 2 ELSE 3) THEN f.a[i] ELSE f.b[i]]

ArraySwapHolds(g, f, t) ==
    \A r \in 0..(SwapRows(g) - 1) :
        /\ t[<<r, 0>>] = f.t
        /\ \A b \in 0..(SwapBlocks(g) - 1) :
              LET s == t[<<r, 0>>]
                  cell(k) == t[<<r, 4 * b + k>>]
                  i == r * SwapBlocks(g) + b + 1
              IN /\ cell(3) = E(cell(1) * (1 - s) + cell(2) * s)
                 /\ cell(4) = E(cell(2) * (1 - s) + cell(1) * s)
                 /\ i <= g.n => cell(1) = f.a[i] /\ cell(2) = f.b[i]

(* t is a bit where it comes from.                                         *)
ArraySwapMeans(g, f, t) ==
    f.t \in {0, 1} =>
        \A i \in 1..g.n :
            LET r == (i - 1) \div SwapBlocks(g)
                c == 4 * ((i - 1) % SwapBlocks(g))
                swapped == IF f.t = 1 THEN <<f.b[i], f.a[i]>> ELSE <<f.a[i], f.b[i]>>
            IN <<t[<<r, c + 3>>], t[<<r, c + 4>>]>> = swapped

-----------------------------------------------------------------------------
(* f1_loop (systems/snark/plonk/placeholder/detail): the product of the   *)
(* permutation and lookup arguments' verifiers, m factors                  *)
(* (1 + beta) * gamma + s + beta * t, each laid out as s, t and the        *)
(* product so far, one after the other over the columns but the first,     *)
(* which holds beta and gamma by turns.  A gate is made for every column   *)
(* the product can be in and for each of the ways beta and gamma can be    *)
(* around it, and the selectors of the ones that fit are enabled.          *)

LoopRows(g) == LET r == Ceil(3 * g.m, g.width - 1) IN IF r < 2 THEN 2 ELSE r

LastColumnUnwrapped(g) == (3 * g.m) % (g.width - 1)
LastColumn(g) ==
    LET j == (3 * g.m) % (g.width - 1) IN IF j = 0 THEN g.width - 1 ELSE j

HasGamma(g, r) == IF g.width % 3 = 1 THEN r % 2 = 1 ELSE r % 3 = 1

Factor(beta, gamma, s, t) == E((1 + beta) * gamma + s + beta * t)

(* generate_assignments; in a claim the product after f.at factors is off  *)
(* by f.off, and the ones after it go on from there.                       *)
LoopTable(g, f) ==
    LET product[i \in 0..g.m] ==
            IF i = 0 THEN 1
            ELSE E(product[i - 1] * Factor(f.beta, f.gamma, f.s[i], f.t[i])
                   + (IF i = f.at THEN f.off ELSE 0))
    IN [p \in Positions(LoopRows(g), g.width) |->
          LET i == p[1] * (g.width - 1) + p[2] - 1 IN
          IF p[2] = 0 THEN IF HasGamma(g, p[1]) THEN f.gamma ELSE f.beta
          ELSE IF i >= 3 * g.m THEN 0
          ELSE CASE i % 3 = 0 -> f.s[(i \div 3) + 1]
                 [] i % 3 = 1 -> f.t[(i \div 3) + 1]
                 [] i % 3 = 2 -> product[(i \div 3) + 1]]

(* A gate: the column and the rotation of the product, and the rotations   *)
(* of the first column where beta and gamma are; the first factor's has no *)
(* product before it.                                                      *)
Gates(first, width, rotation, beta, gamma) ==
    [i \in 1..Ceil(width - first, 3) |->
        [column |-> first + 3 * (i - 1), rotation |-> rotation, beta |-> beta, gamma |-> gamma]]

(* generate_gates: by the width, in the order of the selectors.            *)
LaterGates(width) ==
    CASE width % 3 = 1 -> Gates(3, width, 0, -1, 0) \o Gates(3, width, 0, 0, -1)
      [] width % 3 = 2 -> Gates(2, width, 0, -1, 0) \o Gates(1, width, 0, 0, -1)
                          \o Gates(3, width, 1, 0, -1)
      [] width % 3 = 0 -> Gates(1, width, 0, -1, 0) \o Gates(2, width, 0, 0, -1)
                          \o Gates(3, width, 1, 0, -1)
AllGates(width) ==
    <<[column |-> 3, rotation |-> 0, beta |-> 0, gamma |-> 1, isFirst |-> TRUE]>>
    \o Gates(3, width, 0, 0, 1) \o LaterGates(width)

(* The selectors generate_circuit enables on a row that is not the last,   *)
InnerSelectors(g, r) ==
    LET third == g.width \div 3
        first == CASE g.width % 3 = 1 -> 3 [] g.width % 3 = 2 -> 3 - (r % 3)
                   [] g.width % 3 = 0 -> IF r % 3 = 0 THEN 3 ELSE r % 3
        columns == {j \in first..(g.width - 1) : (j - first) % 3 = 0 /\ ~(r = 0 /\ j = 3)}
        position(j) ==
            CASE g.width % 3 = 1 -> (r % 2) * third + (j \div 3)
              [] g.width % 3 = 2 -> (r % 3) * third + ((j + (r % 3)) \div 3)
              [] g.width % 3 = 0 -> (r % 3) * third + ((j + (r % 3)) \div 3)
                                    - (IF r % 3 = 2 THEN 1 ELSE 0)
    IN {<<position(j), r>> : j \in columns}

(* on the last one, where the gates must not look at a next row,           *)
LastSelectors(g) ==
    LET r == LoopRows(g) - 1
        third == g.width \div 3
        turn == IF g.width % 3 = 1 THEN 2 - (r % 2) ELSE r % 3
        first == CASE g.width % 3 = 1 -> 3 [] g.width % 3 = 2 -> 3 - turn
                   [] g.width % 3 = 0 -> IF turn = 0 THEN 3 ELSE turn
        back == IF g.width % 3 # 1 /\ turn = 0 THEN 1 ELSE 0
        position(j) ==
            CASE g.width % 3 = 1 -> turn * third + (j \div 3)
              [] g.width % 3 = 2 -> turn * third + ((j + turn) \div 3) + back * (g.width - 1)
              [] g.width % 3 = 0 -> turn * third + ((j + turn) \div 3)
                                    - (IF turn = 2 THEN 1 ELSE 0) + back * (g.width - 1)
    IN {<<position(j), r - back>> : j \in {j \in first..LastColumn(g) : (j - first) % 3 = 0}}

(* and in all; selectors are numbered from zero.                           *)
Selectors(g) ==
    {<<0, 0>>} \cup
    (IF 3 * g.m + 1 > g.width
     THEN (UNION {InnerSelectors(g, r) : r \in 0..(LoopRows(g) - 2)}) \cup LastSelectors(g)
     ELSE {<<j \div 3, 0>> : j \in {j \in 6..LastColumn(g) : j % 3 = 0}})

(* The cell that is some cells before a column of a row.                   *)
Back(width, r, column, cells) ==
    IF column > cells THEN <<r, column - cells>> ELSE <<r - 1, width - 1 + column - cells>>

GateHolds(g, tbl, gate, row) ==
    LET r == row + gate.rotation
        value == Factor(tbl[<<row + gate.beta, 0>>], tbl[<<row + gate.gamma, 0>>],
                        tbl[Back(g.width, r, gate.column, 2)], tbl[Back(g.width, r, gate.column, 1)])
    IN tbl[<<r, gate.column>>] =
          IF "isFirst" \in DOMAIN gate THEN value
          ELSE E(tbl[Back(g.width, r, gate.column, 3)] * value)

LoopHolds(g, f, tbl) ==
    /\ \A e \in Selectors(g) : GateHolds(g, tbl, AllGates(g.width)[e[1] + 1], e[2])
    /\ \A r \in 0..(LoopRows(g) - 1) :
          tbl[<<r, 0>>] = IF HasGamma(g, r) THEN f.gamma ELSE f.beta
    /\ \A i \in 0..(3 * g.m - 1) :
          LET cell == tbl[<<i \div (g.width - 1), (i % (g.width - 1)) + 1>>] IN
          /\ i % 3 = 0 => cell = f.s[(i \div 3) + 1]
          /\ i % 3 = 1 => cell = f.t[(i \div 3) + 1]

Output(g) ==
    <<IF 3 * g.m + 1 <= g.width THEN 0 ELSE LoopRows(g) - 1, LastColumn(g)>>

LoopMeans(g, f, tbl) ==
    LET product[i \in 0..g.m] ==
            IF i = 0 THEN 1
            ELSE E(product[i - 1] * Factor(f.beta, f.gamma, f.s[i], f.t[i]))
    IN tbl[Output(g)] = product[g.m]
=============================================================================
