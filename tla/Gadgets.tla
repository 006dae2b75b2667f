--------------------------------- MODULE Gadgets ---------------------------------
(***************************************************************************)
(* Components of the library in a circuit: a component fills its rows, or  *)
(* a prover does, who is held to the gates and the copy constraints only.  *)
(* The components are those of the modules this one extends; the ones of   *)
(* FieldGadgets are over a smaller field.                                  *)
(***************************************************************************)
EXTENDS RowGadgets, BitGadgets, SequencesExt

CONSTANTS
    SmallPrime, \* the modulus of the field FieldGadgets are over
    NumberPrime, \* the one NumberGadgets are over
    NativePrime, \* the one ForeignGadgets are over
    KimchiGenerator, KimchiEndo, \* of Kimchi's field and curve
    EdwardsPrime, EdwardsD, \* of the field Ed25519 is over and of its curve
    TinyCurve, VestaCurve, PallasCurve, \* curves: prime, b, order, generator
    RowKinds,   \* the components of FieldGadgets
    Instances,  \* the components of the other modules, with their parameters
    Sample      \* field elements tried where all of them are too many

Small == INSTANCE FieldGadgets WITH Prime <- SmallPrime
Number == INSTANCE NumberGadgets WITH Prime <- NumberPrime
NonNative == INSTANCE ForeignGadgets WITH Prime <- NativePrime
Kimchi == INSTANCE KimchiVerifier WITH Generator <- KimchiGenerator, EndoFactor <- KimchiEndo
Edwards == INSTANCE EdwardsGadgets
    WITH Prime <- EdwardsPrime, D <- EdwardsD, Widths <- <<2, 1, 1, 2>>, ScalarBits <- 4
Placeholder == INSTANCE PlaceholderGadgets
Verifier == INSTANCE PlaceholderVerifier
Sha == INSTANCE Sha2
Arithmetic == INSTANCE ArithmeticGadgets
Tiny == INSTANCE CurveGadgets WITH Prime <- TinyCurve.prime, CurveB <- TinyCurve.b,
    Order <- TinyCurve.order, Generator <- TinyCurve.generator, Steps <- 2, ChunkBits <- 1
Vesta == INSTANCE CurveGadgets WITH Prime <- VestaCurve.prime, CurveB <- VestaCurve.b,
    Order <- VestaCurve.order, Generator <- VestaCurve.generator, Steps <- 2, ChunkBits <- 1
Pallas == INSTANCE CurveGadgets WITH Prime <- PallasCurve.prime, CurveB <- PallasCurve.b,
    Order <- PallasCurve.order, Generator <- PallasCurve.generator, Steps <- 2, ChunkBits <- 1

VARIABLES
    gadget, \* the component
    chosen, \* its inputs and what was chosen freely: f in the other modules
    table,  \* its cells
    by      \* "nobody", "component" or "anyone"

gadgetVars == <<gadget, chosen, table, by>>

-----------------------------------------------------------------------------
(* FieldGadgets, whose table is one row of cells *)

Field == 0..(Prime - 1)
SmallField == 0..(SmallPrime - 1)
SmallSample == {0, 1, SmallPrime - 1}
Distinct(S, n) == {x \in [1..n -> S] : \A i, j \in 1..n : i # j => x[i] # x[j]}

(* The rows a component fills, from the inputs it is made for.             *)
HonestRows(g) ==
    CASE g.kind = "flag" ->
            {Small!FlagRow(g.inequality, x, y) : x \in SmallField, y \in SmallField}
      [] g.kind = "division" ->
            {Small!DivisionRow(x, y) : x \in SmallField, y \in SmallField \ {0}}
      [] g.kind = "division_or_zero" ->
            {Small!DivisionOrZeroRow(x, y) : x \in SmallField, y \in SmallField}
      [] g.kind = "and" ->
            {Small!LaidOut("and", g.width, Small!AndValues(x, y)) :
                x \in SmallField, y \in SmallField}
      [] g.kind = "or" ->
            {Small!LaidOut("or", g.width, Small!OrValues(x, y)) :
                x \in SmallField, y \in SmallField}
      [] g.kind = "linear" ->
            {Small!LinearRow(x[1], z[1], x[2], z[2]) :
                x \in Distinct(SmallField, 2), z \in [1..2 -> SmallField]}
      [] g.kind = "quadratic" ->
            {Small!QuadraticRow(x, z) :
                x \in Distinct(SmallField, 3), z \in [1..3 -> SmallSample]}
      [] g.kind = "swap" ->
            {Small!SwapRow(b, c, d) : b \in {0, 1}, c \in SmallField, d \in SmallField}
      [] g.kind = "line" ->
            {Small!LineRow(y0, y1, s, alpha) : y0 \in SmallField, y1 \in SmallField,
                s \in SmallField \ {0}, alpha \in SmallField}
      [] g.kind = "unified" ->
            {Tiny!UnifiedRow(p, q) : p \in Tiny!Points \cup {Tiny!Zero}, q \in Tiny!Points \cup {Tiny!Zero}}

(* The rows anyone tries.                                                  *)
TriedRows(g) ==
    CASE g.kind \in {"flag", "division"} -> [1..4 -> SmallField]
      [] g.kind \in {"division_or_zero", "swap", "line"} -> [1..5 -> SmallField]
      [] g.kind = "and" -> {Small!LaidOut("and", g.width, v) : v \in [1..5 -> SmallField]}
      [] g.kind = "or" -> {Small!LaidOut("or", g.width, v) : v \in [1..7 -> SmallField]}
      [] g.kind = "linear" -> [1..7 -> SmallField]
      [] g.kind = "quadratic" ->
            {<<x[1], z[1], x[2], z[2], x[3], z[3]>> \o out :
                x \in [1..3 -> SmallSample], z \in [1..3 -> {0, 1}], out \in [1..4 -> SmallField]}
      [] g.kind = "unified" ->
            UNION {Tiny!UnifiedTried(p, q) :
                     p \in {Tiny!Times(k, TinyCurve.generator) : k \in 0..2},
                     q \in Tiny!Points \cup {Tiny!Zero}}

(* The inputs of a row, which are its first cells, and the inputs a row    *)
(* may be offered with.                                                    *)
InputsAmount(g) ==
    CASE g.kind = "quadratic" -> 6
      [] g.kind \in {"linear", "line", "unified"} -> 4
      [] g.kind = "swap" -> 3
      [] OTHER -> 2
InputsOf(g, w) == [i \in 1..InputsAmount(g) |-> w[i]]
OfferedInputs(g, w) ==
    LET in == InputsOf(g, w) \o <<>> IN
    {in} \cup {[in EXCEPT ![i] = (@ + 1) % SmallPrime] : i \in DOMAIN in}

RowHolds(g, in, w) ==
    CASE g.kind = "flag" -> Small!FlagCircuit(g.inequality, in, w)
      [] g.kind = "division" -> Small!DivisionCircuit(in, w)
      [] g.kind = "division_or_zero" -> Small!DivisionOrZeroCircuit(in, w)
      [] g.kind = "and" -> Small!AndCircuit(in, w)
      [] g.kind = "or" -> Small!OrCircuit(in, w)
      [] g.kind = "linear" -> Small!LinearCircuit(in, w)
      [] g.kind = "quadratic" -> Small!QuadraticCircuit(in, w)
      [] g.kind = "swap" -> Small!SwapCircuit(in, w)
      [] g.kind = "line" -> Small!LineCircuit(in, w)
      [] g.kind = "unified" -> Tiny!UnifiedCircuit(in, w)

(* What a row says of its inputs and its other cells.                      *)
RowMeans(g, w) ==
    CASE g.kind = "flag" -> Small!FlagMeans(g.inequality, w)
      [] g.kind = "division" -> Small!QuotientMeans(FALSE, w)
      [] g.kind = "division_or_zero" -> Small!QuotientMeans(TRUE, w)
      [] g.kind \in {"and", "or"} -> Small!LogicMeans(g.kind, w)
      [] g.kind = "linear" -> Small!InterpolationMeans(2, w)
      [] g.kind = "quadratic" -> Small!InterpolationMeans(3, w)
      [] g.kind = "swap" -> Small!SwapMeans(w)
      [] g.kind = "line" -> Small!LineMeans(w)
      [] g.kind = "unified" -> Tiny!UnifiedMeans(w)

-----------------------------------------------------------------------------
(* The components over several rows *)

(* Numbers of n bits: all, or those with one bit unlike the others.        *)
Numbers(n) ==
    IF n <= 6 THEN 0..(2^n - 1)
    ELSE LET powers == {2^i : i \in 0..(n - 1)} IN
         {0, 2^n - 1} \cup powers \cup {2^n - 1 - x : x \in powers}
Bits(n) == {DigitsOf(x, 2, n) : x \in Numbers(n)}

Chunks(g) == [1..ChunkPairs(g) -> 0..3]

ComparisonHonest(g, x, y) ==
    LET c == DigitsOf(x, 4, ChunkPairs(g))
        d == DigitsOf(y, 4, ChunkPairs(g))
    IN [x |-> x, y |-> y, c |-> c, d |-> d, flags |-> CalculatedFlags(c, d)]

(* What a component is used for and what it then chooses.                  *)
Honest(g) ==
    CASE g.kind = "vesta_mul" -> Vesta!VbsmHonest(g)
      [] g.kind \in Number!NumberKinds -> Number!NumberMeant(g)
      [] g.kind \in Arithmetic!ArithmeticKinds -> Arithmetic!ArithmeticHonest(g)
      [] g.kind \in Sha!Sha2Kinds -> Sha!Sha2Honest(g)
      [] g.kind \in Verifier!VerifierKinds -> Verifier!VerifierHonest(g)
      [] g.kind \in Placeholder!PlaceholderKinds -> Placeholder!PlaceholderHonest(g)
      [] g.kind \in Edwards!EdwardsKinds -> Edwards!EdwardsHonest(g)
      [] g.kind \in Kimchi!KimchiKinds -> Kimchi!KimchiHonest(g)
      [] g.kind \in NonNative!ForeignKinds -> NonNative!ForeignHonest(g)
      [] g.kind = "pallas_mul" -> Pallas!VbsmHonest(g)
      [] g.kind = "range" ->
            {[x |-> x, chunks |-> RangeChunks(g, x)] : x \in Field \cap 0..(2^g.bits - 1)}
      [] g.kind = "exponentiation" ->
            {[base |-> b, exponent |-> n, bits |-> DigitsOf(n, 2, PaddedSize(g))] :
                b \in Sample, n \in Field \cap 0..(2^g.size - 1)}
      [] g.kind = "pow_factor" ->
            [theta : Sample, coefficients : [1..(g.power + 1) -> {1, Prime - 1}]]
      [] g.kind = "constant_pow" -> [x : Sample, start : {1}]
      [] g.kind = "x_index" ->
            {IndexHonest(g, b, sign) : b \in Bits(g.n), sign \in {1, -1}}
      [] g.kind \in {"decomposition", "shift"} ->
            {[x |-> x, bits |-> PaddedBits(g, x)] : x \in Numbers(g.bits)}
      [] g.kind = "composition" ->
            {[in |-> IF g.msb THEN b ELSE Reverse(b), bits |-> [i \in 1..PaddingBits(g) |-> 0] \o b] :
                b \in Bits(g.bits)}
      [] g.kind = "comparison" ->
            {ComparisonHonest(g, x, y) : x \in 0..(2^g.bits - 1), y \in 0..(2^g.bits - 1)}
      [] g.kind \in {"additions", "multiplications"} ->
            [a : [1..g.n -> Sample], b : [1..g.n -> {2}], off : {0}]
      [] g.kind = "array_swap" -> [t : {0, 1}, a : [1..g.n -> Sample], b : [1..g.n -> {2}]]
      [] g.kind = "f1_loop" ->
            [beta : Sample, gamma : {3}, s : {[i \in 1..g.m |-> i]},
             t : {[i \in 1..g.m |-> E(i * i + k)] : k \in Sample}, at : {0}, off : {0}]

(* Bits that are not bits, with the sum that makes of them.                *)
Misread(g, f) ==
    LET off == {[(f.bits \o <<>>) EXCEPT ![i] = E(@ + v)] : i \in DOMAIN f.bits, v \in Sample} IN
    IF g.kind = "composition"
    THEN {[bits |-> b, in |-> LET in == SubSeq(b, PaddingBits(g) + 1, Len(b))
                              IN IF g.msb THEN in ELSE Reverse(in)] : b \in off}
    ELSE {[bits |-> b, x |-> Horner(2, b)] : b \in off}

(* What anyone tries: chunks and bits out of their range, another first    *)
(* value, another product, or what a component fills in.                   *)
Tried(g, honest) ==
    CASE g.kind = "vesta_mul" -> Vesta!VbsmTried(g)
      [] g.kind \in Number!NumberKinds -> Number!NumberTried(g)
      [] g.kind \in Arithmetic!ArithmeticKinds -> Arithmetic!ArithmeticTried(g)
      [] g.kind \in Sha!Sha2Kinds -> Sha!Sha2Tried(g)
      [] g.kind \in Verifier!VerifierKinds -> Verifier!VerifierTried(g)
      [] g.kind \in Placeholder!PlaceholderKinds -> Placeholder!PlaceholderTried(g)
      [] g.kind \in Edwards!EdwardsKinds -> Edwards!EdwardsTried(g)
      [] g.kind \in Kimchi!KimchiKinds -> Kimchi!KimchiTried(g, honest)
      [] g.kind \in NonNative!ForeignKinds -> NonNative!ForeignTried(g)
      [] g.kind = "pallas_mul" -> Pallas!VbsmTried(g)
      [] g.kind = "range" ->
            {[x |-> Horner(2^ChunkSize, c), chunks |-> c] :
                c \in [1..PaddedChunks(g) -> 0..2^ChunkSize]}
      [] g.kind = "exponentiation" ->
            {[base |-> b, exponent |-> Horner(2, bits), bits |-> bits] :
                b \in Sample, bits \in [1..PaddedSize(g) -> 0..2]}
      [] g.kind = "constant_pow" -> [x : Sample, start : Sample \cup {0}]
      [] g.kind \in {"decomposition", "composition", "shift"} ->
            UNION {Misread(g, f) : f \in honest}
      [] g.kind = "comparison" ->
            {[x |-> Horner(4, c), y |-> Horner(4, d), c |-> c, d |-> d, flags |-> flags] :
                c \in Chunks(g), d \in Chunks(g),
                flags \in [1..ChunkPairs(g) -> {0, 1, E(Lesser)}]}
      [] g.kind = "x_index" ->
            {[IndexHonest(g, b, sign) EXCEPT !.b0 = b0, !.start = start] :
                b \in Bits(g.n), sign \in {1, -1}, b0 \in Sample \cup {0}, start \in Sample}
      [] g.kind = "f1_loop" ->
            {[f EXCEPT !.at = at, !.off = off] : f \in honest, at \in 1..g.m, off \in Sample}
      [] g.kind \in {"additions", "multiplications"} ->
            {[f EXCEPT !.off = off] : f \in honest, off \in Sample}
      [] OTHER -> honest

Table(g, f) ==
    CASE g.kind = "vesta_mul" -> Vesta!VbsmTable(g, f)
      [] g.kind \in Number!NumberKinds -> Number!NumberTable(g, f)
      [] g.kind \in Arithmetic!ArithmeticKinds -> Arithmetic!ArithmeticTable(g, f)
      [] g.kind \in Sha!Sha2Kinds -> Sha!Sha2Table(g, f)
      [] g.kind \in Verifier!VerifierKinds -> Verifier!VerifierTable(g, f)
      [] g.kind \in Placeholder!PlaceholderKinds -> Placeholder!PlaceholderTable(g, f)
      [] g.kind \in Edwards!EdwardsKinds -> Edwards!EdwardsTable(g, f)
      [] g.kind \in Kimchi!KimchiKinds -> Kimchi!KimchiTable(g, f)
      [] g.kind \in NonNative!ForeignKinds -> NonNative!ForeignTable(g, f)
      [] g.kind = "pallas_mul" -> Pallas!VbsmTable(g, f)
      [] g.kind = "range" -> RangeTable(g, f)
      [] g.kind = "exponentiation" -> ExponentiationTable(g, f)
      [] g.kind = "pow_factor" -> FactorTable(g, f)
      [] g.kind = "constant_pow" -> ConstantPowTable(g, f)
      [] g.kind = "x_index" -> IndexTable(g, f)
      [] g.kind = "additions" -> AdditionsTable(g, f)
      [] g.kind = "multiplications" -> MultiplicationsTable(g, f)
      [] g.kind = "array_swap" -> ArraySwapTable(g, f)
      [] g.kind = "f1_loop" -> LoopTable(g, f)
      [] g.kind \in {"decomposition", "composition"} -> BuilderTable(g, f)
      [] g.kind = "shift" -> ShiftTable(g, f)
      [] g.kind = "comparison" -> ComparisonTable(g, f)

Holds(g, f, t) ==
    CASE g.kind = "vesta_mul" -> Vesta!VbsmHolds(g, f, t)
      [] g.kind \in Number!NumberKinds -> Number!NumberHolds(g, f, t)
      [] g.kind \in Arithmetic!ArithmeticKinds -> Arithmetic!ArithmeticHolds(g, f, t)
      [] g.kind \in Sha!Sha2Kinds -> Sha!Sha2Holds(g, f, t)
      [] g.kind \in Verifier!VerifierKinds -> Verifier!VerifierHolds(g, f, t)
      [] g.kind \in Placeholder!PlaceholderKinds -> Placeholder!PlaceholderHolds(g, f, t)
      [] g.kind \in Edwards!EdwardsKinds -> Edwards!EdwardsHolds(g, f, t)
      [] g.kind \in Kimchi!KimchiKinds -> Kimchi!KimchiHolds(g, f, t)
      [] g.kind \in NonNative!ForeignKinds -> NonNative!ForeignHolds(g, f, t)
      [] g.kind = "pallas_mul" -> Pallas!VbsmHolds(g, f, t)
      [] g.kind = "range" -> RangeHolds(g, f, t)
      [] g.kind = "exponentiation" -> ExponentiationHolds(g, f, t)
      [] g.kind = "pow_factor" -> FactorHolds(g, f, t)
      [] g.kind = "constant_pow" -> ConstantPowHolds(g, f, t)
      [] g.kind = "x_index" -> IndexHolds(g, f, t)
      [] g.kind = "additions" -> AdditionsHold(g, f, t)
      [] g.kind = "multiplications" -> MultiplicationsHold(g, f, t)
      [] g.kind = "array_swap" -> ArraySwapHolds(g, f, t)
      [] g.kind = "f1_loop" -> LoopHolds(g, f, t)
      [] g.kind = "decomposition" -> DecompositionHolds(g, f, t)
      [] g.kind = "composition" -> CompositionHolds(g, f.in, t)
      [] g.kind = "shift" -> ShiftHolds(g, f, t)
      [] g.kind = "comparison" -> ComparisonHolds(g, f, t)

Means(g, f, t) ==
    CASE g.kind = "vesta_mul" -> Vesta!VbsmMeans(g, f, t)
      [] g.kind \in Number!NumberKinds -> Number!NumberMeans(g, f, t)
      [] g.kind \in Arithmetic!ArithmeticKinds -> Arithmetic!ArithmeticMeans(g, f, t)
      [] g.kind \in Sha!Sha2Kinds -> Sha!Sha2Means(g, f, t)
      [] g.kind \in Verifier!VerifierKinds -> Verifier!VerifierMeans(g, f, t)
      [] g.kind \in Placeholder!PlaceholderKinds -> Placeholder!PlaceholderMeans(g, f, t)
      [] g.kind \in Edwards!EdwardsKinds -> Edwards!EdwardsMeans(g, f, t)
      [] g.kind \in Kimchi!KimchiKinds -> Kimchi!KimchiMeans(g, f, t)
      [] g.kind \in NonNative!ForeignKinds -> NonNative!ForeignMeans(g, f, t)
      [] g.kind = "pallas_mul" -> Pallas!VbsmMeans(g, f, t)
      [] g.kind = "range" -> RangeMeans(g, f)
      [] g.kind = "exponentiation" -> ExponentiationMeans(g, f, t)
      [] g.kind = "pow_factor" -> FactorMeans(g, f, t)
      [] g.kind = "constant_pow" -> ConstantPowMeans(g, f, t)
      [] g.kind = "x_index" -> IndexMeans(g, f, t)
      [] g.kind \in {"additions", "multiplications"} -> PairsMean(g, f, t)
      [] g.kind = "array_swap" -> ArraySwapMeans(g, f, t)
      [] g.kind = "f1_loop" -> LoopMeans(g, f, t)
      [] g.kind = "decomposition" -> DecompositionMeans(g, f, t)
      [] g.kind = "composition" -> CompositionMeans(g, f, t)
      [] g.kind = "shift" -> ShiftMeans(g, f, t)
      [] g.kind = "comparison" -> ComparisonMeans(g, f, t)

-----------------------------------------------------------------------------

GadgetsInit ==
    /\ gadget \in RowKinds \cup Instances
    /\ chosen = <<>> /\ table = <<>> /\ by = "nobody"

Written(f, t, who) == chosen' = f /\ table' = t /\ by' = who /\ UNCHANGED gadget

AssignRow ==
    /\ by = "nobody" /\ gadget \in RowKinds
    /\ \E w \in HonestRows(gadget) : Written(InputsOf(gadget, w), w, "component")
ClaimRow ==
    /\ by = "nobody" /\ gadget \in RowKinds
    /\ \E w \in TriedRows(gadget) :
          \E in \in OfferedInputs(gadget, w) : RowHolds(gadget, in, w) /\ Written(in, w, "anyone")

Assign ==
    /\ by = "nobody" /\ gadget \in Instances
    /\ \E f \in Honest(gadget) : Written(f, Table(gadget, f), "component")

Claimed(f, t) == Holds(gadget, f, t) /\ Written(f, t, "anyone")
Claim ==
    /\ by = "nobody" /\ gadget \in Instances
    /\ \E f \in Tried(gadget, Honest(gadget)) : Claimed(f, Table(gadget, f))

PrimeOf(g) ==
    CASE g.kind \in Number!NumberKinds -> NumberPrime
      [] g.kind \in NonNative!ForeignKinds -> NativePrime
      [] OTHER -> Prime

Untampered ==
    {"vesta_mul", "pallas_mul"} \cup Kimchi!KimchiKinds \cup Edwards!EdwardsKinds \cup Verifier!VerifierKinds
    \cup Sha!Sha2Kinds

(* A cell of a component's table is changed, and its inputs are not; for   *)
(* the multiplications of a point, for Kimchi's verifier, for points of    *)
(* Ed25519 and for hashes that is part of Tried.                           *)
Tamper ==
    /\ by = "component" /\ gadget \in Instances /\ gadget.kind \notin Untampered
    /\ \E cell \in DOMAIN table, value \in Sample :
          LET t == [table EXCEPT ![cell] = (@ + value) % PrimeOf(gadget)] IN
          /\ Holds(gadget, chosen, t)
          /\ Written(chosen, t, "anyone")

GadgetsNext == AssignRow \/ ClaimRow \/ Assign \/ Claim \/ Tamper

GadgetsSpec == GadgetsInit /\ [][GadgetsNext]_gadgetVars

-----------------------------------------------------------------------------
(* Properties *)

(* What a component fills in satisfies its own gates and copy constraints, *)
(* for any number of columns it may be given and whatever that makes of    *)
(* its rows, its padding and its last row.                                 *)
GadgetsComplete ==
    by = "component" =>
        IF gadget \in RowKinds THEN RowHolds(gadget, chosen, table) ELSE Holds(gadget, chosen, table)

(* What the gates and the copy constraints of a component accept, whoever  *)
(* filled it in, means what the component is for: its outputs are what its *)
(* inputs make them.                                                       *)
GadgetsSound ==
    by # "nobody" =>
        IF gadget \in RowKinds
        THEN RowMeans(gadget, chosen \o SubSeq(table, InputsAmount(gadget) + 1, Len(table)))
        ELSE Means(gadget, chosen, table)

(* comparison_flag "compares two field elements, which are both less than  *)
(* 2^{bits_amount}. This condition is checked." (comparison_flag.hpp:54)   *)
ComparedInRange ==
    by # "nobody" /\ gadget.kind = "comparison" => InRange(gadget, chosen)
=============================================================================
