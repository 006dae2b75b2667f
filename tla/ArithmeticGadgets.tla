--------------------------- MODULE ArithmeticGadgets ---------------------------
(***************************************************************************)
(* Components on single field elements: an operation of two of them, the   *)
(* square root, Poseidon's permutation, the scalar a curve's endomorphism  *)
(* makes of a challenge, the limbs of an element, and FRI's folding.       *)
(***************************************************************************)
EXTENDS FieldValues, SequencesExt, TLC

(* Numbers to fill tables with: any will do.                               *)
Arbitrary(i, j) == E((i * i + 3 * j + 5) * (7 * j + i + 2) + 11 * i)

-----------------------------------------------------------------------------
(* addition, subtraction, multiplication, multiplication_by_constant: one  *)
(* row.  calculate is what generate_empty_assignments puts in the result's *)
(* cell when it fills nothing else.                                        *)

AdditionCalculate(x, y) == E(x + y)
AdditionTable(x, y) == Grid(<<<<x, y, AdditionCalculate(x, y)>>>>, 3)
AdditionHolds(x, y, t) ==
    /\ E(t[<<0, 0>>] + t[<<0, 1>>]) = t[<<0, 2>>]
    /\ t[<<0, 0>>] = x /\ t[<<0, 1>>] = y

SubtractionCalculate(x, y) == E(x - y)
SubtractionTable(x, y) == Grid(<<<<x, y, SubtractionCalculate(x, y)>>>>, 3)
SubtractionHolds(x, y, t) ==
    /\ E(t[<<0, 0>>] - t[<<0, 1>>]) = t[<<0, 2>>]
    /\ t[<<0, 0>>] = x /\ t[<<0, 1>>] = y

MultiplicationCalculate(x, y) == E(x * y)
MultiplicationTable(x, y) == Grid(<<<<x, y, MultiplicationCalculate(x, y)>>>>, 3)
MultiplicationHolds(x, y, t) ==
    /\ E(t[<<0, 0>>] * t[<<0, 1>>]) = t[<<0, 2>>]
    /\ t[<<0, 0>>] = x /\ t[<<0, 1>>] = y

(* The constant is in a constant column, which no one else fills.          *)
MulByConstantCalculate(x, constant) == E(constant * x)
MulByConstantTable(x, constant) == Grid(<<<<x, MulByConstantCalculate(x, constant)>>>>, 2)
MulByConstantHolds(x, constant, t) ==
    /\ E(t[<<0, 0>>] * constant) = t[<<0, 1>>]
    /\ t[<<0, 0>>] = x

OperationKinds == {"native_add", "native_sub", "native_mul", "mul_by_constant"}

-----------------------------------------------------------------------------
(* sqrt: exponentiation, additions, subtractions and multiplications, after*)
(* three rows for the constants.  x is the free first cell of the row that *)
(* squares it.                                                             *)

ExponentiationRows == 3
Roots(y) == {x \in 0..(Prime - 1) : E(x * x) = y}
SqrtPromised(op, a) ==
    CASE op = "add" -> E(a[1] + a[2])
      [] op = "sub" -> E(a[1] - a[2])
      [] op = "mul" -> E(a[1] * a[2])
      [] op = "exp" -> Raise(a[1], a[2])
      [] op = "cell" -> IF Roots(a[1]) # {} THEN CHOOSE x \in Roots(a[1]) : TRUE ELSE Prime - 1
      [] op = "skipped" -> 0
SqrtHeight(call) ==
    CASE call.op = "skipped" -> 3
      [] call.op = "exp" -> ExponentiationRows
      [] call.op = "cell" -> 0
      [] OTHER -> 1
Root == INSTANCE Wiring WITH Promised <- SqrtPromised, Height <- SqrtHeight

Call(to, op, in) == [to |-> <<to>>, op |-> op, in |-> in]
SqrtRows == 3 + ExponentiationRows + 13
SqrtCalls ==
    LET zero == <<"number", 0>>
        one == <<"number", 1>>
        X(name) == <<name>>
    IN <<Call("constants", "skipped", <<>>),
         Call("qr_check", "exp", <<X("y"), <<"number", (Prime - 1) \div 2>>>>),
         Call("x", "cell", <<X("y")>>),
         Call("x_squared", "mul", <<X("x"), X("x")>>),
         Call("one_plus_qr_check", "add", <<X("qr_check"), one>>),
         Call("y_minus_x_squared", "sub", <<X("y"), X("x_squared")>>),
         Call("in_qr", "mul", <<X("qr_check"), X("one_plus_qr_check")>>),
         Call("in_qr", "mul", <<X("in_qr"), X("y_minus_x_squared")>>),
         Call("one_minus_qr_check", "sub", <<one, X("qr_check")>>),
         Call("x_plus_one", "add", <<X("x"), one>>),
         Call("in_qnr", "mul", <<X("qr_check"), X("one_minus_qr_check")>>),
         Call("in_qnr", "mul", <<X("in_qnr"), X("x_plus_one")>>),
         Call("y_eq_zero", "mul", <<X("one_minus_qr_check"), X("one_plus_qr_check")>>),
         Call("y_eq_zero", "mul", <<X("y_eq_zero"), X("x_squared")>>),
         Call("last_check", "add", <<X("in_qr"), X("in_qnr")>>),
         Call("last_check", "add", <<X("last_check"), X("y_eq_zero")>>)>>
SqrtTies == {<<<<"number", 0>>, <<"last_check">>>>}
SqrtIn(y) == (<<"y">> :> y)

(* The root of a square, and minus one for what is none; the row of the    *)
(* result is the one that squares x.                                       *)
SqrtMeans(y, t) ==
    LET x == Root!Result(<<"x">>, SqrtCalls, SqrtIn(y), t) IN
    /\ IF Roots(y) # {} THEN x \in Roots(y) ELSE x = Prime - 1
    /\ Root!Rows(SqrtCalls) = SqrtRows
    /\ Root!RowOf(SqrtCalls, 4) = 3 + ExponentiationRows

-----------------------------------------------------------------------------
(* Poseidon's permutation of three elements, and its states after each     *)
(* round.  A table holds the states one after the other.                   *)

SBox(x) == LET s == E(x * x) IN E(E(s * s) * E(s * x))
Round(s, i) ==
    LET x == <<SBox(s[1]), SBox(s[2]), SBox(s[3])>>
        mixed(j) == E(Arbitrary(j, 1) * x[1] + Arbitrary(j, 2) * x[2] + Arbitrary(j, 3) * x[3] + Arbitrary(i, j + 3))
    IN <<mixed(1), mixed(2), mixed(3)>>
States(rounds, s) ==
    FoldLeft(LAMBDA states, i : Append(states, Round(Last(states), i)), <<s>>, [i \in 1..rounds |-> i])
Permutation(rounds, s) == Last(States(rounds, s))

StateAt(t, r, block) == Cells(t, r, 3 * block, 3 * block + 2)
StatesTable(rows, width, rounds, s) ==
    LET states == FlattenSeq(States(rounds, s)) IN
    Grid([r \in 1..rows |->
            SubSeq(states, (r - 1) * width + 1, IF r * width < Len(states) THEN r * width ELSE Len(states))] \o <<>>,
         width)

(* poseidon: fifteen columns, five rounds a row, a gate for every row.     *)
RoundsPerRow == 5
PoseidonRows(g) == g.rounds \div RoundsPerRow + 1
PoseidonTable(g, s) == StatesTable(PoseidonRows(g), 15, g.rounds, s)
PoseidonHolds(g, s, t) ==
    /\ \A z \in 0..(PoseidonRows(g) - 2), block \in 0..(RoundsPerRow - 1) :
          Round(StateAt(t, z, block), z * RoundsPerRow + block + 1)
              = IF block = RoundsPerRow - 1 THEN StateAt(t, z + 1, 0) ELSE StateAt(t, z, block + 1)
    /\ StateAt(t, 0, 0) = s
PoseidonMeans(g, s, t) == StateAt(t, PoseidonRows(g) - 1, 0) = Permutation(g.rounds, s)

(* flexible_poseidon: as many states a row as there is room for.  A gate is *)
(* a row's rounds, the last ones when they do not fill a row; on row i the  *)
(* circuit's gate i is enabled, which is the component's if none came       *)
(* before: g.before is how many did.                                        *)
PerRow(g) == g.width \div 3
FlexibleRows(g) == Ceil(g.rounds + 1, PerRow(g))
FlexibleGates(g) == Ceil(g.rounds, PerRow(g))
FlexibleTable(g, s) == StatesTable(FlexibleRows(g), g.width, g.rounds, s)
GateHolds(g, gate, r, t) ==
    \A block \in 0..(PerRow(g) - 1) :
        LET round == gate * PerRow(g) + block IN
        round < g.rounds =>
            Round(StateAt(t, r, block), round + 1)
                = IF 3 * block + 5 < g.width THEN StateAt(t, r, block + 1) ELSE StateAt(t, r + 1, 0)
FlexibleHolds(g, s, t) ==
    /\ \A r \in 0..(FlexibleGates(g) - 1) : r >= g.before => GateHolds(g, r - g.before, r, t)
    /\ StateAt(t, 0, 0) = s
FlexibleMeans(g, s, t) ==
    LET filled == (g.rounds + 1) % PerRow(g) IN
    StateAt(t, FlexibleRows(g) - 1, (IF filled = 0 THEN PerRow(g) ELSE filled) - 1)
        = Permutation(g.rounds, s)

-----------------------------------------------------------------------------
(* endo_scalar: the challenge's bits two at a time, eight such crumbs a    *)
(* row; a and b become the scalar a * endo_r + b.  The numbers of the      *)
(* challenge's bits are all below the field's modulus there, and here are  *)
(* not: the crumbs are what is given.                                      *)

EndoRows == 8
CrumbsPerRow == 8
EndoR == Arbitrary(4, 4)

(* What generate_assignments adds to a or to b, after doubling both.       *)
Sign(crumb) == IF crumb % 2 = 1 THEN 1 ELSE -1
AddedToA(crumb) == IF crumb \div 2 = 0 THEN 0 ELSE Sign(crumb)
AddedToB(crumb) == IF crumb \div 2 = 0 THEN Sign(crumb) ELSE 0
EndoStart == [a |-> 2, b |-> 2, n |-> 0]

(* The two polynomials that tell a's part from b's: thirds, halves, sixths. *)
Third == Inverted(3)
Half == Inverted(2)
Sixth == Inverted(6)
Cubic(a, b, c, d, x) == E(a + E(x * E(b + E(x * E(c + E(x * d))))))
CF(x) == Cubic(0, E(11 * Sixth), E(-5 * Half), E(2 * Third), x)
DF(x) == Cubic(-1, E(29 * Sixth), E(-7 * Half), E(2 * Third), x)

(* A crumb that is none is given the polynomials' values.                  *)
EndoAfter(start, crumbs) ==
    LET from(first, base, Added(_)) == Horner(base, <<first>> \o [i \in DOMAIN crumbs |-> Added(crumbs[i])]) IN
    [a |-> from(start.a, 2, LAMBDA c : IF c \in 0..3 THEN AddedToA(c) ELSE CF(c)),
     b |-> from(start.b, 2, LAMBDA c : IF c \in 0..3 THEN AddedToB(c) ELSE DF(c)),
     n |-> from(start.n, 4, LAMBDA c : c)]
EndoTable(f) ==
    LET row(r) == SubSeq(f.crumbs, r * CrumbsPerRow + 1, (r + 1) * CrumbsPerRow)
        before(r) == EndoAfter(f.start, SubSeq(f.crumbs, 1, r * CrumbsPerRow))
        cells(r) ==
            LET now == before(r)
                then == before(r + 1)
            IN <<now.n, then.n, now.a, now.b, then.a, then.b,
                 IF r = EndoRows - 1 THEN E(then.a * EndoR + then.b) ELSE 0>> \o row(r)
    IN Grid([r \in 1..EndoRows |-> cells(r - 1)] \o <<>>, 15)

EndoHolds(f, t) ==
    /\ \A r \in 0..(EndoRows - 1) :
          LET crumbs == Cells(t, r, 7, 14)
              w(c) == t[<<r, c>>]
          IN /\ \A i \in 1..CrumbsPerRow : crumbs[i] \in 0..3
             /\ w(4) = Horner(2, <<w(2)>> \o [i \in 1..CrumbsPerRow |-> CF(crumbs[i])])
             /\ w(5) = Horner(2, <<w(3)>> \o [i \in 1..CrumbsPerRow |-> DF(crumbs[i])])
             /\ w(1) = Horner(4, <<w(0)>> \o crumbs)
    /\ t[<<EndoRows - 1, 6>>] = E(EndoR * t[<<EndoRows - 1, 4>>] + t[<<EndoRows - 1, 5>>])
    /\ \A r \in 1..(EndoRows - 1) :
          t[<<r, 0>>] = t[<<r - 1, 1>>] /\ t[<<r, 2>>] = t[<<r - 1, 4>>] /\ t[<<r, 3>>] = t[<<r - 1, 5>>]
    /\ t[<<EndoRows - 1, 1>>] = f.scalar

(* No constraint says that the first row starts from EndoStart: what comes *)
(* out is the scalar of the challenge for the start that is there.         *)
EndoMeans(f, t) ==
    LET crumbs == FlattenSeq([r \in 1..EndoRows |-> Cells(t, r - 1, 7, 14)])
        end == EndoAfter([a |-> t[<<0, 2>>], b |-> t[<<0, 3>>], n |-> t[<<0, 0>>]], crumbs)
    IN /\ \A i \in DOMAIN crumbs : crumbs[i] \in 0..3
       /\ end.n = f.scalar
       /\ t[<<EndoRows - 1, 6>>] = E(end.a * EndoR + end.b)

-----------------------------------------------------------------------------
(* from_limbs and to_limbs.  Limbs have LimbBits bits, four of them hold   *)
(* more than the field.  The second four are those of the element plus     *)
(* what the modulus is short of 2^(4 * LimbBits), with the carries of that *)
(* sum; all eight are range-checked, so that it has no fifth limb.         *)

LimbBits == 3
LimbsOf(n) == Reverse(DigitsOf(n, 2^LimbBits, 4)) \o <<>>
Shortage == 2^(4 * LimbBits) - Prime

FromLimbsTable(f) == Grid(<<<<f.limbs[1], f.limbs[2], E(2^LimbBits * f.limbs[2] + f.limbs[1])>>>>, 3)
FromLimbsHolds(f, t) ==
    /\ E(t[<<0, 0>>] + t[<<0, 1>>] * 2^LimbBits) = t[<<0, 2>>]
    /\ t[<<0, 0>>] = f.limbs[1] /\ t[<<0, 1>>] = f.limbs[2]
FromLimbsMeans(f, t) == t[<<0, 2>>] = Horner(2^LimbBits, <<f.limbs[2], f.limbs[1]>>)

(* number is what the limbs are of: the element, or with a forged table    *)
(* another number that is the element in the field, or whose limbs took    *)
(* from the next.  A forged sum has any three limbs, and the carries and    *)
(* the fourth that the gate asks for.                                      *)
Taken(limbs, k) ==
    IF k = 0 THEN limbs ELSE [limbs EXCEPT ![k] = @ + 2^LimbBits, ![k + 1] = @ - 1]
ToLimbsTable(f) ==
    LET limbs == Taken(LimbsOf(f.number), f.taken)
        sum == IF f.sum = <<>> THEN LimbsOf((f.number + Shortage) % 2^(4 * LimbBits)) ELSE f.sum
        short == LimbsOf(Shortage)
        over(x) == IF f.sum = <<>> THEN x \div 2^LimbBits ELSE E(x * Inverted(2^LimbBits))
        carry1 == over(limbs[1] + short[1] - sum[1])
        carry2 == over(limbs[2] + carry1 + short[2] - sum[2])
        carry3 == over(limbs[3] + carry2 + short[3] - sum[3])
        fourth == IF f.sum = <<>> THEN sum[4] ELSE carry3 + limbs[4] + short[4]
        cells == <<f.value>> \o limbs \o SubSeq(sum, 1, 3) \o <<fourth, carry1, carry2, carry3>>
    IN Grid(<<[i \in DOMAIN cells |-> E(cells[i])]>>, 15)
LimbsHold(t) ==
    LET w(c) == t[<<0, c>>]
        short == LimbsOf(Shortage)
        carried(c) == w(c) * 2^LimbBits
    IN /\ Horner(2^LimbBits, <<w(4), w(3), w(2), w(1)>>) = w(0)
       /\ E(w(5) + carried(9) - w(1) - short[1]) = 0
       /\ E(w(6) + carried(10) - w(9) - w(2) - short[2]) = 0
       /\ E(w(7) + carried(11) - w(10) - w(3) - short[3]) = 0
       /\ E(w(8) - w(11) - w(4) - short[4]) = 0
       /\ {w(9), w(10), w(11)} \subseteq {0, 1}
ToLimbsHolds(f, t) ==
    /\ LimbsHold(t)
    /\ \A c \in 1..8 : t[<<0, c>>] \in 0..(2^LimbBits - 1)
    /\ t[<<0, 0>>] = f.value
ToLimbsMeans(f, t) == Cells(t, 0, 1, 4) = LimbsOf(f.value)

-----------------------------------------------------------------------------
(* colinear_checks: blocks of five cells, x, b, y0, y1 and alpha of a      *)
(* round, each followed by the first four of the next round.  The gate     *)
(* leaves the first block of a row out, and nothing ties a cell to an      *)
(* input.                                                                  *)

BlocksPerRow(g) == (g.width - 4) \div 5
CheckRows(g) == Ceil(5 * g.r, BlocksPerRow(g))

(* What a line through y0 at s and y1 at minus s is at alpha.              *)
OnLine(y0, y1, s, alpha) ==
    E(E(E(alpha + s) * y0 - E(alpha - s) * y1) * Inverted(2 * s))
Side(b, x) == E(2 * E(b * x) - x)

(* After the last round a block copies what stands in its first four cells *)
(* (zeros, when nothing does), with alpha zero, and continues from there.  *)
Faked(c) ==
    LET s == Side(c[2], c[1]) IN
    <<E(c[1] * c[1]), 0, 0, IF s = 0 THEN 0 ELSE OnLine(c[3], c[4], s, 0)>>
CheckCells(g, f, r) ==
    LET block(cells, k) ==
            LET cur == r * BlocksPerRow(g) + k
                here == SubSeq(cells, Len(cells) - 3, Len(cells))
            IN IF cur <= g.r
               THEN SubSeq(cells, 1, Len(cells) - 4) \o SubSeq(f.rounds[cur], 1, 5) \o SubSeq(f.rounds[cur + 1], 1, 4)
               ELSE cells \o <<0>> \o Faked(here)
    IN FoldLeft(block, <<0, 0, 0, 0>>, [k \in 1..BlocksPerRow(g) |-> k])
CheckTable(g, f) == Grid([r \in 1..CheckRows(g) |-> CheckCells(g, f, r - 1)] \o <<>>, g.width)

CheckHolds(g, f, t) ==
    \A r \in 0..(CheckRows(g) - 1), block \in 1..(BlocksPerRow(g) - 1) :
        LET c == Cells(t, r, block * 5, block * 5 + 8)
            s == Side(c[2], c[1])
            next == E(E(c[7] * c[8]) + E(1 - c[7]) * c[9])
        IN E(E(c[5] + s) * c[3] - E(c[5] - s) * c[4]) = E(next * E(2 * s))

(* Where a block that is no row's first has a line, it passes through the  *)
(* next value.                                                             *)
CheckMeans(g, f, t) ==
    \A r \in 0..(CheckRows(g) - 1), block \in 1..(BlocksPerRow(g) - 1) :
        LET c == Cells(t, r, block * 5, block * 5 + 8)
            s == Side(c[2], c[1])
        IN s # 0 => OnLine(c[3], c[4], s, c[5]) = IF c[7] = 1 THEN c[8]
                                                  ELSE IF c[7] = 0 THEN c[9]
                                                  ELSE E(c[9] + c[7] * (c[8] - c[9]))

(* Rounds of a folding that is one: b says which of the two is the value.  *)
FoldedRounds(r, x, seed) ==
    LET bit(i) == Arbitrary(seed, i) % 2
        start == <<x, bit(1), Arbitrary(seed, 2), Arbitrary(seed, 3), Arbitrary(seed, 4)>>
        next(rounds, i) ==
            LET c == Last(rounds)
                value == OnLine(c[3], c[4], Side(c[2], c[1]), c[5])
                other == Arbitrary(seed, i + 5)
            IN Append(rounds, <<E(c[1] * c[1]), bit(i), IF bit(i) = 1 THEN value ELSE other,
                                IF bit(i) = 1 THEN other ELSE value, Arbitrary(i, seed)>>)
    IN FoldLeft(next, <<start>>, [i \in 1..r |-> i + 1])

-----------------------------------------------------------------------------

ArithmeticKinds ==
    OperationKinds \cup {"sqrt", "poseidon", "flexible_poseidon", "endo_scalar", "from_limbs", "to_limbs", "colinear"}

LimbsGiven(n, k, sum) == [value |-> E(n), number |-> n, taken |-> k, sum |-> sum]
SomeCrumbs(seed) == [i \in 1..(EndoRows * CrumbsPerRow) |-> Arbitrary(i, seed) % 4] \o <<>>
EndoGiven(crumbs, start) == [crumbs |-> crumbs, start |-> start, scalar |-> EndoAfter(start, crumbs).n]

(* What a component is given.                                              *)
ArithmeticHonest(g) ==
    CASE g.kind \in OperationKinds -> [x : {0, 1, 5, Prime - 1}, y : {0, 2, 7, Prime - 1}]
      [] g.kind = "sqrt" -> {[y |-> y, given |-> <<>>] : y \in 0..20 \cup {Prime - 1}}
      [] g.kind \in {"poseidon", "flexible_poseidon"} -> {<<Arbitrary(i, 1), Arbitrary(i, 2), Arbitrary(i, 3)>> : i \in 1..2}
      [] g.kind = "endo_scalar" -> {EndoGiven(SomeCrumbs(seed), EndoStart) : seed \in 1..2}
      [] g.kind = "from_limbs" -> {[limbs |-> <<i, j>>] : i \in 0..(2^LimbBits - 1), j \in {0, 1, 2^LimbBits - 1}}
      [] g.kind = "to_limbs" -> {LimbsGiven(x, 0, <<>>) : x \in 0..(Prime - 1)}
      [] g.kind = "colinear" -> {[rounds |-> FoldedRounds(g.r, x, seed)] : x \in {2, 5}, seed \in 1..2}

(* What anyone tries: another root, another start or a crumb that is none, *)
(* the limbs of another number.                                            *)
ArithmeticTried(g) ==
    CASE g.kind = "sqrt" ->
            {[y |-> y, given |-> (3 :> x)] : y \in {0, 1, 2, 3, 4, 5, Prime - 1}, x \in 0..(Prime - 1)}
      [] g.kind = "endo_scalar" ->
            {EndoGiven([SomeCrumbs(1) EXCEPT ![i] = crumb], [EndoStart EXCEPT !.a = a]) :
                i \in {1, 9, 64}, crumb \in {0, 3, 4}, a \in 1..2}
      [] g.kind = "to_limbs" -> {LimbsGiven(n, 0, <<>>) : n \in Prime..(2^(4 * LimbBits) - 1)}
            \cup {LimbsGiven(n, k, sum) : n \in {1, 16, 73, 512, Prime + 1}, k \in 0..3,
                                         sum \in {<<>>} \cup [1..3 -> {0, 1, 7, 8}]}
      [] OTHER -> ArithmeticHonest(g)

ArithmeticTable(g, f) ==
    CASE g.kind = "native_add" -> AdditionTable(f.x, f.y)
      [] g.kind = "native_sub" -> SubtractionTable(f.x, f.y)
      [] g.kind = "native_mul" -> MultiplicationTable(f.x, f.y)
      [] g.kind = "mul_by_constant" -> MulByConstantTable(f.x, f.y)
      [] g.kind = "sqrt" -> Root!Run(SqrtCalls, SqrtIn(f.y), f.given).cells
      [] g.kind = "poseidon" -> PoseidonTable(g, f)
      [] g.kind = "flexible_poseidon" -> FlexibleTable(g, f)
      [] g.kind = "endo_scalar" -> EndoTable(f)
      [] g.kind = "from_limbs" -> FromLimbsTable(f)
      [] g.kind = "to_limbs" -> ToLimbsTable(f)
      [] g.kind = "colinear" -> CheckTable(g, f)

ArithmeticHolds(g, f, t) ==
    CASE g.kind = "native_add" -> AdditionHolds(f.x, f.y, t)
      [] g.kind = "native_sub" -> SubtractionHolds(f.x, f.y, t)
      [] g.kind = "native_mul" -> MultiplicationHolds(f.x, f.y, t)
      [] g.kind = "mul_by_constant" -> MulByConstantHolds(f.x, f.y, t)
      [] g.kind = "sqrt" -> Root!CallsHold(SqrtCalls, SqrtTies, SqrtIn(f.y), t)
      [] g.kind = "poseidon" -> PoseidonHolds(g, f, t)
      [] g.kind = "flexible_poseidon" -> FlexibleHolds(g, f, t)
      [] g.kind = "endo_scalar" -> EndoHolds(f, t)
      [] g.kind = "from_limbs" -> FromLimbsHolds(f, t)
      [] g.kind = "to_limbs" -> ToLimbsHolds(f, t)
      [] g.kind = "colinear" -> CheckHolds(g, f, t)

(* The result's cell is what calculate says, whatever filled the table.    *)
ArithmeticMeans(g, f, t) ==
    CASE g.kind = "native_add" -> t[<<0, 2>>] = AdditionCalculate(f.x, f.y)
      [] g.kind = "native_sub" -> t[<<0, 2>>] = SubtractionCalculate(f.x, f.y)
      [] g.kind = "native_mul" -> t[<<0, 2>>] = MultiplicationCalculate(f.x, f.y)
      [] g.kind = "mul_by_constant" -> t[<<0, 1>>] = MulByConstantCalculate(f.x, f.y)
      [] g.kind = "sqrt" -> SqrtMeans(f.y, t)
      [] g.kind = "poseidon" -> PoseidonMeans(g, f, t)
      [] g.kind = "flexible_poseidon" -> FlexibleMeans(g, f, t)
      [] g.kind = "endo_scalar" -> EndoMeans(f, t)
      [] g.kind = "from_limbs" -> FromLimbsMeans(f, t)
      [] g.kind = "to_limbs" -> ToLimbsMeans(f, t)
      [] g.kind = "colinear" -> CheckMeans(g, f, t)
=============================================================================
