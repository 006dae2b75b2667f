---------------------------- MODULE KimchiScalars ----------------------------
(***************************************************************************)
(* The scalar-field side of the verifier of Kimchi proofs: components that *)
(* are calls of additions, multiplications, divisions and powers only      *)
(* (components/systems/snark/plonk/kimchi).  A program is its calls, the   *)
(* rows it declares, its results -- a variable, or the row result_type     *)
(* looks at -- and its copy constraints.  Both passes of every one of them *)
(* make the same calls.  Rows left for constants are calls of "skipped".   *)
(***************************************************************************)
EXTENDS FieldValues, SequencesExt, TLC

CONSTANTS
    Generator, \* of the field's multiplicative group
    EndoFactor \* of the curve's endomorphism

(* The domain, its size, and the rows at its end for zero knowledge.       *)
DomainSize == 8
Omega == Raise(Generator, (Prime - 1) \div DomainSize)
ZkRows == 3
Rounds == 3

Product(s) == LET p[i \in 0..Len(s)] == IF i = 0 THEN 1 ELSE E(p[i - 1] * s[i]) IN p[Len(s)]
Total(s) == E(SumOf(s))
Poly(s, x) == Total([i \in 1..Len(s) |-> E(s[i] * Raise(x, i - 1))])

(* What the components called promise: what they are for.  For Poseidon's  *)
(* permutation and an expression's value any function will do.             *)
Permuted(a) ==
    LET mixed(k) == E(k + Raise(a[1], 3) + (k + 1) * a[2] + E(a[k] * a[3])) IN <<mixed(1), mixed(2), mixed(3)>>
LimbBase == 8
EndoParts(start, crumbs) ==
    LET step(at, crumb) ==
            LET s == IF crumb % 2 = 1 THEN 1 ELSE -1 IN
            IF crumb < 2 THEN [a |-> E(2 * at.a), b |-> E(2 * at.b + s)]
            ELSE [a |-> E(2 * at.a + s), b |-> E(2 * at.b)]
        parts[i \in 0..Len(crumbs)] == IF i = 0 THEN start ELSE step(parts[i - 1], crumbs[i])
    IN parts[Len(crumbs)]
ChallengeCrumbs == 3
Endo(x) ==
    LET end == EndoParts([a |-> 2, b |-> 2], DigitsOf(x, 4, ChallengeCrumbs)) IN
    E(end.a * EndoFactor + end.b)
PublicEval(a) ==
    LET n == Len(a) \div 3 IN
    E(E(a[1] - 1) * Inverted(DomainSize)) * Total([i \in 1..n |-> E(E(-a[1 + i] * a[1 + n + i]) * a[1 + 2 * n + i])])
BPoly(c, x) == Product([i \in 1..Len(c) |-> 1 + c[i] * Raise(x, 2^(Len(c) - i))])
Coefficient(c, j) ==
    Product([i \in 1..Len(c) |-> IF (j \div 2^(Len(c) - i)) % 2 = 1 THEN c[i] ELSE 1])
Zkpm(w, x) == Product([i \in 1..ZkRows |-> x - Raise(w, DomainSize - i)])
Last4(w, x) == Product([i \in 1..(ZkRows + 1) |-> x - Raise(w, DomainSize - i)])
Unnormalized(w, x, i) ==
    E((Raise(x, DomainSize) - 1) * Inverted(x - Raise(w, IF i >= 0 THEN i ELSE DomainSize + i)))
Combined(v, u, es) ==
    LET n == Len(es) \div 2 IN Total([i \in 1..n |-> E(Raise(v, i - 1) * (es[i] + E(u * es[n + i])))])
Promised(op, a) ==
    CASE op = "add" -> E(a[1] + a[2])
      [] op = "sub" -> E(a[1] - a[2])
      [] op = "mul" -> E(a[1] * a[2])
      [] op = "div" -> E(a[1] * Inverted(a[2]))
      [] op = "exp" -> Raise(a[1], a[2])
      [] op \in {"is", "cell", "beside", "skipped"} -> a[1]
      [] op \in {"constant_term", "term"} -> Poly(a, 2)
      [] op \in {"permute", "permuted"} -> Permuted(a)[a[4]]
      [] op \in {"unpack", "unpacked"} -> (a[1] \div LimbBase^a[2]) % LimbBase
      [] op = "pack" -> a[1] + a[2] * LimbBase
      [] op = "power" -> Raise(a[1], a[2])
      [] op = "lagrange" -> Inverted(a[1] - a[2])
      [] op = "public_eval" -> E(PublicEval(a))
      [] op = "b_poly_at" -> BPoly(Tail(a), a[1])
      [] op = "times" -> E(a[1] * a[2])
      [] op = "endo" -> Endo(a[1])
      [] op = "b_poly" -> BPoly(Tail(a), a[1])
      [] op = "last4" -> Last4(a[1], a[2])
      [] op = "unnormalized" -> Unnormalized(a[1], a[2], a[3])
      [] op = "zkpm" -> Zkpm(a[1], a[2])
      [] op = "zk_w3" -> Raise(a[1], DomainSize - ZkRows)
      [] op = "cip" -> Combined(a[1], a[2], SubSeq(a, 3, Len(a)))

(* Rows; a call of "skipped" says how many.                                *)
ExpRows == 3
ConstantTermRows == 5
CipRows == 3
PermuteRows == 12
UnpackRows == 2
PackRows == 1
EndoRows == 2
TermRows == 4
ZkpmRows == 1 + ExpRows + 4 + 3
BPolyRows(rounds) == (rounds - 1) + 3 * rounds
BCoefficientsRows(rounds) == 2^rounds
Last4Rows == 1 + ExpRows + 6 + 4
LagrangeRows == 3 + 2 * ExpRows + 2 + 1
Height(call) ==
    CASE call.op = "exp" -> ExpRows
      [] call.op \in {"beside", "is", "permuted", "unpacked", "power", "lagrange", "public_eval",
                     "b_poly_at", "times"} -> 0
      [] call.op = "skipped" -> call.in[1][2]
      [] call.op = "zkpm" -> ZkpmRows
      [] call.op = "zk_w3" -> ExpRows + 1
      [] call.op = "constant_term" -> ConstantTermRows
      [] call.op = "b_poly" -> BPolyRows(Rounds)
      [] call.op = "cip" -> CipRows
      [] call.op = "permute" -> PermuteRows
      [] call.op = "unpack" -> UnpackRows
      [] call.op = "endo" -> EndoRows
      [] call.op = "term" -> TermRows
      [] call.op = "last4" -> Last4Rows
      [] call.op = "unnormalized" -> LagrangeRows
      [] OTHER -> 1

W == INSTANCE Wiring

Call(to, op, in) == [to |-> to, op |-> op, in |-> in]
Number(n) == <<"number", E(n)>>
One == Number(1)
X(s) == <<s>>
Loop(n, calls(_)) == FlattenSeq([i \in 1..n |-> calls(i)])
Is(name, other) == Call(name, "is", <<other>>)
Skip(rows) == <<Call(X("skipped"), "skipped", <<<<"number", rows>>>>)>>
Row(r) == <<"row", r>>
Program(calls, rows, results) == [calls |-> calls, rows |-> rows, results |-> results, ties |-> {}]

(* kimchi_params_type, small, and the evaluations of a proof: at zeta (1)  *)
(* or at zeta times omega (2).                                             *)
KimchiColumns == 6
PermutSize == 3
Z_(p) == <<"z", p>>
GenericSelector(p) == <<"generic", p>>
PoseidonSelector(p) == <<"poseidon", p>>
W_(p, i) == <<"w", p, i>>
S_(p, i) == <<"s", p, i>>
Evaluations(p) ==
    <<Z_(p), GenericSelector(p), PoseidonSelector(p)>>
    \o [i \in 1..KimchiColumns |-> W_(p, i)] \o [i \in 1..(PermutSize - 1) |-> S_(p, i)]
PermutationAlpha == 0
GenericAlpha == 3
AlphaPowers == 5
Alpha(i) == <<"alpha", i>>

-----------------------------------------------------------------------------
(* Products over the last elements of the domain, and what is one at one   *)
(* element and zero at the others, up to a factor.                         *)

LastElements(n, exponent) ==
    <<Call(<<"w", 1>>, "exp", <<X("omega"), Number(exponent)>>)>>
    \o [i \in 1..(n - 1) |-> Call(<<"w", i + 1>>, "mul", <<<<"w", i>>, X("omega")>>)]
    \o [i \in 1..n |-> Call(<<"a", i>>, "sub", <<X("x"), <<"w", i>>>>)]
    \o <<Call(<<"ans", 2>>, "mul", <<<<"a", 1>>, <<"a", 2>>>>)>>
    \o [i \in 1..(n - 2) |-> Call(<<"ans", i + 2>>, "mul", <<<<"ans", i + 1>>, <<"a", i + 2>>>>)]

ZkpmEvaluate ==
    Program(Skip(1) \o LastElements(3, DomainSize - ZkRows), ZkpmRows, <<<<"ans", 3>>>>)
VanishesOnLast4Rows ==
    Program(Skip(1) \o LastElements(4, DomainSize - ZkRows - 1), Last4Rows, <<<<"ans", 4>>>>)
ZkW3 ==
    Program(Skip(1) \o <<Call(X("res"), "exp", <<X("omega"), Number(DomainSize - ZkRows)>>)>>,
            ExpRows + 1, <<Row(1)>>)
UnnormalizedLagrangeBasis(i) ==
    Program(Skip(3) \o
            <<Call(X("denominator"), "exp", <<X("omega"), Number(IF i >= 0 THEN i ELSE DomainSize + i)>>),
              Call(X("denominator"), "sub", <<X("x"), X("denominator")>>),
              Call(X("numerator"), "exp", <<X("x"), Number(DomainSize)>>),
              Call(X("numerator"), "sub", <<X("numerator"), One>>),
              Call(X("res"), "div", <<X("numerator"), X("denominator")>>)>>,
            LagrangeRows, <<Row(3 + 2 * ExpRows + 2)>>)

-----------------------------------------------------------------------------
(* Scalars of the linearization: evaluations are w, s, z at zeta and z1, z *)
(* at zeta times omega.                                                    *)

PermFactor(i) ==
    <<Call(X("tmp"), "mul", <<S_(1, i), X("beta")>>),
      Call(X("sum"), "add", <<X("tmp"), X("gamma")>>),
      Call(X("sum"), "add", <<X("sum"), W_(1, i)>>),
      Call(X("res"), "mul", <<X("sum"), X("res")>>)>>
PermCalls ==
    <<Call(X("res"), "mul", <<Z_(2), X("beta")>>),
      Call(X("res"), "mul", <<X("res"), Alpha(PermutationAlpha)>>),
      Call(X("res"), "mul", <<X("res"), X("zkp")>>)>>
    \o Loop(PermutSize - 1, PermFactor)
    \o <<Call(X("perm"), "mul", <<X("res"), Number(-1)>>)>>
PermRows == 3 + (PermutSize - 1) * 4 + 1
PermScalars == Program(PermCalls, PermRows, <<Row(PermRows - 1)>>)

GenericRegisters == 3
GenericParts == 2
GenericPart(p) ==
    LET register(j) == W_(1, GenericRegisters * (p - 1) + j) IN
    <<Call(<<"out", p, 5>>, "mul", <<Alpha(GenericAlpha + p - 1), GenericSelector(1)>>)>>
    \o [j \in 1..3 |-> Call(<<"out", p, j>>, "mul", <<<<"out", p, 5>>, register(j)>>)]
    \o <<Call(X("tmp"), "mul", <<register(1), register(2)>>),
         Call(<<"out", p, 4>>, "mul", <<<<"out", p, 5>>, X("tmp")>>)>>
GenericRows == 12
GenericScalars ==
    LET row(p) == 6 * (p - 1) IN
    Program(Loop(GenericParts, GenericPart), GenericRows,
            Loop(GenericParts, LAMBDA p : [j \in 1..3 |-> Row(row(p) + j)] \o <<Row(row(p) + 5), Row(row(p))>>))

-----------------------------------------------------------------------------
(* Oracles: denominators of Lagrange's polynomials, the polynomial of the  *)
(* challenges and its coefficients, powers, and evaluations combined.      *)

LagrangeDenominators(n) ==
    LET for(zeta, i) == <<Call(<<"sub", i>>, "sub", <<zeta, <<"omega", i>>>>),
                          Call(<<"div", i>>, "div", <<One, <<"sub", i>>>>)>>
    IN Program(Loop(n, LAMBDA i : for(X("zeta"), i)) \o Loop(n, LAMBDA i : for(X("zeta_omega"), i)),
               4 * n, [i \in 1..(2 * n) |-> Row(2 * i - 1)])

BPolyProgram(rounds) ==
    LET term(i) == <<Call(X("mul"), "mul", <<<<"c", i>>, <<"pow", rounds + 1 - i>>>>),
                     Call(X("sum"), "add", <<One, X("mul")>>),
                     Call(<<"res", i + 1>>, "mul", <<IF i = 1 THEN One ELSE <<"res", i>>, X("sum")>>)>>
    IN Program([i \in 1..(rounds - 1) |-> Call(<<"pow", i + 1>>, "mul", <<<<"pow", i>>, <<"pow", i>>>>)]
               \o Loop(rounds, term), BPolyRows(rounds), <<Row(BPolyRows(rounds) - 1)>>)

(* output[i] for every i but the first, whose output is one.               *)
BCoefficientsCalls(rounds) ==
    LET k(i) == CHOOSE k \in 1..rounds : 2^(k - 1) <= i /\ i < 2^k
        b(i) == IF i = 0 THEN One ELSE <<"b", i>>
    IN [i \in 1..(2^rounds - 1) |->
           Call(b(i), "mul", <<b(i - 2^(k(i) - 1)), <<"c", rounds - k(i) + 1>>>>)]
BPolyCoefficients(rounds) ==
    Program(BCoefficientsCalls(rounds), BCoefficientsRows(rounds),
            <<One>> \o [i \in 1..(2^rounds - 1) |-> <<"b", i>>])

(* The first two are cells of the first row, whatever n is.                *)
ElementPowers(n) ==
    [Program(<<Call(<<"power", 0>>, "cell", <<One>>), Call(<<"power", 1>>, "beside", <<X("base")>>)>>
             \o [k \in 1..(n - 2) |-> Call(<<"power", k + 1>>, "mul", <<<<"power", 1>>, <<"power", k>>>>)],
             IF n <= 1 THEN 1 ELSE n - 1,
             [k \in 1..n |-> IF k <= 2 THEN <<"power", k - 1>> ELSE Row(k - 2)])
     EXCEPT !.ties = {<<<<"power", 0>>, X("one")>>, <<<<"power", 1>>, X("base")>>}]

(* Every evaluation times x: those of w, z, s, of the lookup if there is   *)
(* one (sorted, aggreg, table and runtime), and of the two selectors.      *)
CombineProofEvals(evals) ==
    Program([k \in 1..Len(evals) |-> Call(<<"out", k>>, "mul", <<evals[k], X("x")>>)],
            Len(evals), [k \in 1..Len(evals) |-> Row(k - 1)])

(* The polynomial of the challenges at both points; in chunks of maxSize,  *)
(* which is less than its length if there is more than one.                *)
EvalPoints == 2
Challenges(rounds) == [k \in 1..rounds |-> <<"c", k>>]
ChunkCalls(rounds, maxSize, i) ==
    LET b(j) == IF j = 0 THEN One ELSE <<"b", j>>
        term(k) ==
            LET j == maxSize + k - 1 IN
            <<Call(X("ret"), "mul", <<X("betaacc"), b(j)>>),
              Call(X("betaacc"), "mul", <<X("betaacc"), <<"point", i>>>>),
              Call(<<"diff", i>>, "add", <<<<"diff", i>>, X("ret")>>)>>
    IN <<Is(X("betaacc"), One), Is(<<"diff", i>>, Number(0))>>
       \o (IF i = 1 THEN BCoefficientsCalls(rounds) \o Skip(1) ELSE <<>>)
       \o Loop(2^rounds - maxSize, term)
       \o <<Call(X("res"), "mul", <<<<"diff", i>>, <<"power", i>>>>),
            Call(<<"res", i>>, "sub", <<<<"full", i>>, X("res")>>)>>
PrevChalEvals(rounds, maxSize) ==
    LET split == maxSize < 2^rounds
        full(i) == <<Call(<<"full", i>>, "b_poly", <<<<"point", i>>>> \o Challenges(rounds))>>
    IN Program(Loop(EvalPoints, LAMBDA i : full(i) \o IF split THEN ChunkCalls(rounds, maxSize, i) ELSE <<>>),
               IF split
               THEN BCoefficientsRows(rounds) + EvalPoints * (BPolyRows(rounds) + (2^rounds - maxSize) * 3 + 2)
               ELSE EvalPoints * BPolyRows(rounds),
               FlattenSeq([i \in 1..EvalPoints |->
                   IF split THEN <<<<"res", i>>, <<"diff", i>>>> ELSE <<<<"full", i>>>>]))

PublicEvaluations(size) ==
    LET term(j, i) ==
            <<Call(X("term"), "mul", <<<<"lagrange", (j - 1) * size + i>>, Number(-1)>>),
              Call(X("term"), "mul", <<X("term"), <<"public", i>>>>),
              Call(X("term"), "mul", <<X("term"), <<"omega", i>>>>),
              Call(<<"res", j>>, "add", <<<<"res", j>>, X("term")>>)>>
        point(j) ==
            Loop(size, LAMBDA i : term(j, i))
            \o <<Call(X("multiplier"), "sub", <<<<"zeta_pow_n", j>>, One>>),
                 Call(X("multiplier"), "div", <<X("multiplier"), X("domain_size")>>),
                 Call(<<"res", j>>, "mul", <<<<"res", j>>, X("multiplier")>>)>>
        first == <<Call(<<"first", 1>>, "cell", <<Number(0)>>), Call(<<"first", 2>>, "beside", <<Number(0)>>),
                   Is(<<"res", 1>>, <<"first", 1>>), Is(<<"res", 2>>, <<"first", 2>>)>>
        row(j) == (4 * size + 3) * j
    IN [Program(first \o point(1) \o point(2), 1 + (4 * size + 3) * 2, <<Row(row(1)), Row(row(2))>>)
        EXCEPT !.ties = {<<<<"first", j>>, X("zero")>> : j \in 1..2}]
=============================================================================
