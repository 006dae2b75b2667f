--------------------------- MODULE PlaceholderVerifier ---------------------------
(***************************************************************************)
(* The parts of the verifier of Placeholder proofs that are calls of other *)
(* components: the gates' and the lookups' arguments, expressions, the last*)
(* polynomial of FRI, and the verifier itself (components/systems/snark/   *)
(* plonk/placeholder and plonk/verifier).  A program is its calls, the rows*)
(* it declares, what it has to give, and the cells its code looks for      *)
(* results in.  Both passes of every one of them make the same calls.      *)
(***************************************************************************)
EXTENDS PlaceholderGadgets, RowGadgets, SequencesExt, TLC

(* Any function of three values for Poseidon, with the rows it takes.      *)
HashRows == 2
Hash(a, b, c) == E(E((a + 7) * (a + 7)) * (a + 2) + E((b + 3) * (b + 5)) + E((c + 11) * (c + b)) + 29 * c)

(* The field's elements whose power is the domain's size, and an index of  *)
(* n bits that are one less each, lowest first.                            *)
RootOfUnity(size) == Raise(5, (Prime - 1) \div size)
IndexOf(bits) == FoldLeft(LAMBDA n, b : 2 * n + 1 - b, 0, Reverse(bits))

(* What the components called promise; bits and an index are one if they   *)
(* are what they should be.                                                *)
Promised(op, a) ==
    CASE op = "add" -> E(a[1] + a[2])
      [] op = "sub" -> E(a[1] - a[2])
      [] op = "mul" -> E(a[1] * a[2])
      [] op = "gate" -> E(a[2] * Horner(a[1], Reverse(SubSeq(a, 3, Len(a)))))
      [] op = "products" ->
            LET m == (Len(a) - 2) \div 2 IN
            FoldSeq(LAMBDA i, p : E(p * Factor(a[1], a[2], a[2 + i], a[2 + m + i])), 1, [i \in 1..m |-> i])
      [] op = "differences" ->
            LET m == Len(a) \div 3 IN
            FoldSeq(LAMBDA i, s : E(s + (a[m + i] - a[2 * m + i]) * a[i]), 0, [i \in 1..m |-> i])
      [] op = "mask" -> E(1 - (a[1] + a[2]))
      [] op = "F0" -> E((1 - a[1]) * a[2])
      [] op = "F1" -> E(a[2] * E(a[1] * a[1] - a[1]))
      [] op = "F2" -> E(a[2] * E(a[4] * a[3] - a[1] * a[5]))
      [] op = "hash" -> Hash(a[1], a[2], a[3])
      [] op = "pow" -> Raise(a[1], a[2])
      [] op = "first" -> IF a[1] = 0 THEN a[2] ELSE a[3]
      [] op = "second" -> IF a[1] = 0 THEN a[3] ELSE a[2]
      [] op = "bit" -> IF a[1] \in {0, 1} THEN 1 ELSE 0
      [] op = "index" ->
            LET bits == SubSeq(a, 3, Len(a))
                x == Raise(a[2], IndexOf(bits))
            IN IF Range(bits) \subseteq {0, 1} /\ a[1] \in {x, E(-x)} THEN 1 ELSE 0
      [] op = "skipped" -> 0
Height(call) == call.rows

W == INSTANCE Wiring

(* A call puts its result in a cell, seen from its first row.              *)
Call(to, op, in, rows, cell) == [to |-> to, op |-> op, in |-> in, rows |-> rows, cell |-> cell]
Number(n) == <<"number", E(n)>>
X(s) == <<s>>
Loop(n, calls(_)) == FlattenSeq([i \in 1..n |-> calls(i)])
Named(name, first, n) == [i \in 1..n |-> <<name, first + i>>]
Multiply(to, a, b) == Call(to, "mul", <<a, b>>, 1, <<0, 2>>)
GateCall(to, width, theta, coefficients, q) ==
    LET g == [width |-> width, d |-> Len(coefficients) - 1] IN
    Call(to, "gate", <<theta, q>> \o coefficients, GateRows(g), GateOutput(g))

(* Where the result of the last call that gives a variable is.             *)
PlaceOf(calls, name) ==
    LET k == CHOOSE k \in DOMAIN calls :
                calls[k].to = name /\ \A j \in (k + 1)..Len(calls) : calls[j].to # name
    IN <<W!RowOf(calls, k) + calls[k].cell[1], calls[k].cell[2]>>

-----------------------------------------------------------------------------
(* basic_constraints_verifier: the constraints of each gate, joined by     *)
(* powers of theta and multiplied by its selector, then the gates; those   *)
(* after the first go on where the constraints of the ones before end.     *)

SizesBefore(g, i) == SumOf(SubSeq(g.sizes, 1, i - 1))
SelectedGate(g, i) ==
    LET constraints == Named("C", SizesBefore(g, i), g.sizes[i]) IN
    IF g.sizes[i] = 1 THEN Multiply(<<"G", i>>, constraints[1], <<"q", i>>)
    ELSE GateCall(<<"G", i>>, g.width, X("theta"), constraints, <<"q", i>>)
JoinedGates(g) ==
    LET end == Len(g.sizes)
        starting(k) == {i \in 1..end : SizesBefore(g, i) = k}
    IN GateCall(X("output"), g.width, X("theta"),
                [k \in 1..(SizesBefore(g, end) + 1) |->
                    IF starting(k - 1) = {} THEN Number(0) ELSE <<"G", CHOOSE i \in starting(k - 1) : TRUE>>],
                Number(1))
ConstraintsRows(g) ==
    LET rows(d) == GateRows([width |-> g.width, d |-> d])
        end == Len(g.sizes)
    IN SumOf([i \in 1..end |-> IF g.sizes[i] = 1 THEN 1 ELSE rows(g.sizes[i] - 1)])
       + (IF end > 1 THEN rows(SizesBefore(g, end)) ELSE 0)
ConstraintsVerifier(g) ==
    LET end == Len(g.sizes)
        result == IF end = 1 THEN <<"G", 1>> ELSE X("output")
    IN [calls |-> [i \in 1..end |-> SelectedGate(g, i)] \o (IF end > 1 THEN <<JoinedGates(g)>> ELSE <<>>),
        rows |-> ConstraintsRows(g), results |-> <<result>>, ties |-> {},
        places |-> {<<result, <<ConstraintsRows(g) - 1, IF g.sizes = <<1>> THEN 2 ELSE g.width - 1>>>>}]

(* The sum of every constraint of a gate, its selector and theta to the    *)
(* number of constraints before it.                                        *)
ConstraintsMeant(g, v) ==
    <<E(SumOf([i \in 1..Len(g.sizes) |->
               E(v[<<"q", i>>] * E(SumOf([k \in 1..g.sizes[i] |->
                     LET n == SizesBefore(g, i) + k IN E(v[<<"C", n>>] * Raise(v[X("theta")], n - 1))])))]))>>

-----------------------------------------------------------------------------
(* lookup_verifier: g.tables says of each table how many columns and how   *)
(* many options it has, g.lookups how many inputs each lookup constraint   *)
(* has and which gate it is of.                                            *)

Options(g) == SumOf([i \in DOMAIN g.tables |-> g.tables[i].options])
Sorts(g) == Options(g) + Len(g.lookups)
OptionOf(g, i, j) == SumOf([k \in 1..(i - 1) |-> g.tables[k].options]) + j
TablePart(g, i) ==
    Loop(g.tables[i].options, LAMBDA j :
        LET n == OptionOf(g, i, j)
            columns(name) == [k \in 1..g.tables[i].columns |-> <<name, n, k>>]
            gate(selector, name) ==
                GateCall(X("gate"), g.width, X("theta"), <<Number(i)>> \o columns(name), <<selector, i>>)
        IN <<gate("table", "option"), Multiply(<<"value", n>>, X("gate"), X("mask")),
             gate("shifted_table", "shifted_option"),
             Multiply(<<"shifted", n>>, X("gate"), X("shifted_mask"))>>)
LookupPart(g) ==
    [n \in DOMAIN g.lookups |->
        GateCall(<<"input", n>>, g.width, X("theta"),
                 <<<<"table_id", n>>>> \o [k \in 1..g.lookups[n].inputs |-> <<"lookup", n, k>>],
                 <<"gate_selector", g.lookups[n].gate>>)]

LoopCall(g, to, s, t) ==
    LET h == [width |-> g.width, m |-> Len(s)] IN
    Call(to, "products", <<X("beta"), X("gamma")>> \o s \o t, LoopRows(h), Output(h))
DifferencesCall(g, s, t) ==
    LET h == [width |-> g.width, m |-> Len(s)] IN
    Call(X("F3_loop"), "differences", Named("alpha", 0, Len(s)) \o s \o t, F3Rows(h),
         <<F3Rows(h) - 1, F3LastColumn(h) - 1>>)
Masks ==
    <<Call(X("mask"), "mask", <<<<"q_last", 1>>, <<"q_blind", 1>>>>, 1, <<0, 2>>),
      Call(X("shifted_mask"), "mask", <<<<"q_last", 2>>, <<"q_blind", 2>>>>, 1, <<0, 2>>)>>
LastRows(w) == 4 \div w + 5 \div w + 2
LookupEnd(g) ==
    LET w == g.width
        at(i) == <<i \div w, i % w>>
    IN <<Call(X("F0"), "F0", <<<<"V_L", 1>>, X("L0")>>, 0, at(2)),
         Call(X("F1"), "F1", <<<<"V_L", 1>>, <<"q_last", 1>>>>, 4 \div w + 1, at(4)),
         Call(X("F2"), "F2", <<<<"V_L", 1>>, X("mask"), X("h"), <<"V_L", 2>>, X("g")>>, 5 \div w + 1, at(5))>>
LookupCalls(g) ==
    LET k == Sorts(g)
        options == Options(g)
        inputs == Named("input", 0, Len(g.lookups))
    IN Masks \o Loop(Len(g.tables), LAMBDA i : TablePart(g, i)) \o LookupPart(g)
       \o <<LoopCall(g, X("h"), Named("sorted", 0, k), Named("sorted", k, k)),
            LoopCall(g, X("g1"), inputs, inputs),
            LoopCall(g, X("g2"), Named("value", 0, options), Named("shifted", 0, options)),
            Multiply(X("g"), X("g1"), X("g2")),
            DifferencesCall(g, Named("sorted", 1, k - 1), Named("sorted", 2 * k, k - 1)),
            Multiply(X("F3"), X("F3_loop"), X("L0"))>>
       \o LookupEnd(g)

(* The rows it declares, counted again to find the cells of the products.  *)
RowsToLoops(g) ==
    LET gate(d) == GateRows([width |-> g.width, d |-> d]) IN
    2 + SumOf([i \in DOMAIN g.tables |-> g.tables[i].options * (2 * gate(g.tables[i].columns) + 2)])
    + SumOf([n \in DOMAIN g.lookups |-> gate(g.lookups[n].inputs)])
Loops(g, m) == LoopRows([width |-> g.width, m |-> m])
RowsToProduct(g) ==
    RowsToLoops(g) + Loops(g, Sorts(g)) + Loops(g, Options(g)) + Loops(g, Len(g.lookups)) + 1
LookupRows(g) ==
    RowsToProduct(g) + F3Rows([width |-> g.width, m |-> Sorts(g) - 1]) + 1 + LastRows(g.width)
LookupPlaces(g) ==
    LET w == g.width
        column == (3 * Sorts(g)) % (w - 1)
        h == <<RowsToLoops(g) + Loops(g, Sorts(g)) - (IF 3 * Sorts(g) + 1 <= w THEN 2 ELSE 1),
               IF column = 0 THEN w - 1 ELSE column>>
        last == LookupRows(g) - LastRows(w)
    IN {<<X("h"), h>>, <<X("g"), <<RowsToProduct(g) - 1, 2>>>>, <<X("mask"), <<0, 2>>>>,
        <<X("F0"), <<last + 2 \div w, 2 % w>>>>, <<X("F1"), <<last + 4 \div w, 4 % w>>>>,
        <<X("F2"), <<LookupRows(g) - 1, 5 % w>>>>, <<X("F3"), <<last - 1, 2>>>>}
LookupVerifier(g) ==
    [calls |-> LookupCalls(g), rows |-> LookupRows(g), places |-> LookupPlaces(g), ties |-> {},
     results |-> <<X("F0"), X("F1"), X("F2"), X("F3")>>]

(* The four parts of the lookup argument, by the protocol's formulas.      *)
LookupMeant(g, v) ==
    LET at(name) == v[name]
        mask(p) == E(1 - v[<<"q_last", p>>] - v[<<"q_blind", p>>])
        line(id, cells) == E(id + SumOf([k \in DOMAIN cells |-> E(v[cells[k]] * Raise(at(X("theta")), k))]))
        option(name, selector, p) ==
            [n \in 1..Options(g) |->
                LET i == CHOOSE i \in DOMAIN g.tables : n \in OptionOf(g, i, 1)..OptionOf(g, i, g.tables[i].options)
                IN E(E(mask(p) * v[<<selector, i>>])
                     * line(i, [k \in 1..g.tables[i].columns |-> <<name, n, k>>]))]
        input == [n \in DOMAIN g.lookups |->
                    E(v[<<"gate_selector", g.lookups[n].gate>>]
                      * line(v[<<"table_id", n>>], [k \in 1..g.lookups[n].inputs |-> <<"lookup", n, k>>]))]
        joined(s, t) == FoldSeq(LAMBDA i, p : E(p * Factor(at(X("beta")), at(X("gamma")), s[i], t[i])), 1,
                                [i \in DOMAIN s |-> i])
        k == Sorts(g)
        sorted(first, n) == [i \in 1..n |-> v[<<"sorted", first + i>>]]
        h == joined(sorted(0, k), sorted(k, k))
        product == E(joined(input, input)
                     * joined(option("option", "table", 1), option("shifted_option", "shifted_table", 2)))
    IN <<E((1 - v[<<"V_L", 1>>]) * at(X("L0"))),
         E(v[<<"q_last", 1>>] * E(v[<<"V_L", 1>>] * (v[<<"V_L", 1>>] - 1))),
         E(mask(1) * E(v[<<"V_L", 2>>] * h - v[<<"V_L", 1>>] * product)),
         E(at(X("L0")) * E(SumOf([i \in 1..(k - 1) |->
              E(v[<<"alpha", i>>] * (v[<<"sorted", i + 1>>] - v[<<"sorted", 2 * k + i>>]))])))>>

-----------------------------------------------------------------------------
(* expression_evaluation_component: an expression becomes additions,       *)
(* subtractions and multiplications in a batch, a term's coefficient only  *)
(* if it is not one, and a power by squaring.  s is the calls so far, the  *)
(* variable the last part is in, and how many names were given.            *)

Term(coefficient, vars) == [type |-> "term", coefficient |-> coefficient, vars |-> vars]
Var(name) == Term(1, <<name>>)
Power(of, power) == [type |-> "pow", of |-> of, power |-> power]
Binary(op, left, right) == [type |-> op, left |-> left, right |-> right]

Batched(s, op, a, b) ==
    LET to == <<"value", s.n>> IN
    [calls |-> Append(s.calls, Call(to, op, <<a, b>>, 0, <<0, 2>>)), at |-> to, n |-> s.n + 1]
At(s, name) == [s EXCEPT !.at = name]
VisitTerm(s, e) ==
    IF e.vars = <<>> THEN At(s, Number(e.coefficient))
    ELSE LET start == IF E(e.coefficient) = 1 THEN At(s, e.vars[1])
                      ELSE Batched(s, "mul", Number(e.coefficient), e.vars[1])
         IN FoldLeft(LAMBDA t, name : Batched(t, "mul", t.at, name), start, Tail(e.vars))
RECURSIVE Squares(_, _, _, _)
Squares(s, result, base, power) ==
    IF power = 1 THEN Batched(s, "mul", result, base)
    ELSE IF power % 2 = 0
    THEN LET squared == Batched(s, "mul", base, base) IN Squares(squared, result, squared.at, power \div 2)
    ELSE LET product == Batched(s, "mul", result, base) IN Squares(product, product.at, base, power - 1)
RECURSIVE Visit(_, _)
Visit(s, e) ==
    CASE e.type = "term" -> VisitTerm(s, e)
      [] e.type = "pow" ->
            LET of == Visit(s, e.of) IN
            IF e.power = 1 THEN of ELSE Squares(of, Number(1), of.at, e.power)
      [] OTHER ->
            LET left == Visit(s, e.left)
                right == Visit(left, e.right)
            IN Batched(right, e.type, left.at, right.at)
NothingVisited == [calls |-> <<>>, at |-> Number(0), n |-> 0]
ExpressionEvaluation(e) ==
    LET end == Visit(NothingVisited, e) IN
    [calls |-> end.calls, rows |-> 0, results |-> <<end.at>>, ties |-> {}, places |-> {}]

RECURSIVE ValueOf(_, _)
ValueOf(e, v) ==
    CASE e.type = "term" -> FoldSeq(LAMBDA name, p : E(p * v[name]), E(e.coefficient), e.vars)
      [] e.type = "pow" -> Raise(ValueOf(e.of, v), e.power)
      [] OTHER -> Promised(e.type, <<ValueOf(e.left, v), ValueOf(e.right, v)>>)

Expressions ==
    LET x == <<"x", 1>>
        y == <<"x", 2>>
        z == <<"x", 3>>
    IN <<Term(7, <<>>), Binary("add", Term(3, <<x, y>>), Term(5, <<>>)), Power(Var(x), 1),
         Binary("sub", Power(Binary("add", Var(x), Term(2, <<y>>)), 6), Var(z)),
         Binary("mul", Power(Var(y), 7), Binary("sub", Term(1, <<x, x, z>>), Power(Var(z), 2))),
         Power(Binary("mul", Var(x), Power(Var(y), 3)), 5)>>

(* final_polynomial_check: coefficients, highest first, by Horner's rule at *)
(* a point s and at -s, less the values that are claimed there.            *)
ClaimedAt(g, op, s, y) ==
    LET h[i \in 1..(g.power + 1)] ==
            IF i = 1 THEN Var(<<"c", 1>>) ELSE Binary(op, Var(<<"c", i>>), Binary("mul", Var(s), h[i - 1]))
    IN Binary("sub", h[g.power + 1], Var(y))
FinalPolynomial(g) ==
    LET visited[n \in 0..(2 * g.lambda)] ==
            IF n = 0 THEN <<NothingVisited>>
            ELSE Append(visited[n - 1],
                        Visit(Last(visited[n - 1]),
                              ClaimedAt(g, IF n % 2 = 1 THEN "add" ELSE "sub", <<"s", (n + 1) \div 2>>, <<"y", n>>)))
        all == visited[2 * g.lambda]
    IN [calls |-> Last(all).calls, rows |-> 0, results |-> <<>>, places |-> {},
        ties |-> {<<all[n].at, Number(0)>> : n \in 2..Len(all)}]
FinalPolynomialMeans(g, v) ==
    \A n \in 1..(2 * g.lambda) :
        LET s == v[<<"s", (n + 1) \div 2>>] IN
        v[<<"y", n>>] = Horner(IF n % 2 = 1 THEN s ELSE -s, [i \in 1..(g.power + 1) |-> v[<<"c", i>>]])

-----------------------------------------------------------------------------
(* plonk_flexible_verifier: the challenges, the point and the index of each*)
(* query, and the queries' Merkle paths; g is what FRI's parameters say.   *)
(* The rows of colinear_checks hold nothing of what they are given.        *)

Commitment(j) == <<"commitment", j>>
Zero == Number(0)
HashCall(to, a, b, c) == Call(to, "hash", <<a, b, c>>, HashRows, <<0, 0>>)
Domain(g) == 2^(g.init + 1)
CircuitAlphas == 8

Before(name, i, first) == IF i = 1 THEN first ELSE <<name, i - 1>>
ChallengeCalls(g) ==
    <<HashCall(X("eta"), Zero, X("vk0"), X("vk1")), HashCall(X("beta"), X("eta"), Commitment(1), Zero),
      HashCall(X("gamma"), X("beta"), Zero, Zero), HashCall(X("theta"), X("gamma"), Commitment(2), Zero)>>
    \o [i \in 1..CircuitAlphas |-> HashCall(<<"alpha", i>>, Before("alpha", i, X("theta")), Zero, Zero)]
    \o <<HashCall(X("xi"), <<"alpha", CircuitAlphas>>, Commitment(3), Zero),
         HashCall(X("fixed"), X("xi"), X("vk1"), Commitment(1)),
         HashCall(X("lpc_theta"), X("fixed"), Commitment(2), Commitment(3))>>
    \o [i \in 1..g.r |->
           HashCall(<<"fri_alpha", i>>, Before("fri_alpha", i, X("lpc_theta")), <<"fri_root", i>>, Zero)]
    \o [i \in 1..g.lambda |-> HashCall(<<"fri_x", i>>, Before("fri_x", i, <<"fri_alpha", g.r>>), Zero, Zero)]

PowRows(g) == ConstantPowRows([width |-> g.width, power |-> (Prime - 1) \div Domain(g)])
PlaceRows(g) == IndexRows([width |-> g.width, n |-> g.init])
ColinearRows(g) == Ceil(5 * g.r, (g.width - 4) \div 5)
PositionNames(g, i) == [k \in 1..g.init |-> <<"position", i, k>>]
PointCalls(g) ==
    [i \in 1..g.lambda |->
        Call(<<"x", i>>, "pow", <<<<"fri_x", i>>, Number((Prime - 1) \div Domain(g))>>, PowRows(g), <<0, 0>>)]
    \o [i \in 1..g.lambda |->
           Call(<<"index", i>>, "index", <<<<"x", i>>, Number(RootOfUnity(Domain(g)))>> \o PositionNames(g, i),
                PlaceRows(g), <<0, 0>>)]
    \o <<Call(X("skipped"), "skipped", <<>>, ColinearRows(g) * g.lambda, <<0, 0>>)>>

(* Up a tree: hash and its sibling change places as the position says.     *)
UpCalls(i, k, hash, sibling) ==
    LET inputs == <<<<"position", i, k>>, sibling, hash>> IN
    <<Call(X("left"), "first", inputs, 0, <<0, 3>>), Call(X("right"), "second", inputs, 0, <<0, 4>>),
      Call(<<"bit", i, k>>, "bit", <<<<"position", i, k>>>>, 0, <<0, 0>>),
      HashCall(hash, Zero, X("left"), X("right"))>>
PairsBefore(g, j) == SumOf(SubSeq(g.batches, 1, j - 1))
BatchCalls(g, i, j) ==
    LET hash == <<"hash", i, j>>
        first == 2 * PairsBefore(g, j)
    IN [k \in 1..g.batches[j] |->
           HashCall(hash, IF k = 1 THEN Zero ELSE hash,
                    <<"initial", i, first + 2 * k - 1>>, <<"initial", i, first + 2 * k>>)]
       \o Loop(g.init, LAMBDA k : UpCalls(i, k, hash, <<"sibling", i, (j - 1) * g.init + k>>))
SiblingsBefore(g, j) == g.init + SumOf([n \in 1..(j - 1) |-> g.init - n])
RoundCalls(g, i, j) ==
    LET hash == <<"round_hash", i, j>> IN
    <<HashCall(hash, Zero, <<"round", i, 2 * j - 1>>, <<"round", i, 2 * j>>)>>
    \o Loop(g.init - j, LAMBDA k : UpCalls(i, k, hash, <<"round_sibling", i, SiblingsBefore(g, j) + k>>))
QueryCalls(g, i) ==
    Loop(Len(g.batches), LAMBDA j : BatchCalls(g, i, j)) \o Loop(g.r - 1, LAMBDA j : RoundCalls(g, i, j))

RootOf(j) == IF j = 1 THEN X("vk1") ELSE Commitment(j - 1)
VerifierTies(g) ==
    {<<X("xi"), X("challenge")>>} \cup {<<<<"index", i>>, Number(1)>> : i \in 1..g.lambda}
    \cup {<<<<"bit", i, k>>, Number(1)>> : <<i, k>> \in (1..g.lambda) \X (1..g.init)}
    \cup {<<<<"hash", i, j>>, RootOf(j)>> : <<i, j>> \in (1..g.lambda) \X DOMAIN g.batches}
    \cup {<<<<"round_hash", i, j>>, <<"fri_root", j + 1>>>> : <<i, j>> \in (1..g.lambda) \X (1..(g.r - 1))}
VerifierRows(g) ==
    HashRows * (15 + g.r + g.lambda)
    + SumOf([j \in DOMAIN g.batches |-> HashRows * g.lambda * (g.batches[j] + g.init)])
    + SumOf([i \in 1..(g.r - 1) |-> HashRows * g.lambda * (g.init - (i - 1))])
    + (PowRows(g) + PlaceRows(g) + ColinearRows(g)) * g.lambda
FlexibleVerifier(g) ==
    [calls |-> ChallengeCalls(g) \o PointCalls(g) \o Loop(g.lambda, LAMBDA i : QueryCalls(g, i)),
     rows |-> VerifierRows(g), results |-> <<>>, places |-> {}, ties |-> VerifierTies(g)]

(* The verifier's transcript, the root a leaf's hash and its siblings give,*)
(* and what it has to accept: openings at the indices of its own points.   *)
Transcript(g, v) ==
    LET c(j) == v[Commitment(j)]
        nothing(n) == [i \in 1..n |-> <<0, 0>>]
    IN Tail(FoldLeft(LAMBDA states, pair : Append(states, Hash(Last(states), pair[1], pair[2])), <<0>>,
            <<<<v[X("vk0")], v[X("vk1")]>>, <<c(1), 0>>, <<0, 0>>, <<c(2), 0>>>> \o nothing(CircuitAlphas)
            \o <<<<c(3), 0>>, <<v[X("vk1")], c(1)>>, <<c(2), c(3)>>>>
            \o [i \in 1..g.r |-> <<v[<<"fri_root", i>>], 0>>] \o nothing(g.lambda)))
LeafOf(pairs) == FoldLeft(LAMBDA h, pair : Hash(h, pair[1], pair[2]), 0, pairs)
RootFrom(leaf, siblings, index) ==
    LET h[k \in 0..Len(siblings)] ==
            IF k = 0 THEN leaf
            ELSE IF Bit(index, k - 1) = 0 THEN Hash(0, h[k - 1], siblings[k]) ELSE Hash(0, siblings[k], h[k - 1])
    IN h[Len(siblings)]
PointIndex(g, v, i) ==
    LET x == Raise(Transcript(g, v)[15 + g.r + i], (Prime - 1) \div Domain(g)) IN
    CHOOSE n \in 0..(2^g.init - 1) : LET w == Raise(RootOfUnity(Domain(g)), n) IN x \in {w, E(-w)}
OpeningMeans(g, v, i) ==
    LET index == PointIndex(g, v, i)
        pair(name, n) == <<v[<<name, i, 2 * n - 1>>], v[<<name, i, 2 * n>>]>>
        siblings(name, first, n) == [k \in 1..n |-> v[<<name, i, first + k>>]]
    IN /\ \A j \in DOMAIN g.batches :
             v[RootOf(j)] = RootFrom(LeafOf([k \in 1..g.batches[j] |-> pair("initial", PairsBefore(g, j) + k)]),
                                     siblings("sibling", (j - 1) * g.init, g.init), index)
       /\ \A j \in 1..(g.r - 1) :
             v[<<"fri_root", j + 1>>] =
                 RootFrom(LeafOf(<<pair("round", j)>>),
                          siblings("round_sibling", SiblingsBefore(g, j), g.init - j), index % 2^(g.init - j))
ProofAccepted(g, v) ==
    v[X("challenge")] = Transcript(g, v)[13] /\ \A i \in 1..g.lambda : OpeningMeans(g, v, i)

(* A proof: trees of some values, and their openings at some indices.      *)
Noise(seed, a, b, c) == Raise(5, 7 * seed + 31 * a + 11 * b + 3 * c)
Leaves(g, seed, j, round) ==
    [l \in 0..(2^(IF round THEN g.init - j ELSE g.init) - 1) |->
        [k \in 1..(IF round THEN 1 ELSE g.batches[j]) |->
            <<Noise(seed, IF round THEN j + 10 ELSE j, l, k), Noise(seed + 1, j, k, l)>>]]
TreeNode(leaves, height) ==
    LET node[l \in 0..height, n \in DOMAIN leaves] ==
            IF l = 0 THEN LeafOf(leaves[n])
            ELSE IF n >= 2^(height - l) THEN 0 ELSE Hash(0, node[l - 1, 2 * n], node[l - 1, 2 * n + 1])
    IN node
Committed(g, seed) ==
    LET root(j, round) ==
            LET height == IF round THEN g.init - j ELSE g.init IN
            TreeNode(Leaves(g, seed, j, round), height)[height, 0]
        base == (X("vk0") :> Noise(seed, 2, 3, 5)) @@ (X("vk1") :> root(1, FALSE))
                @@ [name \in {Commitment(j) : j \in 1..(Len(g.batches) - 1)} |-> root(name[2] + 1, FALSE)]
                @@ [name \in {<<"fri_root", j>> : j \in 1..g.r} |->
                       IF name[2] = 1 THEN Noise(seed, 1, 1, 1) ELSE root(name[2] - 1, TRUE)]
    IN (X("challenge") :> Transcript(g, base)[13]) @@ base
Flipped(n) == IF n % 2 = 0 THEN n + 1 ELSE n - 1
Opened(g, seed, i, at, shown) ==
    LET leaves(j, round) == Leaves(g, seed, j, round)
        batch(n) == CHOOSE j \in DOMAIN g.batches : n \in (PairsBefore(g, j) + 1)..(PairsBefore(g, j) + g.batches[j])
        sibling(j, round, k, index) ==
            TreeNode(leaves(j, round), IF round THEN g.init - j ELSE g.init)[k - 1, Flipped(index \div 2^(k - 1))]
        round(n) == CHOOSE j \in 1..(g.r - 1) : n \in (SiblingsBefore(g, j) + 1)..SiblingsBefore(g, j + 1)
        initial(n) == leaves(batch((n + 1) \div 2), FALSE)[at][(n + 1) \div 2 - PairsBefore(g, batch((n + 1) \div 2))]
    IN [name \in {<<"position", i, k>> : k \in 1..g.init} |-> 1 - Bit(shown, name[3] - 1)]
       @@ [name \in {<<"initial", i, n>> : n \in 1..(2 * SumOf(g.batches))} |-> initial(name[3])[2 - (name[3] % 2)]]
       @@ [name \in {<<"sibling", i, n>> : n \in 1..(Len(g.batches) * g.init)} |->
             sibling((name[3] - 1) \div g.init + 1, FALSE, ((name[3] - 1) % g.init) + 1, at)]
       @@ [name \in {<<"round", i, n>> : n \in 1..(2 * (g.r - 1))} |->
             LET j == (name[3] + 1) \div 2 IN leaves(j, TRUE)[at % 2^(g.init - j)][1][2 - (name[3] % 2)]]
       @@ [name \in {<<"round_sibling", i, n>> : n \in (g.init + 1)..SiblingsBefore(g, g.r)} |->
             LET j == round(name[3]) IN sibling(j, TRUE, name[3] - SiblingsBefore(g, j), at % 2^(g.init - j))]
RECURSIVE AllOpened(_, _, _, _)
AllOpened(g, seed, i, in) ==
    IF i > g.lambda THEN in
    ELSE LET index == PointIndex(g, in, i) IN AllOpened(g, seed, i + 1, Opened(g, seed, i, index, index) @@ in)
ProofOf(g, seed) == AllOpened(g, seed, 1, Committed(g, seed))
ForgedProofs(g, seed) ==
    LET honest == ProofOf(g, seed) IN
    {[honest EXCEPT ![name] = E(@ + 1)] : name \in DOMAIN honest}
    \cup {Opened(g, seed, 1, at, shown) @@ honest : <<at, shown>> \in (0..(2^g.init - 1)) \X (0..(2^g.init - 1))}

-----------------------------------------------------------------------------
(* What is tried: inputs of any kind for the arguments and the expressions,*)
(* coefficients with their values or others, and proofs.                   *)

VerifierKinds == {"constraints_verifier", "lookup_verifier", "expression", "final_polynomial", "flexible_verifier"}
ProgramOf(g) ==
    CASE g.kind = "constraints_verifier" -> ConstraintsVerifier(g)
      [] g.kind = "lookup_verifier" -> LookupVerifier(g)
      [] g.kind = "expression" -> ExpressionEvaluation(Expressions[g.n])
      [] g.kind = "final_polynomial" -> FinalPolynomial(g)
      [] g.kind = "flexible_verifier" -> FlexibleVerifier(g)

InputNames(program) ==
    {name \in UNION {Range(call.in) : call \in Range(program.calls)} \ {call.to : call \in Range(program.calls)} :
        name[1] # "number"}
Values(names, seed) ==
    [name \in names |-> Noise(seed, IF Len(name) > 1 THEN name[2] ELSE 40, IF Len(name) > 2 THEN name[3] ELSE 0,
                              (CHOOSE k \in 0..18 : name[1] = <<"theta", "beta", "gamma", "L0", "V_L", "q_last",
                                  "q_blind", "C", "q", "gate_selector", "table_id", "lookup", "table", "option",
                                  "shifted_table", "shifted_option", "sorted", "alpha", "x">>[k + 1]))]
PolynomialInputs(g, seed) ==
    LET c == [i \in 1..(g.power + 1) |-> Noise(seed, i, 0, 0)]
        s(i) == Noise(seed, 0, i, 1)
    IN [name \in {<<"c", i>> : i \in DOMAIN c} |-> c[name[2]]] @@ [name \in {<<"s", i>> : i \in 1..g.lambda} |-> s(name[2])]
       @@ [name \in {<<"y", n>> : n \in 1..(2 * g.lambda)} |->
             LET point == s((name[2] + 1) \div 2) IN Horner(IF name[2] % 2 = 1 THEN point ELSE -point, c)]
VerifierInputs(g, seed) ==
    CASE g.kind = "flexible_verifier" -> ProofOf(g, seed)
      [] g.kind = "final_polynomial" -> PolynomialInputs(g, seed)
      [] g.kind = "expression" -> [name \in {<<"x", i>> : i \in 1..3} |-> Noise(seed, name[2], 0, 0)]
      [] OTHER -> Values(InputNames(ProgramOf(g)), seed)

VerifierHonest(g) == {[in |-> VerifierInputs(g, seed), given |-> <<>>] : seed \in g.seeds}
VerifierTried(g) ==
    UNION {CASE g.kind = "flexible_verifier" -> {[in |-> in, given |-> <<>>] : in \in ForgedProofs(g, seed)}
             [] g.kind = "final_polynomial" ->
                   LET in == PolynomialInputs(g, seed) IN
                   {[in |-> [in EXCEPT ![name] = E(@ + 1)], given |-> <<>>] : name \in DOMAIN in}
             [] OTHER -> VerifierHonest(g) : seed \in g.seeds}
VerifierTable(g, f) == W!Run(ProgramOf(g).calls, f.in, f.given).cells
VerifierHolds(g, f, t) == W!CallsHold(ProgramOf(g).calls, ProgramOf(g).ties, f.in, t)
VerifierMeant(g, v) ==
    CASE g.kind = "constraints_verifier" -> ConstraintsMeant(g, v)
      [] g.kind = "lookup_verifier" -> LookupMeant(g, v)
      [] g.kind = "expression" -> <<ValueOf(Expressions[g.n], v)>>
      [] OTHER -> <<>>
VerifierMeans(g, f, t) ==
    LET program == ProgramOf(g) IN
    /\ [k \in DOMAIN program.results |-> W!Result(program.results[k], program.calls, f.in, t)] = VerifierMeant(g, f.in)
    /\ g.kind = "flexible_verifier" => ProofAccepted(g, f.in)
    /\ g.kind = "final_polynomial" => FinalPolynomialMeans(g, f.in)
    /\ W!Rows(program.calls) = program.rows
    /\ \A place \in program.places : PlaceOf(program.calls, place[1]) = place[2]
=============================================================================
