--------------------------- MODULE KimchiVerifier ---------------------------
(***************************************************************************)
(* The scalar-field side of the verifier of Kimchi proofs, continued: the  *)
(* sponge and the transcript, ft at zeta, the oracles, expressions, and the*)
(* scalars of a proof and of a batch of them.                              *)
(***************************************************************************)
EXTENDS KimchiScalars

-----------------------------------------------------------------------------
(* The sponge: a state of three variables, two of which take input and give*)
(* output, the count of those in use, and whether input or output is being *)
(* taken; calls are what it has made so far, n names them.                 *)

Rate == 2
StateSize == 3
AbsorbRows == PermuteRows + 1
SqueezeRows == PermuteRows
NewSponge(n) ==
    [count |-> 0, absorbed |-> TRUE, state |-> [i \in 1..StateSize |-> Number(0)], calls |-> <<>>, n |-> n]

Permute(s) ==
    LET named(i) == <<"state", s.n, i>> IN
    [s EXCEPT !.calls = @ \o [i \in 1..StateSize |->
                                 Call(named(i), IF i = 1 THEN "permute" ELSE "permuted",
                                      s.state \o <<<<"number", i>>>>)],
              !.state = [i \in 1..StateSize |-> named(i)], !.n = @ + 1]
AddInput(s, input, i) ==
    [s EXCEPT !.calls = Append(@, Call(<<"state", s.n, i>>, "add", <<input, s.state[i]>>)),
              !.state[i] = <<"state", s.n, i>>, !.n = @ + 1]

(* Callers go on absorb_rows later, however many were used.                *)
PaddedTo(rows, before, s) ==
    [s EXCEPT !.calls = @ \o Skip(rows - (W!Rows(s.calls) - W!Rows(before.calls)))]
Absorb(s, input) ==
    PaddedTo(AbsorbRows, s,
        IF ~s.absorbed
        THEN [AddInput(s, input, 1) EXCEPT !.absorbed = TRUE, !.count = 1]
        ELSE IF s.count = Rate
        THEN [AddInput(Permute(s), input, 1) EXCEPT !.count = 1]
        ELSE [AddInput(s, input, s.count + 1) EXCEPT !.count = @ + 1])
Squeeze(s) ==
    PaddedTo(SqueezeRows, s,
        IF ~s.absorbed /\ s.count < Rate
        THEN [s EXCEPT !.count = @ + 1]
        ELSE [Permute(s) EXCEPT !.absorbed = FALSE, !.count = 1])
Squeezed(s) == s.state[s.count] \* after Squeeze
RECURSIVE AbsorbAll(_, _)
AbsorbAll(s, inputs) ==
    IF inputs = <<>> \/ s.count > Rate THEN s ELSE AbsorbAll(Absorb(s, Head(inputs)), Tail(inputs))

(* The transcript: a challenge is the lower two of the four limbs of what  *)
(* is squeezed.                                                            *)
Challenged(after, name) ==
    [after EXCEPT !.calls = @
        \o [k \in 1..4 |-> Call(<<"limb", after.n, k>>, IF k = 1 THEN "unpack" ELSE "unpacked",
                                <<Squeezed(after), <<"number", k - 1>>>>)]
        \o <<Call(name, "pack", <<<<"limb", after.n, 1>>, <<"limb", after.n, 2>>>>)>>,
        !.n = @ + 1]
Challenge(s, name) == Challenged(Squeeze(s), name)
ChallengeRows == SqueezeRows + UnpackRows + PackRows

(* What a sponge is: blocks of Rate inputs added to the state, which is    *)
(* permuted before the next block and before any output.                   *)
AbsorbedState(inputs) ==
    LET block(k) == SubSeq(inputs, Rate * (k - 1) + 1, IF Rate * k > Len(inputs) THEN Len(inputs) ELSE Rate * k)
        added(s, b) == [i \in 1..StateSize |-> IF i \in DOMAIN b THEN E(s[i] + b[i]) ELSE s[i]]
        blocks == (Len(inputs) + Rate - 1) \div Rate
        state[k \in 0..blocks] ==
            IF k = 0 THEN [i \in 1..StateSize |-> 0]
            ELSE added(IF k = 1 THEN state[0] ELSE Permuted(state[k - 1]), block(k))
    IN state[blocks]
Lower(x) == x % LimbBase^2
Transcribed(inputs, n) ==
    LET state[k \in 1..(n + 1) \div Rate] == Permuted(IF k = 1 THEN AbsorbedState(inputs) ELSE state[k - 1])
    IN Lower(state[(n + 1) \div Rate][((n - 1) % Rate) + 1])

(* random: a challenge from every proof's transcript, combined product and *)
(* opening.                                                                *)
ProofInputs(b) ==
    [i \in 1..StateSize |-> <<"transcript", b, i>>] \o <<<<"cip", b>>, <<"z1", b>>, <<"z2", b>>>>
Random(batch) ==
    LET absorbed == AbsorbAll(NewSponge(0), Loop(batch, ProofInputs)) IN
    Program(Challenge(absorbed, X("output")).calls,
            batch * (StateSize * AbsorbRows + 3 * AbsorbRows) + ChallengeRows, <<X("output")>>)
-----------------------------------------------------------------------------
(* ft at zeta, from combined evaluations.  The public evaluation, if there *)
(* is one, is subtracted from and kept in a variable of its own that        *)
(* nothing reads: a row for nothing.                                       *)

FtInit ==
    <<Call(X("zkp"), "zkpm", <<X("omega"), X("zeta")>>),
      Call(X("zeta1m1"), "sub", <<X("zeta_pow_n"), One>>),
      Call(X("ft"), "add", <<W_(1, PermutSize), X("gamma")>>),
      Call(X("ft"), "mul", <<X("ft"), Z_(2)>>),
      Call(X("ft"), "mul", <<X("ft"), Alpha(PermutationAlpha)>>),
      Call(X("ft"), "mul", <<X("ft"), X("zkp")>>)>>
FtFactor(i) ==
    <<Call(X("beta_s"), "mul", <<X("beta"), S_(1, i)>>),
      Call(X("w_beta_s"), "add", <<W_(1, i), X("beta_s")>>),
      Call(X("w_beta_s_gamma"), "add", <<X("w_beta_s"), X("gamma")>>),
      Call(X("ft"), "mul", <<X("ft"), X("w_beta_s_gamma")>>)>>
FtShiftedFactor(i) ==
    <<Call(X("beta_s"), "mul", <<X("beta"), <<"shift", i>>>>),
      Call(X("beta_zeta_s"), "mul", <<X("zeta"), X("beta_s")>>),
      Call(X("gamma_beta_zeta_s"), "add", <<X("gamma"), X("beta_zeta_s")>>),
      Call(X("w_gamma"), "add", <<W_(1, i), X("gamma_beta_zeta_s")>>),
      Call(X("ft_sub"), "mul", <<X("ft_sub"), X("w_gamma")>>)>>
FtSub ==
    <<Call(X("ft_sub"), "mul", <<Alpha(PermutationAlpha), X("zkp")>>),
      Call(X("ft_sub"), "mul", <<X("ft_sub"), Z_(1)>>)>>
    \o Loop(PermutSize, FtShiftedFactor)
    \o <<Call(X("ft"), "sub", <<X("ft"), X("ft_sub")>>)>>
FtNumerator ==
    <<Call(X("offset"), "zk_w3", <<X("omega")>>),
      Call(X("zeta_minus_w"), "sub", <<X("zeta"), X("offset")>>),
      Call(X("zeta_minus_one"), "sub", <<X("zeta"), One>>),
      Call(X("one_minus_z"), "sub", <<One, Z_(1)>>),
      Call(X("numerator"), "mul", <<X("zeta1m1"), Alpha(PermutationAlpha + 1)>>),
      Call(X("numerator"), "mul", <<X("numerator"), X("zeta_minus_w")>>),
      Call(X("term"), "mul", <<X("zeta1m1"), Alpha(PermutationAlpha + 2)>>),
      Call(X("term"), "mul", <<X("term"), X("zeta_minus_one")>>),
      Call(X("numerator"), "add", <<X("numerator"), X("term")>>),
      Call(X("numerator"), "mul", <<X("numerator"), X("one_minus_z")>>)>>
FtDenominator ==
    <<Call(X("denominator"), "mul", <<X("zeta_minus_w"), X("zeta_minus_one")>>),
      Call(X("denominator"), "div", <<One, X("denominator")>>),
      Call(X("fraction"), "mul", <<X("numerator"), X("denominator")>>),
      Call(X("ft"), "add", <<X("ft"), X("fraction")>>)>>
FtTerm ==
    <<Call(X("pt"), "constant_term", <<X("zeta"), Alpha(1), X("beta"), X("gamma")>> \o Evaluations(1)
           \o Evaluations(2) \o <<X("omega")>>),
      Call(X("ft"), "sub", <<X("ft"), X("pt")>>)>>
FtEvalCalls(public) ==
    Skip(2) \o FtInit \o Loop(PermutSize - 1, FtFactor) \o (IF public > 0 THEN Skip(1) ELSE <<>>) \o FtSub
    \o FtNumerator \o FtDenominator \o FtTerm
FtEvalRows(public) ==
    2 + ZkpmRows + 1 + 1 + 3 + (PermutSize - 1) * 4 + (IF public > 0 THEN 1 ELSE 0) + 2 + PermutSize * 5 + 1
    + (ExpRows + 1) + 3 + 5 + 1 + 1 + 1 + 1 + 1 + ConstantTermRows + 1
FtEval(public) == Program(FtEvalCalls(public), FtEvalRows(public), <<Row(FtEvalRows(public) - 1)>>)

(* f_ft(zeta) of the verifier, from what it is given.                      *)
FtMeant(v) ==
    LET zkp == Zkpm(v[X("omega")], v[X("zeta")])
        term(i) == v[W_(1, i)] + v[X("beta")] * v[S_(1, i)] + v[X("gamma")]
        w == Raise(v[X("omega")], DomainSize - ZkRows)
        zeta == v[X("zeta")]
        z == v[Z_(1)]
        last == E(E(E((v[W_(1, PermutSize)] + v[X("gamma")]) * v[Z_(2)]) * v[Alpha(PermutationAlpha)]) * zkp)
        permuted == E(last * Product([i \in 1..(PermutSize - 1) |->
                                         E(v[W_(1, i)] + v[X("beta")] * v[S_(1, i)] + v[X("gamma")])]))
        plain == E(E(E(v[Alpha(PermutationAlpha)] * zkp) * z) * Product([i \in 1..PermutSize |->
                       E(v[X("gamma")] + v[W_(1, i)] + E(v[X("beta")] * zeta) * v[<<"shift", i>>])]))
        boundary == E(E(v[X("zeta_pow_n")] - 1) * E(1 - z))
        first == E(v[Alpha(PermutationAlpha + 1)] * Inverted(zeta - 1))
        final == E(v[Alpha(PermutationAlpha + 2)] * Inverted(zeta - w))
        pt == Poly(<<zeta, v[Alpha(1)], v[X("beta")], v[X("gamma")]>>
                   \o [k \in DOMAIN Evaluations(1) |-> v[Evaluations(1)[k]]]
                   \o [k \in DOMAIN Evaluations(2) |-> v[Evaluations(2)[k]]] \o <<v[X("omega")]>>, 2)
    IN E(permuted - plain + E(boundary * E(first + final)) - pt)

-----------------------------------------------------------------------------
(* Scalars as multiplications by variable bases take them.                 *)

TopBit == Raise(2, 255)
PrepareScalars(n, larger) ==
    LET shift == IF larger THEN Number(-TopBit) ELSE Number(-TopBit - 1)
        coef == IF larger THEN One ELSE Number(Inverted(2))
    IN Program(Loop(n, LAMBDA i : <<Call(X("shifted"), "add", <<<<"scalar", i>>, shift>>),
                                    Call(<<"output", i>>, "mul", <<X("shifted"), coef>>)>>),
               2 * n, [i \in 1..n |-> <<"output", i>>])

(* The combined inner product of recursion's polynomials, of which only    *)
(* the last chunk is left, the public evaluation, ft and the evaluations.  *)
CipInput(previous, chunks, public, p, evals) ==
    [i \in 1..previous |-> <<"poly", i, p, chunks>>]
    \o (IF public > 0 THEN <<<<"p_eval", p>>>> ELSE <<>>) \o <<<<"ft_eval", p>>>> \o evals
OraclesCip(previous, chunks, public) ==
    LET input(p) == CipInput(previous, chunks, public, p, Evaluations(p)) IN
    Program(<<Call(X("cip"), "cip", <<X("v"), X("u")>> \o input(1) \o input(2))>>, CipRows, <<X("cip")>>)

-----------------------------------------------------------------------------
(* The oracles: challenges as scalars, powers, public and previous         *)
(* evaluations, the transcript, ft and the combined inner product.         *)
(* Components of several results are their rows and a call for each result.*)

Raw(p) == [i \in DOMAIN Evaluations(p) |-> <<"raw", p, i>>]
PowersCalls(name, n, base) ==
    Skip(ElementPowers(n).rows) \o [k \in 1..n |-> Call(<<name, k - 1>>, "power", <<base, Number(k - 1)>>)]
Named(name, n) == [i \in 1..n |-> <<name, i>>]
LagrangeCalls(public) ==
    Skip(4 * public)
    \o [k \in 1..(2 * public) |->
           LET i == IF k <= public THEN k ELSE k - public IN
           Call(<<"lagrange", k>>, "lagrange",
                <<IF k <= public THEN X("zeta") ELSE X("zeta_omega"), <<"omega_power", i - 1>>>>)]
PublicCalls(public) ==
    LET lagrange(p) == [i \in 1..public |-> <<"lagrange", (p - 1) * public + i>>] IN
    Skip(PublicEvaluations(public).rows)
    \o [p \in 1..2 |-> Call(<<"p_eval", p>>, "public_eval",
           <<IF p = 1 THEN X("zeta_pow_n") ELSE X("zeta_omega_pow_n")>> \o lagrange(p) \o Named("public", public)
           \o [i \in 1..public |-> <<"omega_power", i - 1>>])]
PreviousCalls(i) ==
    Skip(2 * BPolyRows(Rounds))
    \o [p \in 1..2 |-> Call(<<"poly", i, p, 1>>, "b_poly_at",
           <<IF p = 1 THEN X("zeta") ELSE X("zeta_omega")>> \o [j \in 1..Rounds |-> <<"previous", i, j>>])]
CombineCalls(p) ==
    Skip(Len(Raw(p)))
    \o [i \in DOMAIN Raw(p) |-> Call(Evaluations(p)[i], "times", <<Raw(p)[i], <<"power", p>>>>)]

OraclesStart ==
    <<Call(X("alpha"), "endo", <<X("alpha_challenge")>>), Call(X("zeta"), "endo", <<X("zeta_challenge")>>)>>
OraclesPowers(public) ==
    <<Call(X("zeta_pow_n"), "exp", <<X("zeta"), Number(DomainSize)>>),
      Call(X("zeta_omega"), "mul", <<X("zeta"), X("omega")>>),
      Call(X("zeta_omega_pow_n"), "exp", <<X("zeta_omega"), Number(DomainSize)>>)>>
    \o PowersCalls("alpha", AlphaPowers, X("alpha")) \o PowersCalls("omega_power", public, X("omega"))
    \o LagrangeCalls(public) \o PublicCalls(public)
OraclesEvaluations(previous, public) ==
    <<Call(<<"power", 1>>, "exp", <<X("zeta"), Number(2^Rounds)>>),
      Call(<<"power", 2>>, "exp", <<X("zeta_omega"), Number(2^Rounds)>>)>>
    \o Loop(previous, PreviousCalls) \o CombineCalls(1) \o CombineCalls(2)
    \o FtEvalCalls(public) \o <<Is(<<"ft_eval", 1>>, X("ft"))>>
    \o <<Call(X("cip"), "cip", <<X("v"), X("u")>> \o CipInput(previous, 1, public, 1, Raw(1))
                               \o CipInput(previous, 1, public, 2, Raw(2)))>>
OraclesAbsorbed ==
    <<<<"p_eval", 1>>>> \o Raw(1) \o <<<<"p_eval", 2>>>> \o Raw(2) \o <<<<"ft_eval", 2>>>>
Silent(sponge) == [sponge EXCEPT !.calls = <<>>]
OraclesFrom(previous, public, absorbed, v, u) ==
    OraclesStart \o absorbed.calls \o OraclesPowers(public)
    \o v.calls \o <<Call(X("v"), "endo", <<X("v_challenge")>>)>>
    \o u.calls \o <<Call(X("u"), "endo", <<X("u_challenge")>>)>>
    \o OraclesEvaluations(previous, public)
OraclesChallenged(previous, public, absorbed, v) ==
    OraclesFrom(previous, public, absorbed, v, Challenge(Silent(v), X("u_challenge")))
OraclesRead(previous, public, absorbed) ==
    OraclesChallenged(previous, public, absorbed,
                      Challenge(AbsorbAll(Silent(absorbed), OraclesAbsorbed), X("v_challenge")))
OraclesCalls(previous, public) == OraclesRead(previous, public, Absorb(NewSponge(0), X("fq_digest")))
OraclesRows(public) ==
    2 * EndoRows + AbsorbRows + ExpRows + 1 + ExpRows + ElementPowers(AlphaPowers).rows + ElementPowers(public).rows
    + 4 * public + PublicEvaluations(public).rows + 2 * (Len(Raw(1)) + 1) * AbsorbRows + AbsorbRows
    + ChallengeRows + EndoRows + ChallengeRows + EndoRows + 2 * ExpRows + 2 * BPolyRows(Rounds)
    + 2 * Len(Raw(1)) + FtEvalRows(public) + CipRows
OraclesResults ==
    <<X("alpha"), X("zeta"), X("v"), X("u"), <<"p_eval", 1>>, <<"p_eval", 2>>, X("zeta_pow_n"), X("ft"), X("cip")>>
OraclesScalar(previous, public) ==
    Program(OraclesCalls(previous, public), OraclesRows(public), OraclesResults)

(* The verifier's: from challenges, evaluations and the transcript.        *)
CombinedAt(v, zeta) ==
    LET point == <<zeta, E(zeta * v[X("omega")])>>
        named == UNION {{<<Evaluations(p)[i], Raw(p)[i], p>> : i \in DOMAIN Raw(p)} : p \in 1..2}
        of(name) == CHOOSE e \in named : e[1] = name
    IN [name \in {e[1] : e \in named} |-> E(v[of(name)[2]] * Raise(point[of(name)[3]], 2^Rounds))]
OraclesView(v) ==
    LET alpha == Endo(v[X("alpha_challenge")])
        zeta == Endo(v[X("zeta_challenge")])
    IN CombinedAt(v, zeta) @@ [k \in {Alpha(i) : i \in 0..(AlphaPowers - 1)} |-> Raise(alpha, k[2])]
       @@ (X("alpha") :> alpha) @@ (X("zeta") :> zeta) @@ (X("zeta_pow_n") :> Raise(zeta, DomainSize)) @@ v
OraclesMeant(previous, public, v) ==
    LET raw(p) == [i \in DOMAIN Raw(p) |-> v[Raw(p)[i]]]
        pEval(x) == E(E(E(Raise(x, DomainSize) - 1) * Inverted(DomainSize))
                      * Total([i \in 1..public |->
                                 LET w == Raise(v[X("omega")], i - 1) IN
                                 E(E(-v[<<"public", i>>] * w) * Inverted(x - w))]))
        poly(i, x) == BPoly([j \in 1..Rounds |-> v[<<"previous", i, j>>]], x)
        es(p, x, evals, ft) ==
            [i \in 1..previous |-> poly(i, x)] \o (IF public > 0 THEN <<evals[p]>> ELSE <<>>)
            \o <<IF p = 1 THEN ft ELSE v[<<"ft_eval", 2>>]>> \o raw(p)
        results(view, points, evals, ft, vs, us) ==
            <<view[X("alpha")], points[1], vs, us, evals[1], evals[2], view[X("zeta_pow_n")], ft,
              Combined(vs, us, es(1, points[1], evals, ft) \o es(2, points[2], evals, ft))>>
        read(view, points, evals, inputs) ==
            results(view, points, evals, FtMeant(view), Endo(Transcribed(inputs, 1)), Endo(Transcribed(inputs, 2)))
        evaluated(view, points, evals) ==
            read(view, points, evals,
                 <<v[X("fq_digest")], evals[1]>> \o raw(1) \o <<evals[2]>> \o raw(2) \o <<v[<<"ft_eval", 2>>]>>)
        at(view, points) == evaluated(view, points, <<pEval(points[1]), pEval(points[2])>>)
        seen(view) == at(view, <<view[X("zeta")], E(view[X("zeta")] * v[X("omega")])>>)
    IN seen(OraclesView(v))

-----------------------------------------------------------------------------
(* The scalars of one proof: its oracles, and the scalars the commitments  *)
(* of the linearization are multiplied by.                                 *)

IndexTerms == 2
TermInputs ==
    <<X("zeta"), X("alpha"), X("beta"), X("gamma"), X("joint_combiner")>> \o Evaluations(1) \o Evaluations(2)
    \o <<X("omega")>>
IndexTermCalls ==
    [i \in 1..IndexTerms |-> Call(<<"index_term", i>>, "term", TermInputs \o <<Number(i)>>)]
PrepareBatchCalls(previous, public) ==
    OraclesCalls(previous, public)
    \o <<Call(X("zkp"), "zkpm", <<X("omega"), X("zeta")>>)>>
    \o PermCalls \o Loop(GenericParts, GenericPart)
    \o <<Call(X("vanishing"), "sub", <<X("zeta_pow_n"), One>>)>>
    \o IndexTermCalls
PrepareBatchRows(public) ==
    OraclesRows(public) + ZkpmRows + PermRows + GenericRows + 1 + IndexTerms * TermRows
GenericNames == Loop(GenericParts, LAMBDA p : [j \in 1..5 |-> <<"out", p, j>>])
PrepareBatch(previous, public) ==
    Program(PrepareBatchCalls(previous, public), PrepareBatchRows(public),
            <<X("cip"), X("zeta"), X("u"), X("v"), <<"power", 1>>, X("perm")>> \o GenericNames
            \o [i \in 1..IndexTerms |-> <<"index_term", i>>])

PermMeant(v) ==
    E(-E(E(v[Z_(2)] * v[X("beta")]) * E(v[Alpha(PermutationAlpha)] * v[X("zkp")]))
      * Product([i \in 1..(PermutSize - 1) |->
                         v[X("gamma")] + E(v[X("beta")] * v[S_(1, i)]) + v[W_(1, i)]]))
GenericMeant(v) ==
    LET part(p) ==
            LET w(j) == v[W_(1, GenericRegisters * (p - 1) + j)] IN
            [j \in 1..5 |-> E(E(v[Alpha(GenericAlpha + p - 1)] * v[GenericSelector(1)])
                              * (<<w(1), w(2), w(3), E(w(1) * w(2)), 1>>[j]))]
    IN Loop(GenericParts, part)
PreparedMeant(v, oracles) ==
    LET view == (X("zkp") :> Zkpm(v[X("omega")], oracles[2])) @@ OraclesView(v)
    IN <<oracles[9], oracles[2], oracles[4], oracles[3], Raise(oracles[2], 2^Rounds), PermMeant(view)>>
       \o GenericMeant(view)
       \o [i \in 1..IndexTerms |-> E(Poly([k \in DOMAIN TermInputs |-> view[TermInputs[k]]] \o <<i>>, 2))]

-----------------------------------------------------------------------------
(* An expression in reverse Polish notation, compiled to calls as it is    *)
(* read; the endomorphism's factor and Poseidon's matrix are constants on  *)
(* the first rows, a literal and an exponent on a row each.                *)

MdsSize == 3
Mds == <<<<2, 3, 5>>, <<7, 11, 13>>, <<17, 19, 23>>>> \* three rows of some matrix
MdsRow(i, j) == 1 + MdsSize * i + j
FixedRows == 1 + MdsSize * MdsSize
Literal(row) == <<"constant", row>>

(* Columns are numbered, witnesses first; a row is the current one or next. *)
VarFromEvals(column, row) ==
    IF column < KimchiColumns THEN W_(row + 1, column + 1)
    ELSE <<Z_(row + 1), PoseidonSelector(row + 1), GenericSelector(row + 1)>>[column - KimchiColumns]

Pushed(s, name) == [s EXCEPT !.stack = Append(@, name)]
Top(s, k) == s.stack[Len(s.stack) - k]
Popped(s, k) == [s EXCEPT !.stack = SubSeq(@, 1, Len(@) - k)]
Made(s, op, in, rows) ==
    [Pushed(s, <<"value", s.row>>) EXCEPT !.calls = Append(@, Call(<<"value", s.row>>, op, in)), !.row = @ + rows]
OnRow(s) == [s EXCEPT !.calls = @ \o Skip(1), !.row = @ + 1]

Read(s, t) ==
    CASE t.type \in {"alpha", "beta", "gamma", "joint_combiner"} -> Pushed(s, X(t.type))
      [] t.type = "endo_coefficient" -> Pushed(s, Literal(0))
      [] t.type = "mds" -> Pushed(s, Literal(MdsRow(t.value[1], t.value[2])))
      [] t.type = "literal" -> OnRow(Pushed(s, Literal(s.row)))
      [] t.type = "cell" -> Pushed(s, VarFromEvals(t.value[1], t.value[2]))
      [] t.type = "dup" -> Pushed(s, Top(s, 0))
      [] t.type = "pow" ->
            Made(Popped(OnRow(s), 1), "exp", <<Top(s, 0), Literal(s.row)>>, ExpRows)
      [] t.type \in {"add", "mul", "sub"} -> Made(Popped(s, 2), t.type, <<Top(s, 1), Top(s, 0)>>, 1)
      [] t.type = "vanishes_on_last_4_rows" -> Made(s, "last4", <<X("omega"), X("zeta")>>, Last4Rows)
      [] t.type = "unnormalized_lagrange_basis" ->
            Made(s, "unnormalized", <<X("omega"), X("zeta"), <<"number", t.value[1]>>>>, LagrangeRows)
      [] t.type = "store" -> [s EXCEPT !.cache = Append(@, Top(s, 0))]
      [] t.type = "load" -> Pushed(s, s.cache[t.value[1] + 1])
Compiled(tokens) ==
    FoldLeft(Read, [stack |-> <<>>, cache |-> <<>>, calls |-> Skip(FixedRows), row |-> FixedRows], tokens)

(* The constants, on the rows a second reading of the tokens gives them.   *)
ConstantOf(t, row) == IF t.type \in {"literal", "pow"} THEN {<<row, t.value[1]>>} ELSE {}
RowsOfToken(t) ==
    CASE t.type = "literal" -> 1
      [] t.type = "pow" -> 1 + ExpRows
      [] t.type \in {"add", "mul", "sub"} -> 1
      [] t.type = "vanishes_on_last_4_rows" -> Last4Rows
      [] t.type = "unnormalized_lagrange_basis" -> LagrangeRows
      [] OTHER -> 0
ConstantsOf(tokens) ==
    LET step(done, t) == [row |-> done.row + RowsOfToken(t), put |-> done.put \cup ConstantOf(t, done.row)]
        fixed == {<<0, EndoFactor>>} \cup
                 {<<MdsRow(i, j), Mds[i + 1][j + 1]>> : i, j \in 0..(MdsSize - 1)}
        put == FoldLeft(step, [row |-> FixedRows, put |-> fixed], tokens).put
    IN [name \in {Literal(p[1]) : p \in put} |-> E((CHOOSE p \in put : p[1] = name[2])[2])]
RpnComponentRows(tokens) == FixedRows + FoldLeft(LAMBDA n, t : n + RowsOfToken(t), 0, tokens)
RpnExpression(tokens) ==
    LET end == Compiled(tokens) IN Program(end.calls, RpnComponentRows(tokens), <<Top(end, 0)>>)

(* What an expression means: a tree, whose tokens come in postfix order.   *)
Token(type, value) == [type |-> type, value |-> value]
Leaf(type, value) == [token |-> Token(type, value), of |-> <<>>]
Node(type, value, of) == [token |-> Token(type, value), of |-> of]
RECURSIVE Postfix(_), Stored(_), ValueOf(_, _, _)
Postfix(tree) == FlattenSeq([i \in DOMAIN tree.of |-> Postfix(tree.of[i])]) \o <<tree.token>>
Stored(tree) ==
    FlattenSeq([i \in DOMAIN tree.of |-> Stored(tree.of[i])])
    \o (IF tree.token.type = "store" THEN <<tree>> ELSE <<>>)
ValueOf(tree, whole, v) ==
    LET sub(i) == ValueOf(tree.of[i], whole, v)
        t == tree.token
    IN CASE t.type \in {"alpha", "beta", "gamma", "joint_combiner"} -> v[X(t.type)]
         [] t.type = "endo_coefficient" -> EndoFactor
         [] t.type = "mds" -> Mds[t.value[1] + 1][t.value[2] + 1]
         [] t.type = "literal" -> E(t.value[1])
         [] t.type = "cell" -> v[VarFromEvals(t.value[1], t.value[2])]
         [] t.type = "pow" -> Raise(sub(1), t.value[1])
         [] t.type = "add" -> E(sub(1) + sub(2))
         [] t.type = "sub" -> E(sub(1) - sub(2))
         [] t.type = "mul" -> E(sub(1) * sub(Len(tree.of)))
         [] t.type = "dup" -> sub(1)
         [] t.type = "vanishes_on_last_4_rows" -> Last4(v[X("omega")], v[X("zeta")])
         [] t.type = "unnormalized_lagrange_basis" -> Unnormalized(v[X("omega")], v[X("zeta")], t.value[1])
         [] t.type = "store" -> sub(1)
         [] t.type = "load" -> ValueOf(Stored(whole)[t.value[1] + 1], whole, v)

-----------------------------------------------------------------------------
(* What the expressions are tried on: trees with every kind of token.      *)

Squared(tree) == Node("mul", <<>>, <<Node("dup", <<>>, <<tree>>)>>)
Trees ==
    LET cell(column, row) == Leaf("cell", <<column, row>>)
        kept == Node("store", <<>>, <<Node("add", <<>>, <<Leaf("alpha", <<>>), Leaf("literal", <<5>>)>>)>>)
    IN <<Node("sub", <<>>, <<Node("pow", <<3>>, <<cell(7, 1)>>),
                             Node("mul", <<>>, <<Leaf("mds", <<1, 2>>), cell(2, 0)>>)>>),
         Node("add", <<>>, <<Squared(kept), Node("mul", <<>>, <<Leaf("load", <<0>>), Leaf("endo_coefficient", <<>>)>>)>>),
         Node("sub", <<>>, <<Node("mul", <<>>, <<Leaf("vanishes_on_last_4_rows", <<>>), Leaf("beta", <<>>)>>),
                             Node("add", <<>>, <<Leaf("unnormalized_lagrange_basis", <<-2>>),
                                                 Node("mul", <<>>, <<cell(9, 0),
                                                                     Leaf("joint_combiner", <<>>)>>)>>)>>)>>

(* Components, their programs and what their results should be.            *)
KimchiKinds == {"zkpm", "vanishes", "lagrange_basis", "zk_w3", "permutation", "generic", "denominators",
                  "b_poly", "b_coefficients", "powers", "combined_evals", "challenge_evals",
                  "public_evals", "ft_eval", "prepared", "oracles_cip", "random", "oracles",
                  "rpn", "prepared_batch"}
ProgramOf(g) ==
    CASE g.kind = "zkpm" -> ZkpmEvaluate
      [] g.kind = "vanishes" -> VanishesOnLast4Rows
      [] g.kind = "lagrange_basis" -> UnnormalizedLagrangeBasis(g.n)
      [] g.kind = "zk_w3" -> ZkW3
      [] g.kind = "permutation" -> PermScalars
      [] g.kind = "generic" -> GenericScalars
      [] g.kind = "denominators" -> LagrangeDenominators(g.n)
      [] g.kind = "b_poly" -> BPolyProgram(g.n)
      [] g.kind = "b_coefficients" -> BPolyCoefficients(g.n)
      [] g.kind = "powers" -> ElementPowers(g.n)
      [] g.kind = "combined_evals" -> CombineProofEvals(Evaluations(1))
      [] g.kind = "challenge_evals" -> PrevChalEvals(Rounds, g.n)
      [] g.kind = "public_evals" -> PublicEvaluations(g.n)
      [] g.kind = "ft_eval" -> FtEval(g.n)
      [] g.kind = "prepared" -> PrepareScalars(2, g.larger)
      [] g.kind = "oracles_cip" -> OraclesCip(g.previous, 1, g.n)
      [] g.kind = "random" -> Random(g.n)
      [] g.kind = "oracles" -> OraclesScalar(g.previous, g.n)
      [] g.kind = "rpn" -> RpnExpression(Postfix(Trees[g.n]))
      [] g.kind = "prepared_batch" -> PrepareBatch(g.previous, g.n)

(* The values two parts of a challenge's polynomial have at a point.       *)
Halves(c, x, power, size) ==
    LET high == Total([j \in 1..(2^Len(c) - size) |-> E(Coefficient(c, size + j - 1) * Raise(x, j - 1))])
    IN [high |-> high, low |-> E(BPoly(c, x) - high * power)]
Meant(g, v) ==
    LET at(name) == v[name]
        seq(name, n) == [i \in 1..n |-> v[<<name, i>>]]
        points == <<at(<<"point", 1>>), at(<<"point", 2>>)>>
        evaluations(p) == [k \in DOMAIN Evaluations(p) |-> v[Evaluations(p)[k]]]
    IN
    CASE g.kind = "zkpm" -> <<Zkpm(at(X("omega")), at(X("x")))>>
      [] g.kind = "vanishes" -> <<Last4(at(X("omega")), at(X("x")))>>
      [] g.kind = "lagrange_basis" -> <<Unnormalized(at(X("omega")), at(X("x")), g.n)>>
      [] g.kind = "zk_w3" -> <<Raise(at(X("omega")), DomainSize - ZkRows)>>
      [] g.kind = "permutation" -> <<PermMeant(v)>>
      [] g.kind = "generic" -> GenericMeant(v)
      [] g.kind = "denominators" ->
            [k \in 1..(2 * g.n) |->
                IF k <= g.n THEN Inverted(at(X("zeta")) - v[<<"omega", k>>])
                ELSE Inverted(at(X("zeta_omega")) - v[<<"omega", k - g.n>>])]
      [] g.kind = "b_poly" -> <<BPoly(seq("c", g.n), at(<<"pow", 1>>))>>
      [] g.kind = "b_coefficients" -> [i \in 1..2^g.n |-> Coefficient(seq("c", g.n), i - 1)]
      [] g.kind = "powers" -> [k \in 1..g.n |-> Raise(at(X("base")), k - 1)]
      [] g.kind = "combined_evals" -> [k \in DOMAIN Evaluations(1) |-> E(evaluations(1)[k] * at(X("x")))]
      [] g.kind = "challenge_evals" ->
            FlattenSeq([i \in 1..EvalPoints |->
                IF g.n < 2^Rounds
                THEN LET halves == Halves(seq("c", Rounds), points[i], v[<<"power", i>>], g.n) IN <<halves.low, halves.high>>
                ELSE <<BPoly(seq("c", Rounds), points[i])>>])
      [] g.kind = "public_evals" ->
            [j \in 1..2 |-> E(PublicEval(<<at(<<"zeta_pow_n", j>>)>>
                                         \o [i \in 1..g.n |-> v[<<"lagrange", (j - 1) * g.n + i>>]]
                                         \o seq("public", g.n) \o seq("omega", g.n)))]
      [] g.kind = "ft_eval" -> <<FtMeant(v)>>
      [] g.kind = "prepared" ->
            [i \in 1..2 |-> IF g.larger THEN E(v[<<"scalar", i>>] - TopBit)
                            ELSE E((v[<<"scalar", i>>] - TopBit - 1) * Inverted(2))]
      [] g.kind = "oracles_cip" ->
            LET input(p) == CipInput(g.previous, 1, g.n, p, Evaluations(p)) IN
            <<Combined(at(X("v")), at(X("u")), [k \in DOMAIN input(1) |-> v[input(1)[k]]]
                                               \o [k \in DOMAIN input(2) |-> v[input(2)[k]]])>>
      [] g.kind = "random" ->
            <<Transcribed([k \in DOMAIN Loop(g.n, ProofInputs) |-> v[Loop(g.n, ProofInputs)[k]]], 1)>>
      [] g.kind = "oracles" -> OraclesMeant(g.previous, g.n, v)
      [] g.kind = "rpn" -> <<ValueOf(Trees[g.n], Trees[g.n], v)>>
      [] g.kind = "prepared_batch" -> PreparedMeant(v, OraclesMeant(g.previous, g.n, v))

(* Inputs: constants where they belong, and anything for the others.       *)
Names(calls) == {name \in UNION {Range(call.in) : call \in Range(calls)} : name[1] # "number"}
Inputs(g, calls, seed) ==
    LET fixed == (X("omega") :> Omega) @@ (X("one") :> 1) @@ (X("zero") :> 0) @@ (X("domain_size") :> DomainSize)
                 @@ IF g.kind = "rpn" THEN ConstantsOf(Postfix(Trees[g.n])) ELSE <<>>
        first(name) == CHOOSE k \in DOMAIN calls : name \in Range(calls[k].in)
        place(k, name) == CHOOSE j \in DOMAIN calls[k].in : calls[k].in[j] = name
    IN fixed @@ [name \in Names(calls) |->
                    LET k == first(name) IN Raise(Generator, seed + 7 * k + place(k, name))]

(* A prover changes one call that nothing but a tie holds, or the last one,*)
(* and fills in the others as they then are.                               *)
KimchiHonest(g) == {[in |-> Inputs(g, ProgramOf(g).calls, seed), given |-> <<>>] : seed \in g.seeds}
Open(calls) == {k \in DOMAIN calls : calls[k].op \in {"cell", "beside"}} \cup {Len(calls)}
KimchiTried(g, honest) ==
    {[f EXCEPT !.given = (k :> value)] :
        f \in honest, k \in Open(ProgramOf(g).calls), value \in 1..2}
KimchiTable(g, f) == W!Run(ProgramOf(g).calls, f.in, f.given).cells
HoldsFor(program, in, t) == W!CallsHold(program.calls, program.ties, in, t)
KimchiHolds(g, f, t) == HoldsFor(ProgramOf(g), f.in, t)
Yields(program, in, t, meant) ==
    /\ [k \in DOMAIN program.results |-> W!Result(program.results[k], program.calls, in, t)] = meant
    /\ W!Rows(program.calls) <= program.rows
KimchiMeans(g, f, t) == Yields(ProgramOf(g), f.in, t, Meant(g, f.in))
=============================================================================
