---------------------------------- MODULE Sha2 ----------------------------------
(***************************************************************************)
(* SHA-256 and SHA-512 in a circuit (components/hashes/sha2/plonk).  A     *)
(* cell is a number written as a sequence of digits, the lowest first: a   *)
(* word of bits, a sparse number of its bits as digits to base 4 or 7, a   *)
(* chunk of a word or a carry of one digit of any size.  Every sum of the  *)
(* gates is below the modulus of the field, which has 254 bits or more.    *)
(* Rows and columns of a gate are the source's: W(c, r) is the cell of     *)
(* column c, r rows below the selector.                                    *)
(***************************************************************************)
EXTENDS Integers, SequencesExt, TLC

-----------------------------------------------------------------------------
(* Numbers as sums of digits *)

(* The same sequence, as a tuple.                                          *)
Tuple(s) == s \o <<>>

Term(number, place) == [number |-> number, place |-> place, times |-> 1]
Times(k, number) == [number |-> number, place |-> 0, times |-> k]
Terms(numbers, places) == Tuple([j \in DOMAIN places |-> Term(numbers[j], places[j])])
Minus(terms) == Tuple([j \in DOMAIN terms |-> [terms[j] EXCEPT !.times = -@]])

(* The sum of the digits at place i.                                       *)
RECURSIVE DigitAt(_, _, _, _)
DigitAt(terms, i, first, last) ==
    IF first > last THEN 0
    ELSE IF first < last
    THEN LET middle == (first + last) \div 2
         IN DigitAt(terms, i, first, middle) + DigitAt(terms, i, middle + 1, last)
    ELSE LET t == terms[first]
             j == i - t.place
         IN IF j >= 1 /\ j <= Len(t.number) THEN t.times * t.number[j] ELSE 0

Top(terms) == Max({terms[k].place + Len(terms[k].number) : k \in DOMAIN terms})

(* The sum's digits from place first to place last, once their carries are *)
(* made: after those of the places before them.                            *)
RECURSIVE Normal(_, _, _, _, _)
Normal(base, terms, first, last, before) ==
    IF first < last
    THEN LET middle == (first + last) \div 2
             half == Normal(base, terms, first, middle, before)
         IN Normal(base, terms, middle + 1, last, half)
    ELSE LET digit == DigitAt(terms, first, 1, Len(terms)) + before.carry
         IN [digits |-> Append(before.digits, digit % base), carry |-> digit \div base]
Reduced(base, terms, n) == Normal(base, terms, 1, n, [digits |-> <<>>, carry |-> 0]).digits

(* What a sum whose digits are all zero carries, or nothing.               *)
RECURSIVE Vanishing(_, _, _, _, _)
Vanishing(base, terms, first, last, carry) ==
    IF first < last
    THEN LET middle == (first + last) \div 2
             half == Vanishing(base, terms, first, middle, carry)
         IN IF half = <<>> THEN <<>> ELSE Vanishing(base, terms, middle + 1, last, half)
    ELSE LET digit == DigitAt(terms, first, 1, Len(terms)) + carry[1]
         IN IF digit % base = 0 THEN <<digit \div base>> ELSE <<>>

(* Two sums are the same number.                                           *)
SameSum(base, left, right) ==
    LET terms == left \o Minus(right) IN Vanishing(base, terms, 1, Top(terms), <<0>>) = <<0>>

BitsOf(x, n) == Tuple([i \in 1..n |-> (x \div 2^(i - 1)) % 2])
ValueOf(bits) == LET v[i \in 0..Len(bits)] == IF i = 0 THEN 0 ELSE v[i - 1] + bits[i] * 2^(i - 1) IN v[Len(bits)]

(* Where chunks of these sizes begin, and the chunks.                      *)
Places(sizes) == LET p[j \in 1..Len(sizes)] == IF j = 1 THEN 0 ELSE p[j - 1] + sizes[j - 1] IN Tuple([j \in 1..Len(sizes) |-> p[j]])
Chunked(digits, sizes) ==
    LET p == Places(sizes) IN Tuple([j \in 1..Len(sizes) |-> SubSeq(digits, p[j] + 1, p[j] + sizes[j])])

-----------------------------------------------------------------------------
(* The functions of a word: its chunks' sizes, the powers of the base each *)
(* sparse chunk is multiplied by, the sizes of the chunks of the result.   *)

Sigma(base, sizes, powers, results) ==
    [base |-> base, sizes |-> sizes, powers |-> powers, results |-> results]

Bytes == <<8, 8, 8, 8>>
Quarters == <<16, 16, 16, 16>>
Fourteens == <<14, 14, 14, 14, 8>>

sigma0_256 == Sigma(4, <<3, 4, 11, 14>>, <<<<25, 14>>, <<0, 28, 17>>, <<4, 0, 21>>, <<15, 11, 0>>>>, Bytes)
sigma1_256 == Sigma(4, <<10, 7, 2, 13>>, <<<<15, 13>>, <<0, 25, 23>>, <<7, 0, 30>>, <<9, 2, 0>>>>, Bytes)
Sigma0_256 == Sigma(4, <<2, 11, 9, 10>>, <<<<19, 10, 30>>, <<21, 0, 12>>, <<11, 23, 0>>, <<20, 9, 0>>>>, Bytes)
Sigma1_256 == Sigma(7, <<6, 5, 14, 7>>, <<<<26, 21, 7>>, <<27, 13, 0>>, <<5, 18, 0>>, <<19, 14, 0>>>>, Bytes)

sigma0_512 ==
    Sigma(4, <<1, 6, 1, 14, 14, 14, 14>>,
          <<<<63, 56>>, <<0, 57>>, <<6, 63, 0>>, <<7, 0, 1>>, <<21, 14, 15>>, <<35, 28, 29>>, <<49, 42, 43>>>>,
          Fourteens)
sigma1_512 ==
    Sigma(4, <<6, 13, 14, 14, 14, 3>>,
          <<<<45, 3>>, <<51, 9, 0>>, <<0, 22, 13>>, <<14, 36, 27>>, <<28, 50, 41>>, <<42, 0, 55>>>>, Fourteens)
Sigma0_512 ==
    Sigma(4, <<14, 14, 6, 5, 14, 11>>,
          <<<<36, 30, 25>>, <<50, 44, 39>>, <<0, 58, 53>>, <<6, 0, 59>>, <<11, 5, 0>>, <<25, 19, 14>>>>, Fourteens)
Sigma1_512 ==
    Sigma(7, <<14, 4, 14, 9, 14, 9>>,
          <<<<50, 46, 23>>, <<0, 60, 37>>, <<4, 0, 41>>, <<18, 14, 55>>, <<27, 23, 0>>, <<41, 37, 14>>>>, Fourteens)

V256 == [n |-> 32, logic |-> Bytes, sigma0 |-> sigma0_256, sigma1 |-> sigma1_256,
         Sigma0 |-> Sigma0_256, Sigma1 |-> Sigma1_256]
V512 == [n |-> 64, logic |-> Quarters, sigma0 |-> sigma0_512, sigma1 |-> sigma1_512,
         Sigma0 |-> Sigma0_512, Sigma1 |-> Sigma1_512]

ChValues == <<0, 0, 0, 1, 0, 1, 1>>
MajValues == <<0, 0, 1, 1>>
Parity(digit) == digit % 2
Ch(digit) == ChValues[digit + 1]
Maj(digit) == MajValues[digit + 1]

(* The sum of the sparse chunks times their powers of the base.            *)
Spread(F, sparse) ==
    FlattenSeq([j \in DOMAIN sparse |-> [k \in DOMAIN F.powers[j] |-> Term(sparse[j], F.powers[j][k])]])
SparseOf(c) == BitsOf(c, 14)

(* A word's chunks, all sparse, the sparse result and what it stands for.  *)
Parts(F, n, chunks) ==
    LET sparse == Tuple([j \in DOMAIN chunks |-> SparseOf(chunks[j])])
        digits == Reduced(F.base, Spread(F, sparse), n)
        results == Chunked(digits, F.results)
    IN [plain |-> Tuple([j \in DOMAIN chunks |-> <<chunks[j]>>]), sparse |-> sparse,
        all |-> Reduced(F.base, Terms(sparse, Places(F.sizes)), n),
        results |-> results,
        low |-> Tuple([j \in DOMAIN results |-> <<ValueOf([i \in DOMAIN results[j] |-> Parity(results[j][i])])>>])]

(* The same for a sum of sparse words, one of them twice or three times.   *)
MajParts(sizes, terms, n) ==
    LET chunks == Chunked(Reduced(4, terms, n), sizes) IN
    [digits |-> chunks, low |-> Tuple([j \in DOMAIN sizes |-> <<ValueOf([i \in 1..sizes[j] |-> Maj(chunks[j][i])])>>])]
ChParts(sizes, terms, n) ==
    LET chunks == Chunked(Reduced(7, terms, n), sizes) IN
    [digits |-> chunks, low |-> Tuple([j \in DOMAIN sizes |-> <<ValueOf([i \in 1..sizes[j] |-> Ch(chunks[j][i])])>>])]

(* Chunks of a word; whoever forges chunk j takes a unit of the next one.  *)
ChunksOf(F, word, forged, name) ==
    LET parts == Chunked(word, F.sizes)
        c == Tuple([j \in DOMAIN parts |-> ValueOf(parts[j])])
    IN
    IF forged[1] = "chunk" /\ forged[2] = name
    THEN LET j == forged[3] IN [c EXCEPT ![j] = @ + 2^F.sizes[j], ![j + 1] = @ - 1]
    ELSE c

-----------------------------------------------------------------------------
(* What one step of the message's schedule fills in *)

Zero == <<0>>
Limbs(word) ==
    LET parts == Chunked(word, <<14, 14, Len(word) - 28>>) IN Tuple([j \in 1..3 |-> <<ValueOf(parts[j])>>])

Low(F, parts) == Terms(parts.low, Places(F.results))

(* A sum of the word's size and what it carries; whoever forges it carries *)
(* one less and leaves the word longer.                                    *)
Carried(terms, n, forged, name) ==
    LET all == Reduced(2, terms, n + 4)
        low == SubSeq(all, 1, n)
        carry == ValueOf(SubSeq(all, n + 1, n + 4))
    IN IF forged = <<"carry", name>> THEN [digits |-> Append(low, 1), carry |-> carry - 1]
       ELSE [digits |-> low, carry |-> carry]

StepSum(V, f, a, b) ==
    Carried(<<Term(f.w9, 0), Term(f.w0, 0)>> \o Low(V.sigma0, a) \o Low(V.sigma1, b), V.n, f.forged, "w16")
StepSums(V, f, a, b) == [sigma0 |-> a, sigma1 |-> b, sum |-> StepSum(V, f, a, b)]
StepParts(V, f) ==
    StepSums(V, f, Parts(V.sigma0, V.n, ChunksOf(V.sigma0, f.w1, f.forged, "w1")),
             Parts(V.sigma1, V.n, ChunksOf(V.sigma1, f.w14, f.forged, "w14")))

StepTable256(f, p) ==
    LET a == p.sigma0
        b == p.sigma1
    IN <<<<f.w1>> \o a.plain \o <<Zero, Zero, a.sparse[1], Zero>>,
         <<f.w9, f.w0>> \o Tail(a.sparse) \o a.results,
         <<p.sum.digits>> \o a.low \o b.low,
         <<<<p.sum.carry>>>> \o b.sparse \o b.results,
         <<f.w14>> \o b.plain \o Limbs(p.sum.digits) \o <<p.sum.digits>>>>

StepTable512(f, p) ==
    LET a == p.sigma0
        b == p.sigma1
    IN <<<<f.w1>> \o a.plain \o <<a.sparse[1]>>,
         Tail(a.sparse) \o SubSeq(a.results, 1, 3),
         SubSeq(a.results, 4, 5) \o a.low \o <<f.w9, f.w0>>,
         b.low \o <<p.sum.digits, <<p.sum.carry>>, Zero, Zero>>,
         SubSeq(b.sparse, 3, 6) \o b.results,
         <<f.w14>> \o b.plain \o SubSeq(b.sparse, 1, 2)>>

-----------------------------------------------------------------------------
(* Gates of the schedule *)

Cells(t, row, columns) == Tuple([j \in DOMAIN columns |-> t[row][columns[j] + 1]])
In(cell, limit) == cell[1] \in 0..(limit - 1)

(* The chunks make the word; their sparse forms the sparse result.         *)
MakesWord(F, word, plain) == SameSum(2, <<Term(word, 0)>>, Terms(plain, Places(F.sizes)))
MakesSparse(F, word, sparse) == SameSum(F.base, <<Term(word, 0)>>, Terms(sparse, Places(F.sizes)))
MakesResult(F, sparse, results) == SameSum(F.base, Terms(results, Places(F.results)), Spread(F, sparse))

(* Lookups.  A number and its sparse form; a number of so many bits: the   *)
(* lookup of the number times a power of two, beside the number's own; the *)
(* digits of a result and the bits they stand for.                         *)
SparseTable(cell, sparse) == In(cell, 2^14) /\ sparse = SparseOf(cell[1])
Below(cell, bits) == In(cell, 2^bits)
Stands(value(_), base, digits, cell) ==
    /\ \A i \in DOMAIN digits : digits[i] \in 0..(base - 1)
    /\ cell[1] = ValueOf([i \in DOMAIN digits |-> value(digits[i])])
ReverseTable(base, results, low) ==
    \A j \in DOMAIN results : Stands(Parity, IF base = 7 THEN 4 ELSE base, results[j], low[j])

Sigma0Gate256(t, row) ==
    LET plain == Cells(t, row - 1, <<1, 2, 3, 4>>)
        sparse == Cells(t, row - 1, <<7>>) \o Cells(t, row, <<2, 3, 4>>)
        results == Cells(t, row, <<5, 6, 7, 8>>)
    IN /\ MakesWord(sigma0_256, t[row - 1][1], plain)
       /\ In(plain[1], 8)
       /\ MakesResult(sigma0_256, sparse, results)
       /\ \A j \in 1..4 : SparseTable(plain[j], sparse[j])
       /\ Below(plain[2], 4) /\ Below(plain[3], 11)
       /\ ReverseTable(4, results, Cells(t, row + 1, <<1, 2, 3, 4>>))

Sigma1Gate256(t, row) ==
    LET plain == Cells(t, row, <<1, 2, 3, 4>>)
        sparse == Cells(t, row - 1, <<1, 2, 3, 4>>)
        limbs == Cells(t, row, <<5, 6, 7>>)
        carry == t[row - 1][1]
    IN /\ MakesWord(sigma1_256, t[row][1], plain)
       /\ In(plain[3], 4)
       /\ MakesResult(sigma1_256, sparse, Cells(t, row - 1, <<5, 6, 7, 8>>))
       /\ SameSum(2, <<Term(t[row][9], 0)>>, Terms(limbs, <<0, 14, 28>>))
       /\ \A j \in 1..4 : SparseTable(plain[j], sparse[j])
       /\ Below(plain[1], 10) /\ Below(plain[2], 7) /\ Below(plain[4], 13)
       /\ In(limbs[1], 2^14) /\ In(limbs[2], 2^14) /\ In(limbs[3], 2^4)
       /\ In(carry, 2^4)

(* selector_1 and the lookups of sigma1's result beside it.                *)
SumGate256(t, row) ==
    LET carry == t[row + 1][1] IN
    /\ SameSum(2, <<Term(t[row][1], 0), Term(carry, 32)>>,
               <<Term(t[row - 1][1], 0), Term(t[row - 1][2], 0)>>
               \o Terms(Cells(t, row, <<1, 2, 3, 4>>), <<0, 8, 16, 24>>)
               \o Terms(Cells(t, row, <<5, 6, 7, 8>>), <<0, 8, 16, 24>>))
    /\ In(carry, 4)
    /\ ReverseTable(4, Cells(t, row + 1, <<5, 6, 7, 8>>), Cells(t, row, <<5, 6, 7, 8>>))

StepHolds256(t) ==
    Sigma0Gate256(t, 2) /\ SumGate256(t, 3) /\ Sigma1Gate256(t, 5) /\ t[3][1] = t[5][9]

Sigma0Sparse512(t, row) == Cells(t, row - 1, <<8>>) \o Cells(t, row, <<0, 1, 2, 3, 4, 5>>)
Sigma0Results512(t, row) == Cells(t, row, <<6, 7, 8>>) \o Cells(t, row + 1, <<0, 1>>)
Sigma0Gate512(t, row) ==
    LET plain == Cells(t, row - 1, <<1, 2, 3, 4, 5, 6, 7>>) IN
    /\ MakesWord(sigma0_512, t[row - 1][1], plain)
    /\ In(plain[1], 2) /\ In(plain[3], 2)
    /\ MakesResult(sigma0_512, Sigma0Sparse512(t, row), Sigma0Results512(t, row))

Sigma1Sparse512(t, row) == Cells(t, row + 1, <<7, 8>>) \o Cells(t, row, <<0, 1, 2, 3>>)
Sigma1Gate512(t, row) ==
    LET plain == Cells(t, row + 1, <<1, 2, 3, 4, 5, 6>>) IN
    /\ MakesWord(sigma1_512, t[row + 1][1], plain)
    /\ In(plain[6], 8)
    /\ MakesResult(sigma1_512, Sigma1Sparse512(t, row), Cells(t, row, <<4, 5, 6, 7, 8>>))

SumGate512(t, row) ==
    /\ SameSum(2, <<Term(t[row][6], 0), Term(t[row][7], 64)>>,
               <<Term(t[row - 1][8], 0), Term(t[row - 1][9], 0)>>
               \o Terms(Cells(t, row - 1, <<2, 3, 4, 5, 6>>), <<0, 14, 28, 42, 56>>)
               \o Terms(Cells(t, row, <<0, 1, 2, 3, 4>>), <<0, 14, 28, 42, 56>>))
    /\ In(t[row][7], 4)

StepHolds512(t) == Sigma0Gate512(t, 2) /\ SumGate512(t, 4) /\ Sigma1Gate512(t, 5)

(* SHA-512 looks nothing up: that chunks and results are in their ranges   *)
(* and have the sparse forms beside them is nowhere enforced.              *)
Ranged(F, plain, sparse, results, low) ==
    /\ \A j \in DOMAIN plain : Below(plain[j], F.sizes[j]) /\ SparseTable(plain[j], sparse[j])
    /\ ReverseTable(F.base, results, low)
StepRanged512(t) ==
    /\ Ranged(sigma0_512, Cells(t, 1, <<1, 2, 3, 4, 5, 6, 7>>), Sigma0Sparse512(t, 2),
              Sigma0Results512(t, 2), Cells(t, 3, <<2, 3, 4, 5, 6>>))
    /\ Ranged(sigma1_512, Cells(t, 6, <<1, 2, 3, 4, 5, 6>>), Sigma1Sparse512(t, 5),
              Cells(t, 5, <<4, 5, 6, 7, 8>>), Cells(t, 4, <<0, 1, 2, 3, 4>>))

-----------------------------------------------------------------------------
(* What one round of the compression fills in: f's words a to h, w and the *)
(* round's constant k; of b, c, f and g only sparse forms are cells.       *)

RoundSums(V, f, S1, S0, ch, maj, tmp1) ==
    [S1 |-> S1, S0 |-> S0, ch |-> ch, maj |-> maj, tmp1 |-> tmp1,
     e |-> Carried(<<Term(f.d, 0), Term(tmp1, 0)>>, V.n, f.forged, "e_new"),
     a |-> Carried(<<Term(tmp1, 0)>> \o Low(V.Sigma0, S0) \o Terms(maj.low, Places(V.logic)),
                   V.n, f.forged, "a_new")]
Tmp1(V, f, S1, ch) ==
    Reduced(2, <<Term(f.h, 0), Term(f.k, 0), Term(f.w, 0)>> \o Low(V.Sigma1, S1)
               \o Terms(ch.low, Places(V.logic)), V.n + 3)
RoundParts(V, f) ==
    LET made(S1, S0, ch, maj) == RoundSums(V, f, S1, S0, ch, maj, Tmp1(V, f, S1, ch))
        from(S1, S0) ==
            made(S1, S0, ChParts(V.logic, <<Times(1, S1.all), Times(2, f.f), Times(3, f.g)>>, V.n),
                 MajParts(V.logic, <<Times(1, S0.all), Times(1, f.b), Times(1, f.c)>>, V.n))
    IN from(Parts(V.Sigma1, V.n, ChunksOf(V.Sigma1, f.e, f.forged, "e")),
            Parts(V.Sigma0, V.n, ChunksOf(V.Sigma0, f.a, f.forged, "a")))

RoundTable256(f, p) ==
    <<<<f.e, p.S1.sparse[1]>> \o p.S1.plain \o Tail(p.S1.results),
      <<p.S1.all, f.f>> \o Tail(p.S1.sparse) \o <<p.S1.results[1]>> \o Limbs(p.e.digits),
      p.ch.digits \o <<<<p.e.carry>>>> \o p.S1.low,
      <<f.g, f.d, f.h, f.w, p.e.digits>> \o p.ch.low,
      p.maj.digits \o <<p.tmp1>> \o p.maj.low,
      <<p.S0.all, f.b, p.a.digits, <<p.a.carry>>, f.c>> \o p.S0.low,
      SubSeq(p.S0.results, 1, 2) \o p.S0.sparse \o SubSeq(p.S0.results, 3, 4) \o <<Zero>>,
      <<f.a, Zero>> \o p.S0.plain \o Limbs(p.a.digits)>>

RoundTable512(f, p) ==
    <<<<f.e>> \o p.S1.plain \o SubSeq(p.S1.sparse, 1, 2),
      SubSeq(p.S1.sparse, 3, 6) \o p.S1.results,
      p.S1.low \o <<p.S1.all, f.f>> \o SubSeq(p.ch.digits, 1, 2),
      SubSeq(p.ch.digits, 3, 4) \o p.ch.low \o <<f.g, f.d, f.h>>,
      <<f.w, p.tmp1, p.e.digits, <<p.e.carry>>>> \o [i \in 1..5 |-> Zero],
      SubSeq(p.maj.digits, 3, 4) \o p.maj.low \o <<f.c, p.a.digits, <<p.a.carry>>>>,
      p.S0.low \o <<p.S0.all, f.b>> \o SubSeq(p.maj.digits, 1, 2),
      SubSeq(p.S0.sparse, 3, 6) \o p.S0.results,
      <<f.a>> \o p.S0.plain \o SubSeq(p.S0.sparse, 1, 2)>>

-----------------------------------------------------------------------------
(* Gates of the compression *)

Sigma1Plain256(t, row) == Cells(t, row - 1, <<2, 3, 4, 5>>)
SigmaGate1of256(t, row) ==
    LET plain == Sigma1Plain256(t, row)
        sparse == Cells(t, row - 1, <<1>>) \o Cells(t, row, <<2, 3, 4>>)
        results == Cells(t, row, <<5>>) \o Cells(t, row - 1, <<6, 7, 8>>)
    IN /\ MakesWord(Sigma1_256, t[row - 1][1], plain)
       /\ MakesSparse(Sigma1_256, t[row][1], sparse)
       /\ MakesResult(Sigma1_256, sparse, results)
       /\ \A j \in 1..4 : SparseTable(plain[j], sparse[j])
       /\ Below(plain[2], 6) /\ Below(plain[2], 5) /\ Below(plain[4], 7)
       /\ ReverseTable(7, results, Cells(t, row + 1, <<5, 6, 7, 8>>))

ChGate256(t, row) ==
    LET digits == Cells(t, row, <<0, 1, 2, 3>>)
        low == Cells(t, row + 1, <<5, 6, 7, 8>>)
        limbs == Cells(t, row - 1, <<6, 7, 8>>)
        carry == t[row][5]
    IN /\ SameSum(7, Terms(digits, <<0, 8, 16, 24>>),
                  <<Times(1, t[row - 1][1]), Times(2, t[row - 1][2]), Times(3, t[row + 1][1])>>)
       /\ SameSum(2, <<Term(t[row + 1][5], 0)>>, Terms(limbs, <<0, 14, 28>>))
       /\ \A j \in 1..4 : Stands(Ch, 7, digits[j], low[j])
       /\ \A j \in 1..3 : In(limbs[j], 2^14)
       /\ In(carry, 2^5)

(* selector_2 and selector_3: tmp1 and the new e, the new a.               *)
NewEGate256(t, row, k) ==
    LET tmp1 == t[row + 1][5] IN
    /\ SameSum(2, <<Term(tmp1, 0)>>,
               <<Term(t[row][3], 0), Term(k, 0), Term(t[row][4], 0)>>
               \o Terms(Cells(t, row - 1, <<5, 6, 7, 8>>), <<0, 8, 16, 24>>)
               \o Terms(Cells(t, row, <<5, 6, 7, 8>>), <<0, 8, 16, 24>>))
    /\ SameSum(2, <<Term(t[row][5], 0), Term(t[row - 1][5], 32)>>, <<Term(t[row][2], 0), Term(tmp1, 0)>>)
    /\ In(t[row - 1][5], 6)
NewAGate256(t, row) ==
    LET carry == t[row + 1][4] IN
    /\ SameSum(2, <<Term(t[row + 1][3], 0), Term(carry, 32)>>,
               <<Term(t[row][5], 0)>> \o Terms(Cells(t, row + 1, <<5, 6, 7, 8>>), <<0, 8, 16, 24>>)
               \o Terms(Cells(t, row, <<5, 6, 7, 8>>), <<0, 8, 16, 24>>))
    /\ In(carry, 7)

MajGate256(t, row) ==
    LET digits == Cells(t, row, <<0, 1, 2, 3>>)
        low == Cells(t, row, <<5, 6, 7, 8>>)
    IN /\ SameSum(4, Terms(digits, <<0, 8, 16, 24>>),
                  <<Times(1, t[row + 1][1]), Times(1, t[row + 1][2]), Times(1, t[row + 1][5])>>)
       /\ \A j \in 1..4 : Stands(Maj, 4, digits[j], low[j])

SigmaGate0of256(t, row) ==
    LET plain == Cells(t, row + 1, <<2, 3, 4, 5>>)
        sparse == Cells(t, row, <<2, 3, 4, 5>>)
        results == Cells(t, row, <<0, 1, 6, 7>>)
        limbs == Cells(t, row + 1, <<6, 7, 8>>)
        carry == t[row - 1][4]
    IN /\ MakesWord(Sigma0_256, t[row + 1][1], plain)
       /\ In(plain[1], 4)
       /\ MakesSparse(Sigma0_256, t[row - 1][1], sparse)
       /\ MakesResult(Sigma0_256, sparse, results)
       /\ SameSum(2, <<Term(t[row - 1][3], 0)>>, Terms(limbs, <<0, 14, 28>>))
       /\ \A j \in 1..4 : SparseTable(plain[j], sparse[j])
       /\ Below(plain[2], 11) /\ Below(plain[3], 9) /\ Below(plain[4], 10)
       /\ ReverseTable(4, results, Cells(t, row - 1, <<5, 6, 7, 8>>))
       /\ In(limbs[1], 2^14) /\ In(limbs[2], 2^14) /\ In(limbs[3], 2^4)
       /\ In(carry, 2^6)

RoundHolds256(t, k) ==
    /\ SigmaGate1of256(t, 2) /\ ChGate256(t, 3) /\ NewEGate256(t, 4, k)
    /\ NewAGate256(t, 5) /\ MajGate256(t, 5) /\ SigmaGate0of256(t, 7)

SparseOfE512(t, row) == Cells(t, row - 1, <<7, 8>>) \o Cells(t, row, <<0, 1, 2, 3>>)
SigmaGate1of512(t, row) ==
    LET plain == Cells(t, row - 1, <<1, 2, 3, 4, 5, 6>>)
        sparse == SparseOfE512(t, row)
    IN /\ MakesWord(Sigma1_512, t[row - 1][1], plain)
       /\ MakesSparse(Sigma1_512, t[row + 1][6], sparse)
       /\ MakesResult(Sigma1_512, sparse, Cells(t, row, <<4, 5, 6, 7, 8>>))

ChDigits512(t, row) == Cells(t, row, <<7, 8>>) \o Cells(t, row + 1, <<0, 1>>)
ChGate512(t, row) ==
    SameSum(7, Terms(ChDigits512(t, row), <<0, 16, 32, 48>>),
            <<Times(1, t[row][6]), Times(2, t[row][7]), Times(3, t[row + 1][7])>>)

NewEGate512(t, row, k) ==
    LET tmp1 == t[row + 1][2] IN
    /\ SameSum(2, <<Term(tmp1, 0)>>,
               <<Term(t[row][9], 0), Term(t[row + 1][1], 0), Term(k, 0)>>
               \o Terms(Cells(t, row - 1, <<0, 1, 2, 3, 4>>), <<0, 14, 28, 42, 56>>)
               \o Terms(Cells(t, row, <<2, 3, 4, 5>>), <<0, 16, 32, 48>>))
    /\ SameSum(2, <<Term(tmp1, 0), Term(t[row][8], 0)>>, <<Term(t[row + 1][3], 0), Term(t[row + 1][4], 64)>>)
    /\ In(t[row + 1][4], 6)
NewAGate512(t, row) ==
    /\ SameSum(2, <<Term(t[row][8], 0), Term(t[row][9], 64)>>,
               <<Term(t[row - 1][2], 0)>> \o Terms(Cells(t, row + 1, <<0, 1, 2, 3, 4>>), <<0, 14, 28, 42, 56>>)
               \o Terms(Cells(t, row, <<2, 3, 4, 5>>), <<0, 16, 32, 48>>))
    /\ In(t[row][9], 7)

MajDigits512(t, row) == Cells(t, row, <<7, 8>>) \o Cells(t, row - 1, <<0, 1>>)
MajGate512(t, row) ==
    SameSum(4, Terms(MajDigits512(t, row), <<0, 16, 32, 48>>),
            <<Times(1, t[row][6]), Times(1, t[row][7]), Times(1, t[row - 1][7])>>)

(* The constraint on Sigma0's result is written in the source and left out *)
(* of the gate.                                                            *)
SparseOfA512(t, row) == Cells(t, row + 1, <<7, 8>>) \o Cells(t, row, <<0, 1, 2, 3>>)
SigmaGate0of512(t, row) ==
    /\ MakesWord(Sigma0_512, t[row + 1][1], Cells(t, row + 1, <<1, 2, 3, 4, 5, 6>>))
    /\ MakesSparse(Sigma0_512, t[row - 1][6], SparseOfA512(t, row))

RoundHolds512(t, k) ==
    /\ SigmaGate1of512(t, 2) /\ ChGate512(t, 3) /\ NewEGate512(t, 4, k)
    /\ NewAGate512(t, 6) /\ MajGate512(t, 7) /\ SigmaGate0of512(t, 8)

(* The same for a round of SHA-512, and the constraint left out.           *)
RoundRanged512(t) ==
    /\ Ranged(Sigma1_512, Cells(t, 1, <<1, 2, 3, 4, 5, 6>>), SparseOfE512(t, 2),
              Cells(t, 2, <<4, 5, 6, 7, 8>>), Cells(t, 3, <<0, 1, 2, 3, 4>>))
    /\ Ranged(Sigma0_512, Cells(t, 9, <<1, 2, 3, 4, 5, 6>>), SparseOfA512(t, 8),
              Cells(t, 8, <<4, 5, 6, 7, 8>>), Cells(t, 7, <<0, 1, 2, 3, 4>>))
    /\ MakesResult(Sigma0_512, SparseOfA512(t, 8), Cells(t, 8, <<4, 5, 6, 7, 8>>))
    /\ \A j \in 1..4 : Stands(Ch, 7, ChDigits512(t, 3)[j], Cells(t, 4, <<2, 3, 4, 5>>)[j])
    /\ \A j \in 1..4 : Stands(Maj, 4, MajDigits512(t, 7)[j], Cells(t, 6, <<2, 3, 4, 5>>)[j])

-----------------------------------------------------------------------------
(* SHA-2 as it is defined, on words of bits *)

Rotated(w, r) == Tuple([i \in 1..Len(w) |-> w[((i - 1 + r) % Len(w)) + 1]])
Shifted(w, r) == Tuple([i \in 1..Len(w) |-> IF i + r <= Len(w) THEN w[i + r] ELSE 0])
Xor(a, b, c) == Tuple([i \in 1..Len(a) |-> (a[i] + b[i] + c[i]) % 2])
Choice(e, f, g) == Tuple([i \in 1..Len(e) |-> IF e[i] = 1 THEN f[i] ELSE g[i]])
Majority(a, b, c) == Tuple([i \in 1..Len(a) |-> IF a[i] + b[i] + c[i] > 1 THEN 1 ELSE 0])
SmallSigma0(w) == IF Len(w) = 32 THEN Xor(Rotated(w, 7), Rotated(w, 18), Shifted(w, 3))
                  ELSE Xor(Rotated(w, 1), Rotated(w, 8), Shifted(w, 7))
SmallSigma1(w) == IF Len(w) = 32 THEN Xor(Rotated(w, 17), Rotated(w, 19), Shifted(w, 10))
                  ELSE Xor(Rotated(w, 19), Rotated(w, 61), Shifted(w, 6))
LargeSigma0(w) == IF Len(w) = 32 THEN Xor(Rotated(w, 2), Rotated(w, 13), Rotated(w, 22))
                  ELSE Xor(Rotated(w, 28), Rotated(w, 34), Rotated(w, 39))
LargeSigma1(w) == IF Len(w) = 32 THEN Xor(Rotated(w, 6), Rotated(w, 11), Rotated(w, 25))
                  ELSE Xor(Rotated(w, 14), Rotated(w, 18), Rotated(w, 41))
Added(words) ==
    Reduced(2, [j \in DOMAIN words |-> Term(words[j], 0)], Len(words[1]))
NextWord(w0, w1, w9, w14) == Added(<<w0, SmallSigma0(w1), w9, SmallSigma1(w14)>>)
T1(e, f, g, h, w, k) == Added(<<h, LargeSigma1(e), Choice(e, f, g), w, k>>)
NewE(d, t1) == Added(<<d, t1>>)
NewA(a, b, c, t1) == Added(<<t1, LargeSigma0(a), Majority(a, b, c)>>)

-----------------------------------------------------------------------------
(* A step and a round alone, whatever is in their cells *)

(* Words made up of a seed.                                                *)
Noise(seed, j, n) == Tuple([i \in 1..n |-> (((seed * 89 + j * 61 + i * 7) * (i * i + j * 29 + seed + 11) + i * 5) % 251) % 2])

WordOf(cell, n) == Reduced(2, <<Term(cell, 0)>>, n)

Alone(V, seed) ==
    [name \in {"a", "b", "c", "d", "e", "f", "g", "h", "w", "k", "w0", "w1", "w9", "w14"} |->
        Noise(seed, CASE name = "a" -> 1 [] name = "b" -> 2 [] name = "c" -> 3 [] name = "d" -> 4
                      [] name = "e" -> 5 [] name = "f" -> 6 [] name = "g" -> 7 [] name = "h" -> 8
                      [] name = "w" -> 9 [] name = "k" -> 10 [] name = "w0" -> 11 [] name = "w1" -> 12
                      [] name = "w9" -> 13 [] name = "w14" -> 14, V.n)]

Version(g) == IF g.version = 256 THEN V256 ELSE V512
AloneTable(g, f) ==
    CASE g.kind = "sha_step" /\ g.version = 256 -> StepTable256(f, StepParts(V256, f))
      [] g.kind = "sha_step" /\ g.version = 512 -> StepTable512(f, StepParts(V512, f))
      [] g.kind = "sha_round" /\ g.version = 256 -> RoundTable256(f, RoundParts(V256, f))
      [] g.kind = "sha_round" /\ g.version = 512 -> RoundTable512(f, RoundParts(V512, f))
Filled(g, f) == [k |-> f.k, cells |-> AloneTable(g, f), forged |-> f.forged]
AloneFilled(g, forgeries) ==
    {Filled(g, Alone(Version(g), seed) @@ [forged |-> forged]) : seed \in g.seeds, forged \in forgeries}
AloneHonest(g) == AloneFilled(g, {<<"nothing">>})

(* What is tried: a chunk too large, a carry too small, one digit changed. *)
Forgeries(g) ==
    LET V == Version(g)
        chunks(name, F) == {<<"chunk", name, j>> : j \in 1..(Len(F.sizes) - 1)}
    IN IF g.kind = "sha_step"
       THEN chunks("w1", V.sigma0) \cup chunks("w14", V.sigma1) \cup {<<"carry", "w16">>}
       ELSE chunks("e", V.Sigma1) \cup chunks("a", V.Sigma0) \cup {<<"carry", "e_new">>, <<"carry", "a_new">>}
Changed(f) == {[f EXCEPT !.cells[r][c][1] = @ + 1] : <<r, c>> \in (DOMAIN f.cells) \X (1..9)}
AloneTried(g) ==
    UNION {IF f.forged = <<"nothing">> THEN Changed(f) ELSE {f} :
             f \in AloneFilled(g, {<<"nothing">>} \cup Forgeries(g))}

(* The next word is that of the schedule: for SHA-512 if what is looked up *)
(* for SHA-256 holds.                                                      *)
StepMeans(g, t) ==
    IF g.version = 256
    THEN t[3][1] = NextWord(t[2][2], t[1][1], t[2][1], t[5][1])
    ELSE StepRanged512(t) =>
            WordOf(t[4][6], 64) = NextWord(t[3][9], WordOf(t[1][1], 64), t[3][8], WordOf(t[6][1], 64))

(* The new words are those of the compression, and the sparse words of e   *)
(* and a those of their bits; if e's first chunk is below 64, which is not *)
(* looked up, and for SHA-512 if what is looked up for SHA-256 holds.      *)
RoundMeans(g, t, k) ==
    IF g.version = 256
    THEN In(t[1][3], 64) =>
            LET e == WordOf(t[1][1], 32)
                a == WordOf(t[8][1], 32)
                t1 == T1(e, t[2][2], t[4][1], t[4][3], t[4][4], k)
            IN /\ WordOf(t[4][5], 32) = NewE(t[4][2], t1) /\ WordOf(t[6][3], 32) = NewA(a, t[6][2], t[6][5], t1)
               /\ SameSum(7, <<Term(t[2][1], 0)>>, <<Term(e, 0)>>) /\ SameSum(4, <<Term(t[6][1], 0)>>, <<Term(a, 0)>>)
               /\ SameSum(2, <<Term(t[6][3], 0)>>, <<Term(WordOf(t[6][3], 32), 0)>>)
    ELSE RoundRanged512(t) =>
            LET e == WordOf(t[1][1], 64)
                a == WordOf(t[9][1], 64)
                t1 == T1(e, t[3][7], t[4][7], t[4][9], t[5][1], k)
            IN /\ WordOf(t[5][3], 64) = NewE(t[4][8], t1) /\ WordOf(t[6][8], 64) = NewA(a, t[7][7], t[6][7], t1)
               /\ SameSum(7, <<Term(t[3][6], 0)>>, <<Term(e, 0)>>) /\ SameSum(4, <<Term(t[7][6], 0)>>, <<Term(a, 0)>>)

-----------------------------------------------------------------------------
(* The whole component: where the words of a step and of a round are, as   *)
(* rows of the step or round and columns.                                  *)

Layout256 ==
    [stepAt |-> [w1 |-> <<0, 0>>, w9 |-> <<1, 0>>, w0 |-> <<1, 1>>, w16 |-> <<2, 0>>, w14 |-> <<4, 0>>],
     roundAt |-> [e |-> <<0, 0>>, s4 |-> <<1, 0>>, s5 |-> <<1, 1>>, s6 |-> <<3, 0>>, d |-> <<3, 1>>,
                  h |-> <<3, 2>>, w |-> <<3, 3>>, e_new |-> <<3, 4>>, s0 |-> <<5, 0>>, s1 |-> <<5, 1>>,
                  a_new |-> <<5, 2>>, s2 |-> <<5, 4>>, a |-> <<7, 0>>]]
Layout512 ==
    [stepAt |-> [w1 |-> <<0, 0>>, w9 |-> <<2, 7>>, w0 |-> <<2, 8>>, w16 |-> <<3, 5>>, w14 |-> <<5, 0>>],
     roundAt |-> [e |-> <<0, 0>>, s4 |-> <<2, 5>>, s5 |-> <<2, 6>>, s6 |-> <<3, 6>>, d |-> <<3, 7>>,
                  h |-> <<3, 8>>, w |-> <<4, 0>>, e_new |-> <<4, 2>>, s2 |-> <<5, 6>>, a_new |-> <<5, 7>>,
                  s0 |-> <<6, 5>>, s1 |-> <<6, 6>>, a |-> <<8, 0>>]]
Layout(g) == IF g.version = 256 THEN Layout256 ELSE Layout512
StepRows(g) == IF g.version = 256 THEN 5 ELSE 6
RoundRows(g) == IF g.version = 256 THEN 8 ELSE 9
RoundsRow(g) == 2 + StepRows(g) * g.steps
OutputRow(g) == RoundsRow(g) + RoundRows(g) * g.rounds

(* The words in a table: the state's two rows, the steps, the rounds and   *)
(* the rows of the output.  A sparse word is the word it stands for.       *)
NameOf(at, place) == CHOOSE name \in DOMAIN at : at[name] = place
WordOfRows(words, i, height, at, column) == words[(i \div height) + 1][NameOf(at, <<i % height, column>>)]
WordAt(g, t, row, column) ==
    IF row < 2 THEN t.state[row + 1][column + 1]
    ELSE IF row < RoundsRow(g) THEN WordOfRows(t.steps, row - 2, StepRows(g), Layout(g).stepAt, column)
    ELSE IF row < OutputRow(g)
    THEN WordOfRows(t.rounds, row - RoundsRow(g), RoundRows(g), Layout(g).roundAt, column)
    ELSE t.out[row - OutputRow(g) + 1][column + 1]

(* Copy constraints between cells, and between cells and the inputs.       *)
WordTies256(g) ==
    LET row(k) == 2 + k * 5 IN
    {<<0, row(i - 1), i>> : i \in 1..15} \cup {<<0, row(i - 9) + 1, i>> : i \in 9..15}
    \cup {<<1, row(i) + 1, i>> : i \in 0..15} \cup {<<0, row(i - 14) + 4, i>> : i \in 14..15}
StepTies256(g) ==
    LET row(k) == 2 + k * 5
        after(n, column, rows) ==
            {<<column, row(k) + rows, 0, row(k - n) + 2>> : k \in n..(g.steps - 1)}
    IN after(2, 0, 4) \cup after(7, 0, 1) \cup after(15, 0, 0) \cup after(16, 1, 1)
RoundTies256(g) ==
    LET row(r) == RoundsRow(g) + r * 8 IN
    UNION {{<<0, row(r), 4, row(r - 1) + 3>>, <<0, row(r) + 7, 2, row(r - 1) + 5>>,
            <<1, row(r) + 5, 0, row(r - 1) + 5>>, <<4, row(r) + 5, 1, row(r - 1) + 5>>,
            <<1, row(r) + 1, 0, row(r - 1) + 1>>, <<0, row(r) + 3, 1, row(r - 1) + 1>>} : r \in 1..(g.rounds - 1)}
OutputTies256(g) ==
    LET row == OutputRow(g) IN
    {<<0, row - 1, 5, row>>, <<0, row - 9, 6, row>>, <<0, row - 17, 7, row>>,
     <<0, row - 8, 5, row + 2>>, <<0, row - 16, 6, row + 2>>, <<0, row - 24, 7, row + 2>>,
     <<4, row, 3, row + 4>>, <<5, row, 7, row + 4>>, <<6, row, 3, row + 5>>, <<7, row, 7, row + 5>>,
     <<4, row + 2, 3, row + 6>>, <<5, row + 2, 7, row + 6>>, <<6, row + 2, 3, row + 7>>, <<7, row + 2, 7, row + 7>>}

WordTies512(g) ==
    LET row(k) == 2 + k * 6 IN
    {<<0, row(i - 1), i>> : i \in 1..15} \cup {<<7, row(i - 9) + 2, i>> : i \in 9..15}
    \cup {<<8, row(i) + 2, i>> : i \in 0..15} \cup {<<0, row(i - 14) + 5, i>> : i \in 14..15}
RoundTies512(g) ==
    LET row == RoundsRow(g) IN
    {<<6, row + 2, 5, 1>>, <<6, row + 3, 6, 1>>, <<6, row + 6, 1, 1>>, <<6, row + 5, 2, 1>>}
    \cup UNION {LET i == row + 9 * r IN
                {<<6, i + 2 + 9, 5, i + 2>>, <<6, i + 3 + 9, 6, i + 2>>,
                 <<6, i + 5 + 9, 6, i + 6>>, <<6, i + 6 + 9, 5, i + 6>>} : r \in 0..(g.rounds - 2)}
StateTies(g) ==
    LET row == OutputRow(g)
        first == RoundsRow(g)
    IN {<<i, row, i>> : i \in 0..3} \cup {<<i, row + 2, i + 4>> : i \in 0..3}
       \cup IF g.version = 256 THEN {}
            ELSE {<<0, first + 8, 0>>, <<7, first + 3, 3>>, <<0, first, 4>>, <<8, first + 3, 7>>}

WordTies(g) == IF g.version = 256 THEN WordTies256(g) ELSE WordTies512(g)
CellTies(g) ==
    IF g.version = 256 THEN StepTies256(g) \cup RoundTies256(g) \cup OutputTies256(g) ELSE RoundTies512(g)
TiesHold(g, f, t) ==
    /\ \A tie \in WordTies(g) : WordAt(g, t, tie[2], tie[1]) = f.words[tie[3] + 1]
    /\ \A tie \in StateTies(g) : WordAt(g, t, tie[2], tie[1]) = f.state[tie[3] + 1]
    /\ \A tie \in CellTies(g) : WordAt(g, t, tie[2], tie[1]) = WordAt(g, t, tie[4], tie[3])

-----------------------------------------------------------------------------
(* What the component fills in, and whoever forges one of its cells: the   *)
(* words tied to nothing are then those of the message and of its hash.    *)

round_constant ==
    <<<<\h428a, \h2f98>>, <<\h7137, \h4491>>, <<\hb5c0, \hfbcf>>, <<\he9b5, \hdba5>>,
      <<\h3956, \hc25b>>, <<\h59f1, \h11f1>>, <<\h923f, \h82a4>>, <<\hab1c, \h5ed5>>,
      <<\hd807, \haa98>>, <<\h1283, \h5b01>>, <<\h2431, \h85be>>, <<\h550c, \h7dc3>>,
      <<\h72be, \h5d74>>, <<\h80de, \hb1fe>>, <<\h9bdc, \h06a7>>, <<\hc19b, \hf174>>,
      <<\he49b, \h69c1>>, <<\hefbe, \h4786>>, <<\h0fc1, \h9dc6>>, <<\h240c, \ha1cc>>,
      <<\h2de9, \h2c6f>>, <<\h4a74, \h84aa>>, <<\h5cb0, \ha9dc>>, <<\h76f9, \h88da>>,
      <<\h983e, \h5152>>, <<\ha831, \hc66d>>, <<\hb003, \h27c8>>, <<\hbf59, \h7fc7>>,
      <<\hc6e0, \h0bf3>>, <<\hd5a7, \h9147>>, <<\h06ca, \h6351>>, <<\h1429, \h2967>>,
      <<\h27b7, \h0a85>>, <<\h2e1b, \h2138>>, <<\h4d2c, \h6dfc>>, <<\h5338, \h0d13>>,
      <<\h650a, \h7354>>, <<\h766a, \h0abb>>, <<\h81c2, \hc92e>>, <<\h9272, \h2c85>>,
      <<\ha2bf, \he8a1>>, <<\ha81a, \h664b>>, <<\hc24b, \h8b70>>, <<\hc76c, \h51a3>>,
      <<\hd192, \he819>>, <<\hd699, \h0624>>, <<\hf40e, \h3585>>, <<\h106a, \ha070>>,
      <<\h19a4, \hc116>>, <<\h1e37, \h6c08>>, <<\h2748, \h774c>>, <<\h34b0, \hbcb5>>,
      <<\h391c, \h0cb3>>, <<\h4ed8, \haa4a>>, <<\h5b9c, \hca4f>>, <<\h682e, \h6ff3>>,
      <<\h748f, \h82ee>>, <<\h78a5, \h636f>>, <<\h84c8, \h7814>>, <<\h8cc7, \h0208>>,
      <<\h90be, \hfffa>>, <<\ha450, \h6ceb>>, <<\hbef9, \ha3f7>>, <<\hc671, \h78f2>>>>

Words256(pairs) == Tuple([i \in DOMAIN pairs |-> BitsOf(pairs[i][2], 16) \o BitsOf(pairs[i][1], 16)])

(* SHA-256's constants; others stand for SHA-512's.                        *)
ConstantOf(g, r) ==
    IF g.version = 256 THEN Words256(<<round_constant[r]>>)[1]
    ELSE Noise(5, r, 64)

RECURSIVE Schedule(_, _)
Schedule(words, n) ==
    LET k == Len(words) IN
    IF k = n THEN words
    ELSE Schedule(Append(words, NextWord(words[k - 15], words[k - 14], words[k - 6], words[k - 1])), n)

(* The state a to h after one more round.                                  *)
AfterRound(s, w, k) ==
    LET t1 == T1(s[5], s[6], s[7], s[8], w, k) IN
    <<NewA(s[1], s[2], s[3], t1), s[1], s[2], s[3], NewE(s[4], t1), s[5], s[6], s[7]>>
RECURSIVE Compressed(_, _, _)
Compressed(g, states, words) ==
    LET r == Len(states) IN
    IF r > g.rounds THEN states
    ELSE Compressed(g, Append(states, AfterRound(states[r], words[r], ConstantOf(g, r))), words)

(* An input, the message's words and the states of its hash.               *)
Inputs(g, state, words) ==
    LET n == IF g.steps + 16 > g.rounds THEN g.steps + 16 ELSE g.rounds
        all == Schedule(words, n)
    IN [state |-> state, words |-> words, all |-> all, states |-> Compressed(g, <<state>>, all),
        forged |-> <<"nothing">>]

ForgedAs(f, place, word) ==
    IF f.forged # place THEN word ELSE [Tuple(word) EXCEPT ![3] = 1 - @, ![17] = 1 - @]

StepWords(f, k, words) ==
    LET cell(name, i) == ForgedAs(f, <<"step", k, name>>, words[k + i])
        in == [w0 |-> cell("w0", 1), w1 |-> cell("w1", 2), w9 |-> cell("w9", 10), w14 |-> cell("w14", 15)]
    IN in @@ [w16 |-> ForgedAs(f, <<"step", k, "w16">>, NextWord(in.w0, in.w1, in.w9, in.w14))]
RECURSIVE Steps(_, _, _, _)
Steps(g, f, steps, words) ==
    LET k == Len(steps) IN
    IF k = g.steps THEN steps
    ELSE LET step == StepWords(f, k, words) IN Steps(g, f, Append(steps, step), Append(words, step.w16))

RoundWords(g, f, r, s) ==
    LET free == f.states[r + 1]
        cell(name, word) == ForgedAs(f, <<"round", r, name>>, word)
        in == [a |-> cell("a", s[1]), s1 |-> cell("s1", s[2]), s2 |-> cell("s2", s[3]), d |-> cell("d", free[4]),
               e |-> cell("e", s[5]), s5 |-> cell("s5", s[6]), s6 |-> cell("s6", s[7]), h |-> cell("h", free[8]),
               w |-> cell("w", f.all[r + 1])]
        t1 == T1(in.e, in.s5, in.s6, in.h, in.w, ConstantOf(g, r + 1))
    IN in @@ [s0 |-> in.a, s4 |-> in.e, e_new |-> NewE(in.d, t1), a_new |-> NewA(in.a, in.s1, in.s2, t1)]
StateAfter(round) ==
    <<round.a_new, round.s0, round.s1, round.s2, round.e_new, round.s4, round.s5, round.s6>>
RECURSIVE Rounds(_, _, _)
Rounds(g, f, rounds) ==
    IF Len(rounds) = g.rounds THEN rounds
    ELSE Rounds(g, f, Append(rounds, RoundWords(g, f, Len(rounds), IF rounds = <<>> THEN f.states[1]
                                                                  ELSE StateAfter(Last(rounds)))))

OutputRows(g, f, rounds) ==
    LET n == g.rounds
        final == f.states[n + 1]
        last(name, i) == rounds[n - i][name]
        out == IF f.forged[1] = "nothing" \/ g.version = 512 THEN final
               ELSE <<final[1], last("a", 0), last("a", 1), last("a", 2),
                      final[5], last("e", 0), last("e", 1), last("e", 2)>>
        cell(i) == ForgedAs(f, <<"out", i>>, out[i])
        added(i) == ForgedAs(f, <<"added", i>>, f.state[i])
        sum(i) == Reduced(2, <<Term(added(i), 0), Term(cell(i), 0)>>, Version(g).n + 1)
        part(i, s) == IF i < 5 THEN SubSeq(s, 1, Version(g).n) ELSE <<s[Version(g).n + 1]>>
        sums(i) == <<Tuple([j \in 1..8 |-> IF j < 5 THEN added(i + j - 1) ELSE cell(i + j - 5)]),
                     Tuple([j \in 1..8 |-> part(j, sum(i + ((j - 1) % 4)))])>>
        half(word) == Limbs(word) \o <<word>>
        checks == [i \in 1..4 |-> half(cell(2 * i - 1)) \o half(cell(2 * i))]
    IN sums(1) \o sums(5) \o IF g.version = 256 THEN checks ELSE <<>>

ProcessRows(g, f, rounds) ==
    [state |-> <<f.state, Tuple([i \in 1..8 |-> ForgedAs(f, <<"sparse", i>>, f.state[i])])>>,
     steps |-> Steps(g, f, <<>>, f.words), rounds |-> rounds, out |-> OutputRows(g, f, rounds)]
ProcessTable(g, f) == ProcessRows(g, f, Rounds(g, f, <<>>))

(* The sums of the output and, of SHA-256, the ranges of what is added.    *)
OutputHolds(g, out) ==
    /\ \A row \in {1, 3}, i \in 1..4 :
          /\ SameSum(2, <<Term(out[row + 1][i], 0), Term(out[row + 1][i + 4], Version(g).n)>>,
                     <<Term(out[row][i], 0), Term(out[row][i + 4], 0)>>)
          /\ g.version = 256 => In(out[row + 1][i + 4], 2)
    /\ g.version = 256 =>
          \A row \in 5..8, i \in {1, 5} :
             /\ SameSum(2, <<Term(out[row][i + 3], 0)>>, Terms(SubSeq(out[row], i, i + 2), <<0, 14, 28>>))
             /\ In(out[row][i], 2^14) /\ In(out[row][i + 1], 2^14) /\ In(out[row][i + 2], 2^4)

(* A step and a round are held to what StepMeans and RoundMeans say.       *)
StepHeld(s) == s.w16 = NextWord(s.w0, s.w1, s.w9, s.w14)
RoundHeld(r, k) ==
    LET t1 == T1(r.e, r.s5, r.s6, r.h, r.w, k) IN
    r.s4 = r.e /\ r.s0 = r.a /\ r.e_new = NewE(r.d, t1) /\ r.a_new = NewA(r.a, r.s1, r.s2, t1)

ProcessHolds(g, f, t) ==
    /\ TiesHold(g, f, t)
    /\ \A k \in DOMAIN t.steps : StepHeld(t.steps[k])
    /\ \A r \in DOMAIN t.rounds : RoundHeld(t.rounds[r], ConstantOf(g, r))
    /\ OutputHolds(g, t.out)

(* The cells tied to nothing are as the component fills them in.           *)
Registers == [a |-> 1, s1 |-> 2, s2 |-> 3, d |-> 4, e |-> 5, s5 |-> 6, s6 |-> 7, h |-> 8]
UntiedRight(g, f, t) ==
    /\ \A r \in DOMAIN t.rounds :
          /\ t.rounds[r].w = f.all[r]
          /\ \A name \in {"d", "h"} \cup (IF r = 1 /\ g.version = 256 THEN DOMAIN Registers ELSE {})
                        \cup (IF r > 1 /\ g.version = 512 THEN {"a", "e"} ELSE {}) :
                t.rounds[r][name] = f.states[r][Registers[name]]
    /\ g.version = 512 => t.state[2] = f.state
    /\ \A i \in IF g.version = 256 THEN {1, 5} ELSE 1..8 :
          t.out[IF i < 5 THEN 1 ELSE 3][5 + ((i - 1) % 4)] = f.states[g.rounds + 1][i]

OutputOf(t) == SubSeq(t.out[2], 1, 4) \o SubSeq(t.out[4], 1, 4)

(* The schedule is the message's, and the output the sum of the state and  *)
(* of its compression, if what is tied to nothing is right, as in what the *)
(* component fills in.                                                     *)
ProcessMeans(g, f, t) ==
    LET output == OutputOf(t) IN
    /\ \A k \in 1..(IF g.version = 256 THEN g.steps ELSE 1) : t.steps[k].w16 = f.all[k + 16]
    /\ f.forged = <<"nothing">> \/ UntiedRight(g, f, t) =>
          \A i \in 1..8 : WordOf(output[i], Version(g).n) = Added(<<f.state[i], f.states[g.rounds + 1][i]>>)

(* The tables that are filled in, the state and the message made up of a   *)
(* seed, and what is tried: one word forged, of any step, round or output. *)
ProcessInputs(g) ==
    {Inputs(g, Tuple([i \in 1..8 |-> Noise(seed, i, Version(g).n)]),
            Tuple([i \in 1..16 |-> Noise(seed + 1, i, Version(g).n)])) : seed \in g.seeds}
ForgedPlaces(g) ==
    {<<"step", k, name>> : k \in {0, 2, 16, g.steps - 1}, name \in {"w0", "w1", "w9", "w14", "w16"}}
    \cup {<<"round", r, name>> : r \in 0..(g.rounds - 1), name \in DOMAIN Registers \cup {"w"}}
    \cup {<<at, i>> : at \in {"sparse", "added", "out"}, i \in 1..8}
ProcessTried(g) == {[f EXCEPT !.forged = place] : f \in ProcessInputs(g), place \in ForgedPlaces(g)}

-----------------------------------------------------------------------------
(* A message of four numbers of 128 bits: two of them are cut into chunks  *)
(* of 16 bits and these put together as words, the highest first.          *)

DecompositionTable(data) ==
    LET chunks == [j \in 1..2 |-> Chunked(data[j], <<16, 16, 16, 16, 16, 16, 16, 16>>)]
        row(j) == Tuple([i \in 1..8 |-> <<ValueOf(chunks[j][i])>>]) \o <<data[j]>>
        word(j, i) == chunks[j][9 - 2 * i] \o chunks[j][10 - 2 * i]
    IN <<row(1), Tuple([i \in 1..8 |-> word(((i - 1) \div 4) + 1, ((i - 1) % 4) + 1)]), row(2)>>

(* Columns, from zero, of the words of a number, the lowest first.         *)
WordColumns == <<<<3, 2, 1, 0>>, <<7, 6, 5, 4>>>>
DecompositionHolds(t) ==
    \A j \in 1..2 :
        LET row == 2 * j - 1 IN
        /\ SameSum(2, <<Term(t[row][9], 0)>>, Terms(Cells(t, 2, WordColumns[j]), <<0, 32, 64, 96>>))
        /\ \A i \in 1..4 :
              SameSum(2, <<Term(t[2][WordColumns[j][i] + 1], 0)>>, Terms(SubSeq(t[row], 2 * i - 1, 2 * i), <<0, 16>>))

ForgedDecomposition(t, place) ==
    CASE place[1] = "nothing" -> t
      [] place[1] = "cell" -> [t EXCEPT ![place[2]][place[3]][1] = @ + 1]
      [] place[1] = "chunk" ->
            [t EXCEPT ![place[2]][place[3]][1] = @ + 65536, ![place[2]][place[3] + 1][1] = @ - 1]
      [] place[1] = "word" ->
            [t EXCEPT ![1][2][1] = @ + 65536, ![1][3][1] = @ - 1,
                      ![2][4] = @ \o <<1>>, ![2][3] = Reduced(2, <<Term(@, 0), Times(-1, <<1>>)>>, 32)]

(* Chunks are looked up in no table: the words are the data's if they are  *)
(* below 2^16.                                                             *)
ChunksRanged(t) == \A row \in {1, 3}, i \in 1..8 : In(t[row][i], 65536)
WordsOf(t) == Tuple([i \in 1..8 |-> t[2][i]])
DecompositionMeans(g, data, t) ==
    ChunksRanged(t) =>
        \A i \in 1..8 : WordOf(t[2][i], 32) = DecompositionTable(data)[2][i] /\ WordOf(t[2][i], 33)[33] = 0

DataOf(seed) == Tuple([j \in 1..4 |-> Noise(seed, j, 128)])
DecompositionPlaces ==
    ({<<"cell", row, i>> : row \in 1..3, i \in 1..9} \ {<<"cell", 2, 9>>}) \cup {<<"chunk", row, i>> : row \in {1, 3}, i \in 1..7}
    \cup {<<"word">>}

(* What the component calls: its constants are the first state and the     *)
(* message's padding, a second block.                                      *)
Initial256 ==
    Words256(<<<<\h6a09, \he667>>, <<\hbb67, \hae85>>, <<\h3c6e, \hf372>>, <<\ha54f, \hf53a>>,
               <<\h510e, \h527f>>, <<\h9b05, \h688c>>, <<\h1f83, \hd9ab>>, <<\h5be0, \hcd19>>>>)
Padding256 ==
    Words256(<<<<\h8000, 0>>, <<0, 0>>, <<0, 0>>, <<0, 0>>, <<0, 0>>, <<0, 0>>, <<0, 0>>, <<0, 0>>,
               <<0, 0>>, <<0, 0>>, <<0, 0>>, <<0, 0>>, <<0, 0>>, <<0, 0>>, <<0, 0>>, <<0, 512>>>>)
Joined(words) == words[4] \o words[3] \o words[2] \o words[1]

HashBlock(g, state, words, forged) == ProcessTable(g, [Inputs(g, state, words) EXCEPT !.forged = forged])
ForgedIn(f, which) == IF f.which = which THEN f.place ELSE <<"nothing">>
HashLast(f, output) == IF f.which # <<"last">> THEN output ELSE [output EXCEPT ![f.place[2]][1] = 1 - @]
HashRows(f, parts, first, second, last) ==
    [parts |-> parts, first |-> first, second |-> second,
     last |-> <<last, <<Joined(SubSeq(last, 1, 4)), Joined(SubSeq(last, 5, 8))>>>>]
HashSecond(g, f, parts, first, second) == HashRows(f, parts, first, second, HashLast(f, OutputOf(second)))
HashFirst(g, f, parts, first) ==
    HashSecond(g, f, parts, first, HashBlock(g, OutputOf(first), Padding256, ForgedIn(f, <<"second">>)))
HashParts(g, f, parts) ==
    HashFirst(g, f, parts, HashBlock(g, Initial256, WordsOf(parts[1]) \o WordsOf(parts[2]), ForgedIn(f, <<"first">>)))
HashTable(g, f) ==
    HashParts(g, f, Tuple([j \in 1..2 |-> ForgedDecomposition(DecompositionTable(SubSeq(f.data, 2 * j - 1, 2 * j)),
                                                              ForgedIn(f, <<"parts", j>>))]))

HashHolds(g, f, t) ==
    /\ \A j \in 1..2 : DecompositionHolds(t.parts[j]) /\ t.parts[j][1][9] = f.data[2 * j - 1] /\ t.parts[j][3][9] = f.data[2 * j]
    /\ ProcessHolds(g, [state |-> Initial256, words |-> WordsOf(t.parts[1]) \o WordsOf(t.parts[2])], t.first)
    /\ ProcessHolds(g, [state |-> OutputOf(t.first), words |-> Padding256], t.second)
    /\ \A j \in 1..2 :
          SameSum(2, <<Term(t.last[2][j], 0)>>,
                  Terms([i \in 1..4 |-> t.last[1][4 * j + 1 - i]], <<0, 32, 64, 96>>))

(* What the component fills in is the hash of its data, and so is a table  *)
(* whose chunks are in range, whose words tied to nothing are right and    *)
(* whose last rows, tied to nothing either, hold the second output.        *)
HashMeans(g, f, t) ==
    LET words == DecompositionTable(SubSeq(f.data, 1, 2))[2] \o DecompositionTable(SubSeq(f.data, 3, 4))[2]
        first == Inputs(g, Initial256, words)
        after(in) == Tuple([i \in 1..8 |-> Added(<<in.state[i], in.states[g.rounds + 1][i]>>)])
        second == Inputs(g, after(first), Padding256)
        digest == after(second)
    IN /\ f.which = <<"nothing">>
          \/ ((\A j \in 1..2 : ChunksRanged(t.parts[j])) /\ UntiedRight(g, first, t.first)
                 /\ UntiedRight(g, second, t.second) /\ t.last[1] = OutputOf(t.second))
          => t.last[2] = <<Joined(SubSeq(digest, 1, 4)), Joined(SubSeq(digest, 5, 8))>>
       /\ g.digest # <<>> => digest = Words256(g.digest)

HashInputs(g) ==
    {[data |-> data, which |-> <<"nothing">>, place |-> <<"nothing">>] :
        data \in IF g.message = <<>> THEN {DataOf(1)}
                 ELSE {Tuple([j \in 1..4 |-> Joined(Words256(SubSeq(g.message, 4 * j - 3, 4 * j)))])}}
HashTried(g) ==
    IF g.message # <<>> THEN {}
    ELSE {[f EXCEPT !.which = which[1], !.place = which[2]] : f \in HashInputs(g), which \in
            {<<<<at>>, place>> : at \in {"first", "second"},
                                 place \in {<<"out", 1>>, <<"out", 2>>, <<"round", 0, "s1">>, <<"round", 1, "w">>}}
            \cup {<<<<"parts", 2>>, place>> : place \in {<<"chunk", 3, 2>>, <<"cell", 2, 1>>}}
            \cup {<<<<"last">>, <<"word", i>>>> : i \in {1, 8}}}

-----------------------------------------------------------------------------
(* SHA-512 of a signature's R, its key A and the message M, twenty numbers *)
(* of four limbs each, laid end to end and cut into words.  Five blocks of *)
(* three rows hold four numbers each: a column, a row of the block and the *)
(* size of every piece of a number, and the pieces of every word.          *)

Thirds(column, n) == <<<<column, 0, 22>>, <<column, 1, 22>>, <<column, 2, n>>>>
NumberPieces ==
    <<Thirds(1, 20) \o <<<<0, 2, 2>>>>, Thirds(3, 18) \o <<<<2, 2, 4>>>>, Thirds(5, 16) \o <<<<4, 2, 6>>>>, Thirds(7, 13),
      <<<<8, 0, 1>>, <<1, 0, 21>>, <<1, 1, 22>>, <<1, 2, 21>>, <<0, 2, 1>>>>,
      Thirds(3, 19) \o <<<<2, 2, 3>>>>, Thirds(5, 17) \o <<<<4, 2, 5>>>>, Thirds(7, 13),
      <<<<1, 0, 2>>, <<1, 1, 20>>, <<1, 2, 22>>, <<0, 2, 22>>>>,
      Thirds(3, 20) \o <<<<2, 2, 2>>>>, Thirds(5, 18) \o <<<<4, 2, 4>>>>, Thirds(7, 13),
      <<<<1, 0, 3>>, <<1, 1, 19>>, <<1, 2, 22>>, <<0, 2, 22>>>>,
      <<<<8, 0, 1>>, <<3, 0, 21>>, <<3, 1, 22>>, <<3, 2, 21>>, <<2, 2, 1>>>>,
      Thirds(5, 19) \o <<<<4, 2, 3>>>>, Thirds(7, 13),
      <<<<1, 0, 4>>, <<1, 1, 18>>, <<1, 2, 22>>, <<0, 2, 22>>>>,
      <<<<3, 0, 2>>, <<3, 1, 20>>, <<3, 2, 22>>, <<2, 2, 22>>>>,
      Thirds(5, 20) \o <<<<4, 2, 2>>>>, Thirds(7, 14)>>
WordPieces ==
    <<Thirds(1, 20), <<<<0, 2, 2>>>> \o Thirds(3, 18), <<<<2, 2, 4>>>> \o Thirds(5, 16),
      <<<<4, 2, 6>>>> \o Thirds(7, 13) \o <<<<6, 2, 1>>>>,
      <<<<1, 0, 21>>, <<1, 1, 22>>, <<1, 2, 21>>>>, <<<<0, 2, 1>>>> \o Thirds(3, 19), <<<<2, 2, 3>>>> \o Thirds(5, 17),
      <<<<4, 2, 5>>>> \o Thirds(7, 13) \o <<<<6, 2, 2>>>>,
      <<<<1, 1, 20>>, <<1, 2, 22>>, <<0, 2, 22>>>>, Thirds(3, 20), <<<<2, 2, 2>>>> \o Thirds(5, 18),
      <<<<4, 2, 4>>>> \o Thirds(7, 13) \o <<<<6, 2, 3>>>>,
      <<<<1, 1, 19>>, <<1, 2, 22>>, <<0, 2, 22>>, <<8, 0, 1>>>>, <<<<3, 0, 21>>, <<3, 1, 22>>, <<3, 2, 21>>>>,
      <<<<2, 2, 1>>>> \o Thirds(5, 19), <<<<4, 2, 3>>>> \o Thirds(7, 13) \o <<<<6, 2, 4>>>>,
      <<<<1, 1, 18>>, <<1, 2, 22>>, <<0, 2, 22>>, <<3, 0, 2>>>>, <<<<3, 1, 20>>, <<3, 2, 22>>, <<2, 2, 22>>>>,
      Thirds(5, 20), <<<<4, 2, 2>>>> \o Thirds(7, 14) \o <<<<8, 2, 1>>>>>>

SizesOf(pieces) == Tuple([j \in DOMAIN pieces |-> pieces[j][3]])
EndOf(sizes) == Places(Append(sizes, 0))[Len(sizes) + 1]
NumberSize(k) == EndOf(SizesOf(NumberPieces[k]))
BlockRow(k) == 3 * ((k - 1) \div 4) + 1
NumberColumn(k) == 2 * ((k - 1) % 4)

(* The words of a message, the padding's first bit at its end.             *)
WordsOfNumbers(data) ==
    LET all == FlattenSeq(data) \o <<1, 0, 0, 0>> IN Tuple([k \in 1..20 |-> SubSeq(all, 64 * k - 63, 64 * k)])

WordsTable(data) ==
    LET words == WordsOfNumbers(data)
        of(k) ==
            LET chunks == Chunked(data[k], SizesOf(NumberPieces[k])) IN
            <<<<BlockRow(k), NumberColumn(k), data[k]>>, <<BlockRow(k) + 1, NumberColumn(k), words[k]>>>>
            \o Tuple([j \in DOMAIN chunks |->
                         <<BlockRow(k) + NumberPieces[k][j][2], NumberPieces[k][j][1], <<ValueOf(chunks[j])>>>>])
            \o IF k \in {5, 9, 13, 17} THEN <<<<BlockRow(k) - 1, 6, <<ValueOf(chunks[1])>>>>>> ELSE <<>>
        placed == FlattenSeq([k \in 1..20 |-> of(k)]) \o <<<<15, 8, <<1>>>>>>
    IN FoldLeft(LAMBDA t, cell : [t EXCEPT ![cell[1]][cell[2] + 1] = cell[3]],
                Tuple([row \in 1..15 |-> Tuple([column \in 1..9 |-> Zero])]), placed)

PieceTerms(t, row, pieces) ==
    Terms([j \in DOMAIN pieces |-> t[row + pieces[j][2]][pieces[j][1] + 1]], Places(SizesOf(pieces)))
WordsHold(data, t) ==
    /\ \A k \in 1..20 :
          LET row == BlockRow(k)
              column == NumberColumn(k) + 1
          IN /\ t[row][column] = data[k]
             /\ SameSum(2, <<Term(t[row][column], 0)>>, PieceTerms(t, row, NumberPieces[k]))
             /\ SameSum(2, <<Term(t[row + 1][column], 0)>>, PieceTerms(t, row, WordPieces[k]))
    /\ t[3][7] = t[4][9] /\ \A row \in {6, 9, 12} : t[row][7] = t[row + 1][2]

(* No piece is looked up in a table, and the cell of the padding's bit is  *)
(* tied to nothing.                                                        *)
PiecesRanged(t) ==
    /\ t[15][9] = <<1>>
    /\ \A k \in 1..20 : \A piece \in ToSet(NumberPieces[k]) :
          In(t[BlockRow(k) + piece[2]][piece[1] + 1], 2^piece[3])
WordsMean(data, t) ==
    PiecesRanged(t) =>
        LET words == WordsOfNumbers(data) IN
        \A k \in 1..20 : WordOf(t[BlockRow(k) + 1][NumberColumn(k) + 1], 65) = words[k] \o <<0>>

Numbers(seed) == Tuple([k \in 1..20 |-> Noise(seed, k, NumberSize(k))])

(* A cell changed, a piece too large and the next too small, a piece and   *)
(* the word it is part of changed.                                         *)
ForgedWords(t, place) ==
    CASE place[1] = "cell" -> [t EXCEPT ![place[2]][place[3]][1] = @ + 1]
      [] place[1] = "piece" ->
            LET pieces == NumberPieces[place[2]]
                at(j) == pieces[place[3] + j]
                row == BlockRow(place[2])
            IN [t EXCEPT ![row + at(0)[2]][at(0)[1] + 1][1] = @ + 2^at(0)[3],
                         ![row + at(1)[2]][at(1)[1] + 1][1] = @ - 1]
      [] place[1] = "word" ->
            LET pieces == WordPieces[place[2]]
                piece == pieces[place[3]]
                row == BlockRow(place[2])
            IN [t EXCEPT ![row + piece[2]][piece[1] + 1][1] = @ + 1,
                         ![row + 1][NumberColumn(place[2]) + 1] =
                            Reduced(2, <<Term(@, 0), Term(<<1>>, Places(SizesOf(pieces))[place[3]])>>, 65)]
WordsPlaces ==
    {<<"cell", row, column>> : row \in 1..15, column \in 1..9}
    \cup UNION {{<<"piece", k, j>> : j \in 1..(Len(NumberPieces[k]) - 1)} : k \in 1..20}
    \cup UNION {{<<"word", k, j>> : j \in DOMAIN WordPieces[k]} : k \in 1..20}
WordsHonest(g) == {[data |-> Numbers(seed), cells |-> WordsTable(Numbers(seed))] : seed \in g.seeds}
WordsTried(g) ==
    UNION {{[f EXCEPT !.cells = ForgedWords(@, place)] : place \in WordsPlaces} : f \in WordsHonest(g)}

(* SHA-512's component: sixteen words are the first block, the other four  *)
(* and constants the second.  Words stand for the constants of its state.  *)
Initial512 == Tuple([i \in 1..8 |-> Noise(7, i, 64)])
Length512 == BitsOf(1024 + 252, 16) \o Tuple([i \in 1..48 |-> 0])
Zeros512 == Tuple([i \in 1..64 |-> 0])
Second512(words) == SubSeq(words, 17, 20) \o Tuple([i \in 1..11 |-> Zeros512]) \o <<Length512>>
WordCells(t) == Tuple([k \in 1..20 |-> t[BlockRow(k) + 1][NumberColumn(k) + 1]])

Hash512Rows(f, first, second) == [words |-> f.cells, first |-> first, second |-> second]
Hash512First(g, f, words, first) ==
    Hash512Rows(f, first, HashBlock(g, OutputOf(first), Second512(words), f.second))
Hash512Words(g, f, words) ==
    Hash512First(g, f, words, HashBlock(g, Initial512, SubSeq(words, 1, 16), f.first))
Hash512Table(g, f) == Hash512Words(g, f, WordCells(f.cells))
Hash512Holds(g, f, t) ==
    LET words == WordCells(t.words) IN
    /\ WordsHold(f.data, t.words)
    /\ ProcessHolds(g, [state |-> Initial512, words |-> SubSeq(words, 1, 16)], t.first)
    /\ ProcessHolds(g, [state |-> OutputOf(t.first), words |-> Second512(words)], t.second)
Hash512Honest(g) ==
    {[data |-> Numbers(1), cells |-> WordsTable(Numbers(1)), first |-> <<"nothing">>, second |-> <<"nothing">>]}
Hash512Means(g, f, t) ==
    LET message == WordsOfNumbers(f.data) \o Tuple([i \in 1..11 |-> Zeros512]) \o <<Length512>>
        first == Inputs(g, Initial512, SubSeq(message, 1, 16))
        after(in) == Tuple([i \in 1..8 |-> Added(<<in.state[i], in.states[g.rounds + 1][i]>>)])
        second == Inputs(g, after(first), SubSeq(message, 17, 32))
    IN f \in Hash512Honest(g)
       \/ (PiecesRanged(t.words) /\ UntiedRight(g, first, t.first) /\ UntiedRight(g, second, t.second)) =>
          \A i \in 1..8 : WordOf(OutputOf(t.second)[i], 64) = after(second)[i]
Hash512Tried(g) ==
    UNION {{[f EXCEPT !.first = place] : place \in {<<"out", 1>>, <<"round", 0, "s1">>, <<"added", 2>>}}
           \cup {[f EXCEPT !.second = place] : place \in {<<"out", 8>>, <<"step", 0, "w1">>, <<"round", 1, "s6">>}}
           \cup {[f EXCEPT !.cells = ForgedWords(@, place)] : place \in {<<"piece", 1, 3>>, <<"word", 20, 5>>}} :
               f \in Hash512Honest(g)}

-----------------------------------------------------------------------------
Sha2Kinds == {"sha_step", "sha_round", "sha_process", "sha_decomposition", "sha256", "sha512_words", "sha512"}
IsAlone(g) == g.kind \in {"sha_step", "sha_round"}
Sha2Honest(g) ==
    CASE IsAlone(g) -> AloneHonest(g)
      [] g.kind = "sha_process" -> ProcessInputs(g)
      [] g.kind = "sha_decomposition" -> {[data |-> DataOf(seed), place |-> <<"nothing">>] : seed \in g.seeds}
      [] g.kind = "sha256" -> HashInputs(g)
      [] g.kind = "sha512_words" -> WordsHonest(g)
      [] g.kind = "sha512" -> Hash512Honest(g)
Sha2Tried(g) ==
    CASE IsAlone(g) -> AloneTried(g)
      [] g.kind = "sha_process" -> ProcessTried(g)
      [] g.kind = "sha_decomposition" ->
            {[data |-> DataOf(seed), place |-> place] : seed \in g.seeds, place \in DecompositionPlaces}
      [] g.kind = "sha256" -> HashTried(g)
      [] g.kind = "sha512_words" -> WordsTried(g)
      [] g.kind = "sha512" -> Hash512Tried(g)
Sha2Table(g, f) ==
    CASE IsAlone(g) \/ g.kind = "sha512_words" -> f.cells
      [] g.kind = "sha_process" -> ProcessTable(g, f)
      [] g.kind = "sha_decomposition" -> ForgedDecomposition(DecompositionTable(SubSeq(f.data, 1, 2)), f.place)
      [] g.kind = "sha256" -> HashTable(g, f)
      [] g.kind = "sha512" -> Hash512Table(g, f)
Sha2Holds(g, f, t) ==
    CASE g.kind = "sha_step" -> IF g.version = 256 THEN StepHolds256(t) ELSE StepHolds512(t)
      [] g.kind = "sha_round" -> IF g.version = 256 THEN RoundHolds256(t, f.k) ELSE RoundHolds512(t, f.k)
      [] g.kind = "sha_process" -> ProcessHolds(g, f, t)
      [] g.kind = "sha_decomposition" -> DecompositionHolds(t) /\ t[1][9] = f.data[1] /\ t[3][9] = f.data[2]
      [] g.kind = "sha256" -> HashHolds(g, f, t)
      [] g.kind = "sha512_words" -> WordsHold(f.data, t)
      [] g.kind = "sha512" -> Hash512Holds(g, f, t)
Sha2Means(g, f, t) ==
    CASE g.kind = "sha_step" -> StepMeans(g, t)
      [] g.kind = "sha_round" -> RoundMeans(g, t, f.k)
      [] g.kind = "sha_process" -> ProcessMeans(g, f, t)
      [] g.kind = "sha_decomposition" -> DecompositionMeans(g, SubSeq(f.data, 1, 2), t)
      [] g.kind = "sha256" -> HashMeans(g, f, t)
      [] g.kind = "sha512_words" -> WordsMean(f.data, t)
      [] g.kind = "sha512" -> Hash512Means(g, f, t)
=============================================================================
