---------------------------- MODULE ZkevmOperations ----------------------------
(***************************************************************************)
(* The opcodes of the zkEVM circuit (include/nil/blueprint/zkevm/          *)
(* operations): ADD, SUB, ISZERO, MUL and DIV.  A row is what an opcode    *)
(* writes, or what anyone claims it could have written: the words of its   *)
(* operands and results and the carries and inverses its gates need.       *)
(* A word is a function from positions to chunks, the least one first.     *)
(* MUL and DIV join four chunks to a limb (chunk_sum_64); here a limb is   *)
(* one chunk in LimbBase.  Chunks are in range: the source leaves that to  *)
(* range checks it does not have yet.                                      *)
(***************************************************************************)
EXTENDS Integers, Sequences, FiniteSets, Functions

CONSTANTS
    FieldSize,  \* a prime; products of limbs do not reach it
    ChunkBase,  \* the chunks of ADD, SUB and ISZERO: two_16
    Triples,    \* how many groups of three chunks they have, before the last
    LimbBase,   \* the limbs of MUL and DIV: two_64
    Operand,    \* words that are on the stack
    LimbOperand \* and for MUL and DIV

VARIABLES
    stack, \* the machine's stack, the top first
    entry  \* what an opcode wrote, or what the gates accept

operationVars == <<stack, entry>>

E(x) == x % FieldSize
Residue == 0..(FieldSize - 1)
Inverted(x) == IF E(x) = 0 THEN 0 ELSE CHOOSE y \in Residue : E(x * y) = 1

Power(base, n) ==
    LET power[i \in 0..n] == IF i = 0 THEN 1 ELSE base * power[i - 1] IN power[n]
Squared(base) == base * base
Cubed(base) == base * base * base

Chunks == 0..(3 * Triples)
Limbs == 0..3
Size(base, positions) == Power(base, Cardinality(positions))

(* The field (of about 2^255 elements) has inverses, and is larger than the *)
(* sums of the gates: of limbs of 2^64 and of groups of three chunks of     *)
(* 2^16, and of all chunks of a word.                                       *)
ASSUME FieldSizeAssumption ==
    /\ FieldSize \in Nat /\ FieldSize > 2
    /\ \A x \in Residue \ {0} : \E y \in Residue : E(x * y) = 1
ASSUME SizesAssumption ==
    /\ ChunkBase \in Nat \ {0, 1} /\ LimbBase \in Nat \ {0, 1} /\ Triples \in Nat \ {0}
    /\ FieldSize > 4 * Cubed(LimbBase) /\ FieldSize > 2 * Cubed(ChunkBase)
    /\ FieldSize > (3 * Triples + 1) * ChunkBase
ASSUME OperandAssumption ==
    /\ Operand \subseteq 0..(Size(ChunkBase, Chunks) - 1)
    /\ LimbOperand \subseteq 0..(Size(LimbBase, Limbs) - 1)

(* zkevm_word_to_field_element, and back.                                  *)
Digits(n, base, positions) == [i \in positions |-> (n \div Power(base, i)) % base]
Number(w, base) == SumFunctionOnSet([i \in DOMAIN w |-> w[i] * Power(base, i)], DOMAIN w)

AllChunks(n) == Digits(n, ChunkBase, Chunks)
AllLimbs(n) == Digits(n, LimbBase, Limbs)

-----------------------------------------------------------------------------
(* ADD and SUB *)

(* Three chunks of a word as one number.                                   *)
Triple(w, g) == w[3 * g] + w[3 * g + 1] * ChunkBase + w[3 * g + 2] * Squared(ChunkBase)
Carried(carry, g) == IF g = 0 THEN 0 ELSE carry[g - 1]

(* generate_gates: the first row plus the second is the third.             *)
SumHolds(r) ==
    /\ \A g \in 0..(Triples - 1) :
          /\ E(Carried(r.carry, g) + Triple(r.a, g) + Triple(r.b, g)
               - Triple(r.r, g) - r.carry[g] * Cubed(ChunkBase)) = 0
          /\ E(r.carry[g] * (r.carry[g] - 1)) = 0
    /\ LET last == 3 * Triples IN
          /\ E(Carried(r.carry, Triples) + r.a[last] + r.b[last]
               - r.r[last] - r.carry[Triples] * ChunkBase) = 0
          /\ E(r.carry[Triples] * (r.carry[Triples] - 1)) = 0

(* The carries that generate_assignments computes.                         *)
Carries(a, b) ==
    LET carry[g \in 0..Triples] ==
            LET before == IF g = 0 THEN 0 ELSE carry[g - 1] IN
            IF g < Triples
            THEN IF before + Triple(a, g) + Triple(b, g) >= Cubed(ChunkBase) THEN 1 ELSE 0
            ELSE IF before + a[3 * g] + b[3 * g] >= ChunkBase THEN 1 ELSE 0
    IN carry

(* generate_assignments: SUB proves that the difference plus b is a.       *)
SumRow(op, a, b) ==
    LET result == (IF op = "add" THEN a + b ELSE a - b) % Size(ChunkBase, Chunks)
        first == IF op = "add" THEN a ELSE result
        third == IF op = "add" THEN result ELSE a
    IN [op |-> op, a |-> AllChunks(first), b |-> AllChunks(b), r |-> AllChunks(third),
        carry |-> Carries(AllChunks(first), AllChunks(b))]

-----------------------------------------------------------------------------
(* ISZERO *)

DigitSum(w) == SumFunctionOnSet(w, DOMAIN w)

IsZeroHolds(r) ==
    LET sum == DigitSum(r.a) IN
    /\ E(sum * r.inverse + r.result - 1) = 0
    /\ E(sum * r.result) = 0

IsZeroRow(a) ==
    [op |-> "iszero", a |-> AllChunks(a), result |-> IF a = 0 THEN 1 ELSE 0,
     inverse |-> Inverted(DigitSum(AllChunks(a)))]

-----------------------------------------------------------------------------
(* MUL and DIV *)

(* first_carryless_construct and second_carryless_construct: x * y + z - w *)
(* in the lower two limbs and in the upper two, without carries.  MUL has  *)
(* no z.                                                                   *)
FirstCarryless(x, y, z, w) ==
    x[0] * y[0] + z[0] + LimbBase * (x[0] * y[1] + x[1] * y[0] + z[1])
    - w[0] - LimbBase * w[1]
SecondCarryless(x, y, z, w) ==
    (x[0] * y[2] + x[1] * y[1] + x[2] * y[0] + z[2] - w[2])
    + LimbBase * (x[0] * y[3] + x[1] * y[2] + x[2] * y[1] + x[3] * y[0] + z[3] - w[3])

(* The gates on the product, its carries being c[1] to c[4].               *)
ProductHolds(x, y, z, w, c) ==
    /\ E(c[2] * (c[2] - 1)) = 0
    /\ E(c[4] * (c[4] - 1) * (c[4] - 2) * (c[4] - 3)) = 0
    /\ E(FirstCarryless(x, y, z, w) - c[1] * Squared(LimbBase) - c[2] * Cubed(LimbBase)) = 0
    /\ E(SecondCarryless(x, y, z, w) + c[1] + c[2] * LimbBase
         - c[3] * Squared(LimbBase) - c[4] * Cubed(LimbBase)) = 0

(* generate_assignments: the shifts of what the constructs give.           *)
ProductCarries(x, y, z, w) ==
    LET first == E(FirstCarryless(x, y, z, w)) \div Squared(LimbBase)
        second == E(SecondCarryless(x, y, z, w) + first) \div Squared(LimbBase)
    IN <<first % LimbBase, first \div LimbBase, second % LimbBase, second \div LimbBase>>

Zero == AllLimbs(0)

MulHolds(r) == ProductHolds(r.a, r.b, Zero, r.r, r.c)

MulRow(a, b) ==
    LET result == (a * b) % Size(LimbBase, Limbs) IN
    [op |-> "mul", a |-> AllLimbs(a), b |-> AllLimbs(b), r |-> AllLimbs(result),
     c |-> ProductCarries(AllLimbs(a), AllLimbs(b), Zero, AllLimbs(result))]

(* Mutant: nothing is asked of r when b is zero.                           *)
DivHoldsWithoutZeroCase(r) ==
    LET sum == DigitSum(r.b) IN
    /\ E(r.inverse * (r.inverse * sum - 1)) = 0
    /\ E(sum * (r.inverse * sum - 1)) = 0
    /\ ProductHolds(r.r, r.b, r.q, r.a, r.c)

(* The gates of the second row: r * b + q = a, and r = 0 if b = 0.         *)
DivHolds(r) ==
    LET sum == DigitSum(r.b) IN
    /\ E(r.inverse * (r.inverse * sum - 1)) = 0
    /\ E(sum * (r.inverse * sum - 1)) = 0
    /\ \A i \in Limbs : E((1 - r.inverse * sum) * r.r[i]) = 0
    /\ ProductHolds(r.r, r.b, r.q, r.a, r.c)

(* The gates of the third row, for b # 0: t is set from the first position *)
(* downwards at which b and q differ, and is set in the end.               *)
ComparisonHolds(r) ==
    LET nonzero == r.inverse * DigitSum(r.b)
        delta(i) == r.b[i] - r.q[i]
    IN /\ E(nonzero * (r.t[3] - r.v[3] * delta(3))) = 0
       /\ \A i \in 0..2 : E(nonzero * (r.t[i] - r.t[i + 1]
                                       - (1 - r.t[i + 1]) * r.v[i] * delta(i))) = 0
       /\ \A i \in Limbs :
             /\ E(nonzero * r.v[i] * (r.v[i] * delta(i) - 1)) = 0
             /\ E(nonzero * delta(i) * (r.v[i] * delta(i) - 1)) = 0
       /\ E(nonzero * (r.t[0] - 1)) = 0

(* The row generate_assignments completes from the operands and results.   *)
DivRow(a, b, result, q) ==
    [op |-> "div", a |-> a, b |-> b, r |-> result, q |-> q,
     c |-> ProductCarries(result, b, q, a), inverse |-> Inverted(DigitSum(b)),
     t |-> [i \in Limbs |-> IF \E j \in i..3 : b[j] > q[j] THEN 1 ELSE 0],
     v |-> [i \in Limbs |-> Inverted(b[i] - q[i])]]

DivOf(a, b) ==
    DivRow(AllLimbs(a), AllLimbs(b),
           AllLimbs(IF b # 0 THEN a \div b ELSE 0), AllLimbs(IF b # 0 THEN a % b ELSE a))

-----------------------------------------------------------------------------
(* Steps: an opcode of the machine, which pops its operands and pushes     *)
(* them back, or a claim that the gates accept.                            *)

OperationsInit ==
    /\ stack \in Operand \X Operand \cup LimbOperand \X LimbOperand
    /\ entry = [by |-> "nobody"]

Written(r) == entry' = [by |-> "opcode", is |-> r]
Claimed(r) == entry' = [by |-> "anyone", is |-> r]
OnStack(words) == {stack[1], stack[2]} \subseteq words

AddSub ==
    OnStack(Operand) /\ \E op \in {"add", "sub"} : Written(SumRow(op, stack[1], stack[2]))
IsZero == OnStack(Operand) /\ Written(IsZeroRow(stack[1]))
Mul == OnStack(LimbOperand) /\ Written(MulRow(stack[1], stack[2]))
Div == OnStack(LimbOperand) /\ Written(DivOf(stack[1], stack[2]))

(* Two words of the stack, whatever third word and carries are accepted.   *)
ClaimSum ==
    /\ OnStack(Operand)
    /\ \E third \in [Chunks -> 0..(ChunkBase - 1)], carry \in [0..Triples -> {0, 1}] :
          LET r == [op |-> "add", a |-> AllChunks(stack[1]), b |-> AllChunks(stack[2]),
                    r |-> third, carry |-> carry]
          IN SumHolds(r) /\ Claimed(r)

ClaimIsZero ==
    /\ OnStack(Operand)
    /\ \E result \in Residue, inverse \in Residue :
          LET r == [op |-> "iszero", a |-> AllChunks(stack[1]), result |-> result,
                    inverse |-> inverse]
          IN IsZeroHolds(r) /\ Claimed(r)

LimbWord == [Limbs -> 0..(LimbBase - 1)]
LimbOperands == {AllLimbs(n) : n \in LimbOperand}
CarriesTried ==
    {<<c1, c2, c3, c4>> : c1 \in 0..(LimbBase - 1), c2 \in 0..1,
                          c3 \in 0..(LimbBase - 1), c4 \in 0..3}

ClaimMul ==
    /\ OnStack(LimbOperand)
    /\ \E third \in LimbWord, c \in CarriesTried :
          LET r == [op |-> "mul", a |-> AllLimbs(stack[1]), b |-> AllLimbs(stack[2]),
                    r |-> third, c |-> c]
          IN MulHolds(r) /\ Claimed(r)

(* The gates of the third row leave one choice of t and v, whenever b # 0. *)
ClaimedDiv(a, b, result, q, c) ==
    [DivRow(a, b, result, q) EXCEPT
        !.c = c, !.t = [i \in Limbs |-> IF \E j \in i..3 : b[j] # q[j] THEN 1 ELSE 0]]

ClaimDiv ==
    /\ OnStack(LimbOperand)
    /\ LET dividend == AllLimbs(stack[1])
           divisor == AllLimbs(stack[2])
       IN \E result \in LimbWord, q \in LimbOperands :
             \E c \in {c \in CarriesTried : ProductHolds(result, divisor, q, dividend, c)} :
                LET r == ClaimedDiv(dividend, divisor, result, q, c)
                IN DivHolds(r) /\ ComparisonHolds(r) /\ Claimed(r)

OperationsNext ==
    /\ entry.by = "nobody"
    /\ AddSub \/ IsZero \/ Mul \/ Div \/ ClaimSum \/ ClaimIsZero \/ ClaimMul \/ ClaimDiv
    /\ UNCHANGED stack

OperationsSpec == OperationsInit /\ [][OperationsNext]_operationVars

-----------------------------------------------------------------------------
(* Properties *)

(* What an opcode writes for the words on the stack, whatever carries they *)
(* make and whether the divisor is zero or not, satisfies its own gates.   *)
OperationsAccepted ==
    entry.by = "opcode" =>
        CASE entry.is.op \in {"add", "sub"} -> SumHolds(entry.is)
          [] entry.is.op = "iszero" -> IsZeroHolds(entry.is)
          [] entry.is.op = "mul" -> MulHolds(entry.is)
          [] entry.is.op = "div" -> DivHolds(entry.is) /\ ComparisonHolds(entry.is)

Wrapped(n) == n % Size(LimbBase, Limbs)
Word(w) == Number(w, LimbBase)

(* Whatever carries and inverses are chosen, accepted rows mean what the   *)
(* opcode computes: the sum and the product of words that wrap around, the *)
(* test for zero; for a quotient r and a remainder q only that r * b + q   *)
(* is a up to a multiple of the word's size, that the remainder is not the *)
(* divisor, and that r is zero if the divisor is.                          *)
OperationsMean ==
    entry.by = "anyone" =>
        LET r == entry.is IN
        CASE r.op = "add" ->
                Number(r.r, ChunkBase)
                    = (Number(r.a, ChunkBase) + Number(r.b, ChunkBase)) % Size(ChunkBase, Chunks)
          [] r.op = "iszero" -> r.result = IF Number(r.a, ChunkBase) = 0 THEN 1 ELSE 0
          [] r.op = "mul" -> Word(r.r) = Wrapped(Word(r.a) * Word(r.b))
          [] r.op = "div" ->
                /\ Word(r.a) = Wrapped(Word(r.r) * Word(r.b) + Word(r.q))
                /\ Word(r.b) = 0 => Word(r.r) = 0
                /\ Word(r.b) # 0 => Word(r.q) # Word(r.b)
=============================================================================
