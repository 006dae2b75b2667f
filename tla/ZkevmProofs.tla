----------------------------- MODULE ZkevmProofs -----------------------------
(***************************************************************************)
(* The zkEVM's state selector, opcode rows and bytecode table, for every   *)
(* field, every set of opcodes and every size: what the constraints        *)
(* accept, whoever wrote it, is what they are there for, and what the      *)
(* circuit and the component write is accepted.                            *)
(***************************************************************************)
EXTENDS MCZkevm, CommonLemmas

-----------------------------------------------------------------------------
(* zkevm_circuit: the field                                                *)

LEMMA FieldValues ==
    /\ Prime \in Nat \ {0} /\ Prime > 2
    /\ \A x \in Int : F(x) \in Field
    /\ \A x \in Field : F(x) = x /\ x \in Int
<1>1. Prime \in Nat \ {0} /\ Prime > 2
  BY FieldAssumption
<1>2. ASSUME NEW x \in Int PROVE F(x) \in Field
  BY <1>1 DEF F, Field
<1>3. ASSUME NEW x \in Field PROVE F(x) = x /\ x \in Int
  <2>1. x \in Int /\ x \in 0..(Prime - 1) /\ x = Prime * 0 + x
    BY <1>1 DEF Field
  <2> QED
    BY <1>1, <2>1, RemainderIsUnique DEF F
<1> QED
  BY <1>1, <1>2, <1>3

LEMMA FieldDivided ==
    ASSUME NEW x \in Int
    PROVE  \E q \in Int, r \in 0..(Prime - 1) : x = Prime * q + r /\ F(x) = r
<1>1. Prime \in Nat \ {0}
  BY FieldAssumption
<1>2. \E q \in Int, r \in 0..(Prime - 1) : x = Prime * q + r /\ x % Prime = r
  BY <1>1, Divided
<1> QED
  BY <1>2 DEF F

LEMMA CircuitField == Prime \in Nat \ {0} /\ IsField(Prime) /\ Field = 0..(Prime - 1)
<1>1. Prime \in Nat /\ Prime > 2 /\ Field = 0..(Prime - 1)
  BY FieldAssumption DEF Field
<1>2. Field \ {0} = 1..(Prime - 1)
  BY <1>1
<1>3. \A x \in Field \ {0} : \E y \in Field : (x * y) % Prime = 1
  BY FieldAssumption
<1>4. \A x \in 1..(Prime - 1) : \E y \in 0..(Prime - 1) : (x * y) % Prime = 1
  BY <1>1, <1>2, <1>3
<1> QED
  BY <1>1, <1>4 DEF IsField

LEMMA FieldProduct ==
    ASSUME NEW x \in Int, NEW y \in Int
    PROVE  F(x * y) = F(F(x) * y)
  BY CircuitField, ProductOfRemainder DEF F

LEMMA FieldFactor ==
    ASSUME NEW x \in Int, NEW y \in Int, F(x * y) = 0
    PROVE  F(x) = 0 \/ F(y) = 0
  BY CircuitField, FactorIsZero DEF F

LEMMA FieldZero ==
    ASSUME NEW x \in Int, -Prime < x, x < Prime, F(x) = 0
    PROVE  x = 0
  BY CircuitField, SmallZero DEF F

LEMMA SameInField ==
    ASSUME NEW x \in Field, NEW y \in Field, F(x - y) = 0
    PROVE  x = y
  BY CircuitField, SameElement DEF F

LEMMA FieldBit ==
    ASSUME NEW b \in Field, F(b * (b - 1)) = 0
    PROVE  b \in {0, 1}
  BY CircuitField, BitConstraint DEF F

-----------------------------------------------------------------------------
(* zkevm_circuit: the selector                                             *)

SelectorRow == [index : Field, pair : [Pair -> Field], parity : Field]

LEMMA PairFacts ==
    /\ OptionsAmount \in 1..Prime /\ Prime \in Nat
    /\ LastPair \in Nat /\ Pair = 1..LastPair
    /\ OptionsAmount \in {2 * LastPair, 2 * LastPair - 1}
    /\ OptionsAmount % 2 # 0 => OptionsAmount = 2 * LastPair - 1
    /\ LastPair >= 1 /\ LastPair <= Prime
    /\ IsFiniteSet(Pair) /\ Cardinality(Pair) = LastPair
<1>1. OptionsAmount \in 1..Prime /\ Prime \in Nat
  BY OpcodeAssumption, FieldAssumption
<1>2. PICK q \in Int, r \in 0..(2 - 1) : OptionsAmount + 1 = 2 * q + r /\ (OptionsAmount + 1) \div 2 = q
  BY <1>1, Divided
<1>3. LastPair = q
  BY <1>2 DEF LastPair
<1>4. OptionsAmount \in {2 * q, 2 * q - 1} /\ q >= 1 /\ q <= Prime
  BY <1>1, <1>2
<1>5. OptionsAmount = 2 * q => OptionsAmount % 2 = 0
  BY <1>1
<1>6. Pair = 1..q
  BY <1>3 DEF Pair, LastPair
<1>7. IsFiniteSet(Pair) /\ Cardinality(Pair) = q
  BY <1>2, <1>4, <1>6, FS_Interval
<1> QED
  BY <1>1, <1>3, <1>4, <1>5, <1>6, <1>7

(* The option's pair and its place in it.                                  *)
LEMMA OptionFacts ==
    ASSUME NEW option \in Option
    PROVE  \E q \in Int, r \in {0, 1} :
               /\ q = option \div 2 /\ r = option % 2 /\ option = 2 * q + r
               /\ q + 1 \in Pair
               /\ OptionsAmount % 2 # 0 /\ q + 1 = LastPair => r = 0
<1>1. /\ OptionsAmount \in 1..Prime /\ Prime \in Nat
      /\ LastPair \in Nat /\ Pair = 1..LastPair
      /\ OptionsAmount \in {2 * LastPair, 2 * LastPair - 1}
      /\ OptionsAmount % 2 # 0 => OptionsAmount = 2 * LastPair - 1
  BY PairFacts
<1>2. option \in Nat /\ option <= OptionsAmount - 1
  BY <1>1 DEF Option
<1>3. PICK q \in Int, r \in 0..(2 - 1) : option = 2 * q + r /\ option % 2 = r /\ option \div 2 = q
  BY <1>2, Divided
<1>4. q + 1 \in Pair
  BY <1>1, <1>2, <1>3
<1>5. OptionsAmount % 2 # 0 /\ q + 1 = LastPair => r = 0
  BY <1>1, <1>2, <1>3
<1> QED
  BY <1>3, <1>4, <1>5

(* Exactly one pair is marked, and the parity and the index follow.        *)
LEMMA OnePairIsMarked ==
    ASSUME NEW s \in SelectorRow, SelectorHolds(s)
    PROVE  \E k \in Pair : /\ s.pair[k] = 1 /\ \A i \in Pair \ {k} : s.pair[i] = 0
                           /\ s.parity \in {0, 1}
                           /\ s.index = 2 * (k - 1) + s.parity
                           /\ s.index \in Option
<1> DEFINE f == s.pair
           g == FirstOptions(s)
<1>1. f \in [Pair -> Field] /\ s.parity \in Field /\ s.index \in Field
  BY DEF SelectorRow
<1>2. IsFiniteSet(Pair) /\ Cardinality(Pair) = LastPair /\ LastPair \in Nat /\ LastPair <= Prime
  BY PairFacts
<1>3. Prime \in Nat /\ Prime > 2
  BY FieldAssumption
<1>4. \A i \in Pair : f[i] \in {0, 1}
  BY <1>1, FieldBit DEF SelectorHolds
<1>5. s.parity \in {0, 1}
  BY <1>1, FieldBit DEF SelectorHolds
<1>6. F(SumFunctionOnSet(f, Pair) - 1) = 0
  BY <1>1 DEF SelectorHolds, SumFunction
<1>7. F(SumFunctionOnSet(g, Pair) + s.parity - s.index) = 0
  BY DEF SelectorHolds, SumFunction, FirstOptions
<1>8. OptionsAmount % 2 # 0 => F(f[LastPair] * s.parity) = 0
  BY DEF SelectorHolds
<1> HIDE DEF f
<1>9. SumFunctionOnSet(f, Pair) = 1
  <2>1. PICK n \in Nat : n = SumFunctionOnSet(f, Pair)
    BY <1>2, <1>4, SumIsNatural
  <2>2. n <= LastPair
    BY <1>2, <1>4, <2>1, SumOfBits
  <2>3. n - 1 \in Int /\ -Prime < n - 1 /\ n - 1 < Prime
    BY <1>2, <1>3, <2>1, <2>2
  <2>4. n - 1 = 0
    BY <1>6, <2>1, <2>3, FieldZero
  <2> QED
    BY <2>1, <2>4
<1>10. PICK k \in Pair : f[k] = 1
  <2> SUFFICES ASSUME \A i \in Pair : f[i] # 1 PROVE FALSE
    OBVIOUS
  <2>1. \A i \in Pair : f[i] = 0
    BY <1>4
  <2> QED
    BY <1>2, <1>9, <2>1, SumOfZeros
<1> DEFINE R == Pair \ {k}
<1>11. IsFiniteSet(R) /\ k \notin R /\ R \cup {k} = Pair /\ R \subseteq Pair
  BY <1>2, OneLess
<1>12. \A i \in R : f[i] = 0
  <2>1. SumFunctionOnSet(f, Pair) = f[k] + SumFunctionOnSet(f, R)
    BY <1>2, <1>4, SumRemove
  <2>2. PICK n \in Nat : n = SumFunctionOnSet(f, R)
    BY <1>4, <1>11, SumIsNatural
  <2>3. n = 0
    BY <1>9, <1>10, <2>1, <2>2
  <2>4. ASSUME NEW i \in R PROVE f[i] = 0
    <3>1. SumFunctionOnSet(f, R) = f[i] + SumFunctionOnSet(f, R \ {i})
      BY <1>4, <1>11, SumRemove
    <3>2. PICK m \in Nat : m = SumFunctionOnSet(f, R \ {i})
      BY <1>4, <1>11, OneLess, SumIsNatural
    <3> QED
      BY <1>4, <2>2, <2>3, <3>1, <3>2
  <2> QED
    BY <2>4
<1>13. k \in Int /\ 1 <= k /\ k <= LastPair
  BY <1>2, PairFacts
<1>14. g[k] = 2 * (k - 1) /\ \A i \in R : g[i] = 0
  <2>1. \A i \in Pair : g[i] = 2 * (i - 1) * f[i] /\ i \in Int
    BY PairFacts DEF f, FirstOptions
  <2> HIDE DEF g
  <2>2. g[k] = 2 * (k - 1) * 1
    BY <1>10, <2>1
  <2>3. \A i \in R : g[i] = 2 * (i - 1) * 0
    BY <1>11, <1>12, <2>1
  <2> QED
    BY <1>11, <1>13, <2>1, <2>2, <2>3
<1> HIDE DEF g
<1>15. SumFunctionOnSet(g, Pair) = 2 * (k - 1)
  <2>1. \A i \in Pair : g[i] \in Int
    BY <1>11, <1>13, <1>14
  <2>2. SumFunctionOnSet(g, Pair) = g[k] + SumFunctionOnSet(g, R)
    BY <1>2, <2>1, SumRemove
  <2>3. SumFunctionOnSet(g, R) = 0
    BY <1>11, <1>14, SumOfZeros
  <2> QED
    BY <1>13, <1>14, <2>2, <2>3
<1> DEFINE o == 2 * (k - 1) + s.parity
<1>16. o \in Option
  <2>1. OptionsAmount \in {2 * LastPair, 2 * LastPair - 1}
    BY PairFacts
  <2>2. OptionsAmount % 2 # 0 /\ k = LastPair => s.parity = 0
    <3> SUFFICES ASSUME OptionsAmount % 2 # 0, k = LastPair PROVE s.parity = 0
      OBVIOUS
    <3>1. F(1 * s.parity) = 0
      BY <1>8, <1>10
    <3>2. 1 * s.parity = s.parity
      BY <1>5
    <3> QED
      BY <1>1, <3>1, <3>2, FieldValues
  <2>3. OptionsAmount = 2 * LastPair - 1 => OptionsAmount % 2 # 0
    BY <1>2
  <2> QED
    BY <1>2, <1>5, <1>13, <2>1, <2>2, <2>3 DEF Option
<1>17. o \in Field
  BY <1>16, PairFacts DEF Option, Field
<1>18. o = s.index
  <2>1. F(o - s.index) = 0
    <3>1. PICK n \in Int : n = SumFunctionOnSet(g, Pair) /\ n = 2 * (k - 1)
      BY <1>13, <1>15
    <3>2. n + s.parity - s.index = o - s.index
      <4>1. s.parity \in Int /\ s.index \in Int
        BY <1>1, FieldValues
      <4> QED
        BY <3>1, <4>1
    <3> QED
      BY <1>7, <3>1, <3>2
  <2> HIDE DEF o
  <2> QED
    BY <1>1, <1>17, <2>1, SameInField
<1> QED
  BY <1>5, <1>10, <1>12, <1>16, <1>18 DEF f

(* What every selector that is accepted does.                              *)
LEMMA SelectorsMean ==
    ASSUME NEW s \in SelectorRow, SelectorHolds(s)
    PROVE  /\ s.index \in Option
           /\ \A option \in Option : OptionConstraint(s, option) # 0 <=> option = s.index
<1>1. PICK k \in Pair : /\ s.pair[k] = 1 /\ \A i \in Pair \ {k} : s.pair[i] = 0
                        /\ s.parity \in {0, 1}
                        /\ s.index = 2 * (k - 1) + s.parity
                        /\ s.index \in Option
  BY OnePairIsMarked
<1>2. k \in Int /\ Prime \in Nat /\ Prime > 2
  BY PairFacts, FieldAssumption
<1>3. F(0) = 0 /\ F(1) = 1 /\ F(-1) # 0
  <2>1. 0 \in Field /\ 1 \in Field
    BY <1>2 DEF Field
  <2>2. F(-1) = 0 => -1 = 0
    BY <1>2, FieldZero
  <2> QED
    BY <2>1, <2>2, FieldValues
<1>4. ASSUME NEW option \in Option
      PROVE  OptionConstraint(s, option) # 0 <=> option = s.index
  <2>1. PICK q \in Int, r \in {0, 1} :
           q = option \div 2 /\ r = option % 2 /\ option = 2 * q + r /\ q + 1 \in Pair
    BY OptionFacts
  <2> DEFINE p == q + 1
  <2> DEFINE x == IF r = 0 THEN s.parity - 1 ELSE s.parity
  <2>2. OptionConstraint(s, option) = F(s.pair[p] * x)
    BY <2>1 DEF OptionConstraint
  <2>3. x \in {-1, 0, 1} /\ (x = 0 <=> r # s.parity)
    BY <1>1, <2>1
  <2> HIDE DEF x
  <2>4. CASE p = k
    <3>1. F(s.pair[p] * x) = F(x)
      <4>1. 1 * x = x
        BY <2>3
      <4> QED
        BY <1>1, <2>4, <4>1
    <3>2. F(x) # 0 <=> r = s.parity
      BY <1>3, <2>3
    <3>3. option = s.index <=> r = s.parity
      BY <1>1, <1>2, <2>1, <2>4
    <3> QED
      BY <2>2, <3>1, <3>2, <3>3
  <2>5. CASE p # k
    <3>1. F(s.pair[p] * x) = 0
      <4>1. 0 * x = 0
        BY <2>3
      <4>2. s.pair[p] = 0
        BY <1>1, <2>1, <2>5
      <4> QED
        BY <1>3, <4>1, <4>2
    <3>2. option # s.index
      BY <1>1, <1>2, <2>1, <2>5
    <3> QED
      BY <2>2, <3>1, <3>2
  <2> QED
    BY <2>4, <2>5
<1> QED
  BY <1>1, <1>4

LEMMA OptionIsElement ==
    ASSUME NEW s \in SelectorRow, NEW option \in Option
    PROVE  OptionConstraint(s, option) \in Field
<1>1. PICK q \in Int, r \in {0, 1} :
         q = option \div 2 /\ r = option % 2 /\ option = 2 * q + r /\ q + 1 \in Pair
  BY OptionFacts
<1>2. s.pair[q + 1] \in Int /\ s.parity \in Int
  BY <1>1, FieldValues DEF SelectorRow
<1>3. PICK x \in Int : x = IF r = 0 THEN s.parity - 1 ELSE s.parity
  BY <1>2
<1>4. OptionConstraint(s, option) = F(s.pair[q + 1] * x)
  BY <1>1, <1>3 DEF OptionConstraint
<1>5. s.pair[q + 1] * x \in Int
  BY <1>2, <1>3
<1> QED
  BY <1>4, <1>5, FieldValues

(* What state_selector writes is accepted.                                 *)
LEMMA SelectedIsAccepted ==
    ASSUME NEW option \in Option
    PROVE  Selected(option) \in SelectorRow /\ SelectorHolds(Selected(option))
<1> DEFINE s == Selected(option)
           f == s.pair
           g == FirstOptions(s)
<1>0. PICK q \in Int, r \in {0, 1} :
         /\ q = option \div 2 /\ r = option % 2 /\ option = 2 * q + r
         /\ q + 1 \in Pair
         /\ OptionsAmount % 2 # 0 /\ q + 1 = LastPair => r = 0
  BY OptionFacts
<1>1. PICK k \in Pair :
         /\ q = option \div 2 /\ k = q + 1 /\ r = option % 2 /\ option = 2 * q + r
         /\ OptionsAmount % 2 # 0 /\ k = LastPair => r = 0
  BY <1>0
<1>2. /\ s.index = option /\ s.parity = r /\ f = [i \in Pair |-> IF i = k THEN 1 ELSE 0]
      /\ DOMAIN f = Pair
  BY <1>1 DEF Selected
<1>3. Prime \in Nat /\ Prime > 2 /\ 0 \in Field /\ 1 \in Field /\ option \in Field
  BY FieldAssumption, PairFacts DEF Field, Option
<1>4. s \in SelectorRow
  BY <1>2, <1>3 DEF SelectorRow, Selected
<1>5. F(0) = 0 /\ F(0 * (0 - 1)) = 0 /\ F(1 * (1 - 1)) = 0
  <2>1. 0 * (0 - 1) = 0 /\ 1 * (1 - 1) = 0
    OBVIOUS
  <2>2. F(0) = 0
    BY <1>3, FieldValues
  <2> QED
    BY <2>1, <2>2
<1>6. IsFiniteSet(Pair) /\ IsFiniteSet(Pair \ {k})
  BY PairFacts, OneLess
<1>7. SumFunction(f) = 1
  <2>1. SumFunction(f) = SumFunctionOnSet(f, Pair)
    BY <1>2 DEF SumFunction
  <2>2. f[k] = 1 /\ \A i \in Pair : f[i] \in Int /\ (i # k => f[i] = 0)
    BY <1>2
  <2> HIDE DEF f
  <2>3. SumFunctionOnSet(f, Pair) = f[k] + SumFunctionOnSet(f, Pair \ {k})
    BY <1>6, <2>2, SumRemove
  <2>4. SumFunctionOnSet(f, Pair \ {k}) = 0
    BY <1>6, <2>2, SumOfZeros
  <2> QED
    BY <2>1, <2>2, <2>3, <2>4
<1>8. SumFunction(g) = 2 * q
  <2>1. SumFunction(g) = SumFunctionOnSet(g, Pair)
    BY DEF SumFunction, FirstOptions
  <2>2. \A i \in Pair : i \in Int /\ g[i] = 2 * (i - 1) * f[i]
    BY PairFacts DEF FirstOptions
  <2>3. \A i \in Pair : f[i] \in {0, 1} /\ (i # k => f[i] = 0) /\ (i = k => f[i] = 1)
    BY <1>2
  <2> HIDE DEF f, g
  <2>4. \A i \in Pair : i # k => g[i] = 0
    <3>1. \A i \in Pair : i # k => g[i] = 2 * (i - 1) * 0
      BY <2>2, <2>3
    <3> QED
      BY <2>2, <3>1
  <2>5. g[k] = 2 * q
    <3>1. g[k] = 2 * (k - 1) * 1
      BY <2>2, <2>3
    <3> QED
      BY <1>1, <3>1
  <2>6. \A i \in Pair : g[i] \in Int
    BY <2>4, <2>5
  <2>7. SumFunctionOnSet(g, Pair) = g[k] + SumFunctionOnSet(g, Pair \ {k})
    BY <1>6, <2>6, SumRemove
  <2>8. SumFunctionOnSet(g, Pair \ {k}) = 0
    BY <1>6, <2>4, SumOfZeros
  <2> QED
    BY <2>1, <2>5, <2>7, <2>8
<1>9. \A i \in Pair : F(f[i] * (f[i] - 1)) = 0
  <2>1. \A i \in Pair : f[i] = 0 \/ f[i] = 1
    BY <1>2
  <2> HIDE DEF f
  <2> QED
    BY <1>5, <2>1
<1>10. F(SumFunction(f) - 1) = 0
  BY <1>5, <1>7
<1>11. F(SumFunction(g) + s.parity - s.index) = 0
  <2>1. 2 * q + r - option = 0
    BY <1>1
  <2> QED
    BY <1>2, <1>5, <1>8, <2>1
<1>12. F(s.parity * (s.parity - 1)) = 0
  BY <1>1, <1>2, <1>5
<1>13. OptionsAmount % 2 # 0 => F(f[LastPair] * s.parity) = 0
  <2> SUFFICES ASSUME OptionsAmount % 2 # 0 PROVE F(f[LastPair] * r) = 0
    BY <1>2
  <2>1. f[LastPair] \in {0, 1} /\ (f[LastPair] = 0 \/ r = 0)
    BY <1>1, <1>2, PairFacts
  <2>2. \A a, b \in {0, 1} : a = 0 \/ b = 0 => a * b = 0
    OBVIOUS
  <2> HIDE DEF f
  <2>3. f[LastPair] * r = 0
    BY <1>1, <2>1, <2>2
  <2> QED
    BY <1>5, <2>3
<1> QED
  BY <1>4, <1>9, <1>10, <1>11, <1>12, <1>13 DEF SelectorHolds

-----------------------------------------------------------------------------
(* Rows                                                                    *)

TableRow == [opcode : SelectorRow, step : Field, count : Field, inverse : Field, pc : Field]

LEMMA RowValues ==
    ASSUME NEW row \in TableRow
    PROVE  /\ row.opcode \in SelectorRow
           /\ row.opcode.index \in Field /\ row.opcode.index \in Int
           /\ row.step \in Field /\ row.step \in Int
           /\ row.count \in Field /\ row.count \in Int
           /\ row.inverse \in Field /\ row.inverse \in Int
           /\ row.pc \in Field /\ row.pc \in Int
<1>1. /\ row.opcode \in SelectorRow /\ row.opcode.index \in Field /\ row.step \in Field
      /\ row.count \in Field /\ row.inverse \in Field /\ row.pc \in Field
  BY DEF TableRow, SelectorRow
<1> QED
  BY <1>1, FieldValues

LEMMA OpcodeFacts ==
    ASSUME NEW op \in Implemented
    PROVE  /\ op \in Option /\ op \in Field
           /\ Height[op] \in Nat /\ 1 <= Height[op] /\ Height[op] <= OptionsAmount
           /\ OptionsAmount \in Nat /\ OptionsAmount <= Prime /\ Prime \in Nat
           /\ GateRow[op] \subseteq 0..(Height[op] - 1)
  BY OpcodeAssumption, FieldAssumption DEF Option, Field

LEMMA Inverses ==
    ASSUME NEW x \in Field
    PROVE  /\ InverseOrZero(x) \in Field
           /\ x # 0 => F(x * InverseOrZero(x)) = 1
           /\ x = 0 => InverseOrZero(x) = 0
<1>1. 0 \in Field
  BY FieldAssumption DEF Field
<1>2. x # 0 => \E y \in Field : F(x * y) = 1
  BY FieldAssumption DEF F
<1> QED
  BY <1>1, <1>2 DEF InverseOrZero

(* The rows that advance_rows writes for an opcode.                        *)
LEMMA OpcodeRowFacts ==
    ASSUME NEW op \in Implemented, NEW i \in 1..Height[op]
    PROVE  LET row == OpcodeRows(op)[i] IN
           /\ row \in TableRow
           /\ row.opcode = Selected(op) /\ row.opcode.index = op
           /\ row.step = IF i = 1 THEN 1 ELSE 0
           /\ row.count = Height[op] - i
           /\ row.inverse = InverseOrZero(Height[op] - i)
           /\ row.pc = 1
           /\ SelectorHolds(row.opcode)
<1> DEFINE row == OpcodeRows(op)[i]
<1>1. /\ row.opcode = Selected(op)
      /\ row.step = IF i = 1 THEN 1 ELSE 0
      /\ row.count = Height[op] - i
      /\ row.inverse = InverseOrZero(Height[op] - i)
      /\ row.pc = 1
      /\ row = [opcode |-> row.opcode, step |-> row.step, count |-> row.count,
                inverse |-> row.inverse, pc |-> row.pc]
  BY DEF OpcodeRows
<1>2. Height[op] - i \in Field /\ 0 \in Field /\ 1 \in Field
  BY OpcodeFacts, FieldAssumption DEF Field
<1>3. Selected(op) \in SelectorRow /\ SelectorHolds(Selected(op)) /\ Selected(op).index = op
  BY OpcodeFacts, SelectedIsAccepted DEF Selected
<1>4. InverseOrZero(Height[op] - i) \in Field
  BY <1>2, Inverses
<1> HIDE DEF row
<1>5. row \in TableRow
  BY <1>1, <1>2, <1>3, <1>4 DEF TableRow
<1> QED
  BY <1>1, <1>3, <1>5 DEF row

(* A marked row has its opcode's height.                                   *)
LEMMA HeightMeans ==
    ASSUME NEW row \in TableRow, SelectorHolds(row.opcode), HeightHolds(row),
           row.opcode.index \in Implemented, row.step # 0
    PROVE  row.count = Height[row.opcode.index] - 1
<1> DEFINE op == row.opcode.index
           oc == OptionConstraint(row.opcode, op)
           d == row.count - (Height[op] - 1)
<1>1. Height[op] \in Nat /\ Height[op] - 1 \in Field /\ op \in Option
  BY OpcodeFacts DEF Field
<1>2. row.count \in Field /\ row.count \in Int /\ row.step \in Field /\ row.step \in Int
  BY RowValues
<1>3. oc # 0
  BY <1>1, RowValues, SelectorsMean
<1>4. oc \in Field
  BY <1>1, RowValues, OptionIsElement
<1>5. F(oc) = oc /\ oc \in Int /\ F(row.step) = row.step
  BY <1>2, <1>4, FieldValues
<1> HIDE DEF oc
<1>6. IF Height[op] = 1 THEN F(oc * row.count) = 0 ELSE F(oc * d * row.step) = 0
  BY DEF HeightHolds, oc
<1>7. CASE Height[op] = 1
  <2>1. F(row.count) = 0
    BY <1>2, <1>3, <1>5, <1>6, <1>7, FieldFactor
  <2>2. row.count = 0
    BY <1>2, <2>1, FieldValues
  <2> QED
    BY <1>7, <2>2
<1>8. CASE Height[op] # 1
  <2>1. d \in Int
    BY <1>1, <1>2
  <2> HIDE DEF d
  <2>2. PICK m \in Int : m = oc * d
    BY <1>5, <2>1
  <2>3. F(m * row.step) = 0
    BY <1>6, <1>8, <2>2
  <2>4. F(m) = 0
    BY <1>2, <1>5, <2>3, FieldFactor
  <2>5. F(d) = 0
    BY <1>3, <1>5, <2>1, <2>2, <2>4, FieldFactor
  <2> QED
    BY <1>1, <1>2, <2>5, SameInField DEF d
<1> QED
  BY <1>7, <1>8

(* A row that is not marked continues the row before.                      *)
LEMMA TransitionMeans ==
    ASSUME NEW prev \in TableRow, NEW row \in TableRow,
           TransitionHolds(prev, row), NextHolds(prev, row, 0), row.step # 1
    PROVE  /\ row.opcode.index = prev.opcode.index
           /\ prev.count # 0 /\ row.count = prev.count - 1
           /\ row.pc = prev.pc
<1>1. /\ row.opcode.index \in Field /\ row.opcode.index \in Int
      /\ prev.opcode.index \in Field /\ prev.opcode.index \in Int
      /\ row.step \in Field /\ row.step \in Int /\ row.count \in Field /\ row.count \in Int
      /\ prev.count \in Field /\ prev.count \in Int /\ prev.inverse \in Int
      /\ row.pc \in Field /\ row.pc \in Int /\ prev.pc \in Field /\ prev.pc \in Int
  BY RowValues
<1>2. Prime \in Nat /\ Prime > 2 /\ 0 \in Field /\ 1 \in Field
  BY FieldAssumption DEF Field
<1>3. PICK m \in Int : m = 1 - row.step
  BY <1>1
<1>4. F(m) # 0
  BY <1>1, <1>2, <1>3, SameInField
<1>5. row.opcode.index = prev.opcode.index
  <2>1. PICK d \in Int : d = row.opcode.index - prev.opcode.index
    BY <1>1
  <2>2. F(m * d) = 0
    BY <1>3, <2>1 DEF TransitionHolds
  <2>3. F(d) = 0
    BY <1>4, <2>2, FieldFactor
  <2> QED
    BY <1>1, <2>1, <2>3, SameInField
<1>6. prev.count # 0
  <2>1. PICK d \in Int : d = 1 - prev.inverse * prev.count
    BY <1>1
  <2>2. F(d * m) = 0
    BY <1>3, <2>1 DEF TransitionHolds
  <2>3. F(d) = 0
    BY <1>4, <2>2, FieldFactor
  <2>4. prev.count = 0 => d = 1
    BY <1>1, <2>1
  <2>5. F(1) = 1
    BY <1>2, FieldValues
  <2> QED
    BY <2>3, <2>4, <2>5
<1>7. row.count = prev.count - 1
  <2>1. PICK d \in Int : d = row.count - prev.count + 1
    BY <1>1
  <2>2. F(prev.count * d) = 0
    BY <2>1 DEF NextHolds
  <2>3. F(prev.count) # 0
    BY <1>1, <1>6, FieldValues
  <2>4. F(d) = 0
    BY <1>1, <2>2, <2>3, FieldFactor
  <2>5. prev.count - 1 \in Field /\ d = row.count - (prev.count - 1)
    BY <1>1, <1>2, <1>6, <2>1 DEF Field
  <2>6. PICK c \in Field : c = prev.count - 1 /\ d = row.count - c
    BY <2>5
  <2> QED
    BY <1>1, <2>4, <2>6, SameInField
<1>8. row.pc = prev.pc
  <2>1. PICK d \in Int : d = row.pc - prev.pc
    BY <1>1
  <2>2. (1 - 0) * (1 - row.step) = m
    BY <1>1, <1>3
  <2>3. F(m * d) = 0
    BY <2>1, <2>2 DEF NextHolds
  <2>4. F(d) = 0
    BY <1>4, <2>3, FieldFactor
  <2> QED
    BY <1>1, <2>1, <2>4, SameInField
<1> QED
  BY <1>5, <1>6, <1>7, <1>8

-----------------------------------------------------------------------------
(* The inductive invariant                                                 *)

RowsInv ==
    /\ rows \in Seq(TableRow)
    /\ author \in {"circuit", "anyone"}
    /\ \A r \in 1..Len(rows) : SelectorHolds(rows[r].opcode)

(* The circuit's table consists of whole opcodes.                          *)
BlocksInv ==
    /\ begins \subseteq 1..Len(rows)
    /\ \A s \in begins :
          /\ rows[s].opcode.index \in Implemented
          /\ \A i \in 1..Height[rows[s].opcode.index] :
                /\ s + i - 1 \in 1..Len(rows)
                /\ rows[s + i - 1] = OpcodeRows(rows[s].opcode.index)[i]
    /\ \A r \in 1..Len(rows) : \E s \in begins :
          s <= r /\ r <= s + Height[rows[s].opcode.index] - 1

IInv == RowsInv /\ RowsBelongToRuns /\ (author = "circuit" => BlocksInv)

(* InRunFrom in any table.                                                 *)
Run(t, s, r) ==
    LET op == t[r].opcode.index IN
    /\ t[s].step = 1
    /\ \A i \in s..r :
          /\ t[i].opcode.index = op
          /\ t[i].pc = t[s].pc
          /\ i > s => t[i].step = 0
          /\ t[i].count = Height[op] - 1 - (i - s)

RunsIn(t) ==
    \A r \in 1..Len(t) : t[r].opcode.index \in Implemented => \E s \in 1..r : Run(t, s, r)

LEMMA RunsAreRuns ==
    ASSUME rows \in Seq(TableRow)
    PROVE  RowsBelongToRuns <=> RunsIn(rows)
<1>1. DOMAIN rows = 1..Len(rows)
  OBVIOUS
<1> QED
  BY <1>1 DEF RowsBelongToRuns, RunsIn, Run, InRunFrom

(* Rows that are written later change no run.                              *)
LEMMA RunsStay ==
    ASSUME NEW t \in Seq(TableRow), NEW u \in Seq(TableRow), Len(t) <= Len(u),
           \A i \in 1..Len(t) : u[i] = t[i],
           NEW r \in 1..Len(t), NEW s \in 1..r, Run(t, s, r)
    PROVE  Run(u, s, r)
<1>1. \A i \in s..r : i \in 1..Len(t) /\ u[i] = t[i]
  OBVIOUS
<1>2. u[s] = t[s] /\ u[r] = t[r]
  BY <1>1
<1> QED
  BY <1>1, <1>2 DEF Run

LEMMA TriedRows ==
    ASSUME NEW row \in RowTried
    PROVE  row \in TableRow /\ SelectorHolds(row.opcode)
<1>1. /\ row.opcode \in AcceptedSelectors /\ row.step \in Step /\ row.count \in Field
      /\ row.inverse \in Field /\ row.pc \in Pc
      /\ row = [opcode |-> row.opcode, step |-> row.step, count |-> row.count,
                inverse |-> row.inverse, pc |-> row.pc]
  BY DEF RowTried
<1>2. row.opcode \in SelectorRow /\ SelectorHolds(row.opcode)
  BY <1>1 DEF AcceptedSelectors, SelectorRow
<1>3. row.step \in Field /\ row.pc \in Field
  BY <1>1, TriedAssumption
<1> QED
  BY <1>1, <1>2, <1>3 DEF TableRow

(* Whatever row is accepted after the others, it is one of a run.          *)
LEMMA AnyRowKeeps ==
    ASSUME IInv, NEW row \in RowTried, AnyRow(row)
    PROVE  IInv'
<1> DEFINE n == Len(rows)
           t == Append(rows, row)
<1>1. /\ author = "anyone" /\ author' = author /\ rows' = t
      /\ rows # <<>> => NextHolds(rows[n], row, 0)
      /\ RowHolds(t, n + 1)
  BY DEF AnyRow
<1>2. rows \in Seq(TableRow) /\ row \in TableRow /\ SelectorHolds(row.opcode) /\ n \in Nat
  BY TriedRows DEF IInv, RowsInv
<1>3. /\ t \in Seq(TableRow) /\ Len(t) = n + 1 /\ t[n + 1] = row
      /\ \A i \in 1..n : t[i] = rows[i]
  BY <1>2
<1>4. /\ n + 1 = 1 => StartHolds(row)
      /\ TransitionHolds(PrevRow(t, n + 1), row) /\ HeightHolds(row)
  BY <1>1, <1>3 DEF RowHolds
<1>5. RunsIn(rows)
  BY <1>2, RunsAreRuns DEF IInv
<1> HIDE DEF t
<1>6. ASSUME row.opcode.index \in Implemented
      PROVE  \E s \in 1..(n + 1) : Run(t, s, n + 1)
  <2> DEFINE op == row.opcode.index
  <2>1. row.step # 0 => row.count = Height[op] - 1
    BY <1>2, <1>4, <1>6, HeightMeans
  <2>2. Height[op] \in Nat /\ Height[op] >= 1
    BY <1>6, OpcodeFacts
  <2>3. CASE row.step = 1
    <3>1. Run(t, n + 1, n + 1)
      <4>1. row.count = Height[op] - 1 - ((n + 1) - (n + 1))
        BY <1>2, <2>1, <2>2, <2>3
      <4>2. \A i \in (n + 1)..(n + 1) : i = n + 1
        BY <1>2
      <4> QED
        BY <1>2, <1>3, <2>3, <4>1, <4>2 DEF Run
    <3> QED
      BY <1>2, <3>1
  <2>4. CASE row.step # 1
    <3>1. n >= 1
      <4> SUFFICES ASSUME n = 0 PROVE FALSE
        BY <1>2
      <4>1. F(row.step - 1) = 0
        BY <1>4 DEF StartHolds
      <4>2. row.step \in Field /\ 1 \in Field
        BY <1>2, RowValues, FieldAssumption DEF Field
      <4> QED
        BY <2>4, <4>1, <4>2, SameInField
    <3>2. PrevRow(t, n + 1) = rows[n] /\ rows # <<>> /\ rows[n] \in TableRow
      <4>1. n + 1 # 1 /\ (n + 1) - 1 = n /\ n \in 1..n
        BY <1>2, <3>1
      <4> QED
        BY <1>2, <1>3, <4>1 DEF PrevRow
    <3> DEFINE prev == rows[n]
    <3>3. /\ op = prev.opcode.index /\ prev.count # 0
          /\ row.count = prev.count - 1 /\ row.pc = prev.pc
      BY <1>1, <1>2, <1>4, <2>4, <3>2, TransitionMeans
    <3>4. PICK s \in 1..n : Run(rows, s, n)
      BY <1>2, <1>5, <1>6, <3>1, <3>3 DEF RunsIn
    <3>5. /\ rows[s].step = 1
          /\ \A i \in s..n :
                /\ rows[i].opcode.index = op
                /\ rows[i].pc = rows[s].pc
                /\ i > s => rows[i].step = 0
                /\ rows[i].count = Height[op] - 1 - (i - s)
      BY <3>3, <3>4 DEF Run
    <3>6. s \in Nat /\ s >= 1 /\ s <= n
      BY <1>2, <3>1
    <3>7. row.count = Height[op] - 1 - ((n + 1) - s) /\ row.pc = rows[s].pc
      <4>1. n \in s..n
        BY <1>2, <3>6
      <4>2. prev.count = Height[op] - 1 - (n - s) /\ prev.pc = rows[s].pc
        BY <3>5, <4>1
      <4>3. PICK c \in Int, h \in Int, k \in Int : c = prev.count /\ h = Height[op] /\ k = n - s
        <5>1. prev.count \in Int
          BY <3>2, RowValues
        <5>2. Height[op] \in Int /\ n - s \in Int
          BY <1>2, <2>2, <3>6
        <5> QED
          BY <5>1, <5>2
      <4>4. c = h - 1 - k /\ (n + 1) - s = k + 1
        BY <1>2, <3>6, <4>2, <4>3
      <4>5. c - 1 = h - 1 - (k + 1)
        BY <4>4
      <4> QED
        BY <3>3, <4>2, <4>3, <4>4, <4>5
    <3>8. row.step = 0
      BY <1>2, <2>1, <2>2, <3>6, <3>7
    <3>9. ASSUME NEW i \in s..(n + 1)
          PROVE  /\ t[i].opcode.index = op
                 /\ t[i].pc = t[s].pc
                 /\ i > s => t[i].step = 0
                 /\ t[i].count = Height[op] - 1 - (i - s)
      <4>1. t[s] = rows[s]
        BY <1>3, <3>6
      <4>2. CASE i = n + 1
        BY <1>3, <3>7, <3>8, <4>1, <4>2
      <4>3. CASE i # n + 1
        <5>1. i \in s..n /\ i \in 1..n
          BY <1>2, <3>6, <4>3
        <5>2. t[i] = rows[i]
          BY <1>3, <5>1
        <5> QED
          BY <3>5, <4>1, <5>1, <5>2
      <4> QED
        BY <4>2, <4>3
    <3>10. t[s].step = 1 /\ t[n + 1].opcode.index = op
      BY <1>3, <3>5, <3>6
    <3> HIDE DEF prev
    <3>11. Run(t, s, n + 1)
      BY <3>9, <3>10 DEF Run
    <3> QED
      BY <1>2, <3>6, <3>11
  <2> QED
    BY <2>3, <2>4
<1>7. RunsIn(t)
  <2> SUFFICES ASSUME NEW r \in 1..(n + 1), t[r].opcode.index \in Implemented
               PROVE  \E s \in 1..r : Run(t, s, r)
    BY <1>3 DEF RunsIn
  <2>1. CASE r = n + 1
    BY <1>3, <1>6, <2>1
  <2>2. CASE r # n + 1
    <3>1. r \in 1..n /\ t[r] = rows[r]
      BY <1>2, <1>3, <2>2
    <3>2. PICK s \in 1..r : Run(rows, s, r)
      BY <1>5, <3>1 DEF RunsIn
    <3> QED
      BY <1>2, <1>3, <3>1, <3>2, RunsStay
  <2> QED
    BY <2>1, <2>2
<1>8. RowsBelongToRuns'
  <2>1. (rows \in Seq(TableRow))'
    BY <1>1, <1>3
  <2>2. (RowsBelongToRuns <=> RunsIn(rows))'
    BY <2>1, RunsAreRuns, PTL
  <2> QED
    BY <1>1, <1>7, <2>2
<1>9. RowsInv'
  <2>1. \A r \in 1..(n + 1) : SelectorHolds(t[r].opcode)
    BY <1>2, <1>3 DEF IInv, RowsInv
  <2> QED
    BY <1>1, <1>3, <2>1 DEF RowsInv
<1> QED
  BY <1>1, <1>8, <1>9 DEF IInv

(* An opcode that the circuit assigns is a run and a block of its own.     *)
LEMMA AssignOpcodeKeeps ==
    ASSUME IInv, NEW op \in Implemented, AssignOpcode(op)
    PROVE  IInv'
<1> DEFINE n == Len(rows)
           h == Height[op]
           block == OpcodeRows(op)
           t == rows \o block
<1>1. /\ author = "circuit" /\ author' = author /\ rows' = t
      /\ begins' = begins \cup {n + 1}
  BY DEF AssignOpcode
<1>2. /\ rows \in Seq(TableRow) /\ n \in Nat /\ BlocksInv
      /\ \A r \in 1..n : SelectorHolds(rows[r].opcode)
  BY <1>1 DEF IInv, RowsInv
<1>3. h \in Nat /\ h >= 1
  BY OpcodeFacts
<1>4. \A i \in 1..h :
         /\ block[i] \in TableRow /\ block[i].opcode.index = op
         /\ block[i].step = (IF i = 1 THEN 1 ELSE 0)
         /\ block[i].count = h - i /\ block[i].pc = 1
         /\ SelectorHolds(block[i].opcode)
  <2> SUFFICES ASSUME NEW i \in 1..h
               PROVE  /\ block[i] \in TableRow /\ block[i].opcode.index = op
                      /\ block[i].step = (IF i = 1 THEN 1 ELSE 0)
                      /\ block[i].count = h - i /\ block[i].pc = 1
                      /\ SelectorHolds(block[i].opcode)
    OBVIOUS
  <2> QED
    BY OpcodeRowFacts
<1>5. block \in Seq(TableRow) /\ Len(block) = h
  <2>1. DOMAIN block = 1..h
    BY DEF OpcodeRows
  <2>2. block = [i \in 1..h |-> block[i]]
    BY DEF OpcodeRows
  <2> HIDE DEF block
  <2>3. block \in [1..h -> TableRow]
    BY <1>4, <2>2
  <2> QED
    BY <1>3, <2>1, <2>3
<1>6. RunsIn(rows)
  BY <1>2, RunsAreRuns DEF IInv
<1> HIDE DEF block, h
<1>7. /\ t \in Seq(TableRow) /\ Len(t) = n + h
      /\ \A i \in 1..n : t[i] = rows[i]
      /\ \A i \in 1..h : t[n + i] = block[i]
  BY <1>2, <1>3, <1>5
<1> HIDE DEF t
<1>8. \A r \in 1..(n + h) : r \in 1..n \/ \E i \in 1..h : r = n + i
  <2> SUFFICES ASSUME NEW r \in 1..(n + h), r \notin 1..n
               PROVE  \E i \in 1..h : r = n + i
    OBVIOUS
  <2>1. r - n \in 1..h /\ r = n + (r - n)
    BY <1>2, <1>3
  <2> QED
    BY <2>1
<1>9. RunsIn(t)
  <2> SUFFICES ASSUME NEW r \in 1..(n + h), t[r].opcode.index \in Implemented
               PROVE  \E s \in 1..r : Run(t, s, r)
    BY <1>7 DEF RunsIn
  <2>1. CASE r \in 1..n
    <3>1. PICK s \in 1..r : Run(rows, s, r)
      BY <1>6, <1>7, <2>1 DEF RunsIn
    <3>2. n <= n + h
      BY <1>2, <1>3
    <3> QED
      BY <1>2, <1>7, <2>1, <3>1, <3>2, RunsStay
  <2>2. CASE r \notin 1..n
    <3>1. PICK i \in 1..h : r = n + i
      BY <1>8, <2>2
    <3>2. ASSUME NEW j \in (n + 1)..r
          PROVE  /\ t[j].opcode.index = op /\ t[j].pc = 1
                 /\ j > n + 1 => t[j].step = 0
                 /\ t[j].count = h - 1 - (j - (n + 1))
      <4>1. j \in 1..(n + h) /\ j \notin 1..n
        BY <1>2, <1>3, <3>1
      <4>2. PICK k \in 1..h : j = n + k
        BY <1>8, <4>1
      <4>3. t[j] = block[k]
        BY <1>7, <4>2
      <4>4. /\ block[k].opcode.index = op /\ block[k].step = (IF k = 1 THEN 1 ELSE 0)
            /\ block[k].count = h - k /\ block[k].pc = 1
        BY <1>4
      <4>5. h - k = h - 1 - (j - (n + 1)) /\ (j > n + 1 => k # 1)
        BY <1>2, <1>3, <4>2
      <4> QED
        BY <4>3, <4>4, <4>5
    <3>3. t[n + 1].step = 1 /\ n + 1 \in 1..r /\ n + 1 \in (n + 1)..r /\ r \in (n + 1)..r
      <4>1. 1 \in 1..h
        BY <1>3
      <4>2. t[n + 1] = block[1] /\ block[1].step = 1
        BY <1>4, <1>7, <4>1
      <4>3. n + 1 \in 1..r /\ n + 1 \in (n + 1)..r /\ r \in (n + 1)..r
        BY <1>2, <1>3, <3>1
      <4> QED
        BY <4>2, <4>3
    <3>4. Run(t, n + 1, r)
      <4>1. t[r].opcode.index = op /\ t[n + 1].pc = 1
        BY <3>2, <3>3
      <4> QED
        BY <3>2, <3>3, <4>1 DEF Run, h
    <3> QED
      BY <3>3, <3>4
  <2> QED
    BY <2>1, <2>2
<1>10. RowsBelongToRuns'
  <2>1. (rows \in Seq(TableRow))'
    BY <1>1, <1>7
  <2>2. (RowsBelongToRuns <=> RunsIn(rows))'
    BY <2>1, RunsAreRuns, PTL
  <2> QED
    BY <1>1, <1>9, <2>2
<1>11. RowsInv'
  <2>1. ASSUME NEW r \in 1..(n + h)
        PROVE  SelectorHolds(t[r].opcode)
    <3>1. CASE r \in 1..n
      BY <1>2, <1>7, <3>1
    <3>2. CASE \E i \in 1..h : r = n + i
      BY <1>4, <1>7, <3>2
    <3> QED
      BY <1>8, <3>1, <3>2
  <2> QED
    BY <1>1, <1>2, <1>7, <2>1 DEF RowsInv, IInv
<1>12. BlocksInv'
  <2>1. begins' \subseteq 1..(n + h)
    <3>1. begins \subseteq 1..n
      BY <1>2 DEF BlocksInv
    <3>2. 1..n \subseteq 1..(n + h) /\ n + 1 \in 1..(n + h)
      BY <1>2, <1>3
    <3> QED
      BY <1>1, <3>1, <3>2
  <2>2. ASSUME NEW s \in begins'
        PROVE  /\ t[s].opcode.index \in Implemented
               /\ \A i \in 1..Height[t[s].opcode.index] :
                     /\ s + i - 1 \in 1..(n + h)
                     /\ t[s + i - 1] = OpcodeRows(t[s].opcode.index)[i]
    <3>1. CASE s \in begins
      <4>1. s \in 1..n /\ t[s] = rows[s]
        BY <1>2, <1>7, <3>1 DEF BlocksInv
      <4>2. ASSUME NEW i \in 1..Height[rows[s].opcode.index]
            PROVE  s + i - 1 \in 1..(n + h) /\ t[s + i - 1] = OpcodeRows(rows[s].opcode.index)[i]
        <5>1. s + i - 1 \in 1..n /\ rows[s + i - 1] = OpcodeRows(rows[s].opcode.index)[i]
          BY <1>2, <3>1 DEF BlocksInv
        <5>2. t[s + i - 1] = rows[s + i - 1]
          BY <1>7, <5>1
        <5> QED
          BY <1>2, <1>3, <5>1, <5>2
      <4>3. rows[s].opcode.index \in Implemented
        BY <1>2, <3>1 DEF BlocksInv
      <4> QED
        BY <4>1, <4>2, <4>3
    <3>2. CASE s = n + 1
      <4>1. t[s].opcode.index = op
        BY <1>3, <1>4, <1>7, <3>2
      <4>2. ASSUME NEW i \in 1..h
            PROVE  s + i - 1 \in 1..(n + h) /\ t[s + i - 1] = OpcodeRows(op)[i]
        <5>1. s + i - 1 = n + i /\ n + i \in 1..(n + h)
          BY <1>2, <1>3, <3>2
        <5> QED
          BY <1>7, <5>1 DEF block
      <4> QED
        BY <4>1, <4>2 DEF h
    <3> QED
      BY <1>1, <3>1, <3>2
  <2>3. ASSUME NEW r \in 1..(n + h)
        PROVE  \E s \in begins' : s <= r /\ r <= s + Height[t[s].opcode.index] - 1
    <3>1. CASE r \in 1..n
      <4>1. PICK s \in begins : s <= r /\ r <= s + Height[rows[s].opcode.index] - 1
        BY <1>2, <3>1 DEF BlocksInv
      <4>2. t[s] = rows[s] /\ s \in begins'
        BY <1>1, <1>2, <1>7 DEF BlocksInv
      <4> QED
        BY <4>1, <4>2
    <3>2. CASE r \notin 1..n
      <4>1. PICK i \in 1..h : r = n + i
        BY <1>8, <3>2
      <4>2. t[n + 1].opcode.index = op
        BY <1>3, <1>4, <1>7
      <4>3. n + 1 <= r /\ r <= (n + 1) + h - 1
        BY <1>2, <1>3, <4>1
      <4> QED
        BY <1>1, <4>2, <4>3 DEF h
    <3> QED
      BY <3>1, <3>2
  <2> QED
    BY <1>1, <1>7, <2>1, <2>2, <2>3 DEF BlocksInv
<1> QED
  BY <1>1, <1>10, <1>11, <1>12 DEF IInv

LEMMA InitIInv == Init => IInv
<1> SUFFICES ASSUME Init PROVE IInv
  OBVIOUS
<1>1. rows = <<>> /\ begins = {} /\ author \in {"circuit", "anyone"}
  BY DEF Init
<1> QED
  BY <1>1 DEF IInv, RowsInv, BlocksInv, RowsBelongToRuns

LEMMA NextIInv == IInv /\ [Next]_vars => IInv'
<1> SUFFICES ASSUME IInv, [Next]_vars PROVE IInv'
  OBVIOUS
<1>1. CASE \E op \in Implemented : AssignOpcode(op)
  BY <1>1, AssignOpcodeKeeps
<1>2. CASE \E row \in RowTried : AnyRow(row)
  BY <1>2, AnyRowKeeps
<1>3. CASE \E count \in Field : Finalize([EmptyRow EXCEPT !.count = count])
  <2>1. UNCHANGED <<rows, begins, author>>
    BY <1>3 DEF Finalize
  <2> QED
    BY <2>1 DEF IInv, RowsInv, BlocksInv, RowsBelongToRuns, InRunFrom
<1>4. CASE UNCHANGED vars
  BY <1>4 DEF vars, IInv, RowsInv, BlocksInv, RowsBelongToRuns, InRunFrom
<1> QED
  BY <1>1, <1>2, <1>3, <1>4 DEF Next

(* In every table the constraints accept, of any opcodes of any heights,   *)
(* the rows of an implemented opcode belong to runs of it.                 *)
THEOREM RowsAreInRuns == Spec => []RowsBelongToRuns
<1>1. Init => IInv
  BY InitIInv
<1>2. IInv /\ [Next]_vars => IInv'
  BY NextIInv
<1>3. IInv => RowsBelongToRuns
  BY DEF IInv
<1> QED
  BY <1>1, <1>2, <1>3, PTL DEF Spec

(* In every table the constraints accept, the selector of a row lets the   *)
(* gates of exactly one opcode apply, the row's own.                       *)
THEOREM OneOpcodeIsSelected == Spec => []SelectsOneOpcode
<1>1. Init => IInv
  BY InitIInv
<1>2. IInv /\ [Next]_vars => IInv'
  BY NextIInv
<1>3. IInv => SelectsOneOpcode
  <2> SUFFICES ASSUME IInv, NEW r \in DOMAIN rows
               PROVE  /\ rows[r].opcode.index \in Option
                      /\ \A option \in Option :
                            OptionConstraint(rows[r].opcode, option) # 0
                                <=> option = rows[r].opcode.index
    BY DEF SelectsOneOpcode
  <2>1. rows[r] \in TableRow /\ SelectorHolds(rows[r].opcode)
    BY DEF IInv, RowsInv
  <2>2. rows[r].opcode \in SelectorRow
    BY <2>1, RowValues
  <2> QED
    BY <2>1, <2>2, SelectorsMean
<1> QED
  BY <1>1, <1>2, <1>3, PTL DEF Spec

-----------------------------------------------------------------------------
(* Which gates apply                                                       *)

LEMMA OneMinus ==
    ASSUME NEW x \in Int, F(x) = 1
    PROVE  F(1 - x) = 0
<1>1. Prime \in Nat \ {0} /\ 0 \in 0..(Prime - 1)
  BY FieldAssumption
<1>2. PICK q \in Int, r \in 0..(Prime - 1) : x = Prime * q + r /\ F(x) = r
  BY FieldDivided
<1>3. PICK p \in Int : p = -q
  OBVIOUS
<1>4. PICK u \in Int, v \in Int : u = Prime * q /\ v = Prime * p
  BY <1>1
<1>5. u + v = 0
  <2>1. Prime * (q + p) = u + v
    BY <1>1, <1>4, Distributes
  <2>2. q + p = 0 /\ Prime * 0 = 0
    BY <1>1, <1>3
  <2> QED
    BY <2>1, <2>2
<1>6. 1 - x = v
  BY <1>2, <1>4, <1>5
<1>7. (0 + Prime * p) % Prime = 0 % Prime
  BY <1>1, MultiplesVanish
<1>8. F(0) = 0
  BY <1>1, FieldValues DEF Field
<1>9. 0 + Prime * p = v
  BY <1>4
<1> QED
  BY <1>6, <1>7, <1>8, <1>9 DEF F

(* The gates of a row's own opcode at the positions that need no row       *)
(* selector.                                                               *)
LEMMA TiedGatesApply ==
    ASSUME IInv, NEW r \in DOMAIN rows, rows[r].opcode.index \in Implemented,
           NEW position \in Tied(rows[r].opcode.index), rows[r].count = position
    PROVE  Enforced(rows, r, rows[r].opcode.index, position)
<1> DEFINE op == rows[r].opcode.index
           oc == OptionConstraint(rows[r].opcode, op)
           rc == RowConstraint(rows, r, position, Height[op])
<1>1. /\ rows \in Seq(TableRow) /\ rows[r] \in TableRow /\ SelectorHolds(rows[r].opcode)
      /\ r \in Nat /\ r >= 1 /\ r <= Len(rows)
  BY DEF IInv, RowsInv
<1>2. Height[op] \in Nat /\ Height[op] >= 1 /\ op \in Option
  BY OpcodeFacts
<1>3. PICK s \in 1..r : InRunFrom(s, r)
  BY DEF IInv, RowsBelongToRuns
<1>4. /\ s \in Nat /\ s >= 1 /\ s <= r /\ rows[s].step = 1
      /\ rows[r].count = Height[op] - 1 - (r - s)
  BY <1>1, <1>3 DEF InRunFrom
<1>5. oc \in Field /\ oc # 0 /\ oc \in Int /\ F(oc) = oc
  <2>1. rows[r].opcode \in SelectorRow
    BY <1>1, RowValues
  <2>2. oc \in Field
    BY <1>2, <2>1, OptionIsElement
  <2>3. oc # 0
    BY <1>1, <1>2, <2>1, SelectorsMean
  <2> QED
    BY <2>2, <2>3, FieldValues
<1>6. F(1) = 1 /\ 1 \in Int
  <2>1. 1 \in Field
    BY FieldAssumption DEF Field
  <2> QED
    BY <2>1, FieldValues
<1>7. rc = 1
  <2>1. CASE position = Height[op] - 1
    <3>1. r = s
      <4>1. PICK h \in Nat : h = Height[op]
        BY <1>2
      <4>2. h - 1 = h - 1 - (r - s)
        BY <1>4, <2>1, <4>1
      <4> QED
        BY <1>1, <1>4, <4>2
    <3> QED
      BY <1>4, <2>1, <3>1 DEF RowConstraint
  <2>2. CASE position = Height[op] - 2
    <3>1. r - 1 = s /\ r # 1 /\ position # Height[op] - 1
      <4>1. PICK h \in Nat : h = Height[op]
        BY <1>2
      <4>2. h - 2 = h - 1 - (r - s)
        BY <1>4, <2>2, <4>1
      <4>3. r - 1 = s
        <5>1. r \in Nat /\ s \in Nat
          BY <1>1, <1>4
        <5>2. \A a, b, c \in Nat : c - 2 = c - 1 - (a - b) => a - 1 = b
          OBVIOUS
        <5> QED
          BY <4>1, <4>2, <5>1, <5>2
      <4>4. r # 1
        BY <1>1, <1>4, <4>3
      <4>5. position # h - 1
        BY <2>2, <4>1
      <4> QED
        BY <4>1, <4>3, <4>4, <4>5
    <3>2. PrevRow(rows, r).step = 1
      BY <1>4, <3>1 DEF PrevRow
    <3> QED
      BY <2>2, <3>1, <3>2 DEF RowConstraint
  <2>3. CASE position \notin {Height[op] - 1, Height[op] - 2}
    <3>1. position = 0
      BY <2>3 DEF Tied
    <3>2. rows[r].count * rows[r].inverse = 0
      BY <1>1, <3>1, RowValues
    <3>3. rc = F(1 - 0)
      BY <2>3, <3>1, <3>2 DEF RowConstraint
    <3> QED
      BY <1>6, <3>3
  <2> QED
    BY <2>1, <2>2, <2>3
<1> HIDE DEF rc, oc
<1>8. F(oc * rc) # 0
  BY <1>5, <1>6, <1>7, FieldFactor
<1> QED
  BY <1>8 DEF Enforced, oc, rc

(* The row of a circuit's table in its block.                              *)
LEMMA RowInBlock ==
    ASSUME IInv, author = "circuit", NEW r \in 1..Len(rows)
    PROVE  \E s \in begins, op \in Implemented :
               /\ s \in Nat /\ op = rows[s].opcode.index
               /\ r - s + 1 \in 1..Height[op]
               /\ rows[r] = OpcodeRows(op)[r - s + 1]
               /\ rows[r].opcode.index = op
               /\ rows[r].step = (IF r = s THEN 1 ELSE 0)
               /\ rows[r].count = Height[op] - (r - s + 1)
               /\ rows[r].inverse = InverseOrZero(rows[r].count)
               /\ rows[r].pc = 1
<1>1. BlocksInv
  BY DEF IInv
<1>2. PICK s \in begins : s <= r /\ r <= s + Height[rows[s].opcode.index] - 1
  BY <1>1 DEF BlocksInv
<1>3. s \in Nat
  BY <1>1 DEF BlocksInv
<1>4. PICK op \in Implemented : op = rows[s].opcode.index
  BY <1>1 DEF BlocksInv
<1>5. PICK i \in 1..Height[op] : i = r - s + 1 /\ r = s + i - 1
  BY <1>2, <1>3, <1>4, OpcodeFacts
<1>6. rows[r] = OpcodeRows(op)[i]
  BY <1>1, <1>4, <1>5 DEF BlocksInv
<1>7. i = 1 <=> r = s
  BY <1>3, <1>5
<1>8. /\ rows[r].opcode.index = op
      /\ rows[r].step = (IF i = 1 THEN 1 ELSE 0)
      /\ rows[r].count = Height[op] - i
      /\ rows[r].inverse = InverseOrZero(Height[op] - i)
      /\ rows[r].pc = 1
  BY <1>6, OpcodeRowFacts
<1>9. r - s + 1 \in 1..Height[op] /\ rows[r] = OpcodeRows(op)[r - s + 1]
  BY <1>5, <1>6
<1>10. rows[r].count = Height[op] - (r - s + 1) /\ rows[r].inverse = InverseOrZero(rows[r].count)
  BY <1>5, <1>8
<1> QED
  BY <1>3, <1>4, <1>7, <1>8, <1>9, <1>10

(* In the circuit's tables, no other gates apply.                          *)
LEMMA NoOtherGatesApply ==
    ASSUME IInv, author = "circuit", NEW r \in DOMAIN rows, NEW op \in Implemented,
           NEW position \in GateRow[op], Enforced(rows, r, op, position)
    PROVE  (rows[r].opcode.index = op /\ rows[r].count = position) \/ RowAfterShort(r)
<1> DEFINE h == Height[op]
           oc == OptionConstraint(rows[r].opcode, op)
           rc == RowConstraint(rows, r, position, h)
<1>1. /\ rows \in Seq(TableRow) /\ rows[r] \in TableRow /\ SelectorHolds(rows[r].opcode)
      /\ r \in 1..Len(rows) /\ r \in Nat /\ Len(rows) \in Nat
  BY DEF IInv, RowsInv
<1>2. PICK s \in begins, own \in Implemented :
               /\ s \in Nat /\ own = rows[s].opcode.index
               /\ r - s + 1 \in 1..Height[own]
               /\ rows[r].opcode.index = own
               /\ rows[r].step = (IF r = s THEN 1 ELSE 0)
               /\ rows[r].count = Height[own] - (r - s + 1)
               /\ rows[r].inverse = InverseOrZero(rows[r].count)
  BY <1>1, RowInBlock
<1>3. /\ h \in Nat /\ h >= 1 /\ h <= OptionsAmount /\ op \in Option
      /\ OptionsAmount \in Nat /\ position \in 0..(h - 1) /\ position \in Option
  BY OpcodeFacts DEF Option
<1>4. rows[r].count \in Option /\ rows[r].count \in Field /\ rows[r].count \in Int /\ rows[r].inverse \in Int
  <2>1. rows[r].count \in Int /\ rows[r].count >= 0 /\ rows[r].count < Height[own]
    BY <1>1, <1>2, OpcodeFacts
  <2> QED
    BY <1>1, <2>1, RowValues, OpcodeFacts DEF Option
<1>5. Selected(rows[r].count) \in SelectorRow /\ SelectorHolds(Selected(rows[r].count))
      /\ Selected(rows[r].count).index = rows[r].count
  BY <1>4, SelectedIsAccepted DEF Selected
<1>6. rc = rows[r].step \/ rc = PrevRow(rows, r).step \/ rc \in Field
  <2>1. F(1 - rows[r].count * rows[r].inverse) \in Field
    <3>1. PICK x \in Int : x = 1 - rows[r].count * rows[r].inverse
      BY <1>4
    <3> QED
      BY <3>1, FieldValues
  <2>2. OptionConstraint(Selected(rows[r].count), position) \in Field
    BY <1>3, <1>5, OptionIsElement
  <2> QED
    BY <2>1, <2>2 DEF RowConstraint
<1>7. rc \in Int
  <2>1. PrevRow(rows, r).step \in Int
    <3>1. CASE r = 1
      BY <3>1 DEF PrevRow, EmptyRow
    <3>2. CASE r # 1
      <4>1. r - 1 \in 1..Len(rows)
        BY <1>1, <3>2
      <4>2. PrevRow(rows, r) = rows[r - 1] /\ rows[r - 1] \in TableRow
        BY <1>1, <3>2, <4>1 DEF PrevRow
      <4> QED
        BY <4>2, RowValues
    <3> QED
      BY <3>1, <3>2
  <2> QED
    BY <1>1, <1>6, <2>1, RowValues, FieldValues
<1>8. F(oc * rc) # 0
  BY DEF Enforced
<1>9. oc \in Int
  BY <1>1, <1>3, RowValues, OptionIsElement, FieldValues
<1> HIDE DEF oc, rc
<1>10. oc # 0 /\ rc # 0
  <2>1. 0 * rc = 0 /\ oc * 0 = 0
    BY <1>7, <1>9
  <2>2. F(0) = 0
    <3>1. 0 \in Field
      BY FieldAssumption DEF Field
    <3> QED
      BY <3>1, FieldValues
  <2> QED
    BY <1>8, <2>1, <2>2
<1>11. own = op
  BY <1>1, <1>2, <1>3, <1>10, RowValues, SelectorsMean DEF oc
<1>12. CASE position = h - 1
  <2>1. rc = rows[r].step
    BY <1>12 DEF rc, RowConstraint
  <2>2. r = s
    BY <1>2, <1>10, <2>1
  <2> QED
    BY <1>1, <1>2, <1>3, <1>11, <1>12, <2>2
<1>13. CASE position = h - 2
  <2>1. rc = PrevRow(rows, r).step
    BY <1>3, <1>13 DEF rc, RowConstraint
  <2>2. r # 1
    BY <1>10, <2>1 DEF PrevRow, EmptyRow
  <2>3. PICK b \in 1..Len(rows) : b = r - 1
    BY <1>1, <2>2
  <2>4. PrevRow(rows, r) = rows[b]
    BY <2>2, <2>3 DEF PrevRow
  <2>5. PICK c \in begins, before \in Implemented :
               /\ c \in Nat /\ before = rows[c].opcode.index
               /\ rows[b].step = (IF b = c THEN 1 ELSE 0)
    BY RowInBlock
  <2>6. b = c
    BY <1>10, <2>1, <2>4, <2>5
  <2>7. CASE Height[before] = 1
    <3>1. c \in begins /\ c < r /\ c + 1 = r /\ Height[rows[c].opcode.index] = 1
      BY <1>1, <2>3, <2>5, <2>6, <2>7
    <3> QED
      BY <3>1 DEF RowAfterShort
  <2>8. CASE Height[before] # 1
    <3>1. 2 \in 1..Height[before]
      BY <2>8, OpcodeFacts
    <3>2. rows[c + 2 - 1] = OpcodeRows(before)[2]
      BY <2>5, <3>1 DEF IInv, BlocksInv
    <3>3. c + 2 - 1 = r
      BY <1>1, <2>3, <2>6
    <3>4. rows[r].opcode.index = before /\ rows[r].count = Height[before] - 2
      BY <3>1, <3>2, <3>3, OpcodeRowFacts
    <3> QED
      BY <1>2, <1>11, <1>13, <3>4
  <2> QED
    BY <2>7, <2>8
<1>14. CASE position \notin {h - 1, h - 2} /\ position = 0
  <2>1. rc = F(1 - rows[r].count * rows[r].inverse)
    BY <1>14 DEF rc, RowConstraint
  <2>2. rows[r].count = 0
    <3> SUFFICES ASSUME rows[r].count # 0 PROVE FALSE
      OBVIOUS
    <3>1. F(rows[r].count * rows[r].inverse) = 1
      BY <1>2, <1>4, Inverses
    <3>2. PICK x \in Int : x = rows[r].count * rows[r].inverse
      BY <1>4
    <3> QED
      BY <1>10, <2>1, <3>1, <3>2, OneMinus
  <2> QED
    BY <1>2, <1>11, <1>14, <2>2
<1>15. CASE position \notin {h - 1, h - 2} /\ position # 0
  <2>1. rc = OptionConstraint(Selected(rows[r].count), position)
    BY <1>15 DEF rc, RowConstraint
  <2> QED
    BY <1>2, <1>3, <1>5, <1>10, <1>11, <2>1, SelectorsMean
<1> QED
  BY <1>12, <1>13, <1>14, <1>15

(* Every gate of an opcode that needs no row selector applies to the row   *)
(* it was written for in every accepted table, and in the circuit's own    *)
(* tables gates apply to no other rows, but for the first row after an     *)
(* opcode of one row.                                                      *)
THEOREM GatesApplyWhereWritten == Spec => []GatesApplied
<1>1. Init => IInv
  BY InitIInv
<1>2. IInv /\ [Next]_vars => IInv'
  BY NextIInv
<1>3. IInv => GatesApplied
  BY TiedGatesApply, NoOtherGatesApply DEF GatesApplied
<1> QED
  BY <1>1, <1>2, <1>3, PTL DEF Spec

-----------------------------------------------------------------------------
(* What the circuit writes                                                 *)

LEMMA NextInBlock ==
    ASSUME IInv, author = "circuit", NEW r \in 1..Len(rows), rows[r].count # 0
    PROVE  /\ r + 1 \in 1..Len(rows)
           /\ rows[r + 1].opcode.index = rows[r].opcode.index
           /\ rows[r + 1].count = rows[r].count - 1
           /\ rows[r + 1].step = 0
<1>1. PICK s \in begins, op \in Implemented :
               /\ s \in Nat /\ op = rows[s].opcode.index
               /\ r - s + 1 \in 1..Height[op]
               /\ rows[r].opcode.index = op
               /\ rows[r].count = Height[op] - (r - s + 1)
  BY RowInBlock
<1>2. PICK h \in Nat : h = Height[op]
  BY OpcodeFacts
<1>3. PICK j \in 1..h : j = r - s + 2 /\ s + j - 1 = r + 1 /\ j # 1
  <2>1. r \in Nat /\ s \in Nat /\ r - s + 1 \in 1..h /\ h - (r - s + 1) # 0
    BY <1>1, <1>2
  <2>2. r - s + 2 \in 1..h /\ r - s + 2 # 1 /\ s + (r - s + 2) - 1 = r + 1
    BY <1>2, <2>1
  <2> QED
    BY <2>2
<1>4. s + j - 1 \in 1..Len(rows) /\ rows[s + j - 1] = OpcodeRows(op)[j]
  BY <1>1, <1>2 DEF IInv, BlocksInv
<1>5. /\ rows[r + 1].opcode.index = op /\ rows[r + 1].count = h - j
      /\ rows[r + 1].step = 0
  BY <1>2, <1>3, <1>4, OpcodeRowFacts
<1>6. h - j = h - (r - s + 1) - 1
  BY <1>1, <1>2, <1>3
<1> QED
  BY <1>1, <1>2, <1>3, <1>4, <1>5, <1>6

(* A row that is not marked has the row before it in its block.            *)
LEMMA PrevInBlock ==
    ASSUME IInv, author = "circuit", NEW r \in 1..Len(rows), rows[r].step # 1
    PROVE  /\ r # 1 /\ r - 1 \in 1..Len(rows)
           /\ rows[r - 1].opcode.index = rows[r].opcode.index
           /\ rows[r - 1].count # 0
           /\ F(rows[r - 1].inverse * rows[r - 1].count) = 1
<1>1. PICK s \in begins, op \in Implemented :
               /\ s \in Nat /\ op = rows[s].opcode.index
               /\ r - s + 1 \in 1..Height[op]
               /\ rows[r].opcode.index = op
               /\ rows[r].step = (IF r = s THEN 1 ELSE 0)
  BY RowInBlock
<1>2. PICK h \in Nat : h = Height[op] /\ h <= Prime /\ Prime \in Nat
  BY OpcodeFacts
<1>3. s >= 1
  BY DEF IInv, BlocksInv
<1>4. PICK b \in Nat : b = r - 1 /\ b >= 1 /\ b <= Len(rows) /\ b # r
  <2>1. r \in Nat /\ s \in Nat /\ r - s + 1 >= 1 /\ r # s /\ r <= Len(rows) /\ Len(rows) \in Nat
    BY <1>1, <1>2 DEF IInv, RowsInv
  <2>2. r - 1 \in Nat /\ r - 1 >= 1 /\ r - 1 <= Len(rows) /\ r - 1 # r
    BY <1>3, <2>1
  <2> QED
    BY <2>2
<1>5. PICK j \in 1..h : j = b - s + 1 /\ s + j - 1 = b /\ j < h
  <2>1. r \in Nat /\ s \in Nat /\ r - s + 1 \in 1..h /\ r # s
    BY <1>1, <1>2
  <2>2. b - s + 1 \in 1..h /\ s + (b - s + 1) - 1 = b /\ b - s + 1 < h
    BY <1>2, <1>4, <2>1
  <2> QED
    BY <2>2
<1>6. rows[b] = OpcodeRows(op)[j]
  <2>1. \A i \in 1..Height[rows[s].opcode.index] :
           rows[s + i - 1] = OpcodeRows(rows[s].opcode.index)[i]
    BY DEF IInv, BlocksInv
  <2>2. rows[s].opcode.index = op /\ j \in 1..Height[op]
    BY <1>1, <1>2
  <2>3. rows[s + j - 1] = OpcodeRows(op)[j]
    BY <2>1, <2>2
  <2> QED
    BY <1>5, <2>3
<1>7. /\ rows[b].opcode.index = op /\ rows[b].count = h - j
      /\ rows[b].inverse = InverseOrZero(h - j)
  BY <1>2, <1>6, OpcodeRowFacts
<1>8. h - j # 0 /\ h - j \in Field
  BY <1>2, <1>5 DEF Field
<1>9. F((h - j) * InverseOrZero(h - j)) = 1
  BY <1>8, Inverses
<1>10. (h - j) * InverseOrZero(h - j) = InverseOrZero(h - j) * (h - j)
  <2>1. h - j \in Int /\ InverseOrZero(h - j) \in Int
    BY <1>8, Inverses, FieldValues
  <2> QED
    BY <2>1
<1>11. b \in 1..Len(rows)
  BY <1>4 DEF IInv, RowsInv
<1>12. F(rows[b].inverse * rows[b].count) = 1
  BY <1>7, <1>9, <1>10
<1> QED
  BY <1>1, <1>4, <1>7, <1>8, <1>11, <1>12

(* The constraints on a row's count and its inverse, as multiples of what   *)
(* their product lacks to be one; a product with a factor that is zero.     *)
LEMMA CountConstraint ==
    ASSUME NEW c \in Int, NEW v \in Int, NEW x \in Int, x = c * v
    PROVE  c * c * v - c = (1 - x) * (-c)
<1>1. c * c * v = c * (c * v)
  <2> SUFFICES ASSUME NEW y \in Int, y = c PROVE c * y * v = c * (y * v)
    OBVIOUS
  <2> QED
    OBVIOUS
<1>2. c * (c * v) = x * c
  OBVIOUS
<1>3. (1 - x) * (-c) = x * c - c
  OBVIOUS
<1> QED
  BY <1>1, <1>2, <1>3

LEMMA InverseConstraint ==
    ASSUME NEW v \in Int, NEW x \in Int
    PROVE  (x - 1) * v = (1 - x) * (-v)
  OBVIOUS

LEMMA ZeroFactor ==
    ASSUME NEW a \in Int, NEW b \in Int, NEW c \in Int, a = 0 \/ b = 0 \/ c = 0
    PROVE  a * b * c = 0
<1>1. \A y \in Int : 0 * y = 0 /\ y * 0 = 0
  OBVIOUS
<1>2. PICK p \in Int : p = a * b
  OBVIOUS
<1>3. a = 0 \/ b = 0 => p = 0
  BY <1>1, <1>2
<1> QED
  BY <1>1, <1>2, <1>3

LEMMA HonestTransition ==
    ASSUME IInv, author = "circuit", NEW r \in 1..Len(rows)
    PROVE  TransitionHolds(PrevRow(rows, r), rows[r])
<1> DEFINE row == rows[r]
           prev == PrevRow(rows, r)
<1>1. row \in TableRow
  BY DEF IInv, RowsInv
<1>2. /\ row.count \in Field /\ row.count \in Int /\ row.inverse \in Int
      /\ row.inverse = InverseOrZero(row.count) /\ row.step \in {0, 1} /\ row.opcode.index \in Int
  BY <1>1, RowInBlock, RowValues
<1>3. F(0) = 0
  BY FieldAssumption, FieldValues DEF Field
<1>4. prev.inverse \in Int /\ prev.count \in Int /\ prev.opcode.index \in Int
  <2>1. CASE r = 1
    BY <2>1 DEF PrevRow, EmptyRow
  <2>2. CASE r # 1
    <3>1. r - 1 \in 1..Len(rows)
      BY <2>2 DEF IInv, RowsInv
    <3>2. prev = rows[r - 1] /\ rows[r - 1] \in TableRow
      BY <2>2, <3>1 DEF PrevRow, IInv, RowsInv
    <3> QED
      BY <3>2, RowValues
  <2> QED
    BY <2>1, <2>2
<1>5. PICK c \in Int, v \in Int, x \in Int : c = row.count /\ v = row.inverse /\ x = c * v
  BY <1>2
<1>6. c # 0 => F(1 - x) = 0
  BY <1>2, <1>5, Inverses, OneMinus
<1>7. \A y \in Int : c # 0 => F((1 - x) * y) = 0
  <2> SUFFICES ASSUME NEW y \in Int, c # 0 PROVE F((1 - x) * y) = 0
    OBVIOUS
  <2>1. PICK z \in Int : z = 1 - x
    BY <1>5
  <2>2. F(z * y) = F(0 * y)
    BY <1>6, <2>1, FieldProduct
  <2>3. 0 * y = 0
    OBVIOUS
  <2> QED
    BY <1>3, <2>1, <2>2, <2>3
<1>8. F(row.count * row.count * row.inverse - row.count) = 0
  <2>1. c * c * v - c = (1 - x) * (-c)
    BY <1>5, CountConstraint
  <2>2. c = 0 => c * c * v - c = 0
    <3>1. c = 0 => c * c * v = 0
      BY <1>5, ZeroFactor
    <3> QED
      BY <3>1
  <2>3. PICK y \in Int : y = -c
    OBVIOUS
  <2>4. F(c * c * v - c) = 0
    <3>1. CASE c = 0
      BY <1>3, <2>2, <3>1
    <3>2. CASE c # 0
      <4>1. F((1 - x) * y) = 0
        BY <1>7, <3>2
      <4> QED
        BY <2>1, <2>3, <4>1
    <3> QED
      BY <3>1, <3>2
  <2> QED
    BY <1>5, <2>4
<1>9. F((row.count * row.inverse - 1) * row.inverse) = 0
  <2>1. (x - 1) * v = (1 - x) * (-v)
    BY InverseConstraint
  <2>2. c = 0 => v = 0
    BY <1>2, <1>5, Inverses
  <2>3. PICK y \in Int, z \in Int : y = -v /\ z = 1 - x
    OBVIOUS
  <2>4. z * 0 = 0
    BY <2>3
  <2>5. F((x - 1) * v) = 0
    <3>1. CASE c = 0
      <4>1. v = 0
        BY <2>2, <3>1
      <4>2. y + v = 0
        BY <2>3
      <4>3. y = 0
        BY <4>1, <4>2
      <4> QED
        BY <1>3, <2>1, <2>3, <2>4, <4>3
    <3>2. CASE c # 0
      <4>1. F((1 - x) * y) = 0
        BY <1>7, <3>2
      <4> QED
        BY <2>1, <2>3, <4>1
    <3> QED
      BY <3>1, <3>2
  <2> QED
    BY <1>5, <2>5
<1>10. F((1 - row.step) * (row.opcode.index - prev.opcode.index)) = 0
  <2>1. PICK m \in Int, d \in Int : m = 1 - row.step /\ d = row.opcode.index - prev.opcode.index
    BY <1>2, <1>4
  <2>2. m = 0 \/ d = 0
    <3>1. CASE row.step = 1
      BY <2>1, <3>1
    <3>2. CASE row.step # 1
      <4>1. prev.opcode.index = row.opcode.index
        BY <3>2, PrevInBlock DEF PrevRow
      <4> QED
        BY <1>2, <2>1, <4>1
    <3> QED
      BY <3>1, <3>2
  <2>3. m * d = 0
    BY <2>1, <2>2
  <2> QED
    BY <1>3, <2>1, <2>3
<1>11. F((1 - prev.inverse * prev.count) * (1 - row.step)) = 0
  <2>1. PICK y \in Int : y = prev.inverse * prev.count
    BY <1>4
  <2>2. CASE row.step = 1
    <3>1. (1 - y) * (1 - 1) = 0
      BY <2>1
    <3> QED
      BY <1>3, <2>1, <2>2, <3>1
  <2>3. CASE row.step # 1
    <3>1. F(y) = 1
      BY <2>1, <2>3, PrevInBlock DEF PrevRow
    <3>2. F(1 - y) = 0
      BY <2>1, <3>1, OneMinus
    <3>3. row.step = 0 /\ (1 - y) * (1 - 0) = 1 - y
      BY <1>2, <2>1, <2>3
    <3> QED
      BY <2>1, <3>2, <3>3
  <2> QED
    BY <2>2, <2>3
<1> QED
  BY <1>8, <1>9, <1>10, <1>11 DEF TransitionHolds

LEMMA HonestHeight ==
    ASSUME IInv, author = "circuit", NEW r \in 1..Len(rows)
    PROVE  HeightHolds(rows[r])
<1> SUFFICES ASSUME NEW op \in Implemented
             PROVE  IF Height[op] = 1
                    THEN F(OptionConstraint(rows[r].opcode, op) * rows[r].count) = 0
                    ELSE F(OptionConstraint(rows[r].opcode, op)
                             * (rows[r].count - (Height[op] - 1)) * rows[r].step) = 0
  BY DEF HeightHolds
<1>1. rows[r] \in TableRow /\ SelectorHolds(rows[r].opcode)
  BY DEF IInv, RowsInv
<1>2. PICK s \in begins, own \in Implemented :
               /\ s \in Nat
               /\ r - s + 1 \in 1..Height[own]
               /\ rows[r].opcode.index = own
               /\ rows[r].step = (IF r = s THEN 1 ELSE 0)
               /\ rows[r].count = Height[own] - (r - s + 1)
  BY RowInBlock
<1>3. PICK h \in Nat : h = Height[op] /\ op \in Option
  BY OpcodeFacts
<1>4. PICK o \in Int : o = OptionConstraint(rows[r].opcode, op)
  BY <1>1, <1>3, RowValues, OptionIsElement, FieldValues
<1>5. PICK c \in Int, m \in Int : c = rows[r].count /\ m = rows[r].step
  BY <1>1, RowValues
<1>6. o # 0 => own = op
  BY <1>1, <1>2, <1>3, <1>4, RowValues, SelectorsMean
<1>7. own = op /\ h = 1 => c = 0
  BY <1>2, <1>3, <1>5
<1>8. own = op => m = 0 \/ c - (h - 1) = 0
  BY <1>2, <1>3, <1>5
<1>9. F(0) = 0
  BY FieldAssumption, FieldValues DEF Field
<1>10. CASE h = 1
  <2>1. o * c = 0
    BY <1>4, <1>5, <1>6, <1>7, <1>10
  <2> QED
    BY <1>3, <1>4, <1>5, <1>9, <1>10, <2>1
<1>11. CASE h # 1
  <2>1. PICK d \in Int : d = c - (h - 1)
    BY <1>3, <1>5
  <2>2. o = 0 \/ d = 0 \/ m = 0
    BY <1>6, <1>8, <2>1
  <2>3. o * d * m = 0
    BY <2>2, ZeroFactor
  <2> QED
    BY <1>3, <1>4, <1>5, <1>9, <1>11, <2>1, <2>3
<1> QED
  BY <1>10, <1>11

LEMMA HonestNext ==
    ASSUME IInv, author = "circuit", NEW r \in 1..Len(rows)
    PROVE  NextHolds(rows[r], NextRow(rows, r), IF r = Len(rows) THEN 1 ELSE 0)
<1> DEFINE row == rows[r]
           next == NextRow(rows, r)
<1>1. row \in TableRow /\ Len(rows) \in Nat /\ row.pc = 1
  BY RowInBlock DEF IInv, RowsInv
<1>2. row.count \in Int
  BY <1>1, RowValues
<1>3. r # Len(rows) => next = rows[r + 1] /\ next \in TableRow /\ next.pc = 1
  <2> SUFFICES ASSUME r # Len(rows)
               PROVE  next = rows[r + 1] /\ next \in TableRow /\ next.pc = 1
    OBVIOUS
  <2>1. r + 1 \in 1..Len(rows)
    BY <1>1
  <2> QED
    BY <2>1, RowInBlock DEF NextRow, IInv, RowsInv
<1>4. next.count \in Int /\ next.step \in Int /\ next.pc \in Int
  <2>1. CASE r = Len(rows)
    BY <2>1 DEF NextRow, EmptyRow
  <2>2. CASE r # Len(rows)
    BY <1>3, <2>2, RowValues
  <2> QED
    BY <2>1, <2>2
<1>5. F(0) = 0
  BY FieldAssumption, FieldValues DEF Field
<1>6. F(row.count * (next.count - row.count + 1)) = 0
  <2>1. PICK c \in Int, d \in Int : c = row.count /\ d = next.count - row.count + 1
    BY <1>2, <1>4
  <2>2. c = 0 \/ d = 0
    <3> SUFFICES ASSUME c # 0 PROVE d = 0
      OBVIOUS
    <3>1. r + 1 \in 1..Len(rows) /\ rows[r + 1].count = row.count - 1
      BY <2>1, NextInBlock
    <3>2. next = rows[r + 1]
      BY <1>1, <1>3, <3>1
    <3> QED
      BY <1>2, <2>1, <3>1, <3>2
  <2>3. c * d = 0
    BY <2>1, <2>2
  <2> QED
    BY <1>5, <2>1, <2>3
<1>7. PICK e \in {0, 1} : e = IF r = Len(rows) THEN 1 ELSE 0
  OBVIOUS
<1>8. F((1 - e) * (1 - next.step) * (next.pc - row.pc)) = 0
  <2>1. PICK m \in Int, d \in Int : m = 1 - next.step /\ d = next.pc - row.pc
    BY <1>1, <1>4
  <2>2. e = 1 \/ d = 0
    BY <1>1, <1>3, <1>7, <2>1
  <2>3. (1 - e) * m * d = 0
    <3>1. (1 - 1) * m * d = 0 /\ (1 - 0) * m * 0 = 0
      BY <2>1
    <3> QED
      BY <1>7, <2>2, <3>1
  <2> QED
    BY <1>5, <2>1, <2>3
<1> QED
  BY <1>6, <1>7, <1>8 DEF NextHolds

(* Any sequence of opcodes that the circuit assigns satisfies the          *)
(* constraints of every row, for opcodes of any heights.                   *)
THEOREM CircuitWritesWhatItAccepts == Spec => []HonestAccepted
<1>1. Init => IInv
  BY InitIInv
<1>2. IInv /\ [Next]_vars => IInv'
  BY NextIInv
<1>3. IInv => HonestAccepted
  <2> SUFFICES ASSUME IInv, author = "circuit", NEW r \in 1..Len(rows)
               PROVE  /\ RowHolds(rows, r)
                      /\ NextHolds(rows[r], NextRow(rows, r), IF r = Len(rows) THEN 1 ELSE 0)
    BY DEF HonestAccepted, TableHolds, IInv, RowsInv
  <2>1. r = 1 => StartHolds(rows[r])
    <3> SUFFICES ASSUME r = 1 PROVE F(rows[r].step - 1) = 0
      BY DEF StartHolds
    <3>1. rows[r].step = 1
      BY PrevInBlock
    <3>2. F(0) = 0 /\ 1 - 1 = 0
      BY FieldAssumption, FieldValues DEF Field
    <3> QED
      BY <3>1, <3>2
  <2>2. SelectorHolds(rows[r].opcode)
    BY DEF IInv, RowsInv
  <2> QED
    BY <2>1, <2>2, HonestTransition, HonestHeight, HonestNext DEF RowHolds
<1> QED
  BY <1>1, <1>2, <1>3, PTL DEF Spec

-----------------------------------------------------------------------------
(* zkevm_bytecode: the field and the rows                                  *)

BytecodeRow == [tag : Element, index : Element, value : Element, isOpcode : Element,
                pushSize : Element, lengthLeft : Element, hash : Element, rlc : Element,
                challenge : Element]

LEMMA ModulusFacts ==
    /\ Modulus \in Nat \ {0} /\ Modulus > 2 /\ IsField(Modulus)
    /\ Element = 0..(Modulus - 1) /\ 0 \in Element /\ 1 \in Element
    /\ \A x \in Element : x \in Int /\ M(x) = x
    /\ \A x \in Int : M(x) \in Element
<1>1. Modulus \in Nat \ {0} /\ Modulus > 2 /\ Element = 0..(Modulus - 1)
  BY ModulusAssumption DEF Element
<1>2. IsField(Modulus)
  <2>1. Element \ {0} = 1..(Modulus - 1)
    BY <1>1
  <2>2. \A x \in Element \ {0} : \E y \in Element : (x * y) % Modulus = 1
    BY ModulusAssumption
  <2>3. \A x \in 1..(Modulus - 1) : \E y \in 0..(Modulus - 1) : (x * y) % Modulus = 1
    BY <1>1, <2>1, <2>2
  <2> QED
    BY <1>1, <2>3 DEF IsField
<1>3. 0 \in Element /\ 1 \in Element
  BY <1>1
<1>4. ASSUME NEW x \in Element PROVE x \in Int /\ M(x) = x
  BY <1>1, ElementRemains DEF M
<1>5. ASSUME NEW x \in Int PROVE M(x) \in Element
  BY <1>1, ElementRemains DEF M
<1> QED
  BY <1>1, <1>2, <1>3, <1>4, <1>5

(* What vanishes and is less than the modulus is 0; the constraints have   *)
(* it as it is or times a factor that is 1 or -1.                          *)
LEMMA SmallVanishes ==
    ASSUME NEW x \in Int, -Modulus < x, x < Modulus, M(x) = 0 \/ M((0 - 1) * x) = 0 \/ M(1 * x) = 0
    PROVE  x = 0
<1>1. Modulus \in Nat \ {0}
  BY ModulusFacts
<1>2. PICK y \in Int : y = (0 - 1) * x
  OBVIOUS
<1>3. y + x = 0 /\ -Modulus < y /\ y < Modulus
  BY <1>1, <1>2
<1>4. 1 * x = x
  OBVIOUS
<1>5. CASE M(x) = 0
  BY <1>1, <1>5, SmallZero DEF M
<1>6. CASE M(y) = 0
  BY <1>1, <1>3, <1>6, SmallZero DEF M
<1> QED
  BY <1>2, <1>4, <1>5, <1>6

LEMMA DifferenceVanishes ==
    ASSUME NEW x \in Element, NEW y \in Element,
           M(x - y) = 0 \/ M((0 - 1) * (x - y)) = 0 \/ M(1 * (x - y)) = 0
    PROVE  x = y
<1>1. PICK d \in Int : d = x - y
  BY ModulusFacts
<1>2. -Modulus < d /\ d < Modulus
  BY <1>1, ModulusFacts
<1>3. d = 0
  BY <1>1, <1>2, SmallVanishes
<1> QED
  BY <1>1, <1>3, ModulusFacts

LEMMA RemainderVanishes ==
    ASSUME NEW x \in Element, NEW y \in Int, NEW d \in Int, M(d) = 0, d = x - y \/ d = y - x
    PROVE  x = M(y)
<1>1. Modulus \in Nat \ {0} /\ x \in 0..(Modulus - 1) /\ x \in Int
  BY ModulusFacts
<1>2. PICK e \in Int : e = x - y
  BY <1>1
<1>3. M(e) = 0
  <2>1. CASE d = e
    BY <2>1
  <2>2. CASE d # e
    <3>1. d + e = 0
      BY <1>1, <1>2, <2>2
    <3> QED
      BY <1>1, <3>1, NegatedZero DEF M
  <2> QED
    BY <2>1, <2>2
<1> QED
  BY <1>1, <1>2, <1>3, ElementIsRemainder DEF M

-----------------------------------------------------------------------------
(* What the constraints on a row, and on a row and the one before it, mean *)

RowMeans(row) ==
    /\ row.tag \in {0, 1} /\ row.isOpcode \in {0, 1}
    /\ row.tag = 0 => row.index = 0 /\ row.lengthLeft = row.value /\ row.isOpcode = 0 /\ row.rlc = 0
    /\ row.isOpcode = 1 => row.pushSize = PushesOf(row.value)

ByteFollows(prev, row) ==
    /\ row.index = IF prev.tag = 0 THEN 0 ELSE M(prev.index + 1)
    /\ row.lengthLeft = M(prev.lengthLeft - 1)
    /\ row.hash = prev.hash /\ row.challenge = prev.challenge
    /\ row.rlc = M(prev.rlc * prev.challenge + row.value)
    /\ prev.tag = 0 => row.isOpcode = 1
    /\ row.isOpcode = 1 => prev.pushSize = 0
    /\ row.isOpcode = 0 => row.pushSize = M(prev.pushSize - 1)

Follows(prev, row) ==
    /\ row.tag = 0 /\ prev.tag = 1 => prev.lengthLeft = 0
    /\ row.tag = 1 => ByteFollows(prev, row)

LEMMA ConstraintsMean ==
    ASSUME NEW row \in BytecodeRow, NEW prev, TagHolds(row), IndexHolds(row), LengthHolds(row),
           OpcodeHolds(row), RlcHolds(prev, row), LookupsHold(row)
    PROVE  RowMeans(row)
<1>1. /\ row.tag \in Element /\ row.index \in Element /\ row.lengthLeft \in Element
      /\ row.value \in Element /\ row.isOpcode \in Element /\ row.rlc \in Element /\ row.pushSize \in Element
  BY DEF BytecodeRow
<1>2. row.tag \in {0, 1}
  BY <1>1, ModulusFacts, BitConstraint DEF TagHolds, M
<1>3. row.isOpcode \in {0, 1}
  BY <1>1, ModulusFacts, BitConstraint DEF OpcodeHolds, M
<1>4. ASSUME row.tag = 0
      PROVE  row.index = 0 /\ row.lengthLeft = row.value /\ row.isOpcode = 0 /\ row.rlc = 0
  <2>1. row.lengthLeft = row.value
    BY <1>1, <1>4, DifferenceVanishes DEF LengthHolds
  <2>2. ASSUME NEW x \in Element, M((0 - 1) * x) = 0 PROVE x = 0
    <3>1. x \in Int /\ -Modulus < x /\ x < Modulus
      BY ModulusFacts
    <3> QED
      BY <2>2, <3>1, SmallVanishes
  <2>3. row.index = 0
    BY <1>1, <1>4, <2>2 DEF IndexHolds
  <2>4. row.isOpcode = 0
    BY <1>1, <1>4, <2>2 DEF OpcodeHolds
  <2>5. row.rlc = 0
    BY <1>1, <1>4, <2>2 DEF RlcHolds
  <2> QED
    BY <2>1, <2>3, <2>4, <2>5
<1>5. ASSUME row.isOpcode = 1 PROVE row.pushSize = PushesOf(row.value)
  <2>0. row.value \in Int /\ row.pushSize \in Int
    BY <1>1, ModulusFacts
  <2>1. row.value * 1 = row.value /\ row.pushSize * 1 = row.pushSize
    BY <2>0
  <2>2. M(row.value * 1) = row.value /\ M(row.pushSize * 1) = row.pushSize
    BY <1>1, <2>1, ModulusFacts
  <2>3. <<row.value, row.pushSize, 1>> \in {<<b, PushSize[b], 1>> : b \in DOMAIN PushSize} \cup {<<0, 0, 0>>}
    BY <1>5, <2>2 DEF LookupsHold
  <2>4. PICK b \in DOMAIN PushSize : <<row.value, row.pushSize, 1>> = <<b, PushSize[b], 1>>
    BY <2>3
  <2> QED
    BY <2>4 DEF PushesOf
<1> QED
  BY <1>2, <1>3, <1>4, <1>5 DEF RowMeans

LEMMA NeighboursMean ==
    ASSUME NEW prev \in BytecodeRow, NEW row \in BytecodeRow, RowMeans(prev), RowMeans(row),
           IndexFollows(prev, row), LengthFollows(prev, row), OpcodeFollows(prev, row),
           HashFollows(prev, row), RlcHolds(prev, row)
    PROVE  Follows(prev, row)
<1>1. /\ row.tag \in {0, 1} /\ prev.tag \in {0, 1} /\ row.isOpcode \in {0, 1}
      /\ row.tag = 0 => row.isOpcode = 0
  BY DEF RowMeans
<1>2. /\ row.index \in Element /\ row.lengthLeft \in Element /\ row.value \in Element
      /\ row.hash \in Element /\ row.rlc \in Element /\ row.challenge \in Element /\ row.pushSize \in Element
      /\ prev.index \in Element /\ prev.lengthLeft \in Element /\ prev.value \in Element
      /\ prev.hash \in Element /\ prev.rlc \in Element /\ prev.challenge \in Element /\ prev.pushSize \in Element
  BY DEF BytecodeRow
<1>3. \A x \in Element : x \in Int /\ -Modulus < x /\ x < Modulus
  BY ModulusFacts
<1>4. ASSUME row.tag = 0, prev.tag = 1 PROVE prev.lengthLeft = 0
  <2>1. M(1 * (0 - 1) * prev.lengthLeft) = 0
    BY <1>4 DEF LengthFollows
  <2>2. prev.lengthLeft \in Int /\ -Modulus < prev.lengthLeft /\ prev.lengthLeft < Modulus
    BY <1>2, <1>3
  <2>3. 1 * (0 - 1) * prev.lengthLeft = (0 - 1) * prev.lengthLeft
    OBVIOUS
  <2> QED
    BY <2>1, <2>2, <2>3, SmallVanishes
<1>5. ASSUME row.tag = 1 PROVE ByteFollows(prev, row)
  <2>1. row.index = IF prev.tag = 0 THEN 0 ELSE M(prev.index + 1)
    <3>1. CASE prev.tag = 0
      <4>1. M((0 - 1) * row.index) = 0
        BY <3>1 DEF IndexFollows
      <4>2. row.index \in Int /\ -Modulus < row.index /\ row.index < Modulus
        BY <1>2, <1>3
      <4> QED
        BY <3>1, <4>1, <4>2, SmallVanishes
    <3>2. CASE prev.tag = 1
      <4>1. M(1 * 1 * (row.index - prev.index - 1)) = 0
        BY <1>5, <3>2 DEF IndexFollows
      <4>2. PICK d \in Int, y \in Int : d = row.index - prev.index - 1 /\ y = prev.index + 1
        BY <1>2, <1>3
      <4>3. 1 * 1 * d = d /\ d = row.index - y
        BY <1>2, <1>3, <4>2
      <4>4. M(d) = 0
        BY <4>1, <4>2, <4>3
      <4>5. row.index = M(y)
        BY <1>2, <4>3, <4>4, RemainderVanishes
      <4> QED
        BY <3>2, <4>2, <4>5
    <3> QED
      BY <1>1, <3>1, <3>2
  <2>2. row.lengthLeft = M(prev.lengthLeft - 1)
    <3>1. M(1 * (prev.lengthLeft - row.lengthLeft - 1)) = 0
      BY <1>5 DEF LengthFollows
    <3>2. PICK d \in Int, y \in Int : d = prev.lengthLeft - row.lengthLeft - 1 /\ y = prev.lengthLeft - 1
      BY <1>2, <1>3
    <3>3. 1 * d = d /\ d = y - row.lengthLeft
      BY <1>2, <1>3, <3>2
    <3>4. M(d) = 0
      BY <3>1, <3>2, <3>3
    <3> QED
      BY <1>2, <3>2, <3>3, <3>4, RemainderVanishes
  <2>3. row.hash = prev.hash
    <3>1. M(1 * (prev.hash - row.hash)) = 0
      BY <1>5 DEF HashFollows
    <3> QED
      BY <1>2, <3>1, DifferenceVanishes
  <2>4. row.challenge = prev.challenge
    <3>1. M(1 * (row.challenge - prev.challenge)) = 0
      BY <1>5 DEF RlcHolds
    <3> QED
      BY <1>2, <3>1, DifferenceVanishes
  <2>5. row.rlc = M(prev.rlc * prev.challenge + row.value)
    <3>1. M(1 * (row.rlc - prev.rlc * prev.challenge - row.value)) = 0
      BY <1>5, <2>4 DEF RlcHolds
    <3>2. PICK u \in Int : u = prev.rlc * prev.challenge
      BY <1>2, <1>3
    <3>3. PICK d \in Int, y \in Int : d = row.rlc - u - row.value /\ y = u + row.value
      BY <1>2, <1>3
    <3>4. 1 * d = d /\ d = row.rlc - y
      BY <1>2, <1>3, <3>3
    <3>5. M(d) = 0
      BY <3>1, <3>2, <3>3, <3>4
    <3>6. row.rlc = M(y)
      BY <1>2, <3>4, <3>5, RemainderVanishes
    <3> QED
      BY <3>2, <3>3, <3>6
  <2>6. ASSUME prev.tag = 0 PROVE row.isOpcode = 1
    <3>1. M((0 - 1) * 1 * (row.isOpcode - 1)) = 0
      BY <1>5, <2>6 DEF OpcodeFollows
    <3>2. CASE row.isOpcode = 0
      <4>1. (0 - 1) * 1 * (0 - 1) = 1 /\ M(1) = 1
        BY ModulusFacts
      <4> QED
        BY <3>1, <3>2, <4>1
    <3> QED
      BY <1>1, <3>2
  <2>7. ASSUME row.isOpcode = 1 PROVE prev.pushSize = 0
    <3>1. M(1 * prev.pushSize) = 0
      BY <2>7 DEF OpcodeFollows
    <3>2. prev.pushSize \in Int /\ -Modulus < prev.pushSize /\ prev.pushSize < Modulus
      BY <1>2, <1>3
    <3> QED
      BY <3>1, <3>2, SmallVanishes
  <2>8. ASSUME row.isOpcode = 0 PROVE row.pushSize = M(prev.pushSize - 1)
    <3>1. M(1 * (0 - 1) * (prev.pushSize - row.pushSize - 1)) = 0
      BY <1>5, <2>8 DEF OpcodeFollows
    <3>2. PICK d \in Int, y \in Int, e \in Int : d = prev.pushSize - row.pushSize - 1 /\ y = prev.pushSize - 1
                                                 /\ e = row.pushSize - y
      BY <1>2, <1>3
    <3>3. 1 * (0 - 1) * d = e
      BY <1>2, <1>3, <3>2
    <3>4. M(e) = 0
      BY <3>1, <3>2, <3>3
    <3> QED
      BY <1>2, <3>2, <3>4, RemainderVanishes
  <2> QED
    BY <2>1, <2>2, <2>3, <2>4, <2>5, <2>6, <2>7, <2>8 DEF ByteFollows
<1> QED
  BY <1>4, <1>5 DEF Follows

-----------------------------------------------------------------------------
(* Rows that anyone writes                                                 *)

Columns == {"tag", "index", "value", "isOpcode", "pushSize", "lengthLeft", "hash", "rlc", "challenge"}

(* Trying values for one column leaves the others alone.                   *)
LEMMA TryFills ==
    ASSUME NEW rs \in SUBSET BytecodeRow, NEW S \in SUBSET Element, NEW f \in Columns, NEW s \in Try(rs, f, S)
    PROVE  s \in BytecodeRow /\ \E q \in rs : \A g \in Columns \ {f} : s[g] = q[g]
  BY DEF Try, BytecodeRow, Columns

(* What AnyTableRow asks of a row and the one before it.                   *)
AcceptedAfter(row, prev) ==
    /\ TagHolds(row) /\ IndexHolds(row) /\ LengthHolds(row) /\ OpcodeHolds(row)
    /\ LookupsHold(row) /\ RlcHolds(prev, row)
    /\ table = <<>> => row.tag = 0
    /\ table # <<>> =>
          /\ IndexFollows(prev, row) /\ LengthFollows(prev, row)
          /\ OpcodeFollows(prev, row) /\ HashFollows(prev, row)

LEMMA AnyRowIsAccepted ==
    ASSUME AnyTableRow
    PROVE  \E row \in BytecodeRow :
               /\ table' = Append(table, row)
               /\ AcceptedAfter(row, IF table = <<>> THEN Unused ELSE table[Len(table)])
<1> DEFINE first == table = <<>>
           last == IF first THEN Unused ELSE table[Len(table)]
           before == IF Len(table) < 2 THEN Unused ELSE table[Len(table) - 1]
           headers == Cardinality({r \in DOMAIN table : table[r].tag = 0})
           tagTried == Try({Unused}, "tag", IF first THEN {0} ELSE Element)
           tags == {r \in tagTried : TagHolds(r) /\ (r.tag = 0 => headers < MaxHeader)}
           indexTried == Try(tags, "index", Element)
           indices == {r \in indexTried : IndexHolds(r) /\ (first \/ IndexFollows(last, r))}
           valueTried == Try(indices, "value", Element)
           values == {r \in valueTried : M(r.tag * r.value) \in Byte}
           lengthTried == Try(values, "lengthLeft", Element)
           lengths == {r \in lengthTried : LengthHolds(r) /\ (first \/ LengthFollows(last, r))}
           opcodeTried == Try(lengths, "isOpcode", Element)
           pushTried == Try(opcodeTried, "pushSize", Element)
           opcodes == {r \in pushTried : OpcodeHolds(r) /\ LookupsHold(r) /\ (first \/ OpcodeFollows(last, r))}
           hashTried == Try(opcodes, "hash", Hash)
           hashes == {r \in hashTried : first \/ HashFollows(last, r)}
           challengeTried == Try(hashes, "challenge", Challenge)
           rlcTried == Try(challengeTried, "rlc", Element)
           TagOf(r) == TagHolds(r) /\ (first => r.tag = 0)
           IndexOf(r) == TagOf(r) /\ IndexHolds(r) /\ (first \/ IndexFollows(last, r))
           LengthOf(r) == IndexOf(r) /\ LengthHolds(r) /\ (first \/ LengthFollows(last, r))
           OpcodeOf(r) == LengthOf(r) /\ OpcodeHolds(r) /\ LookupsHold(r) /\ (first \/ OpcodeFollows(last, r))
           HashOf(r) == OpcodeOf(r) /\ (first \/ HashFollows(last, r))
<1>1. PICK row \in rlcTried : /\ RlcHolds(last, row)
                              /\ table' = Append(table, row)
  BY DEF AnyTableRow
<1>2. /\ 0 \in Element /\ (IF first THEN {0} ELSE Element) \in SUBSET Element
      /\ Hash \in SUBSET Element /\ Challenge \in SUBSET Element /\ Element \in SUBSET Element
  BY ModulusFacts, ByteAssumption
<1>3. {Unused} \in SUBSET BytecodeRow
  BY <1>2 DEF Unused, BytecodeRow
<1>4. \A r \in tags : r \in BytecodeRow /\ TagOf(r)
  <2>1. \A r \in tagTried : r \in BytecodeRow /\ (first => r.tag = 0)
    <3>1. \A r \in tagTried : r \in BytecodeRow
      BY <1>2, <1>3, TryFills DEF Columns
    <3>2. ASSUME NEW r \in tagTried, first PROVE r.tag = 0
      <4>1. PICK x \in {0} : r = [Unused EXCEPT !["tag"] = x]
        BY <3>2 DEF Try
      <4> QED
        BY <4>1 DEF Unused
    <3> QED
      BY <3>1, <3>2
  <2> HIDE DEF tagTried
  <2> QED
    BY <2>1
<1> HIDE DEF tags, first, last, TagOf, IndexOf, LengthOf, OpcodeOf, HashOf
<1>5. \A r \in indexTried : r \in BytecodeRow /\ TagOf(r)
  <2> SUFFICES ASSUME NEW r \in indexTried PROVE r \in BytecodeRow /\ TagOf(r)
    OBVIOUS
  <2>1. r \in BytecodeRow /\ \E q \in tags : \A g \in Columns \ {"index"} : r[g] = q[g]
    <3>1. tags \in SUBSET BytecodeRow
      BY <1>4
    <3>2. r \in Try(tags, "index", Element) /\ "index" \in Columns /\ Element \in SUBSET Element
      BY <1>2 DEF Columns, indexTried
    <3> HIDE DEF indexTried
    <3> QED
      BY <3>1, <3>2, TryFills
  <2>2. PICK q \in tags : \A g \in Columns \ {"index"} : r[g] = q[g]
    BY <2>1
  <2>3. TagOf(q) /\ q \in BytecodeRow
    BY <1>4
  <2>4. r.tag = q.tag
    BY <2>2 DEF Columns
  <2> QED
    BY <2>1, <2>3, <2>4 DEF TagOf, TagHolds
<1> HIDE DEF indexTried
<1>6. \A r \in indices : r \in BytecodeRow /\ IndexOf(r)
  BY <1>5 DEF IndexOf
<1> HIDE DEF indices
<1>7. \A r \in valueTried : r \in BytecodeRow /\ IndexOf(r)
  <2> SUFFICES ASSUME NEW r \in valueTried PROVE r \in BytecodeRow /\ IndexOf(r)
    OBVIOUS
  <2>1. r \in BytecodeRow /\ \E q \in indices : \A g \in Columns \ {"value"} : r[g] = q[g]
    <3>1. indices \in SUBSET BytecodeRow
      BY <1>6
    <3>2. r \in Try(indices, "value", Element) /\ "value" \in Columns /\ Element \in SUBSET Element
      BY <1>2 DEF Columns, valueTried
    <3> HIDE DEF valueTried
    <3> QED
      BY <3>1, <3>2, TryFills
  <2>2. PICK q \in indices : \A g \in Columns \ {"value"} : r[g] = q[g]
    BY <2>1
  <2>3. IndexOf(q) /\ q \in BytecodeRow
    BY <1>6
  <2>4. r.tag = q.tag /\ r.index = q.index
    BY <2>2 DEF Columns
  <2> QED
    BY <2>1, <2>3, <2>4 DEF TagOf, IndexOf, TagHolds, IndexHolds, IndexFollows
<1> HIDE DEF valueTried
<1>8. \A r \in values : r \in BytecodeRow /\ IndexOf(r)
  BY <1>7 DEF IndexOf
<1> HIDE DEF values
<1>9. \A r \in lengthTried : r \in BytecodeRow /\ IndexOf(r)
  <2> SUFFICES ASSUME NEW r \in lengthTried PROVE r \in BytecodeRow /\ IndexOf(r)
    OBVIOUS
  <2>1. r \in BytecodeRow /\ \E q \in values : \A g \in Columns \ {"lengthLeft"} : r[g] = q[g]
    <3>1. values \in SUBSET BytecodeRow
      BY <1>8
    <3>2. r \in Try(values, "lengthLeft", Element) /\ "lengthLeft" \in Columns /\ Element \in SUBSET Element
      BY <1>2 DEF Columns, lengthTried
    <3> HIDE DEF lengthTried
    <3> QED
      BY <3>1, <3>2, TryFills
  <2>2. PICK q \in values : \A g \in Columns \ {"lengthLeft"} : r[g] = q[g]
    BY <2>1
  <2>3. IndexOf(q) /\ q \in BytecodeRow
    BY <1>8
  <2>4. r.tag = q.tag /\ r.index = q.index
    BY <2>2 DEF Columns
  <2> QED
    BY <2>1, <2>3, <2>4 DEF TagOf, IndexOf, TagHolds, IndexHolds, IndexFollows
<1> HIDE DEF lengthTried
<1>10. \A r \in lengths : r \in BytecodeRow /\ LengthOf(r)
  BY <1>9 DEF LengthOf
<1> HIDE DEF lengths
<1>11. \A r \in opcodeTried : r \in BytecodeRow /\ LengthOf(r)
  <2> SUFFICES ASSUME NEW r \in opcodeTried PROVE r \in BytecodeRow /\ LengthOf(r)
    OBVIOUS
  <2>1. r \in BytecodeRow /\ \E q \in lengths : \A g \in Columns \ {"isOpcode"} : r[g] = q[g]
    <3>1. lengths \in SUBSET BytecodeRow
      BY <1>10
    <3>2. r \in Try(lengths, "isOpcode", Element) /\ "isOpcode" \in Columns /\ Element \in SUBSET Element
      BY <1>2 DEF Columns, opcodeTried
    <3> HIDE DEF opcodeTried
    <3> QED
      BY <3>1, <3>2, TryFills
  <2>2. PICK q \in lengths : \A g \in Columns \ {"isOpcode"} : r[g] = q[g]
    BY <2>1
  <2>3. LengthOf(q) /\ q \in BytecodeRow
    BY <1>10
  <2>4. r.tag = q.tag /\ r.index = q.index /\ r.value = q.value /\ r.lengthLeft = q.lengthLeft
    BY <2>2 DEF Columns
  <2> QED
    BY <2>1, <2>3, <2>4 DEF TagOf, IndexOf, LengthOf, TagHolds, IndexHolds, IndexFollows, LengthHolds, LengthFollows
<1> HIDE DEF opcodeTried
<1>12. \A r \in pushTried : r \in BytecodeRow /\ LengthOf(r)
  <2> SUFFICES ASSUME NEW r \in pushTried PROVE r \in BytecodeRow /\ LengthOf(r)
    OBVIOUS
  <2>1. r \in BytecodeRow /\ \E q \in opcodeTried : \A g \in Columns \ {"pushSize"} : r[g] = q[g]
    <3>1. opcodeTried \in SUBSET BytecodeRow
      BY <1>11
    <3>2. r \in Try(opcodeTried, "pushSize", Element) /\ "pushSize" \in Columns /\ Element \in SUBSET Element
      BY <1>2 DEF Columns, pushTried
    <3> HIDE DEF pushTried
    <3> QED
      BY <3>1, <3>2, TryFills
  <2>2. PICK q \in opcodeTried : \A g \in Columns \ {"pushSize"} : r[g] = q[g]
    BY <2>1
  <2>3. LengthOf(q) /\ q \in BytecodeRow
    BY <1>11
  <2>4. r.tag = q.tag /\ r.index = q.index /\ r.value = q.value /\ r.lengthLeft = q.lengthLeft
    BY <2>2 DEF Columns
  <2> QED
    BY <2>1, <2>3, <2>4 DEF TagOf, IndexOf, LengthOf, TagHolds, IndexHolds, IndexFollows, LengthHolds, LengthFollows
<1> HIDE DEF pushTried
<1>13. \A r \in opcodes : r \in BytecodeRow /\ OpcodeOf(r)
  BY <1>12 DEF OpcodeOf
<1> HIDE DEF opcodes
<1>14. \A r \in hashTried : r \in BytecodeRow /\ OpcodeOf(r)
  <2> SUFFICES ASSUME NEW r \in hashTried PROVE r \in BytecodeRow /\ OpcodeOf(r)
    OBVIOUS
  <2>1. r \in BytecodeRow /\ \E q \in opcodes : \A g \in Columns \ {"hash"} : r[g] = q[g]
    <3>1. opcodes \in SUBSET BytecodeRow
      BY <1>13
    <3>2. r \in Try(opcodes, "hash", Hash) /\ "hash" \in Columns /\ Hash \in SUBSET Element
      BY <1>2 DEF Columns, hashTried
    <3> HIDE DEF hashTried
    <3> QED
      BY <3>1, <3>2, TryFills
  <2>2. PICK q \in opcodes : \A g \in Columns \ {"hash"} : r[g] = q[g]
    BY <2>1
  <2>3. OpcodeOf(q) /\ q \in BytecodeRow
    BY <1>13
  <2>4. r.tag = q.tag /\ r.index = q.index /\ r.value = q.value /\ r.lengthLeft = q.lengthLeft /\ r.isOpcode = q.isOpcode /\ r.pushSize = q.pushSize
    BY <2>2 DEF Columns
  <2> QED
    BY <2>1, <2>3, <2>4 DEF TagOf, IndexOf, LengthOf, OpcodeOf, TagHolds, IndexHolds, IndexFollows, LengthHolds, LengthFollows, OpcodeHolds, LookupsHold, OpcodeFollows
<1> HIDE DEF hashTried
<1>15. \A r \in hashes : r \in BytecodeRow /\ HashOf(r)
  BY <1>14 DEF HashOf
<1> HIDE DEF hashes
<1>16. \A r \in challengeTried : r \in BytecodeRow /\ HashOf(r)
  <2> SUFFICES ASSUME NEW r \in challengeTried PROVE r \in BytecodeRow /\ HashOf(r)
    OBVIOUS
  <2>1. r \in BytecodeRow /\ \E q \in hashes : \A g \in Columns \ {"challenge"} : r[g] = q[g]
    <3>1. hashes \in SUBSET BytecodeRow
      BY <1>15
    <3>2. r \in Try(hashes, "challenge", Challenge) /\ "challenge" \in Columns /\ Challenge \in SUBSET Element
      BY <1>2 DEF Columns, challengeTried
    <3> HIDE DEF challengeTried
    <3> QED
      BY <3>1, <3>2, TryFills
  <2>2. PICK q \in hashes : \A g \in Columns \ {"challenge"} : r[g] = q[g]
    BY <2>1
  <2>3. HashOf(q) /\ q \in BytecodeRow
    BY <1>15
  <2>4. r.tag = q.tag /\ r.index = q.index /\ r.value = q.value /\ r.lengthLeft = q.lengthLeft /\ r.isOpcode = q.isOpcode /\ r.pushSize = q.pushSize /\ r.hash = q.hash
    BY <2>2 DEF Columns
  <2> QED
    BY <2>1, <2>3, <2>4 DEF TagOf, IndexOf, LengthOf, OpcodeOf, HashOf, TagHolds, IndexHolds, IndexFollows, LengthHolds, LengthFollows, OpcodeHolds, LookupsHold, OpcodeFollows, HashFollows
<1> HIDE DEF challengeTried
<1>17. \A r \in rlcTried : r \in BytecodeRow /\ HashOf(r)
  <2> SUFFICES ASSUME NEW r \in rlcTried PROVE r \in BytecodeRow /\ HashOf(r)
    OBVIOUS
  <2>1. r \in BytecodeRow /\ \E q \in challengeTried : \A g \in Columns \ {"rlc"} : r[g] = q[g]
    <3>1. challengeTried \in SUBSET BytecodeRow
      BY <1>16
    <3>2. r \in Try(challengeTried, "rlc", Element) /\ "rlc" \in Columns /\ Element \in SUBSET Element
      BY <1>2 DEF Columns, rlcTried
    <3> HIDE DEF rlcTried
    <3> QED
      BY <3>1, <3>2, TryFills
  <2>2. PICK q \in challengeTried : \A g \in Columns \ {"rlc"} : r[g] = q[g]
    BY <2>1
  <2>3. HashOf(q) /\ q \in BytecodeRow
    BY <1>16
  <2>4. r.tag = q.tag /\ r.index = q.index /\ r.value = q.value /\ r.lengthLeft = q.lengthLeft /\ r.isOpcode = q.isOpcode /\ r.pushSize = q.pushSize /\ r.hash = q.hash
    BY <2>2 DEF Columns
  <2> QED
    BY <2>1, <2>3, <2>4 DEF TagOf, IndexOf, LengthOf, OpcodeOf, HashOf, TagHolds, IndexHolds, IndexFollows, LengthHolds, LengthFollows, OpcodeHolds, LookupsHold, OpcodeFollows, HashFollows
<1> HIDE DEF rlcTried
<1> QED
  BY <1>1, <1>17 DEF AcceptedAfter, TagOf, IndexOf, LengthOf, OpcodeOf, HashOf, first, last

-----------------------------------------------------------------------------
(* The rows of a contract                                                  *)

LEMMA PushesAreElements ==
    ASSUME NEW b \in Element
    PROVE  PushesOf(b) \in Element
  BY ModulusFacts, ByteAssumption DEF PushesOf

LEMMA OneLessIsElement == \A x \in Element : x # 0 => x - 1 \in Element
  BY ModulusAssumption DEF Element

LEMMA PushLeftCounts ==
    ASSUME NEW code \in Seq(Element)
    PROVE  /\ PushLeft(code) \in [0..Len(code) -> Element]
           /\ PushLeft(code)[0] = 0
           /\ \A j \in 1..Len(code) :
                 PushLeft(code)[j] = IF PushLeft(code)[j - 1] = 0 THEN PushesOf(code[j])
                                     ELSE PushLeft(code)[j - 1] - 1
<1> DEFINE n == Len(code)
           IsLeft(f) == f = [j \in 0..n |-> IF j = 0 THEN 0
                                            ELSE IF f[j - 1] = 0 THEN PushesOf(code[j]) ELSE f[j - 1] - 1]
           step == [x \in (1..n) \X Element |-> IF x[2] = 0 THEN PushesOf(code[x[1]]) ELSE x[2] - 1]
<1>1. n \in Nat /\ 0 \in Element /\ \A j \in 1..n : code[j] \in Element
  <2>1. 0 \in Element
    BY ModulusFacts
  <2> QED
    BY <2>1
<1>2. step \in [(1..n) \X Element -> Element]
  <2>1. ASSUME NEW x \in (1..n) \X Element
        PROVE  (IF x[2] = 0 THEN PushesOf(code[x[1]]) ELSE x[2] - 1) \in Element
    <3>1. x[1] \in 1..n /\ x[2] \in Element
      OBVIOUS
    <3>2. x[2] # 0 => x[2] - 1 \in Element
      BY <3>1, OneLessIsElement
    <3>3. code[x[1]] \in Element
      BY <1>1, <3>1
    <3>4. PushesOf(code[x[1]]) \in Element
      BY <3>3, PushesAreElements
    <3> QED
      BY <3>1, <3>2, <3>4
  <2> QED
    BY <2>1
<1>3. PICK f : Counted(f, n, 0, step)
  BY <1>1, CountedFunctionExists
<1>4. f \in [0..n -> Element]
  BY <1>1, <1>2, <1>3, CountedFunctionType
<1>5. IsLeft(f)
  <2>1. ASSUME NEW j \in 0..n
        PROVE  f[j] = IF j = 0 THEN 0 ELSE IF f[j - 1] = 0 THEN PushesOf(code[j]) ELSE f[j - 1] - 1
    <3>1. f[j] = IF j = 0 THEN 0 ELSE step[<<j, f[j - 1]>>]
      BY <1>3 DEF Counted
    <3>2. ASSUME j # 0 PROVE step[<<j, f[j - 1]>>] = IF f[j - 1] = 0 THEN PushesOf(code[j]) ELSE f[j - 1] - 1
      <4>1. j \in 1..n /\ j - 1 \in 0..n
        BY <3>2
      <4>2. <<j, f[j - 1]>> \in (1..n) \X Element
        BY <1>4, <4>1
      <4> QED
        BY <4>2
    <3> HIDE DEF step
    <3> QED
      BY <3>1, <3>2
  <2>2. f = [j \in 0..n |-> f[j]]
    BY <1>4
  <2> QED
    BY <2>1, <2>2
<1>6. PushLeft(code) = CHOOSE g : IsLeft(g)
  BY DEF PushLeft
<1>7. IsLeft(PushLeft(code))
  BY <1>5, <1>6
<1>8. PICK g : g = PushLeft(code)
  OBVIOUS
<1>9. IsLeft(g)
  BY <1>7, <1>8
<1>10. ASSUME NEW j \in 0..n
       PROVE  g[j] = IF j = 0 THEN 0 ELSE IF g[j - 1] = 0 THEN PushesOf(code[j]) ELSE g[j - 1] - 1
  BY <1>9
<1>11. g = [j \in 0..n |-> g[j]]
  BY <1>9
<1> HIDE DEF IsLeft
<1> DEFINE P == {j \in 0..n : g[j] \in Element}
<1>12. 0 \in P
  BY <1>1, <1>10
<1>13. ASSUME NEW j \in 1..n, j - 1 \in P PROVE j \in P
  <2>1. g[j] = IF g[j - 1] = 0 THEN PushesOf(code[j]) ELSE g[j - 1] - 1
    BY <1>1, <1>10
  <2>2. PushesOf(code[j]) \in Element
    BY <1>1, PushesAreElements
  <2>3. g[j - 1] \in Element
    BY <1>13
  <2>4. g[j - 1] # 0 => g[j - 1] - 1 \in Element
    BY <2>3, OneLessIsElement
  <2> QED
    BY <2>1, <2>2, <2>3, <2>4
<1> HIDE DEF P
<1>14. \A j \in 0..n : j \in P
  BY <1>1, <1>12, <1>13, CountingUp
<1>15. g \in [0..n -> Element]
  BY <1>11, <1>14 DEF P
<1> QED
  BY <1>1, <1>8, <1>10, <1>15
LEMMA CombinationIsElement ==
    ASSUME NEW x \in Element, NEW y \in Element, NEW z \in Element
    PROVE  M(x * y + z) \in Element
<1>1. x \in Int /\ y \in Int /\ z \in Int
  BY ModulusFacts
<1>2. PICK u \in Int : u = x * y
  BY <1>1
<1>3. PICK v \in Int : v = u + z
  BY <1>1, <1>2
<1>4. M(v) \in Element
  BY ModulusFacts
<1> QED
  BY <1>2, <1>3, <1>4

LEMMA RlcCounts ==
    ASSUME NEW code \in Seq(Element), NEW challenge \in Element
    PROVE  /\ Rlc(code, challenge) \in [0..Len(code) -> Element]
           /\ Rlc(code, challenge)[0] = 0
           /\ \A j \in 1..Len(code) :
                 Rlc(code, challenge)[j] = M(Rlc(code, challenge)[j - 1] * challenge + code[j])
<1> DEFINE n == Len(code)
           IsLeft(f) == f = [j \in 0..n |-> IF j = 0 THEN 0 ELSE M(f[j - 1] * challenge + code[j])]
           step == [x \in (1..n) \X Element |-> M(x[2] * challenge + code[x[1]])]
<1>1. n \in Nat /\ 0 \in Element /\ \A j \in 1..n : code[j] \in Element
  <2>1. 0 \in Element
    BY ModulusFacts
  <2> QED
    BY <2>1
<1>2. step \in [(1..n) \X Element -> Element]
  <2>1. ASSUME NEW x \in (1..n) \X Element
        PROVE  (M(x[2] * challenge + code[x[1]])) \in Element
    <3>1. x[1] \in 1..n /\ x[2] \in Element
      OBVIOUS
    <3>2. code[x[1]] \in Element
      BY <1>1, <3>1
    <3> QED
      BY <3>1, <3>2, CombinationIsElement
  <2> QED
    BY <2>1
<1>3. PICK f : Counted(f, n, 0, step)
  BY <1>1, CountedFunctionExists
<1>4. f \in [0..n -> Element]
  BY <1>1, <1>2, <1>3, CountedFunctionType
<1>5. IsLeft(f)
  <2>1. ASSUME NEW j \in 0..n
        PROVE  f[j] = IF j = 0 THEN 0 ELSE M(f[j - 1] * challenge + code[j])
    <3>1. f[j] = IF j = 0 THEN 0 ELSE step[<<j, f[j - 1]>>]
      BY <1>3 DEF Counted
    <3>2. ASSUME j # 0 PROVE step[<<j, f[j - 1]>>] = M(f[j - 1] * challenge + code[j])
      <4>1. j \in 1..n /\ j - 1 \in 0..n
        BY <3>2
      <4>2. <<j, f[j - 1]>> \in (1..n) \X Element
        BY <1>4, <4>1
      <4> QED
        BY <4>2
    <3> HIDE DEF step
    <3> QED
      BY <3>1, <3>2
  <2>2. f = [j \in 0..n |-> f[j]]
    BY <1>4
  <2> QED
    BY <2>1, <2>2
<1>6. Rlc(code, challenge) = CHOOSE g : IsLeft(g)
  BY DEF Rlc
<1>7. IsLeft(Rlc(code, challenge))
  BY <1>5, <1>6
<1>8. PICK g : g = Rlc(code, challenge)
  OBVIOUS
<1>9. IsLeft(g)
  BY <1>7, <1>8
<1>10. ASSUME NEW j \in 0..n
       PROVE  g[j] = IF j = 0 THEN 0 ELSE M(g[j - 1] * challenge + code[j])
  BY <1>9
<1>11. g = [j \in 0..n |-> g[j]]
  BY <1>9
<1> HIDE DEF IsLeft
<1> DEFINE P == {j \in 0..n : g[j] \in Element}
<1>12. 0 \in P
  BY <1>1, <1>10
<1>13. ASSUME NEW j \in 1..n, j - 1 \in P PROVE j \in P
  <2>1. g[j] = M(g[j - 1] * challenge + code[j])
    BY <1>1, <1>10
  <2>2. code[j] \in Element /\ g[j - 1] \in Element
    BY <1>1, <1>13
  <2>3. M(g[j - 1] * challenge + code[j]) \in Element
    BY <2>2, CombinationIsElement
  <2> QED
    BY <2>1, <2>3
<1> HIDE DEF P
<1>14. \A j \in 0..n : j \in P
  BY <1>1, <1>12, <1>13, CountingUp
<1>15. g \in [0..n -> Element]
  BY <1>11, <1>14 DEF P
<1> QED
  BY <1>1, <1>8, <1>10, <1>15

LEMMA ContractRowFields ==
    ASSUME NEW code \in Seq(Element), Len(code) < Modulus,
           NEW hash \in Element, NEW challenge \in Element, NEW j \in 0..Len(code)
    PROVE  LET row == ContractRows(code, hash, challenge)[j + 1] IN
           /\ row \in BytecodeRow
           /\ row.tag = IF j = 0 THEN 0 ELSE 1
           /\ row.index = IF j = 0 THEN 0 ELSE j - 1
           /\ row.value = IF j = 0 THEN Len(code) ELSE code[j]
           /\ row.isOpcode = IF IsOpcode(code, j) THEN 1 ELSE 0
           /\ row.pushSize = PushLeft(code)[j]
           /\ row.lengthLeft = Len(code) - j
           /\ row.hash = hash /\ row.challenge = challenge
           /\ row.rlc = Rlc(code, challenge)[j]
<1> DEFINE expected ==
             [tag |-> IF j = 0 THEN 0 ELSE 1, index |-> IF j = 0 THEN 0 ELSE j - 1,
              value |-> IF j = 0 THEN Len(code) ELSE code[j],
              isOpcode |-> IF IsOpcode(code, j) THEN 1 ELSE 0,
              pushSize |-> PushLeft(code)[j], lengthLeft |-> Len(code) - j,
              hash |-> hash, rlc |-> Rlc(code, challenge)[j], challenge |-> challenge]
<1>1. Len(code) \in Nat /\ j \in 0..Len(code) /\ j + 1 \in 1..(Len(code) + 1) /\ (j + 1) - 1 = j
  OBVIOUS
<1>2. ContractRows(code, hash, challenge)[j + 1] = expected
  BY <1>1 DEF ContractRows
<1>3. PushLeft(code)[j] \in Element
  BY <1>1, PushLeftCounts
<1>4. Rlc(code, challenge)[j] \in Element
  BY <1>1, RlcCounts
<1>5. Modulus \in Nat /\ Element = 0..(Modulus - 1) /\ 0 \in Element /\ 1 \in Element
  BY ModulusFacts
<1>6. /\ (IF j = 0 THEN 0 ELSE 1) \in Element
      /\ (IF j = 0 THEN 0 ELSE j - 1) \in Element
      /\ (IF j = 0 THEN Len(code) ELSE code[j]) \in Element
      /\ (IF IsOpcode(code, j) THEN 1 ELSE 0) \in Element
      /\ Len(code) - j \in Element
  <2>1. (IF j = 0 THEN 0 ELSE 1) \in Element /\ (IF IsOpcode(code, j) THEN 1 ELSE 0) \in Element
    BY <1>5
  <2>2. j # 0 => j - 1 \in 0..(Modulus - 1) /\ code[j] \in Element
    BY <1>1, <1>5
  <2>3. Len(code) \in 0..(Modulus - 1) /\ Len(code) - j \in 0..(Modulus - 1)
    BY <1>1, <1>5
  <2> QED
    BY <1>5, <2>1, <2>2, <2>3
<1>7. expected \in BytecodeRow
  BY <1>3, <1>4, <1>6 DEF BytecodeRow
<1> QED
  BY <1>2, <1>7

LEMMA ContractRowsFollow ==
    ASSUME NEW code \in Seq(Element), Len(code) < Modulus,
           NEW hash \in Element, NEW challenge \in Element
    PROVE  LET written == ContractRows(code, hash, challenge) IN
           /\ written \in Seq(BytecodeRow) /\ Len(written) = Len(code) + 1
           /\ \A i \in 1..Len(written) : RowMeans(written[i]) /\ written[i].challenge = challenge
           /\ written[1].tag = 0 /\ written[Len(written)].lengthLeft = 0
           /\ \A i \in 2..Len(written) :
                 /\ written[i].tag = 1 /\ written[i].value = code[i - 1]
                 /\ Follows(written[i - 1], written[i])
<1> DEFINE written == ContractRows(code, hash, challenge)
           n == Len(code)
<1>1. n \in Nat
  OBVIOUS
<1>2. ASSUME NEW j \in 0..n
      PROVE  /\ written[j + 1] \in BytecodeRow
             /\ written[j + 1].tag = IF j = 0 THEN 0 ELSE 1
             /\ written[j + 1].index = IF j = 0 THEN 0 ELSE j - 1
             /\ written[j + 1].value = IF j = 0 THEN n ELSE code[j]
             /\ written[j + 1].isOpcode = IF IsOpcode(code, j) THEN 1 ELSE 0
             /\ written[j + 1].pushSize = PushLeft(code)[j]
             /\ written[j + 1].lengthLeft = n - j
             /\ written[j + 1].hash = hash /\ written[j + 1].challenge = challenge
             /\ written[j + 1].rlc = Rlc(code, challenge)[j]
  BY ContractRowFields
<1>3. written = [i \in 1..(n + 1) |-> written[i]]
  BY DEF ContractRows
<1> HIDE DEF written
<1>4. \A i \in 1..(n + 1) : i - 1 \in 0..n /\ (i - 1) + 1 = i
  BY <1>1
<1>5. written \in Seq(BytecodeRow) /\ Len(written) = n + 1
  <2>1. \A i \in 1..(n + 1) : written[i] \in BytecodeRow
    BY <1>2, <1>4
  <2>2. written \in [1..(n + 1) -> BytecodeRow]
    BY <1>3, <2>1
  <2> QED
    BY <1>1, <2>2
<1>6. /\ Modulus \in Nat /\ n < Modulus /\ Element = 0..(Modulus - 1)
      /\ \A x \in Element : M(x) = x
  BY ModulusFacts
<1>7. ASSUME NEW j \in 1..n PROVE Follows(written[j], written[j + 1])
  <2> DEFINE prev == written[j]
             row == written[j + 1]
  <2>1. j \in 0..n /\ j - 1 \in 0..n /\ (j - 1) + 1 = j /\ j # 0
    BY <1>1
  <2>2. /\ prev.tag = IF j - 1 = 0 THEN 0 ELSE 1
        /\ prev.index = IF j - 1 = 0 THEN 0 ELSE (j - 1) - 1
        /\ prev.pushSize = PushLeft(code)[j - 1]
        /\ prev.lengthLeft = n - (j - 1)
        /\ prev.hash = hash /\ prev.challenge = challenge
        /\ prev.rlc = Rlc(code, challenge)[j - 1]
    BY <1>2, <2>1
  <2>3. /\ row.tag = 1 /\ row.index = j - 1 /\ row.value = code[j]
        /\ row.isOpcode = IF IsOpcode(code, j) THEN 1 ELSE 0
        /\ row.pushSize = PushLeft(code)[j]
        /\ row.lengthLeft = n - j
        /\ row.hash = hash /\ row.challenge = challenge
        /\ row.rlc = Rlc(code, challenge)[j]
    BY <1>2, <2>1
  <2> HIDE DEF prev, row
  <2>4. row.index = IF prev.tag = 0 THEN 0 ELSE M(prev.index + 1)
    <3>1. j - 1 \in Element
      BY <1>6, <2>1
    <3>2. M(j - 1) = j - 1
      BY <1>6, <3>1
    <3>3. CASE j = 1
      BY <2>2, <2>3, <3>3
    <3>4. CASE j # 1
      <4>1. prev.tag = 1 /\ prev.index + 1 = j - 1
        BY <2>1, <2>2, <3>4
      <4> QED
        BY <2>3, <3>2, <4>1
    <3> QED
      BY <3>3, <3>4
  <2>5. row.lengthLeft = M(prev.lengthLeft - 1)
    <3>1. n - j \in Element /\ prev.lengthLeft - 1 = n - j
      BY <1>1, <1>6, <2>1, <2>2
    <3> QED
      BY <1>6, <2>3, <3>1
  <2>6. row.rlc = M(prev.rlc * prev.challenge + row.value)
    <3>1. Rlc(code, challenge)[j] = M(Rlc(code, challenge)[j - 1] * challenge + code[j])
      BY RlcCounts
    <3> QED
      BY <2>2, <2>3, <3>1
  <2>7. /\ PushLeft(code)[0] = 0 /\ PushLeft(code)[j - 1] \in Element
        /\ PushLeft(code)[j] = IF PushLeft(code)[j - 1] = 0 THEN PushesOf(code[j])
                               ELSE PushLeft(code)[j - 1] - 1
    BY <2>1, PushLeftCounts
  <2>8. IsOpcode(code, j) <=> PushLeft(code)[j - 1] = 0
    BY <2>1 DEF IsOpcode
  <2>9. row.isOpcode = 1 <=> prev.pushSize = 0
    BY <2>2, <2>3, <2>8
  <2>10. ASSUME row.isOpcode = 0 PROVE row.pushSize = M(prev.pushSize - 1)
    <3>1. prev.pushSize # 0
      BY <2>9, <2>10
    <3>2. prev.pushSize - 1 \in Element
      BY <2>2, <2>7, <3>1, OneLessIsElement
    <3>3. row.pushSize = prev.pushSize - 1
      BY <2>2, <2>3, <2>7, <3>1
    <3> QED
      BY <1>6, <3>2, <3>3
  <2>11. ASSUME prev.tag = 0 PROVE row.isOpcode = 1
    <3>1. j - 1 = 0
      BY <2>2, <2>11
    <3> QED
      BY <2>2, <2>7, <2>9, <3>1
  <2>12. ByteFollows(prev, row)
    BY <2>2, <2>3, <2>4, <2>5, <2>6, <2>9, <2>10, <2>11 DEF ByteFollows
  <2> QED
    BY <2>3, <2>12 DEF Follows, prev, row
<1>8. ASSUME NEW i \in 1..(n + 1) PROVE RowMeans(written[i]) /\ written[i].challenge = challenge
  <2> DEFINE j == i - 1
             row == written[j + 1]
  <2>1. j \in 0..n /\ j + 1 = i
    BY <1>4
  <2> HIDE DEF j
  <2>2. /\ row.tag = IF j = 0 THEN 0 ELSE 1
        /\ row.index = IF j = 0 THEN 0 ELSE j - 1
        /\ row.value = IF j = 0 THEN n ELSE code[j]
        /\ row.isOpcode = IF IsOpcode(code, j) THEN 1 ELSE 0
        /\ row.pushSize = PushLeft(code)[j]
        /\ row.lengthLeft = n - j /\ row.challenge = challenge
        /\ row.rlc = Rlc(code, challenge)[j]
    BY <1>2, <2>1
  <2> HIDE DEF row
  <2>3. Rlc(code, challenge)[0] = 0
    BY RlcCounts
  <2>4. ASSUME row.isOpcode = 1 PROVE row.pushSize = PushesOf(row.value)
    <3>1. IsOpcode(code, j)
      BY <2>2, <2>4
    <3>2. j \in 1..n /\ PushLeft(code)[j - 1] = 0
      BY <1>1, <2>1, <3>1 DEF IsOpcode
    <3>3. PushLeft(code)[j] = PushesOf(code[j])
      BY <3>2, PushLeftCounts
    <3> QED
      BY <2>2, <3>2, <3>3
  <2>5. ASSUME row.tag = 0 PROVE row.index = 0 /\ row.lengthLeft = row.value /\ row.isOpcode = 0 /\ row.rlc = 0
    <3>1. j = 0
      BY <2>2, <2>5
    <3>2. ~ IsOpcode(code, j)
      BY <3>1 DEF IsOpcode
    <3> QED
      BY <1>1, <2>2, <2>3, <3>1, <3>2
  <2>6. row.tag \in {0, 1} /\ row.isOpcode \in {0, 1}
    BY <2>2
  <2>7. RowMeans(row)
    BY <2>4, <2>5, <2>6 DEF RowMeans
  <2> QED
    BY <2>1, <2>2, <2>7 DEF row
<1>9. written[1].tag = 0
  <2>1. 0 \in 0..n /\ 0 + 1 = 1
    BY <1>1
  <2> QED
    BY <1>2, <2>1
<1>10. written[n + 1].lengthLeft = 0
  <2>1. n \in 0..n
    BY <1>1
  <2>2. written[n + 1].lengthLeft = n - n
    BY <1>2, <2>1
  <2> QED
    BY <1>1, <2>2
<1>11. ASSUME NEW i \in 2..(n + 1)
       PROVE  /\ written[i].tag = 1 /\ written[i].value = code[i - 1]
              /\ Follows(written[i - 1], written[i])
  <2>1. i - 1 \in 1..n /\ (i - 1) + 1 = i /\ i - 1 \in 0..n /\ i - 1 # 0
    BY <1>1
  <2> QED
    BY <1>2, <1>7, <2>1
<1> QED
  BY <1>5, <1>8, <1>9, <1>10, <1>11 DEF written

-----------------------------------------------------------------------------
(* The invariant                                                           *)

(* Every table begins with a header; its rows mean what they must and      *)
(* follow each other.                                                      *)
WellFormed(t) ==
    /\ t \in Seq(BytecodeRow) /\ Len(t) <= MaxTable
    /\ t # <<>> => t[1].tag = 0
    /\ \A r \in 1..Len(t) : RowMeans(t[r])
    /\ \A r \in 2..Len(t) : Follows(t[r - 1], t[r])

(* The component's tables end with a contract's last row, have bytes for   *)
(* bytes and one challenge.                                                *)
TableWritten(t) ==
    /\ t # <<>> => t[Len(t)].lengthLeft = 0
    /\ \A r \in 1..Len(t) : t[r].tag = 1 => t[r].value \in Byte
    /\ \A r, q \in 1..Len(t) : t[r].challenge = t[q].challenge

TableInv == WellFormed(table) /\ (writer = "component" => TableWritten(table))

LEMMA TableInit == BytecodeInit => TableInv
<1> SUFFICES ASSUME BytecodeInit PROVE TableInv
  OBVIOUS
<1>1. table = <<>> /\ Len(table) = 0 /\ table \in Seq(BytecodeRow)
  BY DEF BytecodeInit
<1>2. MaxTable \in Nat
  BY TableAssumption, ModulusAssumption
<1> QED
  BY <1>1, <1>2 DEF TableInv, WellFormed, TableWritten

LEMMA AnyRowStep == TableInv /\ AnyTableRow => TableInv'
<1> SUFFICES ASSUME TableInv, AnyTableRow PROVE TableInv'
  OBVIOUS
<1>1. writer = "anyone" /\ writer' = "anyone" /\ Len(table) < MaxTable
  BY DEF AnyTableRow
<1> DEFINE last == IF table = <<>> THEN Unused ELSE table[Len(table)]
<1>2. PICK row \in BytecodeRow : table' = Append(table, row) /\ AcceptedAfter(row, last)
  BY AnyRowIsAccepted
<1>3. /\ table \in Seq(BytecodeRow) /\ Len(table) \in Nat
      /\ \A r \in 1..Len(table) : RowMeans(table[r])
      /\ \A r \in 2..Len(table) : Follows(table[r - 1], table[r])
      /\ table # <<>> => table[1].tag = 0
  BY DEF TableInv, WellFormed
<1>4. /\ table' \in Seq(BytecodeRow) /\ Len(table') = Len(table) + 1
      /\ \A r \in 1..Len(table) : table'[r] = table[r]
      /\ table'[Len(table) + 1] = row
  BY <1>2, <1>3
<1>5. RowMeans(row)
  <2> HIDE DEF last
  <2> QED
    BY <1>2, ConstraintsMean DEF AcceptedAfter
<1>6. ASSUME table # <<>> PROVE Follows(table[Len(table)], row)
  <2>1. table[Len(table)] \in BytecodeRow /\ RowMeans(table[Len(table)])
    BY <1>3, <1>6
  <2>2. last = table[Len(table)]
    BY <1>6
  <2> HIDE DEF last
  <2> QED
    BY <1>2, <1>5, <1>6, <2>1, <2>2, NeighboursMean DEF AcceptedAfter
<1>7. MaxTable \in Nat
  BY TableAssumption, ModulusAssumption
<1>8. table'[1].tag = 0
  <2>1. CASE table = <<>>
    <3>1. table'[1] = row
      BY <1>4, <2>1
    <3> QED
      BY <1>2, <2>1, <3>1 DEF AcceptedAfter
  <2>2. CASE table # <<>>
    BY <1>3, <1>4, <2>2
  <2> QED
    BY <2>1, <2>2
<1>9. ASSUME NEW r \in 1..Len(table') PROVE RowMeans(table'[r])
  <2>1. CASE r \in 1..Len(table)
    BY <1>3, <1>4, <2>1
  <2>2. CASE r = Len(table) + 1
    BY <1>4, <1>5, <2>2
  <2> QED
    BY <1>3, <1>4, <2>1, <2>2
<1>10. ASSUME NEW r \in 2..Len(table') PROVE Follows(table'[r - 1], table'[r])
  <2>1. CASE r \in 2..Len(table)
    <3>1. r \in 1..Len(table) /\ r - 1 \in 1..Len(table)
      BY <1>3, <2>1
    <3> QED
      BY <1>3, <1>4, <2>1, <3>1
  <2>2. CASE r = Len(table) + 1
    <3>1. Len(table) \in 1..Len(table) /\ r - 1 = Len(table) /\ table # <<>>
      BY <1>3, <1>4, <2>2
    <3> QED
      BY <1>4, <1>6, <2>2, <3>1
  <2> QED
    BY <1>3, <1>4, <2>1, <2>2
<1>11. WellFormed(table')
  BY <1>1, <1>3, <1>4, <1>7, <1>8, <1>9, <1>10 DEF WellFormed
<1> QED
  BY <1>1, <1>11 DEF TableInv

(* A table with rows appended.                                             *)
LEMMA RowsOfBoth ==
    ASSUME NEW S, NEW s \in Seq(S), NEW t \in Seq(S), NEW both, both = s \o t
    PROVE  /\ both \in Seq(S) /\ Len(both) = Len(s) + Len(t)
           /\ \A r \in 1..Len(s) : both[r] = s[r]
           /\ \A i \in 1..Len(t) : both[Len(s) + i] = t[i]
  OBVIOUS

LEMMA ContractStep ==
    ASSUME TableInv, NEW code \in Codes, NEW hash \in Hash, NEW challenge \in Challenge,
           AssignContract(code, hash, challenge)
    PROVE  TableInv'
<1> DEFINE written == ContractRows(code, hash, challenge)
           n == Len(code)
           k == Len(table)
<1>1. writer = "component" /\ writer' = "component" /\ k + n + 1 <= MaxTable
      /\ (\A r \in DOMAIN table : table[r].challenge = challenge)
      /\ table' = table \o written
  BY DEF AssignContract
<1>2. code \in Seq(Element) /\ n \in Nat /\ \A j \in 1..n : code[j] \in Byte
  <2>1. PICK m \in 0..MaxCode : code \in [1..m -> Byte]
    BY DEF Codes
  <2>2. Byte \subseteq Element
    BY ByteAssumption
  <2> QED
    BY <2>1, <2>2
<1>3. hash \in Element /\ challenge \in Element
  BY ByteAssumption
<1>4. table \in Seq(BytecodeRow) /\ k \in Nat /\ MaxTable \in Nat /\ MaxTable <= Modulus /\ Modulus \in Nat
  BY TableAssumption, ModulusAssumption DEF TableInv, WellFormed
<1>5. n < Modulus
  BY <1>1, <1>2, <1>4
<1>6. /\ written \in Seq(BytecodeRow) /\ Len(written) = n + 1
      /\ \A i \in 1..(n + 1) : RowMeans(written[i]) /\ written[i].challenge = challenge
      /\ written[1].tag = 0 /\ written[n + 1].lengthLeft = 0
      /\ \A i \in 2..(n + 1) :
            /\ written[i].tag = 1 /\ written[i].value = code[i - 1]
            /\ Follows(written[i - 1], written[i])
  BY <1>2, <1>3, <1>5, ContractRowsFollow
<1> HIDE DEF written
<1>7. /\ table' \in Seq(BytecodeRow) /\ Len(table') = k + n + 1
      /\ \A r \in 1..k : table'[r] = table[r]
      /\ \A i \in 1..(n + 1) : table'[k + i] = written[i]
  <2>1. table \in Seq(BytecodeRow) /\ written \in Seq(BytecodeRow) /\ table' = table \o written
    BY <1>1, <1>4, <1>6
  <2>2. /\ table' \in Seq(BytecodeRow) /\ Len(table') = Len(table) + Len(written)
        /\ \A r \in 1..Len(table) : table'[r] = table[r]
        /\ \A i \in 1..Len(written) : table'[Len(table) + i] = written[i]
    BY <2>1, RowsOfBoth
  <2> QED
    BY <1>2, <1>4, <1>6, <2>2
<1>8. \A r \in 1..(k + n + 1) : r \in 1..k \/ (r - k \in 1..(n + 1) /\ k + (r - k) = r)
  BY <1>2, <1>4
<1>9. /\ \A r \in 1..k : RowMeans(table[r])
      /\ \A r \in 2..k : Follows(table[r - 1], table[r])
      /\ table # <<>> => table[1].tag = 0
      /\ k # 0 => table[k].lengthLeft = 0
      /\ \A r \in 1..k : table[r].tag = 1 => table[r].value \in Byte
      /\ \A r \in 1..k : table[r].challenge = challenge
  BY <1>1, <1>4 DEF TableInv, WellFormed, TableWritten
<1> HIDE DEF n, k
<1>10. ASSUME NEW r \in 1..(k + n + 1)
       PROVE  /\ RowMeans(table'[r]) /\ table'[r].challenge = challenge
              /\ table'[r].tag = 1 => table'[r].value \in Byte
  <2>1. CASE r \in 1..k
    BY <1>7, <1>9, <2>1
  <2>2. CASE r \notin 1..k
    <3>1. r - k \in 1..(n + 1) /\ table'[r] = written[r - k]
      BY <1>7, <1>8, <2>2
    <3>2. written[r - k].tag = 1 => written[r - k].value \in Byte
      <4>1. CASE r - k = 1
        BY <1>6, <4>1
      <4>2. CASE r - k # 1
        <5>1. r - k \in 2..(n + 1) /\ (r - k) - 1 \in 1..n
          BY <1>2, <1>4, <3>1, <4>2
        <5> QED
          BY <1>2, <1>6, <5>1
      <4> QED
        BY <4>1, <4>2
    <3> QED
      BY <1>6, <3>1, <3>2
  <2> QED
    BY <2>1, <2>2
<1>11. ASSUME NEW r \in 2..(k + n + 1) PROVE Follows(table'[r - 1], table'[r])
  <2>1. CASE r \in 1..k
    <3>1. r \in 2..k /\ r - 1 \in 1..k
      BY <1>4, <2>1
    <3> QED
      BY <1>7, <1>9, <2>1, <3>1
  <2>2. CASE r = k + 1
    <3>1. 1 \in 1..(n + 1) /\ k \in 1..k /\ r - 1 = k /\ k # 0
      BY <1>2, <1>4, <2>2
    <3>2. table'[r].tag = 0 /\ table'[r - 1].lengthLeft = 0
      BY <1>6, <1>7, <1>9, <2>2, <3>1
    <3> QED
      BY <3>2 DEF Follows
  <2>3. CASE r \notin 1..(k + 1)
    <3>1. r - k \in 2..(n + 1) /\ r - k \in 1..(n + 1) /\ (r - k) - 1 \in 1..(n + 1)
          /\ k + (r - k) = r /\ k + ((r - k) - 1) = r - 1
      BY <1>2, <1>4, <2>3
    <3>2. table'[r] = written[r - k] /\ table'[r - 1] = written[(r - k) - 1]
      BY <1>7, <3>1
    <3> QED
      BY <1>6, <3>1, <3>2
  <2> QED
    BY <1>2, <1>4, <2>1, <2>2, <2>3
<1>12. table'[1].tag = 0
  <2>1. CASE k = 0
    <3>1. 1 \in 1..(n + 1) /\ k + 1 = 1
      BY <1>2, <2>1
    <3> QED
      BY <1>6, <1>7, <3>1
  <2>2. CASE k # 0
    <3>1. 1 \in 1..k /\ table # <<>>
      BY <1>4, <2>2 DEF k
    <3> QED
      BY <1>7, <1>9, <3>1
  <2> QED
    BY <2>1, <2>2
<1>13. table'[k + n + 1].lengthLeft = 0
  <2>1. n + 1 \in 1..(n + 1) /\ k + (n + 1) = k + n + 1
    BY <1>2, <1>4
  <2> QED
    BY <1>6, <1>7, <2>1
<1>14. WellFormed(table')
  BY <1>1, <1>7, <1>10, <1>11, <1>12 DEF WellFormed
<1>15. TableWritten(table')
  BY <1>7, <1>10, <1>13 DEF TableWritten
<1> QED
  BY <1>14, <1>15 DEF TableInv

LEMMA TableIsWellFormed == BytecodeSpec => []TableInv
<1>1. BytecodeInit => TableInv
  BY TableInit
<1>2. TableInv /\ [BytecodeNext]_bytecodeVars => TableInv'
  <2> SUFFICES ASSUME TableInv, [BytecodeNext]_bytecodeVars PROVE TableInv'
    OBVIOUS
  <2>1. ASSUME NEW code \in Codes, NEW hash \in Hash, NEW challenge \in Challenge,
               AssignContract(code, hash, challenge)
        PROVE  TableInv'
    BY <2>1, ContractStep
  <2>2. CASE AnyTableRow
    BY <2>2, AnyRowStep
  <2>3. CASE UNCHANGED bytecodeVars
    BY <2>3 DEF bytecodeVars, TableInv, WellFormed, TableWritten
  <2> QED
    BY <2>1, <2>2, <2>3 DEF BytecodeNext
<1> QED
  BY <1>1, <1>2, PTL DEF BytecodeSpec

-----------------------------------------------------------------------------
(* What a well-formed table holds                                          *)

(* Rows that agree in all columns but two, or in all.                      *)
LEMMA SameRow ==
    ASSUME NEW x \in BytecodeRow, NEW y \in BytecodeRow, x.tag = y.tag, x.index = y.index,
           x.value = y.value, x.lengthLeft = y.lengthLeft, x.hash = y.hash, x.rlc = y.rlc,
           x.challenge = y.challenge
    PROVE  /\ x.isOpcode = y.isOpcode /\ x.pushSize = y.pushSize => x = y
           /\ \A f \in DOMAIN y \ {"isOpcode", "pushSize"} : x[f] = y[f]
<1>1. ASSUME x.isOpcode = y.isOpcode, x.pushSize = y.pushSize PROVE x = y
  BY <1>1 DEF BytecodeRow
<1>2. \A f \in DOMAIN y \ {"isOpcode", "pushSize"} : x[f] = y[f]
  <2>1. DOMAIN y = Columns
    BY DEF BytecodeRow, Columns
  <2> QED
    BY <2>1 DEF Columns
<1> QED
  BY <1>1, <1>2

(* The bytes of a contract, one by one.                                    *)
LEMMA ContractBytes ==
    ASSUME TableInv, NEW c \in Contracts
    PROVE  LET n == c[2] - c[1] - 1 IN
           /\ c[1] \in 1..Len(table) /\ n \in Nat /\ n >= 1 /\ n < Modulus
           /\ CodeOf(c) \in Seq(Element) /\ Len(CodeOf(c)) = n
           /\ \A j \in 0..n : c[1] + j \in 1..Len(table) /\ table[c[1] + j] \in BytecodeRow
                              /\ RowMeans(table[c[1] + j])
           /\ \A j \in 1..n : /\ table[c[1] + j].tag = 1 /\ CodeOf(c)[j] = table[c[1] + j].value
                              /\ ByteFollows(table[c[1] + (j - 1)], table[c[1] + j])
           /\ table[c[1]].tag = 0 /\ table[c[1] + n].lengthLeft = 0
<1> DEFINE a == c[1]
           b == c[2]
           n == b - a - 1
<1>1. /\ table \in Seq(BytecodeRow) /\ Len(table) \in Nat /\ Len(table) <= MaxTable
      /\ \A r \in 1..Len(table) : RowMeans(table[r]) /\ table[r] \in BytecodeRow
      /\ \A r \in 2..Len(table) : Follows(table[r - 1], table[r])
  BY DEF TableInv, WellFormed
<1>2. /\ a \in 1..Len(table) /\ b \in 1..Len(table) /\ a + 1 < b
      /\ table[a].tag = 0 /\ table[b].tag = 0
      /\ \A r \in (a + 1)..(b - 1) : table[r].tag # 0
  BY <1>1 DEF Contracts, Header
<1>3. CodeOf(c) = [j \in 1..n |-> table[a + j].value]
  BY DEF CodeOf
<1>4. Modulus \in Nat /\ MaxTable \in Nat /\ MaxTable <= Modulus
  BY TableAssumption, ModulusAssumption
<1> HIDE DEF a, b
<1>5. a \in Nat /\ a >= 1 /\ b \in Nat /\ b <= Len(table) /\ Len(table) \in Nat /\ Len(table) <= Modulus
  <2>1. Len(table) \in Nat /\ Len(table) <= MaxTable
    BY <1>1
  <2>2. a \in 1..Len(table) /\ b \in 1..Len(table)
    BY <1>2
  <2> QED
    BY <1>4, <2>1, <2>2
<1>6. a + 1 < b
  BY <1>2
<1>7. n \in Nat /\ n >= 1 /\ n < Modulus /\ b = a + n + 1
  BY <1>4, <1>5, <1>6
<1> HIDE DEF n
<1>8. ASSUME NEW j \in 0..n PROVE a + j \in 1..Len(table)
  BY <1>7, <1>5
<1>9. ASSUME NEW j \in 1..n
      PROVE  /\ table[a + j].tag = 1
             /\ ByteFollows(table[a + (j - 1)], table[a + j])
  <2>1. a + j \in 2..Len(table) /\ a + j \in 1..Len(table) /\ a + (j - 1) = (a + j) - 1 /\ a + j \in (a + 1)..(b - 1)
    BY <1>7, <1>5
  <2>2. table[a + j].tag = 1
    BY <1>1, <1>2, <2>1 DEF RowMeans
  <2> QED
    BY <1>1, <2>1, <2>2 DEF Follows
<1>10. table[a + n].lengthLeft = 0
  <2>1. b \in 2..Len(table) /\ b - 1 = a + n /\ n \in 1..n
    BY <1>7, <1>5
  <2>2. table[a + n].tag = 1
    BY <1>9, <2>1
  <2> QED
    BY <1>1, <1>2, <2>1, <2>2 DEF Follows
<1>11. \A j \in 1..n : table[a + j].value \in Element
  <2>1. ASSUME NEW j \in 1..n PROVE table[a + j].value \in Element
    <3>1. table[a + j] \in BytecodeRow
      BY <1>1, <1>7, <1>8
    <3> QED
      BY <3>1 DEF BytecodeRow
  <2> QED
    BY <2>1
<1>12. CodeOf(c) \in Seq(Element) /\ Len(CodeOf(c)) = n /\ \A j \in 1..n : CodeOf(c)[j] = table[a + j].value
  <2>1. CodeOf(c) \in [1..n -> Element]
    BY <1>3, <1>11
  <2> QED
    BY <1>3, <1>7, <2>1
<1> QED
  BY <1>1, <1>2, <1>7, <1>8, <1>9, <1>10, <1>12 DEF a, b, n

(* The columns that do not depend on which bytes are opcodes.              *)
LEMMA ContractColumns ==
    ASSUME TableInv, NEW c \in Contracts, NEW j \in 0..(c[2] - c[1] - 1)
    PROVE  LET code == CodeOf(c)
               header == table[c[1]]
               row == table[c[1] + j]
           IN /\ row.tag = IF j = 0 THEN 0 ELSE 1
              /\ row.index = IF j = 0 THEN 0 ELSE j - 1
              /\ row.value = IF j = 0 THEN Len(code) ELSE code[j]
              /\ row.lengthLeft = Len(code) - j
              /\ row.hash = header.hash /\ row.challenge = header.challenge
              /\ row.rlc = Rlc(code, header.challenge)[j]
<1> DEFINE n == c[2] - c[1] - 1
           a == c[1]
           code == CodeOf(c)
           Row(i) == table[a + i]
           L == table[a].lengthLeft
           Same(i) ==
             /\ Row(i).index = IF i = 0 THEN 0 ELSE i - 1
             /\ Row(i).lengthLeft = M(L - i)
             /\ Row(i).hash = table[a].hash /\ Row(i).challenge = table[a].challenge
             /\ Row(i).rlc = Rlc(code, table[a].challenge)[i]
           P == {i \in 0..n : Same(i)}
<1>1. /\ a \in 1..Len(table) /\ n \in Nat /\ n >= 1 /\ n < Modulus
      /\ code \in Seq(Element) /\ Len(code) = n
      /\ \A i \in 0..n : a + i \in 1..Len(table) /\ Row(i) \in BytecodeRow /\ RowMeans(Row(i))
      /\ \A i \in 1..n : Row(i).tag = 1 /\ code[i] = Row(i).value /\ ByteFollows(Row(i - 1), Row(i))
      /\ table[a].tag = 0 /\ Row(n).lengthLeft = 0
  BY ContractBytes
<1>2. j \in 0..n
  OBVIOUS
<1> HIDE DEF n, code, a
<1>3. Row(0) = table[a]
  <2>1. a + 0 = a
    BY <1>1
  <2> QED
    BY <2>1
<1>4. 0 \in 0..n /\ n \in 0..n /\ \A i \in 1..n : i \in 0..n /\ i - 1 \in 0..n /\ i # 0
  BY <1>1
<1>5. /\ table[a] \in BytecodeRow /\ table[a].index = 0 /\ table[a].rlc = 0
      /\ table[a].value = L
  BY <1>1, <1>3, <1>4 DEF RowMeans
<1>6. L \in Element /\ table[a].challenge \in Element
  BY <1>5 DEF BytecodeRow
<1>7. /\ Modulus \in Nat \ {0} /\ Element = 0..(Modulus - 1)
      /\ \A x \in Element : x \in Int /\ M(x) = x
  BY ModulusFacts
<1> HIDE DEF Row, L
<1>8. Same(0)
  <2>1. L - 0 = L /\ M(L) = L
    BY <1>6, <1>7
  <2>2. Rlc(code, table[a].challenge)[0] = 0
    BY <1>1, <1>6, RlcCounts
  <2> QED
    BY <1>3, <1>5, <2>1, <2>2 DEF L
<1>9. ASSUME NEW i \in 1..n, Same(i - 1) PROVE Same(i)
  <2>1. ByteFollows(Row(i - 1), Row(i)) /\ code[i] = Row(i).value
    BY <1>1
  <2>2. i - 1 \in 0..n /\ i \in Int
    BY <1>4
  <2>3. Row(i - 1).tag = IF i = 1 THEN 0 ELSE 1
    <3>1. CASE i = 1
      BY <1>1, <1>3, <3>1
    <3>2. CASE i # 1
      <4>1. i - 1 \in 1..n
        BY <1>1, <3>2
      <4> QED
        BY <1>1, <3>2, <4>1
    <3> QED
      BY <3>1, <3>2
  <2>4. Row(i).index = i - 1
    <3>1. CASE i = 1
      BY <2>1, <2>3, <3>1 DEF ByteFollows
    <3>2. CASE i # 1
      <4>1. Row(i - 1).index = i - 2 /\ (i - 2) + 1 = i - 1 /\ i - 1 \in Element
        BY <1>1, <1>7, <1>9, <3>2
      <4>2. Row(i).index = M(Row(i - 1).index + 1)
        BY <2>1, <2>3, <3>2 DEF ByteFollows
      <4> QED
        BY <1>7, <4>1, <4>2
    <3> QED
      BY <3>1, <3>2
  <2>5. Row(i).lengthLeft = M(L - i)
    <3>1. Row(i).lengthLeft = M(Row(i - 1).lengthLeft - 1) /\ Row(i - 1).lengthLeft = M(L - (i - 1))
      BY <1>9, <2>1 DEF ByteFollows
    <3>2. PICK x \in Int, y \in Int : x = L - (i - 1) /\ y = -1
      BY <1>6, <1>7, <2>2
    <3>3. (x + y) % Modulus = ((x % Modulus) + y) % Modulus
      BY <1>7, SumOfRemainder
    <3>4. x + y = L - i
      BY <1>6, <1>7, <2>2, <3>2
    <3>5. x % Modulus \in Int
      BY <1>7
    <3>6. (x % Modulus) + y = (x % Modulus) - 1
      BY <3>2, <3>5
    <3> QED
      BY <3>1, <3>2, <3>3, <3>4, <3>6 DEF M
  <2>6. Row(i).hash = table[a].hash /\ Row(i).challenge = table[a].challenge
    BY <1>9, <2>1 DEF ByteFollows
  <2>7. Row(i).rlc = Rlc(code, table[a].challenge)[i]
    <3>1. Row(i).rlc = M(Row(i - 1).rlc * Row(i - 1).challenge + Row(i).value)
      BY <2>1 DEF ByteFollows
    <3>2. Row(i - 1).rlc = Rlc(code, table[a].challenge)[i - 1] /\ Row(i - 1).challenge = table[a].challenge
      BY <1>9
    <3>3. Rlc(code, table[a].challenge)[i]
            = M(Rlc(code, table[a].challenge)[i - 1] * table[a].challenge + code[i])
      BY <1>1, <1>6, RlcCounts
    <3> QED
      BY <2>1, <3>1, <3>2, <3>3
  <2> QED
    BY <1>4, <2>4, <2>5, <2>6, <2>7
<1>10. \A i \in 0..n : Same(i)
  <2> HIDE DEF Same
  <2>1. 0 \in P /\ \A i \in 1..n : i - 1 \in P => i \in P
    BY <1>4, <1>8, <1>9
  <2> HIDE DEF P
  <2>2. \A i \in 0..n : i \in P
    BY <1>1, <2>1, CountingUp
  <2> QED
    BY <2>2 DEF P
<1>11. L = n
  <2>1. M(L - n) = 0
    BY <1>1, <1>4, <1>10 DEF Row
  <2>2. n \in Element
    BY <1>1, <1>7
  <2> QED
    BY <1>6, <2>1, <2>2, DifferenceVanishes
<1>12. Row(j).lengthLeft = n - j
  <2>1. n - j \in Element
    BY <1>1, <1>2, <1>7
  <2> QED
    BY <1>2, <1>7, <1>10, <1>11, <2>1
<1>13. Row(j).tag = (IF j = 0 THEN 0 ELSE 1) /\ Row(j).value = IF j = 0 THEN n ELSE code[j]
  <2>1. CASE j = 0
    BY <1>1, <1>3, <1>5, <1>11, <2>1
  <2>2. CASE j # 0
    <3>1. j \in 1..n
      BY <1>1, <1>2, <2>2
    <3> QED
      BY <1>1, <2>2, <3>1
  <2> QED
    BY <2>1, <2>2
<1> QED
  BY <1>1, <1>2, <1>10, <1>12, <1>13 DEF Row, a, code

(* Which bytes are opcodes and how much push data is left: as written up   *)
(* to a byte of data after no push, and no opcode from there on, where the *)
(* push size counts down from Modulus.                                     *)
LEMMA ContractOpcodes ==
    ASSUME TableInv, NEW c \in Contracts, NEW j \in 0..(c[2] - c[1] - 1)
    PROVE  LET code == CodeOf(c)
               row == table[c[1] + j]
               out == \E k \in (c[1] + 1)..(c[1] + j) : OutOfPush(k)
           IN /\ out => row.isOpcode = 0
              /\ ~out => /\ row.isOpcode = IF IsOpcode(code, j) THEN 1 ELSE 0
                         /\ row.pushSize = PushLeft(code)[j]
<1> DEFINE n == c[2] - c[1] - 1
           a == c[1]
           code == CodeOf(c)
           Row(i) == table[a + i]
           Out(i) == \E k \in (a + 1)..(a + i) : OutOfPush(k)
           AsOut(i) == Row(i).isOpcode = 0 /\ \E m \in 1..i : Row(i).pushSize = Modulus - m
           AsWritten(i) == /\ Row(i).isOpcode = IF IsOpcode(code, i) THEN 1 ELSE 0
                           /\ Row(i).pushSize = PushLeft(code)[i]
           Good(i) == (Out(i) => AsOut(i)) /\ (~Out(i) => AsWritten(i))
           P == {i \in 0..n : Good(i)}
<1>1. /\ a \in 1..Len(table) /\ n \in Nat /\ n >= 1 /\ n < Modulus
      /\ code \in Seq(Element) /\ Len(code) = n
      /\ \A i \in 0..n : a + i \in 1..Len(table) /\ Row(i) \in BytecodeRow /\ RowMeans(Row(i))
      /\ \A i \in 1..n : Row(i).tag = 1 /\ code[i] = Row(i).value /\ ByteFollows(Row(i - 1), Row(i))
      /\ table[a].tag = 0
  BY ContractBytes
<1>2. j \in 0..n
  OBVIOUS
<1> HIDE DEF n, code, a
<1>3. Row(0) = table[a] /\ a \in Int
  <2>1. a + 0 = a /\ a \in Int
    BY <1>1
  <2> QED
    BY <2>1
<1>4. 0 \in 0..n /\ 1 \in 1..n /\ \A i \in 1..n : i \in 0..n /\ i - 1 \in 0..n /\ i # 0
  BY <1>1
<1>5. /\ Modulus \in Nat \ {0} /\ Element = 0..(Modulus - 1)
      /\ \A x \in Element : x \in Int /\ M(x) = x
  BY ModulusFacts
<1>6. /\ PushLeft(code)[0] = 0
      /\ \A i \in 1..n : /\ PushLeft(code)[i - 1] \in Element
                         /\ PushLeft(code)[i] = IF PushLeft(code)[i - 1] = 0 THEN PushesOf(code[i])
                                                ELSE PushLeft(code)[i - 1] - 1
  <2>1. /\ PushLeft(code) \in [0..n -> Element] /\ PushLeft(code)[0] = 0
        /\ \A i \in 1..n : PushLeft(code)[i] = IF PushLeft(code)[i - 1] = 0 THEN PushesOf(code[i])
                                                ELSE PushLeft(code)[i - 1] - 1
    BY <1>1, PushLeftCounts
  <2>2. \A i \in 1..n : i - 1 \in 0..n
    BY <1>4
  <2> HIDE DEF PushLeft
  <2>3. \A i \in 1..n : PushLeft(code)[i - 1] \in Element
    BY <2>1, <2>2
  <2> QED
    BY <2>1, <2>3
<1>7. M(0 - 1) = Modulus - 1
  <2>1. 0 - 1 = Modulus * (-1) + (Modulus - 1) /\ Modulus - 1 \in 0..(Modulus - 1) /\ 0 - 1 \in Int
    BY <1>5
  <2> QED
    BY <1>5, <2>1, RemainderIsUnique DEF M
<1>8. \A i \in 0..n : Row(i).isOpcode \in {0, 1} /\ (Row(i).isOpcode = 1 => Row(i).pushSize = PushesOf(Row(i).value))
  BY <1>1 DEF RowMeans
<1>9. ASSUME NEW i \in 1..n
      PROVE  /\ OutOfPush(a + i) <=> Row(i).isOpcode = 0 /\ Row(i - 1).pushSize = 0
             /\ Out(i) <=> Out(i - 1) \/ OutOfPush(a + i)
  <2>1. a + i > 1 /\ a + (i - 1) = (a + i) - 1 /\ i \in Int
    BY <1>1, <1>3
  <2>2. table[(a + i) - 1] = Row(i - 1)
    BY <2>1
  <2>3. OutOfPush(a + i) <=> Row(i).isOpcode = 0 /\ Row(i - 1).pushSize = 0
    BY <1>1, <2>1, <2>2 DEF OutOfPush
  <2>4. \A k : k \in (a + 1)..(a + i) <=> k \in (a + 1)..(a + (i - 1)) \/ k = a + i
    BY <1>3, <2>1
  <2> QED
    BY <2>3, <2>4
<1>10. ~Out(0)
  BY <1>3
<1> HIDE DEF Out
<1>11. Good(0)
  <2>1. Row(0).isOpcode = 0
    BY <1>1, <1>3, <1>4 DEF RowMeans
  <2>2. Row(0).pushSize = 0
    <3>1. ByteFollows(Row(1 - 1), Row(1))
      BY <1>1, <1>4
    <3>2. 1 - 1 = 0
      OBVIOUS
    <3> HIDE DEF Row
    <3>3. ByteFollows(Row(0), Row(1))
      BY <3>1, <3>2
    <3> QED
      BY <1>1, <1>3, <3>3 DEF ByteFollows
  <2>3. ~ IsOpcode(code, 0)
    BY DEF IsOpcode
  <2> HIDE DEF Row
  <2> QED
    BY <1>6, <1>10, <2>1, <2>2, <2>3
<1> HIDE DEF Row
<1>12. ASSUME NEW i \in 1..n, Good(i - 1) PROVE Good(i)
  <2>1. ByteFollows(Row(i - 1), Row(i)) /\ code[i] = Row(i).value /\ Row(i).isOpcode \in {0, 1}
    BY <1>1, <1>4, <1>8
  <2>2. /\ Row(i).isOpcode = 1 => Row(i - 1).pushSize = 0 /\ Row(i).pushSize = PushesOf(code[i])
        /\ Row(i).isOpcode = 0 => Row(i).pushSize = M(Row(i - 1).pushSize - 1)
    BY <1>4, <1>8, <2>1 DEF ByteFollows
  <2>3. i \in Nat /\ i <= n /\ i >= 1 /\ n \in Nat
    BY <1>1
  <2>4. CASE Out(i - 1)
    <3>1. PICK m \in 1..(i - 1) : Row(i - 1).pushSize = Modulus - m
      BY <1>12, <2>4
    <3>2. m \in Int /\ m >= 1 /\ m + 1 <= n /\ m + 1 \in 1..i
      BY <2>3
    <3>3. Modulus - m # 0 /\ (Modulus - m) - 1 = Modulus - (m + 1) /\ Modulus - (m + 1) \in Element
      BY <1>1, <1>5, <3>2
    <3>4. Row(i).isOpcode = 0
      BY <2>1, <2>2, <3>1, <3>3
    <3>5. Row(i).pushSize = Modulus - (m + 1)
      BY <1>5, <2>2, <3>1, <3>3, <3>4
    <3>6. Out(i)
      BY <1>9, <2>4
    <3> QED
      BY <3>2, <3>4, <3>5, <3>6
  <2>5. CASE ~Out(i - 1) /\ Row(i).isOpcode = 1
    <3>1. Row(i - 1).pushSize = PushLeft(code)[i - 1] /\ Row(i - 1).pushSize = 0
      BY <1>12, <2>2, <2>5
    <3>2. IsOpcode(code, i)
      BY <2>3, <3>1 DEF IsOpcode
    <3>3. Row(i).pushSize = PushLeft(code)[i]
      BY <1>6, <2>2, <2>5, <3>1
    <3>4. ~Out(i)
      BY <1>9, <2>5
    <3> QED
      BY <2>5, <3>2, <3>3, <3>4
  <2>6. CASE ~Out(i - 1) /\ Row(i).isOpcode = 0
    <3>1. Row(i - 1).pushSize = PushLeft(code)[i - 1]
      BY <1>12, <2>6
    <3>2. CASE Row(i - 1).pushSize = 0
      <4>1. Row(i).pushSize = Modulus - 1 /\ 1 \in 1..i
        BY <1>7, <2>2, <2>3, <2>6, <3>2
      <4>2. Out(i)
        BY <1>9, <2>6, <3>2
      <4> QED
        BY <2>6, <4>1, <4>2
    <3>3. CASE Row(i - 1).pushSize # 0
      <4>1. PushLeft(code)[i - 1] - 1 \in Element
        BY <1>6, <3>1, <3>3, OneLessIsElement
      <4>2. Row(i).pushSize = PushLeft(code)[i]
        BY <1>5, <1>6, <2>2, <2>6, <3>1, <3>3, <4>1
      <4>3. ~ IsOpcode(code, i)
        BY <3>1, <3>3 DEF IsOpcode
      <4>4. ~Out(i)
        BY <1>9, <2>6, <3>3
      <4> QED
        BY <2>6, <4>2, <4>3, <4>4
    <3> QED
      BY <3>2, <3>3
  <2> QED
    BY <2>1, <2>4, <2>5, <2>6
<1>13. \A i \in 0..n : Good(i)
  <2> HIDE DEF Good
  <2>1. 0 \in P /\ \A i \in 1..n : i - 1 \in P => i \in P
    BY <1>4, <1>11, <1>12
  <2> HIDE DEF P
  <2>2. \A i \in 0..n : i \in P
    BY <1>1, <2>1, CountingUp
  <2> QED
    BY <2>2 DEF P
<1>14. (Out(j) => Row(j).isOpcode = 0) /\ (~Out(j) => AsWritten(j))
  BY <1>2, <1>13
<1> QED
  BY <1>14 DEF Out, Row, a, code

LEMMA ContractsMean == TableInv => ContractsAreAssigned
<1> SUFFICES ASSUME TableInv, NEW c \in Contracts,
                    NEW i \in DOMAIN ContractRows(CodeOf(c), table[c[1]].hash, table[c[1]].challenge)
             PROVE  LET r == c[1] + i - 1
                        written == ContractRows(CodeOf(c), table[c[1]].hash, table[c[1]].challenge)[i]
                    IN IF \E k \in (c[1] + 1)..r : OutOfPush(k)
                       THEN /\ table[r].isOpcode = 0
                            /\ \A f \in DOMAIN written \ {"isOpcode", "pushSize"} : table[r][f] = written[f]
                       ELSE table[r] = written
  BY DEF ContractsAreAssigned
<1> DEFINE code == CodeOf(c)
           header == table[c[1]]
           written == ContractRows(code, header.hash, header.challenge)[i]
           n == c[2] - c[1] - 1
           j == i - 1
           row == table[c[1] + j]
           out == \E k \in (c[1] + 1)..(c[1] + j) : OutOfPush(k)
<1>1. /\ c[1] \in 1..Len(table) /\ n \in Nat /\ n < Modulus
      /\ code \in Seq(Element) /\ Len(code) = n
      /\ \A m \in 0..n : table[c[1] + m] \in BytecodeRow
  BY ContractBytes
<1>2. i \in 1..(n + 1)
  BY <1>1 DEF ContractRows
<1>3. j \in 0..n /\ j + 1 = i /\ c[1] + i - 1 = c[1] + j /\ c[1] + 0 = c[1] /\ 0 \in 0..n
  BY <1>1, <1>2
<1>4. row \in BytecodeRow /\ header \in BytecodeRow
  BY <1>1, <1>3
<1>5. header.hash \in Element /\ header.challenge \in Element
  BY <1>4 DEF BytecodeRow
<1>6. /\ row.tag = IF j = 0 THEN 0 ELSE 1
      /\ row.index = IF j = 0 THEN 0 ELSE j - 1
      /\ row.value = IF j = 0 THEN Len(code) ELSE code[j]
      /\ row.lengthLeft = Len(code) - j
      /\ row.hash = header.hash /\ row.challenge = header.challenge
      /\ row.rlc = Rlc(code, header.challenge)[j]
  BY <1>3, ContractColumns
<1>7. /\ out => row.isOpcode = 0
      /\ ~out => row.isOpcode = (IF IsOpcode(code, j) THEN 1 ELSE 0) /\ row.pushSize = PushLeft(code)[j]
  BY <1>3, ContractOpcodes
<1>8. /\ written \in BytecodeRow
      /\ written.tag = IF j = 0 THEN 0 ELSE 1
      /\ written.index = IF j = 0 THEN 0 ELSE j - 1
      /\ written.value = IF j = 0 THEN Len(code) ELSE code[j]
      /\ written.isOpcode = IF IsOpcode(code, j) THEN 1 ELSE 0
      /\ written.pushSize = PushLeft(code)[j]
      /\ written.lengthLeft = Len(code) - j
      /\ written.hash = header.hash /\ written.challenge = header.challenge
      /\ written.rlc = Rlc(code, header.challenge)[j]
  <2>1. j \in 0..Len(code) /\ Len(code) < Modulus
    BY <1>1, <1>3
  <2>2. written = ContractRows(code, header.hash, header.challenge)[j + 1]
    BY <1>3
  <2>3. PICK w : w = ContractRows(code, header.hash, header.challenge)[j + 1]
    OBVIOUS
  <2>4. code \in Seq(Element)
    BY <1>1
  <2> HIDE DEF j, code, header, written
  <2>5. /\ w \in BytecodeRow
        /\ w.tag = IF j = 0 THEN 0 ELSE 1
        /\ w.index = IF j = 0 THEN 0 ELSE j - 1
        /\ w.value = IF j = 0 THEN Len(code) ELSE code[j]
        /\ w.isOpcode = IF IsOpcode(code, j) THEN 1 ELSE 0
        /\ w.pushSize = PushLeft(code)[j]
        /\ w.lengthLeft = Len(code) - j
        /\ w.hash = header.hash /\ w.challenge = header.challenge
        /\ w.rlc = Rlc(code, header.challenge)[j]
    BY <1>5, <2>1, <2>3, <2>4, ContractRowFields
  <2> QED
    BY <2>2, <2>3, <2>5
<1> HIDE DEF row, written, out, code, header, j
<1>9. /\ row.isOpcode = written.isOpcode /\ row.pushSize = written.pushSize => row = written
      /\ \A f \in DOMAIN written \ {"isOpcode", "pushSize"} : row[f] = written[f]
  BY <1>4, <1>6, <1>8, SameRow
<1>10. IF out THEN /\ row.isOpcode = 0
                   /\ \A f \in DOMAIN written \ {"isOpcode", "pushSize"} : row[f] = written[f]
       ELSE row = written
  <2>1. CASE out
    BY <1>7, <1>9, <2>1
  <2>2. CASE ~out
    BY <1>7, <1>8, <1>9, <2>2
  <2> QED
    BY <2>1, <2>2
<1> QED
  BY <1>3, <1>10 DEF row, written, out, code, header

(* What the constraints accept as a contract, from whoever wrote it, is    *)
(* what generate_assignments writes for its bytes, but for bytes taken for *)
(* data after no push: in every field, for every set of opcodes and push   *)
(* sizes and any number and length of contracts.                           *)
THEOREM OnlyContractsAreAccepted == BytecodeSpec => []ContractsAreAssigned
<1>1. BytecodeSpec => []TableInv
  BY TableIsWellFormed
<1>2. TableInv => ContractsAreAssigned
  BY ContractsMean
<1> QED
  BY <1>1, <1>2, PTL

-----------------------------------------------------------------------------
(* What the component writes is accepted                                   *)

LEMMA ProductVanishes ==
    ASSUME NEW a \in Int, NEW b \in Int, a = 0 \/ b = 0
    PROVE  M(a * b) = 0
<1>1. a * b = 0
  OBVIOUS
<1>2. M(0) = 0
  BY ModulusFacts
<1> QED
  BY <1>1, <1>2

LEMMA DifferenceOfRemainder ==
    ASSUME NEW y \in Int, NEW d \in Int, d = M(y) - y \/ d = y - M(y)
    PROVE  M(d) = 0
<1>1. Modulus \in Nat \ {0}
  BY ModulusFacts
<1>2. PICK q \in Int, r \in 0..(Modulus - 1) : y = Modulus * q + r /\ y % Modulus = r
  BY <1>1, Divided
<1>3. PICK s \in Int : s = Modulus * q
  BY <1>1, <1>2
<1>4. 0 \in 0..(Modulus - 1)
  BY <1>1
<1>5. s % Modulus = 0
  <2>1. s = Modulus * q + 0
    BY <1>3
  <2> QED
    BY <1>1, <1>2, <1>4, <2>1, RemainderIsUnique
<1>6. M(y) = r
  BY <1>2 DEF M
<1>7. d = s \/ d + s = 0
  BY <1>1, <1>2, <1>3, <1>6
<1>8. ASSUME s + d = 0 PROVE d % Modulus = 0
  BY <1>1, <1>3, <1>5, <1>8, NegatedZero
<1> QED
  BY <1>5, <1>7, <1>8 DEF M

LEMMA BitVanishes ==
    ASSUME NEW b \in {0, 1}
    PROVE  M(b * (b - 1)) = 0
<1>1. b * (b - 1) = 0
  OBVIOUS
<1>2. M(0) = 0
  BY ModulusFacts
<1> QED
  BY <1>1, <1>2

(* The converse of ConstraintsMean and NeighboursMean: rows that mean what *)
(* they must satisfy every constraint, so that only the lookups are left.  *)
LEMMA MeantIsAccepted ==
    ASSUME NEW prev \in BytecodeRow, NEW row \in BytecodeRow, NEW next \in BytecodeRow,
           RowMeans(prev), RowMeans(row), RowMeans(next), Follows(prev, row), Follows(row, next),
           prev.tag = 1 /\ next.tag = 1 => row.challenge = prev.challenge
    PROVE  RowAccepted(prev, row, next) <=> LookupsHold(row)
<1>1. \A x \in Element : x \in Int
  BY ModulusFacts
<1>2. /\ row.index \in Int /\ row.lengthLeft \in Int /\ row.value \in Int /\ row.tag \in Int
      /\ row.hash \in Int /\ row.rlc \in Int /\ row.challenge \in Int /\ row.pushSize \in Int /\ row.isOpcode \in Int
      /\ prev.rlc \in Int /\ prev.challenge \in Int /\ prev.tag \in Int
      /\ next.index \in Int /\ next.lengthLeft \in Int /\ next.hash \in Int /\ next.pushSize \in Int
      /\ next.tag \in Int /\ next.isOpcode \in Int
  BY <1>1 DEF BytecodeRow
<1>3. /\ row.tag \in {0, 1} /\ prev.tag \in {0, 1} /\ next.tag \in {0, 1}
      /\ row.isOpcode \in {0, 1} /\ next.isOpcode \in {0, 1}
      /\ next.tag = 0 => next.index = 0 /\ next.isOpcode = 0
      /\ row.tag = 0 => row.index = 0 /\ row.lengthLeft = row.value /\ row.isOpcode = 0 /\ row.rlc = 0
  BY DEF RowMeans
<1>4. row.tag = 1 => /\ row.challenge = prev.challenge
                     /\ row.rlc = M(prev.rlc * prev.challenge + row.value)
  BY DEF Follows, ByteFollows
<1>5. next.tag = 1 =>
        /\ next.index = IF row.tag = 0 THEN 0 ELSE M(row.index + 1)
        /\ next.lengthLeft = M(row.lengthLeft - 1) /\ next.hash = row.hash
        /\ row.tag = 0 => next.isOpcode = 1
        /\ next.isOpcode = 1 => row.pushSize = 0
        /\ next.isOpcode = 0 => next.pushSize = M(row.pushSize - 1)
  BY DEF Follows, ByteFollows
<1>6. row.tag = 1 /\ next.tag = 0 => row.lengthLeft = 0
  BY DEF Follows
<1>7. TagHolds(row)
  BY <1>3, BitVanishes DEF TagHolds
<1>8. IndexHolds(row)
  <2>1. row.tag - 1 \in Int /\ (row.tag - 1 = 0 \/ row.index = 0)
    BY <1>3
  <2> QED
    BY <1>2, <2>1, ProductVanishes DEF IndexHolds
<1>9. LengthHolds(row)
  <2>1. row.tag - 1 \in Int /\ row.lengthLeft - row.value \in Int
        /\ (row.tag - 1 = 0 \/ row.lengthLeft - row.value = 0)
    BY <1>2, <1>3
  <2> QED
    BY <2>1, ProductVanishes DEF LengthHolds
<1>10. OpcodeHolds(row)
  <2>1. row.tag - 1 \in Int /\ (row.tag - 1 = 0 \/ row.isOpcode = 0)
    BY <1>3
  <2> QED
    BY <1>2, <1>3, <2>1, BitVanishes, ProductVanishes DEF OpcodeHolds
<1>11. RlcHolds(prev, row)
  <2>1. M((row.tag - 1) * row.rlc) = 0
    <3>1. row.tag - 1 \in Int /\ (row.tag - 1 = 0 \/ row.rlc = 0)
      BY <1>3
    <3> QED
      BY <1>2, <3>1, ProductVanishes
  <2>2. M(row.tag * (row.challenge - prev.challenge)) = 0
    <3>1. row.challenge - prev.challenge \in Int /\ (row.tag = 0 \/ row.challenge - prev.challenge = 0)
      BY <1>2, <1>3, <1>4
    <3> QED
      BY <1>2, <3>1, ProductVanishes
  <2>3. M(row.tag * (row.rlc - prev.rlc * row.challenge - row.value)) = 0
    <3>1. PICK u \in Int : u = prev.rlc * row.challenge
      BY <1>2
    <3>2. PICK d \in Int : d = row.rlc - u - row.value
      BY <1>2
    <3>3. CASE row.tag = 0
      BY <1>2, <3>1, <3>2, <3>3, ProductVanishes
    <3>4. CASE row.tag = 1
      <4>1. PICK y \in Int : y = u + row.value
        BY <1>2
      <4>2. row.rlc = M(y) /\ d = row.rlc - y
        BY <1>2, <1>4, <3>1, <3>2, <3>4, <4>1
      <4>3. M(d) = 0 /\ 1 * d = d
        BY <4>2, DifferenceOfRemainder
      <4> QED
        BY <3>1, <3>2, <3>4, <4>3
    <3> QED
      BY <1>3, <3>3, <3>4
  <2> QED
    BY <2>1, <2>2, <2>3 DEF RlcHolds
<1>12. IndexFollows(row, next)
  <2>1. M((row.tag - 1) * next.index) = 0
    <3>1. row.tag - 1 \in Int /\ (row.tag - 1 = 0 \/ next.index = 0)
      BY <1>3, <1>5
    <3> QED
      BY <1>2, <3>1, ProductVanishes
  <2>2. M(row.tag * next.tag * (next.index - row.index - 1)) = 0
    <3>1. PICK d \in Int : d = next.index - row.index - 1
      BY <1>2
    <3>2. CASE row.tag = 0 \/ next.tag = 0
      <4>1. row.tag * next.tag = 0
        BY <1>3, <3>2
      <4> QED
        BY <3>1, <4>1, ProductVanishes
    <3>3. CASE row.tag = 1 /\ next.tag = 1
      <4>1. PICK y \in Int : y = row.index + 1
        BY <1>2
      <4>2. next.index = M(y) /\ d = next.index - y
        BY <1>2, <1>5, <3>1, <3>3, <4>1
      <4>3. M(d) = 0 /\ 1 * 1 * d = d
        BY <4>2, DifferenceOfRemainder
      <4> QED
        BY <3>1, <3>3, <4>3
    <3> QED
      BY <1>3, <3>2, <3>3
  <2> QED
    BY <2>1, <2>2 DEF IndexFollows
<1>13. LengthFollows(row, next)
  <2>1. M(next.tag * (row.lengthLeft - next.lengthLeft - 1)) = 0
    <3>1. PICK d \in Int : d = row.lengthLeft - next.lengthLeft - 1
      BY <1>2
    <3>2. CASE next.tag = 0
      BY <3>1, <3>2, ProductVanishes
    <3>3. CASE next.tag = 1
      <4>1. PICK y \in Int : y = row.lengthLeft - 1
        BY <1>2
      <4>2. next.lengthLeft = M(y) /\ d = y - next.lengthLeft
        BY <1>2, <1>5, <3>1, <3>3, <4>1
      <4>3. M(d) = 0 /\ 1 * d = d
        BY <4>2, DifferenceOfRemainder
      <4> QED
        BY <3>1, <3>3, <4>3
    <3> QED
      BY <1>3, <3>2, <3>3
  <2>2. M(row.tag * (next.tag - 1) * row.lengthLeft) = 0
    <3>1. row.tag * (next.tag - 1) = 0 \/ row.lengthLeft = 0
      <4>1. CASE row.tag = 0
        BY <1>3, <4>1
      <4>2. CASE next.tag = 1
        BY <1>3, <4>2
      <4> QED
        BY <1>3, <1>6, <4>1, <4>2
    <3>2. PICK k \in Int : k = row.tag * (next.tag - 1)
      BY <1>2
    <3> QED
      BY <1>2, <3>1, <3>2, ProductVanishes
  <2> QED
    BY <2>1, <2>2 DEF LengthFollows
<1>14. OpcodeFollows(row, next)
  <2>1. M((row.tag - 1) * next.tag * (next.isOpcode - 1)) = 0
    <3>1. PICK k \in Int, e \in Int : k = (row.tag - 1) * next.tag /\ e = next.isOpcode - 1
      BY <1>2
    <3>2. k = 0 \/ e = 0
      <4>1. CASE row.tag = 1
        BY <1>3, <3>1, <4>1
      <4>2. CASE next.tag = 0
        BY <1>3, <3>1, <4>2
      <4> QED
        BY <1>3, <1>5, <3>1, <4>1, <4>2
    <3> QED
      BY <3>1, <3>2, ProductVanishes
  <2>2. M(next.isOpcode * row.pushSize) = 0
    <3>1. next.isOpcode = 0 \/ row.pushSize = 0
      BY <1>3, <1>5
    <3> QED
      BY <1>2, <3>1, ProductVanishes
  <2>3. M(next.tag * (next.isOpcode - 1) * (row.pushSize - next.pushSize - 1)) = 0
    <3>1. PICK k \in Int, d \in Int : k = next.tag * (next.isOpcode - 1) /\ d = row.pushSize - next.pushSize - 1
      BY <1>2
    <3>2. CASE next.tag = 0 \/ next.isOpcode = 1
      <4>1. k = 0
        BY <1>3, <3>1, <3>2
      <4> QED
        BY <3>1, <4>1, ProductVanishes
    <3>3. CASE next.tag = 1 /\ next.isOpcode = 0
      <4>1. PICK y \in Int, e \in Int : y = row.pushSize - 1 /\ e = next.pushSize - y
        BY <1>2
      <4>2. next.pushSize = M(y) /\ k * d = e
        <5>1. k = -1
          BY <3>1, <3>3
        <5>2. -1 * d = e
          BY <1>2, <3>1, <4>1
        <5> QED
          BY <1>5, <3>3, <4>1, <5>1, <5>2
      <4>3. M(e) = 0
        BY <4>1, <4>2, DifferenceOfRemainder
      <4> QED
        BY <3>1, <4>2, <4>3
    <3> QED
      BY <1>3, <3>2, <3>3
  <2> QED
    BY <2>1, <2>2, <2>3 DEF OpcodeFollows
<1>15. HashFollows(row, next)
  <2>1. row.hash - next.hash \in Int /\ (next.tag = 0 \/ row.hash - next.hash = 0)
    BY <1>2, <1>3, <1>5
  <2> QED
    BY <1>2, <2>1, ProductVanishes DEF HashFollows
<1>16. RlcFollows(prev, row, next)
  <2>1. PICK k \in Int, e \in Int : k = (row.tag - 1) * prev.tag * next.tag /\ e = row.challenge - prev.challenge
    BY <1>2
  <2>2. k = 0 \/ e = 0
    <3>1. CASE prev.tag = 0
      BY <1>3, <2>1, <3>1
    <3>2. CASE next.tag = 0
      BY <1>3, <2>1, <3>2
    <3>3. CASE prev.tag = 1 /\ next.tag = 1
      BY <1>2, <2>1, <3>3
    <3> QED
      BY <1>3, <3>1, <3>2, <3>3
  <2> QED
    BY <2>1, <2>2, ProductVanishes DEF RlcFollows
<1> QED
  BY <1>7, <1>8, <1>9, <1>10, <1>11, <1>12, <1>13, <1>14, <1>15, <1>16 DEF RowAccepted

(* The lookups ask that an opcode is in the table of opcodes.              *)
LEMMA LookupsMean ==
    ASSUME NEW row \in BytecodeRow, RowMeans(row), row.tag = 1 => row.value \in Byte
    PROVE  LookupsHold(row) <=> (row.isOpcode = 1 => row.value \in DOMAIN PushSize)
<1> DEFINE opcodes == {<<b, PushSize[b], 1>> : b \in DOMAIN PushSize}
<1>1. row.value \in Element /\ row.pushSize \in Element /\ row.value \in Int /\ row.pushSize \in Int
  BY ModulusFacts DEF BytecodeRow
<1>2. /\ row.tag \in {0, 1} /\ row.isOpcode \in {0, 1}
      /\ row.isOpcode = 1 => row.pushSize = PushesOf(row.value)
  BY DEF RowMeans
<1>3. M(0) = 0 /\ 0 \in Byte
  BY ModulusFacts, ByteAssumption
<1>4. M(row.tag * row.value) \in Byte
  <2>1. CASE row.tag = 0
    BY <1>1, <1>3, <2>1, ProductVanishes
  <2>2. CASE row.tag = 1
    <3>1. 1 * row.value = row.value /\ M(row.value) = row.value
      BY <1>1, ModulusFacts
    <3> QED
      BY <2>2, <3>1
  <2> QED
    BY <1>2, <2>1, <2>2
<1>5. CASE row.isOpcode = 0
  <2>1. M(row.value * row.isOpcode) = 0 /\ M(row.pushSize * row.isOpcode) = 0
    BY <1>1, <1>5, ProductVanishes
  <2> QED
    BY <1>4, <1>5, <2>1 DEF LookupsHold
<1>6. CASE row.isOpcode = 1
  <2>1. row.value * 1 = row.value /\ row.pushSize * 1 = row.pushSize
    BY <1>1
  <2>2. M(row.value * row.isOpcode) = row.value /\ M(row.pushSize * row.isOpcode) = row.pushSize
    BY <1>1, <1>6, <2>1, ModulusFacts
  <2>3. LookupsHold(row) <=> <<row.value, row.pushSize, 1>> \in opcodes \cup {<<0, 0, 0>>}
    BY <1>4, <1>6, <2>2 DEF LookupsHold
  <2>4. <<row.value, row.pushSize, 1>> \in opcodes \cup {<<0, 0, 0>>} <=> row.value \in DOMAIN PushSize
    <3>1. ASSUME row.value \in DOMAIN PushSize
          PROVE  <<row.value, row.pushSize, 1>> \in opcodes
      BY <1>2, <1>6, <3>1 DEF PushesOf
    <3>2. ASSUME <<row.value, row.pushSize, 1>> \in opcodes \cup {<<0, 0, 0>>}
          PROVE  row.value \in DOMAIN PushSize
      BY <3>2
    <3> QED
      BY <3>1, <3>2
  <2> QED
    BY <1>6, <2>3, <2>4
<1> QED
  BY <1>2, <1>5, <1>6

LEMMA AssignedMeans == TableInv => AssignedAccepted
<1> SUFFICES ASSUME TableInv, writer = "component"
             PROVE  TableAccepted(table) <=>
                      \A r \in DOMAIN table : table[r].isOpcode = 1 => table[r].value \in DOMAIN PushSize
  BY DEF AssignedAccepted
<1>1. /\ table \in Seq(BytecodeRow) /\ Len(table) \in Nat /\ DOMAIN table = 1..Len(table)
      /\ table # <<>> => table[1].tag = 0
      /\ \A r \in 1..Len(table) : table[r] \in BytecodeRow /\ RowMeans(table[r])
      /\ \A r \in 2..Len(table) : Follows(table[r - 1], table[r])
  BY DEF TableInv, WellFormed
<1>2. /\ table # <<>> => table[Len(table)].lengthLeft = 0
      /\ \A r \in 1..Len(table) : table[r].tag = 1 => table[r].value \in Byte
      /\ \A r, q \in 1..Len(table) : table[r].challenge = table[q].challenge
  BY DEF TableInv, TableWritten
<1>3. Unused \in BytecodeRow /\ RowMeans(Unused) /\ Unused.tag = 0
  BY ModulusFacts DEF Unused, BytecodeRow, RowMeans
<1>4. ASSUME NEW r \in 1..Len(table)
      PROVE  RowAccepted(Before(table, r), table[r], After(table, r)) <=>
               (table[r].isOpcode = 1 => table[r].value \in DOMAIN PushSize)
  <2> DEFINE prev == Before(table, r)
             row == table[r]
             next == After(table, r)
  <2>1. row \in BytecodeRow /\ RowMeans(row) /\ (row.tag = 1 => row.value \in Byte) /\ table # <<>>
    BY <1>1, <1>2
  <2>2. /\ prev \in BytecodeRow /\ RowMeans(prev) /\ Follows(prev, row)
        /\ prev.tag = 1 => row.challenge = prev.challenge
    <3>1. CASE r = 1
      <4>1. prev = Unused /\ row.tag = 0
        BY <1>1, <2>1, <3>1 DEF Before
      <4>2. Follows(Unused, row)
        BY <1>3, <4>1 DEF Follows
      <4> QED
        BY <1>3, <4>1, <4>2
    <3>2. CASE r # 1
      <4>1. r - 1 \in 1..Len(table) /\ r \in 2..Len(table)
        BY <1>1, <3>2
      <4>2. prev = table[r - 1]
        BY <3>2 DEF Before
      <4> QED
        BY <1>1, <1>2, <4>1, <4>2
    <3> QED
      BY <3>1, <3>2
  <2>3. next \in BytecodeRow /\ RowMeans(next) /\ Follows(row, next)
    <3>1. CASE r = Len(table)
      <4>1. next = Unused /\ row.lengthLeft = 0
        BY <1>2, <2>1, <3>1 DEF After
      <4>2. Follows(row, Unused)
        BY <1>3, <4>1 DEF Follows
      <4> QED
        BY <1>3, <4>1, <4>2
    <3>2. CASE r # Len(table)
      <4>1. PICK n \in Nat : n = Len(table) /\ r \in 1..n /\ r # n
        BY <1>1, <3>2
      <4>2. r + 1 \in 1..Len(table) /\ r + 1 \in 2..Len(table) /\ (r + 1) - 1 = r
        BY <4>1
      <4>3. next = table[r + 1]
        BY <3>2 DEF After
      <4> QED
        BY <1>1, <4>2, <4>3
    <3> QED
      BY <3>1, <3>2
  <2> HIDE DEF prev, row, next
  <2>4. RowAccepted(prev, row, next) <=> LookupsHold(row)
    BY <2>1, <2>2, <2>3, MeantIsAccepted
  <2>5. LookupsHold(row) <=> (row.isOpcode = 1 => row.value \in DOMAIN PushSize)
    BY <2>1, LookupsMean
  <2>6. RowAccepted(prev, row, next) <=> (row.isOpcode = 1 => row.value \in DOMAIN PushSize)
    BY <2>4, <2>5
  <2> QED
    BY <2>6 DEF prev, row, next
<1> QED
  BY <1>1, <1>4 DEF TableAccepted

(* What generate_assignments writes for any contracts satisfies the        *)
(* constraints and lookups on every row, exactly when the bytes it decodes *)
(* as opcodes are in the table of opcodes.                                 *)
THEOREM AssignedContractsAreAccepted == BytecodeSpec => []AssignedAccepted
<1>1. BytecodeSpec => []TableInv
  BY TableIsWellFormed
<1>2. TableInv => AssignedAccepted
  BY AssignedMeans
<1> QED
  BY <1>1, <1>2, PTL

-----------------------------------------------------------------------------
(* The opcodes: powers, words and their digits                             *)

LEMMA PowerIs ==
    ASSUME NEW b \in Nat \ {0}
    PROVE  /\ Power(b, 0) = 1
           /\ \A n \in Nat : Power(b, n) \in Nat \ {0} /\ Power(b, n + 1) = b * Power(b, n)
<1>1. \A n : Power(b, n) = PowerOf(b, n)
  BY DEF Power, PowerOf
<1> QED
  BY <1>1, PowersGrow

LEMMA PowerAdds ==
    ASSUME NEW b \in Nat \ {0}, NEW m \in Nat, NEW n \in Nat
    PROVE  Power(b, m + n) = Power(b, m) * Power(b, n)
<1> DEFINE P == {j \in 0..n : Power(b, m + j) = Power(b, m) * Power(b, j)}
<1>1. 0 \in P
  BY PowerIs
<1>2. ASSUME NEW j \in 1..n, j - 1 \in P PROVE j \in P
  <2>1. m + (j - 1) \in Nat /\ j - 1 \in Nat /\ m + j = (m + (j - 1)) + 1 /\ j = (j - 1) + 1
    OBVIOUS
  <2>2. Power(b, m + j) = b * Power(b, m + (j - 1)) /\ Power(b, j) = b * Power(b, j - 1)
    BY <2>1, PowerIs
  <2>3. PICK x \in Nat, y \in Nat : x = Power(b, m) /\ y = Power(b, j - 1)
    BY <2>1, PowerIs
  <2>4. Power(b, m + (j - 1)) = x * y
    BY <1>2, <2>3
  <2>5. b * (x * y) = x * (b * y)
    OBVIOUS
  <2> QED
    BY <2>2, <2>3, <2>4, <2>5
<1> HIDE DEF P
<1>3. \A j \in 0..n : j \in P
  BY <1>1, <1>2, CountingUp
<1> QED
  BY <1>3 DEF P

LEMMA FirstPowers ==
    ASSUME NEW b \in Nat \ {0}
    PROVE  /\ Power(b, 0) = 1 /\ Power(b, 1) = b /\ Power(b, 2) = b * b
           /\ Power(b, 3) = b * b * b /\ Power(b, 4) = b * b * b * b
<1>1. Power(b, 0) = 1 /\ \A n \in Nat : Power(b, n + 1) = b * Power(b, n)
  BY PowerIs
<1>2. Power(b, 0 + 1) = b * Power(b, 0)
  BY <1>1
<1>3. Power(b, 1 + 1) = b * Power(b, 1)
  BY <1>1
<1>4. Power(b, 2 + 1) = b * Power(b, 2)
  BY <1>1
<1>5. Power(b, 3 + 1) = b * Power(b, 3)
  BY <1>1
<1>6. Power(b, 1) = b
  BY <1>1, <1>2
<1>7. Power(b, 2) = b * b
  BY <1>3, <1>6
<1>8. Power(b, 3) = b * b * b
  BY <1>4, <1>7
<1> QED
  BY <1>1, <1>5, <1>6, <1>7, <1>8

(* What is left of x by two divisors, one after the other.                 *)
SplitsAt(x, p, d) == x % (p * d) = (x % p) + p * ((x \div p) % d)

LEMMA RemainderSplits ==
    ASSUME NEW x \in Nat, NEW p \in Nat \ {0}, NEW d \in Nat \ {0}
    PROVE  p * d \in Nat \ {0} /\ SplitsAt(x, p, d)
<1>1. PICK q \in Int, r \in 0..(p - 1) : x = p * q + r /\ x % p = r /\ x \div p = q
  BY Divided
<1>2. PICK u \in Int, v \in 0..(d - 1) : q = d * u + v /\ q % d = v
  BY Divided
<1>3. PICK m \in Nat \ {0} : m = p * d
  OBVIOUS
<1>4. x = m * u + (p * v + r)
  <2>1. p * q = p * (d * u) + p * v
    BY <1>2
  <2>2. p * (d * u) = m * u
    BY <1>3
  <2>3. PICK a \in Int, c \in Int : a = m * u /\ c = p * v
    OBVIOUS
  <2> QED
    BY <1>1, <2>1, <2>2, <2>3
<1>5. p * v + r \in 0..(m - 1)
  <2>1. PICK c \in Int, e \in Int : c = p * v /\ e = p * (d - 1 - v)
    OBVIOUS
  <2>2. c >= 0 /\ e >= 0
    BY <2>1
  <2>3. c + e = m - p
    BY <1>3, <2>1
  <2> QED
    BY <2>1, <2>2, <2>3
<1>6. x % m = p * v + r
  BY <1>4, <1>5, RemainderIsUnique
<1> QED
  BY <1>1, <1>2, <1>3, <1>6 DEF SplitsAt

(* The number that the first n digits of w stand for.                      *)
UpTo(w, b, n) == SumFunctionOnSet([i \in 0..(n - 1) |-> w[i] * Power(b, i)], 0..(n - 1))

LEMMA UpToNone == ASSUME NEW w, NEW b PROVE UpTo(w, b, 0) = 0
<1>1. 0..(0 - 1) = {}
  OBVIOUS
<1> QED
  BY <1>1, SumOfNone DEF UpTo

LEMMA UpToUnfolds ==
    ASSUME NEW b \in Nat \ {0}, NEW n \in Nat, NEW w, \A i \in 0..n : w[i] \in Nat
    PROVE  /\ UpTo(w, b, n) \in Nat
           /\ UpTo(w, b, n + 1) = UpTo(w, b, n) + w[n] * Power(b, n)
<1> DEFINE f == [i \in 0..(n - 1) |-> w[i] * Power(b, i)]
           g == [i \in 0..n |-> w[i] * Power(b, i)]
<1>1. \A i \in 0..n : w[i] * Power(b, i) \in Nat
  <2>1. ASSUME NEW i \in 0..n PROVE w[i] * Power(b, i) \in Nat
    <3>1. Power(b, i) \in Nat /\ w[i] \in Nat
      BY PowerIs
    <3> QED
      BY <3>1
  <2> QED
    BY <2>1
<1>2. /\ \A i \in 0..(n - 1) : f[i] = w[i] * Power(b, i)
      /\ \A i \in 0..n : g[i] = w[i] * Power(b, i)
  OBVIOUS
<1>3. UpTo(w, b, n) = SumFunctionOnSet(f, 0..(n - 1))
  BY DEF UpTo
<1>4. UpTo(w, b, n + 1) = SumFunctionOnSet(g, 0..n)
  <2>1. (n + 1) - 1 = n
    OBVIOUS
  <2> QED
    BY <2>1 DEF UpTo
<1> HIDE DEF f, g
<1>5. IsFiniteSet(0..(n - 1)) /\ n \notin 0..(n - 1) /\ 0..n = (0..(n - 1)) \cup {n} /\ 0..(n - 1) \subseteq 0..n
  BY FS_Interval
<1>6. \A i \in 0..(n - 1) : f[i] = g[i] /\ f[i] \in Nat /\ g[i] \in Int
  BY <1>1, <1>2, <1>5
<1>7. g[n] \in Int
  BY <1>1, <1>2
<1>8. SumFunctionOnSet(g, (0..(n - 1)) \cup {n}) = SumFunctionOnSet(g, 0..(n - 1)) + g[n]
  BY <1>5, <1>6, <1>7, SumAdd
<1>9. SumFunctionOnSet(f, 0..(n - 1)) = SumFunctionOnSet(g, 0..(n - 1))
  BY <1>5, <1>6, SumAgrees
<1>10. SumFunctionOnSet(f, 0..(n - 1)) \in Nat
  BY <1>5, <1>6, SumIsNatural
<1> QED
  BY <1>2, <1>3, <1>4, <1>5, <1>8, <1>9, <1>10

LEMMA NumberIsUpTo ==
    ASSUME NEW m \in Nat, NEW b, NEW w, DOMAIN w = 0..m
    PROVE  Number(w, b) = UpTo(w, b, m + 1)
<1>1. (m + 1) - 1 = m
  OBVIOUS
<1> QED
  BY <1>1 DEF Number, UpTo

LEMMA NumberFits ==
    ASSUME NEW b \in Nat \ {0}, NEW m \in Nat, NEW w \in [0..m -> 0..(b - 1)]
    PROVE  \A n \in 0..(m + 1) : UpTo(w, b, n) \in 0..(Power(b, n) - 1)
<1> DEFINE P == {n \in 0..(m + 1) : UpTo(w, b, n) \in 0..(Power(b, n) - 1)}
<1>1. 0 \in P
  <2>1. UpTo(w, b, 0) = 0 /\ Power(b, 0) = 1
    BY UpToNone, PowerIs
  <2> QED
    BY <2>1
<1>2. ASSUME NEW n \in 1..(m + 1), n - 1 \in P PROVE n \in P
  <2>1. n - 1 \in Nat /\ n = (n - 1) + 1 /\ n - 1 \in 0..m
    OBVIOUS
  <2>2. \A i \in 0..(n - 1) : w[i] \in Nat
    BY <2>1
  <2>3. UpTo(w, b, n) = UpTo(w, b, n - 1) + w[n - 1] * Power(b, n - 1)
    BY <2>1, <2>2, UpToUnfolds
  <2>4. PICK p \in Nat \ {0}, u \in Nat, v \in 0..(b - 1) :
          u < p /\ p = Power(b, n - 1) /\ u = UpTo(w, b, n - 1) /\ v = w[n - 1]
    <3>1. Power(b, n - 1) \in Nat \ {0}
      BY <2>1, PowerIs
    <3>2. UpTo(w, b, n - 1) \in 0..(Power(b, n - 1) - 1)
      BY <1>2
    <3>3. w[n - 1] \in 0..(b - 1)
      BY <2>1
    <3> QED
      BY <3>1, <3>2, <3>3
  <2>5. Power(b, n) = b * p
    BY <2>1, <2>4, PowerIs
  <2>6. PICK c \in Int, e \in Int, d \in Int : c = v * p /\ e = (b - 1 - v) * p /\ d = b * p
    OBVIOUS
  <2>7. c >= 0 /\ e >= 0
    BY <2>6
  <2>8. c + e = d - p
    BY <2>6
  <2>9. u + c \in 0..(d - 1)
    <3>1. c \in Int /\ e \in Int /\ d \in Int /\ u \in Nat /\ p \in Nat /\ u < p
      BY <2>4, <2>6
    <3> QED
      BY <3>1, <2>7, <2>8
  <2> QED
    BY <2>3, <2>4, <2>5, <2>6, <2>9
<1> HIDE DEF P
<1>3. m + 1 \in Nat
  OBVIOUS
<1>4. \A n \in 0..(m + 1) : n \in P
  BY <1>1, <1>2, <1>3, CountingUp
<1> QED
  BY <1>4 DEF P

LEMMA DigitsAre ==
    ASSUME NEW b \in Nat \ {0}, NEW m \in Nat, NEW x \in Nat
    PROVE  /\ Digits(x, b, 0..m) \in [0..m -> 0..(b - 1)]
           /\ \A i \in 0..m : Digits(x, b, 0..m)[i] = (x \div Power(b, i)) % b
<1>1. ASSUME NEW i \in 0..m PROVE (x \div Power(b, i)) % b \in 0..(b - 1)
  <2>1. PICK p \in Nat \ {0} : p = Power(b, i)
    BY PowerIs
  <2>2. x \div p \in Int
    BY Divided
  <2> QED
    BY <2>1, <2>2, ElementRemains
<1> QED
  BY <1>1 DEF Digits

LEMMA DigitsUpTo ==
    ASSUME NEW b \in Nat \ {0}, NEW m \in Nat, NEW x \in Nat
    PROVE  \A n \in 0..(m + 1) : UpTo(Digits(x, b, 0..m), b, n) = x % Power(b, n)
<1> DEFINE w == Digits(x, b, 0..m)
           P == {n \in 0..(m + 1) : UpTo(w, b, n) = x % Power(b, n)}
<1>0. /\ w \in [0..m -> 0..(b - 1)]
      /\ \A i \in 0..m : w[i] = (x \div Power(b, i)) % b
  BY DigitsAre
<1> HIDE DEF w
<1>1. 0 \in P
  <2>1. x % 1 = 0
    OBVIOUS
  <2> QED
    BY <2>1, UpToNone, PowerIs
<1>2. ASSUME NEW n \in 1..(m + 1), n - 1 \in P PROVE n \in P
  <2>1. n - 1 \in Nat /\ n = (n - 1) + 1 /\ n - 1 \in 0..m
    OBVIOUS
  <2>2. \A i \in 0..(n - 1) : w[i] \in Nat
    BY <1>0, <2>1
  <2>3. UpTo(w, b, n) = UpTo(w, b, n - 1) + w[n - 1] * Power(b, n - 1)
    BY <2>1, <2>2, UpToUnfolds
  <2>4. PICK p \in Nat \ {0} : p = Power(b, n - 1)
    BY <2>1, PowerIs
  <2>5. Power(b, n) = p * b
    <3>1. Power(b, n) = b * p
      BY <2>1, <2>4, PowerIs
    <3> QED
      BY <3>1
  <2>6. x % (p * b) = (x % p) + p * ((x \div p) % b)
    BY RemainderSplits DEF SplitsAt
  <2>7. w[n - 1] = (x \div p) % b /\ UpTo(w, b, n - 1) = x % p
    BY <1>0, <1>2, <2>1, <2>4
  <2>8. PICK v \in Nat : v = w[n - 1]
    BY <2>2, <2>1
  <2>9. v * p = p * v
    OBVIOUS
  <2> QED
    BY <2>3, <2>4, <2>5, <2>6, <2>7, <2>8, <2>9
<1> HIDE DEF P
<1>3. m + 1 \in Nat
  OBVIOUS
<1>4. \A n \in 0..(m + 1) : n \in P
  BY <1>1, <1>2, <1>3, CountingUp
<1> QED
  BY <1>4 DEF P, w

(* Digits and Number are each other's inverse.                             *)
LEMMA DigitsMean ==
    ASSUME NEW b \in Nat \ {0}, NEW m \in Nat, NEW x \in 0..(Power(b, m + 1) - 1)
    PROVE  Number(Digits(x, b, 0..m), b) = x
<1>1. DOMAIN Digits(x, b, 0..m) = 0..m
  BY DEF Digits
<1>2. m + 1 \in 0..(m + 1) /\ m + 1 \in Nat
  OBVIOUS
<1>3. PICK p \in Nat \ {0} : p = Power(b, m + 1)
  BY <1>2, PowerIs
<1>4. x \in Nat /\ x \in 0..(p - 1)
  BY <1>3
<1>5. Number(Digits(x, b, 0..m), b) = x % p
  BY <1>1, <1>2, <1>3, <1>4, NumberIsUpTo, DigitsUpTo
<1> QED
  BY <1>4, <1>5, ElementRemains

(* Adding the digits d of two numbers above their remainders modulo p, one *)
(* carry on from the next.                                                 *)
CarryIs(p, x, y, c) == (x % p) + (y % p) = ((x + y) % p) + c * p
CarryGoesOnTo(p, d, x, y, c, e) ==
    LET A == (x \div p) % d
        B == (y \div p) % d
        R == ((x + y) \div p) % d
    IN /\ e = IF c + A + B >= d THEN 1 ELSE 0
       /\ c + A + B = R + e * d
       /\ (x % (p * d)) + (y % (p * d)) = ((x + y) % (p * d)) + e * (p * d)

LEMMA CarryGoesOn ==
    ASSUME NEW p \in Nat \ {0}, NEW d \in Nat \ {0}, NEW x \in Nat, NEW y \in Nat,
           NEW c \in {0, 1}, CarryIs(p, x, y, c)
    PROVE  \E e \in {0, 1} : CarryGoesOnTo(p, d, x, y, c, e)
<1>1. PICK s \in Nat : s = x + y
  OBVIOUS
<1>2. PICK m \in Nat \ {0} : m = p * d
  OBVIOUS
<1>3. /\ x % m = (x % p) + p * ((x \div p) % d)
      /\ y % m = (y % p) + p * ((y \div p) % d)
      /\ s % m = (s % p) + p * ((s \div p) % d)
  <2>1. ASSUME NEW z \in Nat PROVE z % (p * d) = (z % p) + p * ((z \div p) % d)
    <3>1. SplitsAt(z, p, d)
      BY RemainderSplits
    <3> QED
      BY <3>1 DEF SplitsAt
  <2> QED
    BY <1>1, <1>2, <2>1
<1>4. m \in Nat \ {0} /\ s \in Nat
  BY <1>1, <1>2
<1>5. PICK X \in Int, u \in 0..(m - 1) : x = m * X + u /\ x % m = u /\ x \div m = X
  <2>1. x \in Int /\ m \in Nat \ {0}
    BY <1>4
  <2> QED
    BY <2>1, Divided
<1>6. PICK Y \in Int, v \in 0..(m - 1) : y = m * Y + v /\ y % m = v /\ y \div m = Y
  <2>1. y \in Int /\ m \in Nat \ {0}
    BY <1>4
  <2> QED
    BY <2>1, Divided
<1>7. \A z \in Nat : (z \div p) % d \in 0..(d - 1) /\ z % p \in 0..(p - 1) /\ z % p \in Int
  <2>1. ASSUME NEW z \in Nat PROVE (z \div p) % d \in 0..(d - 1) /\ z % p \in 0..(p - 1) /\ z % p \in Int
    <3>1. z \div p \in Int
      BY Divided
    <3> QED
      BY <3>1, ElementRemains
  <2> QED
    BY <2>1, Zenon
<1>8. PICK A \in 0..(d - 1), B \in 0..(d - 1), R \in 0..(d - 1) :
         A = (x \div p) % d /\ B = (y \div p) % d /\ R = (s \div p) % d
  BY <1>4, <1>7
<1>9. PICK xp \in Int, yp \in Int, f \in 0..(p - 1) : xp = x % p /\ yp = y % p /\ f = s % p
  BY <1>4, <1>7
<1>10. PICK e \in {0, 1}, k \in 0..(d - 1) :
         e = (IF c + A + B >= d THEN 1 ELSE 0) /\ c + A + B = k + e * d
  <2>1. A \in 0..(d - 1) /\ B \in 0..(d - 1)
    BY <1>8
  <2> QED
    BY <2>1
<1>11. /\ A \in 0..(d - 1) /\ B \in 0..(d - 1) /\ R \in 0..(d - 1) /\ e \in {0, 1} /\ k \in 0..(d - 1)
       /\ xp \in Int /\ yp \in Int /\ f \in 0..(p - 1) /\ X \in Int /\ Y \in Int /\ u \in Int /\ v \in Int
  BY <1>5, <1>6, <1>8, <1>9, <1>10
<1>12. PICK a \in Int, b \in Int, g \in Int, h \in Int, cp \in Int, em \in Int, mX \in Int, mY \in Int :
         /\ a = p * A /\ b = p * B /\ g = p * k /\ h = p * R /\ cp = c * p /\ em = e * m
         /\ mX = m * X /\ mY = m * Y
  BY <1>4, <1>11
<1>13. a + b + cp = g + em
  <2>1. p * A + p * B + c * p = p * (c + A + B)
    BY <1>11
  <2>2. p * (k + e * d) = p * k + e * (p * d)
    BY <1>11
  <2> QED
    BY <1>2, <1>10, <1>12, <2>1, <2>2
<1>14. xp + yp = f + cp /\ u = xp + a /\ v = yp + b /\ s % m = f + h
  BY <1>1, <1>3, <1>5, <1>6, <1>8, <1>9, <1>12 DEF CarryIs
<1>15. /\ a \in Int /\ b \in Int /\ g \in Int /\ h \in Int /\ cp \in Int /\ em \in Int
       /\ mX \in Int /\ mY \in Int
  BY <1>12
<1>16. u + v = f + g + em
  BY <1>11, <1>13, <1>14, <1>15
<1>17. PICK q \in Int : q = X + Y + e /\ s = m * q + (f + g)
  <2>1. m * (X + Y + e) = mX + mY + em
    BY <1>4, <1>11, <1>12
  <2>2. s = mX + u + mY + v
    BY <1>1, <1>5, <1>6, <1>12
  <2>3. s = m * (X + Y + e) + (f + g)
    BY <1>4, <1>11, <1>15, <1>16, <2>1, <2>2
  <2> QED
    BY <1>11, <2>3
<1>18. f + g \in 0..(m - 1)
  <2>1. PICK t \in Int : t = p * (d - 1 - k)
    BY <1>11
  <2>2. t >= 0 /\ g >= 0
    BY <1>11, <1>12, <2>1
  <2>3. t + g = m - p
    BY <1>2, <1>11, <1>12, <2>1
  <2>4. t \in Int
    BY <2>1
  <2> QED
    BY <1>4, <1>11, <1>15, <2>2, <2>3, <2>4
<1>19. PICK t \in 0..(m - 1) : t = f + g
  BY <1>18
<1>20. s % m = t
  <2>1. s \in Int /\ q \in Int /\ t \in 0..(m - 1) /\ s = m * q + t
    BY <1>4, <1>17, <1>19
  <2> QED
    BY <1>4, <2>1, RemainderIsUnique
<1>21. k = R
  <2>1. p * k = p * R
    BY <1>11, <1>12, <1>14, <1>15, <1>19, <1>20
  <2> QED
    BY <1>11, <2>1
<1>22. u + v = (s % m) + em
  BY <1>16, <1>19, <1>20
<1>23. /\ e = IF c + A + B >= d THEN 1 ELSE 0
       /\ c + A + B = R + e * d
       /\ (x % m) + (y % m) = ((x + y) % m) + e * m
  BY <1>1, <1>5, <1>6, <1>10, <1>12, <1>21, <1>22
<1> QED
  BY <1>1, <1>2, <1>8, <1>11, <1>23 DEF CarryGoesOnTo

-----------------------------------------------------------------------------
(* ADD and SUB                                                             *)

LEMMA ChunkFacts ==
    /\ ChunkBase \in Nat \ {0} /\ ChunkBase > 1 /\ Triples \in Nat \ {0} /\ Cubed(ChunkBase) \in Nat \ {0}
    /\ Size(ChunkBase, Chunks) = Power(ChunkBase, 3 * Triples + 1)
    /\ \A g \in 0..(Triples - 1) :
          3 * g \in Chunks /\ 3 * g + 1 \in Chunks /\ 3 * g + 2 \in Chunks /\ 3 * (g + 1) = 3 * g + 3
    /\ \A g \in 0..Triples : 3 * g \in 0..(3 * Triples + 1)
<1>1. ChunkBase \in Nat \ {0} /\ ChunkBase > 1 /\ Triples \in Nat \ {0}
  BY SizesAssumption
<1>2. Cubed(ChunkBase) \in Nat \ {0}
  BY <1>1 DEF Cubed
<1>3. Cardinality(Chunks) = 3 * Triples + 1
  <2>1. 0 <= 3 * Triples + 1 /\ 3 * Triples \in Int
    BY <1>1
  <2>2. Cardinality(0..(3 * Triples)) = IF 0 > 3 * Triples THEN 0 ELSE (3 * Triples) - 0 + 1
    BY <2>1, FS_Interval
  <2> QED
    BY <1>1, <2>2 DEF Chunks
<1> QED
  BY <1>1, <1>2, <1>3 DEF Size, Chunks

LEMMA TripleUnfolds ==
    ASSUME NEW w, \A i \in Chunks : w[i] \in Nat, NEW g \in 0..(Triples - 1)
    PROVE  /\ Triple(w, g) \in Nat /\ UpTo(w, ChunkBase, 3 * g) \in Nat
           /\ UpTo(w, ChunkBase, 3 * (g + 1))
                 = UpTo(w, ChunkBase, 3 * g) + Triple(w, g) * Power(ChunkBase, 3 * g)
           /\ Power(ChunkBase, 3 * (g + 1)) = Power(ChunkBase, 3 * g) * Cubed(ChunkBase)
<1>1. PICK n \in Nat : n = 3 * g
  BY ChunkFacts
<1>2. n \in Chunks /\ n + 1 \in Chunks /\ n + 2 \in Chunks /\ 3 * (g + 1) = n + 3 /\ n + 2 \in Nat /\ n + 1 \in Nat
  BY <1>1, ChunkFacts
<1>3. PICK C \in Nat \ {0} : C = ChunkBase
  BY ChunkFacts
<1>4. PICK p \in Nat \ {0} : p = Power(C, n)
  BY PowerIs
<1>5. PICK x \in Nat, y \in Nat, z \in Nat : x = w[n] /\ y = w[n + 1] /\ z = w[n + 2]
  BY <1>2
<1>6. \A i \in 0..(n + 2) : w[i] \in Nat
  <2>1. n + 2 \in 0..(3 * Triples) /\ 3 * Triples \in Int
    BY <1>2, ChunkFacts DEF Chunks
  <2>2. 0..(n + 2) \subseteq Chunks
    BY <1>1, <2>1 DEF Chunks
  <2> QED
    BY <2>2
<1>7. /\ UpTo(w, C, n) \in Nat
      /\ UpTo(w, C, n + 1) = UpTo(w, C, n) + x * p
  BY <1>4, <1>5, <1>6, UpToUnfolds
<1>8. UpTo(w, C, n + 2) = UpTo(w, C, n + 1) + y * (C * p)
  <2>1. Power(C, n + 1) = C * p
    BY <1>4, PowerIs
  <2>2. (n + 1) + 1 = n + 2 /\ \A i \in 0..(n + 1) : w[i] \in Nat
    BY <1>6
  <2>3. UpTo(w, C, (n + 1) + 1) = UpTo(w, C, n + 1) + w[n + 1] * Power(C, n + 1)
    BY <1>2, <2>2, UpToUnfolds
  <2> QED
    BY <1>5, <2>1, <2>2, <2>3
<1>9. UpTo(w, C, n + 3) = UpTo(w, C, n + 2) + z * (C * (C * p)) /\ Power(C, n + 3) = C * (C * (C * p))
  <2>1. Power(C, n + 1) = C * p
    BY <1>4, PowerIs
  <2>2. (n + 1) + 1 = n + 2 /\ (n + 2) + 1 = n + 3
    OBVIOUS
  <2>3. Power(C, (n + 1) + 1) = C * Power(C, n + 1) /\ Power(C, (n + 2) + 1) = C * Power(C, n + 2)
    BY <1>2, PowerIs
  <2>4. UpTo(w, C, (n + 2) + 1) = UpTo(w, C, n + 2) + w[n + 2] * Power(C, n + 2)
    BY <1>2, <1>6, UpToUnfolds
  <2> QED
    BY <1>5, <2>1, <2>2, <2>3, <2>4
<1>10. Triple(w, g) = x + y * C + z * (C * C)
  BY <1>1, <1>3, <1>5 DEF Triple, Squared
<1>11. (x + y * C + z * (C * C)) * p = x * p + y * (C * p) + z * (C * (C * p))
  OBVIOUS
<1>12. C * (C * (C * p)) = p * (C * C * C)
  OBVIOUS
<1>13. x + y * C + z * (C * C) \in Nat
  OBVIOUS
<1>14. PICK a \in Int, b \in Int, c \in Int : a = x * p /\ b = y * (C * p) /\ c = z * (C * (C * p))
  OBVIOUS
<1>15. UpTo(w, C, n + 3) = UpTo(w, C, n) + (x + y * C + z * (C * C)) * p
  BY <1>7, <1>8, <1>9, <1>11, <1>14
<1> QED
  BY <1>1, <1>2, <1>3, <1>4, <1>7, <1>9, <1>10, <1>12, <1>13, <1>15 DEF Cubed

LEMMA ChunksAre ==
    ASSUME NEW x \in Nat
    PROVE  /\ AllChunks(x) \in [Chunks -> 0..(ChunkBase - 1)]
           /\ \A i \in Chunks : AllChunks(x)[i] \in Nat
           /\ \A n \in 0..(3 * Triples + 1) :
                 UpTo(AllChunks(x), ChunkBase, n) = x % Power(ChunkBase, n)
           /\ x < Size(ChunkBase, Chunks) => Number(AllChunks(x), ChunkBase) = x
<1>1. 3 * Triples \in Nat /\ ChunkBase \in Nat \ {0}
  BY ChunkFacts
<1>2. AllChunks(x) = Digits(x, ChunkBase, 0..(3 * Triples))
  BY DEF AllChunks, Chunks
<1>3. AllChunks(x) \in [Chunks -> 0..(ChunkBase - 1)]
  <2>1. Digits(x, ChunkBase, 0..(3 * Triples)) \in [0..(3 * Triples) -> 0..(ChunkBase - 1)]
    BY <1>1, DigitsAre
  <2> QED
    BY <1>2, <2>1 DEF Chunks
<1>4. \A n \in 0..(3 * Triples + 1) : UpTo(AllChunks(x), ChunkBase, n) = x % Power(ChunkBase, n)
  BY <1>1, <1>2, DigitsUpTo
<1>5. ASSUME x < Size(ChunkBase, Chunks) PROVE Number(AllChunks(x), ChunkBase) = x
  <2>1. Power(ChunkBase, 3 * Triples + 1) \in Nat
    <3>1. 3 * Triples + 1 \in Nat
      BY <1>1
    <3> QED
      BY <1>1, <3>1, PowerIs
  <2>2. x \in 0..(Power(ChunkBase, 3 * Triples + 1) - 1)
    BY <1>5, <2>1, ChunkFacts
  <2> QED
    BY <1>1, <1>2, <2>2, DigitsMean
<1> QED
  BY <1>1, <1>3, <1>4, <1>5

LEMMA TripleOfDigits ==
    ASSUME NEW x \in Nat, NEW g \in 0..(Triples - 1)
    PROVE  Triple(AllChunks(x), g) = (x \div Power(ChunkBase, 3 * g)) % Cubed(ChunkBase)
<1>1. PICK p \in Nat \ {0}, d \in Nat \ {0} : p = Power(ChunkBase, 3 * g) /\ d = Cubed(ChunkBase)
  <2>1. 3 * g \in Nat /\ ChunkBase \in Nat \ {0} /\ Cubed(ChunkBase) \in Nat \ {0}
    BY ChunkFacts
  <2>2. Power(ChunkBase, 3 * g) \in Nat \ {0}
    BY <2>1, PowerIs
  <2> QED
    BY <2>1, <2>2
<1>2. 3 * g \in 0..(3 * Triples + 1) /\ 3 * (g + 1) \in 0..(3 * Triples + 1)
  BY ChunkFacts
<1>3. PICK w : w = AllChunks(x)
  OBVIOUS
<1>4. /\ \A i \in Chunks : w[i] \in Nat
      /\ \A n \in 0..(3 * Triples + 1) : UpTo(w, ChunkBase, n) = x % Power(ChunkBase, n)
  BY <1>3, ChunksAre
<1>5. PICK t \in Nat : t = Triple(w, g)
  BY <1>4, TripleUnfolds
<1>6. x % (p * d) = (x % p) + t * p
  <2>1. UpTo(w, ChunkBase, 3 * (g + 1)) = UpTo(w, ChunkBase, 3 * g) + t * p
    BY <1>1, <1>5, <1>4, TripleUnfolds
  <2>2. Power(ChunkBase, 3 * (g + 1)) = p * d
    BY <1>1, <1>4, TripleUnfolds
  <2>3. UpTo(w, ChunkBase, 3 * (g + 1)) = x % (p * d) /\ UpTo(w, ChunkBase, 3 * g) = x % p
    BY <1>1, <1>2, <1>4, <2>2
  <2> QED
    BY <2>1, <2>3
<1>7. x % (p * d) = (x % p) + p * ((x \div p) % d)
  BY RemainderSplits DEF SplitsAt
<1>8. PICK r \in Int, q \in Int : r = x % p /\ q = (x \div p) % d
  <2>1. x \div p \in Int
    BY Divided
  <2>2. (x \div p) % d \in 0..(d - 1) /\ x % p \in 0..(p - 1)
    BY <2>1, ElementRemains
  <2> QED
    BY <2>2
<1>9. p * t = p * q
  <2>1. PICK a \in Int, b \in Int : a = p * t /\ b = p * q
    BY <1>8
  <2>2. t * p = p * t
    OBVIOUS
  <2> QED
    BY <1>6, <1>7, <1>8, <2>1, <2>2
<1>10. t = q
  BY <1>8, <1>9
<1> QED
  BY <1>1, <1>5, <1>3, <1>8, <1>10

LEMMA FieldFacts ==
    /\ FieldSize \in Nat \ {0} /\ FieldSize > 2 /\ IsField(FieldSize)
    /\ E(0) = 0
    /\ \A x \in Int : -FieldSize < x /\ x < FieldSize /\ E(x) = 0 => x = 0
<1>1. FieldSize \in Nat \ {0} /\ FieldSize > 2
  BY FieldSizeAssumption
<1>2. IsField(FieldSize)
  <2>1. \A x \in Residue \ {0} : \E y \in Residue : (x * y) % FieldSize = 1
    BY FieldSizeAssumption DEF E
  <2>2. \A x \in 1..(FieldSize - 1) : x \in Residue \ {0}
    BY <1>1 DEF Residue
  <2>3. Residue = 0..(FieldSize - 1)
    BY DEF Residue
  <2> HIDE DEF Residue
  <2> QED
    BY <1>1, <2>1, <2>2, <2>3 DEF IsField
<1>3. E(0) = 0
  BY <1>1 DEF E
<1>4. \A x \in Int : -FieldSize < x /\ x < FieldSize /\ E(x) = 0 => x = 0
  BY <1>1, SmallZero DEF E
<1> QED
  BY <1>1, <1>2, <1>3, <1>4

(* Three chunks are below the third power of their base.                   *)
LEMMA TripleFits ==
    ASSUME NEW w \in [Chunks -> 0..(ChunkBase - 1)], NEW g \in 0..(Triples - 1)
    PROVE  Triple(w, g) \in 0..(Cubed(ChunkBase) - 1)
<1>1. PICK C \in Nat \ {0} : C = ChunkBase
  BY ChunkFacts
<1>2. PICK x \in 0..(C - 1), y \in 0..(C - 1), z \in 0..(C - 1) :
        x = w[3 * g] /\ y = w[3 * g + 1] /\ z = w[3 * g + 2]
  BY <1>1, ChunkFacts
<1>3. PICK a \in Int, b \in Int, c \in Int, e \in Int, D \in Int :
        a = y * C /\ b = z * (C * C) /\ c = (C - 1 - y) * C /\ e = (C - 1 - z) * (C * C) /\ D = C * C * C
  BY <1>1, <1>2
<1>4. Triple(w, g) = x + a + b /\ Cubed(ChunkBase) = D
  BY <1>1, <1>2, <1>3 DEF Triple, Squared, Cubed
<1>5. a >= 0 /\ b >= 0 /\ c >= 0 /\ e >= 0
  <2>1. \A i, j \in Nat : i * j >= 0
    OBVIOUS
  <2>2. C * C \in Nat /\ C - 1 - y \in Nat /\ C - 1 - z \in Nat /\ y \in Nat /\ z \in Nat
    BY <1>1, <1>2
  <2> QED
    BY <1>1, <1>3, <2>1, <2>2
<1>6. a + b + c + e + C = D
  BY <1>1, <1>2, <1>3
<1>7. x \in 0..(C - 1) /\ a \in Int /\ b \in Int /\ c \in Int /\ e \in Int /\ D \in Int /\ C \in Int
  BY <1>1, <1>2, <1>3
<1>8. x + a + b \in 0..(D - 1)
  BY <1>5, <1>6, <1>7
<1> QED
  BY <1>4, <1>8

(* A row of ADD, whatever carries it claims.                               *)
SumRowOf(r) ==
    /\ r.a \in [Chunks -> 0..(ChunkBase - 1)] /\ r.b \in [Chunks -> 0..(ChunkBase - 1)]
    /\ r.r \in [Chunks -> 0..(ChunkBase - 1)] /\ r.carry \in [0..Triples -> {0, 1}]

(* The field is large enough for the gates of ADD to hold of integers.     *)
LEMMA SumGatesMean ==
    ASSUME NEW r, SumRowOf(r), SumHolds(r)
    PROVE  /\ \A g \in 0..(Triples - 1) :
                 Carried(r.carry, g) + Triple(r.a, g) + Triple(r.b, g)
                    = Triple(r.r, g) + r.carry[g] * Cubed(ChunkBase)
           /\ Carried(r.carry, Triples) + r.a[3 * Triples] + r.b[3 * Triples]
                 = r.r[3 * Triples] + r.carry[Triples] * ChunkBase
<1>1. \A g \in 0..Triples : Carried(r.carry, g) \in {0, 1} /\ r.carry[g] \in {0, 1}
  <2>1. \A g \in 0..Triples : g # 0 => g - 1 \in 0..Triples
    BY ChunkFacts
  <2> QED
    BY <2>1 DEF SumRowOf, Carried
<1>2. PICK D \in Nat \ {0}, C \in Nat \ {0}, T \in Nat :
         D = Cubed(ChunkBase) /\ C = ChunkBase /\ T = 3 * Triples /\ FieldSize > 2 * D /\ FieldSize > 2 * C
  <2>1. FieldSize > (3 * Triples + 1) * ChunkBase /\ FieldSize > 2 * Cubed(ChunkBase)
    BY SizesAssumption
  <2>2. (3 * Triples + 1) * ChunkBase >= 2 * ChunkBase
    <3>1. PICK t \in Nat, C \in Nat : C = ChunkBase /\ t = 3 * Triples - 1
      BY ChunkFacts
    <3>2. t * C >= 0
      OBVIOUS
    <3>3. (t + 2) * C = t * C + 2 * C
      OBVIOUS
    <3>4. 3 * Triples + 1 = t + 2
      BY <3>1, ChunkFacts
    <3> QED
      BY <3>1, <3>2, <3>3, <3>4
  <2>3. FieldSize \in Int /\ ChunkBase \in Int /\ (3 * Triples + 1) * ChunkBase \in Int
    BY ChunkFacts, FieldFacts
  <2> QED
    BY <2>1, <2>2, <2>3, ChunkFacts
<1>3. ASSUME NEW g \in 0..(Triples - 1)
      PROVE  Carried(r.carry, g) + Triple(r.a, g) + Triple(r.b, g)
                    = Triple(r.r, g) + r.carry[g] * Cubed(ChunkBase)
  <2>1. PICK x \in 0..(D - 1), y \in 0..(D - 1), z \in 0..(D - 1) :
           x = Triple(r.a, g) /\ y = Triple(r.b, g) /\ z = Triple(r.r, g)
    BY <1>2, TripleFits DEF SumRowOf
  <2>2. PICK c \in {0, 1}, e \in {0, 1} : c = Carried(r.carry, g) /\ e = r.carry[g]
    BY <1>1, ChunkFacts
  <2>3. E(c + x + y - z - e * D) = 0
    BY <1>2, <2>1, <2>2 DEF SumHolds
  <2>4. PICK f \in {0, D} : f = e * D
    BY <2>2
  <2>5. /\ c \in {0, 1} /\ x \in 0..(D - 1) /\ y \in 0..(D - 1) /\ z \in 0..(D - 1)
        /\ f \in {0, D} /\ D \in Nat /\ FieldSize > 2 * D /\ FieldSize \in Nat
    BY <1>2, <2>1, <2>2, <2>4, FieldFacts
  <2>6. PICK v \in Int : v = c + x + y - z - f /\ -FieldSize < v /\ v < FieldSize
    BY <2>5
  <2>7. E(v) = 0
    BY <2>3, <2>4, <2>6
  <2>8. v = 0
    BY <2>6, <2>7, FieldFacts
  <2>9. c + x + y = z + f
    BY <2>5, <2>6, <2>8
  <2> QED
    BY <1>2, <2>1, <2>2, <2>4, <2>9
<1>4. Carried(r.carry, Triples) + r.a[3 * Triples] + r.b[3 * Triples]
         = r.r[3 * Triples] + r.carry[Triples] * ChunkBase
  <2>0. 3 * Triples \in Chunks
    BY ChunkFacts DEF Chunks
  <2>1. PICK x \in 0..(C - 1), y \in 0..(C - 1), z \in 0..(C - 1) :
           x = r.a[T] /\ y = r.b[T] /\ z = r.r[T]
    BY <1>2, <2>0 DEF SumRowOf
  <2>2. PICK c \in {0, 1}, e \in {0, 1} : c = Carried(r.carry, Triples) /\ e = r.carry[Triples]
    BY <1>1, ChunkFacts
  <2>3. E(c + x + y - z - e * C) = 0
    BY <1>2, <2>1, <2>2 DEF SumHolds
  <2>4. PICK f \in {0, C} : f = e * C
    BY <2>2
  <2>5. /\ c \in {0, 1} /\ x \in 0..(C - 1) /\ y \in 0..(C - 1) /\ z \in 0..(C - 1)
        /\ f \in {0, C} /\ C \in Nat /\ FieldSize > 2 * C /\ FieldSize \in Nat
    BY <1>2, <2>1, <2>2, <2>4, FieldFacts
  <2>6. PICK v \in Int : v = c + x + y - z - f /\ -FieldSize < v /\ v < FieldSize
    BY <2>5
  <2>7. E(v) = 0
    BY <2>3, <2>4, <2>6
  <2>8. v = 0
    BY <2>6, <2>7, FieldFacts
  <2>9. c + x + y = z + f
    BY <2>5, <2>6, <2>8
  <2> QED
    BY <1>2, <2>1, <2>2, <2>4, <2>9
<1> QED
  BY <1>3, <1>4

(* Whatever carries it claims, an accepted row of ADD adds modulo 2^256:   *)
(* from each group of chunks to the next, the sums of what is below differ *)
(* by the carry.                                                           *)
LEMMA SumMeans ==
    ASSUME NEW r, SumRowOf(r), SumHolds(r)
    PROVE  Number(r.r, ChunkBase)
              = (Number(r.a, ChunkBase) + Number(r.b, ChunkBase)) % Size(ChunkBase, Chunks)
<1>0. PICK a, b, z, carry : a = r.a /\ b = r.b /\ z = r.r /\ carry = r.carry
  OBVIOUS
<1>1. PICK C \in Nat \ {0}, D \in Nat \ {0}, T \in Nat :
         /\ C = ChunkBase /\ D = Cubed(C) /\ T = Triples
         /\ a = r.a /\ b = r.b /\ z = r.r /\ carry = r.carry
  BY <1>0, ChunkFacts
<1>2. \A w \in {a, b, z} : w \in [Chunks -> 0..(C - 1)] /\ (\A i \in Chunks : w[i] \in Nat)
  BY <1>1 DEF SumRowOf
<1>3. carry \in [0..T -> {0, 1}]
  BY <1>1 DEF SumRowOf
<1> DEFINE P == {g \in 0..T : UpTo(a, C, 3 * g) + UpTo(b, C, 3 * g)
                                 = UpTo(z, C, 3 * g) + Carried(carry, g) * Power(C, 3 * g)}
<1>4. 0 \in P
  <2>1. 3 * 0 = 0 /\ Carried(carry, 0) = 0 /\ Power(C, 0) = 1
    BY PowerIs DEF Carried
  <2>2. \A w : UpTo(w, C, 0) = 0
    BY UpToNone
  <2> QED
    BY <1>1, <2>1, <2>2
<1>5. ASSUME NEW j \in 1..T, j - 1 \in P PROVE j \in P
  <2>1. PICK g \in 0..(Triples - 1) : g = j - 1 /\ j = g + 1
    BY <1>1
  <2>2. 3 * g \in Nat /\ g \in 0..T /\ j \in 0..T
    BY <2>1, <1>1
  <2>3. PICK p \in Nat \ {0} : p = Power(C, 3 * g)
    BY <2>2, PowerIs
  <2>4. \A w \in {a, b, z} :
          /\ Triple(w, g) \in Nat /\ UpTo(w, C, 3 * g) \in Nat
          /\ UpTo(w, C, 3 * j) = UpTo(w, C, 3 * g) + Triple(w, g) * p
    BY <1>1, <1>2, <2>1, <2>3, TripleUnfolds
  <2>5. Power(C, 3 * j) = p * D
    <3>1. \A i \in Chunks : a[i] \in Nat
      BY <1>2
    <3> QED
      BY <1>1, <2>1, <2>3, <3>1, TripleUnfolds
  <2>6. PICK x \in Nat, y \in Nat, s \in Nat, ua \in Nat, ub \in Nat, us \in Nat :
          /\ x = Triple(a, g) /\ y = Triple(b, g) /\ s = Triple(z, g)
          /\ ua = UpTo(a, C, 3 * g) /\ ub = UpTo(b, C, 3 * g) /\ us = UpTo(z, C, 3 * g)
    BY <2>4
  <2>7. PICK c \in {0, 1}, e \in {0, 1} : c = Carried(carry, g) /\ e = carry[g] /\ e = Carried(carry, j)
    BY <1>3, <2>1, <2>2 DEF Carried
  <2>8. c + x + y = s + e * D
    BY <1>1, <2>1, <2>6, <2>7, SumGatesMean
  <2>9. ua + ub = us + c * p
    BY <1>5, <2>1, <2>3, <2>6, <2>7
  <2>10. (ua + x * p) + (ub + y * p) = (us + s * p) + e * (p * D)
    <3>1. PICK xp \in Int, yp \in Int, sp \in Int, cp \in Int, f \in Int :
             xp = x * p /\ yp = y * p /\ sp = s * p /\ cp = c * p /\ f = e * (p * D)
      BY <2>7
    <3>2. (c + x + y) * p = c * p + x * p + y * p
      BY <2>7
    <3>3. (s + e * D) * p = s * p + e * (p * D)
      BY <2>7
    <3>4. cp + xp + yp = sp + f
      BY <2>8, <3>1, <3>2, <3>3
    <3> QED
      BY <2>9, <3>1, <3>4
  <2> QED
    BY <2>2, <2>4, <2>5, <2>6, <2>7, <2>10
<1> HIDE DEF P
<1>6. T \in P
  <2>1. \A j \in 0..T : j \in P
    BY <1>4, <1>5, CountingUp
  <2> QED
    BY <2>1
<1>7. PICK n \in Nat, p \in Nat \ {0} : n = 3 * T /\ p = Power(C, n)
  <2>1. 3 * T \in Nat
    OBVIOUS
  <2> QED
    BY <2>1, PowerIs
<1>8. Power(C, n + 1) = C * p /\ Size(ChunkBase, Chunks) = C * p /\ n \in Chunks /\ Chunks = 0..n
  BY <1>1, <1>7, PowerIs, ChunkFacts DEF Chunks
<1>9. \A w \in {a, b, z} :
         /\ Number(w, C) = UpTo(w, C, n + 1)
         /\ UpTo(w, C, n) \in Nat /\ w[n] \in Nat
         /\ UpTo(w, C, n + 1) = UpTo(w, C, n) + w[n] * p
         /\ UpTo(w, C, n + 1) \in 0..(C * p - 1)
  <2>1. ASSUME NEW w \in {a, b, z}
        PROVE  /\ Number(w, C) = UpTo(w, C, n + 1)
               /\ UpTo(w, C, n) \in Nat /\ w[n] \in Nat
               /\ UpTo(w, C, n + 1) = UpTo(w, C, n) + w[n] * p
               /\ UpTo(w, C, n + 1) \in 0..(C * p - 1)
    <3>1. w \in [0..n -> 0..(C - 1)] /\ DOMAIN w = 0..n /\ \A i \in 0..n : w[i] \in Nat
      BY <1>2, <1>8
    <3>2. Number(w, C) = UpTo(w, C, n + 1)
      BY <1>7, <3>1, NumberIsUpTo
    <3>3. UpTo(w, C, n) \in Nat /\ UpTo(w, C, n + 1) = UpTo(w, C, n) + w[n] * Power(C, n)
      BY <1>7, <3>1, UpToUnfolds
    <3>4. UpTo(w, C, n + 1) \in 0..(Power(C, n + 1) - 1)
      <4>1. n + 1 \in 0..(n + 1)
        OBVIOUS
      <4> QED
        BY <1>7, <3>1, <4>1, NumberFits
    <3> QED
      BY <1>7, <1>8, <3>1, <3>2, <3>3, <3>4
  <2> QED
    BY <2>1
<1>10. PICK x \in Nat, y \in Nat, s \in Nat, ua \in Nat, ub \in Nat, us \in Nat :
         /\ x = a[n] /\ y = b[n] /\ s = z[n]
         /\ ua = UpTo(a, C, n) /\ ub = UpTo(b, C, n) /\ us = UpTo(z, C, n)
  BY <1>9
<1>11. PICK c \in {0, 1}, e \in {0, 1} : c = Carried(carry, T) /\ e = carry[T]
  <2>1. T \in 0..T /\ T - 1 \in 0..T
    BY <1>1, ChunkFacts
  <2> QED
    BY <1>3, <2>1 DEF Carried
<1>12. c + x + y = s + e * C
  BY <1>1, <1>7, <1>10, <1>11, SumGatesMean
<1>13. ua + ub = us + c * p
  BY <1>6, <1>7, <1>10, <1>11 DEF P
<1>14. PICK m \in Nat \ {0} : m = C * p
  OBVIOUS
<1>15. PICK t \in 0..(m - 1) : t = us + s * p
  BY <1>9, <1>10, <1>14
<1>16. (ua + x * p) + (ub + y * p) = m * e + t
  <2>1. PICK xp \in Int, yp \in Int, sp \in Int, cp \in Int, f \in Int :
           xp = x * p /\ yp = y * p /\ sp = s * p /\ cp = c * p /\ f = m * e
    BY <1>11
  <2>2. (c + x + y) * p = c * p + x * p + y * p
    BY <1>11
  <2>3. (s + e * C) * p = s * p + m * e
    BY <1>11, <1>14
  <2>4. cp + xp + yp = sp + f
    BY <1>12, <2>1, <2>2, <2>3
  <2> QED
    BY <1>13, <1>14, <1>15, <2>1, <2>4
<1>17. ((ua + x * p) + (ub + y * p)) % m = t
  <2>1. PICK k \in Int : k = (ua + x * p) + (ub + y * p)
    OBVIOUS
  <2>2. e \in Int /\ k = m * e + t /\ m \in Nat \ {0} /\ t \in 0..(m - 1)
    BY <1>11, <1>14, <1>16, <1>15, <2>1
  <2> QED
    BY <2>1, <2>2, RemainderIsUnique
<1>18. Number(a, C) = ua + x * p /\ Number(b, C) = ub + y * p /\ Number(z, C) = t
  BY <1>9, <1>10, <1>15
<1> QED
  BY <1>1, <1>8, <1>14, <1>17, <1>18

(* What generate_assignments computes carry by carry.                      *)
LEMMA CarriesAre ==
    ASSUME NEW a, NEW b, \A i \in Chunks : a[i] \in Nat /\ b[i] \in Nat
    PROVE  /\ Carries(a, b) \in [0..Triples -> {0, 1}]
           /\ \A g \in 0..(Triples - 1) :
                 Carries(a, b)[g] =
                    IF Carried(Carries(a, b), g) + Triple(a, g) + Triple(b, g) >= Cubed(ChunkBase)
                    THEN 1 ELSE 0
           /\ Carries(a, b)[Triples] =
                 IF Carried(Carries(a, b), Triples) + a[3 * Triples] + b[3 * Triples] >= ChunkBase
                 THEN 1 ELSE 0
<1> DEFINE value(c, g) ==
              IF g < Triples
              THEN IF c + Triple(a, g) + Triple(b, g) >= Cubed(ChunkBase) THEN 1 ELSE 0
              ELSE IF c + a[3 * g] + b[3 * g] >= ChunkBase THEN 1 ELSE 0
           Is(f) == f = [g \in 0..Triples |->
                            LET before == IF g = 0 THEN 0 ELSE f[g - 1] IN
                            IF g < Triples
                            THEN IF before + Triple(a, g) + Triple(b, g) >= Cubed(ChunkBase) THEN 1 ELSE 0
                            ELSE IF before + a[3 * g] + b[3 * g] >= ChunkBase THEN 1 ELSE 0]
           first == value(0, 0)
           step == [x \in (1..Triples) \X {0, 1} |-> value(x[2], x[1])]
<1>1. \A c, g : value(c, g) \in {0, 1}
  OBVIOUS
<1>2. \A f : Is(f) <=> f = [g \in 0..Triples |-> value(IF g = 0 THEN 0 ELSE f[g - 1], g)]
  OBVIOUS
<1>3. Carries(a, b) = CHOOSE f : Is(f)
  BY DEF Carries
<1>4. /\ \A c, g : g < Triples =>
              value(c, g) = IF c + Triple(a, g) + Triple(b, g) >= Cubed(ChunkBase) THEN 1 ELSE 0
      /\ \A c : value(c, Triples) =
              IF c + a[3 * Triples] + b[3 * Triples] >= ChunkBase THEN 1 ELSE 0
  <2>1. ~(Triples < Triples)
    BY ChunkFacts
  <2> QED
    BY <2>1
<1> HIDE DEF value, Is
<1>5. first \in {0, 1} /\ step \in [(1..Triples) \X {0, 1} -> {0, 1}]
  BY <1>1
<1>6. Triples \in Nat
  BY ChunkFacts
<1>7. PICK f : Counted(f, Triples, first, step)
  BY <1>6, CountedFunctionExists
<1>8. f \in [0..Triples -> {0, 1}]
  <2> HIDE DEF first, step
  <2> QED
    BY <1>5, <1>6, <1>7, CountedFunctionType
<1>9. Is(f)
  <2>1. ASSUME NEW j \in 0..Triples PROVE f[j] = value(IF j = 0 THEN 0 ELSE f[j - 1], j)
    <3>1. f[j] = IF j = 0 THEN first ELSE step[<<j, f[j - 1]>>]
      BY <1>7 DEF Counted
    <3>2. ASSUME j # 0 PROVE step[<<j, f[j - 1]>>] = value(f[j - 1], j)
      <4>1. j \in 1..Triples /\ j - 1 \in 0..Triples
        BY <1>6, <3>2
      <4>2. <<j, f[j - 1]>> \in (1..Triples) \X {0, 1}
        BY <1>8, <4>1
      <4> QED
        BY <4>2
    <3> HIDE DEF step
    <3>3. CASE j = 0
      BY <3>1, <3>3
    <3>4. CASE j # 0
      BY <3>1, <3>2, <3>4
    <3> QED
      BY <3>3, <3>4
  <2>2. f = [j \in 0..Triples |-> f[j]]
    BY <1>8
  <2> QED
    BY <1>2, <2>1, <2>2
<1>10. PICK h : h = Carries(a, b) /\ Is(h)
  BY <1>3, <1>9
<1>11. h = [g \in 0..Triples |-> value(IF g = 0 THEN 0 ELSE h[g - 1], g)]
  BY <1>2, <1>10
<1>12. h \in [0..Triples -> {0, 1}]
  <2>1. \A g \in 0..Triples : value(IF g = 0 THEN 0 ELSE h[g - 1], g) \in {0, 1}
    BY <1>1
  <2> QED
    BY <1>11, <2>1
<1>13. \A g \in 0..Triples : h[g] = value(Carried(h, g), g)
  BY <1>11 DEF Carried
<1>14. \A g \in 0..(Triples - 1) : g \in 0..Triples /\ g < Triples
  BY <1>6
<1>15. Triples \in 0..Triples
  BY <1>6
<1> QED
  BY <1>4, <1>10, <1>12, <1>13, <1>14, <1>15

(* The digits of a sum that wraps around are those of the sum.             *)
LEMMA DigitsOfWrapped ==
    ASSUME NEW s \in Nat, NEW z \in Nat, z = s % Size(ChunkBase, Chunks),
           NEW n \in Nat, NEW k \in Nat, n + k \in 0..(3 * Triples + 1),
           NEW d \in Nat \ {0}, d = Power(ChunkBase, k)
    PROVE  (z \div Power(ChunkBase, n)) % d = (s \div Power(ChunkBase, n)) % d
<1>1. PICK C \in Nat \ {0}, p \in Nat \ {0} : C = ChunkBase /\ p = Power(C, n)
  BY ChunkFacts, PowerIs
<1>2. ASSUME NEW i \in 0..(3 * Triples + 1) PROVE z % Power(C, i) = s % Power(C, i)
  <2>1. PICK j \in Nat : i + j = 3 * Triples + 1
    <3>1. 3 * Triples + 1 - i \in Nat /\ i + (3 * Triples + 1 - i) = 3 * Triples + 1
      BY ChunkFacts
    <3> QED
      BY <3>1
  <2>2. PICK a \in Nat \ {0}, b \in Nat \ {0}, m \in Nat \ {0} :
           a = Power(C, i) /\ b = Power(C, j) /\ m = Power(C, i + j)
    <3>1. i + j \in Nat /\ i \in Nat
      BY <2>1
    <3> QED
      BY <3>1, <2>1, PowerIs
  <2>3. m = a * b
    BY <2>1, <2>2, PowerAdds
  <2>4. z = s % m
    BY <1>1, <2>1, <2>2, ChunkFacts
  <2>5. PICK q \in Int, r \in 0..(m - 1) : s = m * q + r /\ s % m = r /\ s \div m = q
    <3>1. s \in Int /\ m \in Nat \ {0}
      BY <2>2
    <3>2. \E q \in Int, r \in 0..(m - 1) : s = m * q + r /\ s % m = r /\ s \div m = q
      BY <3>1, Divided
    <3> QED
      BY <3>2
  <2>6. s = z + a * (b * q)
    <3>1. m * q = a * (b * q)
      BY <2>3, <2>5, <2>2
    <3>2. PICK f \in Int : f = m * q
      BY <2>5, <2>2
    <3> QED
      BY <2>4, <2>5, <3>1, <3>2
  <2>7. (z + a * (b * q)) % a = z % a
    <3>1. b * q \in Int /\ z \in Int /\ a \in Nat \ {0}
      BY <2>2, <2>5
    <3> QED
      BY <3>1, MultiplesVanish
  <2> QED
    BY <2>2, <2>6, <2>7
<1>3. Power(C, n + k) = p * d
  BY <1>1, PowerAdds
<1>4. n \in 0..(3 * Triples + 1)
  BY ChunkFacts
<1>5. z % (p * d) = s % (p * d) /\ z % p = s % p
  BY <1>1, <1>2, <1>3, <1>4
<1>6. /\ z % (p * d) = (z % p) + p * ((z \div p) % d)
      /\ s % (p * d) = (s % p) + p * ((s \div p) % d)
  <2>1. p \in Nat \ {0} /\ d \in Nat \ {0}
    OBVIOUS
  <2>2. ASSUME NEW v \in Nat PROVE v % (p * d) = (v % p) + p * ((v \div p) % d)
    BY <2>1, RemainderSplits DEF SplitsAt
  <2> QED
    BY <2>2
<1>7. PICK x \in Nat, y \in Nat, r \in Int :
         x = (z \div p) % d /\ y = (s \div p) % d /\ r = s % p
  <2>1. z \div p \in Int /\ s \div p \in Int
    BY Divided
  <2>2. (z \div p) % d \in 0..(d - 1) /\ (s \div p) % d \in 0..(d - 1) /\ s % p \in 0..(p - 1)
    <3>1. \A v \in Int : v % d \in 0..(d - 1)
      BY ElementRemains
    <3>2. \A v \in Int : v % p \in 0..(p - 1)
      BY ElementRemains
    <3>3. s \in Int
      OBVIOUS
    <3> QED
      BY <2>1, <3>1, <3>2, <3>3
  <2>3. 0..(d - 1) \subseteq Nat /\ 0..(p - 1) \subseteq Int
    OBVIOUS
  <2> QED
    BY <2>2, <2>3
<1>8. p * x = p * y
  <2>1. PICK f \in Int, g \in Int : f = p * x /\ g = p * y
    OBVIOUS
  <2> QED
    BY <1>5, <1>6, <1>7, <2>1
<1>9. x = y
  BY <1>8
<1> QED
  BY <1>1, <1>7, <1>9

(* The carries of generate_assignments are those of the addition of digits,*)
(* so the gates of ADD and SUB accept them.                                *)
LEMMA SumIsAccepted ==
    ASSUME NEW x \in Nat, NEW y \in Nat, NEW z \in Nat,
           z = (x + y) % Size(ChunkBase, Chunks),
           NEW r, r.a = AllChunks(x), r.b = AllChunks(y), r.r = AllChunks(z),
           r.carry = Carries(AllChunks(x), AllChunks(y))
    PROVE  SumHolds(r)
<1>0. PICK a, b, w, carry : a = r.a /\ b = r.b /\ w = r.r /\ carry = r.carry
  OBVIOUS
<1>1. PICK C \in Nat \ {0}, D \in Nat \ {0}, T \in Nat :
         /\ C = ChunkBase /\ D = Cubed(C) /\ T = Triples
         /\ a = r.a /\ b = r.b /\ w = r.r /\ carry = r.carry
  BY <1>0, ChunkFacts
<1>2. /\ a \in [Chunks -> 0..(C - 1)] /\ b \in [Chunks -> 0..(C - 1)] /\ w \in [Chunks -> 0..(C - 1)]
      /\ \A i \in Chunks : a[i] \in Nat /\ b[i] \in Nat
  BY <1>1, ChunksAre
<1>3. /\ carry \in [0..T -> {0, 1}]
      /\ \A g \in 0..(T - 1) :
            carry[g] = IF Carried(carry, g) + Triple(a, g) + Triple(b, g) >= D THEN 1 ELSE 0
      /\ carry[T] = IF Carried(carry, T) + a[3 * T] + b[3 * T] >= C THEN 1 ELSE 0
  <2>1. carry = Carries(a, b)
    BY <1>1
  <2>2. /\ Carries(a, b) \in [0..Triples -> {0, 1}]
        /\ \A g \in 0..(Triples - 1) :
              Carries(a, b)[g] =
                 IF Carried(Carries(a, b), g) + Triple(a, g) + Triple(b, g) >= Cubed(ChunkBase)
                 THEN 1 ELSE 0
        /\ Carries(a, b)[Triples] =
              IF Carried(Carries(a, b), Triples) + a[3 * Triples] + b[3 * Triples] >= ChunkBase
              THEN 1 ELSE 0
    BY <1>2, CarriesAre
  <2> QED
    BY <1>1, <2>1, <2>2
<1>4. \A g \in 0..T : Carried(carry, g) \in {0, 1}
  <2>1. \A g \in 0..T : g # 0 => g - 1 \in 0..T
    BY <1>1
  <2> QED
    BY <1>3, <2>1 DEF Carried
<1>5. ASSUME NEW g \in 0..(T - 1)
      PROVE  /\ Triple(a, g) = (x \div Power(C, 3 * g)) % D
             /\ Triple(b, g) = (y \div Power(C, 3 * g)) % D
             /\ Triple(w, g) = ((x + y) \div Power(C, 3 * g)) % D
  <2>1. Triple(a, g) = (x \div Power(C, 3 * g)) % D /\ Triple(b, g) = (y \div Power(C, 3 * g)) % D
    BY <1>1, TripleOfDigits
  <2>2. Triple(w, g) = (z \div Power(C, 3 * g)) % D
    BY <1>1, TripleOfDigits
  <2>3. D = Power(C, 3)
    BY <1>1, FirstPowers DEF Cubed
  <2>4. 3 * g \in Nat /\ 3 * g + 3 \in 0..(3 * Triples + 1)
    BY <1>1, ChunkFacts
  <2>5. PICK s \in Nat : s = x + y
    OBVIOUS
  <2>6. (z \div Power(C, 3 * g)) % D = (s \div Power(C, 3 * g)) % D
    BY <1>1, <2>3, <2>4, <2>5, DigitsOfWrapped
  <2> QED
    BY <2>1, <2>2, <2>5, <2>6
<1> DEFINE P == {g \in 0..T : (x % Power(C, 3 * g)) + (y % Power(C, 3 * g))
                                 = ((x + y) % Power(C, 3 * g)) + Carried(carry, g) * Power(C, 3 * g)}
<1>6. 0 \in P
  <2>1. 3 * 0 = 0 /\ Carried(carry, 0) = 0 /\ Power(C, 0) = 1
    BY PowerIs DEF Carried
  <2>2. \A n \in Nat : n % 1 = 0
    OBVIOUS
  <2> QED
    BY <2>1, <2>2
<1>7. ASSUME NEW g \in 0..(T - 1), g \in P
      PROVE  /\ Carried(carry, g) + Triple(a, g) + Triple(b, g) = Triple(w, g) + carry[g] * D
             /\ g + 1 \in P
  <2>1. PICK p \in Nat \ {0} : p = Power(C, 3 * g)
    <3>1. 3 * g \in Nat
      OBVIOUS
    <3> QED
      BY <3>1, PowerIs
  <2>2. PICK c \in {0, 1} : c = Carried(carry, g)
    BY <1>4
  <2>3. (x % p) + (y % p) = ((x + y) % p) + c * p
    BY <1>7, <2>1, <2>2
  <2>4. PICK e \in {0, 1} :
           /\ e = IF c + ((x \div p) % D) + ((y \div p) % D) >= D THEN 1 ELSE 0
           /\ c + ((x \div p) % D) + ((y \div p) % D) = (((x + y) \div p) % D) + e * D
           /\ (x % (p * D)) + (y % (p * D)) = ((x + y) % (p * D)) + e * (p * D)
    <3>0. CarryIs(p, x, y, c)
      BY <2>3 DEF CarryIs
    <3>1. p \in Nat \ {0} /\ D \in Nat \ {0} /\ c \in {0, 1}
      BY <2>1, <2>2
    <3>2. \E e \in {0, 1} : CarryGoesOnTo(p, D, x, y, c, e)
      BY <3>0, <3>1, CarryGoesOn
    <3> QED
      BY <3>2 DEF CarryGoesOnTo
  <2>5. e = carry[g]
    BY <1>3, <1>5, <2>1, <2>2, <2>4
  <2>6. Carried(carry, g) + Triple(a, g) + Triple(b, g) = Triple(w, g) + carry[g] * D
    BY <1>5, <2>1, <2>2, <2>4, <2>5
  <2>7. Power(C, 3 * (g + 1)) = p * D
    BY <1>1, <1>2, <2>1, TripleUnfolds
  <2>8. Carried(carry, g + 1) = e /\ g + 1 \in 0..T
    <3>1. g + 1 # 0 /\ (g + 1) - 1 = g /\ g + 1 \in 0..T
      BY <1>1
    <3> QED
      BY <2>5, <3>1 DEF Carried
  <2> QED
    BY <2>4, <2>6, <2>7, <2>8
<1> HIDE DEF P
<1>8. \A g \in 0..T : g \in P
  <2>1. ASSUME NEW j \in 1..T, j - 1 \in P PROVE j \in P
    <3>1. j - 1 \in 0..(T - 1) /\ (j - 1) + 1 = j
      BY <1>1
    <3> QED
      BY <1>7, <2>1, <3>1
  <2> QED
    BY <1>6, <2>1, CountingUp
<1>9. \A g \in 0..(T - 1) :
         Carried(carry, g) + Triple(a, g) + Triple(b, g) = Triple(w, g) + carry[g] * D
  <2>1. \A g \in 0..(T - 1) : g \in 0..T
    BY <1>1
  <2> QED
    BY <1>7, <1>8, <2>1
<1>10. Carried(carry, T) + a[3 * T] + b[3 * T] = w[3 * T] + carry[T] * C
  <2>1. PICK n \in Nat, p \in Nat \ {0} : n = 3 * T /\ p = Power(C, n)
    <3>1. 3 * T \in Nat
      OBVIOUS
    <3>2. Power(C, 3 * T) \in Nat \ {0}
      BY <3>1, PowerIs
    <3> QED
      BY <3>1, <3>2
  <2>2. PICK c \in {0, 1} : c = Carried(carry, T)
    BY <1>4
  <2>3. (x % p) + (y % p) = ((x + y) % p) + c * p
    BY <1>8, <2>1, <2>2 DEF P
  <2>4. PICK e \in {0, 1} :
           /\ e = IF c + ((x \div p) % C) + ((y \div p) % C) >= C THEN 1 ELSE 0
           /\ c + ((x \div p) % C) + ((y \div p) % C) = (((x + y) \div p) % C) + e * C
           /\ (x % (p * C)) + (y % (p * C)) = ((x + y) % (p * C)) + e * (p * C)
    <3>0. CarryIs(p, x, y, c)
      BY <2>3 DEF CarryIs
    <3>1. p \in Nat \ {0} /\ C \in Nat \ {0} /\ c \in {0, 1}
      BY <2>1, <2>2
    <3>2. \E e \in {0, 1} : CarryGoesOnTo(p, C, x, y, c, e)
      BY <3>0, <3>1, CarryGoesOn
    <3> QED
      BY <3>2 DEF CarryGoesOnTo
  <2>5. a[n] = (x \div p) % C /\ b[n] = (y \div p) % C /\ w[n] = (z \div p) % C
    BY <1>1, <2>1 DEF AllChunks, Digits, Chunks
  <2>6. (z \div p) % C = ((x + y) \div p) % C
    <3>1. C = Power(C, 1) /\ n + 1 \in 0..(3 * Triples + 1)
      <4>1. C = Power(C, 1)
        BY FirstPowers
      <4> QED
        BY <1>1, <2>1, <4>1
    <3>2. PICK s \in Nat : s = x + y
      OBVIOUS
    <3>3. (z \div Power(C, n)) % C = (s \div Power(C, n)) % C
      BY <1>1, <2>1, <3>1, <3>2, DigitsOfWrapped
    <3> QED
      BY <2>1, <3>2, <3>3
  <2>7. e = carry[T]
    BY <1>3, <2>1, <2>2, <2>4, <2>5
  <2> QED
    BY <2>1, <2>2, <2>4, <2>5, <2>6, <2>7
<1>11. \A e \in {0, 1} : E(e * (e - 1)) = 0
  <2>1. 0 * (0 - 1) = 0 /\ 1 * (1 - 1) = 0
    OBVIOUS
  <2>2. E(0 * (0 - 1)) = 0 /\ E(1 * (1 - 1)) = 0
    BY <2>1, FieldFacts
  <2> QED
    BY <2>2
<1>12. \A c, u, v, s, f \in Int : c + u + v = s + f => E(c + u + v - s - f) = 0
  <2>1. \A c, u, v, s, f \in Int : c + u + v = s + f => c + u + v - s - f = 0
    OBVIOUS
  <2> QED
    BY <2>1, FieldFacts
<1>13. ASSUME NEW g \in 0..(T - 1)
       PROVE  /\ E(Carried(carry, g) + Triple(a, g) + Triple(b, g) - Triple(w, g) - carry[g] * D) = 0
              /\ E(carry[g] * (carry[g] - 1)) = 0
  <2>1. g \in 0..T /\ carry[g] \in {0, 1} /\ Carried(carry, g) \in Int
    BY <1>3, <1>4
  <2>2. Triple(a, g) \in Int /\ Triple(b, g) \in Int /\ Triple(w, g) \in Int
    <3>1. \A q \in {a, b, w} : \A i \in Chunks : q[i] \in Nat
      BY <1>2
    <3> QED
      BY <1>1, <3>1, TripleUnfolds
  <2>3. carry[g] * D \in Int
    BY <2>1
  <2> QED
    BY <1>9, <1>11, <1>12, <2>1, <2>2, <2>3
<1>14. /\ E(Carried(carry, T) + a[3 * T] + b[3 * T] - w[3 * T] - carry[T] * C) = 0
       /\ E(carry[T] * (carry[T] - 1)) = 0
  <2>1. carry[T] \in {0, 1} /\ Carried(carry, T) \in Int
    BY <1>3, <1>4
  <2>2. 3 * T \in Chunks
    BY <1>1 DEF Chunks
  <2>3. a[3 * T] \in Int /\ b[3 * T] \in Int /\ w[3 * T] \in Int /\ carry[T] * C \in Int
    BY <1>2, <2>1, <2>2
  <2> QED
    BY <1>10, <1>11, <1>12, <2>1, <2>3
<1> QED
  BY <1>1, <1>13, <1>14 DEF SumHolds

LEMMA SumOfBounded ==
    ASSUME NEW f, NEW S, IsFiniteSet(S), NEW k \in Nat, \A x \in S : f[x] \in 0..k
    PROVE  SumFunctionOnSet(f, S) <= k * Cardinality(S)
<1> DEFINE Sum(T) == SumFunctionOnSet(f, T)
           B == {T \in SUBSET S : ~(Sum(T) <= k * Cardinality(T))}
<1> SUFFICES ASSUME B # {} PROVE FALSE
  OBVIOUS
<1>1. \A s \in B : IsFiniteSet(s)
  BY FS_Subset
<1>2. PICK T \in B : \A s \in B : Cardinality(T) <= Cardinality(s)
  BY <1>1, SmallestSet
<1>3. IsFiniteSet(T) /\ Cardinality(T) \in Nat
  BY <1>1, FS_CardinalityType
<1>4. CASE T = {}
  <2>1. Sum(T) = 0
    BY <1>4, SumOfNone
  <2>2. k * Cardinality(T) >= 0
    BY <1>3
  <2> QED
    BY <2>1, <2>2
<1>5. CASE T # {}
  <2>1. PICK x \in T : Sum(T) = f[x] + Sum(T \ {x})
    BY <1>3, <1>5, SumUnfolds
  <2>2. PICK n \in Nat : n = Cardinality(T \ {x}) /\ Cardinality(T) = n + 1 /\ IsFiniteSet(T \ {x})
    <3>1. IsFiniteSet(T \ {x}) /\ Cardinality(T \ {x}) = Cardinality(T) - 1
      BY <1>3, FS_RemoveElement
    <3>2. Cardinality(T \ {x}) \in Nat
      BY <3>1, FS_CardinalityType
    <3> QED
      BY <1>3, <3>1, <3>2
  <2>3. T \ {x} \notin B
    <3> HIDE DEF B
    <3>1. ~(Cardinality(T) <= Cardinality(T \ {x}))
      BY <2>2
    <3> QED
      BY <1>2, <3>1
  <2>4. Sum(T \ {x}) <= k * n
    BY <2>2, <2>3
  <2>5. Sum(T \ {x}) \in Int
    <3>1. \A y \in T \ {x} : f[y] \in Int
      OBVIOUS
    <3> QED
      BY <2>2, <3>1, SumIsInteger
  <2>6. PICK v \in Int, s \in Int : v = f[x] /\ v <= k /\ s = Sum(T \ {x})
    BY <2>5
  <2>7. k * (n + 1) = k * n + k
    OBVIOUS
  <2>8. PICK m \in Int : m = k * n
    OBVIOUS
  <2>9. Sum(T) <= k * Cardinality(T)
    BY <2>1, <2>2, <2>4, <2>6, <2>7, <2>8
  <2> QED
    BY <2>9
<1> QED
  BY <1>4, <1>5

(* Each term of a sum of naturals is at most the sum.                      *)
LEMMA TermIsNoLarger ==
    ASSUME NEW f, NEW S, IsFiniteSet(S), \A x \in S : f[x] \in Nat, NEW v \in S
    PROVE  f[v] <= SumFunctionOnSet(f, S)
<1>1. IsFiniteSet(S \ {v}) /\ \A x \in S \ {v} : f[x] \in Nat
  BY FS_RemoveElement
<1>2. SumFunctionOnSet(f, S \ {v}) \in Nat
  BY <1>1, SumIsNatural
<1>3. SumFunctionOnSet(f, S) = f[v] + SumFunctionOnSet(f, S \ {v})
  <2>1. \A x \in S : f[x] \in Int
    OBVIOUS
  <2> QED
    BY <2>1, SumRemove
<1>4. PICK x \in Nat, y \in Nat : x = f[v] /\ y = SumFunctionOnSet(f, S \ {v})
  BY <1>2
<1> QED
  BY <1>3, <1>4

(* A word is zero when its digits add up to zero.                          *)
LEMMA DigitSumMeans ==
    ASSUME NEW b \in Nat \ {0}, NEW m \in Nat, NEW w \in [0..m -> 0..(b - 1)]
    PROVE  /\ DigitSum(w) \in Nat /\ DigitSum(w) <= (m + 1) * b
           /\ DigitSum(w) = 0 => \A i \in 0..m : w[i] = 0
           /\ (\A i \in 0..m : w[i] = 0) => DigitSum(w) = 0
           /\ Number(w, b) = 0 <=> \A i \in 0..m : w[i] = 0
<1>1. IsFiniteSet(0..m) /\ Cardinality(0..m) = m + 1
  BY FS_Interval
<1>2. DigitSum(w) = SumFunctionOnSet(w, 0..m)
  BY DEF DigitSum
<1>3. \A i \in 0..m : w[i] \in Nat /\ w[i] \in 0..b
  OBVIOUS
<1>4. DigitSum(w) \in Nat
  BY <1>1, <1>2, <1>3, SumIsNatural
<1>5. DigitSum(w) <= (m + 1) * b
  <2>1. SumFunctionOnSet(w, 0..m) <= b * Cardinality(0..m)
    BY <1>1, <1>3, SumOfBounded
  <2>2. b * (m + 1) = (m + 1) * b
    OBVIOUS
  <2> QED
    BY <1>1, <1>2, <2>1, <2>2
<1>6. ASSUME DigitSum(w) = 0, NEW i \in 0..m PROVE w[i] = 0
  <2>1. w[i] <= SumFunctionOnSet(w, 0..m)
    BY <1>1, <1>3, TermIsNoLarger
  <2> QED
    BY <1>2, <1>3, <1>6, <2>1
<1>7. ASSUME \A i \in 0..m : w[i] = 0 PROVE DigitSum(w) = 0
  BY <1>1, <1>2, <1>7, SumOfZeros
<1> DEFINE f == [i \in DOMAIN w |-> w[i] * Power(b, i)]
<1>8. DOMAIN w = 0..m /\ Number(w, b) = SumFunctionOnSet(f, 0..m)
  BY DEF Number
<1>9. \A i \in 0..m : f[i] = w[i] * Power(b, i) /\ Power(b, i) \in Nat \ {0}
  BY PowerIs
<1> HIDE DEF f
<1>10. \A i \in 0..m : f[i] \in Nat
  BY <1>3, <1>9
<1>11. ASSUME Number(w, b) = 0, NEW i \in 0..m PROVE w[i] = 0
  <2>1. f[i] <= SumFunctionOnSet(f, 0..m)
    BY <1>1, <1>10, TermIsNoLarger
  <2>2. f[i] = 0
    BY <1>8, <1>10, <1>11, <2>1
  <2>3. PICK x \in Nat, p \in Nat \ {0} : x = w[i] /\ p = Power(b, i)
    BY <1>3, <1>9
  <2>4. x * p = 0
    BY <1>9, <2>2, <2>3
  <2> QED
    BY <2>3, <2>4
<1>12. ASSUME \A i \in 0..m : w[i] = 0 PROVE Number(w, b) = 0
  <2>1. \A i \in 0..m : f[i] = 0
    <3>1. \A p \in Nat : 0 * p = 0
      OBVIOUS
    <3> QED
      BY <1>9, <1>12, <3>1
  <2> QED
    BY <1>1, <1>8, <2>1, SumOfZeros
<1> QED
  BY <1>4, <1>5, <1>6, <1>7, <1>11, <1>12

(* The inverse that ISZERO and DIV put into their rows.                    *)
LEMMA InvertedIs ==
    ASSUME NEW x \in Int
    PROVE  /\ Inverted(x) \in Residue /\ Inverted(x) \in Int
           /\ E(x) = 0 => Inverted(x) = 0
           /\ E(x) # 0 => E(x * Inverted(x) - 1) = 0
<1>1. PICK N \in Nat \ {0} : N = FieldSize /\ N > 2 /\ IsField(N)
  BY FieldFacts
<1>2. Residue = 0..(N - 1) /\ \A z : E(z) = z % N
  BY <1>1 DEF Residue, E
<1>3. \A z \in Residue : z \in Int
  BY <1>2
<1>4. CASE E(x) = 0
  <2>1. Inverted(x) = 0
    BY <1>4 DEF Inverted
  <2> QED
    BY <1>1, <1>2, <1>4, <2>1
<1>5. CASE E(x) # 0
  <2>1. PICK u \in 1..(N - 1) : u = x % N
    <3>1. x % N \in 0..(N - 1)
      BY ElementRemains
    <3> QED
      BY <1>2, <1>5, <3>1
  <2>2. PICK y \in 0..(N - 1) : (u * y) % N = 1
    BY <1>1, <2>1 DEF IsField
  <2>3. y \in Int /\ (x * y) % N = 1
    <3>1. y \in Int
      OBVIOUS
    <3> QED
      BY <2>1, <2>2, <3>1, ProductOfRemainder
  <2>4. \E y0 \in Residue : E(x * y0) = 1
    BY <1>2, <2>3
  <2>5. PICK i \in Residue : i = Inverted(x) /\ E(x * i) = 1
    <3>1. Inverted(x) = CHOOSE y0 \in Residue : E(x * y0) = 1
      BY <1>5 DEF Inverted
    <3> HIDE DEF E
    <3> QED
      BY <2>4, <3>1
  <2>6. (x * i - 1) % N = 0
    <3>1. PICK z \in Int : z = x * i /\ z % N = 1
      BY <1>2, <1>3, <2>5
    <3>2. PICK k \in Int : k = -1
      OBVIOUS
    <3>3. (z + k) % N = ((z % N) + k) % N
      BY SumOfRemainder
    <3>5. (z % N) + k = 0 /\ z + k = z - 1
      BY <3>1, <3>2
    <3>4. 0 % N = 0
      BY <1>1, FieldFacts DEF E
    <3> QED
      BY <3>1, <3>3, <3>4, <3>5
  <2> QED
    BY <1>2, <1>3, <1>5, <2>5, <2>6
<1> QED
  BY <1>4, <1>5

-----------------------------------------------------------------------------
(* ISZERO                                                                  *)

(* The sum of all chunks does not wrap around in the field.                *)
LEMMA ChunkSum ==
    ASSUME NEW w \in [Chunks -> 0..(ChunkBase - 1)]
    PROVE  /\ DigitSum(w) \in 0..(FieldSize - 1)
           /\ DigitSum(w) = 0 <=> Number(w, ChunkBase) = 0
<1>1. PICK C \in Nat \ {0}, m \in Nat : C = ChunkBase /\ m = 3 * Triples /\ Chunks = 0..m
  BY ChunkFacts DEF Chunks
<1>2. /\ DigitSum(w) \in Nat /\ DigitSum(w) <= (m + 1) * C
      /\ DigitSum(w) = 0 <=> Number(w, C) = 0
  BY <1>1, DigitSumMeans
<1>3. (m + 1) * C < FieldSize
  <2>1. FieldSize > (3 * Triples + 1) * ChunkBase
    BY SizesAssumption
  <2>2. FieldSize \in Int
    BY FieldFacts
  <2> QED
    BY <1>1, <2>1, <2>2
<1>4. PICK n \in Int : n = (m + 1) * C
  OBVIOUS
<1> QED
  BY <1>1, <1>2, <1>3, <1>4, FieldFacts

(* Whatever inverse it claims, an accepted row of ISZERO says whether the  *)
(* word is zero.                                                           *)
LEMMA IsZeroMeans ==
    ASSUME NEW r, r.a \in [Chunks -> 0..(ChunkBase - 1)], r.result \in Residue, r.inverse \in Residue,
           IsZeroHolds(r)
    PROVE  r.result = IF Number(r.a, ChunkBase) = 0 THEN 1 ELSE 0
<1>1. PICK N \in Nat \ {0} : N = FieldSize /\ N > 2 /\ IsField(N)
  BY FieldFacts
<1>2. PICK s \in 0..(N - 1) : s = DigitSum(r.a) /\ (s = 0 <=> Number(r.a, ChunkBase) = 0)
  BY <1>1, ChunkSum
<1>3. PICK z \in 0..(N - 1), i \in 0..(N - 1) : z = r.result /\ i = r.inverse
  BY <1>1 DEF Residue
<1>4. E(s * i + z - 1) = 0 /\ E(s * z) = 0
  BY <1>2, <1>3 DEF IsZeroHolds
<1>5. CASE s = 0
  <2>1. s * i + z - 1 = z - 1 /\ z - 1 \in Int /\ -N < z - 1 /\ z - 1 < N
    BY <1>1, <1>5
  <2>2. z - 1 = 0
    BY <1>1, <1>4, <2>1, FieldFacts
  <2>3. z = 1
    BY <2>2
  <2> QED
    BY <1>2, <1>3, <1>5, <2>3
<1>6. CASE s # 0
  <2>1. s \in Int /\ z \in Int /\ (s * z) % N = 0
    BY <1>1, <1>4 DEF E
  <2>2. s % N = 0 \/ z % N = 0
    BY <1>1, <2>1, FactorIsZero
  <2>3. s % N = s /\ z % N = z
    BY ElementRemains
  <2> QED
    BY <1>2, <1>3, <1>6, <2>2, <2>3
<1> QED
  BY <1>5, <1>6

LEMMA IsZeroIsAccepted ==
    ASSUME NEW a \in Operand
    PROVE  IsZeroHolds(IsZeroRow(a))
<1>1. a \in Nat /\ a < Size(ChunkBase, Chunks)
  <2>1. PICK n \in Nat : n = Size(ChunkBase, Chunks)
    <3>1. 3 * Triples + 1 \in Nat
      BY ChunkFacts
    <3> QED
      BY <3>1, ChunkFacts, PowerIs
  <2> QED
    BY <2>1, OperandAssumption
<1>2. PICK w : w = AllChunks(a)
  OBVIOUS
<1>3. w \in [Chunks -> 0..(ChunkBase - 1)] /\ Number(w, ChunkBase) = a
  BY <1>1, <1>2, ChunksAre
<1>4. PICK s \in Int : s = DigitSum(w) /\ s \in 0..(FieldSize - 1) /\ (s = 0 <=> a = 0)
  <2>1. DigitSum(w) \in 0..(FieldSize - 1) /\ (DigitSum(w) = 0 <=> a = 0)
    BY <1>3, ChunkSum
  <2> QED
    BY <2>1
<1>5. E(s) = s
  BY <1>4, FieldFacts, ElementRemains DEF E
<1>6. PICK i \in Int : i = Inverted(s) /\ (s = 0 => i = 0) /\ (s # 0 => E(s * i - 1) = 0)
  BY <1>5, InvertedIs
<1>7. PICK z \in {0, 1} : z = (IF a = 0 THEN 1 ELSE 0)
  OBVIOUS
<1>8. E(s * i + z - 1) = 0 /\ E(s * z) = 0
  <2>1. CASE a = 0
    <3>1. s = 0 /\ i = 0 /\ z = 1
      BY <1>4, <1>6, <1>7, <2>1
    <3>2. s * i + z - 1 = 0 /\ s * z = 0
      BY <3>1
    <3> QED
      BY <3>2, FieldFacts
  <2>2. CASE a # 0
    <3>1. s # 0 /\ z = 0
      BY <1>4, <1>7, <2>2
    <3>2. s * i + z - 1 = s * i - 1 /\ s * z = 0
      BY <3>1
    <3> QED
      BY <1>6, <3>1, <3>2, FieldFacts
  <2> QED
    BY <2>1, <2>2
<1> DEFINE r == IsZeroRow(a)
<1>9. r.a = w /\ r.result = z /\ r.inverse = i
  BY <1>2, <1>4, <1>6, <1>7 DEF IsZeroRow
<1> HIDE DEF r
<1>10. IsZeroHolds(r)
  BY <1>4, <1>8, <1>9 DEF IsZeroHolds
<1> QED
  BY <1>10 DEF r

-----------------------------------------------------------------------------
(* MUL and DIV: words of four limbs                                        *)

LEMMA LimbFacts ==
    /\ LimbBase \in Nat \ {0} /\ LimbBase > 1
    /\ Squared(LimbBase) \in Nat \ {0} /\ Cubed(LimbBase) \in Nat \ {0}
    /\ Size(LimbBase, Limbs) = Power(LimbBase, 4)
    /\ Size(LimbBase, Limbs) = Squared(LimbBase) * Squared(LimbBase)
    /\ Size(LimbBase, Limbs) \in Nat \ {0}
    /\ FieldSize > 4 * Cubed(LimbBase)
<1>1. LimbBase \in Nat \ {0} /\ LimbBase > 1
  BY SizesAssumption
<1>2. Cardinality(Limbs) = 4
  <2>1. PICK n \in Int : n = 3
    OBVIOUS
  <2>2. Cardinality(0..n) = IF 0 > n THEN 0 ELSE n - 0 + 1
    BY FS_Interval
  <2> QED
    BY <2>1, <2>2 DEF Limbs
<1>3. PICK B \in Nat \ {0} : B = LimbBase
  BY <1>1
<1>4. Power(B, 4) = B * B * B * B
  BY FirstPowers
<1>5. B * B * B * B = (B * B) * (B * B)
  OBVIOUS
<1>6. B * B \in Nat \ {0} /\ B * B * B \in Nat \ {0} /\ (B * B) * (B * B) \in Nat \ {0}
  OBVIOUS
<1> QED
  BY <1>1, <1>2, <1>3, <1>4, <1>5, <1>6, SizesAssumption DEF Size, Squared, Cubed

LEMMA WordIs ==
    ASSUME NEW w \in LimbWord
    PROVE  /\ Word(w) = w[0] + w[1] * LimbBase + w[2] * Squared(LimbBase) + w[3] * Cubed(LimbBase)
           /\ Word(w) \in 0..(Size(LimbBase, Limbs) - 1)
           /\ Word(w) = 0 <=> \A i \in Limbs : w[i] = 0
<1>1. PICK B \in Nat \ {0} : B = LimbBase
  BY LimbFacts
<1>2. w \in [0..3 -> 0..(B - 1)] /\ DOMAIN w = 0..3 /\ \A i \in 0..3 : w[i] \in Nat
  BY <1>1 DEF LimbWord, Limbs
<1>3. Word(w) = UpTo(w, B, 3 + 1)
  BY <1>1, <1>2, NumberIsUpTo DEF Word
<1>4. \A n \in 0..3 : UpTo(w, B, n) \in Nat /\ UpTo(w, B, n + 1) = UpTo(w, B, n) + w[n] * Power(B, n)
  <2>1. ASSUME NEW n \in 0..3
        PROVE  UpTo(w, B, n) \in Nat /\ UpTo(w, B, n + 1) = UpTo(w, B, n) + w[n] * Power(B, n)
    <3>1. n \in Nat /\ \A i \in 0..n : w[i] \in Nat
      BY <1>2
    <3> QED
      BY <3>1, UpToUnfolds
  <2> QED
    BY <2>1
<1>5. UpTo(w, B, 0) = 0
  BY UpToNone
<1>6. /\ UpTo(w, B, 1) = UpTo(w, B, 0) + w[0] * Power(B, 0)
      /\ UpTo(w, B, 2) = UpTo(w, B, 1) + w[1] * Power(B, 1)
      /\ UpTo(w, B, 3) = UpTo(w, B, 2) + w[2] * Power(B, 2)
      /\ UpTo(w, B, 3 + 1) = UpTo(w, B, 3) + w[3] * Power(B, 3)
  <2>1. /\ UpTo(w, B, 0 + 1) = UpTo(w, B, 0) + w[0] * Power(B, 0)
        /\ UpTo(w, B, 1 + 1) = UpTo(w, B, 1) + w[1] * Power(B, 1)
        /\ UpTo(w, B, 2 + 1) = UpTo(w, B, 2) + w[2] * Power(B, 2)
        /\ UpTo(w, B, 3 + 1) = UpTo(w, B, 3) + w[3] * Power(B, 3)
    BY <1>4
  <2>2. 0 + 1 = 1 /\ 1 + 1 = 2 /\ 2 + 1 = 3
    OBVIOUS
  <2> QED
    BY <2>1, <2>2
<1>7. PICK a \in Nat, b \in Nat, c \in Nat, d \in Nat : a = w[0] /\ b = w[1] /\ c = w[2] /\ d = w[3]
  BY <1>2
<1>8. /\ UpTo(w, B, 1) = a /\ UpTo(w, B, 2) = a + b * B
      /\ UpTo(w, B, 3) = a + b * B + c * (B * B)
      /\ UpTo(w, B, 3 + 1) = a + b * B + c * (B * B) + d * (B * B * B)
  <2>1. /\ Power(B, 0) = 1 /\ Power(B, 1) = B /\ Power(B, 2) = B * B
        /\ Power(B, 3) = B * B * B
    BY FirstPowers
  <2>2. /\ UpTo(w, B, 1) = 0 + a * 1
        /\ UpTo(w, B, 2) = UpTo(w, B, 1) + b * B
        /\ UpTo(w, B, 3) = UpTo(w, B, 2) + c * (B * B)
        /\ UpTo(w, B, 3 + 1) = UpTo(w, B, 3) + d * (B * B * B)
    BY <1>5, <1>6, <1>7, <2>1
  <2>3. 0 + a * 1 = a
    OBVIOUS
  <2> QED
    BY <2>2, <2>3
<1>9. Word(w) \in 0..(Size(LimbBase, Limbs) - 1)
  <2>1. \A n \in 0..(3 + 1) : UpTo(w, B, n) \in 0..(Power(B, n) - 1)
    BY <1>2, NumberFits
  <2>2. UpTo(w, B, 4) \in 0..(Power(B, 4) - 1) /\ 3 + 1 = 4
    BY <2>1
  <2> QED
    BY <1>1, <1>3, <2>2, LimbFacts
<1>10. Word(w) = 0 <=> \A i \in Limbs : w[i] = 0
  <2>1. Number(w, B) = 0 <=> \A i \in 0..3 : w[i] = 0
    BY <1>2, DigitSumMeans
  <2> QED
    BY <1>1, <2>1 DEF Word, Limbs
<1> QED
  BY <1>1, <1>3, <1>7, <1>8, <1>9, <1>10 DEF Squared, Cubed

LEMMA LimbsAre ==
    ASSUME NEW n \in 0..(Size(LimbBase, Limbs) - 1)
    PROVE  AllLimbs(n) \in LimbWord /\ Word(AllLimbs(n)) = n
<1>1. PICK B \in Nat \ {0} : B = LimbBase
  BY LimbFacts
<1>2. n \in Nat /\ n \in 0..(Power(B, 3 + 1) - 1)
  <2>1. 3 + 1 = 4
    OBVIOUS
  <2>2. n \in 0..(Power(B, 4) - 1)
    BY <1>1, LimbFacts
  <2>3. n \in Nat
    BY LimbFacts
  <2> QED
    BY <2>1, <2>2, <2>3
<1>3. AllLimbs(n) = Digits(n, B, 0..3)
  BY <1>1 DEF AllLimbs, Limbs
<1>4. Digits(n, B, 0..3) \in [0..3 -> 0..(B - 1)]
  BY <1>2, DigitsAre
<1>5. Number(Digits(n, B, 0..3), B) = n
  BY <1>2, DigitsMean
<1> QED
  BY <1>1, <1>3, <1>4, <1>5 DEF LimbWord, Limbs, Word

LEMMA Scales ==
    ASSUME NEW b \in Nat, NEW x \in Int, NEW y \in Int, x <= y
    PROVE  b * x <= b * y
<1>1. PICK d \in Nat : d = y - x
  OBVIOUS
<1>2. b * d >= 0
  OBVIOUS
<1>3. b * (x + d) = b * x + b * d
  OBVIOUS
<1>4. x + d = y
  BY <1>1
<1>5. PICK u \in Int, v \in Int : u = b * x /\ v = b * d
  OBVIOUS
<1> QED
  BY <1>2, <1>3, <1>4, <1>5

LEMMA ProductOfLimbs ==
    ASSUME NEW B \in Nat \ {0}, NEW x \in 0..(B - 1), NEW y \in 0..(B - 1)
    PROVE  x * y \in 0..((B - 1) * (B - 1))
<1>1. PICK m \in Nat : m = B - 1
  OBVIOUS
<1>2. x \in Nat /\ y \in Nat /\ x <= m /\ y <= m
  BY <1>1
<1>3. x * y >= 0 /\ x * y <= x * m
  BY <1>1, <1>2, Scales
<1>4. m * x <= m * m
  BY <1>1, <1>2, Scales
<1>5. x * m = m * x
  BY <1>1, <1>2
<1>6. PICK a \in Int, b \in Int, c \in Int : a = x * y /\ b = m * x /\ c = m * m
  BY <1>2
<1>7. x * y \in 0..(m * m)
  BY <1>3, <1>4, <1>5, <1>6
<1> QED
  BY <1>1, <1>7

(* What the gates multiply and add stays far from the field's size.        *)
LEMMA FirstBounds ==
    ASSUME NEW x \in LimbWord, NEW y \in LimbWord, NEW z \in LimbWord, NEW w \in LimbWord
    PROVE  /\ FirstCarryless(x, y, z, w) \in Int
           /\ -Squared(LimbBase) < FirstCarryless(x, y, z, w)
           /\ FirstCarryless(x, y, z, w) < 2 * Cubed(LimbBase)
<1>1. PICK B \in Nat \ {0}, m \in Nat : B = LimbBase /\ m = B - 1
  BY LimbFacts
<1>2. \A v \in {x, y, z, w} : \A i \in 0..3 : v[i] \in 0..(B - 1)
  BY <1>1 DEF LimbWord, Limbs
<1>3. PICK k \in Nat : k = m * m
  OBVIOUS
<1>4. \A i, j \in 0..3 : x[i] * y[j] \in 0..k
  BY <1>1, <1>2, <1>3, ProductOfLimbs
<1>5. PICK a \in 0..k, b \in 0..k, c \in 0..k : a = x[0] * y[0] /\ b = x[0] * y[1] /\ c = x[1] * y[0]
  BY <1>4
<1>6. PICK z0 \in 0..(B - 1), z1 \in 0..(B - 1), w0 \in 0..(B - 1), w1 \in 0..(B - 1) :
         z0 = z[0] /\ z1 = z[1] /\ w0 = w[0] /\ w1 = w[1]
  BY <1>2
<1>7. /\ a \in 0..k /\ b \in 0..k /\ c \in 0..k
      /\ z0 \in 0..m /\ z1 \in 0..m /\ w0 \in 0..m /\ w1 \in 0..m
      /\ B \in Nat /\ m \in Nat /\ k \in Nat /\ B = m + 1
  BY <1>1, <1>3, <1>5, <1>6
<1>8. FirstCarryless(x, y, z, w) = a + z0 + B * (b + c + z1) - w0 - B * w1
  BY <1>1, <1>5, <1>6 DEF FirstCarryless
<1>9. PICK s \in Int : s = b + c + z1 /\ 0 <= s /\ s <= 2 * k + m
  BY <1>7
<1>10. B * 0 <= B * s /\ B * s <= B * (2 * k + m) /\ B * 0 <= B * w1 /\ B * w1 <= B * m
  <2>1. 2 * k + m \in Int /\ 0 \in Int /\ w1 \in Int /\ s \in Int /\ m \in Int /\ B \in Nat
    BY <1>7
  <2> QED
    BY <1>7, <1>9, <2>1, Scales
<1>11. PICK Bk \in Int, Bm \in Int, Bs \in Int, Bw \in Int, BB \in Int, BBB \in Int :
         /\ Bk = B * k /\ Bm = B * m /\ Bs = B * s /\ Bw = B * w1 /\ BB = B * B /\ BBB = B * B * B
  BY <1>7, <1>9
<1>12. BB = k + 2 * m + 1 /\ Bm = k + m /\ BBB = Bk + 2 * Bm + B /\ B * (2 * k + m) = 2 * Bk + Bm /\ Bk >= 0
       /\ B * 0 = 0
  <2>1. (m + 1) * (m + 1) = m * m + 2 * m + 1 /\ (m + 1) * m = m * m + m
    OBVIOUS
  <2>2. B * (k + 2 * m + 1) = B * k + 2 * (B * m) + B
    OBVIOUS
  <2>3. B * (2 * k + m) = 2 * (B * k) + B * m
    OBVIOUS
  <2>4. B * B = k + 2 * m + 1 /\ B * m = k + m
    BY <1>3, <1>7, <2>1
  <2>5. B * B * B = B * (B * B)
    OBVIOUS
  <2>6. B * 0 = 0 /\ B * k >= 0
    OBVIOUS
  <2> QED
    BY <1>11, <2>2, <2>3, <2>4, <2>5, <2>6
<1>13. PICK f \in Int : f = a + z0 + Bs - w0 - Bw
  BY <1>7, <1>11
<1>14. /\ Bk \in Int /\ Bm \in Int /\ Bs \in Int /\ Bw \in Int /\ BB \in Int /\ BBB \in Int
       /\ 0 <= Bs /\ Bs <= 2 * Bk + Bm /\ 0 <= Bw /\ Bw <= Bm
  BY <1>10, <1>11, <1>12
<1>15. -BB < f
  BY <1>7, <1>12, <1>13, <1>14
<1>16. f < 2 * BBB
  BY <1>7, <1>12, <1>13, <1>14
<1>17. f = FirstCarryless(x, y, z, w)
  BY <1>8, <1>9, <1>11, <1>13
<1>18. Squared(LimbBase) = BB /\ Cubed(LimbBase) = BBB
  BY <1>1, <1>11 DEF Squared, Cubed
<1> QED
  BY <1>13, <1>15, <1>16, <1>17, <1>18

LEMMA SecondBounds ==
    ASSUME NEW x \in LimbWord, NEW y \in LimbWord, NEW z \in LimbWord, NEW w \in LimbWord
    PROVE  /\ SecondCarryless(x, y, z, w) \in Int
           /\ -Squared(LimbBase) < SecondCarryless(x, y, z, w)
           /\ SecondCarryless(x, y, z, w) + 2 * LimbBase < 4 * Cubed(LimbBase)
<1>1. PICK B \in Nat \ {0}, m \in Nat : B = LimbBase /\ m = B - 1
  BY LimbFacts
<1>2. \A v \in {x, y, z, w} : \A i \in 0..3 : v[i] \in 0..(B - 1)
  BY <1>1 DEF LimbWord, Limbs
<1>3. PICK k \in Nat : k = m * m
  OBVIOUS
<1>4. \A i, j \in 0..3 : x[i] * y[j] \in 0..k
  BY <1>1, <1>2, <1>3, ProductOfLimbs
<1>5. PICK a \in 0..k, b \in 0..k, c \in 0..k : a = x[0] * y[2] /\ b = x[1] * y[1] /\ c = x[2] * y[0]
  BY <1>4
<1>6. PICK d \in 0..k, e \in 0..k, g \in 0..k, h \in 0..k :
         d = x[0] * y[3] /\ e = x[1] * y[2] /\ g = x[2] * y[1] /\ h = x[3] * y[0]
  BY <1>4
<1>7. PICK z2 \in 0..(B - 1), z3 \in 0..(B - 1), w2 \in 0..(B - 1), w3 \in 0..(B - 1) :
         z2 = z[2] /\ z3 = z[3] /\ w2 = w[2] /\ w3 = w[3]
  BY <1>2
<1>8. /\ a \in 0..k /\ b \in 0..k /\ c \in 0..k /\ d \in 0..k /\ e \in 0..k /\ g \in 0..k /\ h \in 0..k
      /\ z2 \in 0..m /\ z3 \in 0..m /\ w2 \in 0..m /\ w3 \in 0..m
      /\ B \in Nat /\ m \in Nat /\ k \in Nat /\ B = m + 1
  BY <1>1, <1>3, <1>5, <1>6, <1>7
<1>9. PICK r \in Int, s \in Int :
        /\ r = a + b + c + z2 - w2 /\ -m <= r /\ r <= 3 * k + m
        /\ s = d + e + g + h + z3 - w3 /\ -m <= s /\ s <= 4 * k + m
  BY <1>8
<1>10. SecondCarryless(x, y, z, w) = r + B * s
  BY <1>1, <1>5, <1>6, <1>7, <1>9 DEF SecondCarryless
<1>11. B * (-m) <= B * s /\ B * s <= B * (4 * k + m)
  <2>1. 4 * k + m \in Int /\ -m \in Int /\ s \in Int /\ B \in Nat
    BY <1>8, <1>9
  <2> QED
    BY <1>9, <2>1, Scales
<1>12. PICK Bk \in Int, Bm \in Int, Bs \in Int, BB \in Int, BBB \in Int :
         /\ Bk = B * k /\ Bm = B * m /\ Bs = B * s /\ BB = B * B /\ BBB = B * B * B
  BY <1>8, <1>9
<1>13. /\ BB = k + 2 * m + 1 /\ Bm = k + m /\ BBB = Bk + 2 * Bm + B
       /\ B * (4 * k + m) = 4 * Bk + Bm /\ B * (-m) = -Bm
  <2>1. (m + 1) * (m + 1) = m * m + 2 * m + 1 /\ (m + 1) * m = m * m + m
    OBVIOUS
  <2>2. B * (k + 2 * m + 1) = B * k + 2 * (B * m) + B
    OBVIOUS
  <2>3. B * (4 * k + m) = 4 * (B * k) + B * m /\ B * (-m) = -(B * m)
    OBVIOUS
  <2>4. B * B = k + 2 * m + 1 /\ B * m = k + m
    BY <1>3, <1>8, <2>1
  <2>5. B * B * B = B * (B * B)
    OBVIOUS
  <2> QED
    BY <1>12, <2>2, <2>3, <2>4, <2>5
<1>14. PICK f \in Int : f = r + Bs
  BY <1>9, <1>12
<1>15. /\ r \in Int /\ Bk \in Int /\ Bm \in Int /\ Bs \in Int /\ BB \in Int /\ BBB \in Int
       /\ -Bm <= Bs /\ Bs <= 4 * Bk + Bm /\ -m <= r /\ r <= 3 * k + m
  BY <1>9, <1>11, <1>12, <1>13
<1>16. -BB < f
  BY <1>8, <1>13, <1>14, <1>15
<1>17. f + 2 * B < 4 * BBB
  BY <1>8, <1>13, <1>14, <1>15
<1>18. f = SecondCarryless(x, y, z, w)
  BY <1>10, <1>12, <1>14
<1>19. Squared(LimbBase) = BB /\ Cubed(LimbBase) = BBB
  BY <1>1, <1>12 DEF Squared, Cubed
<1> QED
  BY <1>1, <1>14, <1>16, <1>17, <1>18, <1>19

(* The product is what the gates see of it and multiples of a word's size. *)
LEMMA ProductSplits ==
    ASSUME NEW x \in LimbWord, NEW y \in LimbWord, NEW z \in LimbWord, NEW w \in LimbWord
    PROVE  \E u \in Int :
              Word(x) * Word(y) + Word(z) - Word(w)
                 = FirstCarryless(x, y, z, w) + Squared(LimbBase) * SecondCarryless(x, y, z, w)
                     + Size(LimbBase, Limbs) * u
<1>1. PICK B \in Nat \ {0}, S \in Nat \ {0} : B = LimbBase /\ S = B * B
  BY LimbFacts
<1>2. \A v \in {x, y, z, w} : \A i \in 0..3 : v[i] \in Int
  BY <1>1 DEF LimbWord, Limbs
<1>3. PICK x0 \in Int, x1 \in Int, x2 \in Int, x3 \in Int :
         x0 = x[0] /\ x1 = x[1] /\ x2 = x[2] /\ x3 = x[3]
  BY <1>2
<1>4. PICK y0 \in Int, y1 \in Int, y2 \in Int, y3 \in Int :
         y0 = y[0] /\ y1 = y[1] /\ y2 = y[2] /\ y3 = y[3]
  BY <1>2
<1>5. PICK z0 \in Int, z1 \in Int, z2 \in Int, z3 \in Int :
         z0 = z[0] /\ z1 = z[1] /\ z2 = z[2] /\ z3 = z[3]
  BY <1>2
<1>6. PICK w0 \in Int, w1 \in Int, w2 \in Int, w3 \in Int :
         w0 = w[0] /\ w1 = w[1] /\ w2 = w[2] /\ w3 = w[3]
  BY <1>2
<1>7. /\ Squared(LimbBase) = S /\ Cubed(LimbBase) = S * B /\ Size(LimbBase, Limbs) = S * S
  <2>1. B * B * B = (B * B) * B
    OBVIOUS
  <2> QED
    BY <1>1, <2>1, LimbFacts DEF Squared, Cubed
<1>8. PICK xl \in Int, xh \in Int, yl \in Int, yh \in Int :
         xl = x0 + x1 * B /\ xh = x2 + x3 * B /\ yl = y0 + y1 * B /\ yh = y2 + y3 * B
  OBVIOUS
<1>9. PICK zl \in Int, zh \in Int, wl \in Int, wh \in Int :
         zl = z0 + z1 * B /\ zh = z2 + z3 * B /\ wl = w0 + w1 * B /\ wh = w2 + w3 * B
  OBVIOUS
<1>10. \A i, j, k, l \in Int : i + j * B + k * S + l * (S * B) = (i + j * B) + S * (k + l * B)
  OBVIOUS
<1>11. Word(x) = xl + S * xh
  <2>1. Word(x) = x0 + x1 * B + x2 * S + x3 * (S * B)
    BY <1>1, <1>3, <1>7, WordIs
  <2> QED
    BY <1>8, <1>10, <2>1
<1>12. Word(y) = yl + S * yh
  <2>1. Word(y) = y0 + y1 * B + y2 * S + y3 * (S * B)
    BY <1>1, <1>4, <1>7, WordIs
  <2> QED
    BY <1>8, <1>10, <2>1
<1>13. Word(z) = zl + S * zh
  <2>1. Word(z) = z0 + z1 * B + z2 * S + z3 * (S * B)
    BY <1>1, <1>5, <1>7, WordIs
  <2> QED
    BY <1>9, <1>10, <2>1
<1>14. Word(w) = wl + S * wh
  <2>1. Word(w) = w0 + w1 * B + w2 * S + w3 * (S * B)
    BY <1>1, <1>6, <1>7, WordIs
  <2> QED
    BY <1>9, <1>10, <2>1
<1>15. PICK p \in Int, q \in Int, v \in Int, t \in Int :
         /\ p = x0 * y0 + B * (x0 * y1 + x1 * y0)
         /\ q = (x0 * y2 + x2 * y0) + B * (x0 * y3 + x1 * y2 + x2 * y1 + x3 * y0)
         /\ v = x1 * y3 + x3 * y1 /\ t = x1 * y1
  OBVIOUS
<1>16. xl * yl = p + S * t
  BY <1>1, <1>8, <1>15
<1>17. xl * yh + xh * yl = q + S * v
  <2>1. xl * yh = x0 * y2 + B * (x0 * y3 + x1 * y2) + S * (x1 * y3)
    BY <1>1, <1>8
  <2>2. xh * yl = x2 * y0 + B * (x2 * y1 + x3 * y0) + S * (x3 * y1)
    BY <1>1, <1>8
  <2>3. S * v = S * (x1 * y3) + S * (x3 * y1)
    BY <1>15
  <2>4. q = x0 * y2 + x2 * y0 + B * (x0 * y3 + x1 * y2) + B * (x2 * y1 + x3 * y0)
    BY <1>15
  <2>5. PICK a \in Int, b \in Int, c \in Int, d \in Int, e \in Int, f \in Int :
           /\ a = B * (x0 * y3 + x1 * y2) /\ b = S * (x1 * y3)
           /\ c = B * (x2 * y1 + x3 * y0) /\ d = S * (x3 * y1)
           /\ e = x0 * y2 /\ f = x2 * y0
    OBVIOUS
  <2> QED
    BY <2>1, <2>2, <2>3, <2>4, <2>5
<1>18. PICK f \in Int, s \in Int : f = p + zl - wl /\ s = q + t + zh - wh
  BY <1>9, <1>15
<1>19. f = FirstCarryless(x, y, z, w)
  <2>1. FirstCarryless(x, y, z, w)
           = x0 * y0 + z0 + B * (x0 * y1 + x1 * y0 + z1) - w0 - B * w1
    BY <1>1, <1>3, <1>4, <1>5, <1>6 DEF FirstCarryless
  <2>2. PICK a \in Int, b \in Int : a = x0 * y0 /\ b = x0 * y1 + x1 * y0
    OBVIOUS
  <2>3. B * (b + z1) = B * b + z1 * B /\ B * w1 = w1 * B
    OBVIOUS
  <2>4. PICK c \in Int, d \in Int, e \in Int : c = B * b /\ d = z1 * B /\ e = w1 * B
    OBVIOUS
  <2> QED
    BY <1>9, <1>15, <1>18, <2>1, <2>2, <2>3, <2>4
<1>20. s = SecondCarryless(x, y, z, w)
  <2>1. SecondCarryless(x, y, z, w)
           = (x0 * y2 + x1 * y1 + x2 * y0 + z2 - w2)
               + B * (x0 * y3 + x1 * y2 + x2 * y1 + x3 * y0 + z3 - w3)
    BY <1>1, <1>3, <1>4, <1>5, <1>6 DEF SecondCarryless
  <2>2. PICK a \in Int, c \in Int, b \in Int :
           a = x0 * y2 /\ c = x2 * y0 /\ b = x0 * y3 + x1 * y2 + x2 * y1 + x3 * y0
    OBVIOUS
  <2>3. B * (b + z3 - w3) = B * b + z3 * B - w3 * B
    OBVIOUS
  <2>4. PICK e \in Int, g \in Int, h \in Int : e = B * b /\ g = z3 * B /\ h = w3 * B
    OBVIOUS
  <2> QED
    BY <1>9, <1>15, <1>18, <2>1, <2>2, <2>3, <2>4
<1>21. (xl + S * xh) * (yl + S * yh) = xl * yl + S * (xl * yh + xh * yl) + (S * S) * (xh * yh)
  OBVIOUS
<1>22. (xl + S * xh) * (yl + S * yh) = (p + S * t) + S * (q + S * v) + (S * S) * (xh * yh)
  BY <1>16, <1>17, <1>21
<1>23. (p + S * t) + S * (q + S * v) + (S * S) * (xh * yh) + (zl + S * zh) - (wl + S * wh)
          = (p + zl - wl) + S * (q + t + zh - wh) + (S * S) * (v + xh * yh)
  OBVIOUS
<1>24. PICK u \in Int : u = v + xh * yh
  OBVIOUS
<1>25. Word(x) * Word(y) + Word(z) - Word(w) = f + S * s + (S * S) * u
  BY <1>11, <1>12, <1>13, <1>14, <1>18, <1>22, <1>23, <1>24
<1> QED
  BY <1>7, <1>19, <1>20, <1>25

(* The gates on a product mean that it is right but for multiples of the   *)
(* word's size, whatever carries they are given.                           *)
LEMMA ProductGatesMean ==
    ASSUME NEW x \in LimbWord, NEW y \in LimbWord, NEW z \in LimbWord, NEW w \in LimbWord,
           NEW c \in CarriesTried, ProductHolds(x, y, z, w, c)
    PROVE  Word(w) = Wrapped(Word(x) * Word(y) + Word(z))
<1>1. PICK B \in Nat \ {0}, S \in Nat \ {0}, T \in Nat \ {0}, N \in Nat \ {0} :
         /\ B = LimbBase /\ S = Squared(LimbBase) /\ T = Cubed(LimbBase) /\ N = FieldSize
         /\ N > 4 * T /\ S = B * B /\ T = B * S /\ Size(LimbBase, Limbs) = S * S
  <2>1. \A b \in Nat : b * b * b = b * (b * b)
    OBVIOUS
  <2> QED
    BY <2>1, LimbFacts, FieldFacts DEF Squared, Cubed
<1>2. PICK f \in Int, s \in Int : f = FirstCarryless(x, y, z, w) /\ s = SecondCarryless(x, y, z, w)
  BY FirstBounds, SecondBounds
<1>3. -S < f /\ f < 2 * T /\ -S < s /\ s + 2 * B < 4 * T
  BY <1>1, <1>2, FirstBounds, SecondBounds
<1>4. PICK c1 \in 0..(B - 1), c2 \in 0..1, c3 \in 0..(B - 1), c4 \in 0..3 :
         c1 = c[1] /\ c2 = c[2] /\ c3 = c[3] /\ c4 = c[4]
  BY <1>1 DEF CarriesTried
<1>5. /\ B \in Nat /\ S \in Nat /\ T \in Nat /\ N \in Nat /\ f \in Int /\ s \in Int
      /\ c1 \in 0..(B - 1) /\ c2 \in 0..1 /\ c3 \in 0..(B - 1) /\ c4 \in 0..3
  BY <1>1, <1>2, <1>4
<1>6. /\ E(f - c1 * S - c2 * T) = 0
      /\ E(s + c1 + c2 * B - c3 * S - c4 * T) = 0
  BY <1>1, <1>2, <1>4 DEF ProductHolds
<1>7. /\ 0 <= c1 * S /\ c1 * S <= T - S /\ 0 <= c3 * S /\ c3 * S <= T - S
      /\ c2 * T \in {0, T} /\ c2 * B \in {0, B} /\ c4 * T \in {0, T, 2 * T, 3 * T}
  <2>1. \A i \in 0..(B - 1) : 0 <= i * S /\ i * S <= T - S
    <3>1. ASSUME NEW i \in 0..(B - 1) PROVE 0 <= i * S /\ i * S <= T - S
      <4>1. i \in Int /\ B - 1 \in Int /\ 0 <= i /\ i <= B - 1
        OBVIOUS
      <4>2. S * 0 <= S * i /\ S * i <= S * (B - 1)
        BY <1>5, <4>1, Scales
      <4>3. S * 0 = 0 /\ S * i = i * S /\ S * (B - 1) = B * S - S
        BY <1>5, <4>1
      <4>4. PICK a \in Int, b \in Int : a = S * i /\ b = B * S
        BY <1>5, <4>1
      <4> QED
        BY <1>1, <1>5, <4>2, <4>3, <4>4
    <3> QED
      BY <3>1
  <2>2. c2 * T \in {0, T} /\ c2 * B \in {0, B}
    BY <1>5
  <2>3. c4 * T \in {0, T, 2 * T, 3 * T}
    <3>1. c4 \in {0, 1, 2, 3}
      BY <1>5
    <3> QED
      BY <1>5, <3>1
  <2> QED
    BY <1>5, <2>1, <2>2, <2>3
<1>8. PICK a \in Int, b \in Int, d \in Int, e \in Int, g \in Int :
         a = c1 * S /\ b = c2 * T /\ d = c2 * B /\ e = c3 * S /\ g = c4 * T
  BY <1>5
<1>9. S <= T
  <2>1. T - S = (B - 1) * S /\ B - 1 \in Nat
    BY <1>1
  <2>2. (B - 1) * S >= 0
    BY <2>1
  <2> QED
    BY <1>5, <2>1, <2>2
<1>10. f = a + b
  <2>1. PICK v \in Int : v = f - a - b
    OBVIOUS
  <2>2. -N < v /\ v < N
    BY <1>1, <1>3, <1>5, <1>7, <1>8, <1>9, <2>1
  <2>3. E(v) = 0
    BY <1>6, <1>8, <2>1
  <2>4. v = 0
    BY <1>1, <2>2, <2>3, FieldFacts
  <2> QED
    BY <2>1, <2>4
<1>11. s + c1 + d = e + g
  <2>1. PICK v \in Int : v = s + c1 + d - e - g
    BY <1>5
  <2>2. -N < v
    BY <1>1, <1>3, <1>5, <1>7, <1>8, <1>9, <2>1
  <2>3. v < N
    BY <1>1, <1>3, <1>5, <1>7, <1>8, <1>9, <2>1
  <2>4. E(v) = 0
    BY <1>6, <1>8, <2>1
  <2>5. v = 0
    BY <1>1, <2>2, <2>3, <2>4, FieldFacts
  <2> QED
    BY <1>5, <2>1, <2>5
<1>12. PICK u \in Int : Word(x) * Word(y) + Word(z) - Word(w) = f + S * s + (S * S) * u
  <2>1. PICK u \in Int :
           Word(x) * Word(y) + Word(z) - Word(w)
              = FirstCarryless(x, y, z, w) + Squared(LimbBase) * SecondCarryless(x, y, z, w)
                  + Size(LimbBase, Limbs) * u
    BY ProductSplits
  <2>2. Word(x) * Word(y) + Word(z) - Word(w) = f + S * s + (S * S) * u
    BY <1>1, <1>2, <2>1
  <2> QED
    BY <2>2
<1>13. f + S * s = (S * S) * (c3 + c4 * B)
  <2>1. S * (c1 + d) = f
    <3>1. S * (c1 + c2 * B) = c1 * S + c2 * (B * S)
      BY <1>5
    <3> QED
      BY <1>1, <1>8, <1>10, <3>1
  <2>2. e + g = S * (c3 + c4 * B)
    <3>1. S * (c3 + c4 * B) = c3 * S + c4 * (B * S)
      BY <1>5
    <3> QED
      BY <1>1, <1>8, <3>1
  <2>3. S * (s + c1 + d) = S * s + S * (c1 + d)
    BY <1>5
  <2>4. S * (S * (c3 + c4 * B)) = (S * S) * (c3 + c4 * B)
    BY <1>5
  <2>5. S * (s + c1 + d) = S * (S * (c3 + c4 * B))
    BY <1>11, <2>2
  <2>6. PICK i \in Int : i = S * s
    OBVIOUS
  <2> QED
    BY <1>5, <2>1, <2>3, <2>4, <2>5, <2>6
<1>14. PICK H \in Nat \ {0} : H = S * S
  OBVIOUS
<1>15. PICK W \in 0..(H - 1), P \in Int :
          W = Word(w) /\ P = Word(x) * Word(y) + Word(z)
  <2>1. \A v \in LimbWord : Word(v) \in 0..(H - 1)
    BY <1>1, <1>14, WordIs
  <2>2. Word(x) \in Int /\ Word(y) \in Int /\ Word(z) \in Int
    BY <2>1
  <2> QED
    BY <2>1, <2>2
<1>16. PICK k \in Int : k = (c3 + c4 * B) + u
  BY <1>5
<1>17. P = H * k + W
  <2>1. H * k = H * (c3 + c4 * B) + H * u
    BY <1>5, <1>16
  <2>2. PICK i \in Int, j \in Int : i = H * (c3 + c4 * B) /\ j = H * u
    BY <1>5
  <2>3. P - W = i + j
    <3>1. f + S * s = i /\ (S * S) * u = j
      BY <1>13, <1>14, <2>2
    <3>2. PICK h \in Int : h = f + S * s
      OBVIOUS
    <3>3. P - W = h + (S * S) * u
      <4>1. PICK X \in Int, Y \in Int, Z \in Int : X = Word(x) /\ Y = Word(y) /\ Z = Word(z)
        BY <1>1, <1>14, WordIs
      <4>2. X * Y + Z - W = h + (S * S) * u
        BY <1>12, <1>15, <3>2, <4>1
      <4>3. P = X * Y + Z
        BY <1>15, <4>1
      <4> QED
        BY <4>2, <4>3
    <3> QED
      BY <3>1, <3>2, <3>3
  <2> QED
    BY <1>15, <2>1, <2>2, <2>3
<1>18. P % H = W
  BY <1>17, RemainderIsUnique
<1> QED
  BY <1>1, <1>14, <1>15, <1>18 DEF Wrapped

(* The carries that generate_assignments computes satisfy the gates.       *)
LEMMA ProductIsAccepted ==
    ASSUME NEW x \in LimbWord, NEW y \in LimbWord, NEW z \in LimbWord, NEW w \in LimbWord,
           Word(w) = Wrapped(Word(x) * Word(y) + Word(z))
    PROVE  ProductHolds(x, y, z, w, ProductCarries(x, y, z, w))
<1>1. PICK B \in Nat \ {0}, S \in Nat \ {0}, T \in Nat \ {0}, N \in Nat \ {0} :
         /\ B = LimbBase /\ S = Squared(LimbBase) /\ T = Cubed(LimbBase) /\ N = FieldSize
         /\ N > 4 * T /\ S = B * B /\ T = B * S /\ Size(LimbBase, Limbs) = S * S
  <2>1. \A b \in Nat : b * b * b = b * (b * b)
    OBVIOUS
  <2> QED
    BY <2>1, LimbFacts, FieldFacts DEF Squared, Cubed
<1>2. PICK f \in Int, s \in Int : f = FirstCarryless(x, y, z, w) /\ s = SecondCarryless(x, y, z, w)
  BY FirstBounds, SecondBounds
<1>3. -S < f /\ f < 2 * T /\ -S < s /\ s + 2 * B < 4 * T
  BY <1>1, <1>2, FirstBounds, SecondBounds
<1>4. PICK H \in Nat \ {0} : H = S * S
  OBVIOUS
<1>5. PICK P \in Int, k \in Int :
          /\ P = Word(x) * Word(y) + Word(z) /\ P - Word(w) = H * k /\ Word(w) \in Int
  <2>1. \A v \in LimbWord : Word(v) \in 0..(H - 1)
    BY <1>1, <1>4, WordIs
  <2>2. Word(x) \in Int /\ Word(y) \in Int /\ Word(z) \in Int /\ Word(w) \in Int
    BY <2>1
  <2>3. PICK P \in Int : P = Word(x) * Word(y) + Word(z)
    BY <2>2
  <2>4. PICK k \in Int, r \in 0..(H - 1) : P = H * k + r /\ P % H = r
    BY Divided
  <2>5. Word(w) = r
    BY <1>1, <1>4, <2>3, <2>4 DEF Wrapped
  <2>6. PICK i \in Int : i = H * k
    OBVIOUS
  <2>7. P - Word(w) = H * k
    BY <2>2, <2>4, <2>5, <2>6
  <2> QED
    BY <2>2, <2>3, <2>7
<1>6. PICK u \in Int : Word(x) * Word(y) + Word(z) - Word(w) = f + S * s + (S * S) * u
  <2>1. PICK u \in Int :
           Word(x) * Word(y) + Word(z) - Word(w)
              = FirstCarryless(x, y, z, w) + Squared(LimbBase) * SecondCarryless(x, y, z, w)
                  + Size(LimbBase, Limbs) * u
    BY ProductSplits
  <2>2. Word(x) * Word(y) + Word(z) - Word(w) = f + S * s + (S * S) * u
    BY <1>1, <1>2, <2>1
  <2> QED
    BY <2>2
<1>7. PICK l \in Int : l = k - u
  OBVIOUS
<1>8. f + S * s = S * (S * l)
  <2>1. S * (S * l) = H * k - (S * S) * u
    BY <1>4, <1>7
  <2>2. PICK i \in Int, j \in Int, h \in Int : i = H * k /\ j = (S * S) * u /\ h = S * s
    OBVIOUS
  <2>3. i = f + h + j
    <3>1. Word(x) * Word(y) + Word(z) - Word(w) = f + h + j
      BY <1>6, <2>2
    <3>2. P - Word(w) = f + h + j
      <4>1. PICK X \in Int, Y \in Int, Z \in Int, W \in Int :
               X = Word(x) /\ Y = Word(y) /\ Z = Word(z) /\ W = Word(w)
        BY <1>1, <1>4, WordIs
      <4>2. X * Y + Z - W = f + h + j
        BY <3>1, <4>1
      <4>3. P = X * Y + Z
        BY <1>5, <4>1
      <4> QED
        BY <4>1, <4>2, <4>3
    <3> QED
      BY <1>5, <2>2, <3>2
  <2> QED
    BY <2>1, <2>2, <2>3
<1>9. PICK j \in Int : j = S * l - s
  OBVIOUS
<1>10. f = S * j
  <2>1. S * j = S * (S * l) - S * s
    BY <1>9
  <2>2. PICK i \in Int, h \in Int : i = S * (S * l) /\ h = S * s
    OBVIOUS
  <2> QED
    BY <1>8, <2>1, <2>2
<1>11. j \in Nat /\ j < 2 * B
  <2>1. j >= 0
    <3>1. SUFFICES ASSUME j <= -1 PROVE FALSE
      OBVIOUS
    <3>2. S * j <= S * (-1)
      <4>1. -1 \in Int /\ S \in Nat
        OBVIOUS
      <4> QED
        BY <3>1, <4>1, Scales
    <3>3. S * (-1) = -S
      OBVIOUS
    <3> QED
      BY <1>3, <1>10, <3>2, <3>3
  <2>2. j < 2 * B
    <3>1. SUFFICES ASSUME 2 * B <= j PROVE FALSE
      OBVIOUS
    <3>2. S * (2 * B) <= S * j
      <4>1. 2 * B \in Int /\ S \in Nat
        OBVIOUS
      <4> QED
        BY <3>1, <4>1, Scales
    <3>3. S * (2 * B) = 2 * T
      BY <1>1
    <3> QED
      BY <1>3, <1>10, <3>2, <3>3
  <2> QED
    BY <2>1, <2>2
<1>12. s + j = S * l
  <2>1. PICK i \in Int : i = S * l
    OBVIOUS
  <2> QED
    BY <1>9, <2>1
<1>13. l \in Nat /\ l < 4 * B
  <2>1. l >= 0
    <3>1. SUFFICES ASSUME l <= -1 PROVE FALSE
      OBVIOUS
    <3>2. S * l <= S * (-1)
      <4>1. -1 \in Int /\ S \in Nat
        OBVIOUS
      <4> QED
        BY <3>1, <4>1, Scales
    <3>3. S * (-1) = -S
      OBVIOUS
    <3> QED
      BY <1>3, <1>11, <1>12, <3>2, <3>3
  <2>2. l < 4 * B
    <3>1. SUFFICES ASSUME 4 * B <= l PROVE FALSE
      OBVIOUS
    <3>2. S * (4 * B) <= S * l
      <4>1. 4 * B \in Int /\ S \in Nat
        OBVIOUS
      <4> QED
        BY <3>1, <4>1, Scales
    <3>3. S * (4 * B) = 4 * T
      BY <1>1
    <3> QED
      BY <1>3, <1>11, <1>12, <3>2, <3>3
  <2> QED
    BY <2>1, <2>2
<1>14. /\ B \in Nat \ {0} /\ S \in Nat \ {0} /\ T \in Nat /\ N \in Nat /\ f \in Int /\ s \in Int
       /\ j \in Int /\ l \in Int
  BY <1>1, <1>2, <1>9, <1>7
<1>15. E(f) = f /\ f \div S = j
  <2>1. S * 0 <= S * j
    BY <1>11, <1>14, Scales
  <2>2. 0 <= f /\ S * 0 = 0
    BY <1>10, <1>14, <2>1
  <2>3. f \in 0..(N - 1)
    BY <1>1, <1>3, <1>14, <2>2
  <2>4. E(f) = f
    BY <1>1, <2>3, ElementRemains DEF E
  <2>5. PICK q \in Int, r \in 0..(S - 1) : f = S * q + r /\ f \div S = q /\ f % S = r
    BY <1>14, Divided
  <2>6. r = 0
    <3>1. f = S * j + 0 /\ 0 \in 0..(S - 1)
      BY <1>10, <1>14
    <3>2. f % S = 0
      BY <1>14, <3>1, RemainderIsUnique
    <3> QED
      BY <2>5, <3>2
  <2>7. S * q = S * j
    BY <1>10, <2>5, <2>6
  <2>8. q = j
    BY <1>14, <2>7
  <2> QED
    BY <2>4, <2>5, <2>8
<1>16. E(s + j) = s + j /\ (s + j) \div S = l
  <2>0. PICK v \in Int : v = s + j
    OBVIOUS
  <2>1. S * 0 <= S * l
    BY <1>13, <1>14, Scales
  <2>2. 0 <= v /\ S * 0 = 0
    BY <1>12, <1>14, <2>0, <2>1
  <2>3. v \in 0..(N - 1)
    BY <1>1, <1>3, <1>11, <1>14, <2>0, <2>2
  <2>4. E(v) = v
    BY <1>1, <2>3, ElementRemains DEF E
  <2>5. PICK q \in Int, r \in 0..(S - 1) : v = S * q + r /\ v \div S = q /\ v % S = r
    BY <1>14, Divided
  <2>6. r = 0
    <3>1. v = S * l + 0 /\ 0 \in 0..(S - 1)
      BY <1>12, <1>14, <2>0
    <3>2. v % S = 0
      BY <1>14, <3>1, RemainderIsUnique
    <3> QED
      BY <2>5, <3>2
  <2>7. S * q = S * l
    BY <1>12, <2>0, <2>5, <2>6
  <2>8. q = l
    BY <1>14, <2>7
  <2> QED
    BY <2>0, <2>4, <2>5, <2>8
<1>17. PICK c2 \in Int, c1 \in 0..(B - 1) : j = B * c2 + c1 /\ j % B = c1 /\ j \div B = c2
  BY <1>14, Divided
<1>18. PICK c4 \in Int, c3 \in 0..(B - 1) : l = B * c4 + c3 /\ l % B = c3 /\ l \div B = c4
  BY <1>14, Divided
<1>19. c2 \in {0, 1} /\ c4 \in {0, 1, 2, 3}
  <2>1. ASSUME NEW n \in Nat, NEW q \in Int, NEW r \in 0..(B - 1), NEW i \in Nat, i = B * q + r, i < n * B
        PROVE  0 <= q /\ q < n
    <3>1. q >= 0
      <4>1. SUFFICES ASSUME q <= -1 PROVE FALSE
        OBVIOUS
      <4>2. B * q <= B * (-1)
        <5>1. -1 \in Int /\ B \in Nat
          OBVIOUS
        <5> QED
          BY <4>1, <5>1, Scales
      <4>3. B * (-1) = -B
        OBVIOUS
      <4>4. PICK g \in Int : g = B * q
        OBVIOUS
      <4> QED
        BY <2>1, <4>2, <4>3, <4>4
    <3>2. q < n
      <4>1. SUFFICES ASSUME n <= q PROVE FALSE
        OBVIOUS
      <4>2. B * n <= B * q
        BY <4>1, Scales
      <4>3. PICK g \in Int, h \in Int : g = B * q /\ h = n * B /\ h = B * n
        OBVIOUS
      <4> QED
        BY <2>1, <4>2, <4>3
    <3> QED
      BY <3>1, <3>2
  <2>2. 0 <= c2 /\ c2 < 2
    BY <1>11, <1>17, <2>1
  <2>3. 0 <= c4 /\ c4 < 4
    BY <1>13, <1>18, <2>1
  <2> QED
    BY <2>2, <2>3
<1>20. ProductCarries(x, y, z, w) = <<c1, c2, c3, c4>>
  BY <1>1, <1>2, <1>15, <1>16, <1>17, <1>18 DEF ProductCarries
<1>21. f - c1 * S - c2 * T = 0
  <2>1. S * (B * c2 + c1) = c1 * S + c2 * (B * S)
    BY <1>14
  <2>2. PICK g \in Int, h \in Int : g = c1 * S /\ h = c2 * T
    BY <1>14
  <2> QED
    BY <1>1, <1>10, <1>17, <2>1, <2>2
<1>22. s + c1 + c2 * B - c3 * S - c4 * T = 0
  <2>1. S * (B * c4 + c3) = c3 * S + c4 * (B * S) /\ B * c2 = c2 * B
    BY <1>14
  <2>2. PICK g \in Int, h \in Int, d \in Int : g = c3 * S /\ h = c4 * T /\ d = c2 * B
    BY <1>14
  <2>3. s + j = g + h
    BY <1>1, <1>12, <1>18, <2>1, <2>2
  <2>4. j = d + c1 /\ c1 \in Int
    BY <1>17, <2>1, <2>2
  <2> QED
    BY <1>14, <2>2, <2>3, <2>4
<1>23. c2 * (c2 - 1) = 0 /\ c4 * (c4 - 1) * (c4 - 2) * (c4 - 3) = 0
  BY <1>19
<1> DEFINE d == <<c1, c2, c3, c4>>
<1>24. PICK c : c = d /\ c[1] = c1 /\ c[2] = c2 /\ c[3] = c3 /\ c[4] = c4
  <2>1. d[1] = c1 /\ d[2] = c2 /\ d[3] = c3 /\ d[4] = c4
    OBVIOUS
  <2> HIDE DEF d
  <2> QED
    BY <2>1
<1>25. ProductHolds(x, y, z, w, c)
  BY <1>1, <1>2, <1>21, <1>22, <1>23, <1>24, FieldFacts DEF ProductHolds
<1> QED
  BY <1>20, <1>24, <1>25

LEMMA MulMeans ==
    ASSUME NEW r, r.a \in LimbWord, r.b \in LimbWord, r.r \in LimbWord, r.c \in CarriesTried,
           MulHolds(r)
    PROVE  Word(r.r) = Wrapped(Word(r.a) * Word(r.b))
<1>1. Zero \in LimbWord /\ Word(Zero) = 0
  <2>1. 0 \in 0..(Size(LimbBase, Limbs) - 1)
    BY LimbFacts
  <2> QED
    BY <2>1, LimbsAre DEF Zero
<1>2. Word(r.r) = Wrapped(Word(r.a) * Word(r.b) + Word(Zero))
  BY <1>1, ProductGatesMean DEF MulHolds
<1>3. PICK X \in Int, Y \in Int : X = Word(r.a) /\ Y = Word(r.b)
  BY WordIs
<1>4. X * Y + 0 = X * Y
  OBVIOUS
<1> QED
  BY <1>1, <1>2, <1>3, <1>4

LEMMA MulIsAccepted ==
    ASSUME NEW a \in LimbOperand, NEW b \in LimbOperand
    PROVE  MulHolds(MulRow(a, b))
<1>1. PICK H \in Nat \ {0} : H = Size(LimbBase, Limbs)
  BY LimbFacts
<1>2. a \in 0..(H - 1) /\ b \in 0..(H - 1)
  BY <1>1, OperandAssumption
<1>3. PICK p \in Int, s \in 0..(H - 1) : p = a * b /\ s = p % H
  <2>1. a * b \in Int
    BY <1>2
  <2>2. (a * b) % H \in 0..(H - 1)
    BY <2>1, ElementRemains
  <2> QED
    BY <2>1, <2>2
<1>4. 0 \in 0..(H - 1)
  OBVIOUS
<1>5. /\ AllLimbs(a) \in LimbWord /\ Word(AllLimbs(a)) = a
      /\ AllLimbs(b) \in LimbWord /\ Word(AllLimbs(b)) = b
      /\ AllLimbs(s) \in LimbWord /\ Word(AllLimbs(s)) = s
      /\ Zero \in LimbWord /\ Word(Zero) = 0
  BY <1>1, <1>2, <1>4, LimbsAre DEF Zero
<1>6. Word(AllLimbs(s)) = Wrapped(Word(AllLimbs(a)) * Word(AllLimbs(b)) + Word(Zero))
  <2>1. p + 0 = p
    OBVIOUS
  <2>2. Word(AllLimbs(a)) * Word(AllLimbs(b)) + Word(Zero) = p
    BY <1>3, <1>5, <2>1
  <2> QED
    BY <1>1, <1>3, <1>5, <2>2 DEF Wrapped
<1>7. ProductHolds(AllLimbs(a), AllLimbs(b), Zero, AllLimbs(s),
                   ProductCarries(AllLimbs(a), AllLimbs(b), Zero, AllLimbs(s)))
  BY <1>5, <1>6, ProductIsAccepted
<1> DEFINE r == MulRow(a, b)
<1>8. /\ r.a = AllLimbs(a) /\ r.b = AllLimbs(b) /\ r.r = AllLimbs(s)
      /\ r.c = ProductCarries(AllLimbs(a), AllLimbs(b), Zero, AllLimbs(s))
  BY <1>1, <1>3 DEF MulRow
<1> HIDE DEF r
<1>9. MulHolds(r)
  BY <1>7, <1>8 DEF MulHolds
<1> QED
  BY <1>9 DEF r

LEMMA LimbSum ==
    ASSUME NEW w \in LimbWord
    PROVE  /\ DigitSum(w) \in 0..(FieldSize - 1)
           /\ DigitSum(w) = 0 <=> Word(w) = 0
<1>1. PICK B \in Nat \ {0} : B = LimbBase
  BY LimbFacts
<1>2. w \in [0..3 -> 0..(B - 1)]
  BY <1>1 DEF LimbWord, Limbs
<1>3. /\ DigitSum(w) \in Nat /\ DigitSum(w) <= (3 + 1) * B
      /\ DigitSum(w) = 0 <=> Number(w, B) = 0
  BY <1>2, DigitSumMeans
<1>4. (3 + 1) * B < FieldSize
  <2>1. PICK T \in Int : T = B * B * B
    OBVIOUS
  <2>2. T = Cubed(LimbBase) /\ FieldSize > 4 * T
    BY <1>1, <2>1, LimbFacts DEF Cubed
  <2>3. PICK s \in Nat : s = B * B - 1
    <3>1. B * B >= 1
      OBVIOUS
    <3> QED
      BY <3>1
  <2>4. T = B * s + B /\ B * s >= 0
    BY <2>1, <2>3
  <2> QED
    BY <2>1, <2>2, <2>4, FieldFacts
<1> QED
  BY <1>1, <1>3, <1>4, FieldFacts DEF Word

LEMMA ZeroTimes ==
    ASSUME NEW x \in Int, NEW y \in Int, E(x) = 0
    PROVE  E(x * y) = 0 /\ E(y * x) = 0
<1>1. PICK N \in Nat \ {0} : N = FieldSize
  BY FieldFacts
<1>2. (x * y) % N = ((x % N) * y) % N
  BY ProductOfRemainder
<1>3. x % N = 0 /\ 0 * y = 0 /\ x * y = y * x
  BY <1>1 DEF E
<1> QED
  BY <1>1, <1>2, <1>3, FieldFacts DEF E

(* A difference in what is above decides, whatever is below.               *)
LEMMA HigherDecides ==
    ASSUME NEW p \in Nat \ {0}, NEW x \in 0..(p - 1), NEW y \in 0..(p - 1),
           NEW u \in Nat, NEW v \in Nat, x + u * p <= y + v * p
    PROVE  u <= v /\ (u = v => x <= y)
<1>1. u <= v
  <2>1. SUFFICES ASSUME v + 1 <= u PROVE FALSE
    OBVIOUS
  <2>2. p * (v + 1) <= p * u
    BY <2>1, Scales
  <2>3. p * (v + 1) = v * p + p /\ p * u = u * p
    OBVIOUS
  <2>4. PICK a \in Int, b \in Int : a = u * p /\ b = v * p
    OBVIOUS
  <2> QED
    BY <2>2, <2>3, <2>4
<1>2. u = v => x <= y
  <2>1. PICK a \in Int, b \in Int : a = u * p /\ b = v * p
    OBVIOUS
  <2> QED
    BY <2>1
<1> QED
  BY <1>1, <1>2

(* The limbs of a word are not above those of a word that is no smaller.   *)
LEMMA LimbsDecide ==
    ASSUME NEW x \in LimbWord, NEW y \in LimbWord, Word(x) <= Word(y)
    PROVE  /\ x[3] <= y[3]
           /\ x[3] = y[3] => x[2] <= y[2]
           /\ x[3] = y[3] /\ x[2] = y[2] => x[1] <= y[1]
           /\ x[3] = y[3] /\ x[2] = y[2] /\ x[1] = y[1] => x[0] <= y[0]
<1>1. PICK B \in Nat \ {0}, S \in Nat \ {0}, T \in Nat \ {0} :
         B = LimbBase /\ S = Squared(LimbBase) /\ T = Cubed(LimbBase) /\ S = B * B /\ T = B * S
  <2>1. \A b \in Nat : b * b * b = b * (b * b)
    OBVIOUS
  <2> QED
    BY <2>1, LimbFacts DEF Squared, Cubed
<1>2. PICK x0 \in 0..(B - 1), x1 \in 0..(B - 1), x2 \in 0..(B - 1), x3 \in 0..(B - 1) :
         x0 = x[0] /\ x1 = x[1] /\ x2 = x[2] /\ x3 = x[3]
  BY <1>1 DEF LimbWord, Limbs
<1>3. PICK y0 \in 0..(B - 1), y1 \in 0..(B - 1), y2 \in 0..(B - 1), y3 \in 0..(B - 1) :
         y0 = y[0] /\ y1 = y[1] /\ y2 = y[2] /\ y3 = y[3]
  BY <1>1 DEF LimbWord, Limbs
<1>4. \A l \in 0..(B - 1), h \in 0..(B - 1) : l + h * B \in 0..(S - 1)
  <2>1. ASSUME NEW l \in 0..(B - 1), NEW h \in 0..(B - 1) PROVE l + h * B \in 0..(S - 1)
    <3>1. h \in Int /\ B - 1 \in Int /\ 0 <= h /\ h <= B - 1
      OBVIOUS
    <3>2. B * 0 <= B * h /\ B * h <= B * (B - 1)
      BY <3>1, Scales
    <3>3. B * 0 = 0 /\ B * h = h * B /\ B * (B - 1) = S - B
      BY <1>1, <3>1
    <3>4. PICK g \in Int : g = h * B
      BY <3>1
    <3> QED
      BY <3>2, <3>3, <3>4
  <2> QED
    BY <2>1
<1>5. \A l \in 0..(S - 1), h \in 0..(B - 1) : l + h * S \in 0..(T - 1)
  <2>1. ASSUME NEW l \in 0..(S - 1), NEW h \in 0..(B - 1) PROVE l + h * S \in 0..(T - 1)
    <3>1. h \in Int /\ B - 1 \in Int /\ 0 <= h /\ h <= B - 1
      OBVIOUS
    <3>2. S * 0 <= S * h /\ S * h <= S * (B - 1)
      BY <3>1, Scales
    <3>3. S * 0 = 0 /\ S * h = h * S /\ S * (B - 1) = B * S - S
      BY <1>1, <3>1
    <3>4. PICK g \in Int : g = h * S
      BY <3>1
    <3>5. T = B * S
      BY <1>1
    <3> QED
      BY <3>2, <3>3, <3>4, <3>5
  <2> QED
    BY <2>1
<1>6. PICK k \in 0..(S - 1), l \in 0..(S - 1) : k = x0 + x1 * B /\ l = y0 + y1 * B
  BY <1>4
<1>7. PICK m \in 0..(T - 1), n \in 0..(T - 1) : m = k + x2 * S /\ n = l + y2 * S
  BY <1>5
<1>8. Word(x) = m + x3 * T
  <2>1. Word(x) = x0 + x1 * B + x2 * S + x3 * T
    BY <1>1, <1>2, WordIs
  <2> QED
    BY <1>6, <1>7, <2>1
<1>9. Word(y) = n + y3 * T
  <2>1. Word(y) = y0 + y1 * B + y2 * S + y3 * T
    BY <1>1, <1>3, WordIs
  <2> QED
    BY <1>6, <1>7, <2>1
<1>10. x3 <= y3 /\ (x3 = y3 => m <= n)
  <2>1. x3 \in Nat /\ y3 \in Nat /\ m + x3 * T <= n + y3 * T
    BY <1>8, <1>9
  <2> QED
    BY <2>1, HigherDecides
<1>11. m <= n => x2 <= y2 /\ (x2 = y2 => k <= l)
  <2>1. x2 \in Nat /\ y2 \in Nat
    OBVIOUS
  <2> QED
    BY <1>7, <2>1, HigherDecides
<1>12. k <= l => x1 <= y1 /\ (x1 = y1 => x0 <= y0)
  <2>1. x1 \in Nat /\ y1 \in Nat
    OBVIOUS
  <2> QED
    BY <1>6, <2>1, HigherDecides
<1> QED
  BY <1>2, <1>3, <1>10, <1>11, <1>12

(* Words that mean the same have the same limbs.                           *)
LEMMA SameWords ==
    ASSUME NEW x \in LimbWord, NEW y \in LimbWord, Word(x) = Word(y)
    PROVE  x = y
<1>1. Word(x) <= Word(y) /\ Word(y) <= Word(x)
  <2>1. Word(x) \in Int
    BY LimbFacts, WordIs
  <2> QED
    BY <2>1
<1>2. \A w \in {x, y} : w \in [0..3 -> 0..(LimbBase - 1)] /\ w[0] \in Int /\ w[1] \in Int /\ w[2] \in Int /\ w[3] \in Int
  BY LimbFacts DEF LimbWord, Limbs
<1>3. x[3] = y[3]
  BY <1>1, <1>2, LimbsDecide
<1>4. x[2] = y[2]
  BY <1>1, <1>2, <1>3, LimbsDecide
<1>5. x[1] = y[1]
  BY <1>1, <1>2, <1>3, <1>4, LimbsDecide
<1>6. x[0] = y[0]
  BY <1>1, <1>2, <1>3, <1>4, <1>5, LimbsDecide
<1>7. \A i \in 0..3 : x[i] = y[i]
  BY <1>3, <1>4, <1>5, <1>6
<1> QED
  BY <1>2, <1>7

(* What the gates of DIV mean.  The remainder is not the divisor: the      *)
(* chain of t over limbs that are all the same would not end in one.       *)
LEMMA DivMeans ==
    ASSUME NEW r, r.a \in LimbWord, r.b \in LimbWord, r.r \in LimbWord, r.q \in LimbWord,
           r.c \in CarriesTried, r.inverse \in Int, r.t \in [Limbs -> Residue],
           r.v \in [Limbs -> Residue], DivHolds(r), ComparisonHolds(r)
    PROVE  /\ Word(r.a) = Wrapped(Word(r.r) * Word(r.b) + Word(r.q))
           /\ Word(r.b) = 0 => Word(r.r) = 0
           /\ Word(r.b) # 0 => Word(r.q) # Word(r.b)
<1>1. Word(r.a) = Wrapped(Word(r.r) * Word(r.b) + Word(r.q))
  BY ProductGatesMean DEF DivHolds
<1>2. PICK N \in Nat \ {0} : N = FieldSize /\ N > 2 /\ IsField(N)
  BY FieldFacts
<1>3. PICK s \in 0..(N - 1), i \in Int :
         s = DigitSum(r.b) /\ i = r.inverse /\ (s = 0 <=> Word(r.b) = 0)
  <2>1. DigitSum(r.b) \in 0..(N - 1) /\ (DigitSum(r.b) = 0 <=> Word(r.b) = 0)
    BY <1>2, LimbSum
  <2> QED
    BY <2>1
<1>4. /\ N = FieldSize /\ N > 2 /\ IsField(N) /\ s = DigitSum(r.b) /\ i = r.inverse
      /\ s = 0 <=> Word(r.b) = 0
  BY <1>2, <1>3
<1>5. \A w \in {r.b, r.r, r.q} : \A j \in Limbs : w[j] \in Int /\ w[j] \in 0..(N - 1)
  <2>1. LimbBase \in Nat /\ LimbBase <= FieldSize
    <3>1. PICK B \in Nat \ {0} : B = LimbBase
      BY LimbFacts
    <3>2. PICK T \in Int : T = B * B * B
      OBVIOUS
    <3>3. T = Cubed(LimbBase) /\ FieldSize > 4 * T
      BY <3>1, <3>2, LimbFacts DEF Cubed
    <3>4. PICK n \in Nat : n = B * B - 1
      <4>1. B * B >= 1
        OBVIOUS
      <4> QED
        BY <4>1
    <3>5. T = B * n + B /\ B * n >= 0
      BY <3>2, <3>4
    <3> QED
      BY <3>1, <3>2, <3>3, <3>5, FieldFacts
  <2>2. \A w \in {r.b, r.r, r.q} : \A j \in Limbs : w[j] \in 0..(LimbBase - 1)
    BY DEF LimbWord
  <2> QED
    BY <1>4, <2>1, <2>2
<1>6. ASSUME Word(r.b) = 0 PROVE Word(r.r) = 0
  <2>1. s = 0
    BY <1>4, <1>6
  <2>2. ASSUME NEW j \in Limbs PROVE r.r[j] = 0
    <3>1. PICK n \in 0..(N - 1) : n = r.r[j] /\ n \in Int
      BY <1>5
    <3>2. E((1 - i * s) * n) = 0
      BY <1>4, <3>1 DEF DivHolds
    <3>3. (1 - i * s) * n = n
      BY <2>1, <3>1
    <3>4. n % N = 0
      BY <1>4, <3>2, <3>3 DEF E
    <3> QED
      BY <3>1, <3>4, ElementRemains
  <2> QED
    BY <2>2, WordIs
<1>7. ASSUME Word(r.b) # 0, Word(r.q) = Word(r.b) PROVE FALSE
  <2>1. PICK z \in Int : z = i * s /\ E(z - 1) = 0
    <3>1. PICK z \in Int : z = i * s
      BY <1>4
    <3>2. E(s * (z - 1)) = 0
      BY <1>4, <3>1 DEF DivHolds
    <3>3. s % N # 0
      BY <1>4, <1>7, ElementRemains
    <3>4. s \in Int /\ z - 1 \in Int /\ (s * (z - 1)) % N = 0
      BY <1>4, <3>2 DEF E
    <3>5. (z - 1) % N = 0
      BY <1>4, <3>3, <3>4, FactorIsZero
    <3> QED
      BY <1>4, <3>1, <3>5 DEF E
  <2>2. z % N # 0
    <3>1. SUFFICES ASSUME z % N = 0 PROVE FALSE
      OBVIOUS
    <3>2. PICK k \in Int : k = -1
      OBVIOUS
    <3>3. (z + k) % N = ((z % N) + k) % N
      BY SumOfRemainder
    <3>4. z + k = z - 1 /\ (z % N) + k = -1
      BY <3>1, <3>2
    <3>5. E(-1) = 0
      BY <1>4, <2>1, <3>3, <3>4 DEF E
    <3> QED
      BY <1>4, <3>5, FieldFacts
  <2>3. r.q = r.b
    BY <1>7, SameWords
  <2>4. \A j \in Limbs : r.b[j] - r.q[j] = 0
    BY <1>5, <2>3
  <2>5. ASSUME NEW x \in Int, E(z * x) = 0 PROVE x % N = 0
    <3>1. (z * x) % N = 0
      BY <1>4, <2>5 DEF E
    <3> QED
      BY <1>4, <2>2, <3>1, FactorIsZero
  <2>6. /\ \A j \in Limbs : r.t[j] \in 0..(N - 1) /\ r.t[j] \in Int /\ r.v[j] \in Int
        /\ Limbs = 0..3
    BY <1>4 DEF Residue, Limbs
  <2>7. PICK t0 \in 0..(N - 1), t1 \in 0..(N - 1), t2 \in 0..(N - 1), t3 \in 0..(N - 1) :
           t0 = r.t[0] /\ t1 = r.t[1] /\ t2 = r.t[2] /\ t3 = r.t[3]
    BY <2>6
  <2>8. PICK v0 \in Int, v1 \in Int, v2 \in Int, v3 \in Int :
           v0 = r.v[0] /\ v1 = r.v[1] /\ v2 = r.v[2] /\ v3 = r.v[3]
    BY <2>6
  <2>9. /\ E(z * (t3 - v3 * 0)) = 0
        /\ E(z * (t2 - t3 - (1 - t3) * v2 * 0)) = 0
        /\ E(z * (t1 - t2 - (1 - t2) * v1 * 0)) = 0
        /\ E(z * (t0 - t1 - (1 - t1) * v0 * 0)) = 0
        /\ E(z * (t0 - 1)) = 0
    <3>1. /\ r.b[0] - r.q[0] = 0 /\ r.b[1] - r.q[1] = 0
          /\ r.b[2] - r.q[2] = 0 /\ r.b[3] - r.q[3] = 0
      BY <2>4, <2>6
    <3>2. \A j \in 0..2 :
             E((i * s) * (r.t[j] - r.t[j + 1]
                            - (1 - r.t[j + 1]) * r.v[j] * (r.b[j] - r.q[j]))) = 0
      BY <1>4 DEF ComparisonHolds
    <3>3. 0 + 1 = 1 /\ 1 + 1 = 2 /\ 2 + 1 = 3 /\ 0 \in 0..2 /\ 1 \in 0..2 /\ 2 \in 0..2
      OBVIOUS
    <3>4. /\ E(z * (t2 - t3 - (1 - t3) * v2 * 0)) = 0
          /\ E(z * (t1 - t2 - (1 - t2) * v1 * 0)) = 0
          /\ E(z * (t0 - t1 - (1 - t1) * v0 * 0)) = 0
      BY <2>1, <2>7, <2>8, <3>1, <3>2, <3>3
    <3>5. E(z * (t3 - v3 * 0)) = 0 /\ E(z * (t0 - 1)) = 0
      BY <1>4, <2>1, <2>7, <2>8, <3>1 DEF ComparisonHolds
    <3> QED
      BY <3>4, <3>5
  <2>10. /\ t3 - v3 * 0 = t3 - 0 /\ t2 - t3 - (1 - t3) * v2 * 0 = t2 - t3
         /\ t1 - t2 - (1 - t2) * v1 * 0 = t1 - t2 /\ t0 - t1 - (1 - t1) * v0 * 0 = t0 - t1
    OBVIOUS
  <2>11. /\ (t3 - 0) % N = 0 /\ (t2 - t3) % N = 0 /\ (t1 - t2) % N = 0 /\ (t0 - t1) % N = 0
         /\ (t0 - 1) % N = 0
    <3>1. t3 - 0 \in Int /\ t2 - t3 \in Int /\ t1 - t2 \in Int /\ t0 - t1 \in Int /\ t0 - 1 \in Int
      OBVIOUS
    <3> QED
      BY <2>5, <2>9, <2>10, <3>1
  <2>12. 0 \in 0..(N - 1) /\ 1 \in 0..(N - 1)
    BY <1>4
  <2>13. t3 = 0
    BY <2>11, <2>12, SameElement
  <2>14. t2 = t3 /\ t1 = t2 /\ t0 = t1
    BY <2>11, SameElement
  <2>15. t0 = 1
    BY <2>11, <2>12, SameElement
  <2> QED
    BY <2>13, <2>14, <2>15
<1> QED
  BY <1>1, <1>6, <1>7

(* The operands and results of DIV.                                        *)
LEMMA DivOperands ==
    ASSUME NEW a \in LimbOperand, NEW b \in LimbOperand
    PROVE  \E result \in LimbWord : \E q \in LimbWord :
              /\ DivOf(a, b) = DivRow(AllLimbs(a), AllLimbs(b), result, q)
              /\ AllLimbs(a) \in LimbWord /\ AllLimbs(b) \in LimbWord
              /\ Word(AllLimbs(a)) = Wrapped(Word(result) * Word(AllLimbs(b)) + Word(q))
              /\ Word(AllLimbs(b)) = 0 => \A i \in Limbs : result[i] = 0
              /\ Word(AllLimbs(b)) # 0 => Word(q) < Word(AllLimbs(b))
<1>1. PICK H \in Nat \ {0} : H = Size(LimbBase, Limbs)
  BY LimbFacts
<1>2. a \in 0..(H - 1) /\ b \in 0..(H - 1) /\ a \in Nat /\ b \in Nat
  <2>1. a \in 0..(H - 1) /\ b \in 0..(H - 1)
    BY <1>1, OperandAssumption
  <2> QED
    BY <2>1
<1>3. PICK n \in 0..(H - 1), m \in 0..(H - 1) :
         /\ n = (IF b # 0 THEN a \div b ELSE 0) /\ m = (IF b # 0 THEN a % b ELSE a)
         /\ n * b + m = a /\ (b = 0 => n = 0) /\ (b # 0 => m < b)
  <2>1. CASE b = 0
    <3>1. 0 * b + a = a /\ 0 \in 0..(H - 1)
      BY <2>1
    <3> QED
      BY <1>2, <2>1, <3>1
  <2>2. CASE b # 0
    <3>1. PICK d \in Nat \ {0} : d = b
      BY <1>2, <2>2
    <3>2. a \in Int
      BY <1>2
    <3>3. PICK q \in Int, r \in 0..(d - 1) : a = d * q + r /\ a % d = r /\ a \div d = q
      BY <3>2, Divided
    <3>4. q >= 0
      <4>1. SUFFICES ASSUME q <= -1 PROVE FALSE
        OBVIOUS
      <4>2. d * q <= d * (-1)
        <5>1. -1 \in Int /\ d \in Nat
          OBVIOUS
        <5> QED
          BY <4>1, <5>1, Scales
      <4>3. d * (-1) = -d
        OBVIOUS
      <4>4. PICK g \in Int : g = d * q
        OBVIOUS
      <4> QED
        BY <1>2, <3>3, <4>2, <4>3, <4>4
    <3>5. q <= a
      <4>1. PICK e \in Nat : e = d - 1
        OBVIOUS
      <4>2. d * q = q + e * q /\ e * q >= 0
        BY <3>4, <4>1
      <4>3. PICK g \in Int : g = e * q
        BY <4>1
      <4> QED
        BY <1>2, <3>3, <4>2, <4>3
    <3>6. q \in 0..(H - 1) /\ r \in 0..(H - 1) /\ r < b
      BY <1>2, <3>1, <3>3, <3>4, <3>5
    <3>7. q * b + r = a
      <4>1. q * d = d * q
        OBVIOUS
      <4> QED
        BY <3>1, <3>3, <4>1
    <3>8. q = a \div b /\ r = a % b
      BY <3>1, <3>3
    <3> QED
      BY <2>2, <3>6, <3>7, <3>8
  <2> QED
    BY <2>1, <2>2
<1>4. 0 \in 0..(H - 1)
  OBVIOUS
<1>5. PICK A, D, R, Q :
         A = AllLimbs(a) /\ D = AllLimbs(b) /\ R = AllLimbs(n) /\ Q = AllLimbs(m)
  OBVIOUS
<1>6. /\ A \in LimbWord /\ Word(A) = a /\ D \in LimbWord /\ Word(D) = b
      /\ R \in LimbWord /\ Word(R) = n /\ Q \in LimbWord /\ Word(Q) = m
  BY <1>1, <1>2, <1>3, <1>5, LimbsAre
<1>7. DivOf(a, b) = DivRow(A, D, R, Q)
  BY <1>3, <1>5 DEF DivOf
<1>8. Word(A) = Wrapped(Word(R) * Word(D) + Word(Q))
  <2>1. a % H = a
    BY <1>2, ElementRemains
  <2> QED
    BY <1>1, <1>3, <1>6, <2>1 DEF Wrapped
<1>9. Word(D) = 0 => \A i \in Limbs : R[i] = 0
  BY <1>3, <1>6, WordIs
<1>10. Word(D) # 0 => Word(Q) < Word(D)
  BY <1>3, <1>6
<1> QED
  BY <1>5, <1>6, <1>7, <1>8, <1>9, <1>10

(* A difference of limbs and its inverse.                                  *)
LimbDelta(d, v) == IF d = 0 THEN v = 0 ELSE E(v * d - 1) = 0

LEMMA DeltaInverted ==
    ASSUME NEW d \in (-(LimbBase - 1))..(LimbBase - 1)
    PROVE  LimbDelta(d, Inverted(d))
<1>1. PICK B \in Nat \ {0} : B = LimbBase
  BY LimbFacts
<1>2. d \in Int /\ -B < d /\ d < B
  BY <1>1
<1>3. B < FieldSize /\ FieldSize \in Int
  <2>1. PICK T \in Int : T = B * B * B
    OBVIOUS
  <2>2. T = Cubed(LimbBase) /\ FieldSize > 4 * T
    BY <1>1, <2>1, LimbFacts DEF Cubed
  <2>3. PICK n \in Nat : n = B * B - 1
    <3>1. B * B >= 1
      OBVIOUS
    <3> QED
      BY <3>1
  <2>4. T = B * n + B /\ B * n >= 0
    BY <2>1, <2>3
  <2> QED
    BY <2>1, <2>2, <2>4, FieldFacts
<1>4. -FieldSize < d /\ d < FieldSize
  BY <1>2, <1>3
<1>5. CASE d = 0
  BY <1>5, InvertedIs, FieldFacts DEF LimbDelta
<1>6. CASE d # 0
  <2>1. E(d) # 0
    BY <1>2, <1>4, <1>6, FieldFacts
  <2>2. PICK v \in Int : v = Inverted(d) /\ E(d * v - 1) = 0
    BY <1>2, <2>1, InvertedIs
  <2>3. d * v = v * d
    BY <1>2
  <2> QED
    BY <1>6, <2>2, <2>3 DEF LimbDelta
<1> QED
  BY <1>5, <1>6

(* What DIV writes satisfies its gates: the inverse of the divisor's sum,  *)
(* and the comparison, whose first difference is where the divisor is above*)
(* the remainder.                                                          *)
LEMMA DivIsAccepted ==
    ASSUME NEW a \in LimbWord, NEW b \in LimbWord, NEW result \in LimbWord, NEW q \in LimbWord,
           Word(a) = Wrapped(Word(result) * Word(b) + Word(q)),
           Word(b) = 0 => \A i \in Limbs : result[i] = 0,
           Word(b) # 0 => Word(q) < Word(b)
    PROVE  DivHolds(DivRow(a, b, result, q)) /\ ComparisonHolds(DivRow(a, b, result, q))
<1> DEFINE row == DivRow(a, b, result, q)
           delta(i) == b[i] - q[i]
           above(i) == IF \E j \in i..3 : b[j] > q[j] THEN 1 ELSE 0
<1>1. PICK r : /\ r = row
               /\ r.a = a /\ r.b = b /\ r.r = result /\ r.q = q
               /\ r.c = ProductCarries(result, b, q, a) /\ r.inverse = Inverted(DigitSum(b))
               /\ \A i \in Limbs : r.t[i] = above(i) /\ r.v[i] = Inverted(delta(i))
  <2>1. /\ row.a = a /\ row.b = b /\ row.r = result /\ row.q = q
        /\ row.c = ProductCarries(result, b, q, a) /\ row.inverse = Inverted(DigitSum(b))
        /\ row.t = [i \in Limbs |-> above(i)] /\ row.v = [i \in Limbs |-> Inverted(delta(i))]
    BY DEF DivRow
  <2> HIDE DEF row, above, delta
  <2>2. \A i \in Limbs : row.t[i] = above(i) /\ row.v[i] = Inverted(delta(i))
    BY <2>1
  <2> QED
    BY <2>1, <2>2
<1> HIDE DEF row, above
<1>2. ProductHolds(result, b, q, a, r.c)
  BY <1>1, ProductIsAccepted
<1>3. PICK s \in Int, i \in Int :
         /\ s = DigitSum(b) /\ i = r.inverse /\ (s = 0 <=> Word(b) = 0)
         /\ (s = 0 => i = 0) /\ (s # 0 => E(s * i - 1) = 0)
  <2>1. PICK s \in Int : s = DigitSum(b) /\ s \in 0..(FieldSize - 1) /\ (s = 0 <=> Word(b) = 0)
    <3>1. DigitSum(b) \in 0..(FieldSize - 1) /\ (DigitSum(b) = 0 <=> Word(b) = 0)
      BY LimbSum
    <3> QED
      BY <3>1
  <2>2. E(s) = s
    BY <2>1, FieldFacts, ElementRemains DEF E
  <2> QED
    BY <1>1, <2>1, <2>2, InvertedIs
<1>4. PICK z \in Int : z = i * s /\ z = s * i
  OBVIOUS
<1>5. CASE Word(b) = 0
  <2>1. s = 0 /\ i = 0 /\ z = 0
    BY <1>3, <1>4, <1>5
  <2>2. DivHolds(r)
    <3>1. i * (z - 1) = 0 /\ s * (z - 1) = 0
      BY <2>1
    <3>2. \A j \in Limbs : (1 - z) * result[j] = 0
      <4>1. (1 - z) * 0 = 0
        OBVIOUS
      <4> QED
        BY <1>5, <4>1
    <3> QED
      BY <1>1, <1>2, <1>3, <1>4, <3>1, <3>2, FieldFacts DEF DivHolds
  <2>3. ComparisonHolds(r)
    <3>1. \A x \in Int : 0 * x = 0
      OBVIOUS
    <3>2. z = 0
      BY <2>1
    <3>3. /\ \A j \in Limbs : delta(j) \in Int /\ r.t[j] \in Int /\ r.v[j] \in Int
          /\ \A j \in 0..2 : j \in Limbs /\ j + 1 \in Limbs
          /\ 0 \in Limbs /\ 3 \in Limbs
      <4>1. \A j \in Limbs : b[j] \in Int /\ q[j] \in Int
        BY LimbFacts DEF LimbWord
      <4>2. \A j \in Limbs : delta(j) \in Int
        BY <4>1
      <4>3. \A j \in Limbs : above(j) \in Int
        BY DEF above
      <4>4. \A j \in 0..2 : j \in Limbs /\ j + 1 \in Limbs
        BY DEF Limbs
      <4>5. 0 \in Limbs /\ 3 \in Limbs
        BY DEF Limbs
      <4> HIDE DEF delta
      <4> QED
        BY <1>1, <4>2, <4>3, <4>4, <4>5, InvertedIs
    <3>4. r.inverse * DigitSum(r.b) = 0
      BY <1>1, <1>3, <1>4, <3>2
    <3>5. \A j \in Limbs : delta(j) = r.b[j] - r.q[j]
      BY <1>1
    <3> HIDE DEF delta
    <3>6. 0 * (r.t[3] - r.v[3] * delta(3)) = 0
      BY <3>1, <3>3
    <3>7. ASSUME NEW j \in 0..2
          PROVE  0 * (r.t[j] - r.t[j + 1] - (1 - r.t[j + 1]) * r.v[j] * delta(j)) = 0
      <4>1. r.t[j] - r.t[j + 1] - (1 - r.t[j + 1]) * r.v[j] * delta(j) \in Int
        BY <3>3
      <4> QED
        BY <3>1, <4>1
    <3>8. ASSUME NEW j \in Limbs
          PROVE  /\ 0 * r.v[j] * (r.v[j] * delta(j) - 1) = 0
                 /\ 0 * delta(j) * (r.v[j] * delta(j) - 1) = 0
      <4>1. PICK v \in Int, d \in Int : v = r.v[j] /\ d = delta(j)
        BY <3>3
      <4>2. 0 * v * (v * d - 1) = 0 /\ 0 * d * (v * d - 1) = 0
        OBVIOUS
      <4> QED
        BY <4>1, <4>2
    <3>9. 0 * (r.t[0] - 1) = 0
      BY <3>1, <3>3
    <3>10. \A j \in 0..2 : j \in Limbs
      BY <3>3
    <3> QED
      BY <3>3, <3>4, <3>5, <3>6, <3>7, <3>8, <3>9, <3>10, FieldFacts DEF ComparisonHolds
  <2> QED
    BY <1>1, <2>2, <2>3 DEF row
<1>6. CASE Word(b) # 0
  <2>1. E(z - 1) = 0 /\ E(1 - z) = 0
    <3>1. s # 0 /\ E(z - 1) = 0
      BY <1>3, <1>4, <1>6
    <3>2. (z - 1) + (1 - z) = 0 /\ z - 1 \in Int /\ 1 - z \in Int
      OBVIOUS
    <3> QED
      BY <3>1, <3>2, FieldFacts, NegatedZero DEF E
  <2>2. DivHolds(r)
    <3>1. E(i * (z - 1)) = 0 /\ E(s * (z - 1)) = 0
      <4>1. z - 1 \in Int
        OBVIOUS
      <4> QED
        BY <2>1, <4>1, ZeroTimes
    <3>2. \A j \in Limbs : E((1 - z) * result[j]) = 0
      <4>1. 1 - z \in Int /\ \A j \in Limbs : result[j] \in Int
        BY LimbFacts DEF LimbWord
      <4> QED
        BY <2>1, <4>1, ZeroTimes
    <3> QED
      BY <1>1, <1>2, <1>3, <1>4, <3>1, <3>2 DEF DivHolds
  <2>3. ComparisonHolds(r)
    <3>1. \A j \in Limbs : b[j] \in Int /\ q[j] \in Int
      BY LimbFacts DEF LimbWord
    <3>2. /\ q[3] <= b[3]
          /\ q[3] = b[3] => q[2] <= b[2]
          /\ q[3] = b[3] /\ q[2] = b[2] => q[1] <= b[1]
          /\ q[3] = b[3] /\ q[2] = b[2] /\ q[1] = b[1] => q[0] <= b[0]
      <4>1. Word(q) <= Word(b)
        BY <1>6, LimbFacts, WordIs
      <4> QED
        BY <4>1, LimbsDecide
    <3>3. ~(q[3] = b[3] /\ q[2] = b[2] /\ q[1] = b[1] /\ q[0] = b[0])
      <4>1. Word(q) # Word(b)
        BY <1>6, LimbFacts, WordIs
      <4>2. q # b
        BY <4>1
      <4>3. q \in [0..3 -> 0..(LimbBase - 1)] /\ b \in [0..3 -> 0..(LimbBase - 1)]
        BY DEF LimbWord, Limbs
      <4>4. \E j \in 0..3 : q[j] # b[j]
        BY <4>2, <4>3
      <4> QED
        BY <4>4
    <3>4. PICK b0 \in Int, b1 \in Int, b2 \in Int, b3 \in Int :
             b0 = b[0] /\ b1 = b[1] /\ b2 = b[2] /\ b3 = b[3]
      BY <3>1 DEF Limbs
    <3>5. PICK q0 \in Int, q1 \in Int, q2 \in Int, q3 \in Int :
             q0 = q[0] /\ q1 = q[1] /\ q2 = q[2] /\ q3 = q[3]
      BY <3>1 DEF Limbs
    <3>6. /\ above(3) = IF b3 > q3 THEN 1 ELSE 0
          /\ above(2) = IF b3 > q3 \/ b2 > q2 THEN 1 ELSE 0
          /\ above(1) = IF b3 > q3 \/ b2 > q2 \/ b1 > q1 THEN 1 ELSE 0
          /\ above(0) = IF b3 > q3 \/ b2 > q2 \/ b1 > q1 \/ b0 > q0 THEN 1 ELSE 0
      <4>1. 3..3 = {3} /\ 2..3 = {2, 3} /\ 1..3 = {1, 2, 3} /\ 0..3 = {0, 1, 2, 3}
        OBVIOUS
      <4> QED
        BY <3>4, <3>5, <4>1 DEF above
    <3>7. PICK t0 \in {0, 1}, t1 \in {0, 1}, t2 \in {0, 1}, t3 \in {0, 1} :
             t0 = above(0) /\ t1 = above(1) /\ t2 = above(2) /\ t3 = above(3)
      BY DEF above
    <3>8. PICK d0 \in Int, d1 \in Int, d2 \in Int, d3 \in Int :
             d0 = b0 - q0 /\ d1 = b1 - q1 /\ d2 = b2 - q2 /\ d3 = b3 - q3
      OBVIOUS
    <3>9. /\ t3 = (IF d3 = 0 THEN 0 ELSE 1)
          /\ t2 = (IF t3 = 1 THEN 1 ELSE IF d2 = 0 THEN 0 ELSE 1)
          /\ t1 = (IF t2 = 1 THEN 1 ELSE IF d1 = 0 THEN 0 ELSE 1)
          /\ t0 = (IF t1 = 1 THEN 1 ELSE IF d0 = 0 THEN 0 ELSE 1)
          /\ t0 = 1
      <4>1. /\ q3 <= b3 /\ (q3 = b3 => q2 <= b2)
            /\ (q3 = b3 /\ q2 = b2 => q1 <= b1)
            /\ (q3 = b3 /\ q2 = b2 /\ q1 = b1 => q0 <= b0)
            /\ ~(q3 = b3 /\ q2 = b2 /\ q1 = b1 /\ q0 = b0)
        BY <3>2, <3>3, <3>4, <3>5
      <4> QED
        BY <3>6, <3>7, <3>8, <4>1
    <3>10. PICK v0 \in Int, v1 \in Int, v2 \in Int, v3 \in Int :
             v0 = Inverted(d0) /\ v1 = Inverted(d1) /\ v2 = Inverted(d2) /\ v3 = Inverted(d3)
      BY InvertedIs
    <3>11. LimbDelta(d0, v0) /\ LimbDelta(d1, v1) /\ LimbDelta(d2, v2) /\ LimbDelta(d3, v3)
      <4>1. ASSUME NEW x \in (-(LimbBase - 1))..(LimbBase - 1) PROVE LimbDelta(x, Inverted(x))
        BY <4>1, DeltaInverted
      <4>2. \A w \in {b, q} : \A j \in 0..3 : w[j] \in 0..(LimbBase - 1)
        BY DEF LimbWord, Limbs
      <4>3. \A x, y \in 0..(LimbBase - 1) : x - y \in (-(LimbBase - 1))..(LimbBase - 1)
        BY LimbFacts
      <4>4. /\ d0 \in (-(LimbBase - 1))..(LimbBase - 1) /\ d1 \in (-(LimbBase - 1))..(LimbBase - 1)
            /\ d2 \in (-(LimbBase - 1))..(LimbBase - 1) /\ d3 \in (-(LimbBase - 1))..(LimbBase - 1)
        <5>1. /\ b0 \in 0..(LimbBase - 1) /\ b1 \in 0..(LimbBase - 1)
              /\ b2 \in 0..(LimbBase - 1) /\ b3 \in 0..(LimbBase - 1)
          BY <3>4, <4>2
        <5>2. /\ q0 \in 0..(LimbBase - 1) /\ q1 \in 0..(LimbBase - 1)
              /\ q2 \in 0..(LimbBase - 1) /\ q3 \in 0..(LimbBase - 1)
          BY <3>5, <4>2
        <5> QED
          BY <3>8, <4>3, <5>1, <5>2
      <4> QED
        BY <3>10, <4>1, <4>4
    <3>12. \A x \in Int : E(x) = 0 => E(z * x) = 0
      BY ZeroTimes
    <3>13. /\ E(z * (t3 - v3 * d3)) = 0
           /\ E(z * (t2 - t3 - (1 - t3) * v2 * d2)) = 0
           /\ E(z * (t1 - t2 - (1 - t2) * v1 * d1)) = 0
           /\ E(z * (t0 - t1 - (1 - t1) * v0 * d0)) = 0
           /\ E(z * (t0 - 1)) = 0
      <4>1. ASSUME NEW t \in {0, 1}, NEW n \in {0, 1}, NEW d \in Int, NEW v \in Int, LimbDelta(d, v),
                   n = (IF t = 1 THEN 1 ELSE IF d = 0 THEN 0 ELSE 1)
            PROVE  E(z * (n - t - (1 - t) * v * d)) = 0
        <5>1. PICK x \in Int : x = n - t - (1 - t) * v * d
          OBVIOUS
        <5>2. CASE t = 1
          <6>1. x = 0
            BY <4>1, <5>1, <5>2
          <6> QED
            BY <3>12, <5>1, <6>1, FieldFacts
        <5>3. CASE t = 0 /\ d = 0
          <6>1. x = 0
            BY <4>1, <5>1, <5>3
          <6> QED
            BY <3>12, <5>1, <6>1, FieldFacts
        <5>4. CASE t = 0 /\ d # 0
          <6>1. x = 1 - v * d
            BY <4>1, <5>1, <5>4
          <6>2. E(v * d - 1) = 0
            BY <4>1, <5>4 DEF LimbDelta
          <6>3. (v * d - 1) + x = 0 /\ v * d - 1 \in Int
            BY <6>1
          <6>4. E(x) = 0
            BY <6>2, <6>3, FieldFacts, NegatedZero DEF E
          <6> QED
            BY <3>12, <5>1, <6>4
        <5> QED
          BY <5>2, <5>3, <5>4
      <4>2. /\ E(z * (t2 - t3 - (1 - t3) * v2 * d2)) = 0
            /\ E(z * (t1 - t2 - (1 - t2) * v1 * d1)) = 0
            /\ E(z * (t0 - t1 - (1 - t1) * v0 * d0)) = 0
        BY <3>9, <3>11, <4>1
      <4>3. E(z * (t3 - 0 - (1 - 0) * v3 * d3)) = 0
        <5>1. 0 \in {0, 1} /\ t3 = (IF 0 = 1 THEN 1 ELSE IF d3 = 0 THEN 0 ELSE 1)
          BY <3>9
        <5> QED
          BY <3>11, <4>1, <5>1
      <4>4. t3 - 0 - (1 - 0) * v3 * d3 = t3 - v3 * d3
        OBVIOUS
      <4>5. z * (t0 - 1) = 0
        BY <3>9
      <4> QED
        BY <4>2, <4>3, <4>4, <4>5, FieldFacts
    <3>14. ASSUME NEW d \in Int, NEW v \in Int, LimbDelta(d, v)
           PROVE  /\ E(z * v * (v * d - 1)) = 0
                  /\ E(z * d * (v * d - 1)) = 0
      <4>1. CASE d = 0
        <5>1. v = 0
          BY <3>14, <4>1 DEF LimbDelta
        <5>2. z * v * (v * d - 1) = 0 /\ z * d * (v * d - 1) = 0
          BY <4>1, <5>1
        <5> QED
          BY <5>2, FieldFacts
      <4>2. CASE d # 0
        <5>1. PICK x \in Int : x = v * d - 1 /\ E(x) = 0
          BY <3>14, <4>2 DEF LimbDelta
        <5>2. z * v \in Int /\ z * d \in Int
          OBVIOUS
        <5>3. E((z * v) * x) = 0 /\ E((z * d) * x) = 0
          BY <5>1, <5>2, ZeroTimes
        <5> QED
          BY <5>1, <5>3
      <4> QED
        BY <4>1, <4>2
    <3>15. /\ r.t[0] = t0 /\ r.t[1] = t1 /\ r.t[2] = t2 /\ r.t[3] = t3
           /\ r.v[0] = v0 /\ r.v[1] = v1 /\ r.v[2] = v2 /\ r.v[3] = v3
           /\ r.b[0] - r.q[0] = d0 /\ r.b[1] - r.q[1] = d1
           /\ r.b[2] - r.q[2] = d2 /\ r.b[3] - r.q[3] = d3
      <4>1. 0 \in Limbs /\ 1 \in Limbs /\ 2 \in Limbs /\ 3 \in Limbs
        BY DEF Limbs
      <4>2. delta(0) = d0 /\ delta(1) = d1 /\ delta(2) = d2 /\ delta(3) = d3
        BY <3>4, <3>5, <3>8
      <4> QED
        BY <1>1, <3>4, <3>5, <3>7, <3>8, <3>10, <4>1, <4>2
    <3>16. r.inverse * DigitSum(r.b) = z
      BY <1>1, <1>3, <1>4
    <3>17. \A j \in 0..2 :
              E(z * (r.t[j] - r.t[j + 1] - (1 - r.t[j + 1]) * r.v[j] * (r.b[j] - r.q[j]))) = 0
      <4>1. 0 + 1 = 1 /\ 1 + 1 = 2 /\ 2 + 1 = 3 /\ 0..2 = {0, 1, 2}
        OBVIOUS
      <4>2. /\ E(z * (r.t[0] - r.t[0 + 1] - (1 - r.t[0 + 1]) * r.v[0] * (r.b[0] - r.q[0]))) = 0
            /\ E(z * (r.t[1] - r.t[1 + 1] - (1 - r.t[1 + 1]) * r.v[1] * (r.b[1] - r.q[1]))) = 0
            /\ E(z * (r.t[2] - r.t[2 + 1] - (1 - r.t[2 + 1]) * r.v[2] * (r.b[2] - r.q[2]))) = 0
        BY <3>13, <3>15, <4>1
      <4> QED
        BY <4>1, <4>2
    <3>18. \A j \in Limbs :
              /\ E(z * r.v[j] * (r.v[j] * (r.b[j] - r.q[j]) - 1)) = 0
              /\ E(z * (r.b[j] - r.q[j]) * (r.v[j] * (r.b[j] - r.q[j]) - 1)) = 0
      <4>1. Limbs = {0, 1, 2, 3}
        BY DEF Limbs
      <4>2. \A j \in {0, 1, 2, 3} :
              \E d \in Int : \E v \in Int : LimbDelta(d, v) /\ r.v[j] = v /\ r.b[j] - r.q[j] = d
        BY <3>11, <3>15
      <4> QED
        BY <3>14, <4>1, <4>2
    <3> QED
      BY <3>13, <3>15, <3>16, <3>17, <3>18 DEF ComparisonHolds
  <2> QED
    BY <1>1, <2>2, <2>3 DEF row
<1> QED
  BY <1>5, <1>6

-----------------------------------------------------------------------------
(* All opcodes                                                             *)

(* What an opcode works on, and the row of ADD or SUB.                     *)
LEMMA OperandsAre ==
    /\ \A n \in Operand : n \in Nat /\ n < Size(ChunkBase, Chunks)
    /\ \A n \in LimbOperand : n \in 0..(Size(LimbBase, Limbs) - 1)
    /\ Size(ChunkBase, Chunks) \in Nat \ {0}
<1>1. PICK H \in Nat \ {0} : H = Size(ChunkBase, Chunks)
  <2>1. 3 * Triples + 1 \in Nat
    BY ChunkFacts
  <2> QED
    BY <2>1, ChunkFacts, PowerIs
<1> QED
  BY <1>1, OperandAssumption

LEMMA SumRowIsAccepted ==
    ASSUME NEW op \in {"add", "sub"}, NEW a \in Operand, NEW b \in Operand
    PROVE  SumHolds(SumRow(op, a, b))
<1>1. PICK H \in Nat \ {0} : H = Size(ChunkBase, Chunks)
  BY OperandsAre
<1>2. a \in Nat /\ b \in Nat /\ a \in 0..(H - 1)
  BY <1>1, OperandsAre
<1>3. PICK s \in 0..(H - 1), d \in 0..(H - 1) : s = (a + b) % H /\ d = (a - b) % H
  <2>1. a + b \in Int /\ a - b \in Int
    BY <1>2
  <2> QED
    BY <2>1, ElementRemains
<1>4. a = (d + b) % H
  <2>1. PICK n \in Int : n = a - b
    BY <1>2
  <2>2. (n + b) % H = ((n % H) + b) % H
    <3>1. H \in Nat \ {0} /\ n \in Int /\ b \in Int
      BY <1>2
    <3> QED
      BY <3>1, SumOfRemainder
  <2>3. n + b = a /\ n % H = d
    BY <1>2, <1>3, <2>1
  <2>4. a % H = a
    BY <1>2, ElementRemains
  <2> QED
    BY <2>2, <2>3, <2>4
<1> DEFINE r == SumRow(op, a, b)
<1>5. CASE op = "add"
  <2>1. /\ r.a = AllChunks(a) /\ r.b = AllChunks(b) /\ r.r = AllChunks(s)
        /\ r.carry = Carries(AllChunks(a), AllChunks(b))
    BY <1>1, <1>3, <1>5 DEF SumRow
  <2> HIDE DEF r
  <2>2. s \in Nat /\ s = (a + b) % Size(ChunkBase, Chunks)
    BY <1>1, <1>3
  <2>3. SumHolds(r)
    BY <1>2, <2>1, <2>2, SumIsAccepted
  <2> QED
    BY <2>3 DEF r
<1>6. CASE op = "sub"
  <2>1. /\ r.a = AllChunks(d) /\ r.b = AllChunks(b) /\ r.r = AllChunks(a)
        /\ r.carry = Carries(AllChunks(d), AllChunks(b))
    BY <1>1, <1>3, <1>6 DEF SumRow
  <2> HIDE DEF r
  <2>2. d \in Nat /\ a = (d + b) % Size(ChunkBase, Chunks)
    BY <1>1, <1>3, <1>4
  <2>3. SumHolds(r)
    BY <1>2, <2>1, <2>2, SumIsAccepted
  <2> QED
    BY <2>3 DEF r
<1> QED
  BY <1>5, <1>6

(* OperationsAccepted: what ADD, SUB, ISZERO, MUL and DIV write for words  *)
(* on the stack, any words, satisfies the gates they generate.             *)
THEOREM OpcodesAreAccepted == OperationsSpec => []OperationsAccepted
<1>1. OperationsInit => OperationsAccepted
  BY DEF OperationsInit, OperationsAccepted
<1>2. ASSUME OperationsAccepted, OperationsNext PROVE OperationsAccepted'
  <2>1. CASE AddSub
    <3>1. PICK op \in {"add", "sub"} :
             entry' = [by |-> "opcode", is |-> SumRow(op, stack[1], stack[2])]
      BY <2>1 DEF AddSub, Written
    <3>2. stack[1] \in Operand /\ stack[2] \in Operand
      BY <2>1 DEF AddSub, OnStack
    <3>3. SumHolds(SumRow(op, stack[1], stack[2])) /\ SumRow(op, stack[1], stack[2]).op = op
      BY <3>2, SumRowIsAccepted DEF SumRow
    <3>4. PICK r : r = SumRow(op, stack[1], stack[2])
      OBVIOUS
    <3> QED
      BY <3>1, <3>3, <3>4 DEF OperationsAccepted
  <2>2. CASE IsZero
    <3>1. PICK r : r = IsZeroRow(stack[1]) /\ entry' = [by |-> "opcode", is |-> r]
      BY <2>2 DEF IsZero, Written
    <3>2. stack[1] \in Operand
      BY <2>2 DEF IsZero, OnStack
    <3>3. IsZeroHolds(r) /\ r.op = "iszero"
      <4>1. IsZeroRow(stack[1]).op = "iszero"
        BY DEF IsZeroRow
      <4> QED
        BY <3>1, <3>2, <4>1, IsZeroIsAccepted
    <3> QED
      BY <3>1, <3>3 DEF OperationsAccepted
  <2>3. CASE Mul
    <3>1. PICK r : r = MulRow(stack[1], stack[2]) /\ entry' = [by |-> "opcode", is |-> r]
      BY <2>3 DEF Mul, Written
    <3>2. stack[1] \in LimbOperand /\ stack[2] \in LimbOperand
      BY <2>3 DEF Mul, OnStack
    <3>3. MulHolds(r) /\ r.op = "mul"
      <4>1. MulRow(stack[1], stack[2]).op = "mul"
        BY DEF MulRow
      <4> QED
        BY <3>1, <3>2, <4>1, MulIsAccepted
    <3> QED
      BY <3>1, <3>3 DEF OperationsAccepted
  <2>4. CASE Div
    <3>1. PICK r : r = DivOf(stack[1], stack[2]) /\ entry' = [by |-> "opcode", is |-> r]
      BY <2>4 DEF Div, Written
    <3>2. PICK a, b, result, q : r = DivRow(a, b, result, q) /\ DivHolds(r) /\ ComparisonHolds(r)
      <4>1. stack[1] \in LimbOperand /\ stack[2] \in LimbOperand
        BY <2>4 DEF Div, OnStack
      <4>2. PICK a \in LimbWord, b \in LimbWord, result \in LimbWord, q \in LimbWord :
               /\ a = AllLimbs(stack[1]) /\ b = AllLimbs(stack[2])
               /\ r = DivRow(a, b, result, q)
               /\ a \in LimbWord /\ b \in LimbWord
               /\ Word(a) = Wrapped(Word(result) * Word(b) + Word(q))
               /\ Word(b) = 0 => \A i \in Limbs : result[i] = 0
               /\ Word(b) # 0 => Word(q) < Word(b)
        BY <3>1, <4>1, DivOperands
      <4> QED
        BY <4>2, DivIsAccepted
    <3>3. r.op = "div"
      BY <3>2 DEF DivRow
    <3> QED
      BY <3>1, <3>2, <3>3 DEF OperationsAccepted
  <2>5. ASSUME ClaimSum \/ ClaimIsZero \/ ClaimMul \/ ClaimDiv PROVE entry'.by = "anyone"
    <3>1. CASE ClaimSum
      BY <3>1 DEF ClaimSum, Claimed
    <3>2. CASE ClaimIsZero
      BY <3>2 DEF ClaimIsZero, Claimed
    <3>3. CASE ClaimMul
      BY <3>3 DEF ClaimMul, Claimed
    <3>4. CASE ClaimDiv
      BY <3>4 DEF ClaimDiv, Claimed
    <3> QED
      BY <2>5, <3>1, <3>2, <3>3, <3>4
  <2> QED
    BY <1>2, <2>1, <2>2, <2>3, <2>4, <2>5 DEF OperationsNext, OperationsAccepted
<1>3. OperationsAccepted /\ UNCHANGED operationVars => OperationsAccepted'
  BY DEF OperationsAccepted, operationVars
<1> QED
  BY <1>1, <1>2, <1>3, PTL DEF OperationsSpec

(* OperationsMean: whatever anyone claims of the words on the stack, a row *)
(* that the gates accept means what the opcode computes; of DIV only what  *)
(* its gates say, that the remainder is not the divisor.                   *)
THEOREM AcceptedRowsMean == OperationsSpec => []OperationsMean
<1>1. OperationsInit => OperationsMean
  BY DEF OperationsInit, OperationsMean
<1>2. ASSUME OperationsMean, OperationsNext PROVE OperationsMean'
  <2>1. CASE ClaimSum
    <3>1. PICK third \in [Chunks -> 0..(ChunkBase - 1)], carry \in [0..Triples -> {0, 1}] :
             LET r == [op |-> "add", a |-> AllChunks(stack[1]), b |-> AllChunks(stack[2]),
                       r |-> third, carry |-> carry]
             IN SumHolds(r) /\ entry' = [by |-> "anyone", is |-> r]
      BY <2>1 DEF ClaimSum, Claimed
    <3>2. PICK r : /\ r.op = "add" /\ r.a = AllChunks(stack[1]) /\ r.b = AllChunks(stack[2])
                   /\ r.r = third /\ r.carry = carry
                   /\ SumHolds(r) /\ entry' = [by |-> "anyone", is |-> r]
      BY <3>1
    <3>3. SumRowOf(r)
      <4>1. stack[1] \in Nat /\ stack[2] \in Nat
        BY <2>1, OperandsAre DEF ClaimSum, OnStack
      <4> QED
        BY <3>2, <4>1, ChunksAre DEF SumRowOf
    <3>4. Number(r.r, ChunkBase)
             = (Number(r.a, ChunkBase) + Number(r.b, ChunkBase)) % Size(ChunkBase, Chunks)
      BY <3>2, <3>3, SumMeans
    <3> QED
      BY <3>2, <3>4 DEF OperationsMean
  <2>2. CASE ClaimIsZero
    <3>1. PICK result \in Residue, inverse \in Residue :
             LET r == [op |-> "iszero", a |-> AllChunks(stack[1]), result |-> result,
                       inverse |-> inverse]
             IN IsZeroHolds(r) /\ entry' = [by |-> "anyone", is |-> r]
      BY <2>2 DEF ClaimIsZero, Claimed
    <3>2. PICK r : /\ r.op = "iszero" /\ r.a = AllChunks(stack[1])
                   /\ r.result = result /\ r.inverse = inverse
                   /\ IsZeroHolds(r) /\ entry' = [by |-> "anyone", is |-> r]
      BY <3>1
    <3>3. r.a \in [Chunks -> 0..(ChunkBase - 1)]
      <4>1. stack[1] \in Nat
        BY <2>2, OperandsAre DEF ClaimIsZero, OnStack
      <4> QED
        BY <3>2, <4>1, ChunksAre
    <3>4. r.result = IF Number(r.a, ChunkBase) = 0 THEN 1 ELSE 0
      BY <3>2, <3>3, IsZeroMeans
    <3> QED
      BY <3>2, <3>4 DEF OperationsMean
  <2>3. CASE ClaimMul
    <3>1. PICK third \in LimbWord, c \in CarriesTried :
             LET r == [op |-> "mul", a |-> AllLimbs(stack[1]), b |-> AllLimbs(stack[2]),
                       r |-> third, c |-> c]
             IN MulHolds(r) /\ entry' = [by |-> "anyone", is |-> r]
      BY <2>3 DEF ClaimMul, Claimed
    <3>2. PICK r : /\ r.op = "mul" /\ r.a = AllLimbs(stack[1]) /\ r.b = AllLimbs(stack[2])
                   /\ r.r = third /\ r.c = c
                   /\ MulHolds(r) /\ entry' = [by |-> "anyone", is |-> r]
      BY <3>1
    <3>3. r.a \in LimbWord /\ r.b \in LimbWord
      <4>1. stack[1] \in LimbOperand /\ stack[2] \in LimbOperand
        BY <2>3 DEF ClaimMul, OnStack
      <4> QED
        BY <3>2, <4>1, OperandsAre, LimbsAre
    <3>4. Word(r.r) = Wrapped(Word(r.a) * Word(r.b))
      BY <3>2, <3>3, MulMeans
    <3> QED
      BY <3>2, <3>4 DEF OperationsMean
  <2>4. CASE ClaimDiv
    <3>0. PICK a, b : a = AllLimbs(stack[1]) /\ b = AllLimbs(stack[2])
      OBVIOUS
    <3>1. PICK result \in LimbWord, q \in LimbOperands, c \in CarriesTried :
             /\ DivHolds(ClaimedDiv(a, b, result, q, c))
             /\ ComparisonHolds(ClaimedDiv(a, b, result, q, c))
             /\ entry' = [by |-> "anyone", is |-> ClaimedDiv(a, b, result, q, c)]
      BY <2>4, <3>0 DEF ClaimDiv, Claimed
    <3>2. a \in LimbWord /\ b \in LimbWord /\ q \in LimbWord
      <4>1. stack[1] \in LimbOperand /\ stack[2] \in LimbOperand
        BY <2>4 DEF ClaimDiv, OnStack
      <4>2. PICK n \in LimbOperand : q = AllLimbs(n)
        BY DEF LimbOperands
      <4> QED
        BY <3>0, <4>1, <4>2, OperandsAre, LimbsAre
    <3>3. PICK r : r = ClaimedDiv(a, b, result, q, c)
      OBVIOUS
    <3>4. /\ r.op = "div" /\ r.a = a /\ r.b = b /\ r.r = result /\ r.q = q /\ r.c = c
          /\ r.inverse = Inverted(DigitSum(b))
          /\ r.t = [i \in Limbs |-> IF \E j \in i..3 : b[j] # q[j] THEN 1 ELSE 0]
          /\ r.v = [i \in Limbs |-> Inverted(b[i] - q[i])]
      BY <3>3 DEF ClaimedDiv, DivRow
    <3>5. r.inverse \in Int /\ r.t \in [Limbs -> Residue] /\ r.v \in [Limbs -> Residue]
      <4>1. r.inverse \in Int
        <5>1. DigitSum(b) \in Int
          BY <3>2, LimbSum, FieldFacts
        <5> QED
          BY <3>4, <5>1, InvertedIs
      <4>2. r.t \in [Limbs -> Residue]
        <5>1. 0 \in Residue /\ 1 \in Residue
          BY FieldFacts DEF Residue
        <5> QED
          BY <3>4, <5>1
      <4>3. r.v \in [Limbs -> Residue]
        <5>1. \A i \in Limbs : b[i] \in Int /\ q[i] \in Int
          BY <3>2, LimbFacts DEF LimbWord
        <5>2. \A i \in Limbs : b[i] - q[i] \in Int
          BY <5>1
        <5>3. \A i \in Limbs : Inverted(b[i] - q[i]) \in Residue
          BY <5>2, InvertedIs
        <5> QED
          BY <3>4, <5>3
      <4> QED
        BY <4>1, <4>2, <4>3
    <3>6. /\ Word(r.a) = Wrapped(Word(r.r) * Word(r.b) + Word(r.q))
          /\ Word(r.b) = 0 => Word(r.r) = 0
          /\ Word(r.b) # 0 => Word(r.q) # Word(r.b)
      <4>1. /\ r.a \in LimbWord /\ r.b \in LimbWord /\ r.r \in LimbWord /\ r.q \in LimbWord
            /\ r.c \in CarriesTried /\ DivHolds(r) /\ ComparisonHolds(r)
        BY <3>1, <3>2, <3>3, <3>4
      <4> QED
        BY <3>5, <4>1, DivMeans
    <3> QED
      BY <3>1, <3>3, <3>4, <3>6 DEF OperationsMean
  <2>5. ASSUME AddSub \/ IsZero \/ Mul \/ Div PROVE entry'.by = "opcode"
    <3>1. CASE AddSub
      BY <3>1 DEF AddSub, Written
    <3>2. CASE IsZero
      BY <3>2 DEF IsZero, Written
    <3>3. CASE Mul
      BY <3>3 DEF Mul, Written
    <3>4. CASE Div
      BY <3>4 DEF Div, Written
    <3> QED
      BY <2>5, <3>1, <3>2, <3>3, <3>4
  <2> QED
    BY <1>2, <2>1, <2>2, <2>3, <2>4, <2>5 DEF OperationsNext, OperationsMean
<1>3. OperationsMean /\ UNCHANGED operationVars => OperationsMean'
  BY DEF OperationsMean, operationVars
<1> QED
  BY <1>1, <1>2, <1>3, PTL DEF OperationsSpec

-----------------------------------------------------------------------------
(* The circuit, its bytecode table and its opcodes together                *)

(* WhatIsWrittenIsAccepted: the tables and rows that the zkEVM code writes *)
(* itself satisfy the constraints it puts on them.                         *)
THEOREM WrittenIsAccepted == ZkevmSpec => []WhatIsWrittenIsAccepted
<1>1. ZkevmInit => Init /\ BytecodeInit /\ OperationsInit
  BY DEF ZkevmInit
<1>2. [ZkevmNext]_<<part, vars, bytecodeVars, operationVars>>
         => [Next]_vars /\ [BytecodeNext]_bytecodeVars /\ [OperationsNext]_operationVars
  BY DEF ZkevmNext, ElseThanCircuit, Next
<1>3. ZkevmSpec => Spec /\ BytecodeSpec /\ OperationsSpec
  BY <1>1, <1>2, PTL DEF ZkevmSpec, Spec, BytecodeSpec, OperationsSpec
<1>4. HonestAccepted /\ AssignedAccepted /\ OperationsAccepted => WhatIsWrittenIsAccepted
  BY DEF WhatIsWrittenIsAccepted
<1> QED
  BY <1>3, <1>4, CircuitWritesWhatItAccepts, AssignedContractsAreAccepted, OpcodesAreAccepted, PTL
=============================================================================
