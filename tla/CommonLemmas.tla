---------------------------- MODULE CommonLemmas ----------------------------
(***************************************************************************)
(* Facts that several proofs need: division, fields of remainders, least   *)
(* numbers and smallest sets, functions defined by counting up, and sums   *)
(* over finite sets.  Facts about all numbers or all finite sets are shown *)
(* by way of a least number or a smallest set without them.                *)
(***************************************************************************)
EXTENDS Integers, Functions, FiniteSetsExt, FiniteSetTheorems, WellFoundedInduction, TLAPS

-----------------------------------------------------------------------------
(* Division                                                                *)

LEMMA Distributes ==
    ASSUME NEW a \in Int, NEW b \in Int, NEW c \in Int
    PROVE  a * (b + c) = a * b + a * c
  OBVIOUS

LEMMA RemainderIsRest ==
    ASSUME NEW x \in Int, NEW a \in Nat \ {0}, NEW q \in Int, q = x \div a
    PROVE  x % a = x - a * q
  OBVIOUS

LEMMA Divided ==
    ASSUME NEW x \in Int, NEW a \in Nat \ {0}
    PROVE  \E q \in Int, r \in 0..(a - 1) : x = a * q + r /\ x % a = r /\ x \div a = q
<1>1. PICK q \in Int : q = x \div a
  OBVIOUS
<1>2. PICK r \in 0..(a - 1) : r = x % a
  OBVIOUS
<1>3. x % a = x - a * q
  BY <1>1, RemainderIsRest
<1>4. PICK z \in Int : z = a * q
  OBVIOUS
<1>5. x = a * q + r
  BY <1>2, <1>3, <1>4
<1> QED
  BY <1>1, <1>2, <1>5

LEMMA RemainderIsUnique ==
    ASSUME NEW x \in Int, NEW a \in Nat \ {0}, NEW q \in Int, NEW r \in 0..(a - 1),
           x = a * q + r
    PROVE  x % a = r
  OBVIOUS

LEMMA MultiplesVanish ==
    ASSUME NEW x \in Int, NEW y \in Int, NEW a \in Nat \ {0}
    PROVE  (x + a * y) % a = x % a
<1>1. PICK q \in Int, r \in 0..(a - 1) : x = a * q + r /\ x % a = r
  BY Divided
<1>2. x + a * y = a * (q + y) + r
  <2>1. PICK u \in Int, v \in Int : u = a * q /\ v = a * y
    OBVIOUS
  <2>2. a * (q + y) = u + v
    BY <2>1, Distributes
  <2> QED
    BY <1>1, <2>1, <2>2
<1>3. PICK z \in Int, p \in Int : p = q + y /\ z = x + a * y /\ z = a * p + r
  BY <1>2
<1>4. z % a = r
  BY <1>3, RemainderIsUnique
<1> QED
  BY <1>1, <1>3, <1>4

-----------------------------------------------------------------------------
(* The field of p elements                                                 *)

IsField(p) ==
    /\ p \in Nat /\ p > 2
    /\ \A x \in 1..(p - 1) : \E y \in 0..(p - 1) : (x * y) % p = 1

LEMMA ElementRemains ==
    ASSUME NEW p \in Nat \ {0}
    PROVE  /\ \A x \in Int : x % p \in 0..(p - 1)
           /\ \A x \in 0..(p - 1) : x \in Int /\ x % p = x
<1>1. ASSUME NEW x \in Int PROVE x % p \in 0..(p - 1)
  OBVIOUS
<1>2. ASSUME NEW x \in 0..(p - 1) PROVE x \in Int /\ x % p = x
  <2>1. x \in Int /\ x = p * 0 + x
    OBVIOUS
  <2> QED
    BY <2>1, RemainderIsUnique
<1> QED
  BY <1>1, <1>2

LEMMA ProductOfRemainder ==
    ASSUME NEW p \in Nat \ {0}, NEW x \in Int, NEW y \in Int
    PROVE  (x * y) % p = ((x % p) * y) % p
<1>1. PICK q \in Int, r \in 0..(p - 1) : x = p * q + r /\ x % p = r
  BY Divided
<1>2. x * y = r * y + p * (q * y)
  BY <1>1
<1>3. PICK u \in Int, v \in Int : u = r * y /\ v = q * y
  BY <1>1
<1>4. (u + p * v) % p = u % p
  BY MultiplesVanish
<1> QED
  BY <1>1, <1>2, <1>3, <1>4

LEMMA SumOfRemainder ==
    ASSUME NEW p \in Nat \ {0}, NEW x \in Int, NEW y \in Int
    PROVE  (x + y) % p = ((x % p) + y) % p
<1>1. PICK q \in Int, r \in 0..(p - 1) : x = p * q + r /\ x % p = r
  BY Divided
<1>2. PICK u \in Int : u = r + y
  BY <1>1
<1>3. x + y = u + p * q
  BY <1>1, <1>2
<1>4. (u + p * q) % p = u % p
  BY <1>1, MultiplesVanish
<1> QED
  BY <1>1, <1>2, <1>3, <1>4

(* There are no divisors of zero.                                          *)
LEMMA FactorIsZero ==
    ASSUME NEW p, IsField(p), NEW x \in Int, NEW y \in Int, (x * y) % p = 0
    PROVE  x % p = 0 \/ y % p = 0
<1> DEFINE F(z) == z % p
<1> SUFFICES ASSUME F(x) # 0 PROVE F(y) = 0
  OBVIOUS
<1>0. p \in Nat \ {0} /\ p > 2
  BY DEF IsField
<1>1. F(x) \in 1..(p - 1)
  BY <1>0, ElementRemains
<1>2. PICK z \in 0..(p - 1) : F(F(x) * z) = 1
  BY <1>1 DEF IsField
<1>3. z \in Int
  BY <1>0
<1>4. F(x * z) = 1
  BY <1>0, <1>2, <1>3, ProductOfRemainder
<1>5. PICK s \in Int, t \in Int : s = x * z /\ t = x * y
  BY <1>3
<1>6. s * y = t * z
  <2>1. (x * z) * y = (x * y) * z
    BY <1>3
  <2> QED
    BY <1>5, <2>1
<1>7. F(s * y) = F(1 * y)
  <2>1. s % p = 1
    BY <1>4, <1>5
  <2>2. (s * y) % p = ((s % p) * y) % p
    BY <1>0, <1>5, ProductOfRemainder
  <2> QED
    BY <2>1, <2>2
<1>8. F(t * z) = F(0 * z)
  BY <1>0, <1>3, <1>5, ProductOfRemainder
<1>9. 1 * y = y /\ 0 * z = 0
  BY <1>3
<1>10. F(0) = 0
  BY <1>0, ElementRemains
<1> HIDE DEF F
<1> QED
  BY <1>6, <1>7, <1>8, <1>9, <1>10

LEMMA SmallZero ==
    ASSUME NEW p \in Nat \ {0}, NEW x \in Int, -p < x, x < p, x % p = 0
    PROVE  x = 0
<1>1. PICK q \in Int, r \in 0..(p - 1) : x = p * q + r /\ x % p = r
  BY Divided
<1>2. r = 0
  BY <1>1
<1>3. PICK s \in Int : s = p * q
  BY <1>1
<1>4. x = s
  BY <1>1, <1>2, <1>3
<1>5. q = 0
  <2>1. CASE q >= 1
    <3>1. p * q >= p
      BY <2>1
    <3> QED
      BY <1>3, <1>4, <3>1
  <2>2. CASE q <= -1
    <3>1. p * q <= -p
      BY <2>2
    <3> QED
      BY <1>3, <1>4, <3>1
  <2> QED
    BY <1>1, <2>1, <2>2
<1> QED
  BY <1>3, <1>4, <1>5

LEMMA SameElement ==
    ASSUME NEW p \in Nat \ {0}, NEW x \in 0..(p - 1), NEW y \in 0..(p - 1), (x - y) % p = 0
    PROVE  x = y
<1>1. PICK d \in Int : d = x - y
  OBVIOUS
<1>2. -p < d /\ d < p
  BY <1>1
<1>3. d = 0
  BY <1>1, <1>2, SmallZero
<1> QED
  BY <1>1, <1>3

LEMMA NegatedZero ==
    ASSUME NEW p \in Nat \ {0}, NEW x \in Int, NEW y \in Int, x + y = 0, x % p = 0
    PROVE  y % p = 0
<1>1. PICK q \in Int, r \in 0..(p - 1) : x = p * q + r /\ x % p = r
  BY Divided
<1>2. PICK s \in Int, k \in Int : s = p * q /\ k = 0 - q
  BY <1>1
<1>3. p * k = 0 - s
  BY <1>1, <1>2
<1>4. y = p * k + 0
  BY <1>1, <1>2, <1>3
<1> QED
  BY <1>2, <1>4, RemainderIsUnique

(* An element is the remainder of what its difference to it vanishes for.  *)
LEMMA ElementIsRemainder ==
    ASSUME NEW p \in Nat \ {0}, NEW x \in 0..(p - 1), NEW y \in Int, (x - y) % p = 0
    PROVE  x = y % p
<1>1. PICK q \in Int, r \in 0..(p - 1) : x - y = p * q + r /\ (x - y) % p = r
  BY Divided
<1>2. PICK k \in Int : k = -q
  BY <1>1
<1>3. y = x + p * k
  <2>1. PICK s \in Int : s = p * q
    BY <1>1
  <2>2. p * k = -s
    BY <1>1, <1>2, <2>1
  <2> QED
    BY <1>1, <2>1, <2>2
<1>4. x \in Int /\ x % p = x
  BY ElementRemains
<1>5. (x + p * k) % p = x % p
  BY <1>2, <1>4, MultiplesVanish
<1> QED
  BY <1>3, <1>4, <1>5

(* b(b - 1) = 0 makes a bit of an element.                                 *)
LEMMA BitConstraint ==
    ASSUME NEW p, IsField(p), NEW b \in 0..(p - 1), (b * (b - 1)) % p = 0
    PROVE  b \in {0, 1}
<1>1. p \in Nat \ {0} /\ p > 2
  BY DEF IsField
<1>2. b \in Int /\ b - 1 \in Int /\ 1 \in 0..(p - 1)
  BY <1>1
<1>3. b % p = b
  BY <1>1, ElementRemains
<1>4. CASE b % p = 0
  BY <1>4, <1>3
<1>5. CASE (b - 1) % p = 0
  BY <1>1, <1>2, <1>5, SameElement
<1> QED
  BY <1>2, <1>4, <1>5, FactorIsZero

-----------------------------------------------------------------------------
(* Least numbers and smallest sets                                         *)

LEMMA LeastNatural ==
    ASSUME NEW T \in SUBSET Nat, T # {}
    PROVE  \E m \in T : \A n \in T : m <= n
<1> DEFINE R == OpToRel(<, Nat)
<1>1. T \subseteq Nat
  OBVIOUS
<1>2. IsWellFoundedOn(R, Nat)
  BY NatLessThanWellFounded
<1>3. \A a, b \in Nat : b < a => <<b, a>> \in R
  BY DEF OpToRel
<1> HIDE DEF R
<1>4. PICK x \in T : \A y \in T : ~ (<<y, x>> \in R)
  BY <1>1, <1>2, WFMin
<1>5. \A y \in T : ~(y < x)
  BY <1>1, <1>3, <1>4
<1> QED
  BY <1>1, <1>5

LEMMA SmallestSet ==
    ASSUME NEW B, B # {}, \A s \in B : IsFiniteSet(s)
    PROVE  \E s \in B : \A t \in B : Cardinality(s) <= Cardinality(t)
<1> DEFINE sizes == {Cardinality(s) : s \in B}
<1>1. sizes \in SUBSET Nat /\ sizes # {}
  BY FS_CardinalityType
<1>2. PICK m \in sizes : \A n \in sizes : m <= n
  BY <1>1, LeastNatural
<1> QED
  BY <1>2

LEMMA ImageIsNoLarger ==
    ASSUME NEW S, IsFiniteSet(S), NEW f
    PROVE  IsFiniteSet({f[x] : x \in S}) /\ Cardinality({f[x] : x \in S}) <= Cardinality(S)
<1> DEFINE T == {f[x] : x \in S}
           h == [x \in S |-> f[x]]
<1>1. h \in Surjection(S, T)
  BY DEF Surjection
<1> QED
  BY <1>1, FS_Surjection

LEMMA OneLess ==
    ASSUME NEW S, IsFiniteSet(S), NEW x \in S
    PROVE  /\ IsFiniteSet(S \ {x})
           /\ Cardinality(S \ {x}) \in Nat /\ Cardinality(S) \in Nat
           /\ Cardinality(S \ {x}) < Cardinality(S)
<1>1. IsFiniteSet(S \ {x}) /\ Cardinality(S \ {x}) = Cardinality(S) - 1
  BY FS_RemoveElement
<1> QED
  BY <1>1, FS_CardinalityType

LEMMA MinIsLeast ==
    ASSUME NEW T \in SUBSET Nat, T # {}
    PROVE  Min(T) \in T /\ \A n \in T : Min(T) <= n
  BY LeastNatural DEF Min

LEMMA MaxIsGreatest ==
    ASSUME NEW S \in SUBSET Nat, S # {}, IsFiniteSet(S)
    PROVE  Max(S) \in S /\ \A n \in S : n <= Max(S)
<1> DEFINE B == {T \in SUBSET S : T # {} /\ ~ \E m \in T : \A n \in T : n <= m}
<1>1. B = {}
  <2> SUFFICES ASSUME B # {} PROVE FALSE
    OBVIOUS
  <2>1. \A s \in B : IsFiniteSet(s)
    BY FS_Subset
  <2>2. PICK T \in B : \A t \in B : Cardinality(T) <= Cardinality(t)
    BY <2>1, SmallestSet
  <2>3. PICK x \in T : x \in Nat
    OBVIOUS
  <2>4. T \ {x} \notin B
    <3>1. /\ Cardinality(T \ {x}) \in Nat /\ Cardinality(T) \in Nat
          /\ Cardinality(T \ {x}) < Cardinality(T)
      BY <2>1, OneLess
    <3> HIDE DEF B
    <3> QED
      BY <2>2, <3>1
  <2>5. CASE T \ {x} = {}
    BY <2>3, <2>5
  <2>6. CASE T \ {x} # {}
    <3>1. PICK m \in T \ {x} : \A n \in T \ {x} : n <= m
      BY <2>4, <2>6
    <3>2. CASE m <= x
      <4>1. \A n \in T : n <= x
        BY <2>3, <3>1, <3>2
      <4> QED
        BY <4>1
    <3>3. CASE ~(m <= x)
      <4>1. \A n \in T : n <= m
        BY <2>3, <3>1, <3>3
      <4> QED
        BY <4>1
    <3> QED
      BY <3>2, <3>3
  <2> QED
    BY <2>5, <2>6
<1>2. \E m \in S : \A n \in S : n <= m
  BY <1>1
<1>3. \E m \in S : \A n \in S : m >= n
  BY <1>2
<1> QED
  BY <1>3 DEF Max

-----------------------------------------------------------------------------
(* Functions that are defined by counting up                               *)

(* What holds of 0 and goes on from each number to the next.               *)
LEMMA CountingUp ==
    ASSUME NEW n \in Nat, NEW P, 0 \in P, \A j \in 1..n : j - 1 \in P => j \in P
    PROVE  \A j \in 0..n : j \in P
<1> DEFINE B == (0..n) \ P
<1> SUFFICES ASSUME B # {} PROVE FALSE
  OBVIOUS
<1>1. B \in SUBSET Nat
  OBVIOUS
<1>2. PICK m \in B : \A j \in B : m <= j
  BY <1>1, LeastNatural
<1>3. m \in 1..n /\ m - 1 \in 0..n /\ m - 1 \notin B
  BY <1>1, <1>2
<1> QED
  BY <1>2, <1>3

(* Functions on 0..n that are defined from each value to the next.         *)
Counted(f, n, first, step) ==
    f = [j \in 0..n |-> IF j = 0 THEN first ELSE step[<<j, f[j - 1]>>]]

LEMMA CountedFunctionExists ==
    ASSUME NEW n \in Nat, NEW first, NEW step
    PROVE  \E f : Counted(f, n, first, step)
<1> DEFINE B == {k \in 0..n : ~ \E f : Counted(f, k, first, step)}
<1> SUFFICES ASSUME B # {} PROVE FALSE
  OBVIOUS
<1>1. B \in SUBSET Nat /\ B \subseteq 0..n
  OBVIOUS
<1>2. \A k \in 0..n : k \notin B => \E f : Counted(f, k, first, step)
  OBVIOUS
<1>3. \A k \in B : ~ \E f : Counted(f, k, first, step)
  OBVIOUS
<1> HIDE DEF B
<1>4. PICK m \in B : \A k \in B : m <= k
  BY <1>1, LeastNatural
<1>5. CASE m = 0
  <2>1. Counted([j \in 0..0 |-> first], 0, first, step)
    BY DEF Counted
  <2> QED
    BY <1>3, <1>5, <2>1
<1>6. CASE m # 0
  <2>1. m \in 1..n /\ m - 1 \in 0..n /\ m - 1 \notin B
    BY <1>1, <1>4, <1>6
  <2>2. PICK f : Counted(f, m - 1, first, step)
    BY <1>2, <2>1
  <2>3. /\ \A j \in 0..(m - 1) : f[j] = IF j = 0 THEN first ELSE step[<<j, f[j - 1]>>]
    BY <2>2 DEF Counted
  <2> DEFINE g == [j \in 0..m |-> IF j = m THEN step[<<m, f[m - 1]>>] ELSE f[j]]
  <2>4. g[m] = step[<<m, f[m - 1]>>] /\ \A j \in 0..(m - 1) : g[j] = f[j]
    BY <2>1
  <2>5. ASSUME NEW j \in 0..m
        PROVE  g[j] = IF j = 0 THEN first ELSE step[<<j, g[j - 1]>>]
    <3> HIDE DEF g
    <3>1. CASE j = m
      BY <2>1, <2>4, <3>1
    <3>2. CASE j # m
      <4>1. j \in 0..(m - 1) /\ (j # 0 => j - 1 \in 0..(m - 1))
        BY <2>1, <3>2
      <4>2. g[j] = f[j] /\ (j # 0 => g[j - 1] = f[j - 1])
        BY <2>4, <4>1
      <4> QED
        BY <2>3, <4>1, <4>2
    <3> QED
      BY <3>1, <3>2
  <2>6. g = [j \in 0..m |-> g[j]]
    OBVIOUS
  <2> HIDE DEF g
  <2>7. Counted(g, m, first, step)
    BY <2>5, <2>6 DEF Counted
  <2> QED
    BY <1>3, <2>7
<1> QED
  BY <1>5, <1>6

LEMMA CountedFunctionType ==
    ASSUME NEW S, NEW n \in Nat, NEW first \in S, NEW step \in [(1..n) \X S -> S],
           NEW f, Counted(f, n, first, step)
    PROVE  f \in [0..n -> S]
<1> DEFINE P == {j \in 0..n : f[j] \in S}
<1>1. f = [j \in 0..n |-> f[j]] /\ f[0] = first /\ \A j \in 1..n : f[j] = step[<<j, f[j - 1]>>]
  BY DEF Counted
<1>2. 0 \in P
  BY <1>1
<1>3. ASSUME NEW j \in 1..n, j - 1 \in P PROVE j \in P
  <2>1. <<j, f[j - 1]>> \in (1..n) \X S
    BY <1>3
  <2>2. f[j] \in S
    BY <1>1, <2>1
  <2> QED
    BY <2>2
<1> HIDE DEF P
<1>4. \A j \in 0..n : j \in P
  BY <1>2, <1>3, CountingUp
<1> QED
  BY <1>1, <1>4 DEF P

(* A power, counted up.                                                    *)
PowerOf(b, n) == LET power[i \in 0..n] == IF i = 0 THEN 1 ELSE b * power[i - 1] IN power[n]

LEMMA PowerCounts ==
    ASSUME NEW b \in Nat, NEW n \in Nat
    PROVE  \E f \in [0..n -> Nat] :
              /\ f[0] = 1 /\ (\A i \in 1..n : f[i] = b * f[i - 1])
              /\ PowerOf(b, n) = f[n]
<1> DEFINE Is(f) == f = [i \in 0..n |-> IF i = 0 THEN 1 ELSE b * f[i - 1]]
           step == [x \in (1..n) \X Nat |-> b * x[2]]
<1>1. step \in [(1..n) \X Nat -> Nat]
  OBVIOUS
<1>2. PICK f : Counted(f, n, 1, step)
  BY CountedFunctionExists
<1>3. f \in [0..n -> Nat]
  <2> HIDE DEF step
  <2> QED
    BY <1>1, <1>2, CountedFunctionType
<1>4. Is(f)
  <2>1. ASSUME NEW j \in 0..n PROVE f[j] = IF j = 0 THEN 1 ELSE b * f[j - 1]
    <3>1. f[j] = IF j = 0 THEN 1 ELSE step[<<j, f[j - 1]>>]
      BY <1>2 DEF Counted
    <3>2. ASSUME j # 0 PROVE step[<<j, f[j - 1]>>] = b * f[j - 1]
      <4>1. j \in 1..n /\ j - 1 \in 0..n
        BY <3>2
      <4>2. <<j, f[j - 1]>> \in (1..n) \X Nat
        BY <1>3, <4>1
      <4> QED
        BY <4>2
    <3> HIDE DEF step
    <3> QED
      BY <3>1, <3>2
  <2>2. f = [j \in 0..n |-> f[j]]
    BY <1>3
  <2> QED
    BY <2>1, <2>2
<1>5. \A g : Is(g) => g[0] = 1 /\ \A i \in 1..n : g[i] = b * g[i - 1]
  OBVIOUS
<1>6. PICK g : Is(g) /\ PowerOf(b, n) = g[n]
  <2>1. PowerOf(b, n) = (CHOOSE g : Is(g))[n]
    BY DEF PowerOf
  <2> HIDE DEF Is
  <2> QED
    BY <1>4, <2>1
<1> HIDE DEF Is
<1>7. f[0] = 1 /\ g[0] = 1 /\ \A i \in 1..n : f[i] = b * f[i - 1] /\ g[i] = b * g[i - 1]
  BY <1>4, <1>5, <1>6
<1>8. \A j \in 0..n : g[j] = f[j]
  <2> DEFINE P == {j \in 0..n : g[j] = f[j]}
  <2>1. 0 \in P
    BY <1>7
  <2>2. ASSUME NEW j \in 1..n, j - 1 \in P PROVE j \in P
    BY <1>7, <2>2
  <2> HIDE DEF P
  <2>3. \A j \in 0..n : j \in P
    BY <2>1, <2>2, CountingUp
  <2> QED
    BY <2>3 DEF P
<1>9. PowerOf(b, n) = f[n] /\ f[0] = 1 /\ \A i \in 1..n : f[i] = b * f[i - 1]
  BY <1>6, <1>7, <1>8
<1> QED
  BY <1>3, <1>9

LEMMA PowersGrow ==
    ASSUME NEW b \in Nat \ {0}
    PROVE  /\ PowerOf(b, 0) = 1
           /\ \A n \in Nat : PowerOf(b, n) \in Nat \ {0} /\ PowerOf(b, n + 1) = b * PowerOf(b, n)
<1>1. PowerOf(b, 0) = 1
  BY PowerCounts
<1>2. ASSUME NEW n \in Nat PROVE PowerOf(b, n) \in Nat \ {0} /\ PowerOf(b, n + 1) = b * PowerOf(b, n)
  <2>1. PICK f \in [0..n -> Nat] :
          f[0] = 1 /\ (\A i \in 1..n : f[i] = b * f[i - 1]) /\ PowerOf(b, n) = f[n]
    BY PowerCounts
  <2>2. n + 1 \in Nat
    OBVIOUS
  <2>3. PICK g \in [0..(n + 1) -> Nat] :
          g[0] = 1 /\ (\A i \in 1..(n + 1) : g[i] = b * g[i - 1]) /\ PowerOf(b, n + 1) = g[n + 1]
    BY <2>2, PowerCounts
  <2> DEFINE P == {j \in 0..n : g[j] = f[j] /\ f[j] # 0}
  <2>4. 0 \in P
    BY <2>1, <2>3
  <2>5. ASSUME NEW j \in 1..n, j - 1 \in P PROVE j \in P
    <3>1. g[j] = b * g[j - 1] /\ f[j] = b * f[j - 1]
      BY <2>1, <2>3
    <3>2. g[j - 1] = f[j - 1] /\ f[j - 1] \in Nat \ {0}
      BY <2>5, <2>1
    <3>3. \A y \in Nat \ {0} : b * y # 0
      OBVIOUS
    <3> QED
      BY <3>1, <3>2, <3>3
  <2> HIDE DEF P
  <2>6. \A j \in 0..n : j \in P
    BY <2>4, <2>5, CountingUp
  <2>7. g[n] = f[n] /\ f[n] # 0 /\ f[n] \in Nat
    BY <2>1, <2>6 DEF P
  <2>8. g[n + 1] = b * g[n]
    BY <2>3
  <2> QED
    BY <2>1, <2>3, <2>7, <2>8
<1> QED
  BY <1>1, <1>2

-----------------------------------------------------------------------------
(* Sums: what SumFunctionOnSet of the community modules gives, which is a  *)
(* fold over the set in an order nobody knows                              *)

LOCAL Pick(s) == CHOOSE x \in s : TRUE

(* The function that the fold over S is made of.                           *)
LOCAL FoldOver(f, g, S) ==
    g = [s \in SUBSET S |-> IF s = {} THEN 0 ELSE f[Pick(s)] + g[s \ {Pick(s)}]]

LEMMA FoldOverAgree ==
    ASSUME NEW f, NEW g, NEW S, FoldOver(f, g, S),
           NEW h, NEW k, NEW T, FoldOver(h, k, T),
           IsFiniteSet(S), \A x \in S \cap T : f[x] = h[x]
    PROVE  \A s \in SUBSET (S \cap T) : g[s] = k[s]
<1> DEFINE B == {s \in SUBSET (S \cap T) : g[s] # k[s]}
<1> SUFFICES ASSUME B # {} PROVE FALSE
  OBVIOUS
<1>1. \A s \in B : IsFiniteSet(s)
  BY FS_Subset
<1>2. PICK s \in B : \A t \in B : Cardinality(s) <= Cardinality(t)
  BY <1>1, SmallestSet
<1>3. s \in SUBSET S /\ s \in SUBSET T
  OBVIOUS
<1>4. CASE s = {}
  BY <1>3, <1>4 DEF FoldOver
<1>5. CASE s # {}
  <2> DEFINE x == Pick(s)
  <2>1. x \in s
    BY <1>5 DEF Pick
  <2>2. s \ {x} \notin B
    BY <1>1, <1>2, <2>1, OneLess
  <2>3. g[s \ {x}] = k[s \ {x}] /\ f[x] = h[x]
    BY <2>1, <2>2
  <2>4. g[s] = f[x] + g[s \ {x}]
    BY <1>3, <1>5 DEF FoldOver
  <2>5. k[s] = h[x] + k[s \ {x}]
    BY <1>3, <1>5 DEF FoldOver
  <2> QED
    BY <2>3, <2>4, <2>5
<1> QED
  BY <1>4, <1>5

LEMMA FoldExists ==
    ASSUME NEW f, NEW S, IsFiniteSet(S)
    PROVE  \E g : FoldOver(f, g, S)
<1> DEFINE B == {T \in SUBSET S : ~ \E g : FoldOver(f, g, T)}
<1> SUFFICES ASSUME B # {} PROVE FALSE
  OBVIOUS
<1>1. \A s \in B : IsFiniteSet(s)
  BY FS_Subset
<1>2. PICK T \in B : \A t \in B : Cardinality(T) <= Cardinality(t)
  BY <1>1, SmallestSet
<1> DEFINE sub(U) == CHOOSE g : FoldOver(f, g, U)
           rest(s) == s \ {Pick(s)}
           g == [s \in SUBSET T |-> IF s = {} THEN 0 ELSE f[Pick(s)] + sub(rest(s))[rest(s)]]
<1>3. ASSUME NEW s \in SUBSET T, s # {}
      PROVE  /\ rest(s) \in SUBSET T /\ IsFiniteSet(rest(s))
             /\ FoldOver(f, sub(rest(s)), rest(s))
  <2>1. Pick(s) \in s /\ IsFiniteSet(s) /\ IsFiniteSet(T)
    BY <1>1, <1>3, FS_Subset DEF Pick
  <2>2. Cardinality(rest(s)) < Cardinality(s) /\ IsFiniteSet(rest(s))
    BY <2>1, OneLess
  <2>3. Cardinality(s) <= Cardinality(T)
    BY <2>1, FS_Subset
  <2>4. /\ Cardinality(rest(s)) \in Nat /\ Cardinality(s) \in Nat /\ Cardinality(T) \in Nat
    BY <2>1, <2>2, FS_CardinalityType
  <2>5. rest(s) \notin B
    BY <1>2, <2>2, <2>3, <2>4
  <2>6. \E k : FoldOver(f, k, rest(s))
    BY <2>5
  <2> QED
    BY <2>2, <2>6
<1> HIDE DEF sub
<1>4. ASSUME NEW s \in SUBSET T, s # {}
      PROVE  sub(rest(s))[rest(s)] = g[rest(s)]
  <2> DEFINE u == rest(s)
  <2>1. u \in SUBSET T /\ IsFiniteSet(u) /\ FoldOver(f, sub(u), u)
    BY <1>3, <1>4
  <2> HIDE DEF u, B, rest
  <2>2. CASE u = {}
    <3>1. sub(u)[u] = 0
      BY <2>1, <2>2 DEF FoldOver
    <3>2. g[u] = 0
      BY <2>1, <2>2
    <3> QED
      BY <3>1, <3>2 DEF u
  <2>3. CASE u # {}
    <3> USE DEF rest
    <3>1. FoldOver(f, sub(rest(u)), rest(u))
      BY <1>3, <2>1, <2>3
    <3>2. rest(u) \in SUBSET (u \cap rest(u))
      OBVIOUS
    <3> HIDE DEF rest
    <3>3. sub(u)[rest(u)] = sub(rest(u))[rest(u)]
      BY <2>1, <3>1, <3>2, FoldOverAgree
    <3>4. sub(u)[u] = f[Pick(u)] + sub(u)[rest(u)]
      BY <2>1, <2>3 DEF FoldOver, rest
    <3>5. g[u] = f[Pick(u)] + sub(rest(u))[rest(u)]
      BY <2>1, <2>3
    <3>6. sub(u)[u] = g[u]
      BY <3>3, <3>4, <3>5
    <3> QED
      BY <3>6 DEF u
  <2> QED
    BY <2>2, <2>3 DEF u
<1>5. g = [s \in SUBSET T |-> IF s = {} THEN 0 ELSE f[Pick(s)] + g[rest(s)]]
  <2> DEFINE h == [s \in SUBSET T |-> IF s = {} THEN 0 ELSE f[Pick(s)] + g[rest(s)]]
  <2>1. \A s \in SUBSET T : g[s] = h[s]
    BY <1>4
  <2> QED
    BY <2>1
<1>6. FoldOver(f, g, T)
  BY <1>5 DEF FoldOver
<1> QED
  BY <1>6

(* The sum is the last value of such a function.                           *)
LEMMA SumIsFold ==
    ASSUME NEW f, NEW S, IsFiniteSet(S)
    PROVE  \E g : FoldOver(f, g, S) /\ SumFunctionOnSet(f, S) = g[S]
<1> DEFINE g == CHOOSE g : FoldOver(f, g, S)
<1>1. FoldOver(f, g, S)
  BY FoldExists
<1>2. SumFunctionOnSet(f, S) = g[S]
  BY DEF SumFunctionOnSet, FoldFunctionOnSet, MapThenFoldSet, FoldOver, Pick
<1> QED
  BY <1>1, <1>2

LEMMA SumAgrees ==
    ASSUME NEW f, NEW h, NEW S, IsFiniteSet(S), \A x \in S : f[x] = h[x]
    PROVE  SumFunctionOnSet(f, S) = SumFunctionOnSet(h, S)
<1>1. PICK g : FoldOver(f, g, S) /\ SumFunctionOnSet(f, S) = g[S]
  BY SumIsFold
<1>2. PICK k : FoldOver(h, k, S) /\ SumFunctionOnSet(h, S) = k[S]
  BY SumIsFold
<1>3. S \in SUBSET (S \cap S)
  OBVIOUS
<1>4. g[S] = k[S]
  BY <1>1, <1>2, <1>3, FoldOverAgree
<1> QED
  BY <1>1, <1>2, <1>4

LEMMA SumOfNone ==
    ASSUME NEW f
    PROVE  SumFunctionOnSet(f, {}) = 0
<1>1. PICK g : FoldOver(f, g, {}) /\ SumFunctionOnSet(f, {}) = g[{}]
  BY SumIsFold, FS_EmptySet
<1> QED
  BY <1>1 DEF FoldOver

LEMMA SumUnfolds ==
    ASSUME NEW f, NEW S, IsFiniteSet(S), S # {}
    PROVE  \E x \in S : SumFunctionOnSet(f, S) = f[x] + SumFunctionOnSet(f, S \ {x})
<1> DEFINE x == Pick(S)
           R == S \ {x}
<1>1. x \in S
  BY DEF Pick
<1>2. PICK g : FoldOver(f, g, S) /\ SumFunctionOnSet(f, S) = g[S]
  BY SumIsFold
<1>3. IsFiniteSet(R)
  BY <1>1, OneLess
<1>4. PICK k : FoldOver(f, k, R) /\ SumFunctionOnSet(f, R) = k[R]
  BY <1>3, SumIsFold
<1>5. R \in SUBSET (S \cap R)
  OBVIOUS
<1>6. g[S] = f[x] + g[R]
  BY <1>2 DEF FoldOver
<1> HIDE DEF R
<1>7. g[R] = k[R]
  BY <1>2, <1>4, <1>5, FoldOverAgree
<1> QED
  BY <1>1, <1>2, <1>4, <1>6, <1>7 DEF R

LEMMA SumIsInteger ==
    ASSUME NEW f, NEW S, IsFiniteSet(S), \A x \in S : f[x] \in Int
    PROVE  SumFunctionOnSet(f, S) \in Int
<1> DEFINE B == {T \in SUBSET S : SumFunctionOnSet(f, T) \notin Int}
<1> SUFFICES ASSUME B # {} PROVE FALSE
  OBVIOUS
<1>1. \A s \in B : IsFiniteSet(s)
  BY FS_Subset
<1>2. PICK T \in B : \A t \in B : Cardinality(T) <= Cardinality(t)
  BY <1>1, SmallestSet
<1>3. CASE T = {}
  BY <1>3, SumOfNone
<1>4. CASE T # {}
  <2>1. PICK x \in T : SumFunctionOnSet(f, T) = f[x] + SumFunctionOnSet(f, T \ {x})
    BY <1>1, <1>4, SumUnfolds
  <2>2. T \ {x} \notin B
    BY <1>1, <1>2, OneLess
  <2>3. SumFunctionOnSet(f, T \ {x}) \in Int /\ f[x] \in Int
    BY <2>2
  <2> QED
    BY <2>1, <2>3
<1> QED
  BY <1>3, <1>4

(* Any member can be taken out of a sum.                                   *)
LEMMA SumRemove ==
    ASSUME NEW f, NEW S, IsFiniteSet(S), \A x \in S : f[x] \in Int, NEW v \in S
    PROVE  SumFunctionOnSet(f, S) = f[v] + SumFunctionOnSet(f, S \ {v})
<1> DEFINE Sum(T) == SumFunctionOnSet(f, T)
           B == {T \in SUBSET S : \E x \in T : Sum(T) # f[x] + Sum(T \ {x})}
<1> SUFFICES ASSUME B # {} PROVE FALSE
  OBVIOUS
<1>1. \A s \in B : IsFiniteSet(s)
  BY FS_Subset
<1>2. PICK T \in B : \A t \in B : Cardinality(T) <= Cardinality(t)
  BY <1>1, SmallestSet
<1>3. \A s \in SUBSET S : IsFiniteSet(s) /\ Sum(s) \in Int
  BY FS_Subset, SumIsInteger
<1>4. PICK y \in T : Sum(T) = f[y] + Sum(T \ {y})
  BY <1>3, SumUnfolds
<1> HIDE DEF Sum
<1>5. PICK x \in T : Sum(T) # f[x] + Sum(T \ {x})
  OBVIOUS
<1>6. y # x
  BY <1>4, <1>5
<1>7. T \ {x} \notin B /\ T \ {y} \notin B
  <2>1. \A u \in T : /\ Cardinality(T \ {u}) \in Nat /\ Cardinality(T) \in Nat
                     /\ Cardinality(T \ {u}) < Cardinality(T)
    BY <1>1, OneLess
  <2> HIDE DEF B
  <2> QED
    BY <1>2, <2>1
<1>8. x \in T \ {y} /\ y \in T \ {x} /\ T \ {x} \in SUBSET S /\ T \ {y} \in SUBSET S
  BY <1>6
<1> DEFINE a == Sum((T \ {y}) \ {x})
<1>9. (T \ {x}) \ {y} = (T \ {y}) \ {x}
  OBVIOUS
<1>10. Sum(T \ {y}) = f[x] + a
  BY <1>7, <1>8
<1>11. Sum(T \ {x}) = f[y] + a
  BY <1>7, <1>8, <1>9
<1>12. a \in Int /\ f[x] \in Int /\ f[y] \in Int
  BY <1>3
<1> HIDE DEF a
<1> QED
  BY <1>4, <1>5, <1>10, <1>11, <1>12

LEMMA SumAdd ==
    ASSUME NEW f, NEW S, IsFiniteSet(S), \A x \in S : f[x] \in Int,
           NEW v, v \notin S, f[v] \in Int
    PROVE  SumFunctionOnSet(f, S \cup {v}) = SumFunctionOnSet(f, S) + f[v]
<1>1. IsFiniteSet(S \cup {v}) /\ \A x \in S \cup {v} : f[x] \in Int
  BY FS_AddElement
<1>2. (S \cup {v}) \ {v} = S
  OBVIOUS
<1>3. SumFunctionOnSet(f, S \cup {v}) = f[v] + SumFunctionOnSet(f, S)
  BY <1>1, <1>2, SumRemove
<1> QED
  BY <1>3, SumIsInteger

LEMMA SumIsNatural ==
    ASSUME NEW f, NEW S, IsFiniteSet(S), \A x \in S : f[x] \in Nat
    PROVE  SumFunctionOnSet(f, S) \in Nat
<1> DEFINE B == {T \in SUBSET S : SumFunctionOnSet(f, T) \notin Nat}
<1> SUFFICES ASSUME B # {} PROVE FALSE
  OBVIOUS
<1>1. \A s \in B : IsFiniteSet(s)
  BY FS_Subset
<1>2. PICK T \in B : \A t \in B : Cardinality(T) <= Cardinality(t)
  BY <1>1, SmallestSet
<1>3. CASE T = {}
  BY <1>3, SumOfNone
<1>4. CASE T # {}
  <2>1. PICK x \in T : SumFunctionOnSet(f, T) = f[x] + SumFunctionOnSet(f, T \ {x})
    BY <1>1, <1>4, SumUnfolds
  <2>2. T \ {x} \notin B
    BY <1>1, <1>2, OneLess
  <2>3. SumFunctionOnSet(f, T \ {x}) \in Nat /\ f[x] \in Nat
    BY <2>2
  <2> QED
    BY <2>1, <2>3
<1> QED
  BY <1>3, <1>4

LEMMA SumOfZeros ==
    ASSUME NEW f, NEW S, IsFiniteSet(S), \A x \in S : f[x] = 0
    PROVE  SumFunctionOnSet(f, S) = 0
<1> DEFINE B == {T \in SUBSET S : SumFunctionOnSet(f, T) # 0}
<1> SUFFICES ASSUME B # {} PROVE FALSE
  OBVIOUS
<1>1. \A s \in B : IsFiniteSet(s)
  BY FS_Subset
<1>2. PICK T \in B : \A t \in B : Cardinality(T) <= Cardinality(t)
  BY <1>1, SmallestSet
<1>3. CASE T = {}
  BY <1>3, SumOfNone
<1>4. CASE T # {}
  <2>1. PICK x \in T : SumFunctionOnSet(f, T) = f[x] + SumFunctionOnSet(f, T \ {x})
    BY <1>1, <1>4, SumUnfolds
  <2>2. T \ {x} \notin B
    BY <1>1, <1>2, OneLess
  <2>3. SumFunctionOnSet(f, T \ {x}) = 0 /\ f[x] = 0
    BY <2>2
  <2> QED
    BY <2>1, <2>3
<1> QED
  BY <1>3, <1>4

LEMMA SumOfBits ==
    ASSUME NEW f, NEW S, IsFiniteSet(S), \A x \in S : f[x] \in {0, 1}
    PROVE  SumFunctionOnSet(f, S) <= Cardinality(S)
<1> DEFINE Sum(T) == SumFunctionOnSet(f, T)
           B == {T \in SUBSET S : ~(Sum(T) <= Cardinality(T))}
<1> SUFFICES ASSUME B # {} PROVE FALSE
  OBVIOUS
<1>1. \A s \in B : IsFiniteSet(s)
  BY FS_Subset
<1>2. PICK T \in B : \A t \in B : Cardinality(T) <= Cardinality(t)
  BY <1>1, SmallestSet
<1>3. CASE T = {}
  BY <1>3, SumOfNone, FS_EmptySet
<1>4. CASE T # {}
  <2>1. PICK x \in T : Sum(T) = f[x] + Sum(T \ {x})
    BY <1>1, <1>4, SumUnfolds
  <2>2. IsFiniteSet(T \ {x}) /\ Cardinality(T \ {x}) = Cardinality(T) - 1 /\ Cardinality(T) \in Nat
    BY <1>1, FS_RemoveElement, FS_CardinalityType
  <2>3. T \ {x} \notin B
    <3> HIDE DEF B
    <3>1. Cardinality(T \ {x}) < Cardinality(T)
      BY <2>2
    <3> QED
      BY <1>2, <2>2, <3>1
  <2>4. Sum(T \ {x}) <= Cardinality(T \ {x}) /\ f[x] \in {0, 1} /\ ~(Sum(T) <= Cardinality(T))
    BY <2>3
  <2>5. Sum(T \ {x}) \in Int
    BY <2>2, SumIsInteger
  <2> HIDE DEF Sum
  <2> QED
    BY <2>1, <2>2, <2>4, <2>5
<1> QED
  BY <1>3, <1>4

(* A sum of natural numbers over two sets that share nothing.              *)
LEMMA SumOfUnion ==
    ASSUME NEW f, NEW S, IsFiniteSet(S), NEW T, IsFiniteSet(T), S \cap T = {},
           \A x \in S \cup T : f[x] \in Int
    PROVE  SumFunctionOnSet(f, S \cup T) = SumFunctionOnSet(f, S) + SumFunctionOnSet(f, T)
<1> DEFINE Sum(U) == SumFunctionOnSet(f, U)
           B == {U \in SUBSET T : Sum(S \cup U) # Sum(S) + Sum(U)}
<1> SUFFICES ASSUME B # {} PROVE FALSE
  OBVIOUS
<1>1. \A s \in B : IsFiniteSet(s)
  BY FS_Subset
<1>2. PICK U \in B : \A t \in B : Cardinality(U) <= Cardinality(t)
  BY <1>1, SmallestSet
<1>3. \A s \in SUBSET T : IsFiniteSet(s) /\ Sum(s) \in Int /\ IsFiniteSet(S \cup s) /\ Sum(S \cup s) \in Int
  <2> SUFFICES ASSUME NEW s \in SUBSET T
               PROVE  IsFiniteSet(s) /\ Sum(s) \in Int /\ IsFiniteSet(S \cup s) /\ Sum(S \cup s) \in Int
    OBVIOUS
  <2>1. IsFiniteSet(s)
    BY FS_Subset
  <2>2. IsFiniteSet(S \cup s)
    BY <2>1, FS_Union
  <2> QED
    BY <2>1, <2>2, SumIsInteger
<1>4. CASE U = {}
  <2>1. Sum(S \cup U) = Sum(S)
    BY <1>4
  <2>2. Sum(U) = 0 /\ Sum(S) \in Int
    BY <1>4, SumOfNone, SumIsInteger
  <2> HIDE DEF Sum
  <2> QED
    BY <2>1, <2>2
<1>5. CASE U # {}
  <2>1. PICK v \in U : v \in T
    BY <1>5
  <2>2. U \ {v} \notin B
    <3> HIDE DEF B
    <3>1. Cardinality(U \ {v}) \in Nat /\ Cardinality(U) \in Nat
          /\ Cardinality(U \ {v}) < Cardinality(U)
      BY <1>1, <2>1, OneLess
    <3> QED
      BY <1>2, <3>1
  <2>3. Sum(S \cup (U \ {v})) = Sum(S) + Sum(U \ {v})
    BY <2>2
  <2>4. Sum(U) = f[v] + Sum(U \ {v})
    BY <1>3, <2>1, SumRemove
  <2>5. (S \cup U) \ {v} = S \cup (U \ {v}) /\ v \in S \cup U
    BY <2>1
  <2>6. Sum(S \cup U) = f[v] + Sum(S \cup (U \ {v}))
    <3>1. IsFiniteSet(S \cup U) /\ \A w \in S \cup U : f[w] \in Int
      BY <1>3
    <3> QED
      BY <2>5, <3>1, SumRemove
  <2>7. Sum(S) \in Int /\ f[v] \in Int /\ Sum(U \ {v}) \in Int
    BY <1>3, <2>1, SumIsInteger
  <2> HIDE DEF Sum
  <2> QED
    BY <2>3, <2>4, <2>6, <2>7
<1> QED
  BY <1>4, <1>5

LEMMA SumOfPart ==
    ASSUME NEW f, NEW S, IsFiniteSet(S), \A x \in S : f[x] \in Nat, NEW T \in SUBSET S
    PROVE  SumFunctionOnSet(f, T) <= SumFunctionOnSet(f, S)
<1>1. IsFiniteSet(T) /\ IsFiniteSet(S \ T) /\ T \cup (S \ T) = S /\ T \cap (S \ T) = {}
  BY FS_Subset
<1>2. SumFunctionOnSet(f, S) = SumFunctionOnSet(f, T) + SumFunctionOnSet(f, S \ T)
  <2>1. SumFunctionOnSet(f, T \cup (S \ T)) = SumFunctionOnSet(f, T) + SumFunctionOnSet(f, S \ T)
    BY <1>1, SumOfUnion
  <2> QED
    BY <1>1, <2>1
<1>3. SumFunctionOnSet(f, T) \in Nat /\ SumFunctionOnSet(f, S \ T) \in Nat
  BY <1>1, SumIsNatural
<1> QED
  BY <1>2, <1>3
=============================================================================
