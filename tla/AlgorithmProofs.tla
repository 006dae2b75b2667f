------------------------------ MODULE AlgorithmProofs ------------------------------
(***************************************************************************)
(* Manifests, the connectedness check and the components of FieldGadgets   *)
(* and some of RowGadgets: what merging and fitting manifests leaves for   *)
(* every declaration and every table, what the zones of the connectedness  *)
(* check mean, and, over every field, that whatever satisfies a            *)
(* component's gates means what the component is for, and, of most of      *)
(* them, that what it fills in satisfies them.                             *)
(***************************************************************************)
EXTENDS FieldGadgets, RowGadgets, Manifest, Connectedness, CommonLemmas, SequenceTheorems

(* The amounts of each class.                                              *)
LEMMA ValuesOfClasses ==
    ASSUME NEW p, WellFormed(p)
    PROVE  /\ p.type = "unsat" => Values(p) = {}
           /\ p.type = "single" => Values(p) = {p.value}
           /\ p.type = "range" => Values(p) = {v \in p.start..(p.finish - 1) : (v - p.start) % p.step = 0}
           /\ p.type = "set" => Values(p) = p.set
           /\ Values(p) \in SUBSET Nat
           /\ IsFiniteSet(Values(p))
<1>1. /\ p.type = "unsat" => Values(p) = {}
      /\ p.type = "single" => Values(p) = {p.value}
      /\ p.type = "range" => Values(p) = {v \in p.start..(p.finish - 1) : (v - p.start) % p.step = 0}
      /\ p.type = "set" => Values(p) = p.set
  BY DEF Values
<1>2. Values(p) \in SUBSET Nat
  BY <1>1 DEF WellFormed
<1>3. IsFiniteSet(Values(p))
  <2>1. CASE p.type = "unsat"
    BY <1>1, <2>1, FS_EmptySet
  <2>3. CASE p.type = "single"
    BY <1>1, <2>3, FS_Singleton
  <2>4. CASE p.type = "set"
    BY <1>1, <2>4 DEF WellFormed
  <2>2. CASE p.type = "range"
    <3>1. IsFiniteSet(p.start..(p.finish - 1))
      BY <2>2, FS_Interval DEF WellFormed
    <3> QED
      BY <1>1, <2>2, <3>1, FS_Subset
  <2> QED
    BY <2>1, <2>2, <2>3, <2>4 DEF WellFormed
<1> QED
  BY <1>1, <1>2, <1>3

(* A single value, a range and a set, as made.                             *)
LEMMA Made ==
    /\ WellFormed(Unsat) /\ Values(Unsat) = {} /\ Aligned(Unsat)
    /\ \A v \in Nat : WellFormed(Single(v)) /\ Values(Single(v)) = {v} /\ Aligned(Single(v))
    /\ \A S \in SUBSET Nat :
          IsFiniteSet(S) => WellFormed(SetOf(S)) /\ Values(SetOf(S)) = S /\ Aligned(SetOf(S))
    /\ \A s, f \in Nat, d \in Nat \ {0} :
          /\ WellFormed(RangeOf(s, f, d))
          /\ Values(RangeOf(s, f, d)) = {v \in s..(f - 1) : (v - s) % d = 0}
          /\ Aligned(RangeOf(s, f, d)) <=> s % d = 0
  BY ValuesOfClasses DEF WellFormed, Unsat, Single, RangeOf, SetOf, Aligned, Values

LEMMA RangeMade ==
    ASSUME NEW s \in Nat, NEW f \in Nat, NEW d \in Nat \ {0}, s % d = 0
    PROVE  /\ WellFormed(RangeOf(s, f, d)) /\ Aligned(RangeOf(s, f, d))
           /\ Values(RangeOf(s, f, d)) = {v \in s..(f - 1) : (v - s) % d = 0}
  BY Made

LEMMA LargerOf ==
    ASSUME NEW a \in Int, NEW b \in Int
    PROVE  /\ Larger(a, b) \in {a, b} /\ Larger(a, b) >= a /\ Larger(a, b) >= b
           /\ Smaller(a, b) \in {a, b} /\ Smaller(a, b) <= a /\ Smaller(a, b) <= b
  BY DEF Larger, Smaller

LEMMA ZeroRemains == ASSUME NEW d \in Nat \ {0} PROVE 0 % d = 0
  BY RemainderIsUnique

LEMMA RoundedUpIsMultiple ==
    ASSUME NEW v \in Nat, NEW d \in Nat \ {0}
    PROVE  RoundedUp(v, d) \in Nat /\ RoundedUp(v, d) >= v /\ RoundedUp(v, d) % d = 0
<1> v \in Int
  OBVIOUS
<1>1. PICK q \in Int, r \in 0..(d - 1) : v = d * q + r /\ v % d = r
  BY Divided
<1>2. CASE r = 0
  <2>1. d % d = 0
    BY RemainderIsUnique
  <2> QED
    BY <1>1, <1>2, <2>1 DEF RoundedUp
<1>3. CASE r # 0
  <2>1. (d - r) % d = d - r
    BY <1>3, RemainderIsUnique
  <2>2. RoundedUp(v, d) = v + (d - r)
    BY <1>1, <2>1 DEF RoundedUp
  <2>3. PICK z \in Int : z = d * q
    OBVIOUS
  <2>4. d * (q + 1) = z + d
    BY <2>3, Distributes
  <2>5. PICK u \in Int : u = q + 1
    OBVIOUS
  <2>6. PICK w \in Int : w = RoundedUp(v, d) /\ w = d * u + 0
    BY <1>1, <2>2, <2>3, <2>4, <2>5
  <2>7. w % d = 0
    BY <2>6, RemainderIsUnique
  <2> QED
    BY <1>1, <1>3, <2>2, <2>6, <2>7
<1> QED
  BY <1>2, <1>3

(* A range that is not empty has its start.                                *)
LEMMA StartIsAnAmount ==
    ASSUME NEW p, WellFormed(p), p.type = "range"
    PROVE  /\ Values(p) # {} <=> p.start < p.finish
           /\ p.start < p.finish => p.start \in Values(p)
           /\ \A v \in Values(p) : p.start <= v /\ v < p.finish
<1>1. Values(p) = {v \in p.start..(p.finish - 1) : (v - p.start) % p.step = 0}
  BY ValuesOfClasses
<1>2. p.start \in Nat /\ p.finish \in Nat /\ p.step \in Nat \ {0}
  BY DEF WellFormed
<1>3. (p.start - p.start) % p.step = 0
  BY <1>2, ZeroRemains
<1> QED
  BY <1>1, <1>2, <1>3

-----------------------------------------------------------------------------
(* Merging                                                                 *)

(* No amount of w is below all those of p.                                 *)
Above(w, p) == \A v \in Values(w) : \E y \in Values(p) : y <= v

Usable(p) == WellFormed(p) /\ Aligned(p) /\ Values(p) # {}

LEMMA AllDivided ==
    ASSUME NEW d \in Nat \ {0}
    PROVE  \A x \in Int : \E q \in Int, r \in 0..(d - 1) : x = d * q + r /\ x % d = r
<1> TAKE x \in Int
<1>1. PICK q \in Int, r \in 0..(d - 1) : x = d * q + r /\ x % d = r
  BY Divided
<1> QED
  BY <1>1

LEMMA MultiplesAbove ==
    ASSUME NEW v \in Nat, NEW s \in Nat, NEW d \in Nat \ {0}, s % d = 0, v <= s
    PROVE  RoundedUp(v, d) <= s
<1>a. \A x \in Int : \E q \in Int, r \in 0..(d - 1) : x = d * q + r /\ x % d = r
  BY AllDivided
<1>b. v \in Int /\ s \in Int
  OBVIOUS
<1>1. PICK q \in Int, r \in 0..(d - 1) : v = d * q + r /\ v % d = r
  BY <1>a, <1>b
<1>2. PICK t \in Int : s = d * t + 0
  <2>1. PICK t \in Int, o \in 0..(d - 1) : s = d * t + o /\ s % d = o
    BY <1>a, <1>b
  <2> QED
    BY <2>1
<1>3. CASE r = 0
  <2>1. d % d = 0
    BY RemainderIsUnique
  <2> QED
    BY <1>1, <1>3, <2>1 DEF RoundedUp
<1>4. CASE r # 0
  <2>1. (d - r) % d = d - r
    BY <1>4, RemainderIsUnique
  <2>2. RoundedUp(v, d) = v + (d - r)
    BY <1>1, <2>1 DEF RoundedUp
  <2>3. PICK k \in Int : k = t - q
    OBVIOUS
  <2>4. PICK z \in Int, y \in Int, u \in Int : z = d * q /\ y = d * k /\ u = d * t
    OBVIOUS
  <2>5. u = z + y
    BY <2>3, <2>4, Distributes
  <2>6. y >= r /\ r >= 1
    BY <1>1, <1>2, <1>4, <2>4, <2>5
  <2>7. k >= 1
    <3> SUFFICES ASSUME k <= 0 PROVE FALSE
      OBVIOUS
    <3>1. d * k <= 0
      OBVIOUS
    <3> QED
      BY <2>4, <2>6, <3>1
  <2>8. y >= d
    BY <2>4, <2>7
  <2> QED
    BY <1>1, <1>2, <2>2, <2>4, <2>5, <2>8
<1> QED
  BY <1>3, <1>4

LEMMA MergedSingleFits ==
    ASSUME NEW v \in Nat, NEW b, Usable(b)
    PROVE  /\ Usable(MergedSingle(v, b)) /\ Above(MergedSingle(v, b), b)
           /\ \A x \in Values(MergedSingle(v, b)) : v <= x
<1>1. CASE b.type = "single"
  <2>1. MergedSingle(v, b) = Single(Larger(v, b.value))
    BY <1>1 DEF MergedSingle
  <2>2. b.value \in Nat /\ Values(b) = {b.value}
    BY <1>1, ValuesOfClasses DEF Usable, WellFormed
  <2>3. PICK x \in Nat : x = Larger(v, b.value) /\ x >= v /\ x >= b.value
    BY <2>2, LargerOf
  <2>4. Usable(Single(x)) /\ Values(Single(x)) = {x}
    BY Made DEF Usable
  <2> QED
    BY <2>1, <2>2, <2>3, <2>4 DEF Above
<1>2. CASE b.type = "set"
  <2> DEFINE above == {w \in b.set : w >= v}
             S == IF above = {} THEN {v} ELSE above
  <2>1. MergedSingle(v, b) = SetOf(S)
    BY <1>2 DEF MergedSingle
  <2>2. b.set \in SUBSET Nat /\ IsFiniteSet(b.set) /\ Values(b) = b.set /\ b.set # {}
    BY <1>2, ValuesOfClasses DEF Usable, WellFormed
  <2>3. IsFiniteSet(S) /\ S \in SUBSET Nat /\ S # {}
    BY <2>2, FS_Subset, FS_Singleton
  <2>4. \A x \in S : v <= x /\ \E y \in b.set : y <= x
    <3> TAKE x \in S
    <3>1. CASE above = {}
      BY <2>2, <3>1
    <3>2. CASE above # {}
      BY <2>2, <3>2
    <3> QED
      BY <3>1, <3>2
  <2>5. Usable(SetOf(S)) /\ Values(SetOf(S)) = S
    BY <2>3, Made DEF Usable
  <2> HIDE DEF S
  <2> QED
    BY <2>1, <2>2, <2>4, <2>5 DEF Above
<1>3. CASE b.type = "range"
  <2> DEFINE up == RoundedUp(v, b.step)
             start == Larger(up, b.start)
  <2>1. b.start \in Nat /\ b.finish \in Nat /\ b.step \in Nat \ {0} /\ b.start % b.step = 0
    BY <1>3 DEF Usable, WellFormed, Aligned
  <2>2. b.start < b.finish /\ b.start \in Values(b)
    BY <1>3, StartIsAnAmount DEF Usable
  <2>3. up \in Nat /\ up >= v /\ up % b.step = 0
    BY <2>1, RoundedUpIsMultiple
  <2>4. MergedSingle(v, b) = IF start < b.finish THEN RangeOf(start, b.finish, b.step) ELSE Single(v)
    BY <1>3 DEF MergedSingle
  <2> HIDE DEF up
  <2>5. start \in Nat /\ start >= up /\ start >= b.start /\ start % b.step = 0 /\ start \in {up, b.start}
    BY <2>1, <2>3, LargerOf
  <2> HIDE DEF start
  <2>6. CASE start < b.finish
    <3> DEFINE r == RangeOf(start, b.finish, b.step)
    <3>1. r.type = "range" /\ r.start = start /\ r.finish = b.finish
      BY DEF RangeOf
    <3>2. WellFormed(r) /\ Aligned(r)
      BY <2>1, <2>5, Made
    <3>3. Values(r) # {} /\ \A x \in Values(r) : start <= x
      BY <2>6, <3>1, <3>2, StartIsAnAmount
    <3>4. Values(r) \in SUBSET Nat
      BY <3>2, ValuesOfClasses
    <3>5. MergedSingle(v, b) = r
      BY <2>4, <2>6
    <3> HIDE DEF r
    <3>6. \A x \in Values(r) : v <= x /\ b.start <= x
      BY <2>1, <2>3, <2>5, <3>3, <3>4
    <3> QED
      BY <2>2, <3>2, <3>3, <3>5, <3>6 DEF Usable, Above
  <2>7. CASE ~(start < b.finish)
    <3>1. v > b.start
      <4> SUFFICES ASSUME v <= b.start PROVE FALSE
        BY <2>1
      <4>1. up <= b.start
        BY <2>1, MultiplesAbove DEF up
      <4> QED
        BY <2>1, <2>2, <2>5, <2>7, <4>1
    <3>2. MergedSingle(v, b) = Single(v)
      BY <2>4, <2>7
    <3>3. Usable(Single(v)) /\ Values(Single(v)) = {v}
      BY Made DEF Usable
    <3> QED
      BY <2>1, <2>2, <3>1, <3>2, <3>3 DEF Above
  <2> QED
    BY <2>6, <2>7
<1> QED
  BY <1>1, <1>2, <1>3, ValuesOfClasses DEF Usable, WellFormed

LEMMA MergedSetsFit ==
    ASSUME NEW S \in SUBSET Nat, NEW T \in SUBSET Nat, IsFiniteSet(S), IsFiniteSet(T),
           S # {}, T # {}
    PROVE  /\ Usable(MergedSets(S, T))
           /\ \A v \in Values(MergedSets(S, T)) : \E x \in S, y \in T : x <= v /\ y <= v
<1> DEFINE least == Larger(Min(S), Min(T))
           U == {v \in S \cup T : v >= least}
<1>1. Min(S) \in S /\ Min(T) \in T
  BY MinIsLeast
<1>2. least \in Nat /\ least \in {Min(S), Min(T)} /\ least >= Min(S) /\ least >= Min(T)
  <2>1. Min(S) \in Nat /\ Min(T) \in Nat
    BY <1>1
  <2> QED
    BY <2>1, LargerOf
<1>3. MergedSets(S, T) = SetOf(U)
  BY DEF MergedSets
<1> HIDE DEF least
<1>4. U \in SUBSET Nat /\ least \in U
  BY <1>1, <1>2
<1>5. IsFiniteSet(U)
  <2>1. IsFiniteSet(S \cup T)
    BY FS_Union
  <2> QED
    BY <2>1, FS_Subset
<1>6. Usable(SetOf(U)) /\ Values(SetOf(U)) = U
  BY <1>4, <1>5, Made DEF Usable
<1>7. \A v \in U : Min(S) <= v /\ Min(T) <= v
  <2>1. PICK i \in Nat, j \in Nat : i = Min(S) /\ j = Min(T)
    BY <1>1
  <2>2. \A v \in U : v \in Nat /\ v >= least
    BY <1>4
  <2> HIDE DEF U
  <2>3. least >= i /\ least >= j
    BY <1>2, <2>1
  <2>4. \A v \in U : i <= v /\ j <= v
    BY <1>2, <2>2, <2>3
  <2> QED
    BY <2>1, <2>4
<1> HIDE DEF U
<1> QED
  BY <1>1, <1>3, <1>6, <1>7

LEMMA MergedSetRangesFit ==
    ASSUME NEW S \in SUBSET Nat, IsFiniteSet(S), S # {}, NEW r, Usable(r), r.type = "range",
           NEW w \in MergedSetRanges(S, r)
    PROVE  /\ Usable(w) /\ Above(w, r)
           /\ \A v \in Values(w) : \E x \in S : x <= v
<1> DEFINE above == {v \in S : v >= r.start}
           starts == IF above = {} THEN {Larger(v, r.start) : v \in Amount} ELSE {Min(above)}
           more(s) == {v \in RoundedUp(s, r.step)..(r.finish - 1) : v % r.step = 0}
           U(s) == {s} \cup {v \in S : v >= s} \cup more(s)
<1>1. r.start \in Nat /\ r.finish \in Nat /\ r.step \in Nat \ {0}
  BY DEF Usable, WellFormed
<1>2. r.start \in Values(r)
  BY StartIsAnAmount DEF Usable
<1>3. PICK s \in starts : w = SetOf(U(s))
  BY DEF MergedSetRanges
<1>4. s \in Nat /\ s >= r.start /\ \E x \in S : x <= s
  <2>1. CASE above = {}
    <3>1. \A v \in Amount : v \in Nat
      BY MaxAmountAssumption DEF Amount
    <3>2. PICK v \in Amount : s = Larger(v, r.start)
      BY <2>1
    <3>3. s \in Nat /\ s >= r.start
      BY <1>1, <3>1, <3>2, LargerOf
    <3>4. PICK x \in S : x \in Nat /\ ~(x >= r.start)
      BY <2>1
    <3> QED
      BY <1>1, <3>3, <3>4
  <2>2. CASE above # {}
    <3>1. above \in SUBSET Nat
      OBVIOUS
    <3>2. Min(above) \in above
      BY <2>2, <3>1, MinIsLeast
    <3>3. s = Min(above)
      BY <2>2
    <3>4. s \in S /\ s >= r.start
      BY <3>2, <3>3
    <3> QED
      BY <3>4
  <2> QED
    BY <2>1, <2>2
<1> HIDE DEF starts
<1>5. RoundedUp(s, r.step) \in Nat /\ RoundedUp(s, r.step) >= s
  BY <1>1, <1>4, RoundedUpIsMultiple
<1>6. more(s) \in SUBSET Nat /\ IsFiniteSet(more(s)) /\ \A v \in more(s) : v >= s
  <2>0. RoundedUp(s, r.step) \in Int /\ r.finish - 1 \in Int
    BY <1>1, <1>5
  <2>1. IsFiniteSet(RoundedUp(s, r.step)..(r.finish - 1))
    BY <2>0, FS_Interval
  <2>2. IsFiniteSet(more(s))
    BY <2>1, FS_Subset
  <2> QED
    BY <1>1, <1>4, <1>5, <2>2
<1> HIDE DEF more
<1>7. U(s) \in SUBSET Nat /\ s \in U(s) /\ \A v \in U(s) : v >= s
  <2>1. s >= s
    BY <1>4
  <2> QED
    BY <1>4, <1>6, <2>1
<1>8. IsFiniteSet(U(s))
  <2>1. IsFiniteSet({v \in S : v >= s}) /\ IsFiniteSet({s})
    BY FS_Subset, FS_Singleton
  <2>2. IsFiniteSet({s} \cup {v \in S : v >= s})
    BY <2>1, FS_Union
  <2> QED
    BY <1>6, <2>2, FS_Union
<1> HIDE DEF U
<1>9. Usable(w) /\ Values(w) = U(s)
  BY <1>3, <1>7, <1>8, Made DEF Usable
<1>10. \A v \in Values(w) : r.start <= v
  BY <1>1, <1>4, <1>7, <1>9
<1>11. \A v \in Values(w) : \E x \in S : x <= v
  <2> TAKE v \in Values(w)
  <2>1. PICK x \in S : x <= s
    BY <1>4
  <2>2. v >= s /\ v \in Nat /\ x \in Nat
    BY <1>7, <1>9
  <2> QED
    BY <1>4, <2>1, <2>2
<1> QED
  BY <1>2, <1>9, <1>10, <1>11 DEF Above

LEMMA MergedRangesFit ==
    ASSUME NEW a, NEW b, Usable(a), Usable(b), a.type = "range", b.type = "range"
    PROVE  LET w == MergedRanges(a, b) IN Usable(w) /\ Above(w, a) /\ Above(w, b)
<1> DEFINE start == Larger(a.start, b.start)
           finish == Larger(a.finish, b.finish)
           w == MergedRanges(a, b)
<1>1. /\ a.start \in Nat /\ a.finish \in Nat /\ a.step \in Nat \ {0} /\ a.start % a.step = 0
      /\ b.start \in Nat /\ b.finish \in Nat /\ b.step \in Nat \ {0} /\ b.start % b.step = 0
  BY DEF Usable, WellFormed, Aligned
<1>2. a.start \in Values(a) /\ a.start < a.finish /\ b.start \in Values(b) /\ b.start < b.finish
  BY StartIsAnAmount DEF Usable
<1>3. /\ start \in Nat /\ start >= a.start /\ start >= b.start /\ start \in {a.start, b.start}
      /\ finish \in Nat /\ finish >= a.finish /\ finish >= b.finish
  BY <1>1, LargerOf
<1>4. w = IF a.step = b.step
          THEN IF start < finish THEN RangeOf(start, finish, a.step) ELSE Single(start)
          ELSE IF start >= b.finish THEN a
          ELSE IF start >= a.finish THEN b
          ELSE SetOf({start} \cup {v \in Values(a) \cup Values(b) : v > start})
  BY DEF MergedRanges
<1> SUFFICES Usable(w) /\ \A v \in Values(w) : v \in Nat /\ v >= start
  BY <1>1, <1>2, <1>3 DEF Above
<1> HIDE DEF w, start, finish
<1>5. CASE a.step = b.step
  <2>1. start < finish
    BY <1>1, <1>2, <1>3
  <2>2. w = RangeOf(start, finish, a.step)
    BY <1>4, <1>5, <2>1
  <2>3. start % a.step = 0
    BY <1>1, <1>3, <1>5
  <2>4. WellFormed(w) /\ Aligned(w) /\ w.type = "range" /\ w.start = start /\ w.finish = finish
    BY <1>1, <1>3, <2>2, <2>3, Made DEF RangeOf
  <2> QED
    BY <2>1, <2>4, StartIsAnAmount, ValuesOfClasses DEF Usable
<1>6. CASE a.step # b.step /\ start >= b.finish
  <2>1. w = a /\ start = a.start
    BY <1>1, <1>2, <1>3, <1>4, <1>6
  <2> QED
    BY <2>1, StartIsAnAmount, ValuesOfClasses DEF Usable
<1>7. CASE a.step # b.step /\ ~(start >= b.finish) /\ start >= a.finish
  <2>1. w = b /\ start = b.start
    BY <1>1, <1>2, <1>3, <1>4, <1>7
  <2> QED
    BY <2>1, StartIsAnAmount, ValuesOfClasses DEF Usable
<1>8. CASE a.step # b.step /\ ~(start >= b.finish) /\ ~(start >= a.finish)
  <2> DEFINE S == {start} \cup {v \in Values(a) \cup Values(b) : v > start}
  <2>1. w = SetOf(S)
    BY <1>4, <1>8
  <2>2. /\ Values(a) \in SUBSET Nat /\ IsFiniteSet(Values(a))
        /\ Values(b) \in SUBSET Nat /\ IsFiniteSet(Values(b))
    BY ValuesOfClasses DEF Usable
  <2>3. S \in SUBSET Nat /\ S # {} /\ \A v \in S : v >= start
    BY <1>3, <2>2
  <2>4. IsFiniteSet(S)
    <3>1. IsFiniteSet(Values(a) \cup Values(b))
      BY <2>2, FS_Union
    <3>2. IsFiniteSet({v \in Values(a) \cup Values(b) : v > start})
      BY <3>1, FS_Subset
    <3> QED
      BY <3>2, FS_Singleton, FS_Union
  <2> HIDE DEF S
  <2> QED
    BY <2>1, <2>3, <2>4, Made DEF Usable
<1> QED
  BY <1>5, <1>6, <1>7, <1>8

(* What a merge gives has an amount, and none that is too small for one of *)
(* the two.                                                                *)
LEMMA MergedFits ==
    ASSUME NEW a, NEW b, Usable(a), Usable(b), NEW w \in Merged(a, b)
    PROVE  Usable(w) /\ Above(w, a) /\ Above(w, b)
<1>0. /\ a.type \in {"single", "set", "range"} /\ b.type \in {"single", "set", "range"}
      /\ a.type = "set" => a.set \in SUBSET Nat /\ IsFiniteSet(a.set) /\ a.set # {} /\ Values(a) = a.set
      /\ b.type = "set" => b.set \in SUBSET Nat /\ IsFiniteSet(b.set) /\ b.set # {} /\ Values(b) = b.set
      /\ a.type = "single" => a.value \in Nat /\ Values(a) = {a.value}
      /\ b.type = "single" => b.value \in Nat /\ Values(b) = {b.value}
  BY ValuesOfClasses DEF Usable, WellFormed
<1>1. CASE a.type = "single"
  <2>1. w = MergedSingle(a.value, b)
    BY <1>0, <1>1 DEF Merged
  <2> QED
    BY <1>0, <1>1, <2>1, MergedSingleFits DEF Above
<1>2. CASE a.type \in {"set", "range"} /\ b.type = "single"
  <2>1. w = MergedSingle(b.value, a)
    BY <1>0, <1>2 DEF Merged
  <2> QED
    BY <1>0, <1>2, <2>1, MergedSingleFits DEF Above
<1>3. CASE a.type = "set" /\ b.type = "set"
  <2>1. w = MergedSets(a.set, b.set)
    BY <1>0, <1>3 DEF Merged
  <2>2. /\ Usable(w)
        /\ \A v \in Values(w) : \E x \in a.set, y \in b.set : x <= v /\ y <= v
    BY <1>0, <1>3, <2>1, MergedSetsFit
  <2> QED
    BY <1>0, <1>3, <2>2 DEF Above
<1>4. CASE a.type = "set" /\ b.type = "range"
  <2>1. w \in MergedSetRanges(a.set, b)
    BY <1>0, <1>4 DEF Merged
  <2> QED
    BY <1>0, <1>4, <2>1, MergedSetRangesFit DEF Above
<1>5. CASE a.type = "range" /\ b.type = "set"
  <2>1. w \in MergedSetRanges(b.set, a)
    BY <1>0, <1>5 DEF Merged
  <2> QED
    BY <1>0, <1>5, <2>1, MergedSetRangesFit DEF Above
<1>6. CASE a.type = "range" /\ b.type = "range"
  <2>1. w = MergedRanges(a, b)
    BY <1>0, <1>6 DEF Merged
  <2> QED
    BY <1>6, <2>1, MergedRangesFit
<1> QED
  BY <1>0, <1>1, <1>2, <1>3, <1>4, <1>5, <1>6

-----------------------------------------------------------------------------
(* Multiples                                                               *)

LEMMA Multiple ==
    ASSUME NEW x \in Int, NEW d \in Nat \ {0}
    PROVE  x % d = 0 <=> \E k \in Int : x = d * k
<1>1. ASSUME x % d = 0 PROVE \E k \in Int : x = d * k
  <2>1. PICK q \in Int, r \in 0..(d - 1) : x = d * q + r /\ x % d = r
    BY Divided
  <2>2. x = d * q
    BY <1>1, <2>1
  <2> QED
    BY <2>2
<1>2. ASSUME NEW k \in Int, x = d * k PROVE x % d = 0
  <2>1. PICK z \in Int : z = d * k /\ z + 0 = x
    BY <1>2
  <2>2. x = d * k + 0
    BY <2>1
  <2>3. 0 \in 0..(d - 1)
    OBVIOUS
  <2> HIDE <1>2
  <2> QED
    BY <2>2, <2>3, RemainderIsUnique
<1> QED
  BY <1>1, <1>2

LEMMA LessTimes ==
    ASSUME NEW i \in Int, NEW n \in Int, i < n, NEW d \in Nat \ {0}
    PROVE  i * d + d <= n * d
<1>1. PICK k \in Nat : n = i + 1 + k
  <2>1. n - i - 1 \in Nat /\ n = i + 1 + (n - i - 1)
    OBVIOUS
  <2> QED
    BY <2>1
<1>2. k * d >= 0
  OBVIOUS
<1>3. PICK z \in Int, y \in Int, u \in Int : z = i * d /\ y = k * d /\ u = i + 1
  OBVIOUS
<1>4. n * d = (u + k) * d /\ (u + k) * d = u * d + y /\ u * d = z + d
  <2>1. n = u + k
    BY <1>1, <1>3
  <2>2. d * (u + k) = d * u + d * k
    BY Distributes
  <2>3. d * (i + 1) = d * i + d * 1
    BY Distributes
  <2> QED
    BY <1>3, <2>1, <2>2, <2>3
<1> QED
  BY <1>2, <1>3, <1>4

-----------------------------------------------------------------------------
(* Subtracting                                                             *)

Subtracts(w, p, S) ==
    WellFormed(w) /\ Aligned(w) /\ Values(w) \subseteq Values(p) /\ Values(w) \cap S = {}

LEMMA SubtractedRangeFits ==
    ASSUME NEW r, WellFormed(r), Aligned(r), r.type = "range", NEW S
    PROVE  Subtracts(SubtractedRange(r, S), r, S)
<1> DEFINE cut == S \cap Values(r)
           n == Cardinality(cut)
           rest == r.finish % r.step
           many == n * r.step
           left == Values(r) \ cut
           w == SubtractedRange(r, S)
<1>1. r.start \in Nat /\ r.finish \in Nat /\ r.step \in Nat \ {0} /\ r.start % r.step = 0
  BY DEF WellFormed, Aligned
<1>2. /\ Values(r) = {v \in r.start..(r.finish - 1) : (v - r.start) % r.step = 0}
      /\ Values(r) \in SUBSET Nat /\ IsFiniteSet(Values(r))
  BY ValuesOfClasses
<1>3. IsFiniteSet(cut) /\ n \in Nat
  BY <1>2, FS_Subset, FS_CardinalityType
<1>4. w = IF cut = {} THEN r
          ELSE IF cut = {r.start + i * r.step : i \in 0..(n - 1)}
          THEN IF r.start + many < r.finish THEN RangeOf(r.start + many, r.finish, r.step) ELSE Unsat
          ELSE IF cut = {r.finish - rest - i * r.step : i \in 0..(n - 1)}
          THEN IF r.finish - rest - many > r.start THEN RangeOf(r.start, r.finish - rest - many, r.step)
               ELSE IF r.finish - rest - many = r.start THEN Single(r.start) ELSE Unsat
          ELSE IF left = {} THEN Unsat
          ELSE IF Cardinality(left) = 1 THEN Single(Min(left)) ELSE SetOf(left)
  BY DEF SubtractedRange
<1>5. many \in Nat /\ rest \in Nat
  <2>1. \A i, j \in Nat : i * j \in Nat
    OBVIOUS
  <2>2. many \in Nat
    BY <1>1, <1>3, <2>1
  <2>3. \A x \in Int : x % r.step \in 0..(r.step - 1)
    BY <1>1, ElementRemains
  <2> QED
    BY <1>1, <2>2, <2>3
<1>6. \A i \in 0..(n - 1) : i * r.step \in Int /\ i * r.step < many
  <2> TAKE i \in 0..(n - 1)
  <2>1. i \in Int /\ n \in Int /\ i < n
    BY <1>3
  <2>2. i * r.step + r.step <= many
    BY <1>1, <2>1, LessTimes
  <2>3. PICK z \in Int : z = i * r.step
    BY <1>1, <2>1
  <2> QED
    BY <1>1, <1>5, <2>2, <2>3
<1>7. Subtracts(Unsat, r, S)
  BY Made DEF Subtracts
<1>8. CASE cut = {}
  BY <1>4, <1>8 DEF Subtracts
<1>9. CASE cut # {} /\ cut = {r.start + i * r.step : i \in 0..(n - 1)} /\ r.start + many < r.finish
  <2>1. w = RangeOf(r.start + many, r.finish, r.step)
    BY <1>4, <1>9
  <2>2. PICK s \in Nat : s = r.start + many
    BY <1>1, <1>5
  <2>3. s % r.step = 0
    <3>0. r.start \in Int
      BY <1>1
    <3>1. PICK k \in Int : r.start = r.step * k
      BY <1>1, <3>0, Multiple
    <3>2. r.step * (k + n) = r.step * k + r.step * n
      BY <1>1, <1>3, Distributes
    <3>3. s = r.step * (k + n)
      <4>1. many = r.step * n
        BY <1>1, <1>3
      <4> HIDE DEF many
      <4> QED
        BY <2>2, <3>1, <3>2, <4>1
    <3>4. k + n \in Int
      BY <1>3
    <3>5. \E j \in Int : s = r.step * j
      BY <3>3, <3>4
    <3>6. s \in Int
      BY <2>2
    <3> QED
      BY <1>1, <3>5, <3>6, Multiple
  <2>4. /\ WellFormed(w) /\ Aligned(w)
        /\ Values(w) = {v \in s..(r.finish - 1) : (v - s) % r.step = 0}
    <3>1. w = RangeOf(s, r.finish, r.step)
      BY <2>1, <2>2
    <3>2. /\ WellFormed(RangeOf(s, r.finish, r.step)) /\ Aligned(RangeOf(s, r.finish, r.step))
          /\ Values(RangeOf(s, r.finish, r.step)) =
                 {v \in s..(r.finish - 1) : (v - s) % r.step = 0}
      BY <1>1, <2>2, <2>3, RangeMade
    <3> HIDE DEF w
    <3> QED
      BY <3>1, <3>2
  <2>5. ASSUME NEW v \in Values(w) PROVE v \in Values(r) /\ v \notin cut
    <3>1. v \in Int /\ s <= v /\ v <= r.finish - 1 /\ (v - s) % r.step = 0
      BY <1>1, <2>2, <2>4
    <3>2. r.start <= v
      BY <1>1, <1>5, <2>2, <3>1
    <3>3. (v - r.start) % r.step = 0
      <4>1. PICK x \in Int, y \in Int : x = v - s /\ y = v - r.start
        BY <1>1, <2>2, <3>1
      <4>2. (x + r.step * n) % r.step = x % r.step
        <5>1. n \in Int
          BY <1>3
        <5> QED
          BY <1>1, <4>1, <5>1, MultiplesVanish
      <4>3. y = x + r.step * n
        <5>1. many = r.step * n
          BY <1>1, <1>3
        <5> HIDE DEF many
        <5> QED
          BY <1>1, <1>5, <2>2, <3>1, <4>1, <5>1
      <4> QED
        BY <3>1, <4>1, <4>2, <4>3
    <3>4. v \in Values(r)
      BY <1>1, <1>2, <3>1, <3>2, <3>3
    <3>5. \A i \in 0..(n - 1) : v # r.start + i * r.step
      <4> TAKE i \in 0..(n - 1)
      <4>1. PICK z \in Int : z = i * r.step /\ z < many
        BY <1>6
      <4> QED
        BY <1>1, <1>5, <2>2, <3>1, <4>1
    <3> QED
      BY <1>9, <3>4, <3>5
  <2> QED
    BY <2>4, <2>5 DEF Subtracts
<1>10. CASE /\ cut # {} /\ cut = {r.finish - rest - i * r.step : i \in 0..(n - 1)}
            /\ cut # {r.start + i * r.step : i \in 0..(n - 1)}
            /\ r.finish - rest - many >= r.start
  <2>1. PICK s \in Nat : s = r.finish - rest - many /\ r.start <= s
    BY <1>1, <1>5, <1>10
  <2>2. w = IF s > r.start THEN RangeOf(r.start, s, r.step) ELSE Single(r.start)
    <3>1. s > r.start \/ s = r.start
      BY <1>1, <2>1
    <3> QED
      BY <1>4, <1>10, <2>1, <3>1
  <2>3. \A v \in Int : v <= s => v \notin cut
    <3> TAKE v \in Int
    <3> SUFFICES ASSUME v <= s, NEW i \in 0..(n - 1) PROVE v # r.finish - rest - i * r.step
      BY <1>10
    <3>1. PICK z \in Int : z = i * r.step /\ z < many
      BY <1>6
    <3> QED
      BY <1>1, <1>5, <2>1, <3>1
  <2>4. s < r.finish
    <3>1. n > 0
      <4> SUFFICES ASSUME n = 0 PROVE FALSE
        BY <1>3
      <4>1. 0..(n - 1) = {}
        OBVIOUS
      <4> QED
        BY <1>10, <4>1
    <3>2. 0 * r.step < many
      <4>1. 0 \in 0..(n - 1)
        BY <1>3, <3>1
      <4> QED
        BY <1>6, <4>1
    <3>3. 0 * r.step = 0
      BY <1>1
    <3> QED
      BY <1>1, <1>5, <2>1, <3>2, <3>3
  <2>5. CASE s > r.start
    <3>1. w = RangeOf(r.start, s, r.step)
      BY <2>2, <2>5
    <3>0. /\ WellFormed(RangeOf(r.start, s, r.step)) /\ Aligned(RangeOf(r.start, s, r.step))
          /\ Values(RangeOf(r.start, s, r.step)) =
                 {v \in r.start..(s - 1) : (v - r.start) % r.step = 0}
      BY <1>1, RangeMade
    <3> HIDE DEF w
    <3>2. /\ WellFormed(w) /\ Aligned(w)
          /\ Values(w) = {v \in r.start..(s - 1) : (v - r.start) % r.step = 0}
      BY <3>0, <3>1
    <3>3. \A v \in Values(w) : v \in r.start..(r.finish - 1) /\ v <= s /\ (v - r.start) % r.step = 0 /\ v \in Int
      BY <1>1, <2>1, <2>4, <3>2
    <3>4. Values(w) \subseteq Values(r)
      BY <1>2, <3>3
    <3>5. \A v \in Values(w) : v \notin S
      BY <2>3, <3>3, <3>4
    <3>6. Values(w) \cap S = {}
      BY <3>5
    <3> QED
      BY <3>2, <3>4, <3>6 DEF Subtracts, w
  <2>6. CASE ~(s > r.start)
    <3>1. w = Single(r.start)
      BY <2>2, <2>6
    <3>2. WellFormed(w) /\ Aligned(w) /\ Values(w) = {r.start}
      BY <1>1, <3>1, Made
    <3>3. r.start \in Values(r)
      BY <1>1, <2>1, <2>4, StartIsAnAmount
    <3>4. r.start \notin cut
      <4>1. r.start \in Int /\ r.start <= s
        BY <1>1, <2>1
      <4> QED
        BY <2>3, <4>1
    <3> QED
      BY <3>2, <3>3, <3>4 DEF Subtracts
  <2> QED
    BY <2>5, <2>6
<1>11. CASE w \in {Single(Min(left)), SetOf(left)} /\ left # {}
  <2>1. left \in SUBSET Nat /\ IsFiniteSet(left)
    BY <1>2, FS_Subset
  <2>2. Min(left) \in left
    BY <1>11, <2>1, MinIsLeast
  <2>3. WellFormed(w) /\ Aligned(w) /\ Values(w) \in {{Min(left)}, left}
    <3>1. CASE w = Single(Min(left))
      <4>1. Min(left) \in Nat
        BY <2>1, <2>2
      <4> QED
        BY <3>1, <4>1, Made
    <3>2. CASE w = SetOf(left)
      BY <2>1, <3>2, Made
    <3> QED
      BY <1>11, <3>1, <3>2
  <2>4. Values(w) \subseteq left
    BY <2>2, <2>3
  <2> QED
    BY <2>3, <2>4 DEF Subtracts
<1>12. cut = {} \/ w = Unsat \/ (w \in {Single(Min(left)), SetOf(left)} /\ left # {}) \/ (cut # {} /\ cut = {r.start + i * r.step : i \in 0..(n - 1)} /\ r.start + many < r.finish)
       \/ (/\ cut # {} /\ cut = {r.finish - rest - i * r.step : i \in 0..(n - 1)}
           /\ cut # {r.start + i * r.step : i \in 0..(n - 1)}
           /\ r.finish - rest - many >= r.start)
  <2>1. PICK s \in Int, t \in Int : s = r.start + many /\ t = r.finish - rest - many
    BY <1>1, <1>5
  <2>2. t >= r.start <=> (t > r.start \/ t = r.start)
    BY <1>1, <2>1
  <2> HIDE DEF many, cut, n, left, rest, w
  <2> QED
    BY <1>4, <2>1, <2>2
<1> HIDE DEF w, cut, n, rest, many, left
<1> QED
  BY <1>7, <1>8, <1>9, <1>10, <1>11, <1>12 DEF w

LEMMA SubtractedFits ==
    ASSUME NEW p, WellFormed(p), Aligned(p), NEW S
    PROVE  Subtracts(Subtracted(p, S), p, S)
<1>1. CASE p.type = "unsat"
  <2>1. Subtracted(p, S) = Unsat
    BY <1>1 DEF Subtracted
  <2> QED
    BY <2>1, Made DEF Subtracts
<1>2. CASE p.type = "single"
  <2>1. Subtracted(p, S) = IF p.value \in S THEN Unsat ELSE p
    BY <1>2 DEF Subtracted
  <2>2. Values(p) = {p.value}
    BY <1>2, ValuesOfClasses
  <2> QED
    BY <2>1, <2>2, Made DEF Subtracts
<1>3. CASE p.type = "range"
  <2>1. Subtracted(p, S) = SubtractedRange(p, S)
    BY <1>3 DEF Subtracted
  <2> QED
    BY <1>3, <2>1, SubtractedRangeFits
<1>4. CASE p.type = "set"
  <2>1. Subtracted(p, S) = SetOrUnsat(p.set \ S)
    BY <1>4 DEF Subtracted
  <2>2. p.set \in SUBSET Nat /\ IsFiniteSet(p.set) /\ Values(p) = p.set
    BY <1>4, ValuesOfClasses DEF WellFormed
  <2>3. p.set \ S \in SUBSET Nat /\ IsFiniteSet(p.set \ S)
    BY <2>2, FS_Subset
  <2>4. CASE p.set \ S = {}
    BY <2>1, <2>4, Made DEF Subtracts, SetOrUnsat
  <2>5. CASE p.set \ S # {}
    <3>1. Subtracted(p, S) = SetOf(p.set \ S)
      BY <2>1, <2>5 DEF SetOrUnsat
    <3>2. WellFormed(SetOf(p.set \ S)) /\ Aligned(SetOf(p.set \ S)) /\ Values(SetOf(p.set \ S)) = p.set \ S
      BY <2>3, Made
    <3> QED
      BY <2>2, <3>1, <3>2 DEF Subtracts
  <2> QED
    BY <2>4, <2>5
<1> QED
  BY <1>1, <1>2, <1>3, <1>4 DEF WellFormed

-----------------------------------------------------------------------------
(* Manifests that are merged and subtracted from                           *)

PartsKnown ==
    /\ parts \subseteq Declared
    /\ WellFormed(manifest.witness) /\ Aligned(manifest.witness)
    /\ manifest.constant \in {"NONE", "REQUIRED"}

PartsMet ==
    \A part \in parts : Above(manifest.witness, part.witness)

Kept ==
    /\ removed = {} => Values(manifest.witness) # {}
    /\ manifest.constant = "REQUIRED" <=> \E part \in parts : part.constant = "REQUIRED"
    /\ Values(manifest.witness) \cap removed = {}

ManifestInv == PartsKnown /\ PartsMet /\ Kept

LEMMA DeclaredUsable ==
    \A d \in Declared : Usable(d.witness) /\ d.constant \in {"NONE", "REQUIRED"}
  BY DeclaredAssumption, AlignedAssumption DEF Usable

LEMMA ManifestInitially == ManifestInit => ManifestInv
<1> SUFFICES ASSUME ManifestInit PROVE ManifestInv
  OBVIOUS
<1>1. manifest \in Declared /\ parts = {manifest} /\ removed = {}
  BY DEF ManifestInit
<1>2. Usable(manifest.witness) /\ manifest.constant \in {"NONE", "REQUIRED"}
  BY <1>1, DeclaredUsable
<1>3. Above(manifest.witness, manifest.witness)
  <2>1. Values(manifest.witness) \in SUBSET Nat
    BY <1>2, ValuesOfClasses DEF Usable
  <2>2. \A v \in Nat : v <= v
    OBVIOUS
  <2> QED
    BY <2>1, <2>2 DEF Above
<1> QED
  BY <1>1, <1>2, <1>3 DEF ManifestInv, PartsKnown, PartsMet, Kept, Usable

LEMMA ManifestStepKeeps == ManifestInv /\ [ManifestNext]_manifestVars => ManifestInv'
<1> SUFFICES ASSUME ManifestInv, [ManifestNext]_manifestVars PROVE ManifestInv'
  OBVIOUS
<1> USE DEF ManifestInv
<1>1. ASSUME NEW other \in Declared, MergeWith(other) PROVE ManifestInv'
  <2>1. /\ removed = {} /\ removed' = {} /\ parts' = parts \cup {other}
        /\ manifest'.witness \in Merged(manifest.witness, other.witness)
        /\ manifest'.constant = MergedConstant(manifest.constant, other.constant)
    BY <1>1 DEF MergeWith
  <2>2. Usable(manifest.witness)
    BY <2>1 DEF PartsKnown, Kept, Usable
  <2>3. Usable(other.witness) /\ other.constant \in {"NONE", "REQUIRED"}
    BY DeclaredUsable
  <2>4. /\ Usable(manifest'.witness)
        /\ Above(manifest'.witness, manifest.witness) /\ Above(manifest'.witness, other.witness)
    BY <2>1, <2>2, <2>3, MergedFits
  <2>5. PartsKnown'
    BY <2>1, <2>3, <2>4 DEF PartsKnown, Usable, MergedConstant
  <2>6. PartsMet'
    <3> SUFFICES ASSUME NEW part \in parts' PROVE Above(manifest'.witness, part.witness)
      BY DEF PartsMet, Above
    <3>1. CASE part = other
      BY <2>4, <3>1
    <3>2. CASE part \in parts
      <4>1. Usable(part.witness)
        BY <3>2, DeclaredUsable DEF PartsKnown
      <4>2. /\ Values(manifest'.witness) \in SUBSET Nat /\ Values(manifest.witness) \in SUBSET Nat
            /\ Values(part.witness) \in SUBSET Nat
        BY <2>2, <2>4, <4>1, ValuesOfClasses DEF Usable
      <4>3. Above(manifest.witness, part.witness)
        BY <3>2 DEF PartsMet
      <4>4. \A v \in Values(manifest'.witness) : \E y \in Values(part.witness) : y <= v
        <5> TAKE v \in Values(manifest'.witness)
        <5>1. PICK x \in Values(manifest.witness) : x <= v
          BY <2>4 DEF Above
        <5>2. PICK y \in Values(part.witness) : y <= x
          BY <4>3 DEF Above
        <5>3. v \in Nat /\ x \in Nat /\ y \in Nat
          BY <4>2
        <5> QED
          BY <5>1, <5>2, <5>3
      <4> QED
        BY <4>4 DEF Above
    <3> QED
      BY <2>1, <3>1, <3>2
  <2>7. Kept'
    BY <2>1, <2>3, <2>4 DEF PartsKnown, Kept, MergedConstant, Usable
  <2> QED
    BY <2>5, <2>6, <2>7
<1>2. ASSUME NEW S \in Removable, Subtract(S) PROVE ManifestInv'
  <2> DEFINE w == Subtracted(manifest.witness, S)
  <2>1. /\ manifest' = [manifest EXCEPT !.witness = w]
        /\ removed' = S /\ S # {} /\ parts' = parts
    BY <1>2 DEF Subtract
  <2> HIDE DEF w
  <2>2. manifest'.witness = w /\ manifest'.constant = manifest.constant
    BY <2>1
  <2>3. Subtracts(w, manifest.witness, S)
    BY SubtractedFits DEF PartsKnown, w
  <2> QED
    BY <2>1, <2>2, <2>3 DEF PartsKnown, PartsMet, Kept, Above, Subtracts
<1>3. CASE UNCHANGED <<manifest, parts, removed>>
  BY <1>3 DEF PartsKnown, PartsMet, Kept, Above
<1> QED
  BY <1>1, <1>2, <1>3 DEF ManifestNext, Fit, manifestVars

(* However manifests are merged and subtracted from.                       *)
THEOREM MergedPartsAreMet == ManifestSpec => []MergeNeedsEveryPart
<1>1. ManifestInv => MergeNeedsEveryPart
  <2> SUFFICES ASSUME ManifestInv PROVE MergeNeedsEveryPart
    OBVIOUS
  <2>1. ASSUME NEW part \in parts, NEW v \in Values(manifest.witness)
        PROVE  v >= Min(Values(part.witness))
    <3>1. PICK y \in Values(part.witness) : y <= v
      BY DEF ManifestInv, PartsMet, Above
    <3>2. Values(part.witness) \in SUBSET Nat /\ Values(manifest.witness) \in SUBSET Nat
      BY DeclaredUsable, ValuesOfClasses DEF ManifestInv, PartsKnown, Usable
    <3>3. Min(Values(part.witness)) \in Nat /\ Min(Values(part.witness)) <= y
      BY <3>2, MinIsLeast
    <3>4. v \in Nat /\ y \in Nat
      BY <3>2
    <3> QED
      BY <3>1, <3>3, <3>4
  <2> QED
    BY <2>1 DEF MergeNeedsEveryPart, ManifestInv, Kept
<1> QED
  BY <1>1, ManifestInitially, ManifestStepKeeps, PTL DEF ManifestSpec

-----------------------------------------------------------------------------
(* The greatest common divisor and what it is a combination of             *)

LEMMA ExactQuotient ==
    ASSUME NEW g \in Nat \ {0}, NEW k \in Int, NEW x \in Int, x = g * k
    PROVE  x \div g = k
<1>1. PICK q \in Int, r \in 0..(g - 1) : x = g * q + r /\ x % g = r /\ x \div g = q
  BY Divided
<1>2. r = 0
  <2>1. x % g = 0
    BY Multiple
  <2> QED
    BY <1>1, <2>1
<1>3. g * q = g * k
  BY <1>1, <1>2
<1>4. q = k
  <2>1. PICK e \in Int : e = q - k
    OBVIOUS
  <2>2. g * (k + e) = g * k + g * e
    BY <2>1, Distributes
  <2>3. g * e = 0
    <3>1. PICK z \in Int, y \in Int : z = g * k /\ y = g * e
      BY <2>1
    <3>2. q = k + e
      BY <2>1
    <3>3. z = z + y
      BY <1>3, <2>2, <3>1, <3>2
    <3> QED
      BY <3>1, <3>3
  <2>4. e = 0
    BY <2>1, <2>3
  <2> QED
    BY <2>1, <2>4
<1> QED
  BY <1>1, <1>4

IsCombination(t, A, B) == \E i, j \in Int : t = i * A + j * B

(* The least positive combination of two numbers divides both.             *)
LEMMA DividesBoth ==
    ASSUME NEW A \in Int, NEW B \in Int, NEW m \in Int, NEW n \in Int,
           NEW g \in Nat \ {0}, g = m * A + n * B,
           \A t \in Nat \ {0} : IsCombination(t, A, B) => g <= t
    PROVE  \A x \in Int : IsCombination(x, A, B) => x % g = 0
<1>0. \A x \in Int : \E q \in Int, r \in 0..(g - 1) : x = g * q + r /\ x % g = r
  BY AllDivided
<1> SUFFICES ASSUME NEW x \in Int, NEW u \in Int, NEW w \in Int, x = u * A + w * B
             PROVE  x % g = 0
  BY DEF IsCombination
<1>1. PICK q \in Int, r \in 0..(g - 1) : x = g * q + r /\ x % g = r
  BY <1>0
<1>2. r = (u - m * q) * A + (w - n * q) * B
  <2>1. (m * A + n * B) * q = (m * q) * A + (n * q) * B
    OBVIOUS
  <2>2. PICK v \in Int, y \in Int : v = m * q /\ y = n * q
    OBVIOUS
  <2>3. (u - v) * A = u * A - v * A /\ (w - y) * B = w * B - y * B
    OBVIOUS
  <2>4. PICK a1 \in Int, a2 \in Int, a3 \in Int, a4 \in Int, a5 \in Int :
           a1 = u * A /\ a2 = v * A /\ a3 = w * B /\ a4 = y * B /\ a5 = g * q
    BY <2>2
  <2>5. x = a1 + a3 /\ x = a5 + r /\ a5 = a2 + a4
    BY <1>1, <2>1, <2>2, <2>4
  <2>6. r = (a1 - a2) + (a3 - a4)
    BY <2>4, <2>5
  <2> QED
    BY <2>2, <2>3, <2>4, <2>6
<1>3. r = 0
  <2> SUFFICES ASSUME r # 0 PROVE FALSE
    OBVIOUS
  <2>1. r \in Nat \ {0} /\ r < g
    OBVIOUS
  <2>2. u - m * q \in Int /\ w - n * q \in Int
    OBVIOUS
  <2>3. IsCombination(r, A, B)
    BY <1>2, <2>2 DEF IsCombination
  <2>4. g <= r
    BY <2>1, <2>3
  <2> QED
    BY <2>1, <2>4
<1> QED
  BY <1>1, <1>3

LEMMA LeastCombination ==
    ASSUME NEW A \in Nat \ {0}, NEW B \in Nat \ {0}
    PROVE  \E g \in Nat \ {0}, m, n, j, k \in Int :
               g = m * A + n * B /\ A = g * j /\ B = g * k
<1> DEFINE T == {t \in Nat \ {0} : IsCombination(t, A, B)}
<1>0. A = 1 * A + 0 * B /\ B = 0 * A + 1 * B
  OBVIOUS
<1>1. A \in T /\ IsCombination(A, A, B) /\ IsCombination(B, A, B)
  BY <1>0 DEF IsCombination
<1>2. T \in SUBSET Nat
  OBVIOUS
<1>3. PICK g \in T : \A t \in T : g <= t
  BY <1>1, <1>2, LeastNatural
<1>4. PICK m \in Int, n \in Int : g = m * A + n * B
  BY DEF IsCombination
<1>5. g \in Nat \ {0}
  OBVIOUS
<1>6. \A t \in Nat \ {0} : IsCombination(t, A, B) => g <= t
  BY <1>3
<1> HIDE DEF T
<1>7. A \in Int /\ B \in Int /\ 0 \in Int /\ 1 \in Int
  OBVIOUS
<1>8. \A x \in Int : IsCombination(x, A, B) => x % g = 0
  BY <1>4, <1>5, <1>6, <1>7, DividesBoth
<1>9. A % g = 0 /\ B % g = 0
  BY <1>1, <1>7, <1>8
<1>10. (\E j \in Int : A = g * j) /\ (\E k \in Int : B = g * k)
  BY <1>5, <1>7, <1>9, Multiple
<1> QED
  BY <1>4, <1>5, <1>10

LEMMA DivisorIsNoLarger ==
    ASSUME NEW d \in Nat \ {0}, NEW x \in Nat \ {0}, NEW k \in Int, x = d * k
    PROVE  d <= x
<1>1. k >= 1
  <2> SUFFICES ASSUME k <= 0 PROVE FALSE
    OBVIOUS
  <2>1. d * k <= 0
    OBVIOUS
  <2> QED
    BY <2>1
<1>2. d * k >= d
  BY <1>1
<1> QED
  BY <1>2

LEMMA GcdIsCombination ==
    ASSUME NEW A \in Nat \ {0}, NEW B \in Nat \ {0}
    PROVE  \E m, n, j, k \in Int :
               /\ Gcd(A, B) \in Nat \ {0} /\ Gcd(A, B) = m * A + n * B
               /\ A = Gcd(A, B) * j /\ B = Gcd(A, B) * k
<1>1. PICK g \in Nat \ {0}, m \in Int, n \in Int, j \in Int, k \in Int :
         g = m * A + n * B /\ A = g * j /\ B = g * k
  BY LeastCombination
<1> DEFINE D == {d \in 1..Smaller(A, B) : A % d = 0 /\ B % d = 0}
<1>2. Gcd(A, B) = Max(D)
  BY DEF Gcd
<1>3. Smaller(A, B) \in Nat /\ (Smaller(A, B) = A \/ Smaller(A, B) = B)
  BY DEF Smaller
<1>4. g \in D
  <2>1. g <= A /\ g <= B
    BY <1>1, DivisorIsNoLarger
  <2>2. A \in Int /\ B \in Int
    OBVIOUS
  <2>3. A % g = 0 /\ B % g = 0
    BY <1>1, <2>2, Multiple
  <2>4. g \in 1..Smaller(A, B)
    BY <1>3, <2>1
  <2> QED
    BY <2>3, <2>4
<1>5. \A d \in D : d \in Nat /\ d <= g
  <2> TAKE d \in D
  <2>1. d \in Nat \ {0} /\ A % d = 0 /\ B % d = 0
    BY <1>3
  <2>2. A \in Int /\ B \in Int
    OBVIOUS
  <2>a. \E x \in Int : A = d * x
    BY <2>1, <2>2, Multiple
  <2>b. \E y \in Int : B = d * y
    BY <2>1, <2>2, Multiple
  <2>3. PICK x \in Int, y \in Int : A = d * x /\ B = d * y
    BY <2>a, <2>b
  <2>4. m * (d * x) + n * (d * y) = d * (m * x + n * y)
    BY <2>1
  <2>5. PICK z \in Int : z = m * x + n * y
    OBVIOUS
  <2>6. g = d * z
    BY <1>1, <2>3, <2>4, <2>5
  <2>7. d <= g
    BY <1>1, <2>1, <2>6, DivisorIsNoLarger
  <2> QED
    BY <2>1, <2>7
<1>6. D \in SUBSET Nat /\ IsFiniteSet(D)
  <2>0. 1 \in Int /\ Smaller(A, B) \in Int
    BY <1>3
  <2>1. IsFiniteSet(1..Smaller(A, B))
    BY <2>0, FS_Interval
  <2> QED
    BY <1>5, <2>1, FS_Subset
<1> HIDE DEF D
<1>7. Max(D) \in D /\ g <= Max(D)
  BY <1>4, <1>6, MaxIsGreatest
<1>8. Max(D) \in Nat /\ Max(D) <= g
  BY <1>5, <1>7
<1>9. Gcd(A, B) = g
  BY <1>2, <1>7, <1>8
<1> QED
  BY <1>1, <1>9

(* A combination within the bounds extended_euclidean's results have.      *)
LEMMA BezoutHolds ==
    ASSUME NEW A \in Nat \ {0}, NEW B \in Nat \ {0}
    PROVE  /\ Bezout(A, B)[1] \in Int /\ Bezout(A, B)[2] \in Int
           /\ Bezout(A, B)[1] * A + Bezout(A, B)[2] * B = Gcd(A, B)
<1>1. PICK m \in Int, n \in Int, j \in Int, k \in Int :
               /\ Gcd(A, B) \in Nat \ {0} /\ Gcd(A, B) = m * A + n * B
               /\ A = Gcd(A, B) * j /\ B = Gcd(A, B) * k
  BY GcdIsCombination
<1>2. PICK g \in Nat \ {0} : g = Gcd(A, B) /\ g <= A /\ g <= B
  BY <1>1, DivisorIsNoLarger
<1>3. PICK q \in Int, r \in 0..(B - 1) : m = B * q + r
  BY Divided
<1>4. PICK s \in Int : s = n + q * A
  OBVIOUS
<1>5. r * A + s * B = g
  <2>1. (B * q + r) * A = (q * A) * B + r * A
    OBVIOUS
  <2>2. (n + q * A) * B = n * B + (q * A) * B
    OBVIOUS
  <2>3. PICK z \in Int, y \in Int, x \in Int : z = (q * A) * B /\ y = r * A /\ x = n * B
    OBVIOUS
  <2>4. m * A = z + y
    BY <1>3, <2>1, <2>3
  <2>5. s * B = x + z
    BY <1>4, <2>2, <2>3
  <2>6. g = m * A + x
    BY <1>1, <1>2, <2>3
  <2> QED
    BY <2>3, <2>4, <2>5, <2>6
<1>6. r * A >= 0 /\ r * A <= B * A - A
  <2>1. r >= 0 /\ r * A >= 0
    OBVIOUS
  <2>2. PICK e \in Nat : B = r + 1 + e
    <3>1. B - 1 - r \in Nat /\ B = r + 1 + (B - 1 - r)
      OBVIOUS
    <3> QED
      BY <3>1
  <2>3. (r + 1 + e) * A = r * A + A + e * A /\ e * A >= 0
    OBVIOUS
  <2>4. PICK z \in Int, y \in Int, x \in Int : z = r * A /\ y = e * A /\ x = B * A
    OBVIOUS
  <2> QED
    BY <2>1, <2>2, <2>3, <2>4
<1>7. s <= A
  <2> SUFFICES ASSUME s > 1 PROVE FALSE
    OBVIOUS
  <2>1. s * B > B
    BY <1>4
  <2>2. PICK z \in Int, y \in Int : z = r * A /\ y = s * B
    BY <1>4
  <2> QED
    BY <1>2, <1>5, <1>6, <2>1, <2>2
<1>8. 0 - A <= s
  <2> SUFFICES ASSUME s + A < 0 PROVE FALSE
    BY <1>4
  <2>1. (s + A) * B <= 0
    BY <1>4
  <2>2. (s + A) * B = s * B + B * A
    BY <1>4
  <2>3. PICK z \in Int, y \in Int, x \in Int : z = r * A /\ y = s * B /\ x = B * A
    BY <1>4
  <2> QED
    BY <1>2, <1>5, <1>6, <2>1, <2>2, <2>3
<1>9. r \in (-B)..B /\ s \in (-A)..A
  BY <1>3, <1>4, <1>7, <1>8
<1>10. \E mn \in ((-B)..B) \X ((-A)..A) : mn[1] * A + mn[2] * B = Gcd(A, B)
  <2>1. <<r, s>>[1] = r /\ <<r, s>>[2] = s /\ <<r, s>> \in ((-B)..B) \X ((-A)..A)
    BY <1>9
  <2>2. <<r, s>>[1] * A + <<r, s>>[2] * B = Gcd(A, B)
    BY <1>2, <1>5, <2>1
  <2> QED
    BY <2>1, <2>2
<1>11. /\ Bezout(A, B) \in ((-B)..B) \X ((-A)..A)
       /\ Bezout(A, B)[1] * A + Bezout(A, B)[2] * B = Gcd(A, B)
  BY <1>10 DEF Bezout
<1>12. (-B)..B \subseteq Int /\ (-A)..A \subseteq Int
  OBVIOUS
<1> QED
  BY <1>11, <1>12

-----------------------------------------------------------------------------
(* Ranges with two steps                                                   *)

IsMultiple(x, d) == \E e \in Int : x = d * e

(* Two steps with the common divisor g, which is a combination of them.    *)
Combined(A, B, g, j, k, m, n) ==
    /\ A \in Nat \ {0} /\ B \in Nat \ {0} /\ g \in Nat \ {0}
    /\ j \in Int /\ k \in Int /\ m \in Int /\ n \in Int
    /\ A = g * j /\ B = g * k /\ g = m * A + n * B

(* What is a multiple of A and of B is one of their common multiple.       *)
LEMMA CommonMultiple ==
    ASSUME NEW A, NEW B, NEW g, NEW j, NEW k, NEW m, NEW n, Combined(A, B, g, j, k, m, n),
           NEW x \in Int, IsMultiple(x, A), IsMultiple(x, B)
    PROVE  IsMultiple(x, A * k)
<1> A \in Int /\ B \in Int /\ g \in Nat \ {0} /\ j \in Int /\ k \in Int /\ m \in Int /\ n \in Int
  BY DEF Combined
<1>0. A = g * j /\ B = g * k /\ g = m * A + n * B
  BY DEF Combined
<1>a. PICK u \in Int : x = A * u
  BY DEF IsMultiple
<1>b. PICK w \in Int : x = B * w
  BY DEF IsMultiple
<1>1. x * g = x * (m * A) + x * (n * B)
  BY <1>0, Distributes
<1>2. x * (m * A) = (A * B) * (m * w)
  <2>1. (B * w) * (m * A) = (A * B) * (m * w)
    OBVIOUS
  <2> QED
    BY <1>b, <2>1
<1>3. x * (n * B) = (A * B) * (n * u)
  <2>1. (A * u) * (n * B) = (A * B) * (n * u)
    OBVIOUS
  <2> QED
    BY <1>a, <2>1
<1>4. PICK e \in Int : e = m * w + n * u
  OBVIOUS
<1>5. x * g = (A * B) * e
  BY <1>1, <1>2, <1>3, <1>4, Distributes
<1>6. A * B = g * (A * k)
  <2>1. A * (g * k) = g * (A * k)
    OBVIOUS
  <2> QED
    BY <1>0, <2>1
<1>7. PICK l \in Int : l = A * k
  OBVIOUS
<1>8. g * x = g * (l * e)
  <2>1. (g * l) * e = g * (l * e) /\ x * g = g * x
    OBVIOUS
  <2> QED
    BY <1>5, <1>6, <1>7, <2>1
<1>9. x = l * e
  <2>1. PICK y \in Int, f \in Int : y = l * e /\ f = x - y
    OBVIOUS
  <2>2. g * (y + f) = g * y + g * f
    BY Distributes
  <2>3. g * f = 0
    <3>1. PICK z \in Int, o \in Int : z = g * y /\ o = g * f
      OBVIOUS
    <3>2. x = y + f
      BY <2>1
    <3>3. z = z + o
      BY <1>8, <2>1, <2>2, <3>1, <3>2
    <3> QED
      BY <3>1, <3>3
  <2>4. f = 0
    BY <2>3
  <2> QED
    BY <2>1, <2>4
<1> QED
  BY <1>7, <1>9 DEF IsMultiple

ResidueOf(A, B, g, m, n, s, t) == (t * A * m + s * B * n) \div g

Apart(s, t, g) == s \in Int /\ t \in Int /\ \E h \in Int : s = t + g * h

(* x is a step of A away from s, and a step of B away from t.              *)
OnBoth(x, s, t, A, B) ==
    /\ x \in Int /\ s \in Int /\ t \in Int
    /\ \E e \in Int : x = s + A * e
    /\ \E e \in Int : x = t + B * e

(* The residue is that of amounts both ranges have.                        *)
LEMMA SharedResidue ==
    ASSUME NEW A, NEW B, NEW g, NEW j, NEW l, NEW m, NEW n, Combined(A, B, g, j, l, m, n),
           NEW s, NEW t, Apart(s, t, g)
    PROVE  OnBoth(ResidueOf(A, B, g, m, n, s, t), s, t, A, B)
<1> s \in Int /\ t \in Int
  BY DEF Apart
<1>k. PICK k \in Int : s = t + g * k
  BY DEF Apart
<1> A \in Int /\ B \in Int /\ g \in Nat \ {0} /\ m \in Int /\ n \in Int
  BY DEF Combined
<1>0. g = m * A + n * B
  BY DEF Combined
<1>1. PICK p \in Int, q \in Int : p = n * k /\ q = 0 - m * k
  OBVIOUS
<1>2. PICK R \in Int : R = t + B * p
  OBVIOUS
<1>3. g * k = (m * k) * A + B * p
  <2>1. (m * A + n * B) * k = (m * k) * A + B * (n * k)
    OBVIOUS
  <2> QED
    BY <1>0, <1>1, <2>1
<1>4. R = s + A * q
  <2>1. A * (0 - m * k) = 0 - (m * k) * A
    OBVIOUS
  <2>2. PICK x \in Int, y \in Int, z \in Int, o \in Int :
           x = g * k /\ y = (m * k) * A /\ z = B * p /\ o = A * q
    OBVIOUS
  <2>3. x = y + z /\ o = 0 - y /\ R = t + z /\ s = t + x
    BY <1>1, <1>2, <1>3, <1>k, <2>1, <2>2
  <2> QED
    BY <2>2, <2>3
<1>5. t * A * m + s * B * n = g * R
  <2>1. t * A * m + (t + g * k) * B * n = (m * A + n * B) * t + g * (B * (n * k))
    OBVIOUS
  <2>2. g * (t + B * p) = g * t + g * (B * p)
    BY Distributes
  <2>3. t * A * m + s * B * n = g * t + g * (B * p)
    BY <1>0, <1>1, <1>k, <2>1
  <2> QED
    BY <1>2, <2>2, <2>3
<1>6. PICK N \in Int : N = t * A * m + s * B * n
  OBVIOUS
<1>7. N \div g = R
  BY <1>5, <1>6, ExactQuotient
<1> QED
  <2>1. ResidueOf(A, B, g, m, n, s, t) = R
    BY <1>6, <1>7 DEF ResidueOf
  <2>2. \E e \in Int : R = s + A * e
    BY <1>1, <1>4
  <2>3. \E e \in Int : R = t + B * e
    BY <1>1, <1>2
  <2> QED
    BY <2>1, <2>2, <2>3 DEF OnBoth

FirstOf(R, s, d) == s + (((R % d) - s) % d)

IsFirstOf(x, R, s, d) ==
    x \in Nat /\ s <= x /\ x < s + d /\ \E e \in Int : x = R + d * e

(* It is the first amount from s on that leaves the residue.               *)
LEMMA FirstWithResidue ==
    ASSUME NEW R \in Int, NEW s \in Nat, NEW d \in Nat \ {0}
    PROVE  IsFirstOf(FirstOf(R, s, d), R, s, d)
<1>1. \A y \in Int : \E q \in Int, r \in 0..(d - 1) : y = d * q + r /\ y % d = r
  BY AllDivided
<1>2. PICK q \in Int, r \in 0..(d - 1) : R = d * q + r /\ R % d = r
  BY <1>1
<1>3. r - s \in Int
  OBVIOUS
<1>4. PICK p \in Int, o \in 0..(d - 1) : r - s = d * p + o /\ (r - s) % d = o
  BY <1>1, <1>3
<1>5. PICK x \in Int : x = FirstOf(R, s, d) /\ x = s + o
  BY <1>2, <1>4 DEF FirstOf
<1>6. x \in Nat /\ s <= x /\ x < s + d
  BY <1>5
<1>a. 0 - p - q \in Int
  OBVIOUS
<1>7. PICK e \in Int : e = 0 - p - q
  BY <1>a
<1>8. d * e = 0 - d * p - d * q
  <2>1. d * (0 - p - q) = 0 - d * p - d * q
    OBVIOUS
  <2> QED
    BY <1>7, <2>1
<1>9. x = R + d * e
  <2>1. PICK y \in Int, z \in Int, w \in Int : y = d * p /\ z = d * q /\ w = d * e
    OBVIOUS
  <2> QED
    BY <1>2, <1>4, <1>5, <1>8, <2>1
<1> QED
  BY <1>5, <1>6, <1>7, <1>9 DEF IsFirstOf

SharedFrom(x, s, t, A, B, d) ==
    \A v \in Int : ((v - s) % A = 0 /\ (v - t) % B = 0) <=> (v - x) % d = 0

(* From a shared amount on, a step on both of two ways is a step of the    *)
(* common multiple.                                                        *)
LEMMA SharedAmounts ==
    ASSUME NEW A, NEW B, NEW g, NEW j, NEW k, NEW m, NEW n, Combined(A, B, g, j, k, m, n),
           NEW s, NEW t, NEW x, OnBoth(x, s, t, A, B)
    PROVE  SharedFrom(x, s, t, A, B, A * k)
<1> SUFFICES ASSUME NEW v \in Int
             PROVE  ((v - s) % A = 0 /\ (v - t) % B = 0) <=> (v - x) % (A * k) = 0
  BY DEF SharedFrom
<1> x \in Int /\ s \in Int /\ t \in Int
  BY DEF OnBoth
<1> A \in Nat \ {0} /\ B \in Nat \ {0} /\ g \in Nat \ {0} /\ j \in Int /\ k \in Int
  BY DEF Combined
<1>a. A = g * j /\ B = g * k
  BY DEF Combined
<1>0. k \in Nat \ {0} /\ A * k \in Nat \ {0}
  <2>1. k >= 1
    <3> SUFFICES ASSUME k <= 0 PROVE FALSE
      OBVIOUS
    <3>1. g * k <= 0
      OBVIOUS
    <3> QED
      BY <1>a, <3>1
  <2>2. A * k >= 1
    BY <2>1
  <2> QED
    BY <2>1, <2>2
<1>b. PICK a \in Int : x = s + A * a
  BY DEF OnBoth
<1>c. PICK b \in Int : x = t + B * b
  BY DEF OnBoth
<1>1. PICK vs \in Int, vt \in Int, vx \in Int : vs = v - s /\ vt = v - t /\ vx = v - x
  OBVIOUS
<1>2. PICK l \in Nat \ {0} : l = A * k
  BY <1>0
<1>3. ASSUME vs % A = 0, vt % B = 0 PROVE vx % l = 0
  <2>1. PICK i \in Int : vs = A * i
    BY <1>3, Multiple
  <2>2. PICK h \in Int : vt = B * h
    BY <1>3, Multiple
  <2>3. PICK u \in Int, w \in Int : u = i - a /\ w = h - b
    OBVIOUS
  <2>4. A * (u + a) = A * u + A * a /\ B * (w + b) = B * w + B * b
    BY Distributes
  <2>5. i = u + a /\ h = w + b
    BY <2>3
  <2>6. vx = A * u /\ vx = B * w
    <3>1. PICK y1 \in Int, y2 \in Int, y3 \in Int, y4 \in Int :
             y1 = A * u /\ y2 = A * a /\ y3 = B * w /\ y4 = B * b
      OBVIOUS
    <3>2. vs = y1 + y2 /\ vt = y3 + y4 /\ x = s + y2 /\ x = t + y4
      BY <1>b, <1>c, <2>1, <2>2, <2>4, <2>5, <3>1
    <3> QED
      BY <1>1, <3>1, <3>2
  <2>7. A \in Int /\ B \in Int
    OBVIOUS
  <2>a. IsMultiple(vx, A) /\ IsMultiple(vx, B)
    BY <2>6 DEF IsMultiple
  <2>8. IsMultiple(vx, A * k)
    BY <2>a, CommonMultiple
  <2>9. PICK e \in Int : vx = l * e
    BY <1>2, <2>8 DEF IsMultiple
  <2> QED
    BY <2>9, Multiple
<1>4. ASSUME vx % l = 0 PROVE vs % A = 0 /\ vt % B = 0
  <2>1. PICK e \in Int : vx = l * e
    BY <1>4, Multiple
  <2>2. PICK u \in Int, w \in Int : u = k * e /\ w = j * e
    OBVIOUS
  <2>3. l * e = A * u /\ l * e = B * w
    <3>1. (A * k) * e = A * (k * e)
      OBVIOUS
    <3>2. ((g * j) * k) * e = (g * k) * (j * e)
      OBVIOUS
    <3> QED
      BY <1>a, <1>2, <2>2, <3>1, <3>2
  <2>4. A * (u + a) = A * u + A * a /\ B * (w + b) = B * w + B * b
    BY Distributes
  <2>5. vs = A * (u + a) /\ vt = B * (w + b)
    <3>1. PICK y1 \in Int, y2 \in Int, y3 \in Int, y4 \in Int :
             y1 = A * u /\ y2 = A * a /\ y3 = B * w /\ y4 = B * b
      OBVIOUS
    <3>2. vx = y1 /\ vx = y3 /\ x = s + y2 /\ x = t + y4
      BY <1>b, <1>c, <2>1, <2>3, <3>1
    <3> QED
      BY <1>1, <2>4, <3>1, <3>2
  <2>6. u + a \in Int /\ w + b \in Int
    OBVIOUS
  <2>7. (\E c \in Int : vs = A * c) /\ (\E c \in Int : vt = B * c)
    BY <2>5, <2>6
  <2> QED
    BY <2>7, Multiple
<1> QED
  BY <1>1, <1>2, <1>3, <1>4

LEMMA NarrowedFits ==
    ASSUME NEW s \in Nat, NEW f \in Nat, NEW d \in Nat \ {0}
    PROVE  /\ WellFormed(Narrowed(s, f, d))
           /\ s % d = 0 => Aligned(Narrowed(s, f, d))
           /\ Values(Narrowed(s, f, d)) = {v \in s..(f - 1) : (v - s) % d = 0}
<1>0. (s - s) % d = 0
  BY ZeroRemains
<1>1. CASE s >= f
  <2>1. Narrowed(s, f, d) = Unsat
    BY <1>1 DEF Narrowed
  <2>2. {v \in s..(f - 1) : (v - s) % d = 0} = {}
    BY <1>1
  <2> QED
    BY <2>1, <2>2, Made
<1>2. CASE s = f - 1
  <2>1. Narrowed(s, f, d) = Single(s)
    BY <1>2 DEF Narrowed
  <2>2. s..(f - 1) = {s}
    BY <1>2
  <2>3. {v \in s..(f - 1) : (v - s) % d = 0} = {s}
    BY <1>0, <2>2
  <2> QED
    BY <2>1, <2>3, Made
<1>3. CASE ~(s >= f) /\ s # f - 1
  <2>1. Narrowed(s, f, d) = RangeOf(s, f, d)
    BY <1>3 DEF Narrowed
  <2>2. /\ WellFormed(RangeOf(s, f, d)) /\ (s % d = 0 => Aligned(RangeOf(s, f, d)))
        /\ Values(RangeOf(s, f, d)) = {v \in s..(f - 1) : (v - s) % d = 0}
    BY Made
  <2> QED
    BY <2>1, <2>2
<1> QED
  BY <1>1, <1>2, <1>3

(* Two ranges with different steps meet on exactly the amounts they share, *)
(* wherever they start: none if their starts differ modulo the greatest    *)
(* common divisor of the steps, and one in every common multiple otherwise *)
(* (manifest_range_param::intersect).                                      *)
THEOREM SparserRangeMeets ==
    ASSUME NEW a, NEW b, WellFormed(a), WellFormed(b), a.type = "range", b.type = "range"
    PROVE  /\ WellFormed(SparserRange(a, b))
           /\ Values(SparserRange(a, b)) = Values(a) \cap Values(b)
           /\ Aligned(a) /\ Aligned(b) => Aligned(SparserRange(a, b))
<1>1. PICK s \in Nat, A \in Nat \ {0}, t \in Nat, B \in Nat \ {0}, fa \in Nat, fb \in Nat :
         /\ s = a.start /\ A = a.step /\ fa = a.finish
         /\ t = b.start /\ B = b.step /\ fb = b.finish
  BY DEF WellFormed
<1>2. /\ Values(a) = {v \in s..(fa - 1) : (v - s) % A = 0}
      /\ Values(b) = {v \in t..(fb - 1) : (v - t) % B = 0}
  BY <1>1, ValuesOfClasses
<1>3. PICK m0 \in Int, n0 \in Int, j \in Int, k \in Int :
         /\ Gcd(A, B) \in Nat \ {0} /\ Gcd(A, B) = m0 * A + n0 * B
         /\ A = Gcd(A, B) * j /\ B = Gcd(A, B) * k
  BY GcdIsCombination
<1>4. PICK g \in Nat \ {0} : g = Gcd(A, B) /\ A = g * j /\ B = g * k
  BY <1>3
<1>5. PICK m \in Int, n \in Int :
         m = Bezout(A, B)[1] /\ n = Bezout(A, B)[2] /\ g = m * A + n * B
  BY <1>4, BezoutHolds
<1>b. Combined(A, B, g, j, k, m, n)
  BY <1>4, <1>5 DEF Combined
<1>6. B \div g = k
  BY <1>4, ExactQuotient
<1>7. PICK d \in Nat \ {0} : d = A * k
  <2>1. k >= 1
    <3> SUFFICES ASSUME k <= 0 PROVE FALSE
      OBVIOUS
    <3>1. g * k <= 0
      OBVIOUS
    <3> QED
      BY <1>4, <3>1
  <2>2. A * k \in Int /\ A * k >= 1
    BY <2>1
  <2> QED
    BY <2>2
<1>8. PICK l \in Nat, f \in Nat :
         /\ l = Larger(s, t) /\ l \in {s, t} /\ l >= s /\ l >= t
         /\ f = Smaller(fa, fb) /\ f \in {fa, fb} /\ f <= fa /\ f <= fb
  <2>1. s \in Int /\ t \in Int /\ fa \in Int /\ fb \in Int
    OBVIOUS
  <2> QED
    BY <2>1, LargerOf
<1>9. SparserRange(a, b) =
          IF s % g # t % g THEN Unsat
          ELSE Narrowed(FirstOf(ResidueOf(A, B, g, m, n, s, t), l, d), f, d)
  BY <1>1, <1>4, <1>5, <1>6, <1>7, <1>8 DEF SparserRange, FirstOf, ResidueOf
<1>10. CASE s % g # t % g
  <2>1. SparserRange(a, b) = Unsat
    BY <1>9, <1>10
  <2>2. ASSUME NEW v \in Values(a) \cap Values(b) PROVE FALSE
    <3>1. PICK vs \in Int, vt \in Int : vs = v - s /\ vt = v - t /\ vs % A = 0 /\ vt % B = 0 /\ v \in Int
      BY <1>2
    <3>2. PICK u \in Int : vs = A * u
      BY <3>1, Multiple
    <3>3. PICK w \in Int : vt = B * w
      BY <3>1, Multiple
    <3>4. PICK e \in Int, h \in Int : e = 0 - j * u /\ h = 0 - k * w
      OBVIOUS
    <3>5. vs = 0 - g * e
      <4>1. (g * j) * u = 0 - g * (0 - j * u)
        OBVIOUS
      <4> QED
        BY <1>4, <3>2, <3>4, <4>1
    <3>6. vt = 0 - g * h
      <4>1. (g * k) * w = 0 - g * (0 - k * w)
        OBVIOUS
      <4> QED
        BY <1>4, <3>3, <3>4, <4>1
    <3>7. (v + g * e) % g = v % g /\ (v + g * h) % g = v % g
      <4>1. v \in Int
        BY <3>1
      <4>2. (v + g * e) % g = v % g
        BY <4>1, MultiplesVanish
      <4>3. (v + g * h) % g = v % g
        BY <4>1, MultiplesVanish
      <4> QED
        BY <4>2, <4>3
    <3>8. s = v + g * e /\ t = v + g * h
      <4>1. PICK x \in Int, y \in Int : x = g * e /\ y = g * h
        OBVIOUS
      <4> QED
        BY <3>1, <3>5, <3>6, <4>1
    <3> QED
      BY <1>10, <3>7, <3>8
  <2>3. Values(a) \cap Values(b) = {}
    BY <2>2
  <2> QED
    BY <2>1, <2>3, Made
<1>11. CASE s % g = t % g
  <2>1. PICK h \in Int : s = t + g * h
    <3>1. \A y \in Int : \E q \in Int, r \in 0..(g - 1) : y = g * q + r /\ y % g = r
      BY AllDivided
    <3>2. s \in Int /\ t \in Int
      OBVIOUS
    <3>3. PICK q1 \in Int, r1 \in 0..(g - 1) : s = g * q1 + r1 /\ s % g = r1
      BY <3>1, <3>2
    <3>4. PICK q2 \in Int, r2 \in 0..(g - 1) : t = g * q2 + r2 /\ t % g = r2
      BY <3>1, <3>2
    <3>5. PICK h \in Int : h = q1 - q2
      OBVIOUS
    <3>6. g * (q2 + h) = g * q2 + g * h
      BY Distributes
    <3>7. q1 = q2 + h
      BY <3>5
    <3>8. PICK x \in Int, y \in Int : x = g * q2 /\ y = g * h
      OBVIOUS
    <3>9. s = x + y + r1 /\ t = x + r2 /\ r1 = r2
      BY <1>11, <3>3, <3>4, <3>6, <3>7, <3>8
    <3> QED
      BY <3>8, <3>9
  <2>2. PICK R : R = ResidueOf(A, B, g, m, n, s, t)
    OBVIOUS
  <2>a. OnBoth(ResidueOf(A, B, g, m, n, s, t), s, t, A, B)
    <3>1. Apart(s, t, g)
      BY <2>1 DEF Apart
    <3> QED
      BY <1>b, <3>1, SharedResidue
  <2>b. R \in Int
    BY <2>2, <2>a DEF OnBoth
  <2>3. PICK eb \in Int, ea \in Int : R = t + B * eb /\ R = s + A * ea
    BY <2>2, <2>a DEF OnBoth
  <2>4. PICK x \in Nat : x = FirstOf(R, l, d) /\ l <= x /\ x < l + d /\ \E e \in Int : x = R + d * e
    <3>1. IsFirstOf(FirstOf(R, l, d), R, l, d)
      BY <2>b, FirstWithResidue
    <3> QED
      BY <3>1 DEF IsFirstOf
  <2>5. PICK e \in Int : x = R + d * e
    BY <2>4
  <2>6. SparserRange(a, b) = Narrowed(x, f, d)
    BY <1>9, <1>11, <2>2, <2>4
  <2>7. PICK ua \in Int, ub \in Int : x = s + A * ua /\ x = t + B * ub
    <3>1. PICK ua \in Int, ub \in Int : ua = ea + k * e /\ ub = eb + j * e
      OBVIOUS
    <3>2. d * e = A * (k * e) /\ d * e = B * (j * e)
      <4>1. (A * k) * e = A * (k * e) /\ ((g * j) * k) * e = (g * k) * (j * e)
        OBVIOUS
      <4> QED
        BY <1>4, <1>7, <4>1
    <3>3. A * (ea + k * e) = A * ea + A * (k * e) /\ B * (eb + j * e) = B * eb + B * (j * e)
      OBVIOUS
    <3>4. PICK y1 \in Int, y2 \in Int, y3 \in Int, y4 \in Int, y5 \in Int :
             y1 = A * ea /\ y2 = A * (k * e) /\ y3 = B * eb /\ y4 = B * (j * e) /\ y5 = d * e
      OBVIOUS
    <3>5. A * ua = y1 + y2 /\ B * ub = y3 + y4 /\ y5 = y2 /\ y5 = y4
      BY <3>1, <3>2, <3>3, <3>4
    <3>6. x = s + A * ua /\ x = t + B * ub
      BY <2>3, <2>5, <3>4, <3>5
    <3> QED
      BY <3>6
  <2>8. \A v \in Int : ((v - s) % A = 0 /\ (v - t) % B = 0) <=> (v - x) % d = 0
    <3>1. s \in Int /\ t \in Int /\ x \in Int
      OBVIOUS
    <3>2. OnBoth(x, s, t, A, B)
      BY <2>7, <3>1 DEF OnBoth
    <3>3. SharedFrom(x, s, t, A, B, A * k)
      BY <1>b, <3>2, SharedAmounts
    <3> QED
      BY <1>7, <3>3 DEF SharedFrom
  <2>9. \A v \in Int : v >= l /\ (v - x) % d = 0 => v >= x
    <3> SUFFICES ASSUME NEW v \in Int, v >= l, (v - x) % d = 0, v < x PROVE FALSE
      OBVIOUS
    <3>1. PICK y \in Int : y = v - x /\ y < 0 /\ y > 0 - d
      BY <2>4
    <3>2. PICK c \in Int : y = d * c
      BY <3>1, Multiple
    <3>3. c < 0
      <4> SUFFICES ASSUME c >= 0 PROVE FALSE
        OBVIOUS
      <4>1. d * c >= 0
        OBVIOUS
      <4> QED
        BY <3>1, <3>2, <4>1
    <3>4. d * c <= 0 - d
      BY <3>3
    <3> QED
      BY <3>1, <3>2, <3>4
  <2>10. /\ WellFormed(Narrowed(x, f, d)) /\ (x % d = 0 => Aligned(Narrowed(x, f, d)))
         /\ Values(Narrowed(x, f, d)) = {v \in x..(f - 1) : (v - x) % d = 0}
    BY NarrowedFits
  <2>11. {v \in x..(f - 1) : (v - x) % d = 0} = Values(a) \cap Values(b)
    <3>1. ASSUME NEW v \in x..(f - 1), (v - x) % d = 0 PROVE v \in Values(a) \cap Values(b)
      <4>1. v \in Int /\ v \in s..(fa - 1) /\ v \in t..(fb - 1)
        BY <1>8, <2>4
      <4>2. (v - s) % A = 0 /\ (v - t) % B = 0
        BY <2>8, <3>1, <4>1
      <4> QED
        BY <1>2, <4>1, <4>2
    <3>2. ASSUME NEW v \in Values(a) \cap Values(b) PROVE v \in x..(f - 1) /\ (v - x) % d = 0
      <4>1. v \in Int /\ s <= v /\ v < fa /\ t <= v /\ v < fb /\ (v - s) % A = 0 /\ (v - t) % B = 0
        BY <1>2
      <4>2. (v - x) % d = 0
        BY <2>8, <4>1
      <4>3. v >= l /\ v < f
        BY <1>8, <4>1
      <4>4. v >= x
        BY <2>9, <4>1, <4>2, <4>3
      <4> QED
        BY <4>1, <4>2, <4>3, <4>4
    <3> QED
      BY <3>1, <3>2
  <2>12. Aligned(a) /\ Aligned(b) => x % d = 0
    <3> SUFFICES ASSUME s % A = 0, t % B = 0 PROVE x % d = 0
      BY <1>1 DEF Aligned
    <3>1. PICK cs \in Int : s = A * cs
      <4>1. s \in Int
        OBVIOUS
      <4> QED
        BY <4>1, Multiple
    <3>2. PICK ct \in Int : t = B * ct
      <4>1. t \in Int
        OBVIOUS
      <4> QED
        BY <4>1, Multiple
    <3>3. PICK o \in Int, p \in Int : o = 0 - cs /\ p = 0 - ct
      OBVIOUS
    <3>4. (0 - s) % A = 0 /\ (0 - t) % B = 0
      <4>1. PICK y \in Int, z \in Int : y = 0 - s /\ z = 0 - t
        OBVIOUS
      <4>2. A * (0 - cs) = 0 - A * cs /\ B * (0 - ct) = 0 - B * ct
        OBVIOUS
      <4>3. y = A * o /\ z = B * p
        BY <3>1, <3>2, <3>3, <4>1, <4>2
      <4>4. y % A = 0
        BY <4>3, Multiple
      <4>5. z % B = 0
        BY <4>3, Multiple
      <4> QED
        BY <4>1, <4>4, <4>5
    <3>5. (0 - x) % d = 0
      <4>1. 0 \in Int
        OBVIOUS
      <4> QED
        BY <2>8, <3>4, <4>1
    <3>6. PICK y \in Int, z \in Int : y = 0 - x /\ z = x
      OBVIOUS
    <3>7. z + y = 0 /\ y + z = 0
      BY <3>6
    <3>8. z % d = 0
      BY <3>5, <3>6, <3>7, NegatedZero
    <3> QED
      BY <3>6, <3>8
  <2> QED
    BY <2>6, <2>10, <2>11, <2>12
<1> QED
  BY <1>10, <1>11

-----------------------------------------------------------------------------
(* What fits a table                                                       *)

LEMMA AlignedAmounts ==
    ASSUME NEW s \in Nat, NEW d \in Nat \ {0}, s % d = 0
    PROVE  \A v \in Int : (v - s) % d = 0 <=> v % d = 0
<1> s \in Int
  OBVIOUS
<1>1. PICK c \in Int : s = d * c
  BY Multiple
<1> TAKE v \in Int
<1>2. PICK o \in Int, x \in Int : o = 0 - c /\ x = v - s
  OBVIOUS
<1>3. (v + d * o) % d = v % d
  BY MultiplesVanish
<1>4. d * (0 - c) = 0 - d * c
  OBVIOUS
<1>5. x = v + d * o
  <2>1. PICK y \in Int, z \in Int : y = d * c /\ z = d * o
    OBVIOUS
  <2> QED
    BY <1>1, <1>2, <1>4, <2>1
<1> QED
  BY <1>2, <1>3, <1>5

(* A parameter can be satisfied iff it stands for some amount.             *)
LEMMA SatisfiableHasValues ==
    ASSUME NEW p, WellFormed(p), Aligned(p)
    PROVE  Satisfiable(p) <=> Values(p) # {}
<1>1. CASE p.type = "range"
  <2>1. p.start \in Nat /\ p.finish \in Nat /\ p.start % p.step = 0
    BY <1>1 DEF WellFormed, Aligned
  <2>2. Satisfiable(p) <=> (p.start < p.finish /\ p.finish - p.start >= 0)
    BY <1>1, <2>1 DEF Satisfiable
  <2>3. Values(p) # {} <=> p.start < p.finish
    BY <1>1, StartIsAnAmount
  <2> QED
    BY <2>1, <2>2, <2>3
<1>2. CASE p.type # "range"
  BY <1>2, ValuesOfClasses DEF WellFormed, Satisfiable
<1> QED
  BY <1>1, <1>2

(* max_value_if_sat of a range: the last of its amounts.                   *)
LEMMA LargestOfRange ==
    ASSUME NEW p, WellFormed(p), Aligned(p), p.type = "range", Values(p) # {}
    PROVE  MaxValue(p) \in Values(p) /\ \A v \in Values(p) : v <= MaxValue(p)
<1>1. PICK s \in Nat, f \in Nat, d \in Nat \ {0} :
         s = p.start /\ f = p.finish /\ d = p.step /\ s % d = 0 /\ s < f
  <2>1. p.start \in Nat /\ p.finish \in Nat /\ p.step \in Nat \ {0} /\ p.start % p.step = 0
    BY DEF WellFormed, Aligned
  <2>2. p.start < p.finish
    BY StartIsAnAmount
  <2> QED
    BY <2>1, <2>2
<1>2. Values(p) = {v \in s..(f - 1) : (v - s) % d = 0}
  BY <1>1, ValuesOfClasses
<1>3. \A v \in Int : (v - s) % d = 0 <=> v % d = 0
  BY <1>1, AlignedAmounts
<1>a. s \in Int /\ f \in Int
  OBVIOUS
<1>4. PICK c \in Int : s = d * c
  BY <1>1, <1>a, Multiple
<1>5. PICK q \in Int, r \in 0..(d - 1) : f = d * q + r /\ f % d = r
  BY <1>a, Divided
<1>6. MaxValue(p) = f - (IF r # 0 THEN r ELSE d)
  BY <1>1, <1>5 DEF MaxValue
<1>7. PICK e \in Int : e = IF r # 0 THEN q ELSE q - 1
  OBVIOUS
<1>8. MaxValue(p) = d * e
  <2>1. CASE r # 0
    <3>1. PICK z \in Int : z = d * q
      OBVIOUS
    <3>2. e = q
      BY <1>7, <2>1
    <3> QED
      BY <1>5, <1>6, <2>1, <3>1, <3>2
  <2>2. CASE r = 0
    <3>1. d * (q - 1) = d * q - d
      OBVIOUS
    <3>2. e = q - 1
      BY <1>7, <2>2
    <3>3. PICK z \in Int : z = d * q
      OBVIOUS
    <3> QED
      BY <1>5, <1>6, <2>2, <3>1, <3>2, <3>3
  <2> QED
    BY <2>1, <2>2
<1>9. PICK M \in Int : M = d * e
  OBVIOUS
<1>10. M < f /\ f <= M + d
  <2>1. MaxValue(p) = M
    BY <1>8, <1>9
  <2> QED
    BY <1>5, <1>6, <2>1
<1>11. \A i \in Int : d * i < f => d * i <= M
  <2> SUFFICES ASSUME NEW i \in Int, d * i < f PROVE d * i <= M
    OBVIOUS
  <2>1. i <= e
    <3> SUFFICES ASSUME i > e PROVE FALSE
      OBVIOUS
    <3>1. PICK h \in Nat : i = e + 1 + h
      <4>1. i - e - 1 \in Nat /\ i = e + 1 + (i - e - 1)
        OBVIOUS
      <4> QED
        BY <4>1
    <3>2. d * (e + 1 + h) = d * e + d + d * h
      OBVIOUS
    <3>3. d * h >= 0
      OBVIOUS
    <3>4. PICK y \in Int, z \in Int : y = d * i /\ z = d * h
      OBVIOUS
    <3>5. y = M + d + z
      BY <1>9, <3>1, <3>2, <3>4
    <3> QED
      BY <1>10, <3>3, <3>4, <3>5
  <2>2. PICK h \in Nat : e = i + h
    <3>1. e - i \in Nat /\ e = i + (e - i)
      BY <2>1
    <3> QED
      BY <3>1
  <2>3. h \in Int
    OBVIOUS
  <2>4. d * (i + h) = d * i + d * h
    BY <2>3, Distributes
  <2>5. d * h >= 0
    OBVIOUS
  <2>6. PICK y \in Int, z \in Int : y = d * i /\ z = d * h
    OBVIOUS
  <2> QED
    BY <1>9, <2>2, <2>4, <2>5, <2>6
<1>12. M % d = 0
  BY <1>9, Multiple
<1>13. s <= M
  BY <1>1, <1>4, <1>11
<1>14. M \in Values(p)
  <2>1. (M - s) % d = 0
    BY <1>3, <1>12
  <2> QED
    BY <1>2, <1>10, <1>13, <2>1
<1>15. ASSUME NEW v \in Values(p) PROVE v <= M
  <2>1. v \in Int /\ v < f /\ (v - s) % d = 0
    BY <1>2
  <2>2. v % d = 0
    BY <1>3, <2>1
  <2>3. PICK i \in Int : v = d * i
    BY <2>1, <2>2, Multiple
  <2> QED
    BY <1>11, <2>1, <2>3
<1>16. MaxValue(p) = M
  BY <1>8, <1>9
<1> QED
  BY <1>14, <1>15, <1>16

LEMMA LargestIsMax ==
    ASSUME NEW S \in SUBSET Nat, NEW m \in S, \A v \in S : v <= m
    PROVE  m = Max(S)
<1>1. \A v \in S : v \in Nat /\ m >= v
  OBVIOUS
<1>2. Max(S) \in S /\ \A v \in S : Max(S) >= v
  BY <1>1 DEF Max
<1>3. PICK n \in Nat : n = Max(S) /\ n >= m /\ m >= n
  BY <1>1, <1>2
<1> QED
  BY <1>1, <1>3

(* The largest amount of a parameter that has one.                         *)
LEMMA MaxValueIsLargest ==
    ASSUME NEW p, WellFormed(p), Aligned(p), Values(p) # {}
    PROVE  MaxValue(p) \in Values(p) /\ MaxValue(p) = Max(Values(p))
<1>1. Values(p) \in SUBSET Nat
  BY ValuesOfClasses
<1>2. CASE p.type = "range"
  BY <1>1, <1>2, LargestOfRange, LargestIsMax
<1>3. CASE p.type = "single"
  <2>1. Values(p) = {p.value} /\ MaxValue(p) = p.value /\ p.value \in Nat
    BY <1>3, ValuesOfClasses DEF WellFormed, MaxValue
  <2>2. \A v \in Values(p) : v <= p.value
    BY <2>1
  <2> QED
    BY <1>1, <2>1, <2>2, LargestIsMax
<1>4. CASE p.type = "set"
  <2>1. Values(p) = p.set /\ MaxValue(p) = Max(p.set) /\ IsFiniteSet(p.set)
    BY <1>4, ValuesOfClasses DEF WellFormed, MaxValue
  <2>2. Max(Values(p)) \in Values(p)
    BY <1>1, <2>1, MaxIsGreatest
  <2> QED
    BY <2>1, <2>2
<1> QED
  BY <1>2, <1>3, <1>4, ValuesOfClasses DEF WellFormed

(* The check in a component's constructor lets an amount of the parameter  *)
(* through, whether it is strict or not.                                   *)
LEMMA AmountsPassTheCheck ==
    ASSUME NEW p, WellFormed(p), Aligned(p), NEW v \in Values(p), NEW strict \in BOOLEAN
    PROVE  CheckParam(p, v, strict)
<1>1. CASE strict
  BY <1>1 DEF CheckParam
<1>2. CASE ~strict
  <2>1. Values(p) \in SUBSET Nat /\ v \in Nat
    BY ValuesOfClasses
  <2>2. CASE p.type = "range"
    <3>1. Satisfiable(p)
      BY SatisfiableHasValues
    <3>2. p.start <= v /\ p.start \in Nat
      BY <2>2, StartIsAnAmount DEF WellFormed
    <3>3. v >= p.start
      BY <2>1, <3>2
    <3> QED
      BY <1>2, <2>2, <3>1, <3>3 DEF CheckParam
  <2>3. CASE p.type = "single"
    <3>1. v = p.value
      BY <2>3, ValuesOfClasses
    <3> QED
      BY <1>2, <2>1, <2>3, <3>1 DEF CheckParam
  <2>4. CASE p.type = "set"
    <3>1. v \in p.set /\ v >= v
      BY <2>1, <2>4, ValuesOfClasses
    <3> QED
      BY <1>2, <2>4, <3>1 DEF CheckParam
  <2> QED
    BY <2>2, <2>3, <2>4, ValuesOfClasses DEF WellFormed
<1> QED
  BY <1>1, <1>2

-----------------------------------------------------------------------------
(* Intersecting                                                            *)

Meets(w, a, b) ==
    WellFormed(w) /\ Aligned(w) /\ Values(w) = Values(a) \cap Values(b)

LEMMA SameStepMeets ==
    ASSUME NEW a, NEW b, WellFormed(a), WellFormed(b), Aligned(a), Aligned(b),
           a.type = "range", b.type = "range", a.step = b.step
    PROVE  Meets(Narrowed(Larger(a.start, b.start), Smaller(a.finish, b.finish), a.step), a, b)
<1>1. PICK s \in Nat, t \in Nat, d \in Nat \ {0}, fa \in Nat, fb \in Nat :
         /\ s = a.start /\ d = a.step /\ fa = a.finish
         /\ t = b.start /\ d = b.step /\ fb = b.finish
         /\ s % d = 0 /\ t % d = 0
  BY DEF WellFormed, Aligned
<1>2. /\ Values(a) = {v \in s..(fa - 1) : (v - s) % d = 0}
      /\ Values(b) = {v \in t..(fb - 1) : (v - t) % d = 0}
  BY <1>1, ValuesOfClasses
<1>3. PICK l \in Nat, f \in Nat :
         /\ l = Larger(s, t) /\ l \in {s, t} /\ l >= s /\ l >= t
         /\ f = Smaller(fa, fb) /\ f \in {fa, fb} /\ f <= fa /\ f <= fb
  <2>1. s \in Int /\ t \in Int /\ fa \in Int /\ fb \in Int
    OBVIOUS
  <2> QED
    BY <2>1, LargerOf
<1>4. l % d = 0
  BY <1>1, <1>3
<1>5. /\ \A v \in Int : (v - s) % d = 0 <=> v % d = 0
      /\ \A v \in Int : (v - t) % d = 0 <=> v % d = 0
      /\ \A v \in Int : (v - l) % d = 0 <=> v % d = 0
  BY <1>1, <1>4, AlignedAmounts
<1>6. /\ WellFormed(Narrowed(l, f, d)) /\ Aligned(Narrowed(l, f, d))
      /\ Values(Narrowed(l, f, d)) = {v \in l..(f - 1) : (v - l) % d = 0}
  BY <1>4, NarrowedFits
<1>7. \A v \in Int : (v \in l..(f - 1)) <=> (v \in s..(fa - 1) /\ v \in t..(fb - 1))
  BY <1>3
<1>8. {v \in l..(f - 1) : (v - l) % d = 0} = Values(a) \cap Values(b)
  <2>1. l..(f - 1) \subseteq Int /\ s..(fa - 1) \subseteq Int
    OBVIOUS
  <2> QED
    BY <1>2, <1>5, <1>7, <2>1
<1> QED
  BY <1>1, <1>3, <1>6, <1>8 DEF Meets

LEMMA RangesMeet ==
    ASSUME NEW a, NEW b, WellFormed(a), WellFormed(b), Aligned(a), Aligned(b),
           a.type = "range", b.type = "range"
    PROVE  Meets(IntersectRanges(a, b), a, b)
<1>1. CASE ~Satisfiable(a) \/ ~Satisfiable(b)
  <2>1. IntersectRanges(a, b) = Unsat
    BY <1>1 DEF IntersectRanges
  <2>2. Values(a) = {} \/ Values(b) = {}
    BY <1>1, SatisfiableHasValues
  <2> QED
    BY <2>1, <2>2, Made DEF Meets
<1>2. CASE Satisfiable(a) /\ Satisfiable(b) /\ a.step = b.step
  <2>1. IntersectRanges(a, b) =
            Narrowed(Larger(a.start, b.start), Smaller(a.finish, b.finish), a.step)
    BY <1>2 DEF IntersectRanges
  <2> QED
    BY <1>2, <2>1, SameStepMeets
<1>3. CASE Satisfiable(a) /\ Satisfiable(b) /\ a.step # b.step
  <2>1. IntersectRanges(a, b) = SparserRange(a, b)
    BY <1>3 DEF IntersectRanges
  <2> QED
    BY <2>1, SparserRangeMeets DEF Meets
<1> QED
  BY <1>1, <1>2, <1>3

LEMMA SubsetMade ==
    ASSUME NEW S \in SUBSET Nat, IsFiniteSet(S), NEW T \in SUBSET S
    PROVE  /\ WellFormed(SetOf(T)) /\ Values(SetOf(T)) = T /\ Aligned(SetOf(T))
           /\ WellFormed(SetOrUnsat(T)) /\ Values(SetOrUnsat(T)) = T /\ Aligned(SetOrUnsat(T))
<1>1. T \in SUBSET Nat /\ IsFiniteSet(T)
  BY FS_Subset
<1>2. WellFormed(SetOf(T)) /\ Values(SetOf(T)) = T /\ Aligned(SetOf(T))
  BY <1>1, Made
<1>3. SetOrUnsat(T) = IF T = {} THEN Unsat ELSE SetOf(T)
  BY DEF SetOrUnsat
<1> QED
  BY <1>2, <1>3, Made

(* The intersection of two parameters stands for exactly the amounts both  *)
(* stand for, whatever their classes (manifest_param::intersect).          *)
THEOREM IntersectionIsExact ==
    ASSUME NEW a, NEW b, WellFormed(a), WellFormed(b), Aligned(a), Aligned(b)
    PROVE  /\ WellFormed(Intersect(a, b)) /\ Aligned(Intersect(a, b))
           /\ Values(Intersect(a, b)) = Values(a) \cap Values(b)
<1>0. /\ a.type \in {"unsat", "single", "range", "set"}
      /\ b.type \in {"unsat", "single", "range", "set"}
  BY DEF WellFormed
<1>a. \A p, v : CheckParam(p, v, TRUE) <=> v \in Values(p)
  BY DEF CheckParam
<1>1. CASE a.type = "unsat" \/ b.type = "unsat"
  <2>1. Intersect(a, b) = Unsat
    <3>1. CASE a.type = "unsat"
      <4>1. \A v : ~ CheckParam(a, v, TRUE)
        BY <1>a, <3>1, ValuesOfClasses
      <4> QED
        BY <3>1, <4>1 DEF Intersect
    <3>2. CASE b.type = "unsat"
      <4>1. \A v : ~ CheckParam(b, v, TRUE)
        BY <1>a, <3>2, ValuesOfClasses
      <4> QED
        BY <3>2, <4>1 DEF Intersect
    <3> QED
      BY <1>1, <3>1, <3>2
  <2>2. Values(a) = {} \/ Values(b) = {}
    BY <1>1, ValuesOfClasses
  <2> QED
    BY <2>1, <2>2, Made
<1>2. CASE a.type = "single" /\ b.type # "unsat"
  <2>1. Intersect(a, b) = IF a.value \in Values(b) THEN Single(a.value) ELSE Unsat
    BY <1>0, <1>2, <1>a DEF Intersect
  <2>2. Values(a) = {a.value} /\ a.value \in Nat
    BY <1>2, ValuesOfClasses DEF WellFormed
  <2> QED
    BY <2>1, <2>2, Made
<1>3. CASE a.type \in {"range", "set"} /\ b.type = "single"
  <2>1. Intersect(a, b) = IF b.value \in Values(a) THEN b ELSE Unsat
    BY <1>0, <1>3, <1>a DEF Intersect
  <2>2. Values(b) = {b.value}
    BY <1>3, ValuesOfClasses
  <2> QED
    BY <2>1, <2>2, Made
<1>4. CASE a.type = "range" /\ b.type = "range"
  <2>1. Intersect(a, b) = IntersectRanges(a, b)
    BY <1>4 DEF Intersect
  <2> QED
    BY <1>4, <2>1, RangesMeet DEF Meets
<1>5. CASE a.type = "range" /\ b.type = "set"
  <2>1. Intersect(a, b) = SetOf({v \in b.set : v \in Values(a)})
    BY <1>0, <1>5, <1>a DEF Intersect
  <2>2. Values(b) = b.set /\ b.set \in SUBSET Nat /\ IsFiniteSet(b.set)
    BY <1>5, ValuesOfClasses DEF WellFormed
  <2>3. {v \in b.set : v \in Values(a)} \in SUBSET b.set
    OBVIOUS
  <2> QED
    BY <2>1, <2>2, <2>3, SubsetMade
<1>6. CASE a.type = "set" /\ b.type \in {"range", "set"}
  <2>1. Intersect(a, b) = SetOrUnsat({v \in a.set : v \in Values(b)})
    BY <1>0, <1>6, <1>a DEF Intersect
  <2>2. Values(a) = a.set /\ a.set \in SUBSET Nat /\ IsFiniteSet(a.set)
    BY <1>6, ValuesOfClasses DEF WellFormed
  <2>3. {v \in a.set : v \in Values(b)} \in SUBSET a.set
    OBVIOUS
  <2> QED
    BY <2>1, <2>2, <2>3, SubsetMade
<1> QED
  BY <1>0, <1>1, <1>2, <1>3, <1>4, <1>5, <1>6

(* Fitting a manifest into a table leaves exactly the amounts that suit    *)
(* both, finds out whether there is one, and takes the largest.            *)
LEMMA FitIsExact ==
    ASSUME ManifestInv, NEW offer \in Offer, NEW has \in BOOLEAN, Fit(offer, has)
    PROVE  FitExact'
<1> DEFINE p == manifest.witness
           w == Intersect(p, offer)
           c == FittedConstant(manifest.constant, has)
           sat == Satisfiable(w) /\ c # "UNSAT"
<1>1. /\ WellFormed(p) /\ Aligned(p) /\ manifest.constant \in {"NONE", "REQUIRED"}
      /\ WellFormed(offer) /\ Aligned(offer)
  BY OfferAssumption, AlignedAssumption DEF ManifestInv, PartsKnown
<1>2. WellFormed(w) /\ Aligned(w) /\ Values(w) = Values(p) \cap Values(offer)
  BY <1>1, IntersectionIsExact
<1>3. Satisfiable(w) <=> Values(w) # {}
  BY <1>2, SatisfiableHasValues
<1>4. c # "UNSAT" <=> (manifest.constant = "REQUIRED" => has)
  BY <1>1 DEF FittedConstant
<1>5. ASSUME sat PROVE /\ MaxValue(w) = Max(Values(w))
                       /\ \A strict \in BOOLEAN : CheckParam(p, MaxValue(w), strict)
  <2>1. MaxValue(w) \in Values(w) /\ MaxValue(w) = Max(Values(w))
    BY <1>2, <1>3, <1>5, MaxValueIsLargest
  <2>2. MaxValue(w) \in Values(p)
    BY <1>2, <2>1
  <2> QED
    BY <1>1, <2>1, <2>2, AmountsPassTheCheck
<1>6. /\ fit' = [done |-> TRUE, offer |-> offer, has |-> has, witness |-> w, constant |-> c,
                 sat |-> sat, amount |-> IF sat THEN MaxValue(w) ELSE 0]
      /\ manifest' = manifest
  BY DEF Fit
<1> HIDE DEF p, w, c, sat
<1>7. /\ fit'.offer = offer /\ fit'.has = has /\ fit'.witness = w /\ fit'.sat = sat
      /\ fit'.amount = IF sat THEN MaxValue(w) ELSE 0
  BY <1>6
<1>8. manifest'.witness = p /\ manifest'.constant = manifest.constant
  BY <1>6 DEF p
<1>9. sat <=> (Values(p) \cap Values(offer) # {} /\ (manifest.constant = "REQUIRED" => has))
  BY <1>2, <1>3, <1>4 DEF sat
<1> QED
  BY <1>2, <1>5, <1>7, <1>8, <1>9 DEF FitExact

(* Whatever table a merged manifest is fitted into, exactly the amounts    *)
(* that suit both are left, it is satisfiable iff there is one and the     *)
(* constant column is there when needed, and the amount component_batch    *)
(* takes is the largest, which the component's constructor accepts.        *)
THEOREM FitsAreExact == ManifestSpec => []FitExact
<1>1. ManifestInit => FitExact
  BY DEF ManifestInit, FitExact
<1>2. ManifestInv /\ FitExact /\ [ManifestNext]_manifestVars => FitExact'
  <2> SUFFICES ASSUME ManifestInv, FitExact, [ManifestNext]_manifestVars PROVE FitExact'
    OBVIOUS
  <2>1. CASE \E other \in Declared : MergeWith(other)
    <3>1. fit' = fit /\ ~fit.done
      BY <2>1 DEF MergeWith
    <3> QED
      BY <3>1 DEF FitExact
  <2>2. CASE \E S \in Removable : Subtract(S)
    <3>1. fit' = fit /\ ~fit.done
      BY <2>2 DEF Subtract
    <3> QED
      BY <3>1 DEF FitExact
  <2>3. CASE \E offer \in Offer, has \in BOOLEAN : Fit(offer, has)
    BY <2>3, FitIsExact
  <2>4. CASE UNCHANGED manifestVars
    BY <2>4 DEF FitExact, manifestVars
  <2> QED
    BY <2>1, <2>2, <2>3, <2>4 DEF ManifestNext
<1> QED
  BY <1>1, <1>2, ManifestInitially, ManifestStepKeeps, PTL DEF ManifestSpec

-----------------------------------------------------------------------------
(* Zones: what joining sets leaves whole                                   *)

(* S has all of J or nothing.                                              *)
Whole(J, S) == J \cap S = {} \/ J \subseteq S

Partition(z, A) == UNION z = A /\ \A p, q \in z : p \cap q # {} => p = q

LEMMA JoinedKeeps ==
    ASSUME NEW A, NEW z, Partition(z, A), NEW J \in SUBSET A, J # {}
    PROVE  /\ Partition(Joined(z, J), A)
           /\ \A p \in Joined(z, J) : Whole(J, p)
           /\ \A K : (\A p \in z : Whole(K, p)) => \A p \in Joined(z, J) : Whole(K, p)
           /\ \A S : Whole(J, S) /\ (\A p \in z : Whole(p, S)) => \A p \in Joined(z, J) : Whole(p, S)
<1> DEFINE M == UNION {p \in z : p \cap J # {}}
<1>1. \A p : p \in Joined(z, J) <=> (p \in z /\ p \cap J = {}) \/ p = M
  BY DEF Joined
<1>2. J \subseteq M /\ M \subseteq A
  BY DEF Partition
<1>3. \A p \in z : p \subseteq M \/ p \cap J = {}
  OBVIOUS
<1>4. \A p \in z : p \cap J = {} => p \cap M = {}
  <2> SUFFICES ASSUME NEW p \in z, p \cap J = {}, NEW x \in p, x \in M PROVE FALSE
    OBVIOUS
  <2>1. PICK q \in z : q \cap J # {} /\ x \in q
    OBVIOUS
  <2>2. p = q
    BY <2>1 DEF Partition
  <2> QED
    BY <2>1, <2>2
<1>5. Partition(Joined(z, J), A)
  <2>1. UNION Joined(z, J) = A
    <3>1. ASSUME NEW x \in A PROVE x \in UNION Joined(z, J)
      <4>1. PICK p \in z : x \in p
        BY DEF Partition
      <4> QED
        BY <1>1, <1>3, <4>1
    <3>2. ASSUME NEW p \in Joined(z, J) PROVE p \subseteq A
      BY <1>1, <1>2 DEF Partition
    <3> QED
      BY <3>1, <3>2
  <2>2. ASSUME NEW p \in Joined(z, J), NEW q \in Joined(z, J), p \cap q # {} PROVE p = q
    <3>1. (p \in z /\ p \cap J = {}) \/ p = M
      BY <1>1
    <3>2. (q \in z /\ q \cap J = {}) \/ q = M
      BY <1>1
    <3> HIDE DEF M
    <3> QED
      BY <1>4, <2>2, <3>1, <3>2 DEF Partition
  <2> QED
    BY <2>1, <2>2 DEF Partition
<1>6. \A p \in Joined(z, J) : Whole(J, p)
  <2> HIDE DEF M
  <2> QED
    BY <1>1, <1>2 DEF Whole
<1>7. ASSUME NEW K, \A p \in z : Whole(K, p), NEW p \in Joined(z, J) PROVE Whole(K, p)
  <2>1. CASE p \in z
    BY <1>7, <2>1
  <2>2. CASE p = M
    <3> SUFFICES ASSUME NEW x \in K, x \in M PROVE K \subseteq M
      BY <2>2 DEF Whole
    <3>1. PICK q \in z : q \cap J # {} /\ x \in q
      OBVIOUS
    <3>2. K \subseteq q
      BY <1>7, <3>1 DEF Whole
    <3> QED
      BY <1>3, <3>1, <3>2
  <2> HIDE DEF M
  <2> QED
    BY <1>1, <2>1, <2>2
<1>8. ASSUME NEW S, Whole(J, S), \A p \in z : Whole(p, S), NEW p \in Joined(z, J)
      PROVE  Whole(p, S)
  <2>1. CASE p \in z
    BY <1>8, <2>1
  <2>2. CASE p = M
    <3>1. CASE J \subseteq S
      <4>1. \A q \in z : q \cap J # {} => q \subseteq S
        BY <1>8, <3>1 DEF Whole
      <4>2. M \subseteq S
        BY <4>1
      <4> QED
        BY <2>2, <4>2 DEF Whole
    <3>2. CASE J \cap S = {}
      <4>1. \A q \in z : q \cap J # {} => q \cap S = {}
        BY <1>8, <3>2 DEF Whole
      <4>2. M \cap S = {}
        BY <4>1
      <4> QED
        BY <2>2, <4>2 DEF Whole
    <3> QED
      BY <1>8, <3>1, <3>2 DEF Whole
  <2> HIDE DEF M
  <2> QED
    BY <1>1, <2>1, <2>2
<1> QED
  BY <1>5, <1>6, <1>7, <1>8

(* The zones after each of the joins.                                      *)
LEMMA ZonesUnfold ==
    ASSUME NEW joins, Len(joins) \in Nat
    PROVE  /\ ZonesAfter(joins)[0] = {{a} : a \in Addresses}
           /\ \A n \in 1..Len(joins) : ZonesAfter(joins)[n] = Joined(ZonesAfter(joins)[n - 1], joins[n])
<1> DEFINE N == Len(joins)
           first == {{a} : a \in Addresses}
           S == SUBSET SUBSET Addresses
           step == [x \in (1..N) \X S |-> Joined(x[2], joins[x[1]])]
           Solves(f) == f = [n \in 0..N |-> IF n = 0 THEN first ELSE Joined(f[n - 1], joins[n])]
<1>1. first \in S
  OBVIOUS
<1>2. step \in [(1..N) \X S -> S]
  <2>1. \A z \in S : \A J : Joined(z, J) \in S
    BY DEF Joined
  <2> HIDE DEF S
  <2> QED
    BY <2>1
<1> HIDE DEF S, first
<1>3. PICK f : Counted(f, N, first, step)
  BY CountedFunctionExists
<1>4. f \in [0..N -> S]
  <2> HIDE DEF step
  <2> QED
    BY <1>1, <1>2, <1>3, CountedFunctionType
<1>5. f = [n \in 0..N |-> IF n = 0 THEN first ELSE step[<<n, f[n - 1]>>]]
  BY <1>3 DEF Counted
<1>6. \A n \in 1..N : step[<<n, f[n - 1]>>] = Joined(f[n - 1], joins[n])
  <2> TAKE n \in 1..N
  <2>1. n - 1 \in 0..N
    OBVIOUS
  <2>2. <<n, f[n - 1]>> \in (1..N) \X S
    BY <1>4, <2>1
  <2> QED
    BY <2>2
<1> HIDE DEF step
<1>7. Solves(f)
  <2>1. \A n \in 0..N : n = 0 \/ n \in 1..N
    OBVIOUS
  <2> QED
    BY <1>5, <1>6, <2>1
<1>8. ZonesAfter(joins) = CHOOSE g : Solves(g)
  BY DEF ZonesAfter, first
<1>9. Solves(ZonesAfter(joins))
  <2> HIDE DEF Solves
  <2> QED
    BY <1>7, <1>8
<1>10. \A n \in 0..N : ZonesAfter(joins)[n] =
           IF n = 0 THEN first ELSE Joined(ZonesAfter(joins)[n - 1], joins[n])
  BY <1>9
<1> HIDE DEF Solves
<1>11. 0 \in 0..N /\ \A n \in 1..N : n \in 0..N /\ n # 0
  OBVIOUS
<1> QED
  BY <1>10, <1>11 DEF first

(* The zones are the finest partition that leaves what is joined whole.    *)
LEMMA ZonesAreFinest ==
    ASSUME NEW joins, Len(joins) \in Nat,
           \A n \in 1..Len(joins) : joins[n] \in SUBSET Addresses /\ joins[n] # {},
           NEW z, z = ZonesAfter(joins)[Len(joins)]
    PROVE  /\ Partition(z, Addresses)
           /\ \A n \in 1..Len(joins), p \in z : Whole(joins[n], p)
           /\ \A S : (\A n \in 1..Len(joins) : Whole(joins[n], S)) => \A p \in z : Whole(p, S)
<1> DEFINE N == Len(joins)
           zones == ZonesAfter(joins)
           Good(m) == /\ Partition(zones[m], Addresses)
                      /\ \A n \in 1..m, p \in zones[m] : Whole(joins[n], p)
                      /\ \A S : (\A n \in 1..m : Whole(joins[n], S)) => \A p \in zones[m] : Whole(p, S)
           P == {m \in 0..N : Good(m)}
<1> HIDE DEF N
<1>1. /\ zones[0] = {{a} : a \in Addresses}
      /\ \A n \in 1..N : zones[n] = Joined(zones[n - 1], joins[n])
  BY ZonesUnfold DEF N
<1> HIDE DEF zones
<1>0. N \in Nat /\ \A n \in 1..N : joins[n] \in SUBSET Addresses /\ joins[n] # {}
  BY DEF N
<1>2. 0 \in P
  <2>1. Partition(zones[0], Addresses)
    BY <1>1 DEF Partition
  <2>2. \A S : \A p \in zones[0] : Whole(p, S)
    BY <1>1 DEF Whole
  <2>3. 1..0 = {}
    OBVIOUS
  <2>4. Good(0)
    BY <2>1, <2>2, <2>3
  <2> HIDE DEF Good
  <2> QED
    BY <1>0, <2>4
<1>3. ASSUME NEW m \in 1..N, m - 1 \in P PROVE m \in P
  <2>1. Good(m - 1) /\ m - 1 \in 0..N
    BY <1>3
  <2>2. joins[m] \in SUBSET Addresses /\ joins[m] # {} /\ zones[m] = Joined(zones[m - 1], joins[m])
    BY <1>0, <1>1
  <2>3. 1..m = (1..(m - 1)) \cup {m}
    BY <1>0
  <2>4. /\ Partition(zones[m], Addresses)
        /\ \A p \in zones[m] : Whole(joins[m], p)
        /\ \A K : (\A p \in zones[m - 1] : Whole(K, p)) => \A p \in zones[m] : Whole(K, p)
        /\ \A S : Whole(joins[m], S) /\ (\A p \in zones[m - 1] : Whole(p, S)) => \A p \in zones[m] : Whole(p, S)
    BY <2>1, <2>2, JoinedKeeps
  <2>5. \A n \in 1..m, p \in zones[m] : Whole(joins[n], p)
    BY <2>1, <2>3, <2>4
  <2>6. \A S : (\A n \in 1..m : Whole(joins[n], S)) => \A p \in zones[m] : Whole(p, S)
    BY <2>1, <2>3, <2>4
  <2>7. Good(m)
    BY <2>4, <2>5, <2>6
  <2> HIDE DEF Good
  <2> QED
    BY <1>0, <2>7
<1>4. \A m \in 0..N : m \in P
  <2> HIDE DEF P
  <2> QED
    BY <1>0, <1>2, <1>3, CountingUp
<1>5. Good(N)
  BY <1>0, <1>4
<1> QED
  BY <1>5 DEF N, zones

(* SetToSeq lists exactly the elements of a finite set.                    *)
LEMMA Listed ==
    ASSUME NEW S, IsFiniteSet(S)
    PROVE  /\ SetToSeq(S) \in Seq(S) /\ Len(SetToSeq(S)) = Cardinality(S)
           /\ \A x : x \in S <=> \E i \in 1..Len(SetToSeq(S)) : SetToSeq(S)[i] = x
<1>1. PICK n \in Nat : ExistsBijection(1..n, S)
  BY FS_NatBijection
<1>2. n = Cardinality(S)
  BY <1>1, FS_CountingElements
<1>3. PICK g : g \in Bijection(1..n, S)
  BY <1>1 DEF ExistsBijection
<1>4. g \in [1..Cardinality(S) -> S] /\ IsInjective(g)
  BY <1>2, <1>3 DEF Bijection, Injection, IsInjective
<1> DEFINE f == SetToSeq(S)
<1>5. f \in [1..Cardinality(S) -> S] /\ IsInjective(f)
  BY <1>4 DEF SetToSeq
<1> HIDE DEF f
<1>6. f \in Injection(1..n, S)
  BY <1>2, <1>5 DEF Injection, IsInjective
<1>7. Cardinality(1..n) = n
  BY FS_Interval
<1>8. f \in Surjection(1..n, S)
  BY <1>2, <1>6, <1>7, FS_Injection
<1>9. \A x \in S : \E i \in 1..n : f[i] = x
  BY <1>8 DEF Surjection
<1>10. f \in Seq(S) /\ Len(f) = n
  BY <1>2, <1>5, LenProperties, SeqDef
<1>11. \A i \in 1..n : f[i] \in S
  BY <1>2, <1>5
<1> QED
  BY <1>2, <1>9, <1>10, <1>11 DEF f

-----------------------------------------------------------------------------
(* Cells and their addresses                                               *)

AddressesOf(cells) == {CopyAddress(c) : c \in cells}

CircuitKnown ==
    /\ io \in IOChoices /\ gates \in Seq(GateChoices) /\ copies \in Seq(CopyChoices)
    /\ enabled \subseteq (DOMAIN gates) \X RowChoices
    /\ \A e \in enabled : Reaches(gates[e[1]], e[2])
    /\ \A i \in DOMAIN copies : CopyMark(copies[i]) \subseteq Addresses

LEMMA GateCell ==
    ASSUME NEW row \in Int, NEW v \in TableCells
    PROVE  /\ CellOf(row, v) \in TableCells
           /\ CopyAddress(CellOf(row, v)) = GateAddress(row, v)
<1>1. v[1] \in {"witness", "constant"} /\ v[2] \in Int /\ v[3] \in Int
  BY BlockAssumption DEF TableCells
<1>2. CellOf(row, v) \in TableCells
  BY <1>1 DEF TableCells, CellOf
<1>3. /\ CellOf(row, v)[1] = v[1] /\ CellOf(row, v)[2] = v[2] /\ CellOf(row, v)[3] = row + v[3]
  BY DEF CellOf
<1>4. Start \in Int /\ RowSize \in Int
  BY BlockAssumption DEF RowSize
<1>5. (row + v[3]) - Start = row - Start + v[3]
  BY <1>1, <1>4
<1>6. CopyAddress(CellOf(row, v)) = ((row + v[3]) - Start) * RowSize + WithinRow(v[1], v[2])
  <2>1. PICK c : c = CellOf(row, v)
    OBVIOUS
  <2>2. c[1] # "public" /\ c[1] = v[1] /\ c[2] = v[2] /\ c[3] = row + v[3]
    BY <1>1, <1>3, <2>1
  <2>3. CopyAddress(c) = (c[3] - Start) * RowSize + WithinRow(c[1], c[2])
    BY <2>2 DEF CopyAddress
  <2>4. c[3] - Start = (row + v[3]) - Start
    BY <2>2
  <2>5. WithinRow(c[1], c[2]) = WithinRow(v[1], v[2])
    BY <2>2
  <2>6. CopyAddress(c) = ((row + v[3]) - Start) * RowSize + WithinRow(v[1], v[2])
    BY <2>3, <2>4, <2>5
  <2> QED
    BY <2>1, <2>6
<1> QED
  BY <1>2, <1>5, <1>6 DEF GateAddress

LEMMA ConstraintsKnown ==
    ASSUME CircuitKnown
    PROVE  /\ \A k \in DOMAIN gates : gates[k] \in SUBSET TableCells /\ gates[k] # {}
           /\ \A k \in DOMAIN gates : \A row \in MarkedRows(k) :
                 /\ row \in Int
                 /\ \A v \in gates[k] :
                       /\ CellOf(row, v) \in TableCells
                       /\ CopyAddress(CellOf(row, v)) = GateAddress(row, v)
                       /\ GateAddress(row, v) \in Addresses
           /\ \A i \in DOMAIN copies :
                 /\ copies[i][1] \in CircuitCells /\ copies[i][2] \in CircuitCells
                 /\ CopyAddress(copies[i][1]) \in Addresses /\ CopyAddress(copies[i][2]) \in Addresses
<1>1. ASSUME NEW k \in DOMAIN gates PROVE gates[k] \in SUBSET TableCells /\ gates[k] # {}
  <2>1. gates[k] \in GateChoices
    BY ElementOfSeq, LenProperties DEF CircuitKnown
  <2> QED
    BY <2>1, ConstraintAssumption
<1>2. ASSUME NEW k \in DOMAIN gates, NEW row \in MarkedRows(k)
      PROVE  /\ row \in Int
             /\ \A v \in gates[k] :
                   /\ CellOf(row, v) \in TableCells
                   /\ CopyAddress(CellOf(row, v)) = GateAddress(row, v)
                   /\ GateAddress(row, v) \in Addresses
  <2>1. <<k, row>> \in enabled /\ row \in BlockRows
    BY DEF MarkedRows
  <2>2. row \in Int
    BY <2>1, ConstraintAssumption DEF CircuitKnown
  <2>3. Reaches(gates[k], row)
    BY <2>1 DEF CircuitKnown
  <2>4. \A v \in gates[k] : GateAddress(row, v) \in Addresses
    BY <2>1, <2>3 DEF Reaches
  <2> QED
    BY <1>1, <2>2, <2>4, GateCell
<1>3. ASSUME NEW i \in DOMAIN copies
      PROVE  /\ copies[i][1] \in CircuitCells /\ copies[i][2] \in CircuitCells
             /\ CopyAddress(copies[i][1]) \in Addresses /\ CopyAddress(copies[i][2]) \in Addresses
  <2>1. copies[i] \in CopyChoices
    BY ElementOfSeq, LenProperties DEF CircuitKnown
  <2>2. CopyMark(copies[i]) \subseteq Addresses
    BY DEF CircuitKnown
  <2> QED
    BY <2>1, <2>2, ConstraintAssumption DEF CopyMark
<1> QED
  BY <1>1, <1>2, <1>3

(* What is joined are the addresses of the constraints.                    *)
LEMMA JoinsAreConstraints ==
    ASSUME CircuitKnown
    PROVE  /\ Len(Joins) \in Nat
           /\ \A n \in 1..Len(Joins) : \E p \in Constraints : Joins[n] = AddressesOf(p)
           /\ \A p \in Constraints : \E n \in 1..Len(Joins) : Joins[n] = AddressesOf(p)
           /\ \A p \in Constraints :
                 p # {} /\ p \subseteq CircuitCells /\ AddressesOf(p) \subseteq Addresses
<1> DEFINE marks == UNION {Marks(k) : k \in DOMAIN gates}
           copied == [i \in DOMAIN copies |-> CopyMark(copies[i])]
<1>1. gates \in Seq(GateChoices) /\ copies \in Seq(CopyChoices)
  BY DEF CircuitKnown
<1>2. /\ Len(gates) \in Nat /\ DOMAIN gates = 1..Len(gates)
      /\ Len(copies) \in Nat /\ DOMAIN copies = 1..Len(copies)
  BY <1>1, LenProperties
<1>3. IsFiniteSet(marks)
  <2>1. \A k \in DOMAIN gates : IsFiniteSet(Marks(k))
    <3> TAKE k \in DOMAIN gates
    <3>1. IsFiniteSet(BlockRows)
      <4>1. Start \in Int /\ Start + RowsAmount - 1 \in Int
        BY BlockAssumption
      <4> QED
        BY <4>1, FS_Interval DEF BlockRows
    <3>2. IsFiniteSet(MarkedRows(k))
      BY <3>1, FS_Subset DEF MarkedRows
    <3> DEFINE f == [row \in MarkedRows(k) |-> {GateAddress(row, v) : v \in gates[k]}]
    <3>3. Marks(k) = {f[row] : row \in MarkedRows(k)}
      BY DEF Marks
    <3> HIDE DEF f
    <3> QED
      BY <3>2, <3>3, ImageIsNoLarger
  <2> DEFINE g == [k \in DOMAIN gates |-> Marks(k)]
             all == {g[k] : k \in DOMAIN gates}
  <2>2. {Marks(k) : k \in DOMAIN gates} = all /\ \A T \in all : IsFiniteSet(T)
    BY <2>1
  <2>3. IsFiniteSet(DOMAIN gates)
    BY <1>2, FS_Interval
  <2>4. IsFiniteSet(all)
    <3> HIDE DEF g
    <3> QED
      BY <2>3, ImageIsNoLarger
  <2> HIDE DEF all
  <2> QED
    BY <2>2, <2>4, FS_UNION
<1>4. PICK s : s = SetToSeq(marks)
  OBVIOUS
<1>5. /\ s \in Seq(marks) /\ Len(s) = Cardinality(marks)
      /\ \A x : x \in marks <=> \E i \in 1..Len(s) : s[i] = x
  <2> HIDE DEF marks
  <2> QED
    BY <1>3, <1>4, Listed
<1>6. PICK m \in Nat : m = Len(s)
  <2> HIDE DEF marks
  <2> QED
    BY <1>5, LenProperties
<1>7. PICK c \in Nat : c = Len(copies)
  BY <1>2
<1> DEFINE X == marks \cup {CopyMark(copies[i]) : i \in DOMAIN copies}
<1>8. s \in Seq(X) /\ copied \in Seq(X) /\ Len(copied) = c
      /\ \A i \in 1..c : copied[i] = CopyMark(copies[i])
  <2>1. s \in Seq(X)
    <3>1. \A i \in 1..Len(s) : s[i] \in X
      BY <1>5
    <3>2. s = [i \in 1..m |-> s[i]]
      BY <1>5, <1>6, LenProperties
    <3>3. s \in [1..m -> X]
      BY <1>6, <3>1, <3>2
    <3> HIDE DEF X
    <3> QED
      BY <3>3, SeqDef
  <2>2. copied \in [1..c -> X]
    BY <1>2, <1>7
  <2>3. copied \in Seq(X)
    <3> HIDE DEF X, copied
    <3> QED
      BY <2>2, SeqDef
  <2>4. Len(copied) = c
    <3> HIDE DEF X, copied
    <3> QED
      BY <2>2, <2>3, LenProperties
  <2> QED
    BY <1>2, <1>7, <2>1, <2>3, <2>4
<1>9. Joins = s \o copied
  BY <1>4 DEF Joins
<1> HIDE DEF X, marks, copied
<1>10. /\ Len(Joins) = m + c
       /\ \A n \in 1..(m + c) : Joins[n] = IF n <= m THEN s[n] ELSE copied[n - m]
  BY <1>6, <1>8, <1>9, ConcatProperties
<1>11. \A x : (\E n \in 1..(m + c) : Joins[n] = x)
                 <=> x \in marks \/ \E i \in 1..c : x = CopyMark(copies[i])
  <2> TAKE x
  <2>1. ASSUME NEW n \in 1..(m + c), Joins[n] = x
        PROVE  x \in marks \/ \E i \in 1..c : x = CopyMark(copies[i])
    <3>1. CASE n <= m
      BY <1>5, <1>6, <1>10, <2>1, <3>1
    <3>2. CASE ~(n <= m)
      <4>1. n - m \in 1..c
        BY <3>2
      <4> QED
        BY <1>8, <1>10, <2>1, <3>2, <4>1
    <3> QED
      BY <3>1, <3>2
  <2>2. ASSUME x \in marks PROVE \E n \in 1..(m + c) : Joins[n] = x
    <3>1. PICK i \in 1..m : s[i] = x
      BY <1>5, <1>6, <2>2
    <3>2. i \in 1..(m + c) /\ i <= m
      OBVIOUS
    <3> QED
      BY <1>10, <3>1, <3>2
  <2>3. ASSUME NEW i \in 1..c, x = CopyMark(copies[i]) PROVE \E n \in 1..(m + c) : Joins[n] = x
    <3>1. m + i \in 1..(m + c) /\ ~(m + i <= m) /\ (m + i) - m = i
      OBVIOUS
    <3> QED
      BY <1>8, <1>10, <2>3, <3>1
  <2> QED
    BY <2>1, <2>2, <2>3
<1>12. \A p : p \in Constraints <=>
           \/ \E k \in DOMAIN gates : \E row \in MarkedRows(k) : p = {CellOf(row, v) : v \in gates[k]}
           \/ \E i \in 1..c : p = {copies[i][1], copies[i][2]}
  <2>1. Range(copies) = {copies[i] : i \in 1..c}
    BY <1>2, <1>7 DEF Range
  <2>2. \A p : p \in UNION {Ties(k) : k \in DOMAIN gates} <=>
           \E k \in DOMAIN gates : \E row \in MarkedRows(k) : p = {CellOf(row, v) : v \in gates[k]}
    BY DEF Ties
  <2>3. {{pair[1], pair[2]} : pair \in Range(copies)} = {{copies[i][1], copies[i][2]} : i \in 1..c}
    BY <2>1
  <2>4. Constraints = (UNION {Ties(k) : k \in DOMAIN gates}) \cup {{copies[i][1], copies[i][2]} : i \in 1..c}
    BY <2>3 DEF Constraints
  <2> QED
    BY <2>2, <2>4
<1>13. \A x : x \in marks <=>
           \E k \in DOMAIN gates : \E row \in MarkedRows(k) : x = {GateAddress(row, v) : v \in gates[k]}
  BY DEF marks, Marks
<1>14. \A k \in DOMAIN gates : \A row \in MarkedRows(k) :
           AddressesOf({CellOf(row, v) : v \in gates[k]}) = {GateAddress(row, v) : v \in gates[k]}
  <2> TAKE k \in DOMAIN gates
  <2> TAKE row \in MarkedRows(k)
  <2>1. \A v \in gates[k] : CopyAddress(CellOf(row, v)) = GateAddress(row, v)
    BY ConstraintsKnown
  <2>2. AddressesOf({CellOf(row, v) : v \in gates[k]}) = {CopyAddress(CellOf(row, v)) : v \in gates[k]}
    BY DEF AddressesOf
  <2> QED
    BY <2>1, <2>2
<1>15. \A i : AddressesOf({copies[i][1], copies[i][2]}) = CopyMark(copies[i])
  BY DEF AddressesOf, CopyMark
<1>16. ASSUME NEW p \in Constraints
       PROVE  p # {} /\ p \subseteq CircuitCells /\ AddressesOf(p) \subseteq Addresses
  <2>1. CASE \E k \in DOMAIN gates : \E row \in MarkedRows(k) : p = {CellOf(row, v) : v \in gates[k]}
    <3>a. PICK k \in DOMAIN gates : \E row \in MarkedRows(k) : p = {CellOf(row, v) : v \in gates[k]}
      BY <2>1
    <3>1. PICK row \in MarkedRows(k) : p = {CellOf(row, v) : v \in gates[k]}
      BY <3>a
    <3>2. p # {} /\ p \subseteq TableCells
      BY <3>1, ConstraintsKnown
    <3>3. AddressesOf(p) \subseteq Addresses
      BY <1>14, <3>1, ConstraintsKnown
    <3> QED
      BY <3>2, <3>3 DEF CircuitCells
  <2>2. CASE \E i \in 1..c : p = {copies[i][1], copies[i][2]}
    <3>1. PICK i \in DOMAIN copies : p = {copies[i][1], copies[i][2]}
      BY <1>2, <1>7, <2>2
    <3> QED
      BY <3>1, ConstraintsKnown DEF AddressesOf
  <2> QED
    BY <1>12, <2>1, <2>2
<1>17. ASSUME NEW n \in 1..Len(Joins) PROVE \E p \in Constraints : Joins[n] = AddressesOf(p)
  <2>1. Joins[n] \in marks \/ \E i \in 1..c : Joins[n] = CopyMark(copies[i])
    BY <1>10, <1>11
  <2>2. CASE Joins[n] \in marks
    <3>1. PICK k \in DOMAIN gates :
             \E row \in MarkedRows(k) : Joins[n] = {GateAddress(row, v) : v \in gates[k]}
      BY <1>13, <2>2
    <3>2. PICK row \in MarkedRows(k) : Joins[n] = {GateAddress(row, v) : v \in gates[k]}
      BY <3>1
    <3>3. PICK p : p = {CellOf(row, v) : v \in gates[k]}
      OBVIOUS
    <3>4. p \in Constraints
      BY <1>12, <3>3
    <3>5. Joins[n] = AddressesOf(p)
      BY <1>14, <3>2, <3>3
    <3> QED
      BY <3>4, <3>5
  <2>3. CASE \E i \in 1..c : Joins[n] = CopyMark(copies[i])
    <3>1. PICK i \in 1..c : Joins[n] = CopyMark(copies[i])
      BY <2>3
    <3>2. {copies[i][1], copies[i][2]} \in Constraints
      BY <1>12
    <3> QED
      BY <1>15, <3>1, <3>2
  <2> QED
    BY <2>1, <2>2, <2>3
<1>18. ASSUME NEW p \in Constraints PROVE \E n \in 1..Len(Joins) : Joins[n] = AddressesOf(p)
  <2>1. AddressesOf(p) \in marks \/ \E i \in 1..c : AddressesOf(p) = CopyMark(copies[i])
    <3>1. CASE \E k \in DOMAIN gates : \E row \in MarkedRows(k) : p = {CellOf(row, v) : v \in gates[k]}
      <4>1. \E k \in DOMAIN gates : \E row \in MarkedRows(k) :
               AddressesOf(p) = {GateAddress(row, v) : v \in gates[k]}
        BY <1>14, <3>1
      <4> QED
        BY <1>13, <4>1
    <3>2. CASE \E i \in 1..c : p = {copies[i][1], copies[i][2]}
      BY <1>15, <3>2
    <3> QED
      BY <1>12, <3>1, <3>2
  <2> QED
    BY <1>10, <1>11, <2>1
<1>19. Len(Joins) \in Nat
  BY <1>10
<1> QED
  BY <1>16, <1>17, <1>18, <1>19

-----------------------------------------------------------------------------
(* Zones and what is tied                                                  *)

Zone(c) == FindSet(Zones, CopyAddress(c))

(* Zones leave every constraint whole, and are no larger than that makes   *)
(* them.                                                                   *)
LEMMA ZonesMeanConstraints ==
    ASSUME CircuitKnown
    PROVE  /\ Partition(Zones, Addresses)
           /\ \A p \in Constraints, z \in Zones : Whole(AddressesOf(p), z)
           /\ \A S : (\A p \in Constraints : Whole(AddressesOf(p), S)) => \A z \in Zones : Whole(z, S)
<1>1. /\ Len(Joins) \in Nat
      /\ \A n \in 1..Len(Joins) : \E p \in Constraints : Joins[n] = AddressesOf(p)
      /\ \A p \in Constraints : \E n \in 1..Len(Joins) : Joins[n] = AddressesOf(p)
      /\ \A p \in Constraints :
            p # {} /\ p \subseteq CircuitCells /\ AddressesOf(p) \subseteq Addresses
  BY JoinsAreConstraints
<1>2. \A p \in Constraints : AddressesOf(p) # {}
  BY <1>1 DEF AddressesOf
<1>3. \A n \in 1..Len(Joins) : Joins[n] \in SUBSET Addresses /\ Joins[n] # {}
  BY <1>1, <1>2
<1>4. Zones = ZonesAfter(Joins)[Len(Joins)]
  BY DEF Zones
<1>5. /\ Partition(Zones, Addresses)
      /\ \A n \in 1..Len(Joins), p \in Zones : Whole(Joins[n], p)
      /\ \A S : (\A n \in 1..Len(Joins) : Whole(Joins[n], S)) => \A p \in Zones : Whole(p, S)
  BY <1>1, <1>3, <1>4, ZonesAreFinest
<1> QED
  BY <1>1, <1>5

LEMMA NamedKnown ==
    ASSUME CircuitKnown
    PROVE  /\ \A c \in Named : c \in CircuitCells /\ CopyAddress(c) \in Addresses
           /\ io[1][1] \in Inputs /\ Inputs \subseteq Named /\ Outputs \subseteq Named
           /\ UNION Constraints \subseteq Named
<1>1. io \in IOChoices
  BY DEF CircuitKnown
<1>2. /\ io[1] \in Seq(CircuitCells) /\ io[2] \in Seq(CircuitCells) /\ io[1] # <<>>
      /\ \A c \in Inputs \cup Outputs : CopyAddress(c) \in Addresses
  BY <1>1, IOAssumption DEF Inputs, Outputs, Addresses
<1>3. Inputs \subseteq CircuitCells /\ Outputs \subseteq CircuitCells
  <2>1. /\ \A i \in DOMAIN io[1] : io[1][i] \in CircuitCells
        /\ \A i \in DOMAIN io[2] : io[2][i] \in CircuitCells
    BY <1>2, ElementOfSeq, LenProperties
  <2> QED
    BY <2>1 DEF Inputs, Outputs, Range
<1>4. io[1][1] \in Inputs
  <2>1. 1 \in DOMAIN io[1]
    <3>1. Len(io[1]) \in Nat /\ DOMAIN io[1] = 1..Len(io[1]) /\ Len(io[1]) # 0
      BY <1>2, LenProperties, EmptySeq
    <3> QED
      BY <3>1
  <2> QED
    BY <2>1 DEF Inputs, Range
<1>5. \A p \in Constraints : p \subseteq CircuitCells /\ AddressesOf(p) \subseteq Addresses
  BY JoinsAreConstraints
<1>6. \A p \in Constraints : \A c \in p : c \in CircuitCells /\ CopyAddress(c) \in Addresses
  BY <1>5 DEF AddressesOf
<1> QED
  BY <1>2, <1>3, <1>4, <1>6 DEF Named

LEMMA ZoneOf ==
    ASSUME CircuitKnown, NEW c \in Named
    PROVE  /\ Zone(c) \in Zones /\ CopyAddress(c) \in Zone(c)
           /\ \A z \in Zones : CopyAddress(c) \in z => z = Zone(c)
<1>1. Partition(Zones, Addresses) /\ CopyAddress(c) \in Addresses
  BY ZonesMeanConstraints, NamedKnown
<1>2. \E z \in Zones : CopyAddress(c) \in z
  BY <1>1 DEF Partition
<1>3. Zone(c) \in Zones /\ CopyAddress(c) \in Zone(c)
  BY <1>2 DEF Zone, FindSet
<1>4. \A z \in Zones : CopyAddress(c) \in z => z = Zone(c)
  BY <1>1, <1>3 DEF Partition
<1> QED
  BY <1>3, <1>4

LEMMA IslandOf ==
    ASSUME NEW c \in Named
    PROVE  Islands[c] = {c} \cup
               {d \in UNION Constraints :
                   /\ c \in UNION Constraints
                   /\ \A cells \in {UNION Q : Q \in SUBSET Constraints} :
                         Closed(cells) /\ c \in cells => d \in cells}
  BY DEF Islands

(* Cells that are tied have one zone.                                      *)
LEMMA TiedShareTheirZone ==
    ASSUME CircuitKnown, NEW c \in Named, NEW d \in Islands[c]
    PROVE  d \in Named /\ Zone(d) = Zone(c)
<1>1. CASE d = c
  BY <1>1
<1>2. CASE d # c
  <2>1. d \in UNION Constraints /\ c \in UNION Constraints
    BY <1>2, IslandOf
  <2> DEFINE S == {e \in UNION Constraints : CopyAddress(e) \in Zone(c)}
             Q == {p \in Constraints : p \cap S # {}}
  <2>2. \A p \in Constraints : p \cap S = {} \/ p \subseteq S
    <3> SUFFICES ASSUME NEW p \in Constraints, NEW e \in p, e \in S PROVE p \subseteq S
      OBVIOUS
    <3>1. Whole(AddressesOf(p), Zone(c))
      BY ZonesMeanConstraints, ZoneOf
    <3>2. CopyAddress(e) \in AddressesOf(p) \cap Zone(c)
      BY DEF AddressesOf
    <3>3. AddressesOf(p) \subseteq Zone(c)
      BY <3>1, <3>2 DEF Whole
    <3> QED
      BY <3>3 DEF AddressesOf
  <2>3. S = UNION Q /\ Q \in SUBSET Constraints
    BY <2>2
  <2>4. Closed(S) /\ c \in S
    BY <2>1, <2>2, ZoneOf DEF Closed
  <2>5. d \in S
    <3> HIDE DEF S, Q
    <3> QED
      BY <1>2, <2>3, <2>4, IslandOf
  <2>6. d \in Named /\ CopyAddress(d) \in Zone(c) /\ Zone(c) \in Zones
    BY <2>5, NamedKnown, ZoneOf
  <2> QED
    BY <2>6, ZoneOf
<1> QED
  BY <1>1, <1>2

(* A zone is no more than what is tied if no two cells share an address.   *)
LEMMA ZonesAreTied ==
    ASSUME CircuitKnown, \A c, d \in Named : CopyAddress(c) = CopyAddress(d) => c = d,
           NEW c \in Named, NEW d \in Named, Zone(c) = Zone(d)
    PROVE  d \in Islands[c]
<1> DEFINE T == AddressesOf(Islands[c])
<1>1. Islands[c] \subseteq Named /\ c \in Islands[c]
  BY IslandOf, NamedKnown
<1>2. ASSUME NEW p \in Constraints PROVE Whole(AddressesOf(p), T)
  <2> SUFFICES ASSUME NEW a \in AddressesOf(p), a \in T PROVE AddressesOf(p) \subseteq T
    BY DEF Whole
  <2>1. PICK e \in p : CopyAddress(e) = a
    BY DEF AddressesOf
  <2>2. PICK f \in Islands[c] : CopyAddress(f) = a
    BY DEF AddressesOf
  <2>3. e \in Named /\ e = f
    BY <1>1, <2>1, <2>2, NamedKnown
  <2>4. p \subseteq UNION Constraints /\ e \in UNION Constraints
    BY <2>1
  <2>5. c \in UNION Constraints
    BY <2>2, <2>3, <2>4, IslandOf
  <2>6. \A cells \in {UNION Q : Q \in SUBSET Constraints} :
            Closed(cells) /\ c \in cells => p \subseteq cells
    <3> SUFFICES ASSUME NEW cells \in {UNION Q : Q \in SUBSET Constraints}, Closed(cells), c \in cells
                 PROVE  p \subseteq cells
      OBVIOUS
    <3>1. e \in cells
      BY <2>2, <2>3, IslandOf
    <3> QED
      BY <2>1, <3>1 DEF Closed
  <2>7. p \subseteq Islands[c]
    BY <2>4, <2>5, <2>6, IslandOf
  <2> QED
    BY <2>7 DEF AddressesOf
<1>3. Whole(Zone(c), T)
  <2> HIDE DEF T
  <2> QED
    BY <1>2, ZonesMeanConstraints, ZoneOf
<1>4. CopyAddress(c) \in Zone(c) /\ CopyAddress(d) \in Zone(c)
  BY ZoneOf
<1>5. CopyAddress(c) \in T
  BY <1>1 DEF AddressesOf
<1>6. CopyAddress(d) \in T
  BY <1>3, <1>4, <1>5 DEF Whole
<1>7. PICK e \in Islands[c] : CopyAddress(e) = CopyAddress(d)
  BY <1>6 DEF AddressesOf
<1> QED
  BY <1>1, <1>7

-----------------------------------------------------------------------------
(* The addresses of cells in the block, of which no two are constants of   *)
(* one row, are all different.                                             *)

LEMMA SameRow ==
    ASSUME NEW d \in Nat \ {0}, NEW p \in Int, NEW q \in Int,
           NEW x \in 0..(d - 1), NEW y \in 0..(d - 1), p * d + x = q * d + y
    PROVE  p = q /\ x = y
<1>1. PICK z \in Int : z = d * p + x
  OBVIOUS
<1>2. z = d * q + y
  BY <1>1
<1>3. z % d = x /\ z % d = y
  BY <1>1, <1>2, RemainderIsUnique
<1>4. PICK u \in Int : u = d * p /\ u = d * q
  <2>1. PICK u \in Int, w \in Int : u = d * p /\ w = d * q
    OBVIOUS
  <2> QED
    BY <1>1, <1>2, <1>3, <2>1
<1>5. PICK e \in Int : e = p - q
  OBVIOUS
<1>6. d * e = 0
  <2>1. d * (p - q) = d * p - d * q
    OBVIOUS
  <2> QED
    BY <1>4, <1>5, <2>1
<1>7. e = 0
  BY <1>6
<1> QED
  BY <1>3, <1>5, <1>7

LEMMA AddressesApart ==
    ASSUME CircuitKnown, CellsApart, NEW c \in Named, NEW d \in Named,
           CopyAddress(c) = CopyAddress(d)
    PROVE  c = d
<1>1. c \in CircuitCells /\ d \in CircuitCells
  BY NamedKnown
<1>2. WitnessColumns \in Nat /\ ConstantColumns \in Nat /\ Start \in Nat /\ RowsAmount \in Nat
  BY BlockAssumption
<1>3. PICK size \in Nat : size = RowSize /\ size = WitnessColumns + ConstantColumns
  BY <1>2 DEF RowSize
<1> DEFINE Placed(e) ==
              /\ e[1] # "public" /\ e[3] - Start \in 0..(RowsAmount - 1)
              /\ WithinRow(e[1], e[2]) \in 0..(size - 1)
              /\ CopyAddress(e) = (e[3] - Start) * size + WithinRow(e[1], e[2])
           InTail(e) == e[1] = "public" /\ e[3] \in Nat /\ CopyAddress(e) = size * RowsAmount + e[3]
<1>4. ASSUME NEW e \in CircuitCells, e[1] # "public", e[3] \in BlockRows PROVE Placed(e)
  <2>1. /\ e[1] \in {"witness", "constant"} /\ e[2] \in Nat /\ e[3] \in Int
        /\ e[1] = "witness" => e[2] \in 0..(WitnessColumns - 1)
        /\ e[1] = "constant" => e[2] \in 0..(ConstantColumns - 1)
    BY <1>2, <1>4 DEF CircuitCells, TableCells
  <2>2. WithinRow(e[1], e[2]) = IF e[1] = "witness" THEN e[2] ELSE size - 1
    BY <1>3 DEF WithinRow
  <2>3. WithinRow(e[1], e[2]) \in 0..(size - 1)
    BY <1>2, <1>3, <2>1, <2>2
  <2>4. e[3] - Start \in 0..(RowsAmount - 1)
    BY <1>2, <1>4, <2>1 DEF BlockRows
  <2>5. CopyAddress(e) = (e[3] - Start) * size + WithinRow(e[1], e[2])
    BY <1>3, <1>4 DEF CopyAddress
  <2> QED
    BY <1>4, <2>3, <2>4, <2>5
<1>5. ASSUME NEW e \in CircuitCells, e[1] = "public" PROVE InTail(e)
  <2>1. e[3] \in Nat
    BY <1>5 DEF CircuitCells, TableCells
  <2>2. CopyAddress(e) = size * RowsAmount + e[3]
    BY <1>3, <1>5 DEF CopyAddress
  <2> QED
    BY <1>5, <2>1, <2>2
<1>6. ASSUME NEW e \in Named PROVE Placed(e) \/ InTail(e)
  <2>1. e \in CircuitCells
    BY NamedKnown
  <2>2. CASE e[1] = "public"
    BY <1>5, <2>1, <2>2
  <2>3. CASE e[1] # "public"
    <3>1. e[3] \in BlockRows
      BY <2>3 DEF CellsApart
    <3> QED
      BY <1>4, <2>1, <2>3, <3>1
  <2> QED
    BY <2>2, <2>3
<1>7. ASSUME NEW e, Placed(e)
      PROVE  /\ CopyAddress(e) \in Int /\ CopyAddress(e) < size * RowsAmount
             /\ size \in Nat \ {0}
  <2>1. PICK r \in Nat, x \in Nat : r = e[3] - Start /\ x = WithinRow(e[1], e[2]) /\ x < size /\ r < RowsAmount
    BY <1>2, <1>7
  <2>2. size \in Nat \ {0}
    BY <2>1
  <2>3. r * size + size <= RowsAmount * size
    <3>1. r \in Int /\ RowsAmount \in Int /\ r < RowsAmount
      BY <1>2, <2>1
    <3>2. PICK k \in Nat : RowsAmount = r + 1 + k
      <4>1. RowsAmount - r - 1 \in Nat /\ RowsAmount = r + 1 + (RowsAmount - r - 1)
        BY <3>1
      <4> QED
        BY <4>1
    <3>3. (r + 1 + k) * size = r * size + size + k * size
      OBVIOUS
    <3>4. k * size >= 0
      OBVIOUS
    <3>5. PICK y \in Int, z \in Int : y = r * size /\ z = k * size
      OBVIOUS
    <3> QED
      BY <3>2, <3>3, <3>4, <3>5
  <2>4. PICK y \in Int, z \in Int : y = r * size /\ z = RowsAmount * size
    BY <1>2
  <2>5. CopyAddress(e) = y + x /\ size * RowsAmount = z
    BY <1>2, <1>7, <2>1, <2>4
  <2> QED
    BY <2>1, <2>2, <2>3, <2>4, <2>5
<1>8. CASE Placed(c) /\ Placed(d)
  <2>1. PICK p \in Int, q \in Int, x \in 0..(size - 1), y \in 0..(size - 1) :
           /\ p = c[3] - Start /\ q = d[3] - Start
           /\ x = WithinRow(c[1], c[2]) /\ y = WithinRow(d[1], d[2])
    BY <1>8
  <2>2. p * size + x = q * size + y
    BY <1>8, <2>1
  <2>3. p = q /\ x = y
    <3>1. PICK n \in Nat \ {0} : n = size
      BY <1>7, <1>8
    <3>2. x \in 0..(n - 1) /\ y \in 0..(n - 1) /\ p * n + x = q * n + y
      BY <2>2, <3>1
    <3> QED
      BY <3>2, SameRow
  <2>4. /\ c[1] \in {"witness", "constant"} /\ c[2] \in Nat /\ c[3] \in Int /\ c = <<c[1], c[2], c[3]>>
        /\ c[1] = "witness" => c[2] \in 0..(WitnessColumns - 1)
        /\ c[1] = "constant" => c[2] \in 0..(ConstantColumns - 1)
    BY <1>1, <1>2, <1>8 DEF CircuitCells, TableCells
  <2>5. /\ d[1] \in {"witness", "constant"} /\ d[2] \in Nat /\ d[3] \in Int /\ d = <<d[1], d[2], d[3]>>
        /\ d[1] = "witness" => d[2] \in 0..(WitnessColumns - 1)
        /\ d[1] = "constant" => d[2] \in 0..(ConstantColumns - 1)
    BY <1>1, <1>2, <1>8 DEF CircuitCells, TableCells
  <2>6. c[3] = d[3]
    BY <1>2, <2>1, <2>3, <2>4, <2>5
  <2>7. /\ x = IF c[1] = "witness" THEN c[2] ELSE size - 1
        /\ y = IF d[1] = "witness" THEN d[2] ELSE size - 1
    BY <1>3, <2>1 DEF WithinRow
  <2>8. CASE c[1] = "witness" /\ d[1] = "witness"
    BY <2>3, <2>4, <2>5, <2>6, <2>7, <2>8
  <2>9. CASE c[1] = "constant" /\ d[1] = "constant"
    BY <1>8, <2>6, <2>9 DEF CellsApart
  <2>10. c[1] = d[1]
    <3>1. c[1] = "witness" /\ d[1] = "constant" => x < size - 1 /\ y = size - 1
      BY <1>2, <1>3, <2>4, <2>5, <2>7
    <3>2. d[1] = "witness" /\ c[1] = "constant" => y < size - 1 /\ x = size - 1
      BY <1>2, <1>3, <2>4, <2>5, <2>7
    <3> QED
      BY <2>3, <2>4, <2>5, <3>1, <3>2
  <2> QED
    BY <2>4, <2>8, <2>9, <2>10
<1>9. CASE InTail(c) /\ InTail(d)
  <2>1. c[3] = d[3]
    <3>1. PICK z \in Int : z = size * RowsAmount
      BY <1>2
    <3>2. CopyAddress(c) = z + c[3] /\ CopyAddress(d) = z + d[3] /\ c[3] \in Nat /\ d[3] \in Nat
      BY <1>9, <3>1
    <3>3. z + c[3] = z + d[3]
      BY <3>2
    <3> HIDE <1>9
    <3> QED
      BY <3>2, <3>3
  <2>2. c = <<"public", 0, c[3]>> /\ d = <<"public", 0, d[3]>>
    BY <1>1, <1>9 DEF CircuitCells, TableCells
  <2> QED
    BY <2>1, <2>2
<1>10. ASSUME NEW e, Placed(e), NEW f, InTail(f) PROVE CopyAddress(e) < CopyAddress(f)
  <2>1. CopyAddress(e) \in Int /\ CopyAddress(e) < size * RowsAmount
    BY <1>7, <1>10
  <2>2. PICK z \in Int : z = size * RowsAmount
    BY <1>2
  <2> QED
    BY <1>10, <2>1, <2>2
<1>11. CopyAddress(c) \in Int /\ CopyAddress(d) \in Int
  <2>1. Addresses \subseteq Int
    BY DEF Addresses
  <2> QED
    BY <2>1, NamedKnown
<1> HIDE DEF Placed, InTail
<1>12. (Placed(c) /\ Placed(d)) \/ (InTail(c) /\ InTail(d))
  <2>1. ~(Placed(c) /\ InTail(d))
    <3> SUFFICES ASSUME Placed(c), InTail(d) PROVE FALSE
      OBVIOUS
    <3>1. CopyAddress(c) < CopyAddress(d)
      BY <1>10
    <3> QED
      BY <1>11, <3>1
  <2>2. ~(Placed(d) /\ InTail(c))
    <3> SUFFICES ASSUME Placed(d), InTail(c) PROVE FALSE
      OBVIOUS
    <3>1. CopyAddress(d) < CopyAddress(c)
      BY <1>10
    <3> QED
      BY <1>11, <3>1
  <2> QED
    BY <1>6, <2>1, <2>2
<1> QED
  BY <1>8, <1>9, <1>12

-----------------------------------------------------------------------------
(* The answers                                                             *)

Tied == \A c, d \in Named : Zone(c) = Zone(d) => d \in Islands[c]

LEMMA ZonesOfCells ==
    ASSUME NEW cells
    PROVE  ZonesOf(Zones, cells) = {Zone(c) : c \in cells}
  BY DEF ZonesOf, Zone

LEMMA InConstraint ==
    ASSUME CircuitKnown
    PROVE  /\ \A k \in DOMAIN gates : \A row \in MarkedRows(k), v \in gates[k] :
                 /\ CellOf(row, v) \in Named
                 /\ FindSet(Zones, GateAddress(row, v)) = Zone(CellOf(row, v))
           /\ \A i \in DOMAIN copies : copies[i][1] \in Named /\ copies[i][2] \in Named
           /\ \A c \in Named :
                 \/ c \in Inputs \cup Outputs
                 \/ \E k \in DOMAIN gates : \E row \in MarkedRows(k), v \in gates[k] : c = CellOf(row, v)
                 \/ \E i \in DOMAIN copies : c \in {copies[i][1], copies[i][2]}
<1>1. \A p : p \in Constraints <=>
           \/ \E k \in DOMAIN gates : \E row \in MarkedRows(k) : p = {CellOf(row, v) : v \in gates[k]}
           \/ \E i \in DOMAIN copies : p = {copies[i][1], copies[i][2]}
  <2>1. \A p : p \in UNION {Ties(k) : k \in DOMAIN gates} <=>
           \E k \in DOMAIN gates : \E row \in MarkedRows(k) : p = {CellOf(row, v) : v \in gates[k]}
    BY DEF Ties
  <2>2. {{pair[1], pair[2]} : pair \in Range(copies)} =
           {{copies[i][1], copies[i][2]} : i \in DOMAIN copies}
    BY DEF Range
  <2> QED
    BY <2>1, <2>2 DEF Constraints
<1>2. UNION Constraints \subseteq Named
  BY NamedKnown
<1>3. ASSUME NEW k \in DOMAIN gates, NEW row \in MarkedRows(k), NEW v \in gates[k]
      PROVE  /\ CellOf(row, v) \in Named
             /\ FindSet(Zones, GateAddress(row, v)) = Zone(CellOf(row, v))
  <2>1. PICK p : p = {CellOf(row, w) : w \in gates[k]}
    OBVIOUS
  <2>2. p \in Constraints
    BY <1>1, <2>1
  <2>3. CellOf(row, v) \in p
    BY <2>1
  <2>4. CopyAddress(CellOf(row, v)) = GateAddress(row, v)
    BY ConstraintsKnown
  <2> QED
    BY <1>2, <2>2, <2>3, <2>4 DEF Zone
<1>4. \A i \in DOMAIN copies : copies[i][1] \in Named /\ copies[i][2] \in Named
  <2> TAKE i \in DOMAIN copies
  <2>1. {copies[i][1], copies[i][2]} \in Constraints
    BY <1>1
  <2> QED
    BY <1>2, <2>1
<1>5. ASSUME NEW c \in Named, c \notin Inputs \cup Outputs
      PROVE  \/ \E k \in DOMAIN gates : \E row \in MarkedRows(k), v \in gates[k] : c = CellOf(row, v)
             \/ \E i \in DOMAIN copies : c \in {copies[i][1], copies[i][2]}
  <2>1. PICK p \in Constraints : c \in p
    BY <1>5 DEF Named
  <2>2. CASE \E k \in DOMAIN gates : \E row \in MarkedRows(k) : p = {CellOf(row, v) : v \in gates[k]}
    BY <2>1, <2>2
  <2>3. CASE \E i \in DOMAIN copies : p = {copies[i][1], copies[i][2]}
    BY <2>1, <2>3
  <2> QED
    BY <1>1, <2>2, <2>3
<1> QED
  BY <1>3, <1>4, <1>5

(* The islands are looked for in the zones of the inputs and outputs.      *)
LEMMA IslandsAnswer ==
    ASSUME CircuitKnown
    PROVE  NoIslands(Zones) <=>
               \A c \in Named : \E d \in Inputs \cup Outputs : Zone(c) = Zone(d)
<1>1. ZonesOf(Zones, Inputs \cup Outputs) = {Zone(d) : d \in Inputs \cup Outputs}
  BY ZonesOfCells
<1>2. NoIslands(Zones) <=>
         /\ \A k \in DOMAIN gates : \A row \in MarkedRows(k), v \in gates[k] :
               FindSet(Zones, GateAddress(row, v)) \in {Zone(d) : d \in Inputs \cup Outputs}
         /\ \A i \in DOMAIN copies :
               \A c \in {copies[i][1], copies[i][2]} : Zone(c) \in {Zone(d) : d \in Inputs \cup Outputs}
  <2>1. \A i : ZonesOf(Zones, {copies[i][1], copies[i][2]}) = {Zone(c) : c \in {copies[i][1], copies[i][2]}}
    BY ZonesOfCells
  <2>2. \A i : (ZonesOf(Zones, {copies[i][1], copies[i][2]}) \subseteq {Zone(d) : d \in Inputs \cup Outputs})
           <=> \A c \in {copies[i][1], copies[i][2]} : Zone(c) \in {Zone(d) : d \in Inputs \cup Outputs}
    BY <2>1
  <2> QED
    BY <1>1, <2>2 DEF NoIslands
<1>3. ASSUME \A c \in Named : \E d \in Inputs \cup Outputs : Zone(c) = Zone(d)
      PROVE  NoIslands(Zones)
  <2>1. \A k \in DOMAIN gates : \A row \in MarkedRows(k), v \in gates[k] :
               FindSet(Zones, GateAddress(row, v)) \in {Zone(d) : d \in Inputs \cup Outputs}
    BY <1>3, InConstraint
  <2>2. \A i \in DOMAIN copies :
            \A c \in {copies[i][1], copies[i][2]} : Zone(c) \in {Zone(d) : d \in Inputs \cup Outputs}
    BY <1>3, InConstraint
  <2> QED
    BY <1>2, <2>1, <2>2
<1>4. ASSUME NoIslands(Zones), NEW c \in Named
      PROVE  \E d \in Inputs \cup Outputs : Zone(c) = Zone(d)
  <2>1. CASE c \in Inputs \cup Outputs
    BY <2>1
  <2>2. CASE \E k \in DOMAIN gates : \E row \in MarkedRows(k), v \in gates[k] : c = CellOf(row, v)
    <3>1. PICK k \in DOMAIN gates : \E row \in MarkedRows(k), v \in gates[k] : c = CellOf(row, v)
      BY <2>2
    <3>2. PICK row \in MarkedRows(k), v \in gates[k] : c = CellOf(row, v)
      BY <3>1
    <3>3. FindSet(Zones, GateAddress(row, v)) \in {Zone(d) : d \in Inputs \cup Outputs}
      BY <1>2, <1>4
    <3>4. FindSet(Zones, GateAddress(row, v)) = Zone(c)
      BY <3>2, InConstraint
    <3> QED
      BY <3>3, <3>4
  <2>3. CASE \E i \in DOMAIN copies : c \in {copies[i][1], copies[i][2]}
    BY <1>2, <1>4, <2>3
  <2> QED
    BY <2>1, <2>2, <2>3, InConstraint
<1> QED
  BY <1>3, <1>4

(* What is connected is never called disconnected, and what is not is      *)
(* found out if zones are no more than what is tied.                       *)
LEMMA AnswerIsRight ==
    ASSUME CircuitKnown, NEW type \in {"none", "weak", "strong"}, NEW islands \in BOOLEAN
    PROVE  /\ Connected(Islands, type, islands) => CheckConnectedness(Zones, type, islands)
           /\ Tied /\ CheckConnectedness(Zones, type, islands) => Connected(Islands, type, islands)
<1>1. /\ \A c \in Named : c \in Islands[c]
      /\ \A c \in Named : \A d \in Islands[c] : d \in Named /\ Zone(d) = Zone(c)
  BY IslandOf, TiedShareTheirZone
<1>2. io[1][1] \in Inputs /\ Inputs \subseteq Named /\ Outputs \subseteq Named
  BY NamedKnown
<1>3. Strong(Zones) <=> \A c \in Inputs \cup Outputs : Zone(c) = Zone(io[1][1])
  <2>1. /\ ZonesOf(Zones, Inputs \cup Outputs) = {Zone(c) : c \in Inputs \cup Outputs}
        /\ ZonesOf(Zones, {io[1][1]}) = {Zone(io[1][1])}
    BY ZonesOfCells
  <2> QED
    BY <1>2, <2>1 DEF Strong
<1>4. Weak(Zones) <=> /\ \A c \in Outputs : \E d \in Inputs : Zone(c) = Zone(d)
                      /\ \A c \in Inputs : \E d \in Outputs : Zone(c) = Zone(d)
  <2>1. /\ ZonesOf(Zones, Inputs) = {Zone(c) : c \in Inputs}
        /\ ZonesOf(Zones, Outputs) = {Zone(c) : c \in Outputs}
    BY ZonesOfCells
  <2> QED
    BY <2>1 DEF Weak
<1>5. CheckConnectedness(Zones, type, islands) <=>
         \/ type = "none"
         \/ /\ type = "weak" => Weak(Zones)
            /\ type = "strong" => Strong(Zones)
            /\ islands => NoIslands(Zones)
  BY DEF CheckConnectedness
<1>6. ASSUME Connected(Islands, type, islands) PROVE CheckConnectedness(Zones, type, islands)
  <2>1. type = "strong" => Strong(Zones)
    BY <1>1, <1>2, <1>3, <1>6 DEF Connected
  <2>2. type = "weak" => Weak(Zones)
    <3> SUFFICES ASSUME type = "weak" PROVE Weak(Zones)
      OBVIOUS
    <3>1. \A c \in Outputs : \E d \in Inputs : Zone(c) = Zone(d)
      BY <1>1, <1>2, <1>6 DEF Connected
    <3>2. \A c \in Inputs : \E d \in Outputs : Zone(c) = Zone(d)
      BY <1>1, <1>2, <1>6 DEF Connected
    <3> QED
      BY <1>4, <3>1, <3>2
  <2>3. type # "none" /\ islands => NoIslands(Zones)
    <3> SUFFICES ASSUME type # "none", islands PROVE NoIslands(Zones)
      OBVIOUS
    <3>1. \A c \in Named : \E d \in Inputs \cup Outputs : Zone(c) = Zone(d)
      BY <1>1, <1>2, <1>6 DEF Connected
    <3> QED
      BY <3>1, IslandsAnswer
  <2> QED
    BY <1>5, <2>1, <2>2, <2>3
<1>7. ASSUME Tied, CheckConnectedness(Zones, type, islands)
      PROVE  Connected(Islands, type, islands)
  <2>1. type = "strong" => Inputs \cup Outputs \subseteq Islands[io[1][1]]
    BY <1>2, <1>3, <1>5, <1>7 DEF Tied
  <2>2. type = "weak" => /\ \A c \in Inputs : Islands[c] \cap Outputs # {}
                         /\ \A c \in Outputs : Islands[c] \cap Inputs # {}
    BY <1>2, <1>4, <1>5, <1>7 DEF Tied
  <2>3. type # "none" /\ islands => \A c \in Named : Islands[c] \cap (Inputs \cup Outputs) # {}
    <3> SUFFICES ASSUME type # "none", islands, NEW c \in Named
                 PROVE  Islands[c] \cap (Inputs \cup Outputs) # {}
      OBVIOUS
    <3>1. PICK d \in Inputs \cup Outputs : Zone(c) = Zone(d)
      BY <1>5, <1>7, IslandsAnswer
    <3> QED
      BY <1>2, <1>7, <3>1 DEF Tied
  <2> QED
    BY <2>1, <2>2, <2>3 DEF Connected
<1> QED
  BY <1>6, <1>7

AnswersKnown ==
    answers = <<>> \/
    answers = [asked \in Asked |-> CheckConnectedness(Zones, asked.type, asked.islands)]

ConnectednessInv == CircuitKnown /\ AnswersKnown

LEMMA ConnectednessInitially == ConnectednessInit => ConnectednessInv
<1> SUFFICES ASSUME ConnectednessInit PROVE ConnectednessInv
  OBVIOUS
<1>1. gates = <<>> /\ enabled = {} /\ copies = <<>> /\ io \in IOChoices /\ answers = <<>>
  BY DEF ConnectednessInit
<1>2. gates \in Seq(GateChoices) /\ copies \in Seq(CopyChoices) /\ DOMAIN copies = {}
  BY <1>1, EmptySeq
<1> QED
  BY <1>1, <1>2 DEF ConnectednessInv, CircuitKnown, AnswersKnown

LEMMA SameCircuit ==
    ASSUME CircuitKnown, gates' = gates, enabled' = enabled, copies' = copies, io' = io
    PROVE  /\ CircuitKnown'
           /\ [asked \in Asked |-> CheckConnectedness(Zones, asked.type, asked.islands)]' =
                  [asked \in Asked |-> CheckConnectedness(Zones, asked.type, asked.islands)]
<1>1. CircuitKnown'
  BY DEF CircuitKnown, Reaches, Addresses
<1>2. Joins' = Joins
  BY DEF Joins, Marks, MarkedRows
<1>3. Addresses' = Addresses
  BY DEF Addresses
<1>4. Zones' = Zones
  BY <1>2, <1>3 DEF Zones, ZonesAfter
<1>5. Inputs' = Inputs /\ Outputs' = Outputs /\ io' = io
  BY DEF Inputs, Outputs
<1>6. Strong(Zones)' = Strong(Zones) /\ Weak(Zones)' = Weak(Zones)
  BY <1>4, <1>5 DEF Strong, Weak, ZonesOf
<1>7. NoIslands(Zones)' = NoIslands(Zones)
  BY <1>4, <1>5 DEF NoIslands, ZonesOf, MarkedRows
<1>8. \A type, islands : CheckConnectedness(Zones, type, islands)' = CheckConnectedness(Zones, type, islands)
  BY <1>6, <1>7 DEF CheckConnectedness
<1> QED
  BY <1>1, <1>8

LEMMA ConnectednessStepKeeps ==
    ConnectednessInv /\ [ConnectednessNext]_connectednessVars => ConnectednessInv'
<1> SUFFICES ASSUME ConnectednessInv, [ConnectednessNext]_connectednessVars PROVE ConnectednessInv'
  OBVIOUS
<1>0. /\ io \in IOChoices /\ gates \in Seq(GateChoices) /\ copies \in Seq(CopyChoices)
      /\ enabled \subseteq (DOMAIN gates) \X RowChoices
      /\ \A e \in enabled : Reaches(gates[e[1]], e[2])
      /\ \A i \in DOMAIN copies : CopyMark(copies[i]) \subseteq Addresses
  BY DEF ConnectednessInv, CircuitKnown
<1>1. CASE AddGate
  <2>1. PICK gate \in GateChoices : gates' = Append(gates, gate)
    BY <1>1 DEF AddGate
  <2>2. enabled' = enabled /\ copies' = copies /\ io' = io /\ answers' = <<>>
    BY <1>1 DEF AddGate
  <2>3. /\ gates' \in Seq(GateChoices)
        /\ \A k \in DOMAIN gates : k \in DOMAIN gates' /\ gates'[k] = gates[k]
    BY <1>0, <2>1, AppendProperties, LenProperties
  <2>4. enabled' \subseteq (DOMAIN gates') \X RowChoices
    BY <1>0, <2>2, <2>3
  <2>5. \A e \in enabled' : Reaches(gates[e[1]], e[2])' 
    BY <1>0, <2>2, <2>3 DEF Reaches, Addresses, GateAddress
  <2>6. \A i \in DOMAIN copies' : CopyMark(copies[i])' \subseteq Addresses'
    BY <1>0, <2>2 DEF CopyMark, Addresses
  <2> QED
    BY <1>0, <2>2, <2>3, <2>4, <2>5, <2>6 DEF ConnectednessInv, CircuitKnown, AnswersKnown
<1>2. CASE EnableSelector
  <2>1. PICK k \in DOMAIN gates, row \in RowChoices :
           Reaches(gates[k], row) /\ enabled' = enabled \cup {<<k, row>>}
    BY <1>2 DEF EnableSelector
  <2>2. gates' = gates /\ copies' = copies /\ io' = io /\ answers' = <<>>
    BY <1>2 DEF EnableSelector
  <2>3. enabled' \subseteq (DOMAIN gates') \X RowChoices
    BY <1>0, <2>1, <2>2
  <2>4. \A e \in enabled' : Reaches(gates[e[1]], e[2])
    BY <1>0, <2>1
  <2>5. \A e \in enabled' : Reaches(gates[e[1]], e[2])'
    BY <2>2, <2>4 DEF Reaches, Addresses
  <2>6. \A i \in DOMAIN copies' : CopyMark(copies[i])' \subseteq Addresses'
    BY <1>0, <2>2 DEF CopyMark, Addresses
  <2> QED
    BY <1>0, <2>2, <2>3, <2>5, <2>6 DEF ConnectednessInv, CircuitKnown, AnswersKnown
<1>3. CASE AddCopyConstraint
  <2>1. PICK pair \in CopyChoices :
           /\ {CopyAddress(pair[1]), CopyAddress(pair[2])} \subseteq Addresses
           /\ copies' = Append(copies, pair)
    BY <1>3 DEF AddCopyConstraint
  <2>2. gates' = gates /\ enabled' = enabled /\ io' = io /\ answers' = <<>>
    BY <1>3 DEF AddCopyConstraint
  <2>3. copies' \in Seq(CopyChoices)
    BY <1>0, <2>1, AppendProperties
  <2>4. \A i \in DOMAIN copies' : (i \in DOMAIN copies /\ copies'[i] = copies[i]) \/ copies'[i] = pair
    BY <1>0, <2>1, AppendProperties, LenProperties
  <2>5. \A i \in DOMAIN copies' : CopyMark(copies'[i]) \subseteq Addresses
    BY <1>0, <2>1, <2>4 DEF CopyMark
  <2>6. Addresses' = Addresses
    BY <2>2 DEF Addresses
  <2>7. \A e \in enabled' : Reaches(gates[e[1]], e[2])'
    BY <1>0, <2>2, <2>6 DEF Reaches
  <2> QED
    BY <1>0, <2>2, <2>3, <2>5, <2>6, <2>7 DEF ConnectednessInv, CircuitKnown, AnswersKnown, CopyMark
<1>4. CASE Check
  <2>1. /\ gates' = gates /\ enabled' = enabled /\ copies' = copies /\ io' = io
        /\ answers' = [asked \in Asked |-> CheckConnectedness(Zones, asked.type, asked.islands)]
    BY <1>4 DEF Check
  <2> QED
    BY <2>1, SameCircuit DEF ConnectednessInv, AnswersKnown
<1>5. CASE UNCHANGED connectednessVars
  <2>1. gates' = gates /\ enabled' = enabled /\ copies' = copies /\ io' = io /\ answers' = answers
    BY <1>5 DEF connectednessVars
  <2> QED
    BY <2>1, SameCircuit DEF ConnectednessInv, AnswersKnown
<1> QED
  BY <1>1, <1>2, <1>3, <1>4, <1>5 DEF ConnectednessNext

(* However gates, selectors and copy constraints follow one another, what  *)
(* the check answers is right: a component that is connected is never      *)
(* called disconnected, and one that is not is found out, unless two of    *)
(* its cells may share an address.                                         *)
THEOREM AnswersAreExact == ConnectednessSpec => []AnswersExact
<1>1. ConnectednessInv => AnswersExact
  <2> SUFFICES ASSUME ConnectednessInv, NEW asked \in DOMAIN answers
               PROVE  /\ Connected(Islands, asked.type, asked.islands) => answers[asked]
                      /\ CellsApart /\ answers[asked] => Connected(Islands, asked.type, asked.islands)
    BY DEF AnswersExact
  <2>1. answers # <<>>
    BY EmptySeq
  <2>2. answers = [a \in Asked |-> CheckConnectedness(Zones, a.type, a.islands)]
    BY <2>1 DEF ConnectednessInv, AnswersKnown
  <2>3. asked \in Asked /\ answers[asked] = CheckConnectedness(Zones, asked.type, asked.islands)
    BY <2>2
  <2>4. asked.type \in {"none", "weak", "strong"} /\ asked.islands \in BOOLEAN
    BY <2>3 DEF Asked
  <2>5. CellsApart => Tied
    BY AddressesApart, ZonesAreTied DEF Tied, ConnectednessInv
  <2> QED
    BY <2>3, <2>4, <2>5, AnswerIsRight DEF ConnectednessInv
<1> QED
  BY <1>1, ConnectednessInitially, ConnectednessStepKeeps, PTL DEF ConnectednessSpec

Cell == 0..(Prime - 1)

-----------------------------------------------------------------------------
(* What vanishes                                                           *)

LEMMA PrimeFacts ==
    ASSUME IsField(Prime)
    PROVE  /\ Prime \in Nat \ {0} /\ Prime > 2 /\ 0 \in Cell /\ 1 \in Cell
           /\ \A x \in Cell : x \in Int /\ E(x) = x
           /\ \A x \in Int : E(x) \in Cell
<1>1. Prime \in Nat \ {0} /\ Prime > 2
  BY DEF IsField
<1>2. 0 \in Cell /\ 1 \in Cell
  BY <1>1 DEF Cell
<1> QED
  BY <1>1, <1>2, ElementRemains DEF Cell, E

LEMMA VanishingMultiple ==
    ASSUME IsField(Prime), NEW x \in Int, Vanishes(x), NEW k \in Int, NEW y \in Int, y = k * x
    PROVE  Vanishes(y)
<1>1. E(x * k) = E(E(x) * k)
  BY PrimeFacts, ProductOfRemainder DEF E
<1>2. E(x) * k = 0 /\ x * k = y
  BY DEF Vanishes
<1>3. E(0) = 0
  BY PrimeFacts
<1> QED
  BY <1>1, <1>2, <1>3 DEF Vanishes

LEMMA VanishingSum ==
    ASSUME IsField(Prime), NEW x \in Int, Vanishes(x), NEW y \in Int, Vanishes(y)
    PROVE  Vanishes(x + y)
<1>1. E(x + y) = E(E(x) + y)
  BY PrimeFacts, SumOfRemainder DEF E
<1>2. E(x) + y = y
  BY DEF Vanishes
<1> QED
  BY <1>1, <1>2 DEF Vanishes

(* Combinations of what vanishes do.                                       *)
LEMMA Combination ==
    ASSUME IsField(Prime), NEW x \in Int, Vanishes(x), NEW y \in Int, Vanishes(y),
           NEW k \in Int, NEW l \in Int, NEW z \in Int, z = k * x + l * y
    PROVE  Vanishes(z)
<1>1. PICK u \in Int, v \in Int : u = k * x /\ v = l * y
  OBVIOUS
<1>2. Vanishes(u) /\ Vanishes(v)
  BY <1>1, VanishingMultiple
<1> QED
  BY <1>1, <1>2, VanishingSum

LEMMA VanishingFactor ==
    ASSUME IsField(Prime), NEW x \in Int, NEW y \in Int, Vanishes(x * y)
    PROVE  Vanishes(x) \/ Vanishes(y)
  BY FactorIsZero DEF Vanishes, E

LEMMA VanishingCell ==
    ASSUME IsField(Prime), NEW x \in Cell
    PROVE  Vanishes(x) <=> x = 0
  BY PrimeFacts DEF Vanishes

LEMMA VanishingDifference ==
    ASSUME IsField(Prime), NEW x \in Cell, NEW y \in Cell
    PROVE  Vanishes(x - y) <=> x = y
<1>1. Vanishes(x - y) => x = y
  BY PrimeFacts, SameElement DEF Vanishes, E, Cell
<1>2. x - x = 0 /\ Vanishes(0)
  BY PrimeFacts DEF Vanishes
<1> QED
  BY <1>1, <1>2

LEMMA RemainderVanishes ==
    ASSUME IsField(Prime), NEW x \in Int
    PROVE  E(x) \in Cell /\ E(x) \in Int /\ Vanishes(x - E(x)) /\ Vanishes(E(x) - x)
<1>1. Prime \in Nat \ {0} /\ E(x) \in Cell /\ E(x) \in Int
  BY PrimeFacts
<1>2. PICK q \in Int, r \in 0..(Prime - 1) : x = Prime * q + r /\ x % Prime = r
  BY <1>1, Divided
<1>3. PICK s \in Int : s = Prime * q
  BY <1>1, <1>2
<1>4. s % Prime = 0
  <2>1. s = Prime * q + 0 /\ 0 \in 0..(Prime - 1)
    BY <1>1, <1>3
  <2> QED
    BY <1>1, <1>2, <2>1, RemainderIsUnique
<1>5. x - E(x) = s /\ s + (E(x) - x) = 0
  BY <1>1, <1>2, <1>3 DEF E
<1>6. PICK n \in Int : n = E(x) - x
  BY <1>1
<1>7. n % Prime = 0
  BY <1>1, <1>4, <1>5, <1>6, NegatedZero
<1> QED
  BY <1>1, <1>4, <1>5, <1>6, <1>7 DEF Vanishes, E

(* A cell is what an expression comes to when their difference vanishes.   *)
LEMMA CellIsRemainder ==
    ASSUME IsField(Prime), NEW x \in Cell, NEW y \in Int, Vanishes(x - y) \/ Vanishes(y - x)
    PROVE  E(y) = x
<1>1. x \in Int /\ E(y) \in Cell /\ E(y) \in Int
  BY PrimeFacts
<1>2. PICK d \in Int, r \in Int : d = y - x /\ r = E(y) - y
  BY <1>1
<1>3. Vanishes(r)
  BY <1>2, RemainderVanishes
<1>4. Vanishes(d)
  <2>1. PICK m \in Int : m = x - y
    BY <1>1
  <2>2. d = -1 * m
    BY <1>1, <1>2, <2>1
  <2> QED
    BY <1>2, <2>1, <2>2, VanishingMultiple
<1>5. Vanishes(r + d)
  BY <1>3, <1>4, VanishingSum
<1>6. r + d = E(y) - x
  BY <1>1, <1>2
<1> QED
  BY <1>1, <1>5, <1>6, VanishingDifference

LEMMA RemainderIsCell ==
    ASSUME IsField(Prime), NEW x \in Cell, NEW y \in Int
    PROVE  E(y) = x <=> Vanishes(y - x)
<1>1. Vanishes(y - E(y))
  BY RemainderVanishes
<1> QED
  BY <1>1, CellIsRemainder

(* What does not vanish has an inverse.                                    *)
LEMMA InverseExists ==
    ASSUME IsField(Prime), NEW x \in Int, ~Vanishes(x)
    PROVE  \E i \in Cell : Vanishes(x * i - 1)
<1>1. PICK r \in Cell : r = E(x) /\ r # 0
  BY PrimeFacts DEF Vanishes
<1>2. PICK i \in Cell : E(r * i) = 1
  <2>1. \A v \in 1..(Prime - 1) : \E y \in Cell : E(v * y) = 1
    BY DEF IsField, E, Cell
  <2>2. r \in 1..(Prime - 1)
    BY <1>1, PrimeFacts DEF Cell
  <2> QED
    BY <2>1, <2>2
<1>3. r \in Int /\ i \in Int
  BY PrimeFacts
<1>4. E(x * i) = E(r * i)
  BY <1>1, <1>3, PrimeFacts, ProductOfRemainder DEF E
<1>5. PICK y \in Int : y = x * i
  BY <1>3
<1>6. Vanishes(y - 1)
  BY <1>2, <1>4, <1>5, RemainderIsCell, PrimeFacts
<1> QED
  BY <1>5, <1>6

LEMMA BitCell ==
    ASSUME IsField(Prime), NEW b \in Cell, IsBit(b)
    PROVE  b \in {0, 1}
  BY BitConstraint DEF IsBit, Vanishes, E, Cell

(* One does not vanish.                                                    *)
LEMMA OneStays ==
    ASSUME IsField(Prime)
    PROVE  ~Vanishes(1) /\ ~Vanishes(-1) /\ Vanishes(0)
<1>1. E(1) = 1 /\ E(0) = 0
  BY PrimeFacts
<1>2. Vanishes(-1) => Vanishes(1)
  <2>1. PICK m \in Int : m = 0 - 1
    OBVIOUS
  <2>2. 1 = m * m /\ -1 = m
    BY <2>1
  <2> QED
    BY <2>2, VanishingMultiple
<1> QED
  BY <1>1, <1>2 DEF Vanishes

-----------------------------------------------------------------------------
(* Flags                                                                   *)

(* d * i = 1 - u and (i - d) * u = 0 make u the flag of d = 0.             *)
LEMMA ZeroFlag ==
    ASSUME IsField(Prime), NEW d \in Int, NEW i \in Int, NEW u \in {0, 1},
           Vanishes(d * i + u - 1), Vanishes((i - d) * u)
    PROVE  u = 1 <=> Vanishes(d)
<1>1. CASE u = 1
  <2>1. PICK x \in Int, y \in Int : x = d * i /\ y = i - d
    OBVIOUS
  <2>2. d * i + 1 - 1 = x /\ (i - d) * 1 = y
    BY <2>1
  <2>3. Vanishes(x) /\ Vanishes(y)
    BY <1>1, <2>2
  <2>4. PICK z \in Int, k \in Int, e \in Int : z = d * d /\ k = 0 - d /\ e = 1
    OBVIOUS
  <2>5. z = e * x + k * y
    BY <2>1, <2>4
  <2>6. Vanishes(z)
    BY <2>3, <2>5, Combination
  <2> QED
    BY <1>1, <2>4, <2>6, VanishingFactor
<1>2. CASE u = 0
  <2> SUFFICES ASSUME Vanishes(d) PROVE FALSE
    BY <1>2
  <2>1. PICK x \in Int : x = d * i
    OBVIOUS
  <2>2. PICK y \in Int : y = x - 1
    OBVIOUS
  <2>3. d * i + 0 - 1 = y
    BY <2>1, <2>2
  <2>4. Vanishes(x)
    <3>1. x = i * d
      BY <2>1
    <3> QED
      BY <3>1, VanishingMultiple
  <2>5. Vanishes(y)
    BY <1>2, <2>3
  <2>6. PICK k \in Int, e \in Int : k = 0 - 1 /\ e = 1
    OBVIOUS
  <2>7. e = e * x + k * y
    BY <2>2, <2>6
  <2>8. Vanishes(e)
    BY <2>4, <2>5, <2>7, Combination
  <2> QED
    BY <2>6, <2>8, OneStays
<1> QED
  BY <1>1, <1>2

(* equality_flag says whether its inputs are equal, inequality_flag        *)
(* whether they are not: no other flag satisfies the gate.                 *)
THEOREM EqualityFlagIsSound ==
    ASSUME IsField(Prime), NEW inequality \in BOOLEAN, NEW w \in [1..4 -> Cell],
           FlagHolds(inequality, w)
    PROVE  FlagMeans(inequality, w)
<1>1. /\ w[1] \in Cell /\ w[2] \in Cell /\ w[3] \in Cell /\ w[4] \in Cell
      /\ w[1] \in Int /\ w[2] \in Int /\ w[3] \in Int
  BY PrimeFacts
<1>2. w[4] \in {0, 1}
  BY <1>1, BitCell DEF FlagHolds
<1>3. PICK d \in Int, i \in Int : d = w[1] - w[2] /\ i = w[3]
  BY <1>1
<1>4. PICK u \in {0, 1} : u = IF inequality THEN 1 - w[4] ELSE w[4]
  BY <1>2
<1>5. Vanishes(d * i + u - 1) /\ Vanishes((i - d) * u)
  <2>1. CASE ~inequality
    <3>1. Vanishes(d * i + (w[4] - 1)) /\ Vanishes((i - d) * w[4]) /\ u = w[4]
      BY <1>3, <1>4, <2>1 DEF FlagHolds
    <3>2. PICK x \in Int : x = d * i
      OBVIOUS
    <3>3. x + (u - 1) = x + u - 1
      BY <3>2
    <3> QED
      BY <3>1, <3>2, <3>3
  <2>2. CASE inequality
    <3>1. Vanishes(d * i + (-w[4])) /\ Vanishes((i - d) * (w[4] - 1)) /\ u = 1 - w[4]
      BY <1>3, <1>4, <2>2 DEF FlagHolds
    <3>2. PICK x \in Int, y \in Int : x = d * i /\ y = i - d
      OBVIOUS
    <3>3. x + (-w[4]) = x + u - 1
      BY <1>2, <3>1, <3>2
    <3>4. PICK z \in Int : z = y * (w[4] - 1)
      BY <1>2, <3>2
    <3>5. y * u = -1 * z
      BY <1>2, <3>1, <3>2, <3>4
    <3>6. Vanishes(z) /\ y * u \in Int
      BY <3>1, <3>2, <3>4
    <3>7. Vanishes(y * u)
      BY <3>5, <3>6, VanishingMultiple
    <3> QED
      BY <3>1, <3>2, <3>3, <3>7
  <2> QED
    BY <2>1, <2>2
<1>6. u = 1 <=> Vanishes(d)
  BY <1>5, ZeroFlag
<1>7. Vanishes(d) <=> w[1] = w[2]
  BY <1>1, <1>3, VanishingDifference
<1> QED
  BY <1>2, <1>4, <1>6, <1>7 DEF FlagMeans

-----------------------------------------------------------------------------
(* Division                                                                *)

(* The product with i is a flag f, and i = y where f is not set: f says    *)
(* that y is not zero.                                                     *)
LEMMA InverseFlag ==
    ASSUME IsField(Prime), NEW y \in Cell, NEW i \in Cell, NEW f \in {0, 1},
           Vanishes(y * i - f), Vanishes((i - y) * (f - 1))
    PROVE  (f = 1 <=> y # 0) /\ (f = 0 => i = 0)
<1>0. y \in Int /\ i \in Int
  BY PrimeFacts
<1>1. CASE f = 1
  <2> SUFFICES ASSUME y = 0 PROVE FALSE
    BY <1>1
  <2>1. y * i - f = -1
    BY <1>0, <1>1
  <2> QED
    BY <2>1, OneStays
<1>2. CASE f = 0
  <2>1. PICK d \in Int, x \in Int : d = i - y /\ x = y * i
    BY <1>0
  <2>2. (i - y) * (f - 1) = d * (-1) /\ y * i - f = x
    BY <1>2, <2>1
  <2>3. Vanishes(d)
    <3>1. d = -1 * (d * (-1)) /\ d * (-1) \in Int
      BY <2>1
    <3> QED
      BY <2>2, <3>1, VanishingMultiple
  <2>4. i = y
    BY <2>1, <2>3, VanishingDifference
  <2>5. Vanishes(y * y)
    BY <2>1, <2>2, <2>4
  <2>6. y = 0
    BY <1>0, <2>5, VanishingFactor, VanishingCell
  <2> QED
    BY <1>2, <2>4, <2>6
<1> QED
  BY <1>1, <1>2

(* division divides, and cannot be satisfied where the divisor is zero.    *)
THEOREM DivisionIsSound ==
    ASSUME IsField(Prime), NEW w \in [1..4 -> Cell], DivisionHolds(w)
    PROVE  QuotientMeans(FALSE, w)
<1>1. PICK x \in Cell, y \in Cell, q \in Cell, i \in Cell :
        x = w[1] /\ y = w[2] /\ q = w[3] /\ i = w[4]
  OBVIOUS
<1>2. x \in Int /\ y \in Int /\ q \in Int /\ i \in Int
  BY PrimeFacts
<1>3. Vanishes(y * q - x) /\ Vanishes(y * i - 1)
  BY <1>1 DEF DivisionHolds
<1>4. y # 0
  <2> SUFFICES ASSUME y = 0 PROVE FALSE
    OBVIOUS
  <2>1. y * i - 1 = -1
    BY <1>2
  <2> QED
    BY <1>3, <2>1, OneStays
<1>5. PICK z \in Int : z = y * q /\ z = q * y
  BY <1>2
<1>6. E(z) = x
  BY <1>3, <1>5, CellIsRemainder
<1> QED
  BY <1>1, <1>4, <1>5, <1>6 DEF QuotientMeans

(* division_or_zero divides, and gives zero where the divisor is zero.     *)
THEOREM DivisionOrZeroIsSound ==
    ASSUME IsField(Prime), NEW w \in [1..5 -> Cell], DivisionOrZeroHolds(w)
    PROVE  QuotientMeans(TRUE, w)
<1>1. PICK x \in Cell, y \in Cell, q \in Cell, i \in Cell, f \in Cell :
        x = w[1] /\ y = w[2] /\ q = w[3] /\ i = w[4] /\ f = w[5]
  OBVIOUS
<1>2. x \in Int /\ y \in Int /\ q \in Int /\ i \in Int
  BY PrimeFacts
<1>3. /\ Vanishes(y * i - f) /\ IsBit(f) /\ Vanishes((i - y) * (f - 1))
      /\ Vanishes(x * i - q)
  BY <1>1 DEF DivisionOrZeroHolds
<1>4. f \in {0, 1}
  BY <1>3, BitCell
<1>5. (f = 1 <=> y # 0) /\ (f = 0 => i = 0)
  BY <1>3, <1>4, InverseFlag
<1>6. CASE y = 0
  <2>1. i = 0 /\ x * i - q = 0 - q
    BY <1>2, <1>4, <1>5, <1>6
  <2>2. q = 0
    BY <1>3, <2>1, VanishingDifference, PrimeFacts
  <2> QED
    BY <1>1, <1>6, <2>2 DEF QuotientMeans
<1>7. CASE y # 0
  <2>1. PICK u \in Int, v \in Int : u = x * i - q /\ v = y * i - f
    BY <1>2, <1>4
  <2>2. PICK z \in Int, m \in Int, k \in Int : z = q * y /\ m = z - x /\ k = 0 - y
    BY <1>2
  <2>3. m = k * u + x * v
    BY <1>2, <1>4, <1>5, <1>7, <2>1, <2>2
  <2>4. Vanishes(m)
    BY <1>2, <1>3, <2>1, <2>3, Combination
  <2>5. E(z) = x
    BY <2>2, <2>4, CellIsRemainder
  <2> QED
    BY <1>1, <1>7, <2>2, <2>5 DEF QuotientMeans
<1> QED
  BY <1>6, <1>7

-----------------------------------------------------------------------------
(* Logic                                                                   *)

(* logic_and_flag is set exactly when neither input is zero, whatever the  *)
(* width.                                                                  *)
THEOREM AndFlagIsSound ==
    ASSUME IsField(Prime), NEW w \in Seq(Cell), Len(w) > 4, AndHolds(w)
    PROVE  LogicMeans("and", w)
<1>1. PICK x \in Cell, y \in Cell, p \in Cell, i \in Cell, f \in Cell :
        x = w[1] /\ y = w[2] /\ p = w[3] /\ i = w[4] /\ f = w[Len(w)]
  OBVIOUS
<1>2. x \in Int /\ y \in Int /\ p \in Int /\ i \in Int
  BY PrimeFacts
<1>3. /\ Vanishes(p - x * y) /\ IsBit(f) /\ Vanishes(f - p * i)
      /\ Vanishes((i - p) * (f - 1))
  BY <1>1 DEF AndHolds
<1>4. f \in {0, 1}
  BY <1>3, BitCell
<1>5. PICK z \in Int, u \in Int : z = x * y /\ u = p * i
  BY <1>2
<1>6. Vanishes(u - f)
  <2>1. f - u \in Int /\ u - f \in Int /\ u - f = -1 * (f - u)
    BY <1>4, <1>5
  <2> QED
    BY <1>3, <1>5, <2>1, VanishingMultiple
<1>7. f = 1 <=> p # 0
  BY <1>3, <1>4, <1>5, <1>6, InverseFlag
<1>8. E(z) = p
  BY <1>3, <1>5, CellIsRemainder
<1>9. p = 0 <=> Vanishes(x * y)
  BY <1>5, <1>8 DEF Vanishes
<1>10. p = 0 <=> x = 0 \/ y = 0
  <2>1. Vanishes(x * y) => x = 0 \/ y = 0
    BY <1>2, VanishingFactor, VanishingCell
  <2>2. x = 0 \/ y = 0 => x * y = 0
    BY <1>2
  <2> QED
    BY <1>9, <2>1, <2>2, OneStays
<1> QED
  BY <1>1, <1>4, <1>7, <1>10 DEF LogicMeans

(* logic_or_flag is set exactly when an input is not zero.                 *)
THEOREM OrFlagIsSound ==
    ASSUME IsField(Prime), NEW w \in Seq(Cell), Len(w) > 6, OrHolds(w)
    PROVE  LogicMeans("or", w)
<1>1. PICK x \in Cell, y \in Cell, i \in Cell, j \in Cell, g \in Cell, h \in Cell, f \in Cell :
        /\ x = w[1] /\ y = w[2] /\ i = w[3] /\ j = w[4]
        /\ g = w[5] /\ h = w[6] /\ f = w[Len(w)]
  OBVIOUS
<1>2. x \in Int /\ y \in Int /\ i \in Int /\ j \in Int /\ f \in Int
  BY PrimeFacts
<1>3. /\ Vanishes(g - x * i) /\ IsBit(g) /\ Vanishes((i - x) * (g - 1))
      /\ Vanishes(h - y * j) /\ IsBit(h) /\ Vanishes((j - y) * (h - 1))
      /\ Vanishes(f - g - h + g * h)
  BY <1>1 DEF OrHolds
<1>4. g \in {0, 1} /\ h \in {0, 1}
  BY <1>3, BitCell
<1>5. g = 1 <=> x # 0
  <2>1. PICK u \in Int : u = x * i
    BY <1>2
  <2>2. g - u \in Int /\ u - g \in Int /\ u - g = -1 * (g - u)
    BY <1>4, <2>1
  <2>3. Vanishes(u - g)
    BY <1>3, <2>1, <2>2, VanishingMultiple
  <2> QED
    BY <1>3, <1>4, <2>1, <2>3, InverseFlag
<1>6. h = 1 <=> y # 0
  <2>1. PICK u \in Int : u = y * j
    BY <1>2
  <2>2. h - u \in Int /\ u - h \in Int /\ u - h = -1 * (h - u)
    BY <1>4, <2>1
  <2>3. Vanishes(u - h)
    BY <1>3, <2>1, <2>2, VanishingMultiple
  <2> QED
    BY <1>3, <1>4, <2>1, <2>3, InverseFlag
<1>7. PICK b \in {0, 1} : b = IF g = 1 \/ h = 1 THEN 1 ELSE 0
  OBVIOUS
<1>8. f - g - h + g * h = f - b
  BY <1>2, <1>4, <1>7
<1>9. f = b
  BY <1>3, <1>8, VanishingDifference, PrimeFacts
<1> QED
  BY <1>1, <1>5, <1>6, <1>7, <1>9 DEF LogicMeans

(* flexible_swap puts out its inputs, in the other order if b is set.      *)
THEOREM SwapIsSound ==
    ASSUME IsField(Prime), NEW w \in [1..5 -> Cell], SwapHolds(w)
    PROVE  SwapMeans(w)
<1>1. PICK b \in Cell, c \in Cell, d \in Cell, l \in Cell, r \in Cell :
        b = w[1] /\ c = w[2] /\ d = w[3] /\ l = w[4] /\ r = w[5]
  OBVIOUS
<1>2. c \in Int /\ d \in Int /\ l \in Int /\ r \in Int
  BY PrimeFacts
<1>3. /\ IsBit(b) /\ Vanishes(l - ((1 - b) * c + b * d))
      /\ Vanishes(r - ((1 - b) * d + b * c))
  BY <1>1 DEF SwapHolds
<1>4. b \in {0, 1}
  BY <1>3, BitCell
<1>5. CASE b = 0
  <2>1. (1 - b) * c + b * d = c /\ (1 - b) * d + b * c = d
    BY <1>2, <1>5
  <2>2. l = c /\ r = d
    BY <1>3, <2>1, VanishingDifference
  <2> QED
    BY <1>1, <1>5, <2>2 DEF SwapMeans
<1>6. CASE b = 1
  <2>1. (1 - b) * c + b * d = d /\ (1 - b) * d + b * c = c
    BY <1>2, <1>6
  <2>2. l = d /\ r = c
    BY <1>3, <2>1, VanishingDifference
  <2> QED
    BY <1>1, <1>6, <2>2 DEF SwapMeans
<1> QED
  BY <1>4, <1>5, <1>6

-----------------------------------------------------------------------------
(* Interpolation                                                           *)

(* Horner's scheme, from each coefficient to the next.                     *)
LEMMA HornerFunction ==
    ASSUME IsField(Prime), NEW x \in Cell, NEW s \in Seq(Cell)
    PROVE  \E h \in [0..Len(s) -> Cell] :
              /\ h[0] = 0 /\ \A j \in 1..Len(s) : h[j] = E(h[j - 1] * x + s[j])
              /\ Horner(x, s) = h[Len(s)]
<1> DEFINE n == Len(s)
           step == [v \in (1..n) \X Cell |-> E(v[2] * x + s[v[1]])]
           IsScheme(g) == g = [j \in 0..n |-> IF j = 0 THEN 0 ELSE E(g[j - 1] * x + s[j])]
<1>1. n \in Nat /\ 0 \in Cell /\ (\A j \in 1..n : s[j] \in Cell)
  BY PrimeFacts
<1>2. step \in [(1..n) \X Cell -> Cell]
  <2>1. ASSUME NEW v \in (1..n) \X Cell PROVE E(v[2] * x + s[v[1]]) \in Cell
    <3>1. v[1] \in 1..n /\ v[2] \in Cell
      OBVIOUS
    <3>2. s[v[1]] \in Int /\ v[2] \in Int /\ x \in Int
      BY <1>1, <3>1, PrimeFacts
    <3>3. v[2] * x + s[v[1]] \in Int
      BY <3>2
    <3> QED
      BY <3>3, PrimeFacts
  <2> QED
    BY <2>1
<1>3. PICK f : Counted(f, n, 0, step)
  BY <1>1, CountedFunctionExists
<1>4. f \in [0..n -> Cell]
  BY <1>1, <1>2, <1>3, CountedFunctionType
<1>5. IsScheme(f)
  <2>1. ASSUME NEW j \in 0..n
        PROVE  f[j] = IF j = 0 THEN 0 ELSE E(f[j - 1] * x + s[j])
    <3>1. f[j] = IF j = 0 THEN 0 ELSE step[<<j, f[j - 1]>>]
      BY <1>3 DEF Counted
    <3>2. ASSUME j # 0 PROVE step[<<j, f[j - 1]>>] = E(f[j - 1] * x + s[j])
      <4>1. j \in 1..n /\ j - 1 \in 0..n
        BY <3>2
      <4>2. <<j, f[j - 1]>> \in (1..n) \X Cell
        BY <1>4, <4>1
      <4> QED
        BY <4>2
    <3> HIDE DEF step
    <3> QED
      BY <3>1, <3>2
  <2>2. f = [j \in 0..n |-> f[j]]
    BY <1>4
  <2> QED
    BY <2>1, <2>2
<1>6. /\ Horner(x, s) = (CHOOSE g : IsScheme(g))[n]
      /\ IsScheme(CHOOSE g : IsScheme(g))
  BY <1>5 DEF Horner
<1>7. PICK g : IsScheme(g) /\ Horner(x, s) = g[n]
  BY <1>6
<1> HIDE DEF step
<1>8. g[0] = 0 /\ \A j \in 1..n : g[j] = E(g[j - 1] * x + s[j])
  BY <1>1, <1>7
<1> DEFINE P == {j \in 0..n : g[j] \in Cell}
<1>9. 0 \in P
  BY <1>1, <1>8
<1>10. ASSUME NEW j \in 1..n, j - 1 \in P PROVE j \in P
  <2>1. g[j - 1] \in Int /\ s[j] \in Int /\ x \in Int
    BY <1>1, <1>10, PrimeFacts
  <2>2. g[j - 1] * x + s[j] \in Int
    BY <2>1
  <2>3. g[j] \in Cell
    BY <1>8, <2>2, PrimeFacts
  <2> QED
    BY <2>3
<1>11. \A j \in 0..n : j \in P
  <2> HIDE DEF P
  <2> QED
    BY <1>1, <1>9, <1>10, CountingUp
<1>12. g \in [0..n -> Cell]
  BY <1>7, <1>11
<1> QED
  BY <1>7, <1>8, <1>12

(* Two coefficients are a line's, three a parabola's.                      *)
LEMMA HornerOfTwo ==
    ASSUME IsField(Prime), NEW x \in Cell, NEW a \in [1..2 -> Cell]
    PROVE  Horner(x, a) = E(a[1] * x + a[2])
<1>1. a \in Seq(Cell) /\ Len(a) = 2 /\ a[1] \in Cell /\ a[2] \in Cell
  <2>1. a \in Seq(Cell)
    BY SeqDef
  <2>2. DOMAIN a = 1..2 /\ DOMAIN a = 1..Len(a) /\ Len(a) \in Nat
    BY <2>1, LenProperties
  <2>3. Len(a) = 2
    BY <2>2
  <2> QED
    BY <2>1, <2>3
<1>2. PICK h \in [0..2 -> Cell] :
        /\ h[0] = 0 /\ \A j \in 1..2 : h[j] = E(h[j - 1] * x + a[j])
        /\ Horner(x, a) = h[2]
  BY <1>1, HornerFunction
<1>3. h[1] = E(h[0] * x + a[1]) /\ h[2] = E(h[1] * x + a[2])
  BY <1>2
<1>4. h[0] * x + a[1] = a[1]
  BY <1>1, <1>2, PrimeFacts
<1>5. h[1] = a[1]
  BY <1>1, <1>3, <1>4, PrimeFacts
<1> QED
  BY <1>2, <1>3, <1>5

LEMMA HornerOfThree ==
    ASSUME IsField(Prime), NEW x \in Cell, NEW a \in [1..3 -> Cell]
    PROVE  Horner(x, a) = E(E(a[1] * x + a[2]) * x + a[3])
<1>1. a \in Seq(Cell) /\ Len(a) = 3 /\ a[1] \in Cell /\ a[2] \in Cell /\ a[3] \in Cell
  <2>1. a \in Seq(Cell)
    BY SeqDef
  <2>2. DOMAIN a = 1..3 /\ DOMAIN a = 1..Len(a) /\ Len(a) \in Nat
    BY <2>1, LenProperties
  <2>3. Len(a) = 3
    BY <2>2
  <2> QED
    BY <2>1, <2>3
<1>2. PICK h \in [0..3 -> Cell] :
        /\ h[0] = 0 /\ \A j \in 1..3 : h[j] = E(h[j - 1] * x + a[j])
        /\ Horner(x, a) = h[3]
  BY <1>1, HornerFunction
<1>3. h[1] = E(h[0] * x + a[1]) /\ h[2] = E(h[1] * x + a[2]) /\ h[3] = E(h[2] * x + a[3])
  BY <1>2
<1>4. h[0] * x + a[1] = a[1]
  BY <1>1, <1>2, PrimeFacts
<1>5. h[1] = a[1]
  BY <1>1, <1>3, <1>4, PrimeFacts
<1> QED
  BY <1>2, <1>3, <1>5

(* A line or a parabola goes through a point.                              *)
LineHits(a, b, x, z) == Vanishes(a * x + b - z)
ParabolaHits(a, b, c, x, z) == Vanishes((a * x + b) * x + c - z)

(* Values that vanish at two places, or three, are zero.                   *)
LEMMA LineUnique ==
    ASSUME IsField(Prime), NEW x \in Int, NEW y \in Int, ~Vanishes(x - y),
           NEW a \in Int, NEW b \in Int, LineHits(a, b, x, 0), LineHits(a, b, y, 0)
    PROVE  Vanishes(a) /\ Vanishes(b)
<1>1. PICK u \in Int, v \in Int, e \in Int, m \in Int :
        u = a * x + b - 0 /\ v = a * y + b - 0 /\ e = 1 /\ m = 0 - 1
  OBVIOUS
<1>2. Vanishes(u) /\ Vanishes(v)
  BY <1>1 DEF LineHits
<1>3. PICK z \in Int, d \in Int : z = x - y /\ d = a * z
  OBVIOUS
<1>4. d = e * u + m * v
  BY <1>1, <1>3
<1>5. Vanishes(d)
  BY <1>2, <1>4, Combination
<1>6. Vanishes(a)
  BY <1>3, <1>5, VanishingFactor
<1>7. PICK n \in Int : n = 0 - x
  OBVIOUS
<1>8. b = e * u + n * a
  BY <1>1, <1>7
<1>9. Vanishes(b)
  BY <1>2, <1>6, <1>8, Combination
<1> QED
  BY <1>6, <1>9

LEMMA ParabolaUnique ==
    ASSUME IsField(Prime), NEW x \in Int, NEW y \in Int, NEW z \in Int,
           ~Vanishes(x - y), ~Vanishes(x - z), ~Vanishes(y - z),
           NEW a \in Int, NEW b \in Int, NEW c \in Int, ParabolaHits(a, b, c, x, 0),
           ParabolaHits(a, b, c, y, 0), ParabolaHits(a, b, c, z, 0)
    PROVE  Vanishes(a) /\ Vanishes(b) /\ Vanishes(c)
<1>1. PICK u \in Int, v \in Int, w \in Int, e \in Int, m \in Int :
        /\ u = (a * x + b) * x + c - 0 /\ v = (a * y + b) * y + c - 0
        /\ w = (a * z + b) * z + c - 0 /\ e = 1 /\ m = 0 - 1
  OBVIOUS
<1>2. Vanishes(u) /\ Vanishes(v) /\ Vanishes(w)
  BY <1>1 DEF ParabolaHits
<1>3. PICK p \in Int, q \in Int : p = x + y /\ q = x + z
  OBVIOUS
<1>4. LineHits(a, b, p, 0)
  <2>1. PICK k \in Int, l \in Int, d \in Int : k = x - y /\ l = a * p + b - 0 /\ d = k * l
    OBVIOUS
  <2>2. k * l = u - v
    BY <1>1, <1>3, <2>1
  <2>3. d = e * u + m * v
    BY <1>1, <2>1, <2>2
  <2>4. Vanishes(d)
    BY <1>2, <2>3, Combination
  <2> QED
    BY <2>1, <2>4, VanishingFactor DEF LineHits
<1>5. LineHits(a, b, q, 0)
  <2>1. PICK k \in Int, l \in Int, d \in Int : k = x - z /\ l = a * q + b - 0 /\ d = k * l
    OBVIOUS
  <2>2. k * l = u - w
    BY <1>1, <1>3, <2>1
  <2>3. d = e * u + m * w
    BY <1>1, <2>1, <2>2
  <2>4. Vanishes(d)
    BY <1>2, <2>3, Combination
  <2> QED
    BY <2>1, <2>4, VanishingFactor DEF LineHits
<1>6. Vanishes(a) /\ Vanishes(b)
  <2>1. p - q = y - z
    BY <1>3
  <2>2. ~Vanishes(p - q)
    BY <2>1
  <2> QED
    BY <1>4, <1>5, <2>2, LineUnique
<1>7. PICK k \in Int, l \in Int : k = 0 - x * x /\ l = 0 - x
  OBVIOUS
<1>8. PICK d \in Int : d = k * a + l * b
  OBVIOUS
<1>9. c = e * u + e * d
  BY <1>1, <1>7, <1>8
<1>10. Vanishes(d)
  BY <1>6, <1>8, Combination
<1>11. Vanishes(c)
  BY <1>2, <1>9, <1>10, Combination
<1> QED
  BY <1>6, <1>11

(* Two that go through a point differ by one that goes through zero there. *)
LEMMA LineDifference ==
    ASSUME IsField(Prime), NEW x \in Int, NEW z \in Int,
           NEW a \in Int, NEW b \in Int, LineHits(a, b, x, z),
           NEW f \in Int, NEW g \in Int, LineHits(f, g, x, z),
           NEW k \in Int, NEW l \in Int, k = a - f, l = b - g
    PROVE  LineHits(k, l, x, 0)
<1>1. PICK u \in Int, v \in Int, e \in Int, n \in Int, d \in Int :
        /\ u = a * x + b - z /\ v = f * x + g - z /\ e = 1 /\ n = 0 - 1
        /\ d = k * x + l - 0
  OBVIOUS
<1>2. Vanishes(u) /\ Vanishes(v)
  BY <1>1 DEF LineHits
<1>3. d = e * u + n * v
  BY <1>1
<1>4. Vanishes(d)
  BY <1>2, <1>3, Combination
<1> QED
  BY <1>1, <1>4 DEF LineHits

LEMMA ParabolaDifference ==
    ASSUME IsField(Prime), NEW x \in Int, NEW z \in Int,
           NEW a \in Int, NEW b \in Int, NEW c \in Int, ParabolaHits(a, b, c, x, z),
           NEW f \in Int, NEW g \in Int, NEW h \in Int, ParabolaHits(f, g, h, x, z),
           NEW k \in Int, NEW l \in Int, NEW m \in Int, k = a - f, l = b - g, m = c - h
    PROVE  ParabolaHits(k, l, m, x, 0)
<1>1. PICK u \in Int, v \in Int, e \in Int, n \in Int, d \in Int :
        /\ u = (a * x + b) * x + c - z /\ v = (f * x + g) * x + h - z /\ e = 1 /\ n = 0 - 1
        /\ d = (k * x + l) * x + m - 0
  OBVIOUS
<1>2. Vanishes(u) /\ Vanishes(v)
  BY <1>1 DEF ParabolaHits
<1>3. d = e * u + n * v
  BY <1>1
<1>4. Vanishes(d)
  BY <1>2, <1>3, Combination
<1> QED
  BY <1>1, <1>4 DEF ParabolaHits

(* What Horner's scheme comes to, though it divides at each step.          *)
LEMMA HornerHitsLine ==
    ASSUME IsField(Prime), NEW x \in Cell, NEW z \in Cell, NEW a \in [1..2 -> Cell],
           NEW k \in Int, NEW l \in Int, k = a[1], l = a[2]
    PROVE  E(Horner(x, a)) = z <=> LineHits(k, l, x, z)
<1>1. x \in Int /\ z \in Int
  BY PrimeFacts
<1>2. PICK u \in Int : u = k * x + l
  BY <1>1
<1>3. E(Horner(x, a)) = E(u)
  BY <1>2, HornerOfTwo, PrimeFacts
<1>4. E(u) = z <=> Vanishes(u - z)
  BY RemainderIsCell
<1>5. u - z = k * x + l - z
  BY <1>1, <1>2
<1> QED
  BY <1>3, <1>4, <1>5 DEF LineHits

LEMMA HornerHitsParabola ==
    ASSUME IsField(Prime), NEW x \in Cell, NEW z \in Cell, NEW a \in [1..3 -> Cell],
           NEW k \in Int, NEW l \in Int, NEW m \in Int, k = a[1], l = a[2], m = a[3]
    PROVE  E(Horner(x, a)) = z <=> ParabolaHits(k, l, m, x, z)
<1>1. x \in Int /\ z \in Int
  BY PrimeFacts
<1>2. PICK u \in Int : u = k * x + l
  BY <1>1
<1>3. PICK r \in Int : r = E(u)
  BY RemainderVanishes
<1>4. PICK v \in Int, y \in Int : v = r * x + m /\ y = (k * x + l) * x + m
  BY <1>1
<1>5. E(Horner(x, a)) = E(v)
  BY <1>2, <1>3, <1>4, HornerOfThree, PrimeFacts
<1>6. PICK s \in Int, t \in Int, e \in Int, n \in Int, c \in Int :
        s = v - z /\ t = y - z /\ e = 1 /\ n = 0 - x /\ c = u - r
  BY <1>1
<1>7. s = e * t + n * c /\ t = e * s + x * c
  BY <1>1, <1>2, <1>4, <1>6
<1>8. Vanishes(c)
  BY <1>3, <1>6, RemainderVanishes
<1>9. Vanishes(t) => Vanishes(s)
  BY <1>7, <1>8, Combination
<1>10. Vanishes(s) => Vanishes(t)
  BY <1>1, <1>7, <1>8, Combination
<1>11. E(v) = z <=> Vanishes(s)
  BY <1>6, RemainderIsCell
<1>12. t = (k * x + l) * x + m - z
  BY <1>4, <1>6
<1> QED
  BY <1>5, <1>9, <1>10, <1>11, <1>12 DEF ParabolaHits

LEMMA SameAmounts ==
    /\ \A a, b \in [1..2 -> Cell] : a[1] = b[1] /\ a[2] = b[2] => a = b
    /\ \A a, b \in [1..3 -> Cell] : a[1] = b[1] /\ a[2] = b[2] /\ a[3] = b[3] => a = b
<1>1. 1..2 = {1, 2} /\ 1..3 = {1, 2, 3}
  OBVIOUS
<1>2. ASSUME NEW a \in [1..2 -> Cell], NEW b \in [1..2 -> Cell], a[1] = b[1], a[2] = b[2]
      PROVE  a = b
  <2>1. \A j \in 1..2 : a[j] = b[j]
    BY <1>1, <1>2
  <2> QED
    BY <2>1
<1>3. ASSUME NEW a \in [1..3 -> Cell], NEW b \in [1..3 -> Cell],
             a[1] = b[1], a[2] = b[2], a[3] = b[3]
      PROVE  a = b
  <2>1. \A j \in 1..3 : a[j] = b[j]
    BY <1>1, <1>3
  <2> QED
    BY <2>1
<1> QED
  BY <1>2, <1>3

LEMMA TwoValues ==
    ASSUME NEW x, NEW y, x # y
    PROVE  IsFiniteSet({x, y}) /\ Cardinality({x, y}) = 2
<1>1. IsFiniteSet({x}) /\ Cardinality({x}) = 1
  BY FS_Singleton
<1>2. {x, y} = {x} \cup {y} /\ y \notin {x}
  OBVIOUS
<1>3. IsFiniteSet({x} \cup {y}) /\ Cardinality({x} \cup {y}) = Cardinality({x}) + 1
  BY <1>1, <1>2, FS_AddElement
<1> QED
  BY <1>1, <1>2, <1>3

LEMMA ThreeValues ==
    ASSUME NEW x, NEW y, NEW z, x # y, x # z, y # z
    PROVE  Cardinality({x, y, z}) = 3
<1>1. IsFiniteSet({x, y}) /\ Cardinality({x, y}) = 2
  BY TwoValues
<1>2. {x, y, z} = {x, y} \cup {z} /\ z \notin {x, y}
  OBVIOUS
<1>3. Cardinality({x, y} \cup {z}) = Cardinality({x, y}) + 1
  BY <1>1, <1>2, FS_AddElement
<1> QED
  BY <1>1, <1>2, <1>3

(* linear_interpolation is given two points and finds their only line.     *)
THEOREM LinearIsSound ==
    ASSUME IsField(Prime), NEW w \in [1..7 -> Cell], LinearHolds(w)
    PROVE  InterpolationMeans(2, w)
<1>1. PICK x0 \in Cell, z0 \in Cell, x1 \in Cell, z1 \in Cell, c0 \in Cell, c1 \in Cell,
           i \in Cell :
        /\ x0 = w[1] /\ z0 = w[2] /\ x1 = w[3] /\ z1 = w[4]
        /\ c0 = w[5] /\ c1 = w[6] /\ i = w[7]
  OBVIOUS
<1>2. x0 \in Int /\ z0 \in Int /\ x1 \in Int /\ z1 \in Int /\ c0 \in Int /\ c1 \in Int /\ i \in Int
  BY PrimeFacts
<1>3. LineHits(c1, c0, x0, z0) /\ LineHits(c1, c0, x1, z1) /\ Vanishes((x1 - x0) * i - 1)
  BY <1>1 DEF LinearHolds, LineHits
<1>4. x0 # x1
  <2> SUFFICES ASSUME x0 = x1 PROVE FALSE
    OBVIOUS
  <2>1. (x1 - x0) * i - 1 = -1
    BY <1>2
  <2> QED
    BY <1>3, <2>1, OneStays
<1> DEFINE t == [j \in 1..2 |-> w[3 * 2 + 1 - j]]
           through(a) == \A j \in 1..2 : E(Horner(w[2 * j - 1], a)) = w[2 * j]
<1>5. t \in [1..2 -> Cell] /\ t[1] = c1 /\ t[2] = c0
  BY <1>1
<1>6. ASSUME NEW a \in [1..2 -> Cell], NEW k \in Int, NEW l \in Int, k = a[1], l = a[2]
      PROVE  through(a) <=> LineHits(k, l, x0, z0) /\ LineHits(k, l, x1, z1)
  <2>1. through(a) <=> E(Horner(x0, a)) = z0 /\ E(Horner(x1, a)) = z1
    BY <1>1
  <2> HIDE DEF through
  <2>2. E(Horner(x0, a)) = z0 <=> LineHits(k, l, x0, z0)
    BY <1>6, HornerHitsLine
  <2>3. E(Horner(x1, a)) = z1 <=> LineHits(k, l, x1, z1)
    BY <1>6, HornerHitsLine
  <2> QED
    BY <2>1, <2>2, <2>3
<1> HIDE DEF through, t
<1>7. through(t)
  BY <1>2, <1>3, <1>5, <1>6
<1>8. ASSUME NEW a \in [1..2 -> Cell], through(a) PROVE a = t
  <2>1. PICK b1 \in Cell, b0 \in Cell : b1 = a[1] /\ b0 = a[2]
    OBVIOUS
  <2>2. b1 \in Int /\ b0 \in Int
    BY PrimeFacts
  <2>3. LineHits(b1, b0, x0, z0) /\ LineHits(b1, b0, x1, z1)
    BY <1>6, <1>8, <2>1, <2>2
  <2>4. PICK k \in Int, l \in Int : k = b1 - c1 /\ l = b0 - c0
    BY <1>2, <2>2
  <2>5. LineHits(k, l, x0, 0)
    BY <1>2, <1>3, <2>2, <2>3, <2>4, LineDifference
  <2>6. LineHits(k, l, x1, 0)
    BY <1>2, <1>3, <2>2, <2>3, <2>4, LineDifference
  <2>7. ~Vanishes(x0 - x1)
    BY <1>4, VanishingDifference
  <2>8. Vanishes(k) /\ Vanishes(l)
    BY <1>2, <2>5, <2>6, <2>7, LineUnique
  <2>9. Vanishes(b1 - c1) /\ Vanishes(b0 - c0)
    BY <2>4, <2>8
  <2>10. b1 = c1 /\ b0 = c0
    BY <2>9, VanishingDifference
  <2> QED
    BY <1>5, <2>1, <2>10, SameAmounts
<1>9. {w[2 * j - 1] : j \in 1..2} = {x0, x1}
  <2>1. 1..2 = {1, 2} /\ 2 * 1 - 1 = 1 /\ 2 * 2 - 1 = 3
    OBVIOUS
  <2> QED
    BY <1>1, <2>1
<1>10. Cardinality({x0, x1}) = 2
  BY <1>4, TwoValues
<1>11. {a \in [1..2 -> Cell] : through(a)} = {t}
  BY <1>5, <1>7, <1>8
<1>12. {a \in [1..2 -> 0..(Prime - 1)] :
          \A j \in 1..2 : E(Horner(w[2 * j - 1], a)) = w[2 * j]} = {t}
  BY <1>11 DEF Cell, through
<1> QED
  BY <1>9, <1>10, <1>12 DEF InterpolationMeans, t

(* quadratic_interpolation is given three points and finds their only      *)
(* parabola.                                                               *)
THEOREM QuadraticIsSound ==
    ASSUME IsField(Prime), NEW w \in [1..10 -> Cell], QuadraticHolds(w)
    PROVE  InterpolationMeans(3, w)
<1>1. PICK x0 \in Cell, z0 \in Cell, x1 \in Cell, z1 \in Cell, x2 \in Cell, z2 \in Cell,
           c0 \in Cell, c1 \in Cell, c2 \in Cell, i \in Cell :
        /\ x0 = w[1] /\ z0 = w[2] /\ x1 = w[3] /\ z1 = w[4] /\ x2 = w[5] /\ z2 = w[6]
        /\ c0 = w[7] /\ c1 = w[8] /\ c2 = w[9] /\ i = w[10]
  OBVIOUS
<1>2. /\ x0 \in Int /\ z0 \in Int /\ x1 \in Int /\ z1 \in Int /\ x2 \in Int /\ z2 \in Int
      /\ c0 \in Int /\ c1 \in Int /\ c2 \in Int /\ i \in Int
  BY PrimeFacts
<1>3. Vanishes((x1 - x0) * (x2 - x0) * (x2 - x1) * i - 1)
  BY <1>1 DEF QuadraticHolds
<1>4. /\ ParabolaHits(c2, c1, c0, x0, z0) /\ ParabolaHits(c2, c1, c0, x1, z1)
      /\ ParabolaHits(c2, c1, c0, x2, z2)
  <2>1. \A k \in {1, 3, 5} : Vanishes(w[9] * w[k] * w[k] + w[8] * w[k] + w[7] - w[k + 1])
    BY DEF QuadraticHolds
  <2>2. /\ Vanishes(w[9] * w[1] * w[1] + w[8] * w[1] + w[7] - w[1 + 1])
        /\ Vanishes(w[9] * w[3] * w[3] + w[8] * w[3] + w[7] - w[3 + 1])
        /\ Vanishes(w[9] * w[5] * w[5] + w[8] * w[5] + w[7] - w[5 + 1])
    BY <2>1
  <2>3. 1 + 1 = 2 /\ 3 + 1 = 4 /\ 5 + 1 = 6
    OBVIOUS
  <2>4. /\ Vanishes(c2 * x0 * x0 + c1 * x0 + c0 - z0)
        /\ Vanishes(c2 * x1 * x1 + c1 * x1 + c0 - z1)
        /\ Vanishes(c2 * x2 * x2 + c1 * x2 + c0 - z2)
    BY <1>1, <2>2, <2>3
  <2>5. ASSUME NEW x \in Int, NEW z \in Int
        PROVE  c2 * x * x + c1 * x + c0 - z = (c2 * x + c1) * x + c0 - z
    BY <1>2
  <2> QED
    BY <1>2, <2>4, <2>5 DEF ParabolaHits
<1>5. x0 # x1 /\ x0 # x2 /\ x1 # x2
  <2> SUFFICES ASSUME x0 = x1 \/ x0 = x2 \/ x1 = x2 PROVE FALSE
    OBVIOUS
  <2>1. PICK k \in Int, l \in Int, m \in Int : k = x1 - x0 /\ l = x2 - x0 /\ m = x2 - x1
    BY <1>2
  <2>2. k = 0 \/ l = 0 \/ m = 0
    BY <1>2, <2>1
  <2>3. k * l * m * i = 0
    <3>1. CASE k = 0
      BY <1>2, <3>1
    <3>2. CASE l = 0
      BY <1>2, <3>2
    <3>3. CASE m = 0
      BY <1>2, <3>3
    <3> QED
      BY <2>2, <3>1, <3>2, <3>3
  <2>4. k * l * m * i - 1 = -1
    BY <2>3
  <2>5. Vanishes(k * l * m * i - 1)
    BY <1>3, <2>1
  <2> QED
    BY <2>4, <2>5, OneStays
<1> DEFINE t == [j \in 1..3 |-> w[3 * 3 + 1 - j]]
           through(a) == \A j \in 1..3 : E(Horner(w[2 * j - 1], a)) = w[2 * j]
<1>6. t \in [1..3 -> Cell] /\ t[1] = c2 /\ t[2] = c1 /\ t[3] = c0
  BY <1>1
<1>7. ASSUME NEW a \in [1..3 -> Cell], NEW k \in Int, NEW l \in Int, NEW m \in Int,
             k = a[1], l = a[2], m = a[3]
      PROVE  through(a) <=> /\ ParabolaHits(k, l, m, x0, z0) /\ ParabolaHits(k, l, m, x1, z1)
                            /\ ParabolaHits(k, l, m, x2, z2)
  <2>1. through(a) <=> /\ E(Horner(x0, a)) = z0 /\ E(Horner(x1, a)) = z1
                       /\ E(Horner(x2, a)) = z2
    <3>1. 1..3 = {1, 2, 3} /\ 2 * 1 - 1 = 1 /\ 2 * 2 - 1 = 3 /\ 2 * 3 - 1 = 5
          /\ 2 * 1 = 2 /\ 2 * 2 = 4 /\ 2 * 3 = 6
      OBVIOUS
    <3> QED
      BY <1>1, <3>1
  <2> HIDE DEF through
  <2>2. E(Horner(x0, a)) = z0 <=> ParabolaHits(k, l, m, x0, z0)
    BY <1>7, HornerHitsParabola
  <2>3. E(Horner(x1, a)) = z1 <=> ParabolaHits(k, l, m, x1, z1)
    BY <1>7, HornerHitsParabola
  <2>4. E(Horner(x2, a)) = z2 <=> ParabolaHits(k, l, m, x2, z2)
    BY <1>7, HornerHitsParabola
  <2> QED
    BY <2>1, <2>2, <2>3, <2>4
<1> HIDE DEF through, t
<1>8. through(t)
  BY <1>2, <1>4, <1>6, <1>7
<1>9. ASSUME NEW a \in [1..3 -> Cell], through(a) PROVE a = t
  <2>1. PICK b2 \in Cell, b1 \in Cell, b0 \in Cell : b2 = a[1] /\ b1 = a[2] /\ b0 = a[3]
    OBVIOUS
  <2>2. b2 \in Int /\ b1 \in Int /\ b0 \in Int
    BY PrimeFacts
  <2>3. /\ ParabolaHits(b2, b1, b0, x0, z0) /\ ParabolaHits(b2, b1, b0, x1, z1)
        /\ ParabolaHits(b2, b1, b0, x2, z2)
    BY <1>7, <1>9, <2>1, <2>2
  <2>4. PICK k \in Int, l \in Int, m \in Int : k = b2 - c2 /\ l = b1 - c1 /\ m = b0 - c0
    BY <1>2, <2>2
  <2>5. ParabolaHits(k, l, m, x0, 0)
    BY <1>2, <1>4, <2>2, <2>3, <2>4, ParabolaDifference
  <2>6. ParabolaHits(k, l, m, x1, 0)
    BY <1>2, <1>4, <2>2, <2>3, <2>4, ParabolaDifference
  <2>7. ParabolaHits(k, l, m, x2, 0)
    BY <1>2, <1>4, <2>2, <2>3, <2>4, ParabolaDifference
  <2>8. ~Vanishes(x0 - x1) /\ ~Vanishes(x0 - x2) /\ ~Vanishes(x1 - x2)
    BY <1>5, VanishingDifference
  <2>9. Vanishes(k) /\ Vanishes(l) /\ Vanishes(m)
    BY <1>2, <2>5, <2>6, <2>7, <2>8, ParabolaUnique
  <2>10. Vanishes(b2 - c2) /\ Vanishes(b1 - c1) /\ Vanishes(b0 - c0)
    BY <2>4, <2>9
  <2>11. b2 = c2 /\ b1 = c1 /\ b0 = c0
    BY <2>10, VanishingDifference
  <2> QED
    BY <1>6, <2>1, <2>11, SameAmounts
<1>10. {w[2 * j - 1] : j \in 1..3} = {x0, x1, x2}
  <2>1. 1..3 = {1, 2, 3} /\ 2 * 1 - 1 = 1 /\ 2 * 2 - 1 = 3 /\ 2 * 3 - 1 = 5
    OBVIOUS
  <2> QED
    BY <1>1, <2>1
<1>11. Cardinality({x0, x1, x2}) = 3
  BY <1>5, ThreeValues
<1>12. {a \in [1..3 -> Cell] : through(a)} = {t}
  BY <1>6, <1>8, <1>9
<1>13. {a \in [1..3 -> 0..(Prime - 1)] :
          \A j \in 1..3 : E(Horner(w[2 * j - 1], a)) = w[2 * j]} = {t}
  BY <1>12 DEF Cell, through
<1> QED
  BY <1>10, <1>11, <1>13 DEF InterpolationMeans, t

(* fri_lin_inter puts out a value at alpha of a line that is y0 at s and   *)
(* y1 at -s: half their difference over s, times alpha, and half their sum. *)
THEOREM LineIsSound ==
    ASSUME IsField(Prime), NEW w \in [1..5 -> Cell], LineHolds(w)
    PROVE  LineMeans(w)
<1>1. PICK y0 \in Cell, y1 \in Cell, s \in Cell, alpha \in Cell, out \in Cell :
        y0 = w[1] /\ y1 = w[2] /\ s = w[3] /\ alpha = w[4] /\ out = w[5]
  OBVIOUS
<1>2. y0 \in Int /\ y1 \in Int /\ s \in Int /\ alpha \in Int /\ out \in Int
  BY PrimeFacts
<1>3. Vanishes(2 * s * (out - y0) - (y1 - y0) * (s - alpha))
  BY <1>1 DEF LineHolds
<1> SUFFICES ASSUME s # 0
             PROVE  \E a, b \in Cell : /\ E(a * s + b) = y0 /\ E(b - a * s) = y1
                                       /\ E(a * alpha + b) = out
  BY <1>1 DEF LineMeans, Cell
<1>4. PICK d \in Int : d = 2 * s
  BY <1>2
<1>5. ~Vanishes(d)
  <2>1. 2 \in Cell
    BY PrimeFacts DEF Cell
  <2>2. ~Vanishes(2) /\ ~Vanishes(s)
    BY <2>1, VanishingCell
  <2> QED
    BY <1>2, <1>4, <2>2, VanishingFactor
<1>6. PICK i \in Int : Vanishes(d * i - 1)
  <2>1. PICK j \in Cell : Vanishes(d * j - 1)
    BY <1>5, InverseExists
  <2> QED
    BY <2>1, PrimeFacts
<1>7. PICK k \in Int, a \in Cell : k = (y0 - y1) * i /\ a = E(k)
  <2>1. (y0 - y1) * i \in Int
    BY <1>2
  <2> QED
    BY <2>1, PrimeFacts
<1>8. a \in Int
  BY PrimeFacts
<1>9. PICK l \in Int, b \in Cell : l = y0 - a * s /\ b = E(l)
  <2>1. y0 - a * s \in Int
    BY <1>2, <1>8
  <2> QED
    BY <2>1, PrimeFacts
<1>10. b \in Int
  BY PrimeFacts
<1>11. PICK p \in Int, q \in Int, r \in Int, g \in Int, e \in Int :
         p = a - k /\ q = b - l /\ r = d * i - 1 /\ e = 1
         /\ g = 2 * s * (out - y0) - (y1 - y0) * (s - alpha)
  <2>1. a - k \in Int /\ b - l \in Int /\ d * i - 1 \in Int
    BY <1>8, <1>10
  <2>2. 2 * s * (out - y0) - (y1 - y0) * (s - alpha) \in Int
    BY <1>2
  <2> QED
    BY <2>1, <2>2
<1>12. Vanishes(p) /\ Vanishes(q) /\ Vanishes(r) /\ Vanishes(g)
  BY <1>3, <1>6, <1>7, <1>9, <1>11, RemainderVanishes
<1>13. E(a * s + b) = y0
  <2>1. PICK v \in Int, c \in Int : v = a * s + b /\ c = v - y0
    BY <1>2, <1>8, <1>10
  <2>2. c = q
    BY <1>2, <1>8, <1>9, <1>10, <1>11, <2>1
  <2> QED
    BY <1>12, <2>1, <2>2, RemainderIsCell
<1>14. PICK h \in Int, n \in Int : h = d * a - (y0 - y1) /\ n = y0 - y1
  BY <1>2, <1>8
<1>15. Vanishes(h)
  <2>1. h = d * p + n * r
    BY <1>2, <1>7, <1>8, <1>11, <1>14
  <2> QED
    BY <1>12, <2>1, Combination
<1>16. E(b - a * s) = y1
  <2>1. PICK v \in Int, c \in Int, m \in Int : v = b - a * s /\ c = v - y1 /\ m = 0 - 1
    BY <1>2, <1>8, <1>10
  <2>2. c = e * q + m * h
    BY <1>2, <1>4, <1>8, <1>9, <1>10, <1>11, <1>14, <2>1
  <2>3. Vanishes(c)
    BY <1>12, <1>15, <2>2, Combination
  <2> QED
    BY <2>1, <2>3, RemainderIsCell
<1>17. E(a * alpha + b) = out
  <2>1. PICK v \in Int, c \in Int : v = a * alpha + b /\ c = v - out
    BY <1>2, <1>8, <1>10
  <2>2. PICK x \in Int, u \in Int, y \in Int, m \in Int :
          x = d * c /\ u = alpha - s /\ y = d * q + u * h /\ m = 0 - 1
    BY <1>2
  <2>3. x = e * y + m * g
    BY <1>2, <1>4, <1>8, <1>9, <1>10, <1>11, <1>14, <2>1, <2>2
  <2>4. Vanishes(y)
    BY <1>12, <1>15, <2>2, Combination
  <2>5. Vanishes(x)
    BY <1>12, <2>3, <2>4, Combination
  <2>6. Vanishes(c)
    BY <1>5, <2>2, <2>5, VanishingFactor
  <2> QED
    BY <2>1, <2>6, RemainderIsCell
<1> QED
  BY <1>13, <1>16, <1>17

-----------------------------------------------------------------------------
LEMMA LengthOfFunction ==
    ASSUME NEW n \in Nat, NEW w \in [1..n -> Cell]
    PROVE  w \in Seq(Cell) /\ Len(w) = n
<1>1. w \in Seq(Cell)
  BY SeqDef
<1>2. DOMAIN w = 1..n /\ DOMAIN w = 1..Len(w) /\ Len(w) \in Nat
  BY <1>1, LenProperties
<1>3. Len(w) = n
  BY <1>2
<1> QED
  BY <1>1, <1>3

(* What a component fills in satisfies its gates.  An inverse is a power,  *)
(* which inverts by Fermat's little theorem: the hypothesis holds of every *)
(* prime.                                                                  *)

PowerInverts ==
    \A x \in Int : ~Vanishes(x) =>
        Raise(x, Prime - 2) \in Cell /\ E(x * Raise(x, Prime - 2)) = 1

LEMMA InvertedInverts ==
    ASSUME IsField(Prime), PowerInverts, NEW x \in Int
    PROVE  /\ Inverted(x) \in Cell /\ Inverted(x) \in Int
           /\ ~Vanishes(x) => Vanishes(x * Inverted(x) - 1)
           /\ Vanishes(x) => Inverted(x) = 0
<1>1. Vanishes(x) => Inverted(x) = 0
  BY DEF Vanishes, Inverted
<1>2. ASSUME ~Vanishes(x)
      PROVE  Inverted(x) \in Cell /\ Vanishes(x * Inverted(x) - 1)
  <2>1. Inverted(x) \in Cell /\ E(x * Inverted(x)) = 1
    BY <1>2 DEF PowerInverts, Vanishes, Inverted
  <2>2. PICK y \in Int : y = x * Inverted(x)
    BY <2>1, PrimeFacts
  <2>3. Vanishes(y - 1)
    BY <2>1, <2>2, RemainderIsCell, PrimeFacts
  <2> QED
    BY <2>1, <2>2, <2>3
<1> QED
  BY <1>1, <1>2, PrimeFacts

LEMMA BitVanishes ==
    ASSUME IsField(Prime), NEW b \in {0, 1}
    PROVE  IsBit(b)
<1>1. b * (b - 1) = 0
  OBVIOUS
<1> QED
  BY <1>1, OneStays DEF IsBit

LEMMA FlagIsFilled ==
    ASSUME IsField(Prime), PowerInverts, NEW inequality \in BOOLEAN,
           NEW x \in Cell, NEW y \in Cell
    PROVE  FlagHolds(inequality, FlagRow(inequality, x, y))
<1>0. PICK w : w = FlagRow(inequality, x, y)
  OBVIOUS
<1>1. /\ w[1] = x /\ w[2] = y /\ w[3] = Inverted(x - y)
      /\ w[4] = IF x = y THEN IF inequality THEN 0 ELSE 1 ELSE IF inequality THEN 1 ELSE 0
  BY <1>0 DEF FlagRow
<1>2. PICK d \in Int, i \in Int, f \in {0, 1} : d = x - y /\ i = w[3] /\ f = w[4]
  <2>1. PICK e \in Int : e = x - y
    BY PrimeFacts
  <2>2. Inverted(e) \in Int
    BY InvertedInverts
  <2> QED
    BY <1>1, <2>1, <2>2
<1>3. ASSUME Vanishes(d * i + (IF inequality THEN -f ELSE f - 1)),
             Vanishes((i - d) * (IF inequality THEN f - 1 ELSE f))
      PROVE  FlagHolds(inequality, w)
  BY <1>1, <1>2, <1>3, BitVanishes DEF FlagHolds
<1>4. CASE x = y
  <2>1. d = 0 /\ i = 0
    <3>1. d = 0
      BY <1>2, <1>4, PrimeFacts
    <3> QED
      BY <1>1, <1>2, <3>1, OneStays, InvertedInverts
  <2>2. f = IF inequality THEN 0 ELSE 1
    BY <1>1, <1>2, <1>4
  <2>3. /\ d * i + (IF inequality THEN -f ELSE f - 1) = 0
        /\ (i - d) * (IF inequality THEN f - 1 ELSE f) = 0
    <3>1. CASE inequality
      <4>1. f = 0
        BY <2>2, <3>1
      <4>2. d * i + (-f) = 0 /\ (i - d) * (f - 1) = 0
        BY <2>1, <4>1
      <4> QED
        BY <3>1, <4>2
    <3>2. CASE ~inequality
      <4>1. f = 1
        BY <2>2, <3>2
      <4>2. d * i + (f - 1) = 0 /\ (i - d) * f = 0
        BY <2>1, <4>1
      <4> QED
        BY <3>2, <4>2
    <3> QED
      BY <3>1, <3>2
  <2> QED
    BY <1>0, <1>3, <2>3, OneStays
<1>5. CASE x # y
  <2>1. Vanishes(d * i - 1)
    <3>1. ~Vanishes(d)
      BY <1>2, <1>5, VanishingDifference
    <3> QED
      BY <1>1, <1>2, <3>1, InvertedInverts
  <2>2. f = IF inequality THEN 1 ELSE 0
    BY <1>1, <1>2, <1>5
  <2>3. PICK p \in Int : p = d * i
    OBVIOUS
  <2>4. /\ d * i + (IF inequality THEN -f ELSE f - 1) = d * i - 1
        /\ (i - d) * (IF inequality THEN f - 1 ELSE f) = 0
    BY <2>2, <2>3
  <2> QED
    BY <1>0, <1>3, <2>1, <2>4, OneStays
<1> QED
  BY <1>4, <1>5

LEMMA DivisionIsFilled ==
    ASSUME IsField(Prime), PowerInverts, NEW x \in Cell, NEW y \in Cell, y # 0
    PROVE  DivisionHolds(DivisionRow(x, y))
<1>1. x \in Int /\ y \in Int
  BY PrimeFacts
<1>2. PICK i \in Int : i = Inverted(y)
  BY <1>1, InvertedInverts
<1>3. PICK k \in Int, q \in Int : k = x * i /\ q = E(k)
  <2>1. x * i \in Int
    BY <1>1
  <2> QED
    BY <2>1, RemainderVanishes
<1>4. Vanishes(y * i - 1)
  BY <1>1, <1>2, VanishingCell, InvertedInverts
<1>5. PICK d \in Int, r \in Int, g \in Int : d = q - k /\ r = y * i - 1 /\ g = y * q - x
  BY <1>1
<1>6. g = y * d + x * r
  BY <1>1, <1>3, <1>5
<1>7. Vanishes(g)
  BY <1>1, <1>3, <1>4, <1>5, <1>6, RemainderVanishes, Combination
<1> QED
  BY <1>2, <1>3, <1>4, <1>5, <1>7 DEF DivisionRow, DivisionHolds

(* The flag that a value is not zero, as the product with its inverse.     *)
LEMMA InverseFlagIsFilled ==
    ASSUME IsField(Prime), PowerInverts, NEW y \in Cell, NEW i, i = Inverted(y),
           NEW f, f = E(y * i)
    PROVE  /\ i \in Cell /\ f \in Cell /\ f \in {0, 1} /\ IsBit(f)
           /\ Vanishes(f - y * i) /\ Vanishes(y * i - f) /\ Vanishes((i - y) * (f - 1))
<1>1. y \in Int /\ i \in Cell /\ i \in Int
  BY PrimeFacts, InvertedInverts
<1>2. PICK k \in Int : k = y * i
  BY <1>1
<1>3. f \in Cell /\ f \in Int /\ Vanishes(f - y * i) /\ Vanishes(y * i - f)
  BY <1>2, RemainderVanishes
<1>4. y = 0 => i = 0 /\ f = 0
  <2>1. ASSUME y = 0 PROVE i = 0 /\ f = 0
    <3>1. i = 0
      BY <1>1, <2>1, OneStays, InvertedInverts
    <3>2. y * i = 0
      BY <2>1, <3>1
    <3> QED
      BY <3>1, <3>2, PrimeFacts
  <2> QED
    BY <2>1
<1>5. y # 0 => f = 1
  <2>1. ASSUME y # 0 PROVE f = 1
    <3>1. Vanishes(k - 1)
      BY <1>1, <1>2, <2>1, VanishingCell, InvertedInverts
    <3> QED
      BY <1>2, <3>1, RemainderIsCell, PrimeFacts
  <2> QED
    BY <2>1
<1>6. f \in {0, 1} /\ (i - y) * (f - 1) = 0
  BY <1>1, <1>4, <1>5
<1>7. IsBit(f) /\ Vanishes((i - y) * (f - 1))
  BY <1>6, BitVanishes, OneStays
<1> QED
  BY <1>1, <1>3, <1>6, <1>7

LEMMA DivisionOrZeroIsFilled ==
    ASSUME IsField(Prime), PowerInverts, NEW x \in Cell, NEW y \in Cell
    PROVE  DivisionOrZeroHolds(DivisionOrZeroRow(x, y))
<1>1. x \in Int /\ y \in Int
  BY PrimeFacts
<1>2. PICK i \in Int : i = Inverted(y)
  BY <1>1, InvertedInverts
<1>3. PICK f \in Int : f = E(y * i)
  <2>1. y * i \in Int
    BY <1>1
  <2> QED
    BY <2>1, RemainderVanishes
<1>4. PICK k \in Int, q \in Int : k = x * i /\ q = E(k)
  <2>1. x * i \in Int
    BY <1>1
  <2> QED
    BY <2>1, RemainderVanishes
<1>5. Vanishes(x * i - q)
  BY <1>4, RemainderVanishes
<1>6. IsBit(f) /\ Vanishes(y * i - f) /\ Vanishes((i - y) * (f - 1))
  BY <1>2, <1>3, InverseFlagIsFilled
<1> QED
  BY <1>2, <1>3, <1>4, <1>5, <1>6 DEF DivisionOrZeroRow, DivisionOrZeroHolds

LEMMA SwapIsFilled ==
    ASSUME IsField(Prime), NEW b \in {0, 1}, NEW c \in Cell, NEW d \in Cell
    PROVE  SwapHolds(SwapRow(b, c, d))
<1>1. c \in Int /\ d \in Int
  BY PrimeFacts
<1>2. PICK l \in Int, r \in Int : l = (IF b = 0 THEN c ELSE d) /\ r = (IF b = 0 THEN d ELSE c)
  BY <1>1
<1>3. l - ((1 - b) * c + b * d) = 0 /\ r - ((1 - b) * d + b * c) = 0
  BY <1>1, <1>2
<1>4. IsBit(b) /\ Vanishes(0)
  BY BitVanishes, OneStays
<1> QED
  BY <1>2, <1>3, <1>4 DEF SwapRow, SwapHolds

LEMMA LineIsFilled ==
    ASSUME IsField(Prime), PowerInverts, NEW y0 \in Cell, NEW y1 \in Cell,
           NEW s \in Cell, s # 0, NEW alpha \in Cell
    PROVE  LineHolds(LineRow(y0, y1, s, alpha))
<1>1. y0 \in Int /\ y1 \in Int /\ s \in Int /\ alpha \in Int
  BY PrimeFacts
<1>2. PICK t \in Int : t = 2 * s
  BY <1>1
<1>3. PICK i \in Int : i = Inverted(2 * s)
  BY <1>2, InvertedInverts
<1>4. Vanishes(t * i - 1)
  <2>1. 2 \in Cell
    BY PrimeFacts DEF Cell
  <2>2. ~Vanishes(2) /\ ~Vanishes(s)
    BY <2>1, VanishingCell
  <2>3. ~Vanishes(t)
    BY <1>1, <1>2, <2>2, VanishingFactor
  <2> QED
    BY <1>2, <1>3, <2>3, InvertedInverts
<1>5. PICK k \in Int : k = y0 + (y1 - y0) * (s - alpha) * i
  BY <1>1
<1>6. PICK o \in Int : o = E(k)
  BY RemainderVanishes
<1>7. PICK d \in Int, r \in Int, u \in Int, g \in Int :
        d = o - k /\ r = t * i - 1 /\ u = (y1 - y0) * (s - alpha)
        /\ g = 2 * s * (o - y0) - (y1 - y0) * (s - alpha)
  <2>1. o - k \in Int /\ t * i - 1 \in Int /\ (y1 - y0) * (s - alpha) \in Int
    BY <1>1
  <2>2. 2 * s * (o - y0) - (y1 - y0) * (s - alpha) \in Int
    BY <1>1
  <2> QED
    BY <2>1, <2>2
<1>8. g = t * d + u * r
  BY <1>1, <1>2, <1>5, <1>7
<1>9. Vanishes(d) /\ Vanishes(r)
  BY <1>4, <1>6, <1>7, RemainderVanishes
<1>10. Vanishes(g)
  BY <1>8, <1>9, Combination
<1> QED
  BY <1>3, <1>5, <1>6, <1>7, <1>10 DEF LineRow, LineHolds

LEMMA LinearIsFilled ==
    ASSUME IsField(Prime), PowerInverts, NEW x0 \in Cell, NEW z0 \in Cell,
           NEW x1 \in Cell, NEW z1 \in Cell, x0 # x1
    PROVE  LinearHolds(LinearRow(x0, z0, x1, z1))
<1>1. x0 \in Int /\ z0 \in Int /\ x1 \in Int /\ z1 \in Int
  BY PrimeFacts
<1>2. PICK t \in Int : t = x1 - x0
  BY <1>1
<1>3. PICK i \in Int : i = Inverted(x1 - x0)
  BY <1>2, InvertedInverts
<1>4. Vanishes((x1 - x0) * i - 1)
  <2>1. ~Vanishes(t)
    BY <1>2, VanishingDifference
  <2> QED
    BY <1>2, <1>3, <2>1, InvertedInverts
<1>5. PICK k0 \in Int, k1 \in Int : k0 = (x1 * z0 - x0 * z1) * i /\ k1 = (z1 - z0) * i
  BY <1>1
<1>6. PICK c0 \in Int, c1 \in Int : c0 = E(k0) /\ c1 = E(k1)
  BY RemainderVanishes
<1>7. PICK r \in Int, d0 \in Int, d1 \in Int, e \in Int :
        r = (x1 - x0) * i - 1 /\ d0 = c0 - k0 /\ d1 = c1 - k1 /\ e = 1
  BY <1>1
<1>8. Vanishes(r) /\ Vanishes(d0) /\ Vanishes(d1)
  BY <1>4, <1>6, <1>7, RemainderVanishes
<1>9. ASSUME NEW x \in Int, NEW z \in Int, (x = x0 /\ z = z0) \/ (x = x1 /\ z = z1)
      PROVE  Vanishes(c1 * x + c0 - z)
  <2>1. PICK u \in Int, v \in Int, g \in Int :
          u = x * d1 + e * d0 /\ v = e * u + z * r /\ g = c1 * x + c0 - z
    OBVIOUS
  <2>2. g = v
    <3>1. k1 * x + k0 = z * ((x1 - x0) * i)
      <4>1. CASE x = x0 /\ z = z0
        BY <1>1, <1>5, <4>1
      <4>2. CASE x = x1 /\ z = z1
        BY <1>1, <1>5, <4>2
      <4> QED
        BY <1>9, <4>1, <4>2
    <3>2. PICK f \in Int : f = (x1 - x0) * i
      BY <1>1
    <3>3. v = x * (c1 - k1) + (c0 - k0) + z * (f - 1)
      BY <1>7, <2>1, <3>2
    <3> QED
      BY <2>1, <3>1, <3>2, <3>3
  <2>3. Vanishes(u)
    BY <1>8, <2>1, Combination
  <2>4. Vanishes(v)
    BY <1>8, <2>1, <2>3, Combination
  <2> QED
    BY <2>1, <2>2, <2>4
<1>10. Vanishes(c1 * x0 + c0 - z0) /\ Vanishes(c1 * x1 + c0 - z1)
  BY <1>1, <1>9
<1> QED
  BY <1>3, <1>4, <1>5, <1>6, <1>10 DEF LinearRow, LinearHolds

LEMMA AndIsFilled ==
    ASSUME IsField(Prime), PowerInverts, NEW x \in Cell, NEW y \in Cell,
           NEW width \in Nat, width > 1
    PROVE  /\ AndHolds(LaidOut("and", width, AndValues(x, y)))
           /\ Len(LaidOut("and", width, AndValues(x, y))) > 4
<1>1. x \in Int /\ y \in Int
  BY PrimeFacts
<1>2. PICK k \in Int : k = x * y
  BY <1>1
<1>3. PICK p \in Cell : p = E(x * y) /\ Vanishes(p - x * y)
  BY <1>2, RemainderVanishes
<1>4. PICK i \in Cell : i = Inverted(p)
  BY InverseFlagIsFilled
<1>5. PICK f \in Cell : f = E(p * i)
  BY <1>4, InverseFlagIsFilled
<1>6. IsBit(f) /\ Vanishes(f - p * i) /\ Vanishes((i - p) * (f - 1))
  BY <1>4, <1>5, InverseFlagIsFilled
<1> DEFINE v == <<x, y, p, i, f>>
           n == width * FlagRows("and", width)
           w == LaidOut("and", width, v)
<1>7. AndValues(x, y) = v
  BY <1>3, <1>4, <1>5 DEF AndValues
<1>8. n \in Nat /\ n > 4
  BY DEF FlagRows
<1>9. v \in Seq(Cell) /\ Len(v) = 5
  OBVIOUS
<1> HIDE DEF n
<1>10. w = [j \in 1..n |-> IF j = n THEN v[5] ELSE IF j <= 5 THEN v[j] ELSE 0]
  BY <1>9 DEF LaidOut, n
<1>11. w \in Seq(Cell) /\ Len(w) = n
  <2>1. \A j \in 1..5 : v[j] \in Cell
    BY <1>9
  <2>2. ASSUME NEW j \in 1..n
        PROVE  (IF j = n THEN v[5] ELSE IF j <= 5 THEN v[j] ELSE 0) \in Cell
    BY <1>8, <2>1, PrimeFacts
  <2> HIDE DEF v, w
  <2>3. w \in [1..n -> Cell]
    BY <1>10, <2>2
  <2> QED
    BY <1>8, <2>3, LengthOfFunction
<1>12. w[1] = x /\ w[2] = y /\ w[3] = p /\ w[4] = i /\ w[Len(w)] = f
  BY <1>8, <1>10, <1>11
<1> HIDE DEF v, w
<1>13. AndHolds(w)
  BY <1>3, <1>6, <1>12 DEF AndHolds
<1> QED
  BY <1>7, <1>8, <1>11, <1>13 DEF w

LEMMA OrIsFilled ==
    ASSUME IsField(Prime), PowerInverts, NEW x \in Cell, NEW y \in Cell,
           NEW width \in Nat, width > 1
    PROVE  /\ OrHolds(LaidOut("or", width, OrValues(x, y)))
           /\ Len(LaidOut("or", width, OrValues(x, y))) > 6
<1>1. x \in Int /\ y \in Int
  BY PrimeFacts
<1>2. PICK i \in Cell, j \in Cell : i = Inverted(x) /\ j = Inverted(y)
  BY InverseFlagIsFilled
<1>3. PICK g \in Cell, h \in Cell : g = E(x * i) /\ h = E(y * j)
  BY <1>2, InverseFlagIsFilled
<1>4. IsBit(g) /\ Vanishes(g - x * i) /\ Vanishes((i - x) * (g - 1))
  BY <1>2, <1>3, InverseFlagIsFilled
<1>5. IsBit(h) /\ Vanishes(h - y * j) /\ Vanishes((j - y) * (h - 1))
  BY <1>2, <1>3, InverseFlagIsFilled
<1>6. g \in Int /\ h \in Int
  BY PrimeFacts
<1>7. PICK k \in Int : k = g + h - g * h
  BY <1>6
<1>8. PICK f \in Cell : f = E(g + h - g * h) /\ Vanishes(f - k)
  BY <1>7, RemainderVanishes
<1>9. Vanishes(f - g - h + g * h)
  <2>1. f - g - h + g * h = f - k
    BY <1>6, <1>7, PrimeFacts
  <2> QED
    BY <1>8, <2>1
<1> DEFINE v == <<x, y, i, j, g, h, f>>
           n == width * FlagRows("or", width)
           w == LaidOut("or", width, v)
<1>10. OrValues(x, y) = v
  BY <1>2, <1>3, <1>8 DEF OrValues
<1>11. n \in Nat /\ n > 6
  BY DEF FlagRows
<1>12. v \in Seq(Cell) /\ Len(v) = 7
  OBVIOUS
<1> HIDE DEF n
<1>13. w = [c \in 1..n |-> IF c = n THEN v[7] ELSE v[((c - 1) % 7) + 1]]
  BY <1>12 DEF LaidOut, n
<1>14. w \in Seq(Cell) /\ Len(w) = n
  <2>1. \A c \in 1..7 : v[c] \in Cell
    BY <1>12
  <2> HIDE DEF v, w
  <2>2. ASSUME NEW c \in 1..n
        PROVE  (IF c = n THEN v[7] ELSE v[((c - 1) % 7) + 1]) \in Cell
    BY <1>11, <2>1
  <2>3. w \in [1..n -> Cell]
    BY <1>13, <2>2
  <2> QED
    BY <1>11, <2>3, LengthOfFunction
<1>15. /\ w[1] = x /\ w[2] = y /\ w[3] = i /\ w[4] = j /\ w[5] = g /\ w[6] = h
       /\ w[Len(w)] = f
  <2>1. \A c \in 1..6 : ((c - 1) % 7) + 1 = c
    OBVIOUS
  <2> HIDE DEF v, w
  <2>2. \A c \in 1..6 : w[c] = v[c]
    BY <1>11, <1>13, <2>1
  <2>3. w[n] = v[7]
    BY <1>11, <1>13
  <2>4. v[1] = x /\ v[2] = y /\ v[3] = i /\ v[4] = j /\ v[5] = g /\ v[6] = h /\ v[7] = f
    BY DEF v
  <2> QED
    BY <1>14, <2>2, <2>3, <2>4
<1> HIDE DEF v, w
<1>16. OrHolds(w)
  BY <1>4, <1>5, <1>9, <1>15 DEF OrHolds
<1> QED
  BY <1>10, <1>11, <1>14, <1>16 DEF w

(* The determinants of quadratic_interpolation give a parabola through the *)
(* three points, times the determinant of their places.                    *)
LEMMA CramersRule ==
    ASSUME NEW x1 \in Int, NEW x2 \in Int, NEW x3 \in Int,
           NEW z1 \in Int, NEW z2 \in Int, NEW z3 \in Int,
           NEW e0 \in Int, NEW e1 \in Int, NEW e2 \in Int, NEW v \in Int,
           e0 = z1 * (x2 * (x3 * x3) - (x2 * x2) * x3) - x1 * (z2 * (x3 * x3) - (x2 * x2) * z3)
                + (x1 * x1) * (z2 * x3 - x2 * z3),
           e1 = 1 * (z2 * (x3 * x3) - (x2 * x2) * z3) - z1 * (1 * (x3 * x3) - (x2 * x2) * 1)
                + (x1 * x1) * (1 * z3 - z2 * 1),
           e2 = 1 * (x2 * z3 - z2 * x3) - x1 * (1 * z3 - z2 * 1) + z1 * (1 * x3 - x2 * 1),
           v = (x2 - x1) * (x3 - x1) * (x3 - x2)
    PROVE  /\ e2 * x1 * x1 + e1 * x1 + e0 = z1 * v
           /\ e2 * x2 * x2 + e1 * x2 + e0 = z2 * v
           /\ e2 * x3 * x3 + e1 * x3 + e0 = z3 * v
<1>1. e2 * x1 * x1 + e1 * x1 + e0 = z1 * v
  OBVIOUS
<1>2. e2 * x2 * x2 + e1 * x2 + e0 = z2 * v
  OBVIOUS
<1>3. e2 * x3 * x3 + e1 * x3 + e0 = z3 * v
  OBVIOUS
<1> QED
  BY <1>1, <1>2, <1>3

LEMMA QuadraticIsFilled ==
    ASSUME IsField(Prime), PowerInverts, NEW x \in [1..3 -> Cell], NEW z \in [1..3 -> Cell],
           x[1] # x[2], x[1] # x[3], x[2] # x[3]
    PROVE  QuadraticHolds(QuadraticRow(x, z))
<1>1. PICK x1 \in Cell, x2 \in Cell, x3 \in Cell, z1 \in Cell, z2 \in Cell, z3 \in Cell :
        x1 = x[1] /\ x2 = x[2] /\ x3 = x[3] /\ z1 = z[1] /\ z2 = z[2] /\ z3 = z[3]
  OBVIOUS
<1>2. /\ x1 \in Int /\ x2 \in Int /\ x3 \in Int /\ z1 \in Int /\ z2 \in Int /\ z3 \in Int
  BY PrimeFacts
<1>3. PICK v \in Int : v = (x2 - x1) * (x3 - x1) * (x3 - x2)
  BY <1>2
<1>4. PICK i \in Int : i = Inverted((x2 - x1) * (x3 - x1) * (x3 - x2))
  BY <1>3, InvertedInverts
<1>5. Vanishes((x2 - x1) * (x3 - x1) * (x3 - x2) * i - 1)
  <2>1. PICK k \in Int, l \in Int, m \in Int, n \in Int :
          k = x2 - x1 /\ l = x3 - x1 /\ m = x3 - x2 /\ n = k * l
    BY <1>2
  <2>2. ~Vanishes(k) /\ ~Vanishes(l) /\ ~Vanishes(m)
    BY <1>1, <2>1, VanishingDifference
  <2>3. v = n * m
    BY <1>3, <2>1
  <2>4. ~Vanishes(n)
    BY <2>1, <2>2, VanishingFactor
  <2>5. ~Vanishes(v)
    BY <2>2, <2>3, <2>4, VanishingFactor
  <2>6. Vanishes(v * i - 1)
    BY <1>3, <1>4, <2>5, InvertedInverts
  <2> QED
    BY <1>3, <2>6
<1> DEFINE D0 == Det(<<z1, x1, x1 * x1>>, <<z2, x2, x2 * x2>>, <<z3, x3, x3 * x3>>)
           D1 == Det(<<1, z1, x1 * x1>>, <<1, z2, x2 * x2>>, <<1, z3, x3 * x3>>)
           D2 == Det(<<1, x1, z1>>, <<1, x2, z2>>, <<1, x3, z3>>)
<1>6. PICK e0 \in Int, e1 \in Int, e2 \in Int :
        /\ e0 = D0 /\ e1 = D1 /\ e2 = D2
        /\ e0 = z1 * (x2 * (x3 * x3) - (x2 * x2) * x3) - x1 * (z2 * (x3 * x3) - (x2 * x2) * z3)
                + (x1 * x1) * (z2 * x3 - x2 * z3)
        /\ e1 = 1 * (z2 * (x3 * x3) - (x2 * x2) * z3) - z1 * (1 * (x3 * x3) - (x2 * x2) * 1)
                + (x1 * x1) * (1 * z3 - z2 * 1)
        /\ e2 = 1 * (x2 * z3 - z2 * x3) - x1 * (1 * z3 - z2 * 1) + z1 * (1 * x3 - x2 * 1)
  <2>1. /\ z1 * (x2 * (x3 * x3) - (x2 * x2) * x3) - x1 * (z2 * (x3 * x3) - (x2 * x2) * z3)
           + (x1 * x1) * (z2 * x3 - x2 * z3) \in Int
    BY <1>2
  <2>2. 1 * (z2 * (x3 * x3) - (x2 * x2) * z3) - z1 * (1 * (x3 * x3) - (x2 * x2) * 1)
           + (x1 * x1) * (1 * z3 - z2 * 1) \in Int
    BY <1>2
  <2>3. 1 * (x2 * z3 - z2 * x3) - x1 * (1 * z3 - z2 * 1) + z1 * (1 * x3 - x2 * 1) \in Int
    BY <1>2
  <2> QED
    BY <2>1, <2>2, <2>3 DEF Det
<1> HIDE DEF D0, D1, D2
<1>18. /\ e2 * x1 * x1 + e1 * x1 + e0 = z1 * v
       /\ e2 * x2 * x2 + e1 * x2 + e0 = z2 * v
       /\ e2 * x3 * x3 + e1 * x3 + e0 = z3 * v
  BY <1>2, <1>3, <1>6, CramersRule
<1>7. PICK k0 \in Int, k1 \in Int, k2 \in Int : k0 = e0 * i /\ k1 = e1 * i /\ k2 = e2 * i
  OBVIOUS
<1>8. PICK c0 \in Int, c1 \in Int, c2 \in Int : c0 = E(k0) /\ c1 = E(k1) /\ c2 = E(k2)
  BY RemainderVanishes
<1>9. PICK r \in Int, d0 \in Int, d1 \in Int, d2 \in Int, e \in Int :
        r = v * i - 1 /\ d0 = c0 - k0 /\ d1 = c1 - k1 /\ d2 = c2 - k2 /\ e = 1
  OBVIOUS
<1>10. Vanishes(r) /\ Vanishes(d0) /\ Vanishes(d1) /\ Vanishes(d2)
  BY <1>3, <1>5, <1>8, <1>9, RemainderVanishes
<1>11. ASSUME NEW a \in Int, NEW b \in Int,
              (a = x1 /\ b = z1) \/ (a = x2 /\ b = z2) \/ (a = x3 /\ b = z3)
       PROVE  Vanishes(c2 * a * a + c1 * a + c0 - b)
  <2>1. e2 * a * a + e1 * a + e0 = b * v
    BY <1>11, <1>18
  <2>2. k2 * a * a + k1 * a + k0 = b * (v * i)
    <3>1. k2 * a * a + k1 * a + k0 = (e2 * a * a + e1 * a + e0) * i
      BY <1>7
    <3>2. (b * v) * i = b * (v * i)
      OBVIOUS
    <3> QED
      BY <2>1, <3>1, <3>2
  <2>3. PICK n \in Int, p \in Int, q \in Int, s \in Int, g \in Int, f \in Int :
          /\ n = a * a /\ p = n * d2 + a * d1 /\ q = e * p + e * d0
          /\ s = e * q + b * r /\ g = c2 * a * a + c1 * a + c0 - b /\ f = v * i
    OBVIOUS
  <2>4. g = s
    <3>1. s = a * a * (c2 - k2) + a * (c1 - k1) + (c0 - k0) + b * (f - 1)
      BY <1>9, <2>3
    <3>2. k2 * a * a + k1 * a + k0 = b * f
      BY <2>2, <2>3
    <3> QED
      BY <2>3, <3>1, <3>2
  <2>5. Vanishes(p)
    BY <1>10, <2>3, Combination
  <2>6. Vanishes(q)
    BY <1>10, <2>3, <2>5, Combination
  <2>7. Vanishes(s)
    BY <1>10, <2>3, <2>6, Combination
  <2> QED
    BY <2>3, <2>4, <2>7
<1>12. /\ Vanishes(c2 * x1 * x1 + c1 * x1 + c0 - z1)
       /\ Vanishes(c2 * x2 * x2 + c1 * x2 + c0 - z2)
       /\ Vanishes(c2 * x3 * x3 + c1 * x3 + c0 - z3)
  BY <1>2, <1>11
<1>13. QuadraticRow(x, z) = <<x1, z1, x2, z2, x3, z3, c0, c1, c2, i>>
  <2>1. /\ c0 = E(D0 * i) /\ c1 = E(D1 * i) /\ c2 = E(D2 * i)
    BY <1>6, <1>7, <1>8
  <2> HIDE DEF D0, D1, D2
  <2>2. /\ D0 = Det(<<z[1], x[1], x[1] * x[1]>>, <<z[2], x[2], x[2] * x[2]>>, <<z[3], x[3], x[3] * x[3]>>)
        /\ D1 = Det(<<1, z[1], x[1] * x[1]>>, <<1, z[2], x[2] * x[2]>>, <<1, z[3], x[3] * x[3]>>)
        /\ D2 = Det(<<1, x[1], z[1]>>, <<1, x[2], z[2]>>, <<1, x[3], z[3]>>)
    BY <1>1 DEF D0, D1, D2
  <2> QED
    BY <1>1, <1>4, <2>1, <2>2 DEF QuadraticRow
<1>14. PICK w : w = QuadraticRow(x, z)
  OBVIOUS
<1>15. /\ w[1] = x1 /\ w[2] = z1 /\ w[3] = x2 /\ w[4] = z2 /\ w[5] = x3 /\ w[6] = z3
       /\ w[7] = c0 /\ w[8] = c1 /\ w[9] = c2 /\ w[10] = i
  BY <1>13, <1>14
<1>16. \A k \in {1, 3, 5} : Vanishes(w[9] * w[k] * w[k] + w[8] * w[k] + w[7] - w[k + 1])
  <2>1. 1 + 1 = 2 /\ 3 + 1 = 4 /\ 5 + 1 = 6
    OBVIOUS
  <2> QED
    BY <1>12, <1>15, <2>1
<1>17. QuadraticHolds(w)
  BY <1>5, <1>15, <1>16 DEF QuadraticHolds
<1> QED
  BY <1>14, <1>17

(* What each of the components fills in satisfies its gates, for every     *)
(* input its code is made for and, of the flags, every width.              *)
THEOREM FilledRowsAreAccepted ==
    ASSUME IsField(Prime), PowerInverts
    PROVE  /\ \A b \in BOOLEAN, x, y \in Cell : FlagHolds(b, FlagRow(b, x, y))
           /\ \A x \in Cell, y \in Cell \ {0} : DivisionHolds(DivisionRow(x, y))
           /\ \A x, y \in Cell : DivisionOrZeroHolds(DivisionOrZeroRow(x, y))
           /\ \A width \in Nat \ {0, 1}, x, y \in Cell :
                 /\ AndHolds(LaidOut("and", width, AndValues(x, y)))
                 /\ OrHolds(LaidOut("or", width, OrValues(x, y)))
           /\ \A x0, z0, x1, z1 \in Cell : x0 # x1 => LinearHolds(LinearRow(x0, z0, x1, z1))
           /\ \A x, z \in [1..3 -> Cell] :
                 x[1] # x[2] /\ x[1] # x[3] /\ x[2] # x[3] => QuadraticHolds(QuadraticRow(x, z))
           /\ \A b \in {0, 1}, c, d \in Cell : SwapHolds(SwapRow(b, c, d))
           /\ \A y0, y1, alpha \in Cell, s \in Cell \ {0} : LineHolds(LineRow(y0, y1, s, alpha))
<1>1. \A b \in BOOLEAN, x, y \in Cell : FlagHolds(b, FlagRow(b, x, y))
  BY FlagIsFilled
<1>2. \A x \in Cell, y \in Cell \ {0} : DivisionHolds(DivisionRow(x, y))
  BY DivisionIsFilled
<1>3. \A x, y \in Cell : DivisionOrZeroHolds(DivisionOrZeroRow(x, y))
  BY DivisionOrZeroIsFilled
<1>4. ASSUME NEW width \in Nat \ {0, 1}, NEW x \in Cell, NEW y \in Cell
      PROVE  /\ AndHolds(LaidOut("and", width, AndValues(x, y)))
             /\ OrHolds(LaidOut("or", width, OrValues(x, y)))
  <2>1. width \in Nat /\ width > 1
    OBVIOUS
  <2> QED
    BY <2>1, AndIsFilled, OrIsFilled
<1>5. \A x0, z0, x1, z1 \in Cell : x0 # x1 => LinearHolds(LinearRow(x0, z0, x1, z1))
  BY LinearIsFilled
<1>6. \A x, z \in [1..3 -> Cell] :
         x[1] # x[2] /\ x[1] # x[3] /\ x[2] # x[3] => QuadraticHolds(QuadraticRow(x, z))
  BY QuadraticIsFilled
<1>7. \A b \in {0, 1}, c, d \in Cell : SwapHolds(SwapRow(b, c, d))
  BY SwapIsFilled
<1>8. \A y0, y1, alpha \in Cell, s \in Cell \ {0} : LineHolds(LineRow(y0, y1, s, alpha))
  BY LineIsFilled
<1> QED
  BY <1>1, <1>2, <1>3, <1>4, <1>5, <1>6, <1>7, <1>8

-----------------------------------------------------------------------------
(* Powers, and numbers in a base                                          *)

LEMMA ExpIs ==
    ASSUME NEW b \in Nat \ {0}
    PROVE  /\ Exp(b, 0) = 1
           /\ \A n \in Nat : Exp(b, n) \in Nat \ {0} /\ Exp(b, n + 1) = b * Exp(b, n)
<1>1. \A n : Exp(b, n) = PowerOf(b, n)
  BY DEF Exp, PowerOf
<1> QED
  BY <1>1, PowersGrow

LEMMA ModulusFacts ==
    ASSUME Prime \in Nat \ {0}
    PROVE  \A x \in Int : E(x) \in 0..(Prime - 1) /\ E(x) \in Nat /\ E(E(x)) = E(x)
<1>1. \A x \in Int : E(x) \in 0..(Prime - 1)
  BY ElementRemains DEF E
<1>2. \A x \in 0..(Prime - 1) : x \in Int /\ E(x) = x
  BY ElementRemains DEF E
<1> QED
  BY <1>1, <1>2

(* Horner's scheme, from each coefficient to the next.                     *)
LEMMA HornerSteps ==
    ASSUME Prime \in Nat \ {0}, NEW x \in Int, NEW s \in Seq(Int)
    PROVE  \E h \in [0..Len(s) -> 0..(Prime - 1)] :
              /\ h[0] = 0 /\ \A j \in 1..Len(s) : h[j] = E(h[j - 1] * x + s[j])
              /\ Horner(x, s) = h[Len(s)]
<1> DEFINE n == Len(s)
           R == 0..(Prime - 1)
           step == [v \in (1..n) \X R |-> E(v[2] * x + s[v[1]])]
           IsScheme(g) == g = [j \in 0..n |-> IF j = 0 THEN 0 ELSE E(g[j - 1] * x + s[j])]
<1>1. n \in Nat /\ 0 \in R /\ (\A j \in 1..n : s[j] \in Int)
  OBVIOUS
<1>2. step \in [(1..n) \X R -> R]
  <2>1. ASSUME NEW v \in (1..n) \X R PROVE E(v[2] * x + s[v[1]]) \in R
    <3>1. v[1] \in 1..n /\ v[2] \in Int
      OBVIOUS
    <3>2. s[v[1]] \in Int
      BY <1>1, <3>1
    <3>3. v[2] * x + s[v[1]] \in Int
      BY <3>1, <3>2
    <3> QED
      BY <3>3, ModulusFacts
  <2> QED
    BY <2>1
<1>3. PICK f : Counted(f, n, 0, step)
  BY <1>1, CountedFunctionExists
<1>4. f \in [0..n -> R]
  <2> HIDE DEF step, R
  <2> QED
    BY <1>1, <1>2, <1>3, CountedFunctionType
<1>5. IsScheme(f)
  <2>1. ASSUME NEW j \in 0..n
        PROVE  f[j] = IF j = 0 THEN 0 ELSE E(f[j - 1] * x + s[j])
    <3>1. f[j] = IF j = 0 THEN 0 ELSE step[<<j, f[j - 1]>>]
      BY <1>3 DEF Counted
    <3>2. ASSUME j # 0 PROVE step[<<j, f[j - 1]>>] = E(f[j - 1] * x + s[j])
      <4>1. j \in 1..n /\ j - 1 \in 0..n
        BY <3>2
      <4>2. <<j, f[j - 1]>> \in (1..n) \X R
        BY <1>4, <4>1
      <4> QED
        BY <4>2
    <3> HIDE DEF step
    <3> QED
      BY <3>1, <3>2
  <2>2. f = [j \in 0..n |-> f[j]]
    BY <1>4
  <2> QED
    BY <2>1, <2>2
<1>6. /\ Horner(x, s) = (CHOOSE g : IsScheme(g))[n]
      /\ IsScheme(CHOOSE g : IsScheme(g))
  BY <1>5 DEF Horner
<1>7. PICK g : IsScheme(g) /\ Horner(x, s) = g[n]
  BY <1>6
<1> HIDE DEF step
<1>8. g[0] = 0 /\ \A j \in 1..n : g[j] = E(g[j - 1] * x + s[j])
  <2>1. \A j \in 0..n : g[j] = IF j = 0 THEN 0 ELSE E(g[j - 1] * x + s[j])
    BY <1>7
  <2> HIDE DEF IsScheme
  <2>2. \A j \in 1..n : j \in 0..n /\ j # 0
    BY <1>1
  <2>3. 0 \in 0..n
    BY <1>1
  <2> QED
    BY <2>1, <2>2, <2>3
<1> DEFINE P == {j \in 0..n : g[j] \in R}
<1>9. 0 \in P
  BY <1>1, <1>8
<1>10. ASSUME NEW j \in 1..n, j - 1 \in P PROVE j \in P
  <2>1. g[j - 1] \in Int /\ s[j] \in Int
    BY <1>1, <1>10
  <2>2. g[j - 1] * x + s[j] \in Int
    BY <2>1
  <2>3. g[j] \in R
    BY <1>8, <2>2, ModulusFacts
  <2> QED
    BY <2>3
<1>11. \A j \in 0..n : j \in P
  <2> HIDE DEF P
  <2> QED
    BY <1>1, <1>9, <1>10, CountingUp
<1>12. g \in [0..n -> R]
  BY <1>7, <1>11
<1> QED
  BY <1>7, <1>8, <1>12

(* A remainder is no larger than what it is of, if that is not negative.   *)
LEMMA RemainderIsNoLarger ==
    ASSUME Prime \in Nat \ {0}, NEW x \in Nat
    PROVE  E(x) <= x
<1>1. PICK q \in Int, r \in 0..(Prime - 1) : x = Prime * q + r /\ x % Prime = r /\ x \div Prime = q
  BY Divided
<1>2. q >= 0
  <2> SUFFICES ASSUME q <= -1 PROVE FALSE
    BY <1>1
  <2>1. Prime * (q + 1) <= 0
    OBVIOUS
  <2>2. Prime * (q + 1) = Prime * q + Prime
    OBVIOUS
  <2> QED
    BY <1>1, <2>1, <2>2
<1>3. Prime * q >= 0
  BY <1>2
<1> QED
  BY <1>1, <1>3 DEF E

(* A number whose digits are bounded is.                                   *)
LEMMA HornerBelow ==
    ASSUME Prime \in Nat \ {0}, NEW x \in Nat, NEW s \in Seq(Nat),
           NEW bound \in [0..Len(s) -> Nat],
           \A j \in 1..Len(s) : bound[j - 1] * x + s[j] <= bound[j]
    PROVE  Horner(x, s) <= bound[Len(s)]
<1>1. s \in Seq(Int) /\ Len(s) \in Nat /\ \A j \in 1..Len(s) : s[j] \in Nat
  <2>1. \A j \in 1..Len(s) : s[j] \in Int /\ s[j] \in Nat
    OBVIOUS
  <2>2. s = [j \in 1..Len(s) |-> s[j]] /\ Len(s) \in Nat
    OBVIOUS
  <2>3. [j \in 1..Len(s) |-> s[j]] \in Seq(Int)
    BY <2>1, <2>2, SeqDef
  <2> QED
    BY <2>1, <2>2, <2>3
<1>2. PICK h \in [0..Len(s) -> 0..(Prime - 1)] :
        /\ h[0] = 0 /\ \A j \in 1..Len(s) : h[j] = E(h[j - 1] * x + s[j])
        /\ Horner(x, s) = h[Len(s)]
  <2>1. x \in Int
    OBVIOUS
  <2> QED
    BY <1>1, <2>1, HornerSteps
<1>6. \A j \in 0..Len(s) : h[j] \in Nat
  <2>1. 0..(Prime - 1) \subseteq Nat
    OBVIOUS
  <2> QED
    BY <1>2, <2>1
<1> DEFINE P == {j \in 0..Len(s) : h[j] <= bound[j]}
<1>3. 0 \in P
  BY <1>1, <1>2
<1>4. ASSUME NEW j \in 1..Len(s), j - 1 \in P PROVE j \in P
  <2>1. /\ j - 1 \in 0..Len(s) /\ j \in 0..Len(s) /\ h[j - 1] \in Nat /\ bound[j - 1] \in Nat
        /\ s[j] \in Nat /\ h[j - 1] <= bound[j - 1] /\ bound[j] \in Nat
    <3>1. j - 1 \in 0..Len(s) /\ j \in 0..Len(s)
      BY <1>1
    <3>2. h[j - 1] <= bound[j - 1]
      BY <1>4
    <3>3. bound[j - 1] \in Nat /\ bound[j] \in Nat
      BY <3>1
    <3> QED
      BY <1>1, <1>6, <3>1, <3>2, <3>3
  <2>2. h[j - 1] * x <= bound[j - 1] * x /\ h[j - 1] * x \in Nat /\ bound[j - 1] * x \in Nat
    <3>1. \A a \in Nat, b \in Nat : a <= b => a * x <= b * x /\ a * x \in Nat /\ b * x \in Nat
      OBVIOUS
    <3> QED
      BY <2>1, <3>1
  <2>3. h[j] <= h[j - 1] * x + s[j]
    <3>1. PICK a \in Nat : a = h[j - 1] * x + s[j]
      BY <2>1, <2>2
    <3>2. E(a) <= a /\ h[j] = E(h[j - 1] * x + s[j])
      BY <1>2, RemainderIsNoLarger
    <3> QED
      BY <3>1, <3>2
  <2>4. bound[j - 1] * x + s[j] <= bound[j]
    OBVIOUS
  <2>5. h[j] \in Int
    BY <1>6, <2>1
  <2>6. PICK a \in Nat, b \in Nat : a = h[j - 1] * x /\ b = bound[j - 1] * x
    BY <2>2
  <2>7. a <= b /\ h[j] <= a + s[j] /\ b + s[j] <= bound[j]
    BY <2>2, <2>3, <2>4, <2>6
  <2>8. h[j] <= bound[j]
    <3>1. s[j] \in Nat /\ bound[j] \in Nat /\ h[j] \in Int
      BY <2>1, <2>5
    <3> QED
      BY <2>6, <2>7, <3>1
  <2> QED
    BY <2>1, <2>8
<1> HIDE DEF P
<1>5. \A j \in 0..Len(s) : j \in P
  BY <1>1, <1>3, <1>4, CountingUp
<1> QED
  BY <1>1, <1>2, <1>5 DEF P

(* What Horner's scheme gives where the value after each coefficient is    *)
(* known.                                                                  *)
Follows(v, x, s, n) ==
    /\ v \in [0..n -> Int] /\ E(v[0]) = 0
    /\ \A j \in 1..n : E(v[j]) = E(v[j - 1] * x + s[j])

LEMMA HornerReaches ==
    ASSUME Prime \in Nat \ {0}, NEW x \in Int, NEW n \in Nat, NEW s \in Seq(Int), Len(s) = n,
           NEW v, Follows(v, x, s, n)
    PROVE  Horner(x, s) = E(v[n])
<1>1. v \in [0..n -> Int] /\ E(v[0]) = 0 /\ \A j \in 1..n : E(v[j]) = E(v[j - 1] * x + s[j])
  BY DEF Follows
<1>2. Len(s) \in Nat /\ \A j \in 1..Len(s) : s[j] \in Int
  OBVIOUS
<1>3. PICK h \in [0..Len(s) -> 0..(Prime - 1)] :
        /\ h[0] = 0 /\ \A j \in 1..Len(s) : h[j] = E(h[j - 1] * x + s[j])
        /\ Horner(x, s) = h[Len(s)]
  BY HornerSteps
<1> DEFINE P == {j \in 0..Len(s) : h[j] = E(v[j])}
<1>4. 0 \in P
  BY <1>2, <1>3, <1>1
<1>5. ASSUME NEW j \in 1..Len(s), j - 1 \in P PROVE j \in P
  <2>1. v[j - 1] \in Int /\ h[j - 1] = E(v[j - 1]) /\ s[j] \in Int /\ j \in 0..Len(s)
    <3>1. j - 1 \in 0..Len(s) /\ j \in 0..Len(s)
      BY <1>2
    <3>2. h[j - 1] = E(v[j - 1])
      BY <1>5
    <3>3. v[j - 1] \in Int
      BY <1>1, <3>1
    <3> QED
      BY <1>2, <3>1, <3>2, <3>3
  <2>2. v[j - 1] \in Int /\ h[j - 1] = E(v[j - 1]) /\ s[j] \in Int /\ j \in 0..Len(s) /\ E(v[j - 1]) \in Int
    <3>1. \A y \in Int : E(y) \in Int
      BY ModulusFacts
    <3> QED
      BY <2>1, <3>1
  <2>3. E(v[j - 1] * x) = E(E(v[j - 1]) * x)
    BY <2>2, ProductOfRemainder DEF E
  <2>4. PICK a \in Int, b \in Int : a = v[j - 1] * x /\ b = E(v[j - 1]) * x
    <3>1. \A y \in Int : y * x \in Int
      OBVIOUS
    <3> QED
      BY <2>2, <3>1
  <2>5. E(a + s[j]) = E(E(a) + s[j]) /\ E(b + s[j]) = E(E(b) + s[j])
    BY <2>2, <2>4, SumOfRemainder DEF E
  <2>6. E(v[j - 1] * x + s[j]) = E(E(v[j - 1]) * x + s[j])
    BY <2>3, <2>4, <2>5
  <2>7. h[j] = E(h[j - 1] * x + s[j]) /\ E(v[j]) = E(v[j - 1] * x + s[j])
    BY <1>3, <1>1
  <2> QED
    BY <2>2, <2>6, <2>7
<1> HIDE DEF P
<1>6. \A j \in 0..Len(s) : j \in P
  BY <1>2, <1>4, <1>5, CountingUp
<1> QED
  BY <1>2, <1>3, <1>6 DEF P

-----------------------------------------------------------------------------
(* range_check                                                             *)

(* The chunks fill the first rows of them but for fewer than a row has.    *)
LEMMA RangeLayout ==
    ASSUME NEW w \in Nat \ {0}, NEW bits \in Nat \ {0}
    PROVE  \E last \in Nat \ {0}, chunks \in Nat \ {0}, padding \in Nat :
              /\ last = Ceil(bits, w * 2) /\ chunks = Ceil(bits, 2)
              /\ last * w = chunks + padding /\ padding < w
              /\ bits = IF bits % 2 = 0 THEN 2 * chunks ELSE 2 * chunks - 1
<1>1. PICK a \in Nat \ {0} : a = w * 2
  OBVIOUS
<1>2. PICK q \in Int, r \in 0..(a - 1) : bits + a - 1 = a * q + r /\ (bits + a - 1) \div a = q
  <2>1. bits + a - 1 \in Int
    OBVIOUS
  <2> QED
    BY <2>1, Divided
<1>3. PICK p \in Int : p = q * w
  OBVIOUS
<1>4. a * q = 2 * p
  BY <1>1, <1>3
<1>5. PICK c \in Nat \ {0} : c = (bits + 1) \div 2 /\ bits = IF bits % 2 = 0 THEN 2 * c ELSE 2 * c - 1
  OBVIOUS
<1>6. q \in Nat \ {0}
  <2> SUFFICES ASSUME q <= 0 PROVE FALSE
    OBVIOUS
  <2>1. a * q <= 0
    OBVIOUS
  <2> QED
    BY <1>2, <2>1
<1>7. p - c \in Nat /\ p - c < w
  BY <1>1, <1>2, <1>4, <1>5
<1>8. Ceil(bits, w * 2) = q /\ Ceil(bits, 2) = c
  BY <1>1, <1>2, <1>5 DEF Ceil
<1> QED
  BY <1>3, <1>5, <1>6, <1>7, <1>8

(* The largest number the first p chunks can be, where padding of them are *)
(* zero and the first of the others has its share of the bits.             *)
Largest(bits, chunks, padding, p) ==
    IF p <= padding THEN 0 ELSE Exp(2, bits - 2 * (chunks + padding - p)) - 1

LEMMA LargestGrows ==
    ASSUME NEW bits \in Nat \ {0}, NEW chunks \in Nat \ {0}, NEW padding \in Nat,
           bits = IF bits % 2 = 0 THEN 2 * chunks ELSE 2 * chunks - 1
    PROVE  /\ \A p \in 0..(chunks + padding) : Largest(bits, chunks, padding, p) \in Nat
           /\ \A p \in 1..(chunks + padding), c \in Nat :
                 /\ c < 4
                 /\ p <= padding => c = 0
                 /\ p = padding + 1 /\ bits % 2 = 1 => c < 2
                 => Largest(bits, chunks, padding, p - 1) * 4 + c <= Largest(bits, chunks, padding, p)
<1> DEFINE B(p) == Largest(bits, chunks, padding, p)
<1>1. \A n \in Nat : Exp(2, n) \in Nat \ {0} /\ Exp(2, n + 1) = 2 * Exp(2, n)
  BY ExpIs
<1>2. Exp(2, 0) = 1 /\ Exp(2, 1) = 2 /\ Exp(2, 2) = 4
  <2>1. Exp(2, 0) = 1
    BY ExpIs
  <2>2. Exp(2, 0 + 1) = 2 * Exp(2, 0) /\ Exp(2, 1 + 1) = 2 * Exp(2, 1)
    BY <1>1
  <2> QED
    BY <2>1, <2>2
<1>3. ASSUME NEW p \in 0..(chunks + padding) PROVE B(p) \in Nat
  <2>1. CASE p <= padding
    BY <2>1 DEF Largest
  <2>2. CASE ~(p <= padding)
    <3>1. PICK e \in Nat : e = bits - 2 * (chunks + padding - p)
      BY <2>2
    <3>2. Exp(2, e) \in Nat \ {0} /\ B(p) = Exp(2, e) - 1
      BY <1>1, <2>2, <3>1 DEF Largest
    <3> QED
      BY <3>2
  <2> QED
    BY <2>1, <2>2
<1>4. ASSUME NEW p \in 1..(chunks + padding), NEW c \in Nat, c < 4, p <= padding => c = 0,
             p = padding + 1 /\ bits % 2 = 1 => c < 2
      PROVE  B(p - 1) * 4 + c <= B(p)
  <2>1. CASE p <= padding
    <3>1. B(p - 1) = 0 /\ B(p) = 0 /\ c = 0
      BY <1>4, <2>1 DEF Largest
    <3> QED
      BY <3>1
  <2>2. CASE p = padding + 1
    <3>1. B(p - 1) = 0
      BY <2>2 DEF Largest
    <3>2. bits - 2 * (chunks + padding - p) = IF bits % 2 = 0 THEN 2 ELSE 1
      BY <2>2
    <3>3. B(p) = IF bits % 2 = 0 THEN 3 ELSE 1
      BY <1>2, <2>2, <3>2 DEF Largest
    <3>4. bits % 2 \in {0, 1}
      OBVIOUS
    <3> QED
      BY <1>4, <2>2, <3>1, <3>3, <3>4
  <2>3. CASE p > padding + 1
    <3>1. PICK e \in Nat : e = bits - 2 * (chunks + padding - (p - 1))
      BY <2>3
    <3>2. e + 2 = bits - 2 * (chunks + padding - p) /\ ~(p <= padding) /\ ~(p - 1 <= padding)
      BY <2>3, <3>1
    <3>3. B(p - 1) = Exp(2, e) - 1 /\ B(p) = Exp(2, e + 2) - 1
      BY <3>1, <3>2 DEF Largest
    <3>4. Exp(2, e) \in Nat /\ Exp(2, e + 2) = 4 * Exp(2, e)
      <4>1. Exp(2, e + 1) = 2 * Exp(2, e) /\ Exp(2, (e + 1) + 1) = 2 * Exp(2, e + 1) /\ Exp(2, e) \in Nat
        BY <1>1
      <4>2. (e + 1) + 1 = e + 2
        OBVIOUS
      <4> QED
        BY <4>1, <4>2
    <3> QED
      BY <1>4, <3>3, <3>4
  <2> QED
    BY <2>1, <2>2, <2>3
<1> QED
  BY <1>3, <1>4

(* The coefficients of a row's sum: a value before it and the cells.       *)
Coefficients(a, t, r, w) == <<a>> \o Cells(t, r, 1, w)

LEMMA RowCoefficients ==
    ASSUME NEW a \in Nat, NEW t, NEW r, NEW w \in Nat \ {0},
           \A c \in 1..w : t[<<r, c>>] \in Nat
    PROVE  /\ Coefficients(a, t, r, w) \in Seq(Nat)
           /\ Len(Coefficients(a, t, r, w)) = w + 1
           /\ Coefficients(a, t, r, w)[1] = a
           /\ \A j \in 1..w : Coefficients(a, t, r, w)[j + 1] = t[<<r, j>>]
<1> DEFINE u == [i \in 1..w |-> t[<<r, i>>]]
<1>1. Cells(t, r, 1, w) = u
  <2>1. w - 1 + 1 = w /\ \A i \in 1..w : 1 + i - 1 = i
    OBVIOUS
  <2> QED
    BY <2>1 DEF Cells
<1>2. u \in Seq(Nat) /\ Len(u) = w /\ \A i \in 1..w : u[i] = t[<<r, i>>]
  <2>1. u \in [1..w -> Nat]
    OBVIOUS
  <2>2. u \in Seq(Nat)
    BY <2>1, SeqDef
  <2>3. DOMAIN u = 1..Len(u) /\ DOMAIN u = 1..w /\ Len(u) \in Nat
    BY <2>2, LenProperties
  <2>4. Len(u) = w
    BY <2>3
  <2> QED
    BY <2>2, <2>4
<1> HIDE DEF u
<1>3. <<a>> \in Seq(Nat) /\ Len(<<a>>) = 1 /\ <<a>>[1] = a
  OBVIOUS
<1>4. /\ <<a>> \o u \in Seq(Nat) /\ Len(<<a>> \o u) = 1 + w
      /\ \A i \in 1..(1 + w) : (<<a>> \o u)[i] = IF i <= 1 THEN <<a>>[i] ELSE u[i - 1]
  BY <1>2, <1>3, ConcatProperties
<1>5. (<<a>> \o u)[1] = a
  BY <1>3, <1>4
<1>6. ASSUME NEW j \in 1..w PROVE (<<a>> \o u)[j + 1] = t[<<r, j>>]
  <2>1. j + 1 \in 1..(1 + w) /\ ~(j + 1 <= 1) /\ j + 1 - 1 = j
    OBVIOUS
  <2> QED
    BY <1>2, <1>4, <2>1
<1> QED
  BY <1>1, <1>4, <1>5, <1>6 DEF Coefficients

RangeComponents == [kind : {"range"}, width : Nat \ {0, 1}, bits : Nat \ {0}]

(* What the gates of range_check hold for has the bits that were asked     *)
(* for, over every field, in any number of columns.                        *)
THEOREM RangeIsSound ==
    ASSUME Prime \in Nat \ {0}, NEW g \in RangeComponents, NEW f,
           NEW t \in [Positions(RangeRows(g), g.width) -> 0..(Prime - 1)],
           RangeHolds(g, f, t)
    PROVE  RangeMeans(g, f)
<1>1. PICK w \in Nat \ {0}, bits \in Nat \ {0} : w = g.width - 1 /\ bits = g.bits
  BY DEF RangeComponents
<1>2. PICK last \in Nat \ {0}, chunks \in Nat \ {0}, padding \in Nat :
        /\ last = Ceil(bits, w * 2) /\ chunks = Ceil(bits, 2)
        /\ last * w = chunks + padding /\ padding < w
        /\ bits = IF bits % 2 = 0 THEN 2 * chunks ELSE 2 * chunks - 1
  BY RangeLayout
<1>3. RangeRows(g) = 1 + last /\ RangeRows(g) - 1 = last /\ PaddingSize(g) = padding /\ g.width = w + 1
  BY <1>1, <1>2 DEF RangeRows, PaddedChunks, PaddingSize, ChunkSize, RangeComponents
<1>4. \A r \in 0..last, c \in 0..w : t[<<r, c>>] \in Nat
  <2>1. Positions(RangeRows(g), g.width) = (0..last) \X (0..w)
    BY <1>1, <1>2, <1>3 DEF Positions
  <2>2. t \in [(0..last) \X (0..w) -> 0..(Prime - 1)] /\ 0..(Prime - 1) \subseteq Nat
    BY <2>1
  <2> QED
    BY <2>2
<1>5. Exp(2, 2) = 4 /\ Exp(2, 1) = 2
  <2>1. Exp(2, 0) = 1 /\ Exp(2, 0 + 1) = 2 * Exp(2, 0) /\ Exp(2, 1 + 1) = 2 * Exp(2, 1)
    BY ExpIs
  <2> QED
    BY <2>1
<1>6. /\ \A r \in 1..last :
           /\ \A c \in 1..w : t[<<r, c>>] < 4
           /\ t[<<r, 0>>] = Horner(4, <<t[<<r - 1, 0>>]>> \o Cells(t, r, 1, w))
      /\ bits % 2 = 1 => t[<<1, padding + 1>>] < 2
      /\ t[<<0, 0>>] = 0
      /\ \A c \in 1..padding : t[<<1, c>>] = 0
      /\ t[<<last, 0>>] = f.x
  <2>1. 1 + padding = padding + 1 /\ g.width - 1 = w /\ (bits % 2 = 1 => bits % 2 # 0)
    BY <1>1
  <2> QED
    BY <1>1, <1>3, <1>5, <2>1 DEF RangeHolds, ChunkSize
<1> DEFINE B(p) == Largest(bits, chunks, padding, p)
           P == {r \in 0..last : t[<<r, 0>>] <= B(r * w)}
<1>7. \A p \in 0..(chunks + padding) : B(p) \in Nat
  BY <1>2, LargestGrows
<1>8. 0 \in P
  <2>1. B(0 * w) = 0
    BY DEF Largest
  <2> QED
    BY <1>6, <2>1
<1>9. ASSUME NEW r \in 1..last, r - 1 \in P PROVE r \in P
  <2>1. PICK before \in Nat : before = (r - 1) * w /\ r * w = before + w /\ before + w <= chunks + padding
                              /\ (r # 1 => before >= w) /\ (r = 1 => before = 0)
    <3>1. (r - 1) * w \in Nat /\ r * w = (r - 1) * w + w /\ r * w <= last * w
      OBVIOUS
    <3>2. r # 1 => (r - 1) * w >= w
      OBVIOUS
    <3>3. r = 1 => (r - 1) * w = 0
      OBVIOUS
    <3> QED
      BY <1>2, <3>1, <3>2, <3>3
  <2> DEFINE a == t[<<r - 1, 0>>]
             s == Coefficients(a, t, r, w)
             bound == [j \in 0..(w + 1) |-> IF j = 0 THEN 0 ELSE B(before + j - 1)]
  <2>2. a \in Nat /\ a <= B(before)
    BY <1>4, <1>9, <2>1
  <2>3. s \in Seq(Nat) /\ Len(s) = w + 1 /\ s[1] = a /\ \A j \in 1..w : s[j + 1] = t[<<r, j>>]
    <3> HIDE DEF a
    <3>1. \A c \in 1..w : t[<<r, c>>] \in Nat
      BY <1>4
    <3> QED
      BY <2>2, <3>1, RowCoefficients
  <2>4. bound \in [0..(w + 1) -> Nat]
    <3>1. \A j \in 1..(w + 1) : before + j - 1 \in 0..(chunks + padding)
      BY <2>1
    <3>2. \A j \in 1..(w + 1) : B(before + j - 1) \in Nat
      BY <1>7, <3>1
    <3>3. \A j \in 0..(w + 1) : (IF j = 0 THEN 0 ELSE B(before + j - 1)) \in Nat
      BY <3>2
    <3> HIDE DEF B
    <3> QED
      BY <3>3
  <2>5. \A j \in 1..(w + 1) : bound[j] = B(before + j - 1)
    OBVIOUS
  <2>6. bound[0] = 0
    OBVIOUS
  <2> HIDE DEF a, s, bound
  <2>7. ASSUME NEW j \in 1..(w + 1) PROVE bound[j - 1] * 4 + s[j] <= bound[j]
    <3>1. CASE j = 1
      <4>1. bound[1] = B(before)
        BY <2>1, <2>5
      <4>2. bound[j - 1] * 4 + s[j] = a
        BY <2>2, <2>3, <2>6, <3>1
      <4> QED
        BY <2>2, <3>1, <4>1, <4>2
    <3>2. CASE j # 1
      <4>1. PICK c \in 1..w : j = c + 1
        BY <3>2
      <4>2. PICK p \in 1..(chunks + padding) : p = before + c
        BY <2>1
      <4>3. bound[j - 1] = B(p - 1) /\ bound[j] = B(p)
        <5>1. j - 1 \in 1..(w + 1) /\ before + (j - 1) - 1 = p - 1 /\ before + j - 1 = p
          BY <4>1, <4>2
        <5> QED
          BY <2>5, <5>1
      <4>4. s[j] = t[<<r, c>>] /\ s[j] \in Nat /\ s[j] < 4
        <5>1. s[j] = t[<<r, c>>]
          BY <2>3, <4>1
        <5>2. t[<<r, c>>] \in Nat
          BY <1>4
        <5>3. t[<<r, c>>] < 4
          BY <1>6
        <5> QED
          BY <5>1, <5>2, <5>3
      <4>5. p <= padding => s[j] = 0
        <5>1. ASSUME p <= padding PROVE r = 1 /\ c \in 1..padding
          BY <1>2, <2>1, <4>2, <5>1
        <5> QED
          BY <1>6, <4>4, <5>1
      <4>6. p = padding + 1 /\ bits % 2 = 1 => s[j] < 2
        <5>1. ASSUME p = padding + 1 PROVE r = 1 /\ c = padding + 1
          BY <1>2, <2>1, <4>2, <5>1
        <5> QED
          BY <1>6, <4>4, <5>1
      <4>7. B(p - 1) * 4 + s[j] <= B(p)
        <5> HIDE DEF B
        <5> QED
          BY <1>2, <4>4, <4>5, <4>6, LargestGrows DEF B
      <4> QED
        BY <4>3, <4>7
    <3> QED
      BY <3>1, <3>2
  <2>8. Horner(4, s) <= bound[w + 1]
    BY <2>3, <2>4, <2>7, HornerBelow
  <2>9. bound[w + 1] = B(r * w)
    BY <2>1, <2>5
  <2>10. t[<<r, 0>>] = Horner(4, s)
    BY <1>6 DEF s, a, Coefficients
  <2> HIDE DEF B
  <2> QED
    BY <2>8, <2>9, <2>10
<1> HIDE DEF P
<1>10. last \in P
  <2>1. \A r \in 0..last : r \in P
    BY <1>8, <1>9, CountingUp
  <2> QED
    BY <2>1
<1>11. f.x <= B(last * w)
  BY <1>6, <1>10 DEF P
<1>12. B(last * w) = Exp(2, bits) - 1
  <2>1. ~(last * w <= padding) /\ bits - 2 * (chunks + padding - last * w) = bits
    BY <1>2
  <2> QED
    BY <2>1 DEF Largest
<1>13. Exp(2, bits) \in Nat /\ f.x \in Nat
  <2>1. Exp(2, bits) \in Nat
    BY ExpIs
  <2> QED
    BY <1>4, <1>6, <2>1
<1> QED
  BY <1>1, <1>11, <1>12, <1>13 DEF RangeMeans

(* Dividing goes on where a larger power has divided.                      *)
LEMMA QuotientIsUnique ==
    ASSUME NEW x \in Int, NEW a \in Nat \ {0}, NEW q \in Int, NEW r \in 0..(a - 1), x = a * q + r
    PROVE  x \div a = q
<1>1. PICK p \in Int, s \in 0..(a - 1) : x = a * p + s /\ x \div a = p
  BY Divided
<1>2. ASSUME NEW i \in Int, NEW k \in Int, i < k PROVE a * i + a <= a * k
  <2>1. PICK m \in Nat : k = i + 1 + m
    <3>1. k - i - 1 \in Nat /\ k = i + 1 + (k - i - 1)
      BY <1>2
    <3> QED
      BY <3>1
  <2>2. a * k = a * i + a + a * m /\ a * m >= 0
    BY <2>1
  <2> QED
    BY <2>2
<1>3. PICK u \in Int, v \in Int : u = a * q /\ v = a * p
  OBVIOUS
<1>4. ~(q < p) /\ ~(p < q)
  <2>1. ASSUME q < p PROVE FALSE
    <3>1. u + a <= v
      BY <1>2, <1>3, <2>1
    <3> QED
      BY <1>1, <1>3, <3>1
  <2>2. ASSUME p < q PROVE FALSE
    <3>1. v + a <= u
      BY <1>2, <1>3, <2>2
    <3> QED
      BY <1>1, <1>3, <3>1
  <2> QED
    BY <2>1, <2>2
<1> QED
  BY <1>1, <1>4

LEMMA DividedFurther ==
    ASSUME NEW n \in Nat, NEW m \in Nat \ {0}
    PROVE  /\ n \div m \in Nat
           /\ n \div (4 * m) = (n \div m) \div 4
           /\ n \div m = 4 * (n \div (4 * m)) + ((n \div m) % 4)
<1>1. PICK q \in Int, r \in 0..(m - 1) : n = m * q + r /\ n \div m = q
  BY Divided
<1>2. PICK b \in Int, c \in 0..3 : q = 4 * b + c /\ q % 4 = c /\ q \div 4 = b
  OBVIOUS
<1>3. PICK mb \in Int, mc \in Int : mb = m * b /\ mc = m * c
  OBVIOUS
<1>4. m * q = 4 * mb + mc /\ 0 <= mc /\ mc <= 3 * m
  <2>1. m * (4 * b + c) = 4 * (m * b) + m * c
    OBVIOUS
  <2>2. c = 0 \/ c = 1 \/ c = 2 \/ c = 3
    OBVIOUS
  <2>3. 0 <= mc /\ mc <= 3 * m
    BY <1>3, <2>2
  <2> QED
    BY <1>2, <1>3, <2>1, <2>3
<1>5. PICK d \in Nat \ {0} : d = 4 * m
  OBVIOUS
<1>6. d * b = 4 * mb
  BY <1>3, <1>5
<1>7. mc + r \in 0..(d - 1) /\ n = d * b + (mc + r)
  BY <1>1, <1>4, <1>5, <1>6
<1>8. n \div d = b
  BY <1>7, QuotientIsUnique
<1>9. q \in Nat
  <2> SUFFICES ASSUME q <= -1 PROVE FALSE
    OBVIOUS
  <2>1. m * q <= -m
    <3>1. PICK e \in Nat : q = -1 - e
      <4>1. -1 - q \in Nat /\ q = -1 - (-1 - q)
        OBVIOUS
      <4> QED
        BY <4>1
    <3>2. m * q = -m - m * e /\ m * e >= 0
      BY <3>1
    <3> QED
      BY <3>2
  <2> QED
    BY <1>1, <2>1
<1>10. n \div (4 * m) = b /\ n \div m = q
  BY <1>1, <1>5, <1>8
<1>11. q = 4 * b + (q % 4) /\ b = q \div 4
  BY <1>2
<1> QED
  BY <1>9, <1>10, <1>11, Zenon

LEMMA SmallQuotient ==
    ASSUME NEW n \in Nat, NEW m \in Nat \ {0}
    PROVE  /\ n < m => n \div m = 0
           /\ n < 2 * m => n \div m < 2
<1>1. PICK q \in Int, r \in 0..(m - 1) : n = m * q + r /\ n \div m = q
  BY Divided
<1>2. n < m => n \div m = 0
  <2>1. n < m => n \in 0..(m - 1) /\ n = m * 0 + n
    OBVIOUS
  <2> QED
    BY <2>1, QuotientIsUnique
<1>3. ASSUME n < 2 * m PROVE q < 2
  <2> SUFFICES ASSUME q >= 2 PROVE FALSE
    OBVIOUS
  <2>1. PICK e \in Nat : q = 2 + e
    <3>1. q - 2 \in Nat /\ q = 2 + (q - 2)
      OBVIOUS
    <3> QED
      BY <3>1
  <2>2. m * q = 2 * m + m * e /\ m * e >= 0
    BY <2>1
  <2> QED
    BY <1>1, <1>3, <2>2
<1> QED
  BY <1>1, <1>2, <1>3

(* A power of four is one of two.                                          *)
LEMMA PowersOfFour ==
    /\ Exp(4, 0) = 1 /\ Exp(2, 0) = 1 /\ Exp(2, 1) = 2 /\ Exp(2, 2) = 4
    /\ \A k \in Nat : Exp(4, k) \in Nat \ {0} /\ Exp(4, k + 1) = 4 * Exp(4, k)
    /\ \A k \in Nat : Exp(4, k) = Exp(2, 2 * k)
<1>1. Exp(4, 0) = 1 /\ Exp(2, 0) = 1
  BY ExpIs
<1>2. \A k \in Nat : Exp(4, k) \in Nat \ {0} /\ Exp(4, k + 1) = 4 * Exp(4, k)
  BY ExpIs
<1>3. \A k \in Nat : Exp(2, k) \in Nat \ {0} /\ Exp(2, k + 1) = 2 * Exp(2, k)
  BY ExpIs
<1>4. Exp(2, 1) = 2 /\ Exp(2, 2) = 4
  <2>1. Exp(2, 0 + 1) = 2 * Exp(2, 0) /\ Exp(2, 1 + 1) = 2 * Exp(2, 1)
    BY <1>3
  <2> QED
    BY <1>1, <2>1
<1>5. ASSUME NEW k \in Nat PROVE Exp(4, k) = Exp(2, 2 * k)
  <2> DEFINE P == {j \in 0..k : Exp(4, j) = Exp(2, 2 * j)}
  <2>1. 0 \in P
    BY <1>1
  <2>2. ASSUME NEW j \in 1..k, j - 1 \in P PROVE j \in P
    <3>1. PICK i \in Nat : i = j - 1 /\ j = i + 1
      OBVIOUS
    <3>2. Exp(4, i) = Exp(2, 2 * i)
      BY <2>2, <3>1
    <3>3. 2 * i \in Nat /\ 2 * i + 1 \in Nat /\ (2 * i + 1) + 1 = 2 * j
      BY <3>1
    <3>4. Exp(2, 2 * j) = 2 * Exp(2, 2 * i + 1) /\ Exp(2, 2 * i + 1) = 2 * Exp(2, 2 * i)
      <4>1. Exp(2, (2 * i + 1) + 1) = 2 * Exp(2, 2 * i + 1)
        BY <1>3, <3>3
      <4>2. Exp(2, 2 * i + 1) = 2 * Exp(2, 2 * i)
        BY <1>3, <3>3
      <4> QED
        BY <3>3, <4>1, <4>2
    <3>5. Exp(4, i + 1) = 4 * Exp(4, i) /\ Exp(2, 2 * i) \in Nat
      BY <1>2, <1>3, <3>3
    <3> QED
      BY <3>1, <3>2, <3>4, <3>5
  <2> HIDE DEF P
  <2>3. \A j \in 0..k : j \in P
    BY <2>1, <2>2, CountingUp
  <2> QED
    BY <2>3 DEF P
<1> QED
  BY <1>1, <1>2, <1>4, <1>5

(* The chunks of a number, and what the first ones of them are.            *)
Quotient(n, amount, k) == n \div Exp(4, amount - k)

LEMMA QuotientsGoOn ==
    ASSUME NEW n \in Nat, NEW amount \in Nat
    PROVE  /\ \A k \in 0..amount : Quotient(n, amount, k) \in Nat
           /\ Quotient(n, amount, amount) = n
           /\ \A k \in 1..amount :
                 /\ DigitsOf(n, 4, amount)[k] \in 0..3
                 /\ Quotient(n, amount, k) = 4 * Quotient(n, amount, k - 1) + DigitsOf(n, 4, amount)[k]
                 /\ DigitsOf(n, 4, amount)[k] = Quotient(n, amount, k) % 4
           /\ DigitsOf(n, 4, amount) \in Seq(Nat) /\ Len(DigitsOf(n, 4, amount)) = amount
<1>1. ASSUME NEW k \in 0..amount PROVE Quotient(n, amount, k) \in Nat
  <2>1. PICK m \in Nat \ {0} : m = Exp(4, amount - k)
    BY PowersOfFour
  <2>2. n \div m \in Nat
    BY DividedFurther
  <2> QED
    BY <2>1, <2>2 DEF Quotient
<1>2. Quotient(n, amount, amount) = n
  BY PowersOfFour DEF Quotient
<1>3. ASSUME NEW k \in 1..amount
      PROVE  /\ DigitsOf(n, 4, amount)[k] \in 0..3
             /\ Quotient(n, amount, k) = 4 * Quotient(n, amount, k - 1) + DigitsOf(n, 4, amount)[k]
             /\ DigitsOf(n, 4, amount)[k] = Quotient(n, amount, k) % 4
  <2>1. PICK i \in Nat : i = amount - k /\ amount - (k - 1) = i + 1
    OBVIOUS
  <2>2. PICK m \in Nat \ {0} : m = Exp(4, i) /\ Exp(4, i + 1) = 4 * m
    BY PowersOfFour
  <2>3. n \div m = 4 * (n \div (4 * m)) + ((n \div m) % 4) /\ n \div m \in Nat
    BY DividedFurther
  <2>4. Quotient(n, amount, k) = n \div m /\ Quotient(n, amount, k - 1) = n \div (4 * m)
    BY <2>1, <2>2 DEF Quotient
  <2>5. DigitsOf(n, 4, amount)[k] = (n \div m) % 4
    BY <2>1, <2>2 DEF DigitsOf
  <2>6. (n \div m) % 4 \in 0..3
    BY <2>3
  <2> QED
    BY <2>3, <2>4, <2>5, <2>6
<1>4. DigitsOf(n, 4, amount) \in Seq(Nat) /\ Len(DigitsOf(n, 4, amount)) = amount
  <2> DEFINE d == DigitsOf(n, 4, amount)
  <2>1. DOMAIN d = 1..amount /\ d = [k \in 1..amount |-> d[k]]
    BY DEF DigitsOf
  <2>2. \A k \in 1..amount : d[k] \in Nat
    BY <1>3
  <2> HIDE DEF d
  <2>3. d \in [1..amount -> Nat]
    BY <2>1, <2>2
  <2>4. d \in Seq(Nat)
    BY <2>3, SeqDef
  <2>5. DOMAIN d = 1..Len(d) /\ Len(d) \in Nat
    BY <2>4, LenProperties
  <2>6. Len(d) = amount
    BY <2>1, <2>5
  <2> QED
    BY <2>4, <2>6 DEF d
<1> QED
  BY <1>1, <1>2, <1>3, <1>4

LEMMA NaturalsAreIntegers == ASSUME NEW s \in Seq(Nat) PROVE s \in Seq(Int)
<1>1. Len(s) \in Nat /\ s = [j \in 1..Len(s) |-> s[j]] /\ \A j \in 1..Len(s) : s[j] \in Int
  OBVIOUS
<1>2. [j \in 1..Len(s) |-> s[j]] \in Seq(Int)
  BY <1>1, SeqDef
<1> QED
  BY <1>1, <1>2

(* What range_check fills in for a number of so many bits.                 *)
THEOREM RangeIsFilled ==
    ASSUME Prime \in Nat \ {0}, NEW g \in RangeComponents,
           NEW f, f.x \in 0..(Prime - 1), RangeMeans(g, f), f.chunks = RangeChunks(g, f.x)
    PROVE  RangeHolds(g, f, RangeTable(g, f))
<1>1. PICK w \in Nat \ {0}, bits \in Nat \ {0} : w = g.width - 1 /\ bits = g.bits
  BY DEF RangeComponents
<1>2. PICK last \in Nat \ {0}, chunks \in Nat \ {0}, padding \in Nat :
        /\ last = Ceil(bits, w * 2) /\ chunks = Ceil(bits, 2)
        /\ last * w = chunks + padding /\ padding < w
        /\ bits = IF bits % 2 = 0 THEN 2 * chunks ELSE 2 * chunks - 1
  BY RangeLayout
<1>3. PICK amount \in Nat : amount = chunks + padding /\ amount = last * w
  BY <1>2
<1>4. /\ RangeRows(g) = 1 + last /\ RangeRows(g) - 1 = last /\ PaddingSize(g) = padding /\ g.width = w + 1
      /\ PaddedChunks(g) = amount
  BY <1>1, <1>2, <1>3 DEF RangeRows, PaddedChunks, PaddingSize, ChunkSize, RangeComponents
<1>5. PICK n \in Nat : n = f.x /\ n < Exp(2, bits) /\ n \in 0..(Prime - 1)
  BY <1>1 DEF RangeMeans
<1> DEFINE d == DigitsOf(n, 4, amount)
           q(k) == Quotient(n, amount, k)
<1>6. f.chunks = d
  <2>1. Exp(2, bits) \in Nat \ {0} /\ Exp(2, ChunkSize) = 4
    BY ExpIs, PowersOfFour DEF ChunkSize
  <2>2. n % Exp(2, bits) = n
    <3>1. PICK m \in Nat \ {0} : m = Exp(2, bits)
      BY <2>1
    <3>2. n \in 0..(m - 1)
      BY <1>5, <3>1
    <3>3. n % m = n
      BY <3>2, ElementRemains
    <3> QED
      BY <3>1, <3>3
  <2> QED
    BY <1>1, <1>4, <1>5, <2>1, <2>2 DEF RangeChunks
<1>7. /\ \A k \in 0..amount : q(k) \in Nat
      /\ q(amount) = n
      /\ \A k \in 1..amount : d[k] \in 0..3 /\ q(k) = 4 * q(k - 1) + d[k] /\ d[k] = q(k) % 4
  <2>1. \A k \in 0..amount : Quotient(n, amount, k) \in Nat
    BY QuotientsGoOn
  <2>2. Quotient(n, amount, amount) = n
    BY QuotientsGoOn
  <2>3. \A k \in 1..amount :
           /\ DigitsOf(n, 4, amount)[k] \in 0..3
           /\ Quotient(n, amount, k) = 4 * Quotient(n, amount, k - 1) + DigitsOf(n, 4, amount)[k]
           /\ DigitsOf(n, 4, amount)[k] = Quotient(n, amount, k) % 4
    BY QuotientsGoOn
  <2> QED
    BY <2>1, <2>2, <2>3
<1> HIDE DEF d, q
<1>8. \A k \in 0..padding : q(k) = 0
  <2> SUFFICES ASSUME NEW k \in 0..padding PROVE q(k) = 0
    OBVIOUS
  <2> DEFINE P == {i \in 0..(padding - k) : n < Exp(4, chunks + i)}
  <2>1. 0 \in P
    <3>1. Exp(4, chunks) = Exp(2, 2 * chunks)
      BY PowersOfFour
    <3>2. n < Exp(2, 2 * chunks)
      <4>1. CASE bits = 2 * chunks
        BY <1>5, <4>1
      <4>2. CASE bits = 2 * chunks - 1
        <5>1. Exp(2, bits + 1) = 2 * Exp(2, bits) /\ Exp(2, bits) \in Nat
          BY ExpIs
        <5> QED
          BY <1>5, <4>2, <5>1
      <4> QED
        BY <1>2, <4>1, <4>2
    <3> QED
      BY <3>1, <3>2
  <2>2. ASSUME NEW i \in 1..(padding - k), i - 1 \in P PROVE i \in P
    <3>1. chunks + (i - 1) \in Nat /\ (chunks + (i - 1)) + 1 = chunks + i
      OBVIOUS
    <3>2. Exp(4, chunks + i) = 4 * Exp(4, chunks + (i - 1)) /\ Exp(4, chunks + (i - 1)) \in Nat
      BY <3>1, PowersOfFour
    <3> QED
      BY <2>2, <3>2
  <2>3. padding - k \in Nat
    OBVIOUS
  <2> HIDE DEF P
  <2>4. padding - k \in P
    <3>1. \A i \in 0..(padding - k) : i \in P
      BY <2>1, <2>2, <2>3, CountingUp
    <3> QED
      BY <2>3, <3>1
  <2>5. chunks + (padding - k) = amount - k /\ amount - k \in Nat
    BY <1>3, <2>3
  <2>6. n < Exp(4, amount - k) /\ Exp(4, amount - k) \in Nat \ {0}
    BY <2>4, <2>5, PowersOfFour DEF P
  <2> QED
    BY <2>6, SmallQuotient DEF Quotient, q
<1>9. \A k \in 1..padding : d[k] = 0
  <2> SUFFICES ASSUME NEW k \in 1..padding PROVE d[k] = 0
    OBVIOUS
  <2>1. q(k) = 0 /\ k \in 1..amount
    BY <1>3, <1>8
  <2>2. d[k] = q(k) % 4
    BY <1>7, <2>1
  <2> QED
    BY <2>1, <2>2
<1>10. ASSUME bits % 2 # 0 PROVE d[padding + 1] < 2
  <2>1. amount - (padding + 1) = chunks - 1 /\ chunks - 1 \in Nat /\ bits = 2 * (chunks - 1) + 1 /\ padding + 1 \in 1..amount
    BY <1>2, <1>3, <1>10
  <2>2. PICK m \in Nat \ {0} : m = Exp(4, chunks - 1) /\ m = Exp(2, 2 * (chunks - 1))
    BY <2>1, PowersOfFour
  <2>3. Exp(2, bits) = 2 * m
    <3>1. 2 * (chunks - 1) \in Nat
      BY <2>1
    <3>2. Exp(2, 2 * (chunks - 1) + 1) = 2 * Exp(2, 2 * (chunks - 1))
      BY <3>1, ExpIs
    <3> QED
      BY <2>1, <2>2, <3>2
  <2>4. n \div m < 2
    BY <1>5, <2>3, SmallQuotient
  <2>5. q(padding + 1) = n \div m
    BY <2>1, <2>2 DEF Quotient, q
  <2>6. q(padding + 1) \in Nat /\ d[padding + 1] = q(padding + 1) % 4
    <3>1. PICK k \in 1..amount : k = padding + 1
      BY <2>1
    <3>2. k \in 0..amount
      OBVIOUS
    <3>3. q(k) \in Nat /\ d[k] = q(k) % 4
      BY <1>7, <3>2
    <3> QED
      BY <3>1, <3>3
  <2> QED
    BY <2>4, <2>5, <2>6
<1> DEFINE t == RangeTable(g, f)
<1>11. ASSUME NEW r \in 0..last, NEW c \in 0..w
       PROVE  t[<<r, c>>] = IF r = 0 THEN 0
                            ELSE IF c = 0 THEN Horner(4, SubSeq(d, 1, (r - 1) * w + w))
                            ELSE d[(r - 1) * w + c]
  <2>1. <<r, c>> \in Positions(RangeRows(g), g.width)
    BY <1>1, <1>4 DEF Positions
  <2>2. Exp(2, ChunkSize) = 4 /\ g.width - 1 = w
    BY <1>1, PowersOfFour DEF ChunkSize
  <2>3. (r - 1) * w \in Int
    OBVIOUS
  <2>4. (r - 1) * w + g.width - 1 = (r - 1) * w + w
    BY <1>4, <2>3
  <2> QED
    BY <1>6, <2>1, <2>2, <2>4 DEF RangeTable
<1> HIDE DEF t
<1>12. ASSUME NEW r \in 1..last
       PROVE  \E before \in Nat :
                 before = (r - 1) * w /\ r * w = before + w /\ before + w <= amount /\ (r = 1 => before = 0)
  <2>1. (r - 1) * w \in Nat /\ r * w = (r - 1) * w + w /\ r * w <= last * w
    OBVIOUS
  <2>2. r = 1 => (r - 1) * w = 0
    OBVIOUS
  <2> QED
    BY <1>3, <2>1, <2>2
<1>13. \A j \in 1..amount : E(q(j)) = E(q(j - 1) * 4 + d[j])
  <2> SUFFICES ASSUME NEW j \in 1..amount PROVE E(q(j)) = E(q(j - 1) * 4 + d[j])
    OBVIOUS
  <2>1. q(j) = 4 * q(j - 1) + d[j] /\ q(j - 1) \in Nat
    BY <1>7
  <2>2. q(j) = q(j - 1) * 4 + d[j]
    BY <2>1
  <2> QED
    BY <2>2
<1>14. E(0) = 0 /\ E(n) = n
  <2>1. \A y \in 0..(Prime - 1) : E(y) = y
    BY ElementRemains DEF E
  <2>2. 0 \in 0..(Prime - 1)
    OBVIOUS
  <2> QED
    BY <1>5, <2>1, <2>2
<1>15. ASSUME NEW k \in 0..amount PROVE Horner(4, SubSeq(d, 1, k)) = E(q(k))
  <2> DEFINE s == SubSeq(d, 1, k)
             v == [j \in 0..k |-> q(j)]
  <2>1. s \in Seq(Nat) /\ Len(s) = k /\ \A j \in 1..k : s[j] = d[j]
    <3>1. \A j \in 1..k : d[j] \in Nat
      BY <1>7
    <3>2. Len(s) = IF 1 <= k THEN k - 1 + 1 ELSE 0
      BY <3>1, SubSeqProperties
    <3>3. s \in Seq(Nat) /\ \A j \in 1..(k - 1 + 1) : s[j] = d[1 + j - 1]
      BY <3>1, SubSeqProperties
    <3>4. \A j \in 1..k : 1 + j - 1 = j /\ k - 1 + 1 = k
      OBVIOUS
    <3> QED
      BY <3>2, <3>3, <3>4
  <2>2. v \in [0..k -> Int] /\ (\A j \in 0..k : v[j] = q(j))
    BY <1>7
  <2> HIDE DEF s, v
  <2>3. E(v[0]) = 0
    BY <1>8, <1>14, <2>2
  <2>4. ASSUME NEW j \in 1..k PROVE E(v[j]) = E(v[j - 1] * 4 + s[j])
    <3>1. j \in 0..k /\ j - 1 \in 0..k /\ j \in 1..amount
      OBVIOUS
    <3>2. v[j] = q(j) /\ v[j - 1] = q(j - 1)
      BY <2>2, <3>1
    <3>3. s[j] = d[j]
      BY <2>1
    <3> QED
      BY <1>13, <3>1, <3>2, <3>3
  <2>5. s \in Seq(Int)
    BY <2>1, NaturalsAreIntegers
  <2>6. Horner(4, s) = E(v[k])
    <3>1. Follows(v, 4, s, k)
      BY <2>2, <2>3, <2>4 DEF Follows
    <3>2. k \in Nat /\ Len(s) = k
      BY <2>1
    <3> QED
      BY <2>5, <3>1, <3>2, HornerReaches
  <2> QED
    BY <2>1, <2>2, <2>6 DEF s
<1>16. ASSUME NEW r \in 0..last PROVE t[<<r, 0>>] = E(q(r * w))
  <2>1. CASE r = 0
    <3>1. 0 * w = 0 /\ q(0) = 0
      BY <1>8
    <3> QED
      BY <1>11, <1>14, <2>1, <3>1
  <2>2. CASE r # 0
    <3>1. PICK before \in Nat : before = (r - 1) * w /\ r * w = before + w /\ before + w <= amount
      BY <1>12, <2>2
    <3>2. t[<<r, 0>>] = Horner(4, SubSeq(d, 1, before + w))
      BY <1>11, <2>2, <3>1
    <3>3. before + w \in 0..amount
      BY <3>1
    <3> QED
      BY <1>15, <3>1, <3>2, <3>3
  <2> QED
    BY <2>1, <2>2
<1>17. ASSUME NEW r \in 1..last
       PROVE  /\ \A c \in 1..w : t[<<r, c>>] < 4
              /\ t[<<r, 0>>] = Horner(4, Coefficients(t[<<r - 1, 0>>], t, r, w))
  <2>1. PICK before \in Nat : before = (r - 1) * w /\ r * w = before + w /\ before + w <= amount
    BY <1>12
  <2>2. \A c \in 1..w : before + c \in 1..amount /\ t[<<r, c>>] = d[before + c]
    BY <1>11, <2>1
  <2>3. \A c \in 1..w : t[<<r, c>>] \in 0..3 /\ t[<<r, c>>] \in Nat
    <3>1. \A k \in 1..amount : d[k] \in 0..3
      BY <1>7
    <3> QED
      BY <2>2, <3>1
  <2> DEFINE a == t[<<r - 1, 0>>]
             s == Coefficients(a, t, r, w)
             v == [j \in 0..(w + 1) |-> IF j = 0 THEN 0 ELSE q(before + j - 1)]
  <2>4. a = E(q(before)) /\ a \in Nat /\ q(before) \in Nat
    <3>1. before \in 0..amount /\ r - 1 \in 0..last
      BY <2>1
    <3>2. q(before) \in Nat
      BY <1>7, <3>1
    <3>3. E(q(before)) \in Nat
      BY <3>2, ModulusFacts
    <3> QED
      BY <1>16, <2>1, <3>1, <3>2, <3>3
  <2>5. s \in Seq(Nat) /\ Len(s) = w + 1 /\ s[1] = a /\ \A j \in 1..w : s[j + 1] = t[<<r, j>>]
    <3> HIDE DEF a
    <3> QED
      BY <2>3, <2>4, RowCoefficients
  <2>6. ASSUME NEW j \in 1..(w + 1) PROVE before + j - 1 \in 0..amount /\ q(before + j - 1) \in Nat
    <3>1. before + j - 1 \in 0..amount
      BY <2>1
    <3>2. \A k \in 0..amount : q(k) \in Nat
      BY <1>7
    <3> QED
      BY <3>1, <3>2
  <2>7. v \in [0..(w + 1) -> Int] /\ v[0] = 0 /\ \A j \in 1..(w + 1) : v[j] = q(before + j - 1)
    <3>1. \A j \in 0..(w + 1) : (IF j = 0 THEN 0 ELSE q(before + j - 1)) \in Int
      BY <2>6
    <3>2. \A j \in 0..(w + 1) : v[j] = IF j = 0 THEN 0 ELSE q(before + j - 1)
      OBVIOUS
    <3>3. v = [j \in 0..(w + 1) |-> v[j]]
      OBVIOUS
    <3> HIDE DEF v
    <3>4. v \in [0..(w + 1) -> Int]
      BY <3>1, <3>2, <3>3
    <3>5. \A j \in 1..(w + 1) : j \in 0..(w + 1) /\ j # 0
      OBVIOUS
    <3> QED
      BY <3>2, <3>4, <3>5
  <2> HIDE DEF a, s, v
  <2>8. ASSUME NEW j \in 1..(w + 1) PROVE E(v[j]) = E(v[j - 1] * 4 + s[j])
    <3>1. CASE j = 1
      <4>1. v[1] = q(before)
        <5>1. 1 \in 1..(w + 1) /\ before + 1 - 1 = before
          OBVIOUS
        <5> QED
          BY <2>7, <5>1
      <4>2. v[j - 1] * 4 + s[j] = a
        BY <2>4, <2>5, <2>7, <3>1
      <4>3. E(a) = E(q(before))
        BY <2>4, ModulusFacts
      <4> QED
        BY <3>1, <4>1, <4>2, <4>3
    <3>2. CASE j # 1
      <4>1. PICK c \in 1..w : j = c + 1
        BY <3>2
      <4>2. v[j - 1] = q(before + c - 1) /\ v[j] = q(before + c)
        <5>1. j - 1 \in 1..(w + 1) /\ before + (j - 1) - 1 = before + c - 1 /\ before + j - 1 = before + c
          BY <4>1
        <5> QED
          BY <2>7, <5>1
      <4>3. s[j] = d[before + c] /\ before + c \in 1..amount
        BY <2>2, <2>5, <4>1
      <4> QED
        BY <1>13, <4>2, <4>3
    <3> QED
      BY <3>1, <3>2
  <2>9. s \in Seq(Int)
    BY <2>5, NaturalsAreIntegers
  <2>10. Horner(4, s) = E(v[w + 1])
    <3>1. Follows(v, 4, s, w + 1)
      BY <1>14, <2>7, <2>8 DEF Follows
    <3>2. w + 1 \in Nat /\ Len(s) = w + 1
      BY <2>5
    <3> QED
      BY <2>9, <3>1, <3>2, HornerReaches
  <2>11. v[w + 1] = q(r * w)
    <3>1. w + 1 \in 1..(w + 1) /\ before + (w + 1) - 1 = r * w
      BY <2>1
    <3> QED
      BY <2>7, <3>1
  <2>12. t[<<r, 0>>] = E(q(r * w))
    BY <1>16
  <2> QED
    BY <2>3, <2>10, <2>11, <2>12 DEF s, a
<1>18. t[<<0, 0>>] = 0
  BY <1>11
<1>19. \A c \in 1..w : t[<<1, c>>] = d[c]
  <2>1. \A c \in 1..w : (1 - 1) * w + c = c
    OBVIOUS
  <2> QED
    BY <1>11, <2>1
<1>20. t[<<last, 0>>] = f.x
  BY <1>3, <1>5, <1>7, <1>14, <1>16
<1>21. bits % 2 # 0 => t[<<1, 1 + padding>>] < 2
  <2>1. 1 + padding = padding + 1 /\ padding + 1 \in 1..w
    BY <1>2
  <2> QED
    BY <1>10, <1>19, <2>1
<1>22. \A c \in 1..padding : t[<<1, c>>] = 0
  <2>1. \A c \in 1..padding : c \in 1..w
    BY <1>2
  <2> QED
    BY <1>9, <1>19, <2>1
<1>23. Exp(2, 2) = 4 /\ Exp(2, 1) = 2 /\ (bits % 2 # 0 => bits % 2 = 1) /\ g.width - 1 = w
  <2>1. Exp(2, 2) = 4 /\ Exp(2, 1) = 2
    BY PowersOfFour
  <2>2. bits % 2 # 0 => bits % 2 = 1
    OBVIOUS
  <2> QED
    BY <1>1, <2>1, <2>2
<1> QED
  BY <1>1, <1>4, <1>17, <1>18, <1>20, <1>21, <1>22, <1>23 DEF RangeHolds, ChunkSize, Coefficients, t

-----------------------------------------------------------------------------
(* f1_loop: where its gates are                                            *)

PlainGate(column, rotation, beta, gamma) ==
    [column |-> column, rotation |-> rotation, beta |-> beta, gamma |-> gamma]
FirstGate == [column |-> 3, rotation |-> 0, beta |-> 0, gamma |-> 1, isFirst |-> TRUE]
SomeGates == [column : Int, rotation : Int, beta : Int, gamma : Int] \cup {FirstGate}
AreGates(s, n) == s \in Seq(SomeGates) /\ Len(s) = n
AreFrom(s, n, first, rotation, beta, gamma) ==
    AreGates(s, n) /\ \A i \in 1..n : s[i] = PlainGate(first + 3 * (i - 1), rotation, beta, gamma)
StandAt(G, p, A, n) == \A i \in 1..n : G[p + i + 1] = A[i]
GatesInOrder(A, B, C) == <<FirstGate>> \o A \o (B \o C)

LEMMA EntriesOfJoined ==
    ASSUME NEW l \in Nat, NEW m \in Nat, NEW n \in Nat, NEW A, NEW B, NEW C,
           AreGates(A, l), AreGates(B, m), AreGates(C, n), NEW p \in Nat, p = l + m
    PROVE  /\ GatesInOrder(A, B, C)[1] = FirstGate
           /\ StandAt(GatesInOrder(A, B, C), 0, A, l)
           /\ StandAt(GatesInOrder(A, B, C), l, B, m)
           /\ StandAt(GatesInOrder(A, B, C), p, C, n)
<1> DEFINE S == SomeGates
           a == FirstGate
<1>1. <<a>> \in Seq(S) /\ Len(<<a>>) = 1 /\ <<a>>[1] = a
  BY DEF SomeGates
<1>2. A \in Seq(S) /\ B \in Seq(S) /\ C \in Seq(S) /\ l = Len(A) /\ m = Len(B) /\ n = Len(C)
  BY DEF AreGates
<1> HIDE DEF S, a
<1>3. PICK s : s = <<a>> \o A
  OBVIOUS
<1>4. s \in Seq(S) /\ Len(s) = 1 + l /\ \A i \in 1..(1 + l) : s[i] = IF i <= 1 THEN <<a>>[i] ELSE A[i - 1]
  BY <1>1, <1>2, <1>3, ConcatProperties
<1>5. PICK t : t = B \o C
  OBVIOUS
<1>6. t \in Seq(S) /\ Len(t) = m + n /\ \A i \in 1..(m + n) : t[i] = IF i <= m THEN B[i] ELSE C[i - m]
  BY <1>2, <1>5, ConcatProperties
<1>7. PICK u : u = s \o t
  OBVIOUS
<1>8. \A i \in 1..(1 + l + (m + n)) : u[i] = IF i <= 1 + l THEN s[i] ELSE t[i - (1 + l)]
  BY <1>4, <1>6, <1>7, ConcatProperties
<1>9. u[1] = a
  <2>1. 1 \in 1..(1 + l + (m + n)) /\ 1 <= 1 + l /\ 1 \in 1..(1 + l)
    OBVIOUS
  <2>2. u[1] = s[1] /\ s[1] = <<a>>[1]
    BY <1>4, <1>8, <2>1
  <2> QED
    BY <1>1, <2>2
<1>10. ASSUME NEW i \in 1..l PROVE u[0 + i + 1] = A[i]
  <2>1. 0 + i + 1 = i + 1 /\ i + 1 \in 1..(1 + l + (m + n)) /\ i + 1 <= 1 + l /\ i + 1 \in 1..(1 + l) /\ ~(i + 1 <= 1) /\ i + 1 - 1 = i
    OBVIOUS
  <2> QED
    BY <1>4, <1>8, <2>1
<1>11. ASSUME NEW i \in 1..m PROVE u[l + i + 1] = B[i]
  <2>1. PICK j \in Nat : j = l + i + 1
    OBVIOUS
  <2>2. j \in 1..(1 + l + (m + n)) /\ ~(j <= 1 + l) /\ j - (1 + l) = i
    BY <2>1
  <2>3. i \in 1..(m + n) /\ i <= m
    OBVIOUS
  <2>4. u[j] = t[i]
    BY <1>8, <2>2
  <2>5. t[i] = B[i]
    BY <1>6, <2>3
  <2> QED
    BY <2>1, <2>4, <2>5
<1>12. ASSUME NEW i \in 1..n PROVE u[p + i + 1] = C[i]
  <2>1. PICK j \in Nat, k \in Nat : j = p + i + 1 /\ k = m + i
    OBVIOUS
  <2>2. j \in 1..(1 + l + (m + n)) /\ ~(j <= 1 + l) /\ j - (1 + l) = k
    BY <2>1
  <2>3. k \in 1..(m + n) /\ ~(k <= m) /\ k - m = i
    BY <2>1
  <2>4. u[j] = t[k]
    BY <1>8, <2>2
  <2>5. t[k] = C[i]
    BY <1>6, <2>3
  <2> QED
    BY <2>1, <2>4, <2>5
<1>13. u = GatesInOrder(A, B, C)
  BY <1>3, <1>5, <1>7 DEF GatesInOrder, a
<1> QED
  BY <1>9, <1>10, <1>11, <1>12, <1>13 DEF a, StandAt

LEMMA GatesAre ==
    ASSUME NEW width \in Nat, width >= 4, NEW first \in 1..3, NEW rotation \in Int,
           NEW beta \in Int, NEW gamma \in Int, NEW n \in Nat, n = (width - first + 2) \div 3
    PROVE  AreFrom(Gates(first, width, rotation, beta, gamma), n, first, rotation, beta, gamma)
<1>1. n = Ceil(width - first, 3)
  <2>1. width - first + 3 - 1 = width - first + 2
    OBVIOUS
  <2> QED
    BY <2>1 DEF Ceil
<1>2. PICK s : s = [i \in 1..n |-> PlainGate(first + 3 * (i - 1), rotation, beta, gamma)]
  OBVIOUS
<1>3. Gates(first, width, rotation, beta, gamma) = s
  BY <1>1, <1>2 DEF Gates, PlainGate
<1>4. \A i \in 1..n : PlainGate(first + 3 * (i - 1), rotation, beta, gamma) \in SomeGates
  BY DEF PlainGate, SomeGates
<1>5. s \in [1..n -> SomeGates] /\ \A i \in 1..n : s[i] = PlainGate(first + 3 * (i - 1), rotation, beta, gamma)
  BY <1>2, <1>4
<1>6. s \in Seq(SomeGates)
  BY <1>5, SeqDef
<1>7. DOMAIN s = 1..n /\ DOMAIN s = 1..Len(s) /\ Len(s) \in Nat
  BY <1>5, <1>6, LenProperties
<1>8. Len(s) = n
  BY <1>7
<1> QED
  BY <1>3, <1>5, <1>6, <1>8 DEF AreGates, AreFrom

LEMMA EntriesOfFour ==
    ASSUME NEW l \in Nat, NEW m \in Nat, NEW n \in Nat, NEW k \in Nat, NEW A, NEW B, NEW C, NEW D,
           AreGates(A, l), AreGates(B, m), AreGates(C, n), AreGates(D, k),
           NEW p \in Nat, p = l + m, NEW q \in Nat, q = l + m + n
    PROVE  /\ GatesInOrder(A, B \o C, D)[1] = FirstGate
           /\ StandAt(GatesInOrder(A, B \o C, D), 0, A, l)
           /\ StandAt(GatesInOrder(A, B \o C, D), l, B, m)
           /\ StandAt(GatesInOrder(A, B \o C, D), p, C, n)
           /\ StandAt(GatesInOrder(A, B \o C, D), q, D, k)
<1>1. PICK s : s = B \o C
  OBVIOUS
<1>2. B \in Seq(SomeGates) /\ C \in Seq(SomeGates) /\ Len(B) = m /\ Len(C) = n
  BY DEF AreGates
<1>3. s \in Seq(SomeGates) /\ Len(s) = m + n /\ \A i \in 1..(m + n) : s[i] = IF i <= m THEN B[i] ELSE C[i - m]
  BY <1>1, <1>2, ConcatProperties
<1>4. PICK h \in Nat : h = m + n /\ q = l + h
  OBVIOUS
<1>5. AreGates(s, h)
  BY <1>3, <1>4 DEF AreGates
<1>6. PICK u : u = GatesInOrder(A, s, D)
  OBVIOUS
<1>7. u[1] = FirstGate /\ StandAt(u, 0, A, l) /\ StandAt(u, l, s, h) /\ StandAt(u, q, D, k)
  BY <1>4, <1>5, <1>6, EntriesOfJoined
<1>8. ASSUME NEW i \in 1..h PROVE u[l + i + 1] = s[i]
  BY <1>7 DEF StandAt
<1>9. ASSUME NEW i \in 1..m PROVE u[l + i + 1] = B[i]
  <2>1. i \in 1..(m + n) /\ i \in 1..h /\ i <= m
    BY <1>4
  <2>2. s[i] = B[i]
    BY <1>3, <2>1
  <2> QED
    BY <1>8, <2>1, <2>2
<1>10. ASSUME NEW i \in 1..n PROVE u[p + i + 1] = C[i]
  <2>1. /\ m + i \in 1..(m + n) /\ ~(m + i <= m) /\ m + i - m = i /\ l + (m + i) + 1 = p + i + 1
        /\ m + i \in 1..h
    BY <1>4
  <2>2. s[m + i] = C[i]
    BY <1>3, <2>1
  <2>3. u[l + (m + i) + 1] = s[m + i]
    BY <1>8, <2>1
  <2> QED
    BY <2>1, <2>2, <2>3
<1>11. u = GatesInOrder(A, B \o C, D)
  BY <1>1, <1>6
<1>12. StandAt(u, l, B, m) /\ StandAt(u, p, C, n)
  BY <1>9, <1>10 DEF StandAt
<1> QED
  BY <1>7, <1>11, <1>12

LEMMA FewerWidths ==
    ASSUME NEW width \in Nat, width >= 4
    PROVE  \E third \in Nat \ {0} :
              /\ third = width \div 3
              /\ \/ width % 3 = 1 /\ width = 3 * third + 1
                 \/ width % 3 = 2 /\ width = 3 * third + 2
                 \/ width % 3 = 0 /\ width = 3 * third /\ third >= 2
<1>1. PICK third \in Nat : third = width \div 3 /\ third # 0
  OBVIOUS
<1> QED
  BY <1>1

(* Which gate a selector is of, for each of the ways the width is.         *)
LEMMA GatesOfOne ==
    ASSUME NEW width \in Nat, NEW third \in Nat \ {0}, width % 3 = 1, width = 3 * third + 1
    PROVE  /\ AllGates(width)[1] = FirstGate
           /\ \A i \in 1..third : AllGates(width)[i + 1] = PlainGate(3 * i, 0, 0, 1)
           /\ \A i \in 1..third : AllGates(width)[third + i + 1] = PlainGate(3 * i, 0, -1, 0)
           /\ \A i \in 1..third : AllGates(width)[2 * third + i + 1] = PlainGate(3 * i, 0, 0, -1)
<1> DEFINE A == Gates(3, width, 0, 0, 1)
           B == Gates(3, width, 0, -1, 0)
           C == Gates(3, width, 0, 0, -1)
<1>1. AllGates(width) = GatesInOrder(A, B, C)
  <2>1. LaterGates(width) = B \o C
    BY DEF LaterGates
  <2> HIDE DEF A, B, C
  <2> QED
    BY <2>1 DEF AllGates, FirstGate, GatesInOrder, A
<1>2. width >= 4 /\ (width - 3 + 2) \div 3 = third
  OBVIOUS
<1>3. /\ AreGates(A, third) /\ \A i \in 1..third : A[i] = PlainGate(3 + 3 * (i - 1), 0, 0, 1)
      /\ AreGates(B, third) /\ \A i \in 1..third : B[i] = PlainGate(3 + 3 * (i - 1), 0, -1, 0)
      /\ AreGates(C, third) /\ \A i \in 1..third : C[i] = PlainGate(3 + 3 * (i - 1), 0, 0, -1)
  <2>1. 3 \in 1..3 /\ 2 \in 1..3 /\ 1 \in 1..3 /\ 0 \in Int /\ 1 \in Int /\ -1 \in Int
    OBVIOUS
  <2>2. AreFrom(A, third, 3, 0, 0, 1)
    BY <1>2, <2>1, GatesAre
  <2>3. AreFrom(B, third, 3, 0, -1, 0)
    BY <1>2, <2>1, GatesAre
  <2>4. AreFrom(C, third, 3, 0, 0, -1)
    BY <1>2, <2>1, GatesAre
  <2> QED
    BY <2>2, <2>3, <2>4 DEF AreFrom
<1> HIDE DEF A, B, C
<1>4. PICK G : G = GatesInOrder(A, B, C)
  OBVIOUS
<1>5. /\ G[1] = FirstGate
      /\ StandAt(G, 0, A, third)
      /\ StandAt(G, third, B, third)
      /\ StandAt(G, 2 * third, C, third)
  <2>1. 2 * third \in Nat /\ third \in Nat
    OBVIOUS
  <2>2. 2 * third = third + third
    OBVIOUS
  <2> QED
    BY <1>3, <1>4, <2>1, <2>2, EntriesOfJoined
<1>6. ASSUME NEW i \in 1..third PROVE G[i + 1] = PlainGate(3 * i, 0, 0, 1)
  <2>1. 3 + 3 * (i - 1) = 3 * i /\ 0 + i + 1 = i + 1
    OBVIOUS
  <2>2. G[0 + i + 1] = A[i]
    BY <1>5 DEF StandAt
  <2>3. A[i] = PlainGate(3 + 3 * (i - 1), 0, 0, 1)
    BY <1>3
  <2> QED
    BY <2>1, <2>2, <2>3
<1>7. ASSUME NEW i \in 1..third PROVE G[third + i + 1] = PlainGate(3 * i, 0, -1, 0)
  <2>1. 3 + 3 * (i - 1) = 3 * i
    OBVIOUS
  <2>2. G[third + i + 1] = B[i]
    BY <1>5 DEF StandAt
  <2>3. B[i] = PlainGate(3 + 3 * (i - 1), 0, -1, 0)
    BY <1>3
  <2> QED
    BY <2>1, <2>2, <2>3
<1>8. ASSUME NEW i \in 1..third PROVE G[2 * third + i + 1] = PlainGate(3 * i, 0, 0, -1)
  <2>1. 3 + 3 * (i - 1) = 3 * i
    OBVIOUS
  <2>2. G[2 * third + i + 1] = C[i]
    BY <1>5 DEF StandAt
  <2>3. C[i] = PlainGate(3 + 3 * (i - 1), 0, 0, -1)
    BY <1>3
  <2> QED
    BY <2>1, <2>2, <2>3
<1> QED
  BY <1>1, <1>4, <1>5, <1>6, <1>7, <1>8

LEMMA GatesOfTwo ==
    ASSUME NEW width \in Nat, NEW third \in Nat \ {0}, width % 3 = 2, width = 3 * third + 2
    PROVE  /\ AllGates(width)[1] = FirstGate
           /\ \A i \in 1..third : AllGates(width)[i + 1] = PlainGate(3 * i, 0, 0, 1)
           /\ \A i \in 1..third : AllGates(width)[third + i + 1] = PlainGate(3 * i - 1, 0, -1, 0)
           /\ \A i \in 1..(third + 1) : AllGates(width)[2 * third + i + 1] = PlainGate(3 * i - 2, 0, 0, -1)
           /\ \A i \in 1..third : AllGates(width)[3 * third + 1 + i + 1] = PlainGate(3 * i, 1, 0, -1)
<1> DEFINE A == Gates(3, width, 0, 0, 1)
           B == Gates(2, width, 0, -1, 0)
           C == Gates(1, width, 0, 0, -1)
           D == Gates(3, width, 1, 0, -1)
<1>1. AllGates(width) = GatesInOrder(A, B \o C, D)
  <2>1. LaterGates(width) = B \o C \o D
    BY DEF LaterGates
  <2> HIDE DEF A, B, C, D
  <2> QED
    BY <2>1 DEF AllGates, FirstGate, GatesInOrder, A
<1>2. /\ width >= 4 /\ (width - 3 + 2) \div 3 = third /\ (width - 2 + 2) \div 3 = third
      /\ (width - 1 + 2) \div 3 = third + 1
  OBVIOUS
<1>3. /\ AreGates(A, third)
      /\ \A i \in 1..third : A[i] = PlainGate(3 + 3 * (i - 1), 0, 0, 1)
      /\ AreGates(B, third)
      /\ \A i \in 1..third : B[i] = PlainGate(2 + 3 * (i - 1), 0, -1, 0)
      /\ AreGates(C, third + 1)
      /\ \A i \in 1..(third + 1) : C[i] = PlainGate(1 + 3 * (i - 1), 0, 0, -1)
      /\ AreGates(D, third)
      /\ \A i \in 1..third : D[i] = PlainGate(3 + 3 * (i - 1), 1, 0, -1)
  <2>1. 3 \in 1..3 /\ 2 \in 1..3 /\ 1 \in 1..3 /\ 0 \in Int /\ 1 \in Int /\ -1 \in Int
    OBVIOUS
  <2>2. AreFrom(A, third, 3, 0, 0, 1)
    BY <1>2, <2>1, GatesAre
  <2>3. AreFrom(B, third, 2, 0, -1, 0)
    BY <1>2, <2>1, GatesAre
  <2>4. AreFrom(C, third + 1, 1, 0, 0, -1)
    <3>1. PICK n \in Nat : n = third + 1
      OBVIOUS
    <3> QED
      BY <1>2, <2>1, <3>1, GatesAre
  <2>5. AreFrom(D, third, 3, 1, 0, -1)
    BY <1>2, <2>1, GatesAre
  <2> QED
    BY <2>2, <2>3, <2>4, <2>5 DEF AreFrom
<1> HIDE DEF A, B, C, D
<1>4. PICK G : G = GatesInOrder(A, B \o C, D)
  OBVIOUS
<1>5. /\ G[1] = FirstGate
      /\ StandAt(G, 0, A, third)
      /\ StandAt(G, third, B, third)
      /\ StandAt(G, 2 * third, C, third + 1)
      /\ StandAt(G, 3 * third + 1, D, third)
  <2>1. 2 * third \in Nat /\ 3 * third + 1 \in Nat /\ third \in Nat /\ third + 1 \in Nat
    OBVIOUS
  <2>2. 2 * third = third + third /\ 3 * third + 1 = third + third + (third + 1)
    OBVIOUS
  <2> QED
    BY <1>3, <1>4, <2>1, <2>2, EntriesOfFour
<1>6. ASSUME NEW i \in 1..third PROVE G[i + 1] = PlainGate(3 * i, 0, 0, 1)
  <2>1. 3 + 3 * (i - 1) = 3 * i /\ 0 + i + 1 = i + 1
    OBVIOUS
  <2>2. G[0 + i + 1] = A[i]
    BY <1>5 DEF StandAt
  <2>3. A[i] = PlainGate(3 + 3 * (i - 1), 0, 0, 1)
    BY <1>3
  <2> QED
    BY <2>1, <2>2, <2>3
<1>7. ASSUME NEW i \in 1..third PROVE G[third + i + 1] = PlainGate(3 * i - 1, 0, -1, 0)
  <2>1. 2 + 3 * (i - 1) = 3 * i - 1
    OBVIOUS
  <2>2. G[third + i + 1] = B[i]
    BY <1>5 DEF StandAt
  <2>3. B[i] = PlainGate(2 + 3 * (i - 1), 0, -1, 0)
    BY <1>3
  <2> QED
    BY <2>1, <2>2, <2>3
<1>8. ASSUME NEW i \in 1..(third + 1) PROVE G[2 * third + i + 1] = PlainGate(3 * i - 2, 0, 0, -1)
  <2>1. 1 + 3 * (i - 1) = 3 * i - 2
    OBVIOUS
  <2>2. G[2 * third + i + 1] = C[i]
    BY <1>5 DEF StandAt
  <2>3. C[i] = PlainGate(1 + 3 * (i - 1), 0, 0, -1)
    BY <1>3
  <2> QED
    BY <2>1, <2>2, <2>3
<1>9. ASSUME NEW i \in 1..third PROVE G[3 * third + 1 + i + 1] = PlainGate(3 * i, 1, 0, -1)
  <2>1. 3 + 3 * (i - 1) = 3 * i
    OBVIOUS
  <2>2. G[3 * third + 1 + i + 1] = D[i]
    BY <1>5 DEF StandAt
  <2>3. D[i] = PlainGate(3 + 3 * (i - 1), 1, 0, -1)
    BY <1>3
  <2> QED
    BY <2>1, <2>2, <2>3
<1> QED
  BY <1>1, <1>4, <1>5, <1>6, <1>7, <1>8, <1>9

LEMMA GatesOfNone ==
    ASSUME NEW width \in Nat, NEW third \in Nat \ {0}, width % 3 = 0, width = 3 * third, third >= 2
    PROVE  /\ AllGates(width)[1] = FirstGate
           /\ \A i \in 1..(third - 1) : AllGates(width)[i + 1] = PlainGate(3 * i, 0, 0, 1)
           /\ \A i \in 1..third : AllGates(width)[third - 1 + i + 1] = PlainGate(3 * i - 2, 0, -1, 0)
           /\ \A i \in 1..third : AllGates(width)[2 * third - 1 + i + 1] = PlainGate(3 * i - 1, 0, 0, -1)
           /\ \A i \in 1..(third - 1) : AllGates(width)[3 * third - 1 + i + 1] = PlainGate(3 * i, 1, 0, -1)
<1> DEFINE A == Gates(3, width, 0, 0, 1)
           B == Gates(1, width, 0, -1, 0)
           C == Gates(2, width, 0, 0, -1)
           D == Gates(3, width, 1, 0, -1)
<1>1. AllGates(width) = GatesInOrder(A, B \o C, D)
  <2>1. LaterGates(width) = B \o C \o D
    BY DEF LaterGates
  <2> HIDE DEF A, B, C, D
  <2> QED
    BY <2>1 DEF AllGates, FirstGate, GatesInOrder, A
<1>2. /\ width >= 4 /\ (width - 3 + 2) \div 3 = third - 1 /\ (width - 2 + 2) \div 3 = third
      /\ (width - 1 + 2) \div 3 = third /\ third - 1 \in Nat
  OBVIOUS
<1>3. /\ AreGates(A, third - 1)
      /\ \A i \in 1..(third - 1) : A[i] = PlainGate(3 + 3 * (i - 1), 0, 0, 1)
      /\ AreGates(B, third)
      /\ \A i \in 1..third : B[i] = PlainGate(1 + 3 * (i - 1), 0, -1, 0)
      /\ AreGates(C, third)
      /\ \A i \in 1..third : C[i] = PlainGate(2 + 3 * (i - 1), 0, 0, -1)
      /\ AreGates(D, third - 1)
      /\ \A i \in 1..(third - 1) : D[i] = PlainGate(3 + 3 * (i - 1), 1, 0, -1)
  <2>1. 3 \in 1..3 /\ 2 \in 1..3 /\ 1 \in 1..3 /\ 0 \in Int /\ 1 \in Int /\ -1 \in Int
    OBVIOUS
  <2>2. AreFrom(A, third - 1, 3, 0, 0, 1)
    BY <1>2, <2>1, GatesAre
  <2>3. AreFrom(B, third, 1, 0, -1, 0)
    BY <1>2, <2>1, GatesAre
  <2>4. AreFrom(C, third, 2, 0, 0, -1)
    BY <1>2, <2>1, GatesAre
  <2>5. AreFrom(D, third - 1, 3, 1, 0, -1)
    BY <1>2, <2>1, GatesAre
  <2> QED
    BY <2>2, <2>3, <2>4, <2>5 DEF AreFrom
<1> HIDE DEF A, B, C, D
<1>4. PICK G : G = GatesInOrder(A, B \o C, D)
  OBVIOUS
<1>5. /\ G[1] = FirstGate
      /\ StandAt(G, 0, A, third - 1)
      /\ StandAt(G, third - 1, B, third)
      /\ StandAt(G, 2 * third - 1, C, third)
      /\ StandAt(G, 3 * third - 1, D, third - 1)
  <2>1. PICK l \in Nat, p \in Nat, q \in Nat : l = third - 1 /\ p = 2 * third - 1 /\ q = 3 * third - 1
    OBVIOUS
  <2>2. p = l + third /\ q = l + third + third /\ third \in Nat
    BY <2>1
  <2>3. AreGates(A, l) /\ AreGates(B, third) /\ AreGates(C, third) /\ AreGates(D, l)
    BY <1>3, <2>1
  <2>4. /\ G[1] = FirstGate
        /\ StandAt(G, 0, A, l)
        /\ StandAt(G, l, B, third)
        /\ StandAt(G, p, C, third)
        /\ StandAt(G, q, D, l)
    BY <1>4, <2>2, <2>3, EntriesOfFour
  <2> QED
    BY <2>1, <2>4
<1>6. ASSUME NEW i \in 1..(third - 1) PROVE G[i + 1] = PlainGate(3 * i, 0, 0, 1)
  <2>1. 3 + 3 * (i - 1) = 3 * i /\ 0 + i + 1 = i + 1
    OBVIOUS
  <2>2. G[0 + i + 1] = A[i]
    BY <1>5 DEF StandAt
  <2>3. A[i] = PlainGate(3 + 3 * (i - 1), 0, 0, 1)
    BY <1>3
  <2> QED
    BY <2>1, <2>2, <2>3
<1>7. ASSUME NEW i \in 1..third PROVE G[third - 1 + i + 1] = PlainGate(3 * i - 2, 0, -1, 0)
  <2>1. 1 + 3 * (i - 1) = 3 * i - 2
    OBVIOUS
  <2>2. G[third - 1 + i + 1] = B[i]
    BY <1>5 DEF StandAt
  <2>3. B[i] = PlainGate(1 + 3 * (i - 1), 0, -1, 0)
    BY <1>3
  <2> QED
    BY <2>1, <2>2, <2>3
<1>8. ASSUME NEW i \in 1..third PROVE G[2 * third - 1 + i + 1] = PlainGate(3 * i - 1, 0, 0, -1)
  <2>1. 2 + 3 * (i - 1) = 3 * i - 1
    OBVIOUS
  <2>2. G[2 * third - 1 + i + 1] = C[i]
    BY <1>5 DEF StandAt
  <2>3. C[i] = PlainGate(2 + 3 * (i - 1), 0, 0, -1)
    BY <1>3
  <2> QED
    BY <2>1, <2>2, <2>3
<1>9. ASSUME NEW i \in 1..(third - 1) PROVE G[3 * third - 1 + i + 1] = PlainGate(3 * i, 1, 0, -1)
  <2>1. 3 + 3 * (i - 1) = 3 * i
    OBVIOUS
  <2>2. G[3 * third - 1 + i + 1] = D[i]
    BY <1>5 DEF StandAt
  <2>3. D[i] = PlainGate(3 + 3 * (i - 1), 1, 0, -1)
    BY <1>3
  <2> QED
    BY <2>1, <2>2, <2>3
<1> QED
  BY <1>1, <1>4, <1>5, <1>6, <1>7, <1>8, <1>9

(* The cell with a number, counted along the rows without the first column. *)
At(w, i) == <<i \div w, (i % w) + 1>>

IsAt(w, i, r, c) == w \in Nat \ {0} /\ r \in Nat /\ c \in 1..w /\ i \in Nat /\ i + 1 = r * w + c

LEMMA AtIs ==
    ASSUME NEW w, NEW r, NEW c, NEW i, IsAt(w, i, r, c)
    PROVE  At(w, i) = <<r, c>>
<1>0. w \in Nat \ {0} /\ r \in Nat /\ c \in 1..w /\ i \in Nat /\ i + 1 = r * w + c
  BY DEF IsAt
<1>1. PICK d \in 0..(w - 1) : d = c - 1
  BY <1>0
<1>2. i = w * r + d
  <2>1. w * r = r * w /\ r * w \in Nat
    BY <1>0
  <2> QED
    BY <1>0, <1>1, <2>1
<1>3. i \div w = r /\ i % w = d
  <2>1. i \div w = r
    BY <1>0, <1>2, QuotientIsUnique
  <2>2. PICK p \in Int, e \in 0..(w - 1) : i = w * p + e /\ i % w = e /\ i \div w = p
    <3>1. i \in Int
      BY <1>0
    <3> QED
      BY <1>0, <3>1, Divided
  <2>3. w * p = w * r
    BY <2>1, <2>2
  <2> QED
    BY <1>0, <1>2, <2>1, <2>2, <2>3
<1> QED
  BY <1>0, <1>1, <1>3 DEF At

LEMMA CellsAreAt ==
    ASSUME NEW w \in Nat \ {0}, NEW i \in Nat
    PROVE  \E r \in Nat, c \in 1..w : At(w, i) = <<r, c>> /\ i + 1 = r * w + c
<1>1. PICK q \in Int, d \in 0..(w - 1) : i = w * q + d
  <2>1. i \in Int
    OBVIOUS
  <2> QED
    BY <2>1, Divided
<1>2. q \in Nat
  <2> SUFFICES ASSUME q <= -1 PROVE FALSE
    OBVIOUS
  <2>1. w * (q + 1) <= 0
    OBVIOUS
  <2>2. w * (q + 1) = w * q + w
    OBVIOUS
  <2> QED
    BY <1>1, <2>1, <2>2
<1>3. w * q = q * w
  OBVIOUS
<1>4. PICK c \in 1..w : c = d + 1
  OBVIOUS
<1>5. i + 1 = q * w + c
  <2>1. w * q \in Int
    OBVIOUS
  <2> QED
    BY <1>1, <1>3, <1>4, <2>1
<1>6. At(w, i) = <<q, c>>
  <2>1. IsAt(w, i, q, c)
    BY <1>2, <1>5 DEF IsAt
  <2> QED
    BY <2>1, AtIs
<1> QED
  BY <1>2, <1>5, <1>6

IsBack(w, r, c, n, i) ==
    w \in Nat /\ w >= 3 /\ r \in Nat /\ c \in 1..w /\ n \in 1..3 /\ i \in Nat /\ i + 1 + n = r * w + c

LEMMA BackIs ==
    ASSUME NEW w, NEW r, NEW c, NEW n, NEW i, IsBack(w, r, c, n, i)
    PROVE  Back(w + 1, r, c, n) = At(w, i)
<1> SUFFICES ASSUME w \in Nat, w >= 3, r \in Nat, c \in 1..w, n \in 1..3, i \in Nat, i + 1 + n = r * w + c
             PROVE  Back(w + 1, r, c, n) = At(w, i)
  BY DEF IsBack
<1>1. CASE c > n
  <2>1. PICK d \in 1..w : d = c - n
    BY <1>1
  <2>2. i + 1 = r * w + d
    <3>1. r * w \in Nat
      OBVIOUS
    <3> QED
      BY <2>1, <3>1
  <2>3. At(w, i) = <<r, d>>
    <3>1. IsAt(w, i, r, d)
      BY <2>2 DEF IsAt
    <3> QED
      BY <3>1, AtIs
  <2> QED
    BY <1>1, <2>1, <2>3 DEF Back
<1>2. CASE ~(c > n)
  <2>1. PICK d \in 1..w : d = w + c - n
    BY <1>2
  <2>2. r # 0
    <3>1. r = 0 => r * w = 0
      OBVIOUS
    <3> QED
      BY <1>2, <3>1
  <2>3. PICK p \in Nat : p = r - 1
    BY <2>2
  <2>4. i + 1 = p * w + d
    <3>1. r * w = p * w + w /\ p * w \in Nat
      BY <2>3
    <3> QED
      BY <2>1, <3>1
  <2>5. At(w, i) = <<p, d>>
    <3>1. IsAt(w, i, p, d)
      BY <2>4 DEF IsAt
    <3> QED
      BY <3>1, AtIs
  <2> QED
    BY <1>2, <2>1, <2>3, <2>5 DEF Back
<1> QED
  BY <1>1, <1>2

-----------------------------------------------------------------------------
(* f1_loop: the gates its selectors are of                                 *)

LoopComponents == [kind : {"f1_loop"}, width : Nat \ 0..3, m : Nat \ {0}]

(* A selector is of a gate for the product in a cell, and beta and gamma   *)
(* are where the gate looks for them.                                      *)
FitsBy(g, e, r, c, rotation, beta, gamma) ==
    /\ AllGates(g.width)[e[1] + 1] = PlainGate(c, rotation, beta, gamma)
    /\ e[2] \in 0..(LoopRows(g) - 1) /\ e[2] + rotation = r
    /\ e[2] + beta \in 0..(LoopRows(g) - 1) /\ ~HasGamma(g, e[2] + beta)
    /\ e[2] + gamma \in 0..(LoopRows(g) - 1) /\ HasGamma(g, e[2] + gamma)
Fits(g, r, c) ==
    \E e \in Selectors(g) : \E rotation, beta, gamma \in (-1)..1 : FitsBy(g, e, r, c, rotation, beta, gamma)

LEMMA SelectorsAre ==
    ASSUME NEW g, 3 * g.m + 1 > g.width
    PROVE  /\ \A e \in LastSelectors(g) : e \in Selectors(g)
           /\ \A r \in 0..(LoopRows(g) - 2) : \A e \in InnerSelectors(g, r) : e \in Selectors(g)
<1>1. Selectors(g) = {<<0, 0>>} \cup ((UNION {InnerSelectors(g, r) : r \in 0..(LoopRows(g) - 2)}) \cup LastSelectors(g))
  BY DEF Selectors
<1>2. ASSUME NEW r \in 0..(LoopRows(g) - 2), NEW e \in InnerSelectors(g, r) PROVE e \in Selectors(g)
  <2>1. InnerSelectors(g, r) \in {InnerSelectors(g, i) : i \in 0..(LoopRows(g) - 2)}
    OBVIOUS
  <2>2. e \in UNION {InnerSelectors(g, i) : i \in 0..(LoopRows(g) - 2)}
    BY <2>1
  <2> QED
    BY <1>1, <2>2
<1>3. ASSUME NEW e \in LastSelectors(g) PROVE e \in Selectors(g)
  <2> DEFINE U == UNION {InnerSelectors(g, r) : r \in 0..(LoopRows(g) - 2)}
  <2>1. Selectors(g) = {<<0, 0>>} \cup (U \cup LastSelectors(g))
    BY <1>1
  <2> HIDE DEF U
  <2> QED
    BY <2>1
<1> QED
  BY <1>2, <1>3

LEMMA FitsSo ==
    ASSUME NEW g, NEW r, NEW c, NEW k, NEW s, NEW rotation \in (-1)..1, NEW beta \in (-1)..1,
           NEW gamma \in (-1)..1, <<k, s>> \in Selectors(g),
           AllGates(g.width)[k + 1] = PlainGate(c, rotation, beta, gamma),
           s \in 0..(LoopRows(g) - 1), s + rotation = r,
           s + beta \in 0..(LoopRows(g) - 1), ~HasGamma(g, s + beta),
           s + gamma \in 0..(LoopRows(g) - 1), HasGamma(g, s + gamma)
    PROVE  Fits(g, r, c)
<1> DEFINE e == <<k, s>>
<1>1. e[1] = k /\ e[2] = s
  OBVIOUS
<1> HIDE DEF e
<1>2. FitsBy(g, e, r, c, rotation, beta, gamma)
  BY <1>1 DEF FitsBy
<1>3. e \in Selectors(g)
  BY DEF e
<1> QED
  BY <1>2, <1>3 DEF Fits

(* What is known of a place where a product is: its row, the rows there    *)
(* are, and the last column of the last one.                               *)
Placed(g, r, c, last) ==
    /\ last \in Nat \ {0} /\ LoopRows(g) = last + 1 /\ r \in 0..last
    /\ r = last => c <= LastColumn(g)
    /\ LastColumn(g) \in Nat
    /\ ~(r = 0 /\ c = 3) /\ 3 * g.m + 1 > g.width

LEMMA FitsOne ==
    ASSUME NEW g \in LoopComponents, NEW third \in Nat \ {0}, g.width % 3 = 1, g.width = 3 * third + 1,
           NEW r, NEW q \in 1..third, NEW last, Placed(g, r, 3 * q, last)
    PROVE  Fits(g, r, 3 * q)
<1>1. PICK n \in Nat : n = g.width /\ n >= 4 /\ n = 3 * third + 1 /\ n % 3 = 1 /\ n \div 3 = third
  BY DEF LoopComponents
<1>2. PICK j \in Nat : j = 3 * q /\ j \div 3 = q /\ (j - 3) % 3 = 0 /\ j \in 3..(n - 1)
  BY <1>1
<1>3. r \in Nat /\ last \in Nat \ {0} /\ LoopRows(g) = last + 1 /\ r <= last
  BY DEF Placed
<1>4. /\ \A i \in 1..third : AllGates(n)[i + 1] = PlainGate(3 * i, 0, 0, 1)
      /\ \A i \in 1..third : AllGates(n)[third + i + 1] = PlainGate(3 * i, 0, -1, 0)
      /\ \A i \in 1..third : AllGates(n)[2 * third + i + 1] = PlainGate(3 * i, 0, 0, -1)
  BY <1>1, GatesOfOne
<1>5. \A x \in Nat : HasGamma(g, x) <=> x % 2 = 1
  BY <1>1 DEF HasGamma
<1>6. CASE r # last
  <2>1. <<(r % 2) * third + q, r>> \in InnerSelectors(g, r)
    BY <1>1, <1>2 DEF InnerSelectors, Placed
  <2>2. <<(r % 2) * third + q, r>> \in Selectors(g)
    <3>1. r \in 0..(LoopRows(g) - 2) /\ 3 * g.m + 1 > g.width
      BY <1>3, <1>6 DEF Placed
    <3> QED
      BY <2>1, <3>1, SelectorsAre
  <2>3. CASE r % 2 = 0
    <3>1. (r % 2) * third + q = q
      BY <2>3
    <3>2. (r + 1) % 2 = 1 /\ r + 1 \in 0..last /\ r + 0 = r
      BY <1>3, <1>6, <2>3
    <3> QED
      BY <1>1, <1>3, <1>4, <1>5, <2>2, <2>3, <3>1, <3>2, FitsSo
  <2>4. CASE r % 2 = 1
    <3>1. (r % 2) * third + q = third + q
      BY <2>4
    <3>2. (r + (-1)) % 2 = 0 /\ r + (-1) \in 0..last /\ r + (-1) \in Nat /\ r + 0 = r
      BY <1>3, <2>4
    <3> QED
      BY <1>1, <1>3, <1>4, <1>5, <2>2, <2>4, <3>1, <3>2, FitsSo
  <2> QED
    BY <1>3, <2>3, <2>4
<1>7. CASE r = last
  <2>1. <<(2 - (r % 2)) * third + q, r>> \in LastSelectors(g)
    <3>1. r = LoopRows(g) - 1
      BY <1>2, <1>3, <1>7
    <3>2. j \in 3..LastColumn(g)
      BY <1>2, <1>3, <1>7 DEF Placed
    <3>3. r - 0 = r
      BY <1>3
    <3>4. LastSelectors(g) =
            {<<(2 - (r % 2)) * third + (i \div 3), r - 0>> : i \in {i \in 3..LastColumn(g) : (i - 3) % 3 = 0}}
      BY <1>1, <3>1 DEF LastSelectors
    <3>5. <<(2 - (r % 2)) * third + (j \div 3), r - 0>> \in LastSelectors(g)
      BY <1>2, <3>2, <3>4
    <3> QED
      BY <1>2, <3>3, <3>5
  <2>2. <<(2 - (r % 2)) * third + q, r>> \in Selectors(g)
    <3>1. 3 * g.m + 1 > g.width
      BY DEF Placed
    <3> QED
      BY <2>1, <3>1, SelectorsAre
  <2>3. (r + (-1)) \in 0..last /\ r + (-1) \in Nat /\ r + 0 = r /\ r \in 0..last
    BY <1>3, <1>7
  <2>4. CASE r % 2 = 0
    <3>1. (2 - (r % 2)) * third + q = 2 * third + q /\ (r + (-1)) % 2 = 1
      BY <1>3, <2>4
    <3> QED
      BY <1>1, <1>3, <1>4, <1>5, <2>2, <2>3, <2>4, <3>1, FitsSo
  <2>5. CASE r % 2 = 1
    <3>1. (2 - (r % 2)) * third + q = third + q /\ (r + (-1)) % 2 = 0
      BY <1>3, <2>5
    <3> QED
      BY <1>1, <1>3, <1>4, <1>5, <2>2, <2>3, <2>5, <3>1, FitsSo
  <2> QED
    BY <1>3, <2>4, <2>5
<1> QED
  BY <1>6, <1>7

LEMMA LastOfTwo ==
    ASSUME NEW g, NEW n \in Nat, NEW third \in Nat, NEW r \in Nat, NEW turn \in 0..2,
           g.width = n, n % 3 = 2, n \div 3 = third, turn = r % 3, r = LoopRows(g) - 1,
           NEW c \in Nat, c \in (3 - turn)..LastColumn(g), (c - (3 - turn)) % 3 = 0,
           NEW q \in Nat, q = (c + turn) \div 3
    PROVE  /\ turn = 0 => <<q + (n - 1), r - 1>> \in LastSelectors(g)
           /\ turn # 0 => <<turn * third + q, r>> \in LastSelectors(g)
<1>1. g.width % 3 # 1 /\ g.width % 3 = 2 /\ ~(g.width % 3 = 0)
  OBVIOUS
<1>2. LoopRows(g) - 1 = r /\ r % 3 = turn
  OBVIOUS
<1>3. ASSUME turn = 0 PROVE <<q + (n - 1), r - 1>> \in LastSelectors(g)
  <2>1. <<0 * third + ((c + 0) \div 3) + 1 * (n - 1), r - 1>> \in LastSelectors(g)
    <3>1. c \in (3 - 0)..LastColumn(g) /\ (c - (3 - 0)) % 3 = 0 /\ r % 3 = 0
      BY <1>3
    <3> QED
      BY <1>1, <1>2, <3>1 DEF LastSelectors
  <2>2. 0 * third + ((c + 0) \div 3) + 1 * (n - 1) = q + (n - 1)
    <3>1. 0 * third = 0 /\ 1 * (n - 1) = n - 1 /\ c + 0 = c
      OBVIOUS
    <3>2. c \div 3 = q
      BY <1>3
    <3>3. 0 + q + (n - 1) = q + (n - 1)
      OBVIOUS
    <3> QED
      BY <3>1, <3>2, <3>3
  <2> QED
    BY <2>1, <2>2
<1>4. ASSUME turn # 0 PROVE <<turn * third + q, r>> \in LastSelectors(g)
  <2>1. <<turn * third + ((c + turn) \div 3) + 0 * (n - 1), r - 0>> \in LastSelectors(g)
    BY <1>1, <1>2, <1>4 DEF LastSelectors
  <2>2. PICK p \in Int : p = turn * third
    <3>1. \A x, y \in Int : x * y \in Int
      OBVIOUS
    <3> QED
      BY <3>1
  <2>3. 0 * (n - 1) = 0 /\ r - 0 = r /\ (c + turn) \div 3 = q /\ p + q + 0 = p + q
    OBVIOUS
  <2> QED
    BY <2>1, <2>2, <2>3
<1> QED
  BY <1>3, <1>4

OfLast(g, n, third, r, turn, first, c, q) ==
    /\ n \in Nat /\ third \in Nat /\ r \in Nat /\ turn \in 0..2 /\ c \in Nat /\ q \in Nat
    /\ g.width = n /\ n % 3 = 0 /\ n \div 3 = third /\ turn = r % 3 /\ r = LoopRows(g) - 1
    /\ first = IF turn = 0 THEN 3 ELSE turn
    /\ c \in first..LastColumn(g) /\ (c - first) % 3 = 0 /\ q = (c + turn) \div 3

LEMMA LastOfNone ==
    ASSUME NEW g, NEW n, NEW third, NEW r, NEW turn, NEW first, NEW c, NEW q,
           OfLast(g, n, third, r, turn, first, c, q)
    PROVE  /\ turn = 0 => <<q + (n - 1), r - 1>> \in LastSelectors(g)
           /\ turn = 1 => <<third + q, r>> \in LastSelectors(g)
           /\ turn = 2 => <<2 * third + q - 1, r>> \in LastSelectors(g)
<1> USE DEF OfLast
<1>1. g.width % 3 # 1 /\ g.width % 3 = 0 /\ ~(g.width % 3 = 2)
  OBVIOUS
<1>2. LoopRows(g) - 1 = r /\ r % 3 = turn
  OBVIOUS
<1>3. ASSUME turn = 0 PROVE <<q + (n - 1), r - 1>> \in LastSelectors(g)
  <2>1. <<0 * third + ((c + 0) \div 3) - 0 + 1 * (n - 1), r - 1>> \in LastSelectors(g)
    <3>1. c \in 3..LastColumn(g) /\ (c - 3) % 3 = 0 /\ r % 3 = 0
      BY <1>3
    <3> QED
      BY <1>1, <1>2, <3>1 DEF LastSelectors
  <2>2. 0 * third + ((c + 0) \div 3) - 0 + 1 * (n - 1) = q + (n - 1)
    BY <1>3
  <2> QED
    BY <2>1, <2>2
<1>4. ASSUME turn = 1 PROVE <<third + q, r>> \in LastSelectors(g)
  <2>1. c \in 1..LastColumn(g) /\ (c - 1) % 3 = 0 /\ turn # 0 /\ turn # 2
    BY <1>4
  <2>2. <<turn * third + ((c + turn) \div 3), r>> \in LastSelectors(g)
    BY <1>1, <1>2, <1>4, <2>1 DEF LastSelectors
  <2>3. turn * third = third
    BY <1>4
  <2> QED
    BY <2>2, <2>3
<1>5. ASSUME turn = 2 PROVE <<2 * third + q - 1, r>> \in LastSelectors(g)
  <2>1. <<2 * third + ((c + 2) \div 3) - 1 + 0 * (n - 1), r - 0>> \in LastSelectors(g)
    <3>1. c \in 2..LastColumn(g) /\ (c - 2) % 3 = 0 /\ r % 3 = 2
      BY <1>5
    <3> QED
      BY <1>1, <1>2, <3>1 DEF LastSelectors
  <2>2. 2 * third + ((c + 2) \div 3) - 1 + 0 * (n - 1) = 2 * third + q - 1 /\ r - 0 = r
    BY <1>5
  <2> QED
    BY <2>1, <2>2
<1> QED
  BY <1>3, <1>4, <1>5

LEMMA FitsTwo ==
    ASSUME NEW g \in LoopComponents, NEW third \in Nat \ {0}, g.width % 3 = 2, g.width = 3 * third + 2,
           NEW r \in Nat, NEW q \in Nat \ {0}, NEW c \in 1..(3 * third + 1), c = 3 * q - (r % 3),
           NEW last, Placed(g, r, c, last)
    PROVE  Fits(g, r, c)
<1>1. PICK n \in Nat : n = g.width /\ n >= 4 /\ n = 3 * third + 2 /\ n % 3 = 2 /\ n \div 3 = third
  BY DEF LoopComponents
<1>2. PICK turn \in 0..2 : turn = r % 3
  OBVIOUS
<1>3. /\ c \in (3 - turn)..(n - 1) /\ (c - (3 - turn)) % 3 = 0 /\ (c + turn) \div 3 = q /\ c = 3 * q - turn
      /\ turn = 2 => q \in 1..(third + 1)
      /\ turn # 2 => q \in 1..third
  BY <1>1, <1>2
<1>4. last \in Nat \ {0} /\ LoopRows(g) = last + 1 /\ r <= last
  BY DEF Placed
<1>5. /\ \A i \in 1..third : AllGates(n)[i + 1] = PlainGate(3 * i, 0, 0, 1)
      /\ \A i \in 1..third : AllGates(n)[third + i + 1] = PlainGate(3 * i - 1, 0, -1, 0)
      /\ \A i \in 1..(third + 1) : AllGates(n)[2 * third + i + 1] = PlainGate(3 * i - 2, 0, 0, -1)
      /\ \A i \in 1..third : AllGates(n)[3 * third + 1 + i + 1] = PlainGate(3 * i, 1, 0, -1)
  BY <1>1, GatesOfTwo
<1>6. \A x \in Nat : HasGamma(g, x) <=> x % 3 = 1
  BY <1>1 DEF HasGamma
<1>7. 3 * g.m + 1 > g.width /\ ~(r = 0 /\ c = 3)
  BY DEF Placed
<1>8. CASE ~(r = last /\ turn = 0)
  <2>1. <<turn * third + q, r>> \in Selectors(g)
    <3>1. CASE r # last
      <4>1. InnerSelectors(g, r) =
               {<<turn * third + ((i + turn) \div 3), r>> :
                  i \in {j \in (3 - turn)..(n - 1) : (j - (3 - turn)) % 3 = 0 /\ ~(r = 0 /\ j = 3)}}
        BY <1>1, <1>2 DEF InnerSelectors
      <4>2. <<turn * third + ((c + turn) \div 3), r>> \in InnerSelectors(g, r)
        BY <1>3, <1>7, <4>1
      <4>3. r \in 0..(LoopRows(g) - 2)
        BY <1>4, <3>1
      <4> QED
        BY <1>3, <1>7, <4>2, <4>3, SelectorsAre
    <3>2. CASE r = last
      <4>1. r = LoopRows(g) - 1
        BY <1>4, <3>2
      <4>2. c \in (3 - turn)..LastColumn(g)
        BY <1>3, <3>2 DEF Placed
      <4>3. turn # 0 /\ q = (c + turn) \div 3 /\ c \in Nat
        BY <1>3, <1>8, <3>2
      <4>4. <<turn * third + q, r>> \in LastSelectors(g)
        BY <1>1, <1>2, <1>3, <4>1, <4>2, <4>3, LastOfTwo
      <4> QED
        BY <1>7, <4>4, SelectorsAre
    <3> QED
      BY <3>1, <3>2
  <2>2. r + 0 = r /\ r \in 0..last
    BY <1>4
  <2>3. CASE turn = 0
    <3>1. turn * third + q = q /\ q \in 1..third /\ c = 3 * q
      BY <1>3, <2>3
    <3>2. r + 1 \in 0..last /\ (r + 1) % 3 = 1 /\ r % 3 # 1 /\ r + 1 \in Nat
      BY <1>2, <1>4, <1>8, <2>3
    <3>3. AllGates(g.width)[q + 1] = PlainGate(c, 0, 0, 1)
      BY <1>1, <1>5, <3>1
    <3> QED
      BY <1>4, <1>6, <2>1, <2>2, <3>1, <3>2, <3>3, FitsSo
  <2>4. CASE turn = 1
    <3>1. turn * third + q = third + q /\ q \in 1..third /\ c = 3 * q - 1
      BY <1>3, <2>4
    <3>2. r + (-1) \in 0..last /\ (r + (-1)) % 3 # 1 /\ r % 3 = 1 /\ r + (-1) \in Nat
      BY <1>2, <1>4, <2>4
    <3>3. AllGates(g.width)[third + q + 1] = PlainGate(c, 0, -1, 0)
      BY <1>1, <1>5, <3>1
    <3> QED
      BY <1>4, <1>6, <2>1, <2>2, <3>1, <3>2, <3>3, FitsSo
  <2>5. CASE turn = 2
    <3>1. turn * third + q = 2 * third + q /\ q \in 1..(third + 1) /\ c = 3 * q - 2
      BY <1>3, <2>5
    <3>2. r + (-1) \in 0..last /\ (r + (-1)) % 3 = 1 /\ r % 3 # 1 /\ r + (-1) \in Nat
      BY <1>2, <1>4, <2>5
    <3>3. AllGates(g.width)[2 * third + q + 1] = PlainGate(c, 0, 0, -1)
      BY <1>1, <1>5, <3>1
    <3> QED
      BY <1>4, <1>6, <2>1, <2>2, <3>1, <3>2, <3>3, FitsSo
  <2> QED
    BY <2>3, <2>4, <2>5
<1>9. CASE r = last /\ turn = 0
  <2>1. r = LoopRows(g) - 1 /\ q \in 1..third /\ c = 3 * q
    BY <1>3, <1>4, <1>9
  <2>2. c \in (3 - turn)..LastColumn(g) /\ c \in Nat /\ q = (c + turn) \div 3
    BY <1>3, <1>9 DEF Placed
  <2>3. <<q + (n - 1), r - 1>> \in LastSelectors(g)
    BY <1>1, <1>2, <1>3, <1>9, <2>1, <2>2, LastOfTwo
  <2>5. q + (n - 1) = 3 * third + 1 + q
    BY <1>1
  <2>6. PICK s \in Nat : s = r - 1 /\ s \in 0..last /\ s + 1 = r /\ s + 0 = s /\ s % 3 # 1
                         /\ s + (-1) \in 0..last /\ (s + (-1)) % 3 = 1 /\ s + (-1) \in Nat
    BY <1>2, <1>4, <1>9
  <2>7. <<3 * third + 1 + q, s>> \in Selectors(g)
    BY <1>7, <2>3, <2>5, <2>6, SelectorsAre
  <2>8. AllGates(g.width)[3 * third + 1 + q + 1] = PlainGate(c, 1, 0, -1)
    BY <1>1, <1>5, <2>1
  <2> QED
    BY <1>4, <1>6, <2>6, <2>7, <2>8, FitsSo
<1> QED
  BY <1>8, <1>9

LEMMA FitsNone ==
    ASSUME NEW g \in LoopComponents, NEW third \in Nat \ {0}, g.width % 3 = 0, g.width = 3 * third, third >= 2,
           NEW r \in Nat, NEW q \in Nat \ {0}, NEW c \in 1..(3 * third - 1),
           c = IF r % 3 = 0 THEN 3 * q ELSE 3 * q - 3 + (r % 3),
           NEW last, Placed(g, r, c, last)
    PROVE  Fits(g, r, c)
<1>1. PICK n \in Nat : n = g.width /\ n >= 4 /\ n = 3 * third /\ n % 3 = 0 /\ n \div 3 = third
  BY DEF LoopComponents
<1>2. PICK turn \in 0..2 : turn = r % 3
  OBVIOUS
<1>3. PICK first \in 1..3, p \in Nat :
        /\ first = IF turn = 0 THEN 3 ELSE turn
        /\ p = (c + turn) \div 3
        /\ p = IF turn = 1 THEN q - 1 ELSE q
  BY <1>1, <1>2
<1>4. /\ c \in first..(n - 1) /\ (c - first) % 3 = 0 /\ c \in Nat
      /\ turn = 0 => c = 3 * q /\ q \in 1..(third - 1)
      /\ turn = 1 => c = 3 * q - 2 /\ q \in 1..third
      /\ turn = 2 => c = 3 * q - 1 /\ q \in 1..third
  BY <1>1, <1>2, <1>3
<1>5. last \in Nat \ {0} /\ LoopRows(g) = last + 1 /\ r <= last
  BY DEF Placed
<1>6. /\ \A i \in 1..(third - 1) : AllGates(n)[i + 1] = PlainGate(3 * i, 0, 0, 1)
      /\ \A i \in 1..third : AllGates(n)[third - 1 + i + 1] = PlainGate(3 * i - 2, 0, -1, 0)
      /\ \A i \in 1..third : AllGates(n)[2 * third - 1 + i + 1] = PlainGate(3 * i - 1, 0, 0, -1)
      /\ \A i \in 1..(third - 1) : AllGates(n)[3 * third - 1 + i + 1] = PlainGate(3 * i, 1, 0, -1)
  BY <1>1, GatesOfNone
<1>7. \A x \in Nat : HasGamma(g, x) <=> x % 3 = 1
  BY <1>1 DEF HasGamma
<1>8. 3 * g.m + 1 > g.width /\ ~(r = 0 /\ c = 3)
  BY DEF Placed
<1>9. r = last => c \in first..LastColumn(g)
  BY <1>4 DEF Placed
<1>10. ASSUME r # last
       PROVE  <<turn * third + p - (IF turn = 2 THEN 1 ELSE 0), r>> \in Selectors(g)
  <2>1. g.width % 3 = 0 /\ ~(g.width % 3 = 1) /\ ~(g.width % 3 = 2)
    BY <1>1
  <2>2. <<turn * third + p - (IF turn = 2 THEN 1 ELSE 0), r>> \in InnerSelectors(g, r)
    <3>1. CASE turn = 0
      <4>1. c \in 3..(n - 1) /\ (c - 3) % 3 = 0 /\ turn # 2 /\ p = (c + turn) \div 3
        BY <1>3, <1>4, <3>1
      <4>2. <<turn * third + ((c + turn) \div 3) - 0, r>> \in InnerSelectors(g, r)
        BY <1>1, <1>2, <1>8, <2>1, <3>1, <4>1 DEF InnerSelectors
      <4> QED
        BY <4>1, <4>2
    <3>2. CASE turn = 1
      <4>1. c \in 1..(n - 1) /\ (c - 1) % 3 = 0 /\ turn # 2 /\ turn # 0 /\ p = (c + turn) \div 3
        BY <1>3, <1>4, <3>2
      <4>2. <<turn * third + ((c + turn) \div 3) - 0, r>> \in InnerSelectors(g, r)
        BY <1>1, <1>2, <1>8, <2>1, <3>2, <4>1 DEF InnerSelectors
      <4> QED
        BY <4>1, <4>2
    <3>3. CASE turn = 2
      <4>1. c \in 2..(n - 1) /\ (c - 2) % 3 = 0 /\ turn # 0 /\ p = (c + turn) \div 3
        BY <1>3, <1>4, <3>3
      <4>2. <<turn * third + ((c + turn) \div 3) - 1, r>> \in InnerSelectors(g, r)
        BY <1>1, <1>2, <1>8, <2>1, <3>3, <4>1 DEF InnerSelectors
      <4> QED
        BY <3>3, <4>1, <4>2
    <3> QED
      BY <3>1, <3>2, <3>3
  <2>3. r \in 0..(LoopRows(g) - 2)
    BY <1>5, <1>10
  <2> QED
    BY <1>8, <2>2, <2>3, SelectorsAre
<1>11. ASSUME r = last
       PROVE  /\ turn = 0 => <<p + (n - 1), r - 1>> \in Selectors(g)
              /\ turn = 1 => <<third + p, r>> \in Selectors(g)
              /\ turn = 2 => <<2 * third + p - 1, r>> \in Selectors(g)
  <2>1. r = LoopRows(g) - 1
    BY <1>5, <1>11
  <2>2. c \in first..LastColumn(g) /\ (c - first) % 3 = 0 /\ c \in Nat
    BY <1>4, <1>9, <1>11
  <2>3. /\ turn = 0 => <<p + (n - 1), r - 1>> \in LastSelectors(g)
        /\ turn = 1 => <<third + p, r>> \in LastSelectors(g)
        /\ turn = 2 => <<2 * third + p - 1, r>> \in LastSelectors(g)
    <3>1. g.width = n /\ n % 3 = 0 /\ n \div 3 = third /\ turn = r % 3 /\ third \in Nat
      BY <1>1, <1>2
    <3>2. OfLast(g, n, third, r, turn, first, c, p)
      BY <1>3, <2>1, <2>2, <3>1 DEF OfLast
    <3> QED
      BY <3>2, LastOfNone
  <2> QED
    BY <1>8, <2>3, SelectorsAre
<1>12. r + 0 = r /\ r \in 0..last
  BY <1>5
<1>13. CASE turn = 0 /\ r # last
  <2>1. turn * third + p - (IF turn = 2 THEN 1 ELSE 0) = q
    BY <1>3, <1>13
  <2>2. <<q, r>> \in Selectors(g)
    BY <1>10, <1>13, <2>1
  <2>3. r + 1 \in 0..last /\ (r + 1) % 3 = 1 /\ r % 3 # 1 /\ r + 1 \in Nat
    BY <1>2, <1>5, <1>13
  <2>4. AllGates(g.width)[q + 1] = PlainGate(c, 0, 0, 1)
    BY <1>1, <1>4, <1>6, <1>13
  <2> QED
    BY <1>5, <1>7, <1>12, <2>2, <2>3, <2>4, FitsSo
<1>14. CASE turn = 1
  <2>1. turn * third + p - (IF turn = 2 THEN 1 ELSE 0) = third - 1 + q /\ third + p = third - 1 + q
    BY <1>3, <1>14
  <2>2. <<third - 1 + q, r>> \in Selectors(g)
    BY <1>10, <1>11, <1>14, <2>1
  <2>3. r + (-1) \in 0..last /\ (r + (-1)) % 3 # 1 /\ r % 3 = 1 /\ r + (-1) \in Nat
    BY <1>2, <1>5, <1>14
  <2>4. AllGates(g.width)[third - 1 + q + 1] = PlainGate(c, 0, -1, 0)
    BY <1>1, <1>4, <1>6, <1>14
  <2> QED
    BY <1>5, <1>7, <1>12, <2>2, <2>3, <2>4, FitsSo
<1>15. CASE turn = 2
  <2>1. turn * third + p - (IF turn = 2 THEN 1 ELSE 0) = 2 * third - 1 + q /\ 2 * third + p - 1 = 2 * third - 1 + q
    BY <1>3, <1>15
  <2>2. <<2 * third - 1 + q, r>> \in Selectors(g)
    BY <1>10, <1>11, <1>15, <2>1
  <2>3. r + (-1) \in 0..last /\ (r + (-1)) % 3 = 1 /\ r % 3 # 1 /\ r + (-1) \in Nat
    BY <1>2, <1>5, <1>15
  <2>4. AllGates(g.width)[2 * third - 1 + q + 1] = PlainGate(c, 0, 0, -1)
    BY <1>1, <1>4, <1>6, <1>15
  <2> QED
    BY <1>5, <1>7, <1>12, <2>2, <2>3, <2>4, FitsSo
<1>16. CASE turn = 0 /\ r = last
  <2>1. p + (n - 1) = 3 * third - 1 + q
    BY <1>1, <1>3, <1>16
  <2>2. PICK s \in Nat : s = r - 1 /\ s \in 0..last /\ s + 1 = r /\ s + 0 = s /\ s % 3 # 1
                         /\ s + (-1) \in 0..last /\ (s + (-1)) % 3 = 1 /\ s + (-1) \in Nat
    BY <1>2, <1>5, <1>16
  <2>3. <<3 * third - 1 + q, s>> \in Selectors(g)
    BY <1>11, <1>16, <2>1, <2>2
  <2>4. AllGates(g.width)[3 * third - 1 + q + 1] = PlainGate(c, 1, 0, -1)
    BY <1>1, <1>4, <1>6, <1>16
  <2> QED
    BY <1>5, <1>7, <2>2, <2>3, <2>4, FitsSo
<1> QED
  BY <1>13, <1>14, <1>15, <1>16

(* How many rows there are, and where the last product is.                 *)
LEMMA RowsOfLoop ==
    ASSUME NEW g \in LoopComponents, NEW w \in Nat \ {0}, w = g.width - 1, 3 * g.m + 1 > g.width
    PROVE  \E last \in Nat \ {0}, c \in 1..w :
              LoopRows(g) = last + 1 /\ LastColumn(g) = c /\ last * w + c = 3 * g.m
<1>1. PICK m \in Nat \ {0} : m = g.m
  BY DEF LoopComponents
<1>2. g.width \in Nat /\ w >= 3 /\ 3 * m > w
  BY <1>1 DEF LoopComponents
<1>3. PICK i \in Nat : i = 3 * m - 1
  BY <1>1
<1>4. PICK r \in Nat, c \in 1..w : At(w, i) = <<r, c>> /\ i + 1 = r * w + c
  BY CellsAreAt
<1>5. 3 * m = r * w + c
  BY <1>3, <1>4
<1>6. PICK p \in Nat : p = r * w
  <2>1. \A x, y \in Nat : x * y \in Nat
    OBVIOUS
  <2> QED
    BY <2>1
<1>7. r # 0
  <2>1. r = 0 => r * w = 0
    OBVIOUS
  <2> QED
    BY <1>2, <1>5, <2>1
<1>8. Ceil(3 * m, w) = r + 1
  <2>1. PICK d \in 0..(w - 1) : d = c - 1
    OBVIOUS
  <2>2. PICK x \in Int : x = 3 * m + w - 1
    BY <1>1
  <2>3. x = w * (r + 1) + d
    <3>1. w * (r + 1) = r * w + w
      OBVIOUS
    <3>2. x = p + c + w - 1
      BY <1>5, <1>6, <2>2
    <3> QED
      BY <1>6, <2>1, <3>1, <3>2
  <2>4. r + 1 \in Int
    OBVIOUS
  <2>5. x \div w = r + 1
    BY <2>3, <2>4, QuotientIsUnique
  <2> QED
    BY <2>2, <2>5 DEF Ceil
<1>9. LoopRows(g) = r + 1
  BY <1>1, <1>2, <1>7, <1>8 DEF LoopRows
<1>10. LastColumn(g) = c
  <2>1. PICK q \in Int, d \in 0..(w - 1) : 3 * m = w * q + d /\ (3 * m) % w = d /\ (3 * m) \div w = q
    <3>1. 3 * m \in Int
      BY <1>1
    <3> QED
      BY <3>1, Divided
  <2>2. w * r = r * w /\ w * (r + 1) = r * w + w
    OBVIOUS
  <2>3. CASE c = w
    <3>1. 3 * m = w * (r + 1) + 0 /\ r + 1 \in Int /\ 0 \in 0..(w - 1)
      BY <1>5, <1>6, <2>2, <2>3
    <3>2. q = r + 1
      <4>1. 3 * m \in Int
        BY <1>1
      <4>2. (3 * m) \div w = r + 1
        BY <3>1, <4>1, QuotientIsUnique
      <4> QED
        BY <2>1, <4>2
    <3>3. d = 0
      <4>1. PICK z \in Int : z = w * q
        BY <1>6, <2>2, <3>2
      <4>2. 3 * m = z + d /\ 3 * m = z + 0
        BY <2>1, <3>1, <3>2, <4>1
      <4> QED
        BY <4>2
    <3> QED
      BY <1>1, <1>2, <2>1, <2>3, <3>3 DEF LastColumn
  <2>4. CASE c # w
    <3>1. 3 * m = w * r + c /\ r \in Int /\ c \in 0..(w - 1)
      BY <1>5, <2>2, <2>4
    <3>2. q = r
      <4>1. 3 * m \in Int
        BY <1>1
      <4>2. (3 * m) \div w = r
        BY <3>1, <4>1, QuotientIsUnique
      <4> QED
        BY <2>1, <4>2
    <3>3. d = c
      <4>1. PICK z \in Int : z = w * q
        BY <1>6, <2>2, <3>2
      <4>2. 3 * m = z + d /\ 3 * m = z + c
        BY <2>1, <3>1, <3>2, <4>1
      <4> QED
        BY <4>2
    <3>4. c # 0
      OBVIOUS
    <3> QED
      BY <1>1, <1>2, <2>1, <3>3, <3>4 DEF LastColumn
  <2> QED
    BY <2>3, <2>4
<1> QED
  BY <1>1, <1>5, <1>7, <1>9, <1>10

(* Every product but the first has a gate that fits.                       *)
LEMMA PlacesOfLoop ==
    ASSUME NEW g \in LoopComponents, NEW w \in Nat \ {0}, w = g.width - 1, 3 * g.m + 1 > g.width,
           NEW k \in 2..g.m, NEW r \in Nat, NEW c \in 1..w, r * w + c = 3 * k
    PROVE  \E last : Placed(g, r, c, last)
<1>1. PICK last \in Nat \ {0}, column \in 1..w :
        LoopRows(g) = last + 1 /\ LastColumn(g) = column /\ last * w + column = 3 * g.m
  BY RowsOfLoop
<1>2. PICK m \in Nat \ {0} : m = g.m /\ k <= m
  BY DEF LoopComponents
<1>3. PICK p \in Nat, z \in Nat : p = r * w /\ z = last * w
  <2>1. \A x, y \in Nat : x * y \in Nat
    OBVIOUS
  <2> QED
    BY <2>1
<1>4. p + c <= z + column
  BY <1>1, <1>2, <1>3
<1>5. r <= last
  <2> SUFFICES ASSUME r >= last + 1 PROVE FALSE
    OBVIOUS
  <2>1. r * w >= (last + 1) * w /\ (last + 1) * w = last * w + w
    <3>1. \A x, y \in Nat : x <= y => x * w <= y * w
      OBVIOUS
    <3>2. (last + 1) * w = last * w + w
      OBVIOUS
    <3> QED
      BY <3>1, <3>2
  <2>2. p >= z + w
    BY <1>3, <2>1
  <2> QED
    BY <1>4, <2>2
<1>6. r = last => c <= column
  BY <1>3, <1>4
<1>7. ~(r = 0 /\ c = 3)
  <2>1. r = 0 => p = 0
    BY <1>3
  <2> QED
    BY <1>3, <2>1
<1>8. LastColumn(g) \in Nat /\ r \in 0..last /\ (r = last => c <= LastColumn(g))
  BY <1>1, <1>5, <1>6
<1>9. Placed(g, r, c, last)
  BY <1>1, <1>7, <1>8 DEF Placed
<1> QED
  BY <1>9

LEMMA LoopFits ==
    ASSUME NEW g \in LoopComponents, NEW w \in Nat \ {0}, w = g.width - 1, 3 * g.m + 1 > g.width,
           NEW k \in 2..g.m, NEW r \in Nat, NEW c \in 1..w, r * w + c = 3 * k
    PROVE  Fits(g, r, c)
<1>1. PICK last : Placed(g, r, c, last)
  BY PlacesOfLoop
<1>2. PICK n \in Nat : n = g.width /\ n >= 4 /\ w = n - 1
  BY DEF LoopComponents
<1>3. PICK third \in Nat \ {0} :
        /\ third = n \div 3
        /\ \/ n % 3 = 1 /\ n = 3 * third + 1
           \/ n % 3 = 2 /\ n = 3 * third + 2
           \/ n % 3 = 0 /\ n = 3 * third /\ third >= 2
  BY <1>2, FewerWidths
<1>4. PICK p \in Nat : p = r * third
  <2>1. \A x, y \in Nat : x * y \in Nat
    OBVIOUS
  <2> QED
    BY <2>1
<1>5. PICK s \in Nat, turn \in 0..2 : r = 3 * s + turn /\ turn = r % 3
  OBVIOUS
<1>6. k \in Nat
  OBVIOUS
<1>7. CASE n % 3 = 1 /\ n = 3 * third + 1
  <2>1. r * w = 3 * p
    <3>1. w = 3 * third
      BY <1>2, <1>7
    <3>2. r * (3 * third) = 3 * (r * third)
      OBVIOUS
    <3> QED
      BY <1>4, <3>1, <3>2
  <2>2. PICK q \in 1..third : c = 3 * q
    <3>1. c = 3 * (k - p) /\ k - p \in 1..third
      BY <1>2, <1>6, <1>7, <2>1
    <3> QED
      BY <3>1
  <2> QED
    BY <1>1, <1>2, <1>7, <2>2, FitsOne
<1>8. CASE n % 3 = 2 /\ n = 3 * third + 2
  <2>1. r * w = 3 * p + r
    <3>1. w = 3 * third + 1
      BY <1>2, <1>8
    <3>2. r * (3 * third + 1) = 3 * (r * third) + r
      OBVIOUS
    <3> QED
      BY <1>4, <3>1, <3>2
  <2>2. PICK q \in Nat \ {0} : c = 3 * q - turn
    <3>1. c = 3 * (k - p - s) - turn /\ k - p - s \in Nat \ {0}
      BY <1>5, <1>6, <2>1
    <3> QED
      BY <3>1
  <2>3. c = 3 * q - (r % 3) /\ c \in 1..(3 * third + 1) /\ g.width = 3 * third + 2 /\ g.width % 3 = 2
    BY <1>2, <1>5, <1>8, <2>2
  <2> QED
    BY <1>1, <2>3, FitsTwo
<1>9. CASE n % 3 = 0 /\ n = 3 * third /\ third >= 2
  <2>1. r * w = 3 * p - r
    <3>1. w = 3 * third - 1
      BY <1>2, <1>9
    <3>2. r * (3 * third - 1) = 3 * (r * third) - r
      OBVIOUS
    <3> QED
      BY <1>4, <3>1, <3>2
  <2>2. PICK q \in Nat \ {0} : c = IF turn = 0 THEN 3 * q ELSE 3 * q - 3 + turn
    <3>1. PICK x \in Int : x = k - p + s
      BY <1>6
    <3>2. c = 3 * x + turn
      BY <1>5, <1>6, <2>1, <3>1
    <3>3. CASE turn = 0
      <4>1. x \in Nat \ {0} /\ c = 3 * x
        BY <3>2, <3>3
      <4> QED
        BY <3>3, <4>1
    <3>4. CASE turn # 0
      <4>1. x + 1 \in Nat \ {0} /\ c = 3 * (x + 1) - 3 + turn
        BY <3>2, <3>4
      <4> QED
        BY <3>4, <4>1
    <3> QED
      BY <3>3, <3>4
  <2>3. /\ c = IF r % 3 = 0 THEN 3 * q ELSE 3 * q - 3 + (r % 3)
        /\ c \in 1..(3 * third - 1) /\ g.width = 3 * third /\ g.width % 3 = 0
    BY <1>2, <1>5, <1>9, <2>2
  <2> QED
    BY <1>1, <1>9, <2>3, FitsNone
<1> QED
  BY <1>3, <1>7, <1>8, <1>9

(* A row may be enough.                                                    *)
LEMMA OneRow ==
    ASSUME NEW g \in LoopComponents, ~(3 * g.m + 1 > g.width)
    PROVE  LastColumn(g) = 3 * g.m /\ LoopRows(g) = 2
<1>1. PICK n \in Nat, m \in Nat \ {0} : n = g.width /\ n >= 4 /\ m = g.m /\ 3 * m < n
  BY DEF LoopComponents
<1>2. LastColumn(g) = 3 * m
  <2>1. PICK w \in Nat \ {0} : w = n - 1 /\ 3 * m <= w
    BY <1>1
  <2>2. CASE 3 * m = w
    <3>1. (3 * m) % w = 0
      <4>1. 3 * m = w * 1 + 0 /\ 0 \in 0..(w - 1) /\ 3 * m \in Int
        BY <2>2
      <4>2. PICK q \in Int, d \in 0..(w - 1) : w = w * q + d /\ w % w = d /\ w \div w = q
        <5>1. w \in Int
          OBVIOUS
        <5> QED
          BY <5>1, Divided
      <4>3. w \div w = 1
        <5>1. w = w * 1 + 0 /\ w \in Int /\ 1 \in Int /\ 0 \in 0..(w - 1)
          OBVIOUS
        <5> QED
          BY <5>1, QuotientIsUnique
      <4>4. d = 0
        <5>1. w * q = w
          BY <4>2, <4>3
        <5> QED
          BY <4>2, <5>1
      <4> QED
        BY <2>2, <4>2, <4>4
    <3> QED
      BY <1>1, <2>1, <2>2, <3>1 DEF LastColumn
  <2>3. CASE 3 * m # w
    <3>1. 3 * m \in 0..(w - 1) /\ 3 * m # 0
      BY <2>1, <2>3
    <3>2. (3 * m) % w = 3 * m
      BY <3>1, ElementRemains
    <3> QED
      BY <1>1, <2>1, <3>1, <3>2 DEF LastColumn
  <2> QED
    BY <2>2, <2>3
<1>3. LoopRows(g) = 2
  <2>1. PICK w \in Nat \ {0} : w = n - 1 /\ 3 * m <= w
    BY <1>1
  <2>2. 3 * m + w - 1 = w * 1 + (3 * m - 1) /\ 3 * m - 1 \in 0..(w - 1) /\ 3 * m + w - 1 \in Int /\ 1 \in Int
    BY <2>1
  <2>3. (3 * m + w - 1) \div w = 1
    BY <2>2, QuotientIsUnique
  <2> QED
    BY <1>1, <2>1, <2>3 DEF LoopRows, Ceil
<1> QED
  BY <1>1, <1>2, <1>3

(* The same where a row is enough.                                         *)
LEMMA RowFits ==
    ASSUME NEW g \in LoopComponents, ~(3 * g.m + 1 > g.width), NEW k \in 2..g.m
    PROVE  Fits(g, 0, 3 * k)
<1>1. PICK n \in Nat, m \in Nat \ {0} : n = g.width /\ n >= 4 /\ m = g.m /\ 3 * m < n /\ k <= m
  BY DEF LoopComponents
<1>2. PICK third \in Nat \ {0} :
        /\ third = n \div 3
        /\ \/ n % 3 = 1 /\ n = 3 * third + 1
           \/ n % 3 = 2 /\ n = 3 * third + 2
           \/ n % 3 = 0 /\ n = 3 * third /\ third >= 2
  BY <1>1, FewerWidths
<1>3. AllGates(n)[k + 1] = PlainGate(3 * k, 0, 0, 1)
  <2>1. CASE n % 3 = 1 /\ n = 3 * third + 1
    <3>1. k \in 1..third
      BY <1>1, <2>1
    <3> QED
      BY <2>1, <3>1, GatesOfOne
  <2>2. CASE n % 3 = 2 /\ n = 3 * third + 2
    <3>1. k \in 1..third
      BY <1>1, <2>2
    <3> QED
      BY <2>2, <3>1, GatesOfTwo
  <2>3. CASE n % 3 = 0 /\ n = 3 * third /\ third >= 2
    <3>1. k \in 1..(third - 1)
      BY <1>1, <2>3
    <3> QED
      BY <2>3, <3>1, GatesOfNone
  <2> QED
    BY <1>2, <2>1, <2>2, <2>3
<1>4. LastColumn(g) = 3 * m /\ LoopRows(g) = 2
  BY <1>1, OneRow
<1>5. <<k, 0>> \in Selectors(g)
  <2>1. PICK j \in 6..LastColumn(g) : j = 3 * k /\ j % 3 = 0 /\ j \div 3 = k
    <3>1. 3 * k \in 6..LastColumn(g) /\ (3 * k) % 3 = 0 /\ (3 * k) \div 3 = k
      BY <1>1, <1>4
    <3> QED
      BY <3>1
  <2> QED
    BY <2>1 DEF Selectors
<1>7. ~HasGamma(g, 0) /\ HasGamma(g, 1)
  BY <1>1 DEF HasGamma
<1>8. 0 + 0 = 0 /\ 0 + 1 = 1 /\ 0 \in 0..(2 - 1) /\ 1 \in 0..(2 - 1)
  OBVIOUS
<1> QED
  BY <1>1, <1>3, <1>4, <1>5, <1>7, <1>8, FitsSo

-----------------------------------------------------------------------------
(* f1_loop: what its gates say                                             *)

(* The factor of a place, and the product it makes.                        *)
FactorOf(f, k) == Factor(f.beta, f.gamma, f.s[k], f.t[k])

LEMMA FirstSays ==
    ASSUME NEW g \in LoopComponents, NEW tbl, GateHolds(g, tbl, FirstGate, 0)
    PROVE  tbl[<<0, 3>>] = Factor(tbl[<<0, 0>>], tbl[<<1, 0>>], tbl[<<0, 1>>], tbl[<<0, 2>>])
<1>1. /\ FirstGate.column = 3 /\ FirstGate.rotation = 0 /\ FirstGate.beta = 0 /\ FirstGate.gamma = 1
      /\ "isFirst" \in DOMAIN FirstGate
  BY DEF FirstGate
<1>2. Back(g.width, 0, 3, 2) = <<0, 1>> /\ Back(g.width, 0, 3, 1) = <<0, 2>>
  BY DEF Back
<1>3. 0 + 0 = 0 /\ 0 + 1 = 1
  OBVIOUS
<1> QED
  BY <1>1, <1>2, <1>3 DEF GateHolds

Says(g, tbl, r, c, beta, gamma) ==
    tbl[<<r, c>>] = E(tbl[Back(g.width, r, c, 3)]
                      * Factor(tbl[<<beta, 0>>], tbl[<<gamma, 0>>],
                               tbl[Back(g.width, r, c, 2)], tbl[Back(g.width, r, c, 1)]))

LEMMA PlainSays ==
    ASSUME NEW g, NEW tbl, NEW c, NEW rotation, NEW beta, NEW gamma, NEW row,
           GateHolds(g, tbl, PlainGate(c, rotation, beta, gamma), row)
    PROVE  Says(g, tbl, row + rotation, c, row + beta, row + gamma)
<1> DEFINE gate == PlainGate(c, rotation, beta, gamma)
<1>1. gate.column = c /\ gate.rotation = rotation /\ gate.beta = beta /\ gate.gamma = gamma
  BY DEF PlainGate
<1>2. "isFirst" \notin DOMAIN gate
  BY DEF PlainGate
<1> HIDE DEF gate
<1> QED
  BY <1>1, <1>2 DEF GateHolds, Says, gate

LEMMA ProductGoesOn ==
    ASSUME NEW g \in LoopComponents, NEW w \in Nat \ {0}, w = g.width - 1, NEW f, NEW tbl,
           LoopHolds(g, f, tbl), NEW k \in 2..g.m
    PROVE  tbl[At(w, 3 * k - 1)] = E(tbl[At(w, 3 * (k - 1) - 1)] * FactorOf(f, k))
<1>1. PICK m \in Nat \ {0}, n \in Nat : m = g.m /\ k \in 2..m /\ n = g.width /\ n >= 4 /\ w = n - 1 /\ w >= 3
  BY DEF LoopComponents
<1>2. PICK r \in Nat, c \in 1..w : At(w, 3 * k - 1) = <<r, c>> /\ r * w + c = 3 * k /\ Fits(g, r, c)
  <2>1. CASE 3 * g.m + 1 > g.width
    <3>1. PICK i \in Nat : i = 3 * k - 1
      BY <1>1
    <3>2. PICK r \in Nat, c \in 1..w : At(w, i) = <<r, c>> /\ i + 1 = r * w + c
      BY CellsAreAt
    <3>3. r * w + c = 3 * k
      BY <1>1, <3>1, <3>2
    <3>4. Fits(g, r, c)
      BY <2>1, <3>3, LoopFits
    <3> QED
      BY <3>1, <3>2, <3>3, <3>4
  <2>2. CASE ~(3 * g.m + 1 > g.width)
    <3>1. PICK c \in 1..w : c = 3 * k
      BY <1>1, <2>2
    <3>2. 0 * w + c = 3 * k /\ 3 * k - 1 \in Nat /\ (3 * k - 1) + 1 = 0 * w + c /\ 0 \in Nat
      BY <1>1, <3>1
    <3>3. At(w, 3 * k - 1) = <<0, c>>
      <4>1. IsAt(w, 3 * k - 1, 0, c)
        BY <3>2 DEF IsAt
      <4> QED
        BY <4>1, AtIs
    <3>4. Fits(g, 0, c)
      BY <2>2, <3>1, RowFits
    <3> QED
      BY <3>2, <3>3, <3>4
  <2> QED
    BY <2>1, <2>2
<1>3. PICK e \in Selectors(g), rotation \in (-1)..1, beta \in (-1)..1, gamma \in (-1)..1 :
        FitsBy(g, e, r, c, rotation, beta, gamma)
  BY <1>2 DEF Fits
<1>4. GateHolds(g, tbl, PlainGate(c, rotation, beta, gamma), e[2])
  BY <1>3 DEF FitsBy, LoopHolds
<1>5. tbl[<<r, c>>] = E(tbl[Back(g.width, r, c, 3)]
                        * Factor(tbl[<<e[2] + beta, 0>>], tbl[<<e[2] + gamma, 0>>],
                                 tbl[Back(g.width, r, c, 2)], tbl[Back(g.width, r, c, 1)]))
  <2>1. e[2] + rotation = r
    BY <1>3 DEF FitsBy
  <2> QED
    <3>1. Says(g, tbl, e[2] + rotation, c, e[2] + beta, e[2] + gamma)
      BY <1>4, PlainSays
    <3> QED
      BY <2>1, <3>1 DEF Says
<1>6. tbl[<<e[2] + beta, 0>>] = f.beta /\ tbl[<<e[2] + gamma, 0>>] = f.gamma
  BY <1>3 DEF FitsBy, LoopHolds
<1>7. /\ Back(g.width, r, c, 3) = At(w, 3 * (k - 1) - 1)
      /\ Back(g.width, r, c, 2) = At(w, 3 * (k - 1))
      /\ Back(g.width, r, c, 1) = At(w, 3 * (k - 1) + 1)
  <2>1. PICK a \in Nat : a = 3 * (k - 1)
    BY <1>1
  <2>2. g.width = w + 1 /\ w \in Nat
    BY <1>1
  <2>3. a - 1 \in Nat /\ (a - 1) + 1 + 3 = r * w + c
    BY <1>1, <1>2, <2>1
  <2>4. a + 1 + 2 = r * w + c
    BY <1>1, <1>2, <2>1
  <2>5. a + 1 \in Nat /\ (a + 1) + 1 + 1 = r * w + c
    BY <1>1, <1>2, <2>1
  <2>6. Back(w + 1, r, c, 3) = At(w, a - 1)
    <3>1. IsBack(w, r, c, 3, a - 1)
      BY <1>1, <2>2, <2>3 DEF IsBack
    <3> QED
      BY <3>1, BackIs
  <2>7. Back(w + 1, r, c, 2) = At(w, a)
    <3>1. IsBack(w, r, c, 2, a)
      BY <1>1, <2>2, <2>4 DEF IsBack
    <3> QED
      BY <3>1, BackIs
  <2>8. Back(w + 1, r, c, 1) = At(w, a + 1)
    <3>1. IsBack(w, r, c, 1, a + 1)
      BY <1>1, <2>2, <2>5 DEF IsBack
    <3> QED
      BY <3>1, BackIs
  <2> QED
    BY <2>1, <2>2, <2>6, <2>7, <2>8
<1>8. tbl[At(w, 3 * (k - 1))] = f.s[k] /\ tbl[At(w, 3 * (k - 1) + 1)] = f.t[k]
  <2>1. PICK a \in Nat : a = 3 * (k - 1) /\ a \in 0..(3 * m - 1) /\ a + 1 \in 0..(3 * m - 1)
    BY <1>1
  <2>2. a % 3 = 0 /\ (a + 1) % 3 = 1 /\ (a \div 3) + 1 = k /\ ((a + 1) \div 3) + 1 = k
    BY <1>1, <2>1
  <2>3. \A i \in 0..(3 * m - 1) :
           /\ i % 3 = 0 => tbl[At(w, i)] = f.s[(i \div 3) + 1]
           /\ i % 3 = 1 => tbl[At(w, i)] = f.t[(i \div 3) + 1]
    BY <1>1 DEF LoopHolds, At
  <2> QED
    BY <2>1, <2>2, <2>3
<1> QED
  BY <1>2, <1>5, <1>6, <1>7, <1>8 DEF FactorOf

(* Where the products and what they are of is.                             *)
LEMMA InsideLoop ==
    ASSUME NEW g \in LoopComponents, NEW w \in Nat \ {0}, w = g.width - 1, NEW i \in 0..(3 * g.m - 1)
    PROVE  At(w, i) \in Positions(LoopRows(g), g.width)
<1>1. PICK m \in Nat \ {0}, n \in Nat : m = g.m /\ n = g.width /\ n >= 4 /\ w = n - 1
  BY DEF LoopComponents
<1>2. PICK r \in Nat, c \in 1..w : At(w, i) = <<r, c>> /\ i + 1 = r * w + c
  <2>1. i \in Nat
    BY <1>1
  <2> QED
    BY <2>1, CellsAreAt
<1>3. PICK p \in Nat : p = r * w
  <2>1. \A x, y \in Nat : x * y \in Nat
    OBVIOUS
  <2> QED
    BY <2>1
<1>4. p + c <= 3 * m
  BY <1>1, <1>2, <1>3
<1>5. PICK last \in Nat : LoopRows(g) = last + 1 /\ r <= last
  <2>1. CASE 3 * g.m + 1 > g.width
    <3>1. PICK last \in Nat \ {0}, column \in 1..w :
            LoopRows(g) = last + 1 /\ LastColumn(g) = column /\ last * w + column = 3 * g.m
      BY <2>1, RowsOfLoop
    <3>2. PICK z \in Nat : z = last * w
      <4>1. \A x, y \in Nat : x * y \in Nat
        OBVIOUS
      <4> QED
        BY <4>1
    <3>3. r <= last
      <4> SUFFICES ASSUME r >= last + 1 PROVE FALSE
        OBVIOUS
      <4>1. r * w >= (last + 1) * w /\ (last + 1) * w = last * w + w
        <5>1. \A x, y \in Nat : x <= y => x * w <= y * w
          OBVIOUS
        <5>2. (last + 1) * w = last * w + w
          OBVIOUS
        <5> QED
          BY <5>1, <5>2
      <4>2. p >= z + w
        BY <1>3, <3>2, <4>1
      <4>3. p + c <= z + column
        BY <1>1, <1>4, <3>1, <3>2
      <4> QED
        BY <4>2, <4>3
    <3> QED
      BY <3>1, <3>3
  <2>2. CASE ~(3 * g.m + 1 > g.width)
    <3>1. r = 0
      <4> SUFFICES ASSUME r >= 1 PROVE FALSE
        OBVIOUS
      <4>1. r * w >= 1 * w /\ 1 * w = w
        <5>1. \A x, y \in Nat : x <= y => x * w <= y * w
          OBVIOUS
        <5>2. 1 * w = w
          OBVIOUS
        <5> QED
          BY <5>1, <5>2
      <4> QED
        BY <1>1, <1>3, <1>4, <2>2, <4>1
    <3>2. LoopRows(g) = 1 + 1
      BY <2>2, OneRow
    <3> QED
      BY <3>1, <3>2
  <2> QED
    BY <2>1, <2>2
<1> QED
  BY <1>1, <1>2, <1>5 DEF Positions

LEMMA OutputIs ==
    ASSUME NEW g \in LoopComponents, NEW w \in Nat \ {0}, w = g.width - 1
    PROVE  Output(g) = At(w, 3 * g.m - 1)
<1>1. PICK m \in Nat \ {0}, n \in Nat : m = g.m /\ n = g.width /\ n >= 4 /\ w = n - 1 /\ 3 * m - 1 \in Nat
  BY DEF LoopComponents
<1>2. CASE 3 * g.m + 1 > g.width
  <2>1. PICK last \in Nat \ {0}, column \in 1..w :
          LoopRows(g) = last + 1 /\ LastColumn(g) = column /\ last * w + column = 3 * g.m
    BY <1>2, RowsOfLoop
  <2>2. IsAt(w, 3 * m - 1, last, column)
    BY <1>1, <2>1 DEF IsAt
  <2>3. At(w, 3 * m - 1) = <<last, column>>
    BY <2>2, AtIs
  <2>4. ~(3 * g.m + 1 <= g.width)
    BY <1>1, <1>2
  <2> QED
    BY <1>1, <2>1, <2>3, <2>4 DEF Output
<1>3. CASE ~(3 * g.m + 1 > g.width)
  <2>1. LastColumn(g) = 3 * m /\ 3 * g.m + 1 <= g.width
    BY <1>1, <1>3, OneRow
  <2>2. PICK c \in 1..w : c = 3 * m
    BY <1>1, <2>1
  <2>3. (3 * m - 1) + 1 = 0 * w + c
    BY <2>2
  <2>4. IsAt(w, 3 * m - 1, 0, c)
    BY <1>1, <2>3 DEF IsAt
  <2>5. At(w, 3 * m - 1) = <<0, c>>
    BY <2>4, AtIs
  <2> QED
    BY <1>1, <2>1, <2>2, <2>5 DEF Output
<1> QED
  BY <1>2, <1>3

(* Whatever the gates that f1_loop's selectors enable hold for, beta and   *)
(* gamma being where they are and the factors what they are of, its result *)
(* is the product of all factors: over every field, for any number of      *)
(* factors in any number of columns, no factor is without a gate.          *)
THEOREM LoopIsSound ==
    ASSUME Prime \in Nat \ {0}, NEW g \in LoopComponents, NEW f,
           NEW tbl \in [Positions(LoopRows(g), g.width) -> 0..(Prime - 1)],
           LoopHolds(g, f, tbl)
    PROVE  LoopMeans(g, f, tbl)
<1>1. PICK m \in Nat \ {0}, n \in Nat, w \in Nat \ {0} : m = g.m /\ n = g.width /\ n >= 4 /\ w = n - 1 /\ w >= 3
  BY DEF LoopComponents
<1> DEFINE R == 0..(Prime - 1)
<1>2. \A i \in 0..(3 * m - 1) : tbl[At(w, i)] \in R
  BY <1>1, InsideLoop
<1>3. <<0, 0>> \in Positions(LoopRows(g), g.width) /\ <<1, 0>> \in Positions(LoopRows(g), g.width)
  <2>1. PICK rows \in Nat : rows = LoopRows(g) /\ rows >= 2
    <3>1. CASE 3 * g.m + 1 > g.width
      <4>1. PICK last \in Nat \ {0} : LoopRows(g) = last + 1
        BY <1>1, <3>1, RowsOfLoop
      <4> QED
        BY <4>1
    <3>2. CASE ~(3 * g.m + 1 > g.width)
      BY <3>2, OneRow
    <3> QED
      BY <3>1, <3>2
  <2> QED
    BY <1>1, <2>1 DEF Positions
<1>4. tbl[<<0, 0>>] = f.beta /\ tbl[<<1, 0>>] = f.gamma /\ f.beta \in R /\ f.gamma \in R
  <2>1. ~HasGamma(g, 0) /\ HasGamma(g, 1)
    BY <1>1 DEF HasGamma
  <2>2. 0 \in 0..(LoopRows(g) - 1) /\ 1 \in 0..(LoopRows(g) - 1)
    BY <1>3 DEF Positions
  <2>3. tbl[<<0, 0>>] = f.beta /\ tbl[<<1, 0>>] = f.gamma
    BY <2>1, <2>2 DEF LoopHolds
  <2> QED
    BY <1>3, <2>3
<1>5. ASSUME NEW k \in 1..m
      PROVE  /\ tbl[At(w, 3 * k - 3)] = f.s[k] /\ tbl[At(w, 3 * k - 2)] = f.t[k]
             /\ f.s[k] \in R /\ f.t[k] \in R
  <2>1. PICK a \in Nat : a = 3 * k - 3 /\ a \in 0..(3 * m - 1) /\ a + 1 \in 0..(3 * m - 1) /\ a + 1 = 3 * k - 2
    BY <1>1
  <2>2. a % 3 = 0 /\ (a + 1) % 3 = 1 /\ (a \div 3) + 1 = k /\ ((a + 1) \div 3) + 1 = k
    BY <2>1
  <2>3. \A i \in 0..(3 * m - 1) :
           /\ i % 3 = 0 => tbl[At(w, i)] = f.s[(i \div 3) + 1]
           /\ i % 3 = 1 => tbl[At(w, i)] = f.t[(i \div 3) + 1]
    BY <1>1 DEF LoopHolds, At
  <2>4. tbl[At(w, a)] = f.s[k] /\ tbl[At(w, a + 1)] = f.t[k]
    BY <2>1, <2>2, <2>3
  <2> QED
    BY <1>2, <2>1, <2>4
<1>6. ASSUME NEW k \in 1..m PROVE FactorOf(f, k) \in R
  <2>1. PICK b \in Nat, c \in Nat, s \in Nat, t \in Nat : b = f.beta /\ c = f.gamma /\ s = f.s[k] /\ t = f.t[k]
    BY <1>4, <1>5
  <2>2. (1 + b) * c + s + b * t \in Int
    OBVIOUS
  <2>3. E((1 + b) * c + s + b * t) \in R
    BY <2>2, ModulusFacts
  <2> QED
    BY <2>1, <2>3 DEF FactorOf, Factor
<1>7. tbl[At(w, 2)] = FactorOf(f, 1)
  <2>1. At(w, 0) = <<0, 1>> /\ At(w, 1) = <<0, 2>> /\ At(w, 2) = <<0, 3>>
    <3>1. 0 * w = 0
      OBVIOUS
    <3>2. IsAt(w, 0, 0, 1) /\ IsAt(w, 1, 0, 2) /\ IsAt(w, 2, 0, 3)
      BY <1>1, <3>1 DEF IsAt
    <3> QED
      BY <3>2, AtIs
  <2>2. 1 \in 1..m /\ 3 * 1 - 3 = 0 /\ 3 * 1 - 2 = 1
    BY <1>1
  <2>3. tbl[<<0, 1>>] = f.s[1] /\ tbl[<<0, 2>>] = f.t[1]
    BY <1>5, <2>1, <2>2
  <2>4. GateHolds(g, tbl, FirstGate, 0)
    <3>1. AllGates(n)[1] = FirstGate
      <4>1. PICK third \in Nat \ {0} :
              \/ n % 3 = 1 /\ n = 3 * third + 1
              \/ n % 3 = 2 /\ n = 3 * third + 2
              \/ n % 3 = 0 /\ n = 3 * third /\ third >= 2
        BY <1>1, FewerWidths
      <4> QED
        BY <4>1, GatesOfOne, GatesOfTwo, GatesOfNone
    <3>2. PICK e : e = <<0, 0>> /\ e \in Selectors(g) /\ e[1] + 1 = 1 /\ e[2] = 0
      <4>1. <<0, 0>> \in Selectors(g)
        BY DEF Selectors
      <4>2. <<0, 0>>[1] + 1 = 1 /\ <<0, 0>>[2] = 0
        OBVIOUS
      <4> QED
        BY <4>1, <4>2
    <3>3. GateHolds(g, tbl, AllGates(g.width)[e[1] + 1], e[2])
      BY <3>2 DEF LoopHolds
    <3> QED
      BY <1>1, <3>1, <3>2, <3>3
  <2> QED
    BY <1>4, <2>1, <2>3, <2>4, FirstSays DEF FactorOf
<1> DEFINE step == [x \in (1..m) \X Nat |-> E(x[2] * FactorOf(f, x[1]))]
           Is(h) == h = [i \in 0..g.m |->
                           IF i = 0 THEN 1
                           ELSE E(h[i - 1] * Factor(f.beta, f.gamma, f.s[i], f.t[i]))]
<1>8. ASSUME NEW x \in Nat, NEW k \in 1..m PROVE E(x * FactorOf(f, k)) \in Nat
  <2>1. PICK y \in Nat : y = FactorOf(f, k)
    BY <1>6
  <2>2. x * y \in Int
    OBVIOUS
  <2> QED
    BY <2>1, <2>2, ModulusFacts
<1>9. PICK h : Counted(h, m, 1, step)
  BY CountedFunctionExists
<1>10. h \in [0..m -> Nat]
  <2>1. step \in [(1..m) \X Nat -> Nat]
    <3>1. \A x \in (1..m) \X Nat : E(x[2] * FactorOf(f, x[1])) \in Nat
      BY <1>8
    <3> QED
      BY <3>1
  <2> HIDE DEF step
  <2> QED
    BY <1>9, <2>1, CountedFunctionType
<1>11. \A i \in 0..m : h[i] = IF i = 0 THEN 1 ELSE E(h[i - 1] * FactorOf(f, i))
  <2> SUFFICES ASSUME NEW i \in 0..m PROVE h[i] = IF i = 0 THEN 1 ELSE E(h[i - 1] * FactorOf(f, i))
    OBVIOUS
  <2>1. h[i] = IF i = 0 THEN 1 ELSE step[<<i, h[i - 1]>>]
    BY <1>9 DEF Counted
  <2>2. ASSUME i # 0 PROVE step[<<i, h[i - 1]>>] = E(h[i - 1] * FactorOf(f, i))
    <3>1. i \in 1..m /\ i - 1 \in 0..m
      BY <2>2
    <3>2. <<i, h[i - 1]>> \in (1..m) \X Nat
      BY <1>10, <3>1
    <3> QED
      BY <3>2
  <2> HIDE DEF step
  <2> QED
    BY <2>1, <2>2
<1> HIDE DEF step
<1>12. Is(h)
  <2>1. h = [i \in 0..m |-> h[i]]
    BY <1>10
  <2>2. h = [i \in 0..m |-> IF i = 0 THEN 1 ELSE E(h[i - 1] * FactorOf(f, i))]
    BY <1>11, <2>1
  <2> QED
    BY <1>1, <2>2 DEF FactorOf
<1>13. PICK product : Is(product) /\ (LoopMeans(g, f, tbl) <=> tbl[Output(g)] = product[g.m])
  <2>1. LoopMeans(g, f, tbl) <=> tbl[Output(g)] = (CHOOSE x : Is(x))[g.m]
    BY DEF LoopMeans
  <2>2. Is(CHOOSE x : Is(x))
    <3> HIDE DEF Is
    <3> QED
      BY <1>12
  <2> HIDE DEF Is
  <2> QED
    BY <2>1, <2>2
<1>14. product[0] = 1 /\ \A i \in 1..m : product[i] = E(product[i - 1] * FactorOf(f, i))
  <2>1. product = [i \in 0..m |-> IF i = 0 THEN 1 ELSE E(product[i - 1] * FactorOf(f, i))]
    BY <1>1, <1>13 DEF FactorOf
  <2> HIDE DEF Is
  <2>2. \A i \in 0..m : product[i] = IF i = 0 THEN 1 ELSE E(product[i - 1] * FactorOf(f, i))
    BY <2>1
  <2>3. 0 \in 0..m /\ \A i \in 1..m : i \in 0..m /\ i # 0
    OBVIOUS
  <2> QED
    BY <2>2, <2>3
<1> HIDE DEF Is
<1> DEFINE P == {k \in 0..m : k # 0 => tbl[At(w, 3 * k - 1)] = product[k]}
<1>15. 0 \in P
  OBVIOUS
<1>16. ASSUME NEW k \in 1..m, k - 1 \in P PROVE k \in P
  <2>1. CASE k = 1
    <3>1. PICK y \in R : y = FactorOf(f, 1)
      BY <1>6, <2>1
    <3>2. E(1 * y) = y
      <4>1. 1 * y = y
        OBVIOUS
      <4> QED
        BY <4>1, ElementRemains DEF E
    <3>3. product[1 - 1] = 1 /\ product[1] = E(product[1 - 1] * FactorOf(f, 1))
      BY <1>14, <2>1
    <3>4. 3 * 1 - 1 = 2
      OBVIOUS
    <3> QED
      BY <1>7, <2>1, <3>1, <3>2, <3>3, <3>4
  <2>2. CASE k # 1
    <3>1. k \in 2..g.m
      BY <1>1, <2>2
    <3>2. tbl[At(w, 3 * k - 1)] = E(tbl[At(w, 3 * (k - 1) - 1)] * FactorOf(f, k))
      BY <1>1, <3>1, ProductGoesOn
    <3>3. tbl[At(w, 3 * (k - 1) - 1)] = product[k - 1]
      BY <1>16, <2>2
    <3> QED
      BY <1>14, <3>2, <3>3
  <2> QED
    BY <2>1, <2>2
<1>17. m \in P
  <2>1. \A k \in 0..m : k \in P
    <3> HIDE DEF P
    <3> QED
      BY <1>15, <1>16, CountingUp
  <2> QED
    BY <2>1
<1>18. tbl[At(w, 3 * m - 1)] = product[m] /\ Output(g) = At(w, 3 * m - 1)
  BY <1>1, <1>17, OutputIs
<1> QED
  BY <1>1, <1>13, <1>18

-----------------------------------------------------------------------------
(* Components of one block after the other: additions, multiplications and *)
(* fri_array_swap                                                          *)

LEMMA RowsCover ==
    ASSUME NEW x \in Nat, NEW d \in Nat \ {0}
    PROVE  \E rows \in Nat : rows = Ceil(x, d) /\ rows * d >= x
<1>1. PICK q \in Int, e \in 0..(d - 1) : x + d - 1 = d * q + e /\ (x + d - 1) \div d = q
  <2>1. x + d - 1 \in Int
    OBVIOUS
  <2> QED
    BY <2>1, Divided
<1>2. d * q = q * d /\ d * (q + 1) = d * q + d
  OBVIOUS
<1>3. q \in Nat
  <2> SUFFICES ASSUME q <= -1 PROVE FALSE
    OBVIOUS
  <2>1. d * (q + 1) <= 0
    OBVIOUS
  <2>2. PICK p \in Int : p = d * q
    <3>1. \A y, z \in Int : y * z \in Int
      OBVIOUS
    <3> QED
      BY <3>1
  <2> QED
    BY <1>1, <1>2, <2>1, <2>2
<1>4. q * d >= x
  <2>1. PICK p \in Int : p = d * q
    <3>1. \A y, z \in Int : y * z \in Int
      OBVIOUS
    <3> QED
      BY <3>1
  <2> QED
    BY <1>1, <1>2, <2>1
<1> QED
  BY <1>1, <1>3, <1>4 DEF Ceil

(* Where a block is, when so many of them are in a row.                    *)
LEMMA BlockIs ==
    ASSUME NEW blocks \in Nat \ {0}, NEW i \in Nat \ {0}
    PROVE  \E r \in Nat, q \in 0..(blocks - 1) :
              r = (i - 1) \div blocks /\ q = (i - 1) % blocks /\ i = r * blocks + q + 1
<1>1. PICK p \in Nat : p = i - 1
  OBVIOUS
<1>2. PICK r \in Nat, c \in 1..blocks : At(blocks, p) = <<r, c>> /\ p + 1 = r * blocks + c
  BY <1>1, CellsAreAt
<1>3. r = p \div blocks /\ c = (p % blocks) + 1
  BY <1>2 DEF At
<1>4. PICK q \in 0..(blocks - 1) : q = c - 1
  OBVIOUS
<1>5. PICK z \in Nat : z = r * blocks
  <2>1. \A x, y \in Nat : x * y \in Nat
    OBVIOUS
  <2> QED
    BY <2>1
<1>6. q = p % blocks
  <2>1. p % blocks \in Int
    BY <1>1
  <2> QED
    BY <1>3, <1>4, <2>1
<1>7. i = r * blocks + q + 1
  BY <1>1, <1>2, <1>4, <1>5
<1> QED
  BY <1>1, <1>3, <1>6, <1>7

LEMMA BlockInRows ==
    ASSUME NEW blocks \in Nat \ {0}, NEW rows \in Nat, NEW n \in Nat, rows * blocks >= n,
           NEW r \in Nat, NEW q \in 0..(blocks - 1), r * blocks + q + 1 <= n
    PROVE  r \in 0..(rows - 1)
<1> SUFFICES ASSUME r >= rows PROVE FALSE
  OBVIOUS
<1>1. r * blocks >= rows * blocks
  <2>1. \A x, y \in Nat : x <= y => x * blocks <= y * blocks
    OBVIOUS
  <2> QED
    BY <2>1
<1>2. PICK z \in Nat : z = r * blocks
  <2>1. \A x, y \in Nat : x * y \in Nat
    OBVIOUS
  <2> QED
    BY <2>1
<1>3. PICK y \in Nat : y = rows * blocks
  <2>1. \A x, z1 \in Nat : x * z1 \in Nat
    OBVIOUS
  <2> QED
    BY <2>1
<1> QED
  BY <1>1, <1>2, <1>3

PairComponents == [kind : {"additions", "multiplications"}, width : Nat \ 0..2, n : Nat \ {0}]

LEMMA PairRowsAre ==
    ASSUME NEW g \in PairComponents
    PROVE  \E blocks \in Nat \ {0}, rows \in Nat, n \in Nat \ {0} :
              /\ blocks = g.width \div 3 /\ rows = PairRows(g) /\ n = g.n
              /\ blocks * 3 <= g.width /\ rows * blocks >= n
<1>1. PICK width \in Nat, n \in Nat \ {0} : width = g.width /\ n = g.n /\ width >= 3
  BY DEF PairComponents
<1>2. PICK blocks \in Nat \ {0} : blocks = width \div 3 /\ blocks * 3 <= width
  BY <1>1
<1>3. PICK d \in Nat \ {0} : d = blocks * 3
  BY <1>2
<1>4. PICK rows \in Nat : rows = Ceil(3 * n, d) /\ rows * d >= 3 * n
  <2>1. 3 * n \in Nat
    OBVIOUS
  <2> QED
    BY <2>1, RowsCover
<1>5. rows * blocks >= n
  <2>1. PICK z \in Nat : z = rows * blocks
    <3>1. \A x, y \in Nat : x * y \in Nat
      OBVIOUS
    <3> QED
      BY <3>1
  <2>2. rows * (blocks * 3) = 3 * (rows * blocks)
    OBVIOUS
  <2> QED
    BY <1>3, <1>4, <2>1, <2>2
<1> QED
  BY <1>1, <1>2, <1>3, <1>4, <1>5 DEF PairRows

(* The sums and the products of the pairs are in the cells that are named  *)
(* as results, whatever the gates and the copies hold for.                 *)
THEOREM PairsAreSound ==
    ASSUME NEW g \in PairComponents, NEW f, NEW t,
           IF g.kind = "additions" THEN AdditionsHold(g, f, t) ELSE MultiplicationsHold(g, f, t)
    PROVE  PairsMean(g, f, t)
<1>1. PICK blocks \in Nat \ {0}, rows \in Nat, n \in Nat \ {0} :
        /\ blocks = g.width \div 3 /\ rows = PairRows(g) /\ n = g.n
        /\ blocks * 3 <= g.width /\ rows * blocks >= n
  BY PairRowsAre
<1> SUFFICES ASSUME NEW i \in 1..g.n
             PROVE  PairResults(g, t)[i] =
                       IF g.kind = "additions" THEN E(f.a[i] + f.b[i]) ELSE E(f.a[i] * f.b[i])
  BY DEF PairsMean
<1>2. PICK r \in Nat, q \in 0..(blocks - 1) :
        r = (i - 1) \div blocks /\ q = (i - 1) % blocks /\ i = r * blocks + q + 1
  <2>1. i \in Nat \ {0}
    BY <1>1
  <2> QED
    BY <2>1, BlockIs
<1>3. r \in 0..(rows - 1)
  <2>1. r * blocks + q + 1 <= n
    BY <1>1, <1>2
  <2> QED
    BY <1>1, <2>1, BlockInRows
<1>4. PICK p : p = <<r, q>> /\ p \in Triples(g) /\ p[1] = r /\ p[2] = q
  <2>1. <<r, q>> \in Triples(g)
    BY <1>1, <1>3 DEF Triples
  <2> QED
    BY <2>1
<1>5. PairAt(g, r, 3 * q) = i
  <2>1. (3 * q) \div 3 = q
    OBVIOUS
  <2> QED
    BY <1>1, <1>2, <2>1 DEF PairAt
<1>6. t[<<r, 3 * q>>] = f.a[i] /\ t[<<r, 3 * q + 1>>] = f.b[i]
  <2>1. PairsCopied(g, f, t)
    BY DEF AdditionsHold, MultiplicationsHold
  <2>2. i <= g.n
    BY <1>1
  <2> QED
    BY <1>4, <1>5, <2>1, <2>2 DEF PairsCopied
<1>7. PairResults(g, t)[i] = t[<<r, 3 * q + 2>>]
  BY <1>1, <1>2 DEF PairResults
<1>8. CASE g.kind = "additions"
  <2>1. t[<<r, 3 * q + 2>>] = E(t[<<r, 3 * q>>] + t[<<r, 3 * q + 1>>])
    BY <1>4, <1>8 DEF AdditionsHold
  <2> QED
    BY <1>6, <1>7, <1>8, <2>1
<1>9. CASE g.kind # "additions"
  <2>1. t[<<r, 3 * q + 2>>] = E(t[<<r, 3 * q>>] * t[<<r, 3 * q + 1>>])
    BY <1>4, <1>9 DEF MultiplicationsHold
  <2> QED
    BY <1>6, <1>7, <1>9, <2>1
<1> QED
  BY <1>8, <1>9

SwapComponents == [kind : {"array_swap"}, width : Nat \ 0..4, n : Nat \ {0}]

(* The pairs are where their results are named, swapped where t is one.    *)
THEOREM SwapsAreSound ==
    ASSUME Prime \in Nat \ {0}, NEW g \in SwapComponents, NEW f,
           NEW t \in [Positions(SwapRows(g), g.width) -> 0..(Prime - 1)],
           ArraySwapHolds(g, f, t)
    PROVE  ArraySwapMeans(g, f, t)
<1>1. PICK width \in Nat, n \in Nat \ {0} : width = g.width /\ n = g.n /\ width >= 5
  BY DEF SwapComponents
<1>2. PICK blocks \in Nat \ {0} : blocks = (width - 1) \div 4 /\ 4 * blocks <= width - 1
  BY <1>1
<1>3. PICK rows \in Nat : rows = SwapRows(g) /\ rows * blocks >= n
  <2>1. PICK rows \in Nat : rows = Ceil(2 * n, blocks) /\ rows * blocks >= 2 * n
    <3>1. 2 * n \in Nat
      OBVIOUS
    <3> QED
      BY <3>1, RowsCover
  <2>2. PICK z \in Nat : z = rows * blocks
    <3>1. \A x, y \in Nat : x * y \in Nat
      OBVIOUS
    <3> QED
      BY <3>1
  <2>3. rows * blocks >= n
    BY <2>1, <2>2
  <2> QED
    BY <1>1, <1>2, <2>1, <2>3 DEF SwapRows, SwapBlocks
<1> SUFFICES ASSUME f.t \in {0, 1}, NEW i \in 1..g.n,
                    NEW r0, r0 = (i - 1) \div SwapBlocks(g), NEW c, c = 4 * ((i - 1) % SwapBlocks(g))
             PROVE  <<t[<<r0, c + 3>>], t[<<r0, c + 4>>]>>
                       = IF f.t = 1 THEN <<f.b[i], f.a[i]>> ELSE <<f.a[i], f.b[i]>>
  BY DEF ArraySwapMeans
<1>4. SwapBlocks(g) = blocks /\ i \in Nat \ {0}
  BY <1>1, <1>2 DEF SwapBlocks
<1>5. PICK r \in Nat, q \in 0..(blocks - 1) :
        r = (i - 1) \div blocks /\ q = (i - 1) % blocks /\ i = r * blocks + q + 1
  BY <1>4, BlockIs
<1>6. r \in 0..(rows - 1)
  <2>1. r * blocks + q + 1 <= n
    BY <1>1, <1>5
  <2> QED
    BY <1>3, <2>1, BlockInRows
<1>7. r0 = r /\ c = 4 * q /\ c \in Nat
  BY <1>4, <1>5
<1>8. PICK x \in 0..(Prime - 1), y \in 0..(Prime - 1) : x = t[<<r, c + 1>>] /\ y = t[<<r, c + 2>>]
  <2>1. <<r, c + 1>> \in Positions(SwapRows(g), g.width) /\ <<r, c + 2>> \in Positions(SwapRows(g), g.width)
    BY <1>1, <1>2, <1>3, <1>6, <1>7 DEF Positions
  <2> QED
    BY <2>1
<1>9. /\ t[<<r, 0>>] = f.t
      /\ t[<<r, c + 3>>] = E(x * (1 - f.t) + y * f.t)
      /\ t[<<r, c + 4>>] = E(y * (1 - f.t) + x * f.t)
      /\ x = f.a[i] /\ y = f.b[i]
  <2>1. r * SwapBlocks(g) + q + 1 = i /\ i <= g.n
    BY <1>1, <1>4, <1>5
  <2>2. r \in 0..(SwapRows(g) - 1) /\ q \in 0..(SwapBlocks(g) - 1)
    BY <1>3, <1>4, <1>6
  <2>3. t[<<r, 0>>] = f.t
    BY <2>2 DEF ArraySwapHolds
  <2>4. /\ t[<<r, 4 * q + 3>>] = E(t[<<r, 4 * q + 1>>] * (1 - t[<<r, 0>>]) + t[<<r, 4 * q + 2>>] * t[<<r, 0>>])
        /\ t[<<r, 4 * q + 4>>] = E(t[<<r, 4 * q + 2>>] * (1 - t[<<r, 0>>]) + t[<<r, 4 * q + 1>>] * t[<<r, 0>>])
        /\ r * SwapBlocks(g) + q + 1 <= g.n =>
              /\ t[<<r, 4 * q + 1>>] = f.a[r * SwapBlocks(g) + q + 1]
              /\ t[<<r, 4 * q + 2>>] = f.b[r * SwapBlocks(g) + q + 1]
    BY <2>2 DEF ArraySwapHolds
  <2> QED
    BY <1>7, <1>8, <2>1, <2>3, <2>4
<1>10. E(x) = x /\ E(y) = y
  BY ElementRemains DEF E
<1>11. CASE f.t = 0
  <2>1. x * (1 - 0) + y * 0 = x /\ y * (1 - 0) + x * 0 = y
    OBVIOUS
  <2> QED
    BY <1>7, <1>9, <1>10, <1>11, <2>1
<1>12. CASE f.t = 1
  <2>1. x * (1 - 1) + y * 1 = y /\ y * (1 - 1) + x * 1 = x
    OBVIOUS
  <2> QED
    BY <1>7, <1>9, <1>10, <1>12, <2>1
<1> QED
  BY <1>11, <1>12
=============================================================================
