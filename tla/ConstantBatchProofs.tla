------------------------ MODULE ConstantBatchProofs ------------------------
(***************************************************************************)
(* Finalizing batched constants, for every column, every order of requests *)
(* and every number of constants: the rows that receive them are rows that *)
(* no copy constraint reads, different constants get different rows, and   *)
(* what copy constraints and gates of neighbouring rows read stays.        *)
(***************************************************************************)
EXTENDS ConstantBatch, FiniteSetTheorems, WellFoundedInduction, TLAPS

(* A set of natural numbers has a least member.                            *)
LEMMA LeastNatural ==
    ASSUME NEW T \in SUBSET Nat, T # {}
    PROVE  \E m \in T : \A n \in T : m <= n
<1> DEFINE R == OpToRel(<, Nat)
<1>1. PICK x \in T : \A y \in T : ~ (<<y, x>> \in R)
  BY NatLessThanWellFounded, WFMin
<1>2. \A a, b \in Nat : b < a => <<b, a>> \in R
  BY DEF OpToRel
<1> HIDE DEF R
<1>3. \A y \in T : ~(y < x)
  BY <1>1, <1>2
<1> QED
  BY <1>3

-----------------------------------------------------------------------------
(* The rows that a finalization chooses *)

(* Between start and any row there are only finitely many unused rows, and *)
(* a row that is used or not adds at most one to their number.             *)
LEMMA UnusedCount ==
    ASSUME NEW U, NEW a \in Int, NEW r \in Int
    PROVE  /\ IsFiniteSet((a..r) \ U) /\ Cardinality((a..r) \ U) \in Nat
           /\ a <= r => Cardinality((a..r) \ U) =
                Cardinality((a..(r - 1)) \ U) + (IF r \in U THEN 0 ELSE 1)
<1>1. IsFiniteSet((a..r) \ U) /\ IsFiniteSet((a..(r - 1)) \ U)
  <2>1. r - 1 \in Int /\ IsFiniteSet(a..r)
    BY FS_Interval
  <2>2. IsFiniteSet(a..(r - 1))
    BY <2>1, FS_Interval
  <2> QED
    BY ONLY <2>1, <2>2, FS_Difference
<1>2. ASSUME a <= r, r \in U
      PROVE  Cardinality((a..r) \ U) = Cardinality((a..(r - 1)) \ U)
  <2>1. (a..r) \ U = (a..(r - 1)) \ U
    BY <1>2
  <2> QED
    BY <2>1
<1>3. ASSUME a <= r, r \notin U
      PROVE  Cardinality((a..r) \ U) = Cardinality((a..(r - 1)) \ U) + 1
  <2>1. (a..r) \ U = ((a..(r - 1)) \ U) \cup {r} /\ r \notin (a..(r - 1)) \ U
    BY <1>3
  <2> QED
    BY <2>1, <1>1, FS_AddElement
<1>4. Cardinality((a..r) \ U) \in Nat /\ Cardinality((a..(r - 1)) \ U) \in Nat
  BY <1>1, FS_CardinalityType
<1> DEFINE more == Cardinality((a..r) \ U)
           less == Cardinality((a..(r - 1)) \ U)
<1>5. a <= r /\ r \in U => more = less
  BY <1>2
<1>6. a <= r /\ r \notin U => more = less + 1
  BY <1>3
<1>7. more \in Nat /\ less \in Nat
  BY <1>4
<1> HIDE DEF more, less
<1>8. a <= r => more = less + (IF r \in U THEN 0 ELSE 1)
  BY <1>5, <1>6, <1>7
<1> QED
  BY <1>1, <1>4, <1>8 DEF more, less

(* Every unused row from start on is found: the i-th one exists, above     *)
(* start, before the end of the column and the batch together.             *)
LEMMA FreeRowIs ==
    ASSUME NEW start \in Nat, Size \in Nat, NEW i \in Nat \ {0},
           Used(start) \subseteq 0..(Size - 1)
    PROVE  /\ FreeRow(start, i) \in start..(start + Size + i)
           /\ FreeRow(start, i) \notin Used(start)
           /\ Cardinality((start..FreeRow(start, i)) \ Used(start)) = i
<1> DEFINE U == Used(start)
           count(r) == Cardinality((start..r) \ U)
           T == {r \in Nat : start <= r /\ count(r) >= i}
           last == Larger(start, Size) + i - 1
<1>1. last \in start..(start + Size + i) /\ last \in Int /\ start \in Int
  BY DEF Larger
<1>2. last \in T
  <2>1. (Larger(start, Size)..last) \subseteq (start..last) \ U
    BY DEF Larger
  <2>2. Cardinality(Larger(start, Size)..last) = i
    BY <1>1, FS_Interval DEF Larger
  <2>3. IsFiniteSet((start..last) \ U) /\ count(last) \in Nat
    <3> HIDE DEF last, U
    <3> QED
      BY ONLY <1>1, UnusedCount
  <2>4. i <= count(last)
    BY <2>1, <2>2, <2>3, FS_Subset
  <2> QED
    BY <1>1, <2>3, <2>4
<1>3. PICK m \in T : \A n \in T : m <= n
  <2> HIDE DEF T
  <2>1. T \in SUBSET Nat /\ T # {}
    BY <1>2 DEF T
  <2> QED
    BY <2>1, LeastNatural
<1>4. m \in start..(start + Size + i)
  BY <1>1, <1>2, <1>3
<1>5. count(m - 1) \in Nat /\ count(m) \in Nat /\ count(m) >= i
      /\ count(m) = count(m - 1) + (IF m \in U THEN 0 ELSE 1)
  <2>1. start \in Int /\ m \in Int /\ m - 1 \in Int /\ start <= m /\ count(m) >= i
    BY <1>3
  <2>2. count(m - 1) \in Nat
    BY ONLY <2>1, UnusedCount
  <2>3. count(m) \in Nat /\ count(m) = count(m - 1) + (IF m \in U THEN 0 ELSE 1)
    BY ONLY <2>1, UnusedCount
  <2> QED
    BY <2>1, <2>2, <2>3
<1>6. count(m - 1) < i
  <2>1. CASE m = start
    <3>1. (start..(m - 1)) \ U = {}
      BY <2>1
    <3> QED
      BY <3>1, FS_EmptySet
  <2>2. CASE m # start
    <3>1. m - 1 \in Nat /\ start <= m - 1
      BY <2>2, <1>4
    <3>2. m - 1 \notin T
      BY <1>3, <3>1
    <3> QED
      BY <3>1, <3>2, <1>5
  <2> QED
    BY <2>1, <2>2
<1>7. m \notin U /\ count(m) = i
  BY <1>5, <1>6
<1> QED
  BY <1>4, <1>7 DEF FreeRow

(* The rows chosen for different constants differ and are in their order.  *)
LEMMA FreeRowsAreInOrder ==
    ASSUME NEW start \in Nat, Size \in Nat, Used(start) \subseteq 0..(Size - 1),
           NEW i \in Nat \ {0}, NEW j \in Nat \ {0}
    PROVE  /\ FreeRow(start, i) = FreeRow(start, j) => i = j
           /\ i <= j => FreeRow(start, i) <= FreeRow(start, j)
<1> DEFINE U == Used(start)
           a == FreeRow(start, i)
           b == FreeRow(start, j)
<1>1. /\ a \in start..(start + Size + i) /\ a \notin U /\ Cardinality((start..a) \ U) = i
      /\ b \in start..(start + Size + j) /\ b \notin U /\ Cardinality((start..b) \ U) = j
  BY FreeRowIs
<1> HIDE DEF a, b
<1>2. ASSUME b < a PROVE j < i
  <2>1. a \in Int /\ b \in Int /\ start <= a /\ start \in Int /\ a - 1 \in Int
    BY <1>1
  <2>2. (start..b) \ U \subseteq (start..(a - 1)) \ U
    BY <1>2, <2>1
  <2>3. IsFiniteSet((start..(a - 1)) \ U) /\ Cardinality((start..(a - 1)) \ U) \in Nat
    BY ONLY <2>1, UnusedCount
  <2>4. j <= Cardinality((start..(a - 1)) \ U)
    BY <1>1, <2>2, <2>3, FS_Subset
  <2>5. Cardinality((start..a) \ U)
          = Cardinality((start..(a - 1)) \ U) + (IF a \in U THEN 0 ELSE 1)
    BY ONLY <2>1, UnusedCount
  <2> QED
    BY <1>1, <2>3, <2>4, <2>5
<1>3. a = b => i = j
  BY <1>1
<1> QED
  BY <1>1, <1>2, <1>3 DEF a, b

-----------------------------------------------------------------------------
(* The column after a write *)

IsColumn(n) == n \in Nat /\ column \in [0..(n - 1) -> Value]

LEMMA SizeOfColumn ==
    ASSUME NEW n, IsColumn(n)
    PROVE  Size = n
<1>1. n \in Nat /\ DOMAIN column = 0..(n - 1)
  BY DEF IsColumn
<1>2. Cardinality(0..(n - 1)) = n
  <2>1. 0 \in Int /\ n - 1 \in Int
    BY <1>1
  <2>2. Cardinality(0..(n - 1)) = IF 0 > n - 1 THEN 0 ELSE n - 1 - 0 + 1
    BY <2>1, FS_Interval
  <2> QED
    BY <2>2, <1>1
<1> QED
  BY <1>1, <1>2 DEF Size

(* Rows that are written get the new values, the others keep theirs.       *)
LEMMA WrittenIs ==
    ASSUME NEW n, IsColumn(n), NEW writes, DOMAIN writes \subseteq Nat,
           \A r \in DOMAIN writes : writes[r] \in Value,
           NEW m \in DOMAIN writes, m <= MaxRow, \A r \in DOMAIN writes : r <= m
    PROVE  /\ Written(writes) \in [0..(Larger(n, m + 1) - 1) -> Value]
           /\ \A r \in DOMAIN writes : Written(writes)[r] = writes[r]
           /\ \A r \in DOMAIN column \ DOMAIN writes : Written(writes)[r] = column[r]
<1> DEFINE end == CHOOSE k \in 0..(MaxRow + 1) :
                    /\ \A q \in DOMAIN writes : q < k
                    /\ k = 0 \/ k - 1 \in DOMAIN writes
<1>1. m + 1 \in 0..(MaxRow + 1) /\ (\A q \in DOMAIN writes : q < m + 1)
      /\ m + 1 - 1 \in DOMAIN writes /\ m \in Nat
  BY BoundsAssumption
<1>2. /\ end \in 0..(MaxRow + 1)
      /\ \A q \in DOMAIN writes : q < end
      /\ end = 0 \/ end - 1 \in DOMAIN writes
  BY <1>1
<1>3. end = m + 1
  <2> HIDE DEF end
  <2>1. m < end /\ end \in Nat
    BY <1>2, BoundsAssumption
  <2>2. end - 1 \in DOMAIN writes
    BY <2>1, <1>1, <1>2
  <2>3. end - 1 <= m
    BY <2>2
  <2> QED
    BY <2>1, <2>3, <1>1
<1> DEFINE height == Larger(n, m + 1)
           value(r) == IF r \in DOMAIN writes THEN writes[r]
                       ELSE IF r \in DOMAIN column THEN column[r] ELSE Zero
<1>4. Written(writes) = [r \in 0..(height - 1) |-> value(r)]
  <2>1. Size = n
    BY SizeOfColumn
  <2>2. Written(writes) = [r \in 0..(Larger(Size, end) - 1) |-> value(r)]
    BY DEF Written
  <2> QED
    BY <2>1, <2>2, <1>3
<1>5. height \in Nat /\ n <= height /\ m + 1 <= height /\ n \in Nat
  BY <1>1 DEF Larger, IsColumn
<1>6. \A r \in 0..(height - 1) : value(r) \in Value
  BY ZeroAssumption DEF IsColumn
<1>7. \A r \in DOMAIN writes \cup DOMAIN column : r \in 0..(height - 1)
  <2>1. \A r \in DOMAIN writes : r \in Nat /\ r <= m
    OBVIOUS
  <2>2. \A r \in DOMAIN column : r \in 0..(n - 1)
    BY DEF IsColumn
  <2> HIDE DEF height
  <2> QED
    BY <1>1, <1>5, <2>1, <2>2
<1> HIDE DEF height
<1> QED
  BY <1>4, <1>6, <1>7 DEF height

-----------------------------------------------------------------------------
(* The invariant: the places of copy constraints and of gates exist, and   *)
(* the next free row of the table lies behind the column, so that a new    *)
(* constant overwrites none.                                               *)

GatesReadColumn == \A u \in gateUses : u.row + u.rotation \in DOMAIN column

ColumnBelowFreeRow == \A r \in DOMAIN column : r < allocatedRows

IInv == TypeOK /\ GatesReadColumn /\ ColumnBelowFreeRow /\ CopiesHold

LEMMA InitIInv == Init => IInv
<1> SUFFICES ASSUME Init PROVE IInv
  OBVIOUS
<1>1. column \in [0..(0 - 1) -> Value] /\ 0 \in 0..(MaxRow + 1)
  BY BoundsAssumption DEF Init
<1> QED
  BY <1>1, BoundsAssumption DEF Init, IInv, TypeOK, GatesReadColumn, ColumnBelowFreeRow, CopiesHold

LEMMA Bounds ==
    ASSUME TypeOK
    PROVE  /\ allocatedRows \in Nat
           /\ \E n \in Nat : IsColumn(n) /\ n <= MaxRow + 1
           /\ DOMAIN column \subseteq Nat
           /\ \A c \in copies : c.place \in Place /\ c.value \in Value
                                 /\ c = [place |-> c.place, value |-> c.value]
  BY BoundsAssumption DEF TypeOK, IsColumn

LEMMA Places ==
    \A place \in Place :
        \/ place.kind = "cell" /\ place = Cell(place.at) /\ place.at \in DOMAIN column
        \/ place.kind = "batch" /\ place = Batched(place.at) /\ place.at \in 1..Len(batchConstants)
  BY DEF Place, Cell, Batched

(* What a write of fresh rows keeps: every place that exists still does,   *)
(* and is worth what it was worth.                                         *)
LEMMA FreshWrite ==
    ASSUME IInv, NEW writes, NEW m \in Nat, m <= MaxRow,
           DOMAIN writes = {m}, writes[m] \in Value, allocatedRows <= m,
           column' = Written(writes), allocatedRows' \in (m + 1)..(MaxRow + 1),
           UNCHANGED batchConstants
    PROVE  /\ \E n \in 0..(MaxRow + 1) : column' \in [0..(n - 1) -> Value]
           /\ DOMAIN column' = DOMAIN column \cup 0..m
           /\ \A r \in DOMAIN column : column'[r] = column[r]
           /\ column'[m] = writes[m]
           /\ ColumnBelowFreeRow'
           /\ Place \subseteq Place'
           /\ \A place \in Place : ValueAt(place)' = ValueAt(place)
<1>1. TypeOK /\ ColumnBelowFreeRow
  BY DEF IInv
<1>2. PICK n \in Nat : IsColumn(n) /\ n <= MaxRow + 1
  BY <1>1, Bounds
<1>3. DOMAIN column = 0..(n - 1) /\ allocatedRows \in Nat
  BY <1>1, <1>2, Bounds DEF IsColumn
<1>4. n <= m
  <2>1. n = 0 \/ n - 1 \in DOMAIN column
    BY <1>3
  <2>2. n = 0 \/ n - 1 < allocatedRows
    BY <1>1, <2>1 DEF ColumnBelowFreeRow
  <2> QED
    BY <1>3, <2>2
<1>5. /\ column' \in [0..(Larger(n, m + 1) - 1) -> Value]
      /\ \A r \in DOMAIN writes : column'[r] = writes[r]
      /\ \A r \in DOMAIN column \ DOMAIN writes : column'[r] = column[r]
  BY <1>2, WrittenIs
<1>6. Larger(n, m + 1) = m + 1 /\ m + 1 - 1 = m
  BY <1>4 DEF Larger
<1>7. DOMAIN column' = 0..m /\ m \notin DOMAIN column
  BY <1>3, <1>4, <1>5, <1>6
<1>8. DOMAIN column' = DOMAIN column \cup 0..m
  BY <1>3, <1>4, <1>7
<1>9. \A r \in DOMAIN column : column'[r] = column[r]
  BY <1>5, <1>7
<1>10. \A r \in DOMAIN column' : r < allocatedRows'
  BY <1>7
<1>11. \E k \in 0..(MaxRow + 1) : column' \in [0..(k - 1) -> Value]
  BY <1>5, <1>6, BoundsAssumption
<1>12. Place \subseteq Place'
  BY <1>8 DEF Place
<1>13. \A place \in Place : ValueAt(place)' = ValueAt(place)
  <2> SUFFICES ASSUME NEW place \in Place
               PROVE  ValueAt(place)' = ValueAt(place)
    OBVIOUS
  <2>1. CASE place.kind = "batch"
    BY <2>1 DEF ValueAt
  <2>2. CASE place.kind = "cell" /\ place.at \in DOMAIN column
    BY <2>2, <1>9 DEF ValueAt
  <2> QED
    BY <2>1, <2>2, Places
<1> QED
  BY <1>5, <1>8, <1>9, <1>10, <1>11, <1>12, <1>13, BoundsAssumption DEF ColumnBelowFreeRow

LEMMA UseByCopyStep ==
    ASSUME IInv, NEW v \in Value, UseByCopy(v)
    PROVE  IInv' /\ \A r \in DOMAIN column : column'[r] = column[r]
<1>1. TypeOK /\ GatesReadColumn /\ CopiesHold
  BY DEF IInv
<1>2. PICK row \in Nat : row = allocatedRows
  BY <1>1, Bounds
<1> DEFINE writes == [r \in {row} |-> v]
           new == [place |-> Cell(row), value |-> v]
<1>3. row <= MaxRow /\ DOMAIN writes = {row} /\ writes[row] = v
      /\ column' = Written(writes) /\ allocatedRows' = row + 1
      /\ copies' = copies \cup {new}
      /\ UNCHANGED <<batchConstants, gateUses, finalizations>>
  BY <1>2 DEF UseByCopy
<1>4. /\ \E n \in 0..(MaxRow + 1) : column' \in [0..(n - 1) -> Value]
      /\ DOMAIN column' = DOMAIN column \cup 0..row
      /\ \A r \in DOMAIN column : column'[r] = column[r]
      /\ column'[row] = v
      /\ allocatedRows' \in (row + 1)..(MaxRow + 1)
      /\ ColumnBelowFreeRow'
      /\ Place \subseteq Place'
      /\ \A place \in Place : ValueAt(place)' = ValueAt(place)
  <2> HIDE DEF writes
  <2>1. allocatedRows <= row /\ allocatedRows' \in (row + 1)..(MaxRow + 1)
    BY <1>2, <1>3, BoundsAssumption
  <2> QED
    BY <1>3, <2>1, FreshWrite
<1>5. Cell(row) \in Place'
  BY <1>4 DEF Place
<1>6. TypeOK'
  <2>1. copies' \subseteq [place : Place', value : Value]
    BY <1>1, <1>3, <1>4, <1>5 DEF TypeOK
  <2>2. allocatedRows' \in 0..(MaxRow + 1)
    BY <1>2, <1>4
  <2> QED
    BY <1>1, <1>3, <1>4, <2>1, <2>2 DEF TypeOK
<1>7. GatesReadColumn'
  BY <1>1, <1>3, <1>4 DEF GatesReadColumn
<1>8. CopiesHold'
  <2>1. ASSUME NEW c \in copies PROVE ValueAt(c.place)' = c.value
    BY <1>1, <1>4, Bounds DEF CopiesHold
  <2>2. ValueAt(Cell(row))' = v
    BY <1>4 DEF ValueAt, Cell
  <2>3. ASSUME NEW c \in copies' PROVE ValueAt(c.place)' = c.value
    BY <1>3, <2>1, <2>2
  <2> QED
    BY <2>3 DEF CopiesHold
<1> QED
  BY <1>4, <1>6, <1>7, <1>8 DEF IInv

(* A gate's constant stands, and the constants of earlier gates with it.   *)
LEMMA UseByGateStep ==
    ASSUME IInv, NEW v \in Value, NEW rotation \in Rotation, UseByGate(v, rotation)
    PROVE  /\ IInv'
           /\ \A r \in DOMAIN column : column'[r] = column[r]
           /\ \A u \in gateUses' \ gateUses : column'[u.row + u.rotation] = u.value
<1>1. TypeOK /\ GatesReadColumn /\ CopiesHold /\ ColumnBelowFreeRow
  BY DEF IInv
<1>2. PICK row \in Nat : row = IF rotation = -1 THEN allocatedRows + 1 ELSE allocatedRows
  BY <1>1, Bounds
<1>3. PICK cell \in Nat : cell = row + rotation /\ allocatedRows <= cell
  BY <1>1, <1>2, Bounds DEF Rotation
<1> DEFINE writes == [r \in {cell} |-> v]
           new == [row |-> row, rotation |-> rotation, value |-> v]
<1>4. Larger(row, cell) <= MaxRow /\ DOMAIN writes = {cell} /\ writes[cell] = v
      /\ column' = Written(writes) /\ allocatedRows' = Larger(row, cell) + 1
      /\ gateUses' = gateUses \cup {new}
      /\ UNCHANGED <<batchConstants, copies, finalizations>>
  BY <1>2, <1>3 DEF UseByGate
<1>5. cell <= MaxRow /\ row <= MaxRow /\ Larger(row, cell) \in 0..MaxRow /\ cell <= Larger(row, cell)
  BY <1>4, BoundsAssumption DEF Larger
<1>6. /\ \E n \in 0..(MaxRow + 1) : column' \in [0..(n - 1) -> Value]
      /\ DOMAIN column' = DOMAIN column \cup 0..cell
      /\ \A r \in DOMAIN column : column'[r] = column[r]
      /\ column'[cell] = v
      /\ allocatedRows' \in (cell + 1)..(MaxRow + 1)
      /\ ColumnBelowFreeRow'
      /\ Place \subseteq Place'
      /\ \A place \in Place : ValueAt(place)' = ValueAt(place)
  <2> HIDE DEF writes
  <2>1. allocatedRows' \in (cell + 1)..(MaxRow + 1)
    BY <1>4, <1>5, BoundsAssumption
  <2> QED
    BY <1>3, <1>4, <1>5, <2>1, FreshWrite
<1>7. TypeOK'
  <2>1. copies' \subseteq [place : Place', value : Value]
    BY <1>1, <1>4, <1>6 DEF TypeOK
  <2>2. gateUses' \subseteq [row : 0..MaxRow, rotation : Rotation, value : Value]
    BY <1>1, <1>4, <1>5 DEF TypeOK
  <2>3. allocatedRows' \in 0..(MaxRow + 1)
    BY <1>3, <1>6
  <2> QED
    BY <1>1, <1>4, <1>6, <2>1, <2>2, <2>3 DEF TypeOK
<1>8. GatesReadColumn'
  BY <1>1, <1>3, <1>4, <1>6 DEF GatesReadColumn
<1>9. CopiesHold'
  BY <1>1, <1>4, <1>6, Bounds DEF CopiesHold
<1>10. \A u \in gateUses' \ gateUses : column'[u.row + u.rotation] = u.value
  BY <1>3, <1>4, <1>6
<1> QED
  BY <1>6, <1>7, <1>8, <1>9, <1>10 DEF IInv

LEMMA AddBatchConstantStep ==
    ASSUME IInv, NEW v \in Value, AddBatchConstant(v)
    PROVE  IInv'
<1>1. TypeOK /\ GatesReadColumn /\ CopiesHold /\ ColumnBelowFreeRow
  BY DEF IInv
<1>2. /\ batchConstants' \in Seq(Value)
      /\ Len(batchConstants') >= Len(batchConstants)
      /\ \A i \in 1..Len(batchConstants) : batchConstants'[i] = batchConstants[i]
      /\ \E i \in 1..Len(batchConstants') : batchConstants'[i] = v
  <2>1. CASE \E i \in 1..Len(batchConstants) : batchConstants[i] = v
    BY <1>1, <2>1 DEF AddBatchConstant, TypeOK
  <2>2. CASE ~ \E i \in 1..Len(batchConstants) : batchConstants[i] = v
    <3>1. batchConstants' = Append(batchConstants, v) /\ batchConstants \in Seq(Value)
      BY <1>1, <2>2 DEF AddBatchConstant, TypeOK
    <3> QED
      BY <3>1
  <2> QED
    BY <2>1, <2>2
<1>3. PICK i \in 1..Len(batchConstants') : i = IndexOf(v) /\ batchConstants'[i] = v
  BY <1>2 DEF IndexOf
<1> DEFINE new == [place |-> Batched(i), value |-> v]
<1>4. copies' = copies \cup {new} /\ UNCHANGED <<column, allocatedRows, gateUses, finalizations>>
  BY <1>3 DEF AddBatchConstant
<1>5. Len(batchConstants) \in Nat /\ Len(batchConstants') \in Nat
  BY <1>1, <1>2 DEF TypeOK
<1>6. Place \subseteq Place' /\ Batched(i) \in Place'
  BY <1>2, <1>3, <1>4, <1>5 DEF Place
<1>7. \A place \in Place : ValueAt(place)' = ValueAt(place)
  BY <1>2, <1>4, Places DEF ValueAt
<1>8. ValueAt(Batched(i))' = v
  BY <1>3 DEF ValueAt, Batched
<1>9. TypeOK'
  <2>1. copies' \subseteq [place : Place', value : Value]
    BY <1>1, <1>4, <1>6 DEF TypeOK
  <2> QED
    BY <1>1, <1>2, <1>4, <2>1 DEF TypeOK
<1>10. CopiesHold'
  <2>1. ASSUME NEW c \in copies PROVE ValueAt(c.place)' = c.value
    BY <1>1, <1>7, Bounds DEF CopiesHold
  <2>2. ASSUME NEW c \in copies' PROVE ValueAt(c.place)' = c.value
    BY <1>4, <1>8, <2>1
  <2> QED
    BY <2>2 DEF CopiesHold
<1> QED
  BY <1>1, <1>4, <1>9, <1>10 DEF IInv, GatesReadColumn, ColumnBelowFreeRow

(* The batch goes to rows from start on that nothing reads, entry i to the *)
(* i-th of them.                                                           *)
LEMMA FinalizedColumn ==
    ASSUME IInv, NEW start \in StartRow, FinalizeConstantBatches(start)
    PROVE  /\ \E n \in 0..(MaxRow + 1) : column' \in [0..(n - 1) -> Value]
           /\ DOMAIN column \subseteq DOMAIN column'
           /\ allocatedRows' \in 0..(MaxRow + 1)
           /\ ColumnBelowFreeRow'
           /\ \A i \in 1..Len(batchConstants) :
                /\ FreeRow(start, i) \in DOMAIN column'
                /\ column'[FreeRow(start, i)] = batchConstants[i]
           /\ \A r \in DOMAIN column : r < start \/ r \in Used(start) => column'[r] = column[r]
<1>1. TypeOK /\ ColumnBelowFreeRow
  BY DEF IInv
<1>2. PICK n \in Nat : IsColumn(n) /\ n <= MaxRow + 1
  BY <1>1, Bounds
<1>3. DOMAIN column = 0..(n - 1) /\ Size = n /\ allocatedRows \in Nat /\ start \in Nat
  BY <1>1, <1>2, Bounds, SizeOfColumn, StartRowAssumption DEF IsColumn
<1>4. Used(start) \subseteq 0..(Size - 1) /\ Size \in Nat
  BY <1>3 DEF Used
<1>5. PICK k \in Nat : k = Len(batchConstants) /\ k > 0 /\ batchConstants \in Seq(Value)
  BY <1>1 DEF TypeOK, FinalizeConstantBatches
<1> DEFINE free(i) == FreeRow(start, i)
           placed == [r \in {free(i) : i \in 1..k} |->
                         batchConstants[CHOOSE i \in 1..k : free(i) = r]]
<1>6. /\ column' = Written(placed)
      /\ allocatedRows' = Larger(allocatedRows, free(k) + 1)
      /\ free(k) <= MaxRow
  BY <1>5 DEF FinalizeConstantBatches
<1>7. \A i \in 1..k : free(i) \in Nat /\ start <= free(i) /\ free(i) \notin Used(start)
  <2> SUFFICES ASSUME NEW i \in 1..k
               PROVE  free(i) \in Nat /\ start <= free(i) /\ free(i) \notin Used(start)
    OBVIOUS
  <2>1. i \in Nat \ {0} /\ Size \in Nat /\ start \in Nat
    BY <1>3
  <2>2. FreeRow(start, i) \in start..(start + Size + i) /\ FreeRow(start, i) \notin Used(start)
    BY <1>4, <2>1, FreeRowIs
  <2> QED
    BY <2>1, <2>2
<1>8. \A i \in 1..k : free(i) <= free(k) /\ \A j \in 1..k : free(i) = free(j) => i = j
  BY <1>3, <1>4, <1>5, FreeRowsAreInOrder
<1> HIDE DEF free
<1>9. DOMAIN placed = {free(i) : i \in 1..k} /\ k \in 1..k
  BY <1>5
<1>10. \A i \in 1..k : placed[free(i)] = batchConstants[i] /\ batchConstants[i] \in Value
  <2> SUFFICES ASSUME NEW i \in 1..k
               PROVE  placed[free(i)] = batchConstants[i] /\ batchConstants[i] \in Value
    OBVIOUS
  <2>1. placed[free(i)] = batchConstants[CHOOSE j \in 1..k : free(j) = free(i)]
    OBVIOUS
  <2>2. (CHOOSE j \in 1..k : free(j) = free(i)) = i
    BY <1>8
  <2>3. batchConstants[i] \in Value
    BY <1>5
  <2> HIDE DEF placed
  <2> QED
    BY <2>1, <2>2, <2>3
<1> HIDE DEF placed
<1> DEFINE height == Larger(n, free(k) + 1)
<1>11. /\ column' \in [0..(height - 1) -> Value]
       /\ \A r \in DOMAIN placed : column'[r] = placed[r]
       /\ \A r \in DOMAIN column \ DOMAIN placed : column'[r] = column[r]
  <2>1. /\ DOMAIN placed \subseteq Nat
        /\ \A r \in DOMAIN placed : placed[r] \in Value /\ r <= free(k)
        /\ free(k) \in DOMAIN placed
    BY <1>7, <1>8, <1>9, <1>10
  <2> QED
    BY <1>2, <1>6, <2>1, WrittenIs
<1>12. height \in 0..(MaxRow + 1) /\ n <= height /\ free(k) + 1 <= height /\ free(k) \in Nat
       /\ height <= allocatedRows' /\ allocatedRows' \in 0..(MaxRow + 1)
  <2>1. free(k) \in Nat /\ allocatedRows \in 0..(MaxRow + 1)
    BY <1>1, <1>7, <1>9 DEF TypeOK
  <2>2. n <= allocatedRows
    <3>1. n = 0 \/ n - 1 \in DOMAIN column
      BY <1>3
    <3>2. n = 0 \/ n - 1 < allocatedRows
      BY <1>1, <3>1 DEF ColumnBelowFreeRow
    <3> QED
      BY <3>2, <1>3
  <2> QED
    BY <1>2, <1>6, <2>1, <2>2, BoundsAssumption DEF Larger
<1> HIDE DEF height
<1>13. DOMAIN column' = 0..(height - 1) /\ DOMAIN column \subseteq DOMAIN column'
  BY <1>3, <1>11, <1>12
<1>14. \A i \in 1..k : free(i) \in DOMAIN column' /\ column'[free(i)] = batchConstants[i]
  <2> SUFFICES ASSUME NEW i \in 1..k
               PROVE  free(i) \in DOMAIN column' /\ column'[free(i)] = batchConstants[i]
    OBVIOUS
  <2>1. free(i) \in DOMAIN placed /\ free(i) \in Nat /\ free(i) <= free(k)
    BY <1>7, <1>8, <1>9
  <2> QED
    BY <2>1, <1>10, <1>11, <1>12, <1>13
<1>15. ASSUME NEW r \in DOMAIN column, r < start \/ r \in Used(start)
       PROVE  column'[r] = column[r]
  <2>1. r \notin DOMAIN placed
    BY <1>3, <1>7, <1>9, <1>15
  <2> QED
    BY <2>1, <1>11
<1>16. ColumnBelowFreeRow'
  <2> SUFFICES ASSUME NEW r \in DOMAIN column' PROVE r < allocatedRows'
    BY DEF ColumnBelowFreeRow
  <2> QED
    BY <1>12, <1>13
<1>17. \E m \in 0..(MaxRow + 1) : column' \in [0..(m - 1) -> Value]
  BY <1>11, <1>12
<1> QED
  BY <1>5, <1>12, <1>13, <1>14, <1>15, <1>16, <1>17 DEF free

LEMMA FinalizeStep ==
    ASSUME IInv, NEW start \in StartRow, FinalizeConstantBatches(start)
    PROVE  IInv'
<1>1. TypeOK /\ GatesReadColumn /\ CopiesHold /\ Used(start) = Used(start)
  BY DEF IInv
<1>2. /\ DOMAIN column \subseteq DOMAIN column'
      /\ \A i \in 1..Len(batchConstants) :
            /\ FreeRow(start, i) \in DOMAIN column'
            /\ column'[FreeRow(start, i)] = batchConstants[i]
      /\ \A r \in DOMAIN column : r < start \/ r \in Used(start) => column'[r] = column[r]
  BY FinalizedColumn
<1> DEFINE moved(c) == [place |-> Replaced(start, c.place), value |-> c.value]
<1>3. /\ copies' = {moved(c) : c \in copies}
      /\ finalizations' = finalizations + 1 /\ finalizations < 2
      /\ UNCHANGED <<batchConstants, gateUses>>
  BY DEF FinalizeConstantBatches
<1>4. PICK n \in Nat : DOMAIN column = 0..(n - 1) /\ Size = n
  <2>1. PICK n \in Nat : IsColumn(n)
    BY <1>1, Bounds
  <2>2. DOMAIN column = 0..(n - 1) /\ Size = n
    BY <2>1, SizeOfColumn DEF IsColumn
  <2> QED
    BY <2>2
<1>5. start \in Nat
  BY StartRowAssumption
<1>6. ASSUME NEW c \in copies
      PROVE  \E new : /\ new = Replaced(start, c.place) /\ new \in Place'
                      /\ ValueAt(new)' = c.value
  <2> PICK new : new = Replaced(start, c.place)
    OBVIOUS
  <2>1. c.place \in Place /\ c.value \in Value /\ c = [place |-> c.place, value |-> c.value]
        /\ ValueAt(c.place) = c.value
    BY <1>1, Bounds DEF CopiesHold
  <2>3. CASE c.place.kind = "batch" /\ c.place.at \in 1..Len(batchConstants)
    <3> PICK r : r = FreeRow(start, c.place.at)
      OBVIOUS
    <3>1. new = Cell(r) /\ r \in DOMAIN column' /\ column'[r] = batchConstants[c.place.at]
      BY <1>2, <2>3 DEF Replaced
    <3>2. batchConstants[c.place.at] = c.value
      BY <2>1, <2>3 DEF ValueAt
    <3>3. new \in Place'
      BY <3>1 DEF Place
    <3>4. ValueAt(new)' = c.value
      BY <3>1, <3>2 DEF ValueAt, Cell
    <3> QED
      BY <3>3, <3>4
  <2>4. CASE c.place.kind = "cell" /\ c.place = Cell(c.place.at) /\ c.place.at \in DOMAIN column
    <3> DEFINE r == c.place.at
    <3>1. new = c.place
      BY <2>4 DEF Replaced
    <3>2. r < start \/ r \in Used(start)
      <4> SUFFICES ASSUME r >= start PROVE r \in Used(start)
        BY <1>4, <1>5, <2>4
      <4>1. r \in RowsReadByCopies(start)
        BY <2>4 DEF RowsReadByCopies
      <4>2. r \in start..(Size - 1) /\ Size > start
        BY <1>4, <1>5, <2>4
      <4> QED
        BY <4>1, <4>2 DEF Used
    <3>3. column'[r] = column[r] /\ r \in DOMAIN column'
      BY <1>2, <2>4, <3>2
    <3>4. column[r] = c.value
      BY <2>1, <2>4 DEF ValueAt
    <3>5. c.place \in Place'
      BY <2>4, <3>3 DEF Place
    <3>6. ValueAt(c.place)' = c.value
      BY <2>4, <3>3, <3>4 DEF ValueAt
    <3> QED
      BY <3>1, <3>5, <3>6
  <2> QED
    BY <2>1, <2>3, <2>4, Places
<1>7. TypeOK'
  <2>1. copies' \subseteq [place : Place', value : Value]
    <3> SUFFICES ASSUME NEW c \in copies PROVE moved(c) \in [place : Place', value : Value]
      BY <1>3
    <3>1. c.value \in Value
      BY <1>1, Bounds
    <3> QED
      BY <1>6, <3>1
  <2>2. finalizations' \in 0..2
    BY <1>1, <1>3 DEF TypeOK
  <2> QED
    BY <1>1, <1>3, <2>1, <2>2, FinalizedColumn DEF TypeOK
<1>8. CopiesHold'
  <2> SUFFICES ASSUME NEW d \in copies' PROVE ValueAt(d.place)' = d.value
    BY DEF CopiesHold
  <2>1. PICK c \in copies : d = moved(c)
    BY <1>3
  <2>2. PICK new : new = Replaced(start, c.place) /\ ValueAt(new)' = c.value
    BY <1>6
  <2>3. d.place = new /\ d.value = c.value
    BY <2>1, <2>2
  <2> QED
    BY <2>2, <2>3
<1>9. GatesReadColumn'
  BY <1>1, <1>2, <1>3 DEF GatesReadColumn
<1> QED
  BY <1>7, <1>8, <1>9, FinalizedColumn DEF IInv

LEMMA NextIInv == IInv /\ [Next]_vars => IInv'
<1> SUFFICES ASSUME IInv, [Next]_vars PROVE IInv'
  OBVIOUS
<1>1. CASE UseNone
  <2>1. allocatedRows' = allocatedRows + 1 /\ allocatedRows' \in 0..(MaxRow + 1)
        /\ UNCHANGED <<column, batchConstants, copies, gateUses, finalizations>>
    BY <1>1, BoundsAssumption DEF UseNone, IInv, TypeOK
  <2>2. Place' = Place
    BY <2>1 DEF Place
  <2>3. TypeOK'
    BY <2>1, <2>2 DEF IInv, TypeOK
  <2>4. ColumnBelowFreeRow'
    <3>1. \A r \in DOMAIN column : r \in Nat /\ r < allocatedRows
      BY Bounds DEF IInv, ColumnBelowFreeRow
    <3> QED
      BY <2>1, <3>1, Bounds DEF IInv, ColumnBelowFreeRow
  <2> QED
    BY <2>1, <2>3, <2>4 DEF IInv, GatesReadColumn, CopiesHold, ValueAt
<1>2. CASE UNCHANGED vars
  BY <1>2 DEF vars, IInv, TypeOK, GatesReadColumn, ColumnBelowFreeRow, CopiesHold, ValueAt, Place
<1> QED
  BY <1>1, <1>2, UseByCopyStep, UseByGateStep, AddBatchConstantStep, FinalizeStep DEF Next

(* With start row 1 every gate that reads a neighbouring row is seen, and  *)
(* its constant is left alone.                                             *)
LEMMA NeighbourStep ==
    ASSUME StartRow = {1}, IInv, NeighbourGatesHold, [Next]_vars
    PROVE  NeighbourGatesHold'
<1>1. TypeOK /\ GatesReadColumn
  BY DEF IInv
<1>2. \A u \in gateUses : u.rotation \in Rotation /\ u.row \in Nat
                           /\ u.row + u.rotation \in DOMAIN column
  BY <1>1, BoundsAssumption DEF TypeOK, GatesReadColumn
<1>3. ASSUME \A r \in DOMAIN column : column'[r] = column[r], UNCHANGED gateUses
      PROVE  NeighbourGatesHold'
  BY <1>2, <1>3 DEF NeighbourGatesHold
<1>4. CASE \E v \in Value : UseByCopy(v)
  <2>1. UNCHANGED gateUses
    BY <1>4 DEF UseByCopy
  <2> QED
    BY <1>3, <1>4, <2>1, UseByCopyStep
<1>5. CASE \E v \in Value, rotation \in Rotation : UseByGate(v, rotation)
  <2>1. /\ \A r \in DOMAIN column : column'[r] = column[r]
        /\ \A u \in gateUses' \ gateUses : column'[u.row + u.rotation] = u.value
    BY <1>5, UseByGateStep
  <2>2. ASSUME NEW u \in gateUses', u.rotation # 0
        PROVE  column'[u.row + u.rotation] = u.value
    <3>1. CASE u \in gateUses
      BY <1>2, <2>1, <2>2, <3>1 DEF NeighbourGatesHold
    <3>2. CASE u \notin gateUses
      BY <2>1, <2>2, <3>2
    <3> QED
      BY <3>1, <3>2
  <2> QED
    BY <2>2 DEF NeighbourGatesHold
<1>6. CASE UseNone \/ (\E v \in Value : AddBatchConstant(v)) \/ UNCHANGED vars
  <2>1. UNCHANGED <<column, gateUses>>
    BY <1>6 DEF UseNone, AddBatchConstant, vars
  <2> QED
    BY <1>3, <2>1
<1>7. CASE FinalizeConstantBatches(1)
  <2>1. \A r \in DOMAIN column : r < 1 \/ r \in Used(1) => column'[r] = column[r]
    BY <1>7, FinalizedColumn
  <2>2. gateUses' = gateUses
    BY <1>7 DEF FinalizeConstantBatches
  <2>3. PICK n \in Nat : DOMAIN column = 0..(n - 1) /\ Size = n
    <3>1. PICK n \in Nat : IsColumn(n)
      BY <1>1, Bounds
    <3>2. DOMAIN column = 0..(n - 1) /\ Size = n
      BY <3>1, SizeOfColumn DEF IsColumn
    <3> QED
      BY <3>2
  <2>4. ASSUME NEW u \in gateUses, u.rotation # 0
        PROVE  column'[u.row + u.rotation] = u.value
    <3> DEFINE r == u.row + u.rotation
    <3>1. r \in 0..(n - 1) /\ column[r] = u.value /\ u.rotation \in {-1, 1} /\ u.row \in Nat
      BY <1>2, <2>3, <2>4 DEF NeighbourGatesHold, Rotation
    <3>2. CASE r >= 1
      <4>1. PassesVarCheck(u.rotation, 1) /\ u.row >= 1 - 1
        BY <3>1 DEF PassesVarCheck
      <4>2. r \in RowsReadByGates(1)
        BY <4>1 DEF RowsReadByGates
      <4>3. Size > 1 /\ r \in 1..(Size - 1)
        BY <2>3, <3>1, <3>2
      <4>4. r \in Used(1)
        BY <4>2, <4>3 DEF Used
      <4> QED
        BY <2>1, <2>3, <3>1, <4>4
    <3>3. CASE r < 1
      BY <2>1, <2>3, <3>1, <3>3
    <3> QED
      BY <3>1, <3>2, <3>3
  <2> QED
    BY <2>2, <2>4 DEF NeighbourGatesHold
<1> QED
  BY <1>4, <1>5, <1>6, <1>7 DEF Next

(* A finalization redirects every copy constraint that names a batch entry.*)
LEMMA ResolvedStep ==
    ASSUME IInv, [Next]_vars, finalizations' > finalizations
    PROVE  \A c \in copies' : c.place.kind = "cell"
<1>1. finalizations' # finalizations
  BY DEF IInv, TypeOK
<1>2. PICK start \in StartRow : FinalizeConstantBatches(start)
  BY <1>1 DEF Next, vars, UseByCopy, UseByGate, UseNone, AddBatchConstant
<1>3. copies' = {[place |-> Replaced(start, c.place), value |-> c.value] : c \in copies}
  BY <1>2 DEF FinalizeConstantBatches
<1>4. \A c \in copies : Replaced(start, c.place).kind = "cell"
  <2> SUFFICES ASSUME NEW c \in copies PROVE Replaced(start, c.place).kind = "cell"
    OBVIOUS
  <2>1. c.place \in Place
    BY Bounds DEF IInv
  <2>2. c.place.kind = "cell" \/ c.place.kind = "batch"
    BY <2>1, Places
  <2> QED
    BY <2>2 DEF Replaced, Cell
<1> QED
  BY <1>3, <1>4

-----------------------------------------------------------------------------

(* The column is always an initial piece of the table, and every place     *)
(* that a copy constraint names exists.                                    *)
THEOREM BatchIsTyped == Spec => []TypeOK
<1>1. IInv => TypeOK
  BY DEF IInv
<1> QED
  BY <1>1, InitIInv, NextIInv, PTL DEF Spec

(* Whatever the constants, the rows, the gates and the start rows of the   *)
(* finalizations: a copy constraint on a constant, batched or not, holds   *)
(* before, between and after them.                                         *)
THEOREM CopiesKeepTheirConstants == Spec => []CopiesHold
<1>1. IInv => CopiesHold
  BY DEF IInv
<1> QED
  BY <1>1, InitIInv, NextIInv, PTL DEF Spec

(* With start row 1 a batched constant overwrites none that a gate reads   *)
(* from the row before or after the one it is enabled on.                  *)
THEOREM NeighbourGatesKeepTheirConstants ==
    ASSUME StartRow = {1}
    PROVE  Spec => []NeighbourGatesHold
<1> DEFINE Both == IInv /\ NeighbourGatesHold
<1>1. Init => Both
  BY InitIInv DEF Init, NeighbourGatesHold
<1>2. Both /\ [Next]_vars => Both'
  BY NextIInv, NeighbourStep
<1> QED
  BY <1>1, <1>2, PTL DEF Spec

(* A finalization leaves no copy constraint on the batch storage.          *)
THEOREM FinalizationsResolve == Spec => FinalizationResolves
<1>1. IInv /\ [Next]_vars => (finalizations' > finalizations =>
                                \A c \in copies' : c.place.kind = "cell")
  BY ResolvedStep
<1> QED
  BY <1>1, InitIInv, NextIInv, PTL DEF Spec, FinalizationResolves
=============================================================================
