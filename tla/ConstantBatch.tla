--------------------------- MODULE ConstantBatch ---------------------------
(***************************************************************************)
(* Batched constants of assignment<plonk_constraint_system>                *)
(* (include/nil/blueprint/blueprint/plonk/assignment.hpp): constants asked *)
(* for with add_batch_constant_variable are kept apart until               *)
(* finalize_constant_batches puts each of them into a row of the constant  *)
(* column that no copy constraint and no gate reads, and makes the copy    *)
(* constraints point there.                                                *)
(*                                                                         *)
(* One constant column.  A component takes the next free rows of the table *)
(* and reads its constant through a copy constraint or through a gate, at  *)
(* rotation -1, 0 or 1 from the row whose selector is enabled.  The other  *)
(* side of a copy constraint is a witness cell, filled with the value the  *)
(* variable had; a gate's witnesses fit the constant it was generated for. *)
(***************************************************************************)
EXTENDS Integers, Sequences, FiniteSets

CONSTANTS
    Value,     \* field elements used as constants
    Zero,      \* the element a resized column is filled with
    StartRow,  \* values of start_row_index the callers pass
    MaxRow,    \* bound on the rows of the constant column
    MaxUses    \* bound on the copy constraints and on the enabled rows

ASSUME ZeroAssumption == Zero \in Value
ASSUME StartRowAssumption == StartRow \subseteq Nat \ {0}
ASSUME BoundsAssumption == MaxRow \in Nat /\ MaxUses \in Nat

VARIABLES
    column,         \* the constant column: [0 .. size - 1 -> Value]
    allocatedRows,  \* rows the table has given out
    batchConstants, \* assignment_batch_constant_storage
    copies,         \* copy constraints: a constant's place, the witness's value
    gateUses,       \* rows with an enabled gate that reads a constant
    finalizations   \* number of finalize_constant_batches calls made

vars == <<column, allocatedRows, batchConstants, copies, gateUses, finalizations>>

Rotation == {-1, 0, 1}
Larger(a, b) == IF a < b THEN b ELSE a

(* A place a copy constraint may name: a cell of the column, or an entry   *)
(* of the batch storage (batch_constant_storage_index).                    *)
Cell(row) == [kind |-> "cell", at |-> row]
Batched(i) == [kind |-> "batch", at |-> i]

Init ==
    /\ column = [r \in {} |-> Zero]
    /\ allocatedRows = 0
    /\ batchConstants = <<>>
    /\ copies = {}
    /\ gateUses = {}
    /\ finalizations = 0

-----------------------------------------------------------------------------
(* Writing cells *)

Size == Cardinality(DOMAIN column)

(* constant(column, row) = v for every row of writes, resizing first.      *)
Written(writes) ==
    [r \in 0 .. Larger(Size, CHOOSE n \in 0..(MaxRow + 1) :
                                /\ \A q \in DOMAIN writes : q < n
                                /\ n = 0 \/ n - 1 \in DOMAIN writes) - 1 |->
        IF r \in DOMAIN writes THEN writes[r]
        ELSE IF r \in DOMAIN column THEN column[r] ELSE Zero]

(* A component of one row whose constant is read by a copy constraint.     *)
UseByCopy(v) ==
    LET row == allocatedRows IN
    /\ row <= MaxRow /\ Cardinality(copies) < MaxUses
    /\ column' = Written([r \in {row} |-> v])
    /\ copies' = copies \cup {[place |-> Cell(row), value |-> v]}
    /\ allocatedRows' = row + 1
    /\ UNCHANGED <<batchConstants, gateUses, finalizations>>

(* A component of one or two rows whose gate reads the constant.           *)
UseByGate(v, rotation) ==
    LET row == IF rotation = -1 THEN allocatedRows + 1 ELSE allocatedRows
        cell == row + rotation
    IN
    /\ Larger(row, cell) <= MaxRow /\ Cardinality(gateUses) < MaxUses
    /\ column' = Written([r \in {cell} |-> v])
    /\ gateUses' = gateUses \cup {[row |-> row, rotation |-> rotation, value |-> v]}
    /\ allocatedRows' = Larger(row, cell) + 1
    /\ UNCHANGED <<batchConstants, copies, finalizations>>

(* A component of one row without constants.                               *)
UseNone ==
    /\ allocatedRows <= MaxRow
    /\ allocatedRows' = allocatedRows + 1
    /\ UNCHANGED <<column, batchConstants, copies, gateUses, finalizations>>

-----------------------------------------------------------------------------
(* Batched constants *)

IndexOf(v) == CHOOSE i \in 1..Len(batchConstants') : batchConstants'[i] = v

(* add_batch_constant_variable, and a copy constraint on the variable.     *)
AddBatchConstant(v) ==
    /\ Cardinality(copies) < MaxUses
    /\ batchConstants' =
         IF \E i \in 1..Len(batchConstants) : batchConstants[i] = v
         THEN batchConstants ELSE Append(batchConstants, v)
    /\ copies' = copies \cup {[place |-> Batched(IndexOf(v)), value |-> v]}
    /\ UNCHANGED <<column, allocatedRows, gateUses, finalizations>>

(* Mutant: the copy constraints are not searched for used constants.       *)
NoRowsReadByCopies(start) == {}

RowsReadByCopies(start) ==
    {c.place.at : c \in {d \in copies : d.place.kind = "cell" /\ d.place.at >= start}}

(* var_check compares the variable's rotation, an int32, with the start    *)
(* row, a size_t: rotation -1 becomes the largest size_t and passes,       *)
(* rotation 0 fails, rotation 1 passes only when the start row is 1.       *)
PassesVarCheck(rotation, start) == rotation < 0 \/ rotation >= start

(* Mutant: the enabled rows are searched from start, not from start - 1.   *)
RowsReadByGatesFromStart(start) ==
    {u.row + u.rotation :
        u \in {w \in gateUses : /\ PassesVarCheck(w.rotation, start)
                                /\ w.row >= start}}

(* Rows below start have no entry in used_constants: marking one of them   *)
(* (rotation -1, first rows) writes in front of the vector.  Either no row *)
(* that is searched is affected, or the process ends and takes no step.    *)
RowsReadByGates(start) ==
    {u.row + u.rotation :
        u \in {w \in gateUses : /\ PassesVarCheck(w.rotation, start)
                                /\ w.row >= start - 1}}

Used(start) ==
    IF Size > start
    THEN (RowsReadByCopies(start) \cup RowsReadByGates(start)) \cap (start..(Size - 1))
    ELSE {}

(* The i-th row from start on that is not used.                            *)
FreeRow(start, i) ==
    CHOOSE r \in start..(start + Size + i) :
        /\ r \notin Used(start)
        /\ Cardinality((start..r) \ Used(start)) = i

(* Mutant: the copy constraints keep their batched variables.              *)
KeptPlace(start, place) == place

Replaced(start, place) ==
    IF place.kind = "batch" THEN Cell(FreeRow(start, place.at)) ELSE place

(* finalize_constant_batches: mark the rows read, put the constants into   *)
(* the first rows not marked, redirect the copy constraints.               *)
FinalizeConstantBatches(start) ==
    LET n == Len(batchConstants)
        placed == [r \in {FreeRow(start, i) : i \in 1..n} |->
                     batchConstants[CHOOSE i \in 1..n : FreeRow(start, i) = r]]
    IN
    /\ n > 0
    /\ finalizations < 2
    /\ FreeRow(start, n) <= MaxRow
    /\ column' = Written(placed)
    /\ allocatedRows' = Larger(allocatedRows, FreeRow(start, n) + 1)
    /\ copies' = {[place |-> Replaced(start, c.place), value |-> c.value] : c \in copies}
    /\ finalizations' = finalizations + 1
    /\ UNCHANGED <<batchConstants, gateUses>>

Next ==
    \/ \E v \in Value : UseByCopy(v)
    \/ \E v \in Value, rotation \in Rotation : UseByGate(v, rotation)
    \/ UseNone
    \/ \E v \in Value : AddBatchConstant(v)
    \/ \E start \in StartRow : FinalizeConstantBatches(start)

Spec == Init /\ [][Next]_vars

-----------------------------------------------------------------------------
(* Properties *)

Place ==
    {Cell(r) : r \in DOMAIN column} \cup {Batched(i) : i \in 1..Len(batchConstants)}

TypeOK ==
    /\ \E n \in 0..(MaxRow + 1) : column \in [0 .. n - 1 -> Value]
    /\ allocatedRows \in 0..(MaxRow + 1)
    /\ batchConstants \in Seq(Value)
    /\ copies \subseteq [place : Place, value : Value]
    /\ gateUses \subseteq [row : 0..MaxRow, rotation : Rotation, value : Value]
    /\ finalizations \in 0..2

(* What a variable is worth: its cell, or its entry of the batch storage.  *)
ValueAt(place) ==
    IF place.kind = "batch" THEN batchConstants[place.at] ELSE column[place.at]

(* Every copy constraint on a constant holds at every moment: before and   *)
(* after a finalization, for constants of the column and for batched ones, *)
(* and for constants placed by an earlier finalization.                    *)
CopiesHold == \A c \in copies : ValueAt(c.place) = c.value

(* A constant that a gate reads from the row after or before the enabled   *)
(* one is not overwritten by a batched constant, for start row 1.          *)
NeighbourGatesHold ==
    \A u \in gateUses : u.rotation # 0 => column[u.row + u.rotation] = u.value

(* The whole circuit stays satisfied: the constant of every enabled gate   *)
(* is the one its witnesses were computed for.                             *)
GatesHold == \A u \in gateUses : column[u.row + u.rotation] = u.value

(* A finalization leaves no copy constraint on the batch storage: storage  *)
(* indices mean nothing to a prover.                                       *)
FinalizationResolves ==
    [][finalizations' > finalizations =>
          \A c \in copies' : c.place.kind = "cell"]_vars
=============================================================================
