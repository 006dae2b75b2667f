----------------------------- MODULE ZkevmCircuit -----------------------------
(***************************************************************************)
(* The rows of the zkEVM circuit (include/nil/blueprint/zkevm/             *)
(* zkevm_circuit.hpp, state.hpp) and the selector that turns the number of *)
(* an opcode into columns of its own (state_selector.hpp).                 *)
(*                                                                         *)
(* A table is written by zkevm_circuit, opcode by opcode, or by anyone,    *)
(* row by row, as long as the constraints that circuit puts on every row   *)
(* accept it.  Values are elements of the field of Prime elements.  The    *)
(* frozen part of the state (pc, stack_size, memory_size, curr_gas) is one *)
(* value, pc; what an opcode writes into its columns is left to            *)
(* ZkevmOperations, here an opcode is the rows its gates belong to.        *)
(***************************************************************************)
EXTENDS Integers, Sequences, FiniteSets, FiniteSetsExt, Functions

CONSTANTS
    Prime,         \* the size of the field
    OptionsAmount, \* how many opcodes there are
    Height,        \* rows_amount of every implemented opcode
    GateRow,       \* rows of an opcode, counted backwards, that have a gate
    Step,          \* values of step_selection that are tried
    Pc,            \* values of the frozen state that are tried
    MaxRows        \* bound on the rows

Field == 0..(Prime - 1)
Option == 0..(OptionsAmount - 1)
Implemented == DOMAIN Height

ASSUME FieldAssumption ==
    /\ Prime \in Nat /\ Prime > 2
    /\ \A x \in Field \ {0} : \E y \in Field : (x * y) % Prime = 1

(* The rows of an opcode have a selector too, of max_opcode_height (20)    *)
(* options: fewer than there are opcodes.                                  *)
ASSUME OpcodeAssumption ==
    /\ OptionsAmount \in 1..Prime
    /\ Implemented \subseteq Option
    /\ \A op \in Implemented :
          Height[op] \in 1..OptionsAmount /\ GateRow[op] \subseteq 0..(Height[op] - 1)
ASSUME TriedAssumption ==
    {0, 1} \subseteq Step /\ Step \subseteq Field /\ 1 \in Pc /\ Pc \subseteq Field

VARIABLES
    rows,   \* the rows of the table, the first is start_row_index
    begins, \* rows at which assign_opcode began an opcode
    author, \* "circuit" when zkevm_circuit writes the table, else "anyone"
    final   \* finalize was called: the end selector is on the last row

vars == <<rows, begins, author, final>>

F(x) == x % Prime
InverseOrZero(x) == IF x = 0 THEN 0 ELSE CHOOSE y \in Field : F(x * y) = 1

-----------------------------------------------------------------------------
(* state_selector: W(0) is the index, then one column for every pair of    *)
(* options and the parity.                                                 *)

Pair == 1 .. (OptionsAmount + 1) \div 2
LastPair == (OptionsAmount + 1) \div 2

(* The pairs' columns, each times the first option of its pair.            *)
FirstOptions(s) == [i \in Pair |-> 2 * (i - 1) * s.pair[i]]

(* Mutant: an odd number of options needs no constraint of its own.        *)
ConstraintsWithoutLastPair(s) ==
    /\ \A i \in Pair : F(s.pair[i] * (s.pair[i] - 1)) = 0
    /\ F(SumFunction(s.pair) - 1) = 0
    /\ F(SumFunction(FirstOptions(s)) + s.parity - s.index) = 0
    /\ F(s.parity * (s.parity - 1)) = 0

(* generate_constraints                                                    *)
SelectorHolds(s) ==
    /\ \A i \in Pair : F(s.pair[i] * (s.pair[i] - 1)) = 0
    /\ F(SumFunction(s.pair) - 1) = 0
    /\ F(SumFunction(FirstOptions(s)) + s.parity - s.index) = 0
    /\ F(s.parity * (s.parity - 1)) = 0
    /\ OptionsAmount % 2 # 0 => F(s.pair[LastPair] * s.parity) = 0

(* option_constraint                                                       *)
OptionConstraint(s, option) ==
    F(s.pair[option \div 2 + 1] * (IF option % 2 = 0 THEN s.parity - 1 ELSE s.parity))

(* generate_assignments                                                    *)
Selected(option) ==
    [index |-> option,
     pair |-> [i \in Pair |-> IF i = option \div 2 + 1 THEN 1 ELSE 0],
     parity |-> option % 2]

AcceptedSelectors ==
    {s \in [index : Field, pair : [Pair -> Field], parity : Field] : SelectorHolds(s)}

-----------------------------------------------------------------------------
(* The constraints of a row of the table *)

(* A row that nobody writes.                                               *)
EmptyRow == [opcode |-> [index |-> 0, pair |-> [i \in Pair |-> 0], parity |-> 0],
             step |-> 0, count |-> 0, inverse |-> 0, pc |-> 0]

(* Mutant: after the last row of an opcode any row may follow.             *)
TransitionWithoutForcedStep(prev, row) ==
    /\ F(row.count * row.count * row.inverse - row.count) = 0
    /\ F((row.count * row.inverse - 1) * row.inverse) = 0
    /\ F((1 - row.step) * (row.opcode.index - prev.opcode.index)) = 0

(* generate_generic_transition_constraints, where count and inverse are    *)
(* rows_until_next_op and its inverse or zero: those between a row and the *)
(* one before it,                                                          *)
TransitionHolds(prev, row) ==
    /\ F(row.count * row.count * row.inverse - row.count) = 0
    /\ F((row.count * row.inverse - 1) * row.inverse) = 0
    /\ F((1 - row.step) * (row.opcode.index - prev.opcode.index)) = 0
    /\ F((1 - prev.inverse * prev.count) * (1 - row.step)) = 0

(* and those between a row and the next, the last of which is              *)
(* handle_transition for generate_frozen_state_transition.                 *)
NextHolds(row, next, end) ==
    /\ F(row.count * (next.count - row.count + 1)) = 0
    /\ F((1 - end) * (1 - next.step) * (next.pc - row.pc)) = 0

(* The height of every opcode, from init_opcodes.                          *)
HeightHolds(row) ==
    \A op \in Implemented :
        IF Height[op] = 1
        THEN F(OptionConstraint(row.opcode, op) * row.count) = 0
        ELSE F(OptionConstraint(row.opcode, op) * (row.count - (Height[op] - 1)) * row.step) = 0

(* start_selector's gate.                                                  *)
StartHolds(row) == F(row.step - 1) = 0

PrevRow(t, r) == IF r = 1 THEN EmptyRow ELSE t[r - 1]
NextRow(t, r) == IF r = Len(t) THEN EmptyRow ELSE t[r + 1]

(* The gates on row r of a table t that read no later row.                 *)
RowHolds(t, r) ==
    /\ r = 1 => StartHolds(t[r])
    /\ TransitionHolds(PrevRow(t, r), t[r])
    /\ HeightHolds(t[r])
    /\ SelectorHolds(t[r].opcode)

(* All gates on the rows of a table with the end selector on the last one. *)
TableHolds(t) ==
    \A r \in DOMAIN t :
        RowHolds(t, r) /\ NextHolds(t[r], NextRow(t, r), IF r = Len(t) THEN 1 ELSE 0)

(* Mutant: the marker is read at the row itself.                           *)
RowConstraintWithoutOffset(t, r, position, height) ==
    IF position \in {height - 1, height - 2} THEN t[r].step
    ELSE IF position = 0 THEN F(1 - t[r].count * t[r].inverse)
    ELSE OptionConstraint(Selected(t[r].count), position)

(* get_opcode_row_constraint; the row selector's index, which nothing ties *)
(* to the count, is the one advance_rows writes.                           *)
RowConstraint(t, r, position, height) ==
    IF position = height - 1 THEN t[r].step
    ELSE IF position = height - 2 THEN PrevRow(t, r).step
    ELSE IF position = 0 THEN F(1 - t[r].count * t[r].inverse)
    ELSE OptionConstraint(Selected(t[r].count), position)

(* The gate an opcode has at a position applies to row r.                  *)
Enforced(t, r, op, position) ==
    F(OptionConstraint(t[r].opcode, op) * RowConstraint(t, r, position, Height[op])) # 0

-----------------------------------------------------------------------------
(* Init and steps *)

Init ==
    /\ rows = <<>>
    /\ begins = {}
    /\ author \in {"circuit", "anyone"}
    /\ final = FALSE

(* Mutant: the step marker stays on for all the rows.                      *)
StickyStepRows(op) ==
    [i \in 1..Height[op] |->
        LET count == Height[op] - i IN
        [opcode |-> Selected(op), step |-> 1, count |-> count,
         inverse |-> InverseOrZero(count), pc |-> 1]]

(* assign_opcode and advance_rows: the state is set, then written on every *)
(* row; the marker goes after the first one, the count down.               *)
OpcodeRows(op) ==
    [i \in 1..Height[op] |->
        LET count == Height[op] - i IN
        [opcode |-> Selected(op), step |-> IF i = 1 THEN 1 ELSE 0, count |-> count,
         inverse |-> InverseOrZero(count), pc |-> 1]]

AssignOpcode(op) ==
    /\ author = "circuit" /\ ~final
    /\ Len(rows) + Height[op] <= MaxRows
    /\ rows' = rows \o OpcodeRows(op)
    /\ begins' = begins \cup {Len(rows) + 1}
    /\ UNCHANGED <<author, final>>

(* Any row, so long as the constraints on it and on the row before hold.   *)
AnyRow(row) ==
    /\ author = "anyone" /\ ~final
    /\ Len(rows) < MaxRows
    /\ rows # <<>> => NextHolds(rows[Len(rows)], row, 0)
    /\ RowHolds(Append(rows, row), Len(rows) + 1)
    /\ rows' = Append(rows, row)
    /\ UNCHANGED <<begins, author, final>>

(* finalize: the last row is checked against whatever follows the table.   *)
Finalize(after) ==
    /\ ~final /\ rows # <<>>
    /\ author = "anyone" => NextHolds(rows[Len(rows)], after, 1)
    /\ final' = TRUE
    /\ UNCHANGED <<rows, begins, author>>

RowTried == [opcode : AcceptedSelectors, step : Step, count : Field,
             inverse : Field, pc : Pc]

Next ==
    \/ \E op \in Implemented : AssignOpcode(op)
    \/ \E row \in RowTried : AnyRow(row)
    \/ \E count \in Field : Finalize([EmptyRow EXCEPT !.count = count])

Spec == Init /\ [][Next]_vars

-----------------------------------------------------------------------------
(* Properties *)

(* What the circuit writes for a sequence of opcodes satisfies the         *)
(* selector, transition, height and start constraints on every row.        *)
HonestAccepted == author = "circuit" /\ final => TableHolds(rows)

(* Row r is in a run of its opcode that started at row s.                  *)
InRunFrom(s, r) ==
    LET op == rows[r].opcode.index IN
    /\ rows[s].step = 1
    /\ \A i \in s..r :
          /\ rows[i].opcode.index = op
          /\ rows[i].pc = rows[s].pc
          /\ i > s => rows[i].step = 0
          /\ rows[i].count = Height[op] - 1 - (i - s)

(* Nobody can write a table the constraints accept where a row of an       *)
(* implemented opcode is anything but a row of a run of it, which starts   *)
(* with a marked row and the opcode's height, counts down row by row and   *)
(* keeps the frozen state; though no constraint says that the marker is a  *)
(* bit, nor names the opcode of a row that is not marked.                  *)
RowsBelongToRuns ==
    \A r \in DOMAIN rows :
        rows[r].opcode.index \in Implemented => \E s \in 1..r : InRunFrom(s, r)

(* The selector lets exactly the gates of the row's own opcode apply,      *)
(* whatever a table writes into its columns.                               *)
SelectsOneOpcode ==
    \A r \in DOMAIN rows :
        /\ rows[r].opcode.index \in Option
        /\ \A option \in Option :
              OptionConstraint(rows[r].opcode, option) # 0 <=> option = rows[r].opcode.index

(* The positions get_opcode_row_constraint does without the row selector.  *)
Tied(op) == GateRow[op] \cap {Height[op] - 1, Height[op] - 2, 0}

RowAfterShort(r) == \E b \in begins : b < r /\ b + 1 = r /\ Height[rows[b].opcode.index] = 1

(* In every accepted table, whoever wrote it, a gate of an opcode applies  *)
(* to the row of the run it was written for; and in the tables of the      *)
(* circuit it applies to no other row, except on the first row after an    *)
(* opcode of one row.                                                      *)
GatesApplied ==
    /\ \A r \in DOMAIN rows : LET op == rows[r].opcode.index IN
          op \in Implemented =>
              \A position \in Tied(op) :
                  rows[r].count = position => Enforced(rows, r, op, position)
    /\ author = "circuit" =>
          \A r \in DOMAIN rows : \A op \in Implemented : \A position \in GateRow[op] :
              Enforced(rows, r, op, position) =>
                  \/ rows[r].opcode.index = op /\ rows[r].count = position
                  \/ RowAfterShort(r)
=============================================================================
