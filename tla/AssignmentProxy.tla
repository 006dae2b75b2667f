--------------------------- MODULE AssignmentProxy ---------------------------
(***************************************************************************)
(* Several assignment_proxy objects in front of one shared table           *)
(* (include/nil/blueprint/blueprint/plonk/assignment_proxy.hpp), one for   *)
(* each prover, with the circuit proxies of the same provers, and the      *)
(* check of a whole table or of one prover's part                          *)
(* (include/nil/blueprint/utils/satisfiability_check.hpp).                 *)
(*                                                                         *)
(* A proxy forwards every access to the shared table and notes the rows    *)
(* its prover writes and the rows its prover enables selectors on.  Values *)
(* pass from one prover to another through the shared column only.         *)
(*                                                                         *)
(* A component has two rows, its gate is enabled on the first one and      *)
(* accepts the value a constraint wants at a rotation (or, for a lookup    *)
(* gate, the values of its table).  Provers place and assign components in *)
(* any order.  One witness column, one shared column.                      *)
(***************************************************************************)
EXTENDS Integers, Sequences, FiniteSets

CONSTANTS
    Prover,    \* ids of the proxies
    Gate,      \* gates: the rotation read and the values accepted there
    Value,     \* field elements
    Zero,      \* what a resized column is filled with
    MaxRow,    \* bound on the rows
    MaxShared, \* bound on the values saved
    MaxCopies  \* bound on the copy constraints

ASSUME GateAssumption == Gate \subseteq [rotation : {0, 1}, accepts : SUBSET Value]
ASSUME ValueAssumption == Zero \in Value
ASSUME RowAssumption == MaxRow \in Nat /\ MaxShared \in Nat /\ MaxCopies \in Nat

VARIABLES
    witness,          \* the witness column: [0 .. size - 1 -> Value]
    enabled,          \* rows on which the selector of every gate is one
    allocatedRows,    \* assignment_allocated_rows
    shared,           \* shared_storage[0]
    copyConstraints,  \* copy constraints of the shared circuit, in order
    usedRows,         \* used_rows of every proxy
    usedSelectorRows, \* used_selector_rows of every proxy
    usedGates,        \* used_gates of every circuit proxy
    usedCopies,       \* used_copy_constraints of every circuit proxy
    components,       \* the components placed, and whether they are assigned
    saved,            \* what save_shared_var was called with and answered
    copyCalls         \* calls of add_copy_constraint: prover and constraint

tableVars == <<witness, enabled, allocatedRows, shared, copyConstraints>>
usedVars == <<usedRows, usedSelectorRows, usedGates, usedCopies>>
vars == <<tableVars, usedVars, components, saved, copyCalls>>

Row == 0..MaxRow
Larger(a, b) == IF a < b THEN b ELSE a
Size == Cardinality(DOMAIN witness)

(* plonk_variable: a witness cell, or row i of public input column 1,      *)
(* which is the shared column.                                             *)
WitnessVar(row) == [type |-> "witness", row |-> row]
SharedVar(row) == [type |-> "shared", row |-> row]

(* var_value                                                               *)
VarValue(v) == IF v.type = "shared" THEN shared[v.row + 1] ELSE witness[v.row]

Init ==
    /\ witness = [r \in {} |-> Zero]
    /\ enabled = [g \in Gate |-> {}]
    /\ allocatedRows = 0
    /\ shared = <<>>
    /\ copyConstraints = <<>>
    /\ usedRows = [p \in Prover |-> {}]
    /\ usedSelectorRows = [p \in Prover |-> {}]
    /\ usedGates = [p \in Prover |-> {}]
    /\ usedCopies = [p \in Prover |-> {}]
    /\ components = {}
    /\ saved = {}
    /\ copyCalls = {}

-----------------------------------------------------------------------------
(* The provers' calls *)

(* Mutant: the row is not counted.                                         *)
NotRaised(row) == allocatedRows

(* assignment_allocated_rows after a write to the row.                     *)
Raised(row) == Larger(allocatedRows, row + 1)

RowsOf(c) == {c.row, c.row + 1}
PartOf(p) == {c \in components : c.prover = p /\ c.assigned}

(* generate_circuit through the proxies: add_gate, then the selector of    *)
(* the first row through enable_selector, or written through selector(),   *)
(* as copies of a table do; only the former raises the allocated rows.     *)
Place(p, g, row, byEnable) ==
    /\ row + 1 <= MaxRow
    /\ \A c \in components : RowsOf(c) \cap {row, row + 1} = {}
    /\ components' = components \cup
         {[prover |-> p, gate |-> g, row |-> row, assigned |-> FALSE]}
    /\ enabled' = [enabled EXCEPT ![g] = @ \cup {row}]
    /\ allocatedRows' = IF byEnable THEN Raised(row) ELSE allocatedRows
    /\ usedGates' = [usedGates EXCEPT ![p] = @ \cup {g}]
    /\ usedRows' = [usedRows EXCEPT ![p] = @ \cup {row}]
    /\ usedSelectorRows' = [usedSelectorRows EXCEPT ![p] = @ \cup {row}]
    /\ UNCHANGED <<witness, shared, copyConstraints, usedCopies, saved, copyCalls>>

(* Mutant: writing a witness does not note the row.                        *)
UnnotedWrites(p, rows) == usedRows

(* witness(column, row), for every row: used_rows.insert(row)              *)
NotedWrites(p, rows) == [usedRows EXCEPT ![p] = @ \cup rows]

(* generate_assignments of a component: both its rows are written, the     *)
(* column is resized first.  The prover is free to write wrong values.     *)
Assign(p, c, first, second) ==
    /\ c \in components /\ c.prover = p /\ ~c.assigned
    /\ components' = (components \ {c})
         \cup {[prover |-> p, gate |-> c.gate, row |-> c.row, assigned |-> TRUE]}
    /\ witness' = [r \in 0 .. Larger(Size, c.row + 2) - 1 |->
                     IF r = c.row THEN first ELSE IF r = c.row + 1 THEN second
                     ELSE IF r < Size THEN witness[r] ELSE Zero]
    /\ allocatedRows' = Raised(c.row + 1)
    /\ usedRows' = NotedWrites(p, RowsOf(c))
    /\ UNCHANGED <<enabled, shared, copyConstraints, usedSelectorRows,
                   usedGates, usedCopies, saved, copyCalls>>

(* Mutant: the row is the last one in use.                                 *)
LastShared == Larger(Len(shared) - 1, 0)

(* save_shared_var appends at shared_column_size(0).                       *)
NextShared == Len(shared)

SaveShared(p, row) ==
    /\ \E c \in PartOf(p) : row \in RowsOf(c)
    /\ Cardinality(saved) < MaxShared
    /\ shared' = [i \in 1 .. Larger(Len(shared), NextShared + 1) |->
                    IF i = NextShared + 1 THEN VarValue(WitnessVar(row)) ELSE shared[i]]
    /\ saved' = saved \cup {[prover |-> p, source |-> WitnessVar(row),
                             value |-> VarValue(WitnessVar(row)),
                             var |-> SharedVar(NextShared)]}
    /\ UNCHANGED <<witness, enabled, allocatedRows, copyConstraints, usedVars,
                   components, copyCalls>>

(* Mutant: the number of the last copy constraint is read before the call. *)
StaleLastCopy == {i \in {Len(copyConstraints)} : i > 0}

(* The last copy constraint of the circuit after the call.                 *)
LastCopy == {i \in {Len(copyConstraints')} : i > 0}

(* add_copy_constraint of the prover's circuit proxy, between a cell of    *)
(* its own and a second one or a value some prover saved.  The circuit     *)
(* drops a constraint of a variable with itself.                           *)
AddCopyConstraint(p, first, second) ==
    LET constraint == [first |-> first, second |-> second] IN
    /\ copyConstraints' = IF first = second THEN copyConstraints
                          ELSE Append(copyConstraints, constraint)
    /\ Len(copyConstraints') <= MaxCopies
    /\ usedCopies' = [usedCopies EXCEPT ![p] = @ \cup LastCopy]
    /\ copyCalls' = copyCalls \cup {[prover |-> p, constraint |-> constraint]}
    /\ UNCHANGED <<witness, enabled, allocatedRows, shared, usedRows,
                   usedSelectorRows, usedGates, components, saved>>

OwnVars(p) == {WitnessVar(r) : r \in UNION {RowsOf(c) : c \in PartOf(p)}}
SavedVars == {s.var : s \in saved}

Next ==
    \E p \in Prover :
        \/ \E g \in Gate, row \in Row, byEnable \in BOOLEAN : Place(p, g, row, byEnable)
        \/ \E c \in components, first, second \in Value : Assign(p, c, first, second)
        \/ \E row \in Row : SaveShared(p, row)
        \/ \E first \in OwnVars(p), second \in OwnVars(p) \cup SavedVars :
              AddCopyConstraint(p, first, second)

Spec == Init /\ [][Next]_vars

-----------------------------------------------------------------------------
(* The check *)

GateHolds(g, row) == witness[row + g.rotation] \in g.accepts
CopyHolds(i) == VarValue(copyConstraints[i].first) = VarValue(copyConstraints[i].second)

(* is_satisfied with the gates, copy constraints and rows to look at, and  *)
(* the selector columns it reads.                                          *)
IsSatisfied(gates, copies, rows, selector) ==
    /\ \A g \in gates : \A row \in rows \cap selector[g] : GateHolds(g, row)
    /\ \A i \in copies : CopyHolds(i)

(* selector_rows of the check of a whole table.                            *)
SelectorRows == 0 .. allocatedRows - 1

(* is_satisfied(circuit, assignment) of the shared objects.                *)
WholeSatisfied ==
    IsSatisfied(Gate, DOMAIN copyConstraints, SelectorRows, enabled)

(* is_satisfied(circuit_proxy, assignment_proxy): the selector column is   *)
(* read by a qualified call, which for a proxy is the column of the empty  *)
(* table it inherits from.                                                 *)
PartSatisfied(p) ==
    IsSatisfied(usedGates[p], usedCopies[p], usedSelectorRows[p], [g \in Gate |-> {}])

(* What the check would find with the selectors of the shared table.       *)
PartSatisfiedWithSelectors(p) ==
    IsSatisfied(usedGates[p], usedCopies[p], usedSelectorRows[p], enabled)

-----------------------------------------------------------------------------
(* Properties *)

TypeOK ==
    /\ \E n \in 0..(MaxRow + 1) : witness \in [0..(n - 1) -> Value]
    /\ enabled \in [Gate -> SUBSET Row]
    /\ allocatedRows \in 0..(MaxRow + 1)
    /\ shared \in Seq(Value) /\ Len(shared) <= MaxShared
    /\ Len(copyConstraints) <= MaxCopies
    /\ usedRows \in [Prover -> SUBSET Row]
    /\ usedSelectorRows \in [Prover -> SUBSET Row]
    /\ usedGates \in [Prover -> SUBSET Gate]
    /\ usedCopies \in [Prover -> SUBSET (1..MaxCopies)]
    /\ components \subseteq
         [prover : Prover, gate : Gate, row : Row, assigned : BOOLEAN]
    /\ saved \subseteq [prover : Prover, source : {WitnessVar(r) : r \in Row},
                        value : Value, var : {SharedVar(i) : i \in 0..(MaxShared - 1)}]

AllAssigned == \A c \in components : c.assigned

(* The variable save_shared_var answers keeps the value that was saved,    *)
(* whatever the other provers save later.                                  *)
SharedValuesStand ==
    \A s \in saved : s.var.row < Len(shared) /\ VarValue(s.var) = s.value

(* When every component is assigned, the check of the whole table answers  *)
(* exactly whether the gate of every component holds on its row and every  *)
(* copy constraint asked for holds, although it looks at no row beyond     *)
(* allocated_rows and writes through selector() do not raise that number.  *)
WholeCheckExact ==
    AllAssigned =>
        (WholeSatisfied <=>
            /\ \A c \in components : GateHolds(c.gate, c.row)
            /\ \A call \in copyCalls :
                  VarValue(call.constraint.first) = VarValue(call.constraint.second))

(* Nothing of the circuit is outside of every prover's part: when the      *)
(* parts are satisfied, with the shared table's selectors, so is the       *)
(* whole; and the copy constraints hold when the checks as coded pass.     *)
PartsCoverWhole ==
    AllAssigned =>
        /\ (\A p \in Prover : PartSatisfiedWithSelectors(p)) => WholeSatisfied
        /\ (\A p \in Prover : PartSatisfied(p)) =>
              \A i \in DOMAIN copyConstraints : CopyHolds(i)

(* The reads a proxy allows when its check is set: witnesses of its used   *)
(* rows and rows of the shared column.                                     *)
MayRead(p, v) ==
    IF v.type = "shared" THEN v.row < Len(shared) ELSE v.row \in usedRows[p]

CopyReadable(p, i) ==
    /\ MayRead(p, copyConstraints[i].first)
    /\ MayRead(p, copyConstraints[i].second)

(* A prover's rows are enough to check its part: neither its gates on its  *)
(* selector rows nor a copy constraint it asked for read a row that the    *)
(* proxy, with its check set, aborts on.                                   *)
PartReadable ==
    AllAssigned =>
        \A p \in Prover :
            /\ \A g \in usedGates[p] : \A row \in usedSelectorRows[p] \cap enabled[g] :
                  MayRead(p, WitnessVar(row + g.rotation))
            /\ \A i \in usedCopies[p] :
                  [prover |-> p, constraint |-> copyConstraints[i]] \in copyCalls =>
                      CopyReadable(p, i)
=============================================================================
