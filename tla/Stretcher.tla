----------------------------- MODULE Stretcher -----------------------------
(***************************************************************************)
(* component_stretcher (include/nil/blueprint/component_stretcher.hpp): a  *)
(* narrow component is packed into a wider and shorter table.  Its rows    *)
(* are grouped into zones that gates tie together, the zones are shared    *)
(* out among the copies of its witness columns (bins) by huang_lu, and     *)
(* gates, selectors, constants, witnesses and copy constraints are moved.  *)
(*                                                                         *)
(* Rows are relative to the start row, which only shifts the new table.    *)
(* Cells are named by the row they come from: all witness columns of a row *)
(* move together.  One constant column, as the code assumes.               *)
(***************************************************************************)
EXTENDS HuangLu, Integers

CONSTANTS
    RowsAmount,  \* component.rows_amount
    GateCount,   \* gates of the component, one selector each
    Shapes,      \* the components: see AllShapes
    Inputs       \* the caller's input variables: a sequence of cells

Rows == 0..(RowsAmount - 1)
Gates == 0..(GateCount - 1)

SelectorZone(g) == RowsAmount + g
ConstantZone == RowsAmount + GateCount
Nodes == 0..(RowsAmount + GateCount)

(* What generate_circuit of the component does: the rows where a gate is   *)
(* enabled, the rotations at which it reads witnesses and constants, and   *)
(* the rows of the constants that copy constraints name.  Gates read rows  *)
(* of the component only.                                                  *)
AllShapes ==
    {s \in [enabled : [Gates -> SUBSET Rows],
            witness : [Gates -> SUBSET {-1, 0, 1}],
            constant : [Gates -> SUBSET {-1, 0, 1}],
            copied : SUBSET Rows] :
        \A g \in Gates : \A i \in s.enabled[g] :
            \A d \in s.witness[g] \cup s.constant[g] : i + d \in Rows}

ASSUME RowsAssumption == RowsAmount \in Nat \ {0} /\ GateCount \in Nat
ASSUME ShapesAssumption == Shapes \subseteq AllShapes

VARIABLES
    shape,
    phase,       \* "scan", "pack", "place", "claim", "ready"
    row, gate,   \* i and selector of the loops of generate_zones; row: also
                 \* of the loop that places the rows
    zoneOf,      \* zones: node -> the set of nodes it is joined with
    priority,    \* constant_priority: rows
    order,       \* zone_sizes_for_packing: the zone of each task
    used,        \* zone_rows: bin -> lines in use
    line,        \* line_mapping: row -> line
    taken,       \* constant_assigned: lines
    remap,       \* constant_remapping: row -> line
    newRows,     \* this->rows_amount
    moved,       \* which of generate_circuit, generate_assignments have run
    selectors, constants, witnesses, inputs  \* the new table

zoning == <<row, gate, zoneOf, priority>>
packing == <<order, searchVars>>
placing == <<used, line>>
claiming == <<taken, remap, newRows>>
table == <<moved, selectors, constants, witnesses, inputs>>
vars == <<shape, phase, zoning, packing, placing, claiming, table>>

Empty == [x \in {} |-> 0]

Init ==
    /\ shape \in Shapes
    /\ phase = "scan"
    /\ row = 0 /\ gate = 0
    /\ zoneOf = [n \in Nodes |-> {n}]
    /\ priority = {}
    /\ order = <<>> /\ SearchInit
    /\ used = Empty /\ line = Empty
    /\ taken = {} /\ remap = Empty /\ newRows = 0
    /\ moved = {} /\ selectors = {}
    /\ constants = Empty /\ witnesses = Empty /\ inputs = <<>>

-----------------------------------------------------------------------------
(* generate_zones *)

WitnessRows(i, g) == {i + d : d \in shape.witness[g]}
ConstantRows(i, g) == {i + d : d \in shape.constant[g]}

(* Mutant: rows above and below are joined with the gate alone.            *)
WitnessBlockWithoutRow(i, g) ==
    IF shape.witness[g] = {} THEN {} ELSE (WitnessRows(i, g) \ {i}) \cup {SelectorZone(g)}

(* The rows of the gate, the row it is enabled on and the gate itself.     *)
WitnessBlock(i, g) ==
    IF shape.witness[g] = {} THEN {} ELSE WitnessRows(i, g) \cup {i, SelectorZone(g)}

(* Mutant: there is no zone for the constant column.                       *)
ConstantBlockAlone(i, g) == ConstantRows(i, g)

ConstantBlock(i, g) ==
    IF shape.constant[g] = {} THEN {} ELSE ConstantRows(i, g) \cup {ConstantZone}

(* union_set over a block.                                                 *)
Join(partition, block) ==
    LET merged == UNION {partition[n] : n \in block}
    IN [n \in Nodes |-> IF n \in merged THEN merged ELSE partition[n]]

(* One gate on one row.                                                    *)
Scan ==
    /\ phase = "scan" /\ row \in Rows /\ gate \in Gates
    /\ IF row \in shape.enabled[gate]
       THEN /\ zoneOf' = Join(Join(zoneOf, WitnessBlock(row, gate)), ConstantBlock(row, gate))
            /\ priority' = priority \cup ConstantRows(row, gate)
       ELSE UNCHANGED <<zoneOf, priority>>
    /\ gate' = gate + 1
    /\ UNCHANGED <<shape, phase, row, packing, placing, claiming, table>>

ScanNextRow ==
    /\ phase = "scan" /\ row \in Rows /\ gate = GateCount
    /\ row' = row + 1 /\ gate' = 0
    /\ UNCHANGED <<shape, phase, zoneOf, priority, packing, placing, claiming, table>>

-----------------------------------------------------------------------------
(* compute_remapping *)

(* zone_sizes: only rows are counted.                                      *)
RowsOf(zone) == zone \cap Rows

Zones == {zoneOf[i] : i \in Rows}

(* The zones are listed in the order of a hash table, then sorted by size. *)
Pack ==
    /\ phase = "scan" /\ row = RowsAmount
    /\ \E list \in {f \in [1..Cardinality(Zones) -> Zones] : Range(f) = Zones} :
        LET sizes == [k \in DOMAIN list |-> Cardinality(RowsOf(list[k]))] IN
        /\ Sorted(sizes)
        /\ Begin(sizes)
        /\ order' = list
    /\ phase' = "pack"
    /\ UNCHANGED <<shape, zoning, placing, claiming, table>>

Search ==
    /\ phase = "pack"
    /\ SearchStep
    /\ UNCHANGED <<shape, phase, order, zoning, placing, claiming, table>>

(* zone_mapping: operator[] makes up bin 0 for a zone without one.         *)
BinOfZone(zone) ==
    IF \E k \in DOMAIN best : order[k] = zone
    THEN best[CHOOSE k \in DOMAIN best : order[k] = zone]
    ELSE 0

Bin(n) == BinOfZone(zoneOf[n])

StartPlacing ==
    /\ phase = "pack" /\ Returned
    /\ phase' = "place"
    /\ row' = 0
    /\ used' = [b \in 0..(Cardinality(Zones) - 1) |-> 0]
    /\ UNCHANGED <<shape, gate, zoneOf, priority, packing, line, claiming, table>>

Place ==
    /\ phase = "place" /\ row \in Rows
    /\ Bin(row) \in DOMAIN used
    /\ line' = [i \in DOMAIN line \cup {row} |-> IF i = row THEN used[Bin(row)] ELSE line[i]]
    /\ taken' = IF row \in priority THEN taken \cup {used[Bin(row)]} ELSE taken
    /\ used' = [used EXCEPT ![Bin(row)] = @ + 1]
    /\ row' = row + 1
    /\ UNCHANGED <<shape, phase, gate, zoneOf, priority, packing, remap, newRows, table>>

StartClaiming ==
    /\ phase = "place" /\ row = RowsAmount
    /\ phase' = "claim"
    /\ UNCHANGED <<shape, zoning, packing, placing, claiming, table>>

(* The loop that looks for it may read constant_assigned past its end; the *)
(* bits that libstdc++ keeps there are clear.                              *)
FirstUnassignedConst == Min((0..RowsAmount) \ taken)

(* Mutant: the line is taken although another constant is there.           *)
ClaimedAnyway(i) == line[i]

ClaimedLine(i) == IF line[i] \in taken THEN FirstUnassignedConst ELSE line[i]

(* One constant of a copy constraint, in the order of std::set<var>.       *)
Claim ==
    /\ phase = "claim" /\ ~(shape.copied \subseteq DOMAIN remap)
    /\ LET i == Min(shape.copied \ DOMAIN remap) IN
        /\ remap' = [j \in DOMAIN remap \cup {i} |-> IF j = i THEN ClaimedLine(i) ELSE remap[j]]
        /\ taken' = taken \cup {ClaimedLine(i)}
    /\ UNCHANGED <<shape, phase, zoning, packing, placing, newRows, table>>

FinishRemapping ==
    /\ phase = "claim" /\ shape.copied \subseteq DOMAIN remap
    /\ phase' = "ready"
    /\ newRows' = Max({Cardinality(RowsOf(z)) : z \in Zones})
    /\ UNCHANGED <<shape, zoning, packing, placing, taken, remap, table>>

-----------------------------------------------------------------------------
(* generate_circuit and generate_assignments of the stretched component *)

MovedSelectors == UNION {{<<g, line[i]>> : i \in shape.enabled[g]} : g \in Gates}

(* Later rows overwrite: of the constants that meet, the last one stays.   *)
ConstantTarget(i) == IF i \in DOMAIN remap THEN remap[i] ELSE line[i]

MovedConstants ==
    LET moving == DOMAIN remap \cup priority
        at(n) == {i \in moving : ConstantTarget(i) = n}
    IN [n \in {ConstantTarget(i) : i \in moving} |-> Max(at(n))]

(* move_var on an input of a copy constraint.  The component was given the *)
(* caller's variables, and a public input is taken for the position of the *)
(* input, a witness for one of the component's own rows.                   *)
MovedInput(v) ==
    CASE v.type = "public_input" /\ v.row + 1 \in DOMAIN Inputs -> Inputs[v.row + 1]
      [] v.type = "witness" -> [v EXCEPT !.row = line[v.row], !.bin = Bin(v.row)]
      [] OTHER -> [v EXCEPT !.type = "uninitialized"]

MoveCircuit ==
    /\ phase = "ready" /\ "circuit" \notin moved
    /\ selectors' = MovedSelectors
    /\ constants' = MovedConstants
    /\ inputs' = [k \in DOMAIN Inputs |-> MovedInput(Inputs[k])]
    /\ moved' = moved \cup {"circuit"}
    /\ UNCHANGED <<shape, phase, zoning, packing, placing, claiming, witnesses>>

(* Later rows overwrite here too.                                          *)
RowsAt(cell) == {i \in Rows : <<Bin(i), line[i]>> = cell}

MovedWitnesses == [cell \in {<<Bin(i), line[i]>> : i \in Rows} |-> Max(RowsAt(cell))]

MoveAssignment ==
    /\ phase = "ready" /\ "assignment" \notin moved
    /\ witnesses' = MovedWitnesses
    /\ moved' = moved \cup {"assignment"}
    /\ UNCHANGED <<shape, phase, zoning, packing, placing, claiming, selectors, constants, inputs>>

Next ==
    \/ Scan \/ ScanNextRow
    \/ Pack \/ Search
    \/ StartPlacing \/ Place
    \/ StartClaiming \/ Claim \/ FinishRemapping
    \/ MoveCircuit \/ MoveAssignment

Spec == Init /\ [][Next]_vars

-----------------------------------------------------------------------------
(* Properties *)

TypeOK ==
    /\ shape \in Shapes
    /\ phase \in {"scan", "pack", "place", "claim", "ready"}
    /\ row \in 0..RowsAmount /\ gate \in 0..GateCount
    /\ zoneOf \in [Nodes -> SUBSET Nodes]
    /\ priority \subseteq Rows
    /\ DOMAIN line \subseteq Rows /\ \A i \in DOMAIN line : line[i] \in Nat
    /\ DOMAIN used \subseteq Nat /\ \A b \in DOMAIN used : used[b] \in Nat
    /\ taken \subseteq Rows
    /\ moved \subseteq {"circuit", "assignment"}

(* A gate of the new table reads, at every rotation, the witnesses of the  *)
(* row it read before: the rows it ties together stay neighbours, in the   *)
(* columns its constraints were moved to, and nothing overwrites them -    *)
(* whatever bin huang_lu chose and whatever other zones share that bin.    *)
WitnessesReachGates ==
    moved = {"circuit", "assignment"} =>
        \A g \in Gates : \A i \in shape.enabled[g] :
            /\ <<g, line[i]>> \in selectors
            /\ \A r \in WitnessRows(i, g) :
                LET cell == <<Bin(SelectorZone(g)), line[i] + (r - i)>> IN
                cell \in DOMAIN witnesses /\ witnesses[cell] = r

(* The same for the constants a gate reads.                                *)
ConstantsReachGates ==
    "circuit" \in moved =>
        \A g \in Gates : \A i \in shape.enabled[g] : \A r \in ConstantRows(i, g) :
            LET n == line[i] + (r - i) IN n \in DOMAIN constants /\ constants[n] = r

(* A copy constraint on a constant finds it where the constraint was moved *)
(* to, among the constants of gates and of the other constraints.          *)
CopiedConstantsKept ==
    "circuit" \in moved => \A i \in shape.copied : constants[remap[i]] = i
=============================================================================
