------------------------------ MODULE Connectedness ------------------------------
(***************************************************************************)
(* The check that the inputs and the outputs of a component's block of     *)
(* rows are tied together by its constraints                               *)
(* (include/nil/blueprint/utils/connectedness_check.hpp).  The cells get   *)
(* addresses, the constraints join addresses into zones, and the answers   *)
(* are about the zones.  A circuit grows gate by gate, selector by         *)
(* selector and copy by copy, and is asked about along the way.            *)
(*                                                                         *)
(* A cell is <<type, column, row>>; a gate is the set of the variables its *)
(* constraints name, <<type, column, rotation>>.  A lookup gate differs    *)
(* only in the name of its selector.                                       *)
(***************************************************************************)
EXTENDS Integers, Sequences, FiniteSets, SequencesExt

CONSTANTS
    WitnessColumns, ConstantColumns,
    Start, RowsAmount, \* the block
    GateChoices,       \* gates that may be added
    CopyChoices,       \* copy constraints, as pairs of cells
    RowChoices,        \* rows on which a selector may be enabled
    IOChoices,         \* pairs of the sequences of input and of output variables
    MaxGates, MaxCopies

VARIABLES
    gates,   \* the gates, in their order; the selector of a gate is its place
    enabled, \* the pairs of a gate and a row whose selector is not zero
    copies,  \* the copy constraints, in their order
    io,      \* the inputs and the outputs
    answers  \* the answers given for the circuit as it is

connectednessVars == <<gates, enabled, copies, io, answers>>

Inputs == Range(io[1])
Outputs == Range(io[2])
RowSize == WitnessColumns + ConstantColumns
BlockRows == Start..(Start + RowsAmount - 1)

-----------------------------------------------------------------------------
(* copy_var_address and gate_var_address: the constants of a row share one *)
(* address, whatever their column, and the public inputs come after the    *)
(* block.                                                                  *)

ConstantAfterRow(type, column) == IF type = "witness" THEN column ELSE RowSize
WithinRow(type, column) == IF type = "witness" THEN column ELSE RowSize - 1

CopyAddress(cell) ==
    IF cell[1] = "public" THEN RowSize * RowsAmount + cell[3]
    ELSE (cell[3] - Start) * RowSize + WithinRow(cell[1], cell[2])

GateAddress(row, v) == (row - Start + v[3]) * RowSize + WithinRow(v[1], v[2])

Addresses == 0..(RowSize * RowsAmount + Len(io[1]) - 1)

(* A constraint names a cell of the table from the row of its selector,    *)
(* and there is one public column.                                         *)
TableCells ==
    ({"witness"} \X (0..(WitnessColumns - 1)) \X Int)
    \cup ({"constant"} \X (0..(ConstantColumns - 1)) \X Int)
CircuitCells == TableCells \cup ({"public"} \X {0} \X Nat)

ASSUME BlockAssumption ==
    WitnessColumns \in Nat /\ ConstantColumns \in Nat /\ Start \in Nat /\ RowsAmount \in Nat
ASSUME ConstraintAssumption ==
    /\ GateChoices \subseteq SUBSET TableCells /\ {} \notin GateChoices
    /\ CopyChoices \subseteq CircuitCells \X CircuitCells
    /\ RowChoices \subseteq Int

(* There is an input, and the inputs and outputs are in the block or public *)
(* ones as far down as there are inputs.                                   *)
ASSUME IOAssumption ==
    \A pair \in IOChoices :
        /\ pair[1] \in Seq(CircuitCells) /\ pair[2] \in Seq(CircuitCells) /\ pair[1] # <<>>
        /\ \A c \in Range(pair[1]) \cup Range(pair[2]) :
              CopyAddress(c) \in 0..(RowSize * RowsAmount + Len(pair[1]) - 1)

(* What mark_set joins for a gate: its variables, on each row of the block *)
(* on which its selector is enabled.                                       *)
MarkedRows(k) == {row \in BlockRows : <<k, row>> \in enabled}
Marks(k) == {{GateAddress(row, v) : v \in gates[k]} : row \in MarkedRows(k)}

CopyMark(pair) == {CopyAddress(pair[1]), CopyAddress(pair[2])}

(* generate_connectedness_zones: the addresses by zone, after the gates    *)
(* and then the copy constraints.  Those of a gate are joined at once, and *)
(* in any order.                                                           *)
Joins ==
    SetToSeq(UNION {Marks(k) : k \in DOMAIN gates})
        \o [i \in DOMAIN copies |-> CopyMark(copies[i])]

Joined(zones, together) ==
    {z \in zones : z \cap together = {}}
    \cup {UNION {z \in zones : z \cap together # {}}}

ZonesAfter(joins) ==
    LET after[n \in 0..Len(joins)] ==
            IF n = 0 THEN {{a} : a \in Addresses} ELSE Joined(after[n - 1], joins[n])
    IN after

Zones == LET joins == Joins IN ZonesAfter(joins)[Len(joins)]

-----------------------------------------------------------------------------
(* The checks, of the zones z *)

(* find_set, of an address and of cells                                    *)
FindSet(z, address) == CHOOSE zone \in z : address \in zone
ZonesOf(z, cells) == {FindSet(z, CopyAddress(c)) : c \in cells}

(* check_strong_connectedness, check_weak_connectedness, check_islands     *)
Strong(z) == ZonesOf(z, Inputs \cup Outputs) = ZonesOf(z, {io[1][1]})
Weak(z) ==
    /\ ZonesOf(z, Outputs) \subseteq ZonesOf(z, Inputs)
    /\ ZonesOf(z, Inputs) \subseteq ZonesOf(z, Outputs)

NoIslands(z) ==
    LET expected == ZonesOf(z, Inputs \cup Outputs) IN
    /\ \A k \in DOMAIN gates : \A row \in MarkedRows(k), v \in gates[k] :
          FindSet(z, GateAddress(row, v)) \in expected
    /\ \A i \in DOMAIN copies : ZonesOf(z, {copies[i][1], copies[i][2]}) \subseteq expected

CheckConnectedness(z, type, islands) ==
    \/ type = "none"
    \/ /\ IF type = "weak" THEN Weak(z) ELSE Strong(z)
       /\ islands => NoIslands(z)

-----------------------------------------------------------------------------

ConnectednessInit ==
    gates = <<>> /\ enabled = {} /\ copies = <<>> /\ io \in IOChoices /\ answers = <<>>

(* The addresses a gate reaches from a row are ones the zones are made for. *)
Reaches(gate, row) == row \in BlockRows => \A v \in gate : GateAddress(row, v) \in Addresses

AddGate ==
    /\ Len(gates) < MaxGates
    /\ \E gate \in GateChoices : gates' = Append(gates, gate)
    /\ answers' = <<>> /\ UNCHANGED <<enabled, copies, io>>

EnableSelector ==
    /\ \E k \in DOMAIN gates, row \in RowChoices :
          Reaches(gates[k], row) /\ enabled' = enabled \cup {<<k, row>>}
    /\ answers' = <<>> /\ UNCHANGED <<gates, copies, io>>

AddCopyConstraint ==
    /\ Len(copies) < MaxCopies
    /\ \E pair \in CopyChoices :
          /\ {CopyAddress(pair[1]), CopyAddress(pair[2])} \subseteq Addresses
          /\ copies' = Append(copies, pair)
    /\ answers' = <<>> /\ UNCHANGED <<gates, enabled, io>>

Asked == [type : {"none", "weak", "strong"}, islands : BOOLEAN]

Check ==
    /\ answers = <<>>
    /\ LET z == Zones IN
       answers' = [asked \in Asked |-> CheckConnectedness(z, asked.type, asked.islands)]
    /\ UNCHANGED <<gates, enabled, copies, io>>

ConnectednessNext == AddGate \/ EnableSelector \/ AddCopyConstraint \/ Check

ConnectednessSpec == ConnectednessInit /\ [][ConnectednessNext]_connectednessVars

-----------------------------------------------------------------------------
(* What the answers should be: cells are tied together when a constraint   *)
(* that is in force names both, and so on from cell to cell.               *)

CellOf(row, v) == <<v[1], v[2], row + v[3]>>
Ties(k) == {{CellOf(row, v) : v \in gates[k]} : row \in MarkedRows(k)}
Constraints ==
    (UNION {Ties(k) : k \in DOMAIN gates}) \cup {{pair[1], pair[2]} : pair \in Range(copies)}

Named == Inputs \cup Outputs \cup UNION Constraints

Closed(cells) == \A p \in Constraints : p \cap cells = {} \/ p \subseteq cells

(* The cells tied to each: those that every closed set with the cell has   *)
(* too, where sets of whole constraints are enough to look at.             *)
Islands ==
    LET tied == UNION Constraints
        closed == {cells \in {UNION Q : Q \in SUBSET Constraints} : Closed(cells)}
    IN [c \in Named |->
           {c} \cup {d \in tied : c \in tied /\ \A cells \in closed : c \in cells => d \in cells}]

Connected(island, type, islands) ==
    /\ type = "strong" => Inputs \cup Outputs \subseteq island[io[1][1]]
    /\ type = "weak" => /\ \A c \in Inputs : island[c] \cap Outputs # {}
                        /\ \A c \in Outputs : island[c] \cap Inputs # {}
    /\ type # "none" /\ islands =>
          \A c \in Named : island[c] \cap (Inputs \cup Outputs) # {}

(* No two constants of a row are named, and no cell outside the block.     *)
CellsApart ==
    LET cells == {c \in Named : c[1] # "public"} IN
    /\ \A c \in cells : c[3] \in BlockRows
    /\ \A c, d \in {c \in cells : c[1] = "constant"} : c[3] = d[3] => c = d

(* A component that is connected is never called disconnected, and one     *)
(* that is not is found out, unless two of its cells may share an address: two *)
(* constants of one row, or a cell after the block and a public input.     *)
AnswersExact ==
    LET island == Islands
        apart == CellsApart
    IN \A asked \in DOMAIN answers :
          /\ Connected(island, asked.type, asked.islands) => answers[asked]
          /\ apart /\ answers[asked] => Connected(island, asked.type, asked.islands)
=============================================================================
