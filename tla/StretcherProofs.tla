-------------------------- MODULE StretcherProofs --------------------------
(***************************************************************************)
(* Every component is stretched so that its gates still read the witnesses *)
(* they were written for, whatever its size, its gates, the number of bins *)
(* and the way huang_lu shares the zones out among them: the proof takes   *)
(* zone_mapping for an arbitrary function of the zones.  Then huang_lu     *)
(* itself, for every list of tasks, and the constants, for components that *)
(* keep to what is stated where they are proved.                           *)
(***************************************************************************)
EXTENDS Stretcher, CommonLemmas

Partition(p) ==
    /\ p \in [Nodes -> SUBSET Nodes]
    /\ \A n \in Nodes : n \in p[n]
    /\ \A n \in Nodes : \A m \in p[n] : p[m] = p[n]

(* union_set over a block keeps the zones apart, keeps what was together   *)
(* together, and ties the block together.                                  *)
LEMMA JoinTies ==
    ASSUME NEW p, Partition(p), NEW block \in SUBSET Nodes
    PROVE  /\ Partition(Join(p, block))
           /\ \A x, y \in Nodes : p[x] = p[y] => Join(p, block)[x] = Join(p, block)[y]
           /\ \A x, y \in block : Join(p, block)[x] = Join(p, block)[y]
<1> DEFINE merged == UNION {p[n] : n \in block}
           q == Join(p, block)
<1>1. q = [n \in Nodes |-> IF n \in merged THEN merged ELSE p[n]]
  BY DEF Join
<1>2. merged \subseteq Nodes
  BY DEF Partition
<1>3. \A x \in block : x \in merged
  BY DEF Partition
<1>4. \A x, y \in Nodes : p[x] = p[y] /\ x \in merged => y \in merged
  <2> SUFFICES ASSUME NEW x \in Nodes, NEW y \in Nodes, p[x] = p[y],
                      NEW k \in block, x \in p[k]
               PROVE  y \in p[k]
    OBVIOUS
  <2>1. p[x] = p[k]
    BY DEF Partition
  <2> QED
    BY <2>1 DEF Partition
<1> HIDE DEF merged
<1>5. \A x, y \in Nodes : p[x] = p[y] => q[x] = q[y]
  BY <1>1, <1>4
<1>6. \A x, y \in block : q[x] = q[y]
  BY <1>1, <1>3
<1>7. q \in [Nodes -> SUBSET Nodes] /\ \A n \in Nodes : n \in q[n]
  BY <1>1, <1>2 DEF Partition
<1>8. ASSUME NEW n \in Nodes, NEW m \in q[n]
      PROVE  q[m] = q[n]
  <2>1. CASE n \in merged
    BY <2>1, <1>1, <1>2
  <2>2. CASE n \notin merged
    <3>1. m \in p[n] /\ m \in Nodes /\ p[m] = p[n]
      BY <2>2, <1>1 DEF Partition
    <3> QED
      BY <3>1, <1>5
  <2> QED
    BY <2>1, <2>2
<1> QED
  BY <1>5, <1>6, <1>7, <1>8 DEF Partition

-----------------------------------------------------------------------------

Scanned(i, g) ==
    phase = "scan" => i < row \/ (i = row /\ g < gate)

(* Generate_zones: what a scanned gate reads is one zone.                  *)
ZonesInv ==
    /\ shape \in Shapes
    /\ row \in Nat /\ gate \in 0..GateCount
    /\ Partition(zoneOf)
    /\ \A g \in Gates : \A i \in shape.enabled[g] :
        Scanned(i, g) =>
            \A x, y \in WitnessBlock(i, g) : zoneOf[x] = zoneOf[y]

(* The lines given out so far: rows of a bin keep their order, and two     *)
(* consecutive rows in one bin stay consecutive, because the counter of    *)
(* the bin stands just above the row that was placed last.                 *)
LinesInv ==
    /\ phase \in {"scan", "pack"} => DOMAIN line = {}
    /\ phase = "place" => row <= RowsAmount /\ DOMAIN line = 0..(row - 1)
    /\ phase \in {"claim", "ready"} => DOMAIN line = Rows
    /\ \A b \in DOMAIN used : used[b] \in Nat
    /\ \A i \in DOMAIN line :
        line[i] \in Nat /\ Bin(i) \in DOMAIN used /\ line[i] < used[Bin(i)]
    /\ \A i, j \in DOMAIN line : i < j /\ Bin(i) = Bin(j) => line[i] < line[j]
    /\ \A i, j \in DOMAIN line : j = i + 1 /\ Bin(i) = Bin(j) => line[j] = line[i] + 1
    /\ phase = "place" /\ row > 0 => used[Bin(row - 1)] = line[row - 1] + 1

MovedInv ==
    /\ moved # {} => phase = "ready"
    /\ "circuit" \in moved => selectors = MovedSelectors
    /\ "assignment" \in moved => witnesses = MovedWitnesses

PhaseOK == phase \in {"scan", "pack", "place", "claim", "ready"}

IInv == PhaseOK /\ ZonesInv /\ LinesInv /\ MovedInv

LEMMA ShapeFacts ==
    ASSUME shape \in Shapes, NEW g \in Gates
    PROVE  /\ shape.enabled[g] \subseteq Rows
           /\ shape.witness[g] \subseteq {-1, 0, 1}
           /\ \A i \in shape.enabled[g] : \A d \in shape.witness[g] : i + d \in Rows
           /\ \A i \in shape.enabled[g] : \A d \in shape.constant[g] : i + d \in Rows
  BY ShapesAssumption DEF AllShapes

LEMMA BlocksAreNodes ==
    ASSUME shape \in Shapes, NEW g \in Gates, NEW i \in shape.enabled[g]
    PROVE  WitnessBlock(i, g) \subseteq Nodes /\ ConstantBlock(i, g) \subseteq Nodes
<1>1. Rows \subseteq Nodes /\ SelectorZone(g) \in Nodes /\ ConstantZone \in Nodes
  BY RowsAssumption DEF Rows, Nodes, SelectorZone, ConstantZone, Gates
<1> QED
  BY <1>1, ShapeFacts DEF WitnessBlock, ConstantBlock, WitnessRows, ConstantRows

LEMMA InitIInv == Init => IInv
<1> SUFFICES ASSUME Init PROVE IInv
  OBVIOUS
<1>1. \A g \in Gates : \A i \in shape.enabled[g] : ~Scanned(i, g)
  BY ShapeFacts, RowsAssumption DEF Init, Scanned, Rows, Gates
<1>2. Partition(zoneOf)
  BY DEF Init, Partition
<1>3. ZonesInv
  BY <1>1, <1>2, RowsAssumption DEF Init, ZonesInv
<1> QED
  BY <1>3 DEF Init, IInv, PhaseOK, LinesInv, MovedInv, Empty

(* Bins move with what they are computed from, and with nothing else.      *)
LEMMA BinStays ==
    ASSUME UNCHANGED <<zoneOf, best, order>>
    PROVE  \A n : Bin(n)' = Bin(n)
  BY DEF Bin, BinOfZone

LEMMA ScanStep ==
    ASSUME IInv, Scan
    PROVE  ZonesInv'
<1> USE DEF IInv, ZonesInv
<1>0. /\ phase = "scan" /\ row \in Rows /\ gate \in Gates
      /\ row' = row /\ phase' = phase /\ gate' = gate + 1 /\ shape' = shape
  BY DEF Scan
<1>1. gate' \in 0..GateCount
  BY <1>0, RowsAssumption DEF Gates
<1>2. \A g, i : WitnessBlock(i, g)' = WitnessBlock(i, g)
  BY <1>0 DEF WitnessBlock, WitnessRows
<1>3. ASSUME NEW g \in Gates, NEW i \in shape.enabled[g], Scanned(i, g)'
      PROVE  Scanned(i, g) \/ (i = row /\ g = gate)
  BY <1>0, <1>3, ShapeFacts, RowsAssumption DEF Scanned, Gates, Rows
<1>4. CASE row \in shape.enabled[gate]
  <2> DEFINE p == Join(zoneOf, WitnessBlock(row, gate))
             q == Join(p, ConstantBlock(row, gate))
  <2>1. zoneOf' = q
    BY <1>0, <1>4 DEF Scan
  <2>2. /\ WitnessBlock(row, gate) \subseteq Nodes
        /\ ConstantBlock(row, gate) \subseteq Nodes
    BY <1>0, <1>4, BlocksAreNodes
  <2>3. /\ Partition(p)
        /\ \A x, y \in Nodes : zoneOf[x] = zoneOf[y] => p[x] = p[y]
        /\ \A x, y \in WitnessBlock(row, gate) : p[x] = p[y]
    BY <2>2, JoinTies
  <2> HIDE DEF p
  <2>4. Partition(q) /\ \A x, y \in Nodes : p[x] = p[y] => q[x] = q[y]
    BY <2>2, <2>3, JoinTies
  <2> HIDE DEF q
  <2>5. ASSUME NEW g \in Gates, NEW i \in shape.enabled[g], Scanned(i, g)',
               NEW x \in WitnessBlock(i, g), NEW y \in WitnessBlock(i, g)
        PROVE  q[x] = q[y]
    <3>1. x \in Nodes /\ y \in Nodes
      BY BlocksAreNodes
    <3>2. p[x] = p[y]
      BY <2>3, <2>5, <3>1, <1>3
    <3> QED
      BY <2>4, <3>1, <3>2
  <2> QED
    BY <1>0, <1>1, <1>2, <2>1, <2>4, <2>5, RowsAssumption DEF Rows
<1>5. CASE row \notin shape.enabled[gate]
  <2>1. zoneOf' = zoneOf
    BY <1>0, <1>5 DEF Scan
  <2>2. ASSUME NEW g \in Gates, NEW i \in shape.enabled[g], Scanned(i, g)'
        PROVE  Scanned(i, g)
    BY <1>3, <1>5, <2>2
  <2> QED
    BY <1>0, <1>1, <1>2, <2>1, <2>2, RowsAssumption DEF Rows
<1> QED
  BY <1>4, <1>5

LEMMA PlaceStep ==
    ASSUME IInv, Place
    PROVE  LinesInv'
<1> USE DEF IInv, LinesInv
<1> DEFINE b == Bin(row)
<1>0. /\ phase = "place" /\ phase' = phase
      /\ row \in Rows /\ row' = row + 1
      /\ b \in DOMAIN used
      /\ UNCHANGED <<zoneOf, best, order>>
      /\ line' = [i \in DOMAIN line \cup {row} |-> IF i = row THEN used[b] ELSE line[i]]
      /\ used' = [used EXCEPT ![b] = @ + 1]
  BY DEF Place, packing, searchVars, interval
<1>1. \A n : Bin(n)' = Bin(n)
  BY <1>0, BinStays
<1>2. row \in Nat /\ DOMAIN line = 0..(row - 1) /\ row < RowsAmount /\ RowsAmount \in Nat
  BY <1>0, RowsAssumption DEF Rows
<1>3. DOMAIN line' = 0..(row' - 1)
  BY <1>0, <1>2
<1>4. row \notin DOMAIN line
  BY <1>2
<1>5. /\ line'[row] = used[b]
      /\ \A i \in DOMAIN line : line'[i] = line[i] /\ i \in Nat /\ i < row
  BY <1>0, <1>2, <1>4
<1>6. /\ DOMAIN used' = DOMAIN used
      /\ used'[b] = used[b] + 1
      /\ used[b] \in Nat
      /\ \A c \in DOMAIN used : c # b => used'[c] = used[c]
  BY <1>0
<1> DEFINE bin(i) == Bin(i)
<1>7. \A i \in DOMAIN line' :
        line'[i] \in Nat /\ bin(i) \in DOMAIN used' /\ line'[i] < used'[bin(i)]
  <2> SUFFICES ASSUME NEW i \in DOMAIN line'
               PROVE  line'[i] \in Nat /\ bin(i) \in DOMAIN used' /\ line'[i] < used'[bin(i)]
    OBVIOUS
  <2>1. CASE i = row
    BY <2>1, <1>0, <1>5, <1>6
  <2>2. CASE i # row
    <3>1. i \in DOMAIN line
      BY <2>2, <1>0
    <3>2. line[i] \in Nat /\ bin(i) \in DOMAIN used /\ line[i] < used[bin(i)]
      BY <3>1
    <3>3. used'[bin(i)] = used[bin(i)] \/ used'[bin(i)] = used[bin(i)] + 1
      BY <3>2, <1>6
    <3>4. used[bin(i)] \in Nat
      BY <3>2
    <3> QED
      BY <3>1, <3>2, <3>3, <3>4, <1>5, <1>6
  <2> QED
    BY <2>1, <2>2
<1>8. \A i, j \in DOMAIN line' : i < j /\ bin(i) = bin(j) => line'[i] < line'[j]
  <2> SUFFICES ASSUME NEW i \in DOMAIN line', NEW j \in DOMAIN line', i < j, bin(i) = bin(j)
               PROVE  line'[i] < line'[j]
    OBVIOUS
  <2>1. i \in DOMAIN line
    BY <1>0, <1>2, <1>3
  <2>2. CASE j = row
    BY <2>1, <2>2, <1>5
  <2>3. CASE j # row
    <3>1. j \in DOMAIN line
      BY <2>3, <1>0
    <3> QED
      BY <2>1, <3>1, <1>5
  <2> QED
    BY <2>2, <2>3
<1>9. \A i, j \in DOMAIN line' : j = i + 1 /\ bin(i) = bin(j) => line'[j] = line'[i] + 1
  <2> SUFFICES ASSUME NEW i \in DOMAIN line', NEW j \in DOMAIN line', j = i + 1, bin(i) = bin(j)
               PROVE  line'[j] = line'[i] + 1
    OBVIOUS
  <2>1. i \in DOMAIN line
    BY <1>0, <1>2, <1>3
  <2>2. CASE j = row
    <3>1. i = row - 1 /\ row > 0
      BY <2>1, <2>2, <1>2, <1>5
    <3>2. used[Bin(row - 1)] = line[row - 1] + 1
      BY <3>1, <1>0
    <3> QED
      BY <2>1, <2>2, <3>1, <3>2, <1>5
  <2>3. CASE j # row
    <3>1. j \in DOMAIN line
      BY <2>3, <1>0
    <3> QED
      BY <2>1, <3>1, <1>5
  <2> QED
    BY <2>2, <2>3
<1>10. used'[bin(row' - 1)] = line'[row' - 1] + 1
  <2>1. row' - 1 = row
    BY <1>0, <1>2
  <2> QED
    BY <2>1, <1>5, <1>6
<1>11. \A c \in DOMAIN used' : used'[c] \in Nat
  BY <1>6
<1>12. row' <= RowsAmount
  BY <1>0, <1>2
<1>13. (used[Bin(row - 1)])' = used'[bin(row' - 1)]
  BY <1>0 DEF Bin, BinOfZone
<1>14. \A i : Bin(i)' = bin(i)
  BY <1>1
<1> HIDE DEF bin, IInv
<1>15. (\A i \in DOMAIN line :
          line[i] \in Nat /\ Bin(i) \in DOMAIN used /\ line[i] < used[Bin(i)])'
  BY <1>7, <1>14
<1>16. (\A i, j \in DOMAIN line : i < j /\ Bin(i) = Bin(j) => line[i] < line[j])'
  BY <1>8, <1>14
<1>17. (\A i, j \in DOMAIN line : j = i + 1 /\ Bin(i) = Bin(j) => line[j] = line[i] + 1)'
  BY <1>9, <1>14
<1>18. (used[Bin(row - 1)] = line[row - 1] + 1)'
  BY <1>10, <1>13
<1>19. phase' = "place" /\ (\A c \in DOMAIN used : used[c] \in Nat)'
  BY <1>0, <1>11
<1> QED
  BY <1>3, <1>12, <1>15, <1>16, <1>17, <1>18, <1>19

LEMMA NextIInv == IInv /\ [Next]_vars => IInv'
<1> SUFFICES ASSUME IInv, [Next]_vars PROVE IInv'
  OBVIOUS
<1> USE DEF IInv
<1>1. PhaseOK'
  BY DEF PhaseOK, Next, vars, Scan, ScanNextRow, Pack, Search, StartPlacing, Place,
         StartClaiming, Claim, FinishRemapping, MoveCircuit, MoveAssignment
<1> DEFINE Rest == \/ Pack \/ Search \/ StartPlacing \/ Place \/ StartClaiming \/ Claim
                   \/ FinishRemapping \/ MoveCircuit \/ MoveAssignment \/ UNCHANGED vars
<1>2. CASE Scan
  <2>1. ZonesInv'
    BY <1>2, ScanStep
  <2>2. LinesInv' /\ MovedInv'
    BY <1>2 DEF Scan, LinesInv, MovedInv, placing, packing, table
  <2> QED
    BY <1>1, <2>1, <2>2
<1>3. CASE ScanNextRow
  <2>1. /\ phase = "scan" /\ phase' = phase /\ row' = row + 1 /\ gate' = 0 /\ gate = GateCount
        /\ UNCHANGED <<shape, zoneOf>>
    BY <1>3 DEF ScanNextRow
  <2>2. ASSUME NEW g \in Gates, NEW i \in shape.enabled[g], Scanned(i, g)'
        PROVE  Scanned(i, g)
    BY <2>1, <2>2, ShapeFacts, RowsAssumption DEF Scanned, ZonesInv, Gates, Rows
  <2>3. \A g, i : WitnessBlock(i, g)' = WitnessBlock(i, g)
    BY <2>1 DEF WitnessBlock, WitnessRows
  <2>4. ZonesInv'
    BY <2>1, <2>2, <2>3, RowsAssumption DEF ZonesInv
  <2>5. LinesInv' /\ MovedInv'
    BY <1>3 DEF ScanNextRow, LinesInv, MovedInv, placing, packing, table
  <2> QED
    BY <1>1, <2>4, <2>5
<1>4. CASE Rest
  <2>1. /\ shape' = shape /\ zoneOf' = zoneOf /\ gate' = gate
        /\ row' = row \/ row' = 0 \/ (row' = row + 1)
        /\ \/ phase = "scan" /\ row = RowsAmount
           \/ phase # "scan"
           \/ phase' = phase /\ row' = row
        /\ phase' = "scan" => phase = "scan" /\ row' = row
    BY <1>4 DEF Pack, Search, StartPlacing, Place, StartClaiming, Claim, FinishRemapping,
                MoveCircuit, MoveAssignment, vars, zoning
  <2>2. \A g, i : WitnessBlock(i, g)' = WitnessBlock(i, g)
    BY <2>1 DEF WitnessBlock, WitnessRows
  <2>3. ASSUME NEW g \in Gates, NEW i \in shape.enabled[g], Scanned(i, g)'
        PROVE  Scanned(i, g)
    <3>1. i \in Rows
      BY ShapeFacts DEF ZonesInv
    <3> QED
      BY <2>1, <2>3, <3>1, RowsAssumption DEF Scanned, Rows
  <2>4. ZonesInv'
    BY <2>1, <2>2, <2>3 DEF ZonesInv
  <2>5. CASE Place
    <3>1. LinesInv'
      BY <2>5, PlaceStep
    <3>2. MovedInv'
      BY <2>5 DEF Place, MovedInv, table
    <3> QED
      BY <1>1, <2>4, <3>1, <3>2
  <2>6. CASE Pack \/ Search
    <3>1. LinesInv' /\ MovedInv'
      BY <2>6 DEF Pack, Search, LinesInv, MovedInv, placing, table
    <3> QED
      BY <1>1, <2>4, <3>1
  <2>7. CASE StartPlacing
    <3>1. LinesInv' /\ MovedInv'
      BY <2>7, RowsAssumption DEF StartPlacing, LinesInv, MovedInv, table
    <3> QED
      BY <1>1, <2>4, <3>1
  <2>8. CASE StartClaiming \/ Claim \/ FinishRemapping \/ MoveCircuit \/ MoveAssignment
             \/ UNCHANGED vars
    <3>1. UNCHANGED <<zoneOf, best, order, line, used, shape, row>>
      BY <2>8 DEF StartClaiming, Claim, FinishRemapping, MoveCircuit, MoveAssignment, vars,
                  zoning, packing, searchVars, interval, placing
    <3>2. \A n : Bin(n)' = Bin(n)
      BY <3>1, BinStays
    <3>3. \/ phase' = phase
          \/ phase = "place" /\ row = RowsAmount /\ phase' = "claim"
          \/ phase = "claim" /\ phase' = "ready"
      <4>1. CASE StartClaiming \/ FinishRemapping
        BY <4>1 DEF StartClaiming, FinishRemapping
      <4>2. CASE Claim \/ MoveCircuit \/ MoveAssignment \/ UNCHANGED vars
        BY <4>2 DEF Claim, MoveCircuit, MoveAssignment, vars
      <4> QED
        BY <2>8, <4>1, <4>2
    <3>4. LinesInv'
      BY <3>1, <3>2, <3>3 DEF LinesInv, Rows
    <3>5. MovedSelectors' = MovedSelectors /\ MovedWitnesses' = MovedWitnesses
      BY <3>1, <3>2 DEF MovedSelectors, MovedWitnesses, RowsAt
    <3>6. MovedInv'
      BY <2>8, <3>5 DEF MovedInv, StartClaiming, Claim, FinishRemapping, MoveCircuit,
                        MoveAssignment, vars, table
    <3> QED
      BY <1>1, <2>4, <3>4, <3>6
  <2> QED
    BY <1>4, <2>5, <2>6, <2>7, <2>8
<1> QED
  BY <1>2, <1>3, <1>4 DEF Next

-----------------------------------------------------------------------------

LEMMA IInvReaches == IInv => WitnessesReachGates
<1> SUFFICES ASSUME IInv, moved = {"circuit", "assignment"},
                    NEW g \in Gates, NEW i \in shape.enabled[g]
             PROVE  /\ <<g, line[i]>> \in selectors
                    /\ \A r \in WitnessRows(i, g) :
                        LET cell == <<Bin(SelectorZone(g)), line[i] + (r - i)>> IN
                        cell \in DOMAIN witnesses /\ witnesses[cell] = r
  BY DEF WitnessesReachGates
<1> USE DEF IInv
<1>1. /\ phase = "ready" /\ DOMAIN line = Rows
      /\ selectors = MovedSelectors /\ witnesses = MovedWitnesses
  BY DEF MovedInv, LinesInv
<1>2. i \in Rows /\ Rows \subseteq Int
  BY ShapeFacts, RowsAssumption DEF ZonesInv, Rows
<1>3. <<g, line[i]>> \in selectors
  BY <1>1 DEF MovedSelectors
<1>4. ASSUME NEW r \in WitnessRows(i, g)
      PROVE  LET cell == <<Bin(SelectorZone(g)), line[i] + (r - i)>> IN
             cell \in DOMAIN witnesses /\ witnesses[cell] = r
  <2>1. r \in Rows /\ (r = i \/ r = i + 1 \/ i = r + 1)
    BY <1>2, ShapeFacts DEF WitnessRows, ZonesInv, Rows
  <2>2. zoneOf[r] = zoneOf[SelectorZone(g)] /\ zoneOf[r] = zoneOf[i]
    <3>1. shape.witness[g] # {}
      BY DEF WitnessRows
    <3>2. r \in WitnessBlock(i, g) /\ i \in WitnessBlock(i, g)
          /\ SelectorZone(g) \in WitnessBlock(i, g)
      BY <3>1 DEF WitnessBlock
    <3> QED
      BY <3>2, <1>1 DEF ZonesInv, Scanned
  <2>3. Bin(r) = Bin(SelectorZone(g)) /\ Bin(r) = Bin(i)
    BY <2>2 DEF Bin
  <2>4. line[r] = line[i] + (r - i)
    <3>1. line[r] \in Int /\ line[i] \in Int
      BY <1>1, <1>2, <2>1 DEF LinesInv
    <3>2. \A j, k \in Rows : k = j + 1 /\ Bin(j) = Bin(k) => line[k] = line[j] + 1
      BY <1>1 DEF LinesInv
    <3>3. CASE r = i
      BY <3>1, <3>3, <1>2
    <3>4. CASE r = i + 1
      <4>1. line[r] = line[i] + 1
        BY <3>2, <3>4, <1>2, <2>1, <2>3
      <4> QED
        BY <4>1, <3>1, <3>4, <1>2, <2>1
    <3>5. CASE i = r + 1
      <4>1. line[i] = line[r] + 1
        BY <3>2, <3>5, <1>2, <2>1, <2>3
      <4> QED
        BY <4>1, <3>1, <3>5, <1>2, <2>1
    <3> QED
      BY <2>1, <3>3, <3>4, <3>5
  <2> DEFINE cell == <<Bin(r), line[r]>>
  <2>5. RowsAt(cell) = {r}
    <3> SUFFICES ASSUME NEW j \in Rows, Bin(j) = Bin(r), line[j] = line[r], j # r
                 PROVE  FALSE
      BY <2>1 DEF RowsAt
    <3>1. j < r \/ r < j
      BY <1>2, <2>1
    <3>2. line[j] < line[r] \/ line[r] < line[j]
      BY <3>1, <1>1, <2>1 DEF LinesInv
    <3>3. line[j] \in Nat /\ line[r] \in Nat
      BY <1>1, <2>1 DEF LinesInv
    <3> QED
      BY <3>2, <3>3
  <2>6. Max({r}) = r
    BY <2>1, <1>2 DEF Max
  <2>7. cell \in DOMAIN witnesses /\ witnesses[cell] = Max(RowsAt(cell))
    BY <1>1, <2>1 DEF MovedWitnesses
  <2> QED
    BY <2>3, <2>4, <2>5, <2>6, <2>7
<1> QED
  BY <1>3, <1>4

(* In every component of every size, gates still read the witnesses they   *)
(* were written for after it has been stretched.                           *)
THEOREM GatesReadTheirRows == Spec => []WitnessesReachGates
<1>1. Init => IInv
  BY InitIInv
<1>2. IInv /\ [Next]_vars => IInv'
  BY NextIInv
<1>3. IInv => WitnessesReachGates
  BY IInvReaches
<1> QED
  BY <1>1, <1>2, <1>3, PTL DEF Spec

-----------------------------------------------------------------------------
(* Huang_lu, for every list of tasks and every number of agents.           *)

Sum(f, S) == SumFunctionOnSet(f, S)

Agent == 0..(Agents - 1)

(* What the variables are; the search that is idle has no tasks yet.       *)
SizesInv ==
    /\ size \in Seq(Nat \ {0})
    /\ stage \in {"idle", "search", "share"}
    /\ stage = "idle" => size = <<>> /\ left = 0 /\ right = 0 /\ best = NoTasks /\ assignment = NoTasks
    /\ left \in Nat /\ right \in Nat
    /\ agent \in Agent /\ load \in Nat /\ cursor \in Nat
    /\ remaining \subseteq Tasks
    /\ DOMAIN assignment \subseteq Tasks

(* As long as nothing has been found the upper end is that of the start,   *)
(* and the interval is open: it cannot close without a round that fits.    *)
IntervalInv ==
    /\ left <= right
    /\ stage = "share" => left < right
    /\ IF best = NoTasks
       THEN right = 2 * LowerBound(size) /\ (Tasks # {} => left < right)
       ELSE DOMAIN best = Tasks /\ Tasks # {} /\ \A i \in Agent : LoadOf(best, i) <= right

(* The tasks that were given out in this round, and those of one agent;    *)
(* assignment still names agents of earlier rounds for the remaining ones. *)
Given == Tasks \ remaining
GivenTo(i) == {t \in Given : assignment[t] = i}

(* What an agent passed on does not fit any more, and at a high threshold  *)
(* every agent before this one took at least the lower bound.              *)
RoundInv ==
    /\ Given \subseteq DOMAIN assignment
    /\ \A t \in Given : assignment[t] \in 0..agent
    /\ \A i \in Agent : Sum(size, GivenTo(i)) <= threshold
    /\ Sum(size, GivenTo(agent)) = load
    /\ \A t \in remaining : t <= cursor => load + size[t] > threshold
    /\ threshold >= 2 * LowerBound(size) - 1 /\ remaining # {} =>
          Sum(size, Given) >= agent * LowerBound(size) + load

SearchInv == SizesInv /\ IntervalInv /\ (stage = "share" => RoundInv)

(* What the sizes are, and the sums over them.                             *)
LEMMA SizeFacts ==
    ASSUME size \in Seq(Nat \ {0})
    PROVE  /\ Tasks \subseteq Nat \ {0} /\ IsFiniteSet(Tasks)
           /\ \A t \in Tasks : size[t] \in Nat \ {0}
           /\ \A T \in SUBSET Tasks : IsFiniteSet(T) /\ Sum(size, T) \in Nat
<1>1. /\ Tasks = 1..Len(size) /\ Len(size) \in Nat
      /\ \A t \in Tasks : size[t] \in Nat \ {0}
  BY DEF Tasks
<1>2. IsFiniteSet(Tasks) /\ Tasks \subseteq Nat \ {0}
  <2>1. IsFiniteSet(1..Len(size))
    BY <1>1, FS_Interval
  <2> QED
    BY <1>1, <2>1
<1>3. ASSUME NEW T \in SUBSET Tasks
      PROVE  IsFiniteSet(T) /\ Sum(size, T) \in Nat
  <2>1. IsFiniteSet(T)
    BY <1>2, FS_Subset
  <2>2. \A t \in T : size[t] \in Nat
    BY <1>1
  <2> QED
    BY <2>1, <2>2, SumIsNatural DEF Sum
<1> QED
  BY <1>1, <1>2, <1>3

(* The average is rounded up.                                              *)
LEMMA RoundedUp ==
    ASSUME NEW n \in Nat
    PROVE  /\ (n + Agents - 1) \div Agents \in Nat
           /\ n <= Agents * ((n + Agents - 1) \div Agents)
           /\ n = 0 => (n + Agents - 1) \div Agents = 0
<1> DEFINE x == n + Agents - 1
<1>1. Agents \in Nat \ {0} /\ x \in Int
  BY AgentsAssumption
<1>2. PICK q \in Int, r \in 0..(Agents - 1) : x = Agents * q + r /\ x \div Agents = q
  BY <1>1, Divided
<1>3. PICK p \in Int : p = Agents * q
  BY <1>1
<1>4. n <= p /\ (n = 0 => p <= 0) /\ p > -Agents
  BY <1>1, <1>2, <1>3
<1>5. q >= 0
  BY <1>1, <1>3, <1>4
<1>6. n = 0 => q = 0
  BY <1>1, <1>3, <1>4, <1>5
<1> QED
  BY <1>2, <1>3, <1>4, <1>5, <1>6

LEMMA LowerBoundFacts ==
    ASSUME size \in Seq(Nat \ {0})
    PROVE  /\ LowerBound(size) \in Nat
           /\ \A t \in Tasks : size[t] <= LowerBound(size)
           /\ Sum(size, Tasks) <= Agents * LowerBound(size)
           /\ Tasks = {} => LowerBound(size) = 0
           /\ Tasks # {} => LowerBound(size) > 0
<1> DEFINE total == Sum(size, Tasks)
           share == (total + Agents - 1) \div Agents
           S == {share} \cup Range(size) \cup {0}
<1>1. total \in Nat
  BY SizeFacts
<1>2. SumFunction(size) = total
  BY DEF SumFunction, Sum, Tasks
<1> HIDE DEF total
<1>3. share \in Nat /\ total <= Agents * share /\ (total = 0 => share = 0)
  BY <1>1, RoundedUp
<1>4. LowerBound(size) = Max(S)
  BY <1>2 DEF LowerBound
<1> HIDE DEF share
<1>5. Range(size) = {size[t] : t \in Tasks}
  BY DEF Range, Tasks
<1>6. IsFiniteSet(Range(size)) /\ Range(size) \subseteq Nat
  BY <1>5, SizeFacts, ImageIsNoLarger
<1>7. IsFiniteSet(S) /\ S \in SUBSET Nat /\ S # {}
  <2>1. IsFiniteSet({share}) /\ IsFiniteSet({0})
    BY FS_Singleton
  <2>2. IsFiniteSet({share} \cup Range(size))
    BY <1>6, <2>1, FS_Union
  <2>3. IsFiniteSet(S)
    BY <2>1, <2>2, FS_Union
  <2> QED
    BY <1>3, <1>6, <2>3
<1>8. Max(S) \in S /\ \A n \in S : n <= Max(S)
  BY <1>7, MaxIsGreatest
<1> DEFINE m == Max(S)
<1>9. /\ m \in Nat /\ share <= m
      /\ \A t \in Tasks : size[t] \in Nat /\ size[t] > 0 /\ size[t] <= m
  <2>1. m \in S /\ \A n \in S : n <= m
    BY <1>8
  <2>2. m \in Nat
    BY <1>7, <1>8
  <2> HIDE DEF m
  <2>3. share <= m
    BY <2>1
  <2>4. ASSUME NEW t \in Tasks
        PROVE  size[t] \in Nat /\ size[t] > 0 /\ size[t] <= m
    <3>1. size[t] \in Range(size)
      BY <1>5
    <3> QED
      BY <2>1, <3>1, SizeFacts
  <2> QED
    BY <2>2, <2>3, <2>4
<1>10. total <= Agents * m
  <2>1. Agents \in Nat
    BY AgentsAssumption
  <2> HIDE DEF m
  <2>2. Agents * share <= Agents * m
    BY <1>3, <1>9, <2>1
  <2> QED
    BY <1>1, <1>3, <1>9, <2>1, <2>2
<1>11. ASSUME Tasks = {}
       PROVE  m = 0
  <2>1. total = 0
    BY <1>11, SumOfNone DEF total, Sum
  <2>2. S = {0}
    BY <1>3, <1>5, <1>11, <2>1
  <2> QED
    BY <1>8, <2>2
<1>12. ASSUME Tasks # {}
       PROVE  m > 0
  <2> HIDE DEF m
  <2>1. PICK t \in Tasks : size[t] \in Nat /\ size[t] > 0 /\ size[t] <= m
    BY <1>9, <1>12
  <2> QED
    BY <1>9, <2>1
<1> QED
  BY <1>4, <1>9, <1>10, <1>11, <1>12 DEF total

LEMMA ThresholdIsBetween ==
    ASSUME left \in Nat, right \in Nat, left < right
    PROVE  threshold \in Nat /\ left <= threshold /\ threshold < right
<1> DEFINE d == right - left
<1>1. d \in Int /\ d > 0
  OBVIOUS
<1>2. PICK q \in Int, r \in 0..(2 - 1) : d = 2 * q + r /\ d \div 2 = q
  BY <1>1, Divided
<1> QED
  BY <1>1, <1>2 DEF threshold

LEMMA SearchBegins == SearchInit => SearchInv
<1> SUFFICES ASSUME SearchInit PROVE SearchInv
  OBVIOUS
<1>1. size = <<>> /\ size \in Seq(Nat \ {0}) /\ Tasks = {}
  BY DEF SearchInit, Tasks
<1>2. LowerBound(size) = 0
  BY <1>1, LowerBoundFacts
<1>3. SizesInv
  BY <1>1, AgentsAssumption DEF SearchInit, SizesInv, NoTasks, Agent
<1>4. IntervalInv
  BY <1>1, <1>2 DEF SearchInit, IntervalInv
<1> QED
  BY <1>3, <1>4 DEF SearchInv, SearchInit

LEMMA BeginKeeps ==
    ASSUME SearchInv, NEW s \in SizeLists, Begin(s)
    PROVE  SearchInv'
<1> USE DEF SearchInv, SizesInv
<1>1. /\ stage = "idle" /\ stage' = "search" /\ size' = s /\ s \in Seq(Nat \ {0})
      /\ left' = LowerBound(s) /\ right' = 2 * LowerBound(s)
      /\ UNCHANGED <<best, agent, load, cursor, remaining, assignment>>
  BY DEF Begin, round, SizeLists
<1>2. (size \in Seq(Nat \ {0}))'
  BY <1>1
<1>3. /\ LowerBound(s) \in Nat
      /\ Tasks' = {} => LowerBound(s) = 0
      /\ Tasks' # {} => LowerBound(s) > 0
  <2>1. (/\ LowerBound(size) \in Nat
         /\ Tasks = {} => LowerBound(size) = 0
         /\ Tasks # {} => LowerBound(size) > 0)'
    BY <1>2, LowerBoundFacts, PTL
  <2> QED
    BY <1>1, <2>1
<1>4. best' = NoTasks /\ DOMAIN assignment' = {} /\ remaining' = {}
  BY <1>1 DEF NoTasks, Tasks
<1>5. SizesInv'
  BY <1>1, <1>2, <1>3, <1>4
<1>6. IntervalInv'
  BY <1>1, <1>3, <1>4 DEF IntervalInv, NoTasks
<1> QED
  BY <1>1, <1>5, <1>6

(* An agent is given what fits, and everything it passed on fits no more.  *)
LEMMA StartRoundKeeps ==
    ASSUME SearchInv, StartRound
    PROVE  SearchInv'
<1> USE DEF SearchInv, SizesInv
<1>1. /\ stage = "search" /\ left < right /\ stage' = "share"
      /\ agent' = 0 /\ load' = 0 /\ cursor' = 0 /\ remaining' = Tasks
      /\ UNCHANGED <<size, left, right, best, assignment>>
  BY DEF StartRound, Searching, FirstAgent, interval
<1>2. 0 \in Agent /\ Agents \in Nat
  BY AgentsAssumption DEF Agent
<1>3. SizesInv'
  BY <1>1, <1>2 DEF Tasks
<1>4. IntervalInv'
  BY <1>1 DEF IntervalInv, Tasks, LoadOf
<1>5. Given' = {} /\ \A i : GivenTo(i)' = {}
  BY <1>1 DEF Given, GivenTo, Tasks
<1>6. Sum(size', {}) = 0
  BY SumOfNone DEF Sum
<1>7. threshold' \in Nat /\ threshold' = threshold
  BY <1>1, ThresholdIsBetween DEF threshold
<1>8. LowerBound(size)' \in Nat
  BY <1>1, LowerBoundFacts
<1>9. \A t \in Tasks : t > 0
  BY SizeFacts
<1>10. RoundInv'
  <2>1. (\A i \in Agent : Sum(size, GivenTo(i)) <= threshold)'
    <3> SUFFICES ASSUME NEW i \in Agent
                 PROVE  Sum(size', GivenTo(i)') <= threshold'
      BY DEF Agent
    <3>1. Sum(size', GivenTo(i)') = 0
      BY <1>5, <1>6
    <3> QED
      BY <1>7, <3>1
  <2>2. (Sum(size, GivenTo(agent)) = load)'
    BY <1>1, <1>5, <1>6
  <2>3. (\A t \in remaining : t <= cursor => load + size[t] > threshold)'
    BY <1>1, <1>9 DEF Tasks
  <2>4. (Sum(size, Given) >= agent * LowerBound(size) + load)'
    <3>1. PICK b \in Nat : b = LowerBound(size)'
      BY <1>8
    <3>2. 0 >= 0 * b + 0
      OBVIOUS
    <3> QED
      BY <1>1, <1>5, <1>6, <3>1, <3>2
  <2> QED
    BY <1>5, <2>1, <2>2, <2>3, <2>4 DEF RoundInv
<1> QED
  BY <1>3, <1>4, <1>10

LEMMA GivenFacts ==
    ASSUME SizesInv
    PROVE  /\ IsFiniteSet(Given) /\ Sum(size, Given) \in Nat /\ \A t \in Given : size[t] \in Int
           /\ \A i : /\ IsFiniteSet(GivenTo(i)) /\ Sum(size, GivenTo(i)) \in Nat
                     /\ \A t \in GivenTo(i) : size[t] \in Int
<1>1. Given \subseteq Tasks /\ \A i : GivenTo(i) \subseteq Tasks
  BY DEF Given, GivenTo
<1> QED
  BY <1>1, SizeFacts DEF SizesInv

LEMMA OfferKeeps ==
    ASSUME SearchInv, Offer
    PROVE  SearchInv'
<1> USE DEF SearchInv, SizesInv
<1> DEFINE u == Min(Ahead)
<1>1. /\ stage = "share" /\ Ahead # {} /\ cursor' = u
      /\ UNCHANGED <<stage, size, left, right, best, agent>>
  BY DEF Offer, interval
<1>2. Ahead \in SUBSET Nat
  BY SizeFacts DEF Ahead
<1>3. u \in Ahead /\ \A t \in Ahead : u <= t
  BY <1>1, <1>2, MinIsLeast
<1>4. u \in remaining /\ u \in Tasks /\ u \in Nat /\ size[u] \in Nat
  BY <1>2, <1>3, SizeFacts DEF Ahead
<1>5. ASSUME NEW t \in remaining, t <= u, t # u
      PROVE  t <= cursor
  <2>1. t \in Nat
    BY <1>5, SizeFacts
  <2> QED
    BY <1>3, <1>4, <1>5, <2>1 DEF Ahead
<1>6. RoundInv
  BY <1>1
<1>7. /\ threshold' = threshold /\ threshold \in Nat /\ LowerBound(size)' = LowerBound(size)
      /\ LowerBound(size) \in Nat /\ Agents \in Nat /\ agent \in Nat
  BY <1>1, ThresholdIsBetween, LowerBoundFacts, AgentsAssumption
     DEF threshold, IntervalInv, LowerBound, Agent
<1>8. IntervalInv'
  BY <1>1, <1>7 DEF IntervalInv, Tasks, LoadOf
<1> HIDE DEF u
<1>9. CASE load + size[u] <= threshold
  <2>1. /\ load' = load + size[u]
        /\ remaining' = remaining \ {u}
        /\ assignment' = [t \in DOMAIN assignment \cup {u} |->
                             IF t = u THEN agent ELSE assignment[t]]
    BY <1>9 DEF Offer, u
  <2>2. SizesInv'
    BY <1>1, <1>4, <2>1 DEF Tasks
  <2>3. u \notin Given /\ Given' = Given \cup {u}
    BY <1>1, <1>4, <2>1 DEF Given, Tasks
  <2>4. Given \subseteq DOMAIN assignment /\ \A t \in Given : assignment'[t] = assignment[t]
    BY <1>6, <2>1, <2>3 DEF RoundInv
  <2>5. assignment'[u] = agent
    BY <2>1
  <2>6. GivenTo(agent)' = GivenTo(agent) \cup {u}
    BY <1>1, <2>3, <2>4, <2>5 DEF GivenTo
  <2>7. ASSUME NEW i \in Agent, i # agent
        PROVE  GivenTo(i)' = GivenTo(i)
    BY <2>3, <2>4, <2>5, <2>7 DEF GivenTo
  <2>8. u \notin GivenTo(agent)
    BY <2>3 DEF GivenTo
  <2>9. /\ Sum(size, GivenTo(agent) \cup {u}) = Sum(size, GivenTo(agent)) + size[u]
        /\ Sum(size, Given \cup {u}) = Sum(size, Given) + size[u]
    BY <1>4, <2>3, <2>8, GivenFacts, SumAdd DEF Sum
  <2>10. (Sum(size, GivenTo(agent)) = load)'
    BY <1>1, <1>6, <2>1, <2>6, <2>9 DEF RoundInv
  <2>11. (\A i \in Agent : Sum(size, GivenTo(i)) <= threshold)'
    <3> SUFFICES ASSUME NEW i \in Agent
                 PROVE  Sum(size', GivenTo(i)') <= threshold'
      BY DEF Agent
    <3>1. CASE i = agent
      <4>1. load' <= threshold'
        BY <1>7, <1>9, <2>1
      <4> QED
        BY <1>1, <2>10, <3>1, <4>1
    <3>2. CASE i # agent
      BY <1>1, <1>6, <1>7, <2>7, <3>2 DEF RoundInv
    <3> QED
      BY <3>1, <3>2
  <2>12. (\A t \in remaining : t <= cursor => load + size[t] > threshold)'
    <3> SUFFICES ASSUME NEW t \in remaining', t <= u
                 PROVE  load' + size[t] > threshold
      BY <1>1, <1>7 DEF u
    <3>1. t \in remaining /\ t # u /\ size[t] \in Nat
      BY <2>1, SizeFacts
    <3>2. load + size[t] > threshold
      BY <1>5, <1>6, <3>1 DEF RoundInv
    <3>3. load \in Nat /\ size[u] \in Nat /\ size[t] \in Nat /\ threshold \in Nat
      BY <1>4, <1>7, <3>1
    <3>4. load + size[u] + size[t] > threshold
      BY <3>2, <3>3
    <3> QED
      BY <2>1, <3>4
  <2>13. (threshold >= 2 * LowerBound(size) - 1 /\ remaining # {} =>
             Sum(size, Given) >= agent * LowerBound(size) + load)'
    <3> SUFFICES ASSUME threshold >= 2 * LowerBound(size) - 1, remaining # {}
                 PROVE  Sum(size', Given') >= agent * LowerBound(size) + load'
      BY <1>1, <1>4, <1>7
    <3>1. PICK p \in Int : p = agent * LowerBound(size)
      BY <1>7
    <3>2. Sum(size, Given) >= p + load
      BY <1>6, <3>1 DEF RoundInv
    <3>3. Sum(size', Given') = Sum(size, Given) + size[u] /\ Sum(size, Given) \in Nat
      BY <1>1, <2>3, <2>9, GivenFacts
    <3> QED
      BY <1>4, <2>1, <3>1, <3>2, <3>3
  <2>14. (Given \subseteq DOMAIN assignment /\ \A t \in Given : assignment[t] \in 0..agent)'
    BY <1>1, <1>6, <1>7, <2>1, <2>3, <2>4, <2>5 DEF RoundInv
  <2>15. RoundInv'
    BY <2>10, <2>11, <2>12, <2>13, <2>14 DEF RoundInv
  <2> QED
    BY <1>8, <2>2, <2>15
<1>10. CASE ~(load + size[u] <= threshold)
  <2>1. UNCHANGED <<load, remaining, assignment>>
    BY <1>10 DEF Offer, u
  <2>2. SizesInv'
    BY <1>1, <1>4, <2>1 DEF Tasks, u
  <2>3. Given' = Given /\ \A i : GivenTo(i)' = GivenTo(i)
    BY <1>1, <2>1 DEF Given, GivenTo, Tasks
  <2>4. (\A t \in remaining : t <= cursor => load + size[t] > threshold)'
    <3> SUFFICES ASSUME NEW t \in remaining, t <= u
                 PROVE  load + size[t] > threshold
      BY <1>1, <1>7, <2>1 DEF u
    <3>1. CASE t = u
      BY <1>4, <1>7, <1>10, <3>1
    <3>2. CASE t # u
      BY <1>5, <1>6, <3>2 DEF RoundInv
    <3> QED
      BY <3>1, <3>2
  <2>5. RoundInv'
    BY <1>1, <1>6, <1>7, <2>1, <2>3, <2>4 DEF RoundInv, Agent
  <2> QED
    BY <1>8, <2>2, <2>5
<1> QED
  BY <1>9, <1>10

(* When an agent has had its turn and tasks are left, its load is at least *)
(* the lower bound, if the threshold is high.                              *)
LEMMA TurnFills ==
    ASSUME SizesInv, IntervalInv, RoundInv, stage = "share", Ahead = {}, remaining # {},
           threshold >= 2 * LowerBound(size) - 1
    PROVE  load >= LowerBound(size) /\ LowerBound(size) \in Nat /\ LowerBound(size) > 0
<1>1. PICK t \in remaining : t \in Tasks /\ t \in Nat /\ size[t] \in Nat
  BY SizeFacts DEF SizesInv
<1>2. t <= cursor
  BY <1>1 DEF Ahead, SizesInv
<1>3. load + size[t] > threshold
  BY <1>2 DEF RoundInv
<1>4. LowerBound(size) \in Nat /\ size[t] <= LowerBound(size) /\ LowerBound(size) > 0
  BY <1>1, LowerBoundFacts DEF SizesInv
<1>5. threshold \in Nat
  BY ThresholdIsBetween DEF SizesInv, IntervalInv
<1>6. load \in Nat
  BY DEF SizesInv
<1> QED
  BY <1>1, <1>3, <1>4, <1>5, <1>6

LEMMA NextAgentKeeps ==
    ASSUME SearchInv, NextAgent
    PROVE  SearchInv'
<1> USE DEF SearchInv, SizesInv
<1>1. /\ stage = "share" /\ Ahead = {} /\ load # 0 /\ agent + 1 # Agents
      /\ agent' = agent + 1 /\ load' = 0 /\ cursor' = 0
      /\ UNCHANGED <<stage, size, left, right, best, remaining, assignment>>
  BY DEF NextAgent, TurnsEnd, interval
<1>2. agent' \in Agent /\ agent \in Nat
  BY <1>1, AgentsAssumption DEF Agent
<1>3. SizesInv'
  BY <1>1, <1>2 DEF Tasks, Agent
<1>4. /\ threshold' = threshold /\ threshold \in Nat /\ LowerBound(size)' = LowerBound(size)
      /\ LowerBound(size) \in Nat
  BY <1>1, ThresholdIsBetween, LowerBoundFacts DEF threshold, IntervalInv, LowerBound
<1>5. IntervalInv'
  BY <1>1, <1>4 DEF IntervalInv, Tasks, LoadOf
<1>6. Given' = Given /\ \A i : GivenTo(i)' = GivenTo(i)
  BY <1>1 DEF Given, GivenTo, Tasks
<1>7. RoundInv
  BY <1>1
<1>8. GivenTo(agent + 1) = {}
  BY <1>2, <1>7 DEF RoundInv, GivenTo
<1>9. (Sum(size, GivenTo(agent)) = load)'
  BY <1>1, <1>8, SumOfNone DEF Sum, GivenTo, Given, Tasks
<1>10. (\A t \in remaining : t <= cursor => load + size[t] > threshold)'
  BY <1>1, SizeFacts
<1>11. (threshold >= 2 * LowerBound(size) - 1 /\ remaining # {} =>
           Sum(size, Given) >= agent * LowerBound(size) + load)'
  <2> SUFFICES ASSUME threshold >= 2 * LowerBound(size) - 1, remaining # {}
               PROVE  Sum(size, Given) >= (agent + 1) * LowerBound(size) + 0
    BY <1>1, <1>4, <1>6
  <2>1. load >= LowerBound(size) /\ load \in Nat
    BY <1>1, <1>7, TurnFills
  <2>2. PICK p \in Int : p = agent * LowerBound(size)
    BY <1>2, <1>4
  <2>3. Sum(size, Given) >= p + load /\ Sum(size, Given) \in Nat
    BY <1>7, <2>2, GivenFacts DEF RoundInv
  <2>4. (agent + 1) * LowerBound(size) = p + LowerBound(size)
    BY <1>2, <1>4, <2>2
  <2> QED
    BY <1>4, <2>1, <2>2, <2>3, <2>4
<1>12. (Given \subseteq DOMAIN assignment /\ \A t \in Given : assignment[t] \in 0..agent)'
  BY <1>1, <1>2, <1>6, <1>7 DEF RoundInv
<1>13. (\A i \in Agent : Sum(size, GivenTo(i)) <= threshold)'
  BY <1>1, <1>4, <1>6, <1>7 DEF RoundInv, Agent
<1>14. RoundInv'
  BY <1>9, <1>10, <1>11, <1>12, <1>13 DEF RoundInv
<1> QED
  BY <1>3, <1>5, <1>14

(* A round that leaves nothing over shares out every task; one that does   *)
(* leave something over did so below the threshold 2 * LowerBound - 1.     *)
LEMMA LeftOverIsTight ==
    ASSUME SearchInv, stage = "share", TurnsEnd, remaining # {}
    PROVE  threshold < 2 * LowerBound(size) - 1
<1> USE DEF SearchInv, SizesInv
<1>1. /\ threshold \in Nat /\ LowerBound(size) \in Nat /\ Agents \in Nat /\ agent \in Nat
      /\ load \in Nat
  BY ThresholdIsBetween, LowerBoundFacts, AgentsAssumption DEF IntervalInv, Agent
<1> SUFFICES ASSUME threshold >= 2 * LowerBound(size) - 1
             PROVE  FALSE
  BY <1>1
<1>2. load >= LowerBound(size) /\ LowerBound(size) > 0
  BY TurnFills DEF TurnsEnd
<1>3. agent + 1 = Agents
  BY <1>1, <1>2 DEF TurnsEnd
<1>4. PICK b \in Nat : b = LowerBound(size)
  BY <1>1
<1>5. PICK p \in Int : p = agent * b
  BY <1>1
<1>6. Agents * b = p + b
  BY <1>1, <1>3, <1>5
<1>7. Sum(size, Given) >= p + load /\ Sum(size, Given) \in Nat
  BY <1>4, <1>5, GivenFacts DEF RoundInv
<1>8. Sum(size, Tasks) <= p + b /\ Sum(size, Tasks) \in Nat
  BY <1>4, <1>6, LowerBoundFacts, SizeFacts
<1>9. Sum(size, Tasks) > Sum(size, Given)
  <2>1. PICK t \in remaining : t \in Tasks /\ size[t] \in Nat /\ size[t] > 0
    BY SizeFacts
  <2> DEFINE G == Tasks \ {t}
  <2>2. Sum(size, Tasks) = Sum(size, G) + size[t]
    <3>1. G \cup {t} = Tasks /\ t \notin G /\ G \in SUBSET Tasks
      BY <2>1
    <3>2. IsFiniteSet(G) /\ \A x \in G : size[x] \in Int
      BY <3>1, SizeFacts
    <3> HIDE DEF G
    <3>3. Sum(size, G \cup {t}) = Sum(size, G) + size[t]
      BY <2>1, <3>1, <3>2, SumAdd DEF Sum
    <3> QED
      BY <3>1, <3>3
  <2>3. Sum(size, Given) <= Sum(size, G) /\ Sum(size, G) \in Nat
    <3>1. Given \subseteq G /\ G \in SUBSET Tasks
      BY <2>1 DEF Given
    <3>2. IsFiniteSet(G) /\ (\A x \in G : size[x] \in Nat) /\ Sum(size, G) \in Nat
      BY <3>1, SizeFacts
    <3> HIDE DEF G
    <3> QED
      BY <3>1, <3>2, SumOfPart DEF Sum
  <2> HIDE DEF G
  <2> QED
    BY <1>7, <2>1, <2>2, <2>3
<1>10. b <= load
  BY <1>2, <1>4
<1> QED
  BY <1>1, <1>4, <1>7, <1>8, <1>9, <1>10

LEMMA EndRoundKeeps ==
    ASSUME SearchInv, EndRound
    PROVE  SearchInv'
<1> USE DEF SearchInv, SizesInv
<1>1. /\ stage = "share" /\ TurnsEnd /\ Narrow /\ stage' = "search"
      /\ UNCHANGED <<size, agent, load, cursor, remaining, assignment>>
  BY DEF EndRound
<1>2. /\ threshold \in Nat /\ left <= threshold /\ threshold < right
      /\ left \in Nat /\ right \in Nat /\ left < right
  BY <1>1, ThresholdIsBetween DEF IntervalInv
<1>3. LowerBound(size)' = LowerBound(size) /\ LowerBound(size) \in Nat
  BY <1>1, LowerBoundFacts DEF LowerBound
<1>4. CASE remaining = {}
  <2>1. right' = threshold /\ best' = assignment /\ left' = left
    BY <1>1, <1>4 DEF Narrow
  <2>2. Given = Tasks /\ DOMAIN assignment = Tasks
    BY <1>1, <1>4 DEF Given, RoundInv
  <2>3. ASSUME NEW i \in Agent
        PROVE  LoadOf(best, i)' <= right'
    <3>1. {t \in DOMAIN assignment : assignment[t] = i} = GivenTo(i)
      BY <2>2 DEF GivenTo
    <3>2. LoadOf(best, i)' = Sum(size, GivenTo(i))
      BY <1>1, <2>1, <3>1 DEF LoadOf, Sum
    <3> QED
      BY <1>1, <2>1, <3>2 DEF RoundInv
  <2>4. SizesInv'
    BY <1>1, <1>2, <2>1 DEF Tasks
  <2>5. best' = NoTasks => Tasks' = {}
    BY <1>1, <2>1, <2>2 DEF NoTasks, Tasks
  <2>6. Tasks # {} /\ Tasks' = Tasks
    <3>1. Tasks # {}
      BY <1>1, <1>2, LowerBoundFacts DEF IntervalInv
    <3>2. Tasks' = Tasks
      BY <1>1 DEF Tasks
    <3> QED
      BY <3>1, <3>2
  <2> QED
    BY <1>1, <1>2, <2>1, <2>2, <2>3, <2>4, <2>5, <2>6 DEF IntervalInv
<1>5. CASE remaining # {}
  <2>1. right' = right /\ best' = best /\ left' = threshold + 1
    BY <1>1, <1>5 DEF Narrow
  <2>2. SizesInv'
    BY <1>1, <1>2, <2>1 DEF Tasks
  <2>3. threshold < 2 * LowerBound(size) - 1
    BY <1>1, <1>5, LeftOverIsTight
  <2>4. \A i : LoadOf(best, i)' = LoadOf(best, i)
    BY <1>1, <2>1 DEF LoadOf
  <2>5. Tasks' = Tasks
    BY <1>1 DEF Tasks
  <2>6. IntervalInv'
    <3>1. left' <= right'
      BY <1>2, <2>1
    <3>2. CASE best = NoTasks
      <4>1. right' = 2 * LowerBound(size)' /\ left' < right'
        BY <1>2, <1>3, <2>1, <2>3, <3>2 DEF IntervalInv
      <4> QED
        BY <1>1, <2>1, <3>1, <3>2, <4>1 DEF IntervalInv
    <3>3. CASE best # NoTasks
      BY <1>1, <2>1, <2>4, <2>5, <3>1, <3>3 DEF IntervalInv, Agent
    <3> QED
      BY <3>2, <3>3
  <2> QED
    BY <1>1, <2>2, <2>6
<1> QED
  BY <1>4, <1>5

LEMMA SearchIsInductive == SearchInv /\ [(\E s \in SizeLists : Begin(s)) \/ SearchStep]_searchVars => SearchInv'
<1> SUFFICES ASSUME SearchInv, [(\E s \in SizeLists : Begin(s)) \/ SearchStep]_searchVars
             PROVE  SearchInv'
  OBVIOUS
<1>1. CASE \E s \in SizeLists : Begin(s)
  BY <1>1, BeginKeeps
<1>2. CASE StartRound
  BY <1>2, StartRoundKeeps
<1>3. CASE Offer
  BY <1>3, OfferKeeps
<1>4. CASE NextAgent
  BY <1>4, NextAgentKeeps
<1>5. CASE EndRound
  BY <1>5, EndRoundKeeps
<1>6. CASE UNCHANGED searchVars
  BY <1>6 DEF searchVars, interval, round, SearchInv, SizesInv, IntervalInv, RoundInv, Given,
              GivenTo, Tasks, LoadOf, LowerBound, threshold
<1> QED
  BY <1>1, <1>2, <1>3, <1>4, <1>5, <1>6 DEF SearchStep

LEMMA SearchInvMeans == SearchInv => IntervalMeans /\ EveryTaskAssigned
<1> SUFFICES ASSUME SearchInv
             PROVE  IntervalMeans /\ EveryTaskAssigned
  OBVIOUS
<1> USE DEF SearchInv, SizesInv
<1>1. ASSUME best # NoTasks
      PROVE  LargestLoad(best) <= right
  <2> DEFINE L == {LoadOf(best, i) : i \in Agent}
  <2>1. DOMAIN best = Tasks /\ \A i \in Agent : LoadOf(best, i) <= right
    BY <1>1 DEF IntervalInv
  <2>2. ASSUME NEW i \in Agent
        PROVE  LoadOf(best, i) \in Nat
    <3>1. {t \in DOMAIN best : best[t] = i} \in SUBSET Tasks
      BY <2>1
    <3> QED
      BY <3>1, SizeFacts DEF LoadOf, Sum
  <2>3. IsFiniteSet(Agent) /\ 0 \in Agent
    <3>1. 0 \in Nat /\ Agents - 1 \in Int
      BY AgentsAssumption
    <3>2. IsFiniteSet(0..(Agents - 1))
      BY <3>1, FS_Interval
    <3> QED
      BY <3>2, AgentsAssumption DEF Agent
  <2>4. IsFiniteSet(L) /\ L # {} /\ L \in SUBSET Nat
    <3> DEFINE f == [i \in Agent |-> LoadOf(best, i)]
    <3>1. L = {f[i] : i \in Agent}
      OBVIOUS
    <3> HIDE DEF f
    <3>2. IsFiniteSet(L)
      BY <2>3, <3>1, ImageIsNoLarger
    <3> QED
      BY <2>2, <2>3, <3>2
  <2>5. \A n \in L : n <= right
    BY <2>1
  <2>6. LargestLoad(best) = Max(L)
    BY DEF LargestLoad, Agent
  <2> HIDE DEF L
  <2> QED
    BY <2>4, <2>5, <2>6, MaxIsGreatest
<1>2. IntervalMeans
  BY <1>1 DEF IntervalInv, IntervalMeans
<1>3. EveryTaskAssigned
  <2> SUFFICES ASSUME Returned, best = NoTasks
               PROVE  DOMAIN best = Tasks
    BY DEF IntervalInv, EveryTaskAssigned
  <2>1. Tasks = {}
    BY DEF Returned, Searching, IntervalInv
  <2> QED
    BY <2>1 DEF NoTasks
<1> QED
  BY <1>2, <1>3

(* For every list of tasks and every number of agents, the interval of the *)
(* search means what it is searched for: an answer under its upper end.    *)
THEOREM IntervalKeepsMeaning == AnySearch => []IntervalMeans
<1>1. SearchInit => SearchInv
  BY SearchBegins
<1>2. SearchInv /\ [(\E s \in SizeLists : Begin(s)) \/ SearchStep]_searchVars => SearchInv'
  BY SearchIsInductive
<1>3. SearchInv => IntervalMeans
  BY SearchInvMeans
<1> QED
  BY <1>1, <1>2, <1>3, PTL DEF AnySearch

(* For every list of tasks and every number of agents, what huang_lu       *)
(* returns gives every task an agent.                                      *)
THEOREM EveryTaskHasAnAgent == AnySearch => []EveryTaskAssigned
<1>1. SearchInit => SearchInv
  BY SearchBegins
<1>2. SearchInv /\ [(\E s \in SizeLists : Begin(s)) \/ SearchStep]_searchVars => SearchInv'
  BY SearchIsInductive
<1>3. SearchInv => EveryTaskAssigned
  BY SearchInvMeans
<1> QED
  BY <1>1, <1>2, <1>3, PTL DEF AnySearch

-----------------------------------------------------------------------------
(* The search that the stretcher runs is one of those of huang_lu: every   *)
(* zone has a row, so that no task is empty.                               *)

LEMMA RowsAreFinite ==
    ASSUME NEW S \in SUBSET Rows
    PROVE  IsFiniteSet(S) /\ Cardinality(S) \in Nat
<1>1. IsFiniteSet(Rows)
  BY FS_Interval, RowsAssumption DEF Rows
<1> QED
  BY <1>1, FS_Subset, FS_CardinalityType

LEMMA PackedZonesHaveRows ==
    ASSUME ZonesInv, NEW list \in {f \in [1..Cardinality(Zones) -> Zones] : Range(f) = Zones},
           Sorted([k \in DOMAIN list |-> Cardinality(RowsOf(list[k]))])
    PROVE  [k \in DOMAIN list |-> Cardinality(RowsOf(list[k]))] \in SizeLists
<1> DEFINE n == Cardinality(Zones)
           zone == [i \in Rows |-> zoneOf[i]]
           sizes == [k \in DOMAIN list |-> Cardinality(RowsOf(list[k]))]
<1>1. n \in Nat
  <2>1. Zones = {zone[i] : i \in Rows}
    BY DEF Zones
  <2>2. IsFiniteSet(Rows)
    BY RowsAreFinite
  <2> HIDE DEF zone
  <2> QED
    BY <2>1, <2>2, ImageIsNoLarger, FS_CardinalityType
<1>2. DOMAIN list = 1..n
  OBVIOUS
<1>3. ASSUME NEW k \in 1..n
      PROVE  Cardinality(RowsOf(list[k])) \in Nat \ {0}
  <2>1. PICK i \in Rows : list[k] = zoneOf[i]
    BY DEF Zones
  <2>2. i \in RowsOf(list[k]) /\ RowsOf(list[k]) \in SUBSET Rows
    <3>1. i \in Nodes
      BY RowsAssumption DEF Rows, Nodes
    <3>2. i \in zoneOf[i]
      BY <3>1 DEF ZonesInv, Partition
    <3> QED
      BY <2>1, <3>2 DEF RowsOf
  <2>3. IsFiniteSet(RowsOf(list[k])) /\ Cardinality(RowsOf(list[k])) \in Nat
    BY <2>2, RowsAreFinite
  <2> QED
    BY <2>2, <2>3, FS_EmptySet
<1>4. sizes \in [1..n -> Nat \ {0}]
  BY <1>2, <1>3
<1>5. sizes \in Seq(Nat \ {0})
  BY <1>1, <1>4
<1> QED
  BY <1>5 DEF SizeLists

(* Every stretching hands its zones to a search as huang_lu promises it:   *)
(* the theorems above are about what zone_mapping is computed from.        *)
THEOREM StretcherSearches == Spec => AnySearch
<1>1. Init => IInv
  BY InitIInv
<1>2. IInv /\ [Next]_vars => IInv'
  BY NextIInv
<1>3. Init => SearchInit
  BY DEF Init
<1>4. IInv /\ [Next]_vars => [(\E s \in SizeLists : Begin(s)) \/ SearchStep]_searchVars
  <2> SUFFICES ASSUME IInv, [Next]_vars
               PROVE  (\E s \in SizeLists : Begin(s)) \/ SearchStep \/ UNCHANGED searchVars
    OBVIOUS
  <2>1. CASE Pack
    <3>1. PICK list \in {f \in [1..Cardinality(Zones) -> Zones] : Range(f) = Zones} :
             /\ Sorted([k \in DOMAIN list |-> Cardinality(RowsOf(list[k]))])
             /\ Begin([k \in DOMAIN list |-> Cardinality(RowsOf(list[k]))])
      BY <2>1 DEF Pack
    <3> QED
      BY <3>1, PackedZonesHaveRows DEF IInv
  <2>2. CASE Search
    BY <2>2 DEF Search
  <2>3. CASE Scan \/ ScanNextRow \/ StartPlacing \/ Place \/ StartClaiming \/ Claim
             \/ FinishRemapping \/ MoveCircuit \/ MoveAssignment \/ UNCHANGED vars
    BY <2>3 DEF Scan, ScanNextRow, StartPlacing, Place, StartClaiming, Claim, FinishRemapping,
                MoveCircuit, MoveAssignment, vars, packing
  <2> QED
    BY <2>1, <2>2, <2>3 DEF Next
<1> QED
  BY <1>1, <1>2, <1>3, <1>4, PTL DEF Spec, AnySearch

-----------------------------------------------------------------------------
(* Constants.  Those that gates read, and what a component must keep to:   *)
(* lines for all constants, with one to spare; no copy constraint on a     *)
(* constant that a gate reads; and the constant of another row is read by  *)
(* gates that read the constant of their own row too, or a witness there.  *)

ConstantReads(s) ==
    {r \in Rows : \E g \in Gates : \E i \in s.enabled[g] : \E d \in s.constant[g] : r = i + d}

RoomForConstants ==
    \A s \in Shapes : Cardinality(ConstantReads(s)) + Cardinality(s.copied) <= RowsAmount + 1

GatesOwnTheirConstants == \A s \in Shapes : ConstantReads(s) \cap s.copied = {}

ConstantsAreTied ==
    \A s \in Shapes : \A g \in Gates : \A d \in s.constant[g] :
        d = 0 \/ 0 \in s.constant[g] \/ d \in s.witness[g]

(* Constant_priority: the rows of the constants that scanned gates read,   *)
(* all in the zone of the constant column.                                 *)
PriorityInv ==
    /\ priority \subseteq ConstantReads(shape)
    /\ \A g \in Gates : \A i \in shape.enabled[g] :
        Scanned(i, g) => ConstantRows(i, g) \subseteq priority
    /\ \A i \in priority : zoneOf[i] = zoneOf[ConstantZone]

(* Lines are taken by constants of gates and by remapped ones, no two of   *)
(* the latter share one, and none of them has the line of a gate's.        *)
ClaimsInv ==
    /\ DOMAIN remap \subseteq shape.copied
    /\ taken = {line[i] : i \in priority \cap DOMAIN line} \cup {remap[j] : j \in DOMAIN remap}
    /\ \A i, j \in DOMAIN remap : remap[i] = remap[j] => i = j
    /\ \A i \in priority \cap DOMAIN line : \A j \in DOMAIN remap : line[i] # remap[j]
    /\ phase \notin {"claim", "ready"} => DOMAIN remap = {}
    /\ phase = "ready" => shape.copied \subseteq DOMAIN remap
    /\ "circuit" \in moved => constants = MovedConstants

(* The line that find_first_unassigned_const returns is free.              *)
LEMMA FreeLineIsFound ==
    ASSUME IsFiniteSet(taken), Cardinality(taken) <= RowsAmount
    PROVE  FirstUnassignedConst \notin taken
<1>1. Cardinality(taken) \in Nat
  BY FS_CardinalityType
<1>2. Cardinality(0..RowsAmount) = RowsAmount + 1
  BY FS_Interval, RowsAssumption
<1>3. (0..RowsAmount) \ taken # {}
  <2> SUFFICES ASSUME 0..RowsAmount \subseteq taken PROVE FALSE
    OBVIOUS
  <2>1. Cardinality(0..RowsAmount) <= Cardinality(taken)
    BY FS_Subset
  <2> QED
    BY <1>1, <1>2, <2>1, RowsAssumption
<1>4. (0..RowsAmount) \ taken \in SUBSET Nat
  OBVIOUS
<1> QED
  BY <1>3, <1>4, MinIsLeast DEF FirstUnassignedConst

LEMMA CopiedAreRows ==
    ASSUME shape \in Shapes
    PROVE  shape.copied \subseteq Rows
  BY ShapesAssumption DEF AllShapes

(* One more constant of a copy constraint finds a line.                    *)
LEMMA ClaimedIsFree ==
    ASSUME RoomForConstants, ZonesInv, PriorityInv, ClaimsInv,
           NEW i \in shape.copied \ DOMAIN remap
    PROVE  ClaimedLine(i) \notin taken
<1> DEFINE fixed == priority \cap DOMAIN line
           A == {line[k] : k \in fixed}
           C == {remap[k] : k \in DOMAIN remap}
<1>1. /\ shape \in Shapes /\ shape.copied \subseteq Rows
      /\ ConstantReads(shape) \subseteq Rows
  BY CopiedAreRows DEF ZonesInv, ConstantReads
<1>2. /\ IsFiniteSet(fixed) /\ IsFiniteSet(DOMAIN remap)
      /\ IsFiniteSet(shape.copied) /\ IsFiniteSet(ConstantReads(shape))
  BY <1>1, RowsAreFinite DEF PriorityInv, ClaimsInv
<1>3. Cardinality(fixed) <= Cardinality(ConstantReads(shape))
  BY <1>2, FS_Subset DEF PriorityInv
<1>4. Cardinality(DOMAIN remap) <= Cardinality(shape.copied) - 1
  <2>1. Cardinality(shape.copied \ {i}) = Cardinality(shape.copied) - 1
    BY <1>2, FS_RemoveElement
  <2>2. DOMAIN remap \subseteq shape.copied \ {i} /\ IsFiniteSet(shape.copied \ {i})
    BY <1>2, FS_Subset DEF ClaimsInv
  <2> QED
    BY <2>1, <2>2, FS_Subset
<1>5. /\ IsFiniteSet(A) /\ Cardinality(A) <= Cardinality(fixed)
      /\ IsFiniteSet(C) /\ Cardinality(C) <= Cardinality(DOMAIN remap)
  BY <1>2, ImageIsNoLarger
<1>6. taken = A \cup C
  BY DEF ClaimsInv
<1> HIDE DEF A, C, fixed
<1>7. /\ IsFiniteSet(taken)
      /\ Cardinality(taken) = Cardinality(A) + Cardinality(C) - Cardinality(A \cap C)
      /\ IsFiniteSet(A \cap C)
  BY <1>5, <1>6, FS_Union, FS_Intersection
<1>8. /\ Cardinality(taken) \in Nat /\ Cardinality(A) \in Nat /\ Cardinality(C) \in Nat
      /\ Cardinality(A \cap C) \in Nat /\ Cardinality(fixed) \in Nat
      /\ Cardinality(DOMAIN remap) \in Nat /\ Cardinality(shape.copied) \in Nat
      /\ Cardinality(ConstantReads(shape)) \in Nat
  BY <1>2, <1>5, <1>7, FS_CardinalityType
<1>9. Cardinality(ConstantReads(shape)) + Cardinality(shape.copied) <= RowsAmount + 1
  BY <1>1 DEF RoomForConstants
<1>10. Cardinality(taken) <= RowsAmount
  BY <1>3, <1>4, <1>5, <1>7, <1>8, <1>9, RowsAssumption
<1> QED
  BY <1>7, <1>10, FreeLineIsFound DEF ClaimedLine

LEMMA InitConstants == Init => PriorityInv /\ ClaimsInv
<1> SUFFICES ASSUME Init PROVE PriorityInv /\ ClaimsInv
  OBVIOUS
<1>1. \A g \in Gates : \A i \in shape.enabled[g] : ~Scanned(i, g)
  BY ShapeFacts, RowsAssumption DEF Init, Scanned, Rows, Gates
<1> QED
  BY <1>1 DEF Init, PriorityInv, ClaimsInv, Empty

LEMMA ScanKeepsPriority ==
    ASSUME IInv, PriorityInv, Scan
    PROVE  PriorityInv'
<1> USE DEF IInv, ZonesInv, PriorityInv
<1>0. /\ phase = "scan" /\ row \in Rows /\ gate \in Gates
      /\ row' = row /\ phase' = phase /\ gate' = gate + 1 /\ shape' = shape
  BY DEF Scan
<1>1. \A g, i : ConstantRows(i, g)' = ConstantRows(i, g)
  BY <1>0 DEF ConstantRows
<1>2. ConstantReads(shape)' = ConstantReads(shape)
  BY <1>0
<1>3. ASSUME NEW g \in Gates, NEW i \in shape.enabled[g], Scanned(i, g)'
      PROVE  Scanned(i, g) \/ (i = row /\ g = gate)
  BY <1>0, <1>3, ShapeFacts, RowsAssumption DEF Scanned, Gates, Rows
<1>4. CASE row \in shape.enabled[gate]
  <2> DEFINE p == Join(zoneOf, WitnessBlock(row, gate))
             q == Join(p, ConstantBlock(row, gate))
  <2>1. zoneOf' = q /\ priority' = priority \cup ConstantRows(row, gate)
    BY <1>0, <1>4 DEF Scan
  <2>2. /\ WitnessBlock(row, gate) \subseteq Nodes
        /\ ConstantBlock(row, gate) \subseteq Nodes
    BY <1>0, <1>4, BlocksAreNodes
  <2>3. Partition(p) /\ \A x, y \in Nodes : zoneOf[x] = zoneOf[y] => p[x] = p[y]
    BY <2>2, JoinTies
  <2> HIDE DEF p
  <2>4. /\ \A x, y \in Nodes : p[x] = p[y] => q[x] = q[y]
        /\ \A x, y \in ConstantBlock(row, gate) : q[x] = q[y]
    BY <2>2, <2>3, JoinTies
  <2> HIDE DEF q
  <2>5. ConstantRows(row, gate) \subseteq ConstantReads(shape)
    BY <1>0, <1>4, ShapeFacts DEF ConstantRows, ConstantReads
  <2>6. ASSUME NEW i \in priority'
        PROVE  q[i] = q[ConstantZone]
    <3>1. CASE i \in priority
      <4>1. i \in Nodes /\ ConstantZone \in Nodes
        BY <3>1, RowsAssumption DEF ConstantReads, Rows, Nodes, ConstantZone
      <4> QED
        BY <2>3, <2>4, <3>1, <4>1
    <3>2. CASE i \in ConstantRows(row, gate)
      <4>1. i \in ConstantBlock(row, gate) /\ ConstantZone \in ConstantBlock(row, gate)
        BY <3>2 DEF ConstantBlock, ConstantRows
      <4> QED
        BY <2>4, <4>1
    <3> QED
      BY <2>1, <3>1, <3>2
  <2>7. (priority \subseteq ConstantReads(shape))'
    BY <1>2, <2>1, <2>5
  <2>8. ASSUME NEW g \in Gates, NEW i \in shape.enabled[g], Scanned(i, g)'
        PROVE  ConstantRows(i, g) \subseteq priority'
    BY <1>3, <2>1, <2>8
  <2> QED
    BY <1>0, <1>1, <2>1, <2>6, <2>7, <2>8
<1>5. CASE row \notin shape.enabled[gate]
  <2>1. zoneOf' = zoneOf /\ priority' = priority
    BY <1>0, <1>5 DEF Scan
  <2>2. ASSUME NEW g \in Gates, NEW i \in shape.enabled[g], Scanned(i, g)'
        PROVE  Scanned(i, g)
    BY <1>3, <1>5, <2>2
  <2> QED
    BY <1>0, <1>1, <1>2, <2>1, <2>2
<1> QED
  BY <1>4, <1>5

LEMMA NextPriority == IInv /\ PriorityInv /\ [Next]_vars => PriorityInv'
<1> SUFFICES ASSUME IInv, PriorityInv, [Next]_vars PROVE PriorityInv'
  OBVIOUS
<1> DEFINE Rest == \/ ScanNextRow \/ Pack \/ Search \/ StartPlacing \/ Place \/ StartClaiming
                   \/ Claim \/ FinishRemapping \/ MoveCircuit \/ MoveAssignment \/ UNCHANGED vars
<1>1. CASE Scan
  BY <1>1, ScanKeepsPriority
<1>2. CASE Rest
  <2>1. UNCHANGED <<shape, zoneOf, priority>>
    BY <1>2 DEF ScanNextRow, Pack, Search, StartPlacing, Place, StartClaiming, Claim,
                FinishRemapping, MoveCircuit, MoveAssignment, vars, zoning
  <2>2. \/ phase = "scan" /\ phase' = phase /\ row' = row + 1 /\ gate' = 0 /\ gate = GateCount
        \/ phase = "scan" /\ row = RowsAmount /\ phase' # "scan"
        \/ phase # "scan" /\ phase' # "scan"
        \/ phase' = phase /\ row' = row /\ gate' = gate
    BY <1>2 DEF ScanNextRow, Pack, Search, StartPlacing, Place, StartClaiming, Claim,
                FinishRemapping, MoveCircuit, MoveAssignment, vars, zoning
  <2>3. ASSUME NEW g \in Gates, NEW i \in shape.enabled[g], Scanned(i, g)'
        PROVE  Scanned(i, g)
    <3>1. i \in Rows /\ row \in Nat /\ g \in 0..(GateCount - 1) /\ GateCount \in Nat
      BY ShapeFacts, RowsAssumption DEF IInv, ZonesInv, Gates
    <3> QED
      BY <2>2, <2>3, <3>1, RowsAssumption DEF Scanned, Rows
  <2>4. \A g, i : ConstantRows(i, g)' = ConstantRows(i, g)
    BY <2>1 DEF ConstantRows
  <2> QED
    BY <2>1, <2>3, <2>4 DEF PriorityInv
<1> QED
  BY <1>1, <1>2 DEF Next

LEMMA NextClaims ==
    ASSUME RoomForConstants, IInv, PriorityInv, ClaimsInv, [Next]_vars
    PROVE  ClaimsInv'
<1>1. CASE Place
  <2>1. /\ phase = "place" /\ phase' = phase /\ UNCHANGED <<shape, priority, remap, moved>>
        /\ row \in Rows
        /\ line' = [i \in DOMAIN line \cup {row} |-> IF i = row THEN used[Bin(row)] ELSE line[i]]
        /\ taken' = IF row \in priority THEN taken \cup {used[Bin(row)]} ELSE taken
    BY <1>1 DEF Place, table
  <2>2. row \notin DOMAIN line
    BY <2>1, RowsAssumption DEF IInv, LinesInv, Rows
  <2>3. DOMAIN remap = {} /\ moved = {}
    BY <2>1 DEF ClaimsInv, IInv, MovedInv
  <2>4. taken = {line[i] : i \in priority \cap DOMAIN line}
    BY <2>3 DEF ClaimsInv
  <2>5. taken' = {line'[i] : i \in priority \cap DOMAIN line'}
    <3>1. \A i \in DOMAIN line : line'[i] = line[i]
      BY <2>1, <2>2
    <3>2. line'[row] = used[Bin(row)] /\ DOMAIN line' = DOMAIN line \cup {row}
      BY <2>1
    <3> QED
      BY <2>1, <2>4, <3>1, <3>2
  <2> QED
    BY <2>1, <2>3, <2>5 DEF ClaimsInv
<1>2. CASE Claim
  <2> DEFINE i == Min(shape.copied \ DOMAIN remap)
             n == ClaimedLine(i)
  <2>1. /\ phase = "claim" /\ phase' = phase /\ UNCHANGED <<shape, priority, line, moved>>
        /\ remap' = [j \in DOMAIN remap \cup {i} |-> IF j = i THEN n ELSE remap[j]]
        /\ taken' = taken \cup {n}
    BY <1>2 DEF Claim, zoning, placing, table
  <2>2. i \in shape.copied \ DOMAIN remap
    <3>1. shape.copied \subseteq Nat
      BY CopiedAreRows, RowsAssumption DEF IInv, ZonesInv, Rows
    <3>2. shape.copied \ DOMAIN remap # {}
      BY <1>2 DEF Claim
    <3> QED
      BY <3>1, <3>2, MinIsLeast
  <2>3. n \notin taken
    BY <2>2, ClaimedIsFree DEF IInv
  <2>4. moved = {}
    BY <2>1 DEF IInv, MovedInv
  <2> HIDE DEF i, n
  <2>5. /\ remap'[i] = n /\ DOMAIN remap' = DOMAIN remap \cup {i}
        /\ \A j \in DOMAIN remap : remap'[j] = remap[j]
    BY <2>1, <2>2
  <2>6. taken' = {line'[k] : k \in priority' \cap DOMAIN line'} \cup {remap'[j] : j \in DOMAIN remap'}
    BY <2>1, <2>5 DEF ClaimsInv
  <2>7. /\ \A j \in DOMAIN remap : remap[j] # n
        /\ \A k \in priority \cap DOMAIN line : line[k] # n
    BY <2>3 DEF ClaimsInv
  <2>8. \A j, k \in DOMAIN remap' : remap'[j] = remap'[k] => j = k
    BY <2>5, <2>7 DEF ClaimsInv
  <2>9. \A k \in priority' \cap DOMAIN line' : \A j \in DOMAIN remap' : line'[k] # remap'[j]
    BY <2>1, <2>5, <2>7 DEF ClaimsInv
  <2> QED
    BY <2>1, <2>2, <2>4, <2>5, <2>6, <2>8, <2>9 DEF ClaimsInv
<1>3. CASE Scan
  <2>1. /\ phase = "scan" /\ phase' = phase /\ UNCHANGED <<shape, line, taken, remap, moved>>
    BY <1>3 DEF Scan, placing, claiming, table
  <2>2. DOMAIN line = {} /\ DOMAIN remap = {} /\ moved = {}
    BY <2>1 DEF IInv, LinesInv, ClaimsInv, MovedInv
  <2> QED
    BY <2>1, <2>2 DEF ClaimsInv
<1> DEFINE Rest == \/ ScanNextRow \/ Pack \/ Search \/ StartPlacing \/ StartClaiming
                   \/ FinishRemapping \/ MoveCircuit \/ MoveAssignment \/ UNCHANGED vars
<1>4. CASE Rest
  <2>1. UNCHANGED <<shape, priority, line, taken, remap>>
    BY <1>4 DEF ScanNextRow, Pack, Search, StartPlacing, StartClaiming,
                FinishRemapping, MoveCircuit, MoveAssignment, vars, zoning, placing, claiming
  <2>2. \/ phase' = phase
        \/ phase' \notin {"claim", "ready"} /\ phase \notin {"claim", "ready"}
        \/ phase' = "claim"
        \/ phase' = "ready" /\ shape.copied \subseteq DOMAIN remap
    BY <1>4 DEF ScanNextRow, Pack, Search, StartPlacing, StartClaiming,
                FinishRemapping, MoveCircuit, MoveAssignment, vars
  <2>3. MovedConstants' = MovedConstants
    BY <2>1 DEF MovedConstants, ConstantTarget
  <2>4. "circuit" \in moved' => constants' = MovedConstants'
    BY <1>4, <2>3 DEF ScanNextRow, Pack, Search, StartPlacing, StartClaiming,
                FinishRemapping, MoveCircuit, MoveAssignment, vars, table, ClaimsInv
  <2> QED
    BY <2>1, <2>2, <2>4 DEF ClaimsInv
<1> QED
  BY <1>1, <1>2, <1>3, <1>4 DEF Next

(* A remapped constant meets no other.                                     *)
LEMMA RemappedAlone ==
    ASSUME IInv, PriorityInv, ClaimsInv, "circuit" \in moved, NEW i \in DOMAIN remap
    PROVE  remap[i] \in DOMAIN constants /\ constants[remap[i]] = i
<1> DEFINE moving == DOMAIN remap \cup priority
           at(n) == {j \in moving : ConstantTarget(j) = n}
<1>1. DOMAIN line = Rows /\ priority \subseteq Rows
  BY DEF IInv, LinesInv, MovedInv, PriorityInv, ConstantReads
<1>2. i \in Nat
  BY CopiedAreRows, RowsAssumption DEF ClaimsInv, IInv, ZonesInv, Rows
<1>3. ConstantTarget(i) = remap[i]
  BY DEF ConstantTarget
<1>4. ASSUME NEW j \in moving, ConstantTarget(j) = remap[i]
      PROVE  j = i
  <2>1. CASE j \in DOMAIN remap
    BY <1>4, <2>1 DEF ConstantTarget, ClaimsInv
  <2>2. CASE j \notin DOMAIN remap
    <3>1. j \in priority \cap DOMAIN line /\ line[j] = remap[i]
      BY <1>1, <1>4, <2>2 DEF ConstantTarget
    <3> QED
      BY <3>1 DEF ClaimsInv
  <2> QED
    BY <2>1, <2>2
<1>5. at(remap[i]) = {i}
  BY <1>3, <1>4
<1>6. Max({i}) = i
  BY <1>2 DEF Max
<1>7. /\ remap[i] \in DOMAIN MovedConstants
      /\ MovedConstants[remap[i]] = Max(at(remap[i]))
  BY <1>3 DEF MovedConstants
<1> QED
  BY <1>5, <1>6, <1>7 DEF ClaimsInv

(* Nor do two constants of gates, which are all in one bin.                *)
LEMMA GateConstantAlone ==
    ASSUME IInv, PriorityInv, ClaimsInv, "circuit" \in moved, NEW r \in priority \ DOMAIN remap
    PROVE  line[r] \in DOMAIN constants /\ constants[line[r]] = r
<1> DEFINE moving == DOMAIN remap \cup priority
           at(n) == {j \in moving : ConstantTarget(j) = n}
<1>1. DOMAIN line = Rows /\ priority \subseteq Rows
  BY DEF IInv, LinesInv, MovedInv, PriorityInv, ConstantReads
<1>2. r \in Nat /\ \A j \in priority : j \in Nat
  BY <1>1, RowsAssumption DEF Rows
<1>3. ConstantTarget(r) = line[r]
  BY DEF ConstantTarget
<1>4. ASSUME NEW j \in moving, ConstantTarget(j) = line[r]
      PROVE  j = r
  <2>1. CASE j \in DOMAIN remap
    <3>1. remap[j] = line[r]
      BY <1>4, <2>1 DEF ConstantTarget
    <3> QED
      BY <1>1, <2>1, <3>1 DEF ClaimsInv
  <2>2. CASE j \notin DOMAIN remap
    <3>1. j \in priority /\ line[j] = line[r]
      BY <1>4, <2>2 DEF ConstantTarget
    <3>2. Bin(j) = Bin(r)
      BY <3>1 DEF PriorityInv, Bin
    <3>3. line[j] \in Nat /\ line[r] \in Nat
      BY <1>1, <3>1 DEF IInv, LinesInv
    <3>4. ~(j < r) /\ ~(r < j)
      BY <1>1, <3>1, <3>2, <3>3 DEF IInv, LinesInv
    <3> QED
      BY <1>2, <3>1, <3>4
  <2> QED
    BY <2>1, <2>2
<1>5. at(line[r]) = {r}
  BY <1>3, <1>4
<1>6. Max({r}) = r
  BY <1>2 DEF Max
<1>7. /\ line[r] \in DOMAIN MovedConstants
      /\ MovedConstants[line[r]] = Max(at(line[r]))
  BY <1>3 DEF MovedConstants
<1> QED
  BY <1>5, <1>6, <1>7 DEF ClaimsInv

LEMMA ClaimsReach == IInv /\ PriorityInv /\ ClaimsInv => CopiedConstantsKept
<1> SUFFICES ASSUME IInv, PriorityInv, ClaimsInv, "circuit" \in moved, NEW i \in shape.copied
             PROVE  constants[remap[i]] = i
  BY DEF CopiedConstantsKept
<1>1. phase = "ready"
  BY DEF IInv, MovedInv
<1>2. i \in DOMAIN remap
  BY <1>1 DEF ClaimsInv
<1> QED
  BY <1>2, RemappedAlone

LEMMA ConstantsReach ==
    ASSUME GatesOwnTheirConstants, ConstantsAreTied
    PROVE  IInv /\ PriorityInv /\ ClaimsInv => ConstantsReachGates
<1> SUFFICES ASSUME IInv, PriorityInv, ClaimsInv, "circuit" \in moved,
                    NEW g \in Gates, NEW i \in shape.enabled[g], NEW r \in ConstantRows(i, g)
             PROVE  LET n == line[i] + (r - i) IN n \in DOMAIN constants /\ constants[n] = r
  BY DEF ConstantsReachGates
<1>1. phase = "ready" /\ DOMAIN line = Rows /\ shape \in Shapes
  BY DEF IInv, MovedInv, LinesInv, ZonesInv
<1>2. PICK d \in shape.constant[g] : r = i + d
  BY DEF ConstantRows
<1>3. /\ i \in Rows /\ r \in Rows /\ Rows \subseteq Int
      /\ d \in {-1, 0, 1} /\ (r = i \/ r = i + 1 \/ i = r + 1)
  <2>1. i \in Rows /\ r \in Rows /\ Rows \subseteq Int
    BY <1>1, <1>2, ShapeFacts, RowsAssumption DEF Rows
  <2>2. d \in {-1, 0, 1}
    BY <1>1, ShapesAssumption DEF AllShapes
  <2> QED
    BY <1>2, <2>1, <2>2
<1>4. /\ ConstantRows(i, g) \subseteq priority /\ r \in priority
      /\ r \in ConstantReads(shape)
  BY <1>1 DEF PriorityInv, Scanned
<1>5. r \notin DOMAIN remap
  BY <1>1, <1>4 DEF ClaimsInv, GatesOwnTheirConstants
<1>6. CASE r = i
  <2>1. line[i] + (r - i) = line[r]
    BY <1>1, <1>3, <1>6 DEF IInv, LinesInv
  <2> QED
    BY <1>4, <1>5, <2>1, GateConstantAlone
<1>7. CASE r # i
  <2>1. 0 \in shape.constant[g] \/ d \in shape.witness[g]
    BY <1>1, <1>2, <1>3, <1>7 DEF ConstantsAreTied
  <2>2. zoneOf[r] = zoneOf[i]
    <3>1. CASE 0 \in shape.constant[g]
      <4>1. i \in ConstantRows(i, g)
        BY <1>3, <3>1 DEF ConstantRows
      <4> QED
        BY <1>4, <4>1 DEF PriorityInv
    <3>2. CASE d \in shape.witness[g]
      <4>1. r \in WitnessBlock(i, g) /\ i \in WitnessBlock(i, g)
        BY <1>2, <3>2 DEF WitnessBlock, WitnessRows
      <4> QED
        BY <1>1, <4>1 DEF IInv, ZonesInv, Scanned
    <3> QED
      BY <2>1, <3>1, <3>2
  <2>3. Bin(r) = Bin(i)
    BY <2>2 DEF Bin
  <2>4. line[r] \in Int /\ line[i] \in Int
    BY <1>1, <1>3 DEF IInv, LinesInv
  <2>5. \A j, k \in Rows : k = j + 1 /\ Bin(j) = Bin(k) => line[k] = line[j] + 1
    BY <1>1 DEF IInv, LinesInv
  <2>6. CASE r = i + 1
    <3>1. line[r] = line[i] + 1
      BY <1>3, <2>3, <2>5, <2>6
    <3> QED
      BY <1>3, <1>4, <1>5, <2>4, <2>6, <3>1, GateConstantAlone
  <2>7. CASE i = r + 1
    <3>1. line[i] = line[r] + 1
      BY <1>3, <2>3, <2>5, <2>7
    <3> QED
      BY <1>3, <1>4, <1>5, <2>4, <2>7, <3>1, GateConstantAlone
  <2> QED
    BY <1>3, <1>7, <2>6, <2>7
<1> QED
  BY <1>6, <1>7

(* Constants that gates own leave room for those of copy constraints.      *)
LEMMA OwnedConstantsHaveRoom == GatesOwnTheirConstants => RoomForConstants
<1> SUFFICES ASSUME GatesOwnTheirConstants, NEW s \in Shapes
             PROVE  Cardinality(ConstantReads(s)) + Cardinality(s.copied) <= RowsAmount + 1
  BY DEF RoomForConstants
<1> DEFINE A == ConstantReads(s)
           C == s.copied
<1>1. A \subseteq Rows /\ C \subseteq Rows /\ A \cap C = {}
  BY ShapesAssumption DEF AllShapes, ConstantReads, GatesOwnTheirConstants
<1>2. IsFiniteSet(Rows) /\ Cardinality(Rows) = RowsAmount
  BY FS_Interval, RowsAssumption DEF Rows
<1> HIDE DEF A, C
<1>3. /\ IsFiniteSet(A) /\ Cardinality(A) \in Nat
      /\ IsFiniteSet(C) /\ Cardinality(C) \in Nat
  BY <1>1, RowsAreFinite
<1>4. Cardinality(A \cup C) = Cardinality(A) + Cardinality(C) - Cardinality({})
  BY <1>1, <1>3, FS_Union
<1>5. Cardinality({}) = 0 /\ Cardinality(A \cup C) <= Cardinality(Rows)
  BY <1>1, <1>2, FS_Subset, FS_EmptySet
<1> QED
  BY <1>2, <1>3, <1>4, <1>5, RowsAssumption DEF A, C

(* In every component that leaves a line for each constant, a copy         *)
(* constraint on a constant still finds it after stretching.               *)
THEOREM CopiesFindTheirConstants ==
    ASSUME RoomForConstants
    PROVE  Spec => []CopiedConstantsKept
<1>1. Init => IInv /\ PriorityInv /\ ClaimsInv
  BY InitIInv, InitConstants
<1>2. IInv /\ PriorityInv /\ ClaimsInv /\ [Next]_vars => (IInv /\ PriorityInv /\ ClaimsInv)'
  BY NextIInv, NextPriority, NextClaims
<1>3. IInv /\ PriorityInv /\ ClaimsInv => CopiedConstantsKept
  BY ClaimsReach
<1> QED
  BY <1>1, <1>2, <1>3, PTL DEF Spec

(* In every component whose gates own the constants they read and tie them *)
(* to their rows, they still read them after stretching.                   *)
THEOREM GatesReadTheirConstants ==
    ASSUME GatesOwnTheirConstants, ConstantsAreTied
    PROVE  Spec => []ConstantsReachGates
<1>1. Init => IInv /\ PriorityInv /\ ClaimsInv
  BY InitIInv, InitConstants
<1>2. IInv /\ PriorityInv /\ ClaimsInv /\ [Next]_vars => (IInv /\ PriorityInv /\ ClaimsInv)'
  BY NextIInv, NextPriority, NextClaims, OwnedConstantsHaveRoom
<1>3. IInv /\ PriorityInv /\ ClaimsInv => ConstantsReachGates
  BY ConstantsReach
<1> QED
  BY <1>1, <1>2, <1>3, PTL DEF Spec
=============================================================================
