----------------------- MODULE AssignmentProxyProofs -----------------------
(***************************************************************************)
(* The parts of the provers, for any number of provers, gates, components, *)
(* saved values and copy constraints, and any interleaving of the proxies' *)
(* calls.                                                                  *)
(***************************************************************************)
EXTENDS AssignmentProxy, FiniteSetTheorems, TLAPS

Var == [type : {"witness", "shared"}, row : Nat]
Constraint == [first : Var, second : Var]
Component == [prover : Prover, gate : Gate, row : 0..(MaxRow - 1), assigned : BOOLEAN]

-----------------------------------------------------------------------------
(* The invariant                                                           *)

WitnessInv ==
    /\ allocatedRows \in 0..(MaxRow + 1)
    /\ \E n \in 0..(MaxRow + 1) : witness \in [0..(n - 1) -> Value]

(* Every value that was saved has a place of its own, and keeps it.        *)
SharedInv ==
    /\ shared \in Seq(Value)
    /\ IsFiniteSet(saved) /\ Len(shared) = Cardinality(saved) /\ Len(shared) <= MaxShared
    /\ saved \subseteq [prover : Prover, source : {WitnessVar(r) : r \in Row},
                        value : Value, var : {SharedVar(i) : i \in 0..(MaxShared - 1)}]
    /\ \A s \in saved : s.var.row < Len(shared) /\ shared[s.var.row + 1] = s.value

(* A selector is enabled where a component has been placed, its prover has *)
(* noted the gate and the row, and once it is assigned the rows it wrote.  *)
PartsInv ==
    /\ components \subseteq Component
    /\ enabled \in [Gate -> SUBSET Row]
    /\ usedGates \in [Prover -> SUBSET Gate]
    /\ usedRows \in [Prover -> SUBSET Row]
    /\ usedSelectorRows \in [Prover -> SUBSET Row]
    /\ \A g \in Gate : \A row \in enabled[g] : \E c \in components : c.gate = g /\ c.row = row
    /\ \A p \in Prover : \A row \in usedSelectorRows[p] :
          \E c \in components : c.prover = p /\ c.row = row
    /\ \A c \in components :
          /\ c.row \in enabled[c.gate]
          /\ c.gate \in usedGates[c.prover]
          /\ c.row \in usedSelectorRows[c.prover]

AssignedInv ==
    \A c \in components : c.assigned =>
        /\ RowsOf(c) \subseteq usedRows[c.prover]
        /\ RowsOf(c) \subseteq DOMAIN witness
        /\ c.row < allocatedRows

(* Each copy constraint was asked for and belongs to a prover's part, and  *)
(* each one asked for is there, unless it ties a variable to itself.       *)
CopiesInv ==
    /\ copyConstraints \in Seq(Constraint) /\ Len(copyConstraints) <= MaxCopies
    /\ usedCopies \in [Prover -> SUBSET (1..Len(copyConstraints))]
    /\ \A i \in 1..Len(copyConstraints) : \E p \in Prover : i \in usedCopies[p]
    /\ \A i \in 1..Len(copyConstraints) : \E call \in copyCalls : call.constraint = copyConstraints[i]
    /\ \A call \in copyCalls :
          \/ call.constraint.first = call.constraint.second
          \/ \E i \in 1..Len(copyConstraints) : call.constraint = copyConstraints[i]

(* A prover asks for constraints between cells that it may read.           *)
CallsInv ==
    \A call \in copyCalls :
        /\ call.prover \in Prover /\ call.constraint \in Constraint
        /\ MayRead(call.prover, call.constraint.first)
        /\ MayRead(call.prover, call.constraint.second)

IInv == WitnessInv /\ SharedInv /\ PartsInv /\ AssignedInv /\ CopiesInv /\ CallsInv

LEMMA InitIInv == Init => IInv
<1> SUFFICES ASSUME Init PROVE IInv
  OBVIOUS
<1>1. WitnessInv
  <2>1. witness \in [0..(0 - 1) -> Value] /\ 0 \in 0..(MaxRow + 1)
    BY RowAssumption DEF Init
  <2> QED
    BY <2>1, RowAssumption DEF Init, WitnessInv
<1>2. SharedInv
  BY FS_EmptySet, RowAssumption DEF Init, SharedInv
<1>3. PartsInv /\ AssignedInv
  BY DEF Init, PartsInv, AssignedInv
<1>4. CopiesInv /\ CallsInv
  BY RowAssumption DEF Init, CopiesInv, CallsInv
<1> QED
  BY <1>1, <1>2, <1>3, <1>4 DEF IInv

-----------------------------------------------------------------------------
(* One lemma per call                                                      *)

LEMMA PlaceStep ==
    ASSUME IInv, NEW p \in Prover, NEW g \in Gate, NEW row \in Row, NEW byEnable \in BOOLEAN,
           Place(p, g, row, byEnable)
    PROVE  IInv'
<1> DEFINE new == [prover |-> p, gate |-> g, row |-> row, assigned |-> FALSE]
<1>1. row \in 0..(MaxRow - 1) /\ new \in Component
  BY RowAssumption DEF Place, Row, Component
<1>2. /\ components' = components \cup {new}
      /\ enabled' = [enabled EXCEPT ![g] = @ \cup {row}]
      /\ usedGates' = [usedGates EXCEPT ![p] = @ \cup {g}]
      /\ usedRows' = [usedRows EXCEPT ![p] = @ \cup {row}]
      /\ usedSelectorRows' = [usedSelectorRows EXCEPT ![p] = @ \cup {row}]
      /\ UNCHANGED <<witness, shared, copyConstraints, usedCopies, saved, copyCalls>>
      /\ allocatedRows' = allocatedRows \/ allocatedRows' = Raised(row)
  BY DEF Place
<1>3. allocatedRows' \in 0..(MaxRow + 1) /\ allocatedRows <= allocatedRows'
  BY <1>1, <1>2, RowAssumption DEF IInv, WitnessInv, Raised, Larger
<1>4. WitnessInv' /\ SharedInv' /\ CopiesInv'
  BY <1>2, <1>3 DEF IInv, WitnessInv, SharedInv, CopiesInv
<1>5. /\ \A q \in Prover : usedGates[q] \subseteq usedGates'[q] /\ usedRows[q] \subseteq usedRows'[q]
                           /\ usedSelectorRows[q] \subseteq usedSelectorRows'[q]
      /\ \A h \in Gate : enabled[h] \subseteq enabled'[h]
      /\ row \in enabled'[g] /\ g \in usedGates'[p] /\ row \in usedSelectorRows'[p]
  BY <1>2 DEF IInv, PartsInv
<1>6. PartsInv'
  <2>1. /\ components' \subseteq Component
        /\ enabled' \in [Gate -> SUBSET Row]
        /\ usedGates' \in [Prover -> SUBSET Gate]
        /\ usedRows' \in [Prover -> SUBSET Row]
        /\ usedSelectorRows' \in [Prover -> SUBSET Row]
    <3> HIDE DEF new
    <3>1. components' \subseteq Component
      BY <1>1, <1>2 DEF IInv, PartsInv
    <3>2. enabled' \in [Gate -> SUBSET Row] /\ usedGates' \in [Prover -> SUBSET Gate]
      BY <1>2 DEF IInv, PartsInv
    <3>3. usedRows' \in [Prover -> SUBSET Row] /\ usedSelectorRows' \in [Prover -> SUBSET Row]
      BY <1>2 DEF IInv, PartsInv
    <3> QED
      BY <3>1, <3>2, <3>3
  <2>2. ASSUME NEW h \in Gate, NEW r \in enabled'[h]
        PROVE  \E c \in components' : c.gate = h /\ c.row = r
    <3>1. CASE r \in enabled[h]
      BY <1>2, <3>1 DEF IInv, PartsInv
    <3>2. CASE r \notin enabled[h]
      <4>1. h = g /\ r = row
        BY <1>2, <3>2 DEF IInv, PartsInv
      <4>2. new \in components' /\ new.gate = h /\ new.row = r
        BY <1>2, <4>1
      <4> QED
        BY <4>2
    <3> QED
      BY <3>1, <3>2
  <2>3. ASSUME NEW q \in Prover, NEW r \in usedSelectorRows'[q]
        PROVE  \E c \in components' : c.prover = q /\ c.row = r
    <3>1. CASE r \in usedSelectorRows[q]
      BY <1>2, <3>1 DEF IInv, PartsInv
    <3>2. CASE r \notin usedSelectorRows[q]
      <4>1. q = p /\ r = row
        BY <1>2, <3>2 DEF IInv, PartsInv
      <4>2. new \in components' /\ new.prover = q /\ new.row = r
        BY <1>2, <4>1
      <4> QED
        BY <4>2
    <3> QED
      BY <3>1, <3>2
  <2>4. ASSUME NEW c \in components'
        PROVE  /\ c.row \in enabled'[c.gate]
               /\ c.gate \in usedGates'[c.prover]
               /\ c.row \in usedSelectorRows'[c.prover]
    <3>1. CASE c \in components
      BY <1>5, <3>1 DEF IInv, PartsInv, Component
    <3>2. CASE c = new
      BY <1>5, <3>2
    <3> QED
      BY <1>2, <3>1, <3>2
  <2> QED
    BY <2>1, <2>2, <2>3, <2>4 DEF PartsInv
<1>7. AssignedInv'
  <2> SUFFICES ASSUME NEW c \in components', c.assigned
               PROVE  /\ RowsOf(c) \subseteq usedRows'[c.prover]
                      /\ RowsOf(c) \subseteq DOMAIN witness'
                      /\ c.row < allocatedRows'
    BY DEF AssignedInv, RowsOf
  <2>1. c \in components /\ c \in Component
    BY <1>2 DEF IInv, PartsInv
  <2>2. c.row < allocatedRows /\ RowsOf(c) \subseteq DOMAIN witness
        /\ RowsOf(c) \subseteq usedRows[c.prover]
    BY <2>1 DEF IInv, AssignedInv
  <2>3. c.row < allocatedRows'
    BY <1>3, <2>1, <2>2 DEF Component, IInv, WitnessInv
  <2> QED
    BY <1>2, <1>5, <2>1, <2>2, <2>3 DEF Component
<1>8. CallsInv'
  BY <1>2, <1>5 DEF IInv, CallsInv, MayRead
<1> QED
  BY <1>4, <1>6, <1>7, <1>8 DEF IInv

LEMMA AssignStep ==
    ASSUME IInv, NEW p \in Prover, NEW c \in components, NEW first \in Value, NEW second \in Value,
           Assign(p, c, first, second)
    PROVE  IInv'
<1> DEFINE new == [prover |-> p, gate |-> c.gate, row |-> c.row, assigned |-> TRUE]
<1>1. c \in Component /\ c.prover = p /\ c.row \in 0..(MaxRow - 1) /\ ~c.assigned /\ c.gate \in Gate
  BY DEF Assign, IInv, PartsInv, Component
<1>2. new \in Component
  BY <1>1 DEF Component
<1>3. /\ components' = (components \ {c}) \cup {new}
      /\ allocatedRows' = Raised(c.row + 1)
      /\ usedRows' = [usedRows EXCEPT ![p] = @ \cup {c.row, c.row + 1}]
      /\ UNCHANGED <<enabled, shared, copyConstraints, usedSelectorRows,
                     usedGates, usedCopies, saved, copyCalls>>
  BY DEF Assign, NotedWrites, RowsOf
<1>4. PICK n \in 0..(MaxRow + 1) : witness \in [0..(n - 1) -> Value]
  BY DEF IInv, WitnessInv
<1>5. Size = n /\ n \in Nat
  <2>1. 0 \in Int /\ n - 1 \in Int /\ n \in Nat
    BY <1>4, RowAssumption
  <2>2. Cardinality(0..(n - 1)) = IF 0 > n - 1 THEN 0 ELSE n - 1 - 0 + 1
    BY <2>1, FS_Interval
  <2>3. DOMAIN witness = 0..(n - 1)
    BY <1>4
  <2> QED
    BY <2>1, <2>2, <2>3 DEF Size
<1> DEFINE height == Larger(n, c.row + 2)
<1>6. witness' = [r \in 0..(height - 1) |->
                     IF r = c.row THEN first ELSE IF r = c.row + 1 THEN second
                     ELSE IF r < n THEN witness[r] ELSE Zero]
  BY <1>5 DEF Assign
<1>7. height \in 0..(MaxRow + 1) /\ n <= height /\ c.row + 2 <= height
  BY <1>1, <1>4, <1>5, RowAssumption DEF Larger
<1> HIDE DEF height
<1>8. witness' \in [0..(height - 1) -> Value] /\ DOMAIN witness \subseteq DOMAIN witness'
      /\ c.row \in DOMAIN witness' /\ c.row + 1 \in DOMAIN witness'
  <2>1. DOMAIN witness' = 0..(height - 1) /\ DOMAIN witness = 0..(n - 1)
    BY <1>4, <1>6
  <2>2. \A r \in 0..(height - 1) : r < n => witness[r] \in Value
    BY <1>4, <1>5, <1>7
  <2>3. witness' \in [0..(height - 1) -> Value]
    BY <1>6, <2>2, ValueAssumption
  <2> QED
    BY <1>1, <1>5, <1>7, <2>1, <2>3, RowAssumption
<1>9. allocatedRows' \in 0..(MaxRow + 1) /\ allocatedRows <= allocatedRows' /\ c.row < allocatedRows'
  BY <1>1, <1>3, RowAssumption DEF IInv, WitnessInv, Raised, Larger
<1>10. WitnessInv'
  BY <1>7, <1>8, <1>9 DEF WitnessInv
<1>11. SharedInv' /\ CopiesInv'
  BY <1>3 DEF IInv, SharedInv, CopiesInv
<1>12. /\ \A q \in Prover : usedRows[q] \subseteq usedRows'[q]
       /\ usedRows' \in [Prover -> SUBSET Row]
       /\ {c.row, c.row + 1} \subseteq usedRows'[p]
  <2>1. {c.row, c.row + 1} \subseteq Row
    BY <1>1, RowAssumption DEF Row
  <2> QED
    BY <1>3, <2>1 DEF IInv, PartsInv
<1>13. PartsInv'
  <2>1. components' \subseteq Component
    BY <1>2, <1>3 DEF IInv, PartsInv
  <2>2. \A d \in components : \E e \in components' :
           e.gate = d.gate /\ e.row = d.row /\ e.prover = d.prover
    <3> SUFFICES ASSUME NEW d \in components
                 PROVE  \E e \in components' : e.gate = d.gate /\ e.row = d.row /\ e.prover = d.prover
      OBVIOUS
    <3>1. CASE d = c
      <4>1. new \in components' /\ new.gate = d.gate /\ new.row = d.row /\ new.prover = d.prover
        BY <1>1, <1>3, <3>1
      <4> QED
        BY <4>1
    <3>2. CASE d # c
      BY <1>3, <3>2
    <3> QED
      BY <3>1, <3>2
  <2>3. \A g \in Gate : \A row \in enabled[g] : \E d \in components' : d.gate = g /\ d.row = row
    BY <2>2 DEF IInv, PartsInv
  <2>4. \A q \in Prover : \A row \in usedSelectorRows[q] :
           \E d \in components' : d.prover = q /\ d.row = row
    BY <2>2 DEF IInv, PartsInv
  <2>5. ASSUME NEW d \in components'
        PROVE  /\ d.row \in enabled[d.gate]
               /\ d.gate \in usedGates[d.prover]
               /\ d.row \in usedSelectorRows[d.prover]
    <3>1. CASE d \in components
      BY <3>1 DEF IInv, PartsInv
    <3>2. CASE d = new
      BY <1>1, <3>2 DEF IInv, PartsInv
    <3> QED
      BY <1>3, <3>1, <3>2
  <2> QED
    BY <1>3, <1>12, <2>1, <2>3, <2>4, <2>5 DEF IInv, PartsInv
<1>14. AssignedInv'
  <2> SUFFICES ASSUME NEW d \in components', d.assigned
               PROVE  /\ {d.row, d.row + 1} \subseteq usedRows'[d.prover]
                      /\ {d.row, d.row + 1} \subseteq DOMAIN witness'
                      /\ d.row < allocatedRows'
    BY DEF AssignedInv, RowsOf
  <2>1. CASE d = new
    BY <1>8, <1>9, <1>12, <2>1
  <2>2. CASE d \in components
    <3>1. d \in Component /\ d.row < allocatedRows /\ {d.row, d.row + 1} \subseteq DOMAIN witness
          /\ {d.row, d.row + 1} \subseteq usedRows[d.prover]
      BY <2>2 DEF IInv, PartsInv, AssignedInv, RowsOf
    <3>2. d.row < allocatedRows'
      BY <1>9, <3>1 DEF Component, IInv, WitnessInv
    <3> QED
      BY <1>8, <1>12, <3>1, <3>2 DEF Component
  <2> QED
    BY <1>3, <2>1, <2>2
<1>15. CallsInv'
  BY <1>3, <1>12 DEF IInv, CallsInv, MayRead
<1> QED
  BY <1>10, <1>11, <1>13, <1>14, <1>15 DEF IInv

LEMMA SaveSharedStep ==
    ASSUME IInv, NEW p \in Prover, NEW row \in Row, SaveShared(p, row)
    PROVE  IInv'
<1> DEFINE v == witness[row]
           new == [prover |-> p, source |-> WitnessVar(row), value |-> v, var |-> SharedVar(Len(shared))]
<1>1. VarValue(WitnessVar(row)) = v
  BY DEF VarValue, WitnessVar
<1>2. Len(shared) \in Nat /\ Larger(Len(shared), Len(shared) + 1) = Len(shared) + 1
      /\ shared \in Seq(Value)
  BY DEF IInv, SharedInv, Larger
<1>3. v \in Value
  <2>1. PICK c \in PartOf(p) : row \in RowsOf(c)
    BY DEF SaveShared
  <2>2. row \in DOMAIN witness
    BY <2>1 DEF PartOf, IInv, AssignedInv
  <2> QED
    BY <2>2 DEF IInv, WitnessInv
<1> HIDE DEF v
<1>4. /\ shared' = [i \in 1..(Len(shared) + 1) |-> IF i = Len(shared) + 1 THEN v ELSE shared[i]]
      /\ saved' = saved \cup {new}
      /\ UNCHANGED <<witness, enabled, allocatedRows, copyConstraints, usedVars, components, copyCalls>>
  BY <1>1, <1>2 DEF SaveShared, NextShared
<1>5. shared' \in Seq(Value) /\ Len(shared') = Len(shared) + 1
      /\ (\A i \in 1..Len(shared) : shared'[i] = shared[i]) /\ shared'[Len(shared) + 1] = v
  BY <1>2, <1>3, <1>4
<1>6. Len(shared) < MaxShared
  BY DEF SaveShared, IInv, SharedInv
<1>7. new \in [prover : Prover, source : {WitnessVar(r) : r \in Row},
                value : Value, var : {SharedVar(i) : i \in 0..(MaxShared - 1)}]
  BY <1>2, <1>3, <1>6, RowAssumption
<1>8. new.var.row = Len(shared) /\ new.value = v
  BY DEF SharedVar
<1>9. new \notin saved
  BY <1>2, <1>8 DEF IInv, SharedInv
<1> HIDE DEF new
<1>10. IsFiniteSet(saved') /\ Len(shared') = Cardinality(saved')
  BY <1>4, <1>5, <1>9, FS_AddElement DEF IInv, SharedInv
<1>11. ASSUME NEW s \in saved'
       PROVE  s.var.row < Len(shared') /\ shared'[s.var.row + 1] = s.value
  <2>1. CASE s = new
    BY <1>2, <1>5, <1>8, <2>1
  <2>2. CASE s \in saved
    <3>1. s.var.row \in Nat /\ s.var.row < Len(shared) /\ shared[s.var.row + 1] = s.value
      BY <2>2, RowAssumption DEF IInv, SharedInv, SharedVar
    <3>2. s.var.row + 1 \in 1..Len(shared)
      BY <1>2, <3>1
    <3> QED
      BY <1>2, <1>5, <3>1, <3>2
  <2> QED
    BY <1>4, <2>1, <2>2
<1>12. SharedInv'
  <2>1. saved' \subseteq [prover : Prover, source : {WitnessVar(r) : r \in Row},
                          value : Value, var : {SharedVar(i) : i \in 0..(MaxShared - 1)}]
    BY <1>4, <1>7 DEF IInv, SharedInv
  <2>2. Len(shared') <= MaxShared
    BY <1>2, <1>5, <1>6, RowAssumption
  <2> QED
    BY <1>5, <1>10, <1>11, <2>1, <2>2 DEF SharedInv
<1>13. WitnessInv' /\ PartsInv' /\ AssignedInv' /\ CopiesInv'
  BY <1>4 DEF IInv, WitnessInv, PartsInv, AssignedInv, CopiesInv, RowsOf, usedVars
<1>14. CallsInv'
  <2>1. \A q, w : w \in Var /\ MayRead(q, w) => MayRead(q, w)'
    <3> SUFFICES ASSUME NEW q, NEW w \in Var, MayRead(q, w) PROVE MayRead(q, w)'
      OBVIOUS
    <3>1. w.row \in Nat /\ UNCHANGED usedRows
      BY <1>4 DEF Var, usedVars
    <3> QED
      BY <1>2, <1>5, <3>1 DEF MayRead
  <2> QED
    BY <1>4, <2>1 DEF IInv, CallsInv, Constraint
<1> QED
  BY <1>12, <1>13, <1>14 DEF IInv

(* A cell that a prover may name in a copy constraint is one it may read.  *)
LEMMA OwnAndSavedReadable ==
    ASSUME IInv, NEW p \in Prover, NEW v, v \in OwnVars(p) \/ v \in SavedVars
    PROVE  v \in Var /\ MayRead(p, v)
<1>1. CASE v \in OwnVars(p)
  <2>0. PICK r \in UNION {RowsOf(c) : c \in PartOf(p)} : v = WitnessVar(r)
    BY <1>1 DEF OwnVars
  <2>1. PICK c \in PartOf(p) : r \in RowsOf(c) /\ v = WitnessVar(r)
    BY <2>0
  <2>2. c \in Component /\ c.prover = p /\ c.assigned /\ RowsOf(c) \subseteq usedRows[p]
    BY <2>1 DEF PartOf, IInv, PartsInv, AssignedInv
  <2>3. r \in Nat
    BY <2>1, <2>2, RowAssumption DEF RowsOf, Component
  <2> QED
    BY <2>1, <2>2, <2>3 DEF Var, MayRead, WitnessVar
<1>2. CASE v \in SavedVars
  <2>1. PICK s \in saved : v = s.var
    BY <1>2 DEF SavedVars
  <2>2. PICK i \in 0..(MaxShared - 1) : v = SharedVar(i)
    BY <2>1 DEF IInv, SharedInv
  <2>3. v = [type |-> "shared", row |-> i] /\ i \in Nat
    BY <2>2, RowAssumption DEF SharedVar
  <2>4. v.row < Len(shared)
    BY <2>1 DEF IInv, SharedInv
  <2> QED
    BY <2>3, <2>4 DEF Var, MayRead
<1> QED
  BY <1>1, <1>2

LEMMA AddCopyConstraintStep ==
    ASSUME IInv, NEW p \in Prover, NEW first \in OwnVars(p), NEW second \in OwnVars(p) \cup SavedVars,
           AddCopyConstraint(p, first, second)
    PROVE  IInv'
<1>1. first \in Var /\ second \in Var /\ MayRead(p, first) /\ MayRead(p, second)
  BY OwnAndSavedReadable
<1>2. PICK constraint \in Constraint : constraint = [first |-> first, second |-> second]
  BY <1>1 DEF Constraint
<1>3. constraint.first = first /\ constraint.second = second
  BY <1>2
<1>4. PICK call : call = [prover |-> p, constraint |-> constraint]
  OBVIOUS
<1>5. call.prover = p /\ call.constraint = constraint
  BY <1>4
<1>6. /\ copyConstraints' = IF first = second THEN copyConstraints ELSE Append(copyConstraints, constraint)
      /\ Len(copyConstraints') <= MaxCopies
      /\ usedCopies' = [usedCopies EXCEPT ![p] = @ \cup LastCopy]
      /\ copyCalls' = copyCalls \cup {call}
      /\ UNCHANGED <<witness, enabled, allocatedRows, shared, usedRows,
                     usedSelectorRows, usedGates, components, saved>>
  BY <1>2, <1>4 DEF AddCopyConstraint
<1>7. copyConstraints \in Seq(Constraint) /\ Len(copyConstraints) \in Nat
  BY DEF IInv, CopiesInv
<1>8. /\ copyConstraints' \in Seq(Constraint) /\ Len(copyConstraints') \in Nat
      /\ Len(copyConstraints) <= Len(copyConstraints')
      /\ \A i \in 1..Len(copyConstraints) : copyConstraints'[i] = copyConstraints[i]
      /\ first # second => /\ Len(copyConstraints') = Len(copyConstraints) + 1
                           /\ copyConstraints'[Len(copyConstraints')] = constraint
      /\ first = second => copyConstraints' = copyConstraints
  BY <1>6, <1>7
<1>9. LastCopy = {i \in {Len(copyConstraints')} : i > 0}
  BY DEF LastCopy
<1>10. LastCopy \subseteq 1..Len(copyConstraints')
  BY <1>8, <1>9
<1>11. usedCopies \in [Prover -> SUBSET (1..Len(copyConstraints))]
  BY DEF IInv, CopiesInv
<1>12. /\ usedCopies' \in [Prover -> SUBSET (1..Len(copyConstraints'))]
       /\ \A q \in Prover : usedCopies[q] \subseteq usedCopies'[q]
       /\ LastCopy \subseteq usedCopies'[p]
  <2>1. 1..Len(copyConstraints) \subseteq 1..Len(copyConstraints')
    BY <1>7, <1>8
  <2> QED
    BY <1>6, <1>10, <1>11, <2>1
<1>13. CopiesInv'
  <2>1. ASSUME NEW i \in 1..Len(copyConstraints')
        PROVE  /\ \E q \in Prover : i \in usedCopies'[q]
               /\ \E d \in copyCalls' : d.constraint = copyConstraints'[i]
    <3>1. CASE i \in 1..Len(copyConstraints)
      BY <1>6, <1>8, <1>12, <3>1 DEF IInv, CopiesInv
    <3>2. CASE i \notin 1..Len(copyConstraints)
      <4>1. first # second /\ i = Len(copyConstraints')
        BY <1>7, <1>8, <3>2
      <4>2. i \in LastCopy
        BY <1>9, <4>1
      <4>3. call \in copyCalls' /\ call.constraint = copyConstraints'[i]
        BY <1>5, <1>6, <1>8, <4>1
      <4> QED
        BY <1>12, <4>2, <4>3
    <3> QED
      BY <3>1, <3>2
  <2>2. ASSUME NEW d \in copyCalls', d.constraint.first # d.constraint.second
        PROVE  \E i \in 1..Len(copyConstraints') : d.constraint = copyConstraints'[i]
    <3>1. CASE d = call
      <4>1. Len(copyConstraints') \in 1..Len(copyConstraints')
        BY <1>3, <1>5, <1>7, <1>8, <2>2, <3>1
      <4> QED
        BY <1>3, <1>5, <1>8, <2>2, <3>1, <4>1
    <3>2. CASE d \in copyCalls
      <4>1. PICK i \in 1..Len(copyConstraints) : d.constraint = copyConstraints[i]
        BY <2>2, <3>2 DEF IInv, CopiesInv
      <4>2. i \in 1..Len(copyConstraints') /\ d.constraint = copyConstraints'[i]
        BY <1>7, <1>8, <4>1
      <4> QED
        BY <4>2
    <3> QED
      BY <1>6, <3>1, <3>2
  <2> QED
    BY <1>6, <1>8, <1>12, <2>1, <2>2 DEF CopiesInv
<1>14. \A q, w : MayRead(q, w) => MayRead(q, w)'
  BY <1>6 DEF MayRead
<1>15. CallsInv'
  <2> SUFFICES ASSUME NEW d \in copyCalls'
               PROVE  /\ d.prover \in Prover /\ d.constraint \in Constraint
                      /\ MayRead(d.prover, d.constraint.first)'
                      /\ MayRead(d.prover, d.constraint.second)'
    BY DEF CallsInv
  <2>1. CASE d = call
    BY <1>1, <1>3, <1>5, <1>14, <2>1
  <2>2. CASE d \in copyCalls
    BY <1>14, <2>2 DEF IInv, CallsInv
  <2> QED
    BY <1>6, <2>1, <2>2
<1>16. WitnessInv' /\ SharedInv' /\ PartsInv' /\ AssignedInv'
  BY <1>6 DEF IInv, WitnessInv, SharedInv, PartsInv, AssignedInv, RowsOf
<1> QED
  BY <1>13, <1>15, <1>16 DEF IInv

LEMMA NextIInv == IInv /\ [Next]_vars => IInv'
<1> SUFFICES ASSUME IInv, [Next]_vars PROVE IInv'
  OBVIOUS
<1>1. CASE UNCHANGED vars
  BY <1>1 DEF vars, tableVars, usedVars, IInv, WitnessInv, SharedInv, PartsInv, AssignedInv,
              CopiesInv, CallsInv, RowsOf, MayRead
<1> QED
  BY <1>1, PlaceStep, AssignStep, SaveSharedStep, AddCopyConstraintStep DEF Next

-----------------------------------------------------------------------------
(* What the invariant means for the checks                                 *)

LEMMA IInvShared == IInv => SharedValuesStand
  BY DEF IInv, SharedInv, SharedValuesStand, VarValue, SharedVar

(* An enabled selector is a component's, in the part of its prover.        *)
LEMMA EnabledIsPlaced ==
    ASSUME IInv, NEW g \in Gate, NEW row \in enabled[g]
    PROVE  \E c \in components : /\ c.gate = g /\ c.row = row /\ c.prover \in Prover
                                 /\ g \in usedGates[c.prover]
                                 /\ row \in usedSelectorRows[c.prover]
  BY DEF IInv, PartsInv, Component

LEMMA CopiesAreCalls ==
    ASSUME IInv
    PROVE  (\A i \in DOMAIN copyConstraints : CopyHolds(i)) <=>
           (\A call \in copyCalls :
                VarValue(call.constraint.first) = VarValue(call.constraint.second))
<1>1. DOMAIN copyConstraints = 1..Len(copyConstraints)
  BY DEF IInv, CopiesInv
<1> QED
  BY <1>1 DEF IInv, CopiesInv, CopyHolds

LEMMA IInvWhole == IInv => WholeCheckExact
<1> SUFFICES ASSUME IInv, AllAssigned
             PROVE  WholeSatisfied <=>
                      /\ \A c \in components : GateHolds(c.gate, c.row)
                      /\ \A call \in copyCalls :
                            VarValue(call.constraint.first) = VarValue(call.constraint.second)
  BY DEF WholeCheckExact
<1>1. \A c \in components : /\ c.gate \in Gate /\ c.row \in enabled[c.gate]
                            /\ c.row \in SelectorRows
  <2> SUFFICES ASSUME NEW c \in components
               PROVE  c.gate \in Gate /\ c.row \in enabled[c.gate] /\ c.row \in SelectorRows
    OBVIOUS
  <2>1. c \in Component /\ c.row \in enabled[c.gate] /\ c.row < allocatedRows
    BY DEF IInv, PartsInv, AssignedInv, AllAssigned
  <2> QED
    BY <2>1, RowAssumption DEF Component, SelectorRows, IInv, WitnessInv
<1>2. (\A g \in Gate : \A row \in SelectorRows \cap enabled[g] : GateHolds(g, row)) <=>
      (\A c \in components : GateHolds(c.gate, c.row))
  <2>1. ASSUME \A g \in Gate : \A row \in SelectorRows \cap enabled[g] : GateHolds(g, row),
               NEW c \in components
        PROVE  GateHolds(c.gate, c.row)
    BY <1>1, <2>1
  <2>2. ASSUME \A c \in components : GateHolds(c.gate, c.row),
               NEW g \in Gate, NEW row \in enabled[g]
        PROVE  GateHolds(g, row)
    BY <2>2, EnabledIsPlaced
  <2> QED
    BY <2>1, <2>2
<1> QED
  BY <1>2, CopiesAreCalls DEF WholeSatisfied, IsSatisfied

LEMMA IInvParts == IInv => PartsCoverWhole
<1> SUFFICES ASSUME IInv
             PROVE  /\ (\A p \in Prover : PartSatisfiedWithSelectors(p)) => WholeSatisfied
                    /\ (\A p \in Prover : PartSatisfied(p)) =>
                          \A i \in DOMAIN copyConstraints : CopyHolds(i)
  BY DEF PartsCoverWhole
<1>1. \A i \in DOMAIN copyConstraints : \E p \in Prover : i \in usedCopies[p]
  BY DEF IInv, CopiesInv
<1>2. ASSUME \A p \in Prover : PartSatisfied(p)
      PROVE  \A i \in DOMAIN copyConstraints : CopyHolds(i)
  BY <1>1, <1>2 DEF PartSatisfied, IsSatisfied
<1>3. ASSUME \A p \in Prover : PartSatisfiedWithSelectors(p)
      PROVE  WholeSatisfied
  <2>1. \A i \in DOMAIN copyConstraints : CopyHolds(i)
    BY <1>1, <1>3 DEF PartSatisfiedWithSelectors, IsSatisfied
  <2>2. ASSUME NEW g \in Gate, NEW row \in enabled[g] PROVE GateHolds(g, row)
    <3>1. PICK p \in Prover : g \in usedGates[p] /\ row \in usedSelectorRows[p]
      BY EnabledIsPlaced
    <3> QED
      BY <1>3, <3>1 DEF PartSatisfiedWithSelectors, IsSatisfied
  <2> QED
    BY <2>1, <2>2 DEF WholeSatisfied, IsSatisfied
<1> QED
  BY <1>2, <1>3

LEMMA IInvReadable == IInv => PartReadable
<1> SUFFICES ASSUME IInv, AllAssigned, NEW p \in Prover
             PROVE  /\ \A g \in usedGates[p] : \A row \in usedSelectorRows[p] \cap enabled[g] :
                          MayRead(p, WitnessVar(row + g.rotation))
                    /\ \A i \in usedCopies[p] :
                          [prover |-> p, constraint |-> copyConstraints[i]] \in copyCalls =>
                              CopyReadable(p, i)
  BY DEF PartReadable
<1>1. ASSUME NEW g \in usedGates[p], NEW row \in usedSelectorRows[p]
      PROVE  MayRead(p, WitnessVar(row + g.rotation))
  <2>1. PICK c \in components : c.prover = p /\ c.row = row /\ c \in Component
    BY DEF IInv, PartsInv
  <2>2. RowsOf(c) \subseteq usedRows[p]
    BY <2>1 DEF IInv, AssignedInv, AllAssigned
  <2>3. g.rotation \in {0, 1} /\ row \in Nat
    BY <2>1, GateAssumption, RowAssumption DEF IInv, PartsInv, Component
  <2>4. row + g.rotation \in RowsOf(c)
    BY <2>1, <2>3 DEF RowsOf
  <2> QED
    BY <2>2, <2>4 DEF MayRead, WitnessVar
<1>2. ASSUME NEW i \in usedCopies[p],
             [prover |-> p, constraint |-> copyConstraints[i]] \in copyCalls
      PROVE  CopyReadable(p, i)
  <2>1. PICK call \in copyCalls : call = [prover |-> p, constraint |-> copyConstraints[i]]
    BY <1>2
  <2>2. call.prover = p /\ call.constraint = copyConstraints[i]
    BY <2>1
  <2> QED
    BY <2>2 DEF IInv, CallsInv, CopyReadable
<1> QED
  BY <1>1, <1>2

LEMMA IInvTyped == IInv => TypeOK
<1> SUFFICES ASSUME IInv PROVE TypeOK
  OBVIOUS
<1>1. components \subseteq [prover : Prover, gate : Gate, row : Row, assigned : BOOLEAN]
  <2>1. 0..(MaxRow - 1) \subseteq Row
    BY RowAssumption DEF Row
  <2> QED
    BY <2>1 DEF IInv, PartsInv, Component
<1>2. usedCopies \in [Prover -> SUBSET (1..MaxCopies)]
  <2>1. 1..Len(copyConstraints) \subseteq 1..MaxCopies
    BY RowAssumption DEF IInv, CopiesInv
  <2> QED
    BY <2>1 DEF IInv, CopiesInv
<1> QED
  BY <1>1, <1>2 DEF IInv, TypeOK, WitnessInv, SharedInv, PartsInv, CopiesInv

-----------------------------------------------------------------------------

(* Rows, parts and saved values keep their types.                          *)
THEOREM ProxiesAreTyped == Spec => []TypeOK
  BY InitIInv, NextIInv, IInvTyped, PTL DEF Spec

(* A value passed from one prover to another stays what it was, however    *)
(* many others save after it.                                              *)
THEOREM SharedValuesAreKept == Spec => []SharedValuesStand
  BY InitIInv, NextIInv, IInvShared, PTL DEF Spec

(* The check of the whole table looks at every row it has to look at, and  *)
(* at nothing that no component and no copy constraint asked for.          *)
THEOREM WholeCheckIsExact == Spec => []WholeCheckExact
  BY InitIInv, NextIInv, IInvWhole, PTL DEF Spec

(* The provers' parts leave out no gate on any row and no copy constraint. *)
THEOREM PartsCover == Spec => []PartsCoverWhole
  BY InitIInv, NextIInv, IInvParts, PTL DEF Spec

(* A prover can check its part from the rows it has noted alone.           *)
THEOREM PartsAreReadable == Spec => []PartReadable
  BY InitIInv, NextIInv, IInvReadable, PTL DEF Spec
=============================================================================
