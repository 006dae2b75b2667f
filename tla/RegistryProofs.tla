--------------------------- MODULE RegistryProofs ---------------------------
(***************************************************************************)
(* Proofs about what hands out numbers by name: LookupLibrary the indices  *)
(* of reserved tables, for every set of names and every bound; Circuit,    *)
(* and CircuitProxy which extends it, the selectors of gates, for every    *)
(* number of components, proxies, constraints, selectors, gates and copy   *)
(* constraints.                                                            *)
(***************************************************************************)
EXTENDS LookupLibrary, CircuitProxy, FiniteSetTheorems, TLAPS

-----------------------------------------------------------------------------
(* The lookup library *)

(* The numbering is inductive once the set of reserved names is known to   *)
(* be finite: only then does adding a name add one to its cardinality.     *)
IndexInv ==
    /\ IsFiniteSet(reservedTables)
    /\ IndicesBijective

(* One reservation, of a new name or of one reserved before, keeps the     *)
(* numbering.                                                              *)
LEMMA ReserveKeepsIndices ==
    ASSUME IndexInv, NEW name, Reserve(name)
    PROVE  IndexInv'
<1> DEFINE n == Cardinality(reservedTables)
<1>1. n \in Nat
  BY FS_CardinalityType DEF IndexInv
<1>2. CASE name \in reservedTables
  <2>1. reservedTables' = reservedTables /\ reservedIndices' = reservedIndices
    BY <1>2 DEF Reserve, IndexInv, IndicesBijective
  <2>2. QED
    BY <2>1 DEF IndexInv, IndicesBijective
<1>3. CASE name \notin reservedTables
  <2>1. /\ reservedTables' = reservedTables \cup {name}
        /\ reservedIndices' = With(reservedIndices, name, Cardinality(reservedTables'))
    BY <1>3 DEF Reserve, IndexInv, IndicesBijective
  <2>2. /\ IsFiniteSet(reservedTables')
        /\ Cardinality(reservedTables') = n + 1
    BY <1>3, <2>1, FS_AddElement DEF IndexInv
  <2>3. /\ DOMAIN reservedIndices' = reservedTables'
        /\ reservedIndices'[name] = n + 1
        /\ \A m \in reservedTables : reservedIndices'[m] = reservedIndices[m]
    BY <1>3, <2>1, <2>2 DEF With, IndexInv, IndicesBijective
  <2>4. \A m \in reservedTables : reservedIndices[m] \in 1..n
    BY DEF IndexInv, IndicesBijective
  <2>5. {reservedIndices'[m] : m \in reservedTables'} = 1..(n + 1)
    <3>1. {reservedIndices'[m] : m \in reservedTables'}
            = {reservedIndices[m] : m \in reservedTables} \cup {n + 1}
      BY <2>1, <2>3
    <3>2. {reservedIndices[m] : m \in reservedTables} = 1..n
      BY DEF IndexInv, IndicesBijective
    <3>3. (1..n) \cup {n + 1} = 1..(n + 1)
      BY <1>1
    <3>4. QED
      BY <3>1, <3>2, <3>3
  <2>6. ASSUME NEW a \in reservedTables', NEW b \in reservedTables',
               reservedIndices'[a] = reservedIndices'[b]
        PROVE  a = b
    <3>1. CASE a \in reservedTables /\ b \in reservedTables
      BY <2>3, <2>6, <3>1 DEF IndexInv, IndicesBijective
    <3>2. CASE a = name /\ b \in reservedTables
      BY <1>1, <2>3, <2>4, <2>6, <3>2
    <3>3. CASE a \in reservedTables /\ b = name
      BY <1>1, <2>3, <2>4, <2>6, <3>3
    <3>4. QED
      BY <2>1, <3>1, <3>2, <3>3
  <2>7. QED
    BY <2>2, <2>3, <2>5, <2>6 DEF IndexInv, IndicesBijective
<1>4. QED
  BY <1>2, <1>3

LEMMA IndexInvInit == LibraryInit => IndexInv
<1> SUFFICES ASSUME LibraryInit PROVE IndexInv
  OBVIOUS
<1>1. reservedTables = {} /\ DOMAIN reservedIndices = {}
  BY DEF LibraryInit, EmptyMap
<1>2. IsFiniteSet(reservedTables) /\ Cardinality(reservedTables) = 0
  BY <1>1, FS_EmptySet
<1>3. {reservedIndices[n] : n \in reservedTables} = 1..0
  BY <1>1
<1>4. QED
  BY <1>1, <1>2, <1>3 DEF IndexInv, IndicesBijective

LEMMA IndexInvStep == IndexInv /\ [LibraryNext]_libraryVars => IndexInv'
<1> SUFFICES ASSUME IndexInv, [LibraryNext]_libraryVars PROVE IndexInv'
  OBVIOUS
<1>1. ASSUME UNCHANGED reserved PROVE IndexInv'
  BY <1>1 DEF reserved, IndexInv, IndicesBijective
<1>2. CASE \E t \in TableName, ss \in SUBSET Subtable : RegisterLookupTable(t, ss)
  BY <1>1, <1>2 DEF RegisterLookupTable
<1>3. CASE \E t \in TableName : RegisterDynamicTable(t)
  BY <1>1, <1>3 DEF RegisterDynamicTable
<1>4. CASE \E t \in TableName, c \in Content : DefineDynamicTable(t, c)
  BY <1>1, <1>4 DEF DefineDynamicTable
<1>5. CASE \E t \in TableName, s \in Subtable : ReserveTable(t, s)
  BY <1>5, ReserveKeepsIndices DEF ReserveTable
<1>6. CASE \E t \in TableName : ReserveDynamicTable(t)
  BY <1>6, ReserveKeepsIndices DEF ReserveDynamicTable
<1>7. CASE ReservationDone
  BY <1>1, <1>7 DEF ReservationDone
<1>8. CASE UNCHANGED libraryVars
  BY <1>1, <1>8 DEF libraryVars
<1>9. QED
  BY <1>2, <1>3, <1>4, <1>5, <1>6, <1>7, <1>8 DEF LibraryNext

(* In every run, the indices of the reserved names are exactly 1..n, one   *)
(* each: get_reserved_indices can be inverted by the satisfiability check. *)
THEOREM IndicesAreBijective == LibrarySpec => []IndicesBijective
<1>1. IndexInv => IndicesBijective
  BY DEF IndexInv
<1>2. QED
  BY IndexInvInit, IndexInvStep, <1>1, PTL DEF LibrarySpec

(* No step of the library renumbers a name reserved before it.             *)
THEOREM IndicesAreStable == LibrarySpec => IndicesStable
<1>1. ASSUME IndexInv, [LibraryNext]_libraryVars, NEW n \in DOMAIN reservedIndices
      PROVE  n \in DOMAIN reservedIndices' /\ reservedIndices'[n] = reservedIndices[n]
  <2>1. ASSUME UNCHANGED reserved
        PROVE  n \in DOMAIN reservedIndices' /\ reservedIndices'[n] = reservedIndices[n]
    BY <2>1 DEF reserved
  <2>2. ASSUME NEW name, Reserve(name)
        PROVE  n \in DOMAIN reservedIndices' /\ reservedIndices'[n] = reservedIndices[n]
    BY <2>2 DEF Reserve, With
  <2>3. QED
    BY <1>1, <2>1, <2>2 DEF LibraryNext, libraryVars, RegisterLookupTable, RegisterDynamicTable,
       DefineDynamicTable, ReserveTable, ReserveDynamicTable, ReservationDone
<1>2. IndexInv /\ [LibraryNext]_libraryVars
        => [\A n \in DOMAIN reservedIndices :
              /\ n \in DOMAIN reservedIndices'
              /\ reservedIndices'[n] = reservedIndices[n]]_libraryVars
  BY <1>1
<1>3. QED
  BY IndexInvInit, IndexInvStep, <1>2, PTL DEF LibrarySpec, IndicesStable

-----------------------------------------------------------------------------
(* Types, and what the maps hand out *)

LEMMA TypeInit == LibraryInit => LibraryTypeOK
<1> SUFFICES ASSUME LibraryInit PROVE LibraryTypeOK
  OBVIOUS
<1>1. /\ DOMAIN tables = {} /\ DOMAIN dynamicTables = {}
      /\ DOMAIN reservedTablesMap = {} /\ DOMAIN reservedDynamicMap = {}
  BY DEF LibraryInit, EmptyMap
<1>2. objects \in Seq(Content \cup {Undefined}) /\ reservedTables = {} /\ reservedAll = FALSE
  BY DEF LibraryInit
<1>3. QED
  BY <1>1, <1>2 DEF LibraryTypeOK

(* A new definition keeps the registry typed, and only adds names.         *)
LEMMA NewDefinitionTyped ==
    ASSUME LibraryTypeOK, NEW t \in TableName, NEW c \in Content \cup {Undefined}, NewDefinition(t, c)
    PROVE  /\ objects' \in Seq(Content \cup {Undefined})
           /\ DOMAIN dynamicTables' = DOMAIN dynamicTables \cup {t}
           /\ \A x \in DOMAIN dynamicTables' : dynamicTables'[x] \in 1..Len(objects')
           /\ tables' = tables
<1>1. /\ objects' = Append(objects, c)
      /\ objects \in Seq(Content \cup {Undefined})
      /\ dynamicTables' = With(dynamicTables, t, Len(objects) + 1)
      /\ tables' = tables
  BY DEF NewDefinition, LibraryTypeOK
<1>2. /\ objects' \in Seq(Content \cup {Undefined})
      /\ Len(objects) \in Nat
      /\ Len(objects') = Len(objects) + 1
  BY <1>1
<1>3. \A x \in DOMAIN dynamicTables : dynamicTables[x] \in 1..Len(objects)
  BY DEF LibraryTypeOK
<1>4. /\ DOMAIN dynamicTables' = DOMAIN dynamicTables \cup {t}
      /\ \A x \in DOMAIN dynamicTables' :
            dynamicTables'[x] = IF x = t THEN Len(objects) + 1 ELSE dynamicTables[x]
  BY <1>1 DEF With
<1>5. \A x \in DOMAIN dynamicTables' : dynamicTables'[x] \in 1..Len(objects')
  BY <1>2, <1>3, <1>4
<1>6. QED
  BY <1>1, <1>2, <1>4, <1>5

LEMMA TypeStep == LibraryTypeOK /\ [LibraryNext]_libraryVars => LibraryTypeOK'
<1> SUFFICES ASSUME LibraryTypeOK, [LibraryNext]_libraryVars PROVE LibraryTypeOK'
  OBVIOUS
<1>1. ASSUME NEW t \in TableName, NEW ss \in SUBSET Subtable, RegisterLookupTable(t, ss)
      PROVE  LibraryTypeOK'
  <2>1. /\ DOMAIN tables' = DOMAIN tables \cup {t}
        /\ \A x \in DOMAIN tables' : tables'[x] = IF x = t THEN ss ELSE tables[x]
    BY <1>1 DEF RegisterLookupTable, With
  <2>2. QED
    BY <1>1, <2>1 DEF RegisterLookupTable, reserved, handedOut, LibraryTypeOK
<1>2. ASSUME NEW t \in TableName, RegisterDynamicTable(t)
      PROVE  LibraryTypeOK'
  BY <1>2, NewDefinitionTyped DEF RegisterDynamicTable, reserved, handedOut, LibraryTypeOK
<1>3. ASSUME NEW t \in TableName, NEW c \in Content, DefineDynamicTable(t, c)
      PROVE  LibraryTypeOK'
  BY <1>3, NewDefinitionTyped DEF DefineDynamicTable, reserved, handedOut, LibraryTypeOK
<1>4. ASSUME NEW t \in TableName, NEW s \in Subtable, ReserveTable(t, s)
      PROVE  LibraryTypeOK'
  BY <1>4 DEF ReserveTable, Reserve, ReservableName, registry, handedOut, LibraryTypeOK
<1>5. ASSUME NEW t \in TableName, ReserveDynamicTable(t)
      PROVE  LibraryTypeOK'
  BY <1>5, NewDefinitionTyped DEF ReserveDynamicTable, Reserve, ReservableName, handedOut, LibraryTypeOK
<1>6. CASE ReservationDone
  <2>1. \A n \in reservedTables : n[1] \in TableName
    BY DEF LibraryTypeOK, ReservableName
  <2>2. QED
    BY <1>6, <2>1 DEF ReservationDone, ReservedFixed, ReservedDynamic, registry, reserved, LibraryTypeOK
<1>7. CASE UNCHANGED libraryVars
  BY <1>7 DEF libraryVars, registry, reserved, handedOut, LibraryTypeOK
<1>8. QED
  BY <1>1, <1>2, <1>3, <1>4, <1>5, <1>6, <1>7 DEF LibraryNext

(* The library's state has the types its members are declared with.        *)
THEOREM LibraryIsTyped == LibrarySpec => []LibraryTypeOK
  BY TypeInit, TypeStep, PTL DEF LibrarySpec

(* A bare name is reserved with a definition, which it keeps: so when the  *)
(* reservation is closed it is found among the dynamic tables.             *)
DynamicKnown ==
    \A n \in reservedTables : Len(n) = 1 => n[1] \in DOMAIN dynamicTables

HandedOutInv == LibraryTypeOK /\ DynamicKnown /\ HandedOutCoversReserved

LEMMA DynamicKnownStep == LibraryTypeOK /\ DynamicKnown /\ [LibraryNext]_libraryVars => DynamicKnown'
<1> SUFFICES ASSUME LibraryTypeOK, DynamicKnown, [LibraryNext]_libraryVars PROVE DynamicKnown'
  OBVIOUS
<1>1. ASSUME reservedTables' = reservedTables, DOMAIN dynamicTables \subseteq DOMAIN dynamicTables'
      PROVE  DynamicKnown'
  BY <1>1 DEF DynamicKnown
<1>2. ASSUME NEW t \in TableName, NEW ss \in SUBSET Subtable, RegisterLookupTable(t, ss)
      PROVE  DynamicKnown'
  BY <1>1, <1>2 DEF RegisterLookupTable, reserved
<1>3. ASSUME NEW t \in TableName, RegisterDynamicTable(t)
      PROVE  DynamicKnown'
  BY <1>1, <1>3, NewDefinitionTyped DEF RegisterDynamicTable, reserved
<1>4. ASSUME NEW t \in TableName, NEW c \in Content, DefineDynamicTable(t, c)
      PROVE  DynamicKnown'
  BY <1>1, <1>4, NewDefinitionTyped DEF DefineDynamicTable, reserved
<1>5. ASSUME NEW t \in TableName, NEW s \in Subtable, ReserveTable(t, s)
      PROVE  DynamicKnown'
  <2>1. Len(<<t, s>>) = 2
    OBVIOUS
  <2>2. QED
    BY <1>5, <2>1 DEF ReserveTable, Reserve, registry, DynamicKnown
<1>6. ASSUME NEW t \in TableName, ReserveDynamicTable(t)
      PROVE  DynamicKnown'
  <2>1. /\ reservedTables' = reservedTables \cup {<<t>>}
        /\ DOMAIN dynamicTables' = DOMAIN dynamicTables \cup {t}
    BY <1>6, NewDefinitionTyped DEF ReserveDynamicTable, Reserve
  <2>2. <<t>>[1] = t
    OBVIOUS
  <2>3. QED
    BY <2>1, <2>2 DEF DynamicKnown
<1>7. CASE ReservationDone
  BY <1>1, <1>7 DEF ReservationDone, registry, reserved
<1>8. CASE UNCHANGED libraryVars
  BY <1>1, <1>8 DEF libraryVars, registry, reserved
<1>9. QED
  BY <1>2, <1>3, <1>4, <1>5, <1>6, <1>7, <1>8 DEF LibraryNext

(* Closing the reservation finds every reserved name in one of the maps.   *)
LEMMA ClosingCovers ==
    ASSUME LibraryTypeOK, DynamicKnown, ReservationDone
    PROVE  HandedOutCoversReserved'
<1> SUFFICES ASSUME NEW n \in reservedTables
             PROVE  \/ /\ Len(n) = 2
                       /\ n[1] \in DOMAIN reservedTablesMap'
                       /\ n[2] \in reservedTablesMap'[n[1]]
                    \/ /\ Len(n) = 1
                       /\ n[1] \in DOMAIN reservedDynamicMap'
  BY DEF ReservationDone, reserved, HandedOutCoversReserved
<1>1. CASE n \in TableName \X Subtable
  <2>1. n = <<n[1], n[2]>> /\ n[2] \in Subtable /\ Len(n) = 2
    BY <1>1
  <2>2. n \in ReservedFixed
    BY <2>1 DEF ReservedFixed, IsDynamic
  <2>3. /\ n[1] \in DOMAIN reservedTablesMap'
        /\ reservedTablesMap'[n[1]] = {s \in Subtable : <<n[1], s>> \in ReservedFixed}
    BY <2>2 DEF ReservationDone
  <2>4. QED
    BY <2>1, <2>2, <2>3
<1>2. CASE \E t \in TableName : n = <<t>>
  <2>1. Len(n) = 1
    BY <1>2
  <2>2. n \in ReservedDynamic
    BY <2>1 DEF DynamicKnown, ReservedDynamic, IsDynamic
  <2>3. n[1] \in DOMAIN reservedDynamicMap'
    BY <2>2 DEF ReservationDone
  <2>4. QED
    BY <2>1, <2>3
<1>3. QED
  BY <1>1, <1>2 DEF LibraryTypeOK, ReservableName

LEMMA HandedOutStep == HandedOutInv /\ [LibraryNext]_libraryVars => HandedOutInv'
<1> SUFFICES ASSUME HandedOutInv, [LibraryNext]_libraryVars PROVE HandedOutInv'
  OBVIOUS
<1>1. LibraryTypeOK' /\ DynamicKnown'
  BY TypeStep, DynamicKnownStep DEF HandedOutInv
<1>2. CASE ReservationDone
  BY <1>1, <1>2, ClosingCovers DEF HandedOutInv
<1>3. CASE reserved' = reserved /\ handedOut' = handedOut
  BY <1>1, <1>3 DEF HandedOutInv, HandedOutCoversReserved, reserved, handedOut
<1>4. CASE ~reservedAll /\ handedOut' = handedOut
  BY <1>1, <1>4 DEF HandedOutInv, HandedOutCoversReserved, handedOut
<1>5. QED
  BY <1>2, <1>3, <1>4 DEF LibraryNext, libraryVars, RegisterLookupTable, RegisterDynamicTable,
     DefineDynamicTable, ReserveTable, ReserveDynamicTable

(* Once the maps are handed out, whatever was registered, defined again    *)
(* and reserved before, and whatever is registered afterwards, each index  *)
(* a lookup constraint may name leads to a table in one of the two maps.   *)
THEOREM HandedOutCovers == LibrarySpec => []HandedOutCoversReserved
<1>1. LibraryInit => HandedOutInv
  BY TypeInit DEF LibraryInit, HandedOutInv, DynamicKnown, HandedOutCoversReserved
<1>2. HandedOutInv => HandedOutCoversReserved
  BY DEF HandedOutInv
<1>3. QED
  BY <1>1, HandedOutStep, <1>2, PTL DEF LibrarySpec

-----------------------------------------------------------------------------
(* The circuit and its proxies *)

(* The selector maps give every identifier of both kinds a selector of its *)
(* own, below the counter.                                                 *)
MapInv ==
    /\ nextSelector \in Nat
    /\ DOMAIN selectorMap = Kind
    /\ \A k \in Kind : \A id \in DOMAIN selectorMap[k] :
          selectorMap[k][id] \in Nat /\ selectorMap[k][id] < nextSelector
    /\ \A k, l \in Kind : \A id \in DOMAIN selectorMap[k], jd \in DOMAIN selectorMap[l] :
          selectorMap[k][id] = selectorMap[l][jd] => k = l /\ id = jd

Entry == [selector : Nat, args : Seq(Constraint)]

(* Every identifier has its gate in the container.                         *)
GatesInv ==
    /\ gates \in [Kind -> Seq(Entry)]
    /\ \A k \in Kind : \A id \in DOMAIN selectorMap[k] :
          \E i \in DOMAIN gates[k] : /\ gates[k][i].selector = selectorMap[k][id]
                                     /\ Occurrences(gates[k][i].args) = id.constraints

(* An answer is what the map still says.                                   *)
AnswersInv ==
    \A a \in answers : /\ a.kind \in Kind
                       /\ GateId(a) \in DOMAIN selectorMap[a.kind]
                       /\ selectorMap[a.kind][GateId(a)] = a.selector

(* A dynamic tag is below the counter and outside the maps.                *)
DynamicInv ==
    /\ \A d \in dynamicSelectors :
          /\ d.selector \in Nat /\ d.selector < nextSelector
          /\ \A k \in Kind : \A id \in DOMAIN selectorMap[k] : selectorMap[k][id] # d.selector
    /\ \A d, e \in dynamicSelectors : d.caller # e.caller => d.selector # e.selector

RegistryInv == MapInv /\ GatesInv /\ AnswersInv

(* What the maps say implies what the callers rely on.                     *)
LEMMA RegistryMeans ==
    ASSUME RegistryInv
    PROVE  AnswersStand /\ SelectorsExclusive /\ GatesShared
<1>1. ASSUME NEW a \in answers
      PROVE  /\ a.kind \in Kind
             /\ GateId(a) \in DOMAIN selectorMap[a.kind]
             /\ selectorMap[a.kind][GateId(a)] = a.selector
             /\ GateId(a).constraints = Occurrences(a.args)
             /\ GateId(a).form = a.form
  BY DEF RegistryInv, AnswersInv, GateId
<1>2. AnswersStand
  <2> SUFFICES ASSUME NEW a \in answers
               PROVE  \E i \in DOMAIN gates[a.kind] :
                         /\ gates[a.kind][i].selector = a.selector
                         /\ Occurrences(gates[a.kind][i].args) = Occurrences(a.args)
    BY DEF AnswersStand, SameConstraints
  <2>1. PICK i \in DOMAIN gates[a.kind] :
           /\ gates[a.kind][i].selector = selectorMap[a.kind][GateId(a)]
           /\ Occurrences(gates[a.kind][i].args) = GateId(a).constraints
    BY <1>1 DEF RegistryInv, GatesInv
  <2>2. QED
    BY <1>1, <2>1
<1>3. SelectorsExclusive
  <2> SUFFICES ASSUME NEW a \in answers, NEW b \in answers, a.selector = b.selector
               PROVE  a.kind = b.kind /\ Occurrences(a.args) = Occurrences(b.args)
    BY DEF SelectorsExclusive, SameConstraints
  <2>1. a.kind = b.kind /\ GateId(a) = GateId(b)
    BY <1>1 DEF RegistryInv, MapInv
  <2>2. QED
    BY <1>1, <2>1
<1>4. GatesShared
  <2> SUFFICES ASSUME NEW a \in answers, NEW b \in answers, a.kind = b.kind,
                      a.form = b.form, Occurrences(a.args) = Occurrences(b.args)
               PROVE  a.selector = b.selector
    BY DEF GatesShared, SameConstraints
  <2>1. GateId(a) = GateId(b)
    BY DEF GateId
  <2>2. QED
    BY <1>1, <2>1
<1>5. QED
  BY <1>2, <1>3, <1>4

(* add_gate keeps the maps, the containers and the answers consistent, and *)
(* never gives an existing selector to a new identifier.                   *)
LEMMA AddGateKeepsRegistry ==
    ASSUME RegistryInv, NEW caller, NEW kind \in Kind, NEW call \in Call,
           AddGate(caller, kind, call)
    PROVE  /\ RegistryInv'
           /\ nextSelector' >= nextSelector
           /\ \A k \in Kind : \A id \in DOMAIN selectorMap'[k] :
                 \/ id \in DOMAIN selectorMap[k] /\ selectorMap'[k][id] = selectorMap[k][id]
                 \/ selectorMap'[k][id] = nextSelector
<1> DEFINE id == GateId(call)
           answer == [caller |-> caller, kind |-> kind, form |-> call.form,
                      args |-> call.args, selector |-> SelectorOf(kind, call)]
<1>1. /\ answers' = answers \cup {answer}
      /\ GateId(answer) = id
  BY DEF AddGate, GateId
<1>2. CASE Known(kind, call)
  <2>1. UNCHANGED <<gates, selectorMap, nextSelector>>
    BY <1>2 DEF AddGate
  <2>2. id \in DOMAIN selectorMap[kind] /\ answer.selector = selectorMap[kind][id]
    BY <1>2 DEF Known, SelectorOf
  <2>3. MapInv' /\ GatesInv'
    BY <2>1 DEF RegistryInv, MapInv, GatesInv
  <2>4. AnswersInv'
    BY <1>1, <2>1, <2>2 DEF RegistryInv, AnswersInv, GateId
  <2>5. QED
    BY <2>1, <2>3, <2>4 DEF RegistryInv, MapInv
<1>3. CASE ~Known(kind, call)
  <2>1. /\ selectorMap' = [selectorMap EXCEPT ![kind] =
                             [i \in DOMAIN @ \cup {id} |->
                                IF i = id THEN nextSelector ELSE @[i]]]
        /\ gates' = [gates EXCEPT ![kind] = Append(@, Gate(nextSelector, call.args))]
        /\ nextSelector' = nextSelector + 1
        /\ answer.selector = nextSelector
        /\ id \notin DOMAIN selectorMap[kind]
    BY <1>3 DEF AddGate, SelectorOf, NewSelector, Known
  <2>2. /\ DOMAIN selectorMap' = Kind
        /\ DOMAIN selectorMap'[kind] = DOMAIN selectorMap[kind] \cup {id}
        /\ selectorMap'[kind][id] = nextSelector
        /\ \A i \in DOMAIN selectorMap[kind] : selectorMap'[kind][i] = selectorMap[kind][i]
        /\ \A k \in Kind : k # kind => selectorMap'[k] = selectorMap[k]
    BY <2>1 DEF RegistryInv, MapInv
  <2>3. \A k \in Kind : \A i \in DOMAIN selectorMap'[k] :
           \/ i \in DOMAIN selectorMap[k] /\ selectorMap'[k][i] = selectorMap[k][i]
           \/ k = kind /\ i = id /\ selectorMap'[k][i] = nextSelector
    BY <2>2
  <2>4. nextSelector \in Nat
    BY DEF RegistryInv, MapInv
  <2>5. MapInv'
    <3>1. \A k \in Kind : \A i \in DOMAIN selectorMap'[k] :
             selectorMap'[k][i] \in Nat /\ selectorMap'[k][i] < nextSelector'
      BY <2>1, <2>3, <2>4 DEF RegistryInv, MapInv
    <3>2. ASSUME NEW k \in Kind, NEW l \in Kind,
                 NEW i \in DOMAIN selectorMap'[k], NEW j \in DOMAIN selectorMap'[l],
                 selectorMap'[k][i] = selectorMap'[l][j]
          PROVE  k = l /\ i = j
      BY <2>3, <2>4, <3>2 DEF RegistryInv, MapInv
    <3>3. nextSelector' \in Nat /\ DOMAIN selectorMap' = Kind
      BY <2>1, <2>2, <2>4
    <3>4. QED
      BY <3>1, <3>2, <3>3 DEF MapInv
  <2>6. GatesInv'
    <3>1. Gate(nextSelector, call.args) \in Entry
      <4>1. call.args \in Seq(Constraint)
        <5>1. CASE call \in [form : {"one"}, args : {<<c>> : c \in Constraint}]
          <6>1. PICK c \in Constraint : call.args = <<c>>
            BY <5>1
          <6>2. QED
            BY <6>1
        <5>2. CASE call \in [form : {"many"}, args : UNION {[1..n -> Constraint] :
                                                           n \in 1..MaxConstraints}]
          <6>1. PICK n \in 1..MaxConstraints : call.args \in [1..n -> Constraint]
            BY <5>2
          <6>2. n \in Nat
            BY BoundsAssumption
          <6>3. QED
            BY <6>1, <6>2
        <5>3. QED
          BY <5>1, <5>2 DEF Call
      <4>2. QED
        BY <2>4, <4>1 DEF Gate, Entry
    <3>2. /\ gates' \in [Kind -> Seq(Entry)]
          /\ gates'[kind] = Append(gates[kind], Gate(nextSelector, call.args))
          /\ \A k \in Kind : k # kind => gates'[k] = gates[k]
      BY <2>1, <3>1 DEF RegistryInv, GatesInv
    <3>3. /\ gates[kind] \in Seq(Entry)
          /\ Len(gates[kind]) + 1 \in DOMAIN gates'[kind]
          /\ gates'[kind][Len(gates[kind]) + 1] = Gate(nextSelector, call.args)
          /\ \A i \in DOMAIN gates[kind] :
                i \in DOMAIN gates'[kind] /\ gates'[kind][i] = gates[kind][i]
      BY <3>1, <3>2 DEF RegistryInv, GatesInv
    <3>4. Gate(nextSelector, call.args).selector = nextSelector
          /\ Occurrences(Gate(nextSelector, call.args).args) = id.constraints
      BY DEF Gate, GateId
    <3>5. ASSUME NEW k \in Kind, NEW i \in DOMAIN selectorMap'[k]
          PROVE  \E n \in DOMAIN gates'[k] :
                    /\ gates'[k][n].selector = selectorMap'[k][i]
                    /\ Occurrences(gates'[k][n].args) = i.constraints
      <4>1. CASE i \in DOMAIN selectorMap[k] /\ selectorMap'[k][i] = selectorMap[k][i]
        <5>1. PICK n \in DOMAIN gates[k] :
                 /\ gates[k][n].selector = selectorMap[k][i]
                 /\ Occurrences(gates[k][n].args) = i.constraints
          BY <4>1 DEF RegistryInv, GatesInv
        <5>2. n \in DOMAIN gates'[k] /\ gates'[k][n] = gates[k][n]
          BY <3>2, <3>3
        <5>3. QED
          BY <4>1, <5>1, <5>2
      <4>2. CASE k = kind /\ i = id /\ selectorMap'[k][i] = nextSelector
        BY <3>3, <3>4, <4>2
      <4>3. QED
        BY <2>3, <4>1, <4>2
    <3>6. QED
      BY <3>2, <3>5 DEF GatesInv
  <2>7. AnswersInv'
    <3>1. ASSUME NEW a \in answers
          PROVE  /\ a.kind \in Kind
                 /\ GateId(a) \in DOMAIN selectorMap'[a.kind]
                 /\ selectorMap'[a.kind][GateId(a)] = a.selector
      BY <2>2 DEF RegistryInv, AnswersInv
    <3>2. /\ answer.kind \in Kind
          /\ GateId(answer) \in DOMAIN selectorMap'[answer.kind]
          /\ selectorMap'[answer.kind][GateId(answer)] = answer.selector
      BY <1>1, <2>1, <2>2
    <3>3. ASSUME NEW a \in answers'
          PROVE  /\ a.kind \in Kind
                 /\ GateId(a) \in DOMAIN selectorMap'[a.kind]
                 /\ selectorMap'[a.kind][GateId(a)] = a.selector
      <4>1. a \in answers \/ a = answer
        BY <1>1
      <4>2. QED
        BY <3>1, <3>2, <4>1
    <3>4. QED
      BY <3>3 DEF AnswersInv
  <2>8. QED
    BY <2>1, <2>3, <2>4, <2>5, <2>6, <2>7 DEF RegistryInv
<1>4. QED
  BY <1>2, <1>3

LEMMA RegistryInit == Init => RegistryInv /\ DynamicInv
<1> SUFFICES ASSUME Init PROVE RegistryInv /\ DynamicInv
  OBVIOUS
<1>1. \A k \in Kind : selectorMap[k] = NoEntries /\ DOMAIN selectorMap[k] = {}
  BY DEF Init, NoEntries
<1>2. MapInv /\ AnswersInv /\ DynamicInv
  BY <1>1 DEF Init, MapInv, AnswersInv, DynamicInv
<1>3. GatesInv
  BY <1>1 DEF Init, GatesInv
<1>4. QED
  BY <1>2, <1>3 DEF RegistryInv

LEMMA RegistryStep == RegistryInv /\ DynamicInv /\ [Next]_vars => RegistryInv' /\ DynamicInv'
<1> SUFFICES ASSUME RegistryInv, DynamicInv, [Next]_vars
             PROVE  RegistryInv' /\ DynamicInv'
  OBVIOUS
<1>1. ASSUME NEW caller, NEW kind \in Kind, NEW call \in Call, AddGate(caller, kind, call)
      PROVE  RegistryInv' /\ DynamicInv'
  <2>1. /\ RegistryInv'
        /\ nextSelector' >= nextSelector
        /\ \A k \in Kind : \A id \in DOMAIN selectorMap'[k] :
              \/ id \in DOMAIN selectorMap[k] /\ selectorMap'[k][id] = selectorMap[k][id]
              \/ selectorMap'[k][id] = nextSelector
    BY <1>1, AddGateKeepsRegistry
  <2>2. nextSelector \in Nat /\ nextSelector' \in Nat
    BY <2>1 DEF RegistryInv, MapInv
  <2>3. dynamicSelectors' = dynamicSelectors
    BY <1>1 DEF AddGate
  <2>4. QED
    BY <2>1, <2>2, <2>3 DEF DynamicInv
<1>2. ASSUME NEW caller, NEW kind \in Kind, NEW selector \in Nat, NEW c \in Constraint,
             AttachGate(caller, kind, selector, <<c>>)
      PROVE  RegistryInv' /\ DynamicInv'
  <2>1. /\ gates' = [gates EXCEPT ![kind] = Append(@, Gate(selector, <<c>>))]
        /\ UNCHANGED <<selectorMap, nextSelector, answers, dynamicSelectors>>
    BY <1>2 DEF AttachGate
  <2>2. MapInv' /\ AnswersInv' /\ DynamicInv'
    BY <2>1 DEF RegistryInv, MapInv, AnswersInv, DynamicInv
  <2>3. Gate(selector, <<c>>) \in Entry
    BY DEF Gate, Entry
  <2>4. /\ gates' \in [Kind -> Seq(Entry)]
        /\ \A k \in Kind : \A i \in DOMAIN gates[k] :
              i \in DOMAIN gates'[k] /\ gates'[k][i] = gates[k][i]
    BY <2>1, <2>3 DEF RegistryInv, GatesInv
  <2>5. GatesInv'
    <3>1. ASSUME NEW k \in Kind, NEW id \in DOMAIN selectorMap[k]
          PROVE  \E i \in DOMAIN gates'[k] :
                    /\ gates'[k][i].selector = selectorMap[k][id]
                    /\ Occurrences(gates'[k][i].args) = id.constraints
      <4>1. PICK i \in DOMAIN gates[k] :
               /\ gates[k][i].selector = selectorMap[k][id]
               /\ Occurrences(gates[k][i].args) = id.constraints
        BY DEF RegistryInv, GatesInv
      <4>2. i \in DOMAIN gates'[k] /\ gates'[k][i] = gates[k][i]
        BY <2>4, <4>1
      <4> QED
        BY <4>1, <4>2
    <3>2. selectorMap' = selectorMap
      BY <2>1
    <3>3. QED
      BY <2>4, <3>1, <3>2 DEF GatesInv
  <2>6. QED
    BY <2>2, <2>5 DEF RegistryInv
<1>3. ASSUME NEW caller, GetDynamicLookupTableSelector(caller)
      PROVE  RegistryInv' /\ DynamicInv'
  <2>1. /\ UNCHANGED <<gates, selectorMap, answers>>
        /\ nextSelector' = nextSelector + 1
        /\ dynamicSelectors' =
             dynamicSelectors \cup {[caller |-> caller, selector |-> nextSelector]}
    BY <1>3 DEF GetDynamicLookupTableSelector
  <2>2. nextSelector \in Nat
    BY DEF RegistryInv, MapInv
  <2>3. MapInv' /\ GatesInv' /\ AnswersInv'
    BY <2>1, <2>2 DEF RegistryInv, MapInv, GatesInv, AnswersInv
  <2>4. DynamicInv'
    BY <2>1, <2>2 DEF RegistryInv, MapInv, DynamicInv
  <2>5. QED
    BY <2>3, <2>4 DEF RegistryInv
<1>4. ASSUME UNCHANGED <<gates, selectorMap, nextSelector, answers, dynamicSelectors>>
      PROVE  RegistryInv' /\ DynamicInv'
  BY <1>4 DEF RegistryInv, MapInv, GatesInv, AnswersInv, DynamicInv
<1>5. ASSUME NEW caller, NEW c, AddCopyConstraint(caller, c)
      PROVE  RegistryInv' /\ DynamicInv'
  BY <1>4, <1>5 DEF AddCopyConstraint
<1>6. CASE UNCHANGED vars
  BY <1>4, <1>6 DEF vars, circuitVars, historyVars
<1>7. ASSUME NEW caller, NEW kind \in Kind, NEW c \in Constraint,
             NEW selector \in 0..MaxSelectors, AttachGate(caller, kind, selector, <<c>>)
      PROVE  RegistryInv' /\ DynamicInv'
  BY <1>2, <1>7, BoundsAssumption
<1>8. CASE Next
  BY <1>1, <1>3, <1>5, <1>7, <1>8 DEF Next
<1>9. QED
  BY <1>6, <1>8

(* For every circuit: the selectors add_gate and add_lookup_gate have      *)
(* answered stand for exactly the constraints asked for, one selector for  *)
(* one thing.                                                              *)
THEOREM SelectorsMean == Spec => [](AnswersStand /\ SelectorsExclusive /\ GatesShared)
<1>1. Init => RegistryInv /\ DynamicInv
  BY RegistryInit
<1>2. RegistryInv /\ DynamicInv /\ [Next]_vars => (RegistryInv /\ DynamicInv)'
  BY RegistryStep
<1>3. RegistryInv => AnswersStand /\ SelectorsExclusive /\ GatesShared
  BY RegistryMeans
<1>4. QED
  BY <1>1, <1>2, <1>3, PTL DEF Spec

(* A gate, once answered, is never taken out of its container or changed,  *)
(* whatever is added after it.                                             *)
THEOREM AnswersAreKept == Spec => []AnswersStand
  BY SelectorsMean, PTL

(* For every circuit: the tag of a dynamic table, which                    *)
(* get_dynamic_lookup_table_selector takes from the same counter, is no    *)
(* gate's selector and no other caller's tag.                              *)
THEOREM DynamicSelectorsAreSeparate == Spec => []SeparateDynamicSelectors
<1>1. Init => RegistryInv /\ DynamicInv
  BY RegistryInit
<1>2. RegistryInv /\ DynamicInv /\ [Next]_vars => (RegistryInv /\ DynamicInv)'
  BY RegistryStep
<1>3. RegistryInv /\ DynamicInv => SeparateDynamicSelectors
  BY DEF RegistryInv, AnswersInv, DynamicInv, SeparateDynamicSelectors
<1>4. QED
  BY <1>1, <1>2, <1>3, PTL DEF Spec

-----------------------------------------------------------------------------
(* The proxies of one circuit *)

(* Proxies attach nothing to the shared circuit, so that every gate in it  *)
(* comes from the map, and is the only one with its selector.              *)
SharedInv ==
    /\ \A k \in Kind : \A i \in DOMAIN gates[k] :
          \E id \in DOMAIN selectorMap[k] :
              /\ gates[k][i].selector = selectorMap[k][id]
              /\ Occurrences(gates[k][i].args) = id.constraints
    /\ \A k \in Kind : \A i, j \in DOMAIN gates[k] :
          gates[k][i].selector = gates[k][j].selector => i = j

UsedInv ==
    /\ usedGates \in [Caller -> [Kind -> SUBSET Nat]]
    /\ \A p \in Caller, k \in Kind : usedGates[p][k] \subseteq DOMAIN gates[k]
    /\ UsedGatesExact

ProxyInv == RegistryInv /\ SharedInv /\ UsedInv

(* A call of add_gate moves no gate, and afterwards exactly one gate has   *)
(* the selector answered: the one with the constraints asked for.          *)
LEMMA AddGateKeepsShared ==
    ASSUME RegistryInv, SharedInv, NEW caller, NEW kind \in Kind, NEW call \in Call,
           AddGate(caller, kind, call)
    PROVE  /\ SharedInv'
           /\ \A k \in Kind : \A i \in DOMAIN gates[k] :
                 i \in DOMAIN gates'[k] /\ gates'[k][i] = gates[k][i]
           /\ GateIndex(kind, SelectorOf(kind, call)) \in DOMAIN gates'[kind]
           /\ SameConstraints(gates'[kind][GateIndex(kind, SelectorOf(kind, call))].args,
                              call.args)
<1> DEFINE id == GateId(call)
           selector == SelectorOf(kind, call)
<1>1. RegistryInv'
  BY AddGateKeepsRegistry
<1>2. /\ SharedInv'
      /\ \A k \in Kind : \A i \in DOMAIN gates[k] :
            i \in DOMAIN gates'[k] /\ gates'[k][i] = gates[k][i]
      /\ id \in DOMAIN selectorMap'[kind] /\ selectorMap'[kind][id] = selector
  <2>1. CASE Known(kind, call)
    <3>1. UNCHANGED <<gates, selectorMap, nextSelector>>
      BY <2>1 DEF AddGate
    <3>2. id \in DOMAIN selectorMap[kind] /\ selectorMap[kind][id] = selector
      BY <2>1 DEF Known, SelectorOf
    <3>3. SharedInv'
      BY <3>1 DEF SharedInv
    <3>4. QED
      BY <3>1, <3>2, <3>3
  <2>2. CASE ~Known(kind, call)
    <3> DEFINE gate == Gate(nextSelector, call.args)
               n == Len(gates[kind])
    <3>1. /\ selectorMap' = [selectorMap EXCEPT ![kind] =
                               [i \in DOMAIN @ \cup {id} |->
                                  IF i = id THEN nextSelector ELSE @[i]]]
          /\ gates' = [gates EXCEPT ![kind] = Append(@, gate)]
          /\ selector = nextSelector
          /\ id \notin DOMAIN selectorMap[kind]
      BY <2>2 DEF AddGate, SelectorOf, NewSelector, Known
    <3>2. /\ DOMAIN selectorMap'[kind] = DOMAIN selectorMap[kind] \cup {id}
          /\ selectorMap'[kind][id] = nextSelector
          /\ \A i \in DOMAIN selectorMap[kind] : selectorMap'[kind][i] = selectorMap[kind][i]
          /\ \A k \in Kind : k # kind => selectorMap'[k] = selectorMap[k]
      BY <3>1 DEF RegistryInv, MapInv
    <3>3. gates \in [Kind -> Seq(Entry)] /\ gates' \in [Kind -> Seq(Entry)]
      BY <1>1 DEF RegistryInv, GatesInv
    <3>4. /\ n \in Nat /\ DOMAIN gates[kind] = 1..n
          /\ gates'[kind] = Append(gates[kind], gate)
          /\ \A k \in Kind : k # kind => gates'[k] = gates[k]
      BY <3>1, <3>3
    <3>5. /\ DOMAIN gates'[kind] = 1..(n + 1)
          /\ gates'[kind][n + 1] = gate
          /\ \A i \in 1..n : gates'[kind][i] = gates[kind][i]
      BY <3>3, <3>4
    <3>6. gate.selector = nextSelector /\ Occurrences(gate.args) = id.constraints
      BY DEF Gate, GateId
    <3>7. \A k \in Kind : \A i \in DOMAIN gates[k] :
             gates[k][i].selector < nextSelector /\ gates[k][i].selector \in Nat
      BY DEF SharedInv, RegistryInv, MapInv
    <3>8. ASSUME NEW k \in Kind, NEW i \in DOMAIN gates'[k]
          PROVE  \E jd \in DOMAIN selectorMap'[k] :
                    /\ gates'[k][i].selector = selectorMap'[k][jd]
                    /\ Occurrences(gates'[k][i].args) = jd.constraints
      <4>1. CASE i \in DOMAIN gates[k]
        <5>1. PICK jd \in DOMAIN selectorMap[k] :
                 /\ gates[k][i].selector = selectorMap[k][jd]
                 /\ Occurrences(gates[k][i].args) = jd.constraints
          BY <4>1 DEF SharedInv
        <5>2. gates'[k][i] = gates[k][i]
          BY <3>4, <3>5, <4>1
        <5>3. jd \in DOMAIN selectorMap'[k] /\ selectorMap'[k][jd] = selectorMap[k][jd]
          BY <3>2
        <5>4. QED
          BY <5>1, <5>2, <5>3
      <4>2. CASE i \notin DOMAIN gates[k]
        <5>1. k = kind /\ i = n + 1
          BY <3>4, <3>5, <4>2
        <5>2. QED
          BY <3>2, <3>5, <3>6, <5>1
      <4>3. QED
        BY <4>1, <4>2
    <3>9. ASSUME NEW k \in Kind, NEW i \in DOMAIN gates'[k], NEW j \in DOMAIN gates'[k],
                 gates'[k][i].selector = gates'[k][j].selector
          PROVE  i = j
      <4>1. CASE k # kind
        BY <3>4, <3>9, <4>1 DEF SharedInv
      <4>2. CASE k = kind
        <5>1. \A m \in 1..n : /\ gates'[kind][m] = gates[kind][m]
                              /\ gates[kind][m].selector \in Nat
                              /\ gates[kind][m].selector < nextSelector
          BY <3>4, <3>5, <3>7
        <5>2. CASE i \in 1..n /\ j \in 1..n
          BY <3>4, <3>9, <4>2, <5>1, <5>2 DEF SharedInv
        <5>3. CASE i = n + 1 \/ j = n + 1
          <6>1. nextSelector \in Nat
            BY DEF RegistryInv, MapInv
          <6>2. gates'[kind][n + 1].selector = nextSelector
            BY <3>5, <3>6
          <6>3. \A m \in 1..n : gates'[kind][m].selector # nextSelector
            BY <5>1, <6>1
          <6>4. i \in 1..(n + 1) /\ j \in 1..(n + 1)
            BY <3>5, <4>2
          <6>5. \A m \in 1..(n + 1) : m \in 1..n \/ m = n + 1
            BY <3>4
          <6>6. gates'[kind][i].selector = gates'[kind][j].selector
            BY <3>9, <4>2
          <6>7. QED
            BY <5>3, <6>2, <6>3, <6>4, <6>5, <6>6
        <5>4. QED
          BY <3>4, <3>5, <4>2, <5>2, <5>3
      <4>3. QED
        BY <4>1, <4>2
    <3>10. SharedInv'
      BY <3>8, <3>9 DEF SharedInv
    <3>11. QED
      BY <3>1, <3>2, <3>4, <3>5, <3>10
  <2>3. QED
    BY <2>1, <2>2
<1>3. PICK n \in DOMAIN gates'[kind] :
         /\ gates'[kind][n].selector = selector
         /\ Occurrences(gates'[kind][n].args) = id.constraints
  BY <1>1, <1>2 DEF RegistryInv, GatesInv
<1>4. \A i, j \in DOMAIN gates'[kind] :
         gates'[kind][i].selector = gates'[kind][j].selector => i = j
  BY <1>2 DEF SharedInv
<1>5. gates'[kind] \in Seq(Entry) /\ DOMAIN gates'[kind] = 1..Len(gates'[kind])
  BY <1>1 DEF RegistryInv, GatesInv
<1>6. \A j \in 1..(n - 1) : j \in DOMAIN gates'[kind] /\ j # n
  BY <1>5
<1>7. \A j \in 1..(n - 1) : gates'[kind][j].selector # selector
  BY <1>3, <1>4, <1>6
<1>8. /\ GateIndex(kind, selector) \in DOMAIN gates'[kind]
      /\ gates'[kind][GateIndex(kind, selector)].selector = selector
  BY <1>3, <1>7 DEF GateIndex
<1>9. GateIndex(kind, selector) = n
  BY <1>3, <1>4, <1>8
<1>10. id.constraints = Occurrences(call.args)
  BY DEF GateId
<1>11. QED
  BY <1>2, <1>3, <1>8, <1>9, <1>10 DEF SameConstraints

(* A call through a proxy keeps every proxy's set of used gates exact.     *)
LEMMA ProxyAddGateKeeps ==
    ASSUME ProxyInv, NEW p \in Caller, NEW kind \in Kind, NEW call \in Call,
           ProxyAddGate(p, kind, call)
    PROVE  ProxyInv'
<1> DEFINE n == GateIndex(kind, SelectorOf(kind, call))
           answer == [caller |-> p, kind |-> kind, form |-> call.form,
                      args |-> call.args, selector |-> SelectorOf(kind, call)]
<1>1. AddGate(p, kind, call)
  BY DEF ProxyAddGate
<1>2. RegistryInv'
  BY <1>1, AddGateKeepsRegistry DEF ProxyInv
<1>3. /\ SharedInv'
      /\ \A k \in Kind : \A i \in DOMAIN gates[k] :
            i \in DOMAIN gates'[k] /\ gates'[k][i] = gates[k][i]
      /\ n \in DOMAIN gates'[kind]
      /\ SameConstraints(gates'[kind][n].args, call.args)
  BY <1>1, AddGateKeepsShared DEF ProxyInv
<1>4. /\ answers' = answers \cup {answer}
      /\ answer.caller = p /\ answer.kind = kind /\ answer.args = call.args
  BY <1>1 DEF AddGate
<1>5. DOMAIN gates'[kind] \subseteq Nat
  BY <1>2 DEF RegistryInv, GatesInv
<1>6. /\ usedGates' \in [Caller -> [Kind -> SUBSET Nat]]
      /\ usedGates'[p][kind] = usedGates[p][kind] \cup {n}
      /\ \A q \in Caller, k \in Kind : q # p \/ k # kind => usedGates'[q][k] = usedGates[q][k]
  BY <1>3, <1>5 DEF ProxyAddGate, ProxyInv, UsedInv
<1>7. \A q \in Caller, k \in Kind : usedGates'[q][k] \subseteq DOMAIN gates'[k]
  BY <1>3, <1>6 DEF ProxyInv, UsedInv
<1>8. ASSUME NEW q \in Caller, NEW k \in Kind, NEW a \in answers',
             a.caller = q, a.kind = k
      PROVE  \E i \in usedGates'[q][k] : SameConstraints(gates'[k][i].args, a.args)
  <2>1. CASE a = answer
    BY <1>3, <1>4, <1>6, <1>8, <2>1
  <2>2. CASE a \in answers
    <3>1. PICK i \in usedGates[q][k] : SameConstraints(gates[k][i].args, a.args)
      BY <1>8, <2>2 DEF ProxyInv, UsedInv, UsedGatesExact
    <3>2. i \in DOMAIN gates[k] /\ i \in usedGates'[q][k]
      BY <1>6 DEF ProxyInv, UsedInv
    <3>3. gates'[k][i] = gates[k][i]
      BY <1>3, <3>2
    <3>4. QED
      BY <3>1, <3>2, <3>3
  <2>3. QED
    BY <1>4, <2>1, <2>2
<1>9. ASSUME NEW q \in Caller, NEW k \in Kind, NEW i \in usedGates'[q][k]
      PROVE  \E a \in answers' : /\ a.caller = q /\ a.kind = k
                                 /\ SameConstraints(gates'[k][i].args, a.args)
  <2>1. CASE i \in usedGates[q][k]
    <3>1. PICK a \in answers : /\ a.caller = q /\ a.kind = k
                               /\ SameConstraints(gates[k][i].args, a.args)
      BY <2>1 DEF ProxyInv, UsedInv, UsedGatesExact
    <3>2. gates'[k][i] = gates[k][i]
      BY <1>3, <2>1 DEF ProxyInv, UsedInv
    <3>3. QED
      BY <1>4, <3>1, <3>2
  <2>2. CASE i \notin usedGates[q][k]
    <3>1. q = p /\ k = kind /\ i = n
      BY <1>6, <2>2
    <3>2. QED
      BY <1>3, <1>4, <3>1
  <2>3. QED
    BY <2>1, <2>2
<1>10. UsedGatesExact'
  BY <1>8, <1>9 DEF UsedGatesExact
<1>11. QED
  BY <1>2, <1>3, <1>6, <1>7, <1>10 DEF ProxyInv, UsedInv

LEMMA ProxyInvInit == ProxyInit => ProxyInv
<1> SUFFICES ASSUME ProxyInit PROVE ProxyInv
  OBVIOUS
<1>1. RegistryInv
  BY RegistryInit DEF ProxyInit
<1>2. \A k \in Kind : gates[k] = <<>> /\ DOMAIN gates[k] = {}
  BY DEF ProxyInit, Init
<1>3. SharedInv
  BY <1>2 DEF SharedInv
<1>4. answers = {} /\ usedGates = [p \in Caller |-> [k \in Kind |-> {}]]
  BY DEF ProxyInit, Init
<1>5. UsedInv
  BY <1>4 DEF UsedInv, UsedGatesExact
<1>6. QED
  BY <1>1, <1>3, <1>5 DEF ProxyInv

LEMMA ProxyInvStep == ProxyInv /\ [ProxyNext]_allVars => ProxyInv'
<1> SUFFICES ASSUME ProxyInv, [ProxyNext]_allVars PROVE ProxyInv'
  OBVIOUS
<1>1. ASSUME UNCHANGED <<gates, selectorMap, nextSelector, answers, usedGates>>
      PROVE  ProxyInv'
  <2>1. RegistryInv'
    BY <1>1 DEF ProxyInv, RegistryInv, MapInv, GatesInv, AnswersInv
  <2>2. SharedInv'
    BY <1>1 DEF ProxyInv, SharedInv
  <2>3. UsedInv'
    BY <1>1 DEF ProxyInv, UsedInv, UsedGatesExact
  <2>4. QED
    BY <2>1, <2>2, <2>3 DEF ProxyInv
<1>2. ASSUME NEW p \in Caller, NEW kind \in Kind, NEW call \in Call,
             ProxyAddGate(p, kind, call)
      PROVE  ProxyInv'
  BY <1>2, ProxyAddGateKeeps
<1>3. ASSUME NEW p \in Caller, NEW c, ProxyAddCopyConstraint(p, c)
      PROVE  ProxyInv'
  BY <1>1, <1>3 DEF ProxyAddCopyConstraint, AddCopyConstraint
<1>4. ASSUME NEW p \in Caller, NEW kind, NEW selector, NEW args,
             ProxyAttachGate(p, kind, selector, args)
      PROVE  ProxyInv'
  BY <1>1, <1>4 DEF ProxyAttachGate, circuitVars
<1>5. ASSUME NEW p \in Caller, ProxyGetDynamicLookupTableSelector(p)
      PROVE  ProxyInv'
  BY <1>1, <1>5 DEF ProxyGetDynamicLookupTableSelector, circuitVars
<1>6. CASE UNCHANGED allVars
  BY <1>1, <1>6 DEF allVars, vars, circuitVars, historyVars, proxyVars
<1>7. CASE ProxyNext
  <2>1. PICK p \in Caller :
          \/ \E kind \in Kind, call \in Call : ProxyAddGate(p, kind, call)
          \/ \E c \in CopyConstraint : ProxyAddCopyConstraint(p, c)
          \/ \E kind \in Kind, c \in Constraint, selector \in Selector :
                ProxyAttachGate(p, kind, selector, <<c>>)
          \/ ProxyGetDynamicLookupTableSelector(p)
    BY <1>7 DEF ProxyNext
  <2>2. QED
    BY <1>2, <1>3, <1>4, <1>5, <2>1
<1>8. QED
  BY <1>6, <1>7

(* For any number of proxies on one circuit, whatever the order of their   *)
(* calls: used_gates and used_lookup_gates of each hold the gates its own  *)
(* components asked for, and no others.                                    *)
THEOREM ProxiesKnowTheirGates == ProxySpec => []UsedGatesExact
<1>1. ProxyInit => ProxyInv
  BY ProxyInvInit
<1>2. ProxyInv /\ [ProxyNext]_allVars => ProxyInv'
  BY ProxyInvStep
<1>3. ProxyInv => UsedGatesExact
  BY DEF ProxyInv, UsedInv
<1>4. QED
  BY <1>1, <1>2, <1>3, PTL DEF ProxySpec

(* The proxies agree on the selectors, and share the gates they have in    *)
(* common.                                                                 *)
THEOREM ProxiesShareSelectors == ProxySpec => [](SelectorsExclusive /\ GatesShared)
<1>1. ProxyInit => ProxyInv
  BY ProxyInvInit
<1>2. ProxyInv /\ [ProxyNext]_allVars => ProxyInv'
  BY ProxyInvStep
<1>3. ProxyInv => SelectorsExclusive /\ GatesShared
  BY RegistryMeans DEF ProxyInv
<1>4. QED
  BY <1>1, <1>2, <1>3, PTL DEF ProxySpec
-----------------------------------------------------------------------------
(* Copy constraints *)

(* A request that was not dropped is in the circuit, at an index its own   *)
(* proxy has noted.                                                        *)
CopiesInv ==
    /\ copyConstraints \in Seq(CopyConstraint)
    /\ DOMAIN usedCopyConstraints = Caller
    /\ \A p \in Caller : usedCopyConstraints[p] \subseteq DOMAIN copyConstraints
    /\ \A r \in copyRequests : r.caller \in Caller
    /\ UsedCopyConstraintsCover

(* add_copy_constraint through a proxy: the last copy constraint after the *)
(* call is the one asked for, unless it was dropped.                       *)
LEMMA ProxyAddCopyConstraintKeeps ==
    ASSUME CopiesInv, NEW p \in Caller, NEW c \in CopyConstraint,
           ProxyAddCopyConstraint(p, c)
    PROVE  CopiesInv'
<1> DEFINE request == [caller |-> p, constraint |-> c]
           n == Len(copyConstraints)
<1>1. /\ copyRequests' = copyRequests \cup {request}
      /\ copyConstraints' = IF Dropped(c) THEN copyConstraints
                            ELSE Append(copyConstraints, c)
      /\ usedCopyConstraints' =
           [usedCopyConstraints EXCEPT ![p] = @ \cup {i \in {Len(copyConstraints')} : i > 0}]
  BY DEF ProxyAddCopyConstraint, AddCopyConstraint, LastCopyConstraint
<1>2. n \in Nat /\ DOMAIN copyConstraints = 1..n
  BY DEF CopiesInv
<1>3. /\ copyConstraints' \in Seq(CopyConstraint)
      /\ \A i \in DOMAIN copyConstraints :
            i \in DOMAIN copyConstraints' /\ copyConstraints'[i] = copyConstraints[i]
      /\ ~Dropped(c) => /\ n + 1 \in DOMAIN copyConstraints'
                        /\ copyConstraints'[n + 1] = c
                        /\ Len(copyConstraints') = n + 1
  BY <1>1, <1>2 DEF CopiesInv
<1>4. {i \in {Len(copyConstraints')} : i > 0} \subseteq DOMAIN copyConstraints'
  BY <1>3
<1>5. /\ DOMAIN usedCopyConstraints' = Caller
      /\ usedCopyConstraints'[p] =
            usedCopyConstraints[p] \cup {i \in {Len(copyConstraints')} : i > 0}
      /\ \A q \in Caller : q # p => usedCopyConstraints'[q] = usedCopyConstraints[q]
  BY <1>1 DEF CopiesInv
<1>6. \A q \in Caller : usedCopyConstraints'[q] \subseteq DOMAIN copyConstraints'
  <2> SUFFICES ASSUME NEW q \in Caller
               PROVE  usedCopyConstraints'[q] \subseteq DOMAIN copyConstraints'
    OBVIOUS
  <2>1. usedCopyConstraints[q] \subseteq DOMAIN copyConstraints'
    BY <1>3 DEF CopiesInv
  <2>2. QED
    BY <1>4, <1>5, <2>1
<1>7. \A r \in copyRequests' : r.caller \in Caller
  BY <1>1 DEF CopiesInv
<1>8. ASSUME NEW r \in copyRequests', ~Dropped(r.constraint)
      PROVE  \E i \in usedCopyConstraints'[r.caller] : copyConstraints'[i] = r.constraint
  <2>1. CASE r \in copyRequests
    <3>1. r.caller \in Caller
      BY <2>1 DEF CopiesInv
    <3>2. PICK i \in usedCopyConstraints[r.caller] : copyConstraints[i] = r.constraint
      BY <1>8, <2>1 DEF CopiesInv, UsedCopyConstraintsCover
    <3>3. i \in DOMAIN copyConstraints
      BY <3>1, <3>2 DEF CopiesInv
    <3>4. i \in usedCopyConstraints'[r.caller]
      BY <1>5, <3>1, <3>2
    <3>5. QED
      BY <1>3, <3>2, <3>3, <3>4
  <2>2. CASE r = request
    <3>1. r.caller = p /\ r.constraint = c
      BY <2>2
    <3>2. ~Dropped(c)
      BY <1>8, <3>1
    <3>3. n + 1 \in usedCopyConstraints'[p]
      BY <1>2, <1>3, <1>5, <3>2
    <3>4. QED
      BY <1>3, <3>1, <3>2, <3>3
  <2>3. QED
    BY <1>1, <2>1, <2>2
<1>9. UsedCopyConstraintsCover'
  BY <1>8 DEF UsedCopyConstraintsCover, Dropped
<1>10. QED
  BY <1>3, <1>5, <1>6, <1>7, <1>9 DEF CopiesInv

LEMMA CopiesInvInit == ProxyInit => CopiesInv
  BY DEF ProxyInit, Init, CopiesInv, UsedCopyConstraintsCover

LEMMA CopiesInvStep == CopiesInv /\ [ProxyNext]_allVars => CopiesInv'
<1> SUFFICES ASSUME CopiesInv, [ProxyNext]_allVars PROVE CopiesInv'
  OBVIOUS
<1>1. ASSUME UNCHANGED <<copyConstraints, copyRequests, usedCopyConstraints>>
      PROVE  CopiesInv'
  BY <1>1 DEF CopiesInv, UsedCopyConstraintsCover, Dropped
<1>2. ASSUME NEW p \in Caller, NEW kind \in Kind, NEW call \in Call,
             ProxyAddGate(p, kind, call)
      PROVE  CopiesInv'
  BY <1>1, <1>2 DEF ProxyAddGate, AddGate
<1>3. ASSUME NEW p \in Caller, NEW c \in CopyConstraint, ProxyAddCopyConstraint(p, c)
      PROVE  CopiesInv'
  BY <1>3, ProxyAddCopyConstraintKeeps
<1>4. ASSUME NEW p \in Caller, NEW kind, NEW selector, NEW args,
             ProxyAttachGate(p, kind, selector, args)
      PROVE  CopiesInv'
  BY <1>1, <1>4 DEF ProxyAttachGate, circuitVars
<1>5. ASSUME NEW p \in Caller, ProxyGetDynamicLookupTableSelector(p)
      PROVE  CopiesInv'
  BY <1>1, <1>5 DEF ProxyGetDynamicLookupTableSelector, circuitVars
<1>6. CASE UNCHANGED allVars
  BY <1>1, <1>6 DEF allVars, vars, circuitVars, historyVars, proxyVars
<1>7. CASE ProxyNext
  BY <1>2, <1>3, <1>4, <1>5, <1>7 DEF ProxyNext
<1>8. QED
  BY <1>6, <1>7

(* For any number of proxies, whatever the order of their calls: a copy    *)
(* constraint a prover's components asked for, and the circuit did not     *)
(* drop, is among that prover's used_copy_constraints for good.            *)
THEOREM ProxiesKeepTheirCopies == ProxySpec => []UsedCopyConstraintsCover
<1>1. CopiesInv => UsedCopyConstraintsCover
  BY DEF CopiesInv
<1>2. QED
  BY <1>1, CopiesInvInit, CopiesInvStep, PTL DEF ProxySpec
=============================================================================
