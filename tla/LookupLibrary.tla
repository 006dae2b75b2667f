--------------------------- MODULE LookupLibrary ---------------------------
(***************************************************************************)
(* lookup_library (include/nil/blueprint/lookup_library.hpp): the tables a *)
(* circuit knows, the ones its components reserve, the index each reserved *)
(* name gets, and the maps handed out once reservation is over.            *)
(*                                                                         *)
(* A reserved name is "table/subtable" for a fixed table and the bare name *)
(* for a dynamic one: here <<table, subtable>> and <<table>>.  A dynamic   *)
(* table definition is an object reached through a shared pointer, so the  *)
(* objects are kept apart from the names that point to them.               *)
(* A failed BOOST_ASSERT ends the program: it is a guard.                  *)
(***************************************************************************)
EXTENDS Naturals, Sequences, FiniteSets

CONSTANTS
    TableName,   \* names of tables, fixed and dynamic alike
    Subtable,    \* names of subtables of fixed tables
    Content,     \* what a dynamic table may be defined as
    Undefined,   \* the content of a definition not yet defined
    MaxObjects   \* bound on the dynamic definitions ever created

ASSUME ContentAssumption == Undefined \notin Content
ASSUME MaxObjectsAssumption == MaxObjects \in Nat

VARIABLES
    tables,            \* fixed tables: name -> its subtables
    dynamicTables,     \* name -> index of its definition in objects
    objects,           \* every dynamic definition created, by its content
    reservedTables,    \* the names reserved
    reservedIndices,   \* name -> its index (the left view of the bimap)
    reservedAll,       \* TRUE once a getter has closed the reservation
    reservedTablesMap, \* fixed tables handed out: name -> subtables
    reservedDynamicMap \* dynamic tables handed out: name -> object

registry == <<tables, dynamicTables, objects>>
reserved == <<reservedTables, reservedIndices>>
handedOut == <<reservedAll, reservedTablesMap, reservedDynamicMap>>
libraryVars == <<registry, reserved, handedOut>>

ReservableName == (TableName \X Subtable) \cup {<<t>> : t \in TableName}

EmptyMap == [x \in {} |-> x]
With(f, x, y) == [z \in DOMAIN f \cup {x} |-> IF z = x THEN y ELSE f[z]]

LibraryInit ==
    /\ tables = EmptyMap
    /\ dynamicTables = EmptyMap
    /\ objects = <<>>
    /\ reservedTables = {}
    /\ reservedIndices = EmptyMap
    /\ reservedAll = FALSE
    /\ reservedTablesMap = EmptyMap
    /\ reservedDynamicMap = EmptyMap

-----------------------------------------------------------------------------
(* Registration *)

RegisterLookupTable(t, subtables) ==
    /\ tables' = With(tables, t, subtables)
    /\ UNCHANGED <<dynamicTables, objects, reserved, handedOut>>

(* register_dynamic_table: a new definition replaces the one t had. *)
NewDefinition(t, content) ==
    /\ t \notin DOMAIN tables
    /\ Len(objects) < MaxObjects
    /\ objects' = Append(objects, content)
    /\ dynamicTables' = With(dynamicTables, t, Len(objects) + 1)
    /\ UNCHANGED tables

RegisterDynamicTable(t) ==
    /\ NewDefinition(t, Undefined)
    /\ UNCHANGED <<reserved, handedOut>>

(* The definition that is defined is the one registered two lines above,  *)
(* so the assertion that it is not defined yet always holds.              *)
DefineDynamicTable(t, content) ==
    /\ NewDefinition(t, content)
    /\ UNCHANGED <<reserved, handedOut>>

-----------------------------------------------------------------------------
(* Reservation *)

(* Mutant: a name reserved twice is numbered again. *)
RenumberingReserve(name) ==
    /\ reservedTables' = reservedTables \cup {name}
    /\ reservedIndices' =
         With(reservedIndices, name, Cardinality(reservedTables'))

(* The index of a new name is the number of names with it; the bimap keeps *)
(* the entry of a name it already holds.                                   *)
Reserve(name) ==
    /\ reservedTables' = reservedTables \cup {name}
    /\ reservedIndices' =
         IF name \in DOMAIN reservedIndices THEN reservedIndices
         ELSE With(reservedIndices, name, Cardinality(reservedTables'))

ReserveTable(t, s) ==
    /\ ~reservedAll
    /\ t \in DOMAIN tables
    /\ s \in tables[t]
    /\ Reserve(<<t, s>>)
    /\ UNCHANGED <<registry, handedOut>>

(* Mutant: a dynamic table may be reserved after the maps are handed out. *)
LateReserveDynamicTable(t) ==
    /\ NewDefinition(t, Undefined)
    /\ Reserve(<<t>>)
    /\ UNCHANGED handedOut

ReserveDynamicTable(t) ==
    /\ ~reservedAll
    /\ NewDefinition(t, Undefined)
    /\ Reserve(<<t>>)
    /\ UNCHANGED handedOut

IsDynamic(name) == Len(name) = 1 /\ name[1] \in DOMAIN dynamicTables
ReservedFixed == {name \in reservedTables : ~IsDynamic(name)}
ReservedDynamic == {name \in reservedTables : IsDynamic(name)}

(* reservation_done, run by the first get_reserved_tables or              *)
(* get_reserved_dynamic_tables.                                           *)
ReservationDone ==
    /\ ~reservedAll
    /\ \A name \in ReservedFixed :
          /\ name[1] \in DOMAIN tables
          /\ name[2] \in tables[name[1]]
    /\ reservedAll' = TRUE
    /\ reservedDynamicMap' =
         [t \in {name[1] : name \in ReservedDynamic} |-> dynamicTables[t]]
    /\ reservedTablesMap' =
         [t \in {name[1] : name \in ReservedFixed} |->
            {s \in Subtable : <<t, s>> \in ReservedFixed}]
    /\ UNCHANGED <<registry, reserved>>

LibraryNext ==
    \/ \E t \in TableName, ss \in SUBSET Subtable : RegisterLookupTable(t, ss)
    \/ \E t \in TableName : RegisterDynamicTable(t)
    \/ \E t \in TableName, c \in Content : DefineDynamicTable(t, c)
    \/ \E t \in TableName, s \in Subtable : ReserveTable(t, s)
    \/ \E t \in TableName : ReserveDynamicTable(t)
    \/ ReservationDone

LibrarySpec == LibraryInit /\ [][LibraryNext]_libraryVars

-----------------------------------------------------------------------------
(* Properties *)

LibraryTypeOK ==
    /\ DOMAIN tables \subseteq TableName
    /\ \A t \in DOMAIN tables : tables[t] \subseteq Subtable
    /\ objects \in Seq(Content \cup {Undefined})
    /\ DOMAIN dynamicTables \subseteq TableName
    /\ \A t \in DOMAIN dynamicTables : dynamicTables[t] \in 1..Len(objects)
    /\ reservedTables \subseteq ReservableName
    /\ reservedAll \in BOOLEAN
    /\ DOMAIN reservedTablesMap \subseteq TableName
    /\ DOMAIN reservedDynamicMap \subseteq TableName

(* Whatever the order and the repetitions of the reservations, the indices *)
(* number the reserved names 1, 2, ..., n without a gap or a repetition:   *)
(* lookup constraints name tables by these indices, and the packing of the *)
(* tables and the satisfiability check map them back to names.             *)
IndicesBijective ==
    /\ DOMAIN reservedIndices = reservedTables
    /\ {reservedIndices[n] : n \in reservedTables} = 1..Cardinality(reservedTables)
    /\ \A m, n \in reservedTables :
          reservedIndices[m] = reservedIndices[n] => m = n

(* A component that looked its table's index up keeps using it: no later   *)
(* registration, definition or reservation renumbers a reserved name.      *)
IndicesStable ==
    [][\A n \in DOMAIN reservedIndices :
          /\ n \in DOMAIN reservedIndices'
          /\ reservedIndices'[n] = reservedIndices[n]]_libraryVars

(* Once the maps are handed out, every index leads to a table in them:     *)
(* a reserved subtable to its fixed table, a dynamic name to a definition. *)
HandedOutCoversReserved ==
    reservedAll =>
        \A n \in reservedTables :
            \/ /\ Len(n) = 2
               /\ n[1] \in DOMAIN reservedTablesMap
               /\ n[2] \in reservedTablesMap[n[1]]
            \/ /\ Len(n) = 1
               /\ n[1] \in DOMAIN reservedDynamicMap
=============================================================================
