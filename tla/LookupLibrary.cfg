SPECIFICATION LibrarySpec
CONSTANTS
    TableName = {t1, t2}
    Subtable = {s1, s2}
    Content = {c1}
    Undefined = Undefined
    MaxObjects = 3
INVARIANTS
    IndicesBijective
    HandedOutCoversReserved
PROPERTIES
    IndicesStable
CHECK_DEADLOCK FALSE
