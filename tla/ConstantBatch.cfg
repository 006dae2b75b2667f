SPECIFICATION Spec
CONSTANTS
    Value = {0, 7, 8}
    Zero = 0
    StartRow = {1}
    MaxRow = 4
    MaxUses = 2
INVARIANTS
    CopiesHold
    NeighbourGatesHold
PROPERTIES
    FinalizationResolves
CHECK_DEADLOCK FALSE
