SPECIFICATION Spec
CONSTANTS
    p1 = p1
    p2 = p2
    Prover <- MCProver
    Value <- MCValue
    Gate <- MCGate
    Zero = 0
    MaxRow = 3
    MaxShared = 2
    MaxCopies = 1
SYMMETRY Symmetry
INVARIANTS
    SharedValuesStand
    WholeCheckExact
    
    PartReadable
CHECK_DEADLOCK FALSE
