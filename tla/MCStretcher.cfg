SPECIFICATION Spec
CONSTANTS
    Agents = 2
    RowsAmount = 4
    GateCount = 2
    Shapes <- PlainShapes
    Inputs <- OwnPublicInputs
INVARIANTS
    WitnessesReachGates
    ConstantsReachGates
    CopiedConstantsKept
CHECK_DEADLOCK FALSE
