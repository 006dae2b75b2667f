SPECIFICATION Spec
CONSTANTS
    Components = 2
    Witnesses = 5
    Width <- MCWidth
    Inputs = 2
    InputValue <- MCInputValue
    Value <- MCValue
    Zero = 0
    Function <- MCFunction
    MaxRequests = 4
    MaxFinalizations = 2
INVARIANTS
    PassesAgree
    ResultsMean
    NeverAborts
    CircuitSatisfied
PROPERTIES
    EarlierRowsKept
    KeepsPromise
CHECK_DEADLOCK FALSE
