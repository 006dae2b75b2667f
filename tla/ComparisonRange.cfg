SPECIFICATION AlgorithmsSpec
CONSTANTS
    Declared <- MCDeclared
    Offer <- MCOffer
    Removable <- MCRemovable
    MaxParts = 3
    MaxAmount = 20
    WitnessColumns = 2
    ConstantColumns = 2
    Start = 4
    RowsAmount = 2
    MaxGates = 2
    MaxCopies = 2
    RowChoices = {3, 4, 5}
    GateChoices <- MCGateChoices
    CopyChoices <- MCCopyChoices
    IOChoices <- MCIOChoices
    Prime = 577
    Block = 3
    SmallPrime = 5
    NumberPrime = 307
    NativePrime = 32749
    KimchiGenerator = 5
    KimchiEndo = 363
    EdwardsPrime = 61
    EdwardsD = 2
    TinyCurve <- MCTiny
    VestaCurve <- MCVesta
    PallasCurve <- MCPallas
    RowKinds <- MCRowKinds
    Instances <- MCInstances
    Sample = {1, 2, 576}
INVARIANTS
    ComparedInRange
CHECK_DEADLOCK FALSE
