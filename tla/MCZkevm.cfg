SPECIFICATION ZkevmSpec
CONSTANTS
    Prime = 5
    OptionsAmount = 5
    Height <- MCHeight
    GateRow <- MCGateRow
    Step = {0, 1, 2}
    Pc = {0, 1}
    MaxRows = 5
    Modulus = 5
    Byte = {0, 1, 2}
    PushSize <- MCPush
    Hash = {0, 1}
    Challenge = {1, 2}
    MaxHeader = 2
    MaxCode = 3
    MaxTable = 5
    FieldSize = 113
    ChunkBase = 2
    Triples = 2
    LimbBase = 3
    Operand = {0, 1, 8, 85, 127}
    LimbOperand = {0, 1, 8, 53, 80}
INVARIANTS
    
    RowsBelongToRuns
    SelectsOneOpcode
    GatesApplied
    ContractsAreAssigned
    
CHECK_DEADLOCK FALSE
