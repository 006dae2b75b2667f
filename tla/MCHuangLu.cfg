SPECIFICATION SearchSpec
CONSTANTS
    Agents = 3
INVARIANTS
    IntervalMeans
    EveryTaskAssigned
    WithinRatio
PROPERTIES
    SearchEnds
CHECK_DEADLOCK FALSE
