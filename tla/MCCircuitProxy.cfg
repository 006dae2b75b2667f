SPECIFICATION ProxySpec
CONSTANTS
    Caller = {k1, k2}
    Constraint = {c1, c2}
    MaxConstraints = 2
    Place = {w1, w2, p1}
    Private = {p1}
    MaxSelectors = 3
    MaxGates = 2
    MaxAnswers = 4
    MaxAttachments = 1
    MaxCopies = 3
    MaxCalls = 4
SYMMETRY Symmetry
INVARIANTS
    UsedGatesExact
    UsedCopyConstraintsCover
CHECK_DEADLOCK FALSE
