SPECIFICATION Spec
CONSTANTS
    Caller = {k1, k2}
    Constraint = {c1, c2}
    MaxConstraints = 2
    Place = {w1, p1}
    Private = {p1}
    MaxSelectors = 3
    MaxGates = 2
    MaxAnswers = 2
    MaxAttachments = 1
    MaxCopies = 1
SYMMETRY Symmetry
INVARIANTS
    AnswersStand
    SelectorsExclusive
    GatesShared
    SeparateDynamicSelectors
CHECK_DEADLOCK FALSE
