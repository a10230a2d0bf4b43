SPECIFICATION Spec
CONSTANTS
    Server = {s1, s2}
    Value = {v1}
    Nil = Nil
    NoOp = NoOp
    Threshold = 0
    Chunks = 1
    QueueLimit = 8
    Bound <- PairBound
SYMMETRY Symmetry
INVARIANTS
    AcknowledgedSurvives
    OnlyLeadersOwe
    CompletedOwnEntry
CHECK_DEADLOCK FALSE
