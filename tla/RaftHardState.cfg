SPECIFICATION Spec
CONSTANTS
    Server = {s1, s2}
    Value = {v1}
    Nil = Nil
    NoOp = NoOp
    Threshold = 0
    Chunks = 1
    QueueLimit = 8
    Bound <- SmallBound
SYMMETRY Symmetry
INVARIANT HardStateReloads
CHECK_DEADLOCK FALSE
