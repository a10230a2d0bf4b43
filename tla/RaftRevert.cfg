SPECIFICATION Spec
CONSTANTS
    Server = {s1, s2}
    Value = {v1, v2}
    Nil = Nil
    NoOp = NoOp
    Threshold = 1
    Chunks = 1
    QueueLimit = 8
    Bound <- RevertBound
SYMMETRY Symmetry
INVARIANT AppliedIsStored
CHECK_DEADLOCK FALSE
