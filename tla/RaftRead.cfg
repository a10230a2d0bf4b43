SPECIFICATION Spec
CONSTANTS
    Server = {s1, s2, s3}
    Value = {v1}
    Nil = Nil
    NoOp = NoOp
    Threshold = 0
    Chunks = 1
    QueueLimit = 1
    Bound <- ReadBound
SYMMETRY ServerSymmetry
CONSTRAINT ReadsFollowWrites
INVARIANTS
    ReadsSeeAcknowledged
CHECK_DEADLOCK FALSE
