SPECIFICATION FairSpec
CONSTANTS
    Server = {s1, s2, s3}
    Value = {v1}
    Nil = Nil
    NoOp = NoOp
    Threshold = 0
    Chunks = 1
    QueueLimit = 1
    Bound <- LivenessBound
PROPERTIES
    ProposalsComplete
CHECK_DEADLOCK FALSE
