SPECIFICATION Spec
CONSTANTS
    Server = {s1, s2, s3}
    Value = {v1}
    Nil = Nil
    NoOp = NoOp
    Threshold = 0
    Chunks = 1
    QueueLimit = 1
    Bound <- ReplicationBound
SYMMETRY ServerSymmetry
INVARIANTS
    ElectionSafety
    CommittedAgree
    AcknowledgedSurvives
PROPERTIES
    CommittedStays
CONSTRAINT CampaignsFollowWrites
CHECK_DEADLOCK FALSE
