SPECIFICATION Spec
CONSTANTS
    Server = {s1, s2}
    Value = {v1}
    Nil = Nil
    NoOp = NoOp
    Threshold = 1
    Chunks = 2
    QueueLimit = 8
    Bound <- SnapshotBound
SYMMETRY Symmetry
INVARIANTS
    AppliedIsStored
    SameTermSameData
    ResultsAreStored
CONSTRAINT CampaignsFollowWrites
CHECK_DEADLOCK FALSE
