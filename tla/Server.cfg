CONSTANTS
    a = a
    b = b
    Clients <- BothClients
    None = None
    MaxConnections = {1, 2}
    QueueMax = 1
    ReadThreads = 1
    GracePolls = 1
    IdleTimeouts = {TRUE}
    Kinds <- MCKinds
    Unreliable = {a}
    Window = 1
    MaxFrames = 2
SPECIFICATION FairSpec
INVARIANTS OneContinuation CleanExit
PROPERTIES Implements RequestsAnswered TimedOutCloses ShutdownEnds
