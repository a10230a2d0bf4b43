CONSTANTS
    a = a
    b = b
    Clients <- BothClients
    None = None
    MaxConnections = {1}
    QueueMax = 1
    ReadThreads = 1
    GracePolls = 1
    IdleTimeouts = {TRUE, FALSE}
    Kinds <- JustReads
    Unreliable = {}
    Window = 1
    MaxFrames = 1
SPECIFICATION Spec
PROPERTIES OnlyIdleTimedOut
