SPECIFICATION FairSpec
CONSTANTS
    busy = busy
    static = static
    Nodes = {busy, static}
    MaxVersion <- Versioned
    QueueSize = 2
    Brisk = TRUE
    Prompt = TRUE
INVARIANTS Ordered StopEndsSession
PROPERTIES KeepsUp StopReturns
CHECK_DEADLOCK FALSE
