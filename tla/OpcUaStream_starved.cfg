SPECIFICATION FairSpec
CONSTANTS
    busy = busy
    static = static
    Nodes = {busy, static}
    MaxVersion <- Versioned
    QueueSize = 2
    Brisk = FALSE
    Prompt = TRUE
PROPERTIES NotificationsEmitted
CHECK_DEADLOCK FALSE
