SPECIFICATION UseSpec
CONSTANTS
    Producers = {p1, p2}
    MaxQueue = 1
    WaitForQueue = FALSE
    InnerMayFail = TRUE
    MaxItems = 3
PROPERTIES PublishReturns
CHECK_DEADLOCK FALSE
