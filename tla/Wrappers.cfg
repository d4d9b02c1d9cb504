SPECIFICATION WrappersSpec
CONSTANTS
    Producers = {p1, p2}
    MaxQueue = 2
    WaitForQueue = TRUE
    InnerMayFail = TRUE
    MaxItems = 5
    Buffering = {t1}
    BufferSize = 2
    MaxGot = 9
    Threads = {t1, t2}
    Handles = {h1, h2, h3}
    First = h1
    NoOne = NoOne
    GcInCalls = TRUE
    MaxCalls = 4
INVARIANTS CloseFlushes NoLoss ClosedByLast
PROPERTIES ImplementsRelay CloseReturns BufferedIsRelay CallsReturn
CHECK_DEADLOCK FALSE
