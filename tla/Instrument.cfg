SPECIFICATION BothSpec
CONSTANTS
    Controllers = {c1}
    Readers = {r1}
    Speakers = {}
    s1 = s1
    u1 = u1
    u2 = u2
    Users = {u1}
    InitialUsers <- OneUser
    Failing = {}
    FailingClose = {}
    MaxStarts = 3
INVARIANTS OneDaemon StopLeavesNothing RunningMeansServed CloseReachesAllF
PROPERTIES StopReleasesReaders StopReturnsF
