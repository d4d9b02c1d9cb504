SPECIFICATION OneSpec
CONSTANTS
    Controllers = {c1}
    Readers = {}
    Speakers = {s1}
    s1 = s1
    u1 = u1
    u2 = u2
    Users = {u1, u2}
    InitialUsers <- OneUser
    Failing = {}
    FailingClose = {}
    MaxStarts = 1
INVARIANTS FanOutReachesAll
