SPECIFICATION FairSpec
CONSTANTS
    Readers = {r1, r2}
    Openers = {}
    NoOne = NoOne
INVARIANTS OneInSession CloseDropsSession
PROPERTIES CallsReturn Recovers
