SPECIFICATION SamplesSpec
CONSTANTS
    Readers = {r1, r2}
    Channels = {c1}
    MaxLen = 2
    Lengths = {1, 2}
    Batches = {0, 1, 3}
    MaxClock = 4
    RingLength = 4
    RingBatches = {0, 1, 2, 3, 4, 5}
    MaxTotal = 12
    MaxStreams = 3
    MaxBlocks = 3
    MaxQueue = 2
    MaxInputs = 2
    PerChannel = 1
    Multiplier = 2
    Wrap = 10
    MaxCount = 14
    BlockLengths = {1, 2}
    Depth = 3
    MaxNow = 6
SYMMETRY ReaderSymmetry
INVARIANTS WindowIsNewest FreshMeansNew NoLostWakeup RingIsDeque StreamIsCurrent WindowIsWhole OneTimeline
