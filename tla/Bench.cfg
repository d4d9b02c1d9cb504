SPECIFICATION Spec
CONSTANTS
    t1 = t1
    t2 = t2
    None = None
    Threads = {t1, t2}
    Facades <- MCFacades
    Instruments <- MCInstruments
    Channels = {c1, c2}
    Named = {c1, c2}
    MaxErrors = 2
SYMMETRY Symmetry
INVARIANTS
    SuccessMeansDone
    RightSelection
    NobodySeesHalf
    NobodyStuck
