SPECIFICATION FairSpec
CONSTANTS
    Readers = {r1, r2}
    Aliases = {ai0, do0}
    Analog = {ai0}
INVARIANTS DaemonHasDriver
PROPERTIES InputsAreFixed ControllerReturns StopReleasesReaders
