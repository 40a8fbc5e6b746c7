CONSTANTS
    Requests <- AllStreams
    Usable = {1, 2}
    Unusable = {3}
    Invalid = {4}
    InfoValues = {1, 2}
    BootstrapTicks = 2
    EventLimit = 3
SPECIFICATION FairSpec
INVARIANTS
    TypeOK
    FrameTellsLatest
    OrientedOnce
    SequenceCountsMeasurements
    BootstrapKeepsPromise
    ClosedIsBlank
    OneSourceOpen
PROPERTIES
    ImplementsSession
    OpenReturns
