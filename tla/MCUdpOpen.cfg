CONSTANTS
    ByteBits = 2
    TimeoutTicks = 5
    PollTicks = 2
    LinkFrames <- MCLinkFrames
    ForeignAddresses <- MCForeignAddresses

SPECIFICATION FairSpec

INVARIANTS
    ProbeWithinTimeout
    OwnConfigurationComplete
    CameraOnOwnNetwork

PROPERTIES
    LeavesForeignAddressAlone
    OpenReturns
