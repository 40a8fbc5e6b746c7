CONSTANTS
    ByteBits = 2
    TimeoutTicks = 5
    PollTicks = 2
    LinkFrames <- MCLinkFrames
    ForeignAddresses <- MCForeignAddresses

SPECIFICATION Spec

INVARIANTS
    TimedOutMeansTimeElapsed
