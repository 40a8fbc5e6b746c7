CONSTANTS
    Requests <- DepthOnly
    Usable = {1}
    Unusable = {3}
    Invalid = {4}
    InfoValues = {1}
    BootstrapTicks = 2
    EventLimit = 2

SPECIFICATION Spec

INVARIANTS
    PointCloudAlwaysAvailable
