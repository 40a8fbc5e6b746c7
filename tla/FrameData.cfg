CONSTANTS
    DepthWidth = 5
    DepthHeight = 3
    GroupBins = 2
    HistogramHeight = 2
    InfTail = 50
    Prime = 101
    Iterations = 8
    Payloads <- MCPayloads
    IsMarker <- MCIsMarker
    IsDepth <- MCIsDepth

SPECIFICATION Spec

INVARIANTS
    ReadsWithinPayload
    FrameIsReflection
    DerivedCloudIsReflection
