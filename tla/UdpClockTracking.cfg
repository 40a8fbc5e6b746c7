\* Seconds of 4 us, microseconds of 3 ns.
CONSTANTS
  NsPerUs = 3
  UsPerSec = 4
  MaxRawSec = 15
  LargeRelativeJumpUs = 8
  HostJumpSlackUs = 1
  EpochLowerSec = 12
  EpochUpperSec = 14
  MaxTrustedSkewUs = 8
  Fields = {}
  HostTimes = {2, 60}
  OutputLimit = 100
  SurplusLimit = 0
  GapsNs = {1, 5, 12, 16}
  DelaysNs = {0, 1, 2, 3, 7, 12}
  DeviceLimitNs = 60
  AcceptedLimit = 7
SPECIFICATION TrackingSpec
INVARIANTS
  DriftBounded
CHECK_DEADLOCK FALSE
