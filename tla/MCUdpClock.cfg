\* Seconds of 4 us, microseconds of 2 ns; the epoch is from 5 s to 12 s.
CONSTANTS
  NsPerUs = 2
  UsPerSec = 4
  MaxRawSec = 15
  LargeRelativeJumpUs = 16
  HostJumpSlackUs = 1
  EpochLowerSec = 5
  EpochUpperSec = 12
  MaxTrustedSkewUs = 8
  Fields <- MCFields
  HostTimes = {3, 22}
  OutputLimit = 40
  SurplusLimit = 3
SPECIFICATION Spec
INVARIANTS
  TypeOK
  OneClockPerSession
  EpochPassedOn
PROPERTIES
  TimestampsIncrease
  ModeFixed
