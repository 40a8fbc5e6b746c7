\* The 32-bit counter scaled to 6 bits, one second to 10 ms of 2 us each.
CONSTANTS
  UsPerMs = 2
  PpsPeriodMs = 10
  PpsWrapThresholdMs = 5
  PpsUpperMs = 8
  PpsLowerMs = 2
  MaxRawMs = 63
  LargeRelativeJumpUs = 30
  HostJumpSlackUs = 2
  CounterFloorMs = 15
  WrapFloorMs = 50
  SampleTimes = {3, 7, 16, 61}
  HostTimes = {5, 20}
  OutputLimit = 46
  DeviceTimeLimit = 9
  RepeatLimit = 2
  LeapLimitMs = 20
SPECIFICATION TrackingSpec
INVARIANTS
  ExactTracking
  OutputNearTrackedTime
CHECK_DEADLOCK FALSE
