\* The 32-bit counter scaled to 7 bits, one second to 10 ms of 2 us each.
CONSTANTS
  UsPerMs = 2
  PpsPeriodMs = 10
  PpsWrapThresholdMs = 5
  PpsUpperMs = 9
  PpsLowerMs = 1
  MaxRawMs = 127
  LargeRelativeJumpUs = 100
  HostJumpSlackUs = 10
  CounterFloorMs = 15
  WrapFloorMs = 86
  SampleTimes = {0, 1, 4, 9, 10, 12, 16, 62, 90, 127}
  HostTimes = {1, 30}
  OutputLimit = 40
SPECIFICATION Spec
INVARIANTS
  TypeOK
  LayersAgree
PROPERTIES
  StrictlyIncreasing
