CONSTANTS
  UsPerMs = 2
  PpsPeriodMs = 10
  PpsWrapThresholdMs = 5
  PpsUpperMs = 9
  PpsLowerMs = 1
  MaxRawMs = 31
  LargeRelativeJumpUs = 30
  HostJumpSlackUs = 2
  Profiles = {"Mixed120x90", "Raw480x360", "PointCloud160x120"}
  FirstRawTimes = {8, 29}
  CaptureGapMs = 2
  HostTimes = {3, 9}
  CaptureLimit = 4
  QueueLimit = 2
SPECIFICATION Spec
INVARIANT SameSample
