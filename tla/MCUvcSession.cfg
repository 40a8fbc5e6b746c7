CONSTANTS
  UsPerMs = 2
  PpsPeriodMs = 10
  PpsWrapThresholdMs = 5
  PpsUpperMs = 9
  PpsLowerMs = 1
  MaxRawMs = 31
  LargeRelativeJumpUs = 30
  HostJumpSlackUs = 2
  Profiles = {"Mixed120x90", "Raw480x360", "PointCloud160x120"}
  FirstRawTimes = {8, 29}
  CaptureGapMs = 2
  HostTimes = {3, 9}
  CaptureLimit = 3
  BufferCount = 2
  Frames <- MCFrames
  NoFrame = NoFrame
SPECIFICATION Spec
INVARIANTS
  NothingLeaks
  BuffersConserved
  EmittedTimesIncrease
  NoPointCloudLost
  ReadyQueueDrained
  PairsCaptures
PROPERTY ImplementsSource
