SPECIFICATION FairSpec
CONSTANTS
  FrameBytes = 3
  MaxFrames = 5
  Mode = "test"
INVARIANTS
  TypeOK
  TestModeNeverCollides
PROPERTIES
  StreamSpec
  CapturedIsShown
  LossStopsBoth
CHECK_DEADLOCK FALSE
