SPECIFICATION Spec
CONSTANTS
  FrameBytes = 2
  MaxFrames = 4
  Mode = "live"
INVARIANTS
  ReceivedFlagIsOne
CHECK_DEADLOCK FALSE
