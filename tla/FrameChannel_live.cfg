SPECIFICATION Spec
CONSTANTS
  FrameBytes = 3
  MaxFrames = 3
  Mode = "live"
INVARIANTS
  FlagIsOneUnlessCollided
  ShownWholeInOrder
  WriteOnlyWhileWaiting
  SendFindsReceive
CHECK_DEADLOCK FALSE
