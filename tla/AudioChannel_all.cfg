SPECIFICATION FairSpec
CONSTANTS
  Samples = {s1, s2}
  MaxPackets = 4
  Receives = 2
INVARIANTS
  NoThrow
  SendFindsReceive
  NotOverwritten
PROPERTIES
  StreamSpec
  CapturedIsPlayed
CHECK_DEADLOCK FALSE
