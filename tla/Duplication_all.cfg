SPECIFICATION FairSpec
CONSTANTS
  Desktops = {"Default", "Winlogon"}
  MaxTries = 2
  MaxUpdates = 3
  MaxSwitches = 2
INVARIANTS
  NullOnlyAfterGivingUp
  StagedIsImage
PROPERTY
  ImageIsStaged
CHECK_DEADLOCK FALSE
