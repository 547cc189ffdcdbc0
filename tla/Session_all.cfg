SPECIFICATION FairSpec
INVARIANTS
  InputAfterReceiver
PROPERTIES
  QuitEndsBoth
  DeathEndsOther
CHECK_DEADLOCK FALSE
